SPECIFICATION Spec
CONSTANTS
  Locals <- MCLocals
  vartable <- MCvartable
  Instructions <- Wanted
  SyscallArguments <- MCSyscallArguments
  Callees <- MCCallees
  MaxStatements = 1
INVARIANTS
  Decodes
  FieldsFound
CHECK_DEADLOCK FALSE
