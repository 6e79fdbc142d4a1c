SPECIFICATION Spec
CONSTANTS
  Byte = 4
  Cells = 20
  StackCells = 3
  Instructions <- MCInstructions
  Addresses <- MCAddresses
  MaxSteps = 5
INVARIANTS
  Readable
  HeapAccounted
  RegistersCoherent
PROPERTY
  StackRefines
CHECK_DEADLOCK FALSE
