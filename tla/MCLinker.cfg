CONSTANTS
  Programs <- MCPrograms
  Hash <- MCHash
SPECIFICATION Spec
INVARIANTS
  AbortsIffUnresolved
  SymbolsCorrect
  NamesFound
  CallsLand
  SectionsFinal
CHECK_DEADLOCK FALSE
