SPECIFICATION Spec
CONSTANTS
  Numbers <- MCNumbers
  Texts <- MCTexts
  Main <- MainFile
  Library = "lib"
CHECK_DEADLOCK FALSE
INVARIANTS
  ReadAsWritten
  FilesInOrder
