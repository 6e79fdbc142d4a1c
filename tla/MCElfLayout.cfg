CONSTANTS
  SectionNames <- MCSectionNames
  Tables <- MCTables
SPECIFICATION Spec
INVARIANTS
  TypeOK
  LoadedWhereMapped
  SegmentsCover
  FileMatchesHeaders
PROPERTY
  Packed
CHECK_DEADLOCK FALSE
