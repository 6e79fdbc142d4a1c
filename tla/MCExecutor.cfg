SPECIFICATION Spec
CONSTANTS
  Disks <- MCDisks
  Main <- MainFile
  Builtins = {"malloc"}
  Word = 8
  MaxDepth = 7
CHECK_DEADLOCK FALSE
INVARIANTS
  ContextOfFrames
  RunsAsMeant
PROPERTY LoopsEnd
