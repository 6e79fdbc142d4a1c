SPECIFICATION Spec
CONSTANTS
  Byte <- MCByte
  Top <- MCTop
  Functions <- MCFunctions
  Globals <- MCGlobals
  Locals <- MCLocals
  Programs <- MCPrograms
  Format = "exec"
  Rbp <- MCRbp
  FrameSize <- MCFrameSize
  Memory <- MCMemory
INVARIANTS
  ResultsRight
  StackKept
  CallsAligned
CHECK_DEADLOCK FALSE
