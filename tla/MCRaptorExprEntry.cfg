SPECIFICATION Spec
CONSTANTS
  Byte <- MCByte
  Top <- MCTop
  Functions <- MCFunctions
  Globals <- MCGlobals
  Locals <- MCLocals
  Programs <- MCCalls
  Format = "exec"
  Rbp <- MCEntryRbp
  FrameSize <- MCFrameSize
  Memory <- MCEntryMemory
INVARIANT AlignedBeforeCall
CHECK_DEADLOCK FALSE
