CONSTANTS
  a = a
  b = b
  v = v
  w = w
  x = x
  y = y
  l = l
  f = f
  NoLabel = NoLabel
  Default = Default
  Done = Done
  Junk = Junk
  Nowhere = Nowhere
  Names = {v, w, x, y}
  Programs <- MCPrograms
  Values = {v1, v2}
  Tags = {a, b}
SPECIFICATION Spec
INVARIANTS
  JumpsReachTarget
  RelocsOnCalls
  SlotOfItsOwn
  SlotsPlaced
PROPERTY
  Structured
CHECK_DEADLOCK FALSE
