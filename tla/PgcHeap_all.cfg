\* Two threads that come and go; objects with a field, without a payload, and arrays
\* too large for a buffer.
SPECIFICATION HeapSpec
CONSTANTS
  t1 = t1  t2 = t2  r1 = r1  r2 = r2
  Base = 100  HeapWords = 12  TlabWords = 6
  Mutators <- Two
  Roots <- Both
  Shapes <- AllShapes
  Tags <- TwoTags
  MayLeave = TRUE
SYMMETRY Swaps
INVARIANTS HeapWalkable RoomIsFree
PROPERTIES CollectReclaims Transparent
