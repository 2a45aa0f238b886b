\* A fixed crew: every thread attached from the start and none leaves.
SPECIFICATION FairSpec
CONSTANTS
  m = m  a = a  b = b  c = c
  Threads <- All
  Initial <- All
  Spawnable <- None
  Leavers <- None
  MaxThreads = 4
INVARIANTS WorldStopped RootsCurrent
PROPERTIES CycleEnds AllResume
