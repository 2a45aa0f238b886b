\* Threads are started and end at any time, and the registry may be full.
SPECIFICATION Spec
CONSTANTS
  m = m  a = a  b = b  c = c
  Threads <- All
  Initial <- Main
  Spawnable <- Workers
  Leavers <- Workers
  MaxThreads = 3
INVARIANTS OneDriver ContextKept
PROPERTIES ParkedUntilCleared
