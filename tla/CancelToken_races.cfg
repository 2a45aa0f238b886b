\* Three registrations and two threads that cancel, in any order.
SPECIFICATION FairSpec
CONSTANTS
  g1 = g1  g2 = g2  g3 = g3  k1 = k1  k2 = k2
  Registrars <- ThreeRegistrars
  Cancellers <- TwoCancellers
INVARIANTS HandlesOnTheirWay RunsOnce
PROPERTIES LastRegisteredRuns
CHECK_DEADLOCK FALSE
