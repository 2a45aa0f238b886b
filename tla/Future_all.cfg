\* Two awaiters, timed or not, awaiting twice; cancelled and freed at any time.
SPECIFICATION FairSpec
CONSTANTS
  a1 = a1  a2 = a2
  Awaiters <- Couple
  MaxAwaits = 2
INVARIANTS HandleHasOneHolder NoneExplained
PROPERTIES AwaitReturns
CHECK_DEADLOCK FALSE
