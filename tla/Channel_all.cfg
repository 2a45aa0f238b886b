\* Two senders and two receivers on a rendezvous channel or a buffer of two,
\* closed and freed at any time.
SPECIFICATION FairSpec
CONSTANTS
  s1 = s1  s2 = s2  q1 = q1  q2 = q2
  Senders <- TwoSenders
  Receivers <- TwoReceivers
  Capacities <- Both
  MaxSends = 2
INVARIANTS NoLostWakeup HandlesOnTheirWay
PROPERTIES FirstInFirstOut SendMeansTaken CloseReleases
CHECK_DEADLOCK FALSE
