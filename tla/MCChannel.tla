---- MODULE MCChannel ----
(* Instances of Channel for TLC. *)
EXTENDS Channel
CONSTANTS s1, s2, q1, q2
TwoSenders == {s1, s2}
TwoReceivers == {q1, q2}
OneReceiver == {q1}
Both == {0, 2}
====
