---- MODULE MCCancelToken ----
(* Instances of CancelToken for TLC. *)
EXTENDS CancelToken
CONSTANTS g1, g2, g3, k1, k2
ThreeRegistrars == {g1, g2, g3}
TwoCancellers == {k1, k2}
====
