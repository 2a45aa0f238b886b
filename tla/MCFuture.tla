---- MODULE MCFuture ----
(* Instances of Future for TLC. *)
EXTENDS Future
CONSTANTS a1, a2
Couple == {a1, a2}
====
