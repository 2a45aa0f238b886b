---- MODULE MCPgcHandles ----
(* Instances of PgcHandles for TLC. *)
EXTENDS PgcHandles, TLC
CONSTANTS o1, o2, a1, a2, a3, null, none
SomeObjects == {o1, o2}
SomeAddresses == {a1, a2, a3}
\* Objects may trade names, and so may addresses.
Swaps == Permutations(SomeObjects) \cup Permutations(SomeAddresses)
====
