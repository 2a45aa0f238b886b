---- MODULE MCPgcHeap ----
(* An instance of PgcHeap for TLC. *)
EXTENDS PgcHeap, TLC
CONSTANTS t1, t2, r1, r2
Two == {t1, t2}
Both == {r1, r2}
\* With buffers of six words: a cell leaves a tail of one, an object without a payload
\* one of three, and an array goes past the buffers.
AllShapes == {<<Cell, 2>>, <<Closure, 0>>, <<Pairs, 4>>}
TwoTags == {1, 2}
ASSUME ShapesTellApart == Distinguishable
\* Threads and roots may trade places.
Swaps == Permutations(Two) \cup Permutations(Both)
====
