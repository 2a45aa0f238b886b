---- MODULE MCPgcWorld ----
(* Instances of PgcWorld for TLC: a main thread m and workers a, b, c. *)
EXTENDS PgcWorld
CONSTANTS m, a, b, c
Main == {m}
Workers == {a, b, c}
All == {m, a, b, c}
None == {}
====
