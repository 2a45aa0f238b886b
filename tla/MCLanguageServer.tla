---- MODULE MCLanguageServer ----
(* An instance of LanguageServer: a file main that imports lib, a file of an external
   package. *)
EXTENDS LanguageServer, TLC
CONSTANTS main, lib, h1, h2
Both == {main, lib}
MainImportsLib == (main :> {lib}) @@ (lib :> {})
Lib == {lib}
None == {}
TwoTexts == {1, 2}
TwoHandlers == {h1, h2}
Swaps == Permutations(TwoHandlers)
====
