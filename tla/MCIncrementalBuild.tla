---- MODULE MCIncrementalBuild ----
(* An instance of IncrementalBuild: main may import lib and util, lib may import util,
   and a second text of util breaks a lib that uses it. *)
EXTENDS IncrementalBuild, TLC
CONSTANTS main, lib, util, arm, intel, debug, release
All == {main, lib, util}
Both == {arm, intel}
Contents == {"alone", "uses lib and util", "uses lib", "plain", "uses util", "old api", "new api"}
MayWrite == (main :> {"alone", "uses lib", "uses lib and util"}) @@ (lib :> {"plain", "uses util"})
            @@ (util :> {"old api", "new api"})
ImportsIn ==
  [text \in Contents |-> CASE text = "uses lib and util" -> {lib, util}
                           [] text = "uses lib" -> {lib}
                           [] text = "uses util" -> {util}
                           [] OTHER -> {}]
ApiBreak == {<<"uses util", "new api">>}
OneOrBoth == {<<arm>>, <<arm, intel>>}
Identities == Permutations({debug, release})
====
