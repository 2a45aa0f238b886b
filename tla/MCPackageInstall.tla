---- MODULE MCPackageInstall ----
(* An instance of PackageInstall: two projects that share a package, whose second
   version depends on a gated one; in the first project a path dependency may override
   the registry package. *)
EXTENDS PackageInstall, TLC
CONSTANTS j1, j2, a, g, l

TwoProjects == {j1, j2}
Names == {a, g, l}
TwoVersions == {1, 2}
NoTable == <<>>
Both == a :> {1, 2}
Second == a :> {2}
Overriding == (l :> Local) @@ Both
Manifests == {NoTable, Both, Second, Overriding}
ManifestsOf == (j1 :> {NoTable, Second, Overriding}) @@ (j2 :> {Both})
Locals == (l :> (a :> Local)) @@ (a :> NoTable)
Published == (<<a, 1>> :> NoTable) @@ (<<a, 2>> :> (g :> {1}))
Gateds == {g}
Alphabet == (a :> 1) @@ (g :> 2) @@ (l :> 3)
====
