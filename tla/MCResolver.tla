---- MODULE MCResolver ----
(* An instance of Resolver: three registry packages with two versions each, a local
   and a gated package; the dependency tables of a and c vary, so that choices are
   lowered in later passes. The second version of b may require the local package in a
   way that does not parse. *)
EXTENDS Resolver, TLC
CONSTANTS a, b, c, l, g

Names == {a, b, c, l, g}
\* c is looked at before the packages that require it.
Order == (c :> 1) @@ (a :> 2) @@ (b :> 3) @@ (l :> 4) @@ (g :> 5)
TwoVersions == {1, 2}

Free == <<>>
Wants(p, r) == p :> r
Needs(p) == {Free, Wants(p, {1})}
ATables == {Wants(c, {1}), Wants(c, {1, 2})}
BadTable == Wants(l, Invalid)
PublishedTables == ATables \cup Needs(a) \cup Needs(b) \cup Needs(c) \cup {BadTable}
Projects == {Wants(a, {1, 2}) @@ Wants(b, {1, 2}),
             Wants(l, Local) @@ Wants(a, {1, 2}),
             Wants(g, {1}) @@ Wants(c, {1, 2})}
AllTables == Projects \cup {Wants(b, {1, 2})}
LocalTables == Wants(l, Wants(b, {1, 2}))
Gated1 == {g}

Entry(v, deps) == [version |-> v, yanked |-> FALSE, tooNew |-> FALSE, deps |-> deps]
\* b has one version, or a second, which may need a newer compiler or be unreadable.
BEntries == {{Entry(1, b1)} : b1 \in Needs(a)}
  \cup {{Entry(1, b1), Entry(2, b2)} : b1 \in Needs(a), b2 \in Needs(c)}
  \cup {{Entry(1, Free), [Entry(2, Free) EXCEPT !.tooNew = TRUE]}}
  \cup {{Entry(1, Free), Entry(2, BadTable)}}
AllRegistries ==
  {(a :> {Entry(1, Wants(c, {1, 2})), Entry(2, a2)}) @@ (b :> bs)
     @@ (c :> {Entry(1, c1), Entry(2, c2)}) @@ (l :> {}) @@ (g :> {})
   : a2 \in ATables, bs \in BEntries, c1 \in Needs(b), c2 \in Needs(a)}
====
