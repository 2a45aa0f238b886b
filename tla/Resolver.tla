---- MODULE Resolver ----
(* One dependency resolution against the package registry:
   crates/peko-cli/src/registry/resolver.rs, with the index fetch of client.rs.

   A version requirement is the set of versions it admits. A dependency table maps
   names to requirements, or to Local for a path dependency; that of an index entry may
   have requirements that do not parse. An index is a set of entries, one per version;
   a yank replaces one. The registry may change, and the network may fail or answer
   with something else, between two fetches of one resolution. *)
EXTENDS Integers, FiniteSets

CONSTANTS Packages,     \* every name a dependency table may use
          NameRank,     \* the order of a BTreeMap's keys
          Versions,     \* version numbers, ordered as semver orders them
          Tables,       \* the dependency tables of projects
          Published,    \* those of published entries, which have no path dependency
          LocalTable,   \* of each package that exists as a local directory, its table
          GatedPackages,\* proprietary packages: in no index, known to the platform
          Registries,   \* the registry contents to start from
          MaxEvents,    \* bound on yanks and publications during the run
          Local,
          Invalid,      \* a requirement that does not parse
          Garbled       \* an index body that does not parse

Requirements == SUBSET Versions
Entries == [version : Versions, yanked : BOOLEAN, tooNew : BOOLEAN, deps : Published]
Indices == SUBSET Entries

ASSUME ResolverAssumption ==
  /\ Versions \subseteq Nat /\ IsFiniteSet(Versions) /\ Versions # {}
  /\ IsFiniteSet(Packages)
  /\ NameRank \in [Packages -> Nat]
  /\ \A p, q \in Packages : NameRank[p] = NameRank[q] => p = q
  /\ \A t \in Tables : /\ DOMAIN t \subseteq Packages
                       /\ \A p \in DOMAIN t : t[p] \in {Local} \cup Requirements
  /\ \A t \in Published : /\ DOMAIN t \subseteq Packages
                          /\ \A p \in DOMAIN t : t[p] \in {Invalid} \cup Requirements
  /\ DOMAIN LocalTable \subseteq Packages
  /\ \A p \in DOMAIN LocalTable : LocalTable[p] \in Tables
  /\ GatedPackages \subseteq Packages
  /\ Registries \subseteq [Packages -> Indices]
  /\ MaxEvents \in Nat
  /\ \A r \in Requirements : Local # r /\ Invalid # r
  /\ Local # Invalid

VARIABLES
  index,        \* the registry: of each package its published entries, {} if unknown
  events,       \* yanks and publications so far
  cached,       \* the index bodies in the local cache, which may be Garbled
  pc,           \* "idle", "pass" or "name" while resolving, "done" or "failed"
  root,         \* the dependency table of the project being resolved
  requirements, \* ResolveState: requirements seen of each package
  paths,        \* ResolveState: path dependencies
  chosen,       \* ResolveState: the chosen entry of each registry package
  indices,      \* ResolveState: entries fetched by this resolution
  gated,        \* ResolveState: packages resolved as gated
  todo,         \* names the running pass has still to look at
  changed,      \* refine: whether the running pass changed anything
  passes,       \* passes begun
  error         \* why a resolution failed

registry == <<index, events>>
state == <<requirements, paths, chosen, indices, gated>>
vars == <<index, events, cached, pc, root, requirements, paths, chosen, indices,
          gated, todo, changed, passes, error>>

---------------------------------------------------------------------------
(* Helpers. *)

\* BTreeMap::new and BTreeMap::insert.
EmptyMap == [k \in {} |-> k]
Put(map, key, value) ==
  [k \in DOMAIN map \cup {key} |-> IF k = key THEN value ELSE map[k]]

\* The path dependencies of a table.
Direct(table) == {p \in DOMAIN table : table[p] = Local}

\* The path dependencies a table leads to, directly or through local manifests: seed
\* and seed_path, each name once. A directory without a manifest that loads is in it, and
\* refused by Seed.
ClosedUnderPaths(table, s) ==
  Direct(table) \subseteq s /\ \A q \in s \cap DOMAIN LocalTable : Direct(LocalTable[q]) \subseteq s
PathClosure(table) ==
  {p \in Packages : \A s \in SUBSET Packages : ClosedUnderPaths(table, s) => p \in s}

\* The requirements of the root table and of the local packages it leads to.
SeedRequirements(table) ==
  LET tables == {table} \cup {LocalTable[p] : p \in PathClosure(table)}
  IN  [p \in Packages |->
         {t[p] : t \in {u \in tables : p \in DOMAIN u /\ u[p] # Local}}]

\* add_requirement, for each dependency of a newly chosen entry that is not a path
\* dependency of the project.
AddRequirements(reqs, deps, local) ==
  [p \in Packages |->
     IF p \in DOMAIN deps \ local THEN reqs[p] \cup {deps[p]} ELSE reqs[p]]

\* The dependencies of an entry whose requirements are needed and do not parse.
Unreadable(deps) == {d \in DOMAIN deps \ paths : deps[d] = Invalid}

\* The dependencies of an entry that come before them.
ReadFirst(deps) ==
  {d \in DOMAIN deps : \A u \in Unreadable(deps) : NameRank[d] < NameRank[u]}

\* Variant for mutation: yanked versions are candidates too.
CandidatesYanked(entries, reqs) ==
  {e \in entries : ~e.tooNew /\ \A r \in reqs : e.version \in r}

\* The entries pick_version may choose from.
Candidates(entries, reqs) ==
  {e \in entries : ~e.yanked /\ ~e.tooNew /\ \A r \in reqs : e.version \in r}

\* pick_version: the highest.
Picks(entries, reqs) ==
  {e \in Candidates(entries, reqs) :
     \A f \in Candidates(entries, reqs) : f.version <= e.version}

\* A name refine looks at next: the keys in order.
IsNext(p) == p \in todo /\ \A q \in todo : NameRank[p] <= NameRank[q]

Named == {p \in Packages : requirements[p] # {}}
Resolving == pc \in {"pass", "name"}

\* A resolution's answer satisfies a requirement of one of its packages.
Meets(p, requirement) ==
  \/ p \in paths
  \/ /\ requirement \notin {Local, Invalid}
     /\ p \in gated \/ (p \in DOMAIN chosen /\ chosen[p].version \in requirement)

---------------------------------------------------------------------------
(* The registry's side. *)

Init ==
  /\ index \in Registries
  /\ events = 0
  /\ cached = EmptyMap
  /\ pc = "idle"
  /\ root \in Tables
  /\ requirements = [p \in Packages |-> {}]
  /\ paths = {} /\ gated = {}
  /\ chosen = EmptyMap
  /\ indices = EmptyMap
  /\ todo = {} /\ changed = FALSE /\ passes = 0 /\ error = "none"

\* A published version is yanked, or the yank is withdrawn.
Yank(p, e) ==
  /\ events < MaxEvents
  /\ e \in index[p]
  /\ index' = [index EXCEPT ![p] = (@ \ {e}) \cup {[e EXCEPT !.yanked = ~@]}]
  /\ events' = events + 1
  /\ UNCHANGED <<cached, pc, root, state, todo, changed, passes, error>>

\* A new version of a known package is published.
Publish(p, v, deps) ==
  /\ events < MaxEvents
  /\ index[p] # {} /\ \A e \in index[p] : e.version # v
  /\ index' = [index EXCEPT ![p] = @ \cup
                 {[version |-> v, yanked |-> FALSE, tooNew |-> FALSE, deps |-> deps]}]
  /\ events' = events + 1
  /\ UNCHANGED <<cached, pc, root, state, todo, changed, passes, error>>

---------------------------------------------------------------------------
(* The resolver's side. *)

\* resolve, up to the first pass: the state is made afresh and seeded.
Seed ==
  /\ pc = "idle"
  /\ LET local == PathClosure(root)
     IN  IF local \subseteq DOMAIN LocalTable
         THEN /\ requirements' = SeedRequirements(root)
              /\ paths' = local
              /\ pc' = "pass" /\ UNCHANGED error
         ELSE /\ pc' = "failed" /\ error' = "invalid_path"
              /\ UNCHANGED <<requirements, paths>>
  /\ UNCHANGED <<registry, cached, root, chosen, indices, gated, todo, changed, passes>>

\* The head of the loop in resolve: another pass, over the names known now. The loop's
\* limit of MAX_PASSES, 1000, is left out: FewPasses bounds the passes there are.
BeginPass ==
  /\ pc = "pass"
  /\ pc' = "name"
  /\ todo' = Named /\ changed' = FALSE /\ passes' = passes + 1
  /\ UNCHANGED <<registry, cached, root, state, error>>

\* Variant for mutation: the loop continues without going on to the next name.
SkipNameStuck(p) ==
  /\ pc = "name" /\ IsNext(p)
  /\ p \in paths \cup gated
  /\ UNCHANGED vars

\* refine passes over a path dependency or a package already known to be gated.
SkipName(p) ==
  /\ pc = "name" /\ IsNext(p)
  /\ p \in paths \cup gated
  /\ todo' = todo \ {p}
  /\ UNCHANGED <<registry, cached, pc, root, state, changed, passes, error>>

\* read_index_cache, where the body parses.
Readable(p) == {cached[q] : q \in {p} \cap DOMAIN cached} \ {Garbled}

\* Variant for mutation: the index is fetched again in every pass.
FetchedAgain(p) == ({index[p]} \ {{}}) \cup Readable(p)

\* What ensure_index may answer with: this resolution's copy, else the registry's
\* index, else, when the registry cannot be reached, the cached body.
Fetched(p) ==
  IF p \in DOMAIN indices THEN {indices[p]}
  ELSE ({index[p]} \ {{}}) \cup Readable(p)

\* fetch_index writes the body it fetched to the cache.
CachedAfter(p, entries) ==
  IF p \notin DOMAIN indices /\ entries = index[p] THEN Put(cached, p, entries) ELSE cached

\* Variant for mutation: a choice made again counts as a change.
KeepChoiceCounted(p) ==
  /\ pc = "name" /\ IsNext(p) /\ p \notin paths \cup gated
  /\ \E entries \in Fetched(p) : \E e \in Picks(entries, requirements[p]) :
       /\ p \in DOMAIN chosen /\ chosen[p].version = e.version
       /\ indices' = Put(indices, p, entries)
       /\ cached' = CachedAfter(p, entries)
  /\ todo' = todo \ {p} /\ changed' = TRUE
  /\ UNCHANGED <<registry, pc, root, requirements, paths, chosen, gated, passes, error>>

\* refine settles a name whose choice does not change.
KeepChoice(p) ==
  /\ pc = "name" /\ IsNext(p) /\ p \notin paths \cup gated
  /\ \E entries \in Fetched(p) : \E e \in Picks(entries, requirements[p]) :
       /\ p \in DOMAIN chosen /\ chosen[p].version = e.version
       /\ indices' = Put(indices, p, entries)
       /\ cached' = CachedAfter(p, entries)
  /\ todo' = todo \ {p}
  /\ UNCHANGED <<registry, pc, root, requirements, paths, chosen, gated, changed,
                 passes, error>>

\* Variant for mutation: only a package's first choice counts as a change.
ChooseVersionFirst(p) ==
  /\ pc = "name" /\ IsNext(p) /\ p \notin paths \cup gated
  /\ \E entries \in Fetched(p) : \E e \in Picks(entries, requirements[p]) :
       /\ p \in DOMAIN chosen => chosen[p].version # e.version
       /\ Unreadable(e.deps) = {}
       /\ chosen' = Put(chosen, p, e)
       /\ requirements' = AddRequirements(requirements, e.deps, paths)
       /\ indices' = Put(indices, p, entries)
       /\ cached' = CachedAfter(p, entries)
  /\ changed' = (changed \/ p \notin DOMAIN chosen)
  /\ todo' = todo \ {p}
  /\ UNCHANGED <<registry, pc, root, paths, gated, passes, error>>

\* refine chooses another version of a package and takes over its requirements. Those
\* of the version it replaces stay.
ChooseVersion(p) ==
  /\ pc = "name" /\ IsNext(p) /\ p \notin paths \cup gated
  /\ \E entries \in Fetched(p) : \E e \in Picks(entries, requirements[p]) :
       /\ p \in DOMAIN chosen => chosen[p].version # e.version
       /\ Unreadable(e.deps) = {}
       /\ chosen' = Put(chosen, p, e)
       /\ requirements' = AddRequirements(requirements, e.deps, paths)
       /\ indices' = Put(indices, p, entries)
       /\ cached' = CachedAfter(p, entries)
  /\ changed' = TRUE
  /\ todo' = todo \ {p}
  /\ UNCHANGED <<registry, pc, root, paths, gated, passes, error>>

\* refine fails on a requirement of the version it would choose, after those before it.
BadRequirement(p) ==
  /\ pc = "name" /\ IsNext(p) /\ p \notin paths \cup gated
  /\ \E entries \in Fetched(p) : \E e \in Picks(entries, requirements[p]) :
       /\ p \in DOMAIN chosen => chosen[p].version # e.version
       /\ Unreadable(e.deps) # {}
       /\ requirements' = AddRequirements(requirements,
                            [d \in ReadFirst(e.deps) |-> e.deps[d]], paths)
       /\ indices' = Put(indices, p, entries)
       /\ cached' = CachedAfter(p, entries)
  /\ changed' = TRUE
  /\ pc' = "failed" /\ error' = "invalid_version"
  /\ UNCHANGED <<registry, root, paths, chosen, gated, todo, passes>>

\* refine finds no index of the package, and the platform knows it as gated.
ChooseGated(p) ==
  /\ pc = "name" /\ IsNext(p) /\ p \notin paths \cup gated
  /\ p \notin DOMAIN indices /\ index[p] = {} /\ p \in GatedPackages
  /\ gated' = gated \cup {p}
  /\ changed' = TRUE
  /\ todo' = todo \ {p}
  /\ UNCHANGED <<registry, cached, pc, root, requirements, paths, chosen, indices,
                 passes, error>>

\* refine fails for want of a version: Conflict or NoMatchingVersion of pick_version.
NoVersion(p) ==
  /\ pc = "name" /\ IsNext(p) /\ p \notin paths \cup gated
  /\ \E entries \in Fetched(p) :
       /\ Picks(entries, requirements[p]) = {}
       /\ indices' = Put(indices, p, entries)
       /\ cached' = CachedAfter(p, entries)
  /\ pc' = "failed"
  /\ error' = IF Cardinality(requirements[p]) > 1 THEN "conflict" ELSE "no_match"
  /\ UNCHANGED <<registry, root, requirements, paths, chosen, gated, todo, changed, passes>>

\* refine fails for want of an index: not found, an HTTP error, no network and no cached
\* body, or a body that was lost on the way.
NoIndex(p) ==
  /\ pc = "name" /\ IsNext(p) /\ p \notin paths \cup gated
  /\ p \notin DOMAIN indices
  /\ pc' = "failed"
  /\ error' \in {"http", "network"} \cup (IF index[p] = {} THEN {"not_found"} ELSE {})
  /\ UNCHANGED <<registry, cached, root, state, todo, changed, passes>>

\* refine fails on an index that does not parse. One that was fetched is in the cache
\* before it is parsed; without the network, the cached one is parsed.
BadIndex(p) ==
  /\ pc = "name" /\ IsNext(p) /\ p \notin paths \cup gated
  /\ p \notin DOMAIN indices
  /\ \/ cached' = Put(cached, p, Garbled)
     \/ p \in DOMAIN cached /\ cached[p] = Garbled /\ UNCHANGED cached
  /\ pc' = "failed" /\ error' = "parse"
  /\ UNCHANGED <<registry, root, state, todo, changed, passes>>

\* The pass is over: another one if it changed anything, else the fixpoint.
EndPass ==
  /\ pc = "name" /\ todo = {}
  /\ pc' = IF changed THEN "pass" ELSE "done"
  /\ UNCHANGED <<registry, cached, root, state, todo, changed, passes, error>>

\* The answer is used, or the error reported; a later resolution starts afresh, of the
\* same project or another.
Return ==
  /\ pc \in {"done", "failed"}
  /\ pc' = "idle"
  /\ root' \in Tables
  /\ requirements' = [p \in Packages |-> {}]
  /\ paths' = {} /\ gated' = {}
  /\ chosen' = EmptyMap
  /\ indices' = EmptyMap
  /\ todo' = {} /\ changed' = FALSE /\ passes' = 0 /\ error' = "none"
  /\ UNCHANGED <<registry, cached>>

\* refine, for one name.
Refine(p) == \/ SkipName(p) \/ KeepChoice(p) \/ ChooseVersion(p) \/ ChooseGated(p)
             \/ BadRequirement(p) \/ NoVersion(p) \/ NoIndex(p) \/ BadIndex(p)

Resolve == \/ Seed \/ BeginPass \/ EndPass
           \/ \E p \in Packages : Refine(p)

Next ==
  \/ Resolve \/ Return
  \/ \E p \in Packages : \/ \E e \in index[p] : Yank(p, e)
                         \/ \E v \in Versions, deps \in Published : Publish(p, v, deps)

Spec == Init /\ [][Next]_vars

\* The resolver runs alone in its process and every fetch answers or fails: the client
\* has a timeout for connecting, and none for an answer (client.rs:46-50).
FairSpec == Spec /\ WF_vars(Resolve)

---------------------------------------------------------------------------
(* Properties. *)

\* The values of the state; at rest a resolution's state is empty.
TypeOK ==
  /\ index \in [Packages -> Indices]
  /\ events \in 0..MaxEvents
  /\ DOMAIN cached \subseteq Packages /\ cached \in [DOMAIN cached -> Indices \cup {Garbled}]
  /\ pc \in {"idle", "pass", "name", "done", "failed"}
  /\ root \in Tables
  /\ requirements \in [Packages -> SUBSET Requirements]
  /\ paths \subseteq Packages /\ gated \subseteq Packages
  /\ DOMAIN chosen \subseteq Packages /\ chosen \in [DOMAIN chosen -> Entries]
  /\ DOMAIN indices \subseteq Packages /\ indices \in [DOMAIN indices -> Indices]
  /\ todo \subseteq Packages /\ changed \in BOOLEAN /\ passes \in Nat
  /\ error \in {"none", "invalid_path", "conflict", "no_match", "http",
                "not_found", "network", "invalid_version", "parse"}
  /\ pc = "idle" => /\ chosen = EmptyMap /\ indices = EmptyMap /\ gated = {} /\ passes = 0
                    /\ requirements = [p \in Packages |-> {}]

\* An answer is closed: every dependency of the project, of its path dependencies and
\* of every chosen entry is in it, at a version the requirement admits, although
\* choices were replaced on the way (refine, into_resolved), and none was chosen whose
\* requirements could not be read.
AnswerClosed ==
  pc = "done" =>
    /\ \A p \in DOMAIN root : Meets(p, root[p])
    /\ \A q \in paths : \A p \in DOMAIN LocalTable[q] : Meets(p, LocalTable[q][p])
    /\ \A q \in DOMAIN chosen : \A p \in DOMAIN chosen[q].deps :
         Meets(p, chosen[q].deps[p])

\* An answer has no version that was yanked, or needs a newer compiler, in the index
\* this resolution read, and none that a higher acceptable version should have
\* displaced (pick_version).
AnswerBest ==
  pc = "done" =>
    \A p \in DOMAIN chosen :
      /\ ~chosen[p].yanked /\ ~chosen[p].tooNew
      /\ \A e \in Candidates(indices[p], requirements[p]) : e.version <= chosen[p].version

\* Within one resolution a choice is only ever replaced by a lower version: what makes
\* the passes of resolve end.
NeverRises ==
  [][Resolving =>
       \A p \in DOMAIN chosen :
         /\ p \in DOMAIN chosen'
         /\ chosen'[p].version <= chosen[p].version]_vars

\* A resolution takes at most one pass for each choice that can be made or lowered, and
\* one that changes nothing: the backstop of MAX_PASSES ends none with fewer than that.
FewPasses == passes <= 1 + Cardinality(Packages) * Cardinality(Versions)

\* Every resolution ends, with an answer or an error.
ResolutionEnds == Resolving ~> (pc \in {"done", "failed"})
====
