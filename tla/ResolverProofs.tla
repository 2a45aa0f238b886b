---- MODULE ResolverProofs ----
(* Theorems about Resolver, for any registry, any projects and any changes to the
   registry during a resolution: an answer is closed and best, choices only fall, and a
   resolution takes no more passes than there are choices to make. *)
EXTENDS Resolver, FiniteSetTheorems, TLAPS

\* The map operations keep a map a map.
LEMMA EmptyMapType == ASSUME NEW S PROVE DOMAIN EmptyMap = {} /\ EmptyMap \in [{} -> S]
  BY DEF EmptyMap

LEMMA PutType ==
  ASSUME NEW D, NEW S, NEW map, DOMAIN map \subseteq D, map \in [DOMAIN map -> S],
         NEW key \in D, NEW value \in S
  PROVE  /\ DOMAIN Put(map, key, value) = DOMAIN map \cup {key}
         /\ DOMAIN Put(map, key, value) \subseteq D
         /\ Put(map, key, value) \in [DOMAIN Put(map, key, value) -> S]
         /\ Put(map, key, value)[key] = value
         /\ \A k \in DOMAIN map : k # key => Put(map, key, value)[k] = map[k]
  BY DEF Put

\* A published entry's dependency table holds requirements only.
LEMMA PublishedTable ==
  ASSUME NEW t \in Published
  PROVE  /\ DOMAIN t \subseteq Packages
         /\ \A p \in DOMAIN t : t[p] # Local /\ (t[p] # Invalid => t[p] \in Requirements)
  BY ResolverAssumption DEF ResolverAssumption

\* Requirements seeded from the project and added by entries are requirements.
LEMMA SeedType ==
  ASSUME NEW table \in Tables, PathClosure(table) \subseteq DOMAIN LocalTable
  PROVE  /\ PathClosure(table) \subseteq Packages
         /\ SeedRequirements(table) \in [Packages -> SUBSET Requirements]
<1> DEFINE tables == {table} \cup {LocalTable[p] : p \in PathClosure(table)}
<1>1. tables \subseteq Tables
  BY ResolverAssumption DEF ResolverAssumption
<1>2. ASSUME NEW t \in tables, NEW p \in DOMAIN t, t[p] # Local
      PROVE  t[p] \in Requirements
  BY <1>1, <1>2, ResolverAssumption DEF ResolverAssumption
<1>3. SeedRequirements(table) =
        [p \in Packages |-> {t[p] : t \in {u \in tables : p \in DOMAIN u /\ u[p] # Local}}]
  BY DEF SeedRequirements
<1>4. ASSUME NEW p \in Packages
      PROVE  {t[p] : t \in {u \in tables : p \in DOMAIN u /\ u[p] # Local}} \in SUBSET Requirements
  BY <1>2
<1>5. PathClosure(table) \subseteq Packages
  BY DEF PathClosure
<1> QED
  BY <1>3, <1>4, <1>5

LEMMA AddType ==
  ASSUME NEW reqs \in [Packages -> SUBSET Requirements], NEW deps, NEW local,
         \A p \in DOMAIN deps \ local : p \in Packages /\ deps[p] \in Requirements
  PROVE  /\ AddRequirements(reqs, deps, local) \in [Packages -> SUBSET Requirements]
         /\ \A p \in Packages : reqs[p] \subseteq AddRequirements(reqs, deps, local)[p]
         /\ \A p \in DOMAIN deps \ local : deps[p] \in AddRequirements(reqs, deps, local)[p]
         /\ (\A p \in DOMAIN deps \ local : deps[p] \in reqs[p])
              => AddRequirements(reqs, deps, local) = reqs
  BY DEF AddRequirements

\* The requirements a choice takes over can be read.
LEMMA ReadableType ==
  ASSUME NEW deps \in Published, Unreadable(deps) = {}
  PROVE  \A p \in DOMAIN deps \ paths : p \in Packages /\ deps[p] \in Requirements
  BY PublishedTable DEF Unreadable

\* What a fetch may answer with is an index, this resolution's if it has one.
LEMMA FetchedType ==
  ASSUME TypeOK, NEW p \in Packages, NEW entries \in Fetched(p)
  PROVE  /\ entries \in Indices
         /\ p \in DOMAIN indices => entries = indices[p]
         /\ DOMAIN CachedAfter(p, entries) \subseteq Packages
         /\ CachedAfter(p, entries) \in [DOMAIN CachedAfter(p, entries) -> Indices \cup {Garbled}]
<1>1. entries \in Indices
  BY DEF Fetched, Readable, TypeOK
<1>2. p \in DOMAIN indices => entries = indices[p]
  BY DEF Fetched
<1>3. CASE CachedAfter(p, entries) = cached
  BY <1>1, <1>2, <1>3 DEF TypeOK
<1>4. CASE CachedAfter(p, entries) = Put(cached, p, entries)
  <2>1. /\ DOMAIN cached \subseteq Packages
        /\ cached \in [DOMAIN cached -> Indices \cup {Garbled}]
    BY DEF TypeOK
  <2>2. /\ DOMAIN Put(cached, p, entries) \subseteq Packages
        /\ Put(cached, p, entries) \in [DOMAIN Put(cached, p, entries) -> Indices \cup {Garbled}]
    <3>1. entries \in Indices \cup {Garbled}
      BY <1>1
    <3> HIDE DEF Indices
    <3> QED
      BY <2>1, <3>1, PutType
  <2> QED
    BY <1>1, <1>2, <1>4, <2>2
<1> QED
  BY <1>3, <1>4 DEF CachedAfter

\* What pick_version returns.
LEMMA PicksType ==
  ASSUME NEW entries \in Indices, NEW reqs, NEW e \in Picks(entries, reqs)
  PROVE  /\ e \in Entries /\ e.deps \in Published /\ e.version \in Nat
         /\ ~e.yanked /\ ~e.tooNew /\ \A r \in reqs : e.version \in r
         /\ \A f \in Candidates(entries, reqs) : f.version <= e.version
  BY ResolverAssumption DEF Picks, Candidates, Indices, Entries, ResolverAssumption

\* The state has its types at the start.
LEMMA InitType == Init => TypeOK
<1> SUFFICES ASSUME Init PROVE TypeOK
  OBVIOUS
<1>1. /\ DOMAIN cached \subseteq Packages /\ cached \in [DOMAIN cached -> Indices \cup {Garbled}]
      /\ DOMAIN chosen \subseteq Packages /\ chosen \in [DOMAIN chosen -> Entries]
      /\ DOMAIN indices \subseteq Packages /\ indices \in [DOMAIN indices -> Indices]
  BY EmptyMapType DEF Init
<1>2. requirements \in [Packages -> SUBSET Requirements]
  BY DEF Init
<1>3. index \in [Packages -> Indices] /\ events \in 0..MaxEvents /\ passes \in Nat
  BY ResolverAssumption DEF Init, ResolverAssumption
<1> QED
  BY <1>1, <1>2, <1>3 DEF Init, TypeOK

\* Yanks and publications keep an index an index.
LEMMA RegistryType ==
  ASSUME TypeOK, NEW p \in Packages,
         \/ \E e \in index[p] : Yank(p, e)
         \/ \E v \in Versions, deps \in Published : Publish(p, v, deps)
  PROVE  TypeOK'
<1>1. CASE \E e \in index[p] : Yank(p, e)
  <2> PICK e \in index[p] : Yank(p, e)
    BY <1>1
  <2>0. e \in Entries
    BY DEF TypeOK, Indices
  <2>1. [e EXCEPT !.yanked = ~@] \in Entries
    BY <2>0 DEF Entries
  <2>2. index' \in [Packages -> Indices]
    BY <2>1 DEF Yank, TypeOK, Indices
  <2> QED
    BY <2>2, ResolverAssumption DEF Yank, TypeOK, state, ResolverAssumption
<1>2. CASE \E v \in Versions, deps \in Published : Publish(p, v, deps)
  <2> PICK v \in Versions, deps \in Published : Publish(p, v, deps)
    BY <1>2
  <2>1. [version |-> v, yanked |-> FALSE, tooNew |-> FALSE, deps |-> deps] \in Entries
    BY DEF Entries
  <2>2. index' \in [Packages -> Indices]
    <3>1. index \in [Packages -> Indices]
      BY DEF TypeOK, Indices
    <3>2. index[p] \cup {[version |-> v, yanked |-> FALSE, tooNew |-> FALSE, deps |-> deps]} \in Indices
      BY <2>1, <3>1 DEF Indices
    <3> HIDE DEF Indices
    <3> QED
      BY <3>1, <3>2 DEF Publish
  <2> QED
    BY <2>2, ResolverAssumption DEF Publish, TypeOK, state, ResolverAssumption
<1> QED
  BY <1>1, <1>2

\* What choosing a version does to the resolution's state.
LEMMA ChooseType ==
  ASSUME TypeOK, NEW p \in Packages, NEW entries \in Fetched(p),
         NEW e \in Picks(entries, requirements[p])
  PROVE  /\ e \in Entries /\ e.deps \in Published /\ entries \in Indices
         /\ DOMAIN Put(chosen, p, e) = DOMAIN chosen \cup {p}
         /\ Put(chosen, p, e) \in [DOMAIN Put(chosen, p, e) -> Entries]
         /\ Put(chosen, p, e)[p] = e
         /\ \A q \in DOMAIN chosen : q # p => Put(chosen, p, e)[q] = chosen[q]
         /\ DOMAIN Put(indices, p, entries) = DOMAIN indices \cup {p}
         /\ Put(indices, p, entries) \in [DOMAIN Put(indices, p, entries) -> Indices]
         /\ Put(indices, p, entries)[p] = entries
         /\ \A q \in DOMAIN indices : Put(indices, p, entries)[q] = indices[q]
<1>1. entries \in Indices /\ (p \in DOMAIN indices => entries = indices[p])
  BY FetchedType
<1>2. e \in Entries /\ e.deps \in Published
  BY <1>1, PicksType
<1>3. /\ DOMAIN chosen \subseteq Packages /\ chosen \in [DOMAIN chosen -> Entries]
      /\ DOMAIN indices \subseteq Packages /\ indices \in [DOMAIN indices -> Indices]
  BY DEF TypeOK
<1>4. /\ DOMAIN Put(chosen, p, e) = DOMAIN chosen \cup {p}
      /\ Put(chosen, p, e) \in [DOMAIN Put(chosen, p, e) -> Entries]
      /\ Put(chosen, p, e)[p] = e
      /\ \A q \in DOMAIN chosen : q # p => Put(chosen, p, e)[q] = chosen[q]
  BY <1>2, <1>3 DEF Put
<1>5. /\ DOMAIN Put(indices, p, entries) = DOMAIN indices \cup {p}
      /\ Put(indices, p, entries) \in [DOMAIN Put(indices, p, entries) -> Indices]
      /\ Put(indices, p, entries)[p] = entries
      /\ \A q \in DOMAIN indices : q # p => Put(indices, p, entries)[q] = indices[q]
  BY <1>1, <1>3 DEF Put
<1> QED
  BY <1>1, <1>2, <1>4, <1>5

\* refine keeps the types.
LEMMA RefineType == ASSUME TypeOK, NEW p \in Packages, Refine(p) PROVE TypeOK'
<1>1. CASE SkipName(p)
  BY <1>1 DEF SkipName, TypeOK, registry, state
<1>2. CASE KeepChoice(p)
  <2> PICK entries \in Fetched(p) : \E e \in Picks(entries, requirements[p]) :
             indices' = Put(indices, p, entries) /\ cached' = CachedAfter(p, entries)
    BY <1>2 DEF KeepChoice
  <2>0. DOMAIN indices \subseteq Packages
    BY DEF TypeOK
  <2>1. DOMAIN indices' \subseteq Packages /\ indices' \in [DOMAIN indices' -> Indices]
    <3> PICK e \in Picks(entries, requirements[p]) : indices' = Put(indices, p, entries)
      OBVIOUS
    <3>1. DOMAIN Put(indices, p, entries) = DOMAIN indices \cup {p}
          /\ Put(indices, p, entries) \in [DOMAIN Put(indices, p, entries) -> Indices]
      BY ChooseType
    <3> QED
      BY <2>0, <3>1
  <2>2. DOMAIN cached' \subseteq Packages /\ cached' \in [DOMAIN cached' -> Indices \cup {Garbled}]
    BY FetchedType
  <2> QED
    BY <1>2, <2>1, <2>2 DEF KeepChoice, TypeOK, registry
<1>3. CASE ChooseVersion(p)
  <2> PICK entries \in Fetched(p) : \E e \in Picks(entries, requirements[p]) :
             /\ Unreadable(e.deps) = {}
             /\ chosen' = Put(chosen, p, e)
             /\ requirements' = AddRequirements(requirements, e.deps, paths)
             /\ indices' = Put(indices, p, entries) /\ cached' = CachedAfter(p, entries)
    BY <1>3 DEF ChooseVersion
  <2> PICK e \in Picks(entries, requirements[p]) :
             /\ Unreadable(e.deps) = {}
             /\ chosen' = Put(chosen, p, e)
             /\ requirements' = AddRequirements(requirements, e.deps, paths)
    OBVIOUS
  <2>0. DOMAIN indices \subseteq Packages /\ DOMAIN chosen \subseteq Packages
    BY DEF TypeOK
  <2>1. /\ DOMAIN indices' \subseteq Packages /\ indices' \in [DOMAIN indices' -> Indices]
        /\ DOMAIN chosen' \subseteq Packages /\ chosen' \in [DOMAIN chosen' -> Entries]
        /\ e.deps \in Published
    <3>1. DOMAIN Put(indices, p, entries) = DOMAIN indices \cup {p}
          /\ Put(indices, p, entries) \in [DOMAIN Put(indices, p, entries) -> Indices]
          /\ DOMAIN Put(chosen, p, e) = DOMAIN chosen \cup {p}
          /\ Put(chosen, p, e) \in [DOMAIN Put(chosen, p, e) -> Entries]
          /\ e.deps \in Published
      BY ChooseType
    <3> QED
      BY <2>0, <3>1
  <2>2. DOMAIN cached' \subseteq Packages /\ cached' \in [DOMAIN cached' -> Indices \cup {Garbled}]
    BY FetchedType
  <2>3. requirements' \in [Packages -> SUBSET Requirements]
    BY <2>1, ReadableType, AddType DEF TypeOK
  <2> QED
    BY <1>3, <2>1, <2>2, <2>3 DEF ChooseVersion, TypeOK, registry
<1>4. CASE ChooseGated(p)
  BY <1>4 DEF ChooseGated, TypeOK, registry
<1>5. CASE NoVersion(p)
  <2> PICK entries \in Fetched(p) :
             indices' = Put(indices, p, entries) /\ cached' = CachedAfter(p, entries)
    BY <1>5 DEF NoVersion
  <2>0. entries \in Indices /\ DOMAIN indices \subseteq Packages
        /\ indices \in [DOMAIN indices -> Indices]
    BY FetchedType DEF TypeOK
  <2>1. DOMAIN indices' \subseteq Packages /\ indices' \in [DOMAIN indices' -> Indices]
    BY <2>0, PutType
  <2>2. DOMAIN cached' \subseteq Packages /\ cached' \in [DOMAIN cached' -> Indices \cup {Garbled}]
    BY FetchedType
  <2> QED
    BY <1>5, <2>1, <2>2 DEF NoVersion, TypeOK, registry
<1>6. CASE NoIndex(p)
  BY <1>6 DEF NoIndex, TypeOK, registry, state
<1>7. CASE BadRequirement(p)
  <2> PICK entries \in Fetched(p) : \E e \in Picks(entries, requirements[p]) :
             /\ requirements' = AddRequirements(requirements,
                                  [d \in ReadFirst(e.deps) |-> e.deps[d]], paths)
             /\ indices' = Put(indices, p, entries) /\ cached' = CachedAfter(p, entries)
    BY <1>7 DEF BadRequirement
  <2> PICK e \in Picks(entries, requirements[p]) :
             requirements' = AddRequirements(requirements,
                               [d \in ReadFirst(e.deps) |-> e.deps[d]], paths)
    OBVIOUS
  <2>0. /\ DOMAIN indices \subseteq Packages /\ indices \in [DOMAIN indices -> Indices]
        /\ requirements \in [Packages -> SUBSET Requirements]
    BY DEF TypeOK
  <2>1. entries \in Indices /\ e.deps \in Published
    BY ChooseType
  <2>2. DOMAIN indices' \subseteq Packages /\ indices' \in [DOMAIN indices' -> Indices]
    <3>1. /\ DOMAIN Put(indices, p, entries) \subseteq Packages
          /\ Put(indices, p, entries) \in [DOMAIN Put(indices, p, entries) -> Indices]
      BY <2>0, <2>1, PutType
    <3> QED
      BY <3>1
  <2>3. DOMAIN cached' \subseteq Packages /\ cached' \in [DOMAIN cached' -> Indices \cup {Garbled}]
    BY FetchedType
  <2>4. requirements' \in [Packages -> SUBSET Requirements]
    <3> DEFINE read == [d \in ReadFirst(e.deps) |-> e.deps[d]]
    <3>1. ASSUME NEW d \in DOMAIN read \ paths
          PROVE  d \in Packages /\ read[d] \in Requirements
      <4>1. d \in DOMAIN e.deps /\ read[d] = e.deps[d]
        BY DEF ReadFirst
      <4>2. d \in Packages /\ NameRank[d] \in Nat
        BY <2>1, <4>1, PublishedTable, ResolverAssumption
      <4>3. d \notin Unreadable(e.deps)
        BY <4>2 DEF ReadFirst
      <4> QED
        BY <2>1, <4>1, <4>2, <4>3, PublishedTable DEF Unreadable
    <3> HIDE DEF read
    <3>2. AddRequirements(requirements, read, paths) \in [Packages -> SUBSET Requirements]
      BY <2>0, <3>1, AddType
    <3> QED
      BY <3>2 DEF read
  <2> QED
    BY <1>7, <2>2, <2>3, <2>4 DEF BadRequirement, TypeOK, registry
<1>8. CASE BadIndex(p)
  <2>1. DOMAIN cached \subseteq Packages /\ cached \in [DOMAIN cached -> Indices \cup {Garbled}]
    BY DEF TypeOK
  <2>2. DOMAIN cached' \subseteq Packages /\ cached' \in [DOMAIN cached' -> Indices \cup {Garbled}]
    <3>1. Garbled \in Indices \cup {Garbled}
      OBVIOUS
    <3>2. /\ DOMAIN Put(cached, p, Garbled) \subseteq Packages
          /\ Put(cached, p, Garbled)
               \in [DOMAIN Put(cached, p, Garbled) -> Indices \cup {Garbled}]
      BY <2>1, <3>1, PutType
    <3> QED
      BY <1>8, <2>1, <3>2 DEF BadIndex
  <2> QED
    BY <1>8, <2>2 DEF BadIndex, TypeOK, registry, state
<1> QED
  BY <1>1, <1>2, <1>3, <1>4, <1>5, <1>6, <1>7, <1>8 DEF Refine

\* Every step keeps the types.
LEMMA NextType == ASSUME TypeOK, [Next]_vars PROVE TypeOK'
<1>1. CASE Seed
  <2>1. root \in Tables
    BY DEF TypeOK
  <2>2. CASE PathClosure(root) \subseteq DOMAIN LocalTable
    BY <1>1, <2>1, <2>2, SeedType DEF Seed, TypeOK, registry
  <2>3. CASE ~(PathClosure(root) \subseteq DOMAIN LocalTable)
    BY <1>1, <2>3 DEF Seed, TypeOK, registry
  <2> QED
    BY <2>2, <2>3
<1>2. CASE BeginPass
  <2>1. passes' \in Nat
    BY <1>2 DEF BeginPass, TypeOK
  <2>2. todo' \subseteq Packages
    BY <1>2 DEF BeginPass, Named
  <2> QED
    BY <1>2, <2>1, <2>2 DEF BeginPass, TypeOK, registry, state
<1>3. CASE EndPass
  BY <1>3 DEF EndPass, TypeOK, registry, state
<1>4. CASE Return
  <2>1. /\ DOMAIN chosen' \subseteq Packages /\ chosen' \in [DOMAIN chosen' -> Entries]
        /\ DOMAIN indices' \subseteq Packages /\ indices' \in [DOMAIN indices' -> Indices]
    BY <1>4, EmptyMapType DEF Return
  <2>2. requirements' = [p \in Packages |-> {}]
        /\ requirements' \in [Packages -> SUBSET Requirements]
    BY <1>4 DEF Return
  <2>3. passes' = 0 /\ passes' \in Nat
    BY <1>4 DEF Return
  <2> QED
    BY <1>4, <2>1, <2>2, <2>3 DEF Return, TypeOK, registry
<1>5. CASE UNCHANGED vars
  BY <1>5 DEF vars, TypeOK
<1> QED
  BY <1>1, <1>2, <1>3, <1>4, <1>5, RefineType, RegistryType DEF Next, Resolve

\* Type correctness of the resolver for any registry and project.
THEOREM TypeCorrect == Spec => []TypeOK
  BY InitType, NextType, PTL DEF Spec

---------------------------------------------------------------------------
(* The inductive invariant. *)

\* Each dependency of a table is a path dependency or has its requirement recorded.
Asked(table) ==
  \A p \in DOMAIN table : p \in paths \/ (table[p] # Local /\ table[p] \in requirements[p])

\* A name's requirements are met by what it resolved to.
Satisfied(p) ==
  \/ p \in paths \cup gated
  \/ p \in DOMAIN chosen /\ \A r \in requirements[p] : chosen[p].version \in r

\* A choice is the highest its index and the requirements on it allow.
Best(p) ==
  /\ p \in DOMAIN indices /\ ~chosen[p].yanked /\ ~chosen[p].tooNew
  /\ \A e \in Candidates(indices[p], requirements[p]) : e.version <= chosen[p].version

\* Requirements are only added and each choice's are recorded; a pass that has changed
\* nothing so far has met those of every name behind it.
Inv ==
  /\ TypeOK
  /\ pc \in {"pass", "name", "done"} =>
       /\ paths \subseteq DOMAIN LocalTable
       /\ Asked(root) /\ \A q \in paths : Asked(LocalTable[q])
       /\ \A q \in DOMAIN chosen : Asked(chosen[q].deps) /\ Best(q)
  /\ pc = "name" /\ ~changed => \A p \in Named \ todo : Satisfied(p)
  /\ pc = "done" => \A p \in Named : Satisfied(p)

LEMMA InitInv == Init => Inv
  BY InitType DEF Init, Inv

\* Seeding records the requirements of the project and its path dependencies.
LEMMA SeedInv == ASSUME Inv, Seed PROVE Inv'
<1>1. TypeOK' /\ TypeOK
  BY NextType DEF Inv, Next, Resolve
<1>2. CASE pc' = "failed"
  BY <1>1, <1>2 DEF Inv
<1>3. CASE pc' = "pass"
  <2>1. /\ requirements' = SeedRequirements(root) /\ paths' = PathClosure(root)
        /\ PathClosure(root) \subseteq DOMAIN LocalTable
        /\ root' = root /\ chosen' = chosen /\ DOMAIN chosen = {}
    BY <1>1, <1>3, EmptyMapType DEF Seed, TypeOK
  <2>2. ASSUME NEW t \in Tables, t = root \/ \E q \in PathClosure(root) : t = LocalTable[q]
        PROVE  Asked(t)'
    <3> SUFFICES ASSUME NEW p \in DOMAIN t, p \notin PathClosure(root)
                 PROVE  t[p] # Local /\ t[p] \in SeedRequirements(root)[p]
      BY <2>1 DEF Asked
    <3>0. p \in Packages /\ root \in Tables
      BY <1>1, ResolverAssumption DEF ResolverAssumption, TypeOK
    <3>1. t[p] # Local
      <4> SUFFICES ASSUME t[p] = Local PROVE p \in PathClosure(root)
        OBVIOUS
      <4>1. CASE t = root
        BY <3>0, <4>1 DEF PathClosure, ClosedUnderPaths, Direct
      <4>2. ASSUME NEW q \in PathClosure(root), t = LocalTable[q]
            PROVE  p \in PathClosure(root)
        <5> SUFFICES ASSUME NEW s \in SUBSET Packages, ClosedUnderPaths(root, s)
                     PROVE  p \in s
          BY <3>0 DEF PathClosure
        <5>1. q \in s /\ q \in DOMAIN LocalTable
          BY <2>1, <4>2 DEF PathClosure
        <5> QED
          BY <5>1, <4>2 DEF ClosedUnderPaths, Direct
      <4> QED
        BY <2>2, <4>1, <4>2
    <3>2. t \in {u \in {root} \cup {LocalTable[q] : q \in PathClosure(root)}
                     : p \in DOMAIN u /\ u[p] # Local}
      BY <2>2, <3>1
    <3> QED
      BY <3>0, <3>1, <3>2 DEF SeedRequirements
  <2>3. \A q \in PathClosure(root) : LocalTable[q] \in Tables
    BY <2>1, ResolverAssumption DEF ResolverAssumption
  <2>4. root \in Tables
    BY <1>1 DEF TypeOK
  <2>5. Asked(root)'
    BY <2>1, <2>2, <2>4 DEF Asked
  <2>6. \A q \in paths' : Asked(LocalTable[q])'
    BY <2>1, <2>2, <2>3
  <2> QED
    BY <1>1, <1>3, <2>1, <2>5, <2>6 DEF Inv
<1> QED
  BY <1>2, <1>3 DEF Seed

\* Adding a requirement keeps what was recorded and what was best.
LEMMA MoreRequirements ==
  ASSUME TypeOK, TypeOK', paths' = paths,
         \A p \in Packages : requirements[p] \subseteq requirements'[p]
  PROVE  /\ \A t : DOMAIN t \subseteq Packages /\ Asked(t) => Asked(t)'
         /\ \A p \in Packages : \A i :
              Candidates(i, requirements'[p]) \subseteq Candidates(i, requirements[p])
  BY DEF Asked, Candidates

\* Choosing a version records its requirements, and it is the best there is.
LEMMA ChooseInv == ASSUME Inv, NEW p \in Packages, ChooseVersion(p) PROVE Inv'
<1> PICK entries \in Fetched(p) : \E e \in Picks(entries, requirements[p]) :
           /\ Unreadable(e.deps) = {}
           /\ chosen' = Put(chosen, p, e)
           /\ requirements' = AddRequirements(requirements, e.deps, paths)
           /\ indices' = Put(indices, p, entries)
  BY DEF ChooseVersion
<1> PICK e \in Picks(entries, requirements[p]) :
           /\ Unreadable(e.deps) = {}
           /\ chosen' = Put(chosen, p, e)
           /\ requirements' = AddRequirements(requirements, e.deps, paths)
           /\ indices' = Put(indices, p, entries)
  OBVIOUS
<1>1. TypeOK /\ TypeOK'
  BY RefineType DEF Inv, Refine
<1>2. /\ pc = "name" /\ pc' = "name" /\ changed' = TRUE
      /\ UNCHANGED <<root, paths>>
  BY DEF ChooseVersion
<1>3. /\ DOMAIN chosen' = DOMAIN chosen \cup {p} /\ chosen'[p] = e
      /\ \A q \in DOMAIN chosen : q # p => chosen'[q] = chosen[q]
      /\ DOMAIN indices' = DOMAIN indices \cup {p} /\ indices'[p] = entries
      /\ \A q \in DOMAIN indices : indices'[q] = indices[q]
      /\ e \in Entries /\ e.deps \in Published /\ entries \in Indices
  <2>1. /\ DOMAIN Put(chosen, p, e) = DOMAIN chosen \cup {p} /\ Put(chosen, p, e)[p] = e
        /\ \A q \in DOMAIN chosen : q # p => Put(chosen, p, e)[q] = chosen[q]
        /\ DOMAIN Put(indices, p, entries) = DOMAIN indices \cup {p}
        /\ Put(indices, p, entries)[p] = entries
        /\ \A q \in DOMAIN indices : Put(indices, p, entries)[q] = indices[q]
        /\ e \in Entries /\ e.deps \in Published /\ entries \in Indices
    <3>1. \A q \in DOMAIN indices : Put(indices, p, entries)[q] = indices[q]
      BY <1>1, FetchedType DEF Put
    <3>2. e \in Entries /\ e.deps \in Published /\ entries \in Indices
      BY <1>1, FetchedType, PicksType
    <3> QED
      BY <3>1, <3>2 DEF Put
  <2> QED
    BY <2>1
<1>4. /\ \A q \in Packages : requirements[q] \subseteq requirements'[q]
      /\ \A q \in DOMAIN e.deps \ paths : e.deps[q] \in requirements'[q]
  BY <1>1, <1>3, ReadableType, AddType DEF TypeOK
<1>5. /\ \A t : DOMAIN t \subseteq Packages /\ Asked(t) => Asked(t)'
      /\ \A q \in Packages : \A i :
           Candidates(i, requirements'[q]) \subseteq Candidates(i, requirements[q])
  BY <1>1, <1>2, <1>4, MoreRequirements
<1>6. Asked(e.deps)'
  <2>1. \A q \in DOMAIN e.deps : e.deps[q] # Local
    BY <1>3, PublishedTable
  <2> QED
    BY <1>2, <1>4, <2>1 DEF Asked
<1>7. Best(p)'
  <2>1. /\ ~e.yanked /\ ~e.tooNew
        /\ \A f \in Candidates(entries, requirements[p]) : f.version <= e.version
    BY <1>3, PicksType
  <2>2. \A f \in Candidates(entries, requirements'[p]) : f.version <= e.version
    BY <1>5, <2>1
  <2> QED
    BY <1>3, <2>1, <2>2 DEF Best
<1>8. ASSUME NEW q \in DOMAIN chosen', q # p
      PROVE  Asked(chosen[q].deps)' /\ Best(q)'
  <2>1. q \in DOMAIN chosen /\ q \in Packages /\ chosen'[q] = chosen[q]
        /\ Asked(chosen[q].deps) /\ Best(q) /\ chosen[q].deps \in Published
    BY <1>1, <1>2, <1>3, <1>8 DEF Inv, TypeOK, Entries
  <2>2. Asked(chosen[q].deps)'
    <3>1. \A r \in DOMAIN chosen[q].deps : r \in Packages
      BY <2>1, PublishedTable
    <3> QED
      BY <1>2, <1>4, <2>1, <3>1 DEF Asked
  <2>3. q \in DOMAIN indices' /\ indices'[q] = indices[q]
    BY <1>3, <2>1 DEF Best
  <2>4. Best(q)'
    BY <1>5, <2>1, <2>3 DEF Best
  <2> QED
    BY <2>2, <2>4
<1>9. Asked(root)' /\ \A q \in paths' : Asked(LocalTable[q])'
  <2>1. DOMAIN root \subseteq Packages
        /\ \A q \in paths : DOMAIN LocalTable[q] \subseteq Packages
    BY <1>1, <1>2, ResolverAssumption DEF TypeOK, Inv, ResolverAssumption
  <2>2. Asked(root) /\ \A q \in paths : Asked(LocalTable[q])
    BY <1>2 DEF Inv
  <2> QED
    BY <1>2, <1>5, <2>1, <2>2, <1>4 DEF Asked
<1>10. \A q \in DOMAIN chosen' : Asked(chosen[q].deps)' /\ Best(q)'
  <2>1. Asked(chosen[p].deps)'
    BY <1>3, <1>6 DEF Asked
  <2> QED
    BY <2>1, <1>7, <1>8
<1> QED
  BY <1>1, <1>2, <1>9, <1>10 DEF Inv

\* Every other step of refine keeps the invariant.
LEMMA OtherNameInv ==
  ASSUME Inv, NEW p \in Packages,
         \/ SkipName(p) \/ KeepChoice(p) \/ ChooseGated(p) \/ BadRequirement(p)
         \/ NoVersion(p) \/ NoIndex(p) \/ BadIndex(p)
  PROVE  Inv'
<1>1. TypeOK /\ TypeOK'
  BY RefineType DEF Inv, Refine
<1>2. CASE SkipName(p)
  BY <1>1, <1>2 DEF SkipName, state, Inv, Asked, Satisfied, Best, Named
<1>3. CASE ChooseGated(p)
  BY <1>1, <1>3 DEF ChooseGated, Inv, Asked, Satisfied, Best, Named
<1>4. CASE NoVersion(p)
  BY <1>1, <1>4 DEF NoVersion, Inv
<1>5. CASE NoIndex(p) \/ BadIndex(p) \/ BadRequirement(p)
  BY <1>1, <1>5 DEF NoIndex, BadIndex, BadRequirement, Inv
<1>6. CASE KeepChoice(p)
  <2> PICK entries \in Fetched(p) : \E e \in Picks(entries, requirements[p]) :
             /\ p \in DOMAIN chosen /\ chosen[p].version = e.version
             /\ indices' = Put(indices, p, entries)
    BY <1>6 DEF KeepChoice
  <2> PICK e \in Picks(entries, requirements[p]) :
             p \in DOMAIN chosen /\ chosen[p].version = e.version
    OBVIOUS
  <2>1. /\ pc = "name" /\ pc' = "name" /\ todo' = todo \ {p}
        /\ UNCHANGED <<root, requirements, paths, chosen, gated, changed>>
    BY <1>6 DEF KeepChoice
  <2>2. \A q \in DOMAIN indices : q \in DOMAIN indices' /\ indices'[q] = indices[q]
    <3>1. DOMAIN Put(indices, p, entries) = DOMAIN indices \cup {p}
          /\ \A q \in DOMAIN indices : Put(indices, p, entries)[q] = indices[q]
      BY <1>1, ChooseType
    <3> QED
      BY <3>1
  <2>3. Satisfied(p)
    BY <1>1, PicksType, FetchedType DEF Satisfied
  <2>4. \A q \in DOMAIN chosen : Best(q) => Best(q)'
    BY <2>1, <2>2 DEF Best
  <2> QED
    BY <1>1, <2>1, <2>3, <2>4 DEF Inv, Asked, Satisfied, Named
<1> QED
  BY <1>2, <1>3, <1>4, <1>5, <1>6

\* Every step keeps the invariant.
LEMMA NextInv == ASSUME Inv, [Next]_vars PROVE Inv'
<1>0. TypeOK /\ TypeOK'
  BY NextType DEF Inv
<1>1. CASE BeginPass
  BY <1>0, <1>1 DEF BeginPass, state, Inv, Asked, Best, Named
<1>2. CASE EndPass
  BY <1>0, <1>2 DEF EndPass, state, Inv, Asked, Satisfied, Best, Named
<1>3. CASE Return
  BY <1>0, <1>3 DEF Return, Inv
<1>4. ASSUME NEW p \in Packages, (\E e \in index[p] : Yank(p, e))
               \/ \E v \in Versions, deps \in Published : Publish(p, v, deps)
      PROVE  Inv'
  <2>1. UNCHANGED <<pc, root, requirements, paths, chosen, indices, gated, todo, changed>>
    BY <1>4 DEF Yank, Publish, state
  <2> QED
    BY <1>0, <2>1 DEF Inv, Asked, Satisfied, Best, Named
<1>5. CASE UNCHANGED vars
  BY <1>0, <1>5 DEF vars, Inv, Asked, Satisfied, Best, Named
<1> QED
  BY <1>1, <1>2, <1>3, <1>4, <1>5, SeedInv, ChooseInv, OtherNameInv
  DEF Next, Resolve, Refine

LEMMA Invariance == Spec => []Inv
  BY InitInv, NextInv, PTL DEF Spec

\* Whatever the registry does meanwhile, an answer has every dependency of the project,
\* of its path dependencies and of the chosen entries, at an admitted version.
THEOREM AnswersAreClosed == Spec => []AnswerClosed
<1>1. ASSUME Inv PROVE AnswerClosed
  <2> SUFFICES ASSUME pc = "done"
               PROVE  /\ \A p \in DOMAIN root : Meets(p, root[p])
                      /\ \A q \in paths : \A p \in DOMAIN LocalTable[q] :
                           Meets(p, LocalTable[q][p])
                      /\ \A q \in DOMAIN chosen : \A p \in DOMAIN chosen[q].deps :
                           Meets(p, chosen[q].deps[p])
    BY DEF AnswerClosed
  <2>1. ASSUME NEW t \in Tables \cup Published, Asked(t), NEW p \in DOMAIN t PROVE Meets(p, t[p])
    <3>1. p \in Packages
      BY ResolverAssumption DEF ResolverAssumption
    <3>2. CASE p \in paths
      BY <3>2 DEF Meets
    <3>3. CASE t[p] # Local /\ t[p] \in requirements[p]
      <4>1. Satisfied(p)
        BY <1>1, <3>1, <3>3 DEF Inv, Named
      <4>2. t[p] # Invalid
        BY <1>1, <3>1, <3>3, ResolverAssumption DEF Inv, TypeOK
      <4> QED
        BY <3>3, <4>1, <4>2 DEF Satisfied, Meets
    <3> QED
      BY <2>1, <3>2, <3>3 DEF Asked
  <2>2. root \in Tables /\ (\A q \in paths : LocalTable[q] \in Tables)
        /\ (\A q \in DOMAIN chosen : chosen[q].deps \in Published)
    BY <1>1, ResolverAssumption DEF Inv, TypeOK, Entries, ResolverAssumption
  <2> QED
    BY <1>1, <2>1, <2>2 DEF Inv
<1> QED
  BY <1>1, Invariance, PTL

\* An answer has no yanked or unusable version, and no better one was passed over.
THEOREM AnswersAreBest == Spec => []AnswerBest
<1>1. Inv => AnswerBest
  BY DEF Inv, Best, AnswerBest
<1> QED
  BY <1>1, Invariance, PTL

\* Requirements accumulate and an index is read once, so a choice never rises.
THEOREM ChoicesFall == Spec => NeverRises
<1>1. ASSUME Inv, [Next]_vars, Resolving, NEW p \in DOMAIN chosen
      PROVE  p \in DOMAIN chosen' /\ chosen'[p].version <= chosen[p].version
  <2>0. TypeOK /\ p \in Packages /\ pc \in {"pass", "name"} /\ Best(p)
        /\ chosen[p].version \in Nat
    BY <1>1, ResolverAssumption DEF Inv, TypeOK, Resolving, Entries, ResolverAssumption
  <2>1. CASE \E q \in Packages : ChooseVersion(q)
    <3> PICK q \in Packages : ChooseVersion(q)
      BY <2>1
    <3> PICK entries \in Fetched(q) : \E e \in Picks(entries, requirements[q]) :
               chosen' = Put(chosen, q, e)
      BY DEF ChooseVersion
    <3> PICK e \in Picks(entries, requirements[q]) : chosen' = Put(chosen, q, e)
      OBVIOUS
    <3>1. DOMAIN chosen' = DOMAIN chosen \cup {q} /\ chosen'[q] = e
          /\ \A k \in DOMAIN chosen : k # q => chosen'[k] = chosen[k]
      <4>0. DOMAIN Put(chosen, q, e) = DOMAIN chosen \cup {q}
        BY <2>0, ChooseType
      <4>1. DOMAIN Put(chosen, q, e) = DOMAIN chosen \cup {q} /\ Put(chosen, q, e)[q] = e
            /\ \A k \in DOMAIN chosen : k # q => Put(chosen, q, e)[k] = chosen[k]
        BY <4>0 DEF Put
      <4> QED
        BY <4>1
    <3>2. CASE p = q
      <4>1. entries = indices[p]
        BY <2>0, <3>2, FetchedType DEF Best
      <4>2. e \in Candidates(indices[p], requirements[p])
        BY <3>2, <4>1 DEF Picks
      <4> QED
        BY <2>0, <3>1, <3>2, <4>2 DEF Best
    <3>3. CASE p # q
      BY <2>0, <3>1, <3>3
    <3> QED
      BY <3>2, <3>3
  <2>2. CASE ~ \E q \in Packages : ChooseVersion(q)
    <3>1. UNCHANGED chosen
      BY <1>1, <2>0, <2>2 DEF Next, Resolve, Refine, Seed, BeginPass, EndPass, Return,
        SkipName, KeepChoice, ChooseGated, BadRequirement, NoVersion, NoIndex, BadIndex, Yank, Publish, vars, state
    <3> QED
      BY <2>0, <3>1
  <2> QED
    BY <2>1, <2>2
<1>2. Inv /\ [Next]_vars =>
        [Resolving => \A p \in DOMAIN chosen :
            /\ p \in DOMAIN chosen'
            /\ chosen'[p].version <= chosen[p].version]_vars
  BY <1>1
<1> QED
  BY <1>2, Invariance, PTL DEF Spec, NeverRises

---------------------------------------------------------------------------
(* The number of passes. *)

\* The choices this resolution has used up: a package that was chosen cannot be chosen
\* again at the same or a higher version, and a gated one not at all.
Spent == {x \in Packages \X Versions :
            x[1] \in gated \/ (x[1] \in DOMAIN chosen /\ chosen[x[1]].version <= x[2])}

\* Every pass but the running one, or the last, has used up a choice.
Counted ==
  /\ pc = "pass" => passes <= Cardinality(Spent)
  /\ pc \in {"name", "done", "failed"} => passes <= 1 + Cardinality(Spent)
  /\ pc = "name" /\ changed => passes <= Cardinality(Spent)

\* There are only so many choices.
LEMMA SpentFinite ==
  /\ IsFiniteSet(Spent) /\ Cardinality(Spent) \in Nat
  /\ Cardinality(Spent) <= Cardinality(Packages) * Cardinality(Versions)
  /\ Cardinality(Packages) * Cardinality(Versions) \in Nat
<1>1. /\ IsFiniteSet(Packages \X Versions)
      /\ Cardinality(Packages \X Versions) = Cardinality(Packages) * Cardinality(Versions)
  BY FS_Product, ResolverAssumption DEF ResolverAssumption
<1>2. Spent \subseteq Packages \X Versions
  BY DEF Spent
<1>3. IsFiniteSet(Spent) /\ Cardinality(Spent) <= Cardinality(Packages \X Versions)
  BY <1>1, <1>2, FS_Subset
<1>4. Cardinality(Spent) \in Nat /\ Cardinality(Packages \X Versions) \in Nat
  BY <1>1, <1>3, FS_CardinalityType
<1> QED
  BY <1>1, <1>3, <1>4

\* A choice used up is one more.
LEMMA SpentGrows ==
  ASSUME Spent \subseteq Spent', NEW x \in Spent', x \notin Spent
  PROVE  Cardinality(Spent) + 1 <= Cardinality(Spent')
<1>1. IsFiniteSet(Spent) /\ (IsFiniteSet(Spent))'
  <2>1. IsFiniteSet(Spent)
    BY SpentFinite
  <2> QED
    BY <2>1, SpentFinite, PTL
<1>2. Cardinality(Spent \cup {x}) = Cardinality(Spent) + 1
  BY <1>1, FS_AddElement
<1>3. Spent \cup {x} \subseteq Spent'
  OBVIOUS
<1> QED
  BY <1>1, <1>2, <1>3, FS_Subset

\* Choosing a version uses up a choice: a first one, or a lower one.
LEMMA ChooseSpends ==
  ASSUME Inv, NEW p \in Packages, ChooseVersion(p)
  PROVE  Cardinality(Spent) + 1 <= Cardinality(Spent')
<1>0. /\ TypeOK /\ pc = "name" /\ gated' = gated /\ p \notin gated
      /\ \A v \in Versions : v \in Nat
  BY ResolverAssumption DEF Inv, ChooseVersion, ResolverAssumption
<1>a. PICK entries \in Fetched(p) : \E e \in Picks(entries, requirements[p]) :
             /\ p \in DOMAIN chosen => chosen[p].version # e.version
             /\ chosen' = Put(chosen, p, e)
  BY DEF ChooseVersion
<1>b. PICK e \in Picks(entries, requirements[p]) :
             /\ p \in DOMAIN chosen => chosen[p].version # e.version
             /\ chosen' = Put(chosen, p, e)
  BY <1>a
<1>1. /\ DOMAIN chosen' = DOMAIN chosen \cup {p} /\ chosen'[p] = e
      /\ \A q \in DOMAIN chosen : q # p => chosen'[q] = chosen[q]
  BY <1>b DEF Put
<1>2. e \in Candidates(entries, requirements[p]) /\ e.version \in Versions
  BY <1>0, FetchedType DEF Picks, Candidates, Indices, Entries
<1>3. ASSUME NEW q \in DOMAIN chosen
      PROVE  /\ chosen[q].version \in Versions
             /\ q = p => e.version < chosen[q].version
  <2>1. Best(q) /\ chosen[q].version \in Versions
    BY <1>0 DEF Inv, TypeOK, Entries
  <2>2. q = p => entries = indices[q]
    BY <1>0, <2>1, FetchedType DEF Best
  <2>3. q = p => e.version <= chosen[q].version
    BY <1>2, <2>1, <2>2 DEF Best
  <2> QED
    BY <1>0, <1>b, <1>2, <2>1, <2>3
<1>4. ASSUME NEW x \in Spent PROVE x \in Spent'
  <2>1. PICK q \in Packages, v \in Versions : x = <<q, v>>
    BY DEF Spent
  <2>2. q \in gated \/ (q \in DOMAIN chosen /\ chosen[q].version <= v)
    BY <2>1 DEF Spent
  <2>3. q \in DOMAIN chosen => q \in DOMAIN chosen' /\ chosen'[q].version <= chosen[q].version
    BY <1>0, <1>1, <1>2, <1>3
  <2>4. q \in DOMAIN chosen => chosen'[q].version \in Nat /\ chosen[q].version \in Nat
    BY <1>0, <1>1, <1>2, <1>3
  <2>5. q \in gated' \/ (q \in DOMAIN chosen' /\ chosen'[q].version <= v)
    BY <1>0, <2>2, <2>3, <2>4
  <2> QED
    BY <2>1, <2>5 DEF Spent
<1>5. <<p, e.version>> \in Spent'
  BY <1>0, <1>1, <1>2 DEF Spent
<1>6. <<p, e.version>> \notin Spent
  <2>1. ~(p \in DOMAIN chosen /\ chosen[p].version <= e.version)
    BY <1>0, <1>2, <1>3
  <2> QED
    BY <1>0, <2>1 DEF Spent
<1> QED
  BY <1>4, <1>5, <1>6, SpentGrows

\* Finding a package gated uses up its choices.
LEMMA GatedSpends ==
  ASSUME Inv, NEW p \in Packages, ChooseGated(p)
  PROVE  Cardinality(Spent) + 1 <= Cardinality(Spent')
<1>1. /\ chosen' = chosen /\ gated' = gated \cup {p} /\ p \notin gated
      /\ pc = "name" /\ p \notin DOMAIN indices
  BY DEF ChooseGated
<1>2. p \notin DOMAIN chosen
  BY <1>1 DEF Inv, Best
<1>3. PICK v \in Versions : TRUE
  BY ResolverAssumption DEF ResolverAssumption
<1>4. Spent \subseteq Spent'
  BY <1>1 DEF Spent
<1>5. <<p, v>> \in Spent' /\ <<p, v>> \notin Spent
  BY <1>1, <1>2 DEF Spent
<1> QED
  BY <1>4, <1>5, SpentGrows

\* A resolution begins no pass more than it has choices to make, and one that changes
\* nothing: the backstop of MAX_PASSES is not what ends it.
THEOREM PassesAreFew == Spec => []FewPasses
<1>1. Init => Counted
  BY DEF Init, Counted
<1>2. ASSUME Inv, Counted, [Next]_vars PROVE Counted'
  <2>0. /\ TypeOK /\ passes \in Nat
        /\ Cardinality(Spent) \in Nat /\ (Cardinality(Spent) \in Nat)'
    BY <1>2, SpentFinite, PTL DEF Inv, TypeOK
  <2>1. CASE Seed
    <3>1. passes = 0 /\ passes' = 0 /\ pc' \in {"pass", "failed"}
      BY <1>2, <2>0, <2>1 DEF Seed, TypeOK
    <3> QED
      BY <2>0, <3>1 DEF Counted
  <2>2. CASE BeginPass
    <3>1. /\ Spent' = Spent /\ passes' = passes + 1 /\ pc = "pass" /\ pc' = "name"
          /\ changed' = FALSE
      BY <2>2 DEF BeginPass, state, Spent
    <3> QED
      BY <1>2, <2>0, <3>1 DEF Counted
  <2>3. CASE EndPass
    <3>1. /\ Spent' = Spent /\ passes' = passes /\ pc = "name" /\ changed' = changed
          /\ pc' = IF changed THEN "pass" ELSE "done"
      BY <2>3 DEF EndPass, state, Spent
    <3> QED
      BY <1>2, <2>0, <3>1 DEF Counted
  <2>4. CASE Return
    <3>1. pc' = "idle"
      BY <2>4 DEF Return
    <3> QED
      BY <3>1 DEF Counted
  <2>5. ASSUME NEW p \in Packages, ChooseVersion(p) \/ ChooseGated(p) PROVE Counted'
    <3>1. Cardinality(Spent) + 1 <= Cardinality(Spent')
      BY <1>2, <2>5, ChooseSpends, GatedSpends
    <3>2. passes' = passes /\ pc = "name" /\ pc' = "name"
      BY <2>5 DEF ChooseVersion, ChooseGated
    <3> QED
      BY <1>2, <2>0, <3>1, <3>2 DEF Counted
  <2>6. ASSUME NEW p \in Packages,
               \/ SkipName(p) \/ KeepChoice(p) \/ NoVersion(p) \/ NoIndex(p) \/ BadIndex(p)
               \/ BadRequirement(p)
        PROVE  Counted'
    <3>1. /\ Spent' = Spent /\ passes' = passes /\ pc = "name" /\ pc' \in {"name", "failed"}
          /\ pc' = "name" => changed' = changed
      BY <2>6 DEF SkipName, KeepChoice, NoVersion, NoIndex, BadIndex, BadRequirement, state,
                  Spent
    <3> QED
      BY <1>2, <2>0, <3>1 DEF Counted
  <2>7. ASSUME \/ UNCHANGED vars
               \/ \E p \in Packages : \/ \E e \in index[p] : Yank(p, e)
                                      \/ \E v \in Versions, deps \in Published :
                                           Publish(p, v, deps)
        PROVE  Counted'
    <3>1. Spent' = Spent /\ passes' = passes /\ pc' = pc /\ changed' = changed
      BY <2>7 DEF Yank, Publish, vars, state, Spent
    <3> QED
      BY <1>2, <3>1 DEF Counted
  <2> QED
    BY <1>2, <2>1, <2>2, <2>3, <2>4, <2>5, <2>6, <2>7 DEF Next, Resolve, Refine
<1>3. Inv /\ Counted => FewPasses
  <2> SUFFICES ASSUME Inv, Counted PROVE FewPasses
    OBVIOUS
  <2>1. passes \in Nat /\ pc \in {"idle", "pass", "name", "done", "failed"}
        /\ (pc = "idle" => passes = 0)
    BY DEF Inv, TypeOK
  <2>2. passes <= 1 + Cardinality(Spent)
    BY <2>1, SpentFinite DEF Counted
  <2> QED
    BY <2>1, <2>2, SpentFinite DEF FewPasses
<1>4. Inv /\ Counted /\ [Next]_vars => Counted'
  BY <1>2
<1> QED
  BY <1>1, <1>3, <1>4, Invariance, PTL DEF Spec
====
