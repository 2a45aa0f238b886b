---- MODULE IncrementalBuildProofs ----
(* For any files, imports, targets, identities and commands, any number of builds and
   edits, and kills at any step: no object outlives the identity it was compiled under, a
   digest that is not its object's has one of the named reasons, and where there is none
   what is linked is what a build from nothing would link, and type-checks as a whole. *)
EXTENDS IncrementalBuild, SequenceTheorems, TLAPS

---------------------------------------------------------------------------
(* What a build is about at each of its phases *)

Building == phase \in {"compile", "commit", "link", "writeMap", "writeHashes"}
Saving == phase \in {"writeMap", "writeHashes"}

\* What is queued, and of it what was not on the file map.
Queue == work.wave \cup work.next
Queued == {c.file : c \in Queue}
Awaited == {c.file : c \in {d \in Queue : d.new}}

\* A process at rest has nothing in memory; one that builds does so under its own marker,
\* for a target with objects.
Running ==
  /\ phase = "idle" => info = Null
  /\ phase \notin {"idle", "begin"} => marker = mode /\ info # Null
  /\ Building => objects[Target] # Null

\* How far the files to recompile are; only a build without errors gets to its link.
Worked ==
  /\ phase \in {"idle", "begin"} => work = NoWork
  /\ Building /\ phase # "commit" => work.awaiting = Null
  /\ phase = "commit" => work.awaiting \in work.compiled
  /\ phase = "link" \/ Saving => ~work.errors /\ Queue = {}
  /\ Saving /\ ~work.linked => work = NoWork
  /\ phase \in {"compile", "commit", "link"} => ~work.linked

---------------------------------------------------------------------------
(* Types *)

\* While a build runs its target is the first of those it has yet to build.
LEMMA TargetIsOne == TypeOK /\ phase # "idle" => Target \in Targets
  BY DEF TypeOK, Target

\* What is left to build is a sequence of targets, and not empty unless it was the last.
LEMMA RestIsSome ==
  ASSUME TypeOK, phase # "idle", Len(todo) # 1
  PROVE  Tail(todo) \in Seq(Targets) /\ Tail(todo) # <<>>
<1>1. todo \in Seq(Targets) /\ todo # <<>>
  BY DEF TypeOK
<1>2. Tail(todo) \in Seq(Targets) /\ Len(Tail(todo)) = Len(todo) - 1
  BY <1>1, HeadTailProperties
<1>3. Len(todo) \in Nat /\ Len(todo) # 0
  BY <1>1, EmptySeq, LenProperties
<1>4. Len(Tail(todo)) # 0
  BY <1>2, <1>3, SMT
<1> QED
  BY <1>2, <1>4, EmptySeq

\* The files a compilation asks for are files.
LEMMA ReachIsFiles == \A f : Reach(f) \subseteq Files
  BY DEF Reach

LEMMA NoWorkTyped == NoWork \in Works
  BY DEF NoWork, Works

\* Objects are those of a text and an identity.
LEMMA ObjectTyped == ASSUME TypeOK, NEW f \in Files PROVE Object(f) \in ObjectFiles
  BY DEF TypeOK, Object, ObjectFiles

\* What is loaded is what a build keeps in memory.
LEMMA LoadedTyped == TypeOK => Loaded \in Infos \cup {Null}
  BY DEF TypeOK, Loaded, Infos, FileMaps

\* So is the map of a first build.
LEMMA FreshTyped ==
  ASSUME TypeOK, NEW all \in SUBSET Files PROVE FreshInfo(all) \in Infos
<1>1. [f \in Files |-> IF f \in all THEN ImportedBy(f, all) ELSE {}] \in [Files -> SUBSET Files]
  BY DEF ImportedBy
<1>2. [f \in Files |-> IF f \in all THEN source[f] ELSE Null] \in Digests
  BY DEF TypeOK, Digests
<1> QED
  BY <1>1, <1>2 DEF FreshInfo, Infos

\* A discarded cache has the right types.
LEMMA DiscardTyped ==
  Discard => /\ filemap' = Null /\ filehashes' = Null
             /\ objects' \in [Targets -> ObjectDirs \cup {Null}]
             /\ globalsSet' \in [Targets -> SUBSET Files]
             /\ suspect' = {} /\ drift' = {} /\ mixed' = FALSE
  BY DEF Discard

\* An edit, a kill and the start of a build keep the types.
LEMMA WorldTyped ==
  ASSUME TypeOK,
         \/ \E f \in Files : \E text \in Written[f] \cup {Gone} : Edit(f, text)
         \/ Kill
         \/ \E plan \in Plans, m \in Modes : Start(plan, m)
  PROVE  TypeOK'
<1>1. ASSUME NEW f \in Files, NEW text \in Written[f] \cup {Gone}, Edit(f, text) PROVE TypeOK'
  <2>1. text \in Sources
    BY BuildAssumption DEF BuildAssumption, Sources
  <2>2. source' \in [Files -> Sources]
    BY <1>1, <2>1 DEF Edit, TypeOK
  <2>3. work' \in Works
    BY <1>1 DEF Edit, TypeOK, Works
  <2> QED
    <3>1. edits' \in Nat
      BY <1>1, SMT DEF Edit, TypeOK
    <3>2. /\ UNCHANGED <<marker, filemap, filehashes, objects, globalsSet>>
          /\ UNCHANGED <<phase, mode, todo, info, builds>>
          /\ UNCHANGED <<suspect, drift, mixed>> /\ steady' = FALSE
      BY <1>1 DEF Edit, cache, doubts
    <3> QED
      BY <2>2, <2>3, <3>1, <3>2 DEF TypeOK
<1>2. ASSUME Kill PROVE TypeOK'
  <2>1. /\ filemap' \in FileMaps \cup {Null} /\ filehashes' \in Digests \cup {Null}
        /\ todo' = <<>> /\ phase' = "idle" /\ info' = Null /\ work' \in Works
    BY <1>2, NoWorkTyped DEF Kill, Stop, TypeOK
  <2> QED
    BY <1>2, <2>1, EmptySeq DEF Kill, TypeOK, history, doubts
<1>3. ASSUME NEW plan \in Plans, NEW m \in Modes, Start(plan, m) PROVE TypeOK'
  <2>1. plan \in Seq(Targets) /\ plan # <<>>
    BY BuildAssumption DEF BuildAssumption
  <2>2. info' \in Infos \cup {Null}
    BY <1>3, LoadedTyped DEF Start
  <2>3. builds' \in Nat /\ edits' = edits /\ steady' = steady /\ work' = work /\ source' = source
        /\ phase' = "begin" /\ todo' = plan /\ mode' = m
    BY <1>3, SMT DEF Start, TypeOK
  <2>4. CASE Loaded = Null
    BY <1>3, <2>1, <2>2, <2>3, <2>4, DiscardTyped DEF Start, TypeOK
  <2>5. CASE Loaded # Null
    BY <1>3, <2>1, <2>2, <2>3, <2>5 DEF Start, TypeOK, cache, doubts
  <2> QED
    BY <2>4, <2>5
<1> QED
  BY <1>1, <1>2, <1>3

\* So do the first builds and the ends of those that fail.
LEMMA BeginTyped ==
  ASSUME TypeOK,
         \/ Identify \/ Initialize \/ RejectAll \/ RejectChange \/ RecheckGone
         \/ \E emitted \in SUBSET Files : KillInitialize(emitted)
  PROVE  TypeOK' /\ (Initialize => info' \in Infos /\ objects'[Target] \in ObjectDirs)
<1>1. ASSUME Identify PROVE TypeOK'
  <2>1. mode \in Modes
    BY DEF TypeOK
  <2> QED
    BY <1>1, <2>1, DiscardTyped DEF Identify, TypeOK
<1>c. Identify \/ RejectAll \/ RejectChange \/ RecheckGone \/ (\E emitted \in SUBSET Files : KillInitialize(emitted))
        => ~Initialize
  <2>1. Identify => ~Initialize
    BY DEF Identify, Initialize, Begun
  <2>2. RejectAll => ~Initialize
    BY DEF RejectAll, Initialize
  <2>3. RejectChange \/ RecheckGone => ~Initialize
    BY DEF RejectChange, RecheckGone, CachedBegun, Initialize
  <2>4. (\E emitted \in SUBSET Files : KillInitialize(emitted)) => ~Initialize
    BY DEF KillInitialize, Initialize, Stop
  <2> QED
    BY <2>1, <2>2, <2>3, <2>4
<1>a. ASSUME NEW S \in SUBSET Files, phase # "idle",
             objects' = [objects EXCEPT ![Target] =
                           [f \in Files |-> IF f \in S THEN Object(f) ELSE Null]]
      PROVE  objects' \in [Targets -> ObjectDirs \cup {Null}] /\ objects'[Target] \in ObjectDirs
  <2>1. [f \in Files |-> IF f \in S THEN Object(f) ELSE Null] \in ObjectDirs
    BY ObjectTyped DEF ObjectDirs
  <2> QED
    BY <1>a, <2>1, TargetIsOne DEF TypeOK
<1>b. ASSUME NEW S \in SUBSET Files, phase # "idle", globalsSet' = [globalsSet EXCEPT ![Target] = S]
      PROVE  globalsSet' \in [Targets -> SUBSET Files]
  BY <1>b, TargetIsOne DEF TypeOK
<1>2. ASSUME Initialize PROVE TypeOK' /\ info' \in Infos /\ objects'[Target] \in ObjectDirs
  <2> DEFINE all == Reach(Main)
  <2>1. phase # "idle" /\ all \in SUBSET Files /\ Target \in Targets
    BY <1>2, ReachIsFiles, TargetIsOne DEF Initialize, Begun
  <2>2. objects' \in [Targets -> ObjectDirs \cup {Null}] /\ objects'[Target] \in ObjectDirs
    BY <1>2, <1>a, <2>1 DEF Initialize
  <2>3. globalsSet' \in [Targets -> SUBSET Files]
    BY <1>2, <1>b, <2>1 DEF Initialize
  <2>4. info' \in Infos
    BY <1>2, <2>1, FreshTyped DEF Initialize, TypeOK
  <2>5. suspect' \subseteq Targets \X Files
    BY <1>2, <2>1 DEF Initialize, TypeOK
  <2>6. drift' \subseteq Targets
    BY <1>2, <2>1 DEF Initialize, TypeOK
  <2> QED
    BY <1>2, <2>2, <2>3, <2>4, <2>5, <2>6, NoWorkTyped, SMT DEF Initialize, TypeOK, Begun
<1>3. ASSUME RejectAll PROVE TypeOK'
  BY <1>3, NoWorkTyped, EmptySeq DEF RejectAll, Stop, TypeOK, cache, history, doubts
<1>4. ASSUME RejectChange PROVE TypeOK'
  BY <1>4, NoWorkTyped, EmptySeq DEF RejectChange, Stop, TypeOK, cache, history, doubts
<1>5. ASSUME RecheckGone PROVE TypeOK'
  BY <1>5 DEF RecheckGone, CachedBegun, Begun, TypeOK, cache, history, doubts
<1>6. ASSUME NEW emitted \in SUBSET Files, KillInitialize(emitted) PROVE TypeOK'
  <2>1. phase # "idle" /\ Reach(Main) \in SUBSET Files /\ Target \in Targets
    BY <1>6, ReachIsFiles, TargetIsOne DEF KillInitialize, Begun
  <2>2. objects' \in [Targets -> ObjectDirs \cup {Null}]
    BY <1>6, <1>a, <2>1 DEF KillInitialize
  <2>3. globalsSet' \in [Targets -> SUBSET Files]
    BY <1>6, <1>b, <2>1 DEF KillInitialize
  <2>4. suspect' \subseteq Targets \X Files /\ drift' \subseteq Targets
    BY <1>6, <2>1 DEF KillInitialize, TypeOK
  <2> QED
    BY <1>6, <2>2, <2>3, <2>4, NoWorkTyped, EmptySeq DEF KillInitialize, Stop, TypeOK
<1> QED
  BY <1>1, <1>2, <1>3, <1>4, <1>5, <1>6, <1>c

\* What the importers of files are, and what is queued.
LEMMA ImportersTyped == \A g, S : S \subseteq Files => ImportedBy(g, S) \subseteq Files
  BY DEF ImportedBy

LEMMA ComponentTyped ==
  \A g \in Files, new \in BOOLEAN, S \in SUBSET Files : Component(g, new, S) \in Components
  BY DEF Component, Components

LEMMA OrphansTyped == ASSUME info \in Infos PROVE Orphans \subseteq Files
<1>1. \A f \in Removed : info.rechecks[f] \subseteq Files
  BY DEF Removed, Infos
<1> QED
  BY <1>1 DEF Orphans

\* The detection of changes keeps the types.
LEMMA DetectTyped == ASSUME TypeOK, Running, Detect PROVE TypeOK' /\ info' \in Infos
<1>1. info \in Infos /\ Removed \subseteq Files /\ Changed \subseteq Files
  BY DEF Detect, CachedBegun, TypeOK, Removed, Changed, Infos
<1>2. {Component(f, FALSE, {}) : f \in Orphans \cup Changed} \subseteq Components
  BY <1>1, OrphansTyped, ComponentTyped
<1>3. work' \in Works
  BY <1>2 DEF Detect, NoWork, Works
<1>4. info' \in Infos
  <2>1. [f \in Files |-> IF f \in Removed THEN Null ELSE info.hashes[f]] \in Digests
    BY <1>1 DEF Infos, Digests
  <2> DEFINE hashes == [f \in Files |-> IF f \in Removed THEN Null ELSE info.hashes[f]]
  <2>2. info' = [info EXCEPT !.tracked = @ \ Removed, !.hashes = hashes, !.inits = @ \ Removed,
                             !.newMap = @ \/ Removed \cap info.inits # {}]
    BY DEF Detect
  <2> HIDE DEF hashes
  <2>3. (info.newMap \/ Removed \cap info.inits # {}) \in BOOLEAN
    BY <1>1 DEF Infos
  <2>4. hashes \in Digests
    BY <2>1 DEF hashes
  <2> QED
    BY <1>1, <2>2, <2>3, <2>4 DEF Infos
<1> QED
  BY <1>3, <1>4 DEF Detect, CachedBegun, Begun, TypeOK, cache, doubts

\* What the compilation of component c finds: its file, what it loads and what it adds.
Loads(c) == {g \in Reach(c.file) : source[g] # Gone}
NowTracked(c) == IF c.new THEN info.tracked \cup {c.file} ELSE info.tracked
Found(c) == {Component(g, TRUE, ImportedBy(g, Loads(c))) : g \in Loads(c) \ NowTracked(c)}
Added(c) == NowTracked(c) # info.tracked

\* Compile, by what it makes of each part.
LEMMA CompileParts ==
  ASSUME NEW c, Compile(c)
  PROVE
    /\ phase = "compile" /\ c \in Wave /\ source[c.file] # Gone
    /\ objects' = IF Checks(c.file) THEN [objects EXCEPT ![Target][c.file] = Object(c.file)] ELSE objects
    /\ info' = [info EXCEPT
          !.tracked = NowTracked(c),
          !.rechecks[c.file] = IF Added(c) THEN c.importers
                          ELSE IF c.file \in NowTracked(c) THEN @ \cup ImportedBy(c.file, Loads(c)) ELSE @,
          !.inits = IF c.new THEN @ \cup {c.file} ELSE @,
          !.hashes[c.file] = IF Added(c) THEN source[c.file] ELSE @,
          !.newMap = @ \/ Added(c),
          !.newHashes = @ \/ Added(c)]
    /\ work' = [work EXCEPT
          !.wave = Wave \ {c},
          !.next = {d \in Later : d.file \notin Loads(c) \ NowTracked(c)} \cup Found(c),
          !.errors = @ \/ ~Checks(c.file),
          !.reshaped = @ \/ Found(c) # {},
          !.awaiting = IF Checks(c.file) THEN c.file ELSE Null,
          !.compiled = IF Checks(c.file) THEN @ \cup {c.file} ELSE @,
          !.moved = IF Checks(c.file) THEN @ \ {c.file} ELSE @]
    /\ phase' = IF Checks(c.file) THEN "commit" ELSE "compile"
    /\ suspect' = IF Checks(c.file) THEN suspect \cup {<<Target, c.file>>} ELSE suspect
    /\ UNCHANGED <<source, marker, filemap, filehashes, globalsSet, mode, todo, builds, edits,
                   steady, drift, mixed>>
  BY DEF Compile, NowTracked, Loads, Added, Found

\* The compilation of a component keeps the types.
LEMMA CompileTyped ==
  ASSUME TypeOK, Running, NEW c, Compile(c)
  PROVE  TypeOK' /\ info' \in Infos /\ objects'[Target] \in ObjectDirs
<1>1. /\ info \in Infos /\ work \in Works /\ c \in Components /\ c.file \in Files /\ phase # "idle"
      /\ Target \in Targets /\ objects[Target] \in ObjectDirs
      /\ Wave \subseteq Components /\ Later \subseteq Components
  <2>1. phase = "compile" /\ c \in Wave
    BY CompileParts
  <2>2. info \in Infos /\ work \in Works /\ Target \in Targets /\ objects[Target] \in ObjectDirs
    BY <2>1, TargetIsOne DEF Running, Building, TypeOK
  <2>3. Wave \subseteq Components /\ Later \subseteq Components
    BY <2>2 DEF Wave, Later, Works
  <2> QED
    BY <2>1, <2>2, <2>3 DEF Components
<1>2. Loads(c) \subseteq Files /\ NowTracked(c) \subseteq Files
  BY <1>1, ReachIsFiles DEF Loads, NowTracked, Infos
<1>3. Found(c) \subseteq Components
  BY <1>2, ImportersTyped, ComponentTyped DEF Found
<1>4. objects' \in [Targets -> ObjectDirs \cup {Null}] /\ objects'[Target] \in ObjectDirs
  <2>1. Object(c.file) \in ObjectFiles
    BY <1>1, ObjectTyped
  <2>2. [objects[Target] EXCEPT ![c.file] = Object(c.file)] \in ObjectDirs
    BY <1>1, <2>1 DEF ObjectDirs
  <2>3. \/ objects' = [objects EXCEPT ![Target] = [objects[Target] EXCEPT ![c.file] = Object(c.file)]]
        \/ objects' = objects
    <3>1. objects' = IF Checks(c.file) THEN [objects EXCEPT ![Target][c.file] = Object(c.file)]
                     ELSE objects
      BY CompileParts
    <3> QED
      BY <3>1
  <2>4. objects'[Target] \in ObjectDirs
    BY <1>1, <2>2, <2>3 DEF TypeOK
  <2> QED
    BY <1>1, <2>2, <2>3, <2>4 DEF TypeOK
<1>5. info' \in Infos
  <2> DEFINE re == IF Added(c) THEN c.importers
                   ELSE IF c.file \in NowTracked(c) THEN info.rechecks[c.file] \cup ImportedBy(c.file, Loads(c))
                   ELSE info.rechecks[c.file]
             ha == IF Added(c) THEN source[c.file] ELSE info.hashes[c.file]
             tr == NowTracked(c)
             ad == Added(c)
             rechecks == [info.rechecks EXCEPT ![c.file] = re]
             hashes == [info.hashes EXCEPT ![c.file] = ha]
  <2>1. info' = [info EXCEPT !.tracked = tr, !.rechecks = rechecks,
                             !.inits = IF c.new THEN @ \cup {c.file} ELSE @,
                             !.hashes = hashes,
                             !.newMap = @ \/ ad, !.newHashes = @ \/ ad]
    <3>1. info' = [info EXCEPT !.tracked = tr, !.rechecks[c.file] = re,
                               !.inits = IF c.new THEN @ \cup {c.file} ELSE @,
                               !.hashes[c.file] = ha,
                               !.newMap = @ \/ ad, !.newHashes = @ \/ ad]
      BY CompileParts
    <3> HIDE DEF re, ha, tr, ad
    <3> QED
      BY <3>1
  <2>2. re \in SUBSET Files /\ ha \in Sources \cup {Null} /\ ad \in BOOLEAN /\ tr \in SUBSET Files
    <3>1. re \in SUBSET Files
      BY <1>1, <1>2, ImportersTyped DEF Infos, Components
    <3>2. ha \in Sources \cup {Null}
      BY <1>1 DEF Infos, Digests, TypeOK
    <3> QED
      BY <1>2, <3>1, <3>2 DEF Added
  <2> HIDE DEF re, ha, ad, tr
  <2>3. rechecks \in [Files -> SUBSET Files] /\ hashes \in Digests
    BY <1>1, <2>2 DEF Infos, Digests
  <2> HIDE DEF rechecks, hashes
  <2> QED
    BY <1>1, <2>1, <2>2, <2>3 DEF Infos
<1>6. work' \in Works
  <2> DEFINE later == {d \in Later : d.file \notin Loads(c) \ NowTracked(c)} \cup Found(c)
             ok == Checks(c.file)
             some == Found(c) # {}
  <2>1. work' = [work EXCEPT !.wave = Wave \ {c}, !.next = later, !.errors = @ \/ ~ok,
                             !.reshaped = @ \/ some,
                             !.awaiting = IF ok THEN c.file ELSE Null,
                             !.compiled = IF ok THEN @ \cup {c.file} ELSE @,
                             !.moved = IF ok THEN @ \ {c.file} ELSE @]
    BY CompileParts
  <2>2. later \subseteq Components
    BY <1>1, <1>3
  <2> HIDE DEF later, ok, some
  <2> QED
    BY <1>1, <2>1, <2>2 DEF Works
<1>7. suspect' \subseteq Targets \X Files
  <2>1. suspect' = IF Checks(c.file) THEN suspect \cup {<<Target, c.file>>} ELSE suspect
    BY CompileParts
  <2> QED
    BY <1>1, <2>1 DEF TypeOK
<1>8. phase' \in {"compile", "commit"} /\ phase = "compile"
  BY CompileParts
<1>9. UNCHANGED <<source, marker, filemap, filehashes, globalsSet, mode, todo, builds, edits,
                  steady, drift, mixed>>
  BY CompileParts
<1> QED
  BY <1>4, <1>5, <1>6, <1>7, <1>8, <1>9 DEF TypeOK

\* A commit, a missing file, the aggregation and the link keep the types.
LEMMA LinkTyped ==
  ASSUME TypeOK, Running, Worked, CompileGone \/ Commit \/ Aggregate \/ Link \/ LinkFails
  PROVE  TypeOK' /\ (Commit => info' \in Infos)
<1>t. Building => info \in Infos /\ work \in Works /\ Target \in Targets /\ todo # <<>>
  BY TargetIsOne DEF Running, Building, TypeOK
<1>c. CompileGone \/ Aggregate \/ Link \/ LinkFails => ~Commit
  BY DEF CompileGone, Aggregate, Link, LinkFails, Commit
<1>1. CASE CompileGone
  BY <1>1, <1>c DEF CompileGone, TypeOK, cache, history, doubts
<1>2. CASE Commit
  <2>1. /\ work.awaiting \in Files /\ source[work.awaiting] \in Sources /\ info \in Infos
        /\ work \in Works
    BY <1>2, <1>t DEF Commit, Building, Worked, TypeOK, Works
  <2>2. [info.hashes EXCEPT ![work.awaiting] = source[work.awaiting]] \in Digests
    BY <2>1 DEF Infos, Digests
  <2> DEFINE hashes == [info.hashes EXCEPT ![work.awaiting] = source[work.awaiting]]
  <2>3. info' = [info EXCEPT !.hashes = hashes, !.newHashes = TRUE]
    BY <1>2 DEF Commit
  <2> HIDE DEF hashes
  <2>4. info' \in Infos
    <3>1. hashes \in Digests
      BY <2>2 DEF hashes
    <3> QED
      BY <2>1, <2>3, <3>1 DEF Infos
  <2>5. work' \in Works
    BY <1>2, <2>1 DEF Commit, Works
  <2> QED
    BY <1>2, <2>4, <2>5 DEF Commit, TypeOK, cache, history, doubts
<1>3. CASE Aggregate
  <2>1. info.inits \subseteq Files /\ Target \in Targets
    BY <1>3, <1>t DEF Aggregate, Building, Infos
  <2>2. globalsSet' \in [Targets -> SUBSET Files] /\ drift' \subseteq Targets
    BY <1>3, <2>1 DEF Aggregate, TypeOK
  <2>3. \/ phase' = "link" /\ UNCHANGED <<todo, info, work>>
        \/ Stop
    BY <1>3 DEF Aggregate
  <2> QED
    BY <1>3, <1>c, <2>2, <2>3, NoWorkTyped, EmptySeq DEF Aggregate, Stop, TypeOK
<1>4. CASE Link
  <2>1. work' \in Works
    BY <1>4, <1>t DEF Link, Building, Works
  <2> QED
    BY <1>4, <1>c, <2>1 DEF Link, TypeOK, cache, history, doubts
<1>5. CASE LinkFails
  <2>1. work \in Works /\ Others \subseteq Targets /\ phase # "idle"
    BY <1>5, <1>t DEF LinkFails, Building, Others
  <2>2. suspect' \subseteq Targets \X Files /\ drift' \subseteq Targets
    BY <1>5, <2>1 DEF LinkFails, TypeOK, Works
  <2>3. \/ Stop
        \/ phase' = "begin" /\ todo' = Tail(todo) /\ work' = NoWork /\ UNCHANGED info /\ Len(todo) # 1
    BY <1>5 DEF LinkFails
  <2> QED
    BY <1>5, <1>c, <2>1, <2>2, <2>3, NoWorkTyped, EmptySeq, RestIsSome DEF LinkFails, Stop, TypeOK, cache
<1> QED
  BY <1>1, <1>2, <1>3, <1>4, <1>5

\* Saving keeps them.
LEMMA SaveTyped ==
  ASSUME TypeOK, Running, WriteMap \/ WriteHashes
  PROVE  /\ TypeOK'
         /\ WriteMap => info' \in Infos
         /\ WriteHashes => Stop \/ info' \in Infos
<1>t. info \in Infos /\ work \in Works /\ Target \in Targets /\ Others \subseteq Targets
  BY TargetIsOne DEF Running, Building, TypeOK, WriteMap, WriteHashes, Others
<1>m. \A b \in BOOLEAN : [info EXCEPT !.newMap = b] \in Infos /\ [info EXCEPT !.newHashes = b] \in Infos
  BY <1>t DEF Infos
<1>c. ~(WriteMap /\ WriteHashes)
  BY DEF WriteMap, WriteHashes
<1>1. CASE WriteMap
  <2>1. filemap' \in FileMaps \cup {Null}
    BY <1>1, <1>t DEF WriteMap, TypeOK, FileMaps, Infos
  <2>2. suspect' \subseteq Targets \X Files /\ drift' \subseteq Targets
    BY <1>1, <1>t DEF WriteMap, TypeOK
  <2> QED
    BY <1>1, <1>c, <1>m, <2>1, <2>2 DEF WriteMap, TypeOK
<1>2. CASE WriteHashes
  <2>1. filehashes' \in Digests \cup {Null}
    BY <1>2, <1>t DEF WriteHashes, TypeOK, Infos
  <2>2. suspect' \subseteq Targets \X Files /\ drift' \subseteq Targets /\ mixed' \in BOOLEAN
    BY <1>2, <1>t DEF WriteHashes, TypeOK, Works
  <2>3. \/ phase' = "link" /\ info' = [info EXCEPT !.newHashes = FALSE] /\ UNCHANGED <<todo, work>>
        \/ Stop
        \/ /\ Len(todo) # 1 /\ phase' = "begin" /\ todo' = Tail(todo)
           /\ info' = [info EXCEPT !.newHashes = FALSE] /\ work' = NoWork
    BY <1>2 DEF WriteHashes
  <2>4. phase # "idle" /\ todo # <<>>
    BY <1>2 DEF WriteHashes, TypeOK
  <2> QED
    BY <1>2, <1>c, <1>m, <2>1, <2>2, <2>3, <2>4, NoWorkTyped, EmptySeq, RestIsSome
    DEF WriteHashes, Stop, TypeOK
<1> QED
  BY <1>1, <1>2

\* Every step keeps the types, if the build is where its phase says.
LEMMA NextTyped == ASSUME TypeOK, Running, Worked, [Next]_vars PROVE TypeOK'
<1>1. CASE UNCHANGED vars
  BY <1>1 DEF vars, TypeOK, cache, history, doubts
<1> QED
  BY <1>1, WorldTyped, BeginTyped, DetectTyped, CompileTyped, LinkTyped, SaveTyped DEF Next, Step

---------------------------------------------------------------------------
(* The phases of a build *)

\* What the parts of the cache are is not the value for none.
LEMMA NotNull ==
  /\ \A x \in Infos : x # Null
  /\ \A x \in ObjectDirs : x # Null
  BY NullAssumption DEF NullAssumption

\* The end of a process leaves nothing behind.
LEMMA StopRests == Stop => Running' /\ Worked'
  BY DEF Stop, Running, Worked, Building, Saving

\* Every step of a build keeps it where its phase says.
LEMMA StepRunning == ASSUME TypeOK, Running, Worked, Step PROVE Running' /\ Worked'
<1>t. UNCHANGED todo => Target' = Target
  BY DEF Target
<1>1. ASSUME Identify PROVE Running' /\ Worked'
  BY <1>1 DEF Identify, Running, Worked, Building, Saving
<1>2. ASSUME Initialize PROVE Running' /\ Worked'
  <2>1. info' # Null /\ objects'[Target] # Null
    BY <1>2, BeginTyped, NotNull
  <2>2. phase' = "writeMap" /\ marker' = mode' /\ work' = NoWork /\ Target' = Target
    BY <1>2, <1>t DEF Initialize, Begun
  <2>3. Running'
    BY <2>1, <2>2 DEF Running, Building
  <2>4. ~NoWork.errors /\ NoWork.awaiting = Null /\ NoWork.wave = {} /\ NoWork.next = {}
    BY DEF NoWork
  <2> QED
    BY <2>2, <2>3, <2>4 DEF Worked, Saving, Building, Queue
<1>3. ASSUME RejectAll \/ RejectChange PROVE Running' /\ Worked'
  BY <1>3, StopRests DEF RejectAll, RejectChange
<1>4. ASSUME Detect PROVE Running' /\ Worked'
  <2>1. info' # Null /\ objects' = objects /\ objects[Target] # Null
    BY <1>4, DetectTyped, NotNull DEF Detect, CachedBegun, cache
  <2>2. phase' = "compile" /\ marker' = mode' /\ Target' = Target
    BY <1>4, <1>t DEF Detect, CachedBegun, Begun, cache
  <2>3. work'.awaiting = Null /\ ~work'.linked
    BY <1>4 DEF Detect, NoWork
  <2> QED
    BY <2>1, <2>2, <2>3 DEF Running, Worked, Saving, Building
<1>5. ASSUME RecheckGone PROVE Running' /\ Worked'
  BY <1>5 DEF RecheckGone, CachedBegun, Begun, Running, Worked, Saving, Building, cache
<1>6. ASSUME NEW c \in Wave, Compile(c) PROVE Running' /\ Worked'
  <2>1. info' # Null /\ objects'[Target] # Null
    BY <1>6, CompileTyped, NotNull
  <2>2. /\ phase = "compile" /\ phase' = (IF Checks(c.file) THEN "commit" ELSE "compile")
        /\ UNCHANGED <<marker, mode, todo>>
    BY <1>6, CompileParts
  <2>3. /\ work'.awaiting = (IF Checks(c.file) THEN c.file ELSE Null)
        /\ Checks(c.file) => c.file \in work'.compiled
        /\ work'.linked = work.linked
    <3>1. work \in Works
      BY DEF TypeOK
    <3> QED
      BY <1>6, <3>1 DEF Compile, Works
  <2>4. marker = mode /\ ~work.linked
    BY <2>2 DEF Running, Worked
  <2> QED
    BY <1>t, <2>1, <2>2, <2>3, <2>4 DEF Running, Worked, Saving, Building
<1>7. ASSUME CompileGone PROVE Running' /\ Worked'
  BY <1>7 DEF CompileGone, Running, Worked, Saving, Building, cache
<1>8. ASSUME Commit PROVE Running' /\ Worked'
  <2>1. info' # Null /\ objects' = objects /\ objects[Target] # Null /\ Target' = Target
    BY <1>8, <1>t, LinkTyped, NotNull DEF Commit, Running, Building, cache
  <2>2. work'.awaiting = Null /\ work'.linked = work.linked
    BY <1>8 DEF Commit, TypeOK, Works
  <2> QED
    BY <1>8, <2>1, <2>2 DEF Commit, Running, Worked, Saving, Building, cache
<1>9. ASSUME Aggregate PROVE Running' /\ Worked'
  <2>1. CASE work.errors
    BY <1>9, <2>1, StopRests DEF Aggregate
  <2>2. CASE ~work.errors
    <3>1. phase = "compile" /\ phase' = "link" /\ work.wave = {} /\ work.next = {}
      BY <1>9, <2>2 DEF Aggregate, Wave
    <3> QED
      BY <1>9, <1>t, <2>2, <3>1 DEF Aggregate, Running, Worked, Saving, Building, Queue
  <2> QED
    BY <2>1, <2>2
<1>10. ASSUME Link PROVE Running' /\ Worked'
  <2>1. work' = [work EXCEPT !.linked = TRUE] /\ work \in Works
    BY <1>10 DEF Link, TypeOK
  <2>2. work'.linked /\ work'.errors = work.errors /\ work'.awaiting = work.awaiting /\ Queue' = Queue
    BY <2>1 DEF Works, Queue
  <2> QED
    BY <1>10, <1>t, <2>2 DEF Link, Running, Worked, Saving, Building, cache
<1>11. ASSUME LinkFails PROVE Running' /\ Worked'
  <2>1. CASE Len(todo) = 1
    BY <1>11, <2>1, StopRests DEF LinkFails
  <2>2. CASE Len(todo) # 1
    BY <1>11, <2>2 DEF LinkFails, Running, Worked, Saving, Building, cache
  <2> QED
    BY <2>1, <2>2
<1>12. ASSUME WriteMap PROVE Running' /\ Worked'
  <2>1. info' # Null
    BY <1>12, SaveTyped, NotNull
  <2> QED
    BY <1>12, <1>t, <2>1 DEF WriteMap, Running, Worked, Saving, Building, Queue
<1>13. ASSUME WriteHashes PROVE Running' /\ Worked'
  <2>1. CASE Stop
    BY <2>1, StopRests
  <2>2. CASE info' \in Infos /\ ~work.linked
    <3>1. info' # Null /\ work = NoWork /\ work' = NoWork /\ ~NoWork.linked /\ ~NoWork.errors
          /\ NoWork.awaiting = Null /\ NoWork.wave = {} /\ NoWork.next = {}
      BY <1>13, <2>2, NotNull DEF WriteHashes, Worked, Saving, NoWork
    <3> QED
      BY <1>13, <1>t, <2>2, <3>1 DEF WriteHashes, Running, Worked, Saving, Building, Queue
  <2>3. CASE work.linked /\ Len(todo) # 1
    BY <1>13, <2>3 DEF WriteHashes, Running, Worked, Saving, Building
  <2> QED
    BY <1>13, <2>1, <2>2, <2>3, SaveTyped DEF WriteHashes
<1> QED
  BY <1>1, <1>2, <1>3, <1>4, <1>5, <1>6, <1>7, <1>8, <1>9, <1>10, <1>11, <1>12, <1>13 DEF Step

\* So does what happens around it.
LEMMA WorldRunning ==
  ASSUME TypeOK, Running, Worked,
         \/ \E f \in Files : \E text \in Written[f] \cup {Gone} : Edit(f, text)
         \/ Kill
         \/ \E plan \in Plans, m \in Modes : Start(plan, m)
         \/ \E emitted \in SUBSET Files : KillInitialize(emitted)
  PROVE  Running' /\ Worked'
<1>1. ASSUME NEW f \in Files, NEW text \in Written[f] \cup {Gone}, Edit(f, text)
      PROVE  Running' /\ Worked'
  <2>1. UNCHANGED <<phase, mode, marker, objects, todo, info>> /\ Target' = Target
    BY <1>1 DEF Edit, cache, Target
  <2>2. CASE work.awaiting = f
    <3>1. work' = [work EXCEPT !.moved = @ \cup {f}] /\ work \in Works /\ f # Null
      BY <1>1, <2>2, NullAssumption DEF Edit, TypeOK, NullAssumption
    <3>2. /\ work'.awaiting = work.awaiting /\ work'.compiled = work.compiled
          /\ work'.errors = work.errors /\ work'.linked = work.linked /\ Queue' = Queue
      BY <3>1 DEF Works, Queue
    <3>3. work # NoWork
      BY <2>2, <3>1 DEF NoWork
    <3> QED
      BY <2>1, <3>2, <3>3 DEF Running, Worked, Building, Saving
  <2>3. CASE work.awaiting # f
    BY <1>1, <2>1, <2>3 DEF Edit, Running, Worked, Building, Saving, Queue
  <2> QED
    BY <2>2, <2>3
<1>2. ASSUME Kill PROVE Running' /\ Worked'
  BY <1>2, StopRests DEF Kill
<1>3. ASSUME NEW plan \in Plans, NEW m \in Modes, Start(plan, m) PROVE Running' /\ Worked'
  BY <1>3 DEF Start, Running, Worked, Building, Saving
<1>4. ASSUME NEW emitted \in SUBSET Files, KillInitialize(emitted) PROVE Running' /\ Worked'
  BY <1>4, StopRests DEF KillInitialize
<1> QED
  BY <1>1, <1>2, <1>3, <1>4

\* What a build is about, in one invariant.
Shape == TypeOK /\ Running /\ Worked

LEMMA InitShape == Init => Shape
<1> SUFFICES ASSUME Init PROVE Shape
  OBVIOUS
<1>1. source \in [Files -> Sources]
  BY DEF Init, Sources
<1>2. TypeOK
  BY <1>1, NoWorkTyped, EmptySeq DEF Init, TypeOK
<1> QED
  BY <1>2 DEF Init, Shape, Running, Worked, Building, Saving

LEMMA NextShape == Shape /\ [Next]_vars => Shape'
<1> SUFFICES ASSUME Shape, [Next]_vars PROVE Shape'
  OBVIOUS
<1>1. TypeOK'
  BY NextTyped DEF Shape
<1>2. CASE UNCHANGED vars
  BY <1>1, <1>2
  DEF vars, Shape, Running, Worked, Building, Saving, Queue, Target, cache
<1> QED
  BY <1>1, <1>2, StepRunning, WorldRunning DEF Shape, Next

\* Files, memory and history have the types the code gives them.
THEOREM TypeCorrect == Spec => []TypeOK
<1>1. Shape => TypeOK
  BY DEF Shape
<1> QED
  BY <1>1, InitShape, NextShape, PTL DEF Spec

---------------------------------------------------------------------------
(* Identity *)

\* Objects written under the marker are of the marker's identity.
LEMMA WritesOwn ==
  ASSUME OneIdentity, NEW t \in Targets, NEW dir, objects \in [Targets -> ObjectDirs \cup {Null}],
         objects' = [objects EXCEPT ![t] = dir], marker' = marker,
         dir # Null => \A f \in Files : dir[f] # Null => dir[f].mode = marker
  PROVE  OneIdentity'
  BY DEF OneIdentity

\* Every step keeps the objects of one identity.
LEMMA IdentityStep == Shape /\ OneIdentity /\ [Next]_vars => OneIdentity'
<1> SUFFICES ASSUME Shape, OneIdentity, [Next]_vars PROVE OneIdentity'
  OBVIOUS
<1>t. objects \in [Targets -> ObjectDirs \cup {Null}] /\ (phase # "idle" => Target \in Targets)
  BY TargetIsOne DEF Shape, TypeOK
<1>o. \A f \in Files : Object(f).mode = mode
  BY DEF Object
<1>1. ASSUME UNCHANGED <<objects, marker>> PROVE OneIdentity'
  BY <1>1 DEF OneIdentity
<1>2. ASSUME Discard PROVE OneIdentity'
  BY <1>2 DEF Discard, OneIdentity
<1>3. ASSUME Initialize PROVE OneIdentity'
  <2> DEFINE dir == [f \in Files |-> IF f \in Reach(Main) THEN Object(f) ELSE Null]
  <2>1. objects' = [objects EXCEPT ![Target] = dir] /\ marker' = marker /\ marker = mode
        /\ phase # "idle"
    BY <1>3 DEF Initialize, Begun
  <2>2. \A f \in Files : dir[f] # Null => dir[f].mode = marker
    BY <2>1, <1>o
  <2> HIDE DEF dir
  <2> QED
    BY <1>t, <2>1, <2>2, WritesOwn
<1>4. ASSUME NEW emitted \in SUBSET Files, KillInitialize(emitted) PROVE OneIdentity'
  <2> DEFINE dir == [f \in Files |-> IF f \in emitted THEN Object(f) ELSE Null]
  <2>1. objects' = [objects EXCEPT ![Target] = dir] /\ marker' = marker /\ marker = mode
        /\ phase # "idle"
    BY <1>4 DEF KillInitialize, Begun
  <2>2. \A f \in Files : dir[f] # Null => dir[f].mode = marker
    BY <2>1, <1>o
  <2> HIDE DEF dir
  <2> QED
    BY <1>t, <2>1, <2>2, WritesOwn
<1>5. ASSUME NEW c \in Wave, Compile(c) PROVE OneIdentity'
  <2>1. /\ phase = "compile" /\ marker' = marker
        /\ objects' = IF Checks(c.file) THEN [objects EXCEPT ![Target][c.file] = Object(c.file)]
                      ELSE objects
    BY <1>5, CompileParts
  <2>2. CASE ~Checks(c.file)
    BY <1>1, <2>1, <2>2
  <2>3. CASE Checks(c.file)
    <3> DEFINE dir == [objects[Target] EXCEPT ![c.file] = Object(c.file)]
    <3>1. objects' = [objects EXCEPT ![Target] = dir]
      BY <2>1, <2>3
    <3>2. marker = mode /\ objects[Target] # Null
      BY <2>1 DEF Shape, Running, Building
    <3>3. objects[Target] \in ObjectDirs
      BY <1>t, <2>1, <3>2
    <3>4. \A f \in Files : dir[f] # Null => dir[f].mode = marker
      BY <1>t, <1>o, <2>1, <3>2, <3>3 DEF OneIdentity, ObjectDirs
    <3> HIDE DEF dir
    <3> QED
      BY <1>t, <2>1, <3>1, <3>4, WritesOwn
  <2> QED
    BY <2>2, <2>3
<1>6. ASSUME Identify PROVE OneIdentity'
  BY <1>6, <1>2 DEF Identify
<1>7. ASSUME NEW plan \in Plans, NEW m \in Modes, Start(plan, m) PROVE OneIdentity'
  BY <1>7, <1>1, <1>2 DEF Start, cache
<1>8. CASE \/ RejectAll \/ Detect \/ RejectChange \/ RecheckGone \/ CompileGone \/ Commit
           \/ Aggregate \/ Link \/ LinkFails \/ WriteMap \/ WriteHashes \/ Kill
           \/ \E f \in Files : \E text \in Written[f] \cup {Gone} : Edit(f, text)
           \/ UNCHANGED vars
  <2>1. UNCHANGED <<objects, marker>>
    BY <1>8
    DEF RejectAll, Detect, RejectChange, RecheckGone, CompileGone, Commit, Aggregate, Link,
        LinkFails, WriteMap, WriteHashes, Kill, Edit, vars, cache
  <2> QED
    BY <1>1, <2>1
<1> QED
  BY <1>3, <1>4, <1>5, <1>6, <1>7, <1>8 DEF Next, Step

\* Whatever is built in which order, killed or not: every object in the cache is of the
\* identity its marker names.
THEOREM IdentityIsOne == Spec => []OneIdentity
<1>1. Init => OneIdentity
  BY DEF Init, OneIdentity
<1> QED
  BY <1>1, InitShape, NextShape, IdentityStep, PTL DEF Spec

---------------------------------------------------------------------------
(* Digests and objects *)

Baseline == filemap # Null /\ filehashes # Null

\* The initializers are those of the tracked files, in the map and in memory. A build has
\* both saved files or neither, but for its first save, and what it does not mean to save
\* is what is saved.
Recorded ==
  /\ filemap # Null => filemap.inits = filemap.tracked
  /\ info # Null => info.inits = info.tracked
  /\ phase = "begin" /\ info = Null =>
       filemap = Null /\ filehashes = Null /\ \A t \in Targets : objects[t] = Null
  /\ (phase = "begin" /\ info # Null) \/ phase \in {"compile", "commit", "link"} => Baseline
  /\ Saving => (filehashes # Null => filemap # Null)
  /\ phase = "writeHashes" => filemap # Null /\ ~info.newMap
  /\ info # Null /\ ~info.newMap => filemap # Null /\ info.tracked = filemap.tracked
  /\ phase # "commit" /\ info # Null /\ ~info.newHashes => work.compiled = {}

\* A first save is of objects just written, and of no other target's.
FirstSave ==
  Saving /\ filehashes = Null =>
    /\ info.newHashes /\ work.compiled = {}
    /\ phase = "writeMap" => filemap = Null /\ info.newMap
    /\ \A t \in Others : objects[t] = Null
    /\ \A f \in info.tracked :
         objects[Target][f] # Null /\ objects[Target][f].text = info.hashes[f]

\* Until it is saved a compiled file is in doubt, and from another target's point of view
\* it stays so.
Doubt(f) ==
  \/ f \in work.compiled /\ <<Target, f>> \in suspect
  \/ \A t \in Targets : <<t, f>> \in suspect

\* A digest in memory is the saved one if its file is in no doubt.
Digested ==
  info # Null /\ ~work.errors /\ filehashes # Null =>
    \A f \in info.tracked :
      Doubt(f) \/ (f \in filemap.tracked /\ info.hashes[f] = filehashes[f])

\* The object of a compiled file is of the text its digest is, or is about to be, of,
\* unless the file has moved meanwhile.
Emitted ==
  /\ Building => \A f \in work.compiled : objects[Target][f] # Null /\ <<Target, f>> \in suspect
  /\ Building /\ ~work.errors =>
       \A f \in work.compiled \ work.moved :
         objects[Target][f].text = IF f = work.awaiting THEN source[f] ELSE info.hashes[f]

Digest == Recorded /\ FirstSave /\ Digested /\ Emitted
Explained == Digest /\ BaselineExplained

\* A process that has ended knows nothing, and what it saved is as it was, or torn.
LEMMA StopDigest ==
  ASSUME Stop, Recorded, filemap' = filemap \/ filemap' = Null
  PROVE  Digest'
<1>1. phase' = "idle" /\ info' = Null
  BY DEF Stop
<1>2. Recorded'
  BY <1>1 DEF Recorded, Saving
<1> QED
  BY <1>1, <1>2 DEF Digest, FirstSave, Digested, Emitted, Saving, Building

LEMMA SameBaseline ==
  ASSUME BaselineExplained, UNCHANGED <<filemap, filehashes, objects, suspect>>
  PROVE  BaselineExplained'
  BY DEF BaselineExplained

\* What a build does not touch while it looks for what to do, or fails.
LEMMA QuietExplained ==
  ASSUME Shape, Explained,
         RejectAll \/ RejectChange \/ RecheckGone \/ CompileGone \/ UNCHANGED vars
  PROVE  Explained'
<1>1. UNCHANGED <<filemap, filehashes, objects, suspect>>
  BY DEF RejectAll, RejectChange, RecheckGone, CompileGone, vars, cache, history, doubts
<1>2. CASE RejectAll \/ RejectChange
  BY <1>1, <1>2, StopDigest, SameBaseline DEF RejectAll, RejectChange, Explained, Digest
<1>3. CASE RecheckGone \/ CompileGone
  <2>1. UNCHANGED <<todo, info, work>> /\ phase' = "panic" /\ phase # "commit"
    BY <1>3 DEF RecheckGone, CachedBegun, Begun, CompileGone
  <2>2. Recorded'
    BY <1>1, <2>1 DEF Recorded, Explained, Digest, Saving
  <2>3. Digested'
    BY <1>1, <2>1 DEF Digested, Doubt, Target, Explained, Digest
  <2> QED
    BY <1>1, <2>1, <2>2, <2>3, SameBaseline
    DEF Explained, Digest, FirstSave, Emitted, Saving, Building
<1>4. CASE UNCHANGED vars
  BY <1>1, <1>4, SameBaseline
  DEF vars, cache, history, doubts, Explained, Digest, Recorded, FirstSave, Digested, Emitted,
      Doubt, Baseline, Saving, Building, Target, Others
<1> QED
  BY <1>2, <1>3, <1>4

\* The world around a build disturbs no digest: an edited file that awaits its digest has
\* moved, and a kill tears what it was writing.
LEMMA WorldExplained ==
  ASSUME Shape, Explained,
         \/ \E f \in Files : \E text \in Written[f] \cup {Gone} : Edit(f, text)
         \/ Kill
         \/ \E plan \in Plans, m \in Modes : Start(plan, m)
  PROVE  Explained'
<1>t. work \in Works /\ source \in [Files -> Sources]
  BY DEF Shape, TypeOK
<1>1. ASSUME NEW f \in Files, NEW text \in Written[f] \cup {Gone}, Edit(f, text) PROVE Explained'
  <2>1. /\ UNCHANGED <<filemap, filehashes, objects, suspect, phase, todo, info>>
        /\ Target' = Target /\ Others' = Others
    BY <1>1 DEF Edit, cache, doubts, Target, Others
  <2>2. /\ work'.compiled = work.compiled /\ work'.awaiting = work.awaiting
        /\ work'.errors = work.errors
        /\ work'.moved = IF work.awaiting = f THEN work.moved \cup {f} ELSE work.moved
    BY <1>1, <1>t DEF Edit, Works
  <2>3. \A g \in Files : g # f => source'[g] = source[g]
    BY <1>1, <1>t DEF Edit
  <2>4. Recorded'
    BY <2>1, <2>2 DEF Recorded, Explained, Digest, Saving, Baseline
  <2>5. FirstSave'
    BY <2>1, <2>2 DEF FirstSave, Explained, Digest, Saving
  <2>6. Digested'
    BY <2>1, <2>2 DEF Digested, Explained, Digest, Doubt
  <2>7. Emitted'
    <3>1. \A g \in work'.compiled \ work'.moved :
            g \in Files /\ (g = work'.awaiting => source'[g] = source[g])
      BY <1>t, <2>2, <2>3 DEF Works
    <3> QED
      BY <2>1, <2>2, <3>1 DEF Emitted, Explained, Digest, Building
  <2> QED
    BY <2>1, <2>4, <2>5, <2>6, <2>7, SameBaseline DEF Explained, Digest
<1>2. ASSUME Kill PROVE Explained'
  <2>1. filemap' = filemap \/ filemap' = Null
    BY <1>2 DEF Kill
  <2>2. BaselineExplained'
    BY <1>2 DEF Kill, history, doubts, BaselineExplained, Explained
  <2> QED
    BY <1>2, <2>1, <2>2, StopDigest DEF Kill, Explained, Digest
<1>3. ASSUME NEW plan \in Plans, NEW m \in Modes, Start(plan, m) PROVE Explained'
  <2>1. phase' = "begin" /\ phase = "idle" /\ info' = Loaded /\ work' = NoWork
    BY <1>3 DEF Start, Shape, Worked
  <2>2. CASE Loaded = Null
    <3>1. Discard
      BY <1>3, <2>2 DEF Start
    <3>2. filemap' = Null /\ filehashes' = Null /\ \A t \in Targets : objects'[t] = Null
      BY <3>1 DEF Discard
    <3> QED
      BY <2>1, <2>2, <3>2
      DEF Explained, Digest, Recorded, FirstSave, Digested, Emitted, BaselineExplained, Saving,
          Building
  <2>3. CASE Loaded # Null
    <3>1. UNCHANGED <<filemap, filehashes, objects, suspect>> /\ Baseline
      BY <1>3, <2>3 DEF Start, cache, doubts, Loaded, Baseline
    <3>2. /\ info'.tracked = filemap.tracked /\ info'.inits = filemap.inits
          /\ info'.hashes = filehashes /\ ~info'.newMap
      BY <2>1, <3>1 DEF Loaded, Baseline
    <3>3. NoWork.compiled = {}
      BY DEF NoWork
    <3>4. Recorded'
      BY <2>1, <2>3, <3>1, <3>2, <3>3 DEF Recorded, Explained, Digest, Baseline, Saving
    <3>5. Digested'
      BY <2>1, <3>1, <3>2 DEF Digested
    <3> QED
      BY <2>1, <3>1, <3>4, <3>5, SameBaseline
      DEF Explained, Digest, FirstSave, Emitted, Saving, Building
  <2> QED
    BY <2>2, <2>3
<1> QED
  BY <1>1, <1>2, <1>3

\* A cache of another identity, and with it every digest, is gone.
LEMMA IdentifyExplained == ASSUME Shape, Identify PROVE Explained'
<1>1. phase' = "begin" /\ info' = Null /\ work' = NoWork
  BY DEF Identify, Shape, Worked
<1>2. filemap' = Null /\ filehashes' = Null /\ \A t \in Targets : objects'[t] = Null
  BY DEF Identify, Discard
<1> QED
  BY <1>1, <1>2
  DEF Explained, Digest, Recorded, FirstSave, Digested, Emitted, BaselineExplained, Saving, Building

\* A first build for a target has an object of every file it loads; where an older map
\* differs from what it loads, the file is in doubt.
LEMMA InitializeExplained == ASSUME Shape, Explained, Initialize PROVE Explained'
<1> DEFINE all == Reach(Main)
<1>t. /\ Target \in Targets /\ objects \in [Targets -> ObjectDirs \cup {Null}] /\ all \subseteq Files
      /\ source \in [Files -> Sources] /\ phase = "begin"
  BY TargetIsOne, ReachIsFiles DEF Shape, TypeOK, Initialize, Begun
<1>1. /\ phase' = "writeMap" /\ work' = NoWork /\ Target' = Target /\ Others' = Others
      /\ UNCHANGED <<filemap, filehashes>>
  BY DEF Initialize, Target, Others
<1>2. /\ \A t \in Others : objects'[t] = objects[t]
      /\ \A f \in Files : objects'[Target][f] = IF f \in all THEN Object(f) ELSE Null
      /\ suspect \subseteq suspect'
  BY <1>t DEF Initialize, Others
<1>3. NoWork.compiled = {} /\ ~NoWork.errors
  BY DEF NoWork
<1>4. \A f \in Files : Object(f) # Null /\ Object(f).text = source[f]
  <2>1. \A f \in Files : Object(f) \in ObjectFiles
    BY ObjectTyped DEF Shape
  <2> QED
    BY <2>1, NullAssumption DEF NullAssumption, Object
<1>5. Emitted'
  BY <1>1, <1>3 DEF Emitted
<1>6. CASE info = Null
  <2>1. filemap = Null /\ filehashes = Null /\ \A t \in Targets : objects[t] = Null
    BY <1>t, <1>6 DEF Explained, Digest, Recorded
  <2>2. /\ info' = FreshInfo(all) /\ info'.tracked = all /\ info'.inits = all
        /\ info'.newMap /\ info'.newHashes
        /\ \A f \in all : info'.hashes[f] = source[f]
    BY <1>t, <1>6 DEF Initialize, FreshInfo
  <2>3. Recorded'
    BY <1>1, <1>3, <2>1, <2>2 DEF Recorded, Saving
  <2>4. FirstSave'
    BY <1>t, <1>1, <1>2, <1>3, <1>4, <2>1, <2>2 DEF FirstSave, Saving, Others
  <2> QED
    BY <1>1, <1>5, <2>1, <2>3, <2>4 DEF Explained, Digest, Digested, BaselineExplained
<1>7. CASE info # Null
  <2>1. /\ info' = info /\ Baseline /\ info.inits = info.tracked
        /\ filemap.inits = filemap.tracked /\ work = NoWork /\ info \in Infos
    BY <1>t, <1>7 DEF Initialize, Explained, Digest, Recorded, Baseline, Shape, Worked, TypeOK
  <2>2. Recorded'
    BY <1>t, <1>1, <1>3, <1>7, <2>1 DEF Recorded, Explained, Digest, Saving, Baseline
  <2>3. FirstSave'
    BY <1>1, <2>1 DEF FirstSave, Baseline
  <2>4. Digested'
    BY <1>1, <1>2, <1>3, <1>7, <2>1 DEF Digested, Doubt, Explained, Digest, Baseline
  <2>5. BaselineExplained'
    <3> SUFFICES ASSUME NEW t \in Targets, objects'[t] # Null, NEW f \in filemap.tracked
                 PROVE  <<t, f>> \in suspect' \/ (objects'[t][f] # Null /\ objects'[t][f].text = filehashes[f])
      BY <1>1, <2>1 DEF BaselineExplained, Baseline
    <3>1. CASE t # Target
      BY <1>1, <1>2, <2>1, <3>1 DEF Explained, BaselineExplained, Baseline, Others
    <3>2. CASE t = Target /\ <<t, f>> \notin suspect'
      <4>1. f \in Files
        BY <2>1 DEF Shape, TypeOK, FileMaps, Baseline
      <4>2. suspect' = suspect \cup
               {<<Target, g>> : g \in
                  {h \in Files : IF h \in all \cap info.tracked THEN info.hashes[h] # source[h]
                                 ELSE h \in all \cup info.tracked \cup filemap.tracked}}
        BY <1>7 DEF Initialize
      <4>3. f \in all \cap info.tracked /\ info.hashes[f] = source[f]
        BY <3>2, <4>1, <4>2
      <4>4. info.hashes[f] = filehashes[f]
        <5>1. ~(\A u \in Targets : <<u, f>> \in suspect) /\ f \notin work.compiled
          BY <1>t, <1>2, <1>3, <2>1, <3>2
        <5> QED
          BY <1>3, <1>7, <2>1, <4>3, <5>1 DEF Explained, Digest, Digested, Doubt, Baseline
      <4> QED
        BY <1>2, <1>4, <3>2, <4>1, <4>3, <4>4
    <3> QED
      BY <3>1, <3>2
  <2> QED
    BY <1>5, <2>2, <2>3, <2>4, <2>5 DEF Explained, Digest
<1> QED
  BY <1>6, <1>7

\* Killed halfway, it leaves every file of the target in doubt.
LEMMA KillInitializeExplained ==
  ASSUME Shape, Explained, NEW emitted \in SUBSET Files, KillInitialize(emitted)
  PROVE  Explained'
<1>1. Digest'
  BY StopDigest DEF KillInitialize, Explained, Digest
<1>t. Target \in Targets /\ objects \in [Targets -> ObjectDirs \cup {Null}]
  BY TargetIsOne DEF Shape, TypeOK, KillInitialize, Begun
<1>2. /\ \A t \in Targets : t # Target => objects'[t] = objects[t]
      /\ suspect' = suspect \cup ({Target} \X Files)
      /\ UNCHANGED <<filemap, filehashes>>
  BY <1>t DEF KillInitialize
<1>3. BaselineExplained'
  <2> SUFFICES ASSUME filemap # Null, filehashes # Null,
                      NEW t \in Targets, objects'[t] # Null, NEW f \in filemap.tracked
               PROVE  <<t, f>> \in suspect' \/ (objects'[t][f] # Null /\ objects'[t][f].text = filehashes[f])
    BY <1>2 DEF BaselineExplained
  <2>1. f \in Files
    BY DEF Shape, TypeOK, FileMaps
  <2> QED
    BY <1>2, <2>1 DEF Explained, BaselineExplained
<1> QED
  BY <1>1, <1>3 DEF Explained

\* Looking for changes forgets the digests of removed files, which leave the map as well.
LEMMA DetectExplained == ASSUME Shape, Explained, Detect PROVE Explained'
<1>t. info \in Infos /\ info # Null /\ phase = "begin" /\ Baseline /\ work = NoWork /\ NoWork.compiled = {}
      /\ ~NoWork.errors
  BY DEF Shape, TypeOK, Detect, CachedBegun, Begun, Explained, Digest, Recorded, Worked, NoWork
<1>1. /\ UNCHANGED <<filemap, filehashes, objects, suspect>> /\ phase' = "compile"
      /\ work'.compiled = {} /\ ~work'.errors
  BY DEF Detect, cache, doubts, NoWork
<1>2. /\ info'.tracked = info.tracked \ Removed /\ info'.inits = info.inits \ Removed
      /\ info'.newHashes = info.newHashes
      /\ info'.newMap = (info.newMap \/ Removed \cap info.inits # {})
      /\ \A f \in Files \ Removed : info'.hashes[f] = info.hashes[f]
  BY <1>t DEF Detect, Infos
<1>3. info.inits = info.tracked /\ Removed \subseteq info.tracked
  BY <1>t DEF Explained, Digest, Recorded, Removed
<1>4. info' # Null
  BY DetectTyped, NotNull DEF Shape
<1>5. Recorded'
  BY <1>t, <1>1, <1>2, <1>3, <1>4 DEF Recorded, Explained, Digest, Saving, Baseline
<1>6. Digested'
  <2> SUFFICES ASSUME NEW f \in info'.tracked
               PROVE  Doubt(f)' \/ (f \in filemap.tracked /\ info'.hashes[f] = filehashes[f])
    BY <1>1 DEF Digested
  <2>1. f \in info.tracked /\ info'.hashes[f] = info.hashes[f]
    BY <1>t, <1>2 DEF Infos
  <2> QED
    BY <1>t, <1>1, <2>1 DEF Digested, Explained, Digest, Doubt, Baseline
<1> QED
  BY <1>1, <1>5, <1>6, SameBaseline DEF Explained, Digest, FirstSave, Emitted, Saving

\* What the compilation of a component does, field by field.
Compiling(c) ==
  /\ phase = "compile" /\ c \in Components /\ c.file \in Files /\ source[c.file] # Gone
  /\ Target \in Targets /\ Target' = Target
  /\ UNCHANGED <<source, mode, marker, filemap, filehashes, globalsSet, steady, drift, mixed>>
  /\ phase' = IF Checks(c.file) THEN "commit" ELSE "compile"
  /\ suspect' = IF Checks(c.file) THEN suspect \cup {<<Target, c.file>>} ELSE suspect

CompiledMap(c) ==
  /\ info'.tracked = NowTracked(c)
  /\ info'.inits = IF c.new THEN info.inits \cup {c.file} ELSE info.inits
  /\ info'.newMap = (info.newMap \/ Added(c)) /\ info'.newHashes = (info.newHashes \/ Added(c))

CompiledRecord(c) ==
  /\ \A g \in Files : g # c.file =>
       info'.hashes[g] = info.hashes[g] /\ info'.rechecks[g] = info.rechecks[g]
  /\ info'.hashes[c.file] = IF Added(c) THEN source[c.file] ELSE info.hashes[c.file]
  /\ info'.rechecks[c.file] =
       IF Added(c) THEN c.importers
       ELSE IF c.file \in NowTracked(c) THEN info.rechecks[c.file] \cup ImportedBy(c.file, Loads(c))
       ELSE info.rechecks[c.file]

CompiledQueue(c) ==
  /\ work'.wave = Wave \ {c}
  /\ work'.next = {d \in Later : d.file \notin Loads(c) \ NowTracked(c)} \cup Found(c)
  /\ work'.reshaped = (work.reshaped \/ Found(c) # {})

CompiledWork(c) ==
  /\ work'.errors = (work.errors \/ ~Checks(c.file))
  /\ work'.linked = work.linked
  /\ work'.awaiting = IF Checks(c.file) THEN c.file ELSE Null
  /\ work'.compiled = IF Checks(c.file) THEN work.compiled \cup {c.file} ELSE work.compiled
  /\ work'.moved = IF Checks(c.file) THEN work.moved \ {c.file} ELSE work.moved

CompiledObject(c) ==
  /\ \A t \in Targets : t # Target => objects'[t] = objects[t]
  /\ \A g \in Files : objects'[Target][g] =
       IF g = c.file /\ Checks(c.file) THEN Object(c.file) ELSE objects[Target][g]

LEMMA CompileFields ==
  ASSUME Shape, NEW c \in Wave, Compile(c)
  PROVE  /\ info \in Infos /\ work \in Works
         /\ Compiling(c) /\ CompiledMap(c) /\ CompiledRecord(c)
         /\ CompiledQueue(c) /\ CompiledWork(c) /\ CompiledObject(c)
<1>1. /\ phase = "compile" /\ source[c.file] # Gone
      /\ UNCHANGED <<source, mode, marker, filemap, filehashes, globalsSet, steady, drift, mixed>>
      /\ UNCHANGED todo
      /\ phase' = IF Checks(c.file) THEN "commit" ELSE "compile"
      /\ suspect' = IF Checks(c.file) THEN suspect \cup {<<Target, c.file>>} ELSE suspect
  BY CompileParts
<1>2. info \in Infos /\ work \in Works /\ Target \in Targets /\ objects[Target] \in ObjectDirs
  BY <1>1, TargetIsOne DEF Shape, Running, Building, TypeOK
<1>3. c \in Components
  BY <1>2 DEF Wave, Works
<1>4. c.file \in Files
  BY <1>3 DEF Components
<1>5. /\ \A t \in Targets : t # Target => objects'[t] = objects[t]
      /\ \A g \in Files : objects'[Target][g] =
           IF g = c.file /\ Checks(c.file) THEN Object(c.file) ELSE objects[Target][g]
  <2>1. objects' = IF Checks(c.file) THEN [objects EXCEPT ![Target][c.file] = Object(c.file)]
                   ELSE objects
    BY CompileParts
  <2>2. objects \in [Targets -> ObjectDirs \cup {Null}]
    BY DEF Shape, TypeOK
  <2>3. CASE Checks(c.file)
    <3> DEFINE dir == [objects[Target] EXCEPT ![c.file] = Object(c.file)]
    <3>1. objects' = [objects EXCEPT ![Target] = dir]
      BY <2>1, <2>3
    <3>2. \A g \in Files : dir[g] = IF g = c.file THEN Object(c.file) ELSE objects[Target][g]
      BY <1>2, <1>4 DEF ObjectDirs
    <3> HIDE DEF dir
    <3> QED
      BY <1>2, <2>2, <2>3, <3>1, <3>2
  <2> QED
    BY <2>1, <2>3
<1>6. /\ info'.tracked = NowTracked(c)
      /\ info'.inits = IF c.new THEN info.inits \cup {c.file} ELSE info.inits
      /\ info'.newMap = (info.newMap \/ Added(c)) /\ info'.newHashes = (info.newHashes \/ Added(c))
      /\ \A g \in Files : g # c.file =>
           info'.hashes[g] = info.hashes[g] /\ info'.rechecks[g] = info.rechecks[g]
      /\ info'.hashes[c.file] = IF Added(c) THEN source[c.file] ELSE info.hashes[c.file]
      /\ info'.rechecks[c.file] =
           IF Added(c) THEN c.importers
           ELSE IF c.file \in NowTracked(c) THEN info.rechecks[c.file] \cup ImportedBy(c.file, Loads(c))
           ELSE info.rechecks[c.file]
  <2> DEFINE re == IF Added(c) THEN c.importers
                   ELSE IF c.file \in NowTracked(c) THEN info.rechecks[c.file] \cup ImportedBy(c.file, Loads(c))
                   ELSE info.rechecks[c.file]
             ha == IF Added(c) THEN source[c.file] ELSE info.hashes[c.file]
             tr == NowTracked(c)
             ad == Added(c)
  <2>1. info' = [info EXCEPT !.tracked = tr, !.rechecks[c.file] = re,
                             !.inits = IF c.new THEN @ \cup {c.file} ELSE @,
                             !.hashes[c.file] = ha,
                             !.newMap = @ \/ ad, !.newHashes = @ \/ ad]
    BY CompileParts
  <2> HIDE DEF re, ha, tr, ad
  <2>2. /\ info'.tracked = tr /\ info'.rechecks = [info.rechecks EXCEPT ![c.file] = re]
        /\ info'.inits = IF c.new THEN info.inits \cup {c.file} ELSE info.inits
        /\ info'.hashes = [info.hashes EXCEPT ![c.file] = ha]
        /\ info'.newMap = (info.newMap \/ ad) /\ info'.newHashes = (info.newHashes \/ ad)
    BY <1>2, <2>1 DEF Infos
  <2>3. info.rechecks \in [Files -> SUBSET Files] /\ info.hashes \in [Files -> Sources \cup {Null}]
    BY <1>2 DEF Infos, Digests
  <2>4. /\ info'.rechecks[c.file] = re /\ info'.hashes[c.file] = ha
        /\ \A g \in Files : g # c.file =>
             info'.hashes[g] = info.hashes[g] /\ info'.rechecks[g] = info.rechecks[g]
    BY <1>4, <2>2, <2>3
  <2> QED
    BY <2>2, <2>4 DEF re, ha, tr, ad
<1>7. /\ work'.wave = Wave \ {c}
      /\ work'.next = {d \in Later : d.file \notin Loads(c) \ NowTracked(c)} \cup Found(c)
      /\ work'.errors = (work.errors \/ ~Checks(c.file))
      /\ work'.reshaped = (work.reshaped \/ Found(c) # {})
      /\ work'.linked = work.linked
      /\ work'.awaiting = IF Checks(c.file) THEN c.file ELSE Null
      /\ work'.compiled = IF Checks(c.file) THEN work.compiled \cup {c.file} ELSE work.compiled
      /\ work'.moved = IF Checks(c.file) THEN work.moved \ {c.file} ELSE work.moved
  <2> DEFINE later == {d \in Later : d.file \notin Loads(c) \ NowTracked(c)} \cup Found(c)
             ok == Checks(c.file)
             some == Found(c) # {}
             rest == Wave \ {c}
  <2>1. work' = [work EXCEPT !.wave = rest, !.next = later, !.errors = @ \/ ~ok,
                             !.reshaped = @ \/ some,
                             !.awaiting = IF ok THEN c.file ELSE Null,
                             !.compiled = IF ok THEN @ \cup {c.file} ELSE @,
                             !.moved = IF ok THEN @ \ {c.file} ELSE @]
    BY CompileParts
  <2> HIDE DEF later, ok, some, rest
  <2>2. /\ work'.wave = rest /\ work'.next = later /\ work'.errors = (work.errors \/ ~ok)
        /\ work'.reshaped = (work.reshaped \/ some) /\ work'.linked = work.linked
        /\ work'.awaiting = (IF ok THEN c.file ELSE Null)
        /\ work'.compiled = (IF ok THEN work.compiled \cup {c.file} ELSE work.compiled)
        /\ work'.moved = (IF ok THEN work.moved \ {c.file} ELSE work.moved)
    BY <1>2, <2>1 DEF Works
  <2> QED
    BY <2>2 DEF later, ok, some, rest
<1>8. Compiling(c)
  BY <1>1, <1>2, <1>3, <1>4 DEF Compiling, Target
<1>9. CompiledMap(c) /\ CompiledRecord(c)
  BY <1>6 DEF CompiledMap, CompiledRecord
<1>10. CompiledQueue(c) /\ CompiledWork(c)
  BY <1>7 DEF CompiledQueue, CompiledWork
<1>11. CompiledObject(c)
  BY <1>5 DEF CompiledObject
<1> QED
  BY <1>2, <1>8, <1>9, <1>10, <1>11

\* A compiled file is in doubt until its digest is saved.
LEMMA CompileExplained == ASSUME Shape, Explained, NEW c \in Wave, Compile(c) PROVE Explained'
<1>f. /\ info \in Infos /\ work \in Works /\ Compiling(c) /\ CompiledMap(c) /\ CompiledRecord(c)
      /\ CompiledWork(c) /\ CompiledObject(c)
  BY CompileFields
<1>t. /\ c.file \in Files /\ info # Null /\ info' # Null /\ NowTracked(c) \subseteq Files
      /\ work.awaiting = Null /\ work.compiled \subseteq Files
  <2>1. c.file \in Files /\ work.compiled \subseteq Files
    BY <1>f DEF Compiling, Works
  <2>2. info # Null /\ info' # Null /\ work.awaiting = Null
    BY <1>f, CompileTyped, NotNull DEF Shape, Worked, Building, Compiling
  <2> QED
    BY <1>f, <2>1, <2>2 DEF NowTracked, Infos
<1>o. Object(c.file) # Null /\ Object(c.file).text = source[c.file]
  <2>1. Object(c.file) \in ObjectFiles
    BY <1>t, ObjectTyped DEF Shape
  <2> QED
    BY <2>1, NullAssumption DEF NullAssumption, Object
<1>b. Baseline /\ Building /\ info.inits = info.tracked
  BY <1>t, <1>f DEF Explained, Digest, Recorded, Building, Compiling
<1>1. Recorded'
  <2>1. info'.inits = info'.tracked
    BY <1>b, <1>f DEF NowTracked, CompiledMap
  <2>2. ~info'.newMap => info'.tracked = info.tracked /\ ~info.newMap
    BY <1>f DEF Added, CompiledMap
  <2>3. ~info'.newHashes => ~info.newHashes
    BY <1>f DEF CompiledMap
  <2>4. phase' = "compile" => work'.compiled = work.compiled
    BY <1>f DEF CompiledWork, Compiling
  <2> QED
    BY <1>t, <1>b, <2>1, <2>2, <2>3, <2>4, <1>f
    DEF Compiling, Recorded, Explained, Digest, Baseline, Saving
<1>2. FirstSave'
  BY <1>f DEF Compiling, FirstSave, Saving
<1>3. Digested'
  <2> SUFFICES ASSUME ~work'.errors, NEW f \in info'.tracked
               PROVE  Doubt(f)' \/ (f \in filemap'.tracked /\ info'.hashes[f] = filehashes'[f])
    BY DEF Digested
  <2>1. Checks(c.file) /\ ~work.errors
    BY <1>f DEF CompiledWork
  <2>2. CASE f = c.file
    BY <2>1, <2>2, <1>f DEF Doubt, CompiledWork, Compiling
  <2>3. CASE f # c.file
    <3>1. f \in info.tracked /\ info'.hashes[f] = info.hashes[f] /\ f \in Files
      BY <1>f, <1>t, <2>3 DEF NowTracked, CompiledMap, CompiledRecord
    <3>2. Doubt(f) => Doubt(f)'
      BY <2>1, <1>f DEF Doubt, CompiledWork, Compiling
    <3> QED
      BY <1>t, <1>b, <2>1, <3>1, <3>2, <1>f DEF Compiling, Digested, Explained, Digest, Baseline
  <2> QED
    BY <2>2, <2>3
<1>4. Emitted'
  <2>1. \A f \in work'.compiled : objects'[Target][f] # Null /\ <<Target, f>> \in suspect'
    BY <1>t, <1>b, <1>o, <1>f DEF Emitted, Explained, Digest, CompiledWork, CompiledObject, Compiling
  <2>2. ASSUME ~work'.errors, NEW f \in work'.compiled \ work'.moved
        PROVE  objects'[Target][f].text = IF f = work'.awaiting THEN source'[f] ELSE info'.hashes[f]
    <3>1. Checks(c.file) /\ ~work.errors
      BY <2>2, <1>f DEF CompiledWork
    <3>2. CASE f = c.file
      BY <1>t, <1>o, <3>1, <3>2, <1>f DEF CompiledWork, CompiledObject, Compiling
    <3>3. CASE f # c.file
      <4>1. f \in work.compiled \ work.moved /\ f \in Files
        BY <1>t, <2>2, <3>1, <3>3, <1>f DEF CompiledWork
      <4>2. f # work.awaiting
        BY <1>t, <4>1, NullAssumption DEF NullAssumption
      <4>3. objects[Target][f].text = info.hashes[f]
        BY <1>b, <3>1, <4>1, <4>2 DEF Emitted, Explained, Digest
      <4> QED
        BY <3>1, <3>3, <4>1, <4>3, <1>f DEF CompiledWork, CompiledObject, CompiledRecord
    <3> QED
      BY <3>2, <3>3
  <2>3. Target' = Target
    BY <1>f DEF Compiling
  <2> QED
    BY <2>1, <2>2, <2>3 DEF Emitted
<1>5. BaselineExplained'
  <2> SUFFICES ASSUME NEW t \in Targets, objects'[t] # Null, NEW f \in filemap.tracked
               PROVE  <<t, f>> \in suspect' \/ (objects'[t][f] # Null /\ objects'[t][f].text = filehashes[f])
    BY <1>f DEF Compiling, BaselineExplained
  <2>1. f \in Files /\ (t = Target => objects[t] # Null)
    BY <1>b DEF Shape, TypeOK, FileMaps, Baseline, Running
  <2>2. CASE t = Target /\ f = c.file /\ Checks(c.file)
    BY <2>2, <1>f DEF Compiling
  <2>3. CASE ~(t = Target /\ f = c.file /\ Checks(c.file))
    <3>1. objects'[t][f] = objects[t][f] /\ objects[t] # Null /\ suspect \subseteq suspect'
      BY <2>1, <2>3, <1>f DEF Compiling, CompiledObject
    <3> QED
      BY <1>b, <3>1 DEF Explained, BaselineExplained, Baseline
  <2> QED
    BY <2>2, <2>3
<1> QED
  BY <1>1, <1>2, <1>3, <1>4, <1>5 DEF Explained, Digest

\* A commit gives a compiled file the digest of its object, unless the file has moved.
LEMMA CommitExplained == ASSUME Shape, Explained, Commit PROVE Explained'
<1>t. /\ info \in Infos /\ work \in Works /\ info # Null /\ info' # Null /\ phase = "commit"
      /\ work.awaiting \in work.compiled /\ work.awaiting \in Files /\ Baseline
  <2>1. /\ info \in Infos /\ work \in Works /\ info # Null /\ phase = "commit"
        /\ work.awaiting \in work.compiled /\ Baseline
    BY DEF Shape, TypeOK, Running, Worked, Commit, Building, Explained, Digest, Recorded
  <2>2. info' # Null
    BY LinkTyped, NotNull DEF Shape
  <2> QED
    BY <2>1, <2>2 DEF Works
<1>1. /\ UNCHANGED <<source, filemap, filehashes, objects, suspect>> /\ phase' = "compile"
      /\ Target' = Target
  BY DEF Commit, cache, history, doubts, Target
<1>2. /\ info'.tracked = info.tracked /\ info'.inits = info.inits /\ info'.newMap = info.newMap
      /\ info'.newHashes
      /\ \A f \in Files :
           info'.hashes[f] = IF f = work.awaiting THEN source[f] ELSE info.hashes[f]
  <2>1. /\ info'.hashes = [info.hashes EXCEPT ![work.awaiting] = source[work.awaiting]]
        /\ info'.tracked = info.tracked /\ info'.inits = info.inits /\ info'.newMap = info.newMap
        /\ info'.newHashes
    BY <1>t DEF Commit, Infos
  <2>2. info.hashes \in [Files -> Sources \cup {Null}]
    BY <1>t DEF Infos, Digests
  <2> QED
    BY <2>1, <2>2
<1>3. /\ work'.compiled = work.compiled /\ work'.moved = work.moved /\ work'.errors = work.errors
      /\ work'.awaiting = Null
  BY <1>t DEF Commit, Works
<1>4. Recorded'
  BY <1>t, <1>1, <1>2 DEF Recorded, Explained, Digest, Baseline, Saving
<1>5. Digested'
  <2> SUFFICES ASSUME ~work.errors, NEW f \in info.tracked
               PROVE  Doubt(f)' \/ (f \in filemap.tracked /\ info'.hashes[f] = filehashes[f])
    BY <1>1, <1>2, <1>3 DEF Digested
  <2>1. Doubt(f)' <=> Doubt(f)
    BY <1>1, <1>3 DEF Doubt
  <2>2. f = work.awaiting => Doubt(f)
    BY <1>t DEF Doubt, Emitted, Explained, Digest, Building
  <2>3. f \in Files
    BY <1>t DEF Infos
  <2> QED
    BY <1>t, <1>2, <2>1, <2>2, <2>3 DEF Digested, Explained, Digest, Baseline
<1>6. Emitted'
  <2>1. \A f \in work.compiled : f \in Files /\ f # Null
    BY <1>t, NullAssumption DEF Works, NullAssumption
  <2> QED
    BY <1>t, <1>1, <1>2, <1>3, <2>1 DEF Emitted, Explained, Digest, Building
<1> QED
  BY <1>1, <1>4, <1>5, <1>6, SameBaseline DEF Explained, Digest, FirstSave, Saving

\* The end of the compilation and the link leave digests and objects as they are.
LEMMA AggregateExplained == ASSUME Shape, Explained, Aggregate \/ Link PROVE Explained'
<1>t. work \in Works /\ UNCHANGED <<source, filemap, filehashes, objects, suspect>>
  BY DEF Shape, TypeOK, Aggregate, Link, cache, history, doubts
<1>1. CASE Stop
  BY <1>1, <1>t, StopDigest, SameBaseline DEF Explained, Digest
<1>2. CASE ~Stop
  <2>1. /\ UNCHANGED <<todo, info>> /\ Target' = Target
        /\ \/ phase = "compile" /\ phase' = "link"
           \/ phase = "link" /\ phase' = "writeMap"
    BY <1>2 DEF Aggregate, Link, Target
  <2>2. /\ work'.compiled = work.compiled /\ work'.moved = work.moved
        /\ work'.errors = work.errors /\ work'.awaiting = work.awaiting
    BY <1>t, <1>2 DEF Aggregate, Link, Works
  <2>3. Baseline
    BY <2>1 DEF Explained, Digest, Recorded
  <2>4. Recorded'
    BY <1>t, <2>1, <2>2, <2>3 DEF Recorded, Explained, Digest, Baseline, Saving
  <2>5. FirstSave'
    BY <1>t, <2>3 DEF FirstSave, Baseline
  <2>6. Digested' /\ Emitted'
    BY <1>t, <2>1, <2>2 DEF Digested, Doubt, Emitted, Explained, Digest, Building
  <2> QED
    BY <1>t, <2>4, <2>5, <2>6, SameBaseline DEF Explained, Digest
<1> QED
  BY <1>1, <1>2

\* A build that ends unsaved leaves all it compiled in doubt for every target.
LEMMA LinkFailsExplained == ASSUME Shape, Explained, LinkFails PROVE Explained'
<1>t. /\ work \in Works /\ Target \in Targets /\ Baseline /\ info # Null
      /\ UNCHANGED <<filemap, filehashes, objects>> /\ ~work.errors
  BY TargetIsOne
  DEF Shape, TypeOK, Running, Worked, LinkFails, cache, Explained, Digest, Recorded
<1>1. suspect \subseteq suspect' /\ \A t \in Others, f \in work.compiled : <<t, f>> \in suspect'
  BY DEF LinkFails
<1>2. BaselineExplained'
  BY <1>t, <1>1 DEF Explained, BaselineExplained
<1>3. CASE Stop
  BY <1>t, <1>2, <1>3, StopDigest DEF Explained, Digest
<1>4. CASE ~Stop
  <2>1. phase' = "begin" /\ info' = info /\ work' = NoWork /\ phase = "link"
    BY <1>4 DEF LinkFails
  <2>2. NoWork.compiled = {} /\ ~NoWork.errors
    BY DEF NoWork
  <2>3. Recorded'
    BY <1>t, <2>1, <2>2 DEF Recorded, Explained, Digest, Baseline, Saving
  <2>4. Digested'
    <3> SUFFICES ASSUME NEW f \in info.tracked
                 PROVE  Doubt(f)' \/ (f \in filemap.tracked /\ info.hashes[f] = filehashes[f])
      BY <1>t, <2>1 DEF Digested
    <3>1. Doubt(f) => \A t \in Targets : <<t, f>> \in suspect'
      BY <1>1 DEF Doubt, Others
    <3> QED
      BY <1>t, <3>1 DEF Digested, Doubt, Explained, Digest, Baseline
  <2> QED
    BY <1>2, <2>1, <2>3, <2>4 DEF Explained, Digest, FirstSave, Emitted, Saving, Building
<1> QED
  BY <1>3, <1>4

\* What the map saves anew is in doubt for the other targets.
LEMMA WriteMapExplained == ASSUME Shape, Explained, WriteMap PROVE Explained'
<1>t. /\ work \in Works /\ info \in Infos /\ info # Null /\ info' # Null /\ Target \in Targets
      /\ ~work.errors /\ phase = "writeMap" /\ phase' = "writeHashes" /\ Target' = Target
      /\ UNCHANGED <<source, filehashes, objects, work>> /\ Others' = Others
      /\ work.awaiting = Null
  <2>1. /\ work \in Works /\ info \in Infos /\ info # Null /\ Target \in Targets
        /\ ~work.errors /\ phase = "writeMap" /\ work.awaiting = Null
    BY TargetIsOne DEF Shape, TypeOK, Running, Worked, WriteMap, Saving, Building
  <2>2. info' # Null
    BY SaveTyped, NotNull DEF Shape
  <2> QED
    BY <2>1, <2>2 DEF WriteMap, Target, Others
<1>1. /\ info'.tracked = info.tracked /\ info'.inits = info.inits /\ info'.hashes = info.hashes
      /\ info'.newHashes = info.newHashes /\ ~info'.newMap
  BY <1>t DEF WriteMap, Infos
<1>2. /\ suspect \subseteq suspect'
      /\ filemap' # Null /\ filemap'.tracked = info.tracked /\ filemap'.inits = info.inits
  <2>1. CASE info.newMap
    <3>1. filemap' = [tracked |-> info.tracked, rechecks |-> info.rechecks, inits |-> info.inits]
      BY <2>1 DEF WriteMap
    <3>2. filemap' \in FileMaps
      BY <1>t, <3>1 DEF Infos, FileMaps
    <3> QED
      BY <2>1, <3>1, <3>2, NullAssumption DEF WriteMap, NullAssumption
  <2>2. CASE ~info.newMap
    BY <1>t, <2>2 DEF WriteMap, Explained, Digest, Recorded
  <2> QED
    BY <2>1, <2>2
<1>3. ASSUME NEW f \in info.tracked, filehashes # Null, f \notin filemap.tracked
      PROVE  \A t \in Targets : <<t, f>> \in suspect'
  <2>1. filemap # Null /\ f \in Files /\ Doubt(f)
    BY <1>t, <1>3 DEF Explained, Digest, Recorded, Digested, Saving, Infos
  <2>2. info.newMap
    BY <1>t, <1>3 DEF Explained, Digest, Recorded
  <2>3. suspect' = suspect \cup
               (Others \X {g \in Files : filemap # Null /\ (g \in info.tracked) # (g \in filemap.tracked)})
    BY <2>2 DEF WriteMap
  <2>4. \A t \in Others : <<t, f>> \in suspect'
    BY <1>3, <2>1, <2>3
  <2> QED
    BY <1>2, <1>t, <2>1, <2>4 DEF Doubt, Others
<1>4. Recorded'
  BY <1>t, <1>1, <1>2 DEF Recorded, Explained, Digest, Saving
<1>5. FirstSave'
  BY <1>t, <1>1 DEF FirstSave, Explained, Digest, Saving
<1>6. Digested'
  <2> SUFFICES ASSUME filehashes # Null, NEW f \in info.tracked
               PROVE  Doubt(f)' \/ info.hashes[f] = filehashes[f]
    BY <1>t, <1>1, <1>2 DEF Digested
  <2>1. Doubt(f) => Doubt(f)'
    BY <1>t, <1>2 DEF Doubt
  <2> QED
    BY <1>t, <2>1 DEF Digested, Explained, Digest
<1>7. Emitted'
  <2>1. \A f \in work.compiled : f \in Files /\ f # Null
    BY <1>t, NullAssumption DEF Works, NullAssumption
  <2> QED
    BY <1>t, <1>1, <1>2, <2>1 DEF Emitted, Explained, Digest, Building
<1>8. BaselineExplained'
  <2> SUFFICES ASSUME filehashes # Null, NEW t \in Targets, objects[t] # Null, NEW f \in info.tracked
               PROVE  <<t, f>> \in suspect' \/ (objects[t][f] # Null /\ objects[t][f].text = filehashes[f])
    BY <1>t, <1>2 DEF BaselineExplained
  <2>1. filemap # Null
    BY <1>t DEF Explained, Digest, Recorded, Saving
  <2>2. CASE f \in filemap.tracked
    BY <1>2, <2>1, <2>2 DEF Explained, BaselineExplained
  <2>3. CASE f \notin filemap.tracked
    BY <1>3, <2>3
  <2> QED
    BY <2>2, <2>3
<1> QED
  BY <1>4, <1>5, <1>6, <1>7, <1>8 DEF Explained, Digest

\* The digests saved are those of this target's objects; the others' are in doubt.
LEMMA WriteHashesExplained == ASSUME Shape, Explained, WriteHashes PROVE Explained'
<1>t. /\ work \in Works /\ info \in Infos /\ info # Null /\ Target \in Targets
      /\ ~work.errors /\ phase = "writeHashes" /\ UNCHANGED <<filemap, objects>>
      /\ work.awaiting = Null /\ filemap # Null /\ ~info.newMap /\ info.tracked = filemap.tracked
      /\ info.inits = info.tracked /\ objects[Target] # Null
  <2>1. /\ work \in Works /\ info \in Infos /\ info # Null /\ Target \in Targets
        /\ ~work.errors /\ phase = "writeHashes" /\ work.awaiting = Null /\ objects[Target] # Null
    BY TargetIsOne DEF Shape, TypeOK, Running, Worked, WriteHashes, Saving, Building
  <2> QED
    BY <2>1 DEF WriteHashes, Explained, Digest, Recorded
<1>1. /\ filehashes' = IF info.newHashes THEN info.hashes ELSE filehashes
      /\ suspect' = (suspect \ ({Target} \X ((work.compiled \ work.moved) \cap info.tracked)))
                      \cup (Others \X work.compiled)
  BY DEF WriteHashes
<1>2. filehashes' # Null
  <2>1. info.hashes # Null
    BY <1>t, NullAssumption DEF NullAssumption, Infos
  <2> QED
    BY <1>1, <1>t, <2>1 DEF FirstSave, Explained, Digest, Saving
<1>n. ~info.newHashes => work.compiled = {} /\ suspect' = suspect /\ filehashes # Null
  BY <1>t, <1>1, <1>2 DEF Explained, Digest, Recorded
<1>3. ASSUME NEW t \in Targets, objects[t] # Null, NEW f \in info.tracked, <<t, f>> \notin suspect'
      PROVE  objects[t][f] # Null /\ objects[t][f].text = filehashes'[f]
  <2>1. CASE filehashes = Null
    <3>1. t = Target /\ info.newHashes
      BY <1>t, <1>3, <2>1 DEF FirstSave, Explained, Digest, Saving, Others
    <3> QED
      BY <1>t, <1>1, <2>1, <3>1 DEF FirstSave, Explained, Digest, Saving
  <2>2. CASE filehashes # Null /\ <<t, f>> \in suspect
    <3>1. t = Target /\ f \in work.compiled \ work.moved /\ info.newHashes
      BY <1>3, <1>1, <1>n, <2>2
    <3>2. f # Null /\ f \in Files
      BY <1>t, NullAssumption DEF NullAssumption, Infos
    <3> QED
      BY <1>t, <1>1, <3>1, <3>2 DEF Emitted, Explained, Digest, Building
  <2>3. CASE filehashes # Null /\ <<t, f>> \notin suspect
    <3>1. objects[t][f] # Null /\ objects[t][f].text = filehashes[f]
      BY <1>t, <1>3, <2>3 DEF Explained, BaselineExplained
    <3>2. ~Doubt(f)
      <4>1. f \in work.compiled => <<Target, f>> \in suspect
        BY <1>t DEF Emitted, Explained, Digest, Building
      <4>2. f \notin work.compiled
        <5>1. t # Target => t \in Others
          BY DEF Others
        <5> QED
          BY <1>3, <1>1, <2>3, <4>1, <5>1
      <4> QED
        BY <2>3, <4>2 DEF Doubt
    <3>3. info.hashes[f] = filehashes[f]
      BY <1>t, <2>3, <3>2 DEF Digested, Explained, Digest
    <3> QED
      BY <1>1, <3>1, <3>3
  <2> QED
    BY <2>1, <2>2, <2>3
<1>4. BaselineExplained'
  BY <1>t, <1>3 DEF BaselineExplained
<1>5. CASE Stop
  BY <1>t, <1>4, <1>5, StopDigest DEF Explained, Digest
<1>6. CASE ~Stop
  <2>1. /\ info' = [info EXCEPT !.newHashes = FALSE]
        /\ \/ phase' = "link" /\ UNCHANGED <<todo, work>> /\ ~work.linked
           \/ phase' = "begin" /\ work' = NoWork
    BY <1>6 DEF WriteHashes
  <2>2. /\ info'.tracked = info.tracked /\ info'.inits = info.inits /\ info'.hashes = info.hashes
        /\ ~info'.newMap /\ info' # Null
    <3>1. info' \in Infos
      BY <1>6, SaveTyped DEF Shape
    <3> QED
      BY <1>t, <2>1, <3>1, NotNull DEF Infos
  <2>3. work' = NoWork /\ NoWork.compiled = {} /\ ~NoWork.errors
    BY <1>t, <2>1 DEF Shape, Worked, Saving, NoWork
  <2>4. Recorded'
    <3>1. filemap # Null /\ (filemap # Null => filemap.inits = filemap.tracked)
          /\ info.inits = info.tracked /\ info.tracked = filemap.tracked
      BY <1>t DEF Explained, Digest, Recorded
    <3>2. phase' \in {"link", "begin"} /\ filemap' = filemap
      BY <1>t, <2>1
    <3>3. Baseline'
      BY <1>2, <3>1, <3>2 DEF Baseline
    <3>4. work'.compiled = {}
      BY <2>3
    <3> HIDE DEF Baseline
    <3> QED
      BY <2>2, <3>1, <3>2, <3>3, <3>4 DEF Recorded, Saving
  <2>5. Digested'
    <3> SUFFICES ASSUME NEW f \in info.tracked
                 PROVE  Doubt(f)' \/ info.hashes[f] = filehashes'[f]
      BY <1>t, <2>2 DEF Digested
    <3>1. CASE info.newHashes
      BY <1>1, <3>1
    <3>2. CASE ~info.newHashes
      BY <1>t, <1>1, <1>n, <3>2 DEF Digested, Doubt, Explained, Digest
    <3> QED
      BY <3>1, <3>2
  <2>6. FirstSave' /\ Emitted'
    BY <2>1, <2>3 DEF FirstSave, Emitted, Saving, Building
  <2> QED
    BY <1>4, <2>4, <2>5, <2>6 DEF Explained, Digest
<1> QED
  BY <1>5, <1>6

\* Every step keeps what explains the digests.
LEMMA NextExplained == Shape /\ Explained /\ [Next]_vars => Explained'
<1> SUFFICES ASSUME Shape, Explained, [Next]_vars PROVE Explained'
  OBVIOUS
<1>1. CASE RejectAll \/ RejectChange \/ RecheckGone \/ CompileGone \/ UNCHANGED vars
  BY <1>1, QuietExplained
<1>2. CASE \E c \in Wave : Compile(c)
  BY <1>2, CompileExplained
<1>3. CASE \E emitted \in SUBSET Files : KillInitialize(emitted)
  BY <1>3, KillInitializeExplained
<1>4. CASE \/ Kill
           \/ \E f \in Files : \E text \in Written[f] \cup {Gone} : Edit(f, text)
           \/ \E plan \in Plans, m \in Modes : Start(plan, m)
  BY <1>4, WorldExplained
<1>5. CASE \/ Identify \/ Initialize \/ Detect \/ Commit \/ Aggregate \/ Link \/ LinkFails
           \/ WriteMap \/ WriteHashes
  BY <1>5, IdentifyExplained, InitializeExplained, DetectExplained, CommitExplained,
     AggregateExplained, LinkFailsExplained, WriteMapExplained, WriteHashesExplained
<1> QED
  BY <1>1, <1>2, <1>3, <1>4, <1>5 DEF Next, Step

LEMMA InitExplained == Init => Explained
  BY DEF Init, Explained, Digest, Recorded, FirstSave, Digested, Emitted, BaselineExplained,
         Saving, Building

\* A saved digest that is not its object's, for whatever target, is of a file in doubt:
\* compiled but not saved, saved for another target, moved before its commit, or built
\* first by an older map.
THEOREM DigestsExplained == Spec => []BaselineExplained
<1>1. Explained => BaselineExplained
  BY DEF Explained
<1> QED
  BY <1>1, InitShape, NextShape, InitExplained, NextExplained, PTL DEF Spec

---------------------------------------------------------------------------
(* What the steps of a build do, field by field *)

\* A first build for a target, of a cache with nothing in it or of another target's.
Initializing ==
  /\ phase = "begin" /\ phase' = "writeMap" /\ work = NoWork /\ work' = NoWork /\ steady'
  /\ Target \in Targets /\ Target' = Target /\ Others' = Others /\ objects'[Target] # Null
  /\ UNCHANGED <<source, mode, marker, filemap, filehashes, mixed>>
  /\ \A t \in Others : objects'[t] = objects[t] /\ globalsSet'[t] = globalsSet[t]
  /\ \A f \in Files : objects'[Target][f] = IF f \in Reach(Main) THEN Object(f) ELSE Null
  /\ globalsSet'[Target] = Reach(Main) /\ Checks(Main)

InitializingAll ==
  /\ filemap = Null /\ filehashes = Null /\ \A t \in Targets : objects[t] = Null
  /\ info' # Null /\ info'.tracked = Reach(Main) /\ info'.inits = Reach(Main)
  /\ info'.newMap /\ info'.newHashes
  /\ \A f \in Reach(Main) :
       info'.hashes[f] = source[f] /\ info'.rechecks[f] = ImportedBy(f, Reach(Main))
  /\ suspect' = suspect /\ drift' = drift

\* What an older map does not say of the files loaded, or says of files not loaded.
Unlike(f) ==
  IF f \in Reach(Main) \cap info.tracked THEN info.hashes[f] # source[f]
  ELSE f \in Reach(Main) \cup info.tracked \cup filemap.tracked

InitializingOne ==
  /\ info \in Infos /\ info # Null /\ info' = info /\ Baseline
  /\ info.inits = info.tracked /\ filemap.inits = filemap.tracked
  /\ suspect' = suspect \cup {<<Target, f>> : f \in {g \in Files : Unlike(g)}}
  /\ drift' = IF info.inits # Reach(Main) THEN drift \cup {Target} ELSE drift

LEMMA InitializeFields ==
  ASSUME Shape, Explained, Initialize
  PROVE  Initializing /\ (InitializingAll \/ InitializingOne)
<1>t. /\ Target \in Targets /\ objects \in [Targets -> ObjectDirs \cup {Null}]
      /\ globalsSet \in [Targets -> SUBSET Files] /\ Reach(Main) \subseteq Files
      /\ phase = "begin" /\ work = NoWork /\ info \in Infos \cup {Null}
  BY TargetIsOne, ReachIsFiles DEF Shape, TypeOK, Worked, Initialize, Begun
<1>1. /\ \A t \in Others : objects'[t] = objects[t] /\ globalsSet'[t] = globalsSet[t]
      /\ \A f \in Files : objects'[Target][f] = IF f \in Reach(Main) THEN Object(f) ELSE Null
      /\ globalsSet'[Target] = Reach(Main)
  BY <1>t DEF Initialize, Others
<1>2. objects'[Target] # Null /\ info' # Null
  BY BeginTyped, NotNull DEF Shape
<1>3. Initializing
  BY <1>t, <1>1, <1>2 DEF Initializing, Initialize, Target, Others
<1>4. CASE info = Null
  <2>1. filemap = Null /\ filehashes = Null /\ \A t \in Targets : objects[t] = Null
    BY <1>t, <1>4 DEF Explained, Digest, Recorded
  <2>2. info' = FreshInfo(Reach(Main)) /\ suspect' = suspect /\ drift' = drift
    BY <1>4 DEF Initialize
  <2> QED
    BY <1>t, <1>2, <1>3, <2>1, <2>2 DEF InitializingAll, FreshInfo
<1>5. CASE info # Null
  <2>1. info' = info /\ Baseline /\ info.inits = info.tracked /\ filemap.inits = filemap.tracked
    BY <1>t, <1>5 DEF Initialize, Explained, Digest, Recorded, Baseline
  <2>2. /\ suspect' = suspect \cup {<<Target, f>> : f \in {g \in Files : Unlike(g)}}
        /\ drift' = IF info.inits # Reach(Main) THEN drift \cup {Target} ELSE drift
    BY <1>5 DEF Initialize, Unlike
  <2> QED
    BY <1>t, <1>3, <1>5, <2>1, <2>2 DEF InitializingOne
<1> QED
  BY <1>4, <1>5, <1>3

\* The search for changes queues what is to be compiled.
Detecting ==
  /\ info \in Infos /\ info # Null /\ info' \in Infos /\ info' # Null /\ Baseline
  /\ phase = "begin" /\ phase' = "compile" /\ work = NoWork /\ steady'
  /\ Target \in Targets /\ Target' = Target /\ objects[Target] # Null
  /\ UNCHANGED <<source, mode, marker, filemap, filehashes, objects, globalsSet, suspect, drift, mixed>>
  /\ Queued' = Orphans \cup Changed /\ \A d \in Queue' : ~d.new
  /\ ~work'.errors /\ work'.compiled = {} /\ work'.awaiting = Null
  /\ work'.reshaped = (Removed # {})

DetectedMap ==
  /\ info'.tracked = info.tracked \ Removed /\ info'.inits = info.inits \ Removed
  /\ info'.rechecks = info.rechecks /\ info'.newHashes = info.newHashes
  /\ info'.newMap = (info.newMap \/ Removed \cap info.inits # {})
  /\ \A f \in Files \ Removed : info'.hashes[f] = info.hashes[f]

LEMMA DetectFields == ASSUME Shape, Explained, Detect PROVE Detecting /\ DetectedMap
<1>1. /\ info \in Infos /\ info # Null /\ info' \in Infos /\ info' # Null /\ Baseline
      /\ phase = "begin" /\ work = NoWork /\ Target \in Targets /\ objects[Target] # Null
  <2>1. info \in Infos /\ phase = "begin" /\ work = NoWork /\ Baseline /\ objects[Target] # Null
    BY DEF Shape, TypeOK, Detect, CachedBegun, Begun, Explained, Digest, Recorded, Worked
  <2>2. info' \in Infos
    BY DetectTyped DEF Shape
  <2>3. Target \in Targets
    BY <2>1, TargetIsOne DEF Shape
  <2> QED
    BY <2>1, <2>2, <2>3, NotNull
<1>2. /\ work'.wave = {Component(f, FALSE, {}) : f \in Orphans \cup Changed} /\ work'.next = {}
      /\ ~work'.errors /\ work'.compiled = {} /\ work'.awaiting = Null
      /\ work'.reshaped = (Removed # {})
  BY DEF Detect, NoWork
<1>3. Queued' = Orphans \cup Changed /\ \A d \in Queue' : ~d.new
  <2>1. Queue' = {Component(f, FALSE, {}) : f \in Orphans \cup Changed}
    BY <1>2 DEF Queue
  <2>2. \A f : Component(f, FALSE, {}).file = f /\ ~Component(f, FALSE, {}).new
    BY DEF Component
  <2>3. Queued' = {d.file : d \in Queue'}
    BY DEF Queued
  <2>4. \A d \in Queue' : ~d.new /\ d.file \in Orphans \cup Changed
    BY <2>1, <2>2
  <2>5. \A f \in Orphans \cup Changed : \E d \in Queue' : d.file = f
    <3> SUFFICES ASSUME NEW f \in Orphans \cup Changed
                 PROVE  Component(f, FALSE, {}) \in Queue' /\ Component(f, FALSE, {}).file = f
      OBVIOUS
    <3> QED
      BY <2>1, <2>2
  <2> QED
    BY <2>3, <2>4, <2>5
<1>4. Detecting
  BY <1>1, <1>2, <1>3 DEF Detecting, Detect, cache, doubts, Target
<1>5. DetectedMap
  <2>1. /\ info'.tracked = info.tracked \ Removed /\ info'.inits = info.inits \ Removed
        /\ info'.rechecks = info.rechecks /\ info'.newHashes = info.newHashes
        /\ info'.newMap = (info.newMap \/ Removed \cap info.inits # {})
        /\ info'.hashes = [f \in Files |-> IF f \in Removed THEN Null ELSE info.hashes[f]]
    BY <1>1 DEF Detect, Infos
  <2> QED
    BY <2>1 DEF DetectedMap
<1> QED
  BY <1>4, <1>5

\* The queue of a compilation: only the component compiled leaves it, what takes its place
\* is new, and what is new in it is what it had or what was found.
LEMMA QueueStep ==
  ASSUME Shape, NEW c \in Wave, Compile(c)
  PROVE  /\ c \in Queue
         /\ \A f \in Queued : f # c.file => f \in Queued'
         /\ \A f \in Awaited : f \in NowTracked(c) \cup Awaited'
         /\ Loads(c) \ NowTracked(c) \subseteq Awaited'
         /\ \A d \in Queue' : d \in Queue \/ d \in Found(c)
<1>f. CompiledQueue(c) /\ CompiledMap(c)
  BY CompileFields
<1>1. Queue = Wave \cup Later /\ c \in Wave
  BY DEF Queue, Wave, Later
<1>2. Queue' = (Wave \ {c}) \cup {d \in Later : d.file \notin Loads(c) \ NowTracked(c)} \cup Found(c)
  BY <1>f DEF Queue, CompiledQueue
<1>3. \A g \in Loads(c) \ NowTracked(c) : \E d \in Found(c) : d.file = g /\ d.new
  <2> SUFFICES ASSUME NEW g \in Loads(c) \ NowTracked(c)
               PROVE  \E d \in Found(c) : d.file = g /\ d.new
    OBVIOUS
  <2> DEFINE d == Component(g, TRUE, ImportedBy(g, Loads(c)))
  <2>1. d \in Found(c)
    BY DEF Found
  <2>2. d.file = g /\ d.new
    BY DEF Component
  <2> QED
    BY <2>1, <2>2
<1>4. Queued' = {d.file : d \in Queue'} /\ Awaited' = {e.file : e \in {d \in Queue' : d.new}}
  BY DEF Queued, Awaited
<1>5. Loads(c) \ NowTracked(c) \subseteq Awaited' /\ Loads(c) \ NowTracked(c) \subseteq Queued'
  BY <1>2, <1>3, <1>4
<1>6. ASSUME NEW d \in Queue, d # c
      PROVE  d \in Queue' \/ d.file \in Loads(c) \ NowTracked(c)
  BY <1>1, <1>2, <1>6
<1>7. \A f \in Queued : f # c.file => f \in Queued'
  BY <1>4, <1>5, <1>6 DEF Queued
<1>8. \A f \in Awaited : f \in NowTracked(c) \cup Awaited'
  <2> SUFFICES ASSUME NEW d \in Queue, d.new PROVE d.file \in NowTracked(c) \cup Awaited'
    BY DEF Awaited
  <2>1. CASE d = c
    BY <2>1 DEF NowTracked
  <2>2. CASE d # c
    BY <1>4, <1>5, <1>6, <2>2
  <2> QED
    BY <2>1, <2>2
<1> QED
  BY <1>1, <1>2, <1>5, <1>7, <1>8

\* A commit gives the file that awaits it the digest of its source by now.
Committing ==
  /\ info \in Infos /\ info # Null /\ info' # Null /\ work \in Works /\ Baseline
  /\ phase = "commit" /\ phase' = "compile" /\ Target \in Targets /\ Target' = Target
  /\ work.awaiting \in work.compiled /\ work.awaiting \in Files
  /\ UNCHANGED <<source, mode, marker, filemap, filehashes, objects, globalsSet, steady, suspect,
                 drift, mixed>>
  /\ Queue' = Queue /\ work'.errors = work.errors /\ work'.reshaped = work.reshaped
  /\ work'.compiled = work.compiled /\ work'.moved = work.moved /\ work'.awaiting = Null

CommittedMap ==
  /\ info'.tracked = info.tracked /\ info'.inits = info.inits /\ info'.rechecks = info.rechecks
  /\ info'.newMap = info.newMap /\ info'.newHashes
  /\ \A f \in Files : info'.hashes[f] = IF f = work.awaiting THEN source[f] ELSE info.hashes[f]

LEMMA CommitFields == ASSUME Shape, Explained, Commit PROVE Committing /\ CommittedMap
<1>1. /\ info \in Infos /\ info # Null /\ work \in Works /\ phase = "commit"
      /\ work.awaiting \in work.compiled /\ Baseline
  BY DEF Shape, TypeOK, Running, Worked, Commit, Building, Explained, Digest, Recorded
<1>2. info' # Null /\ Target \in Targets
  BY <1>1, LinkTyped, NotNull, TargetIsOne DEF Shape
<1>3. work.awaiting \in Files
  BY <1>1 DEF Works
<1>4. /\ work'.wave = work.wave /\ work'.next = work.next /\ work'.errors = work.errors
      /\ work'.reshaped = work.reshaped /\ work'.compiled = work.compiled
      /\ work'.moved = work.moved /\ work'.awaiting = Null
  BY <1>1 DEF Commit, Works
<1>5. Committing
  BY <1>1, <1>2, <1>3, <1>4 DEF Committing, Commit, cache, history, doubts, Target, Queue
<1>6. /\ info'.hashes = [info.hashes EXCEPT ![work.awaiting] = source[work.awaiting]]
      /\ info'.tracked = info.tracked /\ info'.inits = info.inits /\ info'.newMap = info.newMap
      /\ info'.newHashes /\ info'.rechecks = info.rechecks
  BY <1>1 DEF Commit, Infos
<1>7. info.hashes \in [Files -> Sources \cup {Null}]
  BY <1>1 DEF Infos, Digests
<1> QED
  BY <1>5, <1>6, <1>7 DEF CommittedMap

\* All is compiled: the build goes on to its link and its first half is over.
Linking ==
  /\ info \in Infos /\ info # Null /\ info' = info /\ Baseline
  /\ Target \in Targets /\ Target' = Target /\ objects[Target] # Null
  /\ UNCHANGED <<source, mode, marker, filemap, filehashes, objects, steady, suspect, mixed>>
  /\ Queue = {} /\ Queue' = {} /\ ~work.errors /\ ~work'.errors
  /\ work'.reshaped = work.reshaped /\ work'.compiled = work.compiled
  /\ work'.moved = work.moved /\ work.awaiting = Null /\ work'.awaiting = Null

Aggregated ==
  /\ phase = "compile" /\ phase' = "link"
  /\ \A t \in Others : globalsSet'[t] = globalsSet[t]
  /\ work.reshaped => globalsSet'[Target] = info.inits /\ drift' = drift \cup {Target}
  /\ ~work.reshaped => globalsSet' = globalsSet /\ drift' = drift

LEMMA LinkFields ==
  ASSUME Shape, Explained, Aggregate \/ Link, ~Stop
  PROVE  /\ Linking
         /\ Aggregated \/ (phase = "link" /\ phase' = "writeMap" /\ UNCHANGED <<globalsSet, drift>>)
<1>1. phase \in {"compile", "link"} /\ work \in Works /\ globalsSet \in [Targets -> SUBSET Files]
  BY DEF Aggregate, Link, Shape, TypeOK
<1>2. /\ info \in Infos /\ info # Null /\ Baseline /\ Target \in Targets /\ objects[Target] # Null
      /\ work.awaiting = Null
  BY <1>1, TargetIsOne
  DEF Shape, TypeOK, Running, Worked, Building, Explained, Digest, Recorded
<1>3. CASE Aggregate
  <2>1. /\ phase = "compile" /\ phase' = "link" /\ UNCHANGED <<todo, info, work>> /\ ~work.errors
        /\ Wave = {}
    BY <1>3 DEF Aggregate
  <2>2. Queue = {}
    BY <2>1 DEF Wave, Queue
  <2>3. Queue' = {}
    BY <2>1, <2>2 DEF Queue
  <2>4. Linking
    BY <1>2, <1>3, <2>1, <2>2, <2>3 DEF Linking, Aggregate, Target
  <2>5. Aggregated
    BY <1>1, <1>2, <1>3, <2>1 DEF Aggregated, Aggregate, Others
  <2> QED
    BY <2>4, <2>5
<1>4. CASE Link
  <2>1. /\ phase = "link" /\ phase' = "writeMap"
        /\ UNCHANGED <<todo, info, source, mode, marker, filemap, filehashes, objects, globalsSet,
                       steady, suspect, drift, mixed>>
    BY <1>4 DEF Link, cache, history, doubts
  <2>2. /\ work'.wave = work.wave /\ work'.next = work.next /\ work'.errors = work.errors
        /\ work'.reshaped = work.reshaped /\ work'.compiled = work.compiled
        /\ work'.moved = work.moved /\ work'.awaiting = work.awaiting
    BY <1>1, <1>4 DEF Link, Works
  <2>3. Queue = {} /\ ~work.errors
    BY <2>1 DEF Shape, Worked
  <2>4. Queue' = {}
    BY <2>2, <2>3 DEF Queue
  <2>5. Linking
    BY <1>2, <2>1, <2>2, <2>3, <2>4 DEF Linking, Target
  <2> QED
    BY <2>1, <2>5
<1> QED
  BY <1>3, <1>4

\* A link that fails leaves the cache as it is, and the build to its next target.
Failing ==
  /\ phase = "link" /\ Baseline /\ Target \in Targets /\ info \in Infos /\ info # Null
  /\ UNCHANGED <<source, mode, marker, filemap, filehashes, objects, globalsSet, steady>>
  /\ Queue = {} /\ ~work.errors /\ work.awaiting = Null /\ work \in Works
  /\ suspect' = suspect \cup (Others \X work.compiled)
  /\ drift' = IF work.reshaped THEN drift \cup Others ELSE drift
  /\ mixed' = (mixed \/ ~steady)
  /\ Stop \/ (phase' = "begin" /\ info' = info /\ work' = NoWork)

LEMMA FailFields == ASSUME Shape, Explained, LinkFails PROVE Failing
<1>1. /\ phase = "link" /\ Baseline /\ info \in Infos /\ info # Null /\ work \in Works
      /\ Queue = {} /\ ~work.errors /\ work.awaiting = Null
  BY DEF LinkFails, Shape, TypeOK, Running, Worked, Building, Explained, Digest, Recorded
<1>2. Target \in Targets
  BY <1>1, TargetIsOne DEF Shape
<1> QED
  BY <1>1, <1>2 DEF Failing, LinkFails, cache

\* The file map is saved as it is in memory, if it is new.
MapWriting ==
  /\ phase = "writeMap" /\ phase' = "writeHashes" /\ info \in Infos /\ info # Null /\ info' # Null
  /\ Target \in Targets /\ Target' = Target /\ Others' = Others /\ objects[Target] # Null
  /\ UNCHANGED <<source, mode, marker, filehashes, objects, globalsSet, work, steady, mixed>>
  /\ Queue = {} /\ Queue' = {} /\ ~work.errors /\ work.awaiting = Null /\ work \in Works
  /\ filehashes # Null => filemap # Null
  /\ info'.tracked = info.tracked /\ info'.inits = info.inits /\ info'.hashes = info.hashes
  /\ info'.rechecks = info.rechecks /\ info'.newHashes = info.newHashes /\ ~info'.newMap
  /\ filemap' # Null /\ filemap'.tracked = info.tracked /\ filemap'.inits = info.inits

MapWritten ==
  /\ filemap'.rechecks = info.rechecks
  /\ suspect' = suspect \cup
       (Others \X {f \in Files : filemap # Null /\ (f \in info.tracked) # (f \in filemap.tracked)})
  /\ drift' = IF filemap # Null /\ filemap.inits # info.inits THEN drift \cup Others ELSE drift

LEMMA MapFields ==
  ASSUME Shape, Explained, WriteMap
  PROVE  /\ MapWriting
         /\ \/ info.newMap /\ MapWritten
            \/ /\ ~info.newMap /\ UNCHANGED <<filemap, suspect, drift>>
               /\ filemap # Null /\ filehashes # Null
<1>1. /\ phase = "writeMap" /\ work \in Works /\ info \in Infos /\ info # Null
      /\ Queue = {} /\ ~work.errors /\ work.awaiting = Null /\ objects[Target] # Null
  BY DEF WriteMap, Shape, TypeOK, Running, Worked, Building, Saving
<1>2. Target \in Targets /\ info' # Null
  BY <1>1, TargetIsOne, SaveTyped, NotNull DEF Shape
<1>3. /\ info'.tracked = info.tracked /\ info'.inits = info.inits /\ info'.hashes = info.hashes
      /\ info'.rechecks = info.rechecks /\ info'.newHashes = info.newHashes /\ ~info'.newMap
  BY <1>1 DEF WriteMap, Infos
<1>4. /\ filehashes # Null => filemap # Null
      /\ ~info.newMap => /\ filemap # Null /\ filehashes # Null /\ info.tracked = filemap.tracked
                         /\ filemap.inits = info.inits
  BY <1>1 DEF Explained, Digest, Recorded, FirstSave, Saving
<1>5. CASE info.newMap
  <2>1. filemap' = [tracked |-> info.tracked, rechecks |-> info.rechecks, inits |-> info.inits]
    BY <1>5 DEF WriteMap
  <2>2. filemap' \in FileMaps
    BY <1>1, <2>1 DEF Infos, FileMaps
  <2>3. filemap' # Null
    BY <2>2, NullAssumption DEF NullAssumption
  <2>4. MapWritten
    BY <1>5, <2>1 DEF MapWritten, WriteMap
  <2>5. UNCHANGED work => Queue' = Queue
    BY DEF Queue
  <2>6. MapWriting
    BY <1>1, <1>2, <1>3, <1>4, <2>1, <2>3, <2>5 DEF MapWriting, WriteMap, Target, Others
  <2> QED
    BY <1>5, <2>4, <2>6
<1>6. CASE ~info.newMap
  <2>1. UNCHANGED <<filemap, suspect, drift>>
    BY <1>6 DEF WriteMap
  <2>2. UNCHANGED work => Queue' = Queue
    BY DEF Queue
  <2>3. MapWriting
    BY <1>1, <1>2, <1>3, <1>4, <1>6, <2>1, <2>2 DEF MapWriting, WriteMap, Target, Others
  <2> QED
    BY <1>4, <1>6, <2>1, <2>3
<1> QED
  BY <1>5, <1>6

\* The digests are saved, if they are new, and what was compiled is in doubt no more.
HashWriting ==
  /\ phase = "writeHashes" /\ info \in Infos /\ info # Null /\ work \in Works
  /\ Target \in Targets /\ objects[Target] # Null /\ filemap # Null
  /\ ~info.newMap /\ info.tracked = filemap.tracked /\ info.inits = filemap.inits
  /\ UNCHANGED <<source, mode, marker, filemap, objects, globalsSet, steady>>
  /\ Queue = {} /\ ~work.errors /\ work.awaiting = Null
  /\ filehashes' = (IF info.newHashes THEN info.hashes ELSE filehashes) /\ filehashes' # Null
  /\ suspect' = (suspect \ ({Target} \X ((work.compiled \ work.moved) \cap info.tracked)))
                  \cup (Others \X work.compiled)
  /\ drift' = (IF work.reshaped THEN drift \ {Target} ELSE drift)
  /\ mixed' = (mixed \/ ~steady)
  /\ ~info.newHashes => work.compiled = {}

HashWritten ==
  /\ \/ phase' = "link" /\ UNCHANGED todo /\ work = NoWork
     \/ phase' = "begin"
  /\ work' = NoWork /\ info' # Null
  /\ info'.tracked = info.tracked /\ info'.inits = info.inits /\ info'.hashes = info.hashes
  /\ info'.rechecks = info.rechecks /\ ~info'.newMap /\ ~info'.newHashes

LEMMA HashFields ==
  ASSUME Shape, Explained, WriteHashes PROVE HashWriting /\ (Stop \/ HashWritten)
<1>1. /\ phase = "writeHashes" /\ work \in Works /\ info \in Infos /\ info # Null
      /\ Queue = {} /\ ~work.errors /\ work.awaiting = Null /\ objects[Target] # Null
      /\ ~work.linked => work = NoWork
  BY DEF WriteHashes, Shape, TypeOK, Running, Worked, Building, Saving
<1>2. Target \in Targets /\ info.hashes # Null
  BY <1>1, TargetIsOne, NullAssumption DEF Shape, Infos, NullAssumption
<1>3. /\ filemap # Null /\ ~info.newMap /\ info.tracked = filemap.tracked
      /\ info.inits = filemap.inits /\ (~info.newHashes => work.compiled = {})
      /\ ~info.newHashes => filehashes # Null
  BY <1>1 DEF Explained, Digest, Recorded, FirstSave, Saving
<1>4. HashWriting
  BY <1>1, <1>2, <1>3 DEF HashWriting, WriteHashes
<1>5. CASE ~Stop
  <2>1. /\ info' = [info EXCEPT !.newHashes = FALSE]
        /\ \/ phase' = "link" /\ UNCHANGED <<todo, work>> /\ ~work.linked
           \/ phase' = "begin" /\ work' = NoWork
    BY <1>5 DEF WriteHashes
  <2>2. info' # Null
    BY <1>5, SaveTyped, NotNull DEF Shape
  <2>3. /\ info'.tracked = info.tracked /\ info'.inits = info.inits /\ info'.hashes = info.hashes
        /\ info'.rechecks = info.rechecks /\ ~info'.newMap /\ ~info'.newHashes
    BY <1>1, <1>3, <2>1 DEF Infos
  <2> QED
    BY <1>1, <1>4, <2>1, <2>2, <2>3 DEF HashWritten
<1> QED
  BY <1>4, <1>5

\* The world around a build.
Editing ==
  /\ UNCHANGED <<mode, marker, filemap, filehashes, objects, globalsSet, phase, info, suspect,
                 drift, mixed>>
  /\ ~steady' /\ Target' = Target /\ Queue' = Queue
  /\ work'.errors = work.errors /\ work'.reshaped = work.reshaped
  /\ work'.compiled = work.compiled /\ work'.awaiting = work.awaiting
  /\ source[Main] # Gone => source'[Main] # Gone

LEMMA EditFields ==
  ASSUME Shape, NEW f \in Files, NEW text \in Written[f] \cup {Gone}, Edit(f, text)
  PROVE  Editing
<1>1. work \in Works /\ source \in [Files -> Sources]
  BY DEF Shape, TypeOK
<1>2. /\ work'.errors = work.errors /\ work'.reshaped = work.reshaped
      /\ work'.compiled = work.compiled /\ work'.awaiting = work.awaiting
      /\ work'.wave = work.wave /\ work'.next = work.next
  BY <1>1 DEF Edit, Works
<1>3. source[Main] # Gone => source'[Main] # Gone
  BY <1>1, BuildAssumption DEF Edit, BuildAssumption
<1> QED
  BY <1>2, <1>3 DEF Editing, Edit, cache, doubts, Target, Queue

Loading ==
  /\ phase = "idle" /\ phase' = "begin" /\ work' = NoWork /\ info' # Null /\ Baseline
  /\ UNCHANGED <<source, marker, filemap, filehashes, objects, globalsSet, suspect, drift, mixed>>
  /\ info'.tracked = filemap.tracked /\ info'.inits = filemap.inits
  /\ info'.hashes = filehashes /\ ~info'.newMap /\ ~info'.newHashes
  /\ \A f \in Files : info'.rechecks[f] = filemap.rechecks[f] \cap filemap.tracked

\* An empty cache is all a build of another identity, or one that finds none, begins with.
Clearing ==
  /\ phase' = "begin" /\ work' = NoWork /\ info' = Null /\ UNCHANGED source
  /\ filemap' = Null /\ filehashes' = Null /\ \A t \in Targets : objects'[t] = Null

LEMMA BeginFields ==
  ASSUME Shape, Identify \/ \E plan \in Plans, m \in Modes : Start(plan, m)
  PROVE  Loading \/ Clearing
<1>1. CASE Identify
  <2>1. Discard /\ phase' = "begin" /\ phase = "begin" /\ info' = Null /\ UNCHANGED <<source, work>>
    BY <1>1 DEF Identify
  <2>2. work' = NoWork
    BY <2>1 DEF Shape, Worked
  <2> QED
    BY <2>1, <2>2 DEF Clearing, Discard
<1>2. ASSUME NEW plan \in Plans, NEW m \in Modes, Start(plan, m) PROVE Loading \/ Clearing
  <2>1. phase' = "begin" /\ phase = "idle" /\ info' = Loaded /\ UNCHANGED <<source, work>>
    BY <1>2 DEF Start
  <2>2. work' = NoWork
    BY <2>1 DEF Shape, Worked
  <2>3. CASE Loaded = Null
    <3>1. Discard
      BY <1>2, <2>3 DEF Start
    <3> QED
      BY <2>1, <2>2, <2>3, <3>1 DEF Clearing, Discard
  <2>4. CASE Loaded # Null
    <3>1. /\ UNCHANGED <<marker, filemap, filehashes, objects, globalsSet, suspect, drift, mixed>>
          /\ Baseline
      BY <1>2, <2>4 DEF Start, cache, doubts, Loaded, Baseline
    <3>2. /\ info'.tracked = filemap.tracked /\ info'.inits = filemap.inits
          /\ info'.hashes = filehashes /\ ~info'.newMap /\ ~info'.newHashes
          /\ \A f \in Files : info'.rechecks[f] = filemap.rechecks[f] \cap filemap.tracked
      BY <2>1, <3>1 DEF Loaded, Baseline
    <3> QED
      BY <2>1, <2>2, <2>4, <3>1, <3>2 DEF Loading
  <2> QED
    BY <2>3, <2>4
<1> QED
  BY <1>1, <1>2

\* A process that ends leaves its cache as it is, or torn, and more in doubt.
Ending ==
  /\ phase' \in {"idle", "panic"} /\ (info' = Null \/ info' = info) /\ UNCHANGED <<source, objects>>
  /\ filemap' = filemap \/ filemap' = Null
  /\ filehashes' = filehashes \/ filehashes' = Null
  /\ \A t \in Targets : globalsSet'[t] = globalsSet[t] \/ t \in drift'
  /\ suspect \subseteq suspect' /\ drift \subseteq drift'
  /\ mixed \/ (phase = "writeHashes" /\ info.newHashes) => mixed'

LEMMA EndFields ==
  ASSUME Shape,
         \/ RejectAll \/ RejectChange \/ RecheckGone \/ CompileGone \/ Kill
         \/ (Aggregate \/ LinkFails) /\ Stop
  PROVE  Ending
<1>1. CASE RejectAll \/ RejectChange \/ RecheckGone \/ CompileGone
  BY <1>1 DEF RejectAll, RejectChange, RecheckGone, CompileGone, CachedBegun, Begun, Stop, cache,
          history, doubts, Ending
<1>2. CASE Kill
  BY <1>2 DEF Kill, Stop, Ending
<1>3. CASE Aggregate /\ Stop
  <2>1. globalsSet \in [Targets -> SUBSET Files] /\ Target \in Targets
    BY <1>3, TargetIsOne DEF Shape, TypeOK, Aggregate
  <2>2. \A t \in Targets : globalsSet'[t] = globalsSet[t] \/ t \in drift'
    BY <1>3, <2>1 DEF Aggregate
  <2> QED
    BY <1>3, <2>2 DEF Aggregate, Stop, Ending
<1>4. CASE LinkFails /\ Stop
  BY <1>4 DEF LinkFails, Stop, Ending, cache
<1> QED
  BY <1>1, <1>2, <1>3, <1>4

---------------------------------------------------------------------------
(* What is linked *)

\* A build that has met no error.
Flawless == phase \notin {"idle", "panic"} /\ info # Null /\ ~work.errors

\* The entry point is there and tracked, and no object is of a file that is gone.
MainThere ==
  /\ source[Main] # Gone
  /\ filemap # Null => Main \in filemap.tracked
  /\ info # Null => Main \in info.tracked

Texted ==
  \A t \in Targets : objects[t] # Null =>
    \A f \in Files : objects[t][f] # Null => objects[t][f].text \in Texts

\* All that a text imports is tracked; or, for that import, the importer is not on record,
\* or the import's object is in doubt.
ClosedIn(t, f, text, tracked, rechecks) ==
  text \in Texts =>
    \A g \in Imports[text] : g \in tracked \/ f \notin rechecks[g] \/ <<t, g>> \in suspect

\* So it is for the saved digest of every file that is in no doubt.
SavedClosed ==
  Baseline => \A t \in Targets : objects[t] # Null => \A f \in filemap.tracked :
    <<t, f>> \in suspect \/ ClosedIn(t, f, filehashes[f], filemap.tracked, filemap.rechecks)

\* A __globals_set.o that does not drift calls what the file map lists.
SavedGlobals ==
  filemap # Null => \A t \in Targets : objects[t] # Null /\ t \notin drift => globalsSet[t] = filemap.inits

Saved == MainThere /\ Texted /\ SavedClosed /\ SavedGlobals

\* While no file moves, what is compiled is as its source, and so is the digest of what is
\* neither queued nor in doubt.
AsSources == Building /\ steady => \A f \in work.compiled : objects[Target][f] = Object(f)

Settled ==
  Building /\ steady /\ ~work.errors => \A f \in info.tracked :
    f \in Queued \/ <<Target, f>> \in suspect \/ info.hashes[f] \in {Null, source[f]}

\* All that a compiled file imports is tracked or will be.
Complete ==
  Building /\ ~work.errors => \A f \in work.compiled :
    Imports[objects[Target][f].text] \subseteq info.tracked \cup Awaited

Reshaped == Building /\ Awaited # {} => work.reshaped

\* As SavedClosed, for what is in memory and is neither queued nor compiled.
KnownClosed ==
  Flawless => \A t \in Targets : objects[t] # Null => \A f \in info.tracked :
    \/ <<t, f>> \in suspect \/ f \in Queued \/ f \in work.compiled
    \/ ClosedIn(t, f, info.hashes[f], info.tracked, info.rechecks)

\* An importer on record in memory but not in the file map is that of a file that one of
\* the two tracks, or that is in doubt for all targets.
Rechecked ==
  Flawless /\ (filehashes # Null \/ phase = "writeHashes") =>
    \A f, g \in Files : f \in info.rechecks[g] =>
      \/ f \in filemap.rechecks[g]
      \/ g \in info.tracked \cup filemap.tracked
      \/ \A t \in Targets : <<t, g>> \in suspect

\* A map that is not to be saved has no less on record than the saved one.
Kept ==
  Flawless /\ ~info.newMap => \A g \in Files : filemap.rechecks[g] \cap info.tracked \subseteq info.rechecks[g]

\* Initializers in memory that are not the file map's belong to a build that writes its
\* __globals_set.o anew, or to a process that has made every one of them drift.
KnownGlobals ==
  Flawless /\ filemap # Null =>
    \/ Targets \subseteq drift \/ info.inits = filemap.inits \/ work.reshaped
    \/ phase = "writeMap" /\ filehashes = Null

LinkedGlobals ==
  phase \in {"link", "writeMap", "writeHashes"} =>
    /\ work.reshaped => Target \in drift
    /\ work.reshaped \/ Target \notin drift => globalsSet[Target] = info.inits

Built ==
  /\ AsSources /\ Settled /\ Complete /\ Reshaped /\ KnownClosed /\ Rechecked /\ Kept
  /\ KnownGlobals /\ LinkedGlobals
Linkable == Saved /\ Built

\* A process that ends keeps what it had saved.
LEMMA EndLinkable == ASSUME Shape, Saved, Ending PROVE Linkable'
<1>1. Built'
  BY DEF Ending, Built, AsSources, Settled, Complete, Reshaped, KnownClosed, Rechecked, Kept,
         KnownGlobals, LinkedGlobals, Building, Flawless
<1>2. MainThere' /\ Texted'
  BY DEF Ending, Saved, MainThere, Texted
<1>3. SavedClosed'
  BY DEF Ending, Saved, SavedClosed, ClosedIn, Baseline
<1>4. SavedGlobals'
  BY DEF Ending, Saved, SavedGlobals
<1> QED
  BY <1>1, <1>2, <1>3, <1>4 DEF Linkable, Saved, Ending

\* A build begins with what was saved, or with nothing.
LEMMA BeginLinkable == ASSUME Shape, Saved, Loading \/ Clearing PROVE Linkable'
<1>r. ~Building'
  BY DEF Loading, Clearing, Building
<1>1. AsSources' /\ Settled' /\ Complete' /\ Reshaped' /\ LinkedGlobals'
  BY <1>r DEF AsSources, Settled, Complete, Reshaped, LinkedGlobals, Loading, Clearing, Building
<1>2. CASE Clearing
  <2>1. MainThere' /\ Texted' /\ SavedClosed' /\ SavedGlobals'
    BY <1>2 DEF Clearing, Saved, MainThere, Texted, SavedClosed, SavedGlobals, Baseline
  <2>2. KnownClosed' /\ Rechecked' /\ Kept' /\ KnownGlobals'
    BY <1>2 DEF Clearing, KnownClosed, Rechecked, Kept, KnownGlobals, Flawless
  <2> QED
    BY <1>1, <2>1, <2>2 DEF Linkable, Saved, Built
<1>3. CASE Loading
  <2>1. MainThere' /\ Texted' /\ SavedGlobals'
    BY <1>3 DEF Loading, Saved, MainThere, Texted, SavedGlobals, Baseline
  <2>2. SavedClosed'
    BY <1>3 DEF Loading, Saved, SavedClosed, ClosedIn, Baseline
  <2>3. KnownClosed'
    <3> SUFFICES ASSUME NEW t \in Targets, objects[t] # Null, NEW f \in filemap.tracked
                 PROVE  \/ <<t, f>> \in suspect
                        \/ ClosedIn(t, f, info'.hashes[f], info'.tracked, info'.rechecks)
      BY <1>3 DEF Loading, KnownClosed, ClosedIn
    <3>1. <<t, f>> \in suspect \/ ClosedIn(t, f, filehashes[f], filemap.tracked, filemap.rechecks)
      BY <1>3 DEF Loading, Saved, SavedClosed
    <3>2. \A text \in Texts : Imports[text] \subseteq Files
      BY BuildAssumption DEF BuildAssumption
    <3> QED
      BY <1>3, <3>1, <3>2 DEF Loading, ClosedIn
  <2>4. Rechecked' /\ Kept' /\ KnownGlobals'
    BY <1>3 DEF Loading, Rechecked, Kept, KnownGlobals
  <2> QED
    BY <1>1, <2>1, <2>2, <2>3, <2>4 DEF Linkable, Saved, Built
<1> QED
  BY <1>2, <1>3

\* An edit makes the build unsteady and leaves it what it knows.
LEMMA EditLinkable == ASSUME Shape, Linkable, Editing PROVE Linkable'
<1>q. Queued' = Queued /\ Awaited' = Awaited
  BY DEF Editing, Queued, Awaited
<1>1. MainThere' /\ Texted' /\ SavedGlobals'
  BY DEF Editing, Linkable, Saved, MainThere, Texted, SavedGlobals
<1>2. SavedClosed'
  BY DEF Editing, Linkable, Saved, SavedClosed, ClosedIn, Baseline
<1>3. AsSources' /\ Settled'
  BY DEF Editing, AsSources, Settled
<1>4. Complete' /\ Reshaped'
  BY <1>q DEF Editing, Linkable, Built, Complete, Reshaped, Building
<1>5. Flawless' <=> Flawless
  BY DEF Editing, Flawless
<1>6. KnownClosed'
  BY <1>q, <1>5 DEF Editing, Linkable, Built, KnownClosed, ClosedIn
<1>7. Rechecked' /\ Kept' /\ KnownGlobals'
  BY <1>5 DEF Editing, Linkable, Built, Rechecked, Kept, KnownGlobals
<1>8. LinkedGlobals'
  BY DEF Editing, Linkable, Built, LinkedGlobals
<1> QED
  BY <1>1, <1>2, <1>3, <1>4, <1>6, <1>7, <1>8 DEF Linkable, Saved, Built

\* The object of a source is of a text.
LEMMA ObjectText ==
  Shape => \A f \in Files : Object(f) # Null /\ (source[f] # Gone => Object(f).text \in Texts)
<1> SUFFICES ASSUME Shape, NEW f \in Files
             PROVE  Object(f) # Null /\ (source[f] # Gone => Object(f).text \in Texts)
  OBVIOUS
<1>1. Object(f) \in ObjectFiles /\ source[f] \in Sources
  BY ObjectTyped DEF Shape, TypeOK
<1> QED
  BY <1>1, NullAssumption DEF NullAssumption, Object, Sources

\* What a file imports are files, and what a compilation asks for is closed under it.
LEMMA ReachCloses ==
  ASSUME Shape, NEW f \in Files
  PROVE  /\ f \in Reach(f)
         /\ \A g \in Files : ImportsOf(g) \subseteq Files
         /\ \A g \in Reach(f) : ImportsOf(g) \subseteq Reach(f)
<1>1. f \in Reach(f)
  BY DEF Reach
<1>2. \A g \in Files : ImportsOf(g) \subseteq Files
  <2> SUFFICES ASSUME NEW g \in Files, source[g] # Gone PROVE Imports[source[g]] \subseteq Files
    BY DEF ImportsOf
  <2>1. source[g] \in Texts
    BY DEF Shape, TypeOK, Sources
  <2> QED
    BY <2>1, BuildAssumption DEF BuildAssumption
<1>3. ASSUME NEW g \in Reach(f), NEW h \in ImportsOf(g) PROVE h \in Reach(f)
  <2>1. g \in Files /\ \A S \in SUBSET Files : f \in S /\ (\A i \in S : ImportsOf(i) \subseteq S) => g \in S
    BY DEF Reach
  <2>2. h \in Files
    BY <1>2, <1>3, <2>1
  <2>3. ASSUME NEW S \in SUBSET Files, f \in S, \A i \in S : ImportsOf(i) \subseteq S PROVE h \in S
    BY <1>3, <2>1, <2>3
  <2> QED
    BY <2>2, <2>3 DEF Reach
<1> QED
  BY <1>1, <1>2, <1>3

\* A first build that was killed has written objects of the files it loads, all in doubt.
LEMMA KillInitializeLinkable ==
  ASSUME Shape, Linkable, NEW emitted \in SUBSET Files, KillInitialize(emitted)
  PROVE  Linkable'
<1>t. /\ Target \in Targets /\ objects \in [Targets -> ObjectDirs \cup {Null}]
      /\ globalsSet \in [Targets -> SUBSET Files]
  BY TargetIsOne DEF Shape, TypeOK, KillInitialize, Begun
<1>1. /\ phase' = "idle" /\ info' = Null /\ UNCHANGED <<source, filemap, filehashes>>
      /\ suspect' = suspect \cup ({Target} \X Files) /\ drift' = drift \cup {Target}
      /\ emitted \subseteq Reach(Main) /\ Checks(Main)
  BY DEF KillInitialize, Stop
<1>2. /\ \A t \in Targets : t # Target => objects'[t] = objects[t] /\ globalsSet'[t] = globalsSet[t]
      /\ \A f \in Files : objects'[Target][f] = IF f \in emitted THEN Object(f) ELSE Null
  BY <1>t DEF KillInitialize
<1>3. Built'
  BY <1>1
  DEF Built, AsSources, Settled, Complete, Reshaped, KnownClosed, Rechecked, Kept,
      KnownGlobals, LinkedGlobals, Building, Flawless
<1>4. MainThere'
  BY <1>1 DEF Linkable, Saved, MainThere
<1>5. Texted'
  <2> SUFFICES ASSUME NEW t \in Targets, objects'[t] # Null, NEW f \in Files, objects'[t][f] # Null
               PROVE  objects'[t][f].text \in Texts
    BY DEF Texted
  <2>1. CASE t = Target
    <3>1. f \in emitted /\ objects'[t][f] = Object(f)
      BY <1>2, <2>1
    <3> QED
      BY <1>1, <3>1, ObjectText DEF Checks
  <2>2. CASE t # Target
    BY <1>2, <2>2 DEF Linkable, Saved, Texted
  <2> QED
    BY <2>1, <2>2
<1>6. SavedClosed'
  <2> SUFFICES ASSUME Baseline, NEW t \in Targets, objects'[t] # Null, NEW f \in filemap.tracked,
                      <<t, f>> \notin suspect'
               PROVE  ClosedIn(t, f, filehashes[f], filemap.tracked, filemap.rechecks)'
    BY <1>1 DEF SavedClosed, Baseline
  <2>1. f \in Files
    BY DEF Shape, TypeOK, FileMaps, Baseline
  <2>2. t # Target /\ objects[t] # Null /\ <<t, f>> \notin suspect
    BY <1>1, <1>2, <2>1
  <2> QED
    BY <1>1, <2>2 DEF Linkable, Saved, SavedClosed, ClosedIn
<1>7. SavedGlobals'
  BY <1>1, <1>2 DEF Linkable, Saved, SavedGlobals
<1> QED
  BY <1>3, <1>4, <1>5, <1>6, <1>7 DEF Linkable, Saved

\* A first build for a target links all it loads; where an older map knows otherwise the
\* file is in doubt.
LEMMA InitializeLinkable == ASSUME Shape, Explained, Linkable, Initialize PROVE Linkable'
<1>f. Initializing /\ (InitializingAll \/ InitializingOne)
  BY InitializeFields
<1>r. /\ Main \in Reach(Main) /\ Reach(Main) \subseteq Files
      /\ \A f \in Reach(Main) : source[f] # Gone /\ Imports[source[f]] \subseteq Reach(Main)
  <2>1. Main \in Files
    BY BuildAssumption DEF BuildAssumption
  <2>2. Checks(Main)
    BY <1>f DEF Initializing
  <2>3. \A f \in Reach(Main) : source[f] # Gone
    BY <2>2 DEF Checks
  <2> QED
    BY <2>1, <2>3, ReachCloses, ReachIsFiles DEF ImportsOf
<1>n. NoWork.compiled = {} /\ ~NoWork.errors /\ ~NoWork.reshaped
  BY DEF NoWork
<1>q. Queued' = {} /\ Awaited' = {} /\ Queued = {}
  <2>1. NoWork.wave \cup NoWork.next = {}
    BY DEF NoWork
  <2>2. Queue' = {} /\ Queue = {}
    BY <1>f, <2>1 DEF Initializing, Queue
  <2> QED
    BY <2>2 DEF Queued, Awaited
<1>s. suspect \subseteq suspect'
  BY <1>f DEF InitializingAll, InitializingOne
<1>o. \A t \in Targets : t # Target => t \in Others
  BY DEF Others
<1>1. MainThere'
  BY <1>f, <1>r DEF Linkable, Saved, MainThere, Initializing, InitializingAll, InitializingOne
<1>2. Texted'
  <2> SUFFICES ASSUME NEW t \in Targets, objects'[t] # Null, NEW f \in Files, objects'[t][f] # Null
               PROVE  objects'[t][f].text \in Texts
    BY DEF Texted
  <2>1. CASE t = Target
    BY <1>f, <1>r, <2>1, ObjectText DEF Initializing
  <2>2. CASE t # Target
    BY <1>f, <1>o, <2>2 DEF Linkable, Saved, Texted, Initializing
  <2> QED
    BY <2>1, <2>2
<1>3. AsSources' /\ Complete' /\ Reshaped'
  BY <1>f, <1>n, <1>q DEF Initializing, AsSources, Complete, Reshaped
<1>4. Settled'
  <2> SUFFICES ASSUME NEW f \in info'.tracked
               PROVE  <<Target, f>> \in suspect' \/ info'.hashes[f] = source[f]
    BY <1>f DEF Settled, Initializing
  <2>1. CASE InitializingAll
    BY <2>1 DEF InitializingAll
  <2>2. CASE InitializingOne
    <3>1. f \in Files /\ f \in info.tracked
      BY <2>2 DEF InitializingOne, Infos
    <3> QED
      BY <2>2, <3>1 DEF InitializingOne, Unlike
  <2> QED
    BY <1>f, <2>1, <2>2
<1>5. KnownClosed'
  <2> SUFFICES ASSUME NEW t \in Targets, objects'[t] # Null, NEW f \in info'.tracked,
                      <<t, f>> \notin suspect'
               PROVE  ClosedIn(t, f, info.hashes[f], info.tracked, info.rechecks)'
    BY DEF KnownClosed
  <2>1. CASE InitializingAll
    <3>1. f \in Reach(Main) /\ info'.tracked = Reach(Main) /\ info'.hashes[f] = source[f]
      BY <2>1 DEF InitializingAll
    <3> QED
      BY <1>r, <3>1 DEF ClosedIn
  <2>2. CASE InitializingOne /\ t # Target
    <3>1. objects[t] # Null /\ info' = info /\ f \in info.tracked /\ <<t, f>> \notin suspect
      BY <1>f, <1>o, <1>s, <2>2 DEF Initializing, InitializingOne
    <3>2. Flawless /\ work.compiled = {}
      BY <1>f, <1>n, <2>2 DEF Flawless, Initializing, InitializingOne
    <3>3. ClosedIn(t, f, info.hashes[f], info.tracked, info.rechecks)
      BY <1>q, <3>1, <3>2 DEF Linkable, Built, KnownClosed
    <3> QED
      BY <1>s, <3>1, <3>3 DEF ClosedIn
  <2>3. CASE InitializingOne /\ t = Target
    <3>1. info' = info /\ f \in Files /\ f \in info.tracked
      BY <2>3 DEF InitializingOne, Infos
    <3>2. ~Unlike(f)
      BY <2>3, <3>1 DEF InitializingOne
    <3>3. f \in Reach(Main) /\ info.hashes[f] = source[f]
      BY <3>1, <3>2 DEF Unlike
    <3>4. \A g \in Reach(Main) : g \notin info.tracked => <<t, g>> \in suspect'
      BY <1>r, <2>3 DEF InitializingOne, Unlike
    <3> QED
      BY <1>r, <3>1, <3>3, <3>4 DEF ClosedIn
  <2> QED
    BY <1>f, <2>1, <2>2, <2>3
<1>6. SavedClosed'
  <2> SUFFICES ASSUME Baseline, NEW t \in Targets, objects'[t] # Null, NEW f \in filemap.tracked,
                      <<t, f>> \notin suspect'
               PROVE  ClosedIn(t, f, filehashes[f], filemap.tracked, filemap.rechecks)'
    BY <1>f DEF SavedClosed, Baseline, Initializing
  <2>1. InitializingOne
    BY <1>f DEF InitializingAll, Baseline
  <2>2. CASE t # Target
    <3>1. objects[t] # Null /\ <<t, f>> \notin suspect
      BY <1>f, <1>o, <1>s, <2>2 DEF Initializing
    <3>2. ClosedIn(t, f, filehashes[f], filemap.tracked, filemap.rechecks)
      BY <3>1 DEF Linkable, Saved, SavedClosed
    <3> QED
      BY <1>f, <1>s, <3>2 DEF ClosedIn, Initializing
  <2>3. CASE t = Target
    <3>1. f \in Files
      BY DEF Shape, TypeOK, FileMaps, Baseline
    <3>2. ~Unlike(f)
      BY <2>1, <2>3, <3>1 DEF InitializingOne
    <3>3. f \in Reach(Main) /\ f \in info.tracked /\ info.hashes[f] = source[f]
      BY <3>2 DEF Unlike
    <3>4. \A g \in Files : Doubt(g) => <<t, g>> \in suspect
      BY <1>f, <1>n DEF Doubt, Initializing
    <3>5. \A g \in info.tracked : Doubt(g) \/ (g \in filemap.tracked /\ info.hashes[g] = filehashes[g])
      BY <1>f, <1>n, <2>1 DEF Explained, Digest, Digested, InitializingOne, Initializing, Baseline
    <3>6. filehashes[f] = source[f]
      BY <1>s, <2>3, <3>1, <3>3, <3>4, <3>5
    <3>7. \A g \in Reach(Main) : g \in filemap.tracked \/ <<t, g>> \in suspect'
      <4> SUFFICES ASSUME NEW g \in Reach(Main) PROVE g \in filemap.tracked \/ <<t, g>> \in suspect'
        OBVIOUS
      <4>1. CASE g \in info.tracked
        BY <1>r, <1>s, <3>4, <3>5, <4>1
      <4>2. CASE g \notin info.tracked
        BY <1>r, <2>1, <2>3, <4>2 DEF InitializingOne, Unlike
      <4> QED
        BY <4>1, <4>2
    <3> QED
      BY <1>f, <1>r, <3>3, <3>6, <3>7 DEF ClosedIn, Initializing
  <2> QED
    BY <2>2, <2>3
<1>7. Rechecked'
  <2>1. CASE InitializingAll
    BY <1>f, <2>1 DEF Rechecked, Initializing, InitializingAll
  <2>2. CASE InitializingOne
    <3>1. Flawless /\ Flawless' /\ filehashes # Null /\ UNCHANGED <<info, filemap>>
      BY <1>f, <1>n, <2>2 DEF Flawless, Initializing, InitializingOne, Baseline
    <3> QED
      BY <1>s, <3>1 DEF Rechecked, Linkable, Built
  <2> QED
    BY <1>f, <2>1, <2>2
<1>8. Kept' /\ KnownGlobals'
  <2>1. CASE InitializingAll
    BY <1>f, <2>1 DEF Kept, KnownGlobals, Initializing, InitializingAll
  <2>2. CASE InitializingOne
    <3>1. Flawless /\ UNCHANGED <<info, filemap>> /\ phase = "begin" /\ ~work.reshaped
          /\ drift \subseteq drift'
      BY <1>f, <1>n, <2>2 DEF Flawless, Initializing, InitializingOne
    <3> QED
      BY <3>1 DEF Kept, KnownGlobals, Linkable, Built
  <2> QED
    BY <1>f, <2>1, <2>2
<1>9. SavedGlobals'
  <2> SUFFICES ASSUME filemap # Null, NEW t \in Targets, objects'[t] # Null, t \notin drift'
               PROVE  globalsSet'[t] = filemap.inits
    BY <1>f DEF SavedGlobals, Initializing
  <2>1. InitializingOne
    BY <1>f DEF InitializingAll
  <2>2. drift \subseteq drift'
    BY <2>1 DEF InitializingOne
  <2>3. CASE t # Target
    BY <1>f, <1>o, <2>2, <2>3 DEF Initializing, Linkable, Saved, SavedGlobals
  <2>4. CASE t = Target
    <3>1. info.inits = Reach(Main) /\ t \notin drift
      BY <2>1, <2>2, <2>4 DEF InitializingOne
    <3>2. Flawless /\ phase = "begin" /\ ~work.reshaped
      BY <1>f, <1>n, <2>1 DEF Flawless, Initializing, InitializingOne
    <3>3. info.inits = filemap.inits
      BY <3>1, <3>2 DEF Linkable, Built, KnownGlobals
    <3> QED
      BY <1>f, <2>4, <3>1, <3>3 DEF Initializing
  <2> QED
    BY <2>3, <2>4
<1>10. LinkedGlobals'
  BY <1>f, <1>n DEF LinkedGlobals, Initializing, InitializingAll, InitializingOne
<1> QED
  BY <1>1, <1>2, <1>3, <1>4, <1>5, <1>6, <1>7, <1>8, <1>9, <1>10 DEF Linkable, Saved, Built

\* The importers on record of what is removed are queued, so what is removed opens nothing.
LEMMA DetectLinkable == ASSUME Shape, Explained, Linkable, Detect PROVE Linkable'
<1>f. Detecting /\ DetectedMap
  BY DetectFields
<1>n. NoWork.compiled = {} /\ ~NoWork.errors /\ ~NoWork.reshaped /\ NoWork.wave \cup NoWork.next = {}
  BY DEF NoWork
<1>q. Queued = {} /\ Awaited' = {} /\ work.compiled = {} /\ ~work.reshaped
  BY <1>f, <1>n DEF Detecting, Queued, Queue, Awaited
<1>w. Flawless /\ Baseline
  BY <1>f, <1>n DEF Detecting, Flawless
<1>r. Removed = {f \in info.tracked : source[f] = Gone} /\ Removed \subseteq Files
  BY <1>f DEF Removed, Detecting, Infos
<1>1. MainThere'
  BY <1>f, <1>r DEF Linkable, Saved, MainThere, Detecting, DetectedMap
<1>2. Texted' /\ SavedGlobals'
  BY <1>f DEF Linkable, Saved, Texted, SavedGlobals, Detecting
<1>3. SavedClosed'
  BY <1>f DEF Linkable, Saved, SavedClosed, ClosedIn, Detecting, Baseline
<1>4. AsSources' /\ Complete' /\ Reshaped'
  BY <1>f, <1>q DEF AsSources, Complete, Reshaped, Detecting
<1>5. Settled'
  <2> SUFFICES ASSUME NEW f \in info'.tracked PROVE f \in Queued' \/ info'.hashes[f] \in {Null, source[f]}
    BY <1>f DEF Settled, Detecting
  <2>1. f \in info.tracked \ Removed /\ f \in Files
    BY <1>f DEF Detecting, DetectedMap, Infos
  <2>2. info'.hashes[f] = info.hashes[f]
    BY <1>f, <2>1 DEF DetectedMap
  <2> QED
    BY <1>f, <2>1, <2>2 DEF Detecting, Changed
<1>6. KnownClosed'
  <2> SUFFICES ASSUME NEW t \in Targets, objects[t] # Null, NEW f \in info'.tracked,
                      <<t, f>> \notin suspect, f \notin Queued'
               PROVE  ClosedIn(t, f, info.hashes[f], info.tracked, info.rechecks)'
    BY <1>f DEF KnownClosed, Detecting
  <2>1. f \in info.tracked \ Removed /\ f \in Files
    BY <1>f DEF Detecting, DetectedMap, Infos
  <2>2. ClosedIn(t, f, info.hashes[f], info.tracked, info.rechecks)
    BY <1>q, <1>w, <2>1 DEF Linkable, Built, KnownClosed
  <2>3. \A g \in Removed : f \notin info.rechecks[g]
    BY <1>f DEF Detecting, Orphans
  <2> QED
    BY <1>f, <2>1, <2>2, <2>3 DEF ClosedIn, Detecting, DetectedMap
<1>7. Rechecked'
  <2> SUFFICES ASSUME NEW f \in Files, NEW g \in Files, f \in info.rechecks[g]
               PROVE  \/ f \in filemap.rechecks[g]
                      \/ g \in info'.tracked \cup filemap.tracked
                      \/ \A t \in Targets : <<t, g>> \in suspect
    BY <1>f DEF Rechecked, Detecting, DetectedMap
  <2>1. \/ f \in filemap.rechecks[g]
        \/ g \in info.tracked \cup filemap.tracked
        \/ \A t \in Targets : <<t, g>> \in suspect
    BY <1>w DEF Linkable, Built, Rechecked, Baseline
  <2>2. CASE g \in info.tracked
    <3>1. Doubt(g) \/ g \in filemap.tracked
      BY <1>w, <2>2 DEF Explained, Digest, Digested, Flawless, Baseline
    <3> QED
      BY <1>q, <3>1 DEF Doubt
  <2> QED
    BY <2>1, <2>2
<1>8. Kept'
  <2>1. ~info'.newMap => ~info.newMap /\ info'.tracked \subseteq info.tracked
    BY <1>f DEF DetectedMap
  <2> QED
    BY <1>f, <1>w, <2>1 DEF Linkable, Built, Kept, Detecting, DetectedMap
<1>9. KnownGlobals'
  <2>1. CASE Removed = {}
    <3>1. info'.inits = info.inits
      BY <1>f, <2>1 DEF DetectedMap
    <3> QED
      BY <1>f, <1>q, <1>w, <3>1 DEF Linkable, Built, KnownGlobals, Detecting
  <2>2. CASE Removed # {}
    BY <1>f, <2>2 DEF Detecting, KnownGlobals
  <2> QED
    BY <2>1, <2>2
<1>10. LinkedGlobals'
  BY <1>f DEF Detecting, LinkedGlobals
<1> QED
  BY <1>1, <1>2, <1>3, <1>4, <1>5, <1>6, <1>7, <1>8, <1>9, <1>10 DEF Linkable, Saved, Built

\* A commit changes the digest of a compiled file.
LEMMA CommitLinkable == ASSUME Shape, Explained, Linkable, Commit PROVE Linkable'
<1>f. Committing /\ CommittedMap
  BY CommitFields
<1>q. Queued' = Queued /\ Awaited' = Awaited
  BY <1>f DEF Committing, Queued, Awaited
<1>w. (Flawless' <=> Flawless) /\ Building /\ Building' /\ phase \notin {"link", "writeMap", "writeHashes"}
  BY <1>f DEF Committing, Flawless, Building
<1>i. info.tracked \subseteq Files
  BY <1>f DEF Committing, Infos
<1>1. MainThere' /\ Texted' /\ SavedGlobals'
  BY <1>f DEF Linkable, Saved, MainThere, Texted, SavedGlobals, Committing, CommittedMap
<1>2. SavedClosed'
  BY <1>f DEF Linkable, Saved, SavedClosed, ClosedIn, Committing, Baseline
<1>3. AsSources'
  BY <1>f, <1>w DEF Linkable, Built, AsSources, Committing, Object
<1>4. Settled'
  BY <1>f, <1>i, <1>q, <1>w DEF Linkable, Built, Settled, Committing, CommittedMap
<1>5. Complete' /\ Reshaped'
  BY <1>f, <1>q, <1>w DEF Linkable, Built, Complete, Reshaped, Committing, CommittedMap
<1>6. KnownClosed'
  <2> SUFFICES ASSUME Flawless, NEW t \in Targets, objects[t] # Null, NEW f \in info.tracked,
                      <<t, f>> \notin suspect, f \notin Queued, f \notin work.compiled
               PROVE  ClosedIn(t, f, info.hashes[f], info.tracked, info.rechecks)'
    BY <1>f, <1>q, <1>w DEF KnownClosed, Committing, CommittedMap
  <2>1. ClosedIn(t, f, info.hashes[f], info.tracked, info.rechecks)
    BY DEF Linkable, Built, KnownClosed
  <2>2. info'.hashes[f] = info.hashes[f]
    BY <1>f, <1>i DEF Committing, CommittedMap
  <2> QED
    BY <1>f, <2>1, <2>2 DEF ClosedIn, Committing, CommittedMap
<1>7. Rechecked' /\ Kept' /\ KnownGlobals'
  BY <1>f, <1>w DEF Linkable, Built, Rechecked, Kept, KnownGlobals, Committing, CommittedMap
<1>8. LinkedGlobals'
  BY <1>f DEF LinkedGlobals, Committing
<1> QED
  BY <1>1, <1>2, <1>3, <1>4, <1>5, <1>6, <1>7, <1>8 DEF Linkable, Saved, Built

\* The new __globals_set.o is that of the map in memory.
LEMMA LinkLinkable == ASSUME Shape, Explained, Linkable, Aggregate \/ Link, ~Stop PROVE Linkable'
<1>f. /\ Linking
      /\ Aggregated \/ (phase = "link" /\ phase' = "writeMap" /\ UNCHANGED <<globalsSet, drift>>)
  BY LinkFields
<1>q. Queued' = {} /\ Awaited' = {} /\ Queued = {} /\ Awaited = {}
  BY <1>f DEF Linking, Queued, Awaited
<1>w. Flawless' /\ Flawless /\ Building /\ Building' /\ filehashes # Null /\ filemap # Null
  BY <1>f DEF Linking, Aggregated, Flawless, Building, Baseline
<1>d. drift \subseteq drift' /\ \A t \in Targets : t \in drift' \/ globalsSet'[t] = globalsSet[t]
  BY <1>f DEF Linking, Aggregated, Others
<1>1. MainThere' /\ Texted' /\ SavedGlobals'
  BY <1>f, <1>d DEF Linkable, Saved, MainThere, Texted, SavedGlobals, Linking
<1>2. SavedClosed'
  BY <1>f DEF Linkable, Saved, SavedClosed, ClosedIn, Linking, Baseline
<1>3. AsSources'
  BY <1>f, <1>w DEF Linkable, Built, AsSources, Linking, Object
<1>4. Settled'
  BY <1>f, <1>q, <1>w DEF Linkable, Built, Settled, Linking
<1>5. Complete' /\ Reshaped'
  BY <1>f, <1>q, <1>w DEF Linkable, Built, Complete, Reshaped, Linking
<1>6. KnownClosed'
  BY <1>f, <1>q, <1>w DEF Linkable, Built, KnownClosed, ClosedIn, Linking
<1>7. Rechecked' /\ Kept'
  BY <1>f, <1>w DEF Linkable, Built, Rechecked, Kept, Linking
<1>8. KnownGlobals'
  BY <1>f, <1>w, <1>d DEF Linkable, Built, KnownGlobals, Linking
<1>9. LinkedGlobals'
  <2>1. CASE Aggregated /\ work.reshaped
    BY <1>f, <2>1 DEF Aggregated, Linking, LinkedGlobals
  <2>2. CASE Aggregated /\ ~work.reshaped
    <3> SUFFICES ASSUME Target \notin drift PROVE globalsSet[Target] = info.inits
      BY <1>f, <2>2 DEF LinkedGlobals, Aggregated, Linking
    <3>1. globalsSet[Target] = filemap.inits
      BY <1>f, <1>w DEF Linkable, Saved, SavedGlobals, Linking
    <3>2. info.inits = filemap.inits
      BY <1>f, <1>w, <2>2 DEF Linkable, Built, KnownGlobals, Aggregated, Linking
    <3> QED
      BY <3>1, <3>2
  <2>3. CASE ~Aggregated
    BY <1>f, <2>3 DEF Linkable, Built, LinkedGlobals, Linking
  <2> QED
    BY <2>1, <2>2, <2>3
<1> QED
  BY <1>1, <1>2, <1>3, <1>4, <1>5, <1>6, <1>7, <1>8, <1>9 DEF Linkable, Saved, Built

\* A link that fails leaves all that was compiled in doubt for every target, and every
\* __globals_set.o adrift if the set of files has changed.
LEMMA FailLinkable == ASSUME Shape, Explained, Linkable, LinkFails PROVE Linkable'
<1>f. Failing
  BY FailFields
<1>1. CASE Stop
  BY <1>1, EndFields, EndLinkable DEF Linkable
<1>2. CASE ~Stop
  <2>f. phase' = "begin" /\ info' = info /\ work' = NoWork
    BY <1>f, <1>2 DEF Failing
  <2>s. suspect \subseteq suspect' /\ drift \subseteq drift'
    BY <1>f DEF Failing
  <2>w. Flawless /\ Building /\ ~Building' /\ phase' \notin {"link", "writeMap", "writeHashes"}
        /\ filehashes # Null /\ filemap # Null
    BY <1>f, <2>f DEF Failing, Flawless, Building, Baseline
  <2>1. MainThere' /\ Texted' /\ SavedGlobals'
    BY <1>f, <2>f, <2>s DEF Linkable, Saved, MainThere, Texted, SavedGlobals, Failing
  <2>2. SavedClosed'
    BY <1>f, <2>s DEF Linkable, Saved, SavedClosed, ClosedIn, Failing, Baseline
  <2>3. AsSources' /\ Settled' /\ Complete' /\ Reshaped' /\ LinkedGlobals'
    BY <2>w DEF AsSources, Settled, Complete, Reshaped, LinkedGlobals
  <2>4. KnownClosed'
    <3> SUFFICES ASSUME NEW t \in Targets, objects[t] # Null, NEW f \in info.tracked,
                        <<t, f>> \notin suspect'
                 PROVE  ClosedIn(t, f, info.hashes[f], info.tracked, info.rechecks)'
      BY <1>f, <2>f DEF KnownClosed, Failing
    <3>1. f \notin work.compiled
      <4>1. f \in work.compiled => <<Target, f>> \in suspect
        BY <2>w DEF Explained, Digest, Emitted
      <4>2. t # Target => t \in Others
        BY DEF Others
      <4> QED
        BY <1>f, <2>s, <4>1, <4>2 DEF Failing
    <3>2. f \notin Queued
      BY <1>f DEF Failing, Queued
    <3>3. ClosedIn(t, f, info.hashes[f], info.tracked, info.rechecks)
      BY <2>s, <2>w, <3>1, <3>2 DEF Linkable, Built, KnownClosed
    <3> QED
      BY <2>f, <2>s, <3>3 DEF ClosedIn
  <2>5. Rechecked' /\ Kept'
    BY <1>f, <2>f, <2>s, <2>w DEF Linkable, Built, Rechecked, Kept, Failing
  <2>6. KnownGlobals'
    <3>1. work.reshaped => Targets \subseteq drift'
      BY <1>f DEF Linkable, Built, LinkedGlobals, Failing, Others
    <3> QED
      BY <1>f, <2>f, <2>s, <2>w, <3>1 DEF Linkable, Built, KnownGlobals, Failing
  <2> QED
    BY <2>1, <2>2, <2>3, <2>4, <2>5, <2>6 DEF Linkable, Saved, Built
<1> QED
  BY <1>1, <1>2

\* What the map saves anew was closed in memory; where the digests are older than the map
\* the file is in doubt for the other targets.
LEMMA MapLinkable == ASSUME Shape, Explained, Linkable, WriteMap PROVE Linkable'
<1>f. /\ MapWriting
      /\ \/ info.newMap /\ MapWritten
         \/ /\ ~info.newMap /\ UNCHANGED <<filemap, suspect, drift>>
            /\ filemap # Null /\ filehashes # Null
  BY MapFields
<1>q. Queued = {} /\ Awaited = {} /\ Queued' = {} /\ Awaited' = {}
  BY <1>f DEF MapWriting, Queued, Awaited
<1>w. Flawless /\ Flawless' /\ Building /\ Building' /\ Saving
  BY <1>f DEF MapWriting, Flawless, Building, Saving
<1>s. suspect \subseteq suspect' /\ drift \subseteq drift'
      /\ (Target \in drift' => Target \in drift)
  BY <1>f DEF MapWritten, Others
<1>o. \A t \in Targets : t # Target => t \in Others
  BY DEF Others
<1>1. MainThere' /\ Texted'
  BY <1>f DEF Linkable, Saved, MainThere, Texted, MapWriting
<1>2. SavedGlobals'
  <2> SUFFICES ASSUME NEW t \in Targets, objects[t] # Null, t \notin drift'
               PROVE  globalsSet[t] = info.inits
    BY <1>f DEF SavedGlobals, MapWriting
  <2>1. CASE t = Target
    BY <1>f, <1>s, <2>1 DEF Linkable, Built, LinkedGlobals, MapWriting
  <2>2. CASE t # Target /\ filemap # Null
    <3>1. filemap.inits = info.inits
      BY <1>f, <1>o, <2>2 DEF MapWritten, MapWriting
    <3> QED
      BY <1>s, <2>2, <3>1 DEF Linkable, Saved, SavedGlobals
  <2>3. CASE t # Target /\ filemap = Null
    BY <1>f, <1>o, <1>w, <2>3 DEF Explained, Digest, FirstSave, MapWriting
  <2> QED
    BY <2>1, <2>2, <2>3
<1>3. SavedClosed'
  <2>1. CASE ~info.newMap
    <3>1. UNCHANGED <<filemap, filehashes, objects, suspect>>
      BY <1>f, <2>1 DEF MapWriting
    <3> QED
      BY <3>1 DEF Linkable, Saved, SavedClosed, ClosedIn, Baseline
  <2>2. CASE info.newMap
    <3> SUFFICES ASSUME filehashes # Null, NEW t \in Targets, objects[t] # Null,
                        NEW f \in info.tracked, <<t, f>> \notin suspect', filehashes[f] \in Texts,
                        NEW g \in Imports[filehashes[f]],
                        g \notin info.tracked, f \in info.rechecks[g], <<t, g>> \notin suspect'
                 PROVE  FALSE
      BY <1>f, <2>2 DEF SavedClosed, ClosedIn, Baseline, MapWriting, MapWritten
    <3>1. filemap # Null /\ f \in Files /\ g \in Files /\ Baseline
      BY <1>f, BuildAssumption DEF MapWriting, BuildAssumption, Infos, Baseline
    <3>2. \A h \in Files : (h \in info.tracked) # (h \in filemap.tracked) /\ t # Target => <<t, h>> \in suspect'
      BY <1>f, <1>o, <2>2, <3>1 DEF MapWritten
    <3>3. Doubt(f) \/ (f \in filemap.tracked /\ info.hashes[f] = filehashes[f])
      BY <1>w DEF Explained, Digest, Digested, Flawless
    <3>4. CASE f \notin work.compiled
      <4>1. f \in filemap.tracked /\ info.hashes[f] = filehashes[f]
        BY <1>s, <3>3, <3>4 DEF Doubt
      <4>2. ClosedIn(t, f, info.hashes[f], info.tracked, info.rechecks)
        BY <1>q, <1>s, <1>w, <3>4 DEF Linkable, Built, KnownClosed
      <4> QED
        BY <1>s, <4>1, <4>2 DEF ClosedIn
    <3>5. CASE f \in work.compiled
      <4>1. <<Target, f>> \in suspect
        BY <1>w, <3>5 DEF Explained, Digest, Emitted
      <4>2. t # Target
        BY <1>s, <4>1
      <4>3. f \in filemap.tracked /\ g \notin filemap.tracked
        BY <3>1, <3>2, <4>2
      <4>4. ClosedIn(t, f, filehashes[f], filemap.tracked, filemap.rechecks)
        BY <1>s, <3>1, <4>3 DEF Linkable, Saved, SavedClosed
      <4>5. f \notin filemap.rechecks[g]
        BY <1>s, <4>3, <4>4 DEF ClosedIn
      <4> QED
        BY <1>s, <1>w, <3>1, <4>3, <4>5 DEF Linkable, Built, Rechecked
    <3> QED
      BY <3>4, <3>5
  <2> QED
    BY <2>1, <2>2
<1>4. AsSources'
  BY <1>f, <1>w DEF Linkable, Built, AsSources, MapWriting, Object
<1>5. Settled'
  BY <1>f, <1>q, <1>s, <1>w DEF Linkable, Built, Settled, MapWriting
<1>6. Complete' /\ Reshaped'
  BY <1>f, <1>q, <1>w DEF Linkable, Built, Complete, Reshaped, MapWriting
<1>7. KnownClosed'
  BY <1>f, <1>q, <1>s, <1>w DEF Linkable, Built, KnownClosed, ClosedIn, MapWriting
<1>8. Rechecked'
  <2>1. CASE ~info.newMap
    BY <1>f, <1>w, <2>1 DEF Linkable, Built, Rechecked, MapWriting
  <2>2. CASE info.newMap
    BY <1>f, <2>2 DEF Rechecked, MapWriting, MapWritten
  <2> QED
    BY <2>1, <2>2
<1>9. Kept'
  <2>1. CASE ~info.newMap
    BY <1>f, <1>w, <2>1 DEF Linkable, Built, Kept, MapWriting
  <2>2. CASE info.newMap
    BY <1>f, <2>2 DEF Kept, MapWriting, MapWritten
  <2> QED
    BY <2>1, <2>2
<1>10. KnownGlobals' /\ LinkedGlobals'
  BY <1>f, <1>s DEF Linkable, Built, KnownGlobals, LinkedGlobals, MapWriting
<1> QED
  BY <1>1, <1>2, <1>3, <1>4, <1>5, <1>6, <1>7, <1>8, <1>9, <1>10 DEF Linkable, Saved, Built

\* The digests saved are closed: what was compiled found all it imports.
LEMMA HashLinkable == ASSUME Shape, Explained, Linkable, WriteHashes PROVE Linkable'
<1>f. HashWriting /\ (Stop \/ HashWritten)
  BY HashFields
<1>q. Queued = {} /\ Awaited = {}
  BY <1>f DEF HashWriting, Queued, Awaited
<1>w. Flawless /\ Building /\ ~info.newMap
  BY <1>f DEF HashWriting, Flawless, Building
<1>o. \A t \in Targets : t # Target => t \in Others
  BY DEF Others
<1>i. info.tracked \subseteq Files
  BY <1>f DEF HashWriting, Infos
\* doubt that is dropped is of a tracked file
<1>s. \A t \in Targets, g \in Files : <<t, g>> \in suspect /\ <<t, g>> \notin suspect' =>
         t = Target /\ g \in info.tracked /\ g \in work.compiled \ work.moved
  BY <1>f DEF HashWriting
<1>c. ASSUME NEW t \in Targets, objects[t] # Null, NEW f \in info.tracked, <<t, f>> \notin suspect',
             info.hashes[f] \in Texts, NEW g \in Imports[info.hashes[f]],
             g \notin info.tracked, <<t, g>> \notin suspect', f \in info.rechecks[g]
      PROVE  FALSE
  <2>1. f \in Files /\ g \in Files
    BY <1>c, <1>i, BuildAssumption DEF BuildAssumption
  <2>2. <<t, g>> \notin suspect
    BY <1>c, <1>s, <2>1
  <2>3. CASE f \in work.compiled
    <3>1. t = Target
      BY <1>f, <1>c, <1>o, <2>3 DEF HashWriting
    <3>2. f \notin work.moved
      <4>1. <<Target, f>> \in suspect
        BY <1>w, <2>3 DEF Explained, Digest, Emitted
      <4> QED
        BY <1>c, <1>s, <2>1, <3>1, <4>1
    <3>3. objects[Target][f].text = info.hashes[f]
      <4>1. f # work.awaiting
        BY <1>f, <2>1, NullAssumption DEF HashWriting, NullAssumption
      <4> QED
        BY <1>f, <1>w, <2>3, <3>2, <4>1 DEF Explained, Digest, Emitted, HashWriting
    <3> QED
      BY <1>c, <1>f, <1>q, <1>w, <2>3, <3>3 DEF Linkable, Built, Complete, HashWriting
  <2>4. CASE f \notin work.compiled
    <3>1. <<t, f>> \notin suspect
      BY <1>c, <1>s, <2>1, <2>4
    <3> QED
      BY <1>c, <1>q, <1>w, <2>2, <2>4, <3>1 DEF Linkable, Built, KnownClosed, ClosedIn
  <2> QED
    BY <2>3, <2>4
<1>1. MainThere' /\ Texted'
  <2>1. Stop => info' = Null
    BY DEF Stop
  <2> QED
    BY <1>f, <2>1 DEF Linkable, Saved, MainThere, Texted, HashWriting, HashWritten
<1>2. SavedGlobals'
  <2> SUFFICES ASSUME NEW t \in Targets, objects[t] # Null, t \notin drift'
               PROVE  globalsSet[t] = filemap.inits
    BY <1>f DEF SavedGlobals, HashWriting
  <2>1. CASE t = Target
    BY <1>f, <2>1 DEF Linkable, Built, LinkedGlobals, HashWriting
  <2>2. CASE t # Target
    BY <1>f, <2>2 DEF Linkable, Saved, SavedGlobals, HashWriting
  <2> QED
    BY <2>1, <2>2
<1>3. SavedClosed'
  <2> SUFFICES ASSUME NEW t \in Targets, objects[t] # Null, NEW f \in info.tracked,
                      <<t, f>> \notin suspect', filehashes'[f] \in Texts,
                      NEW g \in Imports[filehashes'[f]],
                      g \notin info.tracked, f \in filemap.rechecks[g], <<t, g>> \notin suspect'
               PROVE  FALSE
    BY <1>f DEF SavedClosed, ClosedIn, Baseline, HashWriting
  <2>1. f \in Files /\ g \in Files
    BY <1>i, BuildAssumption DEF BuildAssumption
  <2>2. CASE info.newHashes
    <3>1. filehashes' = info.hashes
      BY <1>f, <2>2 DEF HashWriting
    <3>2. f \in info.rechecks[g]
      BY <1>w, <2>1 DEF Linkable, Built, Kept
    <3> QED
      BY <1>c, <3>1, <3>2
  <2>3. CASE ~info.newHashes
    <3>1. filehashes' = filehashes /\ Baseline /\ work.compiled = {}
      BY <1>f, <2>3 DEF HashWriting, Baseline
    <3>2. <<t, f>> \notin suspect /\ <<t, g>> \notin suspect
      BY <1>s, <2>1, <3>1
    <3>3. f \in filemap.tracked /\ g \notin filemap.tracked
      BY <1>f DEF HashWriting
    <3> QED
      BY <3>1, <3>2, <3>3 DEF Linkable, Saved, SavedClosed, ClosedIn
  <2> QED
    BY <2>2, <2>3
<1>4. Built'
  <2>1. CASE Stop
    BY <2>1
    DEF Stop, Built, AsSources, Settled, Complete, Reshaped, KnownClosed, Rechecked, Kept,
        KnownGlobals, LinkedGlobals, Building, Flawless
  <2>2. CASE HashWritten
    <3>n. NoWork.compiled = {} /\ ~NoWork.errors /\ ~NoWork.reshaped /\ NoWork.wave \cup NoWork.next = {}
      BY DEF NoWork
    <3>q. Queued' = {} /\ Awaited' = {}
      BY <2>2, <3>n DEF HashWritten, Queued, Awaited, Queue
    <3>t. phase' = "link" => Target' = Target /\ work = NoWork
      BY <2>2 DEF HashWritten, Target
    <3>b. Building' => phase' = "link"
      BY <2>2 DEF HashWritten, Building
    <3>1. AsSources' /\ Complete' /\ Reshaped'
      BY <2>2, <3>n, <3>q DEF HashWritten, AsSources, Complete, Reshaped
    <3>2. Settled'
      <4> SUFFICES ASSUME Building', steady, NEW f \in info.tracked
                   PROVE  <<Target, f>> \in suspect' \/ info.hashes[f] \in {Null, source[f]}
        BY <1>f, <2>2, <3>b, <3>t DEF Settled, HashWriting, HashWritten
      <4>1. <<Target, f>> \in suspect => <<Target, f>> \in suspect'
        BY <1>f, <1>i, <1>s, <3>b, <3>n, <3>t DEF HashWriting
      <4> QED
        BY <1>f, <1>q, <1>w, <4>1 DEF Linkable, Built, Settled, HashWriting
    <3>3. KnownClosed'
      <4> SUFFICES ASSUME NEW t \in Targets, objects[t] # Null, NEW f \in info.tracked,
                          <<t, f>> \notin suspect'
                   PROVE  ClosedIn(t, f, info.hashes[f], info.tracked, info.rechecks)'
        BY <1>f, <2>2 DEF KnownClosed, HashWriting, HashWritten
      <4> QED
        BY <1>c, <2>2 DEF ClosedIn, HashWritten
    <3>4. Rechecked'
      <4> SUFFICES ASSUME NEW f \in Files, NEW g \in Files, f \in info.rechecks[g]
                   PROVE  \/ f \in filemap.rechecks[g]
                          \/ g \in info.tracked \cup filemap.tracked
                          \/ \A t \in Targets : <<t, g>> \in suspect'
        BY <1>f, <2>2 DEF Rechecked, HashWriting, HashWritten
      <4>1. \/ f \in filemap.rechecks[g]
            \/ g \in info.tracked \cup filemap.tracked
            \/ \A t \in Targets : <<t, g>> \in suspect
        BY <1>f, <1>w DEF Linkable, Built, Rechecked, HashWriting
      <4> QED
        BY <1>s, <4>1
    <3>5. Kept'
      BY <1>f, <1>w, <2>2 DEF Linkable, Built, Kept, HashWriting, HashWritten
    <3>6. KnownGlobals'
      BY <1>f, <2>2 DEF KnownGlobals, HashWriting, HashWritten
    <3>7. LinkedGlobals'
      <4> SUFFICES ASSUME phase' = "link" PROVE LinkedGlobals'
        BY <2>2 DEF LinkedGlobals, HashWritten
      <4>1. ~work.reshaped /\ ~work'.reshaped /\ drift' = drift
        BY <1>f, <2>2, <3>n, <3>t DEF HashWriting, HashWritten
      <4> QED
        BY <1>f, <2>2, <3>t, <4>1 DEF Linkable, Built, LinkedGlobals, HashWriting, HashWritten
    <3> QED
      BY <3>1, <3>2, <3>3, <3>4, <3>5, <3>6, <3>7 DEF Built
  <2> QED
    BY <1>f, <2>1, <2>2
<1> QED
  BY <1>1, <1>2, <1>3, <1>4 DEF Linkable, Saved

\* A compilation without errors finds, or makes sure of, all that its file imports.
LEMMA CompileLinkable == ASSUME Shape, Explained, Linkable, NEW c \in Wave, Compile(c) PROVE Linkable'
<1>f. /\ info \in Infos /\ work \in Works /\ Compiling(c) /\ CompiledMap(c) /\ CompiledRecord(c)
      /\ CompiledQueue(c) /\ CompiledWork(c) /\ CompiledObject(c)
  BY CompileFields
<1>q. /\ c \in Queue
      /\ \A f \in Queued : f # c.file => f \in Queued'
      /\ \A f \in Awaited : f \in NowTracked(c) \cup Awaited'
      /\ Loads(c) \ NowTracked(c) \subseteq Awaited'
      /\ \A d \in Queue' : d \in Queue \/ d \in Found(c)
  BY QueueStep
<1>t. /\ c.file \in Files /\ Target \in Targets /\ Target' = Target /\ objects[Target] # Null
      /\ info # Null /\ Building /\ Building' /\ Baseline
      /\ info.tracked \subseteq NowTracked(c) /\ info'.tracked = NowTracked(c)
      /\ suspect \subseteq suspect' /\ info.tracked \subseteq Files
  <2>1. phase = "compile" /\ phase' \in {"compile", "commit"}
    BY <1>f DEF Compiling
  <2>2. info.tracked \subseteq Files
    BY <1>f DEF Infos
  <2> QED
    BY <1>f, <2>1, <2>2
    DEF Compiling, CompiledMap, NowTracked, Building, Shape, Running, Explained, Digest, Recorded
<1>n. \A t \in Targets : objects'[t] # Null => objects[t] # Null
  BY <1>f, <1>t DEF CompiledObject
<1>e. Flawless' => Flawless /\ Checks(c.file)
  BY <1>f, <1>t DEF CompiledWork, Compiling, Flawless
<1>m. /\ Added(c) => c.file \in NowTracked(c)
      /\ NowTracked(c) \subseteq info.tracked \cup {c.file}
  BY DEF Added, NowTracked
<1>1. MainThere'
  BY <1>f, <1>t DEF Linkable, Saved, MainThere, Compiling
<1>2. Texted'
  <2> SUFFICES ASSUME NEW t \in Targets, objects'[t] # Null, NEW f \in Files, objects'[t][f] # Null
               PROVE  objects'[t][f].text \in Texts
    BY DEF Texted
  <2>1. CASE t = Target /\ f = c.file /\ Checks(c.file)
    BY <1>f, <2>1, ObjectText DEF Compiling, CompiledObject
  <2>2. CASE ~(t = Target /\ f = c.file /\ Checks(c.file))
    <3>1. objects'[t][f] = objects[t][f]
      BY <1>f, <2>2 DEF CompiledObject
    <3> QED
      BY <1>n, <3>1 DEF Linkable, Saved, Texted
  <2> QED
    BY <2>1, <2>2
<1>3. SavedClosed' /\ SavedGlobals'
  BY <1>f, <1>n, <1>t
  DEF Linkable, Saved, SavedClosed, SavedGlobals, ClosedIn, Baseline, Compiling
<1>4. AsSources'
  <2> SUFFICES ASSUME steady, NEW f \in work'.compiled PROVE objects'[Target][f] = Object(f)
    BY <1>f, <1>t DEF AsSources, Compiling, Object
  <2>1. f \in Files /\ (f \in work.compiled \/ (f = c.file /\ Checks(c.file)))
    BY <1>f, <1>t DEF CompiledWork, Works
  <2> QED
    BY <1>f, <1>t, <2>1 DEF Linkable, Built, AsSources, CompiledObject
<1>5. Settled'
  <2> SUFFICES ASSUME steady, ~work'.errors, NEW f \in NowTracked(c)
               PROVE  f \in Queued' \/ <<Target, f>> \in suspect' \/ info'.hashes[f] \in {Null, source[f]}
    BY <1>f, <1>t DEF Settled, Compiling
  <2>1. Checks(c.file) /\ ~work.errors
    BY <1>f DEF CompiledWork
  <2>2. CASE f = c.file
    BY <1>f, <2>1, <2>2 DEF Compiling
  <2>3. CASE f # c.file
    <3>1. f \in info.tracked /\ f \in Files
      BY <1>m, <1>t, <2>3
    <3>2. info'.hashes[f] = info.hashes[f]
      BY <1>f, <2>3, <3>1 DEF CompiledRecord
    <3> QED
      BY <1>q, <1>t, <2>1, <2>3, <3>1, <3>2 DEF Linkable, Built, Settled
  <2> QED
    BY <2>2, <2>3
<1>6. Complete'
  <2> SUFFICES ASSUME ~work'.errors, NEW f \in work'.compiled
               PROVE  Imports[objects'[Target][f].text] \subseteq NowTracked(c) \cup Awaited'
    BY <1>t DEF Complete
  <2>1. Checks(c.file) /\ ~work.errors
    BY <1>f DEF CompiledWork
  <2>2. CASE f = c.file
    <3>1. objects'[Target][f].text = source[f] /\ source[f] # Gone
      BY <1>f, <1>t, <2>1, <2>2 DEF CompiledObject, Compiling, Object
    <3>2. ImportsOf(f) \subseteq Reach(f) /\ \A g \in Reach(f) : source[g] # Gone
      BY <1>t, <2>1, <2>2, ReachCloses DEF Checks
    <3> QED
      BY <1>q, <2>2, <3>1, <3>2 DEF Loads, ImportsOf
  <2>3. CASE f # c.file
    <3>1. f \in work.compiled /\ f \in Files
      BY <1>f, <2>3 DEF CompiledWork, Works
    <3>2. objects'[Target][f] = objects[Target][f]
      BY <1>f, <2>3, <3>1 DEF CompiledObject
    <3>3. Imports[objects[Target][f].text] \subseteq info.tracked \cup Awaited
      BY <1>t, <2>1, <3>1 DEF Linkable, Built, Complete
    <3> QED
      BY <1>q, <1>t, <3>2, <3>3
  <2> QED
    BY <2>2, <2>3
<1>7. c.new => work.reshaped
  BY <1>q, <1>t DEF Linkable, Built, Reshaped, Awaited
<1>8. Reshaped'
  <2> SUFFICES ASSUME NEW d \in Queue', d.new PROVE work'.reshaped
    BY DEF Reshaped, Awaited
  <2>1. CASE d \in Queue
    <3>1. d.file \in Awaited
      BY <2>1 DEF Awaited
    <3>2. work.reshaped
      BY <1>t, <3>1 DEF Linkable, Built, Reshaped
    <3> QED
      BY <1>f, <3>2 DEF CompiledQueue
  <2>2. CASE d \in Found(c)
    BY <1>f, <2>2 DEF CompiledQueue
  <2> QED
    BY <1>q, <2>1, <2>2
<1>r. ASSUME NEW f \in Files, NEW g \in Files, f \in info'.rechecks[g]
      PROVE  g \in NowTracked(c) \/ f \in info.rechecks[g]
  BY <1>f, <1>m, <1>r DEF CompiledRecord
<1>9. KnownClosed'
  <2> SUFFICES ASSUME Flawless', NEW t \in Targets, objects'[t] # Null, NEW f \in NowTracked(c),
                      <<t, f>> \notin suspect', f \notin Queued', f \notin work'.compiled
               PROVE  ClosedIn(t, f, info.hashes[f], info.tracked, info.rechecks)'
    BY <1>t DEF KnownClosed
  <2>1. f # c.file /\ f \in info.tracked /\ f \in Files /\ f \notin work.compiled /\ <<t, f>> \notin suspect
    BY <1>e, <1>f, <1>m, <1>t DEF CompiledWork
  <2>2. ClosedIn(t, f, info.hashes[f], info.tracked, info.rechecks)
    BY <1>e, <1>n, <1>q, <2>1 DEF Linkable, Built, KnownClosed
  <2>3. info'.hashes[f] = info.hashes[f]
    BY <1>f, <2>1 DEF CompiledRecord
  <2>4. \A text \in Texts : Imports[text] \subseteq Files
    BY BuildAssumption DEF BuildAssumption
  <2> QED
    BY <1>r, <1>t, <2>1, <2>2, <2>3, <2>4 DEF ClosedIn
<1>10. Rechecked'
  <2> SUFFICES ASSUME Flawless', NEW f \in Files, NEW g \in Files, f \in info'.rechecks[g]
               PROVE  \/ f \in filemap.rechecks[g]
                      \/ g \in NowTracked(c) \cup filemap.tracked
                      \/ \A t \in Targets : <<t, g>> \in suspect'
    BY <1>f, <1>t DEF Rechecked, Compiling
  <2> QED
    BY <1>e, <1>r, <1>t DEF Linkable, Built, Rechecked, Baseline
<1>11. Kept'
  <2> SUFFICES ASSUME Flawless', ~info'.newMap, NEW g \in Files
               PROVE  filemap.rechecks[g] \cap NowTracked(c) \subseteq info'.rechecks[g]
    BY <1>f, <1>t DEF Kept, Compiling
  <2>1. ~info.newMap /\ ~Added(c) /\ NowTracked(c) = info.tracked
    BY <1>f DEF CompiledMap, Added
  <2>2. info.rechecks[g] \subseteq info'.rechecks[g]
    BY <1>f, <2>1 DEF CompiledRecord
  <2> QED
    BY <1>e, <2>1, <2>2 DEF Linkable, Built, Kept
<1>12. KnownGlobals'
  <2>1. CASE c.new
    BY <1>7, <1>f, <2>1 DEF KnownGlobals, CompiledQueue
  <2>2. CASE ~c.new
    <3>1. info'.inits = info.inits
      BY <1>f, <2>2 DEF CompiledMap
    <3>2. filemap' = filemap /\ drift' = drift /\ phase = "compile" /\ (work.reshaped => work'.reshaped)
      BY <1>f DEF Compiling, CompiledQueue
    <3>3. KnownGlobals
      BY DEF Linkable, Built
    <3> QED
      BY <1>e, <3>1, <3>2, <3>3 DEF KnownGlobals
  <2> QED
    BY <2>1, <2>2
<1>13. LinkedGlobals'
  BY <1>f DEF LinkedGlobals, Compiling
<1> QED
  BY <1>1, <1>2, <1>3, <1>4, <1>5, <1>6, <1>8, <1>9, <1>10, <1>11, <1>12, <1>13
  DEF Linkable, Saved, Built

LEMMA RestLinkable == ASSUME Linkable, UNCHANGED vars PROVE Linkable'
<1>v. /\ UNCHANGED <<source, marker, filemap, filehashes, objects, globalsSet, phase, mode, todo,
                     info, work, steady, suspect, drift>>
  BY DEF vars, cache, history, doubts
<1>q. /\ Queued' = Queued /\ Awaited' = Awaited /\ (Building' <=> Building)
      /\ (Flawless' <=> Flawless) /\ (Baseline' <=> Baseline) /\ Target' = Target
  BY <1>v DEF Queued, Awaited, Queue, Building, Flawless, Baseline, Target
<1>1. Saved'
  BY <1>v, <1>q DEF Linkable, Saved, MainThere, Texted, SavedClosed, SavedGlobals, ClosedIn
<1>2. AsSources' /\ Settled' /\ Complete' /\ Reshaped'
  BY <1>v, <1>q DEF Linkable, Built, AsSources, Settled, Complete, Reshaped, Object
<1>3. KnownClosed' /\ Rechecked' /\ Kept' /\ KnownGlobals' /\ LinkedGlobals'
  BY <1>v, <1>q
  DEF Linkable, Built, KnownClosed, ClosedIn, Rechecked, Kept, KnownGlobals, LinkedGlobals
<1> QED
  BY <1>1, <1>2, <1>3 DEF Linkable, Built

\* Every step keeps what the link relies on.
LEMMA NextLinkable == Shape /\ Explained /\ Linkable /\ [Next]_vars => Linkable'
<1> SUFFICES ASSUME Shape, Explained, Linkable, [Next]_vars PROVE Linkable'
  OBVIOUS
<1>s. Saved
  BY DEF Linkable
<1>1. CASE \/ RejectAll \/ RejectChange \/ RecheckGone \/ CompileGone \/ Kill
           \/ (Aggregate \/ LinkFails) /\ Stop
  BY <1>1, <1>s, EndFields, EndLinkable
<1>2. CASE Identify \/ \E plan \in Plans, m \in Modes : Start(plan, m)
  BY <1>2, <1>s, BeginFields, BeginLinkable
<1>3. CASE \E f \in Files : \E text \in Written[f] \cup {Gone} : Edit(f, text)
  BY <1>3, EditFields, EditLinkable
<1>4. CASE \E emitted \in SUBSET Files : KillInitialize(emitted)
  BY <1>4, KillInitializeLinkable
<1>5. CASE \E c \in Wave : Compile(c)
  BY <1>5, CompileLinkable
<1>6. CASE Initialize \/ Detect \/ Commit
  BY <1>6, InitializeLinkable, DetectLinkable, CommitLinkable
<1>7. CASE (Aggregate \/ Link) /\ ~Stop
  BY <1>7, LinkLinkable
<1>8. CASE LinkFails \/ WriteMap \/ WriteHashes
  BY <1>8, FailLinkable, MapLinkable, HashLinkable
<1>9. CASE UNCHANGED vars
  BY <1>9, RestLinkable
<1>10. CASE Link /\ Stop
  BY <1>10 DEF Link, Stop
<1> QED
  BY <1>1, <1>2, <1>3, <1>4, <1>5, <1>6, <1>7, <1>8, <1>9, <1>10 DEF Next, Step

LEMMA InitLinkable == Init => Linkable
<1> SUFFICES ASSUME Init PROVE Linkable
  OBVIOUS
<1>1. source[Main] # Gone
  BY BuildAssumption DEF Init, BuildAssumption
<1>2. Saved
  BY <1>1 DEF Init, Saved, MainThere, Texted, SavedClosed, SavedGlobals, Baseline
<1>3. AsSources /\ Settled /\ Complete /\ Reshaped
  BY DEF Init, AsSources, Settled, Complete, Reshaped, Building
<1>4. KnownClosed /\ Rechecked /\ Kept /\ KnownGlobals /\ LinkedGlobals
  BY DEF Init, KnownClosed, Rechecked, Kept, KnownGlobals, LinkedGlobals, Flawless
<1> QED
  BY <1>2, <1>3, <1>4 DEF Linkable, Built

\* At a clean link there is no work left and no error, and a tracked file in no doubt has
\* the digest of its source, which is the saved one, that of its object.
LEMMA CleanObjects ==
  ASSUME Shape, OneIdentity, Explained, Linkable, Clean
  PROVE  /\ Queued = {} /\ Awaited = {} /\ ~work.errors /\ info # Null /\ Building
         /\ objects[Target] # Null /\ Target \in Targets /\ info.tracked \subseteq Files
         /\ \A f \in info.tracked : objects[Target][f] = Object(f)
<1>1. phase = "link" /\ steady
  BY DEF Clean
<1>2. /\ Queue = {} /\ ~work.errors /\ info # Null /\ Building
      /\ marker = mode /\ objects[Target] # Null /\ Target \in Targets
  BY <1>1, TargetIsOne DEF Shape, Running, Worked, Queue, Building
<1>3. Queued = {} /\ Awaited = {}
  BY <1>2 DEF Queued, Awaited
<1>4. info \in Infos
  BY <1>2 DEF Shape, TypeOK
<1>5. info.tracked \subseteq Files
  BY <1>4 DEF Infos
<1>6. Baseline
  BY <1>1 DEF Explained, Digest, Recorded
<1>7. ASSUME NEW f \in info.tracked PROVE objects[Target][f] = Object(f)
  <2>1. CASE f \in work.compiled
    BY <1>1, <1>2, <2>1 DEF Linkable, Built, AsSources
  <2>2. CASE f \notin work.compiled
    <3>1. <<Target, f>> \notin suspect
      BY <1>7, <2>2 DEF Clean
    <3>2. f \in filemap.tracked /\ info.hashes[f] = filehashes[f]
      BY <1>2, <1>6, <1>7, <2>2, <3>1 DEF Explained, Digest, Digested, Doubt, Baseline
    <3>3. objects[Target][f] # Null /\ objects[Target][f].text = filehashes[f]
      BY <1>2, <1>6, <3>1, <3>2 DEF Explained, BaselineExplained, Baseline
    <3>4. info.hashes[f] \in {Null, source[f]}
      BY <1>1, <1>2, <1>3, <1>7, <3>1 DEF Linkable, Built, Settled
    <3>5. objects[Target] \in ObjectDirs /\ f \in Files
      BY <1>2, <1>5, <1>7 DEF Shape, TypeOK
    <3>6. objects[Target][f] \in ObjectFiles
      BY <3>3, <3>5 DEF ObjectDirs
    <3>7. filehashes[f] # Null
      BY <3>3, <3>6, NullAssumption DEF ObjectFiles, NullAssumption
    <3>8. objects[Target][f].text = source[f]
      BY <3>2, <3>3, <3>4, <3>7
    <3>9. objects[Target][f].mode = mode
      BY <1>2, <3>3, <3>5 DEF OneIdentity
    <3> QED
      BY <3>6, <3>8, <3>9 DEF ObjectFiles, Object
  <2> QED
    BY <2>1, <2>2
<1> QED
  BY <1>2, <1>3, <1>5, <1>7

\* If every import is on record, what is tracked is closed under imports.
LEMMA CleanReach ==
  ASSUME Shape, OneIdentity, Explained, Linkable, Clean, OnRecord
  PROVE  Reach(Main) \subseteq info.tracked
<1>f. /\ Queued = {} /\ Awaited = {} /\ ~work.errors /\ info # Null /\ Building
      /\ objects[Target] # Null /\ Target \in Targets /\ info.tracked \subseteq Files
      /\ \A f \in info.tracked : objects[Target][f] = Object(f)
  BY CleanObjects
<1>m. Main \in Files
  BY BuildAssumption DEF BuildAssumption
<1> DEFINE S == Reach(Main) \cap info.tracked
<1>1. Main \in S
  BY <1>f, <1>m, ReachCloses DEF Linkable, Saved, MainThere
<1>2. ASSUME NEW f \in S, NEW g \in ImportsOf(f) PROVE g \in S
  <2>1. g \in Reach(Main) /\ f \in Files /\ f \in info.tracked /\ f \in Reach(Main)
    BY <1>f, <1>m, <1>2, ReachCloses
  <2>2. source[f] # Gone /\ source[f] \in Texts /\ g \in Imports[source[f]]
    BY <1>2, <2>1 DEF ImportsOf, Shape, TypeOK, Sources
  <2>3. f \in info.rechecks[g]
    BY <1>2, <2>1 DEF OnRecord
  <2>4. objects[Target][f] = Object(f) /\ objects[Target][f].text = source[f]
    BY <1>f, <2>1 DEF Object
  <2>5. CASE f \in work.compiled
    BY <1>f, <2>1, <2>2, <2>4, <2>5 DEF Linkable, Built, Complete
  <2>6. CASE f \notin work.compiled
    <3>1. <<Target, f>> \notin suspect
      BY <2>1, <2>6 DEF Clean
    <3>2. Flawless
      BY <1>f DEF Flawless, Building
    <3>3. ClosedIn(Target, f, info.hashes[f], info.tracked, info.rechecks)
      BY <1>f, <2>1, <2>6, <3>1, <3>2 DEF Linkable, Built, KnownClosed
    <3>4. info.hashes[f] = source[f]
      <4>1. Baseline
        BY DEF Explained, Digest, Recorded, Clean
      <4>2. info.hashes[f] = filehashes[f] /\ f \in filemap.tracked
        BY <1>f, <2>1, <2>6, <3>1, <4>1 DEF Explained, Digest, Digested, Doubt, Baseline
      <4>3. objects[Target][f].text = filehashes[f]
        BY <1>f, <3>1, <4>1, <4>2 DEF Explained, BaselineExplained, Baseline
      <4> QED
        BY <2>4, <4>2, <4>3
    <3>5. g \in info.tracked \/ <<Target, g>> \in suspect
      BY <2>2, <2>3, <3>3, <3>4 DEF ClosedIn
    <3> QED
      BY <2>1, <3>5 DEF Clean
  <2> QED
    BY <2>5, <2>6
<1>3. S \in SUBSET Files /\ \A h \in S : ImportsOf(h) \subseteq S
  BY <1>2, <1>f
<1> HIDE DEF S
<1>4. Reach(Main) \subseteq S
  BY <1>1, <1>3 DEF Reach
<1> QED
  BY <1>4 DEF S

LEMMA LinkableLinks ==
  Shape /\ OneIdentity /\ Explained /\ Linkable => LinksSources
<1> SUFFICES ASSUME Shape, OneIdentity, Explained, Linkable, Clean, OnRecord
             PROVE  /\ \A f \in Reach(Main) : f \in info.tracked /\ objects[Target][f] = Object(f)
                    /\ Reach(Main) \subseteq globalsSet[Target]
                    /\ globalsSet[Target] \subseteq info.tracked
                    /\ \A f \in info.tracked : objects[Target][f] # Null
  BY DEF LinksSources
<1>1. /\ info # Null /\ Target \in Targets /\ info.tracked \subseteq Files
      /\ \A f \in info.tracked : objects[Target][f] = Object(f)
  BY CleanObjects
<1>2. Reach(Main) \subseteq info.tracked
  BY CleanReach
<1>3. globalsSet[Target] = info.inits
  BY DEF Clean, Linkable, Built, LinkedGlobals
<1>4. info.inits = info.tracked
  BY <1>1 DEF Explained, Digest, Recorded
<1>5. \A f \in info.tracked : Object(f) # Null
  BY <1>1, ObjectText
<1> QED
  BY <1>1, <1>2, <1>3, <1>4, <1>5

\* If no file moves while a target is built, none of its objects is in doubt and every
\* import is on record, a link after whatever edits, failures and kills takes, of every
\* file that is reached, the object a build from nothing would have made.
THEOREM SourcesAreLinked == Spec => []LinksSources
<1>1. Init => OneIdentity
  BY DEF Init, OneIdentity
<1> QED
  BY <1>1, InitShape, NextShape, IdentityStep, InitExplained, NextExplained, InitLinkable,
     NextLinkable, LinkableLinks, PTL DEF Spec

---------------------------------------------------------------------------
(* What type-checks *)

\* By these digests no tracked file that is on record as an importer breaks on its import.
Agreeing(tracked, rechecks, digests) ==
  \A g \in tracked :
    /\ digests[g] # Null
    /\ \A f \in rechecks[g] \cap tracked :
         digests[f] \in Texts /\ g \in Imports[digests[f]] => <<digests[f], digests[g]>> \notin Breaks

Fits(f, g) == g \in ImportsOf(f) => <<source[f], source[g]>> \notin Breaks

\* The digests are those of the sources and every importer on record fits its import, but
\* for what is queued; and so will the importers of what is found.
Recent == \A f \in info.tracked : f \in Queued \/ f = work.awaiting \/ info.hashes[f] = source[f]
Paired == \A g \in info.tracked : \A f \in info.rechecks[g] \cap info.tracked : f \in Queued \/ Fits(f, g)
Promised == \A d \in Queue : d.new => \A f \in d.importers : Fits(f, d.file)
Sourced == Recent /\ Paired /\ Promised

AgreeingNow == Agreeing(info.tracked, info.rechecks, info.hashes)

\* While no file moves a build knows its sources to fit, or has just compiled all of them.
Fitting ==
  Building /\ steady /\ ~mixed /\ ~work.errors =>
    \/ Sourced
    \/ phase \notin {"compile", "commit"} /\ Checks(Main) /\ AgreeingNow

\* What it has loaded, saved or been handed agrees, and so does what is saved.
KnownAgrees ==
  Flawless /\ ~mixed /\ phase # "commit" /\ (phase = "begin" \/ ~info.newHashes) => AgreeingNow

SavedAgrees ==
  Baseline /\ ~mixed /\ ~(phase = "writeHashes" /\ info.newHashes) =>
    Agreeing(filemap.tracked, filemap.rechecks, filehashes)

\* Digests that are not to be saved are the saved ones.
Unsaved ==
  Flawless /\ ~info.newHashes /\ phase # "commit" /\ filehashes # Null =>
    \A f \in info.tracked : info.hashes[f] = filehashes[f]

Surfacing == Fitting /\ KnownAgrees /\ SavedAgrees /\ Unsaved

\* What checks does so by its sources alone.
LEMMA SameChecks == ASSUME UNCHANGED source PROVE \A f : Checks(f)' <=> Checks(f)
  BY DEF Checks, Reach, ImportsOf

\* A file that checks fits all it imports, and so does every file it reaches.
LEMMA ChecksFit ==
  ASSUME Shape, NEW f \in Files, Checks(f)
  PROVE  /\ \A g \in Reach(f) : \A h : Fits(g, h)
         /\ \A h : Fits(f, h)
<1>1. \A g \in Reach(f) : \A h : Fits(g, h)
  BY DEF Checks, Fits
<1>2. f \in Reach(f)
  BY ReachCloses
<1> QED
  BY <1>1, <1>2

\* With nothing queued, what is known of the sources is what the digests say.
LEMMA SourcedAgrees ==
  ASSUME Shape, Sourced, info \in Infos, Queue = {}, work.awaiting = Null
  PROVE  AgreeingNow
<1>1. Queued = {} /\ info.tracked \subseteq Files /\ source \in [Files -> Sources]
  BY DEF Queued, Infos, Shape, TypeOK
<1>2. \A f \in info.tracked : info.hashes[f] = source[f] /\ f # Null /\ source[f] # Null
  BY <1>1, NullAssumption DEF Sourced, Recent, NullAssumption
<1>3. ASSUME NEW g \in info.tracked, NEW f \in info.rechecks[g] \cap info.tracked,
             info.hashes[f] \in Texts, g \in Imports[info.hashes[f]]
      PROVE  <<info.hashes[f], info.hashes[g]>> \notin Breaks
  <2>1. Fits(f, g)
    BY <1>1 DEF Sourced, Paired
  <2>2. source[f] # Gone
    BY <1>2, <1>3, BuildAssumption DEF BuildAssumption
  <2> QED
    BY <1>2, <1>3, <2>1, <2>2 DEF Fits, ImportsOf
<1> QED
  BY <1>2, <1>3 DEF AgreeingNow, Agreeing

\* So a build that has nothing more to compile, and saw no file move, knows what agrees.
LEMMA FittingAgrees ==
  ASSUME Shape, Fitting, Building, steady, ~mixed, ~work.errors, info \in Infos, Queue = {},
         work.awaiting = Null
  PROVE  AgreeingNow
  BY SourcedAgrees DEF Fitting

\* What is saved agrees as long as it stays.
LEMMA SavedStays ==
  ASSUME SavedAgrees, filemap' = filemap \/ filemap' = Null, filehashes' = filehashes \/ filehashes' = Null,
         mixed \/ (phase = "writeHashes" /\ info.newHashes) => mixed'
  PROVE  SavedAgrees'
  BY DEF SavedAgrees, Agreeing, Baseline

LEMMA EndSurfacing == ASSUME Surfacing, Ending PROVE Surfacing'
<1>1. SavedAgrees'
  BY SavedStays DEF Surfacing, Ending
<1> QED
  BY <1>1 DEF Ending, Surfacing, Fitting, KnownAgrees, Unsaved, Building, Flawless

LEMMA BeginSurfacing == ASSUME Shape, Surfacing, Loading \/ Clearing PROVE Surfacing'
<1>1. Fitting'
  BY DEF Loading, Clearing, Fitting, Building
<1>2. CASE Clearing
  BY <1>1, <1>2 DEF Clearing, Surfacing, SavedAgrees, KnownAgrees, Unsaved, Baseline, Flawless
<1>3. CASE Loading
  <2>1. SavedAgrees'
    BY <1>3, SavedStays DEF Surfacing, Loading
  <2>2. KnownAgrees'
    <3> SUFFICES ASSUME ~mixed PROVE AgreeingNow'
      BY <1>3 DEF KnownAgrees, Loading
    <3>1. Agreeing(filemap.tracked, filemap.rechecks, filehashes)
      BY <1>3 DEF Surfacing, SavedAgrees, Loading
    <3>2. filemap.tracked \subseteq Files
      BY <1>3 DEF Loading, Baseline, Shape, TypeOK, FileMaps
    <3> QED
      BY <1>3, <3>1, <3>2 DEF Agreeing, AgreeingNow, Loading
  <2>3. Unsaved'
    BY <1>3 DEF Unsaved, Loading
  <2> QED
    BY <1>1, <2>1, <2>2, <2>3 DEF Surfacing
<1> QED
  BY <1>2, <1>3

LEMMA EditSurfacing == ASSUME Surfacing, Editing PROVE Surfacing'
<1>1. SavedAgrees'
  BY DEF Editing, Surfacing, SavedAgrees, Agreeing, Baseline
<1>2. Fitting'
  BY DEF Editing, Fitting
<1>3. KnownAgrees' /\ Unsaved'
  BY DEF Editing, Surfacing, KnownAgrees, Unsaved, Flawless, AgreeingNow, Agreeing
<1> QED
  BY <1>1, <1>2, <1>3 DEF Surfacing

LEMMA KillInitializeSurfacing ==
  ASSUME Surfacing, NEW emitted \in SUBSET Files, KillInitialize(emitted) PROVE Surfacing'
<1>1. SavedAgrees'
  BY SavedStays DEF Surfacing, KillInitialize, Begun
<1> QED
  BY <1>1 DEF KillInitialize, Stop, Surfacing, Fitting, KnownAgrees, Unsaved, Building, Flawless

LEMMA RestSurfacing == ASSUME Surfacing, UNCHANGED vars PROVE Surfacing'
<1>v. /\ UNCHANGED <<source, filemap, filehashes, phase, info, work, steady, mixed>>
  BY DEF vars, cache, history, doubts
<1>q. /\ Queued' = Queued /\ Queue' = Queue /\ (Building' <=> Building)
      /\ (Flawless' <=> Flawless) /\ (Baseline' <=> Baseline) /\ (AgreeingNow' <=> AgreeingNow)
  BY <1>v DEF Queued, Queue, Building, Flawless, Baseline, AgreeingNow, Agreeing
<1>1. Sourced' <=> Sourced
  BY <1>v, <1>q DEF Sourced, Recent, Paired, Promised, Fits, ImportsOf
<1>2. Fitting'
  BY <1>v, <1>q, <1>1, SameChecks DEF Surfacing, Fitting
<1>3. SavedAgrees'
  BY <1>v, <1>q DEF Surfacing, SavedAgrees, Agreeing
<1> QED
  BY <1>v, <1>q, <1>2, <1>3 DEF Surfacing, KnownAgrees, Unsaved

\* A first build compiles all it takes, at one moment.
LEMMA InitializeSurfacing == ASSUME Shape, Explained, Surfacing, Initialize PROVE Surfacing'
<1>f. Initializing /\ (InitializingAll \/ InitializingOne)
  BY InitializeFields
<1>c. Checks(Main) /\ Checks(Main)' /\ Main \in Files
  BY <1>f, SameChecks, BuildAssumption DEF Initializing, BuildAssumption
<1>n. ~NoWork.errors
  BY DEF NoWork
<1>1. SavedAgrees'
  BY <1>f, SavedStays DEF Surfacing, Initializing
<1>2. CASE InitializingAll
  <2>1. KnownAgrees' /\ Unsaved'
    BY <1>f, <1>2 DEF KnownAgrees, Unsaved, Initializing, InitializingAll
  <2>2. AgreeingNow'
    <3> SUFFICES ASSUME NEW g \in Reach(Main)
                 PROVE  /\ info'.hashes[g] # Null
                        /\ \A f \in info'.rechecks[g] \cap Reach(Main) :
                             <<info'.hashes[f], info'.hashes[g]>> \notin Breaks
      BY <1>2 DEF AgreeingNow, Agreeing, InitializingAll
    <3>1. source[g] # Null
      BY ReachIsFiles, NullAssumption DEF Shape, TypeOK, NullAssumption
    <3>2. \A f \in info'.rechecks[g] : f \in Reach(Main) /\ g \in ImportsOf(f)
      BY <1>2 DEF InitializingAll, ImportedBy
    <3>3. \A f \in Reach(Main) : Fits(f, g)
      BY <1>c, ChecksFit
    <3> QED
      BY <1>2, <3>1, <3>2, <3>3 DEF InitializingAll, Fits
  <2>3. Fitting'
    BY <1>f, <1>c, <2>2 DEF Fitting, Initializing
  <2> QED
    BY <1>1, <2>1, <2>3 DEF Surfacing
<1>3. CASE InitializingOne
  <2>1. info' = info /\ (Flawless' <=> Flawless) /\ Flawless
    BY <1>f, <1>n, <1>3 DEF InitializingOne, Initializing, Flawless
  <2>2. AgreeingNow' <=> AgreeingNow
    BY <2>1 DEF AgreeingNow, Agreeing
  <2>3. ~mixed => AgreeingNow
    BY <1>f, <2>1 DEF Surfacing, KnownAgrees, Initializing
  <2>4. KnownAgrees' /\ Fitting'
    BY <1>f, <1>c, <2>2, <2>3 DEF KnownAgrees, Fitting, Initializing
  <2>5. Unsaved'
    BY <1>f, <2>1 DEF Surfacing, Unsaved, Initializing
  <2> QED
    BY <1>1, <2>4, <2>5 DEF Surfacing
<1> QED
  BY <1>f, <1>2, <1>3

\* The importers on record of what has changed are simulated, or queued themselves; those
\* of what has not are as the digests have it.
LEMMA DetectPairs ==
  ASSUME Shape, Detecting, AgreeingNow, Detect,
         NEW g \in info.tracked \ Removed, NEW f \in info.rechecks[g] \cap info.tracked,
         f \notin Orphans \cup Changed \cup Removed
  PROVE  Fits(f, g)
<1>1. f \in Files /\ source[f] # Gone /\ source[f] \in Texts /\ info.tracked \subseteq Files
  BY DEF Detecting, Infos, Removed, Shape, TypeOK, Sources
<1>2. CASE g \in Changed
  <2>1. \A also : f \in Rechecks(also)
    BY <1>2 DEF Rechecks
  <2>2. Checks(f)
    BY <2>1 DEF Detect
  <2> QED
    BY <1>1, <2>2, ChecksFit
<1>3. CASE g \notin Changed
  <2>1. info.hashes[f] # Null /\ info.hashes[g] # Null
    BY DEF AgreeingNow, Agreeing
  <2>2. info.hashes[f] = source[f] /\ info.hashes[g] = source[g]
    BY <1>3, <2>1 DEF Changed
  <2>3. g \in Imports[source[f]] => <<source[f], source[g]>> \notin Breaks
    BY <1>1, <2>2 DEF AgreeingNow, Agreeing
  <2> QED
    BY <1>1, <2>3 DEF Fits, ImportsOf
<1> QED
  BY <1>2, <1>3

LEMMA DetectSurfacing == ASSUME Shape, Explained, Surfacing, Detect PROVE Surfacing'
<1>f. Detecting /\ DetectedMap
  BY DetectFields
<1>w. Flawless /\ phase = "begin" /\ phase' = "compile" /\ mixed' = mixed /\ Removed \subseteq Files
      /\ info'.tracked = info.tracked \ Removed /\ info.tracked \subseteq Files
      /\ info'.rechecks = info.rechecks
      /\ \A f \in info'.tracked : info'.hashes[f] = info.hashes[f]
  BY <1>f DEF Flawless, Detecting, DetectedMap, NoWork, Infos, Removed
<1>1. SavedAgrees'
  BY <1>f, SavedStays DEF Surfacing, Detecting
<1>2. ~mixed => AgreeingNow
  BY <1>w DEF Surfacing, KnownAgrees
<1>3. KnownAgrees'
  BY <1>w, <1>2 DEF KnownAgrees, AgreeingNow, Agreeing
<1>4. Unsaved'
  BY <1>f, <1>w DEF Surfacing, Unsaved, Detecting, DetectedMap
<1>5. Fitting'
  <2> SUFFICES ASSUME ~mixed PROVE Sourced'
    BY <1>w DEF Fitting
  <2>1. Recent'
    <3> SUFFICES ASSUME NEW f \in info'.tracked PROVE f \in Queued' \/ info'.hashes[f] = source[f]
      BY <1>f DEF Recent, Detecting
    <3>1. f \in info.tracked \ Removed /\ info.hashes[f] # Null
      BY <1>2, <1>w DEF AgreeingNow, Agreeing
    <3> QED
      BY <1>f, <1>w, <3>1 DEF Changed, Detecting
  <2>2. Paired'
    <3> SUFFICES ASSUME NEW g \in info'.tracked, NEW f \in info'.rechecks[g] \cap info'.tracked,
                        f \notin Queued'
                 PROVE  Fits(f, g)
      BY <1>f DEF Paired, Fits, ImportsOf, Detecting
    <3> QED
      BY <1>f, <1>w, <1>2, DetectPairs DEF Detecting
  <2>3. Promised'
    BY <1>f DEF Promised, Detecting
  <2> QED
    BY <2>1, <2>2, <2>3 DEF Sourced
<1> QED
  BY <1>1, <1>3, <1>4, <1>5 DEF Surfacing

\* A compilation makes sure of what its file imports, and of the importers it loads; those
\* of a file found came with it.
LEMMA CompileSurfacing == ASSUME Shape, Explained, Surfacing, NEW c \in Wave, Compile(c) PROVE Surfacing'
<1>f. /\ info \in Infos /\ work \in Works /\ Compiling(c) /\ CompiledMap(c) /\ CompiledRecord(c)
      /\ CompiledQueue(c) /\ CompiledWork(c)
  BY CompileFields
<1>q. /\ c \in Queue
      /\ \A f \in Queued : f # c.file => f \in Queued'
      /\ \A d \in Queue' : d \in Queue \/ d \in Found(c)
  BY QueueStep
<1>t. /\ c.file \in Files /\ Building /\ work.awaiting = Null /\ UNCHANGED <<source, steady, mixed>>
      /\ info'.tracked = NowTracked(c) /\ info.tracked \subseteq Files /\ phase = "compile"
  <2>1. phase = "compile"
    BY <1>f DEF Compiling
  <2> QED
    BY <1>f, <2>1 DEF Compiling, CompiledMap, Building, Shape, Worked, Infos
<1>m. /\ NowTracked(c) \subseteq info.tracked \cup {c.file}
      /\ Added(c) => c.new
      /\ ~Added(c) => NowTracked(c) = info.tracked
  BY DEF Added, NowTracked
<1>1. SavedAgrees'
  BY <1>f, SavedStays DEF Surfacing, Compiling
<1>2. KnownAgrees'
  BY <1>f DEF KnownAgrees, Flawless, Compiling, CompiledWork
<1>3. Unsaved'
  BY <1>f DEF Unsaved, Flawless, Compiling, CompiledWork
<1>4. Fitting'
  <2> SUFFICES ASSUME steady, ~mixed, ~work'.errors PROVE Sourced'
    BY <1>t DEF Fitting
  <2>1. Checks(c.file) /\ ~work.errors /\ work'.awaiting = c.file
    BY <1>f DEF CompiledWork
  <2>2. Sourced
    BY <1>t, <2>1 DEF Surfacing, Fitting
  <2>3. /\ \A h : Fits(c.file, h)
        /\ \A f \in Loads(c) : \A h : Fits(f, h)
    BY <1>t, <2>1, ChecksFit DEF Loads
  <2>4. Recent'
    <3> SUFFICES ASSUME NEW f \in NowTracked(c), f # c.file PROVE f \in Queued' \/ info'.hashes[f] = source[f]
      BY <1>t, <2>1 DEF Recent
    <3>1. f \in info.tracked /\ f \in Files /\ f # Null
      BY <1>m, <1>t, NullAssumption DEF NullAssumption
    <3>2. info'.hashes[f] = info.hashes[f]
      BY <1>f, <3>1 DEF CompiledRecord
    <3> QED
      BY <1>q, <1>t, <2>2, <3>1, <3>2 DEF Sourced, Recent
  <2>5. Paired'
    <3> SUFFICES ASSUME NEW g \in NowTracked(c), NEW f \in info'.rechecks[g] \cap NowTracked(c),
                        f \notin Queued'
                 PROVE  Fits(f, g)
      BY <1>t DEF Paired, Fits, ImportsOf
    <3>1. CASE f = c.file
      BY <2>3, <3>1
    <3>2. CASE f # c.file /\ g # c.file
      <4>1. f \in info.tracked /\ g \in info.tracked /\ f \notin Queued /\ g \in Files
        BY <1>m, <1>q, <1>t, <3>2
      <4>2. info'.rechecks[g] = info.rechecks[g]
        BY <1>f, <3>2, <4>1 DEF CompiledRecord
      <4> QED
        BY <2>2, <4>1, <4>2 DEF Sourced, Paired
    <3>3. CASE f # c.file /\ g = c.file /\ Added(c)
      BY <1>f, <1>m, <1>q, <2>2, <3>3 DEF Sourced, Promised, CompiledRecord
    <3>4. CASE f # c.file /\ g = c.file /\ ~Added(c)
      <4>1. f \in info.tracked /\ g \in info.tracked /\ f \notin Queued
        BY <1>m, <1>q, <3>4
      <4>2. f \in info.rechecks[g] \/ f \in Loads(c)
        BY <1>f, <3>4 DEF CompiledRecord, ImportedBy
      <4> QED
        BY <2>2, <2>3, <4>1, <4>2 DEF Sourced, Paired
    <3> QED
      BY <3>1, <3>2, <3>3, <3>4
  <2>6. Promised'
    <3> SUFFICES ASSUME NEW d \in Queue', d.new, NEW f \in d.importers PROVE Fits(f, d.file)
      BY <1>t DEF Promised, Fits, ImportsOf
    <3>1. CASE d \in Queue
      BY <2>2, <3>1 DEF Sourced, Promised
    <3>2. CASE d \in Found(c)
      <4>1. d.importers \subseteq Loads(c)
        BY <3>2 DEF Found, Component, ImportedBy
      <4> QED
        BY <2>3, <4>1
    <3> QED
      BY <1>q, <3>1, <3>2
  <2> QED
    BY <2>4, <2>5, <2>6 DEF Sourced
<1> QED
  BY <1>1, <1>2, <1>3, <1>4 DEF Surfacing

LEMMA CommitSurfacing == ASSUME Shape, Explained, Surfacing, Commit PROVE Surfacing'
<1>f. Committing /\ CommittedMap
  BY CommitFields
<1>w. /\ phase = "commit" /\ phase' = "compile" /\ Building /\ Queue' = Queue /\ Queued' = Queued
      /\ UNCHANGED <<source, steady, mixed>> /\ info.tracked \subseteq Files
  BY <1>f DEF Committing, Building, Queued, Infos
<1>1. SavedAgrees'
  BY <1>f, SavedStays DEF Surfacing, Committing
<1>2. KnownAgrees' /\ Unsaved'
  BY <1>f, <1>w DEF KnownAgrees, Unsaved, CommittedMap
<1>3. Fitting'
  <2> SUFFICES ASSUME steady, ~mixed, ~work.errors PROVE Sourced'
    BY <1>f, <1>w DEF Fitting, Committing
  <2>1. Sourced
    BY <1>w DEF Surfacing, Fitting
  <2>2. Recent'
    BY <1>f, <1>w, <2>1 DEF Sourced, Recent, CommittedMap
  <2>3. Paired' /\ Promised'
    BY <1>f, <1>w, <2>1 DEF Sourced, Paired, Promised, CommittedMap, Fits, ImportsOf
  <2> QED
    BY <2>1, <2>2, <2>3 DEF Sourced
<1> QED
  BY <1>1, <1>2, <1>3 DEF Surfacing

LEMMA LinkSurfacing == ASSUME Shape, Explained, Surfacing, Aggregate \/ Link, ~Stop PROVE Surfacing'
<1>f. /\ Linking
      /\ Aggregated \/ (phase = "link" /\ phase' = "writeMap" /\ UNCHANGED <<globalsSet, drift>>)
  BY LinkFields
<1>w. /\ Flawless /\ Building /\ phase \in {"compile", "link"} /\ phase' \in {"link", "writeMap"}
      /\ UNCHANGED <<source, steady, mixed, info, filehashes>> /\ Queue' = Queue /\ Queued' = Queued
      /\ work'.awaiting = work.awaiting /\ ~work.errors
  BY <1>f DEF Linking, Aggregated, Flawless, Building, Queued
<1>1. SavedAgrees'
  BY <1>f, <1>w, SavedStays DEF Surfacing, Linking
<1>2. AgreeingNow' <=> AgreeingNow
  BY <1>w DEF AgreeingNow, Agreeing
<1>3. KnownAgrees' /\ Unsaved'
  BY <1>w, <1>2 DEF Surfacing, KnownAgrees, Unsaved
<1>4. Sourced => Sourced'
  BY <1>w DEF Sourced, Recent, Paired, Promised, Fits, ImportsOf
<1>5. Fitting'
  BY <1>w, <1>2, <1>4, SameChecks DEF Surfacing, Fitting
<1> QED
  BY <1>1, <1>3, <1>5 DEF Surfacing

\* A failed link hands on what it knows; if files moved under it, it may not agree.
LEMMA FailSurfacing == ASSUME Shape, Explained, Surfacing, LinkFails PROVE Surfacing'
<1>f. Failing
  BY FailFields
<1>w. Building /\ Flawless /\ phase = "link"
  BY <1>f DEF Failing, Building, Flawless
<1>1. SavedAgrees'
  BY <1>f, SavedStays DEF Surfacing, Failing
<1>2. CASE Stop
  BY <1>1, <1>2 DEF Stop, Surfacing, Fitting, KnownAgrees, Unsaved, Building, Flawless
<1>3. CASE phase' = "begin" /\ info' = info
  <2>1. Fitting'
    BY <1>3 DEF Fitting, Building
  <2>2. ~mixed' => AgreeingNow
    BY <1>f, <1>w, FittingAgrees DEF Surfacing, Failing
  <2>3. AgreeingNow' <=> AgreeingNow
    BY <1>3 DEF AgreeingNow, Agreeing
  <2>4. KnownAgrees'
    BY <2>2, <2>3 DEF KnownAgrees
  <2>5. Unsaved'
    BY <1>3, <1>f, <1>w DEF Surfacing, Unsaved, Failing
  <2> QED
    BY <1>1, <2>1, <2>4, <2>5 DEF Surfacing
<1> QED
  BY <1>f, <1>2, <1>3 DEF Failing

\* A file map saved alone is that of the digests saved before it.
LEMMA MapSurfacing == ASSUME Shape, Explained, Surfacing, WriteMap PROVE Surfacing'
<1>f. /\ MapWriting
      /\ \/ info.newMap /\ MapWritten
         \/ /\ ~info.newMap /\ UNCHANGED <<filemap, suspect, drift>>
            /\ filemap # Null /\ filehashes # Null
  BY MapFields
<1>w. /\ Flawless /\ Building /\ phase = "writeMap" /\ phase' = "writeHashes"
      /\ UNCHANGED <<source, steady, mixed, work, filehashes>> /\ Queue' = Queue /\ Queued' = Queued
      /\ info'.tracked = info.tracked /\ info'.hashes = info.hashes
      /\ info'.rechecks = info.rechecks /\ info'.newHashes = info.newHashes
  BY <1>f DEF MapWriting, Flawless, Building, Queued
<1>2. AgreeingNow' <=> AgreeingNow
  BY <1>w DEF AgreeingNow, Agreeing
<1>3. KnownAgrees' /\ Unsaved'
  BY <1>w, <1>2 DEF Surfacing, KnownAgrees, Unsaved
<1>4. Sourced => Sourced'
  BY <1>w DEF Sourced, Recent, Paired, Promised, Fits, ImportsOf
<1>5. Fitting'
  BY <1>w, <1>2, <1>4, SameChecks DEF Surfacing, Fitting
<1>6. SavedAgrees'
  <2> SUFFICES ASSUME filehashes # Null, ~mixed, ~info.newHashes
               PROVE  Agreeing(filemap'.tracked, filemap'.rechecks, filehashes)
    BY <1>w DEF SavedAgrees, Baseline
  <2>1. CASE filemap' = filemap
    BY <1>f, <1>w, <2>1 DEF Surfacing, SavedAgrees, Baseline, MapWriting
  <2>2. CASE info.newMap /\ MapWritten
    <3>1. filemap'.tracked = info.tracked /\ filemap'.rechecks = info.rechecks
      BY <1>f, <2>2 DEF MapWriting, MapWritten
    <3>2. AgreeingNow /\ \A f \in info.tracked : info.hashes[f] = filehashes[f]
      BY <1>w DEF Surfacing, KnownAgrees, Unsaved
    <3> QED
      BY <3>1, <3>2 DEF AgreeingNow, Agreeing
  <2> QED
    BY <1>f, <2>1, <2>2
<1> QED
  BY <1>3, <1>5, <1>6 DEF Surfacing

\* Digests are saved beside a map that has no importer on record they do not know of.
LEMMA HashSurfacing == ASSUME Shape, Explained, Linkable, Surfacing, WriteHashes PROVE Surfacing'
<1>f. HashWriting /\ (Stop \/ HashWritten)
  BY HashFields
<1>w. Flawless /\ Building /\ phase = "writeHashes" /\ UNCHANGED <<source, steady>>
  BY <1>f DEF HashWriting, Flawless, Building
<1>1. ~mixed' => AgreeingNow
  BY <1>f, <1>w, FittingAgrees DEF Surfacing, HashWriting
<1>2. SavedAgrees'
  <2> SUFFICES ASSUME ~mixed' PROVE Agreeing(filemap.tracked, filemap.rechecks, filehashes')
    BY <1>f DEF SavedAgrees, HashWriting
  <2>1. CASE info.newHashes
    <3>1. filehashes' = info.hashes /\ filemap.tracked = info.tracked /\ info.tracked \subseteq Files
      BY <1>f, <2>1 DEF HashWriting, Infos
    <3>2. \A g \in Files : filemap.rechecks[g] \cap info.tracked \subseteq info.rechecks[g]
      BY <1>f, <1>w DEF Linkable, Built, Kept, HashWriting
    <3> QED
      BY <1>1, <3>1, <3>2 DEF AgreeingNow, Agreeing
  <2>2. CASE ~info.newHashes
    BY <1>f, <2>2 DEF Surfacing, SavedAgrees, HashWriting, Baseline
  <2> QED
    BY <2>1, <2>2
<1>3. CASE Stop
  BY <1>2, <1>3 DEF Stop, Surfacing, Fitting, KnownAgrees, Unsaved, Building, Flawless
<1>4. CASE HashWritten
  <2>1. AgreeingNow' <=> AgreeingNow
    BY <1>4 DEF HashWritten, AgreeingNow, Agreeing
  <2>2. KnownAgrees'
    BY <1>1, <2>1 DEF KnownAgrees
  <2>3. Unsaved'
    <3> SUFFICES ASSUME NEW f \in info.tracked PROVE info.hashes[f] = filehashes'[f]
      BY <1>4 DEF Unsaved, HashWritten
    <3>1. CASE info.newHashes
      BY <1>f, <3>1 DEF HashWriting
    <3>2. CASE ~info.newHashes
      BY <1>f, <1>w, <3>2 DEF HashWriting, Surfacing, Unsaved
    <3> QED
      BY <3>1, <3>2
  <2>4. Fitting'
    <3>1. CASE phase' = "begin"
      BY <3>1 DEF Fitting, Building
    <3>2. CASE phase' = "link" /\ work' = work
      <4>1. Queue' = Queue /\ Queued' = Queued
        BY <3>2 DEF Queue, Queued
      <4>2. Sourced => Sourced'
        BY <1>4, <1>w, <3>2, <4>1
        DEF HashWritten, Sourced, Recent, Paired, Promised, Fits, ImportsOf
      <4> QED
        BY <1>f, <1>w, <2>1, <3>2, <4>2, SameChecks DEF Surfacing, Fitting, HashWriting
    <3> QED
      BY <1>4, <3>1, <3>2 DEF HashWritten
  <2> QED
    BY <1>2, <2>2, <2>3, <2>4 DEF Surfacing
<1> QED
  BY <1>f, <1>3, <1>4

LEMMA NextSurfacing == Shape /\ Explained /\ Linkable /\ Surfacing /\ [Next]_vars => Surfacing'
<1> SUFFICES ASSUME Shape, Explained, Linkable, Surfacing, [Next]_vars PROVE Surfacing'
  OBVIOUS
<1>1. CASE \/ RejectAll \/ RejectChange \/ RecheckGone \/ CompileGone \/ Kill
           \/ (Aggregate \/ LinkFails) /\ Stop
  BY <1>1, EndFields, EndSurfacing
<1>2. CASE Identify \/ \E plan \in Plans, m \in Modes : Start(plan, m)
  BY <1>2, BeginFields, BeginSurfacing
<1>3. CASE \E f \in Files : \E text \in Written[f] \cup {Gone} : Edit(f, text)
  BY <1>3, EditFields, EditSurfacing
<1>4. CASE \E emitted \in SUBSET Files : KillInitialize(emitted)
  BY <1>4, KillInitializeSurfacing
<1>5. CASE \E c \in Wave : Compile(c)
  BY <1>5, CompileSurfacing
<1>6. CASE Initialize \/ Detect \/ Commit
  BY <1>6, InitializeSurfacing, DetectSurfacing, CommitSurfacing
<1>7. CASE (Aggregate \/ Link) /\ ~Stop
  BY <1>7, LinkSurfacing
<1>8. CASE LinkFails \/ WriteMap \/ WriteHashes
  BY <1>8, FailSurfacing, MapSurfacing, HashSurfacing
<1>9. CASE UNCHANGED vars
  BY <1>9, RestSurfacing
<1>10. CASE Link /\ Stop
  BY <1>10 DEF Link, Stop
<1> QED
  BY <1>1, <1>2, <1>3, <1>4, <1>5, <1>6, <1>7, <1>8, <1>9, <1>10 DEF Next, Step

LEMMA InitSurfacing == Init => Surfacing
  BY DEF Init, Surfacing, Fitting, KnownAgrees, SavedAgrees, Unsaved, Building, Baseline, Flawless

\* At a clean link everything reached is tracked and has its source's object, and every
\* import is on record, so what was made sure of is all there is.
LEMMA SurfacingSurfaces ==
  Shape /\ OneIdentity /\ Explained /\ Linkable /\ Surfacing => BreakageSurfaces
<1> SUFFICES ASSUME Shape, OneIdentity, Explained, Linkable, Surfacing, Clean, ~mixed, OnRecord
             PROVE  Checks(Main)
  BY DEF BreakageSurfaces
<1>1. /\ Queued = {} /\ ~work.errors /\ Building /\ Target \in Targets /\ objects[Target] # Null
      /\ info.tracked \subseteq Files /\ \A f \in info.tracked : objects[Target][f] = Object(f)
  BY CleanObjects
<1>2. Reach(Main) \subseteq info.tracked
  BY CleanReach
<1>3. Sourced \/ Checks(Main)
  BY <1>1 DEF Clean, Surfacing, Fitting
<1>4. CASE Sourced
  <2>1. ASSUME NEW g \in Reach(Main) PROVE source[g] # Gone
    <3>1. objects[Target][g] = Object(g) /\ Object(g) # Null /\ g \in Files /\ Object(g).text = source[g]
      BY <1>1, <1>2, ObjectText DEF Object
    <3>2. source[g] \in Texts
      BY <1>1, <3>1 DEF Linkable, Saved, Texted
    <3> QED
      BY <3>2, BuildAssumption DEF BuildAssumption
  <2>2. ASSUME NEW g \in Reach(Main), NEW h \in ImportsOf(g)
        PROVE  <<source[g], source[h]>> \notin Breaks
    <3>1. h \in Reach(Main)
      BY <2>2, ReachCloses, BuildAssumption DEF BuildAssumption
    <3>2. g \in info.rechecks[h] /\ g \in info.tracked /\ h \in info.tracked
      BY <1>2, <2>2, <3>1 DEF OnRecord
    <3>3. Fits(g, h)
      BY <1>1, <1>4, <3>2 DEF Sourced, Paired
    <3> QED
      BY <2>2, <3>3 DEF Fits
  <2> QED
    BY <2>1, <2>2 DEF Checks
<1> QED
  BY <1>3, <1>4

\* If moreover no digests of different moments were saved, what such a link takes
\* type-checks as a whole: every importer of a change was compiled or simulated against it.
THEOREM BreakageComesUp == Spec => []BreakageSurfaces
<1>1. Init => OneIdentity
  BY DEF Init, OneIdentity
<1> QED
  BY <1>1, InitShape, NextShape, IdentityStep, InitExplained, NextExplained, InitLinkable,
     NextLinkable, InitSurfacing, NextSurfacing, SurfacingSurfaces, PTL DEF Spec
====
