---- MODULE IncrementalBuild ----
(* Incremental builds: compile_project of crates/peko-cli/src/execution/incremental.rs,
   the cache under .peko/incremental it keeps between builds, and the project files an
   editor changes at any moment. A build is one process; it may be killed between any
   two steps.

   A source is one of a few texts; its md5 digest is the text itself. An object file
   stands for the text and the mode it was compiled from. Prebuilt packages, styles and
   native sources are left out. *)
EXTENDS Naturals, Sequences

CONSTANTS Files, Main,
          Texts,
          Written,   \* of each file, the texts its author may write
          Imports,   \* of each text, the files it imports
          Breaks,    \* <<u, w>>: a file of text u does not type-check against an import of text w
          Targets,   \* what a project is built for
          Plans,     \* sequences of targets one command builds, as a bundler does
          Modes,     \* cache identities: demo or normal, debug or release, which compiler
          MaxBuilds, \* bound on the builds started
          MaxEdits,  \* bound on the changes to files
          Gone,      \* a file that was deleted, and the digest of one
          Null

ASSUME BuildAssumption ==
  /\ Main \in Files
  /\ Written \in [Files -> SUBSET Texts]
  /\ Imports \in [Texts -> SUBSET Files]
  /\ Breaks \subseteq Texts \X Texts
  /\ \A plan \in Plans : plan \in Seq(Targets) /\ plan # <<>>
  /\ Gone \notin Texts

\* What the files of the cache hold, and what a build keeps in memory.
Sources == Texts \cup {Gone}
Digests == [Files -> Sources \cup {Null}]
FileMaps == [tracked : SUBSET Files, rechecks : [Files -> SUBSET Files], inits : SUBSET Files]
ObjectFiles == [text : Sources, mode : Modes]
ObjectDirs == [Files -> ObjectFiles \cup {Null}]
Infos ==
  [tracked : SUBSET Files, rechecks : [Files -> SUBSET Files], inits : SUBSET Files,
   hashes : Digests, newMap : BOOLEAN, newHashes : BOOLEAN]

\* None of them is the value that says there is none.
ASSUME NullAssumption ==
  /\ Null \notin Files /\ Null \notin Modes /\ Null \notin Sources
  /\ Null \notin Digests /\ Null \notin FileMaps
  /\ Null \notin ObjectFiles /\ Null \notin ObjectDirs
  /\ Null \notin Infos

VARIABLES
  source,      \* the project's files
  marker,      \* .build_mode
  filemap,     \* filemap.pkbin: tracked files, their rechecks, the initializers to call
  filehashes,  \* filehashes.pkbin
  objects,     \* objects/<os>/<arch> of each target: the object of each file
  globalsSet,  \* __globals_set.o of each target: the files whose initializers it calls
  phase,       \* what the running build does next
  mode, todo,  \* its identity and the targets it has yet to build, the first one now
  info,        \* project.incremental_info
  work,        \* the files to recompile, and what became of them
  builds,      \* history: builds started
  edits,       \* history: changes to files
  steady,      \* history: no file has changed since the target at hand was begun
  suspect,     \* history: <<target, file>> whose object may not be the baseline's
  drift,       \* history: targets whose __globals_set.o may not be the file map's
  mixed        \* history: whether digests of no one moment were saved, or passed on:
               \* files changed under the build, or it was cut between its two files

cache == <<marker, filemap, filehashes, objects, globalsSet>>
doubts == <<suspect, drift, mixed>>
history == <<builds, edits, steady, doubts>>
vars == <<source, cache, phase, mode, todo, info, work, history>>

---------------------------------------------------------------------------
(* Sources. *)

ImportsOf(f) == IF source[f] = Gone THEN {} ELSE Imports[source[f]]

\* The files a compilation of f asks for.
Reach(f) ==
  {g \in Files : \A S \in SUBSET Files :
                   f \in S /\ (\A h \in S : ImportsOf(h) \subseteq S) => g \in S}

\* Whether compiling or simulating f reports no error: it loads all it imports.
Checks(f) ==
  \A g \in Reach(f) :
    /\ source[g] # Gone
    /\ \A h \in ImportsOf(g) : <<source[g], source[h]>> \notin Breaks

\* imported_by of module g in a compilation that loads the modules S.
ImportedBy(g, S) == {h \in S : g \in ImportsOf(h)}

---------------------------------------------------------------------------
(* The cache. *)

Object(f) == [text |-> source[f], mode |-> mode]
Target == todo[1]
Others == Targets \ {Target}

\* A file queued for recompilation; one discovered now comes with its importers.
Component(f, new, importers) == [file |-> f, new |-> new, importers |-> importers]

NoWork ==
  [wave |-> {}, next |-> {}, errors |-> FALSE, reshaped |-> FALSE, linked |-> FALSE,
   awaiting |-> Null, compiled |-> {}, moved |-> {}]

\* from_incremental_directory: both files or none; rechecks of unknown files dropped.
Loaded ==
  IF filemap = Null \/ filehashes = Null THEN Null
  ELSE [tracked |-> filemap.tracked,
        rechecks |-> [f \in Files |-> filemap.rechecks[f] \cap filemap.tracked],
        inits |-> filemap.inits,
        hashes |-> filehashes,
        newMap |-> FALSE, newHashes |-> FALSE]

\* initialize_incremental_for_target's slow path: a map of the modules just compiled.
FreshInfo(all) ==
  [tracked |-> all,
   rechecks |-> [f \in Files |-> IF f \in all THEN ImportedBy(f, all) ELSE {}],
   inits |-> all,
   hashes |-> [f \in Files |-> IF f \in all THEN source[f] ELSE Null],
   newMap |-> TRUE, newHashes |-> TRUE]

\* The cache directory is removed, all targets with it.
Discard ==
  /\ filemap' = Null
  /\ filehashes' = Null
  /\ objects' = [t \in Targets |-> Null]
  /\ globalsSet' = [t \in Targets |-> {}]
  /\ suspect' = {}
  /\ drift' = {}
  /\ mixed' = FALSE

\* The end of the process, good or bad.
Stop == phase' = "idle" /\ todo' = <<>> /\ info' = Null /\ work' = NoWork

Init ==
  /\ source \in {s \in [Files -> Texts] : \A f \in Files : s[f] \in Written[f]}
  /\ marker = Null
  /\ filemap = Null /\ filehashes = Null
  /\ objects = [t \in Targets |-> Null]
  /\ globalsSet = [t \in Targets |-> {}]
  /\ phase = "idle" /\ mode \in Modes /\ todo = <<>> /\ info = Null /\ work = NoWork
  /\ builds = 0 /\ edits = 0 /\ steady = TRUE /\ suspect = {} /\ drift = {} /\ mixed = FALSE

---------------------------------------------------------------------------
(* The world around a build. *)

\* The author writes or deletes a file.
Edit(f, text) ==
  /\ edits < MaxEdits
  /\ edits' = edits + 1
  /\ text # source[f]
  /\ text = Gone => f # Main
  /\ source' = [source EXCEPT ![f] = text]
  /\ steady' = FALSE
  /\ work' = IF work.awaiting = f THEN [work EXCEPT !.moved = @ \cup {f}] ELSE work
  /\ UNCHANGED <<cache, phase, mode, todo, info, builds, doubts>>

\* The process is killed, or has panicked; a file it was writing is torn and reads as none.
\* A file that vanishes while it is compiled, and the panic that ends the build
\* (statement_gen.rs:1064 before the object is emitted, incremental.rs:137 behind it), are
\* its Edit and a Kill, before the Compile of the file that needs it or behind it.
Kill ==
  /\ phase # "idle"
  /\ Stop
  /\ \/ UNCHANGED <<filemap, filehashes>>
     \/ phase = "writeMap" /\ info.newMap /\ filemap' = Null /\ UNCHANGED filehashes
     \/ phase = "writeHashes" /\ info.newHashes /\ filehashes' = Null /\ UNCHANGED filemap
  /\ mixed' = (mixed \/ (phase = "writeHashes" /\ info.newHashes))
  /\ UNCHANGED <<source, marker, objects, globalsSet, mode, builds, edits, steady, suspect, drift>>

---------------------------------------------------------------------------
(* A build. *)

\* A command loads the project, and clears a cache it cannot read.
Start(plan, m) ==
  /\ phase = "idle"
  /\ builds < MaxBuilds
  /\ builds' = builds + 1
  /\ phase' = "begin" /\ todo' = plan /\ mode' = m
  /\ info' = Loaded
  /\ IF Loaded = Null THEN Discard /\ marker' = Null ELSE UNCHANGED <<cache, doubts>>
  /\ UNCHANGED <<source, work, edits, steady>>

\* Variant for mutation: only the objects of the target at hand are discarded.
DiscardOwn ==
  /\ phase = "begin" /\ marker # mode
  /\ filemap' = Null /\ filehashes' = Null
  /\ objects' = [objects EXCEPT ![Target] = Null]
  /\ marker' = mode
  /\ info' = Null
  /\ UNCHANGED <<source, globalsSet, phase, mode, todo, work, history>>

\* compile_project: a cache of another identity is discarded.
Identify ==
  /\ phase = "begin" /\ marker # mode
  /\ Discard
  /\ marker' = mode
  /\ info' = Null
  /\ UNCHANGED <<source, phase, mode, todo, work, builds, edits, steady>>

Begun == phase = "begin" /\ marker = mode

\* initialize_incremental_for_target: compile all the entry point loads, at one moment.
\* With a map from another target only objects are written, and the link takes the map's.
Initialize ==
  /\ Begun
  /\ info = Null \/ objects[Target] = Null
  /\ Checks(Main)
  /\ LET all == Reach(Main) IN
     /\ objects' = [objects EXCEPT ![Target] =
          [f \in Files |-> IF f \in all THEN Object(f) ELSE Null]]
     /\ globalsSet' = [globalsSet EXCEPT ![Target] = all]
     /\ info' = IF info = Null THEN FreshInfo(all) ELSE info
     /\ suspect' = suspect \cup
          {<<Target, f>> : f \in IF info = Null THEN {} ELSE
             {g \in Files : IF g \in all \cap info.tracked THEN info.hashes[g] # source[g]
                             ELSE g \in all \cup info.tracked \cup filemap.tracked}}
     /\ drift' = IF info # Null /\ info.inits # all THEN drift \cup {Target} ELSE drift
  /\ phase' = "writeMap"
  /\ work' = NoWork
  /\ steady' = TRUE
  /\ UNCHANGED <<source, marker, filemap, filehashes, mode, todo, builds, edits, mixed>>

\* The same, with errors: nothing is written.
RejectAll ==
  /\ Begun
  /\ info = Null \/ objects[Target] = Null
  /\ ~Checks(Main)
  /\ Stop
  /\ UNCHANGED <<source, cache, mode, history>>

\* The same, killed while it writes objects.
KillInitialize(emitted) ==
  /\ Begun
  /\ info = Null \/ objects[Target] = Null
  /\ Checks(Main)
  /\ emitted \in SUBSET Reach(Main)
  /\ Stop
  /\ objects' = [objects EXCEPT ![Target] =
       [f \in Files |-> IF f \in emitted THEN Object(f) ELSE Null]]
  /\ globalsSet' = [globalsSet EXCEPT ![Target] = Reach(Main)]
  /\ suspect' = suspect \cup ({Target} \X Files)
  /\ drift' = drift \cup {Target}
  /\ UNCHANGED <<source, marker, filemap, filehashes, mode, builds, edits, steady, mixed>>

(* compile_project on a cache of this target. *)

CachedBegun == Begun /\ info # Null /\ objects[Target] # Null

\* get_removed_files, and get_changed_files of the rest: one without a digest is skipped.
Removed == {f \in info.tracked : source[f] = Gone}
Changed == {f \in info.tracked \ Removed : info.hashes[f] \notin {Null, source[f]}}

\* The importers of a removed file are compiled.
Orphans == UNION {info.rechecks[f] : f \in Removed}

\* Variant for mutation: no importer of a changed file is simulated.
RechecksNone(also) == {}

\* The importers of a changed file are simulated. One that changed itself is, or is not,
\* by the order of the digests.
Rechecks(also) ==
  (UNION {info.rechecks[f] : f \in Changed}) \ (Orphans \cup (Changed \ also))

\* All importers simulate without an error: what is removed or changed is queued. The
\* rechecks of what is removed go with it; they are kept for OnRecord to speak of.
Detect ==
  /\ CachedBegun
  /\ \E also \in SUBSET Changed : \A f \in Rechecks(also) : source[f] # Gone /\ Checks(f)
  /\ phase' = "compile"
  /\ work' = [NoWork EXCEPT !.wave = {Component(f, FALSE, {}) : f \in Orphans \cup Changed},
                            !.reshaped = Removed # {}]
  /\ info' = [info EXCEPT !.tracked = @ \ Removed,
                          !.hashes = [f \in Files |-> IF f \in Removed THEN Null ELSE @[f]],
                          !.inits = @ \ Removed,
                          !.newMap = @ \/ Removed \cap info.inits # {}]
  /\ steady' = TRUE
  /\ UNCHANGED <<source, cache, mode, todo, builds, edits, doubts>>

\* An importer fails: the build ends before anything is compiled.
RejectChange ==
  /\ CachedBegun
  /\ \E also \in SUBSET Changed :
       /\ \A f \in Rechecks(also) : source[f] # Gone
       /\ \E f \in Rechecks(also) : ~Checks(f)
  /\ Stop
  /\ UNCHANGED <<source, cache, mode, history>>

\* An importer is gone as well: test reads it without looking.
RecheckGone ==
  /\ CachedBegun
  /\ \E also \in SUBSET Changed : \E f \in Rechecks(also) : source[f] = Gone
  /\ phase' = "panic"
  /\ UNCHANGED <<source, cache, mode, todo, info, work, history>>

Wave == IF work.wave # {} THEN work.wave ELSE work.next
Later == IF work.wave # {} THEN work.next ELSE {}

\* compile_component, and what compile_project makes of it up to the commit, for the files
\* as they are in one moment.
Compile(c) ==
  /\ phase = "compile"
  /\ c \in Wave
  /\ source[c.file] # Gone
  /\ LET f == c.file
         ok == Checks(f)
         loaded == {g \in Reach(f) : source[g] # Gone}
         tracked == IF c.new THEN info.tracked \cup {f} ELSE info.tracked
         added == tracked # info.tracked
         found == {Component(g, TRUE, ImportedBy(g, loaded)) : g \in loaded \ tracked}
     IN
     /\ objects' = IF ok THEN [objects EXCEPT ![Target][f] = Object(f)] ELSE objects
     /\ info' = [info EXCEPT
          !.tracked = tracked,
          !.rechecks[f] = IF added THEN c.importers
                          ELSE IF f \in tracked THEN @ \cup ImportedBy(f, loaded) ELSE @,
          !.inits = IF c.new THEN @ \cup {f} ELSE @,
          !.hashes[f] = IF added THEN source[f] ELSE @,
          !.newMap = @ \/ added,
          !.newHashes = @ \/ added]
     /\ work' = [work EXCEPT
          !.wave = Wave \ {c},
          !.next = {d \in Later : d.file \notin loaded \ tracked} \cup found,
          !.errors = @ \/ ~ok,
          !.reshaped = @ \/ found # {},
          !.awaiting = IF ok THEN f ELSE Null,
          !.compiled = IF ok THEN @ \cup {f} ELSE @,
          !.moved = IF ok THEN @ \ {f} ELSE @]
     /\ phase' = IF ok THEN "commit" ELSE "compile"
     /\ suspect' = IF ok THEN suspect \cup {<<Target, f>>} ELSE suspect
  /\ UNCHANGED <<source, marker, filemap, filehashes, globalsSet, mode, todo, builds, edits, steady, drift, mixed>>

\* parse_component_source of a file that is gone.
CompileGone ==
  /\ phase = "compile"
  /\ \E c \in Wave : source[c.file] = Gone
  /\ phase' = "panic"
  /\ UNCHANGED <<source, cache, mode, todo, info, work, history>>

\* commit_hash: the digest of the file as it is by now.
Commit ==
  /\ phase = "commit"
  /\ info' = [info EXCEPT !.hashes[work.awaiting] = source[work.awaiting], !.newHashes = TRUE]
  /\ work' = [work EXCEPT !.awaiting = Null]
  /\ phase' = "compile"
  /\ UNCHANGED <<source, cache, mode, todo, history>>

\* Variant for mutation: a failed build saves what it got done.
AggregateSaves ==
  /\ phase = "compile"
  /\ Wave = {}
  /\ IF work.reshaped THEN /\ globalsSet' = [globalsSet EXCEPT ![Target] = info.inits]
                          /\ drift' = drift \cup {Target}
     ELSE UNCHANGED <<globalsSet, drift>>
  /\ phase' = IF work.errors THEN "writeMap" ELSE "link"
  /\ work' = [work EXCEPT !.linked = work.errors]
  /\ UNCHANGED <<source, marker, filemap, filehashes, objects, mode, todo, info, builds, edits, steady, suspect, mixed>>

\* Variant for mutation: initializers are added, never dropped.
AggregateAdds ==
  /\ phase = "compile"
  /\ Wave = {}
  /\ IF work.reshaped THEN /\ globalsSet' = [globalsSet EXCEPT ![Target] = @ \cup info.inits]
                          /\ drift' = drift \cup {Target}
     ELSE UNCHANGED <<globalsSet, drift>>
  /\ IF work.errors THEN Stop ELSE phase' = "link" /\ UNCHANGED <<todo, info, work>>
  /\ UNCHANGED <<source, marker, filemap, filehashes, objects, mode, builds, edits, steady, suspect, mixed>>

\* All compiled: a new __globals_set.o if the set of files has changed.
Aggregate ==
  /\ phase = "compile"
  /\ Wave = {}
  /\ IF work.reshaped THEN /\ globalsSet' = [globalsSet EXCEPT ![Target] = info.inits]
                          /\ drift' = drift \cup {Target}
     ELSE UNCHANGED <<globalsSet, drift>>
  /\ IF work.errors THEN Stop ELSE phase' = "link" /\ UNCHANGED <<todo, info, work>>
  /\ UNCHANGED <<source, marker, filemap, filehashes, objects, mode, builds, edits, steady, suspect, mixed>>

\* lld_link of the tracked files' objects; whether it succeeds is not looked at.
Link ==
  /\ phase = "link"
  /\ phase' = "writeMap"
  /\ work' = [work EXCEPT !.linked = TRUE]
  /\ UNCHANGED <<source, cache, mode, todo, info, history>>

\* No toolchain for the target, or its native sources do not compile: compile_project
\* returns as from a clean link, nothing is saved, and what it knows goes on to the next.
LinkFails ==
  /\ phase = "link"
  /\ IF Len(todo) = 1 THEN Stop
     ELSE phase' = "begin" /\ todo' = Tail(todo) /\ work' = NoWork /\ UNCHANGED info
  /\ suspect' = suspect \cup (Others \X work.compiled)
  /\ drift' = IF work.reshaped THEN drift \cup Others ELSE drift
  /\ mixed' = (mixed \/ ~steady)
  /\ UNCHANGED <<source, cache, mode, builds, edits, steady>>

\* write_updates, the file map: the other targets lack what is new in it.
WriteMap ==
  /\ phase = "writeMap"
  /\ IF info.newMap
     THEN /\ filemap' = [tracked |-> info.tracked, rechecks |-> info.rechecks, inits |-> info.inits]
          /\ suspect' = suspect \cup
               (Others \X {f \in Files : filemap # Null /\ (f \in info.tracked) # (f \in filemap.tracked)})
          /\ drift' = IF filemap # Null /\ filemap.inits # info.inits THEN drift \cup Others ELSE drift
     ELSE UNCHANGED <<filemap, suspect, drift>>
  /\ info' = [info EXCEPT !.newMap = FALSE]
  /\ phase' = "writeHashes"
  /\ UNCHANGED <<source, marker, filehashes, objects, globalsSet, mode, todo, work, builds, edits, steady, mixed>>

\* write_updates, the digests: this target's objects are theirs now, the others' are not.
WriteHashes ==
  /\ phase = "writeHashes"
  /\ filehashes' = IF info.newHashes THEN info.hashes ELSE filehashes
  /\ suspect' = (suspect \ ({Target} \X ((work.compiled \ work.moved) \cap info.tracked)))
                  \cup (Others \X work.compiled)
  /\ drift' = IF work.reshaped THEN drift \ {Target} ELSE drift
  /\ mixed' = (mixed \/ ~steady)
  /\ IF ~work.linked THEN /\ phase' = "link"
                          /\ info' = [info EXCEPT !.newHashes = FALSE]
                          /\ UNCHANGED <<todo, work>>
     ELSE IF Len(todo) = 1 THEN Stop
     ELSE /\ phase' = "begin"
          /\ todo' = Tail(todo)
          /\ info' = [info EXCEPT !.newHashes = FALSE]
          /\ work' = NoWork
  /\ UNCHANGED <<source, marker, filemap, objects, globalsSet, mode, builds, edits, steady>>

Step ==
  \/ Identify \/ Initialize \/ RejectAll
  \/ Detect \/ RejectChange \/ RecheckGone
  \/ \E c \in Wave : Compile(c)
  \/ CompileGone \/ Commit \/ Aggregate \/ Link \/ LinkFails \/ WriteMap \/ WriteHashes

Next ==
  \/ Step
  \/ Kill
  \/ \E emitted \in SUBSET Files : KillInitialize(emitted)
  \/ \E f \in Files : \E text \in Written[f] \cup {Gone} : Edit(f, text)
  \/ \E plan \in Plans, m \in Modes : Start(plan, m)

Spec == Init /\ [][Next]_vars

---------------------------------------------------------------------------
(* Properties. *)

Components == [file : Files, new : BOOLEAN, importers : SUBSET Files]
Works ==
  [wave : SUBSET Components, next : SUBSET Components, errors : BOOLEAN, reshaped : BOOLEAN,
   linked : BOOLEAN, awaiting : Files \cup {Null}, compiled : SUBSET Files, moved : SUBSET Files]

TypeOK ==
  /\ source \in [Files -> Sources]
  /\ marker \in Modes \cup {Null}
  /\ filemap \in FileMaps \cup {Null}
  /\ filehashes \in Digests \cup {Null}
  /\ objects \in [Targets -> ObjectDirs \cup {Null}]
  /\ globalsSet \in [Targets -> SUBSET Files]
  /\ phase \in {"idle", "begin", "compile", "commit", "link", "writeMap", "writeHashes", "panic"}
  /\ mode \in Modes
  /\ todo \in Seq(Targets) /\ (todo = <<>> <=> phase = "idle")
  /\ info \in Infos \cup {Null}
  /\ work \in Works
  /\ builds \in Nat /\ edits \in Nat
  /\ steady \in BOOLEAN /\ mixed \in BOOLEAN
  /\ suspect \subseteq Targets \X Files /\ drift \subseteq Targets

\* An object never outlives the identity it was compiled under, whatever the target.
OneIdentity ==
  \A t \in Targets : objects[t] # Null =>
    \A f \in Files : objects[t][f] # Null => objects[t][f].mode = marker

\* The saved digest of a tracked file is that of its object, for every target, but for
\* four reasons: the object was written by a build that did not get to save, the digest
\* was saved by a build of another target, the file was edited between its compilation
\* and its commit, or a first build for the target found a map older than the sources.
BaselineExplained ==
  filemap # Null /\ filehashes # Null =>
    \A t \in Targets : objects[t] # Null =>
      \A f \in filemap.tracked :
        <<t, f>> \in suspect \/ (objects[t][f] # Null /\ objects[t][f].text = filehashes[f])

\* No object the link is for is in doubt and no file moves while the target is built.
Clean ==
  /\ phase = "link" /\ steady
  /\ Target \notin drift \/ work.reshaped
  /\ \A f \in info.tracked \cup Reach(Main) :
       <<Target, f>> \in suspect => f \in (work.compiled \ work.moved) \cap info.tracked

\* Every importer of a file reached is on the file's rechecks.
OnRecord == \A f \in Reach(Main) : \A g \in ImportsOf(f) : f \in info.rechecks[g]

\* Then, if every import is on record, what is linked is what a build from nothing would
\* link: every file reached has its object, of its text and of this identity, and its
\* initializer is called; and nothing the link needs is missing.
LinksSources ==
  Clean /\ OnRecord =>
    /\ \A f \in Reach(Main) : f \in info.tracked /\ objects[Target][f] = Object(f)
    /\ Reach(Main) \subseteq globalsSet[Target]
    /\ globalsSet[Target] \subseteq info.tracked
    /\ \A f \in info.tracked : objects[Target][f] # Null

\* And the program linked type-checks as a whole.
BreakageSurfaces == Clean /\ ~mixed /\ OnRecord => Checks(Main)

\* incremental.rs:400 of commit_hash: "so the baseline always matches the object that
\* was emitted".
BaselineMatchesObject ==
  phase = "idle" /\ filemap # Null /\ filehashes # Null =>
    \A t \in Targets : objects[t] # Null =>
      \A f \in filemap.tracked :
        objects[t][f] # Null => objects[t][f].text = filehashes[f]

\* incremental.rs:170-173 of generate_md5: a file deleted between passes reads as changed
\* "and the next pass recompiles or prunes it instead of crashing the build".
DeletionsPruned == phase # "panic"
====
