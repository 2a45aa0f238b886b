---- MODULE PackageInstall ----
(* Installing what was resolved: crates/peko-cli/src/registry/install.rs, the commands
   add, remove, install and update, the lock file, and the cache that all projects on
   a machine share (cache.rs, client.rs, pack.rs).

   Each project has one command running at a time; commands of different projects
   interleave, and any of them may be killed. A resolution is one step that returns
   any closed answer: Resolver shows that this is what it does. *)
EXTENDS Integers, FiniteSets

CONSTANTS Projects,
          Packages, Versions,
          Tables,        \* the dependency tables manifests may have
          TablesOf,      \* of each project, those its own may have
          LocalTable,    \* of each package that exists as a local directory, its table
          Deps,          \* of each published <<package, version>>, its table
          GatedPackages, \* proprietary packages, locked at the toolchain's version
          Local, Gated,  \* lock entries other than a registry version
          Rank,          \* the order of the package names, which a lock file is sorted by
          NoLock,        \* no lock file
          Torn,          \* a file cut off where it does not parse
          MaxCrashes     \* bound on killed commands

Sources == DOMAIN Deps \cup {<<g, Gated>> : g \in GatedPackages}

ASSUME InstallAssumption ==
  /\ Tables \subseteq UNION {[s -> {Local} \cup SUBSET Versions] : s \in SUBSET Packages}
  /\ TablesOf \in [Projects -> SUBSET Tables]
  /\ DOMAIN LocalTable \subseteq Packages
  /\ DOMAIN Deps \subseteq Packages \X Versions
  /\ GatedPackages \subseteq Packages /\ MaxCrashes \in Nat
  /\ Rank \in [Packages -> Nat]
  /\ Torn \notin Tables
  /\ \A s \in SUBSET Packages : {NoLock, Torn} \cap [s -> Versions \cup {Local, Gated}] = {}

VARIABLES
  manifest,    \* of each project, the table in its peko.toml, or Torn
  lock,        \* of each project, its peko.lock: a map of entries, NoLock or Torn
  tree,        \* of each source, the files unpacked into the cache
  blob,        \* of each source, its .pkpkg in the cache: "none", "torn" or "good"
  pc,          \* what each project's command does
  command,     \* which command runs
  want,        \* the manifest the command loaded
  answer,      \* the entries the command installs
  queue,       \* the sources it has still to fetch
  fetching,    \* the source being fetched, and the files still to write
  crashes,
  cut,         \* history: sources whose unpacking was cut short
  shortened    \* history: projects whose lock was cut off and not written anew

files == <<manifest, lock, tree, blob>>
proc == <<command, want, answer, queue, fetching>>
history == <<crashes, cut, shortened>>
vars == <<files, pc, proc, history>>

\* A source tree: its manifest, and everything else.
Files == {"peko.toml", "rest"}
Nothing == <<>>

Commands == {"add", "remove", "install", "update", "build"}
Installing(cmd) == cmd \in {"install", "build"}
Registry == Packages \X Versions

---------------------------------------------------------------------------
(* Helpers. *)

\* lock_satisfies_manifest, for one dependency and its lock entry.
Admits(dependency, entry) ==
  IF dependency = Local THEN entry = Local
  ELSE entry = Gated \/ (entry # Local /\ entry \in dependency)

LockSatisfies(entries, table) ==
  \A p \in DOMAIN table : p \in DOMAIN entries /\ Admits(table[p], entries[p])

\* A requirement is met by an answer; a path dependency overrides a registry one.
Meets(entries, p, dependency) ==
  p \in DOMAIN entries /\ (entries[p] = Local \/ Admits(dependency, entries[p]))

\* The tables that may come into a resolution of a package.
TablesUnder(p) ==
  {LocalTable[q] : q \in {p} \cap DOMAIN LocalTable}
    \cup {Deps[s] : s \in {r \in DOMAIN Deps : r[1] = p}}

\* The names a resolution of a table can come across.
Reach(table) ==
  LET closed(s) == /\ DOMAIN table \subseteq s
                   /\ \A p \in s : \A t \in TablesUnder(p) : DOMAIN t \subseteq s
  IN  {p \in Packages : \A s \in SUBSET Packages : closed(s) => p \in s}

\* Every entry's own dependencies are among the entries.
SelfContained(entries) ==
  \A p \in DOMAIN entries :
    /\ entries[p] = Local => /\ p \in DOMAIN LocalTable
         /\ \A d \in DOMAIN LocalTable[p] : Meets(entries, d, LocalTable[p][d])
    /\ entries[p] = Gated => p \in GatedPackages
    /\ entries[p] \in Versions => /\ <<p, entries[p]>> \in DOMAIN Deps
         /\ \A d \in DOMAIN Deps[<<p, entries[p]>>] :
              Meets(entries, d, Deps[<<p, entries[p]>>][d])

\* What Resolver promises of an answer (AnswerClosed).
ClosedFor(entries, table) ==
  /\ \A p \in DOMAIN table : Meets(entries, p, table[p])
  /\ SelfContained(entries)

\* The answers a resolution of a table may give. Entries of choices that were replaced
\* on the way may be left over.
Answers ==
  [t \in Tables |->
     {f \in UNION {[s -> Versions \cup {Local, Gated}] : s \in SUBSET Reach(t)} :
        ClosedFor(f, t)}]

\* The sources of an answer that live in the cache.
ToFetch(entries) == {<<p, entries[p]>> : p \in {q \in DOMAIN entries : entries[q] # Local}}

\* is_unpacked: the manifest is there.
IsUnpacked(s) == "peko.toml" \in tree[s]
IsWhole(s) == tree[s] = Files

PartOf(f, g) == DOMAIN f \subseteq DOMAIN g /\ \A p \in DOMAIN f : f[p] = g[p]

\* Lockfile::new sorts by name, and a list of packages is optional (lock.rs:26): a lock
\* cut off after its version, or behind an entry, parses as one with the first entries.
Prefixes(entries) ==
  {[p \in d |-> entries[p]] : d \in
     {e \in SUBSET DOMAIN entries :
        \A p \in e, q \in DOMAIN entries : Rank[q] < Rank[p] => q \in e}}

Go(j, place) == pc' = [pc EXCEPT ![j] = place]

\* A command is over; what it had in memory is gone.
AtRest(j) == pc[j] \in {"idle", "updated", "reproduced", "failed"}
Fail(j) ==
  /\ Go(j, "failed")
  /\ command' = [command EXCEPT ![j] = "install"]
  /\ want' = [want EXCEPT ![j] = Nothing] /\ answer' = [answer EXCEPT ![j] = Nothing]
  /\ queue' = [queue EXCEPT ![j] = {}] /\ fetching' = [fetching EXCEPT ![j] = Nothing]

---------------------------------------------------------------------------
(* Commands. *)

Init ==
  /\ manifest \in {m \in [Projects -> Tables] : \A j \in Projects : m[j] \in TablesOf[j]}
  /\ lock = [j \in Projects |-> NoLock]
  /\ tree = [s \in Sources |-> {}]
  /\ blob = [s \in Sources |-> "none"]
  /\ pc = [j \in Projects |-> "idle"]
  /\ command = [j \in Projects |-> "install"]
  /\ want = [j \in Projects |-> Nothing]
  /\ answer = [j \in Projects |-> Nothing]
  /\ queue = [j \in Projects |-> {}]
  /\ fetching = [j \in Projects |-> Nothing]
  /\ crashes = 0 /\ cut = {} /\ shortened = {}

\* A command is started; add and remove begin with the manifest, which must be readable.
Start(j, cmd) ==
  /\ AtRest(j)
  /\ command' = [command EXCEPT ![j] = cmd]
  /\ Go(j, IF cmd \in {"add", "remove"} /\ manifest[j] # Torn THEN "edit" ELSE "load")
  /\ want' = [want EXCEPT ![j] = Nothing] /\ answer' = [answer EXCEPT ![j] = Nothing]
  /\ UNCHANGED <<files, queue, fetching, history>>

\* add_dependency and remove_dependency: write_document opens the manifest, which
\* truncates it, ...
Edit(j) ==
  /\ pc[j] = "edit"
  /\ \E t \in TablesOf[j] :
       /\ IF command[j] = "add" THEN DOMAIN manifest[j] \subseteq DOMAIN t
          ELSE PartOf(t, manifest[j])
       /\ want' = [want EXCEPT ![j] = t]
       /\ Go(j, IF command[j] = "remove" /\ t = manifest[j] THEN "unchanged" ELSE "edited")
  /\ manifest' = [manifest EXCEPT ![j] = Torn]
  /\ UNCHANGED <<lock, tree, blob, command, answer, queue, fetching, history>>

\* ... and writes it. To remove what is not in it ends there.
Edited(j) ==
  /\ pc[j] \in {"edited", "unchanged"}
  /\ manifest' = [manifest EXCEPT ![j] = want[j]]
  /\ Go(j, IF pc[j] = "edited" THEN "load" ELSE "idle")
  /\ command' = [command EXCEPT ![j] = IF pc[j] = "edited" THEN "update" ELSE "install"]
  /\ want' = [want EXCEPT ![j] = Nothing]
  /\ UNCHANGED <<lock, tree, blob, answer, queue, fetching, history>>

\* The user saves another manifest while no command of the project runs.
UserEdits(j, t) ==
  /\ AtRest(j) /\ manifest[j] # t
  /\ manifest' = [manifest EXCEPT ![j] = t]
  /\ Go(j, "idle")
  /\ want' = [want EXCEPT ![j] = Nothing] /\ answer' = [answer EXCEPT ![j] = Nothing]
  /\ UNCHANGED <<lock, tree, blob, command, queue, fetching, history>>

\* ensure_dependencies: a build of a project without dependencies asks for nothing.
NothingToEnsure(j) ==
  /\ pc[j] = "load" /\ command[j] = "build" /\ manifest[j] = Nothing
  /\ Go(j, "idle")
  /\ command' = [command EXCEPT ![j] = "install"]
  /\ UNCHANGED <<files, want, answer, queue, fetching, history>>

\* Manifest::discover: a manifest cut off inside a line does not parse.
LoadFails(j) ==
  /\ pc[j] = "load" /\ manifest[j] = Torn
  /\ Fail(j)
  /\ UNCHANGED <<files, history>>

\* install: nor does a lock cut off before its version is complete or inside an entry.
LockFails(j) ==
  /\ pc[j] = "load" /\ manifest[j] # Torn
  /\ ~(command[j] = "build" /\ manifest[j] = Nothing)
  /\ Installing(command[j]) /\ lock[j] = Torn
  /\ Fail(j)
  /\ UNCHANGED <<files, history>>

\* Variant for mutation: any lock is reproduced.
ReproducesAny(j) == Installing(command[j]) /\ lock[j] \notin {NoLock, Torn}

\* install: the lock satisfies the manifest and is reproduced.
Reproduces(j) ==
  /\ Installing(command[j]) /\ lock[j] \notin {NoLock, Torn}
  /\ LockSatisfies(lock[j], manifest[j])
Reproduce(j) ==
  /\ pc[j] = "load" /\ manifest[j] # Torn
  /\ ~(command[j] = "build" /\ manifest[j] = Nothing)
  /\ Reproduces(j)
  /\ want' = [want EXCEPT ![j] = manifest[j]]
  /\ answer' = [answer EXCEPT ![j] = lock[j]]
  /\ queue' = [queue EXCEPT ![j] = ToFetch(lock[j])]
  /\ Go(j, "fetch_locked")
  /\ command' = [command EXCEPT ![j] = "install"]
  /\ UNCHANGED <<files, fetching, history>>

\* update, and install without a lock that satisfies the manifest, resolve afresh.
Load(j) ==
  /\ pc[j] = "load" /\ manifest[j] # Torn
  /\ ~(Installing(command[j]) /\ lock[j] = Torn)
  /\ ~Reproduces(j)
  /\ ~(command[j] = "build" /\ manifest[j] = Nothing)
  /\ want' = [want EXCEPT ![j] = manifest[j]]
  /\ Go(j, "resolve")
  /\ command' = [command EXCEPT ![j] = "install"]
  /\ UNCHANGED <<files, answer, queue, fetching, history>>

Resolved(j) ==
  /\ pc[j] = "resolve"
  /\ \E a \in Answers[want[j]] :
       /\ answer' = [answer EXCEPT ![j] = a]
       /\ queue' = [queue EXCEPT ![j] = ToFetch(a)]
  /\ Go(j, "fetch")
  /\ UNCHANGED <<files, command, want, fetching, history>>
ResolveFails(j) ==
  /\ pc[j] = "resolve"
  /\ Fail(j)
  /\ UNCHANGED <<files, history>>

---------------------------------------------------------------------------
(* Fetching one source: fetch_registry and fetch_gated. The order of the sources,
   which update and fetch_locked choose differently, is left open. *)

Fetching(j) == pc[j] \in {"fetch", "fetch_locked"}

\* What is unpacked already is not fetched.
SkipSource(j, s) ==
  /\ Fetching(j) /\ fetching[j] = Nothing /\ s \in queue[j]
  /\ IsUnpacked(s)
  /\ queue' = [queue EXCEPT ![j] = @ \ {s}]
  /\ UNCHANGED <<files, pc, command, want, answer, fetching, history>>

\* Variant for mutation: a cached blob is used without looking at its checksum, and
\* unpacked as far as it goes.
UseBlobUnchecked(j, s) ==
  /\ Fetching(j) /\ fetching[j] = Nothing /\ s \in queue[j] \cap Registry
  /\ ~IsUnpacked(s) /\ blob[s] # "none"
  /\ fetching' = [fetching EXCEPT ![j] = [source |-> s, files |->
                     IF blob[s] = "good" THEN Files ELSE {"peko.toml"}]]
  /\ UNCHANGED <<files, pc, command, want, answer, queue, history>>

\* download_blob finds the cached blob good: its checksum tells.
UseBlob(j, s) ==
  /\ Fetching(j) /\ fetching[j] = Nothing /\ s \in queue[j] \cap Registry
  /\ ~IsUnpacked(s) /\ blob[s] = "good"
  /\ fetching' = [fetching EXCEPT ![j] = [source |-> s, files |-> Files]]
  /\ UNCHANGED <<files, pc, command, want, answer, queue, history>>

\* The cached blob is missing or its checksum is wrong: download_blob asks the network,
\* and meanwhile other processes work on the cache. fetch_gated asks for a bundle.
Request(j, s) ==
  /\ Fetching(j) /\ fetching[j] = Nothing /\ s \in queue[j]
  /\ ~IsUnpacked(s) /\ (s \in Registry => blob[s] # "good")
  /\ fetching' = [fetching EXCEPT ![j] = [source |-> s, files |-> {"request"} \cup Files]]
  /\ UNCHANGED <<files, pc, command, want, answer, queue, history>>

Requesting(j) == fetching[j] # Nothing /\ "request" \in fetching[j].files

\* The blob arrives, its checksum is right, and write_file opens the cached one, which
\* truncates it, whatever it has become since it was looked at, ...
Download(j) ==
  /\ Requesting(j) /\ fetching[j].source \in Registry
  /\ blob' = [blob EXCEPT ![fetching[j].source] = "torn"]
  /\ fetching' = [fetching EXCEPT ![j].files = {"blob"} \cup Files]
  /\ UNCHANGED <<manifest, lock, tree, pc, command, want, answer, queue, history>>

\* ... and the blob is complete before unpacking begins, unless another process is in
\* the middle of writing it.
BlobWritten(j) ==
  /\ fetching[j] # Nothing /\ "blob" \in fetching[j].files
  /\ \E b \in {"good", "torn"} :
       /\ b = "torn" => \E i \in Projects \ {j} :
            /\ fetching[i] # Nothing /\ "blob" \in fetching[i].files
            /\ fetching[i].source = fetching[j].source
       /\ blob' = [blob EXCEPT ![fetching[j].source] = b]
  /\ fetching' = [fetching EXCEPT ![j].files = Files]
  /\ UNCHANGED <<manifest, lock, tree, pc, command, want, answer, queue, history>>

\* A gated bundle is unpacked from memory, for an account that is signed in: for a
\* gated package, and for a registry package that could not be downloaded.
Bundle(j) ==
  /\ Requesting(j) /\ fetching[j].source[1] \in GatedPackages
  /\ fetching' = [fetching EXCEPT ![j].files = Files]
  /\ UNCHANGED <<files, pc, command, want, answer, queue, history>>

\* No network, no session, a wrong checksum, or refused.
FetchFails(j) ==
  /\ Requesting(j)
  /\ Fail(j)
  /\ UNCHANGED <<files, history>>

\* What is fetched is in memory, and is being unpacked.
Unpacks(j) == fetching[j] # Nothing /\ fetching[j].files \subseteq Files

\* unpack writes the files of the archive, in the archive's order.
UnpackFile(j, file) ==
  /\ Unpacks(j) /\ file \in fetching[j].files
  /\ tree' = [tree EXCEPT ![fetching[j].source] = @ \cup {file}]
  /\ IF fetching[j].files = {file}
     THEN /\ fetching' = [fetching EXCEPT ![j] = Nothing]
          /\ queue' = [queue EXCEPT ![j] = @ \ {fetching[j].source}]
     ELSE /\ fetching' = [fetching EXCEPT ![j].files = @ \ {file}]
          /\ UNCHANGED queue
  /\ UNCHANGED <<manifest, lock, blob, pc, command, want, answer, history>>

\* unpack fails part way: nothing is taken back.
UnpackFails(j) ==
  /\ Unpacks(j) /\ crashes < MaxCrashes
  /\ cut' = cut \cup {fetching[j].source} /\ crashes' = crashes + 1
  /\ Fail(j)
  /\ UNCHANGED <<files, shortened>>

---------------------------------------------------------------------------
(* The end of a command. *)

\* Variant for mutation: a reproduced lock is written again.
ReproducedSaving(j) ==
  /\ pc[j] = "fetch_locked" /\ fetching[j] = Nothing /\ queue[j] = {}
  /\ lock' = [lock EXCEPT ![j] = Torn]
  /\ Go(j, "save")
  /\ UNCHANGED <<manifest, tree, blob, proc, history>>

\* Variant for mutation: the lock is saved before everything is fetched.
SaveEarly(j) ==
  /\ pc[j] = "fetch" /\ fetching[j] = Nothing
  /\ lock' = [lock EXCEPT ![j] = Torn]
  /\ Go(j, "save")
  /\ UNCHANGED <<manifest, tree, blob, proc, history>>

\* fetch_locked is through; the lock stays as it is.
Reproduced(j) ==
  /\ pc[j] = "fetch_locked" /\ fetching[j] = Nothing /\ queue[j] = {}
  /\ Go(j, "reproduced")
  /\ UNCHANGED <<files, proc, history>>

\* update saves the lock: save_to_root truncates the file, ...
Save(j) ==
  /\ pc[j] = "fetch" /\ fetching[j] = Nothing /\ queue[j] = {}
  /\ lock' = [lock EXCEPT ![j] = Torn]
  /\ Go(j, "save")
  /\ UNCHANGED <<manifest, tree, blob, proc, history>>

\* ... and writes it.
Saved(j) ==
  /\ pc[j] = "save"
  /\ lock' = [lock EXCEPT ![j] = answer[j]]
  /\ shortened' = shortened \ {j}
  /\ Go(j, "updated")
  /\ UNCHANGED <<manifest, tree, blob, proc, crashes, cut>>

\* The command is killed, or the machine goes down: what was being unpacked stays as
\* far as it is. Files that are not being written are as they were.
Dies(j) ==
  /\ ~AtRest(j) /\ crashes < MaxCrashes
  /\ crashes' = crashes + 1
  /\ cut' = IF Unpacks(j) THEN cut \cup {fetching[j].source} ELSE cut
  /\ Fail(j)
  /\ UNCHANGED <<tree, blob>>
Crash(j) ==
  /\ Dies(j) /\ pc[j] \notin {"edited", "unchanged", "save"}
  /\ UNCHANGED <<manifest, lock, shortened>>

\* It is killed while it writes the manifest: the file does not parse, or ends behind a
\* line and has some of its dependencies.
CrashEditing(j) ==
  /\ Dies(j) /\ pc[j] \in {"edited", "unchanged"}
  /\ \E t \in {Torn} \cup {u \in TablesOf[j] : PartOf(u, want[j])} :
       manifest' = [manifest EXCEPT ![j] = t]
  /\ UNCHANGED <<lock, shortened>>

\* It is killed while it writes the lock: likewise, with the first of its entries.
CrashSaving(j) ==
  /\ Dies(j) /\ pc[j] = "save"
  /\ \E e \in {Torn} \cup Prefixes(answer[j]) :
       /\ lock' = [lock EXCEPT ![j] = e]
       /\ shortened' = IF e = answer[j] THEN shortened \ {j} ELSE shortened \cup {j}
  /\ UNCHANGED manifest

Run(j) ==
  \/ Edit(j) \/ Edited(j) \/ NothingToEnsure(j)
  \/ LoadFails(j) \/ LockFails(j) \/ Reproduce(j) \/ Load(j)
  \/ Resolved(j) \/ ResolveFails(j)
  \/ \E s \in Sources : SkipSource(j, s) \/ UseBlob(j, s) \/ Request(j, s)
  \/ Download(j) \/ Bundle(j) \/ FetchFails(j) \/ BlobWritten(j)
  \/ \E file \in Files : UnpackFile(j, file)
  \/ Reproduced(j) \/ Save(j) \/ Saved(j)

Next == \E j \in Projects : Run(j) \/ UnpackFails(j)
                              \/ Crash(j) \/ CrashEditing(j) \/ CrashSaving(j)
                              \/ \E cmd \in Commands : Start(j, cmd)
                              \/ \E t \in TablesOf[j] : UserEdits(j, t)

Spec == Init /\ [][Next]_vars

---------------------------------------------------------------------------
(* Properties. *)

\* A path dependency of a local package stands in for a direct registry dependency.
Overridden(entries, table) ==
  \E p \in DOMAIN table : table[p] # Local /\ p \in DOMAIN entries /\ entries[p] = Local

\* A command that succeeded leaves a lock that the next install reproduces and that
\* names everything the manifest needs, dependencies of dependencies included, although
\* a reproduced lock is looked at for the direct ones only (install.rs:295-297), was
\* written for an earlier manifest and may have outlived edits and crashes. Not when it
\* was reproduced from one that a crash had cut off between two entries; and a manifest
\* whose direct dependency is overridden by a path never has a lock that satisfies it.
LockSettles ==
  \A j \in Projects : pc[j] \in {"updated", "reproduced"} =>
    /\ lock[j] \notin {NoLock, Torn} /\ manifest[j] = want[j]
    /\ Overridden(lock[j], want[j]) \/ LockSatisfies(lock[j], manifest[j])
    /\ ClosedFor(lock[j], manifest[j]) \/ (pc[j] = "reproduced" /\ j \in shortened)

\* Installing from a lock never changes it: only a command that resolved writes it.
Reproducible ==
  [][\A j \in Projects : lock'[j] # lock[j] => pc[j] \in {"fetch", "save"}]_vars

\* When a lock is written, or reproduced, everything it names has been unpacked at
\* least as far as its manifest.
LockedIsThere ==
  \A j \in Projects : pc[j] \in {"save", "updated", "reproduced"} =>
    \A s \in ToFetch(answer[j]) : IsUnpacked(s)

\* A source tree that counts as unpacked is whole, or some process is unpacking it at
\* this moment, or one was interrupted in the middle of it.
IncompleteExplained ==
  \A s \in Sources : IsUnpacked(s) =>
    \/ IsWhole(s)
    \/ s \in cut
    \/ \E j \in Projects : Unpacks(j) /\ fetching[j].source = s
====
