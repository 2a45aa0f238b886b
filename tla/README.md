# Peko toolchain: a TLA+ verification project

This directory models the parts of the Peko repository whose correctness rests on
the order in which things happen: the moving garbage collector of the runtime
library, the concurrency library built on it, and, of the tools, dependency
resolution and installation, incremental builds and the language server. Each module
is read from the C, Peko and Rust sources, checked with TLC on small instances, and
the results that matter most are proved with TLAPS for every value of the constants.

Paths below are relative to the repository; `RT` is `toolkit/std/c/runtime`, `TH` is
`toolkit/std/c/threads/threads.c`, `CLI` is `crates/peko-cli/src` and `LSP` is
`crates/peko-lsp/src`.

## 1. The system

Peko is a compiled language. The repository holds its compiler
(`crates/peko-core`, `crates/peko-llvm`), its command line (`crates/peko-cli`:
builds, packages, bundles, deployment), its language server (`crates/peko-lsp`)
and its toolkit (`toolkit/std`, `toolkit/pekoui`): the runtime that is linked into
every program, the standard library and the user-interface library.

| Component | State it keeps | Operations | What makes it hard | Correct when |
|---|---|---|---|---|
| Thread registry and stop-the-world (`RT/threads.c`, `RT/pgc.c`) | registry slots, `parked`, captured stack tops, the request flag, `g_collecting`, two condition variables | attach, detach, poll and safepoint, begin and end of a native blocking call, collect | a cycle needs the cooperation of every thread, threads come and go, two may start a cycle at once | one driver; nobody runs managed code while objects move; every root is rewritten; every cycle ends and everybody resumes |
| Heap and allocator (`RT/heap.c`, `RT/mark.c`, `RT/alloc.c`) | one region, a bump pointer, a buffer per thread, headers with size, forward word and descriptor | allocate (fast, slow, retry), fill gaps, mark, forward, update, move | the heap has no free list: every pass walks it by the sizes it finds, and objects move | the walk reaches exactly the top; a program cannot tell that objects moved; garbage is reclaimed |
| Handle table (`RT/roots.c`) | entries, free list through them, capacity | create, get, release, visit by the collector | growth, reuse, repeated release, addresses that change under it | a live handle leads to its object; the free list is a list; no slot is lost |
| Stack maps (`RT/stackmap.c`) | parsed safepoint records | parse, walk a thread's frames | compiler-emitted tables | every managed slot of a captured frame is visited |
| Threads, scopes (`TH`, `toolkit/std/threads.peko`) | function data, closure-context handle | create, start blocking, kill, free; join all | the context is handed from one thread to another while it may move | the context is always rooted; resources are freed once |
| Channels (`TH`) | ring or single cell, counters, `closed` | send, try_send, recv, try_recv, close, free | one condition variable for everybody, two disciplines | first in first out, each item once; no lost wake-up; no handle left behind |
| Futures (`TH`) | result handle, `complete`, `cancelled` | set_result, await, await_timeout, cancel, free | timeouts and spurious wake-ups, several awaiters | the result has one holder; every await returns, and returns nothing only with a reason |
| Cancellation tokens (`TH`) | `cancelled`, a callback and its handle | on_cancel, cancel, free | registration races with cancellation | the callback runs once, its handle is released once |
| Sockets and WebSockets (`toolkit/std/c/sockets`) | connections and their threads | accept, read, write, close | partial reads, close handshake | frames arrive whole and in order |
| Processes (`toolkit/std/c/process`) | pipes, exit status | spawn, read, wait, kill | blocking reads | output complete before exit is reported |
| Peko UI bridge (`toolkit/pekoui`) | pending requests | call, answer, event | answers out of order | each call gets its own answer |
| Language server (`LSP/server`, `LSP/analyzer`) | open documents, tracked texts behind a lock, a memo of simulations, preloaded packages, published diagnostics | open, change, save, close, requests, the background preload | handlers run concurrently and take the lock in any order; a simulation depends on other files and on the disk | the memo is never stale; diagnostics end up those of the document |
| Package registry client, lock file (`CLI/registry`, `CLI/commands`) | requirements, choices and indices of one resolution; manifests, lock files, the cache all projects share | resolve, install, update, add, remove | choices are revised in later passes; the registry changes meanwhile; commands of several projects share a cache and may be killed | an answer is closed and best; a lock settles, is reproduced unchanged, and never runs ahead of the cache |
| Builds (`CLI/execution`) | objects per target, digests, file map with rechecks and initializers, the identity marker | detect changes, re-check importers, recompile, aggregate, link, save | five files written one after the other, two targets over one map, edits while a build runs, kills | what is linked is what a build from nothing would link |
| Compiler front end, code generator, formatter, bundlers, signing, setup, authentication | trees, files | sequential passes | size | language semantics |

How they interact: compiled code calls the allocator, polls the collector's flag
and brackets native calls; the allocator calls the collector; the collector stops
every attached thread, then visits global roots, handles and stacks and moves the
objects; the threads library wraps every managed value it keeps beyond a call in a
handle, and brackets every wait so that a blocked thread counts as parked. Every
concurrent Peko program stands on that. The tools meet through files: `add`, `remove`
and `update` write the manifest and the lock that a build's `ensure_dependencies`
installs from, the cache is what both the builds and the language server read packages
from, and the editor writes the sources while either of them runs.

## 2. Modules

| Module | Models | Built on |
|---|---|---|
| `PgcWorld` | registry, safepoints, blocking calls, the driver `pgc_collect`, the trampoline's hand-over of the closure context | |
| `PgcCompact` | the passes of one cycle as operators on heap words: walk, index, resolve, mark, forward, update, move | |
| `PgcHeap` | allocation, buffers, attach and detach, collection as one step, the program's loads and stores | `PgcCompact` |
| `ManagedStore` | abstract: objects without addresses and without a collector | implemented by `PgcHeap` |
| `PgcHandles` | the handle table | |
| `CollectorProofs` | the theorems about the three | `PgcWorld`, `PgcHeap`, `PgcHandles` |
| `Channel` | buffered and rendezvous channels | |
| `BoundedChannel` | abstract: a bounded queue | implemented by `Channel` |
| `ChannelProofs` | its theorems | `Channel` |
| `Future`, `FutureProofs` | futures and the worker of `make_future` | |
| `CancelToken`, `CancelTokenProofs` | cancellation tokens | |
| `Resolver`, `ResolverProofs` | one dependency resolution against a registry that changes, and its theorems | |
| `PackageInstall`, `PackageInstallProofs` | commands of several projects that install what was resolved into one cache, and its theorems | relies on what `Resolver` promises |
| `LanguageServer`, `LanguageServerProofs` | documents, handlers, the analysis engine, and its theorems | |
| `IncrementalBuild`, `IncrementalBuildProofs` | builds over the incremental cache, and its theorems | |
| `MC*` | instances for TLC | the module named |

In each module an action is one critical section of the code, or one access made
outside the lock. A critical section never blocks but in a condition wait, which
gives the lock up, so the lock itself needs no variable. A condition variable is
the set of threads asleep on it; a broadcast empties the set, and
`SpuriousWake` takes any member out, because POSIX allows it. Definitions whose
comment begins with "Variant for mutation" are not part of the specification:
each is the code with one plausible mistake, used to confirm that a property
notices it.

### PgcWorld

`flag` is `pgc_collection_requested`; `collecting` is `g_collecting`; `inUse`,
`parked` and `captured` are the registry's fields as sets of threads (`captured` is
a non-null `stack_top`, which decides whether the stack walk visits the thread);
`waitResume` and `waitParked` are the sleepers on the two condition variables; `pc`
says where each thread is. Objects are abstracted to what the protocol must get
right: `heapSide` changes with every move, `held` is the pointer in a thread's
frames and `handle` the closure context's entry, each stamped with the side it was
current for. An address of the other side is stale. `astray` is history: the threads
whose frames the passes may have gone by, because they attached when the registry was
full or while a driver's passes ran, and the threads those have started. The poll
inlined by the code generator and the condition variables are external.

`pgc_enter_safepoint` is `EnterSafepoint` up to the wait and `Resume` from a
wake-up on; `pgc_collect` is `CallCollect`, `Claim` or `LoseClaim`, `RaiseFlag` and
`RecheckParked` (`pgc_stop_the_world`), `CaptureSelf`, `UpdateReferences`,
`MoveObjects`, `StartWorld`, `ClearCollecting`.

### PgcCompact, PgcHeap, ManagedStore

The region is a function from word addresses to integers. Words matter: the sizes,
descriptors and forward words that the passes read are in the same memory as the
payloads, so a walk that goes astray reads garbage, as it would in the program.
Descriptors are negative, addresses are far above sizes and data. The walk and the
marking are one operator, `Reached`, what can be reached from a start; the sweep that
assigns the new addresses (`compact`) and the copies (`Moved`) are functions of the
address they have come to. `PgcHeap` has the
allocator's three ways to serve a request, including the tail that is too short for
a header (`Absorb`) and the tail filler (`Filled`), and `Collect`, one step, which
`PgcWorld` justifies: the world is stopped from the first pass to the last. Pins are
left out, because nothing in the repository calls `pgc_pin`.
Sizes are scaled (a buffer is a few words instead of 256 KiB), proportions that
matter are not: a header of three words, payloads in pairs of words, and so gaps of
1, 2, 3 and more words.

`Transparent` states that the heap implements `ManagedStore`, where nothing moves.
The refinement mapping reads each root as the identity (a tag written at
allocation) of the object the program's own reference was made from, and its
offset, so an address that the passes lead to another object, or to the wrong place
in its own, is a step the abstract module does not have. The mapping can do so if there is
a longest shape and every shape has room for a tag, but for closures, which are read as
objects without an identity; `Distinguishable` says so, and `MCPgcHeap` assumes it, so
that TLC evaluates it on the shapes of the run.

### PgcHandles

`object`, `next_free`, `free_head` and `capacity` are the fields of `RT/roots.c`;
`issued` is the object each live handle was created for. A release is tried with
every index, live or not. `HandlesCollect` moves the objects and visits the entries. The
specification is called `HandlesSpec`, and its parts alike, as `HeapSpec` is in
`PgcHeap`, so that these modules can be extended together with `PgcWorld`.

### Channel and BoundedChannel

A thread's `pc` says what it does in the channel: `enter` and `try` before the lock,
`full`, `offered` and `empty` in a wait loop, `took` after the unlock with a handle
still to release. `capacity` is chosen when the channel is made. `rooted` is the set
of items whose handle is live. `BoundedChannel` is a sequence with a bound;
`FirstInFirstOut` states that `Channel` implements it, reading the ring from `head`.

### Future, CancelToken

`Future` has the worker of `make_future` (`RootResult`, `SetResult`), any number of
awaiters, timed or not, cancellation and free; `fate` is history: whether an await has
returned the value, or has taken it and not returned it. `CancelToken` has registrations and
cancellations that race; each registration stands for its closure's handle.

### Resolver

`requirements`, `paths`, `chosen`, `indices` and `gated` are the fields of
`ResolveState`; `resolve` is `Seed`, then `BeginPass` ... `EndPass` until a pass
changes nothing; the loop's limit of 1000 passes is left out, and `FewPasses` says why
it may be. Within a pass `refine` takes the names
known at its start in the order of the map's keys, one action a name: `SkipName`,
`KeepChoice`, `ChooseVersion`, `ChooseGated`, `BadRequirement`, `NoVersion`, `NoIndex`,
`BadIndex`. A version requirement is the set of versions it admits, which is all that
semver contributes, or `Invalid`; one that is needed and does not parse ends the
resolution after the dependencies before it were recorded (`Unreadable`, `ReadFirst`).
The registry is a variable of its own: `Yank` and `Publish` happen between any two
fetches, and a fetch that cannot reach the network falls back on the cached body. A body
may be lost on the way or not parse; it is written to the cache before it is parsed, so
a `Garbled` one stays there. Requirements of a choice that was replaced stay, as in the
code. A cached body is written in one step: the resolver is the only reader modelled.

### PackageInstall

`pc` says where the one running command of each project is: `edit` and `edited` for the
two halves of writing `peko.toml`, `load`, `resolve`, `fetch` for `update`,
`fetch_locked` for reproducing a lock, `save` for the half-written `peko.lock`. Files
are written in two steps, torn and then whole, and a source tree file by file, where
only its manifest and the rest matter, because `is_unpacked` looks for the manifest.
`download_blob` is `UseBlob`, or `Request` (the cached blob is looked at), `Download`
(it arrives, and the cached one is truncated, whatever it has become meanwhile) and
`BlobWritten`; `fetching` says in its `files` how far that is. A resolution is one step
to any answer that is closed, left-over entries included; that is what `Resolver`
promises. Commands of different projects interleave over the cache; any may be killed,
or fail to unpack (`UnpackFails`), `MaxCrashes` times. A command killed while it writes
leaves its file `Torn`, one that does not parse, or cut off where it does: a lock with
the first of its entries (`CrashSaving`, `Prefixes`), a manifest with some of its
dependencies (`CrashEditing`). `shortened` is history: the projects whose lock is such
a one.

### LanguageServer

A handler is what it has still to do: `analyze` or `close` under the write lock, then
`publish`. What happens before the first await (the document store) is one step with
the notification's arrival. A simulation is the function from the files it read to the
contents it found there; the memo, the preloaded modules and the disk are functions of
the same contents, so staleness is inequality. `since` is history: what each import has
had on disk since the memo was last cleared. `calm` is history: whether the
notifications of a file have been handled one at a time.

### IncrementalBuild

`source` is the project, `marker`, `filemap`, `filehashes`, `objects` and `globalsSet`
are the files of `.peko/incremental`, `info` is `project.incremental_info` in memory.
`compile_project` is `Identify` (the mode marker), then `Initialize` for a target
without objects or `Detect` and a loop of `Compile` and `Commit`, `Aggregate` (a new
`__globals_set.o`), `Link`, and `WriteMap` and `WriteHashes` (`write_updates`); each
early return is an action. A source is one of a few texts, its digest is the text, and
an object is the text and the identity it was compiled from. Which importers are
re-checked is read from `rechecks`, which the module maintains as the code does, and
not from the sources. A link that is not tried, for want of a toolchain or because a
native source does not compile, is `LinkFails`: nothing is saved, and what is in memory
goes on to the next target. `suspect`, `drift` and `mixed` are history: the reasons the
properties allow for, each added by the one action that gives it.
Abstractions, each by name: a first build reads all sources at one moment, a re-check
and the compilation of one file are one step each, and an edit falls between steps, so
that a file which vanishes during its compilation and panics the build is an edit and a
kill, on either side of the step; the
link is taken to give a program exactly when all objects are there, because its result
is not looked at; prebuilt packages, styles and native sources are left out.

## 3. What the runs check

Passing runs:

| Run | Instance | Shows |
|---|---|---|
| `world_fixed` | four attached threads, none leaving | the passes run in a stopped world, no running thread holds a stale address, every cycle ends and every parked thread resumes |
| `world_dynamic` | one thread that starts three workers, which end and start again; three registry slots for four threads | one driver at a time, closure contexts stay current and within the passes' reach through the hand-over, but for threads that are `astray`, nobody leaves a park while the flag is up |
| `heap_all` | two threads that come and go, two roots, 12 words, buffers of 6; objects with a field, without a payload, and arrays past the buffers | the heap stays walkable, free room belongs to one thread and to no object, a collection leaves exactly what is reachable, the program cannot tell that objects moved |
| `handles_table` | two objects, three addresses, a table that grows from 2 to 8 | the free list is a chain of exactly the free slots, no slot is lost, live handles lead to their objects |
| `channel_all` | two senders, two receivers, two sends each, rendezvous or two slots | FIFO refinement, no lost wake-up, handles accounted for, what a send's answer means, close releases everybody |
| `future_all` | two awaiters, two awaits each, any mix of timed and untimed | one holder of the result, every await returns, an untimed await is empty-handed only if the future was cancelled or another await has, has returned or has dropped the result |
| `token_races` | three registrations, two cancellations | once, the last registration runs, no handle leaks |
| `package_resolve` | five packages (three in the registry with up to two versions, a path dependency, a gated one), every combination of their dependency tables, one of which has a requirement that does not parse; bodies that are stale, lost or garbled; one yank or publication at any time | an answer is closed and best, choices only fall, a handful of passes is enough, every resolution ends |
| `install_shared` | two projects, four manifests, a gated package behind a registry one, a path that overrides a registry dependency, one crash, which may leave a file that parses | locks settle, nothing is locked before it is unpacked, an incomplete tree has a reason, reproducing leaves the lock alone |
| `language_server` | a file that imports a packaged one, two texts, two handlers, the preload, writes by other programs | the memo is fresh; without overlap, engine and editor settle on the document |
| `build_incremental` | three files with imports that come and go and an API change that breaks an importer, two targets built alone or together, two identities, three builds, two edits, kills and failing links anywhere | no object outlives its identity, digests match objects but for four named reasons, and when none applies and every import is on record the link is that of a build from nothing and type-checks |

The bounds are the least at which the hard cases happen. Four threads give a driver, a
claimant that loses, a bystander in native code and one that is just starting. Twelve
heap words hold two buffers of six, one of which is abandoned with a tail of one, two
or three words, and an exhausted heap; cycles are not bounded. A ring of two with four
sends wraps around twice. A table that doubles twice passes from the first growth,
which reserves index 0, to ordinary ones. In `package_resolve` a name comes before
those that require it, so a choice is lowered in a later pass and its replacement
lowered again; `FewPasses` bounds the passes, which nothing in the module does, by the
number of choices that can be made or lowered. In `build_incremental` the sources start in every combination of texts,
so two edits during three builds already reach a change that two builds see
differently and a breakage that is repaired. Longer histories, such as an importer that
comes, goes and comes back, are left to the proofs of section 6, which bound neither
builds nor edits. Symmetry is used only in runs without liveness. Deadlock is checked
where a program can always go on; it is off for channels, futures, tokens, resolutions
and builds, whose users may be done, and for installations, which may have crashed
as often as the bound allows. Types are not checked by runs: they are theorems, and
every run evaluates the assumptions on the constants.

One run ends in a counterexample, a disagreement between the code and its own comment:

| Run | What happens |
|---|---|
| `build_deletions` | a file is deleted while one it imports changes: `get_removed_files` prunes it, but the changed file's rechecks still name it, and `test` unwraps `read_to_string` of a file that is gone (`CLI/execution/mod.rs:558`). The build panics before it saves, and so does every later one. `incremental.rs:170-173` says that a deletion between passes is recompiled or pruned "instead of crashing the build". |

## 4. Where the code does less than it says

Seen while modelling, and stated as exceptions of the properties above rather than as
runs. Each can be reproduced by the change of an instance or property given.

Collector and threads:

- A thread attaches after the driver counted the registry and runs while objects move
  (`RT/threads.c:109`): `WorldStopped` with `Spawnable` not empty, as in `world_dynamic`,
  has a counterexample. `RT/threads.c:6-12` says that the passes run "with the heap and
  all thread stacks quiescent". What such a thread holds, and what one
  holds that found the registry full, may be stale; `ContextKept` excepts both, and the
  threads they start (`astray`).
- The only unparked thread detaches; the driver is not woken and the cycle never ends
  (`RT/threads.c:158`): `CycleEnds` with `Leavers` not empty.
- The loser of the claim may return from `pgc_collect` with no collection done
  (`RT/pgc.c:156`: the flag is not up yet, or down again); in the allocator its one
  retry then fails (`LoseClaim`, `LoseRace`).
- A pinned object's lower neighbour is not filled (`RT/heap.c:403-448`, `608-654`);
  nothing in the repository pins.
- Payloads are at 8 modulo 16, not 16-aligned (`RT/heap.c:25-29`). Handle growth hands
  out the highest index first (`RT/roots.c:129-135`).
- When `pthread_create` fails the closure's handle stays registered (`TH:201`);
  `peko_thread_kill` races with the trampoline for `func_data` and leaves the registry
  slot in use (`TH:231`, `TH:254`). Not modelled, see section 7.
- A rendezvous send on a channel closed during its offer returns true and leaves its
  handle registered (`TH:596-605`); `SendMeansTaken` and `HandlesOnTheirWay` are
  stated with that exception. A rendezvous sender whose item was taken goes on waiting
  when another sender's item has come in its place (`TH:596`).
- A second await of the same future returns None although it was not cancelled:
  `toolkit/std/threads.peko:253`, "None when the future was cancelled", is
  `NoneOnlyIfCancelled`, and in place of `NoneExplained` it has a counterexample; a timed
  await whose timeout races with completion takes the result out of the future
  and drops it (`TH:786-791`); an await begun after cancelling a completed future still
  returns the value (`TH:439`); the worker of `make_future` writes into a future that
  was freed meanwhile (`TH:402`, modelled as an ordinary write).
- A second `on_cancel` replaces the first, whose closure never runs (`TH:358-366`).

Packages:

- An install cut off after the manifest of a package was unpacked leaves a tree that
  counts as present (`CLI/registry/cache.rs:72`), although `install.rs:123` ensures
  that "a project's dependencies are present"; `IncompleteExplained` names the case
  (`cut`), and another project may meet it while it is being unpacked.
- A lock file or manifest cut off inside a line or an entry while it is written is an
  error of every later command that reads it, but for `update`, which rewrites the lock.
  A lock cut off between two entries parses as a shorter one
  (`crates/peko-core/src/config/lock.rs:26`), and if that has the direct dependencies an
  install reproduces it (`install.rs:29-33`), with dependencies of dependencies missing;
  `LockSettles` excepts a lock reproduced from such a one (`shortened`). A manifest cut
  off behind a line loses dependencies without an error.
- A manifest whose direct registry dependency is overridden by a path dependency of a
  local package never has a lock that satisfies it: each install resolves afresh
  (`install.rs:298`); `LockSettles` excepts it (`Overridden`).

Language server:

- The text is read from the document store before the write lock is taken
  (`LSP/server/backend.rs:112`), so of two overlapping changes the older may be analysed
  and published last, or after a close; the comment at lines 100-102 says the lock
  prevents it. `LatestTextWins` states that comment and does not hold;
  `SettlesOnDocument` is what holds.
- Saving does not reach a package that was preloaded (`analyzer/mod.rs:251`), and a
  write by another program is seen at the next analysis only: `MemoFresh` is stated
  with both.

Builds:

- A file that vanishes between the detection of changes and its compilation makes the
  code generator or the commit panic
  (`crates/peko-llvm/src/codegen/statement_gen.rs:1064`, `incremental.rs:137`); in the
  module an `Edit` and a `Kill`.
- The digest is of the file when it is committed, not when it was compiled
  (`incremental.rs:400-402`, whose comment says "so the baseline always matches the
  object that was emitted"); and the digests are shared by all targets, so the second
  target of one command (`CLI/bundler/macos.rs:133`) does not see a change the first
  has committed. `BaselineMatchesObject` states the comment and does not hold;
  `BaselineExplained` names the reasons.
- A build with errors has replaced `__globals_set.o`, and objects, when it ends without
  saving (`incremental.rs:1478-1500`).
- A target's first build over an older map writes objects and links by the map, without
  looking for what changed since (`initialize_incremental_for_target`).
- A new importer of a tracked file is put on the file's rechecks only when that importer
  itself is recompiled, and the map is not marked as changed (`incremental.rs:1360-1384`),
  so the record may be lost between two builds. Then a breakage need not surface, and a
  file that is removed and written anew is not compiled with its importer and is missing
  from the link: hence the premise `OnRecord` of `LinksSources` and `BreakageSurfaces`.
- The importer of a removed file is compiled whether or not it is still tracked
  (`Orphans`), and one that is not gets an object that nothing saved speaks of: `Clean`
  counts an object as this build's only if its file is tracked.
- A build whose link fails leaves its digests, in memory only, to the next target of the
  command (`CLI/bundler/macos.rs:133`). If a file moved meanwhile they are of no one moment, and a pair
  of sources that do not fit may never be compared: `mixed`, which `BreakageSurfaces`
  excludes.
- The importer of a removed file, removed as well, is queued and read without looking
  (`CLI/execution/mod.rs:191`).
- `lld_link`'s result is ignored, and a missing toolchain or a failing native source
  ends the build as a clean one does, unsaved (`incremental.rs:1524-1555`).

## 5. Fairness

`PgcWorld!FairSpec`: weak fairness of each thread's runtime steps, not of the
program's choices: the operating system runs every thread, a lock that is never held
across a wait is obtained eventually, and compiled code reaches a poll, which the code
generator puts at loop back-edges and call sites
(`crates/peko-llvm/src/codegen/data_structures.rs:815`). A blocking native call need never return.
`Channel!FairSpec`: weak fairness of the steps of an operation that has begun;
nobody is obliged to begin one, and nobody to close. `Future!FairSpec` adds that
`work()` ends. `CancelToken!FairSpec` is of the same kind. `Resolver!FairSpec`: weak
fairness of the resolver's steps, which run alone in their process; a fetch answers or
fails, which the code only ensures as far as the connection: the client has a timeout for
connecting and none for an answer (`CLI/registry/client.rs:46-50`). No strong fairness is
used: no lock is contended by a thread that takes it for ever. Installations, builds and
the language server state safety only: a killed command owes nothing.

## 6. What is proved

All proofs are of the specifications without fairness, for every value of the
constants that satisfies the named assumptions.

- `CollectorProofs`. `TypeCorrect`; `DriverUnique`, from `DriverInv`: the invariant
  needs that a driver implies `collecting = 1`, or the compare-and-swap would not
  exclude the second; `NoEarlyExit`, an action property, from `ParkedInv`: parked
  threads are at the places whose exits test the flag.
  `ContextRooted` rests on `CrewInv` and `ContextCurrent`. `CrewInv`: a thread that runs
  is in the registry unless it is astray (`InSlots`), every parked or blocked one has its
  stack captured (`StacksCaptured`), and while the passes run every thread but the driver
  is parked, not attached, or astray (`OthersStopped`); so every frame with an address is
  within the passes' reach. `ContextCurrent` adds that between the update and the move
  every reference is to the address to be. Both are of threads that are not astray, which
  is what makes them hold while threads attach during cycles. `WorldIsStopped` and
  `AddressesStayCurrent` follow from the same invariant and assume `Spawnable = {}`
  (`NobodyJoins`: then nobody is astray); the first does not hold otherwise (section 4).
  `HandleTypes`, `FreeListKept`, `HandlesLead` and `NoSlotIsLost` are of the handle
  table, from `HandlesTypeOK`, `FreeListIsChain` and `SlotsMatch`. The free list is
  stated without recursion: `FreeListIsChain` says that links stay among the free slots,
  that no two lead to the same one and none to the head, and `NoSlotLost` that a set
  with the head and every successor of its own has all the free slots. That
  growth threads all its new slots takes an induction along them, done by the
  least-number principle (`Least`, from the library's fact that the order of the natural
  numbers is well-founded), which needs no induction theorem.
  `HeapStaysSound`, and from it `HeapIsWalkable` and `RoomStaysFree`, are of the heap,
  from `HeapInvariant`: there is a set of block starts such that, with the free room of
  each buffer filled, the region up to the top is a row of these blocks (`Layout`, which
  says it without recursion: each block leads to another or to the top, and no two
  overlap), every open buffer is a block by itself, and all others are objects, whose
  managed fields, like the roots, are null or refer to objects (`Sound`, `Rooted`). It
  speaks of dead objects too, which stay blocks of the row until the next collection.
  The steps: filling a gap
  does not change the set (`Retired`); a block served splits a buffer's block or extends
  the top, and an absorbed tail is part of it (`BlockServed`, `AbsorbIs`); a store keeps
  the layout, because a field lies in its object's payload (`StoreSound`). For a
  collection (`Collected`): the walk visits exactly the blocks (`HeadersAre`), an
  address inside an object or one past its end resolves to it and to nothing else
  (`ResolveIs`), what is marked is closed under references (`MarkedIs`), the sweep is
  never above the walk and leaves no hole (`CursorFacts`, `ForwardingPacks`), so a copy
  reads only words that no earlier copy has written (`MovedWhole`), and the references
  in the copies are to copies (`CopiesSound`). The recursive functions are shown to exist
  and to have their equations by induction on addresses, again by `Least`
  (`RecursionFrom`); `Reached` is characterised as a least fixpoint (`ReachedIsLeast`).
  `GarbageIsReclaimed`, an action property: what a collection marks is all of `Reachable`
  and nothing else (`MarkedIsReachable`; both are least fixpoints), and the cursor of the
  sweep ends after the sum of the lengths of what it kept, in whichever order the
  library's sum takes them (`SumIs`: taking away any one block shortens the sweep by its
  length, `CursorsDiffer`).
  `CollectorIsTransparent` is the refinement of `ManagedStore`. Beside `HeapInvariant` it
  needs `Identity`: among the reachable objects that have a tag no two have the same one,
  and only those with a tag refer to anything. `Shows` says, of any memory and roots, which
  objects the abstract store has in them, and `Shown` that a memory which shows a store is
  mapped to it: the tags of the objects the roots reach are the tags the store reaches
  (`NamesReached`, `Trims`; both sides are least fixpoints), and the fold of `Links` gives
  each its own field (`LinksSeen`). What is left is that each step shows the store that the
  abstract step leads to. An allocation writes a tag that no reachable object has
  (`ServedSeen`), a store into a field changes the one link (`StoreShows`), the other
  steps of the program change one root (`SetStep`). For a collection, two memories whose
  objects correspond word for word and reference for reference show the same store
  (`MirrorShows`), and the copies correspond to what was marked (`CopiesMirror`), so the
  step is a stutter (`CollectSeen`).
  Assumed of the constants: an object whose descriptor names a field has a payload,
  which the compiler's layouts ensure; for `CollectorIsTransparent`, `Distinguishable`,
  which restricts what the mapping can tell apart and not the code.
- `ChannelProofs`. `ChannelTypeCorrect`: the ring's indices and count never leave
  their ranges; `WakeupsKept`: whoever sleeps has a reason to, with `SleepersWait`: only
  threads inside a wait loop sleep. `ItemInv` says where the items are: what each thread
  has in its hands (`Hands`), that exactly the slots from head up to tail are filled
  (`Ring`), that an item is in one place, so that nothing sent is received twice or still
  to be entered (`Places`), and what an offer to an open rendezvous means (`Offers`). From
  it `SentMeansTaken`; `ChannelHandlesKept`, by `Accounted`: a handle is live exactly if
  its item is carried; and `ChannelIsAQueue`, the refinement: every step of a sender or a
  receiver enters at the end of `Waiting`, leaves at its front, or is a stutter. All three
  are for any capacity and any number of threads.
- `FutureProofs`. `FutureTypes`, `OneHolder` and `EmptyHandsExplained`; the last
  needs that a result that is no longer in its future is in an await's hands, has been
  returned or dropped, or went with the future (`Accounted`), and that such an excuse
  stays one (`Gone`).
- `CancelTokenProofs`. `TokenTypes`, `CallbackRunsOnce`, and `TokenHandlesKept` from
  `Accounted`: a handle is rooted exactly while its closure is carried, by a thread
  about to register it, by the token, or by a thread about to call it.
- `ResolverProofs`. `TypeCorrect`; `AnswersAreClosed` and `AnswersAreBest`, from `Inv`:
  the requirements of the project, its paths and every choice are on record (`Asked`),
  every choice is best for its index and its requirements (`Best`), and, while a pass
  has changed nothing, every name behind it is satisfied (`Satisfied`). Without the
  last the fixpoint would say nothing: a requirement may be added to a name the pass
  has already gone by. `ChoicesFall`, an action property: requirements only grow and an
  index is read once, so a later pick is among the earlier candidates. `PassesAreFew`
  counts: every pass but the last has used up a pair of a package and a version
  (`Spent`), because a choice is never made twice at the same or a higher version; it
  assumes that there are finitely many of both.
- `PackageInstallProofs`. `InstallInvariant` (`Typed`, `Planned`, `Fetched`,
  `IncompleteExplained`), and from it `LocksSettle`, `LocksReproduced`, `LockedUnpacked`
  and `IncompleteTreesExplained`. `Planned` says what a command knows at each place, the
  manifest on disk included, which is why a user's edit during a command is excluded by
  the module, and that every lock on disk has what its entries depend on
  (`SelfContained`) unless it was cut off between two of them; locks are answers and
  their prefixes (`Locks`). `Fetched` says that what left the queue is unpacked and that a
  source being fetched lacks no more than the files still to write. Assumed of the
  constants, beyond their types: a torn or missing file is neither a manifest nor a lock.
- `LanguageServerProofs`. `TypeCorrect`; `MemoIsFresh`, with `DiskSeen`: what an import
  has on disk now is among what it had since the memo was cleared; `DocumentsSettle`,
  from `OneHandler` and `InProgress`: without overlap a file has one handler, whose text
  is the document's, and which has told the engine before it publishes.
- `IncrementalBuildProofs`, for any files, imports, targets, commands, and any number of
  builds, edits and kills. `TypeCorrect`, with `Running` (what is in memory when, and
  under which marker) and `Worked` (how far the queue is; only a build without errors
  gets to its link). `IdentityIsOne`. `DigestsExplained` from `Digest`: a digest in
  memory is the saved one or its file is in doubt (`Digested`), and an object just
  compiled is of the text its digest is of (`Emitted`), unless the file moved.
  `SourcesAreLinked` from `Linkable`: what is saved, and what is in memory, is closed under
  imports, but for an import that is in doubt or whose importer is not on record
  (`SavedClosed`, `KnownClosed`); while no file moves, what is neither queued nor in doubt
  is as its source (`Settled`), and what a compiled file imports is tracked or will be
  (`Complete`). The invariant speaks of every target, the one being built and the others,
  because each build's save changes what the others may rely on. `BreakageComesUp` adds
  `Surfacing`: files that are saved together fit each other wherever the import is on
  record (`SavedAgrees`), so only a change can break an importer, and every importer of a
  change is compiled or simulated before anything is linked (`Fitting`).
  Assumed of the constants: each file has the texts its author may write, a command builds
  at least one target, `Gone` is no text, and `Null` is none of the values it stands
  beside. The premises `OnRecord`, `Clean` and `mixed` were found by failed attempts at
  these proofs, and each is needed: TLC has a counterexample without it, given in
  section 4 under Builds.

Only model-checked:

- Liveness, under fairness, is beyond the prover: `CycleEnds`, `AllResume`,
  `AwaitReturns`, `LastRegisteredRuns`, `CloseReleases`, `ResolutionEnds`.

## 7. Not modelled

Allocation by a thread that never attached (`RT/alloc.c:215-228`); failed mallocs of
the runtime's own tables and of the rendezvous cell; `pgc_pin`; `pgc_shutdown`; the debugging
modes (`PEKO_GC_STRESS`, `_AUDIT`, `_VERIFY`); the Windows variants of stack capture and
of condition variables; machine-word memory models: the atomics are sequentially
consistent in C11 and `pgc_collection_requested` is read by polls as a single word.
`peko_thread_kill` is left out because nothing in the repository says at which point a
cancelled thread stops, and a model would have to invent it; `start_blocking` and
`Scope` add nothing to the thread start that `PgcWorld` has. Parsing, ranges and
answers of the language server, publishing and verification of packages, prebuilt
packages, styles and native sources of a build are data, not order. The compiler
(`crates/peko-core`, `crates/peko-llvm`), which is most of the repository's Rust, is
sequential functions over syntax trees whose statements would be the language's
semantics; sockets, processes, files and cryptography are calls of the operating system
or vendored libraries. `PROJECT.json` lists every component with its reason.

## 8. What could come next

1. Threads: creation that fails and `Scope`, composed with the handle table.
2. WebSocket close handshake and fragment reassembly; the request table of Peko UI.
3. `IncrementalBuild` with prebuilt packages.
