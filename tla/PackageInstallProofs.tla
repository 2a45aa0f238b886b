---- MODULE PackageInstallProofs ----
(* Proofs about PackageInstall: what a finished command leaves behind, and what the
   shared cache holds, for any projects, packages, manifests and number of crashes. *)
EXTENDS PackageInstall, TLAPS

(***************************************************************************)
(* Types: where a command is, what it plans, and the cache.                *)
(***************************************************************************)
Places == {"idle", "edit", "edited", "unchanged", "load", "resolve", "fetch",
           "fetch_locked", "save", "updated", "reproduced", "failed"}
Unfinished == [source : Sources, files : SUBSET ({"request", "blob"} \cup Files)]
Settled == UNION {Answers[t] : t \in Tables}
Locks   == Settled \cup UNION {Prefixes(a) : a \in Settled}

PlaceTyped == pc \in [Projects -> Places]
PlanTyped ==
  /\ manifest \in [Projects -> Tables \cup {Torn}]
  /\ lock \in [Projects -> Locks \cup {NoLock, Torn}]
  /\ want \in [Projects -> Tables \cup {Nothing}]
  /\ answer \in [Projects -> Locks \cup {Nothing}]
  /\ shortened \subseteq Projects
CacheTyped ==
  /\ tree \in [Sources -> SUBSET Files]
  /\ queue \in [Projects -> SUBSET Sources]
  /\ fetching \in [Projects -> Unfinished \cup {Nothing}]
  /\ cut \subseteq Sources
Typed == PlaceTyped /\ PlanTyped /\ CacheTyped

\* What a command knows at each place: from its load on, the manifest on disk is the one
\* it plans for; the answer it installs is closed, or is the lock it reproduces. A lock
\* that was not cut off names what its entries depend on.
Loaded == {"resolve", "fetch", "fetch_locked", "save", "updated", "reproduced"}
Planned ==
  \A j \in Projects :
    /\ pc[j] \in {"edited", "unchanged"} => want[j] \in Tables
    /\ pc[j] \in Loaded => want[j] = manifest[j] /\ want[j] \in Tables
    /\ pc[j] \in {"fetch", "save", "updated"} => answer[j] \in Answers[want[j]]
    /\ pc[j] = "updated" => lock[j] = answer[j]
    /\ lock[j] \notin {NoLock, Torn} => j \in shortened \/ SelfContained(lock[j])
    /\ pc[j] \in {"fetch_locked", "reproduced"} =>
         /\ lock[j] = answer[j] /\ lock[j] \notin {NoLock, Torn}
         /\ LockSatisfies(lock[j], want[j])

\* What has left the queue is unpacked, and what is being fetched lacks no more than the
\* files still to write.
Fetched ==
  \A j \in Projects :
    /\ fetching[j] # Nothing =>
         Fetching(j) /\ Files \subseteq tree[fetching[j].source] \cup fetching[j].files
    /\ Fetching(j) => \A s \in ToFetch(answer[j]) \ queue[j] : IsUnpacked(s)
    /\ pc[j] \in {"save", "updated", "reproduced"} =>
         \A s \in ToFetch(answer[j]) : IsUnpacked(s)

\* What Resolver promises, and what follows for the sources to fetch.
LEMMA AnswerType ==
  ASSUME NEW t \in Tables, NEW a \in Answers[t]
  PROVE  /\ ClosedFor(a, t)
         /\ a \notin {NoLock, Torn}
         /\ ToFetch(a) \subseteq Sources
<1>1. PICK s \in SUBSET Reach(t) : a \in [s -> Versions \cup {Local, Gated}]
  BY DEF Answers
<1>2. ClosedFor(a, t)
  BY DEF Answers
<1>3. s \in SUBSET Packages
  BY DEF Reach
<1>4. a \notin {NoLock, Torn}
  BY <1>1, <1>3, InstallAssumption
<1>5. ASSUME NEW p \in DOMAIN a, a[p] # Local PROVE <<p, a[p]>> \in Sources
  <2>1. a[p] \in Versions \/ a[p] = Gated
    BY <1>1, <1>5
  <2>2. CASE a[p] \in Versions
    BY <1>2, <1>5, <2>2 DEF ClosedFor, SelfContained, Sources
  <2>3. CASE a[p] = Gated
    BY <1>2, <1>5, <2>3 DEF ClosedFor, SelfContained, Sources
  <2> QED BY <2>1, <2>2, <2>3
<1> QED BY <1>2, <1>4, <1>5 DEF ToFetch

\* What is left of a lock that was cut off is a lock.
LEMMA PrefixType ==
  ASSUME NEW t \in Tables, NEW a \in Answers[t], NEW b \in Prefixes(a)
  PROVE  /\ b \notin {NoLock, Torn}
         /\ ToFetch(b) \subseteq Sources
<1>1. PICK s \in SUBSET Reach(t) : a \in [s -> Versions \cup {Local, Gated}]
  BY DEF Answers
<1>2. s \in SUBSET Packages
  BY DEF Reach
<1>3. PICK d \in SUBSET DOMAIN a : b = [p \in d |-> a[p]]
  BY DEF Prefixes
<1>4. d \in SUBSET Packages /\ b \in [d -> Versions \cup {Local, Gated}]
  BY <1>1, <1>2, <1>3
<1>5. b \notin {NoLock, Torn}
  BY <1>4, InstallAssumption
<1>6. ToFetch(b) \subseteq ToFetch(a)
  BY <1>3 DEF ToFetch
<1> QED BY <1>5, <1>6, AnswerType

LEMMA LockType ==
  ASSUME NEW a \in Locks
  PROVE  a \notin {NoLock, Torn} /\ ToFetch(a) \subseteq Sources
BY AnswerType, PrefixType DEF Locks, Settled

LEMMA TableType == \A j \in Projects : \A t \in TablesOf[j] : t \in Tables
BY InstallAssumption

LEMMA PlannedSources ==
  ASSUME Typed, NEW j \in Projects
  PROVE  ToFetch(answer[j]) \subseteq Sources
<1>1. ToFetch(Nothing) = {}
  BY DEF ToFetch, Nothing
<1> QED BY <1>1, LockType DEF Typed, PlanTyped

LEMMA UnfinishedIsSomething == \A r \in Unfinished : r # Nothing
<1> SUFFICES ASSUME NEW r \in Unfinished, r = Nothing PROVE FALSE
  OBVIOUS
<1>1. DOMAIN r = {"source", "files"}
  BY DEF Unfinished
<1>2. DOMAIN r = {}
  BY DEF Nothing
<1> QED BY <1>1, <1>2

\* What a fetch that goes on does to its record.
LEMMA Advancing ==
  ASSUME CacheTyped, NEW i \in Projects, fetching[i] # Nothing,
         NEW w \in SUBSET ({"request", "blob"} \cup Files),
         fetching' = [fetching EXCEPT ![i].files = w]
  PROVE  /\ fetching[i] \in Unfinished
         /\ fetching'[i] = [source |-> fetching[i].source, files |-> w]
         /\ fetching'[i] \in Unfinished
         /\ \A j \in Projects : j # i => fetching'[j] = fetching[j]
         /\ fetching' \in [Projects -> Unfinished \cup {Nothing}]
<1>1. fetching[i] \in Unfinished
  BY DEF CacheTyped
<1>2. fetching'[i] = [fetching[i] EXCEPT !.files = w]
  BY DEF CacheTyped
<1>3. fetching'[i] = [source |-> fetching[i].source, files |-> w] /\ fetching'[i] \in Unfinished
  BY <1>1, <1>2 DEF Unfinished
<1>4. \A j \in Projects : j # i => fetching'[j] = fetching[j]
  BY DEF CacheTyped
<1>5. fetching' \in [Projects -> Unfinished \cup {Nothing}]
  BY <1>3, <1>4 DEF CacheTyped
<1> QED BY <1>1, <1>3, <1>4, <1>5

\* What writing a file of a source tree does.
LEMMA Unpacking ==
  ASSUME Typed, Fetched, NEW i \in Projects, NEW file \in Files, UnpackFile(i, file)
  PROVE  LET s == fetching[i].source IN
         /\ s \in Sources
         /\ tree'[s] = tree[s] \cup {file}
         /\ \A q \in Sources : q # s => tree'[q] = tree[q]
         /\ \A j \in Projects : j # i => fetching'[j] = fetching[j] /\ queue'[j] = queue[j]
         /\ \/ /\ fetching'[i] = Nothing
               /\ queue'[i] = queue[i] \ {s}
               /\ tree'[s] = Files
            \/ /\ fetching'[i] # Nothing
               /\ fetching'[i].source = s
               /\ fetching'[i].files = fetching[i].files \ {file}
               /\ queue'[i] = queue[i]
<1> DEFINE s == fetching[i].source
<1>1. fetching[i] \in Unfinished /\ s \in Sources
  BY DEF UnpackFile, Unpacks, Typed, CacheTyped, Unfinished
<1>2. /\ tree'[s] = tree[s] \cup {file}
      /\ \A q \in Sources : q # s => tree'[q] = tree[q]
  BY <1>1 DEF UnpackFile, Typed, CacheTyped
<1>3. \A j \in Projects : j # i => fetching'[j] = fetching[j] /\ queue'[j] = queue[j]
  BY DEF UnpackFile, Typed, CacheTyped
<1>4. CASE fetching[i].files = {file}
  <2>1. fetching'[i] = Nothing /\ queue'[i] = queue[i] \ {s}
    BY <1>4 DEF UnpackFile, Typed, CacheTyped
  <2>2. Files \subseteq tree[s] \cup {file}
    BY <1>4 DEF Fetched, UnpackFile, Unpacks
  <2>3. tree'[s] = Files
    BY <1>1, <1>2, <2>2 DEF Typed, CacheTyped
  <2> QED BY <1>1, <1>2, <1>3, <2>1, <2>3
<1>5. CASE fetching[i].files # {file}
  <2>1. fetching'[i] = [fetching[i] EXCEPT !.files = @ \ {file}] /\ queue'[i] = queue[i]
    BY <1>5 DEF UnpackFile, Typed, CacheTyped
  <2>2. /\ fetching'[i].source = s
        /\ fetching'[i].files = fetching[i].files \ {file}
        /\ fetching'[i] \in Unfinished
    BY <1>1, <2>1 DEF Unfinished
  <2> QED BY <1>1, <1>2, <1>3, <2>1, <2>2, UnfinishedIsSomething
<1> QED BY <1>4, <1>5

(***************************************************************************)
(* Every step keeps the types.                                             *)
(***************************************************************************)
LEMMA PlaceStep ==
  ASSUME PlaceTyped, [Next]_vars
  PROVE  PlaceTyped'
<1>1. ASSUME NEW i \in Projects, \E cmd \in Commands : Start(i, cmd)
     PROVE  PlaceTyped'
  BY <1>1 DEF Start, files, proc, history, Go, PlaceTyped, Places
<1>2. ASSUME NEW i \in Projects, Edit(i) \/ Edited(i)
     PROVE  PlaceTyped'
  BY <1>2 DEF Edit, Edited, files, proc, history, Go, PlaceTyped, Places
<1>3. ASSUME NEW i \in Projects, \E t \in TablesOf[i] : UserEdits(i, t)
     PROVE  PlaceTyped'
  BY <1>3 DEF UserEdits, files, proc, history, Go, PlaceTyped, Places
<1>4. ASSUME NEW i \in Projects, NothingToEnsure(i) \/ Load(i)
     PROVE  PlaceTyped'
  BY <1>4 DEF NothingToEnsure, Load, files, proc, history, Go, PlaceTyped, Places
<1>5. ASSUME NEW i \in Projects, LoadFails(i) \/ LockFails(i) \/ ResolveFails(i)
                                      \/ FetchFails(i)
     PROVE  PlaceTyped'
  BY <1>5 DEF LoadFails, LockFails, ResolveFails, FetchFails, Requesting, Fail, files, proc,
         history, Go,
         PlaceTyped, Places
<1>6. ASSUME NEW i \in Projects,
             UnpackFails(i) \/ Crash(i) \/ CrashEditing(i) \/ CrashSaving(i)
     PROVE  PlaceTyped'
  BY <1>6 DEF UnpackFails, Crash, CrashEditing, CrashSaving, Dies, Unpacks, Fail, files, proc,
         history, Go, PlaceTyped, Places
<1>7. ASSUME NEW i \in Projects, Reproduce(i)
     PROVE  PlaceTyped'
  BY <1>7 DEF Reproduce, files, proc, history, Go, PlaceTyped, Places
<1>8. ASSUME NEW i \in Projects, Resolved(i)
     PROVE  PlaceTyped'
  BY <1>8 DEF Resolved, files, proc, history, Go, PlaceTyped, Places
<1>9. ASSUME NEW i \in Projects, \E s \in Sources : SkipSource(i, s)
     PROVE  PlaceTyped'
  BY <1>9 DEF SkipSource, files, proc, history, Go, PlaceTyped, Places
<1>10. ASSUME NEW i \in Projects, (\E s \in Sources : UseBlob(i, s) \/ Request(i, s))
                                      \/ Download(i) \/ Bundle(i)
     PROVE  PlaceTyped'
  BY <1>10 DEF UseBlob, Request, Requesting, Download, Bundle, files, proc, history, Go,
         PlaceTyped, Places
<1>11. ASSUME NEW i \in Projects, BlobWritten(i)
     PROVE  PlaceTyped'
  BY <1>11 DEF BlobWritten, files, proc, history, Go, PlaceTyped, Places
<1>12. ASSUME NEW i \in Projects, \E file \in Files : UnpackFile(i, file)
     PROVE  PlaceTyped'
  BY <1>12 DEF UnpackFile, files, proc, history, Go, PlaceTyped, Places
<1>13. ASSUME NEW i \in Projects, Reproduced(i) \/ Save(i) \/ Saved(i)
     PROVE  PlaceTyped'
  BY <1>13 DEF Reproduced, Save, Saved, files, proc, history, Go, PlaceTyped, Places
<1>14. CASE UNCHANGED vars
  BY <1>14 DEF vars, files, proc, history, PlaceTyped, Places
<1> QED BY <1>1, <1>2, <1>3, <1>4, <1>5, <1>6, <1>7, <1>8, <1>9, <1>10, <1>11, <1>12, <1>13,
       <1>14 DEF Next, Run

LEMMA PlanStep ==
  ASSUME Typed, Planned, [Next]_vars
  PROVE  PlanTyped'
<1>1. ASSUME NEW i \in Projects, \E cmd \in Commands : Start(i, cmd)
     PROVE  PlanTyped'
  BY <1>1 DEF Start, files, proc, history, Go, PlanTyped, Typed
<1>2. ASSUME NEW i \in Projects, Edit(i) \/ Edited(i)
     PROVE  PlanTyped'
  <2>1. want[i] \in Tables \/ Edit(i)
    BY <1>2 DEF Edited, Planned
  <2> QED BY <1>2, <2>1, TableType DEF Edit, Edited, history, Typed, PlanTyped
<1>3. ASSUME NEW i \in Projects, \E t \in TablesOf[i] : UserEdits(i, t)
     PROVE  PlanTyped'
  BY <1>3, TableType DEF UserEdits, files, proc, history, Go, PlanTyped, Typed
<1>4. ASSUME NEW i \in Projects, NothingToEnsure(i) \/ Load(i)
     PROVE  PlanTyped'
  BY <1>4 DEF NothingToEnsure, Load, files, proc, history, Go, PlanTyped, Typed
<1>5. ASSUME NEW i \in Projects, LoadFails(i) \/ LockFails(i) \/ ResolveFails(i)
                                      \/ FetchFails(i)
     PROVE  PlanTyped'
  BY <1>5 DEF LoadFails, LockFails, ResolveFails, FetchFails, Requesting, Fail, files, proc,
         history, Go,
         PlanTyped, Typed
<1>6. ASSUME NEW i \in Projects,
             UnpackFails(i) \/ Crash(i) \/ CrashEditing(i) \/ CrashSaving(i)
     PROVE  PlanTyped'
  <2>1. CASE UnpackFails(i) \/ Crash(i)
    BY <2>1 DEF UnpackFails, Crash, Dies, Fail, files, PlanTyped, Typed
  <2>2. CASE CrashEditing(i)
    BY <2>2, TableType DEF CrashEditing, Dies, Fail, PlanTyped, Typed
  <2>3. CASE CrashSaving(i)
    <3>1. answer[i] \in Settled
      BY <2>3 DEF CrashSaving, Planned, Loaded, Settled
    <3>2. {Torn} \cup Prefixes(answer[i]) \subseteq Locks \cup {NoLock, Torn}
      BY <3>1 DEF Locks
    <3> QED BY <2>3, <3>2 DEF CrashSaving, Dies, Fail, PlanTyped, Typed
  <2> QED BY <1>6, <2>1, <2>2, <2>3
<1>7. ASSUME NEW i \in Projects, Reproduce(i)
     PROVE  PlanTyped'
  BY <1>7 DEF Reproduce, files, proc, history, Go, PlanTyped, Typed, Reproduces
<1>8. ASSUME NEW i \in Projects, Resolved(i)
     PROVE  PlanTyped'
  <2>1. want[i] \in Tables
    BY <1>8 DEF Resolved, Planned, Loaded
  <2>2. PICK a \in Answers[want[i]] : answer' = [answer EXCEPT ![i] = a]
    BY <1>8 DEF Resolved
  <2>3. a \in Settled
    BY <2>1, <2>2 DEF Settled
  <2> QED BY <1>8, <2>2, <2>3 DEF Resolved, files, history, Typed, PlanTyped, Locks
<1>9. ASSUME NEW i \in Projects, \E s \in Sources : SkipSource(i, s)
     PROVE  PlanTyped'
  BY <1>9 DEF SkipSource, files, proc, history, Go, PlanTyped, Typed
<1>10. ASSUME NEW i \in Projects, (\E s \in Sources : UseBlob(i, s) \/ Request(i, s))
                                      \/ Download(i) \/ Bundle(i)
     PROVE  PlanTyped'
  BY <1>10 DEF UseBlob, Request, Requesting, Download, Bundle, files, proc, history, Go,
         PlanTyped, Typed
<1>11. ASSUME NEW i \in Projects, BlobWritten(i)
     PROVE  PlanTyped'
  BY <1>11 DEF BlobWritten, files, proc, history, Go, PlanTyped, Typed
<1>12. ASSUME NEW i \in Projects, \E file \in Files : UnpackFile(i, file)
     PROVE  PlanTyped'
  BY <1>12 DEF UnpackFile, files, proc, history, Go, PlanTyped, Typed
<1>13. ASSUME NEW i \in Projects, Reproduced(i) \/ Save(i) \/ Saved(i)
     PROVE  PlanTyped'
  <2>1. Saved(i) => answer[i] \in Settled
    BY DEF Saved, Planned, Loaded, Settled
  <2> QED BY <1>13, <2>1 DEF Reproduced, Save, Saved, files, proc, history, Typed, PlanTyped,
         Locks
<1>14. CASE UNCHANGED vars
  BY <1>14 DEF vars, files, proc, history, PlanTyped, Typed
<1> QED BY <1>1, <1>2, <1>3, <1>4, <1>5, <1>6, <1>7, <1>8, <1>9, <1>10, <1>11, <1>12, <1>13,
       <1>14 DEF Next, Run

LEMMA CacheStep ==
  ASSUME Typed, Planned, [Next]_vars
  PROVE  CacheTyped'
<1>1. ASSUME NEW i \in Projects, \E cmd \in Commands : Start(i, cmd)
     PROVE  CacheTyped'
  BY <1>1 DEF Start, files, proc, history, Go, CacheTyped, Typed
<1>2. ASSUME NEW i \in Projects, Edit(i) \/ Edited(i)
     PROVE  CacheTyped'
  BY <1>2 DEF Edit, Edited, files, proc, history, Go, CacheTyped, Typed
<1>3. ASSUME NEW i \in Projects, \E t \in TablesOf[i] : UserEdits(i, t)
     PROVE  CacheTyped'
  BY <1>3 DEF UserEdits, files, proc, history, Go, CacheTyped, Typed
<1>4. ASSUME NEW i \in Projects, NothingToEnsure(i) \/ Load(i)
     PROVE  CacheTyped'
  BY <1>4 DEF NothingToEnsure, Load, files, proc, history, Go, CacheTyped, Typed
<1>5. ASSUME NEW i \in Projects, LoadFails(i) \/ LockFails(i) \/ ResolveFails(i)
                                      \/ FetchFails(i)
     PROVE  CacheTyped'
  BY <1>5 DEF LoadFails, LockFails, ResolveFails, FetchFails, Requesting, Fail, files, proc,
         history, Go,
         CacheTyped, Typed
<1>6. ASSUME NEW i \in Projects,
             UnpackFails(i) \/ Crash(i) \/ CrashEditing(i) \/ CrashSaving(i)
     PROVE  CacheTyped'
  BY <1>6 DEF UnpackFails, Crash, CrashEditing, CrashSaving, Dies, Unpacks, Fail, files, proc,
         history, Go, CacheTyped, Typed, Unfinished
<1>7. ASSUME NEW i \in Projects, Reproduce(i)
     PROVE  CacheTyped'
  <2>1. ToFetch(lock[i]) \subseteq Sources
    BY <1>7, LockType DEF Reproduce, Reproduces, Typed, PlanTyped
  <2> QED BY <1>7, <2>1 DEF Reproduce, files, history, Typed, CacheTyped
<1>8. ASSUME NEW i \in Projects, Resolved(i)
     PROVE  CacheTyped'
  <2>1. PICK a \in Answers[want[i]] : queue' = [queue EXCEPT ![i] = ToFetch(a)]
    BY <1>8 DEF Resolved
  <2>2. want[i] \in Tables
    BY <1>8 DEF Resolved, Planned, Loaded
  <2>3. ToFetch(a) \subseteq Sources
    BY <2>2, AnswerType
  <2> QED BY <1>8, <2>1, <2>3 DEF Resolved, files, history, Typed, CacheTyped
<1>9. ASSUME NEW i \in Projects, \E s \in Sources : SkipSource(i, s)
     PROVE  CacheTyped'
  BY <1>9 DEF SkipSource, files, proc, history, Go, CacheTyped, Typed
<1>10. ASSUME NEW i \in Projects, (\E s \in Sources : UseBlob(i, s) \/ Request(i, s))
                                      \/ Download(i) \/ Bundle(i)
     PROVE  CacheTyped'
  <2>1. CASE \E s \in Sources : UseBlob(i, s) \/ Request(i, s)
    BY <2>1 DEF UseBlob, Request, files, history, CacheTyped, Typed, Unfinished
  <2>2. CASE Download(i)
    <3>1. fetching' = [fetching EXCEPT ![i].files = {"blob"} \cup Files]
      BY <2>2 DEF Download
    <3>2. fetching' \in [Projects -> Unfinished \cup {Nothing}]
      <4>1. fetching[i] # Nothing /\ CacheTyped
        BY <2>2 DEF Download, Requesting, Typed
      <4>2. {"blob"} \cup Files \in SUBSET ({"request", "blob"} \cup Files)
        OBVIOUS
      <4> QED BY <3>1, <4>1, <4>2, Advancing
    <3> QED BY <2>2, <3>2 DEF Download, history, CacheTyped, Typed
  <2>3. CASE Bundle(i)
    BY <2>3, Advancing DEF Bundle, Requesting, files, history, CacheTyped, Typed
  <2> QED BY <1>10, <2>1, <2>2, <2>3
<1>11. ASSUME NEW i \in Projects, BlobWritten(i)
     PROVE  CacheTyped'
  BY <1>11, Advancing DEF BlobWritten, history, CacheTyped, Typed
<1>12. ASSUME NEW i \in Projects, \E file \in Files : UnpackFile(i, file)
     PROVE  CacheTyped'
  <2>1. PICK file \in Files : UnpackFile(i, file)
    BY <1>12
  <2>2. fetching[i] \in Unfinished
    BY <2>1 DEF UnpackFile, Unpacks, CacheTyped, Typed
  <2>3. tree' \in [Sources -> SUBSET Files] /\ queue' \in [Projects -> SUBSET Sources]
    BY <2>1, <2>2 DEF UnpackFile, CacheTyped, Typed, Unfinished
  <2>4. CASE fetching[i].files = {file}
    BY <2>1, <2>3, <2>4 DEF UnpackFile, history, CacheTyped, Typed
  <2>5. CASE fetching[i].files # {file}
    <3>1. fetching' = [fetching EXCEPT ![i].files = @ \ {file}]
      BY <2>1, <2>5 DEF UnpackFile
    <3>2. [fetching[i] EXCEPT !.files = @ \ {file}] \in Unfinished
      BY <2>2 DEF Unfinished
    <3> QED BY <2>1, <2>3, <3>1, <3>2 DEF UnpackFile, history, CacheTyped, Typed
  <2> QED BY <2>4, <2>5
<1>13. ASSUME NEW i \in Projects, Reproduced(i) \/ Save(i) \/ Saved(i)
     PROVE  CacheTyped'
  BY <1>13 DEF Reproduced, Save, Saved, files, proc, history, Go, CacheTyped, Typed
<1>14. CASE UNCHANGED vars
  BY <1>14 DEF vars, files, proc, history, CacheTyped, Typed
<1> QED BY <1>1, <1>2, <1>3, <1>4, <1>5, <1>6, <1>7, <1>8, <1>9, <1>10, <1>11, <1>12, <1>13,
       <1>14 DEF Next, Run

(***************************************************************************)
(* Every step keeps what a command knows.                                  *)
(***************************************************************************)
LEMMA PlannedStep ==
  ASSUME Typed, Planned, [Next]_vars
  PROVE  Planned'
<1>1. ASSUME NEW i \in Projects, \E cmd \in Commands : Start(i, cmd)
     PROVE  Planned'
  BY <1>1 DEF Start, files, proc, history, Go, Planned, Loaded, Typed, PlaceTyped, PlanTyped,
         AtRest
<1>2. ASSUME NEW i \in Projects, Edit(i) \/ Edited(i)
     PROVE  Planned'
  BY <1>2, TableType DEF Edit, Edited, files, proc, history, Go, Planned, Loaded, Typed,
         PlaceTyped,
         PlanTyped
<1>3. ASSUME NEW i \in Projects, \E t \in TablesOf[i] : UserEdits(i, t)
     PROVE  Planned'
  BY <1>3, TableType
     DEF UserEdits, files, proc, history, Go, Planned, Loaded, Typed, PlaceTyped, PlanTyped
<1>4. ASSUME NEW i \in Projects, NothingToEnsure(i) \/ Load(i)
     PROVE  Planned'
  BY <1>4 DEF NothingToEnsure, Load, files, proc, history, Go, Planned, Loaded, Typed,
         PlaceTyped,
         PlanTyped
<1>5. ASSUME NEW i \in Projects, LoadFails(i) \/ LockFails(i) \/ ResolveFails(i)
                                      \/ FetchFails(i)
     PROVE  Planned'
  BY <1>5 DEF LoadFails, LockFails, ResolveFails, FetchFails, Requesting, Fail, files, proc,
         history, Go,
         Planned, Loaded, Typed, PlaceTyped, PlanTyped
<1>6. ASSUME NEW i \in Projects,
             UnpackFails(i) \/ Crash(i) \/ CrashEditing(i) \/ CrashSaving(i)
     PROVE  Planned'
  <2>1. CASE UnpackFails(i) \/ Crash(i)
    BY <2>1 DEF UnpackFails, Crash, Dies, Fail, files, Go, Planned, Loaded, Typed, PlaceTyped,
           PlanTyped
  <2>2. CASE CrashEditing(i)
    BY <2>2 DEF CrashEditing, Dies, Fail, Go, Planned, Loaded, Typed, PlaceTyped, PlanTyped
  <2>3. CASE CrashSaving(i)
    <3>1. SelfContained(answer[i])
      BY <2>3, AnswerType DEF CrashSaving, Planned, Loaded, ClosedFor
    <3>2. lock'[i] = Torn \/ i \in shortened' \/ lock'[i] = answer[i]
      BY <2>3 DEF CrashSaving, Typed, PlanTyped
    <3>3. \A j \in Projects : j # i => lock'[j] = lock[j] /\ (j \in shortened => j \in shortened')
      BY <2>3 DEF CrashSaving, Typed, PlanTyped
    <3> QED BY <2>3, <3>1, <3>2, <3>3
            DEF CrashSaving, Dies, Fail, Go, Planned, Loaded, Typed, PlaceTyped, PlanTyped
  <2> QED BY <1>6, <2>1, <2>2, <2>3
<1>7. ASSUME NEW i \in Projects, Reproduce(i)
     PROVE  Planned'
  BY <1>7 DEF Reproduce, files, proc, history, Go, Planned, Loaded, Typed, PlaceTyped,
         PlanTyped,
         Reproduces
<1>8. ASSUME NEW i \in Projects, Resolved(i)
     PROVE  Planned'
  BY <1>8 DEF Resolved, files, proc, history, Go, Planned, Loaded, Typed, PlaceTyped, PlanTyped
<1>9. ASSUME NEW i \in Projects, \E s \in Sources : SkipSource(i, s)
     PROVE  Planned'
  BY <1>9 DEF SkipSource, files, proc, history, Go, Planned, Loaded, Typed, PlaceTyped,
         PlanTyped
<1>10. ASSUME NEW i \in Projects, (\E s \in Sources : UseBlob(i, s) \/ Request(i, s))
                                      \/ Download(i) \/ Bundle(i)
     PROVE  Planned'
  BY <1>10 DEF UseBlob, Request, Requesting, Download, Bundle, files, proc, history, Go,
         Planned, Loaded, Typed,
         PlaceTyped, PlanTyped
<1>11. ASSUME NEW i \in Projects, BlobWritten(i)
     PROVE  Planned'
  BY <1>11 DEF BlobWritten, files, proc, history, Go, Planned, Loaded, Typed, PlaceTyped,
         PlanTyped
<1>12. ASSUME NEW i \in Projects, \E file \in Files : UnpackFile(i, file)
     PROVE  Planned'
  BY <1>12 DEF UnpackFile, files, proc, history, Go, Planned, Loaded, Typed, PlaceTyped,
         PlanTyped
<1>13. ASSUME NEW i \in Projects, Reproduced(i) \/ Save(i) \/ Saved(i)
     PROVE  Planned'
  <2>1. CASE Reproduced(i) \/ Save(i)
    BY <2>1 DEF Reproduced, Save, files, proc, history, Go, Planned, Loaded, Typed, PlaceTyped,
           PlanTyped
  <2>2. CASE Saved(i)
    <3>1. SelfContained(answer[i])
      BY <2>2, AnswerType DEF Saved, Planned, Loaded, ClosedFor
    <3> QED BY <2>2, <3>1
            DEF Saved, proc, Go, Planned, Loaded, Typed, PlaceTyped, PlanTyped
  <2> QED BY <1>13, <2>1, <2>2
<1>14. CASE UNCHANGED vars
  BY <1>14 DEF vars, files, proc, history, Planned, Loaded, Typed, PlaceTyped, PlanTyped
<1> QED BY <1>1, <1>2, <1>3, <1>4, <1>5, <1>6, <1>7, <1>8, <1>9, <1>10, <1>11, <1>12, <1>13,
       <1>14 DEF Next, Run

\* Nothing is ever taken out of the cache.
LEMMA TreeGrows ==
  ASSUME Typed, [Next]_vars
  PROVE  \A s \in Sources : tree[s] \subseteq tree'[s]
<1>1. ASSUME NEW i \in Projects, \E cmd \in Commands : Start(i, cmd)
     PROVE  \A s \in Sources : tree[s] \subseteq tree'[s]
  BY <1>1 DEF Start, files, proc, history, Go, Typed, CacheTyped
<1>2. ASSUME NEW i \in Projects, Edit(i) \/ Edited(i)
     PROVE  \A s \in Sources : tree[s] \subseteq tree'[s]
  BY <1>2 DEF Edit, Edited, files, proc, history, Go, Typed, CacheTyped
<1>3. ASSUME NEW i \in Projects, \E t \in TablesOf[i] : UserEdits(i, t)
     PROVE  \A s \in Sources : tree[s] \subseteq tree'[s]
  BY <1>3 DEF UserEdits, files, proc, history, Go, Typed, CacheTyped
<1>4. ASSUME NEW i \in Projects, NothingToEnsure(i) \/ Load(i)
     PROVE  \A s \in Sources : tree[s] \subseteq tree'[s]
  BY <1>4 DEF NothingToEnsure, Load, files, proc, history, Go, Typed, CacheTyped
<1>5. ASSUME NEW i \in Projects, LoadFails(i) \/ LockFails(i) \/ ResolveFails(i)
                                      \/ FetchFails(i)
     PROVE  \A s \in Sources : tree[s] \subseteq tree'[s]
  BY <1>5 DEF LoadFails, LockFails, ResolveFails, FetchFails, Requesting, Fail, files, proc,
         history, Go,
         Typed, CacheTyped
<1>6. ASSUME NEW i \in Projects,
             UnpackFails(i) \/ Crash(i) \/ CrashEditing(i) \/ CrashSaving(i)
     PROVE  \A s \in Sources : tree[s] \subseteq tree'[s]
  BY <1>6 DEF UnpackFails, Crash, CrashEditing, CrashSaving, Dies, Unpacks, Fail, files, proc,
         history, Go, Typed, CacheTyped
<1>7. ASSUME NEW i \in Projects, Reproduce(i)
     PROVE  \A s \in Sources : tree[s] \subseteq tree'[s]
  BY <1>7 DEF Reproduce, files, proc, history, Go, Typed, CacheTyped
<1>8. ASSUME NEW i \in Projects, Resolved(i)
     PROVE  \A s \in Sources : tree[s] \subseteq tree'[s]
  BY <1>8 DEF Resolved, files, proc, history, Go, Typed, CacheTyped
<1>9. ASSUME NEW i \in Projects, \E s \in Sources : SkipSource(i, s)
     PROVE  \A s \in Sources : tree[s] \subseteq tree'[s]
  BY <1>9 DEF SkipSource, files, proc, history, Go, Typed, CacheTyped
<1>10. ASSUME NEW i \in Projects, (\E s \in Sources : UseBlob(i, s) \/ Request(i, s))
                                      \/ Download(i) \/ Bundle(i)
     PROVE  \A s \in Sources : tree[s] \subseteq tree'[s]
  BY <1>10 DEF UseBlob, Request, Requesting, Download, Bundle, files, proc, history, Go,
         Typed, CacheTyped
<1>11. ASSUME NEW i \in Projects, BlobWritten(i)
     PROVE  \A s \in Sources : tree[s] \subseteq tree'[s]
  BY <1>11 DEF BlobWritten, files, proc, history, Go, Typed, CacheTyped
<1>12. ASSUME NEW i \in Projects, \E file \in Files : UnpackFile(i, file)
     PROVE  \A s \in Sources : tree[s] \subseteq tree'[s]
  BY <1>12 DEF UnpackFile, files, proc, history, Go, Typed, CacheTyped
<1>13. ASSUME NEW i \in Projects, Reproduced(i) \/ Save(i) \/ Saved(i)
     PROVE  \A s \in Sources : tree[s] \subseteq tree'[s]
  BY <1>13 DEF Reproduced, Save, Saved, files, proc, history, Go, Typed, CacheTyped
<1>14. CASE UNCHANGED vars
  BY <1>14 DEF vars, files, proc, history, Typed, CacheTyped
<1> QED BY <1>1, <1>2, <1>3, <1>4, <1>5, <1>6, <1>7, <1>8, <1>9, <1>10, <1>11, <1>12, <1>13,
       <1>14 DEF Next, Run

(***************************************************************************)
(* Every step keeps the account of what was fetched.                       *)
(***************************************************************************)
LEMMA FetchedStep ==
  ASSUME Typed, Planned, Fetched, [Next]_vars
  PROVE  Fetched'
<1>1. ASSUME NEW i \in Projects, \E cmd \in Commands : Start(i, cmd)
     PROVE  Fetched'
  BY <1>1, PlannedSources, TreeGrows
     DEF Start, files, proc, history, Go, Fetched, Typed, PlaceTyped, PlanTyped, CacheTyped,
         Fetching, IsUnpacked, AtRest
<1>2. ASSUME NEW i \in Projects, Edit(i) \/ Edited(i)
     PROVE  Fetched'
  BY <1>2, PlannedSources, TreeGrows
     DEF Edit, Edited, files, proc, history, Go, Fetched, Typed, PlaceTyped, PlanTyped,
         CacheTyped, Fetching, IsUnpacked, AtRest
<1>3. ASSUME NEW i \in Projects, \E t \in TablesOf[i] : UserEdits(i, t)
     PROVE  Fetched'
  BY <1>3, PlannedSources, TreeGrows
     DEF UserEdits, files, proc, history, Go, Fetched, Typed, PlaceTyped, PlanTyped,
         CacheTyped, Fetching, IsUnpacked, AtRest
<1>4. ASSUME NEW i \in Projects, NothingToEnsure(i) \/ Load(i)
     PROVE  Fetched'
  BY <1>4, PlannedSources, TreeGrows
     DEF NothingToEnsure, Load, files, proc, history, Go, Fetched, Typed, PlaceTyped,
         PlanTyped, CacheTyped, Fetching, IsUnpacked, AtRest
<1>5. ASSUME NEW i \in Projects, LoadFails(i) \/ LockFails(i) \/ ResolveFails(i)
                                      \/ FetchFails(i)
     PROVE  Fetched'
  BY <1>5, PlannedSources, TreeGrows
     DEF LoadFails, LockFails, ResolveFails, FetchFails, Requesting, Fail, files, proc,
            history, Go,
         Fetched, Typed, PlaceTyped, PlanTyped, CacheTyped, Fetching, IsUnpacked,
         AtRest
<1>6. ASSUME NEW i \in Projects,
             UnpackFails(i) \/ Crash(i) \/ CrashEditing(i) \/ CrashSaving(i)
     PROVE  Fetched'
  BY <1>6, PlannedSources, TreeGrows
     DEF UnpackFails, Crash, CrashEditing, CrashSaving, Dies, Unpacks, Fail, files, proc,
            history, Go, Fetched, Typed, PlaceTyped,
         PlanTyped, CacheTyped, Fetching, IsUnpacked, AtRest
<1>7. ASSUME NEW i \in Projects, Reproduce(i)
     PROVE  Fetched'
  BY <1>7, PlannedSources, TreeGrows
     DEF Reproduce, files, proc, history, Go, Fetched, Typed, PlaceTyped, PlanTyped,
         CacheTyped, Fetching, IsUnpacked, AtRest
<1>8. ASSUME NEW i \in Projects, Resolved(i)
     PROVE  Fetched'
  BY <1>8, PlannedSources, TreeGrows
     DEF Resolved, files, proc, history, Go, Fetched, Typed, PlaceTyped, PlanTyped,
         CacheTyped, Fetching, IsUnpacked, AtRest
<1>9. ASSUME NEW i \in Projects, \E s \in Sources : SkipSource(i, s)
     PROVE  Fetched'
  BY <1>9, PlannedSources, TreeGrows
     DEF SkipSource, files, proc, history, Go, Fetched, Typed, PlaceTyped, PlanTyped,
         CacheTyped, Fetching, IsUnpacked, AtRest
<1>10. ASSUME NEW i \in Projects, (\E s \in Sources : UseBlob(i, s) \/ Request(i, s))
                                      \/ Download(i) \/ Bundle(i)
     PROVE  Fetched'
  <2>1. CASE \E s \in Sources : UseBlob(i, s) \/ Request(i, s)
    BY <2>1 DEF UseBlob, Request, files, Fetched, Typed, CacheTyped, Fetching, IsUnpacked
  <2>2. CASE Download(i) \/ Bundle(i)
    <3>1. PICK w \in SUBSET ({"request", "blob"} \cup Files) :
            Files \subseteq w /\ fetching' = [fetching EXCEPT ![i].files = w]
      BY <2>2 DEF Download, Bundle
    <3>2. fetching[i] # Nothing
      BY <2>2 DEF Download, Bundle, Requesting
    <3>3. fetching'[i].files = w /\ \A j \in Projects : j # i => fetching'[j] = fetching[j]
      <4>1. fetching'[i] = [source |-> fetching[i].source, files |-> w]
        BY <3>1, <3>2, Advancing DEF Typed
      <4> QED BY <3>1, <3>2, <4>1, Advancing DEF Typed
    <3> QED BY <2>2, <3>1, <3>2, <3>3
            DEF Download, Bundle, files, Fetched, Fetching, IsUnpacked
  <2> QED BY <1>10, <2>1, <2>2
<1>11. ASSUME NEW i \in Projects, BlobWritten(i)
     PROVE  Fetched'
  <2>1. fetching'[i].files = Files /\ \A j \in Projects : j # i => fetching'[j] = fetching[j]
    <3>1. fetching[i] # Nothing /\ fetching' = [fetching EXCEPT ![i].files = Files]
      BY <1>11 DEF BlobWritten
    <3>2. fetching'[i] = [source |-> fetching[i].source, files |-> Files]
      BY <3>1, Advancing DEF Typed
    <3> QED BY <3>1, <3>2, Advancing DEF Typed
  <2> QED BY <1>11, <2>1 DEF BlobWritten, Fetched, Fetching, IsUnpacked
<1>12. ASSUME NEW i \in Projects, \E file \in Files : UnpackFile(i, file)
     PROVE  Fetched'
  <2>1. PICK file \in Files : UnpackFile(i, file)
    BY <1>12
  <2>2. UNCHANGED <<pc, answer>>
    BY <2>1 DEF UnpackFile
  <2>3. \A s \in Sources : IsUnpacked(s) => IsUnpacked(s)'
    BY TreeGrows DEF IsUnpacked
  <2>4. "peko.toml" \in Files
    BY DEF Files
  <2>5. \A j \in Projects : fetching[j] # Nothing => fetching[j].source \in Sources
    BY DEF Typed, CacheTyped, Unfinished
  <2>6. ASSUME NEW j \in Projects, fetching'[j] # Nothing
        PROVE  Fetching(j)' /\ Files \subseteq tree'[fetching'[j].source] \cup fetching'[j].files
    <3>1. fetching[j] # Nothing /\ fetching'[j].source = fetching[j].source
      BY <2>1, <2>6, Unpacking DEF UnpackFile, Unpacks
    <3>2. fetching[j].files \ {file} \subseteq fetching'[j].files
      BY <2>1, <2>6, Unpacking
    <3>3. file \in fetching[j].files \ fetching'[j].files => file \in tree'[fetching[j].source]
      BY <2>1, <2>6, Unpacking
    <3> QED BY <2>2, <2>5, <3>1, <3>2, <3>3, TreeGrows DEF Fetched, Fetching
  <2>7. ASSUME NEW j \in Projects, Fetching(j), NEW s \in ToFetch(answer[j]) \ queue'[j]
        PROVE  IsUnpacked(s)'
    <3>1. s \in Sources
      BY PlannedSources
    <3>2. CASE s \notin queue[j]
      BY <2>3, <2>7, <3>1, <3>2 DEF Fetched
    <3>3. CASE s \in queue[j]
      BY <2>1, <2>4, <2>7, <3>3, Unpacking DEF IsUnpacked
    <3> QED BY <3>2, <3>3
  <2> QED BY <2>2, <2>3, <2>6, <2>7, PlannedSources DEF Fetched, Fetching
<1>13. ASSUME NEW i \in Projects, Reproduced(i) \/ Save(i) \/ Saved(i)
     PROVE  Fetched'
  BY <1>13, PlannedSources, TreeGrows
     DEF Reproduced, Save, Saved, files, proc, history, Go, Fetched, Typed, PlaceTyped,
         PlanTyped, CacheTyped, Fetching, IsUnpacked, AtRest
<1>14. CASE UNCHANGED vars
  BY <1>14, PlannedSources, TreeGrows
     DEF vars, files, proc, history, Fetched, Typed, PlaceTyped, PlanTyped, CacheTyped,
            Fetching, IsUnpacked, AtRest
<1> QED BY <1>1, <1>2, <1>3, <1>4, <1>5, <1>6, <1>7, <1>8, <1>9, <1>10, <1>11, <1>12, <1>13,
       <1>14 DEF Next, Run

LEMMA ExplainedStep ==
  ASSUME Typed, Fetched, IncompleteExplained, [Next]_vars
  PROVE  IncompleteExplained'
<1>1. ASSUME NEW i \in Projects, \E cmd \in Commands : Start(i, cmd)
     PROVE  IncompleteExplained'
  BY <1>1 DEF Start, files, proc, history, Go, IncompleteExplained, Unpacks, Fetched, Typed,
         CacheTyped, IsUnpacked, IsWhole
<1>2. ASSUME NEW i \in Projects, Edit(i) \/ Edited(i)
     PROVE  IncompleteExplained'
  BY <1>2 DEF Edit, Edited, files, proc, history, Go, IncompleteExplained, Unpacks, Fetched,
         Typed,
         CacheTyped, IsUnpacked, IsWhole
<1>3. ASSUME NEW i \in Projects, \E t \in TablesOf[i] : UserEdits(i, t)
     PROVE  IncompleteExplained'
  BY <1>3 DEF UserEdits, files, proc, history, Go, IncompleteExplained, Unpacks, Fetched, Typed,
         CacheTyped, IsUnpacked, IsWhole
<1>4. ASSUME NEW i \in Projects, NothingToEnsure(i) \/ Load(i)
     PROVE  IncompleteExplained'
  BY <1>4 DEF NothingToEnsure, Load, files, proc, history, Go, IncompleteExplained, Unpacks,
         Fetched,
         Typed, CacheTyped, IsUnpacked, IsWhole
<1>5. ASSUME NEW i \in Projects, LoadFails(i) \/ LockFails(i) \/ ResolveFails(i)
                                      \/ FetchFails(i)
     PROVE  IncompleteExplained'
  <2>1. ~Unpacks(i)
    BY <1>5 DEF LoadFails, LockFails, ResolveFails, FetchFails, Requesting, Unpacks, Fetched,
           Fetching, Files
  <2> QED BY <1>5, <2>1
          DEF LoadFails, LockFails, ResolveFails, FetchFails, Fail, files, history,
              IncompleteExplained, Unpacks, Typed, CacheTyped, IsUnpacked, IsWhole
<1>6. ASSUME NEW i \in Projects,
             UnpackFails(i) \/ Crash(i) \/ CrashEditing(i) \/ CrashSaving(i)
     PROVE  IncompleteExplained'
  BY <1>6 DEF UnpackFails, Crash, CrashEditing, CrashSaving, Dies, Unpacks, Fail, files, proc,
         history, Go, IncompleteExplained,
         Fetched, Typed, CacheTyped, IsUnpacked, IsWhole
<1>7. ASSUME NEW i \in Projects, Reproduce(i)
     PROVE  IncompleteExplained'
  BY <1>7 DEF Reproduce, files, proc, history, Go, IncompleteExplained, Unpacks, Fetched, Typed,
         CacheTyped, IsUnpacked, IsWhole
<1>8. ASSUME NEW i \in Projects, Resolved(i)
     PROVE  IncompleteExplained'
  BY <1>8 DEF Resolved, files, proc, history, Go, IncompleteExplained, Unpacks, Fetched, Typed,
         CacheTyped, IsUnpacked, IsWhole
<1>9. ASSUME NEW i \in Projects, \E s \in Sources : SkipSource(i, s)
     PROVE  IncompleteExplained'
  BY <1>9 DEF SkipSource, files, proc, history, Go, IncompleteExplained, Unpacks, Fetched,
         Typed,
         CacheTyped, IsUnpacked, IsWhole
<1>10. ASSUME NEW i \in Projects, (\E s \in Sources : UseBlob(i, s) \/ Request(i, s))
                                      \/ Download(i) \/ Bundle(i)
     PROVE  IncompleteExplained'
  <2>1. ~Unpacks(i)
    BY <1>10 DEF UseBlob, Request, Download, Bundle, Requesting, Unpacks, Files
  <2>2. \A j \in Projects : j # i => fetching'[j] = fetching[j]
    BY <1>10 DEF UseBlob, Request, Download, Bundle, Typed, CacheTyped
  <2>3. UNCHANGED <<tree, cut>>
    BY <1>10 DEF UseBlob, Request, Download, Bundle, files, history
  <2> QED BY <2>1, <2>2, <2>3 DEF IncompleteExplained, Unpacks, IsUnpacked, IsWhole
<1>11. ASSUME NEW i \in Projects, BlobWritten(i)
     PROVE  IncompleteExplained'
  <2>1. ~Unpacks(i)
    BY <1>11 DEF BlobWritten, Unpacks, Files
  <2>2. \A j \in Projects : j # i => fetching'[j] = fetching[j]
    BY <1>11 DEF BlobWritten, Typed, CacheTyped
  <2>3. UNCHANGED <<tree, cut>>
    BY <1>11 DEF BlobWritten, history
  <2> QED BY <2>1, <2>2, <2>3 DEF IncompleteExplained, Unpacks, IsUnpacked, IsWhole
<1>12. ASSUME NEW i \in Projects, \E file \in Files : UnpackFile(i, file)
     PROVE  IncompleteExplained'
  <2> DEFINE BeingUnpacked(s) == \E j \in Projects : Unpacks(j) /\ fetching[j].source = s
  <2>1. PICK file \in Files : UnpackFile(i, file)
    BY <1>12
  <2>2. UNCHANGED cut /\ Unpacks(i)
    BY <2>1 DEF UnpackFile, history
  <2>3. ASSUME NEW s \in Sources, IsUnpacked(s)'
        PROVE  IsWhole(s)' \/ s \in cut' \/ BeingUnpacked(s)'
    <3>1. CASE s = fetching[i].source
      BY <2>1, <2>2, <3>1, Unpacking DEF IsWhole, Unpacks
    <3>2. CASE s # fetching[i].source
      <4>1. IsUnpacked(s) /\ (IsWhole(s) => IsWhole(s)')
        BY <2>1, <2>3, <3>2, Unpacking DEF IsUnpacked, IsWhole
      <4>2. BeingUnpacked(s) => BeingUnpacked(s)'
        BY <2>1, <3>2, Unpacking DEF Unpacks
      <4> QED BY <2>2, <4>1, <4>2 DEF IncompleteExplained
    <3> QED BY <3>1, <3>2
  <2> QED BY <2>3 DEF IncompleteExplained
<1>13. ASSUME NEW i \in Projects, Reproduced(i) \/ Save(i) \/ Saved(i)
     PROVE  IncompleteExplained'
  BY <1>13 DEF Reproduced, Save, Saved, files, proc, history, Go, IncompleteExplained, Unpacks,
         Fetched, Typed, CacheTyped, IsUnpacked, IsWhole
<1>14. CASE UNCHANGED vars
  BY <1>14
     DEF vars, files, proc, history, IncompleteExplained, Unpacks, Fetched, Typed, CacheTyped,
            IsUnpacked, IsWhole
<1> QED BY <1>1, <1>2, <1>3, <1>4, <1>5, <1>6, <1>7, <1>8, <1>9, <1>10, <1>11, <1>12, <1>13,
       <1>14 DEF Next, Run

(***************************************************************************)
(* The theorems.                                                           *)
(***************************************************************************)
InstallInv == Typed /\ Planned /\ Fetched /\ IncompleteExplained

LEMMA InitInv == Init => InstallInv
<1> SUFFICES ASSUME Init PROVE InstallInv
  OBVIOUS
<1>1. PlaceTyped /\ CacheTyped
  BY DEF Init, PlaceTyped, CacheTyped, Places
<1>2. PlanTyped
  BY TableType DEF Init, PlanTyped
<1>3. Planned /\ Fetched
  BY DEF Init, Planned, Fetched, Loaded, Fetching
<1>4. IncompleteExplained
  BY DEF Init, IncompleteExplained, IsUnpacked
<1> QED BY <1>1, <1>2, <1>3, <1>4 DEF InstallInv, Typed

LEMMA StepInv == InstallInv /\ [Next]_vars => InstallInv'
BY PlaceStep, PlanStep, CacheStep, PlannedStep, FetchedStep, ExplainedStep DEF InstallInv, Typed

\* The inductive invariant of the installer: types, plans, fetched sources and the
\* explanation of every incomplete tree.
THEOREM InstallInvariant == Spec => []InstallInv
BY InitInv, StepInv, PTL DEF Spec

\* A closed answer that overrides no direct dependency satisfies the table.
LEMMA ClosedSatisfies ==
  ASSUME NEW t, NEW a, ClosedFor(a, t), ~Overridden(a, t)
  PROVE  LockSatisfies(a, t)
BY DEF ClosedFor, Meets, Overridden, LockSatisfies, Admits

\* A lock that satisfies a table and was not cut off is closed for it.
LEMMA SatisfiedIsClosed ==
  ASSUME NEW t, NEW a, LockSatisfies(a, t), SelfContained(a)
  PROVE  ClosedFor(a, t)
BY DEF ClosedFor, Meets, LockSatisfies

\* Whatever the manifests, the registry's answers, the edits and the crashes, a command
\* that succeeded leaves a lock that the next install reproduces and that names all the
\* manifest needs, unless a crash had cut it off between two entries (install and update
\* of install.rs).
THEOREM LocksSettle == Spec => []LockSettles
<1>1. InstallInv => LockSettles
  <2> SUFFICES ASSUME InstallInv, NEW j \in Projects, pc[j] \in {"updated", "reproduced"}
               PROVE  /\ lock[j] \notin {NoLock, Torn} /\ manifest[j] = want[j]
                      /\ Overridden(lock[j], want[j]) \/ LockSatisfies(lock[j], manifest[j])
                      /\ \/ ClosedFor(lock[j], manifest[j])
                         \/ pc[j] = "reproduced" /\ j \in shortened
    BY DEF LockSettles
  <2>1. want[j] = manifest[j] /\ want[j] \in Tables
    BY DEF InstallInv, Planned, Loaded
  <2>2. CASE pc[j] = "updated"
    <3>1. lock[j] = answer[j] /\ answer[j] \in Answers[want[j]]
      BY <2>2 DEF InstallInv, Planned
    <3>2. lock[j] \notin {NoLock, Torn} /\ ClosedFor(lock[j], want[j])
      BY <2>1, <3>1, AnswerType
    <3> QED BY <2>1, <3>2, ClosedSatisfies
  <2>3. CASE pc[j] = "reproduced"
    <3>1. /\ lock[j] \notin {NoLock, Torn} /\ LockSatisfies(lock[j], want[j])
          /\ j \in shortened \/ SelfContained(lock[j])
      BY <2>3 DEF InstallInv, Planned
    <3> QED BY <2>1, <2>3, <3>1, SatisfiedIsClosed
  <2> QED BY <2>2, <2>3
<1> QED BY <1>1, InstallInvariant, PTL

\* Only a command that resolved writes the lock of its project; installing from a lock
\* leaves it as it was (fetch_locked of install.rs).
THEOREM LocksReproduced == Spec => Reproducible
<1>1. Typed /\ [Next]_vars =>
        [\A j \in Projects : lock'[j] # lock[j] => pc[j] \in {"fetch", "save"}]_vars
  <2> SUFFICES ASSUME Typed, Next, NEW j \in Projects, lock'[j] # lock[j]
               PROVE  pc[j] \in {"fetch", "save"}
    OBVIOUS
  <2>1. ASSUME NEW i \in Projects, Save(i) \/ Saved(i) \/ CrashSaving(i)
        PROVE  pc[j] \in {"fetch", "save"}
    BY <2>1 DEF Save, Saved, CrashSaving, Typed, PlanTyped
  <2>2. ASSUME NEW i \in Projects, Run(i) /\ ~Save(i) /\ ~Saved(i) PROVE UNCHANGED lock
    BY <2>2 DEF Run, Edit, Edited, NothingToEnsure, LoadFails, LockFails, Reproduce, Load,
       Resolved, ResolveFails, SkipSource, UseBlob, Request, Download, Bundle, FetchFails,
       BlobWritten, UnpackFile, Reproduced, files
  <2>3. ASSUME NEW i \in Projects, UnpackFails(i) \/ Crash(i) \/ CrashEditing(i)
        PROVE  UNCHANGED lock
    BY <2>3 DEF UnpackFails, Crash, CrashEditing, files
  <2>4. ASSUME NEW i \in Projects, NEW cmd \in Commands, Start(i, cmd) PROVE UNCHANGED lock
    BY <2>4 DEF Start, files
  <2>5. ASSUME NEW i \in Projects, NEW t \in TablesOf[i], UserEdits(i, t) PROVE UNCHANGED lock
    BY <2>5 DEF UserEdits
  <2> QED BY <2>1, <2>2, <2>3, <2>4, <2>5 DEF Next
<1>2. InstallInv => Typed
  BY DEF InstallInv
<1> QED BY <1>1, <1>2, InstallInvariant, PTL DEF Spec, Reproducible

\* No lock is written or reproduced before everything it names is in the cache, at least
\* as far as its manifest (update and fetch_locked of install.rs).
THEOREM LockedUnpacked == Spec => []LockedIsThere
<1>1. InstallInv => LockedIsThere
  BY DEF InstallInv, Fetched, LockedIsThere
<1> QED BY <1>1, InstallInvariant, PTL

\* An incomplete source tree that counts as unpacked is being unpacked at this moment,
\* or was cut short; however many projects share the cache (cache.rs, pack.rs).
THEOREM IncompleteTreesExplained == Spec => []IncompleteExplained
<1>1. InstallInv => IncompleteExplained
  BY DEF InstallInv
<1> QED BY <1>1, InstallInvariant, PTL
====
