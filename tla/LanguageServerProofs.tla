---- MODULE LanguageServerProofs ----
(* Proofs about LanguageServer: its type, the memo, and the agreement of the engine and
   the editor's diagnostics with the open documents. *)
EXTENDS LanguageServer, TLAPS

USE ServerAssumption

(***************************************************************************)
(* Types.                                                                  *)
(***************************************************************************)
LEMMA SimulationType ==
  ASSUME TypeOK, NEW f \in Files, NEW text \in Texts, NEW loaded \in [Files -> OrNull(Texts)]
  PROVE  /\ Simulate(f, text, loaded) \in [Sources(f) -> Texts]
         /\ Simulate(f, text, loaded)[f] = text
         /\ Simulate(f, text, loaded) \in Simulations
<1>1. \A g \in Sources(f) : g \in Files
  BY DEF Sources
<1>2. \A g \in Sources(f) : (IF g = f THEN text ELSE ReadImport(loaded, g)) \in Texts
  BY <1>1 DEF ReadImport, TypeOK, OrNull
<1>3. Simulate(f, text, loaded) \in [Sources(f) -> Texts]
  BY <1>2 DEF Simulate
<1>4. f \in Sources(f)
  BY DEF Sources
<1> QED BY <1>3, <1>4 DEF Simulate, Simulations

LEMMA MemoizedType ==
  ASSUME TypeOK, NEW f \in Files, tracked[f] # Null
  PROVE  /\ Simulation(f) \in [Sources(f) -> Texts]
         /\ Simulation(f) \in Simulations
<1>1. tracked[f] \in Texts
  BY DEF TypeOK, OrNull
<1>2. CASE memo[f] # Null /\ memo[f][f] = tracked[f]
  BY <1>2 DEF TypeOK, OrNull, Simulation, Simulations
<1>3. CASE ~(memo[f] # Null /\ memo[f][f] = tracked[f])
  BY <1>1, <1>3, SimulationType DEF Simulation, TypeOK
<1> QED BY <1>2, <1>3

LEMMA SinceNow == ASSUME TypeOK PROVE ContentsNow \in [Imported -> SUBSET Texts]
BY DEF TypeOK, ContentsNow, Imported

LEMMA SinceSeen ==
  ASSUME TypeOK, NEW f \in Files, NEW text \in Texts
  PROVE  Seen(f, text) \in [Imported -> SUBSET Texts]
BY DEF TypeOK, Seen

Handling ==
  {Idle} \cup [kind : {"analyze"}, file : Files, text : Texts]
         \cup [kind : {"close"}, file : Files, text : {Null}]
         \cup [kind : {"publish"}, file : Files, text : OrNull(Texts)]

LEMMA ChangeType ==
  ASSUME TypeOK, NEW h \in Handlers, NEW f \in Files, NEW text \in Texts,
         Notified(h, f, text, "analyze")
  PROVE  /\ docs' \in [Files -> OrNull(Texts)]
         /\ handler' \in [Handlers -> Handling]
         /\ calm' \in [Files -> BOOLEAN]
<1>1. Quiet(f) \in BOOLEAN
  BY DEF Quiet, Busy
<1>2. text \in OrNull(Texts)
  BY DEF OrNull
<1> QED BY <1>1, <1>2 DEF TypeOK, Notified, Waiting, Handling

LEMMA ClosingType ==
  ASSUME TypeOK, NEW h \in Handlers, NEW f \in Files,
         Notified(h, f, Null, "close")
  PROVE  /\ docs' \in [Files -> OrNull(Texts)]
         /\ handler' \in [Handlers -> Handling]
         /\ calm' \in [Files -> BOOLEAN]
<1>1. Quiet(f) \in BOOLEAN
  BY DEF Quiet, Busy
<1>2. Null \in OrNull(Texts)
  BY DEF OrNull
<1> QED BY <1>1, <1>2 DEF TypeOK, Notified, Waiting, Handling

LEMMA TypeStep == TypeOK /\ [Next]_vars => TypeOK'
<1> SUFFICES ASSUME TypeOK, [Next]_vars PROVE TypeOK'
  OBVIOUS
<1>1. ASSUME NEW h \in Handlers, NEW f \in Files, DidOpen(h, f) PROVE TypeOK'
  <2>1. disk[f] \in Texts /\ disk[f] \in OrNull(Texts)
    BY DEF TypeOK, OrNull
  <2>2. /\ docs' \in [Files -> OrNull(Texts)]
       /\ handler' \in [Handlers -> Handling] /\ calm' \in [Files -> BOOLEAN]
    <3>1. Notified(h, f, disk[f], "analyze")
      BY <1>1 DEF DidOpen
    <3> QED BY <3>1, <2>1, ChangeType
  <2> QED BY <1>1, <2>2 DEF DidOpen, TypeOK, engine, Handling
<1>2. ASSUME NEW h \in Handlers, NEW f \in Files, DidSave(h, f) PROVE TypeOK'
  <2>1. docs[f] \in Texts /\ docs[f] \in OrNull(Texts)
    BY <1>2 DEF TypeOK, OrNull, DidSave
  <2>2. since' \in [Imported -> SUBSET Texts]
    BY <1>2, <2>1, SinceSeen DEF DidSave
  <2>3. disk' \in [Files -> Texts]
    BY <1>2, <2>1 DEF DidSave, TypeOK
  <2>4. /\ docs' \in [Files -> OrNull(Texts)]
       /\ handler' \in [Handlers -> Handling] /\ calm' \in [Files -> BOOLEAN]
    <3>1. Notified(h, f, docs[f], "analyze")
      BY <1>2 DEF DidSave
    <3> QED BY <3>1, <2>1, ChangeType
  <2> QED BY <1>2, <2>2, <2>3, <2>4 DEF DidSave, TypeOK, engine, Handling
<1>3. ASSUME NEW h \in Handlers, NEW f \in Files, DidClose(h, f) PROVE TypeOK'
  <2>1. Null \in OrNull(Texts)
    BY DEF OrNull
  <2>2. /\ docs' \in [Files -> OrNull(Texts)]
       /\ handler' \in [Handlers -> Handling] /\ calm' \in [Files -> BOOLEAN]
    <3>1. Notified(h, f, Null, "close")
      BY <1>3 DEF DidClose
    <3> QED BY <3>1, ClosingType
  <2> QED BY <1>3, <2>2 DEF DidClose, TypeOK, engine, Handling
<1>4. ASSUME NEW h \in Handlers, NEW f \in Files, NEW text \in Texts, DidChange(h, f, text)
      PROVE TypeOK'
  <2>1. text \in OrNull(Texts)
    BY DEF OrNull
  <2>2. /\ docs' \in [Files -> OrNull(Texts)]
       /\ handler' \in [Handlers -> Handling] /\ calm' \in [Files -> BOOLEAN]
    <3>1. Notified(h, f, text, "analyze")
      BY <1>4 DEF DidChange
    <3> QED BY <3>1, <2>1, ChangeType
  <2> QED BY <1>4, <2>2 DEF DidChange, TypeOK, engine, Handling
<1>5. ASSUME NEW h \in Handlers, Analyze(h) PROVE TypeOK'
  <2> DEFINE f == handler[h].file
             text == handler[h].text
             result == Simulate(f, text, preloaded)
  <2>1. f \in Files /\ text \in Texts /\ text \in OrNull(Texts)
    BY <1>5 DEF Analyze, TypeOK, OrNull, Idle
  <2>2. /\ result \in [Sources(f) -> Texts] /\ result[f] = text /\ result \in Simulations
    BY <2>1, SimulationType DEF TypeOK
  <2>3. memo' = [NoMemo EXCEPT ![f] = result]
    BY <1>5 DEF Analyze
  <2>4. memo' \in [Files -> OrNull(Simulations)]
    BY <2>2, <2>3 DEF NoMemo, OrNull
  <2>5. \A g \in Files : memo'[g] \in OrNull([Sources(g) -> Texts])
    BY <2>2, <2>3 DEF NoMemo, OrNull
  <2>6. handler' = [handler EXCEPT ![h] = Publishing(f, text)]
    BY <1>5, <2>2 DEF Analyze
  <2>7. tracked' \in [Files -> OrNull(Texts)]
    BY <1>5, <2>1 DEF Analyze, TypeOK
  <2>8. since' \in [Imported -> SUBSET Texts]
    BY <1>5, SinceNow DEF Analyze
  <2> HIDE DEF f, text, result
  <2>9. UNCHANGED <<disk, docs, preloaded, published, calm>>
    BY <1>5 DEF Analyze
  <2> QED BY <2>1, <2>4, <2>5, <2>6, <2>7, <2>8, <2>9 DEF TypeOK, Publishing
<1>6. ASSUME NEW h \in Handlers, Close(h) PROVE TypeOK'
  <2>1. handler[h].file \in Files
    BY <1>6 DEF Close, TypeOK, Idle
  <2>2. Null \in OrNull(Texts) /\ Null \in OrNull(Simulations)
        /\ \A g \in Files : Null \in OrNull([Sources(g) -> Texts])
    BY DEF OrNull
  <2> QED BY <1>6, <2>1, <2>2 DEF Close, TypeOK, Publishing
<1>7. ASSUME NEW h \in Handlers, Publish(h) PROVE TypeOK'
  <2>1. handler[h].file \in Files /\ handler[h].text \in OrNull(Texts)
    BY <1>7 DEF Publish, TypeOK, Idle
  <2> QED BY <1>7, <2>1 DEF Publish, TypeOK, engine
<1>8. CASE Preload
  <2>1. \A f \in Files : disk[f] \in OrNull(Texts) /\ Null \in OrNull(Texts)
    BY DEF TypeOK, OrNull
  <2>2. preloaded' \in [Files -> OrNull(Texts)]
    BY <1>8, <2>1 DEF Preload
  <2>3. since' \in [Imported -> SUBSET Texts]
    BY <1>8, SinceNow DEF Preload
  <2>4. memo' \in [Files -> OrNull(Simulations)]
        /\ \A g \in Files : memo'[g] \in OrNull([Sources(g) -> Texts])
    BY <1>8 DEF Preload, NoMemo, OrNull
  <2> QED BY <1>8, <2>2, <2>3, <2>4 DEF Preload, TypeOK
<1>9. ASSUME NEW f \in Files, Respond(f) PROVE TypeOK'
  <2>1. Simulation(f) \in [Sources(f) -> Texts] /\ Simulation(f) \in Simulations
    BY <1>9, MemoizedType DEF Respond
  <2>2. memo' \in [Files -> OrNull(Simulations)]
        /\ \A g \in Files : memo'[g] \in OrNull([Sources(g) -> Texts])
    BY <1>9, <2>1 DEF Respond, TypeOK, OrNull
  <2> QED BY <1>9, <2>2 DEF Respond, TypeOK
<1>10. ASSUME NEW f \in Files, NEW text \in Texts, Written(f, text) PROVE TypeOK'
  <2>1. since' \in [Imported -> SUBSET Texts]
    BY <1>10, SinceSeen DEF Written
  <2> QED BY <1>10, <2>1 DEF Written, TypeOK, engine
<1>11. CASE UNCHANGED vars
  BY <1>11 DEF vars, engine, TypeOK
<1> QED BY <1>1, <1>2, <1>3, <1>4, <1>5, <1>6, <1>7, <1>8, <1>9, <1>10, <1>11 DEF Next

LEMMA TypeInit == Init => TypeOK
<1> SUFFICES ASSUME Init PROVE TypeOK
  OBVIOUS
<1>1. since \in [Imported -> SUBSET Texts]
  BY DEF Init, ContentsNow, Imported
<1> QED BY <1>1 DEF Init, TypeOK, OrNull, NoMemo

\* Every variable keeps its type, whatever the files, their imports and the number of
\* handlers in flight.
THEOREM TypeCorrect == Spec => []TypeOK
BY TypeInit, TypeStep, PTL DEF Spec

(***************************************************************************)
(* The memo.                                                               *)
(***************************************************************************)

\* What an import read from disk had since the memo was cleared includes what it has now.
DiskSeen == \A g \in Imported : disk[g] \in since[g]

\* An entry that was just computed is fresh.
LEMMA SimulatedFresh ==
  ASSUME TypeOK, NEW f \in Files, NEW text, NEW g \in Imports[f]
  PROVE  /\ g \in Imported /\ g \in Files
         /\ Simulate(f, text, preloaded)[f] = text
         /\ Simulate(f, text, preloaded)[g]
              = IF preloaded[g] # Null THEN preloaded[g] ELSE disk[g]
<1>1. g \in Files /\ g # f /\ g \in Sources(f) /\ f \in Sources(f)
  BY DEF Sources
<1>2. g \in Imported
  BY DEF Imported
<1> QED BY <1>1, <1>2 DEF Simulate, ReadImport

LEMMA OwnText ==
  ASSUME NEW f \in Files, NEW text
  PROVE  Simulate(f, text, preloaded)[f] = text
BY DEF Simulate, Sources

LEMMA FreshStep == TypeOK /\ DiskSeen /\ MemoFresh /\ [Next]_vars => DiskSeen' /\ MemoFresh'
<1> SUFFICES ASSUME TypeOK, DiskSeen, MemoFresh, [Next]_vars PROVE DiskSeen' /\ MemoFresh'
  OBVIOUS
<1>0. \A f \in Files : \A g \in Imports[f] : g \in Imported /\ g \in Files
  BY DEF Imported
<1>1. ASSUME NEW h \in Handlers, NEW f \in Files, DidOpen(h, f)
      PROVE  DiskSeen' /\ MemoFresh'
  BY <1>1 DEF DidOpen, engine, DiskSeen, MemoFresh
<1>2. ASSUME NEW h \in Handlers, NEW f \in Files, DidSave(h, f)
      PROVE  DiskSeen' /\ MemoFresh'
  <2>1. since' = Seen(f, docs[f]) /\ disk' = [disk EXCEPT ![f] = docs[f]]
    BY <1>2 DEF DidSave
  <2>2. \A g \in Imported : since[g] \subseteq since'[g]
    BY <2>1 DEF Seen, TypeOK
  <2>3. DiskSeen'
    BY <2>1 DEF Seen, TypeOK, DiskSeen, Imported
  <2> QED BY <1>0, <1>2, <2>2, <2>3 DEF DidSave, engine, MemoFresh
<1>3. ASSUME NEW h \in Handlers, NEW f \in Files, DidClose(h, f)
      PROVE  DiskSeen' /\ MemoFresh'
  BY <1>3 DEF DidClose, engine, DiskSeen, MemoFresh
<1>4. ASSUME NEW h \in Handlers, NEW f \in Files, NEW text \in Texts, DidChange(h, f, text)
      PROVE  DiskSeen' /\ MemoFresh'
  BY <1>4 DEF DidChange, engine, DiskSeen, MemoFresh
<1>5. ASSUME NEW h \in Handlers, Analyze(h) PROVE DiskSeen' /\ MemoFresh'
  <2> DEFINE f == handler[h].file
             text == handler[h].text
             result == Simulate(f, text, preloaded)
  <2>1. f \in Files
    BY <1>5 DEF Analyze, TypeOK, Idle
  <2>2. /\ memo' = [NoMemo EXCEPT ![f] = result] /\ tracked' = [tracked EXCEPT ![f] = text]
        /\ since' = ContentsNow /\ UNCHANGED <<disk, preloaded>>
    BY <1>5 DEF Analyze
  <2>3. DiskSeen'
    BY <2>2 DEF DiskSeen, ContentsNow
  <2>4. ASSUME NEW e \in Files, memo'[e] # Null PROVE e = f
    BY <2>1, <2>2, <2>4 DEF NoMemo
  <2>5. memo'[f] = result /\ tracked'[f] = text
    BY <2>1, <2>2 DEF NoMemo, TypeOK
  <2>6. result[f] = text
    BY <2>1, OwnText
  <2>7. \A g \in Imports[f] : IF preloaded'[g] # Null THEN result[g] = preloaded'[g]
                              ELSE result[g] \in since'[g]
    BY <2>1, <2>2, SimulatedFresh DEF ContentsNow
  <2> HIDE DEF f, text, result
  <2> QED BY <2>3, <2>4, <2>5, <2>6, <2>7 DEF MemoFresh
<1>6. ASSUME NEW h \in Handlers, Close(h) PROVE DiskSeen' /\ MemoFresh'
  BY <1>6 DEF Close, DiskSeen, MemoFresh, TypeOK
<1>7. ASSUME NEW h \in Handlers, Publish(h) PROVE DiskSeen' /\ MemoFresh'
  BY <1>7 DEF Publish, engine, DiskSeen, MemoFresh
<1>8. CASE Preload
  BY <1>8 DEF Preload, NoMemo, ContentsNow, DiskSeen, MemoFresh
<1>9. ASSUME NEW f \in Files, Respond(f) PROVE DiskSeen' /\ MemoFresh'
  <2>1. memo' = [memo EXCEPT ![f] = Simulation(f)]
        /\ UNCHANGED <<disk, tracked, preloaded, since>>
    BY <1>9 DEF Respond
  <2>2. \A e \in Files \ {f} : memo'[e] = memo[e]
    BY <2>1 DEF TypeOK
  <2>3. memo'[f] = Simulation(f)
    BY <2>1 DEF TypeOK
  <2>4. CASE memo[f] # Null /\ memo[f][f] = tracked[f]
    <3>1. \A e \in Files : memo'[e] = memo[e]
      BY <2>2, <2>3, <2>4 DEF Simulation
    <3> QED BY <2>1, <3>1 DEF DiskSeen, MemoFresh
  <2>5. CASE ~(memo[f] # Null /\ memo[f][f] = tracked[f])
    <3>1. memo'[f] = Simulate(f, tracked[f], preloaded)
      BY <2>3, <2>5 DEF Simulation
    <3>2. memo'[f][f] = tracked[f]
      BY <3>1, OwnText
    <3>3. \A g \in Imports[f] : IF preloaded[g] # Null THEN memo'[f][g] = preloaded[g]
                                ELSE memo'[f][g] \in since[g]
      BY <3>1, SimulatedFresh DEF DiskSeen
    <3> QED BY <2>1, <2>2, <3>2, <3>3 DEF DiskSeen, MemoFresh
  <2> QED BY <2>4, <2>5
<1>10. ASSUME NEW f \in Files, NEW text \in Texts, Written(f, text)
       PROVE  DiskSeen' /\ MemoFresh'
  <2>1. since' = Seen(f, text) /\ disk' = [disk EXCEPT ![f] = text]
    BY <1>10 DEF Written
  <2>2. \A g \in Imported : since[g] \subseteq since'[g]
    BY <2>1 DEF Seen, TypeOK
  <2>3. DiskSeen'
    BY <2>1 DEF Seen, TypeOK, DiskSeen, Imported
  <2> QED BY <1>0, <1>10, <2>2, <2>3 DEF Written, engine, MemoFresh
<1>11. CASE UNCHANGED vars
  BY <1>11 DEF vars, engine, DiskSeen, MemoFresh
<1> QED BY <1>1, <1>2, <1>3, <1>4, <1>5, <1>6, <1>7, <1>8, <1>9, <1>10, <1>11 DEF Next

\* No request is ever answered from an outdated simulation: what the memo holds is of
\* the tracked text, and of imports as they are, or were after the last analysis.
THEOREM MemoIsFresh == Spec => []MemoFresh
<1>1. Init => DiskSeen /\ MemoFresh
  BY DEF Init, DiskSeen, MemoFresh, NoMemo, ContentsNow
<1> QED BY <1>1, FreshStep, TypeCorrect, PTL DEF Spec

(***************************************************************************)
(* Agreement with the documents.                                           *)
(***************************************************************************)

Of(h, f) == handler[h].kind # "idle" /\ handler[h].file = f

\* A file whose notifications do not overlap has at most one handler at work.
OneHandler ==
  \A f \in Files : calm[f] => \A h, k \in Handlers : Of(h, f) /\ Of(k, f) => h = k

\* How far that handler has come.
InProgress ==
  \A f \in Files : calm[f] => \A h \in Handlers : Of(h, f) =>
    /\ handler[h].text = docs[f]
    /\ handler[h].kind = "publish" => tracked[f] = docs[f]
    /\ handler[h].kind = "close" => docs[f] = Null

Settling == OneHandler /\ InProgress /\ SettlesOnDocument

LEMMA NotifiedSettling ==
  ASSUME TypeOK, Settling, NEW h \in Handlers, NEW f \in Files, NEW text, NEW kind,
         kind \in {"analyze", "close"}, kind = "close" => text = Null,
         Notified(h, f, text, kind), UNCHANGED <<tracked, published>>
  PROVE  Settling'
<1>1. /\ docs' = [docs EXCEPT ![f] = text] /\ calm' = [calm EXCEPT ![f] = Quiet(f)]
      /\ handler' = [handler EXCEPT ![h] = Waiting(kind, f, text)]
      /\ handler[h].kind = "idle"
  BY DEF Notified, Idle
<1>2. handler'[h].kind = kind /\ handler'[h].file = f /\ handler'[h].text = text
  BY <1>1 DEF TypeOK, Waiting
<1>3. \A k \in Handlers \ {h} : handler'[k] = handler[k]
  BY <1>1 DEF TypeOK
<1>4. \A g \in Files \ {f} : docs'[g] = docs[g] /\ calm'[g] = calm[g]
  BY <1>1 DEF TypeOK
<1>5. docs'[f] = text /\ (calm'[f] <=> Quiet(f))
  BY <1>1 DEF TypeOK
<1>6. Quiet(f) => \A k \in Handlers : ~Of(k, f)
  BY DEF Quiet, Busy, Of
<1>7. \A k \in Handlers \ {h}, g \in Files : Of(k, g)' <=> Of(k, g)
  BY <1>3 DEF Of
<1>8. \A g \in Files \ {f} : ~Of(h, g)' /\ ~Of(h, g)
  BY <1>1, <1>2 DEF Of
<1>9. ~Quiet(f)'
  BY <1>2 DEF Quiet, Busy
<1>10. \A g \in Files \ {f} : Quiet(g)' <=> Quiet(g)
  BY <1>7, <1>8 DEF Quiet, Busy, Of
<1>11. OneHandler'
  BY <1>4, <1>5, <1>6, <1>7, <1>8 DEF OneHandler, Settling
<1>12. InProgress'
  BY <1>2, <1>3, <1>4, <1>5, <1>6, <1>7, <1>8 DEF InProgress, Settling
<1>13. SettlesOnDocument'
  BY <1>4, <1>9, <1>10 DEF SettlesOnDocument, Settling
<1> QED BY <1>11, <1>12, <1>13 DEF Settling

LEMMA LockedSettling ==
  ASSUME TypeOK, Settling, NEW h \in Handlers, handler[h].kind \in {"analyze", "close"},
         handler[h].file \in Files,
         tracked' = [tracked EXCEPT ![handler[h].file] = handler[h].text],
         handler' = [handler EXCEPT ![h] = Publishing(handler[h].file, handler[h].text)],
         UNCHANGED <<docs, published, calm>>
  PROVE  Settling'
<1> DEFINE f == handler[h].file
           text == handler[h].text
<1>0. /\ f \in Files /\ handler[h].file = f /\ handler[h].text = text
      /\ tracked' = [tracked EXCEPT ![f] = text]
      /\ handler' = [handler EXCEPT ![h] = Publishing(f, text)]
  OBVIOUS
<1> HIDE DEF f, text
<1>1. /\ handler'[h].kind = "publish" /\ handler'[h].file = f /\ handler'[h].text = text
      /\ tracked'[f] = text
  BY <1>0 DEF TypeOK, Publishing
<1>2. \A k \in Handlers \ {h} : handler'[k] = handler[k]
  BY <1>0 DEF TypeOK
<1>3. \A g \in Files \ {f} : tracked'[g] = tracked[g]
  BY <1>0 DEF TypeOK
<1>4. \A k \in Handlers, g \in Files : Of(k, g)' <=> Of(k, g)
  BY <1>0, <1>1, <1>2 DEF Of
<1>5. \A g \in Files : Quiet(g)' <=> Quiet(g)
  BY <1>4 DEF Quiet, Busy, Of
<1>6. ~Quiet(f) /\ Of(h, f)
  BY <1>0 DEF Quiet, Busy, Of
<1>7. OneHandler'
  BY <1>4 DEF OneHandler, Settling
<1>8. InProgress'
  <2>1. ASSUME calm[f] PROVE text = docs[f]
    BY <1>0, <1>6, <2>1 DEF InProgress, Settling
  <2>2. ASSUME calm[f], NEW k \in Handlers, Of(k, f) PROVE k = h
    BY <1>0, <1>6, <2>2 DEF OneHandler, Settling
  <2>3. ASSUME NEW g \in Files \ {f}, NEW k \in Handlers, Of(k, g) PROVE k # h
    BY <1>0, <2>3 DEF Of
  <2> QED BY <1>1, <1>2, <1>3, <1>4, <2>1, <2>2, <2>3 DEF InProgress, Settling
<1>9. SettlesOnDocument'
  BY <1>0, <1>3, <1>5, <1>6 DEF SettlesOnDocument, Settling
<1> QED BY <1>7, <1>8, <1>9 DEF Settling

LEMMA SettlingStep == TypeOK /\ Settling /\ [Next]_vars => Settling'
<1> SUFFICES ASSUME TypeOK, Settling, [Next]_vars PROVE Settling'
  OBVIOUS
<1>1. ASSUME NEW h \in Handlers, NEW f \in Files, DidOpen(h, f) PROVE Settling'
  BY <1>1, NotifiedSettling DEF DidOpen, engine
<1>2. ASSUME NEW h \in Handlers, NEW f \in Files, DidSave(h, f) PROVE Settling'
  BY <1>2, NotifiedSettling DEF DidSave, engine
<1>3. ASSUME NEW h \in Handlers, NEW f \in Files, DidClose(h, f) PROVE Settling'
  BY <1>3, NotifiedSettling DEF DidClose, engine
<1>4. ASSUME NEW h \in Handlers, NEW f \in Files, NEW text \in Texts, DidChange(h, f, text)
      PROVE  Settling'
  BY <1>4, NotifiedSettling DEF DidChange, engine
<1>6. ASSUME NEW h \in Handlers, Analyze(h) PROVE Settling'
  <2>1. handler[h].file \in Files
    BY <1>6 DEF Analyze, TypeOK, Idle
  <2>2. Simulate(handler[h].file, handler[h].text, preloaded)[handler[h].file] = handler[h].text
    BY <2>1, OwnText
  <2>3. /\ handler[h].kind = "analyze"
        /\ tracked' = [tracked EXCEPT ![handler[h].file] = handler[h].text]
        /\ handler' = [handler EXCEPT ![h] = Publishing(handler[h].file, handler[h].text)]
        /\ UNCHANGED <<docs, published, calm>>
    BY <1>6, <2>2 DEF Analyze
  <2> QED BY <2>1, <2>3, LockedSettling
<1>7. ASSUME NEW h \in Handlers, Close(h) PROVE Settling'
  <2>1. handler[h].file \in Files /\ handler[h].text = Null
    BY <1>7 DEF Close, TypeOK, Idle
  <2>2. /\ handler[h].kind = "close"
        /\ tracked' = [tracked EXCEPT ![handler[h].file] = handler[h].text]
        /\ handler' = [handler EXCEPT ![h] = Publishing(handler[h].file, handler[h].text)]
        /\ UNCHANGED <<docs, published, calm>>
    BY <1>7, <2>1 DEF Close
  <2> QED BY <2>1, <2>2, LockedSettling
<1>8. ASSUME NEW h \in Handlers, Publish(h) PROVE Settling'
  <2> DEFINE f == handler[h].file
  <2>1. f \in Files /\ handler[h].kind = "publish"
    BY <1>8 DEF Publish, TypeOK, Idle
  <2>2. handler'[h].kind = "idle" /\ published'[f] = handler[h].text
    BY <1>8, <2>1 DEF Publish, TypeOK, Idle
  <2>3. \A k \in Handlers \ {h} : handler'[k] = handler[k]
    BY <1>8 DEF Publish, TypeOK
  <2>4. \A g \in Files \ {f} : published'[g] = published[g]
    BY <1>8 DEF Publish, TypeOK
  <2>5. UNCHANGED <<docs, tracked, calm>>
    BY <1>8 DEF Publish, engine
  <2>6. \A k \in Handlers, g \in Files : Of(k, g)' => k # h /\ Of(k, g)
    BY <2>2, <2>3 DEF Of
  <2>7. \A g \in Files \ {f} : Quiet(g)' <=> Quiet(g)
    BY <2>1, <2>2, <2>3 DEF Quiet, Busy
  <2>8. Of(h, f)
    BY <2>1 DEF Of
  <2>9. OneHandler'
    BY <2>5, <2>6 DEF OneHandler, Settling
  <2>10. InProgress'
    BY <2>3, <2>5, <2>6 DEF InProgress, Settling
  <2>11. calm[f] => tracked'[f] = docs'[f] /\ published'[f] = docs'[f]
    BY <2>1, <2>2, <2>5, <2>8 DEF InProgress, Settling
  <2> HIDE DEF f
  <2>12. SettlesOnDocument'
    BY <2>4, <2>5, <2>7, <2>11 DEF SettlesOnDocument, Settling
  <2> QED BY <2>9, <2>10, <2>12 DEF Settling
<1>9. ASSUME UNCHANGED <<docs, handler, tracked, published, calm>> PROVE Settling'
  BY <1>9 DEF Settling, OneHandler, InProgress, SettlesOnDocument, Of, Quiet, Busy
<1>10. CASE Preload
  BY <1>9, <1>10 DEF Preload
<1>11. ASSUME NEW f \in Files, Respond(f) PROVE Settling'
  BY <1>9, <1>11 DEF Respond
<1>12. ASSUME NEW f \in Files, NEW text \in Texts, Written(f, text) PROVE Settling'
  BY <1>9, <1>12 DEF Written, engine
<1>13. CASE UNCHANGED vars
  BY <1>9, <1>13 DEF vars, engine
<1> QED BY <1>1, <1>2, <1>3, <1>4, <1>6, <1>7, <1>8, <1>10, <1>11, <1>12, <1>13 DEF Next

\* With any number of files and handlers: the notifications of one document that do not
\* overlap leave the engine and the editor with that document's text and diagnostics.
THEOREM DocumentsSettle == Spec => []SettlesOnDocument
<1>1. Init => Settling
  BY DEF Init, Settling, OneHandler, InProgress, SettlesOnDocument, Of, Idle
<1>2. Settling => SettlesOnDocument
  BY DEF Settling
<1> QED BY <1>1, <1>2, SettlingStep, TypeCorrect, PTL DEF Spec
====
