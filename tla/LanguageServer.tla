---- MODULE LanguageServer ----
(* The language server between an editor's notifications and the diagnostics it
   publishes: crates/peko-lsp/src/server/backend.rs and documents.rs over the engine
   of crates/peko-lsp/src/analyzer/mod.rs.

   Handlers of notifications and requests run concurrently. What a handler does before
   its first await happens in the order of the messages; the rest, under the engine's
   lock, in any order. A simulation of a file stands for what it was computed from: the
   file's own text, and the contents of every file it imports, directly or not. The
   diagnostics of a file stand for the text they are about. *)
EXTENDS FiniteSets

CONSTANTS Files,
          Imports,    \* of each file, the files its simulation reads
          Packaged,   \* files of external packages, which preload_packages loads
          Texts,      \* contents a file may have
          Handlers,   \* bound on the handlers in flight
          Null

ASSUME ServerAssumption ==
  /\ Imports \in [Files -> SUBSET Files]
  /\ \A f \in Files : f \notin Imports[f]
  /\ Packaged \subseteq Files
  /\ Null \notin Texts

VARIABLES
  disk,       \* contents of the files on disk
  docs,       \* DocumentStore: text of each open document
  handler,    \* handlers in flight
  tracked,    \* PekoAnalyzer.tracked_files
  memo,       \* PekoAnalyzer.simulation_cache
  preloaded,  \* PekoAnalyzer.preloaded_modules: what was read of each packaged file
  published,  \* the text whose diagnostics the editor shows, of each file
  since,      \* history: contents each import has had on disk since the memo was cleared
  calm        \* history: whether the notification of a file handled last, or being
              \* handled, started when no other one of that file was being handled

engine == <<tracked, memo, preloaded>>
vars == <<disk, docs, handler, tracked, memo, preloaded, published, since, calm>>

---------------------------------------------------------------------------
(* The engine. *)

OrNull(S) == S \cup {Null}
Sources(f) == {f} \cup Imports[f]

Simulations == UNION {[Sources(f) -> Texts] : f \in Files}

\* create_simulator_context and the import statement: a preloaded module is reused,
\* any other is read from disk, even when it is open in the editor.
ReadImport(loaded, g) == IF loaded[g] # Null THEN loaded[g] ELSE disk[g]

\* simulate_document on a miss: parse the tracked text, simulate it with its imports.
Simulate(f, text, loaded) ==
  [g \in Sources(f) |-> IF g = f THEN text ELSE ReadImport(loaded, g)]

\* simulate_document: the memo's entry if it is of the tracked text.
Simulation(f) ==
  IF memo[f] # Null /\ memo[f][f] = tracked[f] THEN memo[f]
  ELSE Simulate(f, tracked[f], preloaded)

NoMemo == [f \in Files |-> Null]
Imported == UNION {Imports[f] : f \in Files}
ContentsNow == [f \in Imported |-> {disk[f]}]
Seen(f, text) == IF f \in Imported THEN [since EXCEPT ![f] = @ \cup {text}] ELSE since

---------------------------------------------------------------------------
(* Handlers. *)

Idle == [kind |-> "idle"]
Waiting(kind, f, text) == [kind |-> kind, file |-> f, text |-> text]
Publishing(f, text) == [kind |-> "publish", file |-> f, text |-> text]

\* A notification of f is being handled.
Busy(f) ==
  \E h \in Handlers : handler[h].kind # "idle" /\ handler[h].file = f
Quiet(f) == ~Busy(f)

\* The part of a notification's handler up to its first await.
Notified(h, f, text, kind) ==
  /\ handler[h] = Idle
  /\ docs' = [docs EXCEPT ![f] = text]
  /\ handler' = [handler EXCEPT ![h] = Waiting(kind, f, text)]
  /\ calm' = [calm EXCEPT ![f] = Quiet(f)]

Init ==
  /\ disk \in [Files -> Texts]
  /\ docs = [f \in Files |-> Null]
  /\ handler = [h \in Handlers |-> Idle]
  /\ tracked = [f \in Files |-> Null]
  /\ memo = NoMemo
  /\ preloaded = [f \in Files |-> Null]
  /\ published = [f \in Files |-> Null]
  /\ since = ContentsNow
  /\ calm = [f \in Files |-> TRUE]

\* did_open, and the document store's open: the editor sends what it read from disk.
DidOpen(h, f) ==
  /\ docs[f] = Null
  /\ Notified(h, f, disk[f], "analyze")
  /\ UNCHANGED <<disk, engine, published, since>>

\* did_change, with the whole text as advertised (TextDocumentSyncKind::FULL).
DidChange(h, f, text) ==
  /\ docs[f] \notin {Null, text}
  /\ Notified(h, f, text, "analyze")
  /\ UNCHANGED <<disk, engine, published, since>>

\* did_save: the editor has written the document.
DidSave(h, f) ==
  /\ docs[f] # Null
  /\ Notified(h, f, docs[f], "analyze")
  /\ disk' = [disk EXCEPT ![f] = docs[f]]
  /\ since' = Seen(f, docs[f])
  /\ UNCHANGED <<engine, published>>

\* did_close, up to the await of the write lock.
DidClose(h, f) ==
  /\ docs[f] # Null
  /\ Notified(h, f, Null, "close")
  /\ UNCHANGED <<disk, engine, published, since>>

\* Variant for mutation: only the file's own entry of the memo is dropped.
AnalyzeOwnEntry(h) ==
  /\ handler[h].kind = "analyze"
  /\ LET f == handler[h].file
         text == handler[h].text
         result == Simulate(f, text, preloaded)
     IN /\ tracked' = [tracked EXCEPT ![f] = text]
        /\ memo' = [memo EXCEPT ![f] = result]
        /\ handler' = [handler EXCEPT ![h] = Publishing(f, result[f])]
  /\ since' = ContentsNow
  /\ UNCHANGED <<disk, docs, preloaded, published, calm>>

\* Variant for mutation: the diagnostics are asked for before the text is fed in.
AnalyzeBeforeUpdate(h) ==
  /\ handler[h].kind = "analyze"
  /\ LET f == handler[h].file
         text == handler[h].text
         IN /\ tracked' = [tracked EXCEPT ![f] = text]
        /\ memo' = NoMemo
        /\ handler' = [handler EXCEPT ![h] = Publishing(f, tracked[f])]
  /\ since' = ContentsNow
  /\ UNCHANGED <<disk, docs, preloaded, published, calm>>

\* reanalyze under the write lock: update_file clears the memo, diagnostics refills it.
Analyze(h) ==
  /\ handler[h].kind = "analyze"
  /\ LET f == handler[h].file
         text == handler[h].text
         result == Simulate(f, text, preloaded)
     IN /\ tracked' = [tracked EXCEPT ![f] = text]
        /\ memo' = [NoMemo EXCEPT ![f] = result]
        /\ handler' = [handler EXCEPT ![h] = Publishing(f, result[f])]
  /\ since' = ContentsNow
  /\ UNCHANGED <<disk, docs, preloaded, published, calm>>

\* did_close under the write lock: close_file.
Close(h) ==
  /\ handler[h].kind = "close"
  /\ LET f == handler[h].file
     IN /\ tracked' = [tracked EXCEPT ![f] = Null]
        /\ memo' = [memo EXCEPT ![f] = Null]
        /\ handler' = [handler EXCEPT ![h] = Publishing(f, Null)]
  /\ UNCHANGED <<disk, docs, preloaded, published, since, calm>>

\* publish_diagnostics, without a version: the end of reanalyze and of did_close.
Publish(h) ==
  /\ handler[h].kind = "publish"
  /\ published' = [published EXCEPT ![handler[h].file] = handler[h].text]
  /\ handler' = [handler EXCEPT ![h] = Idle]
  /\ UNCHANGED <<disk, docs, engine, since, calm>>

\* hover, completion, signature_help, goto_definition or document_symbol under the read
\* lock: the engine answers from the text it tracks, if any, and may fill the memo.
Respond(f) ==
  /\ tracked[f] # Null
  /\ memo' = [memo EXCEPT ![f] = Simulation(f)]
  /\ UNCHANGED <<disk, docs, handler, tracked, preloaded, published, since, calm>>

\* initialize's background task: load_required_packages, once, at any time.
Preload ==
  /\ \A f \in Packaged : preloaded[f] = Null
  /\ Packaged # {}
  /\ preloaded' = [f \in Files |-> IF f \in Packaged THEN disk[f] ELSE Null]
  /\ memo' = NoMemo
  /\ since' = ContentsNow
  /\ UNCHANGED <<disk, docs, handler, tracked, published, calm>>

\* Another program writes a file.
Written(f, text) ==
  /\ text # disk[f]
  /\ disk' = [disk EXCEPT ![f] = text]
  /\ since' = Seen(f, text)
  /\ UNCHANGED <<docs, handler, engine, published, calm>>

Next ==
  \/ \E h \in Handlers, f \in Files :
       \/ DidOpen(h, f) \/ DidSave(h, f) \/ DidClose(h, f)
       \/ \E text \in Texts : DidChange(h, f, text)
  \/ \E h \in Handlers : Analyze(h) \/ Close(h) \/ Publish(h)
  \/ Preload
  \/ \E f \in Files : Respond(f) \/ \E text \in Texts : Written(f, text)

Spec == Init /\ [][Next]_vars

---------------------------------------------------------------------------
(* Properties. *)

\* Every variable has its type; the memo holds of a file a simulation of that file.
TypeOK ==
  /\ disk \in [Files -> Texts]
  /\ docs \in [Files -> OrNull(Texts)]
  /\ handler \in [Handlers ->
       {Idle} \cup [kind : {"analyze"}, file : Files, text : Texts]
              \cup [kind : {"close"}, file : Files, text : {Null}]
              \cup [kind : {"publish"}, file : Files, text : OrNull(Texts)]]
  /\ tracked \in [Files -> OrNull(Texts)]
  /\ memo \in [Files -> OrNull(Simulations)]
  /\ \A f \in Files : memo[f] \in OrNull([Sources(f) -> Texts])
  /\ published \in [Files -> OrNull(Texts)]
  /\ preloaded \in [Files -> OrNull(Texts)]
  /\ since \in [Imported -> SUBSET Texts]
  /\ calm \in [Files -> BOOLEAN]

\* A memoized simulation may be served: it is of the text the engine tracks, over the
\* modules now preloaded, and every import it read from disk had that content after the
\* last analysis of any file, that is, a file the editor saved is seen by all.
MemoFresh ==
  \A f \in Files : memo[f] # Null =>
    /\ memo[f][f] = tracked[f]
    /\ \A g \in Imports[f] : IF preloaded[g] # Null THEN memo[f][g] = preloaded[g]
                             ELSE memo[f][g] \in since[g]

\* As long as notifications of one file do not overlap, whatever the handlers of other
\* files, the requests and the preload do, the engine and the editor end up with that
\* file: tracked with its text and its own diagnostics while it is open, forgotten and
\* without any once it is closed.
SettlesOnDocument ==
  \A f \in Files : Quiet(f) /\ calm[f] => tracked[f] = docs[f] /\ published[f] = docs[f]

\* backend.rs:100-102 of reanalyze: the write lock keeps another did_change from
\* publishing stale diagnostics for the older text. So when nothing is in flight the
\* diagnostics shown are those of the open document's text.
LatestTextWins == \A f \in Files : Quiet(f) => published[f] = docs[f]
====
