---------------------------- MODULE CancelToken -----------------------------
(***************************************************************************)
(* The cancellation token of std::threads: toolkit/std/c/threads/          *)
(* threads.c.  Any thread may cancel it and any may register a callback;   *)
(* there is room for one.  What is done under t->lock is one action, the   *)
(* creation of a handle before it and the callback after it are others.    *)
(*                                                                         *)
(* A callback is named for the thread that registers it, and stands for    *)
(* the handle that roots its closure.                                      *)
(***************************************************************************)
EXTENDS Naturals

CONSTANTS Registrars, Cancellers

ASSUME TokenAssumption == Registrars \cap Cancellers = {}

Threads == Registrars \cup Cancellers

NoCallback == "none"
ASSUME CallbackAssumption == NoCallback \notin Threads

VARIABLES
  cancelled,
  on_cancel,     \* t->on_cancel and its handle
  freed,
  pc,            \* where each thread is
  fire,          \* the callback each thread is about to run
  rooted,        \* callbacks whose handle is live
  runs,          \* history: how often each callback has run
  replaced       \* history: callbacks that gave way to a later one

vars == <<cancelled, on_cancel, freed, pc, fire, rooted, runs, replaced>>

Init ==
  /\ cancelled = FALSE /\ freed = FALSE
  /\ on_cancel = NoCallback
  /\ pc = [t \in Threads |-> "ready"]
  /\ fire = [t \in Threads |-> NoCallback]
  /\ rooted = {} /\ replaced = {}
  /\ runs = [r \in Registrars |-> 0]

\* peko_cancel_token_on_cancel roots the closure, then goes for the lock.
BeginRegister(r) ==
  /\ pc[r] = "ready" /\ ~freed
  /\ pc' = [pc EXCEPT ![r] = "rooted"]
  /\ rooted' = rooted \cup {r}
  /\ UNCHANGED <<cancelled, on_cancel, freed, fire, runs, replaced>>

\* Variant for mutation: the callback that is replaced is not released.
RegisterUnreleased(r) ==
  /\ pc[r] = "rooted"
  /\ \/ /\ cancelled
        /\ fire' = [fire EXCEPT ![r] = r]
        /\ pc' = [pc EXCEPT ![r] = "firing"]
        /\ UNCHANGED <<on_cancel, rooted, replaced>>
     \/ /\ ~cancelled
        /\ on_cancel' = r
        /\ replaced' = replaced \cup ({on_cancel} \ {NoCallback})
        /\ pc' = [pc EXCEPT ![r] = "done"]
        /\ UNCHANGED <<fire, rooted>>
  /\ UNCHANGED <<cancelled, freed, runs>>

\* The rest of it, with the lock: on a cancelled token the callback is run by
\* this thread, otherwise it takes the place of the one before.
Register(r) ==
  /\ pc[r] = "rooted"
  /\ \/ /\ cancelled
        /\ fire' = [fire EXCEPT ![r] = r]
        /\ pc' = [pc EXCEPT ![r] = "firing"]
        /\ UNCHANGED <<on_cancel, rooted, replaced>>
     \/ /\ ~cancelled
        /\ on_cancel' = r
        /\ rooted' = rooted \ {on_cancel}
        /\ replaced' = replaced \cup ({on_cancel} \ {NoCallback})
        /\ pc' = [pc EXCEPT ![r] = "done"]
        /\ UNCHANGED fire
  /\ UNCHANGED <<cancelled, freed, runs>>

\* Variant for mutation: the callback is left in the token.
CancelKeeping(c) ==
  /\ pc[c] = "ready" /\ ~freed
  /\ cancelled' = TRUE
  /\ \/ /\ on_cancel = NoCallback
        /\ UNCHANGED <<fire, pc>>
     \/ /\ on_cancel # NoCallback
        /\ fire' = [fire EXCEPT ![c] = on_cancel]
        /\ pc' = [pc EXCEPT ![c] = "firing"]
  /\ UNCHANGED <<on_cancel, freed, rooted, runs, replaced>>

\* Variant for mutation: whoever finds the token cancelled drops the callback,
\* and so does the first.
CancelDropping(c) ==
  /\ pc[c] = "ready" /\ ~freed
  /\ cancelled' = TRUE
  /\ on_cancel' = NoCallback
  /\ rooted' = rooted \ {on_cancel}
  /\ UNCHANGED <<fire, pc, freed, runs, replaced>>

\* peko_cancel_token_cancel with the lock: the first to cancel takes the callback
\* out to run it.  A thread may cancel again and again.
Cancel(c) ==
  /\ pc[c] = "ready" /\ ~freed
  /\ cancelled' = TRUE
  /\ on_cancel' = NoCallback
  /\ \/ /\ cancelled \/ on_cancel = NoCallback
        /\ UNCHANGED <<fire, pc>>
     \/ /\ ~cancelled /\ on_cancel # NoCallback
        /\ fire' = [fire EXCEPT ![c] = on_cancel]
        /\ pc' = [pc EXCEPT ![c] = "firing"]
  /\ UNCHANGED <<freed, rooted, runs, replaced>>

\* After the unlock: the closure's handle is released and the callback runs.
Fire(t) ==
  /\ pc[t] = "firing"
  /\ rooted' = rooted \ {fire[t]}
  /\ runs' = [runs EXCEPT ![fire[t]] = @ + 1]
  /\ fire' = [fire EXCEPT ![t] = NoCallback]
  /\ pc' = [pc EXCEPT ![t] = IF t \in Registrars THEN "done" ELSE "ready"]
  /\ UNCHANGED <<cancelled, on_cancel, freed, replaced>>

\* peko_cancel_token_free, when nobody is inside: a callback that never ran is
\* released.
Free ==
  /\ ~freed /\ \A t \in Threads : pc[t] \in {"ready", "done"}
  /\ freed' = TRUE
  /\ rooted' = rooted \ {on_cancel}
  /\ on_cancel' = NoCallback
  /\ UNCHANGED <<cancelled, pc, fire, runs, replaced>>

Next ==
  \/ \E r \in Registrars : BeginRegister(r) \/ Register(r)
  \/ \E c \in Cancellers : Cancel(c)
  \/ \E t \in Threads : Fire(t)
  \/ Free

Spec == Init /\ [][Next]_vars

\* The OS runs every thread, and the lock is free infinitely often.
FairSpec ==
  /\ Spec
  /\ \A r \in Registrars : WF_vars(Register(r))
  /\ \A t \in Threads : WF_vars(Fire(t))

-----------------------------------------------------------------------------
(* Properties *)

TypeOK ==
  /\ {cancelled, freed} \subseteq BOOLEAN
  /\ on_cancel \in (IF cancelled THEN {} ELSE Registrars) \cup {NoCallback}
  /\ pc \in [Threads -> {"ready", "rooted", "firing", "done"}]
  /\ fire \in [Threads -> Registrars \cup {NoCallback}]
  /\ rooted \subseteq Registrars
  /\ runs \in [Registrars -> Nat]
  /\ replaced \subseteq Registrars

\* A callback's handle is live exactly while the callback may still have to run:
\* in its registrar's hands, in the token, or in the hands of who cancelled.
HandlesOnTheirWay ==
  rooted = ({on_cancel} \cup {fire[t] : t \in Threads}
            \cup {r \in Registrars : pc[r] = "rooted"}) \ {NoCallback}

\* However many threads cancel, and whenever a callback is registered, it runs at
\* most once, and never on a token that nobody cancelled.
RunsOnce == \A r \in Registrars : runs[r] <= 1 /\ (runs[r] = 1 => cancelled)

\* On a cancelled token every callback that was registered, before or after the
\* cancellation, runs, unless a later one had taken its place.
LastRegisteredRuns ==
  \A r \in Registrars :
    cancelled /\ pc[r] # "ready" /\ r \notin replaced ~> runs[r] = 1
=============================================================================
