------------------------------- MODULE Future -------------------------------
(***************************************************************************)
(* The future of std::threads: toolkit/std/c/threads/threads.c and         *)
(* make_future in toolkit/std/threads.peko.  One worker sets the result,   *)
(* any number of threads await it, with or without a timeout, and any may  *)
(* cancel.  f->lock is held from its acquisition to a wait or the unlock,  *)
(* so each such stretch is one action; a handle is created before and read *)
(* after it.                                                               *)
(***************************************************************************)
EXTENDS Naturals

CONSTANTS Awaiters,
          MaxAwaits     \* bound: awaits per thread

ASSUME FutureAssumption == MaxAwaits \in Nat

VARIABLES
  complete, cancelled, freed,
  result,       \* whether f->result holds the handle
  rooted,       \* whether the handle is live
  work,         \* where the worker is
  pc,           \* where each awaiter is
  timed,        \* awaiters in await_timeout
  asleep,       \* awaiters in pthread_cond_wait
  timed_out,    \* awaiters whose wait ended with ETIMEDOUT
  has,          \* awaiters that hold the handle they took out of f->result
  awaits,       \* how many awaits each awaiter has begun
  got,          \* history: the answers of the last await: "value", "none" or "nothing"
  fate          \* history: "given" once an await has returned the value, "dropped"
                \* once one has taken and not returned it, "pending" before

vars == <<complete, cancelled, freed, result, rooted, work, pc, timed, asleep,
          timed_out, has, awaits, got, fate>>

future == <<complete, cancelled, freed, result, rooted, work>>
waiters == <<pc, timed, asleep, timed_out, has, awaits, got, fate>>

Init ==
  /\ complete = FALSE /\ cancelled = FALSE /\ freed = FALSE
  /\ result = FALSE /\ rooted = FALSE
  /\ work = "working"
  /\ pc = [a \in Awaiters |-> "idle"]
  /\ timed = {} /\ asleep = {} /\ timed_out = {} /\ has = {}
  /\ awaits = [a \in Awaiters |-> 0]
  /\ got = [a \in Awaiters |-> "nothing"]
  /\ fate = "pending"

-----------------------------------------------------------------------------
(* The worker *)

\* work() has returned and peko_future_set_result roots what it returned.
RootResult ==
  /\ work = "working"
  /\ rooted' = TRUE
  /\ work' = "rooted"
  /\ UNCHANGED <<complete, cancelled, freed, result, waiters>>

\* Variant for mutation: nobody is told.
SetResultSilently ==
  /\ work = "rooted"
  /\ result' = TRUE
  /\ complete' = TRUE
  /\ work' = "done"
  /\ UNCHANGED <<cancelled, freed, rooted, waiters>>

\* The rest of peko_future_set_result, under the lock.
SetResult ==
  /\ work = "rooted"
  /\ result' = TRUE
  /\ complete' = TRUE
  /\ asleep' = {}
  /\ work' = "done"
  /\ UNCHANGED <<cancelled, freed, rooted, pc, timed, timed_out, has, awaits, got, fate>>

-----------------------------------------------------------------------------
(* The awaiters *)

\* peko_future_await, or await_timeout if t, up to the lock.
Begin(a, t) ==
  /\ pc[a] = "idle" /\ ~freed /\ awaits[a] < MaxAwaits
  /\ awaits' = [awaits EXCEPT ![a] = @ + 1]
  /\ pc' = [pc EXCEPT ![a] = "enter"]
  /\ timed' = IF t THEN timed \cup {a} ELSE timed \ {a}
  /\ timed_out' = timed_out \ {a}
  /\ got' = [got EXCEPT ![a] = "nothing"]
  /\ UNCHANGED <<future, asleep, has, fate>>

\* Neither complete nor cancelled: the awaiter waits.  An awaiter with a timeout
\* does so once, an awaiter without again and again.
Wait(a) ==
  /\ a \notin asleep /\ ~complete /\ ~cancelled
  /\ \/ pc[a] = "enter"
     \/ pc[a] = "waited" /\ a \notin timed
  /\ pc' = [pc EXCEPT ![a] = "waited"]
  /\ asleep' = asleep \cup {a}
  /\ UNCHANGED <<future, timed, timed_out, has, awaits, got, fate>>

\* Variant for mutation: the handle is copied and left in place.
CollectResultKept(a) ==
  /\ a \notin asleep
  /\ \/ complete \/ cancelled
     \/ pc[a] = "waited" /\ a \in timed
  /\ pc[a] \in {"enter", "waited"}
  /\ pc' = [pc EXCEPT ![a] = "took"]
  /\ has' = IF complete /\ result THEN has \cup {a} ELSE has
  /\ UNCHANGED <<complete, cancelled, freed, result, rooted, work,
                 timed, asleep, timed_out, awaits, got, fate>>

\* Variant for mutation: an awaiter without a timeout waits only once, too.
CollectResultUnlooped(a) ==
  /\ a \notin asleep
  /\ complete \/ cancelled \/ pc[a] = "waited"
  /\ pc[a] \in {"enter", "waited"}
  /\ pc' = [pc EXCEPT ![a] = "took"]
  /\ has' = IF complete /\ result THEN has \cup {a} ELSE has
  /\ result' = IF complete THEN FALSE ELSE result
  /\ UNCHANGED <<complete, cancelled, freed, rooted, work,
                 timed, asleep, timed_out, awaits, got, fate>>

\* The wait is over.  A complete future's handle is taken out of it, whether or
\* not the wait ended in time; a second awaiter finds none there.
CollectResult(a) ==
  /\ a \notin asleep
  /\ \/ complete \/ cancelled
     \/ pc[a] = "waited" /\ a \in timed
  /\ pc[a] \in {"enter", "waited"}
  /\ pc' = [pc EXCEPT ![a] = "took"]
  /\ has' = IF complete /\ result THEN has \cup {a} ELSE has
  /\ result' = IF complete THEN FALSE ELSE result
  /\ UNCHANGED <<complete, cancelled, freed, rooted, work,
                 timed, asleep, timed_out, awaits, got, fate>>

\* After the unlock: the handle is read and released.  The wrapper of
\* await_timeout drops the value if the wait had timed out.
Return(a) ==
  /\ pc[a] = "took"
  /\ pc' = [pc EXCEPT ![a] = "idle"]
  /\ got' = [got EXCEPT ![a] = IF a \in has /\ a \notin timed_out THEN "value" ELSE "none"]
  /\ fate' = IF a \notin has THEN fate ELSE IF a \in timed_out THEN "dropped" ELSE "given"
  /\ rooted' = IF a \in has THEN FALSE ELSE rooted
  /\ has' = has \ {a}
  /\ UNCHANGED <<complete, cancelled, freed, result, work,
                 timed, asleep, timed_out, awaits>>

\* The time of a timed wait is up before it is woken.
TimeOut(a) ==
  /\ a \in asleep \cap timed
  /\ asleep' = asleep \ {a}
  /\ timed_out' = timed_out \cup {a}
  /\ UNCHANGED <<future, pc, timed, has, awaits, got, fate>>

SpuriousWake(a) ==
  /\ a \in asleep
  /\ asleep' = asleep \ {a}
  /\ UNCHANGED <<future, pc, timed, timed_out, has, awaits, got, fate>>

-----------------------------------------------------------------------------
\* peko_future_cancel.
Cancel ==
  /\ ~cancelled /\ ~freed
  /\ cancelled' = TRUE
  /\ asleep' = {}
  /\ UNCHANGED <<complete, freed, result, rooted, work, pc, timed, timed_out,
                 has, awaits, got, fate>>

\* peko_future_free, once no awaiter is inside; a result nobody awaited is
\* released.  Nothing here keeps it from running before the worker is done.
Free ==
  /\ ~freed /\ \A a \in Awaiters : pc[a] = "idle"
  /\ freed' = TRUE
  /\ rooted' = IF complete /\ result THEN FALSE ELSE rooted
  /\ result' = IF complete THEN FALSE ELSE result
  /\ UNCHANGED <<complete, cancelled, work, waiters>>

Next ==
  \/ RootResult \/ SetResult \/ Cancel \/ Free
  \/ \E a \in Awaiters :
       \/ \E t \in BOOLEAN : Begin(a, t)
       \/ Wait(a) \/ CollectResult(a) \/ Return(a) \/ TimeOut(a) \/ SpuriousWake(a)

Spec == Init /\ [][Next]_vars

\* work() ends, the OS runs every thread and the lock is free infinitely often.
FairSpec ==
  /\ Spec
  /\ WF_vars(RootResult) /\ WF_vars(SetResult)
  /\ \A a \in Awaiters : WF_vars(Wait(a) \/ CollectResult(a) \/ Return(a))

-----------------------------------------------------------------------------
(* Properties *)

TypeOK ==
  /\ {complete, cancelled, freed, result, rooted} \subseteq BOOLEAN
  /\ work \in {"working", "rooted", "done"}
  /\ pc \in [Awaiters -> {"idle", "enter", "waited", "took"}]
  /\ timed \subseteq Awaiters
  /\ asleep \subseteq {a \in Awaiters : pc[a] = "waited"}
  /\ has \subseteq {a \in Awaiters : pc[a] = "took"}
  /\ timed_out \subseteq timed
  /\ awaits \in [Awaiters -> 0 .. MaxAwaits]
  /\ got \in [Awaiters -> {"nothing", "value", "none"}]
  /\ fate \in {"pending", "given", "dropped"}

\* The result's handle is live exactly while the result is on its way, and only
\* one thread has it: the worker, the future, or the one awaiter that took it.
HandleHasOneHolder ==
  /\ rooted <=> work = "rooted" \/ result \/ has # {}
  /\ result => has = {} /\ work = "done"
  /\ \A a, b \in has : a = b

\* Every await returns, also when the result, a cancellation or another awaiter
\* comes between its look and its wait.
AwaitReturns == \A a \in Awaiters : pc[a] # "idle" ~> pc[a] = "idle"

\* An await without a timeout comes back empty-handed only if the future was
\* cancelled or another await got to the result first: one that still has it in
\* its hands, has returned it, or has timed out and dropped it (threads.c:786-791).
\* Never because it missed the worker, was woken for nothing, or was overtaken by
\* an await that left the result where it was.
NoneExplained ==
  \A a \in Awaiters :
    got[a] = "none" /\ a \notin timed => cancelled \/ has # {} \/ fate # "pending"

\* What the documentation of await says of None (threads.peko:253): it means that
\* the future was cancelled. It does not hold: the result may have gone to another
\* await, or have been dropped by one. NoneExplained is what holds.
NoneOnlyIfCancelled ==
  \A a \in Awaiters : got[a] = "none" /\ a \notin timed => cancelled

=============================================================================
