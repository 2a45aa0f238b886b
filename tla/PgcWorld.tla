------------------------------ MODULE PgcWorld ------------------------------
(***************************************************************************)
(* The thread registry and the stop-the-world protocol of the Peko         *)
(* collector: toolkit/std/c/runtime/threads.c, the driver pgc_collect of   *)
(* pgc.c, and the worker trampoline of c/threads/threads.c, which is how a *)
(* new thread joins the registry.                                          *)
(*                                                                         *)
(* What g_gc.lock guards is read and written only inside critical sections *)
(* that never block except in a condition wait, so one critical section is *)
(* one action and the lock itself has no variable.  The accesses outside   *)
(* the lock (the poll's read of the flag, the compare-and-swap and the     *)
(* final store of g_collecting, the driver's passes) are actions of their  *)
(* own.                                                                    *)
(*                                                                         *)
(* An address is modelled by the side of the heap it belongs to: a cycle   *)
(* slides every object, so an address taken before the move differs from   *)
(* the object's address after it.  Two sides are enough to tell a current  *)
(* address from one that the last cycle made stale.                        *)
(***************************************************************************)
EXTENDS Naturals, FiniteSets

CONSTANTS Threads,      \* OS threads that run managed code
          Initial,      \* those attached when the model starts
          Spawnable,    \* those another thread may start with Thread.start
          Leavers,      \* those whose worker function may return
          MaxThreads    \* PGC_MAX_THREADS, the slots of the registry

ASSUME ThreadsAssumption ==
  /\ IsFiniteSet(Threads)
  /\ Initial \subseteq Threads
  /\ Spawnable \subseteq Threads
  /\ Leavers \subseteq Threads
  /\ MaxThreads \in Nat \ {0}
  /\ Cardinality(Initial) <= MaxThreads

VARIABLES
  flag,         \* pgc_collection_requested
  collecting,   \* g_collecting
  pc,           \* where each thread is
  inUse,        \* threads that own a registry slot (and the TLS pointer to it)
  parked,       \* threads whose entry has parked = 1
  captured,     \* threads whose entry has a stack_top, so its stack is walked
  waitResume,   \* threads asleep on g_gc.resume
  waitParked,   \* threads asleep on g_gc.parked_cv
  heapSide,     \* the side the objects live on now
  held,         \* the managed pointer in each thread's frames
  handle,       \* the closure context's handle entry, one per started thread
  astray        \* history: threads whose frames the passes may have gone by

vars == <<flag, collecting, pc, inUse, parked, captured, waitResume,
          waitParked, heapSide, held, handle, astray>>

NoRef == 2
Sides == {0, 1}
Refs  == Sides \cup {NoRef}

CycleSteps  == {"stopped", "captured", "updated", "moved"}
DriverSteps == {"claimed", "waiting", "resumed"} \cup CycleSteps
Places == {"out", "born", "attached", "fetched", "run", "collect", "safepoint",
           "parked", "blocked"} \cup DriverSteps

Init ==
  /\ flag = 0
  /\ collecting = 0
  /\ pc = [t \in Threads |-> IF t \in Initial THEN "run" ELSE "out"]
  /\ inUse = Initial
  /\ parked = {} /\ captured = {}
  /\ waitResume = {} /\ waitParked = {}
  /\ heapSide = 0
  /\ held = [t \in Threads |-> IF t \in Initial THEN 0 ELSE NoRef]
  /\ handle = [t \in Threads |-> NoRef]
  /\ astray = {}

Goto(t, place) == pc' = [pc EXCEPT ![t] = place]

registry == <<inUse, parked, captured>>
sleepers == <<waitResume, waitParked>>
memory   == <<heapSide, held, handle, astray>>   \* what moves, and who may miss it

\* A driver has found the world stopped and has not started it again.
PassesRun == \E d \in Threads : pc[d] \in CycleSteps

-----------------------------------------------------------------------------
(* Thread start and end *)

\* peko_thread_create: a handle keeps the closure context until the worker runs.
\* What a thread that is astray hands over is as good as what it has.
Spawn(s, t) ==
  /\ pc[s] = "run" /\ pc[t] = "out" /\ t \in Spawnable
  /\ handle' = [handle EXCEPT ![t] = held[s]]
  /\ astray' = IF s \in astray THEN astray \cup {t} ELSE astray \ {t}
  /\ Goto(t, "born")
  /\ UNCHANGED <<flag, collecting, registry, sleepers, heapSide, held>>

\* pgc_thread_attach: take a slot, or go on without one when all are taken.
\* It does not look at the collection flag, so it may come when the driver has
\* counted the registry and its passes run.
Attach(t) ==
  /\ pc[t] = "born"
  /\ inUse' = IF Cardinality(inUse) < MaxThreads THEN inUse \cup {t} ELSE inUse
  /\ parked' = parked \ {t}
  /\ captured' = captured \ {t}
  /\ astray' = IF Cardinality(inUse) < MaxThreads /\ ~PassesRun THEN astray
               ELSE astray \cup {t}
  /\ Goto(t, "attached")
  /\ UNCHANGED <<flag, collecting, sleepers, heapSide, held, handle>>

\* Variant for mutation: the address is read before the thread is attached.
FetchContextEarly(t) ==
  /\ \/ /\ pc[t] = "born" /\ held[t] = NoRef
        /\ held' = [held EXCEPT ![t] = handle[t]]
        /\ UNCHANGED pc
     \/ /\ pc[t] = "attached" /\ held[t] # NoRef
        /\ Goto(t, "fetched")
        /\ UNCHANGED held
  /\ UNCHANGED <<flag, collecting, registry, sleepers, heapSide, handle, astray>>

\* The trampoline reads the context's address through the handle ...
FetchContext(t) ==
  /\ pc[t] = "attached"
  /\ held' = [held EXCEPT ![t] = handle[t]]
  /\ Goto(t, "fetched")
  /\ UNCHANGED <<flag, collecting, registry, sleepers, heapSide, handle, astray>>

\* ... and releases the handle before it calls the worker.
ReleaseContext(t) ==
  /\ pc[t] = "fetched"
  /\ handle' = [handle EXCEPT ![t] = NoRef]
  /\ Goto(t, "run")
  /\ UNCHANGED <<flag, collecting, registry, sleepers, heapSide, held, astray>>

\* pgc_thread_detach: the slot is freed and nobody is woken.
Detach(t) ==
  /\ pc[t] = "run" /\ t \in Leavers
  /\ inUse' = inUse \ {t}
  /\ captured' = captured \ {t}
  /\ held' = [held EXCEPT ![t] = NoRef]
  /\ Goto(t, "out")
  /\ UNCHANGED <<flag, collecting, parked, sleepers, heapSide, handle, astray>>

-----------------------------------------------------------------------------
(* Mutators: polls, safepoints and native blocking calls *)

\* The inlined poll: a set flag sends the thread to pgc_enter_safepoint.
Poll(t) ==
  /\ pc[t] = "run" /\ flag = 1 /\ t \in inUse
  /\ Goto(t, "safepoint")
  /\ UNCHANGED <<flag, collecting, registry, sleepers, memory>>

\* Variant for mutation: the parking thread does not wake the driver.
EnterSafepointSilently(t) ==
  /\ pc[t] = "safepoint" /\ flag = 1
  /\ parked' = parked \cup {t}
  /\ captured' = captured \cup {t}
  /\ waitResume' = waitResume \cup {t}
  /\ Goto(t, "parked")
  /\ UNCHANGED <<flag, collecting, inUse, waitParked, memory>>

\* pgc_enter_safepoint up to its condition wait; with the flag clear the loop
\* is not entered and parked is set and cleared in one critical section.
EnterSafepoint(t) ==
  /\ pc[t] = "safepoint"
  /\ waitParked' = {}
  /\ \/ /\ flag = 1
        /\ parked' = parked \cup {t}
        /\ captured' = captured \cup {t}
        /\ waitResume' = waitResume \cup {t}
        /\ Goto(t, "parked")
     \/ /\ flag = 0
        /\ captured' = captured \ {t}
        /\ Goto(t, "run")
        /\ UNCHANGED <<parked, waitResume>>
  /\ UNCHANGED <<flag, collecting, inUse, memory>>

\* Variant for mutation: "if" in place of "while" around the condition wait.
ResumeUnchecked(t) ==
  /\ pc[t] = "parked" /\ t \notin waitResume
  /\ parked' = parked \ {t}
  /\ captured' = captured \ {t}
  /\ Goto(t, "run")
  /\ UNCHANGED <<flag, collecting, inUse, sleepers, memory>>

\* A thread woken from g_gc.resume re-reads the flag under the lock.
Resume(t) ==
  /\ pc[t] = "parked" /\ t \notin waitResume
  /\ \/ /\ flag = 1
        /\ waitResume' = waitResume \cup {t}
        /\ UNCHANGED <<pc, parked, captured>>
     \/ /\ flag = 0
        /\ parked' = parked \ {t}
        /\ captured' = captured \ {t}
        /\ Goto(t, "run")
        /\ UNCHANGED waitResume
  /\ UNCHANGED <<flag, collecting, inUse, waitParked, memory>>

\* Variant for mutation: no stack_top is recorded before the native call.
BeginBlockingUncaptured(t) ==
  /\ pc[t] = "run" /\ t \in inUse
  /\ parked' = parked \cup {t}
  /\ waitParked' = {}
  /\ Goto(t, "blocked")
  /\ UNCHANGED <<flag, collecting, inUse, captured, waitResume, memory>>

\* pgc_begin_blocking: parked before the native call, whatever the flag says.
BeginBlocking(t) ==
  /\ pc[t] = "run" /\ t \in inUse
  /\ parked' = parked \cup {t}
  /\ captured' = captured \cup {t}
  /\ waitParked' = {}
  /\ Goto(t, "blocked")
  /\ UNCHANGED <<flag, collecting, inUse, waitResume, memory>>

\* pgc_end_blocking: the native call has returned; wait out a collection.
EndBlocking(t) ==
  /\ pc[t] = "blocked"
  /\ \/ /\ flag = 1
        /\ waitResume' = waitResume \cup {t}
        /\ Goto(t, "parked")
        /\ UNCHANGED <<parked, captured>>
     \/ /\ flag = 0
        /\ parked' = parked \ {t}
        /\ captured' = captured \ {t}
        /\ Goto(t, "run")
        /\ UNCHANGED waitResume
  /\ UNCHANGED <<flag, collecting, inUse, waitParked, memory>>

-----------------------------------------------------------------------------
(* The collection driver *)

\* The allocator, or managed code, calls pgc_collect.
CallCollect(t) ==
  /\ pc[t] = "run"
  /\ Goto(t, "collect")
  /\ UNCHANGED <<flag, collecting, registry, sleepers, memory>>

\* Variant for mutation: a store in place of the compare-and-swap.
ClaimUnchecked(t) ==
  /\ pc[t] = "collect"
  /\ collecting' = 1
  /\ Goto(t, "claimed")
  /\ UNCHANGED <<flag, registry, sleepers, memory>>

\* The compare-and-swap on g_collecting: the winner drives the cycle ...
Claim(t) ==
  /\ pc[t] = "collect" /\ collecting = 0
  /\ collecting' = 1
  /\ Goto(t, "claimed")
  /\ UNCHANGED <<flag, registry, sleepers, memory>>

\* ... and a loser goes through pgc_enter_safepoint, which returns at once on a
\* thread without a registry slot.
LoseClaim(t) ==
  /\ pc[t] = "collect" /\ collecting = 1
  /\ \/ /\ t \in inUse
        /\ Goto(t, "safepoint")
     \/ /\ t \notin inUse
        /\ Goto(t, "run")
  /\ UNCHANGED <<flag, collecting, registry, sleepers, memory>>

OthersParked(t) == inUse \ {t} \subseteq parked

\* One turn of the loop in pgc_stop_the_world: go on, or wait on parked_cv.
StopOrWait(t) ==
  \/ /\ OthersParked(t)
     /\ Goto(t, "stopped")
     /\ UNCHANGED waitParked
  \/ /\ ~OthersParked(t)
     /\ waitParked' = waitParked \cup {t}
     /\ Goto(t, "waiting")

\* pgc_stop_the_world: raise the flag and test for the first time.
RaiseFlag(t) ==
  /\ pc[t] = "claimed"
  /\ flag' = 1
  /\ StopOrWait(t)
  /\ UNCHANGED <<collecting, registry, waitResume, memory>>

\* Variant for mutation: one wake-up is taken for everybody being parked.
RecheckParkedOnce(t) ==
  /\ pc[t] = "waiting" /\ t \notin waitParked
  /\ Goto(t, "stopped")
  /\ UNCHANGED <<flag, collecting, registry, sleepers, memory>>

\* The driver, woken from parked_cv, tests again.
RecheckParked(t) ==
  /\ pc[t] = "waiting" /\ t \notin waitParked
  /\ StopOrWait(t)
  /\ UNCHANGED <<flag, collecting, registry, waitResume, memory>>

\* The driver captures its own stack anchor; it does not park.
CaptureSelf(t) ==
  /\ pc[t] = "stopped"
  /\ captured' = IF t \in inUse THEN captured \cup {t} ELSE captured
  /\ Goto(t, "captured")
  /\ UNCHANGED <<flag, collecting, inUse, parked, sleepers, memory>>

Forwarded(ref) == IF ref = heapSide THEN 1 - heapSide ELSE ref

\* pgc_update_references: the handles and the stacks the walk can reach.
UpdateReferences(t) ==
  /\ pc[t] = "captured"
  /\ held' = [u \in Threads |-> IF u \in inUse \cap captured
                                THEN Forwarded(held[u]) ELSE held[u]]
  /\ handle' = [u \in Threads |-> Forwarded(handle[u])]
  /\ Goto(t, "updated")
  /\ UNCHANGED <<flag, collecting, registry, sleepers, heapSide, astray>>

\* pgc_move_objects: every object is at its new address.
MoveObjects(t) ==
  /\ pc[t] = "updated"
  /\ heapSide' = 1 - heapSide
  /\ Goto(t, "moved")
  /\ UNCHANGED <<flag, collecting, registry, sleepers, held, handle, astray>>

\* Variant for mutation: the flag is lowered and nobody is woken.
StartWorldSilently(t) ==
  /\ pc[t] = "moved"
  /\ flag' = 0
  /\ captured' = captured \ {t}
  /\ Goto(t, "resumed")
  /\ UNCHANGED <<collecting, inUse, parked, sleepers, memory>>

\* pgc_start_the_world: lower the flag and wake every sleeper on resume.
StartWorld(t) ==
  /\ pc[t] = "moved"
  /\ flag' = 0
  /\ captured' = captured \ {t}
  /\ waitResume' = {}
  /\ Goto(t, "resumed")
  /\ UNCHANGED <<collecting, inUse, parked, waitParked, memory>>

\* The store of 0 to g_collecting, after the world has been started.
ClearCollecting(t) ==
  /\ pc[t] = "resumed"
  /\ collecting' = 0
  /\ Goto(t, "run")
  /\ UNCHANGED <<flag, registry, sleepers, memory>>

\* pthread_cond_wait may return with no signal.
SpuriousWake(t) ==
  /\ \/ t \in waitResume /\ waitResume' = waitResume \ {t} /\ UNCHANGED waitParked
     \/ t \in waitParked /\ waitParked' = waitParked \ {t} /\ UNCHANGED waitResume
  /\ UNCHANGED <<flag, collecting, pc, registry, memory>>

-----------------------------------------------------------------------------
\* The steps a thread takes without being asked to by its program.
Runtime(t) ==
  \/ Attach(t) \/ FetchContext(t) \/ ReleaseContext(t)
  \/ Poll(t) \/ EnterSafepoint(t) \/ Resume(t)
  \/ Claim(t) \/ LoseClaim(t) \/ RaiseFlag(t) \/ RecheckParked(t)
  \/ CaptureSelf(t) \/ UpdateReferences(t) \/ MoveObjects(t)
  \/ StartWorld(t) \/ ClearCollecting(t)

\* The steps the program chooses, and the environment's.
Program(t) ==
  \/ \E u \in Threads : Spawn(t, u)
  \/ Detach(t) \/ BeginBlocking(t) \/ EndBlocking(t) \/ CallCollect(t)
  \/ SpuriousWake(t)

Next == \E t \in Threads : Runtime(t) \/ Program(t)

Spec == Init /\ [][Next]_vars

\* The OS schedules every thread, and compiled code reaches a poll.
FairSpec == Spec /\ \A t \in Threads : WF_vars(Runtime(t))

-----------------------------------------------------------------------------
(* Properties *)

\* The types of the protocol's state: the collector's flag, the claim word, the
\* registry of threads.c, the two wait sets and the addresses.
TypeOK ==
  /\ flag \in {0, 1}
  /\ collecting \in {0, 1}
  /\ pc \in [Threads -> Places]
  /\ inUse \subseteq Threads
  /\ parked \subseteq Threads
  /\ captured \subseteq Threads
  /\ waitResume \subseteq Threads
  /\ waitParked \subseteq Threads
  /\ heapSide \in Sides
  /\ held \in [Threads -> Refs]
  /\ handle \in [Threads -> Refs]
  /\ astray \subseteq Threads

\* One driver at a time: of two pgc_collect calls that race for g_collecting, on
\* the flag, or across the end of a cycle, only one is between its
\* compare-and-swap and its final store, and the flag is up exactly while a
\* driver is between raising and lowering it.
OneDriver ==
  /\ \A t, u \in Threads : pc[t] \in DriverSteps /\ pc[u] \in DriverSteps => t = u
  /\ flag = 1 <=> \E t \in Threads : pc[t] \in CycleSteps \cup {"waiting"}

\* The world is stopped: while the driver's passes run, every other thread of
\* the registry is parked (threads.c:10-12). It is what the passes rely on, and it does not
\* hold when a thread attaches after the driver has counted the registry.
WorldStopped ==
  \A t, u \in Threads :
    pc[t] \in CycleSteps /\ u \in inUse /\ u # t => u \in parked

\* A thread that is running managed code holds current addresses only: none of
\* its frames kept an address that a move of the objects made stale.
RootsCurrent ==
  \A t \in Threads : pc[t] \in {"run", "fetched"} => held[t] \in {heapSide, NoRef}

\* A parked thread does not leave its safepoint, its blocking call or its
\* condition wait while a collection is requested, across back-to-back cycles
\* included: nothing but a clear flag un-parks it.
ParkedUntilCleared ==
  [][\A t \in parked : t \notin parked' => flag = 0]_vars

\* The side where an object is, or will be once the pass under way has moved it.
Current == IF \E d \in Threads : pc[d] = "updated" THEN 1 - heapSide ELSE heapSide

\* The closure context is rooted and up to date at every step of the hand-over
\* from Thread.start to the worker, in whatever order threads start, end, block
\* and collect meanwhile: in the handle until the trampoline has fetched it, in
\* the worker's own frames from then on, which the passes visit (the comment at
\* c/threads/threads.c:140-143).  Astray are the threads that attached to a full
\* registry or while the passes ran, and those they have started.
ContextKept ==
  \A t \in Threads \ astray : pc[t] # "out" =>
    IF pc[t] \in {"born", "attached"} THEN handle[t] = Current
    ELSE /\ held[t] = Current
         /\ (\E d \in Threads : pc[d] = "captured") => t \in inUse \cap captured

\* A requested collection is carried out: the driver that raised the flag
\* gets every thread parked, and lowers it again.
CycleEnds == flag = 1 ~> flag = 0

\* If collections cease, no thread is left behind asleep at a safepoint: the
\* wake-up of a cycle's end is not lost.
AllResume ==
  <>[](flag = 0) => \A t \in Threads : pc[t] = "parked" ~> pc[t] = "run"

=============================================================================
