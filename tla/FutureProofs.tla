---------------------------- MODULE FutureProofs ----------------------------
(***************************************************************************)
(* For any number of awaiters and awaits: the handle of a future's result  *)
(* is live exactly while one holder has it, so it is neither leaked while  *)
(* the future lives nor released twice.                                    *)
(***************************************************************************)
EXTENDS Future, TLAPS

\* The future is complete once, and exactly when, its worker is done; before that
\* nobody has the handle.
Inv ==
  /\ TypeOK /\ HandleHasOneHolder
  /\ complete <=> work = "done"
  /\ work # "done" => ~result /\ has = {}

\* A future that nobody has worked on has the invariant.
LEMMA InitInv == Init => Inv
<1> SUFFICES ASSUME Init PROVE Inv
  OBVIOUS
<1>1. [a \in Awaiters |-> 0] \in [Awaiters -> 0 .. MaxAwaits]
  BY FutureAssumption, SMT DEF FutureAssumption
<1>2. TypeOK
  BY <1>1 DEF Init, TypeOK
<1> QED
  BY <1>2 DEF Init, Inv, HandleHasOneHolder

\* The worker's steps keep it.
LEMMA WorkerInv == Inv /\ (RootResult \/ SetResult) => Inv'
<1>1. ASSUME Inv, RootResult PROVE Inv'
  BY <1>1 DEF RootResult, Inv, TypeOK, HandleHasOneHolder, waiters
<1>2. ASSUME Inv, SetResult PROVE Inv'
  BY <1>2 DEF SetResult, Inv, TypeOK, HandleHasOneHolder
<1> QED
  BY <1>1, <1>2

\* An awaiter's steps up to its look at the result keep it.
LEMMA WaitInv ==
  ASSUME Inv, NEW a \in Awaiters, NEW t \in BOOLEAN,
         Begin(a, t) \/ Wait(a) \/ TimeOut(a) \/ SpuriousWake(a)
  PROVE  Inv'
<1>1. CASE Begin(a, t)
  <2>1. awaits' \in [Awaiters -> 0 .. MaxAwaits]
    <3>1. awaits[a] + 1 \in 0 .. MaxAwaits
      BY <1>1, FutureAssumption, SMT DEF FutureAssumption, Begin, Inv, TypeOK
    <3> QED
      BY <1>1, <3>1 DEF Begin, Inv, TypeOK
  <2>2. TypeOK'
    BY <1>1, <2>1 DEF Begin, Inv, TypeOK, future
  <2> QED
    BY <1>1, <2>2 DEF Begin, Inv, HandleHasOneHolder, future
<1>2. CASE Wait(a)
  BY <1>2 DEF Wait, Inv, TypeOK, HandleHasOneHolder, future
<1>3. CASE TimeOut(a)
  BY <1>3 DEF TimeOut, Inv, TypeOK, HandleHasOneHolder, future
<1>4. CASE SpuriousWake(a)
  BY <1>4 DEF SpuriousWake, Inv, TypeOK, HandleHasOneHolder, future
<1> QED
  BY <1>1, <1>2, <1>3, <1>4

\* Taking the handle out of the future, and giving it back, keep it.
LEMMA TakeInv ==
  ASSUME Inv, NEW a \in Awaiters, CollectResult(a) \/ Return(a)
  PROVE  Inv'
<1>1. CASE CollectResult(a)
  <2>1. TypeOK'
    BY <1>1 DEF CollectResult, Inv, TypeOK
  <2>2. HandleHasOneHolder'
    <3>1. CASE complete /\ result
      BY <1>1, <3>1 DEF CollectResult, Inv, HandleHasOneHolder
    <3>2. CASE ~(complete /\ result)
      BY <1>1, <3>2 DEF CollectResult, Inv, TypeOK, HandleHasOneHolder
    <3> QED
      BY <3>1, <3>2
  <2> QED
    BY <1>1, <2>1, <2>2 DEF CollectResult, Inv
<1>2. CASE Return(a)
  <2>1. TypeOK'
    BY <1>2 DEF Return, Inv, TypeOK
  <2>2. HandleHasOneHolder'
    <3>1. CASE a \in has
      <4>1. has' = {} /\ ~rooted' /\ ~result /\ work = "done"
        BY <1>2, <3>1 DEF Return, Inv, HandleHasOneHolder
      <4> QED
        BY <1>2, <4>1 DEF Return, HandleHasOneHolder
    <3>2. CASE a \notin has
      <4>1. has' = has /\ rooted' = rooted
        BY <1>2, <3>2 DEF Return
      <4> QED
        BY <1>2, <4>1 DEF Return, Inv, HandleHasOneHolder
    <3> QED
      BY <3>1, <3>2
  <2> QED
    BY <1>2, <2>1, <2>2 DEF Return, Inv
<1> QED
  BY <1>1, <1>2

\* So do cancelling and freeing.
LEMMA OwnerInv == Inv /\ (Cancel \/ Free) => Inv'
<1>1. ASSUME Inv, Cancel PROVE Inv'
  BY <1>1 DEF Cancel, Inv, TypeOK, HandleHasOneHolder
<1>2. ASSUME Inv, Free PROVE Inv'
  <2>1. has = {}
    BY <1>2 DEF Free, Inv, TypeOK
  <2>2. TypeOK'
    BY <1>2 DEF Free, Inv, TypeOK, waiters
  <2> QED
    BY <1>2, <2>1, <2>2 DEF Free, Inv, TypeOK, HandleHasOneHolder, waiters
<1> QED
  BY <1>1, <1>2

\* Every step keeps the invariant.
LEMMA NextInv == Inv /\ [Next]_vars => Inv'
<1> SUFFICES ASSUME Inv, [Next]_vars PROVE Inv'
  OBVIOUS
<1>1. CASE UNCHANGED vars
  BY <1>1 DEF vars, Inv, TypeOK, HandleHasOneHolder
<1> QED
  BY <1>1, WorkerInv, WaitInv, TakeInv, OwnerInv DEF Next

\* The result's handle has exactly one holder from the moment it is created until
\* it is released: worker, future or one awaiter.
THEOREM OneHolder == Spec => []HandleHasOneHolder
<1>1. Inv => HandleHasOneHolder
  BY DEF Inv
<1> QED
  BY <1>1, InitInv, NextInv, PTL DEF Spec

\* Only waiting threads sleep, and only threads on their way out hold the handle.
THEOREM FutureTypes == Spec => []TypeOK
<1>1. Inv => TypeOK
  BY DEF Inv
<1> QED
  BY <1>1, InitInv, NextInv, PTL DEF Spec

-----------------------------------------------------------------------------
(* Awaits that come back empty-handed *)

\* What excuses an await without a timeout from returning the result.
Gone == cancelled \/ has # {} \/ fate # "pending"

\* A result that is not in its future has been taken out of it, by an await or by
\* the end of the future, and nobody is inside a future that has ended.
Accounted ==
  /\ complete => result \/ has # {} \/ fate # "pending" \/ freed
  /\ freed => \A a \in Awaiters : pc[a] = "idle"

\* An awaiter without a timeout leaves its loop with the result or an excuse.
Explained ==
  \A a \in Awaiters : a \notin timed =>
    /\ pc[a] = "took" => a \in has \/ Gone
    /\ got[a] = "none" => Gone

\* An excuse stays one: who takes the result returns or drops it, and neither is
\* taken back, nor is a cancellation.
LEMMA GoneStays == Inv /\ Gone /\ [Next]_vars => Gone'
<1> SUFFICES ASSUME Inv, Gone, [Next]_vars PROVE Gone'
  OBVIOUS
<1>1. CASE RootResult \/ SetResult \/ Cancel \/ Free \/ UNCHANGED vars
  BY <1>1 DEF RootResult, SetResult, Cancel, Free, Gone, vars, waiters
<1>2. ASSUME NEW a \in Awaiters,
             \/ \E t \in BOOLEAN : Begin(a, t)
             \/ Wait(a) \/ CollectResult(a) \/ TimeOut(a) \/ SpuriousWake(a)
      PROVE  Gone'
  BY <1>2 DEF Begin, Wait, CollectResult, TimeOut, SpuriousWake, Gone, future
<1>3. ASSUME NEW a \in Awaiters, Return(a) PROVE Gone'
  <2>1. CASE a \in has
    BY <1>3, <2>1 DEF Return, Gone
  <2>2. CASE a \notin has
    BY <1>3, <2>2 DEF Return, Gone
  <2> QED
    BY <2>1, <2>2
<1> QED
  BY <1>1, <1>2, <1>3 DEF Next

\* Every step keeps account of the result.
LEMMA AccountedStep == Inv /\ Accounted /\ [Next]_vars => Accounted'
<1> SUFFICES ASSUME Inv, Accounted, [Next]_vars PROVE Accounted'
  OBVIOUS
<1>t. pc \in [Awaiters -> {"idle", "enter", "waited", "took"}]
  BY DEF Inv, TypeOK
<1>1. CASE RootResult \/ SetResult \/ Cancel \/ Free \/ UNCHANGED vars
  <2>1. CASE RootResult BY <2>1 DEF RootResult, Accounted, waiters
  <2>2. CASE SetResult BY <2>2 DEF SetResult, Accounted
  <2>3. CASE Cancel BY <2>3 DEF Cancel, Accounted
  <2>4. CASE Free BY <2>4 DEF Free, Accounted, waiters
  <2>5. CASE UNCHANGED vars BY <2>5 DEF vars, Accounted
  <2> QED
    BY <1>1, <2>1, <2>2, <2>3, <2>4, <2>5
<1>2. ASSUME NEW a \in Awaiters,
             \/ \E t \in BOOLEAN : Begin(a, t)
             \/ Wait(a) \/ TimeOut(a) \/ SpuriousWake(a)
      PROVE  Accounted'
  BY <1>2, <1>t DEF Begin, Wait, TimeOut, SpuriousWake, Accounted, future, Inv, TypeOK
<1>3. ASSUME NEW a \in Awaiters, CollectResult(a) PROVE Accounted'
  BY <1>3, <1>t DEF CollectResult, Accounted
<1>4. ASSUME NEW a \in Awaiters, Return(a) PROVE Accounted'
  <2>1. ~freed
    BY <1>4 DEF Return, Accounted
  <2>2. CASE a \in has
    BY <1>4, <2>1, <2>2 DEF Return, Accounted
  <2>3. CASE a \notin has
    BY <1>4, <2>1, <2>3 DEF Return, Accounted
  <2> QED
    BY <2>2, <2>3
<1> QED
  BY <1>1, <1>2, <1>3, <1>4 DEF Next

\* Every step keeps the explanation.
LEMMA ExplainedStep == Inv /\ Accounted /\ Explained /\ [Next]_vars => Explained'
<1> SUFFICES ASSUME Inv, Accounted, Explained, [Next]_vars,
                    NEW b \in Awaiters, b \notin timed'
             PROVE  /\ pc'[b] = "took" => b \in has' \/ Gone'
                    /\ got'[b] = "none" => Gone'
  BY DEF Explained
<1>g. Gone => Gone'
  BY GoneStays
<1>t. /\ pc \in [Awaiters -> {"idle", "enter", "waited", "took"}]
      /\ got \in [Awaiters -> {"nothing", "value", "none"}]
      /\ timed_out \subseteq timed
  BY DEF Inv, TypeOK
<1>1. CASE UNCHANGED <<pc, timed, has, got>>
  BY <1>1, <1>g DEF Explained
<1>2. CASE RootResult \/ SetResult \/ Cancel \/ Free \/ UNCHANGED vars
  BY <1>1, <1>2 DEF RootResult, SetResult, Cancel, Free, vars, waiters
<1>3. ASSUME NEW a \in Awaiters, NEW t \in BOOLEAN, Begin(a, t)
      PROVE  /\ pc'[b] = "took" => b \in has' \/ Gone'
             /\ got'[b] = "none" => Gone'
  <2>1. CASE b = a
    BY <1>3, <1>t, <2>1 DEF Begin
  <2>2. CASE b # a
    BY <1>3, <1>t, <1>g, <2>2 DEF Begin, Explained
  <2> QED
    BY <2>1, <2>2
<1>4. ASSUME NEW a \in Awaiters, Wait(a) \/ TimeOut(a) \/ SpuriousWake(a)
      PROVE  /\ pc'[b] = "took" => b \in has' \/ Gone'
             /\ got'[b] = "none" => Gone'
  BY <1>4, <1>t, <1>g DEF Wait, TimeOut, SpuriousWake, Explained
<1>5. ASSUME NEW a \in Awaiters, CollectResult(a)
      PROVE  /\ pc'[b] = "took" => b \in has' \/ Gone'
             /\ got'[b] = "none" => Gone'
  \* The loop of an awaiter without a timeout ends on complete or cancelled only.
  <2>1. CASE b = a
    <3>1. b \notin timed /\ (complete \/ cancelled) /\ ~freed
      BY <1>5, <2>1 DEF CollectResult, Accounted
    <3>2. b \in has' \/ Gone'
      BY <1>5, <1>g, <2>1, <3>1 DEF CollectResult, Accounted, Gone
    <3> QED
      BY <1>5, <1>g, <3>1, <3>2 DEF CollectResult, Explained
  <2>2. CASE b # a
    BY <1>5, <1>t, <1>g, <2>2 DEF CollectResult, Explained
  <2> QED
    BY <2>1, <2>2
<1>6. ASSUME NEW a \in Awaiters, Return(a)
      PROVE  /\ pc'[b] = "took" => b \in has' \/ Gone'
             /\ got'[b] = "none" => Gone'
  <2>1. CASE b = a
    BY <1>6, <1>t, <1>g, <2>1 DEF Return, Explained
  <2>2. CASE b # a
    BY <1>6, <1>t, <1>g, <2>2 DEF Return, Explained
  <2> QED
    BY <2>1, <2>2
<1> QED
  BY <1>2, <1>3, <1>4, <1>5, <1>6 DEF Next

\* An await without a timeout returns nothing only when the future was cancelled
\* or another await has, has returned or has dropped the result; no wake-up,
\* spurious or not, cuts it short.
THEOREM EmptyHandsExplained == Spec => []NoneExplained
<1>1. Init => Accounted /\ Explained
  BY DEF Init, Accounted, Explained
<1>2. Inv /\ Accounted /\ Explained => NoneExplained
  BY DEF Explained, NoneExplained, Gone
<1> QED
  BY <1>1, <1>2, InitInv, NextInv, AccountedStep, ExplainedStep, PTL DEF Spec
=============================================================================
