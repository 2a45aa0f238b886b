------------------------- MODULE CancelTokenProofs --------------------------
(***************************************************************************)
(* For any threads that register and any that cancel: no callback runs     *)
(* twice, and none runs before the token is cancelled.                     *)
(***************************************************************************)
EXTENDS CancelToken, TLAPS

\* A callback is in one place at a time: not yet registered, in the token, in the
\* hands of one thread that is about to run it, or behind it.
Inv ==
  /\ TypeOK
  /\ \A r \in Registrars :
       /\ pc[r] \in {"ready", "rooted"} =>
            on_cancel # r /\ runs[r] = 0 /\ \A t \in Threads : fire[t] # r
       /\ on_cancel = r => runs[r] = 0 /\ \A t \in Threads : fire[t] # r
       /\ runs[r] <= 1
       /\ runs[r] = 1 => cancelled
  /\ \A t \in Threads :
       /\ pc[t] = "firing" <=> fire[t] # NoCallback
       /\ fire[t] # NoCallback => runs[fire[t]] = 0 /\ cancelled
  /\ \A t, u \in Threads : fire[t] = fire[u] /\ fire[t] # NoCallback => t = u

\* What the assumptions on the constants say of the names.
LEMMA Names == /\ Registrars \subseteq Threads /\ Cancellers \subseteq Threads
               /\ NoCallback \notin Registrars
               /\ \A c \in Cancellers : c \notin Registrars
  BY TokenAssumption, CallbackAssumption
  DEF TokenAssumption, CallbackAssumption, Threads

\* A fresh token has the invariant.
LEMMA InitInv == Init => Inv
<1> SUFFICES ASSUME Init PROVE Inv
  OBVIOUS
<1>1. TypeOK
  BY DEF Init, TypeOK
<1>2. /\ \A r \in Registrars : runs[r] = 0 /\ r # NoCallback
      /\ \A t \in Threads : fire[t] = NoCallback /\ pc[t] = "ready"
      /\ on_cancel = NoCallback
  BY Names DEF Init
<1> QED
  BY <1>1, <1>2 DEF Inv

\* Registration keeps it.
LEMMA RegisterInv ==
  ASSUME Inv, NEW r \in Registrars, BeginRegister(r) \/ Register(r)
  PROVE  Inv'
<1>t. r \in Threads /\ r # NoCallback
  BY Names
<1>1. CASE BeginRegister(r)
  <2>1. TypeOK'
    BY <1>1, <1>t DEF BeginRegister, Inv, TypeOK
  <2> QED
    BY <1>1, <1>t, <2>1, Names DEF BeginRegister, Inv, TypeOK
<1>2. CASE Register(r) /\ cancelled
  <2>1. TypeOK'
    BY <1>2, <1>t DEF Register, Inv, TypeOK
  <2>2. /\ fire' = [fire EXCEPT ![r] = r] /\ pc' = [pc EXCEPT ![r] = "firing"]
        /\ UNCHANGED <<on_cancel, runs, cancelled>>
    BY <1>2 DEF Register
  <2> QED
    BY <1>2, <1>t, <2>1, <2>2, Names DEF Register, Inv, TypeOK
<1>3. CASE Register(r) /\ ~cancelled
  <2>1. TypeOK'
    BY <1>3, <1>t DEF Register, Inv, TypeOK
  <2>2. /\ on_cancel' = r /\ pc' = [pc EXCEPT ![r] = "done"]
        /\ UNCHANGED <<fire, runs, cancelled>>
    BY <1>3 DEF Register
  <2> QED
    BY <1>3, <1>t, <2>1, <2>2, Names DEF Register, Inv, TypeOK
<1> QED
  BY <1>1, <1>2, <1>3

\* Cancelling keeps it: the callback moves from the token into one thread's hands.
LEMMA CancelInv == ASSUME Inv, NEW c \in Cancellers, Cancel(c) PROVE Inv'
<1>t. c \in Threads /\ c \notin Registrars
  BY Names
<1>1. CASE UNCHANGED <<fire, pc>>
  <2>1. TypeOK'
    BY <1>1 DEF Cancel, Inv, TypeOK
  <2> QED
    BY <1>1, <2>1, Names DEF Cancel, Inv, TypeOK
<1>2. CASE /\ ~cancelled /\ on_cancel # NoCallback
           /\ fire' = [fire EXCEPT ![c] = on_cancel]
           /\ pc' = [pc EXCEPT ![c] = "firing"]
  <2>1. on_cancel \in Registrars /\ cancelled' /\ on_cancel' = NoCallback /\ runs' = runs
    BY <1>2 DEF Cancel, Inv, TypeOK
  <2>2. TypeOK'
    BY <1>2, <1>t, <2>1 DEF Cancel, Inv, TypeOK
  <2>3. \A r \in Registrars : pc'[r] = pc[r]
    BY <1>2, <1>t DEF Inv, TypeOK
  <2>4. \A t \in Threads : fire'[t] = IF t = c THEN on_cancel ELSE fire[t]
    BY <1>2, <1>t DEF Inv, TypeOK
  <2>5. \A t \in Threads : pc'[t] = IF t = c THEN "firing" ELSE pc[t]
    BY <1>2, <1>t DEF Inv, TypeOK
  <2>6. pc[on_cancel] \notin {"ready", "rooted"} /\ runs[on_cancel] = 0
        /\ \A t \in Threads : fire[t] # on_cancel
    BY <2>1 DEF Inv
  <2> QED
    BY <1>2, <2>1, <2>2, <2>3, <2>4, <2>5, <2>6, Names DEF Inv
<1> QED
  BY <1>1, <1>2 DEF Cancel

\* Running the callback keeps it.
LEMMA FireInv == ASSUME Inv, NEW t \in Threads, Fire(t) PROVE Inv'
<1>1. fire[t] \in Registrars /\ runs[fire[t]] = 0 /\ cancelled /\ on_cancel # fire[t]
      /\ pc[fire[t]] \notin {"ready", "rooted"} /\ fire[t] # NoCallback
  BY Names DEF Fire, Inv, TypeOK
<1>2. runs' = [runs EXCEPT ![fire[t]] = 1]
  BY <1>1, SMT DEF Fire, Inv, TypeOK
<1>3. pc' = [pc EXCEPT ![t] = pc'[t]] /\ pc'[t] \in {"ready", "done"}
  BY DEF Fire, Inv, TypeOK
<1>4. TypeOK'
  BY <1>1, <1>2 DEF Fire, Inv, TypeOK
<1>5. \A u \in Threads : fire'[u] = (IF u = t THEN NoCallback ELSE fire[u])
  BY DEF Fire, Inv, TypeOK
<1>6. \A u \in Threads : u # t => pc'[u] = pc[u]
  BY DEF Fire, Inv, TypeOK
<1>7. \A r \in Registrars : runs'[r] = IF r = fire[t] THEN 1 ELSE runs[r]
  BY <1>2 DEF Inv, TypeOK
<1>8. \A r \in Registrars : pc'[r] \in {"ready", "rooted"} => pc[r] \in {"ready", "rooted"}
  BY Names DEF Fire, Inv, TypeOK
<1>9. cancelled' = cancelled /\ on_cancel' = on_cancel
  BY DEF Fire
<1>10. \A u \in Threads : u # t /\ fire[u] # NoCallback => fire[u] # fire[t]
  BY <1>1 DEF Inv
<1>11. \A r \in Registrars :
         /\ pc'[r] \in {"ready", "rooted"} =>
              on_cancel' # r /\ runs'[r] = 0 /\ \A u \in Threads : fire'[u] # r
         /\ on_cancel' = r => runs'[r] = 0 /\ \A u \in Threads : fire'[u] # r
         /\ runs'[r] <= 1
         /\ runs'[r] = 1 => cancelled'
  <2> SUFFICES ASSUME NEW r \in Registrars
               PROVE  /\ pc'[r] \in {"ready", "rooted"} =>
                           on_cancel' # r /\ runs'[r] = 0 /\ \A u \in Threads : fire'[u] # r
                      /\ on_cancel' = r => runs'[r] = 0 /\ \A u \in Threads : fire'[u] # r
                      /\ runs'[r] <= 1
                      /\ runs'[r] = 1 => cancelled'
    OBVIOUS
  <2>1. r # NoCallback
    BY Names
  <2> QED
    BY <1>1, <1>5, <1>7, <1>8, <1>9, <2>1 DEF Inv
<1>12. \A u \in Threads :
         /\ pc'[u] = "firing" <=> fire'[u] # NoCallback
         /\ fire'[u] # NoCallback => runs'[fire'[u]] = 0 /\ cancelled'
  BY <1>1, <1>3, <1>5, <1>6, <1>7, <1>9, <1>10 DEF Inv, TypeOK
<1>13. \A u, v \in Threads : fire'[u] = fire'[v] /\ fire'[u] # NoCallback => u = v
  BY <1>5 DEF Inv
<1> QED
  BY <1>4, <1>11, <1>12, <1>13 DEF Inv

\* Every step keeps the invariant.
LEMMA NextInv == Inv /\ [Next]_vars => Inv'
<1> SUFFICES ASSUME Inv, [Next]_vars PROVE Inv'
  OBVIOUS
<1>1. CASE Free
  <2>1. TypeOK'
    BY <1>1 DEF Free, Inv, TypeOK
  <2> QED
    BY <1>1, <2>1, Names DEF Free, Inv
<1>2. CASE UNCHANGED vars
  BY <1>2 DEF vars, Inv, TypeOK
<1> QED
  BY <1>1, <1>2, RegisterInv, CancelInv, FireInv DEF Next

\* However many threads register and cancel, a callback runs at most once, and
\* only on a cancelled token.
THEOREM CallbackRunsOnce == Spec => []RunsOnce
<1>1. Inv => RunsOnce
  BY DEF Inv, RunsOnce
<1> QED
  BY <1>1, InitInv, NextInv, PTL DEF Spec

\* A cancelled token keeps no callback.
THEOREM TokenTypes == Spec => []TypeOK
<1>1. Inv => TypeOK
  BY DEF Inv
<1> QED
  BY <1>1, InitInv, NextInv, PTL DEF Spec

-----------------------------------------------------------------------------
(* The closures' handles *)

\* Callback r may still have to run, because someone or the token has it.
Carried(r) == on_cancel = r \/ pc[r] = "rooted" \/ \E t \in Threads : fire[t] = r

\* HandlesOnTheirWay, one callback at a time.
Accounted == \A r \in Registrars : r \in rooted <=> Carried(r)

\* Types make the equality of sets a statement about each callback.
LEMMA AccountedIsProperty == TypeOK => (Accounted <=> HandlesOnTheirWay)
  BY Names DEF TypeOK, Accounted, Carried, HandlesOnTheirWay

\* Registration roots the callback; the one it replaces is carried by nobody else.
LEMMA RegisterAccounts ==
  ASSUME Inv, Accounted, NEW r \in Registrars, BeginRegister(r) \/ Register(r)
  PROVE  Accounted'
<1>t. r \in Threads /\ r # NoCallback
  BY Names
<1> SUFFICES ASSUME NEW q \in Registrars PROVE q \in rooted' <=> Carried(q)'
  BY DEF Accounted
<1>q. q \in Threads /\ q # NoCallback /\ (q \in rooted <=> Carried(q))
  BY Names DEF Accounted
<1>1. CASE BeginRegister(r)
  BY <1>1, <1>t, <1>q DEF BeginRegister, Carried, Inv, TypeOK
<1>2. CASE Register(r) /\ cancelled
  <2>1. /\ UNCHANGED <<on_cancel, rooted>>
        /\ \A t \in Threads : fire'[t] = IF t = r THEN r ELSE fire[t]
        /\ \A t \in Threads : pc'[t] = IF t = r THEN "firing" ELSE pc[t]
        /\ pc[r] = "rooted" /\ fire[r] = NoCallback
    BY <1>2, <1>t DEF Register, Inv, TypeOK
  <2> QED
    BY <1>t, <1>q, <2>1 DEF Carried
<1>3. CASE Register(r) /\ ~cancelled
  <2>1. /\ on_cancel' = r /\ fire' = fire /\ rooted' = rooted \ {on_cancel}
        /\ \A t \in Threads : pc'[t] = IF t = r THEN "done" ELSE pc[t]
        /\ pc[r] = "rooted"
    BY <1>3, <1>t DEF Register, Inv, TypeOK
  <2>2. \A t \in Threads : fire[t] = NoCallback
    BY <1>3 DEF Register, Inv
  <2>3. on_cancel # r
    BY <2>1 DEF Inv
  <2>4. q = on_cancel => pc[q] \notin {"ready", "rooted"}
    BY DEF Inv
  <2> QED
    BY <1>t, <1>q, <2>1, <2>2, <2>3, <2>4 DEF Carried
<1> QED
  BY <1>1, <1>2, <1>3

\* Cancelling passes the callback on; running it releases the handle.
LEMMA CancelAccounts ==
  ASSUME Inv, Accounted, \/ \E c \in Cancellers : Cancel(c)
                         \/ \E t \in Threads : Fire(t)
                         \/ Free
  PROVE  Accounted'
<1> SUFFICES ASSUME NEW q \in Registrars PROVE q \in rooted' <=> Carried(q)'
  BY DEF Accounted
<1>q. q \in Threads /\ q # NoCallback /\ (q \in rooted <=> Carried(q))
  BY Names DEF Accounted
<1>1. ASSUME NEW c \in Cancellers, Cancel(c) PROVE q \in rooted' <=> Carried(q)'
  <2>t. c \in Threads /\ c \notin Registrars /\ fire[c] = NoCallback
    BY <1>1, Names DEF Cancel, Inv
  <2>1. CASE UNCHANGED <<fire, pc>> /\ on_cancel = NoCallback
    BY <1>1, <1>q, <2>1 DEF Cancel, Carried
  <2>2. CASE /\ fire' = [fire EXCEPT ![c] = on_cancel]
             /\ pc' = [pc EXCEPT ![c] = "firing"]
    <3>1. /\ \A t \in Threads : fire'[t] = IF t = c THEN on_cancel ELSE fire[t]
          /\ pc'[q] = pc[q]
      BY <1>q, <2>2, <2>t DEF Inv, TypeOK
    <3> QED
      BY <1>1, <1>q, <2>t, <3>1 DEF Cancel, Carried
  <2>3. cancelled => on_cancel = NoCallback
    BY DEF Inv, TypeOK
  <2> QED
    BY <1>1, <2>1, <2>2, <2>3 DEF Cancel
<1>2. ASSUME NEW t \in Threads, Fire(t) PROVE q \in rooted' <=> Carried(q)'
  <2>1. /\ \A u \in Threads : fire'[u] = IF u = t THEN NoCallback ELSE fire[u]
        /\ rooted' = rooted \ {fire[t]} /\ on_cancel' = on_cancel
    BY <1>2 DEF Fire, Inv, TypeOK
  <2>2. fire[t] # NoCallback /\ fire[t] \in Registrars /\ on_cancel # fire[t]
        /\ pc[fire[t]] # "rooted"
    BY <1>2, Names DEF Fire, Inv, TypeOK
  <2>3. \A u \in Threads : fire[u] = fire[t] => u = t
    BY <2>2 DEF Inv
  <2>4. pc'[q] = "rooted" <=> pc[q] = "rooted"
    BY <1>2, <1>q DEF Fire, Inv, TypeOK
  <2> QED
    BY <1>q, <2>1, <2>2, <2>3, <2>4 DEF Carried
<1>3. CASE Free
  <2>1. \A t \in Threads : fire[t] = NoCallback /\ pc[t] # "rooted"
    BY <1>3 DEF Free, Inv
  <2> QED
    BY <1>3, <1>q, <2>1 DEF Free, Carried
<1> QED
  BY <1>1, <1>2, <1>3

\* A closure's handle is live exactly while its callback may still have to run:
\* repeated registration, cancellation and free each release what they end, once.
THEOREM TokenHandlesKept == Spec => []HandlesOnTheirWay
<1>1. Init => Accounted
  BY Names DEF Init, Accounted, Carried
<1>2. Inv /\ Accounted /\ [Next]_vars => Accounted'
  <2> SUFFICES ASSUME Inv, Accounted, [Next]_vars PROVE Accounted'
    OBVIOUS
  <2>1. CASE UNCHANGED vars
    BY <2>1 DEF vars, Accounted, Carried
  <2> QED
    BY <2>1, RegisterAccounts, CancelAccounts DEF Next
<1>3. Inv /\ Accounted => HandlesOnTheirWay
  BY AccountedIsProperty DEF Inv
<1> QED
  BY <1>1, <1>2, <1>3, InitInv, NextInv, PTL DEF Spec
=============================================================================
