----------------------------- MODULE PgcHandles -----------------------------
(***************************************************************************)
(* The handle table of the collector: toolkit/std/c/runtime/roots.c.       *)
(* Foreign code keeps an integer; the table keeps the object's address,    *)
(* which a collection rewrites.  Entries without an object form a free     *)
(* list through next_free.  Every operation holds g_gc.lock throughout, or *)
(* runs in the stopped world, and is one action.                           *)
(***************************************************************************)
EXTENDS Naturals, FiniteSets

CONSTANTS Objects,           \* managed objects
          Addresses,         \* where they may be
          NoAddress, NoObject,
          InitialCapacity,   \* PGC_HANDLES_INITIAL_CAPACITY
          MaxCapacity        \* bound: realloc fails beyond it

ASSUME HandlesAssumption ==
  /\ InitialCapacity \in Nat \ {0, 1}
  /\ MaxCapacity \in Nat \ {0}
  /\ NoAddress \notin Addresses /\ NoObject \notin Objects

Indices == 0 .. MaxCapacity - 1

VARIABLES
  object,       \* entries[i].object
  next_free,    \* entries[i].next_free
  free_head, capacity,
  at,           \* where each object is
  issued        \* history: the object a live handle was created for

handleVars == <<object, next_free, free_head, capacity, at, issued>>

InjectionsOf(S, T) == {f \in [S -> T] : \A x, y \in S : f[x] = f[y] => x = y}

HandlesInit ==
  /\ object = [i \in Indices |-> NoAddress]
  /\ next_free = [i \in Indices |-> 0]
  /\ free_head = 0 /\ capacity = 0
  /\ at \in InjectionsOf(Objects, Addresses)
  /\ issued = [i \in Indices |-> NoObject]

NewCapacity == IF capacity = 0 THEN InitialCapacity ELSE capacity * 2

\* The first slot that growth adds; the null handle's is left out.
FirstNew == IF capacity = 0 THEN 1 ELSE capacity

\* Variant for mutation: the loop over the new slots stops one short.
GrownShort(i) == IF i \in FirstNew .. NewCapacity - 2
                 THEN IF i = FirstNew THEN free_head ELSE i - 1
                 ELSE next_free[i]

\* pgc_handles_grow: what next_free is after each new slot was pushed, in turn.
Grown(i) == IF i \in FirstNew .. NewCapacity - 1
            THEN IF i = FirstNew THEN free_head ELSE i - 1
            ELSE next_free[i]

\* realloc finds room for the larger table.
Room == NewCapacity <= MaxCapacity

\* Slot h leaves the list and gets the object.
Issue(h, o) ==
  /\ object' = [object EXCEPT ![h] = at[o]]
  /\ issued' = [issued EXCEPT ![h] = o]

\* pgc_handle_create, with a free slot.
CreateFromList(o) ==
  /\ free_head # 0
  /\ Issue(free_head, o)
  /\ free_head' = next_free[free_head]
  /\ next_free' = [next_free EXCEPT ![free_head] = 0]
  /\ UNCHANGED <<capacity, at>>

\* pgc_handle_create, growing the table first; the last slot pushed is popped.
CreateGrowing(o) ==
  /\ free_head = 0
  /\ Room
  /\ LET h == NewCapacity - 1
     IN /\ Issue(h, o)
        /\ free_head' = Grown(h)
        /\ next_free' = [i \in Indices |-> IF i = h THEN 0 ELSE Grown(i)]
  /\ capacity' = NewCapacity
  /\ UNCHANGED at

\* Variant for mutation: the slot is pushed whatever it holds.
ReleaseUnchecked(h) ==
  /\ h # 0 /\ h < capacity
  /\ object' = [object EXCEPT ![h] = NoAddress]
  /\ next_free' = [next_free EXCEPT ![h] = free_head]
  /\ free_head' = h
  /\ issued' = [issued EXCEPT ![h] = NoObject]
  /\ UNCHANGED <<capacity, at>>

\* pgc_handle_release by the handle's owner, or once more by someone who has
\* already given it back: then the slot is empty and nothing happens.
Release(h) ==
  /\ h # 0 /\ h < capacity /\ object[h] # NoAddress
  /\ object' = [object EXCEPT ![h] = NoAddress]
  /\ next_free' = [next_free EXCEPT ![h] = free_head]
  /\ free_head' = h
  /\ issued' = [issued EXCEPT ![h] = NoObject]
  /\ UNCHANGED <<capacity, at>>

\* Variant for mutation: the last entry is not visited.
VisitedShort(i) == IF i \in 1 .. capacity - 2 /\ object[i] # NoAddress
                   THEN at'[CHOOSE o \in Objects : at[o] = object[i]]
                   ELSE object[i]

\* The address in slot i after the objects have moved as at' says.
Visited(i) == IF i \in 1 .. capacity - 1 /\ object[i] # NoAddress
              THEN at'[CHOOSE o \in Objects : at[o] = object[i]]
              ELSE object[i]

\* A collection moves objects and visits the handle roots.
HandlesCollect ==
  /\ at' \in InjectionsOf(Objects, Addresses)
  /\ object' = [i \in Indices |-> Visited(i)]
  /\ UNCHANGED <<next_free, free_head, capacity, issued>>

HandlesNext ==
  \/ \E o \in Objects : CreateFromList(o) \/ CreateGrowing(o)
  \/ \E h \in Indices : Release(h)
  \/ HandlesCollect

HandlesSpec == HandlesInit /\ [][HandlesNext]_handleVars

-----------------------------------------------------------------------------
(* Properties *)

HandlesTypeOK ==
  /\ object \in [Indices -> Addresses \cup {NoAddress}]
  /\ next_free \in [Indices -> Indices]
  /\ free_head \in Indices
  /\ capacity \in 0 .. MaxCapacity
  /\ at \in InjectionsOf(Objects, Addresses)
  /\ issued \in [Indices -> Objects \cup {NoObject}]

\* pgc_handle_get.
Get(h) == IF h # 0 /\ h < capacity THEN object[h] ELSE NoAddress

\* A live handle leads to the object it was created for, wherever the collector
\* has moved it, and a handle that is not live leads nowhere: no slot is handed
\* out twice (pgc.h:94-100).
HandlesResolve ==
  \A h \in Indices : Get(h) = IF issued[h] = NoObject THEN NoAddress ELSE at[issued[h]]

FreeSlots == {i \in 1 .. capacity - 1 : object[i] = NoAddress}

\* The free list is a chain: it stays among the free slots, nothing points back
\* at its head, and no two slots point at the same one.
FreeListIsChain ==
  /\ free_head \in FreeSlots \cup {0}
  /\ \A i \in FreeSlots :
       /\ next_free[i] \in FreeSlots \cup {0}
       /\ free_head # 0 => next_free[i] # free_head
  /\ \A i, j \in FreeSlots : next_free[i] = next_free[j] /\ next_free[i] # 0 => i = j

\* Every free slot is on the list, so that the table grows only when it is full: a set
\* that has the head of the list, and with each of its slots the next one, has them all.
NoSlotLost ==
  \A S \in SUBSET FreeSlots :
    (free_head \in S \cup {0} /\ \A i \in S : next_free[i] \in S \cup {0}) => S = FreeSlots
=============================================================================
