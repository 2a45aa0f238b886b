-------------------------- MODULE CollectorProofs ---------------------------
(***************************************************************************)
(* Theorems about three parts of the collector: the handle table, the      *)
(* stop-the-world protocol and the heap (PgcHandles, PgcWorld, PgcHeap).   *)
(* They share no state; the collection that PgcHeap does in one step, and  *)
(* that visits the handles, is the one that PgcWorld does in a stopped     *)
(* world.                                                                  *)
(*                                                                         *)
(* For every number of objects and every size of the table: a live handle  *)
(* leads to its object and no other handle leads anywhere.  The reason is  *)
(* the shape of the free list, which keeps a slot from being popped twice. *)
(* The list has every free slot, so none is lost to the table.             *)
(*                                                                         *)
(* For every set of threads and every registry size: three theorems hold   *)
(* of the protocol as it is, one driver at a time, no early un-parking, no *)
(* lost closure context.  Two need Spawnable = {}: that the world is       *)
(* stopped, and that no running thread holds a stale address, are false as *)
(* soon as a thread may attach while a cycle runs, which breaks both.      *)
(*                                                                         *)
(* For every size of the heap and of the buffers, every set of threads,    *)
(* roots and shapes: the heap can be walked from its first header to its   *)
(* top, the room of a buffer belongs to its thread alone, and a collection *)
(* leaves exactly what the program can reach, without a hole.  The reason  *)
(* is a set of blocks: with the gaps of the buffers filled, the region up  *)
(* to the top is a row of blocks, each of them a filler or an object, and  *)
(* every reference is to an object.  The walks, the marking and the sweep  *)
(* of PgcCompact are characterised over such a set by least fixpoints and  *)
(* by well-founded induction on addresses; that the sweep never            *)
(* overtakes the walk, so that a copy reads only what no copy has          *)
(* overwritten, is the heart of the argument.                              *)
(*                                                                         *)
(* And the collector cannot be observed: PgcHeap implements ManagedStore.  *)
(* Two heaps whose objects correspond, word for word and reference for     *)
(* reference, show the same store, and a collection leaves such a heap.    *)
(***************************************************************************)
EXTENDS PgcHandles, PgcWorld, PgcHeap, FiniteSetTheorems, WellFoundedInduction, TLAPS

\* A set of natural numbers has a least one.
LEMMA Least ==
  ASSUME NEW T, T \subseteq Nat, T # {}
  PROVE  \E m \in T : \A n \in T : m <= n
<1> DEFINE R == OpToRel(<, Nat)
<1>1. IsWellFoundedOn(R, Nat)
  BY NatLessThanWellFounded
<1>2. \A x, y \in Nat : x < y => <<x, y>> \in R
  BY DEF OpToRel
<1> HIDE DEF R
<1>3. PICK m \in T : \A n \in T : ~(<<n, m>> \in R)
  BY <1>1, WFMin
<1>4. \A n \in T : n \in Nat /\ m \in Nat /\ ~(n < m)
  BY <1>2, <1>3
<1> QED
  BY <1>4

-----------------------------------------------------------------------------
(* The handle table *)

\* A slot is empty exactly when no live handle names it, and holds the address
\* its handle's object has now.
SlotsMatch ==
  \A h \in Indices :
    /\ object[h] = IF issued[h] = NoObject THEN NoAddress ELSE at[issued[h]]
    /\ issued[h] # NoObject => h # 0 /\ h < capacity

HandlesInv == HandlesTypeOK /\ FreeListIsChain /\ SlotsMatch

\* The addresses the objects have are addresses, never NoAddress, and tell them apart.
LEMMA AtFacts ==
  ASSUME HandlesTypeOK
  PROVE  /\ at \in [Objects -> Addresses]
         /\ \A o \in Objects : at[o] \in Addresses /\ at[o] # NoAddress
         /\ \A o, p \in Objects : at[o] = at[p] => o = p
  BY HandlesAssumption DEF HandlesAssumption, HandlesTypeOK, InjectionsOf

\* The empty table has the invariant.
LEMMA HandlesInitInv == HandlesInit => HandlesInv
<1> SUFFICES ASSUME HandlesInit PROVE HandlesInv
  OBVIOUS
<1>1. 0 \in Indices /\ 0 \in 0 .. MaxCapacity /\ capacity = 0 /\ FreeSlots = {}
  BY HandlesAssumption, SMT DEF HandlesAssumption, HandlesInit, Indices, FreeSlots
<1>2. HandlesTypeOK
  BY <1>1 DEF HandlesInit, HandlesTypeOK
<1>3. FreeListIsChain
  BY <1>1 DEF HandlesInit, FreeListIsChain
<1>4. SlotsMatch
  BY <1>1 DEF HandlesInit, SlotsMatch
<1> QED
  BY <1>2, <1>3, <1>4 DEF HandlesInv

\* Popping the head of the list leaves a list.
LEMMA CreateFromListInv ==
  ASSUME HandlesInv, NEW o \in Objects, CreateFromList(o)
  PROVE  HandlesInv'
<1> DEFINE h == free_head
<1>1. /\ h \in FreeSlots /\ h \in Indices /\ h # 0 /\ h < capacity
      /\ next_free[h] \in Indices /\ 0 \in Indices
  BY HandlesAssumption, SMT
  DEF HandlesAssumption, HandlesInv, HandlesTypeOK, FreeListIsChain, CreateFromList, FreeSlots, Indices
<1>2. at[o] \in Addresses /\ at[o] # NoAddress /\ o # NoObject
  BY AtFacts, HandlesAssumption DEF HandlesInv, HandlesAssumption
<1>3. HandlesTypeOK'
  BY <1>1, <1>2 DEF CreateFromList, Issue, HandlesInv, HandlesTypeOK
<1>4. FreeSlots' = FreeSlots \ {h}
  BY <1>1, <1>2 DEF CreateFromList, Issue, HandlesInv, HandlesTypeOK, FreeSlots
<1>5. FreeListIsChain'
  BY <1>1, <1>4 DEF CreateFromList, HandlesInv, HandlesTypeOK, FreeListIsChain, FreeSlots
<1>6. SlotsMatch'
  BY <1>1, <1>2 DEF CreateFromList, Issue, HandlesInv, HandlesTypeOK, SlotsMatch
<1> QED
  BY <1>3, <1>5, <1>6 DEF HandlesInv

\* Growth happens when the list is empty, and chains the new slots downwards.
LEMMA CreateGrowingInv ==
  ASSUME HandlesInv, NEW o \in Objects, CreateGrowing(o)
  PROVE  HandlesInv'
<1> DEFINE h == NewCapacity - 1
<1>1. /\ capacity \in Nat /\ NewCapacity \in Nat /\ NewCapacity <= MaxCapacity
      /\ FirstNew \in Nat /\ 1 <= FirstNew /\ FirstNew <= h /\ capacity <= FirstNew
      /\ h \in Indices /\ h # 0 /\ h < NewCapacity /\ capacity <= h
      /\ NewCapacity \in 0 .. MaxCapacity /\ 0 \in Indices /\ free_head = 0
      /\ MaxCapacity \in Nat /\ h \in Nat /\ h = NewCapacity - 1
      /\ (capacity = 0 => FirstNew = 1) /\ (capacity # 0 => FirstNew = capacity)
  BY HandlesAssumption, SMT
  DEF HandlesAssumption, HandlesInv, HandlesTypeOK, CreateGrowing, Room, NewCapacity, FirstNew, Indices
<1>2. at[o] \in Addresses /\ at[o] # NoAddress /\ o # NoObject
  BY AtFacts, HandlesAssumption DEF HandlesInv, HandlesAssumption
<1>3. \A i \in Indices : Grown(i) \in Indices
  BY <1>1, HandlesAssumption, SMT DEF HandlesAssumption, HandlesInv, HandlesTypeOK, Grown, Indices
<1>4. /\ free_head' = Grown(h) /\ capacity' = NewCapacity /\ at' = at
      /\ next_free' = [i \in Indices |-> IF i = h THEN 0 ELSE Grown(i)]
      /\ object' = [object EXCEPT ![h] = at[o]]
      /\ issued' = [issued EXCEPT ![h] = o]
  BY DEF CreateGrowing, Issue
<1> HIDE DEF h
<1>5. HandlesTypeOK'
  BY <1>1, <1>2, <1>3, <1>4 DEF HandlesInv, HandlesTypeOK
<1>6. \A i \in Indices : i >= capacity => object[i] = NoAddress
  BY <1>1, SMT DEF HandlesInv, SlotsMatch, Indices
<1>7. FreeSlots' = FreeSlots \cup (FirstNew .. h - 1)
  <2>1. \A i \in 1 .. NewCapacity - 1 : i \in Indices
    BY <1>1, SMT DEF Indices
  <2>2. \A i \in Indices : object'[i] = IF i = h THEN at[o] ELSE object[i]
    BY <1>4 DEF HandlesInv, HandlesTypeOK
  <2>3. FreeSlots' = {i \in 1 .. NewCapacity - 1 : i # h /\ object[i] = NoAddress}
    BY <1>2, <1>4, <2>1, <2>2 DEF FreeSlots
  <2>4. \A i : i \in 1 .. NewCapacity - 1 /\ i # h /\ object[i] = NoAddress
               <=> i \in FreeSlots \/ i \in FirstNew .. h - 1
    <3>1. h = NewCapacity - 1
      BY DEF h
    <3>2. \A i \in FirstNew .. h - 1 : object[i] = NoAddress
      BY <1>1, <1>6, <2>1, <3>1, SMT
    <3> QED
      BY <1>1, <3>1, <3>2, SMT DEF FreeSlots
  <2> QED
    BY <2>3, <2>4
<1>8. FreeListIsChain'
  <2>1. \A i \in FreeSlots : i \in 1 .. capacity - 1 /\ i \in Indices
    BY <1>1, SMT DEF FreeSlots, Indices
  <2>2. \A i \in FreeSlots : i < FirstNew /\ next_free[i] \in FreeSlots \cup {0}
    <3>1. \A i \in FreeSlots : i < FirstNew
      BY <1>1, <2>1, SMT
    <3> QED
      BY <3>1 DEF HandlesInv, FreeListIsChain
  <2>3. \A i \in FreeSlots : next_free'[i] = next_free[i]
    BY <1>1, <1>4, <2>1, <2>2, SMT DEF Grown, h
  <2>4. \A i \in FirstNew .. h - 1 :
          next_free'[i] = IF i = FirstNew THEN 0 ELSE i - 1
    <3> SUFFICES ASSUME NEW i \in FirstNew .. h - 1
                 PROVE  next_free'[i] = IF i = FirstNew THEN 0 ELSE i - 1
      OBVIOUS
    <3>1. i \in Indices /\ i # h /\ i \in FirstNew .. NewCapacity - 1
      BY <1>1, SMT DEF Indices
    <3>2. next_free'[i] = Grown(i)
      BY <1>4, <3>1
    <3> QED
      BY <1>1, <3>1, <3>2, SMT DEF Grown
  <2>5. free_head' = IF h = FirstNew THEN 0 ELSE h - 1
    <3>1. h = NewCapacity - 1 /\ free_head' = Grown(h)
      BY <1>4 DEF h
    <3> QED
      BY <1>1, <3>1, SMT DEF Grown
  <2>6. \A i, j \in FreeSlots : next_free[i] = next_free[j] /\ next_free[i] # 0 => i = j
    BY DEF HandlesInv, FreeListIsChain
  <2>7. free_head' \in FreeSlots' \cup {0}
    BY <1>1, <1>7, <2>5, SMT
  <2>8. \A i \in FreeSlots' : next_free'[i] \in FreeSlots' \cup {0}
                              /\ (free_head' # 0 => next_free'[i] # free_head')
    <3>1. ASSUME NEW i \in FreeSlots
          PROVE  next_free'[i] \in FreeSlots' \cup {0}
                 /\ (free_head' # 0 => next_free'[i] # free_head')
      <4>1. next_free'[i] \in FreeSlots \cup {0}
        BY <2>2, <2>3
      <4>2. free_head' # 0 => free_head' >= FirstNew /\ free_head' \in Nat
        BY <1>1, <2>5, SMT
      <4>3. next_free'[i] # 0 => next_free'[i] < FirstNew
        BY <2>2, <4>1
      <4>4. next_free'[i] \in Nat
        BY <2>1, <4>1, SMT DEF Indices
      <4>5. free_head' # 0 => next_free'[i] # free_head'
        BY <1>1, <4>2, <4>3, <4>4, SMT
      <4> QED
        BY <1>7, <4>1, <4>5
    <3>2. ASSUME NEW i \in FirstNew .. h - 1
          PROVE  next_free'[i] \in FreeSlots' \cup {0}
                 /\ (free_head' # 0 => next_free'[i] # free_head')
      <4>1. next_free'[i] = IF i = FirstNew THEN 0 ELSE i - 1
        BY <2>4
      <4>2. i # FirstNew => i - 1 \in FirstNew .. h - 1
        BY <1>1, SMT
      <4>3. i - 1 # h - 1 /\ h # FirstNew
        BY <1>1, SMT
      <4> QED
        BY <1>7, <2>5, <4>1, <4>2, <4>3
    <3> QED
      BY <1>7, <3>1, <3>2
  <2>9. \A i, j \in FreeSlots' : next_free'[i] = next_free'[j] /\ next_free'[i] # 0 => i = j
    <3> SUFFICES ASSUME NEW i \in FreeSlots', NEW j \in FreeSlots',
                        next_free'[i] = next_free'[j], next_free'[i] # 0
                 PROVE  i = j
      OBVIOUS
    <3>1. \A k \in FreeSlots : next_free'[k] # 0 =>
            next_free'[k] \in Nat /\ next_free'[k] < FirstNew
      BY <1>1, <2>1, <2>2, <2>3, SMT
    <3>2. \A k \in FirstNew .. h - 1 : next_free'[k] # 0 =>
            next_free'[k] = k - 1 /\ next_free'[k] >= FirstNew
      BY <1>1, <2>4, SMT
    <3>3. CASE i \in FreeSlots /\ j \in FreeSlots
      BY <2>3, <2>6, <3>3
    <3>4. CASE i \in FirstNew .. h - 1 /\ j \in FirstNew .. h - 1
      BY <1>1, <3>2, <3>4, SMT
    <3>5. ~(\E k \in FreeSlots, l \in FirstNew .. h - 1 :
              next_free'[k] = next_free'[l] /\ next_free'[k] # 0)
      BY <1>1, <3>1, <3>2, SMT
    <3> QED
      BY <1>7, <3>3, <3>4, <3>5
  <2> QED
    BY <2>7, <2>8, <2>9 DEF FreeListIsChain
<1>9. SlotsMatch'
  <2>1. \A i \in Indices :
          /\ object'[i] = IF i = h THEN at[o] ELSE object[i]
          /\ issued'[i] = IF i = h THEN o ELSE issued[i]
    BY <1>4 DEF HandlesInv, HandlesTypeOK
  <2>2. \A i \in Indices : i < capacity => i < NewCapacity
    BY <1>1, SMT DEF Indices
  <2> QED
    BY <1>1, <1>2, <1>4, <2>1, <2>2 DEF HandlesInv, SlotsMatch
<1> QED
  BY <1>5, <1>8, <1>9 DEF HandlesInv

\* Pushing a slot that is not on the list leaves a list.
LEMMA ReleaseInv ==
  ASSUME HandlesInv, NEW h \in Indices, Release(h)
  PROVE  HandlesInv'
<1>1. h # 0 /\ h \in 1 .. capacity - 1 /\ h \notin FreeSlots /\ h \in Indices
  BY HandlesAssumption, SMT
  DEF HandlesAssumption, Release, HandlesInv, HandlesTypeOK, FreeSlots, Indices
<1>2. HandlesTypeOK'
  BY <1>1 DEF Release, HandlesInv, HandlesTypeOK
<1>3. FreeSlots' = FreeSlots \cup {h}
  BY <1>1 DEF Release, HandlesInv, HandlesTypeOK, FreeSlots
<1>4. \A i \in FreeSlots : i \in Indices /\ i # h /\ next_free'[i] = next_free[i]
  <2>1. capacity \in 0 .. MaxCapacity /\ MaxCapacity \in Nat
        /\ next_free' = [next_free EXCEPT ![h] = free_head]
        /\ next_free \in [Indices -> Indices]
    BY HandlesAssumption DEF HandlesAssumption, Release, HandlesInv, HandlesTypeOK
  <2>2. \A i \in FreeSlots : i \in Indices
    BY <2>1, SMT DEF FreeSlots, Indices
  <2> QED
    BY <1>1, <2>1, <2>2
<1>5. next_free'[h] = free_head /\ free_head' = h
  BY <1>1 DEF Release, HandlesInv, HandlesTypeOK
<1>6. FreeListIsChain'
  <2>1. free_head' \in FreeSlots' \cup {0}
    BY <1>3, <1>5
  <2>2. \A i \in FreeSlots : next_free'[i] \in FreeSlots \cup {0} /\ next_free'[i] # h
    BY <1>1, <1>4 DEF HandlesInv, FreeListIsChain
  <2>3. free_head \in FreeSlots \cup {0} /\ free_head # h
    BY <1>1 DEF HandlesInv, FreeListIsChain
  <2>4. \A i \in FreeSlots' :
          /\ next_free'[i] \in FreeSlots' \cup {0}
          /\ free_head' # 0 => next_free'[i] # free_head'
    BY <1>3, <1>5, <2>2, <2>3
  <2>5. \A i, j \in FreeSlots : next_free'[i] = next_free'[j] /\ next_free'[i] # 0 => i = j
    BY <1>4 DEF HandlesInv, FreeListIsChain
  <2>6. \A i \in FreeSlots : free_head # 0 => next_free'[i] # free_head
    BY <1>4 DEF HandlesInv, FreeListIsChain
  <2>7. \A i, j \in FreeSlots' : next_free'[i] = next_free'[j] /\ next_free'[i] # 0 => i = j
    BY <1>3, <1>5, <2>5, <2>6
  <2> QED
    BY <2>1, <2>4, <2>7 DEF FreeListIsChain
<1>7. SlotsMatch'
  BY <1>1 DEF Release, HandlesInv, HandlesTypeOK, SlotsMatch
<1> QED
  BY <1>2, <1>6, <1>7 DEF HandlesInv

\* The visit takes every live entry to its object's new address.
LEMMA CollectInv == ASSUME HandlesInv, HandlesCollect PROVE HandlesInv'
<1>1. /\ at' \in [Objects -> Addresses]
      /\ \A o \in Objects : at'[o] \in Addresses /\ at'[o] # NoAddress
  BY HandlesAssumption DEF HandlesAssumption, HandlesCollect, InjectionsOf
<1>2. ASSUME NEW i \in Indices
      PROVE  object'[i] = IF issued[i] = NoObject THEN NoAddress ELSE at'[issued[i]]
  <2>1. object'[i] = Visited(i)
    BY DEF HandlesCollect
  <2>2. CASE issued[i] = NoObject
    BY <2>1, <2>2 DEF Visited, HandlesInv, SlotsMatch
  <2>3. CASE issued[i] # NoObject
    <3>1. issued[i] \in Objects /\ object[i] = at[issued[i]] /\ i # 0 /\ i < capacity
      BY <2>3 DEF HandlesInv, HandlesTypeOK, SlotsMatch
    <3>2. i \in 1 .. capacity - 1 /\ object[i] # NoAddress
      BY <3>1, AtFacts, HandlesAssumption, SMT DEF HandlesAssumption, HandlesInv, HandlesTypeOK, Indices
    <3>3. (CHOOSE o \in Objects : at[o] = object[i]) = issued[i]
      BY <3>1, AtFacts DEF HandlesInv
    <3> QED
      BY <2>1, <2>3, <3>2, <3>3 DEF Visited
  <2> QED
    BY <2>2, <2>3
<1>3. HandlesTypeOK'
  <2>1. object' \in [Indices -> Addresses \cup {NoAddress}]
    <3>1. \A i \in Indices : object'[i] \in Addresses \cup {NoAddress}
      BY <1>1, <1>2 DEF HandlesInv, HandlesTypeOK
    <3>2. object' = [i \in Indices |-> Visited(i)]
      BY DEF HandlesCollect
    <3> QED
      BY <3>1, <3>2
  <2> QED
    BY <2>1 DEF HandlesCollect, HandlesInv, HandlesTypeOK
<1>4. \A i \in Indices : object'[i] = NoAddress <=> object[i] = NoAddress
  BY <1>1, <1>2, AtFacts DEF HandlesInv, HandlesTypeOK, SlotsMatch
<1>5. FreeSlots' = FreeSlots
  <2>1. capacity' = capacity /\ \A i \in 1 .. capacity - 1 : i \in Indices
    <3>1. capacity' = capacity /\ capacity \in 0 .. MaxCapacity
      BY DEF HandlesCollect, HandlesInv, HandlesTypeOK
    <3> QED
      BY <3>1, HandlesAssumption, SMT DEF HandlesAssumption, Indices
  <2> QED
    BY <1>4, <2>1 DEF FreeSlots
<1>6. FreeListIsChain'
  BY <1>5 DEF HandlesCollect, HandlesInv, FreeListIsChain
<1>7. SlotsMatch'
  BY <1>2 DEF HandlesCollect, HandlesInv, SlotsMatch
<1> QED
  BY <1>3, <1>6, <1>7 DEF HandlesInv

\* Every step keeps the invariant.
LEMMA HandlesNextInv == HandlesInv /\ [HandlesNext]_handleVars => HandlesInv'
<1> SUFFICES ASSUME HandlesInv, [HandlesNext]_handleVars PROVE HandlesInv'
  OBVIOUS
<1>1. CASE UNCHANGED handleVars
  BY <1>1 DEF handleVars, HandlesInv, HandlesTypeOK, FreeListIsChain, FreeSlots, SlotsMatch
<1> QED
  BY <1>1, CreateFromListInv, CreateGrowingInv, ReleaseInv, CollectInv DEF HandlesNext

\* The invariant holds throughout.
LEMMA AlwaysInv == HandlesSpec => []HandlesInv
  BY HandlesInitInv, HandlesNextInv, PTL DEF HandlesSpec

\* The table's indices and addresses stay in range as it grows.
THEOREM HandleTypes == HandlesSpec => []HandlesTypeOK
<1>1. HandlesInv => HandlesTypeOK
  BY DEF HandlesInv
<1> QED
  BY <1>1, AlwaysInv, PTL

\* The free list stays a chain of free slots, also when a handle is released twice.
THEOREM FreeListKept == HandlesSpec => []FreeListIsChain
<1>1. HandlesInv => FreeListIsChain
  BY DEF HandlesInv
<1> QED
  BY <1>1, AlwaysInv, PTL

\* A live handle leads to its own object after any collections, and a handle that
\* was released leads nowhere until it is issued again.
THEOREM HandlesLead == HandlesSpec => []HandlesResolve
<1>1. HandlesInv => HandlesResolve
  BY DEF HandlesInv, SlotsMatch, HandlesResolve, Get
<1> QED
  BY <1>1, AlwaysInv, PTL

-----------------------------------------------------------------------------
(* The list is complete. *)

\* A set with the top of a range, and with each number the one below, is the range.
LEMMA Downwards ==
  ASSUME NEW a \in Nat, NEW b \in Nat, NEW S \in SUBSET (a .. b),
         a <= b => b \in S,
         \A i \in S : i # a => i - 1 \in S
  PROVE  S = a .. b
<1> SUFFICES ASSUME NEW k \in a .. b, k \notin S PROVE FALSE
  OBVIOUS
<1> DEFINE T == {n \in Nat : n <= b - a /\ b - n \notin S}
<1>1. b - k \in T
  <2>1. b - k \in Nat /\ b - k <= b - a /\ b - (b - k) = k
    OBVIOUS
  <2> QED
    BY <2>1
<1>2. PICK m \in T : \A n \in T : m <= n
  BY <1>1, Least
<1>3. m # 0
  <2>1. b - 0 = b /\ a <= b
    OBVIOUS
  <2> QED
    BY <1>2, <2>1
<1>4. m - 1 \in Nat /\ m - 1 <= b - a /\ m - 1 \notin T
  BY <1>2, <1>3
<1>5. b - (m - 1) \in S
  BY <1>4
<1>6. b - (m - 1) # a /\ (b - (m - 1)) - 1 = b - m
  BY <1>2
<1>7. b - m \in S
  BY <1>5, <1>6
<1> QED
  BY <1>2, <1>7

\* Popping the head of a complete list leaves a complete one.
LEMMA CreateFromListComplete ==
  ASSUME HandlesInv, NoSlotLost, NEW o \in Objects, CreateFromList(o)
  PROVE  NoSlotLost'
<1>1. /\ free_head \in FreeSlots /\ free_head \in Indices /\ free_head < capacity
      /\ free_head \in 1 .. capacity - 1
  BY HandlesAssumption, SMT
  DEF HandlesAssumption, HandlesInv, HandlesTypeOK, FreeListIsChain, CreateFromList, FreeSlots, Indices
<1>2. FreeSlots' = FreeSlots \ {free_head}
  BY <1>1, AtFacts DEF CreateFromList, Issue, HandlesInv, HandlesTypeOK, FreeSlots
<1>3. /\ free_head' = next_free[free_head]
      /\ \A i \in FreeSlots : i # free_head => next_free'[i] = next_free[i]
  <2>1. \A i \in FreeSlots : i \in Indices
    BY HandlesAssumption, SMT DEF HandlesAssumption, HandlesInv, HandlesTypeOK, FreeSlots, Indices
  <2> QED
    BY <2>1 DEF CreateFromList, HandlesInv, HandlesTypeOK
<1> SUFFICES ASSUME NEW S \in SUBSET FreeSlots',
                    free_head' \in S \cup {0}, \A i \in S : next_free'[i] \in S \cup {0}
             PROVE  S = FreeSlots'
  BY DEF NoSlotLost
<1>4. \A i \in S \cup {free_head} : next_free[i] \in (S \cup {free_head}) \cup {0}
  BY <1>2, <1>3
<1>5. S \cup {free_head} = FreeSlots
  <2>1. /\ S \cup {free_head} \in SUBSET FreeSlots
        /\ free_head \in (S \cup {free_head}) \cup {0}
    BY <1>1, <1>2
  <2> QED
    BY <1>4, <2>1 DEF NoSlotLost
<1>6. S \subseteq FreeSlots /\ free_head \notin S
  BY <1>2
<1>7. S = FreeSlots \ {free_head}
  BY <1>5, <1>6
<1> QED
  BY <1>2, <1>7

\* The table grows when no slot is free, and its new slots are a complete list.
LEMMA CreateGrowingComplete ==
  ASSUME HandlesInv, NoSlotLost, NEW o \in Objects, CreateGrowing(o)
  PROVE  NoSlotLost'
<1> DEFINE h == NewCapacity - 1
<1>1. /\ capacity \in Nat /\ NewCapacity \in Nat /\ NewCapacity <= MaxCapacity
      /\ FirstNew \in Nat /\ 1 <= FirstNew /\ FirstNew <= h /\ capacity <= FirstNew
      /\ h \in Nat /\ free_head = 0
      /\ \A i \in FirstNew .. h : i \in Indices /\ i \in FirstNew .. NewCapacity - 1
      /\ \A i \in 1 .. NewCapacity - 1 : i \in Indices /\ (i < capacity \/ i \in FirstNew .. h)
  <2>1. /\ capacity \in Nat /\ NewCapacity \in Nat /\ NewCapacity <= MaxCapacity
        /\ FirstNew \in Nat /\ 1 <= FirstNew /\ FirstNew <= h /\ capacity <= FirstNew
        /\ h \in Nat /\ free_head = 0 /\ MaxCapacity \in Nat
        /\ (capacity = 0 => FirstNew = 1) /\ (capacity # 0 => FirstNew = capacity)
    BY HandlesAssumption, SMT
    DEF HandlesAssumption, HandlesInv, HandlesTypeOK, CreateGrowing, Room, NewCapacity, FirstNew
  <2> QED
    BY <2>1, SMT DEF Indices
<1>2. FreeSlots = {}
  <2>1. /\ {} \in SUBSET FreeSlots /\ free_head \in {} \cup {0}
        /\ \A i \in {} : next_free[i] \in {} \cup {0}
    BY <1>1
  <2> QED
    BY <2>1 DEF NoSlotLost
<1>3. /\ free_head' = Grown(h) /\ capacity' = NewCapacity
      /\ next_free' = [i \in Indices |-> IF i = h THEN 0 ELSE Grown(i)]
      /\ object' = [object EXCEPT ![h] = at[o]] /\ at[o] # NoAddress
  BY AtFacts DEF CreateGrowing, Issue, HandlesInv
<1>4. \A i \in FirstNew .. h : Grown(i) = IF i = FirstNew THEN 0 ELSE i - 1
  BY <1>1 DEF Grown
<1>5. h \in Indices /\ h \in FirstNew .. h
  BY <1>1
<1>6. h = NewCapacity - 1
  OBVIOUS
<1> HIDE DEF h
<1>7. FreeSlots' \subseteq FirstNew .. h - 1
  <2> SUFFICES ASSUME NEW i \in FreeSlots' PROVE i \in FirstNew .. h - 1
    OBVIOUS
  <2>1. i \in 1 .. NewCapacity - 1 /\ object'[i] = NoAddress
    BY <1>3 DEF FreeSlots
  <2>2. i # h /\ object[i] = NoAddress
    BY <1>1, <1>3, <1>5, <2>1 DEF HandlesInv, HandlesTypeOK
  <2>3. ~(i < capacity)
    BY <1>1, <1>2, <2>1, <2>2 DEF FreeSlots
  <2> QED
    BY <1>1, <2>1, <2>2, <2>3
<1> SUFFICES ASSUME NEW S \in SUBSET FreeSlots',
                    free_head' \in S \cup {0}, \A i \in S : next_free'[i] \in S \cup {0}
             PROVE  S = FreeSlots'
  BY DEF NoSlotLost
<1>8. S \in SUBSET (FirstNew .. h - 1)
  BY <1>7
<1>9. FirstNew <= h - 1 => h - 1 \in S
  BY <1>1, <1>3, <1>4, <1>5
<1>10. ASSUME NEW i \in S, i # FirstNew PROVE i - 1 \in S
  <2>1. i \in FirstNew .. h /\ i # h /\ i - 1 # 0
    BY <1>1, <1>8, <1>10
  <2>2. next_free'[i] = i - 1
    BY <1>1, <1>3, <1>4, <1>10, <2>1
  <2> QED
    BY <2>1, <2>2
<1>11. FirstNew \in Nat /\ h - 1 \in Nat
  BY <1>1
<1>12. S = FirstNew .. h - 1
  BY <1>8, <1>9, <1>10, <1>11, Downwards
<1> QED
  BY <1>7, <1>12

\* Pushing a slot onto a complete list leaves a complete one.
LEMMA ReleaseComplete ==
  ASSUME HandlesInv, NoSlotLost, NEW h \in Indices, Release(h)
  PROVE  NoSlotLost'
<1>1. h # 0 /\ h \in 1 .. capacity - 1 /\ h \notin FreeSlots
  BY HandlesAssumption, SMT
  DEF HandlesAssumption, Release, HandlesInv, HandlesTypeOK, FreeSlots, Indices
<1>2. FreeSlots' = FreeSlots \cup {h}
  BY <1>1 DEF Release, HandlesInv, HandlesTypeOK, FreeSlots
<1>3. /\ free_head' = h /\ next_free'[h] = free_head
      /\ \A i \in FreeSlots : next_free'[i] = next_free[i]
  <2>1. \A i \in FreeSlots : i \in Indices
    BY HandlesAssumption, SMT DEF HandlesAssumption, HandlesInv, HandlesTypeOK, FreeSlots, Indices
  <2> QED
    BY <1>1, <2>1 DEF Release, HandlesInv, HandlesTypeOK
<1>4. /\ free_head \in FreeSlots \cup {0}
      /\ \A i \in FreeSlots : next_free[i] \in FreeSlots \cup {0}
  BY DEF HandlesInv, FreeListIsChain
<1> SUFFICES ASSUME NEW S \in SUBSET FreeSlots',
                    free_head' \in S \cup {0}, \A i \in S : next_free'[i] \in S \cup {0}
             PROVE  S = FreeSlots'
  BY DEF NoSlotLost
<1>5. S \ {h} \subseteq FreeSlots /\ h \in S
  BY <1>1, <1>2, <1>3
<1>6. free_head \in (S \ {h}) \cup {0}
  BY <1>1, <1>3, <1>4, <1>5
<1>7. \A i \in S \ {h} : next_free[i] \in (S \ {h}) \cup {0}
  BY <1>1, <1>3, <1>4, <1>5
<1>8. S \ {h} = FreeSlots
  BY <1>5, <1>6, <1>7 DEF NoSlotLost
<1> QED
  BY <1>2, <1>5, <1>8

\* Every free slot is on the free list, however the table has grown and whatever was
\* released in which order: the table grows only when all its slots are live.
THEOREM NoSlotIsLost == HandlesSpec => []NoSlotLost
<1>1. HandlesInit => NoSlotLost
  <2> SUFFICES ASSUME HandlesInit PROVE FreeSlots = {}
    BY DEF NoSlotLost
  <2> QED
    BY SMT DEF HandlesInit, FreeSlots
<1>2. ASSUME HandlesInv, NoSlotLost, [HandlesNext]_handleVars PROVE NoSlotLost'
  <2>1. CASE HandlesCollect
    <3>1. HandlesInv'
      BY <1>2, CollectInv, <2>1
    <3>2. /\ UNCHANGED <<next_free, free_head, capacity>>
          /\ \A i \in 1 .. capacity - 1 : i \in Indices
      BY <1>2, <2>1, HandlesAssumption, SMT
      DEF HandlesAssumption, HandlesCollect, HandlesInv, HandlesTypeOK, Indices
    <3>3. \A i \in Indices : object'[i] = NoAddress <=> object[i] = NoAddress
      <4>1. \A i \in Indices : object[i] = NoAddress <=> issued[i] = NoObject
        BY <1>2, AtFacts DEF HandlesInv, HandlesTypeOK, SlotsMatch
      <4>2. \A i \in Indices : object'[i] = NoAddress <=> issued[i] = NoObject
        <5>1. /\ at' \in [Objects -> Addresses]
              /\ \A x \in Objects : at'[x] \in Addresses /\ at'[x] # NoAddress
              /\ issued' = issued
          BY <2>1, HandlesAssumption DEF HandlesAssumption, HandlesCollect, InjectionsOf
        <5> QED
          BY <1>2, <3>1, <5>1 DEF HandlesInv, HandlesTypeOK, SlotsMatch
      <4> QED
        BY <4>1, <4>2
    <3>4. FreeSlots' = FreeSlots
      BY <3>2, <3>3 DEF FreeSlots
    <3> QED
      BY <1>2, <3>2, <3>4 DEF NoSlotLost
  <2>2. CASE UNCHANGED handleVars
    BY <1>2, <2>2 DEF handleVars, NoSlotLost, FreeSlots
  <2> QED
    BY <1>2, <2>1, <2>2, CreateFromListComplete, CreateGrowingComplete, ReleaseComplete
    DEF HandlesNext
<1>3. HandlesInv /\ NoSlotLost /\ [HandlesNext]_handleVars => NoSlotLost'
  BY <1>2
<1> QED
  BY <1>1, <1>3, AlwaysInv, PTL DEF HandlesSpec

-----------------------------------------------------------------------------
(* The stopped world *)

\* Forwarding takes an address to the side the object moves to, and keeps no address none.
LEMMA ForwardedType ==
  ASSUME TypeOK, NEW ref \in Refs
  PROVE  /\ Forwarded(ref) \in Refs
         /\ ref # NoRef => Forwarded(ref) # NoRef
         /\ ref \in {heapSide, NoRef} => Forwarded(ref) \in {1 - heapSide, NoRef}
  BY DEF TypeOK, Forwarded, Refs, Sides, NoRef

\* Every step keeps the types; one case per action.
LEMMA TypeStep == TypeOK /\ [Next]_vars => TypeOK'
<1> SUFFICES ASSUME TypeOK, [Next]_vars PROVE TypeOK'
  OBVIOUS
<1> USE DEF TypeOK, Goto, registry, sleepers, memory, Places, DriverSteps, CycleSteps
<1>1. ASSUME NEW t \in Threads, NEW u \in Threads, Spawn(t, u) PROVE TypeOK'
  BY <1>1 DEF Spawn
<1>2. ASSUME NEW t \in Threads,
             Attach(t) \/ FetchContext(t) \/ ReleaseContext(t) \/ Detach(t)
      PROVE  TypeOK'
  <2>1. CASE Attach(t) BY <2>1 DEF Attach
  <2>2. CASE FetchContext(t) BY <2>2 DEF FetchContext
  <2>3. CASE ReleaseContext(t) BY <2>3 DEF ReleaseContext, Refs
  <2>4. CASE Detach(t) BY <2>4 DEF Detach, Refs
  <2>5. QED BY <1>2, <2>1, <2>2, <2>3, <2>4
<1>3. ASSUME NEW t \in Threads,
             \/ Poll(t) \/ EnterSafepoint(t) \/ Resume(t)
             \/ BeginBlocking(t) \/ EndBlocking(t) \/ SpuriousWake(t)
      PROVE  TypeOK'
  <2>1. CASE Poll(t) BY <2>1 DEF Poll
  <2>2. CASE EnterSafepoint(t) BY <2>2 DEF EnterSafepoint
  <2>3. CASE Resume(t) BY <2>3 DEF Resume
  <2>4. CASE BeginBlocking(t) BY <2>4 DEF BeginBlocking
  <2>5. CASE EndBlocking(t) BY <2>5 DEF EndBlocking
  <2>6. CASE SpuriousWake(t) BY <2>6 DEF SpuriousWake
  <2>7. QED BY <1>3, <2>1, <2>2, <2>3, <2>4, <2>5, <2>6
<1>4. ASSUME NEW t \in Threads,
             \/ CallCollect(t) \/ Claim(t) \/ LoseClaim(t)
             \/ RaiseFlag(t) \/ RecheckParked(t) \/ CaptureSelf(t)
             \/ StartWorld(t) \/ ClearCollecting(t)
      PROVE  TypeOK'
  <2>1. CASE CallCollect(t) BY <2>1 DEF CallCollect
  <2>2. CASE Claim(t) BY <2>2 DEF Claim
  <2>3. CASE LoseClaim(t) BY <2>3 DEF LoseClaim
  <2>4. CASE RaiseFlag(t) BY <2>4 DEF RaiseFlag, StopOrWait
  <2>5. CASE RecheckParked(t) BY <2>5 DEF RecheckParked, StopOrWait
  <2>6. CASE CaptureSelf(t) BY <2>6 DEF CaptureSelf
  <2>7. CASE StartWorld(t) BY <2>7 DEF StartWorld
  <2>8. CASE ClearCollecting(t) BY <2>8 DEF ClearCollecting
  <2>9. QED BY <1>4, <2>1, <2>2, <2>3, <2>4, <2>5, <2>6, <2>7, <2>8
<1>5. ASSUME NEW t \in Threads, UpdateReferences(t) PROVE TypeOK'
  <2>1. \A u \in Threads : Forwarded(held[u]) \in Refs /\ Forwarded(handle[u]) \in Refs
    BY ForwardedType
  <2>2. QED BY <1>5, <2>1 DEF UpdateReferences
<1>6. ASSUME NEW t \in Threads, MoveObjects(t) PROVE TypeOK'
  BY <1>6 DEF MoveObjects, Sides
<1>7. CASE UNCHANGED vars
  BY <1>7 DEF vars
<1>8. QED
  BY <1>1, <1>2, <1>3, <1>4, <1>5, <1>6, <1>7 DEF Next, Runtime, Program

\* Type correctness of the registry, the flag, the wait sets and the addresses.
THEOREM TypeCorrect == Spec => []TypeOK
<1>1. Init => TypeOK
  BY ThreadsAssumption DEF Init, TypeOK, Places, Refs, Sides, NoRef
<1>2. QED BY <1>1, TypeStep, PTL DEF Spec

-----------------------------------------------------------------------------
(* One driver at a time *)

\* The claim word is 1 while any thread is driving a cycle: what the
\* compare-and-swap needs to exclude a second driver.
DriverClaimed == \A t \in Threads : pc[t] \in DriverSteps => collecting = 1

DriverInv == TypeOK /\ OneDriver /\ DriverClaimed

\* A step that moves a thread between places outside the driver's, with the
\* flag and the claim word as they are, keeps the driver invariant.
LEMMA BystanderStep ==
  ASSUME DriverInv, UNCHANGED <<flag, collecting>>,
         NEW t \in Threads, NEW place \in Places \ DriverSteps, Goto(t, place),
         pc[t] \notin DriverSteps
  PROVE  (OneDriver /\ DriverClaimed)'
  BY DEF DriverInv, TypeOK, OneDriver, DriverClaimed, Goto, Places, DriverSteps, CycleSteps

\* A driver that goes on to its next pass, with the flag up before and after.
LEMMA DriverStep ==
  ASSUME DriverInv, UNCHANGED <<flag, collecting>>,
         NEW t \in Threads, pc[t] \in CycleSteps \cup {"waiting"},
         NEW place \in CycleSteps \cup {"waiting"}, Goto(t, place)
  PROVE  (OneDriver /\ DriverClaimed)'
  BY DEF DriverInv, TypeOK, OneDriver, DriverClaimed, Goto, Places, DriverSteps, CycleSteps

\* One claimed driver at most, whichever thread moves.
LEMMA DriverInvStep == DriverInv /\ [Next]_vars => DriverInv'
<1> SUFFICES ASSUME DriverInv, [Next]_vars PROVE (OneDriver /\ DriverClaimed)'
  BY TypeStep DEF DriverInv
<1> USE DEF DriverInv
<1>1. ASSUME NEW t \in Threads,
             \/ \E u \in Threads : Spawn(t, u)
             \/ Attach(t) \/ FetchContext(t) \/ ReleaseContext(t) \/ Detach(t)
      PROVE  (OneDriver /\ DriverClaimed)'
  <2>1. ASSUME NEW u \in Threads, Spawn(t, u) PROVE (OneDriver /\ DriverClaimed)'
    BY <2>1, BystanderStep DEF Spawn, Places, DriverSteps, CycleSteps
  <2>2. CASE Attach(t)
    BY <2>2, BystanderStep DEF Attach, Places, DriverSteps, CycleSteps
  <2>3. CASE FetchContext(t)
    BY <2>3, BystanderStep DEF FetchContext, Places, DriverSteps, CycleSteps
  <2>4. CASE ReleaseContext(t)
    BY <2>4, BystanderStep DEF ReleaseContext, Places, DriverSteps, CycleSteps
  <2>5. CASE Detach(t)
    BY <2>5, BystanderStep DEF Detach, Places, DriverSteps, CycleSteps
  <2>6. QED BY <1>1, <2>1, <2>2, <2>3, <2>4, <2>5
<1>2. ASSUME NEW t \in Threads,
             \/ Poll(t) \/ EnterSafepoint(t) \/ Resume(t)
             \/ BeginBlocking(t) \/ EndBlocking(t)
             \/ CallCollect(t) \/ LoseClaim(t)
      PROVE  (OneDriver /\ DriverClaimed)'
  <2> USE DEF Places, DriverSteps, CycleSteps
  <2>1. CASE Poll(t) BY <2>1, BystanderStep DEF Poll
  <2>2. CASE EnterSafepoint(t) BY <2>2, BystanderStep DEF EnterSafepoint
  <2>3. CASE Resume(t)
    <3>1. CASE flag = 1 BY <2>3, <3>1 DEF Resume, OneDriver, DriverClaimed
    <3>2. CASE flag = 0 BY <2>3, <3>2, BystanderStep DEF Resume
    <3>3. QED BY <2>3, <3>1, <3>2 DEF Resume
  <2>4. CASE BeginBlocking(t) BY <2>4, BystanderStep DEF BeginBlocking
  <2>5. CASE EndBlocking(t) BY <2>5, BystanderStep DEF EndBlocking
  <2>6. CASE CallCollect(t) BY <2>6, BystanderStep DEF CallCollect
  <2>7. CASE LoseClaim(t) BY <2>7, BystanderStep DEF LoseClaim
  <2>8. QED BY <1>2, <2>1, <2>2, <2>3, <2>4, <2>5, <2>6, <2>7
<1>3. ASSUME NEW t \in Threads, Claim(t) PROVE (OneDriver /\ DriverClaimed)'
  BY <1>3 DEF Claim, TypeOK, OneDriver, DriverClaimed, Goto, DriverSteps, CycleSteps
<1>4. ASSUME NEW t \in Threads, RaiseFlag(t) PROVE (OneDriver /\ DriverClaimed)'
  BY <1>4 DEF RaiseFlag, StopOrWait, TypeOK, OneDriver, DriverClaimed, Goto,
              DriverSteps, CycleSteps
<1>5. ASSUME NEW t \in Threads,
             \/ RecheckParked(t) \/ CaptureSelf(t)
             \/ UpdateReferences(t) \/ MoveObjects(t)
      PROVE  (OneDriver /\ DriverClaimed)'
  <2> USE DEF CycleSteps
  <2>1. CASE RecheckParked(t) BY <2>1, DriverStep DEF RecheckParked, StopOrWait
  <2>2. CASE CaptureSelf(t) BY <2>2, DriverStep DEF CaptureSelf
  <2>3. CASE UpdateReferences(t) BY <2>3, DriverStep DEF UpdateReferences
  <2>4. CASE MoveObjects(t) BY <2>4, DriverStep DEF MoveObjects
  <2>5. QED BY <1>5, <2>1, <2>2, <2>3, <2>4
<1>6. ASSUME NEW t \in Threads, StartWorld(t) PROVE (OneDriver /\ DriverClaimed)'
  BY <1>6 DEF StartWorld, TypeOK, OneDriver, DriverClaimed, Goto, DriverSteps, CycleSteps
<1>7. ASSUME NEW t \in Threads, ClearCollecting(t) PROVE (OneDriver /\ DriverClaimed)'
  BY <1>7 DEF ClearCollecting, TypeOK, OneDriver, DriverClaimed, Goto,
              DriverSteps, CycleSteps
<1>8. CASE UNCHANGED vars \/ \E t \in Threads : SpuriousWake(t)
  BY <1>8 DEF vars, SpuriousWake, OneDriver, DriverClaimed
<1>9. QED
  BY <1>1, <1>2, <1>3, <1>4, <1>5, <1>6, <1>7, <1>8 DEF Next, Runtime, Program

\* Of the threads that race for g_collecting in pgc_collect one drives at a time,
\* and the flag is up exactly between its raising and its lowering.
THEOREM DriverUnique == Spec => []OneDriver
<1>1. Init => DriverInv
  <2>1. Init => TypeOK
    BY ThreadsAssumption DEF Init, TypeOK, Places, Refs, Sides, NoRef
  <2>2. Init => OneDriver /\ DriverClaimed
    BY DEF Init, OneDriver, DriverClaimed, DriverSteps, CycleSteps
  <2>3. QED BY <2>1, <2>2 DEF DriverInv
<1>2. DriverInv => OneDriver BY DEF DriverInv
<1>3. QED BY <1>1, <1>2, DriverInvStep, PTL DEF Spec

-----------------------------------------------------------------------------
(* Nobody leaves a safepoint or a blocking call while the flag is up *)

\* A parked thread is asleep at a safepoint or inside a blocking call: a thread
\* that attaches, which clears its entry, is not a parked one.
ParkedPlaces == \A t \in parked : pc[t] \in {"parked", "blocked"}

ParkedInv == TypeOK /\ ParkedPlaces

\* A step takes a thread out of its safepoint only when the flag is clear.
LEMMA ParkedStep ==
  ASSUME ParkedInv, [Next]_vars
  PROVE  ParkedPlaces' /\ \A t \in parked : t \notin parked' => flag = 0
<1> USE DEF ParkedInv, ParkedPlaces, TypeOK, Goto, registry, sleepers
<1> DEFINE P == ParkedPlaces' /\ \A t \in parked : t \notin parked' => flag = 0
<1>1. ASSUME NEW t \in Threads,
             \/ \E u \in Threads : Spawn(t, u)
             \/ Attach(t) \/ FetchContext(t) \/ ReleaseContext(t) \/ Detach(t)
      PROVE  P
  BY <1>1 DEF Spawn, Attach, FetchContext, ReleaseContext, Detach
<1>2. ASSUME NEW t \in Threads,
             \/ Poll(t) \/ EnterSafepoint(t) \/ Resume(t)
             \/ BeginBlocking(t) \/ EndBlocking(t) \/ SpuriousWake(t)
      PROVE  P
  BY <1>2 DEF Poll, EnterSafepoint, Resume, BeginBlocking, EndBlocking, SpuriousWake
<1>3. ASSUME NEW t \in Threads,
             \/ CallCollect(t) \/ Claim(t) \/ LoseClaim(t) \/ ClearCollecting(t)
      PROVE  P
  BY <1>3 DEF CallCollect, Claim, LoseClaim, ClearCollecting
<1>4. ASSUME NEW t \in Threads,
             \/ RaiseFlag(t) \/ RecheckParked(t) \/ CaptureSelf(t)
             \/ UpdateReferences(t) \/ MoveObjects(t) \/ StartWorld(t)
      PROVE  P
  BY <1>4 DEF RaiseFlag, RecheckParked, StopOrWait, CaptureSelf, UpdateReferences,
              MoveObjects, StartWorld
<1>5. CASE UNCHANGED vars
  BY <1>5 DEF vars
<1>6. QED
  BY <1>1, <1>2, <1>3, <1>4, <1>5 DEF Next, Runtime, Program

\* Nothing but a clear flag un-parks a thread, whatever wakes it.
THEOREM NoEarlyExit == Spec => ParkedUntilCleared
<1>1. Init => ParkedInv
  BY ThreadsAssumption DEF Init, ParkedInv, ParkedPlaces, TypeOK, Places, Refs, Sides, NoRef
<1>2. ParkedInv /\ [Next]_vars => ParkedInv'
  BY ParkedStep, TypeStep DEF ParkedInv
<1>3. ParkedInv /\ [Next]_vars => [\A t \in parked : t \notin parked' => flag = 0]_vars
  BY ParkedStep
<1>4. QED BY <1>1, <1>2, <1>3, PTL DEF Spec, ParkedUntilCleared

-----------------------------------------------------------------------------
(* The hand-over of the closure context, with threads that come and go *)

\* A thread on its way out or not attached yet is in no slot, and a thread that is
\* not astray is in one from its attach to its detach.
InSlots ==
  \A t \in Threads :
    /\ pc[t] \in {"out", "born"} => t \notin inUse
    /\ pc[t] \notin {"out", "born"} => t \in inUse \cup astray

\* Every sleeper is parked with its stack captured; so is a registered driver's.
StacksCaptured ==
  \A t \in Threads :
    /\ pc[t] \in {"parked", "blocked"} => t \in parked /\ t \in captured
    /\ pc[t] = "captured" => t \in captured \cup astray

\* While the passes run, everybody but the driver is parked, not attached, or astray.
OthersStopped ==
  \A d, u \in Threads :
    pc[d] \in CycleSteps /\ pc[u] \notin {"out", "born"} /\ u # d => u \in parked \cup astray

\* Each thread that is not astray holds the address to be between the reference
\* update and the move, and the address that is at any other time.
ContextCurrent ==
  \A t \in Threads \ astray : pc[t] # "out" =>
    IF pc[t] \in {"born", "attached"} THEN handle[t] = Current ELSE held[t] = Current

CrewInv == DriverInv /\ ParkedPlaces /\ InSlots /\ StacksCaptured /\ OthersStopped

\* Every step keeps the slots, also of a thread that starts, attaches or ends.
LEMMA InSlotsStep ==
  ASSUME TypeOK, InSlots, [Next]_vars
  PROVE  InSlots'
<1> USE DEF TypeOK, InSlots, Goto, registry, sleepers, memory
<1>1. ASSUME NEW t \in Threads,
             \/ \E u \in Threads : Spawn(t, u)
             \/ Attach(t) \/ FetchContext(t) \/ ReleaseContext(t) \/ Detach(t)
      PROVE  InSlots'
  <2>1. ASSUME NEW u \in Threads, Spawn(t, u) PROVE InSlots'
    BY <2>1 DEF Spawn
  <2>2. CASE Attach(t) BY <2>2 DEF Attach
  <2>3. CASE FetchContext(t) \/ ReleaseContext(t) \/ Detach(t)
    BY <2>3 DEF FetchContext, ReleaseContext, Detach
  <2>4. QED BY <1>1, <2>1, <2>2, <2>3
<1>2. ASSUME NEW t \in Threads,
             \/ Poll(t) \/ EnterSafepoint(t) \/ Resume(t)
             \/ BeginBlocking(t) \/ EndBlocking(t) \/ SpuriousWake(t)
      PROVE  InSlots'
  BY <1>2 DEF Poll, EnterSafepoint, Resume, BeginBlocking, EndBlocking, SpuriousWake
<1>3. ASSUME NEW t \in Threads,
             \/ CallCollect(t) \/ Claim(t) \/ LoseClaim(t) \/ ClearCollecting(t)
             \/ RaiseFlag(t) \/ RecheckParked(t) \/ CaptureSelf(t)
             \/ UpdateReferences(t) \/ MoveObjects(t) \/ StartWorld(t)
      PROVE  InSlots'
  BY <1>3 DEF CallCollect, Claim, LoseClaim, ClearCollecting, RaiseFlag, RecheckParked,
              StopOrWait, CaptureSelf, UpdateReferences, MoveObjects, StartWorld
<1>4. CASE UNCHANGED vars
  BY <1>4 DEF vars
<1>5. QED
  BY <1>1, <1>2, <1>3, <1>4 DEF Next, Runtime, Program

\* A thread that counts as parked has a captured stack and keeps both until the
\* flag is clear; one that joins the passes is astray.
LEMMA StacksStep ==
  ASSUME CrewInv, [Next]_vars
  PROVE  (StacksCaptured /\ OthersStopped)'
<1> DEFINE P == (StacksCaptured /\ OthersStopped)'
<1> USE DEF TypeOK, CrewInv, DriverInv, StacksCaptured, OthersStopped, Goto, registry, sleepers, memory
<1>1. ASSUME NEW t \in Threads,
             \/ \E u \in Threads : Spawn(t, u)
             \/ Attach(t) \/ FetchContext(t) \/ ReleaseContext(t) \/ Detach(t)
      PROVE  P
  <2>1. ASSUME NEW u \in Threads, Spawn(t, u) PROVE P
    BY <2>1 DEF Spawn, CycleSteps
  <2>2. CASE Attach(t)
    <3>1. PassesRun => t \in astray'
      BY <2>2 DEF Attach
    <3>2. /\ pc'[t] = "attached" /\ \A u \in Threads \ {t} : pc'[u] = pc[u]
          /\ astray \subseteq astray' /\ parked' = parked \ {t} /\ captured' = captured \ {t}
      BY <2>2 DEF Attach
    <3> QED BY <3>1, <3>2 DEF PassesRun, CycleSteps
  <2>3. CASE FetchContext(t) \/ ReleaseContext(t) \/ Detach(t)
    BY <2>3 DEF FetchContext, ReleaseContext, Detach, ParkedPlaces, CycleSteps
  <2>4. QED BY <1>1, <2>1, <2>2, <2>3
<1>2. ASSUME NEW t \in Threads,
             \/ Poll(t) \/ CallCollect(t) \/ Claim(t) \/ LoseClaim(t) \/ SpuriousWake(t)
      PROVE  P
  BY <1>2 DEF Poll, CallCollect, Claim, LoseClaim, SpuriousWake, CycleSteps
<1>3. ASSUME NEW t \in Threads,
             \/ EnterSafepoint(t) \/ Resume(t) \/ BeginBlocking(t) \/ EndBlocking(t)
      PROVE  P
  \* A sleeper that leaves has seen the flag clear, so no driver is in its passes.
  <2>1. flag = 0 => \A d \in Threads : pc[d] \notin CycleSteps
    BY DEF OneDriver
  <2>2. CASE EnterSafepoint(t) BY <2>2, <2>1 DEF EnterSafepoint, CycleSteps
  <2>3. CASE Resume(t) BY <2>3, <2>1 DEF Resume, CycleSteps
  <2>4. CASE BeginBlocking(t) BY <2>4 DEF BeginBlocking, CycleSteps
  <2>5. CASE EndBlocking(t) BY <2>5, <2>1 DEF EndBlocking, CycleSteps
  <2>6. QED BY <1>3, <2>2, <2>3, <2>4, <2>5
<1>4. ASSUME NEW t \in Threads, RaiseFlag(t) \/ RecheckParked(t)
      PROVE  P
  <2>1. \A d \in Threads : d # t => pc[d] \notin CycleSteps
    BY <1>4 DEF RaiseFlag, RecheckParked, OneDriver, DriverSteps, CycleSteps
  <2>2. QED
    BY <1>4, <2>1 DEF RaiseFlag, RecheckParked, StopOrWait, OthersParked, InSlots, CycleSteps
<1>5. ASSUME NEW t \in Threads,
             \/ CaptureSelf(t) \/ UpdateReferences(t) \/ MoveObjects(t)
             \/ StartWorld(t) \/ ClearCollecting(t)
      PROVE  P
  <2>1. \A d \in Threads : d # t => pc[d] \notin CycleSteps
    BY <1>5 DEF CaptureSelf, UpdateReferences, MoveObjects, StartWorld,
                ClearCollecting, OneDriver, DriverSteps, CycleSteps
  <2>2. CASE CaptureSelf(t) BY <2>2, <2>1 DEF CaptureSelf, InSlots, CycleSteps
  <2>3. CASE UpdateReferences(t) BY <2>3, <2>1 DEF UpdateReferences, CycleSteps
  <2>4. CASE MoveObjects(t) BY <2>4, <2>1 DEF MoveObjects, CycleSteps
  <2>5. CASE StartWorld(t) BY <2>5, <2>1 DEF StartWorld, CycleSteps
  <2>6. CASE ClearCollecting(t) BY <2>6, <2>1 DEF ClearCollecting, CycleSteps
  <2>7. QED BY <1>5, <2>2, <2>3, <2>4, <2>5, <2>6
<1>6. CASE UNCHANGED vars
  BY <1>6 DEF vars
<1>7. QED
  BY <1>1, <1>2, <1>3, <1>4, <1>5, <1>6 DEF Next, Runtime, Program

\* The strengthened invariant holds at the start ...
LEMMA CrewInit == Init => CrewInv /\ ContextCurrent
<1>1. Init => TypeOK
  BY ThreadsAssumption DEF Init, TypeOK, Places, Refs, Sides, NoRef
<1>2. Init => OneDriver /\ DriverClaimed /\ ParkedPlaces
  BY DEF Init, OneDriver, DriverClaimed, ParkedPlaces, DriverSteps, CycleSteps
<1>3. Init => InSlots /\ StacksCaptured /\ OthersStopped /\ ContextCurrent
  BY ThreadsAssumption
  DEF Init, InSlots, StacksCaptured, OthersStopped, ContextCurrent, Current, CycleSteps
<1>4. QED BY <1>1, <1>2, <1>3 DEF CrewInv, DriverInv

\* ... and every step keeps it.
LEMMA CrewStep == CrewInv /\ [Next]_vars => CrewInv'
<1> SUFFICES ASSUME CrewInv, [Next]_vars PROVE CrewInv'
  OBVIOUS
<1>1. DriverInv' BY DriverInvStep DEF CrewInv
<1>2. ParkedPlaces' BY ParkedStep DEF CrewInv, ParkedInv, DriverInv
<1>3. InSlots' BY InSlotsStep DEF CrewInv, DriverInv
<1>4. (StacksCaptured /\ OthersStopped)' BY StacksStep
<1>5. QED BY <1>1, <1>2, <1>3, <1>4 DEF CrewInv

\* While the passes read the roots, the walk visits every thread past its start
\* that is not astray.
LEMMA PassVisits ==
  ASSUME CrewInv, NEW d \in Threads, pc[d] = "captured",
         NEW t \in Threads \ astray, pc[t] \notin {"out", "born"}
  PROVE  t \in inUse \cap captured /\ pc[t] # "attached"
<1>1. t \in inUse
  BY DEF CrewInv, InSlots
<1>2. CASE t = d
  BY <1>1, <1>2 DEF CrewInv, StacksCaptured
<1>3. CASE t # d
  BY <1>1, <1>3 DEF CrewInv, OthersStopped, ParkedPlaces, StacksCaptured, CycleSteps
<1>4. QED BY <1>2, <1>3

\* Only the reference update and the move change which address is current.
LEMMA CurrentStays ==
  ASSUME heapSide' = heapSide,
         \A d \in Threads : pc'[d] = "updated" <=> pc[d] = "updated"
  PROVE  Current' = Current
  BY DEF Current

\* No step but those two touches what a thread that is not astray holds, except to
\* hand it over.
LEMMA ContextStep ==
  ASSUME CrewInv, ContextCurrent, [Next]_vars
  PROVE  ContextCurrent'
<1> USE DEF CrewInv, DriverInv, TypeOK, ContextCurrent, Goto, registry, sleepers, memory
<1>1. ASSUME NEW t \in Threads,
             \/ \E u \in Threads : Spawn(t, u)
             \/ Attach(t) \/ FetchContext(t) \/ ReleaseContext(t) \/ Detach(t)
      PROVE  ContextCurrent'
  <2>1. Current' = Current
    BY <1>1, CurrentStays DEF Spawn, Attach, FetchContext, ReleaseContext, Detach
  <2>2. ASSUME NEW u \in Threads, Spawn(t, u) PROVE ContextCurrent'
    BY <2>1, <2>2 DEF Spawn
  <2>3. CASE Attach(t) BY <2>1, <2>3 DEF Attach
  <2>4. CASE FetchContext(t) BY <2>1, <2>4 DEF FetchContext
  <2>5. CASE ReleaseContext(t) BY <2>1, <2>5 DEF ReleaseContext
  <2>6. CASE Detach(t) BY <2>1, <2>6 DEF Detach
  <2>7. QED BY <1>1, <2>2, <2>3, <2>4, <2>5, <2>6
<1>2. ASSUME NEW t \in Threads,
             \/ Poll(t) \/ EnterSafepoint(t) \/ Resume(t)
             \/ BeginBlocking(t) \/ EndBlocking(t) \/ SpuriousWake(t)
      PROVE  ContextCurrent'
  <2>1. Current' = Current
    BY <1>2, CurrentStays
    DEF Poll, EnterSafepoint, Resume, BeginBlocking, EndBlocking, SpuriousWake
  <2>2. QED
    BY <1>2, <2>1 DEF Poll, EnterSafepoint, Resume, BeginBlocking, EndBlocking, SpuriousWake
<1>3. ASSUME NEW t \in Threads,
             \/ CallCollect(t) \/ Claim(t) \/ LoseClaim(t) \/ ClearCollecting(t)
             \/ RaiseFlag(t) \/ RecheckParked(t) \/ CaptureSelf(t) \/ StartWorld(t)
      PROVE  ContextCurrent'
  <2>1. Current' = Current
    BY <1>3, CurrentStays DEF CallCollect, Claim, LoseClaim, ClearCollecting, RaiseFlag,
                              RecheckParked, StopOrWait, CaptureSelf, StartWorld
  <2>2. QED
    BY <1>3, <2>1 DEF CallCollect, Claim, LoseClaim, ClearCollecting, RaiseFlag,
                      RecheckParked, StopOrWait, CaptureSelf, StartWorld
<1>4. ASSUME NEW d \in Threads, UpdateReferences(d) PROVE ContextCurrent'
  <2>1. Current = heapSide /\ Current' = 1 - heapSide
    <3>1. \A u \in Threads : pc[u] # "updated"
      BY <1>4 DEF UpdateReferences, OneDriver, DriverSteps, CycleSteps
    <3>2. pc'[d] = "updated" /\ heapSide' = heapSide
      BY <1>4 DEF UpdateReferences
    <3> QED BY <3>1, <3>2 DEF Current
  \* The pass rewrites every handle, and the frames of whoever it visits.
  <2>2. ASSUME NEW t \in Threads \ astray, pc[t] \notin {"out", "born"}
        PROVE  held'[t] = 1 - heapSide /\ pc'[t] # "attached"
    BY <1>4, <2>1, <2>2, PassVisits DEF UpdateReferences, Forwarded
  <2>3. ASSUME NEW t \in Threads \ astray, pc[t] = "born"
        PROVE  handle'[t] = 1 - heapSide
    BY <1>4, <2>1, <2>3 DEF UpdateReferences, Forwarded
  <2>4. /\ \A t \in Threads : pc'[t] \in {"out", "born"} <=> pc[t] \in {"out", "born"}
        /\ \A t \in Threads : pc'[t] = "out" <=> pc[t] = "out"
        /\ astray' = astray
    BY <1>4 DEF UpdateReferences
  <2>5. QED BY <2>1, <2>2, <2>3, <2>4
<1>5. ASSUME NEW d \in Threads, MoveObjects(d) PROVE ContextCurrent'
  <2>1. Current = 1 - heapSide
    BY <1>5 DEF MoveObjects, Current
  <2>2. Current' = 1 - heapSide
    BY <1>5 DEF MoveObjects, Current, OneDriver, DriverSteps, CycleSteps
  <2>3. QED BY <1>5, <2>1, <2>2 DEF MoveObjects
<1>6. CASE UNCHANGED vars
  BY <1>6, CurrentStays DEF vars
<1>7. QED
  BY <1>1, <1>2, <1>3, <1>4, <1>5, <1>6 DEF Next, Runtime, Program

\* From Thread.start on, a thread that joined the registry in time has its context's
\* current address, in the handle or in frames that the passes visit, however many
\* threads start, end, block and collect, and however small the registry is.
THEOREM ContextRooted == Spec => []ContextKept
<1>1. CrewInv /\ ContextCurrent => ContextKept
  BY PassVisits DEF ContextKept, ContextCurrent
<1>2. CrewInv /\ ContextCurrent /\ [Next]_vars => (CrewInv /\ ContextCurrent)'
  BY CrewStep, ContextStep
<1>3. QED BY <1>1, <1>2, CrewInit, PTL DEF Spec

-----------------------------------------------------------------------------
(* A crew that only shrinks: no thread attaches while the model runs *)

\* Nobody is on its way in, so nobody can be astray.
NobodyJoins ==
  /\ astray = {}
  /\ \A t \in Threads : pc[t] \notin {"born", "attached", "fetched"}

\* With nothing left to spawn, nobody comes in.
LEMMA NobodyJoinsStep ==
  ASSUME Spawnable = {}, TypeOK, NobodyJoins, [Next]_vars
  PROVE  NobodyJoins'
<1> USE DEF TypeOK, NobodyJoins, Goto, memory
<1>1. ASSUME NEW t \in Threads,
             \/ \E u \in Threads : Spawn(t, u)
             \/ Attach(t) \/ FetchContext(t) \/ ReleaseContext(t) \/ Detach(t)
      PROVE  NobodyJoins'
  BY <1>1 DEF Spawn, Attach, FetchContext, ReleaseContext, Detach
<1>2. ASSUME NEW t \in Threads,
             \/ Poll(t) \/ EnterSafepoint(t) \/ Resume(t)
             \/ BeginBlocking(t) \/ EndBlocking(t) \/ SpuriousWake(t)
      PROVE  NobodyJoins'
  BY <1>2 DEF Poll, EnterSafepoint, Resume, BeginBlocking, EndBlocking, SpuriousWake
<1>3. ASSUME NEW t \in Threads,
             \/ CallCollect(t) \/ Claim(t) \/ LoseClaim(t) \/ ClearCollecting(t)
             \/ RaiseFlag(t) \/ RecheckParked(t) \/ CaptureSelf(t)
             \/ UpdateReferences(t) \/ MoveObjects(t) \/ StartWorld(t)
      PROVE  NobodyJoins'
  BY <1>3 DEF CallCollect, Claim, LoseClaim, ClearCollecting, RaiseFlag, RecheckParked,
              StopOrWait, CaptureSelf, UpdateReferences, MoveObjects, StartWorld
<1>4. CASE UNCHANGED vars
  BY <1>4 DEF vars
<1>5. QED
  BY <1>1, <1>2, <1>3, <1>4 DEF Next, Runtime, Program

\* While the driver's passes run every other registered thread is parked, as
\* long as no thread attaches: threads may poll, block, leave and collect freely.
THEOREM WorldIsStopped ==
  ASSUME Spawnable = {}
  PROVE  Spec => []WorldStopped
<1>1. Init => CrewInv /\ NobodyJoins
  BY CrewInit DEF Init, NobodyJoins
<1>2. CrewInv /\ NobodyJoins /\ [Next]_vars => (CrewInv /\ NobodyJoins)'
  BY CrewStep, NobodyJoinsStep DEF CrewInv, DriverInv
<1>3. CrewInv /\ NobodyJoins => WorldStopped
  BY DEF CrewInv, NobodyJoins, InSlots, OthersStopped, WorldStopped
<1>4. QED BY <1>1, <1>2, <1>3, PTL DEF Spec

\* No running thread holds an address that a move made stale, under the same
\* assumption: the flag, the captured stacks and the order of the passes suffice.
THEOREM AddressesStayCurrent ==
  ASSUME Spawnable = {}
  PROVE  Spec => []RootsCurrent
<1>1. Init => CrewInv /\ ContextCurrent /\ NobodyJoins
  BY CrewInit DEF Init, NobodyJoins
<1>2. CrewInv /\ ContextCurrent /\ NobodyJoins /\ [Next]_vars => (CrewInv /\ ContextCurrent /\ NobodyJoins)'
  BY CrewStep, ContextStep, NobodyJoinsStep DEF CrewInv, DriverInv
<1>3. CrewInv /\ ContextCurrent /\ NobodyJoins => RootsCurrent
  <2> SUFFICES ASSUME CrewInv, ContextCurrent, NobodyJoins,
                      NEW t \in Threads, pc[t] \in {"run", "fetched"}
               PROVE  held[t] \in {heapSide, NoRef}
    BY DEF RootsCurrent
  \* A thread that runs is registered and not parked, so no pass is under way.
  <2>1. \A d \in Threads : pc[d] # "updated"
    BY DEF CrewInv, NobodyJoins, OthersStopped, ParkedPlaces, CycleSteps
  <2>2. QED
    BY <2>1 DEF NobodyJoins, ContextCurrent, Current
<1>4. QED BY <1>1, <1>2, <1>3, PTL DEF Spec

-----------------------------------------------------------------------------
(* The shape of the heap *)

\* Where the block at h ends, and the next begins.
Past(m, h) == h + HeaderSize + m[h]

\* The region up to end is a row of blocks that begin at S: each has a size and a
\* plausible descriptor and leads to the next or to the end.
Layout(m, end, S) ==
  /\ S \subseteq Words
  /\ Base \in S \cup {end}
  /\ \A h \in S : /\ m[h] \in Nat /\ m[h + 2] \in Descriptors
                  /\ Past(m, h) <= end /\ Past(m, h) \in S \cup {end}
  /\ \A g, h \in S : g < h => Past(m, g) <= h

\* The buffers bs have room left in gaps that lie below end, apart from one another,
\* and are long enough for a header.
OpenIn(bs, t)  == bs[t][1] < bs[t][2]
Fillers(bs)    == {bs[t][1] : t \in {u \in Mutators : OpenIn(bs, u)}}
Gaps(bs, end)  ==
  /\ bs \in [Mutators -> Nat \X Nat]
  /\ \A t \in Mutators :
       /\ bs[t] # NoTlab => Base <= bs[t][1] /\ bs[t][1] <= bs[t][2] /\ bs[t][2] <= end
       /\ OpenIn(bs, t) => bs[t][1] + HeaderSize <= bs[t][2]
  /\ \A t, u \in Mutators : t # u /\ OpenIn(bs, t) /\ OpenIn(bs, u) =>
       bs[t][2] <= bs[u][1] \/ bs[u][2] <= bs[t][1]

\* AllFilled of any words, buffers and threads, and what it has to yield.
FillOf(m, bs, ts) ==
  LET open == {t \in ts : bs[t][1] < bs[t][2]}
      within(t, a) == bs[t][1] <= a /\ a < bs[t][2]
  IN IF open = {} THEN m
     ELSE [a \in Words |-> IF \E t \in open : within(t, a)
                           THEN FilledWord(m, bs[CHOOSE t \in open : within(t, a)], a)
                           ELSE m[a]]
IsFill(m, bs, F) ==
  /\ F \in [Words -> Int]
  /\ \A t \in Mutators : OpenIn(bs, t) =>
       F[bs[t][1]] = bs[t][2] - bs[t][1] - HeaderSize /\ F[bs[t][1] + 1] = 0 /\ F[bs[t][1] + 2] = Atomic
  /\ \A a \in Words : (\A t \in Mutators : OpenIn(bs, t) => ~(bs[t][1] <= a /\ a < bs[t][2])) => F[a] = m[a]

\* With its gaps filled the heap is a row of the blocks S.  Those that are no fillers
\* are the objects, dead ones included; their managed fields are null or refer to objects.
ObjectsOf(bs, S) == S \ Fillers(bs)
Sound(m, end, bs, ts, S) ==
  /\ m \in [Words -> Int] /\ end \in Base .. End /\ ts \subseteq Mutators
  /\ Gaps(bs, end)
  /\ \A t \in Mutators : t \notin ts => bs[t] = NoTlab
  /\ Fillers(bs) \subseteq S
  /\ Layout(FillOf(m, bs, ts), end, S)
  /\ \A h \in S : FillOf(m, bs, ts)[h + 1] = 0
  /\ \A h \in ObjectsOf(bs, S) :
       /\ m[h + 2] = Cell => m[h] # 0
       /\ \A f \in Fields(m, h) : m[f] = Null \/ m[f] - HeaderSize \in ObjectsOf(bs, S)

\* The references rt with their offsets off point into objects or one past their end.
Rooted(m, L, rt, off) ==
  /\ rt \in [Roots -> Nat] /\ off \in [Roots -> Nat]
  /\ \A r \in Roots : rt[r] # Null =>
       /\ rt[r] - off[r] - HeaderSize \in L
       /\ off[r] <= m[rt[r] - off[r] - HeaderSize]

\* The heap is sound, and the roots refer to its objects.
Intact(m, end, bs, ts, rt, off) ==
  \E S : Sound(m, end, bs, ts, S) /\ Rooted(m, ObjectsOf(bs, S), rt, off)

\* Requests are waiting for attached threads only.
Requests ==
  /\ req \in [Mutators -> {NoReq} \cup Roots \X Shapes \X BOOLEAN]
  /\ \A t \in Mutators : t \notin attached => req[t] = NoReq

\* The inductive invariant.
HeapInvariant == Intact(mem, top, tlab, attached, root, offset) /\ Requests

\* A set of naturals that is bounded and has a member has a greatest one.
LEMMA Greatest ==
  ASSUME NEW T, T \subseteq Nat, T # {}, NEW b \in Nat, \A n \in T : n <= b
  PROVE  \E m \in T : \A n \in T : n <= m
<1> DEFINE D == {n \in Nat : n <= b /\ b - n \in T}
<1>1. PICK x : x \in T
  OBVIOUS
<1>2. b - x \in D
  <2>1. x \in Nat /\ x <= b /\ b - (b - x) = x
    BY <1>1
  <2> QED
    BY <1>1, <2>1
<1>3. PICK d \in D : \A n \in D : d <= n
  <2>1. D \subseteq Nat /\ D # {}
    BY <1>2
  <2> HIDE DEF D
  <2> QED
    BY <2>1, Least
<1>4. d \in Nat /\ b - d \in T
  BY <1>3
<1>5. ASSUME NEW n \in T PROVE n <= b - d
  <2>1. n \in Nat /\ n <= b /\ b - n \in Nat /\ b - n <= b /\ b - (b - n) = n
    BY <1>5
  <2>2. b - n \in D
    BY <2>1, <1>5
  <2>3. d <= b - n
    BY <1>3, <2>2
  <2> QED
    BY <2>1, <2>3, <1>4
<1> QED
  BY <1>4, <1>5

\* Reached yields the least set that has the start and all neighbours of its members:
\* its recursion ends, because every round adds one of finitely many nodes.
LEMMA ReachedIsLeast ==
  ASSUME NEW V, IsFiniteSet(V), NEW next \in [V -> SUBSET V], NEW start \in SUBSET V
  PROVE  /\ start \subseteq Reached(start, next)
         /\ Reached(start, next) \subseteq V
         /\ \A x \in Reached(start, next) : next[x] \subseteq Reached(start, next)
         /\ \A c \in SUBSET V : start \subseteq c /\ (\A x \in c : next[x] \subseteq c)
                                  => Reached(start, next) \subseteq c
<1> DEFINE More(s)   == s \cup UNION {next[x] : x \in s}
           Closed(c) == \A x \in c : next[x] \subseteq c
           Hull(s)   == {x \in V : \A c \in SUBSET V : s \subseteq c /\ Closed(c) => x \in c}
           IsFrom(f) == f = [s \in SUBSET V |-> IF More(s) = s THEN s ELSE f[More(s)]]
           from      == CHOOSE f : IsFrom(f)
<1>1. DOMAIN next = V
  OBVIOUS
<1>2. Reached(start, next) = from[start]
  BY <1>1 DEF Reached
<1>3. \A s \in SUBSET V : More(s) \in SUBSET V /\ s \subseteq More(s)
  OBVIOUS
<1>4. \A s \in SUBSET V : More(s) = s <=> Closed(s)
  OBVIOUS
<1>5. \A s \in SUBSET V : /\ s \subseteq Hull(s) /\ Hull(s) \in SUBSET V
                          /\ \A c \in SUBSET V : s \subseteq c /\ Closed(c) => Hull(s) \subseteq c
  OBVIOUS
<1>6. \A s \in SUBSET V : Closed(Hull(s))
  OBVIOUS
<1>7. ASSUME NEW s \in SUBSET V PROVE Hull(More(s)) = Hull(s)
  <2>1. More(s) \subseteq Hull(s)
    BY <1>5, <1>6
  <2>2. Hull(More(s)) \subseteq Hull(s)
    BY <2>1, <1>3, <1>5, <1>6
  <2>3. s \subseteq Hull(More(s))
    BY <1>3, <1>5
  <2>4. Hull(s) \subseteq Hull(More(s))
    BY <2>3, <1>3, <1>5, <1>6
  <2> QED
    BY <2>2, <2>4
<1>8. \A s \in SUBSET V : Closed(s) => Hull(s) = s
  BY <1>5
<1> HIDE DEF More, Closed, Hull
<1>9. IsFrom([s \in SUBSET V |-> Hull(s)])
  <2> DEFINE f == [s \in SUBSET V |-> Hull(s)]
  <2>1. ASSUME NEW s \in SUBSET V
        PROVE  Hull(s) = IF More(s) = s THEN s ELSE f[More(s)]
    BY <1>3, <1>4, <1>7, <1>8
  <2> QED
    BY <2>1
<1>10. IsFrom(from)
  BY <1>9
<1>11. ASSUME NEW s \in SUBSET V, from[s] # Hull(s) PROVE FALSE
  <2> DEFINE Wrong == {Cardinality(V \ w) : w \in {u \in SUBSET V : from[u] # Hull(u)}}
  <2> HIDE DEF from
  <2>1. \A u \in SUBSET V : IsFiniteSet(V \ u) /\ Cardinality(V \ u) \in Nat
    BY FS_Subset, FS_CardinalityType
  <2>2. Wrong \subseteq Nat /\ Wrong # {}
    BY <2>1, <1>11
  <2>3. PICK n \in Wrong : \A k \in Wrong : n <= k
    <3> HIDE DEF Wrong
    <3> QED
      BY <2>2, Least
  <2>4. PICK w \in SUBSET V : from[w] # Hull(w) /\ n = Cardinality(V \ w)
    BY <2>3
  <2>5. from[w] = IF More(w) = w THEN w ELSE from[More(w)]
    BY <1>10
  <2>6. More(w) # w /\ from[w] = from[More(w)]
    BY <2>4, <2>5, <1>4, <1>8
  <2>7. from[More(w)] # Hull(More(w))
    BY <2>4, <2>6, <1>7
  <2>8. Cardinality(V \ More(w)) \in Wrong
    BY <2>7, <1>3
  <2>9. /\ V \ More(w) \subseteq V \ w /\ V \ More(w) # V \ w
        /\ IsFiniteSet(V \ w)
    BY <2>1, <2>6, <1>3
  <2>10. Cardinality(V \ More(w)) < Cardinality(V \ w)
    <3>1. /\ Cardinality(V \ More(w)) <= Cardinality(V \ w)
          /\ Cardinality(V \ More(w)) # Cardinality(V \ w)
      BY <2>9, FS_Subset
    <3>2. Cardinality(V \ More(w)) \in Nat /\ Cardinality(V \ w) \in Nat
      BY <2>1, <1>3
    <3> QED
      BY <3>1, <3>2
  <2>11. /\ Cardinality(V \ More(w)) \in Nat /\ n \in Nat
         /\ n <= Cardinality(V \ More(w))
    BY <2>1, <2>3, <2>4, <2>8, <1>3
  <2> QED
    BY <2>4, <2>10, <2>11
<1>12. Reached(start, next) = Hull(start)
  BY <1>2, <1>11
<1> QED
  BY <1>5, <1>6, <1>12 DEF Closed

\* The region has finitely many words.
LEMMA WordsFinite == IsFiniteSet(Words)
  BY FS_Interval, HeapAssumption DEF HeapAssumption, Words, End

-----------------------------------------------------------------------------
(* The walk over the heap *)

\* The addresses of the region are naturals above zero and above every size.
LEMMA WordsAreNat ==
  /\ Base \in Nat /\ End \in Nat /\ HeapWords \in Nat /\ Base > 0 /\ Base > HeapWords
  /\ Base <= End /\ End = Base + HeapWords
  /\ \A a : a \in Words <=> a \in Nat /\ Base <= a /\ a < End
  BY HeapAssumption DEF HeapAssumption, Words, End

\* The greatest element of a set of naturals is its maximum.
LEMMA MaxIs ==
  ASSUME NEW T, T \subseteq Nat, NEW m \in T, \A n \in T : n <= m
  PROVE  Max(T) = m
<1>1. \A x \in T : (\A y \in T : x >= y) => x = m
  <2> SUFFICES ASSUME NEW x \in T, \A y \in T : x >= y PROVE x = m
    OBVIOUS
  <2>1. x \in Nat /\ m \in Nat /\ x >= m /\ x <= m
    OBVIOUS
  <2> QED
    BY <2>1
<1>2. \A y \in T : m >= y
  OBVIOUS
<1> QED
  BY <1>1, <1>2 DEF Max

\* What a layout says of its blocks' words, in the terms of the walk.
LEMMA LayoutWords ==
  ASSUME NEW m \in [Words -> Int], NEW end \in Base .. End, NEW S, Layout(m, end, S),
         NEW h \in S
  PROVE  /\ h \in Words /\ h \in Nat /\ h >= Base /\ m[h] \in Nat /\ m[h] >= 0
         /\ h + 1 \in Words /\ h + 2 \in Words
         /\ h + HeaderSize <= Past(m, h) /\ Past(m, h) <= end /\ h < end
         /\ SizeAt(m, h) = m[h] /\ DescriptorAt(m, h) = m[h + 2] /\ Word(m, h + 1) = m[h + 1]
         /\ Total(m, h) = HeaderSize + m[h] /\ h + Total(m, h) = Past(m, h)
         /\ Walkable(m, h)
<1>1. h \in Words /\ m[h] \in Nat /\ m[h + 2] \in Descriptors /\ Past(m, h) <= end
  BY DEF Layout
<1>2. h \in Nat /\ h >= Base /\ end \in Nat /\ end <= End
  BY <1>1, WordsAreNat
<1>3. h + HeaderSize <= Past(m, h) /\ h < end
  BY <1>1, <1>2 DEF Past, HeaderSize
<1>4. h + 1 \in Words /\ h + 2 \in Words
  <2>1. h + 3 <= End
    <3>1. end <= End /\ h + HeaderSize <= end /\ End \in Nat
      BY <1>2, <1>3, <1>1, WordsAreNat DEF Past, HeaderSize
    <3> QED
      BY <1>2, <3>1 DEF HeaderSize
  <2> QED
    BY <1>2, <2>1, WordsAreNat DEF Words
<1>5. /\ SizeAt(m, h) = m[h] /\ DescriptorAt(m, h) = m[h + 2] /\ Word(m, h + 1) = m[h + 1]
  BY <1>1, <1>4 DEF SizeAt, DescriptorAt, Word
<1>6. Total(m, h) = HeaderSize + m[h]
  BY <1>1, <1>5 DEF Total
<1>7. h + Total(m, h) = Past(m, h)
  BY <1>1, <1>2, <1>6 DEF Past, HeaderSize
<1>8. Walkable(m, h)
  BY <1>1, <1>5 DEF Walkable
<1> QED
  BY <1>1, <1>2, <1>3, <1>4, <1>5, <1>6, <1>7, <1>8

\* Every block of a layout but the first has one that ends where it begins, and so has
\* the end of a layout that is not empty.
LEMMA Predecessor ==
  ASSUME NEW m \in [Words -> Int], NEW end \in Base .. End, NEW S, Layout(m, end, S),
         NEW h \in S \cup {end}, h # Base
  PROVE  \E p \in S : p < h /\ Past(m, p) = h
<1> DEFINE Below == {p \in S : p < h}
<1>1. S \subseteq Nat /\ h \in Nat /\ end \in Nat /\ Base < h /\ h <= end
  <2>1. end \in Nat /\ Base <= end /\ Base \in Nat
    BY WordsAreNat
  <2>2. \A x \in S : x \in Nat /\ Base <= x /\ x < end
    BY LayoutWords
  <2> QED
    BY <2>1, <2>2
<1>2. Base \in Below
  BY <1>1 DEF Layout
<1>3. PICK p \in Below : \A q \in Below : q <= p
  <2>1. Below \subseteq Nat /\ Below # {}
    BY <1>1, <1>2
  <2>2. ASSUME NEW q \in Below PROVE q <= h
    <3>1. q \in Nat /\ q < h /\ h \in Nat
      BY <1>1, <2>2
    <3> QED
      BY <3>1
  <2> HIDE DEF Below
  <2> QED
    BY <1>1, <2>1, <2>2, Greatest
<1>4. p \in S /\ p < h /\ Past(m, p) \in S \cup {end} /\ Past(m, p) > p /\ Past(m, p) \in Nat
  <2>1. p \in S /\ p < h /\ Past(m, p) \in S \cup {end}
    BY <1>3 DEF Layout
  <2>2. p + HeaderSize <= Past(m, p) /\ p \in Nat
    BY <2>1, LayoutWords
  <2>3. Past(m, p) \in Nat
    BY <1>1, <2>1
  <2> QED
    BY <2>1, <2>2, <2>3 DEF HeaderSize
<1>5. Past(m, p) <= h
  <2>1. CASE h \in S
    BY <1>4, <2>1 DEF Layout
  <2>2. CASE h = end
    BY <1>4, <2>2, LayoutWords
  <2> QED
    BY <2>1, <2>2
<1>6. ASSUME Past(m, p) < h PROVE FALSE
  <2>1. Past(m, p) \in S
    BY <1>1, <1>4, <1>6
  <2>2. Past(m, p) <= p
    BY <1>3, <1>6, <2>1
  <2> QED
    BY <1>1, <1>4, <2>2
<1> QED
  BY <1>1, <1>4, <1>5, <1>6

\* The walk visits exactly the blocks of the layout.
LEMMA HeadersAre ==
  ASSUME NEW m \in [Words -> Int], NEW end \in Base .. End, NEW S, Layout(m, end, S)
  PROVE  Headers(m, end) = S
<1> DEFINE walked == {a \in Words : a < end /\ Walkable(m, a)}
           next   == [a \in walked |-> {a + Total(m, a)} \cap walked]
           start  == {Base} \cap walked
           H      == Reached(start, next)
<1>1. Headers(m, end) = H
  BY DEF Headers
<1>2. S \subseteq walked
  <2>1. ASSUME NEW h \in S PROVE h \in Words /\ h < end /\ Walkable(m, h)
    BY LayoutWords
  <2> QED
    BY <2>1
<1>3. /\ start \subseteq H /\ H \subseteq walked /\ \A x \in H : next[x] \subseteq H
      /\ \A c \in SUBSET walked : start \subseteq c /\ (\A x \in c : next[x] \subseteq c) => H \subseteq c
  <2>1. IsFiniteSet(walked)
    BY WordsFinite, FS_Subset
  <2>2. next \in [walked -> SUBSET walked] /\ start \in SUBSET walked
    OBVIOUS
  <2> HIDE DEF walked, next, start
  <2> QED
    BY <2>1, <2>2, ReachedIsLeast
<1>4. end \notin walked
  <2>1. end \in Nat
    BY WordsAreNat
  <2> QED
    BY <2>1
<1>5. \A x \in S : /\ next[x] = {Past(m, x)} \cap walked
                   /\ Past(m, x) \in S \cup {end}
  BY <1>2, LayoutWords DEF Layout
<1>6. H \subseteq S
  <2>1. start \subseteq S
    BY <1>4 DEF Layout
  <2>2. \A x \in S : next[x] \subseteq S
    BY <1>4, <1>5
  <2> HIDE DEF walked, next, start, H
  <2> QED
    BY <1>2, <1>3, <2>1, <2>2
<1>7. S \subseteq H
  <2> SUFFICES ASSUME S \ H # {} PROVE FALSE
    OBVIOUS
  <2>1. S \subseteq Nat
    BY LayoutWords
  <2>2. PICK h \in S \ H : \A g \in S \ H : h <= g
    <3>1. S \ H \subseteq Nat
      BY <2>1
    <3> HIDE DEF H
    <3> QED
      BY <3>1, Least
  <2>3. h # Base
    <3>1. h \in walked
      BY <1>2, <2>2
    <3> HIDE DEF H, next
    <3> QED
      BY <1>3, <2>2, <3>1
  <2>4. PICK p \in S : p < h /\ Past(m, p) = h
    <3> HIDE DEF H
    <3> QED
      BY <2>2, <2>3, Predecessor
  <2>5. p \in H
    <3> HIDE DEF H
    <3>1. p \in Nat /\ h \in Nat /\ ~(h <= p)
      BY <2>1, <2>2, <2>4
    <3> QED
      BY <2>2, <3>1
  <2>6. h \in next[p]
    BY <1>2, <1>5, <2>2, <2>4
  <2> HIDE DEF H, next
  <2> QED
    BY <1>3, <2>2, <2>5, <2>6
<1> QED
  BY <1>1, <1>6, <1>7

\* All blocks of a layout are indexed.
LEMMA IndexIs ==
  ASSUME NEW m \in [Words -> Int], NEW end \in Base .. End, NEW S, Layout(m, end, S)
  PROVE  Index(m, end) = S
  BY HeadersAre, LayoutWords DEF Index

\* An address inside a block, or one past its end, is resolved to that block; null to none.
LEMMA ResolveIs ==
  ASSUME NEW m \in [Words -> Int], NEW end \in Base .. End, NEW S, Layout(m, end, S)
  PROVE  /\ \A h \in S, v \in Nat : Payload(h) <= v /\ v <= Past(m, h) => Resolve(m, S, v) = {h}
         /\ Resolve(m, S, Null) = {}
<1>1. ASSUME NEW h \in S, NEW v \in Nat, Payload(h) <= v, v <= Past(m, h)
      PROVE  Resolve(m, S, v) = {h}
  <2> DEFINE below == {g \in S : Payload(g) <= v}
  <2>1. h \in below /\ below \subseteq Nat
    BY <1>1, LayoutWords
  <2>2. ASSUME NEW g \in below PROVE g <= h
    <3>1. g \in S /\ g \in Nat /\ h \in Nat /\ g + HeaderSize <= v
      BY <2>1, <2>2 DEF Payload
    <3>2. h < g => Past(m, h) <= g
      BY <3>1 DEF Layout
    <3>3. Past(m, h) \in Nat
      BY <3>1, LayoutWords DEF Past, HeaderSize
    <3> QED
      BY <1>1, <3>1, <3>2, <3>3 DEF HeaderSize
  <2>3. Max(below) = h
    <3> HIDE DEF below
    <3> QED
      BY <2>1, <2>2, MaxIs
  <2>4. v <= h + Total(m, h)
    BY <1>1, LayoutWords
  <2> QED
    BY <2>1, <2>3, <2>4 DEF Resolve
<1>2. Resolve(m, S, Null) = {}
  <2>1. \A g \in S : ~(Payload(g) <= Null)
    BY LayoutWords, WordsAreNat DEF Payload, HeaderSize, Null
  <2> QED
    BY <2>1 DEF Resolve
<1> QED
  BY <1>1, <1>2

-----------------------------------------------------------------------------
(* The sweep that computes the new addresses *)

\* A function on the naturals may be defined by its first value and its steps.
Iterates(f, d, G) == f[0] = d /\ \A n \in Nat : f[n + 1] = G[n][f[n]]
LEMMA RecursionFromZero ==
  ASSUME NEW D, NEW d \in D, NEW G \in [Nat -> [D -> D]]
  PROVE  \E f \in [Nat -> D] : Iterates(f, d, G)
<1> DEFINE Seg(n, g) == /\ g \in [0 .. n -> D] /\ g[0] = d
                        /\ \A i \in 0 .. n - 1 : g[i + 1] = G[i][g[i]]
           f == [n \in Nat |-> (CHOOSE g : Seg(n, g))[n]]
<1>1. ASSUME NEW n \in Nat, NEW g, NEW h, Seg(n, g), NEW k \in Nat, Seg(k, h),
             NEW j \in Nat, j <= n, j <= k
      PROVE  g[j] = h[j]
  <2> SUFFICES ASSUME g[j] # h[j] PROVE FALSE
    OBVIOUS
  <2> DEFINE T == {i \in Nat : i <= j /\ g[i] # h[i]}
  <2>1. PICK i \in T : \A q \in T : i <= q
    <3>1. T \subseteq Nat /\ j \in T
      OBVIOUS
    <3> HIDE DEF T
    <3> QED
      BY <3>1, Least
  <2>2. i \in Nat /\ i <= j /\ g[i] # h[i] /\ i # 0
    BY <1>1, <2>1
  <2>3. i - 1 \in Nat /\ i - 1 <= j /\ i - 1 \in 0 .. n - 1 /\ i - 1 \in 0 .. k - 1 /\ i - 1 + 1 = i
    BY <1>1, <2>2
  <2>4. g[i - 1] = h[i - 1]
    BY <2>1, <2>3
  <2>5. g[i] = G[i - 1][g[i - 1]] /\ h[i] = G[i - 1][h[i - 1]]
    BY <1>1, <2>3
  <2> QED
    BY <2>2, <2>4, <2>5
<1>2. ASSUME NEW n \in Nat, NEW g, Seg(n, g) PROVE \E e : Seg(n + 1, e)
  <2> DEFINE e == [i \in 0 .. n + 1 |-> IF i = n + 1 THEN G[n][g[n]] ELSE g[i]]
  <2>1. \A i \in 0 .. n : i \in 0 .. n + 1 /\ i # n + 1 /\ g[i] \in D /\ e[i] = g[i]
    BY <1>2
  <2>2. n + 1 \in 0 .. n + 1 /\ n \in 0 .. n /\ 0 \in 0 .. n /\ e[n + 1] = G[n][g[n]]
    OBVIOUS
  <2>3. G[n][g[n]] \in D
    BY <2>1, <2>2
  <2>4. \A i \in 0 .. n + 1 : i = n + 1 \/ i \in 0 .. n
    OBVIOUS
  <2>5. \A i \in 0 .. n + 1 : e[i] \in D
    BY <2>1, <2>2, <2>3, <2>4
  <2>6. e \in [0 .. n + 1 -> D]
    BY <2>5
  <2>7. e[0] = d
    BY <1>2, <2>1, <2>2
  <2>8. ASSUME NEW i \in 0 .. n + 1 - 1 PROVE e[i + 1] = G[i][e[i]]
    <3>1. i \in 0 .. n /\ e[i] = g[i]
      BY <2>1
    <3>2. CASE i = n
      BY <2>2, <3>1, <3>2
    <3>3. CASE i # n
      <4>1. i \in 0 .. n - 1 /\ i + 1 \in 0 .. n
        BY <3>1, <3>3
      <4> QED
        BY <1>2, <2>1, <3>1, <4>1
    <3> QED
      BY <3>2, <3>3
  <2> HIDE DEF e
  <2>9. Seg(n + 1, e)
    BY <2>6, <2>7, <2>8
  <2> HIDE DEF Seg
  <2> QED
    BY <2>9
<1>3. ASSUME NEW n \in Nat PROVE \E g : Seg(n, g)
  <2> SUFFICES ASSUME ~ \E g : Seg(n, g) PROVE FALSE
    OBVIOUS
  <2> DEFINE T == {i \in Nat : ~ \E g : Seg(i, g)}
  <2>1. PICK i \in T : \A q \in T : i <= q
    <3>1. T \subseteq Nat /\ n \in T
      OBVIOUS
    <3> HIDE DEF T
    <3> QED
      BY <3>1, Least
  <2>2. Seg(0, [i0 \in 0 .. 0 |-> d])
    OBVIOUS
  <2> HIDE DEF Seg
  <2>3. i # 0
    BY <2>1, <2>2
  <2>4. i - 1 \in Nat /\ i - 1 + 1 = i /\ ~(i <= i - 1)
    BY <2>1, <2>3
  <2>5. PICK g : Seg(i - 1, g)
    BY <2>1, <2>4
  <2>6. \E e : Seg(i - 1 + 1, e)
    BY <1>2, <2>4, <2>5
  <2> QED
    BY <2>1, <2>4, <2>6
<1>4. \A n \in Nat : Seg(n, CHOOSE g : Seg(n, g))
  <2> HIDE DEF Seg
  <2> QED
    BY <1>3
<1>5. \A n \in Nat : f[n] \in D
  <2>1. \A n \in Nat : n \in 0 .. n
    OBVIOUS
  <2> QED
    BY <1>4, <2>1
<1>6. f[0] = d
  BY <1>4
<1>7. ASSUME NEW n \in Nat PROVE f[n + 1] = G[n][f[n]]
  <2> DEFINE g == CHOOSE x : Seg(n, x)
             h == CHOOSE x : Seg(n + 1, x)
  <2>1. Seg(n, g) /\ Seg(n + 1, h) /\ n + 1 \in Nat /\ n <= n + 1 /\ n <= n /\ n \in 0 .. n + 1 - 1
    <3>1. n + 1 \in Nat /\ n <= n + 1 /\ n <= n /\ n \in 0 .. n + 1 - 1
      OBVIOUS
    <3> HIDE DEF Seg
    <3> QED
      BY <1>4, <3>1
  <2>2. f[n] = g[n] /\ f[n + 1] = h[n + 1]
    BY <2>1
  <2> HIDE DEF g, h, f
  <2>3. h[n + 1] = G[n][h[n]]
    BY <2>1
  <2> HIDE DEF Seg
  <2>4. h[n] = g[n]
    BY <1>1, <2>1
  <2> QED
    BY <2>2, <2>3, <2>4
<1>8. f \in [Nat -> D] /\ Iterates(f, d, G)
  BY <1>5, <1>6, <1>7 DEF Iterates
<1> HIDE DEF f
<1> QED
  BY <1>8

\* The form of the passes: f is d up to b, and from there on takes one step per address.
Pass(f, d, G, b) ==
  /\ \A a \in Nat : a <= b => f[a] = d
  /\ \A a \in Nat : a >= b => f[a + 1] = G[a][f[a]]

\* There is such a pass for every way of taking a step.
LEMMA RecursionFrom ==
  ASSUME NEW D, NEW d \in D, NEW G \in [Nat -> [D -> D]], NEW b \in Nat
  PROVE  \E f \in [Nat -> D] : Pass(f, d, G, b)
<1> DEFINE F == [n \in Nat |-> G[n + b]]
<1>1. F \in [Nat -> [D -> D]]
  OBVIOUS
<1>2. PICK h \in [Nat -> D] : h[0] = d /\ \A n \in Nat : h[n + 1] = F[n][h[n]]
  <2> HIDE DEF F
  <2>1. \E h \in [Nat -> D] : Iterates(h, d, F)
    BY <1>1, RecursionFromZero
  <2> QED
    BY <2>1 DEF Iterates
<1> DEFINE f == [a \in Nat |-> IF a <= b THEN d ELSE h[a - b]]
<1>3. f \in [Nat -> D]
  OBVIOUS
<1>4. \A a \in Nat : a <= b => f[a] = d
  OBVIOUS
<1>5. ASSUME NEW a \in Nat, a >= b PROVE f[a + 1] = G[a][f[a]]
  <2>1. /\ a + 1 \in Nat /\ ~(a + 1 <= b) /\ a - b \in Nat
        /\ a + 1 - b = a - b + 1 /\ a - b + b = a
    BY <1>5
  <2>2. f[a + 1] = G[a][h[a - b]]
    BY <1>2, <2>1
  <2>3. h[a - b] = f[a]
    <3>1. CASE a <= b
      <4>1. a - b = 0
        BY <1>5, <3>1
      <4> QED
        BY <1>2, <3>1, <4>1
    <3>2. CASE ~(a <= b)
      BY <3>2
    <3> QED
      BY <3>1, <3>2
  <2> QED
    BY <2>2, <2>3
<1> HIDE DEF f
<1> QED
  BY <1>3, <1>4, <1>5 DEF Pass

\* c is the cursor of the sweep over the marked blocks K: Base up to the first address,
\* then one step per address.
Cursor(m, K, c) ==
  /\ c \in [Nat -> Nat]
  /\ \A a \in Nat : a <= Base => c[a] = Base
  /\ \A a \in Nat : a >= Base => c[a + 1] = IF a \in K THEN c[a] + HeaderSize + m[a] ELSE c[a]

\* The forwarding addresses are the places of such a cursor.
LEMMA ForwardingIs ==
  ASSUME NEW m \in [Words -> Int], NEW end \in Base .. End, NEW S, Layout(m, end, S),
         NEW K \in SUBSET S
  PROVE  \E c : Cursor(m, K, c) /\ Forwarding(m, S, K) = [h \in K |-> c[h]]
<1> DEFINE Is(f) == f = [a \in Nat |-> IF a <= Base THEN Base
                                       ELSE IF a - 1 \notin S \cap K THEN f[a - 1]
                                       ELSE f[a - 1] + Total(m, a - 1)]
           G == [a \in Nat |-> [v \in Nat |-> IF a \notin K THEN v ELSE v + Total(m, a)]]
           c == CHOOSE f : Is(f)
<1>1. \A x : x \in S \cap K <=> x \in K
  OBVIOUS
<1>2. Forwarding(m, S, K) = [h \in K |-> c[h]]
  BY DEF Forwarding
<1>3. \A h \in K : Total(m, h) = HeaderSize + m[h] /\ Total(m, h) \in Nat
  BY LayoutWords DEF HeaderSize
<1>4. G \in [Nat -> [Nat -> Nat]]
  BY <1>3
<1>5. PICK f \in [Nat -> Nat] : /\ \A a \in Nat : a <= Base => f[a] = Base
                                /\ \A a \in Nat : a >= Base => f[a + 1] = G[a][f[a]]
  <2>1. Base \in Nat
    BY WordsAreNat
  <2> HIDE DEF G
  <2>2. \E f \in [Nat -> Nat] : Pass(f, Base, G, Base)
    BY <1>4, <2>1, RecursionFrom
  <2> QED
    BY <2>2 DEF Pass
<1>6. Is(f)
  <2> DEFINE e == [a \in Nat |-> IF a <= Base THEN Base
                                 ELSE IF a - 1 \notin S \cap K THEN f[a - 1]
                                 ELSE f[a - 1] + Total(m, a - 1)]
  <2>1. ASSUME NEW a \in Nat PROVE f[a] = e[a]
    <3>1. CASE ~(a <= Base)
      <4>1. a - 1 \in Nat /\ f[a - 1] \in Nat /\ a - 1 >= Base /\ a - 1 + 1 = a
        BY <3>1, WordsAreNat
      <4>2. f[a] = G[a - 1][f[a - 1]]
        BY <1>5, <4>1
      <4> QED
        BY <3>1, <4>1, <4>2
    <3>2. CASE a <= Base
      BY <1>5, <3>2
    <3> QED
      BY <3>1, <3>2
  <2>2. f = [a \in Nat |-> f[a]] /\ e = [a \in Nat |-> e[a]]
    OBVIOUS
  <2>3. f = e
    <3> HIDE DEF e
    <3> QED
      BY <2>1, <2>2
  <2> QED
    BY <2>3
<1>7. Is(c)
  <2> HIDE DEF Is
  <2> QED
    BY <1>6
<1> HIDE DEF c
<1>8. \A a \in Nat : c[a] = IF a <= Base THEN Base
                            ELSE IF a - 1 \notin K THEN c[a - 1] ELSE c[a - 1] + Total(m, a - 1)
  BY <1>1, <1>7
<1>9. \A a \in Nat : c[a] \in Nat
  <2> SUFFICES ASSUME NEW x \in Nat, c[x] \notin Nat PROVE FALSE
    OBVIOUS
  <2> DEFINE T == {a \in Nat : c[a] \notin Nat}
  <2>1. PICK a \in T : \A b \in T : a <= b
    <3>1. T \subseteq Nat /\ x \in T
      OBVIOUS
    <3> HIDE DEF T
    <3> QED
      BY <3>1, Least
  <2>2. a \in Nat /\ ~(a <= Base)
    BY <1>8, <2>1, WordsAreNat
  <2>3. a - 1 \in Nat /\ ~(a <= a - 1)
    BY <2>2, WordsAreNat
  <2>4. c[a - 1] \in Nat
    BY <2>1, <2>3
  <2> QED
    BY <1>3, <1>8, <2>1, <2>2, <2>3, <2>4
<1>10. c \in [Nat -> Nat]
  <2>1. c = [a \in Nat |-> c[a]]
    BY <1>7, <1>8
  <2> QED
    BY <1>9, <2>1
<1>11. ASSUME NEW a \in Nat, a >= Base
       PROVE  c[a + 1] = IF a \in K THEN c[a] + HeaderSize + m[a] ELSE c[a]
  <2>1. a + 1 \in Nat /\ ~(a + 1 <= Base) /\ a + 1 - 1 = a
    BY <1>11, WordsAreNat
  <2>2. c[a + 1] = IF a \notin K THEN c[a] ELSE c[a] + Total(m, a)
    BY <1>8, <2>1
  <2>3. a \in K => c[a] + Total(m, a) = c[a] + HeaderSize + m[a]
    <3> SUFFICES ASSUME a \in K PROVE c[a] + Total(m, a) = c[a] + HeaderSize + m[a]
      OBVIOUS
    <3>1. m[a] \in Nat
      BY LayoutWords
    <3> QED
      BY <1>3, <1>9, <3>1 DEF HeaderSize
  <2> QED
    BY <2>2, <2>3
<1>12. Cursor(m, K, c)
  BY <1>8, <1>10, <1>11 DEF Cursor
<1> QED
  BY <1>2, <1>12

\* The cursor never overtakes the sweep, never goes back, and stands still where there
\* is nothing to keep.
Steady(end, S, K, c) ==
  /\ \A a \in Nat : Base <= c[a] /\ c[a] <= end /\ \A h \in S : a <= h => c[a] <= h
  /\ \A a, b \in Nat : a <= b => c[a] <= c[b]
  /\ \A a, b \in Nat : Base <= a /\ a <= b /\ (\A k \in K : ~(a <= k /\ k < b)) => c[a] = c[b]

\* So is the cursor of every layout.
LEMMA CursorFacts ==
  ASSUME NEW m \in [Words -> Int], NEW end \in Base .. End, NEW S, Layout(m, end, S),
         NEW K \in SUBSET S, NEW c, Cursor(m, K, c)
  PROVE  Steady(end, S, K, c)
<1>1. Base \in Nat /\ end \in Nat /\ Base <= end
  BY WordsAreNat
<1>2. \A h \in S : h \in Nat /\ Base <= h /\ m[h] \in Nat /\ Past(m, h) = h + HeaderSize + m[h] /\ Past(m, h) <= end
  BY LayoutWords DEF Past
<1>3. \A g, h \in S : g < h => Past(m, g) <= h
  BY DEF Layout
<1>4. /\ c \in [Nat -> Nat]
      /\ \A a \in Nat : a <= Base => c[a] = Base
      /\ \A a \in Nat : a >= Base => c[a + 1] = IF a \in K THEN c[a] + HeaderSize + m[a] ELSE c[a]
  BY DEF Cursor
<1>5. \A a \in Nat : c[a] \in Nat
  BY <1>4
<1>6. ASSUME NEW x \in Nat
      PROVE  Base <= c[x] /\ c[x] <= end /\ \A h \in S : x <= h => c[x] <= h
  <2> DEFINE Good(a) == Base <= c[a] /\ c[a] <= end /\ \A h \in S : a <= h => c[a] <= h
             T       == {a \in Nat : ~Good(a)}
  <2> SUFFICES ASSUME ~Good(x) PROVE FALSE
    OBVIOUS
  <2>1. PICK a \in T : \A b \in T : a <= b
    <3>1. T \subseteq Nat /\ x \in T
      OBVIOUS
    <3> HIDE DEF T
    <3> QED
      BY <3>1, Least
  <2>2. ~(a <= Base)
    BY <1>1, <1>2, <1>4, <2>1
  <2>3. a \in Nat /\ a - 1 \in Nat /\ a - 1 >= Base /\ a - 1 + 1 = a /\ ~(a <= a - 1)
    BY <1>1, <2>1, <2>2
  <2>4. Good(a - 1)
    BY <2>1, <2>3
  <2>5. c[a] = IF a - 1 \in K THEN c[a - 1] + HeaderSize + m[a - 1] ELSE c[a - 1]
    BY <1>4, <2>3
  <2>6. CASE a - 1 \notin K
    <3>1. \A h \in S : a <= h => a - 1 <= h
      BY <1>2, <2>3
    <3>2. Good(a)
      BY <2>4, <2>5, <2>6, <3>1
    <3> QED
      BY <2>1, <3>2
  <2>7. CASE a - 1 \in K
    <3>1. /\ c[a - 1] <= a - 1 /\ c[a - 1] \in Nat /\ m[a - 1] \in Nat
          /\ Past(m, a - 1) = a - 1 + HeaderSize + m[a - 1]
      BY <1>2, <1>5, <2>3, <2>4, <2>7
    <3>2. c[a] <= Past(m, a - 1) /\ c[a] >= c[a - 1] /\ Past(m, a - 1) \in Nat /\ c[a] \in Nat
      BY <2>3, <2>5, <2>7, <3>1, <1>5 DEF HeaderSize
    <3>3. c[a] <= end
      BY <1>1, <1>2, <2>7, <3>2
    <3>4. ASSUME NEW h \in S, a <= h PROVE c[a] <= h
      <4>1. h \in Nat /\ a - 1 < h
        BY <1>2, <2>3, <3>4
      <4>2. Past(m, a - 1) <= h
        BY <1>3, <2>7, <4>1
      <4> QED
        BY <3>2, <4>1, <4>2
    <3>5. Base <= c[a]
      BY <1>1, <2>4, <3>1, <3>2
    <3> QED
      BY <2>1, <3>3, <3>4, <3>5
  <2> QED
    BY <2>6, <2>7
<1>7. ASSUME NEW x \in Nat PROVE c[x] <= c[x + 1]
  <2>1. CASE x >= Base
    <3>1. x \in K => m[x] \in Nat
      BY <1>2
    <3> QED
      BY <1>4, <1>5, <2>1, <3>1 DEF HeaderSize
  <2>2. CASE ~(x >= Base)
    <3>1. x <= Base /\ x + 1 <= Base /\ x + 1 \in Nat
      BY <1>1, <2>2
    <3> QED
      BY <1>1, <1>4, <3>1
  <2> QED
    BY <2>1, <2>2
<1>8. ASSUME NEW a \in Nat, NEW b \in Nat, a <= b PROVE c[a] <= c[b]
  <2> SUFFICES ASSUME ~(c[a] <= c[b]) PROVE FALSE
    OBVIOUS
  <2> DEFINE T == {x \in Nat : a <= x /\ ~(c[a] <= c[x])}
  <2>1. PICK x \in T : \A y \in T : x <= y
    <3>1. T \subseteq Nat /\ b \in T
      BY <1>8
    <3> HIDE DEF T
    <3> QED
      BY <3>1, Least
  <2>2. x \in Nat /\ a <= x /\ x # a
    BY <1>5, <2>1
  <2>3. x - 1 \in Nat /\ a <= x - 1 /\ x - 1 + 1 = x /\ ~(x <= x - 1)
    BY <2>2
  <2>4. c[a] <= c[x - 1] /\ c[x - 1] <= c[x]
    BY <1>7, <2>1, <2>3
  <2>5. c[a] \in Nat /\ c[x] \in Nat /\ c[x - 1] \in Nat
    BY <1>5, <2>2, <2>3
  <2> QED
    BY <2>1, <2>4, <2>5
<1>9. ASSUME NEW a \in Nat, NEW b \in Nat, Base <= a, a <= b, \A k \in K : ~(a <= k /\ k < b)
      PROVE  c[a] = c[b]
  <2> SUFFICES ASSUME c[a] # c[b] PROVE FALSE
    OBVIOUS
  <2> DEFINE T == {x \in Nat : a <= x /\ x <= b /\ c[a] # c[x]}
  <2>1. PICK x \in T : \A y \in T : x <= y
    <3>1. T \subseteq Nat /\ b \in T
      BY <1>9
    <3> HIDE DEF T
    <3> QED
      BY <3>1, Least
  <2>2. x \in Nat /\ a <= x /\ x # a /\ x <= b
    BY <2>1
  <2>3. /\ x - 1 \in Nat /\ a <= x - 1 /\ x - 1 <= b /\ x - 1 + 1 = x /\ ~(x <= x - 1)
        /\ x - 1 < b /\ x - 1 >= Base
    BY <1>1, <1>9, <2>2
  <2>4. c[a] = c[x - 1]
    BY <2>1, <2>3
  <2>5. x - 1 \notin K
    BY <1>9, <2>3
  <2>6. c[x] = c[x - 1]
    BY <1>4, <2>3, <2>5
  <2> QED
    BY <2>1, <2>4, <2>6
<1> QED
  BY <1>6, <1>8, <1>9 DEF Steady

\* The blocks K are forwarded to a gapless row from Base to nt, in their order, each
\* downwards or nowhere.
Packs(m, end, K, to, nt) ==
  /\ DOMAIN to = K
  /\ nt \in Nat /\ Base <= nt /\ nt <= end
  /\ \A h \in K : /\ to[h] \in Nat /\ Base <= to[h] /\ to[h] <= h
                  /\ to[h] + HeaderSize + m[h] <= nt
                  /\ to[h] + HeaderSize + m[h] \in {to[g] : g \in K} \cup {nt}
  /\ Base \in {to[g] : g \in K} \cup {nt}
  /\ \A g, h \in K : g < h => to[g] + HeaderSize + m[g] <= to[h]

\* nt is where the cursor over the blocks K ends.
Ends(m, K, end, nt) == \E c : Cursor(m, K, c) /\ nt = c[end]

\* The blocks kept are forwarded so, and the new top is the end of the row.
LEMMA ForwardingPacks ==
  ASSUME NEW m \in [Words -> Int], NEW end \in Base .. End, NEW S, Layout(m, end, S),
         NEW K \in SUBSET S, NEW to, to = Forwarding(m, S, K)
  PROVE  Packs(m, end, K, to, NewTop(m, to)) /\ Ends(m, K, end, NewTop(m, to))
<1>1. PICK c : Cursor(m, K, c) /\ to = [h \in K |-> c[h]]
  BY ForwardingIs
<1>2. Base \in Nat /\ end \in Nat /\ Base <= end /\ End \in Nat /\ end <= End
  BY WordsAreNat
<1>3. \A h \in K : h \in Nat /\ Base <= h /\ h < end /\ m[h] \in Nat /\ h \in S
  BY LayoutWords
<1>4. \A a \in Nat : c[a] \in Nat
  BY <1>1 DEF Cursor
<1>5. /\ \A a \in Nat : Base <= c[a] /\ c[a] <= end /\ \A h \in S : a <= h => c[a] <= h
      /\ \A a, b \in Nat : a <= b => c[a] <= c[b]
      /\ \A a, b \in Nat : Base <= a /\ a <= b /\ (\A k \in K : ~(a <= k /\ k < b)) => c[a] = c[b]
  <2>1. Steady(end, S, K, c)
    BY <1>1, CursorFacts
  <2> QED
    BY <2>1 DEF Steady
<1>6. \A h \in K : /\ to[h] = c[h] /\ c[h] + HeaderSize + m[h] = c[h + 1]
                   /\ h + 1 \in Nat /\ h + 1 <= end
  <2> SUFFICES ASSUME NEW h \in K
               PROVE  /\ to[h] = c[h] /\ c[h] + HeaderSize + m[h] = c[h + 1]
                      /\ h + 1 \in Nat /\ h + 1 <= end
    OBVIOUS
  <2>1. c[h + 1] = c[h] + HeaderSize + m[h]
    BY <1>1, <1>3 DEF Cursor
  <2> QED
    BY <1>1, <1>2, <1>3, <2>1
<1>7. ASSUME NEW a \in Nat, Base <= a, a <= end
      PROVE  c[a] \in {to[g] : g \in K} \cup {c[end]}
  <2> DEFINE T == {k \in K : a <= k}
  <2>1. CASE T = {}
    <3>1. \A k \in K : ~(a <= k /\ k < end)
      BY <2>1
    <3> QED
      BY <1>2, <1>5, <1>7, <3>1
  <2>2. CASE T # {}
    <3>1. PICK g \in T : \A k \in T : g <= k
      <4>1. T \subseteq Nat
        BY <1>3
      <4> HIDE DEF T
      <4> QED
        BY <2>2, <4>1, Least
    <3>2. g \in K /\ a <= g /\ g \in Nat
      BY <1>3, <3>1
    <3>3. ASSUME NEW k \in K PROVE ~(a <= k /\ k < g)
      BY <1>3, <3>1, <3>2
    <3>4. c[a] = c[g]
      BY <1>5, <1>7, <3>2, <3>3
    <3> QED
      BY <1>6, <3>2, <3>4
  <2> QED
    BY <2>1, <2>2
<1>8. ASSUME NEW h \in K
      PROVE  /\ to[h] \in Nat /\ Base <= to[h] /\ to[h] <= h
             /\ to[h] + HeaderSize + m[h] \in Nat /\ to[h] + HeaderSize + m[h] <= c[end]
             /\ to[h] + HeaderSize + m[h] \in {to[g] : g \in K} \cup {c[end]}
  <2>1. to[h] = c[h] /\ c[h] \in Nat /\ Base <= c[h] /\ h \in Nat
    BY <1>3, <1>4, <1>5, <1>6
  <2>2. c[h] <= h
    <3>1. h <= h /\ h \in S
      BY <1>3
    <3> QED
      BY <1>5, <2>1, <3>1
  <2>3. h + 1 \in Nat /\ Base <= h + 1 /\ h + 1 <= end /\ to[h] + HeaderSize + m[h] = c[h + 1]
    BY <1>2, <1>3, <1>6
  <2>4. c[h + 1] \in Nat /\ c[h + 1] <= c[end]
    BY <1>2, <1>4, <1>5, <2>3
  <2>5. c[h + 1] \in {to[g] : g \in K} \cup {c[end]}
    BY <1>7, <2>3
  <2> QED
    BY <2>1, <2>2, <2>3, <2>4, <2>5
<1>9. ASSUME NEW g \in K, NEW h \in K, g < h PROVE to[g] + HeaderSize + m[g] <= to[h]
  <2>1. g + 1 \in Nat /\ g + 1 <= h /\ h \in Nat
    BY <1>3, <1>9
  <2> QED
    BY <1>5, <1>6, <2>1
<1>10. NewTop(m, to) = c[end]
  <2> DEFINE ends == {Base} \cup {to[h] + Total(m, h) : h \in DOMAIN to}
  <2>1. \A h \in K : Total(m, h) = HeaderSize + m[h] /\ to[h] + Total(m, h) = to[h] + HeaderSize + m[h]
    <3> SUFFICES ASSUME NEW h \in K
                 PROVE  Total(m, h) = HeaderSize + m[h] /\ to[h] + Total(m, h) = to[h] + HeaderSize + m[h]
      OBVIOUS
    <3>1. Total(m, h) = HeaderSize + m[h]
      BY LayoutWords
    <3> QED
      BY <1>3, <1>8, <3>1 DEF HeaderSize
  <2>2. DOMAIN to = K
    BY <1>1
  <2>3. ends \subseteq Nat /\ \A e \in ends : e <= c[end]
    BY <1>2, <1>5, <1>8, <2>1, <2>2
  <2>4. c[end] \in ends
    <3>1. CASE K = {}
      <4>1. c[Base] = Base /\ c[Base] = c[end]
        <5>1. c[Base] = Base
          BY <1>1, <1>2 DEF Cursor
        <5>2. Base <= Base /\ \A k \in K : ~(Base <= k /\ k < end)
          BY <1>2, <3>1
        <5> QED
          BY <1>2, <1>5, <5>1, <5>2
      <4> QED
        BY <4>1
    <3>2. CASE K # {}
      <4>1. PICK g \in K : \A k \in K : k <= g
        <5>1. K \subseteq Nat /\ \A k \in K : k <= end
          BY <1>2, <1>3
        <5> QED
          BY <1>2, <3>2, <5>1, Greatest
      <4>2. g \in Nat /\ g + 1 \in Nat /\ Base <= g + 1 /\ g + 1 <= end
        BY <1>2, <1>3
      <4>3. ASSUME NEW k \in K PROVE ~(g + 1 <= k /\ k < end)
        BY <1>3, <4>1, <4>2
      <4>4. c[g + 1] = c[end]
        BY <1>2, <1>5, <4>2, <4>3
      <4>5. to[g] + Total(m, g) = c[end]
        BY <1>6, <2>1, <4>4
      <4> QED
        BY <2>2, <4>5
    <3> QED
      BY <3>1, <3>2
  <2>5. Max(ends) = c[end]
    <3> HIDE DEF ends
    <3> QED
      BY <2>3, <2>4, MaxIs
  <2> QED
    BY <2>5 DEF NewTop
<1>11. Base \in {to[g] : g \in K} \cup {c[end]}
  <2>1. c[Base] = Base /\ Base <= Base
    BY <1>1, <1>2 DEF Cursor
  <2>2. c[Base] \in {to[g] : g \in K} \cup {c[end]}
    BY <1>2, <1>7, <2>1
  <2> QED
    BY <2>1, <2>2
<1>12. DOMAIN to = K /\ c[end] \in Nat /\ Base <= c[end] /\ c[end] <= end
  BY <1>1, <1>2, <1>4, <1>5
<1>13. Ends(m, K, end, NewTop(m, to))
  BY <1>1, <1>10 DEF Ends
<1> QED
  BY <1>8, <1>9, <1>10, <1>11, <1>12, <1>13 DEF Packs

-----------------------------------------------------------------------------
(* The slide *)

\* new is w with the n words at src written to dst, the second of them cleared.
IsCopy(w, new, src, dst, n) ==
  /\ new \in [Words -> Int]
  /\ \A x \in Words : x < dst \/ dst + n <= x => new[x] = w[x]
  /\ \A i \in 0 .. n - 1 : new[dst + i] = IF i = 1 THEN 0 ELSE w[src + i]

\* A copy writes the words of its destination and no others.
LEMMA CopiedIs ==
  ASSUME NEW w \in [Words -> Int], NEW src \in Nat, NEW dst \in Nat, NEW n \in Nat,
         Base <= dst, dst <= src, src + n <= End
  PROVE  IsCopy(w, Copied(w, src, dst, n), src, dst, n)
<1> DEFINE new == Copied(w, src, dst, n)
<1>1. \A a : Word(w, a) \in Int
  BY DEF Word
<1>2. new = [a \in Words |-> IF a \notin dst .. dst + n - 1 THEN w[a]
                             ELSE IF a = dst + 1 THEN 0 ELSE Word(w, a - dst + src)]
  BY DEF Copied
<1>3. new \in [Words -> Int]
  BY <1>1, <1>2
<1>4. ASSUME NEW x \in Words, x < dst \/ dst + n <= x PROVE new[x] = w[x]
  <2>1. x \in Nat
    BY WordsAreNat
  <2>2. x \notin dst .. dst + n - 1
    BY <1>4, <2>1
  <2> QED
    BY <1>2, <2>2
<1>5. ASSUME NEW i \in 0 .. n - 1 PROVE new[dst + i] = IF i = 1 THEN 0 ELSE w[src + i]
  <2>1. Base \in Nat /\ End \in Nat
    BY WordsAreNat
  <2>2. dst + i \in Nat /\ Base <= dst + i /\ dst + i < End /\ src + i \in Nat /\ Base <= src + i /\ src + i < End
    BY <2>1
  <2>3. dst + i \in Words /\ src + i \in Words
    BY <2>2, WordsAreNat
  <2>4. dst + i \in dst .. dst + n - 1 /\ (dst + i) - dst + src = src + i /\ (dst + i = dst + 1 <=> i = 1)
    OBVIOUS
  <2>5. Word(w, src + i) = w[src + i]
    BY <2>3 DEF Word
  <2> QED
    BY <1>2, <2>3, <2>4, <2>5
<1> HIDE DEF new
<1>6. IsCopy(w, new, src, dst, n)
  BY <1>3, <1>4, <1>5 DEF IsCopy
<1> QED
  BY <1>6 DEF new

\* In w every block of K, as it is in u, is where it is forwarded to, its forward word clean.
Arrived(m, K, to, u, w) ==
  /\ w \in [Words -> Int]
  /\ \A h \in K : \A i \in 0 .. HeaderSize + m[h] - 1 : w[to[h] + i] = IF i = 1 THEN 0 ELSE u[h + i]

\* Moving the blocks kept, one after another and each onto words that may belong to
\* blocks moved before, loses nothing: every block arrives whole, with a clean forward
\* word, because the sweep's cursor is never above the block being copied.
LEMMA MovedWhole ==
  ASSUME NEW m \in [Words -> Int], NEW end \in Base .. End, NEW S, Layout(m, end, S),
         NEW K \in SUBSET S, NEW u \in [Words -> Int], \A h \in K : u[h] = m[h],
         NEW to, to = Forwarding(m, S, K)
  PROVE  Arrived(m, K, to, u, Moved(u, to))
<1>1. PICK c : Cursor(m, K, c) /\ to = [h \in K |-> c[h]]
  BY ForwardingIs
<1>2. Base \in Nat /\ end \in Nat /\ Base <= end /\ End \in Nat /\ end <= End
  BY WordsAreNat
<1>3. \A h \in K : /\ h \in Nat /\ Base <= h /\ m[h] \in Nat /\ h \in S /\ h \in Words
                   /\ h + HeaderSize + m[h] <= end /\ to[h] = c[h] /\ u[h] = m[h]
  BY <1>1, LayoutWords DEF Past
<1>4. /\ \A a \in Nat : c[a] \in Nat
      /\ \A a \in Nat : a <= Base => c[a] = Base
      /\ \A a \in Nat : a >= Base => c[a + 1] = IF a \in K THEN c[a] + HeaderSize + m[a] ELSE c[a]
  BY <1>1 DEF Cursor
<1>5. /\ \A a \in Nat : Base <= c[a] /\ c[a] <= end /\ \A h \in S : a <= h => c[a] <= h
      /\ \A a, b \in Nat : a <= b => c[a] <= c[b]
      /\ \A a, b \in Nat : Base <= a /\ a <= b /\ (\A k \in K : ~(a <= k /\ k < b)) => c[a] = c[b]
  <2>1. Steady(end, S, K, c)
    BY <1>1, CursorFacts
  <2> QED
    BY <2>1 DEF Steady
<1> DEFINE W     == [Words -> Int]
           size(h) == Total(u, h)
           Is(f) == f = [a \in Nat |-> IF a <= Base THEN u
                                       ELSE IF a - 1 \notin DOMAIN to THEN f[a - 1]
                                       ELSE Copied(f[a - 1], a - 1, to[a - 1], size(a - 1))]
           G     == [a \in Nat |-> [w \in W |-> IF a \notin K THEN w ELSE Copied(w, a, to[a], size(a))]]
           s     == CHOOSE f : Is(f)
<1>6. DOMAIN to = K /\ Moved(u, to) = s[End]
  BY <1>1 DEF Moved
<1>7. \A h \in K : size(h) = HeaderSize + m[h] /\ size(h) \in Nat
  BY <1>3 DEF Total, SizeAt, Word, HeaderSize
<1>8. ASSUME NEW h \in K, NEW w \in W
      PROVE  /\ Copied(w, h, to[h], size(h)) \in W
             /\ \A x \in Words : x < c[h] \/ c[h + 1] <= x => Copied(w, h, to[h], size(h))[x] = w[x]
             /\ \A i \in 0 .. HeaderSize + m[h] - 1 :
                  Copied(w, h, to[h], size(h))[c[h] + i] = IF i = 1 THEN 0 ELSE w[h + i]
  <2>1. /\ h \in Nat /\ h >= Base /\ to[h] = c[h] /\ c[h] \in Nat /\ Base <= c[h]
        /\ size(h) = HeaderSize + m[h] /\ size(h) \in Nat /\ m[h] \in Nat
    BY <1>3, <1>4, <1>5, <1>7
  <2>2. c[h] <= h
    <3>1. h \in S /\ h <= h
      BY <1>3
    <3> QED
      BY <1>5, <2>1, <3>1
  <2>3. h + size(h) <= End /\ c[h] + size(h) = c[h + 1]
    <3>1. h + HeaderSize + m[h] <= end /\ c[h + 1] = c[h] + HeaderSize + m[h]
      BY <1>3, <1>4, <2>1
    <3> QED
      BY <1>2, <2>1, <3>1 DEF HeaderSize
  <2> HIDE DEF size
  <2> DEFINE new == Copied(w, h, c[h], size(h))
  <2>4. IsCopy(w, new, h, c[h], size(h))
    <3>1. w \in [Words -> Int]
      OBVIOUS
    <3> HIDE DEF W
    <3> QED
      BY <2>1, <2>2, <2>3, <3>1, CopiedIs
  <2>5. new = Copied(w, h, to[h], size(h))
    BY <2>1
  <2> HIDE DEF new
  <2>6. /\ new \in W
        /\ \A x \in Words : x < c[h] \/ c[h] + size(h) <= x => new[x] = w[x]
        /\ \A i \in 0 .. size(h) - 1 : new[c[h] + i] = IF i = 1 THEN 0 ELSE w[h + i]
    BY <2>4 DEF IsCopy
  <2>7. \A i : i \in 0 .. HeaderSize + m[h] - 1 <=> i \in 0 .. size(h) - 1
    BY <2>1 DEF HeaderSize
  <2> QED
    BY <2>3, <2>5, <2>6, <2>7
<1> HIDE DEF size
<1>9. G \in [Nat -> [W -> W]]
  BY <1>8
<1>10. PICK f \in [Nat -> W] : /\ \A a \in Nat : a <= Base => f[a] = u
                               /\ \A a \in Nat : a >= Base => f[a + 1] = G[a][f[a]]
  <2> HIDE DEF G, W
  <2>1. u \in W
    BY DEF W
  <2>2. \E f \in [Nat -> W] : Pass(f, u, G, Base)
    BY <1>2, <1>9, <2>1, RecursionFrom
  <2> QED
    BY <2>2 DEF Pass
<1>11. Is(f)
  <2> DEFINE e == [a \in Nat |-> IF a <= Base THEN u
                                 ELSE IF a - 1 \notin DOMAIN to THEN f[a - 1]
                                 ELSE Copied(f[a - 1], a - 1, to[a - 1], size(a - 1))]
  <2>1. ASSUME NEW a \in Nat PROVE f[a] = e[a]
    <3>1. CASE ~(a <= Base)
      <4>1. a - 1 \in Nat /\ a - 1 >= Base /\ a - 1 + 1 = a
        BY <1>2, <3>1
      <4>2. f[a] = G[a - 1][f[a - 1]] /\ f[a - 1] \in W
        BY <1>10, <4>1
      <4> HIDE DEF W
      <4> QED
        BY <1>6, <3>1, <4>1, <4>2
    <3>2. CASE a <= Base
      BY <1>10, <3>2
    <3> QED
      BY <3>1, <3>2
  <2>2. f = [a \in Nat |-> f[a]] /\ e = [a \in Nat |-> e[a]]
    OBVIOUS
  <2>3. f = e
    <3> HIDE DEF e
    <3> QED
      BY <2>1, <2>2
  <2> QED
    BY <2>3
<1>12. Is(s)
  <2> HIDE DEF Is
  <2> QED
    BY <1>11
<1> HIDE DEF s
<1>13. \A a \in Nat : s[a] = IF a <= Base THEN u
                             ELSE IF a - 1 \notin K THEN s[a - 1]
                             ELSE Copied(s[a - 1], a - 1, to[a - 1], size(a - 1))
  BY <1>6, <1>12
<1> DEFINE Good(a) == /\ s[a] \in W
                      /\ \A x \in Words : c[a] <= x => s[a][x] = u[x]
                      /\ \A h \in K : h < a =>
                           \A i \in 0 .. HeaderSize + m[h] - 1 :
                             s[a][c[h] + i] = IF i = 1 THEN 0 ELSE u[h + i]
<1>14. ASSUME NEW y \in Nat PROVE Good(y)
  <2> DEFINE T == {a \in Nat : ~Good(a)}
  <2> SUFFICES ASSUME ~Good(y) PROVE FALSE
    OBVIOUS
  <2>1. PICK a \in T : \A b \in T : a <= b
    <3>1. T \subseteq Nat /\ y \in T
      OBVIOUS
    <3> HIDE DEF T
    <3> QED
      BY <3>1, Least
  <2>2. ~(a <= Base)
    <3> SUFFICES ASSUME a <= Base PROVE Good(a)
      BY <2>1
    <3>1. s[a] = u /\ a \in Nat
      BY <1>13, <2>1
    <3>2. \A h \in K : ~(h < a)
      BY <1>2, <1>3, <3>1
    <3> QED
      BY <3>1, <3>2
  <2>3. a \in Nat /\ a - 1 \in Nat /\ a - 1 >= Base /\ a - 1 + 1 = a /\ ~(a <= a - 1)
    BY <1>2, <2>1, <2>2
  <2>4. Good(a - 1)
    BY <2>1, <2>3
  <2>5. c[a - 1] <= c[a] /\ c[a - 1] \in Nat /\ c[a] \in Nat
    <3>1. a - 1 <= a
      BY <2>3
    <3> QED
      BY <1>4, <1>5, <2>3, <3>1
  <2>6. CASE a - 1 \notin K
    <3>1. s[a] = s[a - 1]
      BY <1>13, <2>2, <2>3, <2>6
    <3>2. ASSUME NEW h \in K, h < a PROVE h < a - 1
      <4>1. h \in Nat /\ h # a - 1
        BY <1>3, <2>6
      <4> QED
        BY <2>3, <3>2, <4>1
    <3>3. \A x \in Words : c[a] <= x => c[a - 1] <= x
      BY <2>5, WordsAreNat
    <3> QED
      BY <2>1, <2>4, <3>1, <3>2, <3>3
  <2>7. CASE a - 1 \in K
    <3> DEFINE h == a - 1
    <3>1. h \in K /\ h \in Nat /\ h + 1 = a /\ s[h] \in W /\ h >= Base
      BY <2>3, <2>4, <2>7
    <3>2. s[a] = Copied(s[h], h, to[h], size(h))
      BY <1>13, <2>2, <2>3, <2>7
    <3> HIDE DEF h
    <3>3. /\ s[a] \in W
          /\ \A x \in Words : x < c[h] \/ c[a] <= x => s[a][x] = s[h][x]
          /\ \A i \in 0 .. HeaderSize + m[h] - 1 :
               s[a][c[h] + i] = IF i = 1 THEN 0 ELSE s[h][h + i]
      BY <1>8, <3>1, <3>2
    <3>4. /\ \A x \in Words : c[h] <= x => s[h][x] = u[x]
          /\ \A g \in K : g < h => \A i \in 0 .. HeaderSize + m[g] - 1 :
               s[h][c[g] + i] = IF i = 1 THEN 0 ELSE u[g + i]
          /\ c[h] <= c[a] /\ c[h] \in Nat /\ c[a] \in Nat /\ Base <= c[h]
      BY <1>5, <2>3, <2>4, <2>5 DEF h
    <3>5. ASSUME NEW x \in Words, c[a] <= x PROVE s[a][x] = u[x]
      <4>1. c[h] <= x
        BY <3>4, <3>5, WordsAreNat
      <4> QED
        BY <3>3, <3>4, <3>5, <4>1
    <3>6. ASSUME NEW g \in K, g < a, NEW i \in 0 .. HeaderSize + m[g] - 1
          PROVE  s[a][c[g] + i] = IF i = 1 THEN 0 ELSE u[g + i]
      <4>1. /\ g \in Nat /\ m[g] \in Nat /\ i \in Nat /\ i < HeaderSize + m[g] /\ c[g] \in Nat /\ Base <= c[g]
            /\ g + HeaderSize + m[g] <= end /\ Base <= g
        BY <1>3, <1>4, <1>5 DEF HeaderSize
      <4>2. CASE g = h
        <5>1. c[h] <= h
          <6>1. h \in S /\ h <= h
            BY <1>3, <3>1
          <6> QED
            BY <1>5, <3>1, <6>1
        <5>2. h + i \in Words /\ c[h] <= h + i
          <6>1. h + i \in Nat /\ Base <= h + i /\ h + i < End /\ c[h] <= h + i
            BY <1>2, <3>1, <3>4, <4>1, <4>2, <5>1 DEF HeaderSize
          <6> QED
            BY <6>1, WordsAreNat
        <5> QED
          BY <3>3, <3>4, <4>2, <5>2
      <4>3. CASE g # h
        <5>1. g < h /\ g + 1 <= h /\ g + 1 \in Nat
          <6>1. g < h + 1 /\ g \in Nat /\ h \in Nat
            BY <3>1, <3>6, <4>1
          <6>2. g < h
            BY <4>3, <6>1
          <6> QED
            BY <6>1, <6>2
        <5>2. c[g + 1] = c[g] + HeaderSize + m[g] /\ c[g + 1] <= c[h] /\ c[g + 1] \in Nat
          BY <1>4, <1>5, <3>1, <4>1, <5>1
        <5>3. c[g] + i < c[h] /\ c[g] + i \in Nat
          BY <3>4, <4>1, <5>2 DEF HeaderSize
        <5>4. c[g] + i \in Words
          <6>1. Base <= c[g] + i /\ c[h] <= h /\ h < End
            <7>1. h \in S /\ h <= h /\ h \in Words
              BY <1>3, <3>1
            <7>2. c[h] <= h /\ h < End
              BY <1>5, <3>1, <7>1, WordsAreNat
            <7> QED
              BY <1>2, <4>1, <7>2
          <6>2. c[g] + i < End
            BY <1>2, <3>1, <3>4, <5>3, <6>1
          <6> QED
            BY <5>3, <6>1, <6>2, WordsAreNat
        <5> QED
          BY <3>3, <3>4, <5>1, <5>3, <5>4
      <4> QED
        BY <4>2, <4>3
    <3>7. Good(a)
      BY <3>3, <3>5, <3>6
    <3> QED
      BY <2>1, <3>7
  <2> QED
    BY <2>6, <2>7
<1>15. ASSUME NEW h \in K PROVE h < End
  BY <1>2, <1>3, WordsAreNat
<1>16. /\ Moved(u, to) \in [Words -> Int]
       /\ \A h \in K : \A i \in 0 .. HeaderSize + m[h] - 1 :
            Moved(u, to)[to[h] + i] = IF i = 1 THEN 0 ELSE u[h + i]
  BY <1>2, <1>3, <1>6, <1>14, <1>15
<1> QED
  BY <1>16 DEF Arrived

-----------------------------------------------------------------------------
(* The heap with its gaps filled *)

\* AllFilled fills the gaps of the attached threads' buffers.
LEMMA AllFilledIs ==
  /\ AllFilled = FillOf(mem, tlab, attached)
  /\ AllFilled' = FillOf(mem', tlab', attached')
  BY DEF AllFilled, FillOf

\* Filling the gaps writes one atomic object over each and nothing else.
LEMMA FillOfIs ==
  ASSUME NEW m \in [Words -> Int], NEW end \in Base .. End, NEW bs, Gaps(bs, end),
         NEW ts \in SUBSET Mutators, \A t \in Mutators : t \notin ts => bs[t] = NoTlab
  PROVE  IsFill(m, bs, FillOf(m, bs, ts))
<1> DEFINE open == {t \in ts : bs[t][1] < bs[t][2]}
           within(t, a) == bs[t][1] <= a /\ a < bs[t][2]
           F == FillOf(m, bs, ts)
<1>1. /\ \A t \in Mutators : /\ bs[t][1] \in Nat /\ bs[t][2] \in Nat
                             /\ bs[t] # NoTlab => Base <= bs[t][1] /\ bs[t][2] <= end
                             /\ OpenIn(bs, t) => bs[t][1] + HeaderSize <= bs[t][2]
      /\ \A t, u \in Mutators : t # u /\ OpenIn(bs, t) /\ OpenIn(bs, u) =>
           bs[t][2] <= bs[u][1] \/ bs[u][2] <= bs[t][1]
  BY DEF Gaps
<1>2. \A t \in Mutators : OpenIn(bs, t) <=> t \in open
  <2>1. \A t \in Mutators : t \notin ts => ~OpenIn(bs, t)
    BY DEF OpenIn, NoTlab, Null
  <2> QED
    BY <2>1 DEF OpenIn
<1>3. open \subseteq Mutators
  OBVIOUS
<1>4. F = [a \in Words |-> IF \E t \in open : within(t, a)
                           THEN FilledWord(m, bs[CHOOSE t \in open : within(t, a)], a)
                           ELSE m[a]]
  <2>1. CASE open = {}
    <3>1. F = m
      BY <2>1 DEF FillOf
    <3>2. m = [a \in Words |-> m[a]]
      OBVIOUS
    <3> QED
      BY <2>1, <3>1, <3>2
  <2>2. CASE open # {}
    BY <2>2 DEF FillOf
  <2> QED
    BY <2>1, <2>2
<1> HIDE DEF F, open
<1>5. ASSUME NEW t \in Mutators, OpenIn(bs, t), NEW a \in Words, within(t, a)
      PROVE  F[a] = FilledWord(m, bs[t], a)
  <2> DEFINE v == CHOOSE u \in open : within(u, a)
  <2>1. t \in open /\ (\E u \in open : within(u, a)) /\ v \in open /\ within(v, a)
    BY <1>2, <1>5
  <2> HIDE DEF v
  <2>2. v \in Mutators /\ OpenIn(bs, v)
    BY <1>2, <1>3, <2>1
  <2>3. v = t
    <3> SUFFICES ASSUME v # t PROVE FALSE
      OBVIOUS
    <3>1. bs[t][2] <= bs[v][1] \/ bs[v][2] <= bs[t][1]
      BY <1>1, <1>5, <2>2
    <3>2. a \in Nat
      BY WordsAreNat
    <3> QED
      BY <1>1, <1>5, <2>1, <2>2, <3>1, <3>2
  <2>4. F[a] = FilledWord(m, bs[v], a)
    BY <1>4, <2>1 DEF v
  <2> QED
    BY <2>3, <2>4
<1>6. ASSUME NEW a \in Words, \A t \in Mutators : OpenIn(bs, t) => ~within(t, a)
      PROVE  F[a] = m[a]
  <2>1. ~ \E t \in open : within(t, a)
    BY <1>2, <1>3, <1>6
  <2> QED
    BY <1>4, <2>1
<1>7. ASSUME NEW t \in Mutators, OpenIn(bs, t)
      PROVE  /\ \A a \in Words : FilledWord(m, bs[t], a) \in Int
             /\ FilledWord(m, bs[t], bs[t][1]) = bs[t][2] - bs[t][1] - HeaderSize
             /\ FilledWord(m, bs[t], bs[t][1] + 1) = 0
             /\ FilledWord(m, bs[t], bs[t][1] + 2) = Atomic
             /\ bs[t][1] \in Words /\ bs[t][1] + 1 \in Words /\ bs[t][1] + 2 \in Words
             /\ within(t, bs[t][1]) /\ within(t, bs[t][1] + 1) /\ within(t, bs[t][1] + 2)
  <2>1. /\ bs[t][1] \in Nat /\ bs[t][2] \in Nat /\ bs[t][1] + 3 <= bs[t][2]
        /\ Base <= bs[t][1] /\ bs[t][2] <= End
    <3>1. bs[t] # NoTlab
      BY <1>7 DEF OpenIn, NoTlab, Null
    <3>2. end \in Nat /\ end <= End /\ End \in Nat
      BY WordsAreNat
    <3> QED
      BY <1>1, <1>7, <3>1, <3>2 DEF HeaderSize
  <2>2. /\ bs[t][1] \in Words /\ bs[t][1] + 1 \in Words /\ bs[t][1] + 2 \in Words
        /\ within(t, bs[t][1]) /\ within(t, bs[t][1] + 1) /\ within(t, bs[t][1] + 2)
    <3>1. /\ Base <= bs[t][1] /\ bs[t][1] < End
          /\ bs[t][1] + 1 \in Nat /\ Base <= bs[t][1] + 1 /\ bs[t][1] + 1 < End
          /\ bs[t][1] + 2 \in Nat /\ Base <= bs[t][1] + 2 /\ bs[t][1] + 2 < End
          /\ within(t, bs[t][1]) /\ within(t, bs[t][1] + 1) /\ within(t, bs[t][1] + 2)
      <4>1. Base \in Nat /\ End \in Nat
        BY WordsAreNat
      <4> QED
        BY <2>1, <4>1
    <3> HIDE DEF within
    <3> QED
      BY <2>1, <3>1, WordsAreNat
  <2>3. /\ \A a \in Words : FilledWord(m, bs[t], a) \in Int
        /\ FilledWord(m, bs[t], bs[t][1]) = bs[t][2] - bs[t][1] - HeaderSize
        /\ FilledWord(m, bs[t], bs[t][1] + 1) = 0
        /\ FilledWord(m, bs[t], bs[t][1] + 2) = Atomic
    BY <2>1 DEF FilledWord, HeaderSize, Atomic
  <2> QED
    BY <2>2, <2>3
<1>8. F \in [Words -> Int]
  <2>1. ASSUME NEW a \in Words PROVE F[a] \in Int
    <3>1. CASE \A t \in Mutators : OpenIn(bs, t) => ~within(t, a)
      BY <1>6, <3>1
    <3>2. CASE \E t \in Mutators : OpenIn(bs, t) /\ within(t, a)
      BY <1>5, <1>7, <3>2
    <3> QED
      BY <3>1, <3>2
  <2>2. F = [a \in Words |-> F[a]]
    BY <1>4
  <2> QED
    BY <2>1, <2>2
<1>9. \A t \in Mutators : OpenIn(bs, t) =>
        F[bs[t][1]] = bs[t][2] - bs[t][1] - HeaderSize /\ F[bs[t][1] + 1] = 0 /\ F[bs[t][1] + 2] = Atomic
  BY <1>5, <1>7
<1> QED
  BY <1>6, <1>8, <1>9 DEF F, IsFill

\* What the soundness of a heap says of its blocks: fillers lie in the gaps, and the words
\* of an object are what they are before the gaps are filled.
LEMMA SoundFacts ==
  ASSUME NEW m, NEW end, NEW bs, NEW ts, NEW S, Sound(m, end, bs, ts, S),
         NEW F, F = FillOf(m, bs, ts)
  PROVE  /\ m \in [Words -> Int] /\ F \in [Words -> Int] /\ end \in Base .. End
         /\ IsFill(m, bs, F) /\ Layout(F, end, S)
         /\ \A t \in Mutators : OpenIn(bs, t) =>
              /\ bs[t][1] \in S /\ Past(F, bs[t][1]) = bs[t][2]
              /\ bs[t][1] + HeaderSize <= bs[t][2]
              /\ bs[t][1] \in Nat /\ bs[t][2] \in Nat /\ bs[t][2] <= end /\ Base <= bs[t][1]
         /\ \A h \in ObjectsOf(bs, S) :
              /\ h \in S /\ h \in Nat /\ m[h] \in Nat
              /\ F[h] = m[h] /\ m[h + 1] = 0 /\ F[h + 2] = m[h + 2]
              /\ \A a \in h .. Past(F, h) - 1 : a \in Words /\ F[a] = m[a]
              /\ \A t \in Mutators : OpenIn(bs, t) =>
                   Past(F, h) <= bs[t][1] \/ bs[t][2] <= h
<1>1. /\ m \in [Words -> Int] /\ end \in Base .. End /\ ts \in SUBSET Mutators /\ Gaps(bs, end)
      /\ \A t \in Mutators : t \notin ts => bs[t] = NoTlab
      /\ Fillers(bs) \subseteq S /\ Layout(F, end, S) /\ \A h \in S : F[h + 1] = 0
  BY DEF Sound
<1>2. IsFill(m, bs, F)
  BY <1>1, FillOfIs
<1>3. F \in [Words -> Int]
  BY <1>2 DEF IsFill
<1>4. ASSUME NEW t \in Mutators, OpenIn(bs, t)
      PROVE  /\ bs[t][1] \in S /\ Past(F, bs[t][1]) = bs[t][2]
             /\ bs[t][1] + HeaderSize <= bs[t][2]
             /\ bs[t][1] \in Nat /\ bs[t][2] \in Nat /\ bs[t][2] <= end /\ Base <= bs[t][1]
  <2>1. bs[t] # NoTlab
    BY <1>4 DEF OpenIn, NoTlab, Null
  <2>2. /\ bs[t][1] + HeaderSize <= bs[t][2] /\ bs[t][1] \in Nat /\ bs[t][2] \in Nat
        /\ bs[t][2] <= end /\ Base <= bs[t][1]
    BY <1>1, <1>4, <2>1 DEF Gaps
  <2>3. bs[t][1] \in S
    BY <1>1, <1>4 DEF Fillers
  <2>4. F[bs[t][1]] = bs[t][2] - bs[t][1] - HeaderSize
    BY <1>2, <1>4 DEF IsFill
  <2>5. Past(F, bs[t][1]) = bs[t][2]
    BY <2>2, <2>4 DEF Past, HeaderSize
  <2> QED
    BY <2>2, <2>3, <2>5
<1>5. ASSUME NEW h \in ObjectsOf(bs, S)
      PROVE  /\ h \in S /\ h \in Nat /\ m[h] \in Nat
             /\ F[h] = m[h] /\ m[h + 1] = 0 /\ F[h + 2] = m[h + 2]
             /\ \A a \in h .. Past(F, h) - 1 : a \in Words /\ F[a] = m[a]
             /\ \A t \in Mutators : OpenIn(bs, t) => Past(F, h) <= bs[t][1] \/ bs[t][2] <= h
  <2>1. h \in S /\ h \notin Fillers(bs)
    BY DEF ObjectsOf
  <2>2. /\ h \in Nat /\ Base <= h /\ F[h] \in Nat /\ Past(F, h) \in Nat /\ Past(F, h) <= End
        /\ h + HeaderSize <= Past(F, h) /\ F[h + 1] = 0
    <3>1. /\ h \in Nat /\ Base <= h /\ F[h] \in Nat /\ Past(F, h) <= end
          /\ h + HeaderSize <= Past(F, h)
      BY <1>1, <1>3, <2>1, LayoutWords
    <3>2. end \in Nat /\ end <= End /\ End \in Nat
      BY <1>1, WordsAreNat
    <3>3. Past(F, h) \in Nat
      BY <3>1 DEF Past, HeaderSize
    <3> QED
      BY <1>1, <2>1, <3>1, <3>2, <3>3
  <2>3. ASSUME NEW t \in Mutators, OpenIn(bs, t) PROVE Past(F, h) <= bs[t][1] \/ bs[t][2] <= h
    <3>1. bs[t][1] \in S /\ Past(F, bs[t][1]) = bs[t][2] /\ bs[t][1] \in Nat
      BY <1>4, <2>3
    <3>2. h # bs[t][1]
      BY <2>1, <2>3 DEF Fillers
    <3>3. h < bs[t][1] \/ bs[t][1] < h
      BY <2>2, <3>1, <3>2
    <3> QED
      BY <1>1, <2>1, <3>1, <3>3 DEF Layout
  <2>4. ASSUME NEW a \in h .. Past(F, h) - 1 PROVE a \in Words /\ F[a] = m[a]
    <3>1. a \in Nat /\ Base <= a /\ a < End /\ h <= a /\ a < Past(F, h)
      BY <2>2, WordsAreNat
    <3>2. a \in Words
      BY <3>1, WordsAreNat
    <3>3. \A t \in Mutators : OpenIn(bs, t) => ~(bs[t][1] <= a /\ a < bs[t][2])
      <4> SUFFICES ASSUME NEW t \in Mutators, OpenIn(bs, t), bs[t][1] <= a, a < bs[t][2]
                   PROVE  FALSE
        OBVIOUS
      <4>1. bs[t][1] \in Nat /\ bs[t][2] \in Nat
        BY <1>4
      <4> QED
        BY <2>2, <2>3, <3>1, <4>1
    <3> QED
      BY <1>2, <3>2, <3>3 DEF IsFill
  <2>5. h \in h .. Past(F, h) - 1 /\ h + 1 \in h .. Past(F, h) - 1 /\ h + 2 \in h .. Past(F, h) - 1
    BY <2>2 DEF HeaderSize
  <2>6. F[h] = m[h] /\ F[h + 1] = m[h + 1] /\ F[h + 2] = m[h + 2]
    BY <2>4, <2>5
  <2> QED
    BY <2>1, <2>2, <2>3, <2>4, <2>6
<1> QED
  BY <1>1, <1>2, <1>3, <1>4, <1>5

\* The managed fields of an object lie inside its payload.
LEMMA FieldsInside ==
  ASSUME NEW m \in [Words -> Int], NEW h \in Words, h + HeaderSize + m[h] <= End,
         h + 2 \in Words, m[h] \in Nat, m[h + 2] = Cell => m[h] # 0,
         NEW f \in Fields(m, h)
  PROVE  f \in Nat /\ f \in Words /\ h + HeaderSize <= f /\ f < h + HeaderSize + m[h]
<1>1. h \in Nat /\ Base <= h /\ Base \in Nat /\ End \in Nat
  BY WordsAreNat
<1>2. SizeAt(m, h) = m[h] /\ DescriptorAt(m, h) = m[h + 2]
  BY DEF SizeAt, DescriptorAt, Word
<1>3. f \in Nat /\ h + HeaderSize <= f /\ f < h + HeaderSize + m[h]
  <2>1. CASE m[h + 2] = Cell
    <3>1. f \in {Payload(h)}
      BY <1>2, <2>1 DEF Fields, Pairs, Cell
    <3> QED
      BY <1>1, <2>1, <3>1 DEF HeaderSize, Payload
  <2>2. CASE m[h + 2] = Pairs
    <3>1. f \in {Payload(h) + 2 * e : e \in 0 .. (m[h] \div 2) - 1}
      BY <1>2, <2>2 DEF Fields, Pairs, Cell
    <3>2. PICK e \in 0 .. (m[h] \div 2) - 1 : f = h + 3 + 2 * e
      BY <3>1 DEF Payload, HeaderSize
    <3>3. 2 * (m[h] \div 2) <= m[h] /\ m[h] \div 2 \in Nat
      OBVIOUS
    <3>4. e \in Nat /\ 2 * e < m[h] /\ 2 * e \in Nat
      BY <3>3
    <3> QED
      BY <1>1, <3>2, <3>4 DEF HeaderSize
  <2>3. CASE m[h + 2] # Cell /\ m[h + 2] # Pairs
    BY <1>2, <2>3 DEF Fields
  <2> QED
    BY <2>1, <2>2, <2>3
<1>4. Base <= f /\ f < End
  BY <1>1, <1>3 DEF HeaderSize
<1> QED
  BY <1>3, <1>4, WordsAreNat

\* The fields of an object are words of its own, untouched by the filling, and null or
\* references to objects.
LEMMA ObjectFields ==
  ASSUME NEW m, NEW end, NEW bs, NEW ts, NEW S, Sound(m, end, bs, ts, S),
         NEW F, F = FillOf(m, bs, ts), NEW h \in ObjectsOf(bs, S), NEW f \in Fields(m, h)
  PROVE  /\ f \in Nat /\ f \in Words /\ f \in h .. Past(F, h) - 1 /\ h + HeaderSize <= f
         /\ F[f] = m[f]
         /\ m[f] = Null \/ m[f] - HeaderSize \in ObjectsOf(bs, S)
<1>1. /\ m \in [Words -> Int] /\ F \in [Words -> Int] /\ end \in Base .. End /\ Layout(F, end, S)
      /\ h \in S /\ h \in Nat /\ m[h] \in Nat /\ F[h] = m[h]
      /\ \A a \in h .. Past(F, h) - 1 : a \in Words /\ F[a] = m[a]
  BY SoundFacts
<1>2. /\ m[h + 2] = Cell => m[h] # 0
      /\ m[f] = Null \/ m[f] - HeaderSize \in ObjectsOf(bs, S)
  BY DEF Sound
<1>3. Past(F, h) = h + HeaderSize + m[h] /\ Past(F, h) <= end /\ h \in Words /\ h + 2 \in Words
  BY <1>1, LayoutWords DEF Past
<1>4. h + HeaderSize + m[h] <= End
  <2>1. end \in Nat /\ End \in Nat /\ end <= End
    BY <1>1, WordsAreNat
  <2> QED
    BY <1>1, <1>3, <2>1 DEF HeaderSize
<1>5. f \in Nat /\ f \in Words /\ h + HeaderSize <= f /\ f < h + HeaderSize + m[h]
  BY <1>1, <1>2, <1>3, <1>4, FieldsInside
<1>6. f \in h .. Past(F, h) - 1
  BY <1>1, <1>3, <1>5 DEF HeaderSize
<1> QED
  BY <1>1, <1>2, <1>5, <1>6

\* Two heaps that agree on an object's size and descriptor agree on where its fields are.
LEMMA SameFields ==
  ASSUME NEW m \in [Words -> Int], NEW m2 \in [Words -> Int], NEW h \in Words, h + 2 \in Words,
         m2[h] = m[h], m2[h + 2] = m[h + 2]
  PROVE  Fields(m2, h) = Fields(m, h)
<1>1. SizeAt(m2, h) = SizeAt(m, h) /\ DescriptorAt(m2, h) = DescriptorAt(m, h)
  BY DEF SizeAt, DescriptorAt, Word
<1> QED
  BY <1>1 DEF Fields

-----------------------------------------------------------------------------
(* A buffer's gap is filled *)

\* When a gap is filled for good, whether its buffer is then dropped or kept, the heap
\* stays sound over the same blocks and no object is lost.
LEMMA Retired ==
  ASSUME NEW m, NEW end, NEW bs, NEW ts, NEW S, Sound(m, end, bs, ts, S),
         NEW t \in Mutators, NEW m2, m2 = Filled(m, bs[t]),
         NEW bs2, bs2 = bs \/ bs2 = [bs EXCEPT ![t] = NoTlab],
         NEW ts2 \in SUBSET Mutators, \A u \in Mutators : u \notin ts2 => bs2[u] = NoTlab
  PROVE  /\ Sound(m2, end, bs2, ts2, S)
         /\ ObjectsOf(bs, S) \subseteq ObjectsOf(bs2, S)
         /\ \A h \in ObjectsOf(bs, S) : m2[h] = m[h]
<1> DEFINE F  == FillOf(m, bs, ts)
           F2 == FillOf(m2, bs2, ts2)
<1>1. /\ m \in [Words -> Int] /\ F \in [Words -> Int] /\ end \in Base .. End
      /\ IsFill(m, bs, F) /\ Layout(F, end, S)
      /\ \A u \in Mutators : OpenIn(bs, u) =>
           /\ bs[u][1] \in S /\ Past(F, bs[u][1]) = bs[u][2]
           /\ bs[u][1] + HeaderSize <= bs[u][2]
           /\ bs[u][1] \in Nat /\ bs[u][2] \in Nat /\ bs[u][2] <= end /\ Base <= bs[u][1]
      /\ \A h \in ObjectsOf(bs, S) :
           /\ h \in S /\ h \in Nat /\ m[h] \in Nat
           /\ F[h] = m[h] /\ m[h + 1] = 0 /\ F[h + 2] = m[h + 2]
           /\ \A a \in h .. Past(F, h) - 1 : a \in Words /\ F[a] = m[a]
           /\ \A u \in Mutators : OpenIn(bs, u) =>
                Past(F, h) <= bs[u][1] \/ bs[u][2] <= h
  BY SoundFacts
<1>2. /\ Gaps(bs, end) /\ Fillers(bs) \subseteq S /\ \A h \in S : F[h + 1] = 0
      /\ bs \in [Mutators -> Nat \X Nat]
      /\ \A u, v \in Mutators : u # v /\ OpenIn(bs, u) /\ OpenIn(bs, v) =>
           bs[u][2] <= bs[v][1] \/ bs[v][2] <= bs[u][1]
  BY DEF Sound, Gaps
<1> HIDE DEF F, F2
<1>3. /\ bs2 \in [Mutators -> Nat \X Nat]
      /\ \A u \in Mutators : bs2[u] = bs[u] \/ (u = t /\ bs2[u] = NoTlab)
      /\ \A u \in Mutators : u # t => bs2[u] = bs[u]
      /\ bs2[t] = bs[t] \/ bs2[t] = NoTlab
  BY <1>2 DEF NoTlab, Null
<1>4. \A u \in Mutators : OpenIn(bs2, u) => OpenIn(bs, u) /\ bs2[u] = bs[u]
  BY <1>3 DEF OpenIn, NoTlab, Null
<1>5. Gaps(bs2, end)
  <2>1. \A u \in Mutators :
          /\ bs2[u] # NoTlab => Base <= bs2[u][1] /\ bs2[u][1] <= bs2[u][2] /\ bs2[u][2] <= end
          /\ OpenIn(bs2, u) => bs2[u][1] + HeaderSize <= bs2[u][2]
    BY <1>2, <1>3, <1>4 DEF Gaps
  <2> QED
    BY <1>2, <1>3, <1>4, <2>1 DEF Gaps
<1>6. /\ m2 \in [Words -> Int]
      /\ \A a \in Words : ~(bs[t][1] <= a /\ a < bs[t][2]) => m2[a] = m[a]
      /\ OpenIn(bs, t) => /\ m2[bs[t][1]] = bs[t][2] - bs[t][1] - HeaderSize
                          /\ m2[bs[t][1] + 1] = 0 /\ m2[bs[t][1] + 2] = Atomic
                          /\ bs[t][1] + 1 \in Words /\ bs[t][1] + 2 \in Words
  <2>1. m2 = [a \in Words |-> IF bs[t][1] <= a /\ a < bs[t][2] THEN FilledWord(m, bs[t], a) ELSE m[a]]
    BY DEF Filled
  <2>2. bs[t][1] \in Nat /\ bs[t][2] \in Nat
    BY <1>2
  <2>3. \A a \in Words : FilledWord(m, bs[t], a) \in Int
    BY <1>1, <2>2 DEF FilledWord, HeaderSize, Atomic
  <2>4. ASSUME OpenIn(bs, t)
        PROVE  /\ m2[bs[t][1]] = bs[t][2] - bs[t][1] - HeaderSize
               /\ m2[bs[t][1] + 1] = 0 /\ m2[bs[t][1] + 2] = Atomic
               /\ bs[t][1] + 1 \in Words /\ bs[t][1] + 2 \in Words
    <3>1. /\ bs[t][1] \in Words /\ bs[t][1] + 3 <= bs[t][2] /\ bs[t][1] + 1 \in Words /\ bs[t][1] + 2 \in Words
      BY <1>1, <2>4, LayoutWords DEF HeaderSize
    <3>2. /\ FilledWord(m, bs[t], bs[t][1]) = bs[t][2] - bs[t][1] - HeaderSize
          /\ FilledWord(m, bs[t], bs[t][1] + 1) = 0
          /\ FilledWord(m, bs[t], bs[t][1] + 2) = Atomic
      BY <2>2, <3>1 DEF FilledWord, HeaderSize
    <3> QED
      BY <2>1, <2>2, <3>1, <3>2
  <2> QED
    BY <1>1, <2>1, <2>3, <2>4
<1>7. IsFill(m2, bs2, F2)
  BY <1>1, <1>5, <1>6, FillOfIs DEF F2
<1>8. ASSUME NEW h \in ObjectsOf(bs, S), NEW a \in h .. Past(F, h) - 1
      PROVE  a \in Words /\ m2[a] = m[a] /\ F2[a] = m[a] /\ F[a] = m[a]
  <2>1. a \in Words /\ F[a] = m[a] /\ h \in Nat /\ a \in Nat /\ h <= a
    BY <1>1, <1>8, WordsAreNat
  <2>2. a < Past(F, h) /\ Past(F, h) \in Nat
    <3>1. Past(F, h) \in Nat
      BY <1>1 DEF Past, HeaderSize
    <3> QED
      BY <1>8, <2>1, <3>1
  <2>3. \A u \in Mutators : OpenIn(bs, u) => ~(bs[u][1] <= a /\ a < bs[u][2])
    <3> SUFFICES ASSUME NEW u \in Mutators, OpenIn(bs, u), bs[u][1] <= a, a < bs[u][2] PROVE FALSE
      OBVIOUS
    <3>1. bs[u][1] \in Nat /\ bs[u][2] \in Nat /\ (Past(F, h) <= bs[u][1] \/ bs[u][2] <= h)
      BY <1>1
    <3> QED
      BY <2>1, <2>2, <3>1
  <2>4. ~(bs[t][1] <= a /\ a < bs[t][2])
    <3>1. CASE OpenIn(bs, t)
      BY <2>3, <3>1
    <3>2. CASE ~OpenIn(bs, t)
      <4>1. bs[t][1] \in Nat /\ bs[t][2] \in Nat
        BY <1>2
      <4> QED
        BY <2>1, <3>2, <4>1 DEF OpenIn
    <3> QED
      BY <3>1, <3>2
  <2>5. m2[a] = m[a]
    BY <1>6, <2>1, <2>4
  <2>6. F2[a] = m2[a]
    BY <1>4, <1>7, <2>1, <2>3 DEF IsFill
  <2> QED
    BY <2>1, <2>5, <2>6
<1>9. ASSUME NEW h \in ObjectsOf(bs, S)
      PROVE  /\ h \in h .. Past(F, h) - 1 /\ h + 1 \in h .. Past(F, h) - 1 /\ h + 2 \in h .. Past(F, h) - 1
  <2>1. h \in Nat /\ F[h] \in Nat
    BY <1>1
  <2> QED
    BY <2>1 DEF Past, HeaderSize
<1>10. ASSUME NEW u \in Mutators, OpenIn(bs, u), NEW g, g = bs[u][1]
       PROVE  F2[g] = F[g] /\ F2[g + 1] = 0 /\ F2[g + 2] = F[g + 2]
  <2>1. F[g] = bs[u][2] - bs[u][1] - HeaderSize /\ F[g + 2] = Atomic
    BY <1>1, <1>10 DEF IsFill
  <2>2. CASE OpenIn(bs2, u)
    BY <1>4, <1>7, <1>10, <2>1, <2>2 DEF IsFill
  <2>3. CASE ~OpenIn(bs2, u)
    <3>1. u = t
      BY <1>3, <1>10, <2>3 DEF OpenIn
    <3>2. g \in S /\ g \in Words /\ g + 1 \in Words /\ g + 2 \in Words /\ g \in Nat /\ g + 3 <= bs[t][2]
          /\ bs[t][2] \in Nat
      BY <1>1, <1>10, <3>1, LayoutWords DEF HeaderSize
    <3>3. ASSUME NEW v \in Mutators, OpenIn(bs2, v), NEW a \in {g, g + 1, g + 2}
          PROVE  ~(bs2[v][1] <= a /\ a < bs2[v][2])
      <4>1. v # t /\ OpenIn(bs, v) /\ bs2[v] = bs[v]
        BY <1>4, <2>3, <3>1, <3>3
      <4>2. (bs[t][2] <= bs[v][1] \/ bs[v][2] <= bs[t][1]) /\ bs[v][1] \in Nat /\ bs[v][2] \in Nat
        BY <1>1, <1>2, <1>10, <3>1, <4>1
      <4>3. a \in Nat /\ g <= a /\ a < bs[t][2] /\ g = bs[t][1]
        BY <1>10, <3>1, <3>2, <3>3
      <4> QED
        BY <3>2, <4>1, <4>2, <4>3
    <3>4. F2[g] = m2[g] /\ F2[g + 1] = m2[g + 1] /\ F2[g + 2] = m2[g + 2]
      BY <1>7, <3>2, <3>3 DEF IsFill
    <3> QED
      BY <1>6, <1>10, <2>1, <3>1, <3>4
  <2> QED
    BY <2>2, <2>3
<1>11. ASSUME NEW h \in S PROVE F2[h] = F[h] /\ F2[h + 1] = 0 /\ F2[h + 2] = F[h + 2]
  <2>1. CASE h \in ObjectsOf(bs, S)
    <3>1. F2[h] = F[h] /\ F2[h + 1] = F[h + 1] /\ F2[h + 2] = F[h + 2]
      BY <1>8, <1>9, <2>1
    <3> QED
      BY <1>2, <3>1
  <2>2. CASE h \in Fillers(bs)
    <3>1. PICK u \in Mutators : OpenIn(bs, u) /\ h = bs[u][1]
      BY <2>2 DEF Fillers
    <3> QED
      BY <1>10, <3>1
  <2> QED
    BY <2>1, <2>2 DEF ObjectsOf
<1>12. Layout(F2, end, S)
  BY <1>1, <1>11 DEF Layout, Past
<1>13. Fillers(bs2) \subseteq Fillers(bs)
  BY <1>4 DEF Fillers
<1>14. ASSUME NEW h \in ObjectsOf(bs2, S), h \notin ObjectsOf(bs, S)
       PROVE  h = bs[t][1] /\ OpenIn(bs, t)
  <2>1. PICK u \in Mutators : OpenIn(bs, u) /\ h = bs[u][1]
    BY <1>14 DEF ObjectsOf, Fillers
  <2>2. u # t => bs2[u] = bs[u] /\ OpenIn(bs2, u)
    BY <1>3, <2>1 DEF OpenIn
  <2>3. u # t => h \in Fillers(bs2)
    BY <2>1, <2>2 DEF Fillers
  <2> QED
    BY <1>14, <2>1, <2>3 DEF ObjectsOf
<1>15. ASSUME NEW h \in ObjectsOf(bs2, S)
       PROVE  /\ m2[h + 2] = Cell => m2[h] # 0
              /\ \A f \in Fields(m2, h) : m2[f] = Null \/ m2[f] - HeaderSize \in ObjectsOf(bs2, S)
  <2>1. CASE h \in ObjectsOf(bs, S)
    <3>1. m2[h] = m[h] /\ m2[h + 2] = m[h + 2] /\ h \in Words /\ h + 2 \in Words
      BY <1>8, <1>9, <2>1
    <3>2. Fields(m2, h) = Fields(m, h)
      BY <1>1, <1>6, <3>1, SameFields
    <3>3. m[h + 2] = Cell => m[h] # 0
      BY <2>1 DEF Sound
    <3>4. ASSUME NEW f \in Fields(m2, h) PROVE m2[f] = Null \/ m2[f] - HeaderSize \in ObjectsOf(bs2, S)
      <4>1. f \in h .. Past(F, h) - 1 /\ (m[f] = Null \/ m[f] - HeaderSize \in ObjectsOf(bs, S))
        BY <2>1, <3>2, ObjectFields DEF F
      <4>2. m2[f] = m[f]
        BY <1>8, <2>1, <4>1
      <4> QED
        BY <1>13, <4>1, <4>2 DEF ObjectsOf
    <3> QED
      BY <3>1, <3>3, <3>4
  <2>2. CASE h \notin ObjectsOf(bs, S)
    <3>1. h = bs[t][1] /\ OpenIn(bs, t)
      BY <1>14, <2>2
    <3>2. m2[h + 2] = Atomic /\ h + 2 \in Words
      BY <1>6, <3>1
    <3>3. DescriptorAt(m2, h) = Atomic
      BY <1>6, <3>2 DEF DescriptorAt, Word
    <3>4. Fields(m2, h) = {}
      BY <3>3 DEF Fields, Atomic, Cell, Pairs
    <3> QED
      BY <3>2, <3>4 DEF Atomic, Cell
  <2> QED
    BY <2>1, <2>2
<1>16. Sound(m2, end, bs2, ts2, S)
  BY <1>1, <1>2, <1>5, <1>6, <1>11, <1>12, <1>13, <1>15 DEF Sound, F2
<1>17. ObjectsOf(bs, S) \subseteq ObjectsOf(bs2, S)
  BY <1>13 DEF ObjectsOf
<1>18. \A h \in ObjectsOf(bs, S) : m2[h] = m[h]
  BY <1>8, <1>9
<1> QED
  BY <1>16, <1>17, <1>18

-----------------------------------------------------------------------------
(* A block is served *)

\* A block from raw to rest is served to t out of free room that ends at e, and what is
\* left stays in t's buffer: the room is t's gap, or fresh from the heap for a buffer or
\* for one large object.
Serves(bs, end, t, raw, rest, e, bs2, end2) ==
  \/ /\ OpenIn(bs, t) /\ raw = bs[t][1] /\ e = bs[t][2] /\ end2 = end
     /\ bs2 = [bs EXCEPT ![t] = <<rest, e>>]
  \/ /\ ~OpenIn(bs, t) /\ raw = end /\ end2 = e
     /\ bs2 = [bs EXCEPT ![t] = <<rest, e>>]
  \/ raw = end /\ end2 = e /\ rest = e /\ bs2 = bs

\* What becomes of the gaps: the room is one of them or lies at the heap's end, its rest
\* is one if there is any, and the others are as they were and apart from it.
Carved(bs, end, raw, rest, e, bs2, end2) ==
  /\ Gaps(bs2, end2)
  /\ \/ /\ end2 = end
        /\ \E t \in Mutators : OpenIn(bs, t) /\ raw = bs[t][1] /\ e = bs[t][2]
     \/ raw = end /\ end2 = e
  /\ \A u \in Mutators : OpenIn(bs2, u) =>
       \/ bs2[u] = <<rest, e>>
       \/ OpenIn(bs, u) /\ bs2[u] = bs[u] /\ (bs[u][2] <= raw \/ e <= bs[u][1])
  /\ \A u \in Mutators : OpenIn(bs, u) /\ bs[u][1] # raw => OpenIn(bs2, u) /\ bs2[u] = bs[u]
  /\ rest < e => \E u \in Mutators : OpenIn(bs2, u) /\ bs2[u] = <<rest, e>>

\* However the block is served, the gaps are carved so.
LEMMA RoomCarved ==
  ASSUME NEW end \in Nat, NEW end2 \in Nat, Base <= end, end <= end2, NEW bs, Gaps(bs, end),
         NEW t \in Mutators, NEW raw \in Nat, NEW rest \in Nat, NEW e \in Nat,
         raw + HeaderSize <= rest, rest <= e, rest < e => rest + HeaderSize <= e,
         NEW bs2, Serves(bs, end, t, raw, rest, e, bs2, end2)
  PROVE  Carved(bs, end, raw, rest, e, bs2, end2)
<1>1. /\ bs \in [Mutators -> Nat \X Nat]
      /\ \A u \in Mutators :
           /\ bs[u][1] \in Nat /\ bs[u][2] \in Nat
           /\ bs[u] # NoTlab => Base <= bs[u][1] /\ bs[u][1] <= bs[u][2] /\ bs[u][2] <= end
           /\ OpenIn(bs, u) => bs[u][1] + HeaderSize <= bs[u][2]
           /\ OpenIn(bs, u) => bs[u] # NoTlab
      /\ \A u, v \in Mutators : u # v /\ OpenIn(bs, u) /\ OpenIn(bs, v) =>
           bs[u][2] <= bs[v][1] \/ bs[v][2] <= bs[u][1]
      /\ Base \in Nat
  BY WordsAreNat DEF Gaps, OpenIn, NoTlab, Null
<1>2. raw < rest
  BY DEF HeaderSize
<1>3. CASE /\ OpenIn(bs, t) /\ raw = bs[t][1] /\ e = bs[t][2] /\ end2 = end
           /\ bs2 = [bs EXCEPT ![t] = <<rest, e>>]
  <2>1. /\ bs2 \in [Mutators -> Nat \X Nat] /\ bs2[t] = <<rest, e>> /\ bs2[t][1] = rest /\ bs2[t][2] = e
        /\ \A u \in Mutators : u # t => bs2[u] = bs[u] /\ (OpenIn(bs2, u) <=> OpenIn(bs, u))
        /\ OpenIn(bs2, t) <=> rest < e
    BY <1>1, <1>3 DEF OpenIn
  <2>2. \A u \in Mutators : u # t /\ OpenIn(bs, u) => bs[u][2] <= raw \/ e <= bs[u][1]
    BY <1>1, <1>3
  <2>3. Base <= raw /\ e <= end
    BY <1>1, <1>3
  <2>4. \A u \in Mutators :
          /\ bs2[u] # NoTlab => Base <= bs2[u][1] /\ bs2[u][1] <= bs2[u][2] /\ bs2[u][2] <= end
          /\ OpenIn(bs2, u) => bs2[u][1] + HeaderSize <= bs2[u][2]
    <3> SUFFICES ASSUME NEW u \in Mutators
                 PROVE  /\ bs2[u] # NoTlab => Base <= bs2[u][1] /\ bs2[u][1] <= bs2[u][2] /\ bs2[u][2] <= end
                        /\ OpenIn(bs2, u) => bs2[u][1] + HeaderSize <= bs2[u][2]
      OBVIOUS
    <3>1. CASE u = t
      <4>1. Base <= rest
        BY <1>1, <1>2, <2>3
      <4> QED
        BY <2>1, <2>3, <3>1, <4>1
    <3>2. CASE u # t
      BY <1>1, <2>1, <3>2
    <3> QED
      BY <3>1, <3>2
  <2>5. ASSUME NEW u \in Mutators, NEW v \in Mutators, u # v, OpenIn(bs2, u), OpenIn(bs2, v)
        PROVE  bs2[u][2] <= bs2[v][1] \/ bs2[v][2] <= bs2[u][1]
    <3>1. CASE u = t
      <4>1. bs2[v] = bs[v] /\ (bs[v][2] <= raw \/ e <= bs[v][1]) /\ bs[v][1] \in Nat /\ bs[v][2] \in Nat
        BY <1>1, <2>1, <2>2, <2>5, <3>1
      <4> QED
        BY <1>2, <2>1, <3>1, <4>1
    <3>2. CASE v = t
      <4>1. bs2[u] = bs[u] /\ (bs[u][2] <= raw \/ e <= bs[u][1]) /\ bs[u][1] \in Nat /\ bs[u][2] \in Nat
        BY <1>1, <2>1, <2>2, <2>5, <3>2
      <4> QED
        BY <1>2, <2>1, <3>2, <4>1
    <3>3. CASE u # t /\ v # t
      BY <1>1, <2>1, <2>5, <3>3
    <3> QED
      BY <3>1, <3>2, <3>3
  <2>6. Gaps(bs2, end2)
    BY <1>3, <2>1, <2>4, <2>5 DEF Gaps
  <2>7. \A u \in Mutators : OpenIn(bs2, u) =>
          \/ bs2[u] = <<rest, e>>
          \/ OpenIn(bs, u) /\ bs2[u] = bs[u] /\ (bs[u][2] <= raw \/ e <= bs[u][1])
    BY <2>1, <2>2
  <2>8. \A u \in Mutators : OpenIn(bs, u) /\ bs[u][1] # raw => OpenIn(bs2, u) /\ bs2[u] = bs[u]
    BY <1>3, <2>1
  <2> QED
    BY <1>3, <2>1, <2>6, <2>7, <2>8 DEF Carved
<1>4. CASE /\ ~OpenIn(bs, t) /\ raw = end /\ end2 = e
           /\ bs2 = [bs EXCEPT ![t] = <<rest, e>>]
  <2>1. /\ bs2 \in [Mutators -> Nat \X Nat] /\ bs2[t] = <<rest, e>> /\ bs2[t][1] = rest /\ bs2[t][2] = e
        /\ \A u \in Mutators : u # t => bs2[u] = bs[u] /\ (OpenIn(bs2, u) <=> OpenIn(bs, u))
        /\ OpenIn(bs2, t) <=> rest < e
    BY <1>1, <1>4 DEF OpenIn
  <2>2. \A u \in Mutators : OpenIn(bs, u) => bs[u][2] <= raw
    BY <1>1, <1>4
  <2>4. \A u \in Mutators :
          /\ bs2[u] # NoTlab => Base <= bs2[u][1] /\ bs2[u][1] <= bs2[u][2] /\ bs2[u][2] <= end2
          /\ OpenIn(bs2, u) => bs2[u][1] + HeaderSize <= bs2[u][2]
    <3> SUFFICES ASSUME NEW u \in Mutators
                 PROVE  /\ bs2[u] # NoTlab => Base <= bs2[u][1] /\ bs2[u][1] <= bs2[u][2] /\ bs2[u][2] <= end2
                        /\ OpenIn(bs2, u) => bs2[u][1] + HeaderSize <= bs2[u][2]
      OBVIOUS
    <3>1. CASE u = t
      <4>1. Base <= rest
        BY <1>1, <1>2, <1>4
      <4> QED
        BY <1>4, <2>1, <3>1, <4>1
    <3>2. CASE u # t
      BY <1>1, <2>1, <3>2
    <3> QED
      BY <3>1, <3>2
  <2>5. ASSUME NEW u \in Mutators, NEW v \in Mutators, u # v, OpenIn(bs2, u), OpenIn(bs2, v)
        PROVE  bs2[u][2] <= bs2[v][1] \/ bs2[v][2] <= bs2[u][1]
    <3>1. CASE u = t
      <4>1. bs2[v] = bs[v] /\ bs[v][2] <= raw /\ bs[v][2] \in Nat
        BY <1>1, <2>1, <2>2, <2>5, <3>1
      <4> QED
        BY <1>2, <2>1, <3>1, <4>1
    <3>2. CASE v = t
      <4>1. bs2[u] = bs[u] /\ bs[u][2] <= raw /\ bs[u][2] \in Nat
        BY <1>1, <2>1, <2>2, <2>5, <3>2
      <4> QED
        BY <1>2, <2>1, <3>2, <4>1
    <3>3. CASE u # t /\ v # t
      BY <1>1, <2>1, <2>5, <3>3
    <3> QED
      BY <3>1, <3>2, <3>3
  <2>6. Gaps(bs2, end2)
    BY <2>1, <2>4, <2>5 DEF Gaps
  <2>7. \A u \in Mutators : OpenIn(bs2, u) =>
          \/ bs2[u] = <<rest, e>>
          \/ OpenIn(bs, u) /\ bs2[u] = bs[u] /\ (bs[u][2] <= raw \/ e <= bs[u][1])
    BY <2>1, <2>2
  <2>8. \A u \in Mutators : OpenIn(bs, u) /\ bs[u][1] # raw => OpenIn(bs2, u) /\ bs2[u] = bs[u]
    BY <1>4, <2>1
  <2> QED
    BY <1>4, <2>1, <2>6, <2>7, <2>8 DEF Carved
<1>5. CASE raw = end /\ end2 = e /\ rest = e /\ bs2 = bs
  <2>1. Gaps(bs2, end2)
    <3>1. \A u \in Mutators : bs[u] # NoTlab => bs[u][2] <= end2
      BY <1>1
    <3> QED
      BY <1>1, <1>5, <3>1 DEF Gaps
  <2>2. \A u \in Mutators : OpenIn(bs, u) => bs[u][2] <= raw
    BY <1>1, <1>5
  <2> QED
    BY <1>5, <2>1, <2>2 DEF Carved
<1> QED
  BY <1>3, <1>4, <1>5 DEF Serves

\* m2 is m with an object written from raw to rest that has a clean header and no
\* references yet.
Clean(m, m2, raw, rest) ==
  /\ m2 \in [Words -> Int]
  /\ m2[raw] = rest - raw - HeaderSize /\ m2[raw + 1] = 0 /\ m2[raw + 2] \in Descriptors
  /\ m2[raw + 2] = Cell => m2[raw] # 0
  /\ \A f \in Fields(m2, raw) : m2[f] = Null
  /\ \A a \in Words : a < raw \/ rest <= a => m2[a] = m[a]

\* The heap is sound, its objects being those of L, as long as before, and the one at raw.
ServedIn(m, L, raw, m2, end2, bs2, ts) ==
  \E S : /\ Sound(m2, end2, bs2, ts, S)
         /\ ObjectsOf(bs2, S) = L \cup {raw}
         /\ \A h \in L : m2[h] = m[h]

\* A served block leaves the heap sound with one object more.
LEMMA BlockServed ==
  ASSUME NEW m, NEW end, NEW bs, NEW ts, NEW S, Sound(m, end, bs, ts, S),
         NEW end2 \in Base .. End, NEW raw \in Nat, NEW rest \in Nat, NEW e \in Nat,
         raw + HeaderSize <= rest, rest <= e, e <= end2,
         NEW bs2, Carved(bs, end, raw, rest, e, bs2, end2),
         \A u \in Mutators : u \notin ts => bs2[u] = NoTlab,
         NEW m2, Clean(m, m2, raw, rest)
  PROVE  ServedIn(m, ObjectsOf(bs, S), raw, m2, end2, bs2, ts)
<1> DEFINE F  == FillOf(m, bs, ts)
           F2 == FillOf(m2, bs2, ts)
           S2 == S \cup {raw} \cup (IF rest < e THEN {rest} ELSE {})
           L  == ObjectsOf(bs, S)
<1>1. /\ m \in [Words -> Int] /\ F \in [Words -> Int] /\ end \in Base .. End
      /\ IsFill(m, bs, F) /\ Layout(F, end, S)
      /\ \A u \in Mutators : OpenIn(bs, u) =>
           /\ bs[u][1] \in S /\ Past(F, bs[u][1]) = bs[u][2]
           /\ bs[u][1] + HeaderSize <= bs[u][2]
           /\ bs[u][1] \in Nat /\ bs[u][2] \in Nat /\ bs[u][2] <= end /\ Base <= bs[u][1]
      /\ \A h \in L :
           /\ h \in S /\ h \in Nat /\ m[h] \in Nat
           /\ F[h] = m[h] /\ m[h + 1] = 0 /\ F[h + 2] = m[h + 2]
           /\ \A a \in h .. Past(F, h) - 1 : a \in Words /\ F[a] = m[a]
           /\ \A u \in Mutators : OpenIn(bs, u) =>
                Past(F, h) <= bs[u][1] \/ bs[u][2] <= h
  BY SoundFacts
<1>2. /\ ts \in SUBSET Mutators /\ Fillers(bs) \subseteq S /\ \A h \in S : F[h + 1] = 0
      /\ Base \in Nat /\ End \in Nat /\ end \in Nat /\ end2 \in Nat /\ end <= End /\ end2 <= End /\ Base <= end
  BY <1>1, WordsAreNat DEF Sound
<1>3. /\ Gaps(bs2, end2)
      /\ \/ /\ end2 = end
            /\ \E t \in Mutators : OpenIn(bs, t) /\ raw = bs[t][1] /\ e = bs[t][2]
         \/ raw = end /\ end2 = e
      /\ \A u \in Mutators : OpenIn(bs2, u) =>
           \/ bs2[u] = <<rest, e>>
           \/ OpenIn(bs, u) /\ bs2[u] = bs[u] /\ (bs[u][2] <= raw \/ e <= bs[u][1])
      /\ \A u \in Mutators : OpenIn(bs, u) /\ bs[u][1] # raw => OpenIn(bs2, u) /\ bs2[u] = bs[u]
      /\ rest < e => \E u \in Mutators : OpenIn(bs2, u) /\ bs2[u] = <<rest, e>>
  BY DEF Carved
<1>4. /\ m2 \in [Words -> Int]
      /\ m2[raw] = rest - raw - HeaderSize /\ m2[raw + 1] = 0 /\ m2[raw + 2] \in Descriptors
      /\ m2[raw + 2] = Cell => m2[raw] # 0
      /\ \A f \in Fields(m2, raw) : m2[f] = Null
      /\ \A a \in Words : a < raw \/ rest <= a => m2[a] = m[a]
  BY DEF Clean
<1> HIDE DEF F, F2, L
<1>5. IsFill(m2, bs2, F2)
  BY <1>2, <1>3, <1>4, FillOfIs DEF F2
<1>6. Base <= raw /\ raw < rest /\ raw + 3 <= rest /\ e <= End
  BY <1>1, <1>2, <1>3 DEF HeaderSize
<1>7. \A h \in S : /\ h \in Nat /\ h \in Words /\ F[h] \in Nat /\ Past(F, h) \in Nat /\ Past(F, h) <= end
                   /\ h + 3 <= Past(F, h) /\ h + 1 \in Words /\ h + 2 \in Words
                   /\ Past(F, h) = h + HeaderSize + F[h] /\ Past(F, h) \in S \cup {end}
                   /\ F[h + 2] \in Descriptors
  <2> SUFFICES ASSUME NEW h \in S
               PROVE  /\ h \in Nat /\ h \in Words /\ F[h] \in Nat /\ Past(F, h) \in Nat /\ Past(F, h) <= end
                      /\ h + 3 <= Past(F, h) /\ h + 1 \in Words /\ h + 2 \in Words
                      /\ Past(F, h) = h + HeaderSize + F[h] /\ Past(F, h) \in S \cup {end}
                      /\ F[h + 2] \in Descriptors
    OBVIOUS
  <2>1. /\ h \in Nat /\ h \in Words /\ F[h] \in Nat /\ Past(F, h) <= end
        /\ h + HeaderSize <= Past(F, h) /\ h + 1 \in Words /\ h + 2 \in Words
    BY <1>1, LayoutWords
  <2>2. Past(F, h) \in S \cup {end} /\ F[h + 2] \in Descriptors
    BY <1>1 DEF Layout
  <2> QED
    BY <2>1, <2>2 DEF Past, HeaderSize
<1>8. ASSUME NEW h \in S, h # raw PROVE Past(F, h) <= raw \/ e <= h
  <2>1. CASE end2 = end /\ \E t \in Mutators : OpenIn(bs, t) /\ raw = bs[t][1] /\ e = bs[t][2]
    <3>1. raw \in S /\ Past(F, raw) = e
      BY <1>1, <2>1
    <3>2. h < raw \/ raw < h
      BY <1>7, <1>8, <3>1
    <3> QED
      BY <1>1, <3>1, <3>2 DEF Layout
  <2>2. CASE raw = end /\ end2 = e
    BY <1>7, <2>2
  <2> QED
    BY <1>3, <2>1, <2>2
<1>9. ASSUME NEW h \in L PROVE h # raw /\ h \in S
  <2>1. h \in S /\ h \notin Fillers(bs)
    BY DEF L, ObjectsOf
  <2>2. CASE \E t \in Mutators : OpenIn(bs, t) /\ raw = bs[t][1] /\ e = bs[t][2]
    BY <2>1, <2>2 DEF Fillers
  <2>3. CASE raw = end
    BY <1>2, <1>7, <2>1, <2>3
  <2> QED
    BY <1>3, <2>1, <2>2, <2>3
<1>10. ASSUME NEW h \in L, NEW a \in h .. Past(F, h) - 1
       PROVE  a \in Words /\ m2[a] = m[a] /\ F2[a] = m[a] /\ F[a] = m[a]
  <2>1. a \in Words /\ F[a] = m[a] /\ a \in Nat /\ h \in Nat /\ h <= a /\ a < Past(F, h) /\ Past(F, h) \in Nat
    BY <1>1, <1>7, <1>9, <1>10, WordsAreNat
  <2>2. Past(F, h) <= raw \/ e <= h
    BY <1>8, <1>9
  <2>3. a < raw \/ e <= a
    BY <2>1, <2>2
  <2>4. m2[a] = m[a]
    BY <1>4, <2>1, <2>3
  <2>5. \A u \in Mutators : OpenIn(bs2, u) => ~(bs2[u][1] <= a /\ a < bs2[u][2])
    <3> SUFFICES ASSUME NEW u \in Mutators, OpenIn(bs2, u), bs2[u][1] <= a, a < bs2[u][2] PROVE FALSE
      OBVIOUS
    <3>1. CASE bs2[u] = <<rest, e>>
      BY <1>6, <2>1, <2>3, <3>1
    <3>2. CASE OpenIn(bs, u) /\ bs2[u] = bs[u]
      <4>1. bs[u][1] \in Nat /\ bs[u][2] \in Nat /\ (Past(F, h) <= bs[u][1] \/ bs[u][2] <= h)
        BY <1>1, <3>2
      <4> QED
        BY <2>1, <3>2, <4>1
    <3> QED
      BY <1>3, <3>1, <3>2
  <2>6. F2[a] = m2[a]
    BY <1>5, <2>1, <2>5 DEF IsFill
  <2> QED
    BY <2>1, <2>4, <2>6
<1>11. ASSUME NEW h \in L
       PROVE  /\ h \in h .. Past(F, h) - 1 /\ h + 1 \in h .. Past(F, h) - 1 /\ h + 2 \in h .. Past(F, h) - 1
  BY <1>7, <1>9
<1>12. ASSUME NEW a \in raw .. rest - 1 PROVE a \in Words /\ F2[a] = m2[a]
  <2>1. a \in Nat /\ raw <= a /\ a < rest /\ Base <= a /\ a < End
    BY <1>2, <1>6
  <2>2. a \in Words
    BY <2>1, WordsAreNat
  <2>3. \A u \in Mutators : OpenIn(bs2, u) => ~(bs2[u][1] <= a /\ a < bs2[u][2])
    <3> SUFFICES ASSUME NEW u \in Mutators, OpenIn(bs2, u), bs2[u][1] <= a, a < bs2[u][2] PROVE FALSE
      OBVIOUS
    <3>1. CASE bs2[u] = <<rest, e>>
      BY <2>1, <3>1
    <3>2. CASE OpenIn(bs, u) /\ bs2[u] = bs[u] /\ (bs[u][2] <= raw \/ e <= bs[u][1])
      <4>1. bs[u][1] \in Nat /\ bs[u][2] \in Nat
        BY <1>1, <3>2
      <4> QED
        BY <2>1, <3>2, <4>1
    <3> QED
      BY <1>3, <3>1, <3>2
  <2> QED
    BY <1>5, <2>2, <2>3 DEF IsFill
<1>13. /\ F2[raw] = rest - raw - HeaderSize /\ F2[raw + 1] = 0 /\ F2[raw + 2] = m2[raw + 2]
       /\ raw \in Words /\ raw + 1 \in Words /\ raw + 2 \in Words
  <2>1. raw \in raw .. rest - 1 /\ raw + 1 \in raw .. rest - 1 /\ raw + 2 \in raw .. rest - 1
    BY <1>6
  <2> QED
    BY <1>4, <1>12, <2>1
<1>14. ASSUME rest < e
       PROVE  /\ F2[rest] = e - rest - HeaderSize /\ F2[rest + 1] = 0 /\ F2[rest + 2] = Atomic
              /\ rest + HeaderSize <= e /\ rest \in Words /\ rest \in Fillers(bs2)
  <2>1. PICK u \in Mutators : OpenIn(bs2, u) /\ bs2[u] = <<rest, e>>
    BY <1>3, <1>14
  <2>2. bs2[u][1] = rest /\ bs2[u][2] = e
    BY <2>1
  <2>3. /\ F2[rest] = e - rest - HeaderSize /\ F2[rest + 1] = 0 /\ F2[rest + 2] = Atomic
    BY <1>5, <2>1, <2>2 DEF IsFill
  <2>4. rest + HeaderSize <= e
    BY <1>3, <2>1, <2>2 DEF Gaps
  <2>5. rest \in Words
    <3>1. Base <= rest /\ rest < End
      BY <1>2, <1>6, <1>14
    <3> QED
      BY <3>1, WordsAreNat
  <2>6. rest \in Fillers(bs2)
    BY <2>1, <2>2 DEF Fillers
  <2> QED
    BY <2>3, <2>4, <2>5, <2>6
<1>15. ASSUME NEW h \in S, h # raw PROVE F2[h] = F[h] /\ F2[h + 1] = 0 /\ F2[h + 2] = F[h + 2]
  <2>1. CASE h \in L
    <3>1. F2[h] = F[h] /\ F2[h + 1] = F[h + 1] /\ F2[h + 2] = F[h + 2]
      BY <1>10, <1>11, <2>1
    <3> QED
      BY <1>2, <3>1
  <2>2. CASE h \in Fillers(bs)
    <3>1. PICK u \in Mutators : OpenIn(bs, u) /\ h = bs[u][1]
      BY <2>2 DEF Fillers
    <3>2. OpenIn(bs2, u) /\ bs2[u] = bs[u]
      BY <1>3, <1>15, <3>1
    <3> QED
      BY <1>1, <1>5, <3>1, <3>2 DEF IsFill
  <2> QED
    BY <2>1, <2>2 DEF L, ObjectsOf
<1>16. e \in S2 \cup {end2} /\ end \in S2 \cup {end2}
  <2>1. CASE end2 = end /\ \E t \in Mutators : OpenIn(bs, t) /\ raw = bs[t][1] /\ e = bs[t][2]
    <3>1. raw \in S /\ Past(F, raw) = e
      BY <1>1, <2>1
    <3> QED
      BY <1>7, <2>1, <3>1
  <2>2. CASE raw = end /\ end2 = e
    BY <2>2
  <2> QED
    BY <1>3, <2>1, <2>2
<1>17. ASSUME NEW h \in S2
       PROVE  \/ h = raw
              \/ h = rest /\ rest < e
              \/ h \in S /\ h # raw
  OBVIOUS
<1>18. /\ Past(F2, raw) = rest
       /\ rest < e => Past(F2, rest) = e
       /\ \A h \in S : h # raw => Past(F2, h) = Past(F, h)
  <2>1. Past(F2, raw) = rest
    BY <1>13 DEF Past, HeaderSize
  <2>2. rest < e => Past(F2, rest) = e
    BY <1>14 DEF Past, HeaderSize
  <2> QED
    BY <1>15, <2>1, <2>2 DEF Past
<1>19. rest \in S2 \cup {end2}
  <2>1. CASE rest < e
    BY <2>1
  <2>2. CASE rest = e
    BY <1>16, <2>2
  <2> QED
    BY <2>1, <2>2
<1>20. ASSUME NEW h \in S2
       PROVE  /\ h \in Words /\ F2[h] \in Nat /\ F2[h + 1] = 0 /\ F2[h + 2] \in Descriptors
              /\ Past(F2, h) <= end2 /\ Past(F2, h) \in S2 \cup {end2}
  <2>1. CASE h = raw
    <3>1. F2[raw] \in Nat
      BY <1>13 DEF HeaderSize
    <3>2. rest <= end2
      BY <1>2
    <3> QED
      BY <1>4, <1>13, <1>18, <1>19, <2>1, <3>1, <3>2
  <2>2. CASE h = rest /\ rest < e
    <3>1. F2[rest] \in Nat
      BY <1>14, <2>2 DEF HeaderSize
    <3>2. Atomic \in Descriptors
      BY DEF Descriptors
    <3> QED
      BY <1>14, <1>16, <1>18, <2>2, <3>1, <3>2
  <2>3. CASE h \in S /\ h # raw
    <3>1. Past(F2, h) = Past(F, h) /\ F2[h] = F[h] /\ F2[h + 1] = 0 /\ F2[h + 2] = F[h + 2]
      BY <1>15, <1>18, <2>3
    <3>2. Past(F, h) <= end2
      <4>1. end <= end2
        BY <1>2, <1>3, <1>6
      <4> QED
        BY <1>2, <1>7, <2>3, <4>1
    <3>3. Past(F, h) \in S2 \cup {end2}
      BY <1>7, <1>16, <2>3
    <3> QED
      BY <1>7, <2>3, <3>1, <3>2, <3>3
  <2> QED
    BY <1>17, <2>1, <2>2, <2>3
<1>21. ASSUME NEW g \in S2, NEW h \in S2, g < h PROVE Past(F2, g) <= h
  <2>1. CASE g \in S /\ g # raw /\ h \in S /\ h # raw
    BY <1>1, <1>18, <1>21, <2>1 DEF Layout
  <2>2. CASE g \in S /\ g # raw /\ (h = raw \/ (h = rest /\ rest < e))
    <3>1. Past(F, g) <= raw \/ e <= g
      BY <1>8, <2>2
    <3>2. Past(F, g) \in Nat /\ g \in Nat
      BY <1>7, <2>2
    <3>3. Past(F, g) <= h
      BY <1>6, <1>21, <2>2, <3>1, <3>2
    <3> QED
      BY <1>18, <2>2, <3>3
  <2>3. CASE (g = raw \/ (g = rest /\ rest < e)) /\ h \in S /\ h # raw
    <3>1. Past(F, h) <= raw \/ e <= h
      BY <1>8, <2>3
    <3>2. Past(F, h) \in Nat /\ h \in Nat /\ h <= Past(F, h)
      BY <1>7, <2>3
    <3>3. e <= h
      BY <1>6, <1>21, <2>3, <3>1, <3>2
    <3>4. Past(F2, g) <= e /\ Past(F2, g) \in Nat
      BY <1>18, <2>3
    <3> QED
      BY <3>2, <3>3, <3>4
  <2>4. CASE (g = raw \/ (g = rest /\ rest < e)) /\ (h = raw \/ (h = rest /\ rest < e))
    <3>1. ~(raw < raw) /\ ~(rest < rest) /\ ~(rest < raw) /\ rest <= rest
      BY <1>6
    <3>2. g = raw /\ h = rest
      BY <1>21, <2>4, <3>1
    <3> QED
      BY <1>18, <3>1, <3>2
  <2> HIDE DEF S2
  <2>5. g = raw \/ (g = rest /\ rest < e) \/ (g \in S /\ g # raw)
    BY <1>17
  <2>6. h = raw \/ (h = rest /\ rest < e) \/ (h \in S /\ h # raw)
    BY <1>17
  <2> QED
    BY <2>1, <2>2, <2>3, <2>4, <2>5, <2>6
<1>22. Layout(F2, end2, S2)
  <2>1. Base \in S2 \cup {end2}
    BY <1>1, <1>16 DEF Layout
  <2> HIDE DEF S2
  <2> QED
    BY <1>20, <1>21, <2>1 DEF Layout
<1>23. Fillers(bs2) \subseteq S2 /\ raw \notin Fillers(bs2) /\ L \cap Fillers(bs2) = {}
  <2>1. ASSUME NEW g \in Fillers(bs2) PROVE g \in S2 /\ g # raw /\ g \notin L
    <3>1. PICK u \in Mutators : OpenIn(bs2, u) /\ g = bs2[u][1]
      BY <2>1 DEF Fillers
    <3>2. CASE bs2[u] = <<rest, e>>
      <4>1. rest < e /\ g = rest
        BY <3>1, <3>2 DEF OpenIn
      <4>2. rest \notin L
        <5> SUFFICES ASSUME rest \in L PROVE FALSE
          OBVIOUS
        <5>1. Past(F, rest) <= raw \/ e <= rest
          BY <1>8, <1>9
        <5>2. rest \in S /\ rest + 3 <= Past(F, rest) /\ Past(F, rest) \in Nat
          BY <1>7, <1>9
        <5> QED
          BY <1>6, <4>1, <5>1, <5>2
      <4> QED
        BY <1>6, <4>1, <4>2
    <3>3. CASE OpenIn(bs, u) /\ bs2[u] = bs[u] /\ (bs[u][2] <= raw \/ e <= bs[u][1])
      <4>1. g \in Fillers(bs) /\ g \in S
        BY <1>2, <3>1, <3>3 DEF Fillers
      <4>2. g # raw
        <5>1. bs[u][1] \in Nat /\ bs[u][2] \in Nat /\ bs[u][1] + 3 <= bs[u][2] /\ g = bs[u][1]
          BY <1>1, <3>1, <3>3 DEF HeaderSize
        <5> QED
          BY <1>6, <3>3, <5>1
      <4> QED
        BY <4>1, <4>2 DEF L, ObjectsOf
    <3> QED
      BY <1>3, <3>1, <3>2, <3>3
  <2> HIDE DEF S2
  <2> QED
    BY <2>1
<1>24. ObjectsOf(bs2, S2) = L \cup {raw}
  <2>1. ASSUME NEW h \in S2, h \notin Fillers(bs2) PROVE h \in L \cup {raw}
    <3>1. CASE h = rest /\ rest < e
      BY <1>14, <2>1, <3>1
    <3>2. CASE h \in S /\ h # raw
      <4> SUFFICES ASSUME h \in Fillers(bs) PROVE FALSE
        BY <3>2 DEF L, ObjectsOf
      <4>1. PICK u \in Mutators : OpenIn(bs, u) /\ h = bs[u][1]
        BY DEF Fillers
      <4>2. OpenIn(bs2, u) /\ bs2[u] = bs[u]
        BY <1>3, <3>2, <4>1
      <4> QED
        BY <2>1, <4>1, <4>2 DEF Fillers
    <3> QED
      BY <1>17, <3>1, <3>2
  <2>2. L \subseteq S2 /\ raw \in S2
    BY <1>9
  <2> HIDE DEF S2
  <2> QED
    BY <1>23, <2>1, <2>2 DEF ObjectsOf
<1>25. ASSUME NEW h \in L \cup {raw}
       PROVE  /\ m2[h + 2] = Cell => m2[h] # 0
              /\ \A f \in Fields(m2, h) : m2[f] = Null \/ m2[f] - HeaderSize \in L \cup {raw}
  <2>1. CASE h = raw
    BY <1>4, <2>1
  <2>2. CASE h \in L
    <3>1. m2[h] = m[h] /\ m2[h + 2] = m[h + 2] /\ h \in Words /\ h + 2 \in Words
      BY <1>10, <1>11, <2>2
    <3>2. Fields(m2, h) = Fields(m, h)
      BY <1>1, <1>4, <3>1, SameFields
    <3>3. m[h + 2] = Cell => m[h] # 0
      BY <2>2 DEF Sound, L
    <3>4. ASSUME NEW f \in Fields(m2, h) PROVE m2[f] = Null \/ m2[f] - HeaderSize \in L
      <4>1. f \in h .. Past(F, h) - 1 /\ (m[f] = Null \/ m[f] - HeaderSize \in L)
        BY <2>2, <3>2, ObjectFields DEF F, L
      <4>2. m2[f] = m[f]
        BY <1>10, <2>2, <4>1
      <4> QED
        BY <4>1, <4>2
    <3> QED
      BY <3>1, <3>3, <3>4
  <2> QED
    BY <2>1, <2>2
<1> HIDE DEF S2
<1>26. Sound(m2, end2, bs2, ts, S2)
  BY <1>2, <1>3, <1>4, <1>20, <1>22, <1>23, <1>24, <1>25 DEF Sound, F2
<1>27. \A h \in L : m2[h] = m[h]
  BY <1>10, <1>11
<1> QED
  BY <1>24, <1>26, <1>27 DEF ServedIn, L

-----------------------------------------------------------------------------
(* An allocation *)

\* What Serve writes.
Written(m, raw, shape, size, tag) ==
  LET new == Header(m, raw, shape, size)
  IN IF shape[2] = 0 THEN new ELSE [new EXCEPT ![Payload(raw) + 1] = tag]

\* A tail too short for a header goes to the object, so that what is left of the buffer
\* is nothing or long enough for a filler; a buffer that begins elsewhere is left alone.
LEMMA AbsorbIs ==
  ASSUME NEW raw \in Nat, NEW shape \in Shapes, NEW buffer \in Nat \X Nat,
         NEW fit, fit = Absorb(buffer, shape, raw)
  PROVE  /\ shape[2] \in Nat
         /\ fit[1] \in Nat /\ shape[2] <= fit[1]
         /\ buffer[1] = raw + HeaderSize + shape[2] /\ buffer[1] <= buffer[2] =>
              /\ fit[2] = <<raw + HeaderSize + fit[1], buffer[2]>>
              /\ raw + HeaderSize + fit[1] <= buffer[2]
              /\ raw + HeaderSize + fit[1] < buffer[2] => raw + HeaderSize + fit[1] + HeaderSize <= buffer[2]
         /\ buffer[1] # raw + HeaderSize + shape[2] => fit = <<shape[2], buffer>>
<1>1. shape[2] \in Nat
  BY AllocAssumption DEF AllocAssumption
<1>2. buffer[1] \in Nat /\ buffer[2] \in Nat /\ buffer = <<buffer[1], buffer[2]>>
  OBVIOUS
<1>3. CASE /\ buffer # NoTlab /\ buffer[1] = raw + HeaderSize + shape[2]
           /\ buffer[2] - buffer[1] \in 1 .. HeaderSize - 1
  <2>1. fit = <<shape[2] + (buffer[2] - buffer[1]), <<buffer[2], buffer[2]>>>>
    BY <1>3 DEF Absorb
  <2>2. raw + HeaderSize + (shape[2] + (buffer[2] - buffer[1])) = buffer[2]
    BY <1>1, <1>2, <1>3 DEF HeaderSize
  <2>3. fit[1] = shape[2] + (buffer[2] - buffer[1]) /\ fit[2] = <<buffer[2], buffer[2]>>
    BY <2>1
  <2> QED
    BY <1>1, <1>2, <1>3, <2>2, <2>3 DEF HeaderSize
<1>4. CASE ~(/\ buffer # NoTlab /\ buffer[1] = raw + HeaderSize + shape[2]
             /\ buffer[2] - buffer[1] \in 1 .. HeaderSize - 1)
  <2>1. fit = <<shape[2], buffer>>
    BY <1>4 DEF Absorb
  <2>2. fit[1] = shape[2] /\ fit[2] = buffer
    BY <2>1
  <2>3. ASSUME buffer[1] = raw + HeaderSize + shape[2], buffer[1] <= buffer[2]
        PROVE  /\ fit[2] = <<raw + HeaderSize + fit[1], buffer[2]>>
               /\ raw + HeaderSize + fit[1] <= buffer[2]
               /\ raw + HeaderSize + fit[1] < buffer[2] => raw + HeaderSize + fit[1] + HeaderSize <= buffer[2]
    <3>1. buffer # NoTlab
      BY <1>1, <2>3 DEF NoTlab, Null, HeaderSize
    <3>2. ~(buffer[2] - buffer[1] \in 1 .. HeaderSize - 1)
      BY <1>4, <2>3, <3>1
    <3>3. buffer[1] < buffer[2] => buffer[1] + HeaderSize <= buffer[2]
      BY <1>2, <2>3, <3>2 DEF HeaderSize
    <3> QED
      BY <1>2, <2>2, <2>3, <3>3
  <2> QED
    BY <1>1, <2>1, <2>2, <2>3
<1> QED
  BY <1>3, <1>4

\* The words written make an object with a clean header and null fields.
LEMMA WrittenIs ==
  ASSUME NEW m \in [Words -> Int], NEW raw \in Nat, Base <= raw, NEW shape \in Shapes,
         NEW size \in Nat, shape[2] <= size, raw + HeaderSize + size <= End, NEW tag \in Int,
         NEW m2, m2 = Written(m, raw, shape, size, tag)
  PROVE  Clean(m, m2, raw, raw + HeaderSize + size)
<1> DEFINE new == Header(m, raw, shape, size)
<1>1. /\ shape[2] \in Nat /\ shape[1] \in Descriptors /\ shape[1] \in Int
      /\ shape[2] % 2 = 0 /\ (shape[1] = Cell => shape[2] # 0)
      /\ (shape[2] # 0 => shape[2] >= 2)
  <2>1. /\ shape[2] \in Nat /\ shape[1] \in Descriptors /\ shape[2] % 2 = 0
        /\ (shape[1] = Cell => shape[2] # 0)
    BY AllocAssumption DEF AllocAssumption
  <2>2. shape[1] \in Int
    BY <2>1 DEF Descriptors, Null, Atomic, Closure, Cell, Pairs
  <2>3. shape[2] # 0 => shape[2] >= 2
    BY <2>1
  <2> QED
    BY <2>1, <2>2, <2>3
<1>2. Base \in Nat /\ End \in Nat /\ raw < End /\ raw + 1 < End /\ raw + 2 < End /\ raw + 3 + size <= End
  BY WordsAreNat DEF HeaderSize
<1>3. raw \in Words /\ raw + 1 \in Words /\ raw + 2 \in Words
  <2>1. raw + 1 \in Nat /\ raw + 2 \in Nat /\ Base <= raw + 1 /\ Base <= raw + 2
    BY <1>2
  <2> QED
    BY <1>2, <2>1, WordsAreNat
<1>4. new = [a \in Words |-> IF a = raw THEN size
                             ELSE IF a = raw + 2 THEN shape[1]
                             ELSE IF a \in raw + 1 .. Payload(raw) + size - 1 THEN 0
                             ELSE m[a]]
  BY DEF Header
<1>5. new \in [Words -> Int]
  BY <1>1, <1>4
<1>6. new[raw] = size /\ new[raw + 1] = 0 /\ new[raw + 2] = shape[1]
  <2>1. raw + 1 \in raw + 1 .. Payload(raw) + size - 1
    BY DEF Payload, HeaderSize
  <2> QED
    BY <1>3, <1>4, <2>1
<1>7. \A a \in Words : raw + HeaderSize <= a /\ a < raw + HeaderSize + size => new[a] = 0
  <2> SUFFICES ASSUME NEW a \in Words, raw + HeaderSize <= a, a < raw + HeaderSize + size
               PROVE  new[a] = 0
    OBVIOUS
  <2>1. a \in Nat
    BY WordsAreNat
  <2>2. a \in raw + 1 .. Payload(raw) + size - 1 /\ a # raw /\ a # raw + 2
    BY <2>1 DEF Payload, HeaderSize
  <2> QED
    BY <1>4, <2>2
<1>8. \A a \in Words : a < raw \/ raw + HeaderSize + size <= a => new[a] = m[a]
  <2> SUFFICES ASSUME NEW a \in Words, a < raw \/ raw + HeaderSize + size <= a
               PROVE  new[a] = m[a]
    OBVIOUS
  <2>1. a \in Nat
    BY WordsAreNat
  <2>2. a \notin raw + 1 .. Payload(raw) + size - 1 /\ a # raw /\ a # raw + 2
    BY <2>1 DEF Payload, HeaderSize
  <2> QED
    BY <1>4, <2>2
<1> HIDE DEF new
<1> DEFINE p == raw + HeaderSize + 1
<1>9. /\ m2 \in [Words -> Int]
      /\ \A a \in Words : a # p => m2[a] = new[a]
      /\ shape[2] = 0 => m2 = new
  <2>1. m2 = IF shape[2] = 0 THEN new ELSE [new EXCEPT ![Payload(raw) + 1] = tag]
    BY DEF Written, new
  <2>2. Payload(raw) + 1 = p
    BY DEF Payload
  <2> QED
    BY <1>5, <2>1, <2>2
<1>10. m2[raw] = size /\ m2[raw + 1] = 0 /\ m2[raw + 2] = shape[1]
  <2>1. raw # p /\ raw + 1 # p /\ raw + 2 # p
    BY DEF HeaderSize
  <2> QED
    BY <1>3, <1>6, <1>9, <2>1
<1>11. ASSUME NEW a \in Words, a < raw \/ raw + HeaderSize + size <= a PROVE m2[a] = m[a]
  <2>1. CASE shape[2] = 0
    BY <1>8, <1>9, <1>11, <2>1
  <2>2. CASE shape[2] # 0
    <3>1. a \in Nat
      BY WordsAreNat
    <3>2. a # p
      BY <1>1, <1>11, <2>2, <3>1 DEF HeaderSize
    <3> QED
      BY <1>8, <1>9, <1>11, <3>2
  <2> QED
    BY <2>1, <2>2
<1>12. ASSUME NEW f \in Fields(m2, raw) PROVE m2[f] = Null
  <2>1. SizeAt(m2, raw) = size /\ DescriptorAt(m2, raw) = shape[1]
    BY <1>3, <1>9, <1>10 DEF SizeAt, DescriptorAt, Word
  <2>2. m2[raw + 2] = Cell => m2[raw] # 0
    BY <1>1, <1>10
  <2>3. raw + HeaderSize + m2[raw] <= End
    BY <1>10
  <2>4. f \in Nat /\ f \in Words /\ raw + HeaderSize <= f /\ f < raw + HeaderSize + m2[raw]
    BY <1>3, <1>9, <1>10, <2>2, <2>3, FieldsInside
  <2>5. f # p
    <3>1. CASE shape[1] = Cell
      <4>1. f \in {Payload(raw)}
        BY <2>1, <3>1 DEF Fields, Pairs, Cell
      <4> QED
        BY <4>1 DEF Payload, HeaderSize
    <3>2. CASE shape[1] = Pairs
      <4>1. f \in {Payload(raw) + 2 * e : e \in 0 .. (size \div 2) - 1}
        BY <2>1, <3>2 DEF Fields, Pairs, Cell
      <4>2. PICK e \in 0 .. (size \div 2) - 1 : f = raw + 3 + 2 * e
        BY <4>1 DEF Payload, HeaderSize
      <4>3. e \in Int /\ 2 * e # 1
        BY <4>2
      <4> QED
        BY <4>2, <4>3 DEF HeaderSize
    <3>3. CASE shape[1] # Cell /\ shape[1] # Pairs
      BY <2>1, <3>3 DEF Fields
    <3> QED
      BY <3>1, <3>2, <3>3
  <2>6. f < raw + HeaderSize + size
    BY <1>10, <2>4
  <2>7. m2[f] = 0
    BY <1>7, <1>9, <2>4, <2>5, <2>6
  <2> QED
    BY <2>7 DEF Null
<1>13. ((raw + HeaderSize + size) - raw) - HeaderSize = size
  BY DEF HeaderSize
<1> QED
  BY <1>1, <1>9, <1>10, <1>11, <1>12, <1>13 DEF Clean

\* There is room for need words at raw: in t's own buffer, in a fresh one or on its own.
RoomAt(bs, end, t, raw, buffer, end2, need) ==
  \/ /\ OpenIn(bs, t) /\ raw = bs[t][1] /\ buffer = <<raw + need, bs[t][2]>>
     /\ raw + need <= bs[t][2] /\ end2 = end
  \/ /\ ~OpenIn(bs, t) /\ raw = end /\ buffer = <<raw + need, end2>> /\ raw + need <= end2
  \/ raw = end /\ buffer = bs[t] /\ end2 = end + need

\* An object served in such room to an attached thread leaves the heap sound with that object more.
LEMMA ServeSound ==
  ASSUME NEW m, NEW end, NEW bs, NEW ts, NEW S, Sound(m, end, bs, ts, S),
         NEW t \in ts, NEW shape \in Shapes, NEW raw, NEW buffer, NEW end2 \in Base .. End,
         NEW need \in Nat, need = HeaderSize + shape[2],
         RoomAt(bs, end, t, raw, buffer, end2, need),
         NEW fit, fit = Absorb(buffer, shape, raw),
         NEW tag \in Int, NEW m2, m2 = Written(m, raw, shape, fit[1], tag),
         NEW bs2, bs2 = [bs EXCEPT ![t] = fit[2]]
  PROVE  ServedIn(m, ObjectsOf(bs, S), raw, m2, end2, bs2, ts)
<1>1. /\ m \in [Words -> Int] /\ end \in Base .. End /\ ts \subseteq Mutators /\ t \in Mutators
      /\ Gaps(bs, end) /\ bs \in [Mutators -> Nat \X Nat]
      /\ \A u \in Mutators : u \notin ts => bs[u] = NoTlab
  BY DEF Sound, Gaps
<1> USE DEF RoomAt
<1>2. /\ Base \in Nat /\ End \in Nat /\ end \in Nat /\ end2 \in Nat /\ Base <= end /\ end2 <= End /\ end <= End
      /\ bs[t][1] \in Nat /\ bs[t][2] \in Nat
  BY <1>1, WordsAreNat
<1>3. OpenIn(bs, t) => Base <= bs[t][1] /\ bs[t][2] <= end
  BY <1>1 DEF Gaps, OpenIn, NoTlab, Null
<1>4. raw \in Nat /\ Base <= raw /\ end <= end2
  BY <1>2, <1>3
<1>5. buffer \in Nat \X Nat
  BY <1>1, <1>2, <1>4
<1>6. shape[2] \in Nat /\ need > 0 /\ raw + need = raw + HeaderSize + shape[2]
  <2>1. shape[2] \in Nat
    BY <1>4, <1>5, AbsorbIs
  <2> QED
    BY <1>4, <2>1 DEF HeaderSize
<1> DEFINE rest == raw + HeaderSize + fit[1]
           e    == IF raw = end /\ buffer = bs[t] /\ end2 = end + need THEN end2 ELSE buffer[2]
<1>7. fit[1] \in Nat /\ shape[2] <= fit[1]
  BY <1>4, <1>5, AbsorbIs
<1>8. \/ /\ buffer[1] = raw + HeaderSize + shape[2] /\ buffer[1] <= buffer[2]
         /\ fit[2] = <<rest, buffer[2]>> /\ rest <= buffer[2]
         /\ rest < buffer[2] => rest + HeaderSize <= buffer[2]
      \/ /\ buffer[1] # raw + HeaderSize + shape[2] /\ fit = <<shape[2], buffer>>
         /\ raw = end /\ buffer = bs[t] /\ end2 = end + need
  <2>1. CASE buffer[1] = raw + HeaderSize + shape[2] /\ buffer[1] <= buffer[2]
    BY <1>4, <1>5, <2>1, AbsorbIs
  <2>2. CASE buffer[1] # raw + HeaderSize + shape[2]
    <3>1. fit = <<shape[2], buffer>>
      BY <1>4, <1>5, <2>2, AbsorbIs
    <3>2. raw = end /\ buffer = bs[t] /\ end2 = end + need
      BY <1>6, <2>2
    <3> QED
      BY <2>2, <3>1, <3>2
  <2>3. CASE buffer[1] = raw + HeaderSize + shape[2] /\ ~(buffer[1] <= buffer[2])
    <3>1. raw = end /\ buffer = bs[t] /\ end2 = end + need
      BY <1>5, <1>6, <2>3
    <3>2. bs[t][1] = raw + need /\ bs[t][1] > bs[t][2] /\ bs[t][1] > 0
      BY <1>2, <1>4, <1>6, <2>3, <3>1
    <3>3. bs[t] # NoTlab
      BY <3>2 DEF NoTlab, Null
    <3>4. bs[t][1] <= bs[t][2]
      BY <1>1, <3>3 DEF Gaps
    <3> QED
      BY <1>2, <3>2, <3>4
  <2> QED
    BY <2>1, <2>2, <2>3
<1>9. PICK f \in Nat : f = rest
  BY <1>4, <1>7 DEF HeaderSize
<1>10. raw + HeaderSize <= f
  BY <1>4, <1>7, <1>9 DEF HeaderSize
<1>11. \E x \in Nat : /\ f <= x /\ x <= end2 /\ (f < x => f + HeaderSize <= x)
                      /\ Serves(bs, end, t, raw, f, x, bs2, end2)
  <2>1. CASE raw = end /\ buffer = bs[t] /\ end2 = end + need
    <3>1. fit = <<shape[2], buffer>>
      <4>1. buffer[1] # raw + HeaderSize + shape[2]
        <5> SUFFICES ASSUME bs[t][1] = raw + need PROVE FALSE
          BY <1>6, <2>1
        <5>1. bs[t] # NoTlab
          BY <1>4, <1>6 DEF NoTlab, Null
        <5>2. bs[t][1] <= end
          BY <1>1, <1>2, <5>1 DEF Gaps
        <5> QED
          BY <1>2, <1>6, <2>1, <5>2
      <4> QED
        BY <1>8, <4>1
    <3>2. f = end2 /\ fit[2] = bs[t]
      BY <1>4, <1>6, <1>9, <2>1, <3>1
    <3>3. bs2 = bs
      BY <1>1, <3>2
    <3>4. Serves(bs, end, t, raw, f, end2, bs2, end2)
      BY <2>1, <3>2, <3>3 DEF Serves
    <3>5. f <= end2 /\ end2 <= end2 /\ ~(f < end2)
      BY <1>2, <3>2
    <3> QED
      BY <1>2, <3>4, <3>5
  <2>2. CASE /\ OpenIn(bs, t) /\ raw = bs[t][1] /\ buffer = <<raw + need, bs[t][2]>>
             /\ raw + need <= bs[t][2] /\ end2 = end
    <3>1. buffer[1] = raw + need /\ buffer[2] = bs[t][2]
      BY <2>2
    <3>2. fit[2] = <<f, bs[t][2]>> /\ f <= bs[t][2] /\ (f < bs[t][2] => f + HeaderSize <= bs[t][2])
      BY <1>6, <1>8, <1>9, <2>2, <3>1
    <3>3. Serves(bs, end, t, raw, f, bs[t][2], bs2, end2)
      BY <2>2, <3>2 DEF Serves
    <3>4. bs[t][2] <= end2
      BY <1>3, <2>2
    <3> QED
      BY <1>2, <3>2, <3>3, <3>4
  <2>3. CASE ~OpenIn(bs, t) /\ raw = end /\ buffer = <<raw + need, end2>> /\ raw + need <= end2
    <3>1. buffer[1] = raw + need /\ buffer[2] = end2
      BY <2>3
    <3>2. fit[2] = <<f, end2>> /\ f <= end2 /\ (f < end2 => f + HeaderSize <= end2)
      BY <1>6, <1>8, <1>9, <2>3, <3>1
    <3>3. Serves(bs, end, t, raw, f, end2, bs2, end2)
      BY <2>3, <3>2 DEF Serves
    <3> QED
      BY <1>2, <3>2, <3>3
  <2> QED
    BY <2>1, <2>2, <2>3
<1>12. PICK x \in Nat : /\ f <= x /\ x <= end2 /\ (f < x => f + HeaderSize <= x)
                        /\ Serves(bs, end, t, raw, f, x, bs2, end2)
  BY <1>11
<1>13. Carved(bs, end, raw, f, x, bs2, end2)
  BY <1>1, <1>2, <1>4, <1>10, <1>12, RoomCarved
<1>14. Clean(m, m2, raw, f)
  <2>1. raw + HeaderSize + fit[1] <= End
    BY <1>2, <1>9, <1>12
  <2>2. Clean(m, m2, raw, raw + HeaderSize + fit[1])
    BY <1>1, <1>4, <1>7, <2>1, WrittenIs
  <2> QED
    BY <1>9, <2>2
<1>15. \A u \in Mutators : u \notin ts => bs2[u] = NoTlab
  BY <1>1
<1> QED
  BY <1>4, <1>10, <1>12, <1>13, <1>14, <1>15, BlockServed

-----------------------------------------------------------------------------
(* Stores, threads and roots *)

\* A reference stored into a field of an object leaves the heap sound.
LEMMA StoreSound ==
  ASSUME NEW m, NEW end, NEW bs, NEW ts, NEW S, Sound(m, end, bs, ts, S),
         NEW h \in ObjectsOf(bs, S), NEW f \in Fields(m, h),
         NEW v \in Nat, v = Null \/ v - HeaderSize \in ObjectsOf(bs, S),
         NEW m2, m2 = [m EXCEPT ![f] = v]
  PROVE  Sound(m2, end, bs, ts, S) /\ \A g \in ObjectsOf(bs, S) : m2[g] = m[g]
<1> DEFINE F  == FillOf(m, bs, ts)
           F2 == FillOf(m2, bs, ts)
           L  == ObjectsOf(bs, S)
<1>1. /\ m \in [Words -> Int] /\ F \in [Words -> Int] /\ end \in Base .. End
      /\ IsFill(m, bs, F) /\ Layout(F, end, S)
      /\ \A u \in Mutators : OpenIn(bs, u) =>
           /\ bs[u][1] \in S /\ Past(F, bs[u][1]) = bs[u][2]
           /\ bs[u][1] + HeaderSize <= bs[u][2]
           /\ bs[u][1] \in Nat /\ bs[u][2] \in Nat /\ bs[u][2] <= end /\ Base <= bs[u][1]
      /\ \A g \in L :
           /\ g \in S /\ g \in Nat /\ m[g] \in Nat
           /\ F[g] = m[g] /\ m[g + 1] = 0 /\ F[g + 2] = m[g + 2]
           /\ \A a \in g .. Past(F, g) - 1 : a \in Words /\ F[a] = m[a]
           /\ \A u \in Mutators : OpenIn(bs, u) =>
                Past(F, g) <= bs[u][1] \/ bs[u][2] <= g
  BY SoundFacts
<1>2. /\ ts \in SUBSET Mutators /\ Gaps(bs, end) /\ Fillers(bs) \subseteq S
      /\ \A u \in Mutators : u \notin ts => bs[u] = NoTlab
      /\ \A g \in S : F[g + 1] = 0
      /\ \A g \in L : /\ m[g + 2] = Cell => m[g] # 0
                      /\ \A x \in Fields(m, g) : m[x] = Null \/ m[x] - HeaderSize \in L
  BY DEF Sound
<1>3. f \in Nat /\ f \in Words /\ f \in h .. Past(F, h) - 1 /\ h + HeaderSize <= f /\ h \in S /\ h \in Nat
  BY <1>1, ObjectFields
<1> HIDE DEF F, F2, L
<1>4. m2 \in [Words -> Int] /\ m2[f] = v /\ \A a \in Words : a # f => m2[a] = m[a]
  BY <1>1, <1>3
<1>5. IsFill(m2, bs, F2)
  BY <1>1, <1>2, <1>4, FillOfIs DEF F2
<1>6. \A g \in S : /\ g \in Nat /\ g \in Words /\ g + 1 \in Words /\ g + 2 \in Words
                   /\ g + 3 <= Past(F, g) /\ Past(F, g) \in Nat
  <2> SUFFICES ASSUME NEW g \in S
               PROVE  /\ g \in Nat /\ g \in Words /\ g + 1 \in Words /\ g + 2 \in Words
                      /\ g + 3 <= Past(F, g) /\ Past(F, g) \in Nat
    OBVIOUS
  <2>1. g \in Nat /\ g \in Words /\ g + 1 \in Words /\ g + 2 \in Words /\ F[g] \in Nat
    BY <1>1, LayoutWords
  <2> QED
    BY <2>1 DEF Past, HeaderSize
<1>7. ASSUME NEW g \in S PROVE g # f /\ g + 1 # f /\ g + 2 # f
  <2>1. g \in Nat /\ g + 3 <= Past(F, g) /\ Past(F, g) \in Nat /\ f < Past(F, h) /\ h + 3 <= f
    BY <1>3, <1>6 DEF HeaderSize
  <2>2. CASE g = h
    BY <2>1, <2>2
  <2>3. CASE g < h
    <3>1. Past(F, g) <= h
      BY <1>1, <1>3, <2>3 DEF Layout
    <3> QED
      BY <1>3, <2>1, <3>1
  <2>4. CASE h < g
    <3>1. Past(F, h) <= g /\ Past(F, h) \in Nat
      BY <1>1, <1>3, <1>6, <2>4 DEF Layout
    <3> QED
      BY <1>3, <2>1, <3>1
  <2> QED
    BY <1>3, <2>1, <2>2, <2>3, <2>4
<1>8. ASSUME NEW g \in L, NEW a \in g .. Past(F, g) - 1 PROVE a \in Words /\ F2[a] = m2[a] /\ F[a] = m[a]
  <2>1. a \in Words /\ F[a] = m[a] /\ a \in Nat /\ g \in S /\ g \in Nat /\ Past(F, g) \in Nat /\ g <= a /\ a < Past(F, g)
    BY <1>1, <1>6, <1>8, WordsAreNat
  <2>2. \A u \in Mutators : OpenIn(bs, u) => ~(bs[u][1] <= a /\ a < bs[u][2])
    <3> SUFFICES ASSUME NEW u \in Mutators, OpenIn(bs, u), bs[u][1] <= a, a < bs[u][2] PROVE FALSE
      OBVIOUS
    <3>1. bs[u][1] \in Nat /\ bs[u][2] \in Nat /\ (Past(F, g) <= bs[u][1] \/ bs[u][2] <= g)
      BY <1>1
    <3> QED
      BY <2>1, <3>1
  <2> QED
    BY <1>5, <2>1, <2>2 DEF IsFill
<1>9. ASSUME NEW g \in L
      PROVE  /\ g \in g .. Past(F, g) - 1 /\ g + 1 \in g .. Past(F, g) - 1 /\ g + 2 \in g .. Past(F, g) - 1
             /\ g \in S
  <2>1. g \in S
    BY <1>1
  <2> QED
    BY <1>6, <2>1
<1>10. \A g \in L : m2[g] = m[g] /\ m2[g + 1] = m[g + 1] /\ m2[g + 2] = m[g + 2]
  BY <1>4, <1>6, <1>7, <1>9
<1>11. ASSUME NEW g \in S PROVE F2[g] = F[g] /\ F2[g + 1] = 0 /\ F2[g + 2] = F[g + 2]
  <2>1. CASE g \in L
    <3>1. F2[g] = F[g] /\ F2[g + 1] = F[g + 1] /\ F2[g + 2] = F[g + 2]
      BY <1>8, <1>9, <1>10, <2>1
    <3> QED
      BY <1>2, <3>1
  <2>2. CASE g \in Fillers(bs)
    <3>1. PICK u \in Mutators : OpenIn(bs, u) /\ g = bs[u][1]
      BY <2>2 DEF Fillers
    <3> QED
      BY <1>1, <1>5, <3>1 DEF IsFill
  <2> QED
    BY <2>1, <2>2 DEF L, ObjectsOf
<1>12. Layout(F2, end, S)
  BY <1>1, <1>11 DEF Layout, Past
<1>13. ASSUME NEW g \in L
       PROVE  /\ m2[g + 2] = Cell => m2[g] # 0
              /\ \A x \in Fields(m2, g) : m2[x] = Null \/ m2[x] - HeaderSize \in L
  <2>1. g \in Words /\ g + 2 \in Words
    BY <1>6, <1>9
  <2>2. Fields(m2, g) = Fields(m, g)
    BY <1>1, <1>4, <1>10, <2>1, SameFields
  <2>3. ASSUME NEW x \in Fields(m2, g) PROVE m2[x] = Null \/ m2[x] - HeaderSize \in L
    <3>1. x \in Words
      BY <1>13, <2>2, ObjectFields DEF L
    <3>2. m[x] = Null \/ m[x] - HeaderSize \in L
      BY <1>2, <2>2
    <3>3. v = Null \/ v - HeaderSize \in L
      BY DEF L
    <3> QED
      BY <1>4, <3>1, <3>2, <3>3
  <2> QED
    BY <1>2, <1>10, <2>3
<1>14. Sound(m2, end, bs, ts, S)
  BY <1>1, <1>2, <1>4, <1>11, <1>12, <1>13 DEF Sound, F2, L
<1> QED
  BY <1>10, <1>14 DEF L

\* A thread that attaches has no buffer yet.
LEMMA SameThreads ==
  ASSUME NEW m, NEW end, NEW bs, NEW ts, NEW S, Sound(m, end, bs, ts, S),
         NEW ts2 \in SUBSET Mutators, ts \subseteq ts2
  PROVE  Sound(m, end, bs, ts2, S)
<1>1. \A t \in Mutators : t \notin ts => bs[t] = NoTlab
  BY DEF Sound
<1>2. {t \in ts : bs[t][1] < bs[t][2]} = {t \in ts2 : bs[t][1] < bs[t][2]}
  <2>1. \A t \in ts2 : t \notin ts => ~(bs[t][1] < bs[t][2])
    BY <1>1 DEF NoTlab, Null
  <2> QED
    BY <2>1
<1>3. FillOf(m, bs, ts2) = FillOf(m, bs, ts)
  BY <1>2 DEF FillOf
<1>4. \A t \in Mutators : t \notin ts2 => bs[t] = NoTlab
  BY <1>1
<1> QED
  BY <1>3, <1>4 DEF Sound

\* References stay good when objects are added, and a root may be set to one of them or
\* to null.
LEMMA RootedGrows ==
  ASSUME NEW m, NEW L, NEW rt, NEW off, Rooted(m, L, rt, off),
         NEW m2, NEW L2, L \subseteq L2, \A h \in L : m2[h] = m[h]
  PROVE  Rooted(m2, L2, rt, off)
  BY DEF Rooted

\* See above.
LEMMA RootedSet ==
  ASSUME NEW m, NEW L, NEW rt, NEW off, Rooted(m, L, rt, off), NEW r \in Roots,
         NEW v \in Nat, NEW o \in Nat,
         v = Null \/ (v - o - HeaderSize \in L /\ o <= m[v - o - HeaderSize])
  PROVE  Rooted(m, L, [rt EXCEPT ![r] = v], [off EXCEPT ![r] = o])
  BY DEF Rooted

-----------------------------------------------------------------------------
(* Marking and forwarding *)

\* A reference into an object, or one past its end, is resolved to that object.
LEMMA ReferenceIs ==
  ASSUME NEW m, NEW end, NEW bs, NEW ts, NEW S, Sound(m, end, bs, ts, S),
         NEW F, F = FillOf(m, bs, ts), NEW h \in ObjectsOf(bs, S), NEW i \in Nat, i <= m[h],
         NEW v, v = h + HeaderSize + i
  PROVE  Resolve(F, S, v) = {h}
<1>1. /\ F \in [Words -> Int] /\ end \in Base .. End /\ Layout(F, end, S)
      /\ h \in S /\ h \in Nat /\ m[h] \in Nat /\ F[h] = m[h]
  BY SoundFacts
<1>2. v \in Nat /\ Payload(h) <= v /\ v <= Past(F, h)
  BY <1>1 DEF Payload, Past, HeaderSize
<1> QED
  BY <1>1, <1>2, ResolveIs

\* K is made of objects of L, among them those the roots refer to and, with every object,
\* those its fields refer to.
Traced(F, L, rt, off, K) ==
  /\ K \subseteq L
  /\ \A r \in Roots : rt[r] # Null => rt[r] - off[r] - HeaderSize \in K
  /\ \A h \in K : \A f \in Fields(F, h) :
       /\ f \in Nat /\ f \in Words /\ f \in h .. Past(F, h) - 1 /\ h + HeaderSize <= f
       /\ F[f] = Null \/ F[f] - HeaderSize \in K

\* And K has nothing that it need not have: whatever else of L has the objects of the
\* roots and, with every object, those its fields refer to, has K.
Closed(F, rt, off, c) ==
  /\ \A r \in Roots : rt[r] # Null => rt[r] - off[r] - HeaderSize \in c
  /\ \A h \in c : \A f \in Fields(F, h) : F[f] # Null => F[f] - HeaderSize \in c
Minimal(F, L, rt, off, K) == \A c \in SUBSET L : Closed(F, rt, off, c) => K \subseteq c

\* So are the objects that are marked.
LEMMA MarkedIs ==
  ASSUME NEW m, NEW end, NEW bs, NEW ts, NEW S, Sound(m, end, bs, ts, S),
         NEW F, F = FillOf(m, bs, ts),
         NEW rt, NEW off, Rooted(m, ObjectsOf(bs, S), rt, off),
         NEW K, K = Marked(F, S, {rt[r] : r \in Roots} \ {Null})
  PROVE  Traced(F, ObjectsOf(bs, S), rt, off, K) /\ Minimal(F, ObjectsOf(bs, S), rt, off, K)
<1> DEFINE L == ObjectsOf(bs, S)
           values == {rt[r] : r \in Roots} \ {Null}
           targets(vs) == UNION {Resolve(F, S, v) : v \in vs}
           start == targets(values)
           next  == [h \in S |-> targets({Word(F, f) : f \in Fields(F, h)})]
<1>1. /\ m \in [Words -> Int] /\ F \in [Words -> Int] /\ end \in Base .. End /\ Layout(F, end, S)
      /\ \A h \in L : /\ h \in S /\ h \in Nat /\ m[h] \in Nat /\ F[h] = m[h] /\ F[h + 2] = m[h + 2]
  BY SoundFacts
<1>2. \A vs : targets(vs) \subseteq S
  BY DEF Resolve
<1>3. S \subseteq Words /\ L \subseteq S
  BY <1>1 DEF Layout
<1>4. IsFiniteSet(S)
  BY <1>3, WordsFinite, FS_Subset
<1>5. start \in SUBSET S /\ next \in [S -> SUBSET S]
  <2> HIDE DEF targets, values
  <2> QED
    BY <1>2
<1>6. K = Reached(start, next)
  BY DEF Marked
<1> HIDE DEF L
<1>7. ASSUME NEW h \in L, NEW f \in Fields(F, h)
      PROVE  /\ f \in Nat /\ f \in Words /\ f \in h .. Past(F, h) - 1 /\ h + HeaderSize <= f
             /\ Word(F, f) = F[f]
             /\ \/ F[f] = Null /\ Resolve(F, S, F[f]) = {}
                \/ F[f] - HeaderSize \in L /\ Resolve(F, S, F[f]) = {F[f] - HeaderSize}
  <2>1. h \in S /\ h \in Words /\ h + 2 \in Words
    BY <1>1, LayoutWords
  <2>2. Fields(F, h) = Fields(m, h)
    BY <1>1, <2>1, SameFields
  <2>3. /\ f \in Nat /\ f \in Words /\ f \in h .. Past(F, h) - 1 /\ h + HeaderSize <= f
        /\ F[f] = m[f] /\ (m[f] = Null \/ m[f] - HeaderSize \in L)
    BY <2>2, ObjectFields DEF L
  <2>4. Word(F, f) = F[f]
    BY <1>1, <2>3 DEF Word
  <2>5. CASE F[f] = Null
    <3>1. Resolve(F, S, Null) = {}
      BY <1>1, ResolveIs
    <3> QED
      BY <2>3, <2>4, <2>5, <3>1
  <2>6. CASE F[f] # Null
    <3>1. PICK g \in L : g = F[f] - HeaderSize
      BY <2>3, <2>6
    <3>2. g \in Nat /\ m[g] \in Nat /\ 0 <= m[g] /\ F[f] = g + HeaderSize + 0
      <4>1. g \in Nat /\ m[g] \in Nat /\ F[f] \in Int
        BY <1>1, <2>3
      <4> QED
        BY <3>1, <4>1 DEF HeaderSize
    <3>3. Resolve(F, S, F[f]) = {g}
      BY <3>2, ReferenceIs DEF L
    <3> QED
      BY <2>3, <2>4, <3>1, <3>3
  <2> QED
    BY <2>5, <2>6
<1>8. ASSUME NEW r \in Roots, rt[r] # Null
      PROVE  rt[r] - off[r] - HeaderSize \in L /\ Resolve(F, S, rt[r]) = {rt[r] - off[r] - HeaderSize}
  <2>1. PICK g \in L : g = rt[r] - off[r] - HeaderSize /\ off[r] <= m[g]
    BY <1>8 DEF Rooted, L
  <2>2. rt[r] \in Nat /\ off[r] \in Nat /\ g \in Nat
    BY <1>1 DEF Rooted
  <2>3. rt[r] = g + HeaderSize + off[r]
    BY <2>1, <2>2 DEF HeaderSize
  <2>4. Resolve(F, S, rt[r]) = {g}
    BY <2>1, <2>2, <2>3, ReferenceIs DEF L
  <2> QED
    BY <2>1, <2>4
<1>9. start \subseteq L /\ \A r \in Roots : rt[r] # Null => rt[r] - off[r] - HeaderSize \in start
  <2>1. ASSUME NEW x \in start PROVE x \in L
    <3>1. PICK r \in Roots : rt[r] # Null /\ x \in Resolve(F, S, rt[r])
      OBVIOUS
    <3> QED
      BY <1>8, <3>1
  <2>2. ASSUME NEW r \in Roots, rt[r] # Null PROVE rt[r] - off[r] - HeaderSize \in start
    <3>1. rt[r] - off[r] - HeaderSize \in Resolve(F, S, rt[r])
      BY <1>8, <2>2
    <3> QED
      BY <2>2, <3>1
  <2> QED
    BY <2>1, <2>2
<1>10. ASSUME NEW h \in L
       PROVE  /\ next[h] \subseteq L
              /\ \A f \in Fields(F, h) : F[f] = Null \/ F[f] - HeaderSize \in next[h]
  <2>1. h \in S
    BY <1>1
  <2>2. next[h] = targets({Word(F, f) : f \in Fields(F, h)})
    BY <2>1
  <2>3. ASSUME NEW x \in next[h] PROVE x \in L
    <3>1. PICK f \in Fields(F, h) : x \in Resolve(F, S, Word(F, f))
      BY <2>2, <2>3
    <3> QED
      BY <1>7, <3>1
  <2>4. ASSUME NEW f \in Fields(F, h), F[f] # Null PROVE F[f] - HeaderSize \in next[h]
    <3>1. Resolve(F, S, Word(F, f)) = {F[f] - HeaderSize}
      BY <1>7, <2>4
    <3> QED
      BY <2>2, <3>1
  <2> HIDE DEF next
  <2> QED
    BY <2>3, <2>4
<1> HIDE DEF start, next
<1>11. /\ start \subseteq K /\ K \subseteq S /\ \A x \in K : next[x] \subseteq K
       /\ \A c \in SUBSET S : start \subseteq c /\ (\A x \in c : next[x] \subseteq c) => K \subseteq c
  BY <1>4, <1>5, <1>6, ReachedIsLeast
<1>12. K \subseteq L
  BY <1>3, <1>9, <1>10, <1>11
<1>13. \A r \in Roots : rt[r] # Null => rt[r] - off[r] - HeaderSize \in K
  BY <1>9, <1>11
<1>14. ASSUME NEW h \in K, NEW f \in Fields(F, h)
       PROVE  /\ f \in Nat /\ f \in Words /\ f \in h .. Past(F, h) - 1 /\ h + HeaderSize <= f
              /\ F[f] = Null \/ F[f] - HeaderSize \in K
  BY <1>7, <1>10, <1>11, <1>12
<1>15. ASSUME NEW c \in SUBSET L, Closed(F, rt, off, c) PROVE K \subseteq c
  <2>1. start \subseteq c
    <3> SUFFICES ASSUME NEW r \in Roots, rt[r] # Null, NEW x \in Resolve(F, S, rt[r]) PROVE x \in c
      BY DEF start
    <3> QED
      BY <1>8, <1>15 DEF Closed
  <2>2. ASSUME NEW h \in c PROVE next[h] \subseteq c
    <3> SUFFICES ASSUME NEW f \in Fields(F, h), NEW x \in Resolve(F, S, Word(F, f)) PROVE x \in c
      BY <1>3 DEF next
    <3>1. h \in L
      BY <1>15
    <3>2. /\ Word(F, f) = F[f]
          /\ \/ F[f] = Null /\ Resolve(F, S, F[f]) = {}
             \/ Resolve(F, S, F[f]) = {F[f] - HeaderSize}
      BY <1>7, <3>1
    <3>3. PICK v : v = F[f] /\ x \in Resolve(F, S, v)
      BY <3>2
    <3>4. F[f] # Null /\ x = F[f] - HeaderSize
      <4>1. CASE Resolve(F, S, v) = {}
        BY <3>3, <4>1
      <4>2. CASE v # Null /\ Resolve(F, S, v) = {v - HeaderSize}
        BY <3>3, <4>2
      <4>3. CASE v = Null
        <5>1. Resolve(F, S, Null) = {}
          BY <1>1, ResolveIs
        <5> QED
          BY <3>3, <4>3, <5>1
      <4> QED
        BY <3>2, <3>3, <4>1, <4>2, <4>3
    <3> QED
      BY <1>15, <3>4 DEF Closed
  <2>3. c \in SUBSET S
    BY <1>3
  <2> QED
    BY <1>11, <2>1, <2>2, <2>3
<1> QED
  BY <1>12, <1>13, <1>14, <1>15 DEF Traced, Minimal, L

\* A null slot stays null, and a reference into an object that has moved moves with it.
Forwards(m, F, S, to) ==
  /\ ForwardedSlot(F, S, to, Null) = Null
  /\ \A h \in DOMAIN to, i \in Nat : i <= m[h] =>
       ForwardedSlot(F, S, to, h + HeaderSize + i) = to[h] + HeaderSize + i
  /\ \A v \in Int : ForwardedSlot(F, S, to, v) \in Int

\* That is what becomes of slots.
LEMMA ForwardedIs ==
  ASSUME NEW m, NEW end, NEW bs, NEW ts, NEW S, Sound(m, end, bs, ts, S),
         NEW F, F = FillOf(m, bs, ts), NEW to, DOMAIN to \subseteq ObjectsOf(bs, S),
         \A h \in DOMAIN to : to[h] \in Nat
  PROVE  Forwards(m, F, S, to)
<1>1. /\ F \in [Words -> Int] /\ end \in Base .. End /\ Layout(F, end, S)
      /\ \A h \in ObjectsOf(bs, S) : h \in S /\ h \in Nat /\ m[h] \in Nat
  BY SoundFacts
<1>2. ForwardedSlot(F, S, to, Null) = Null
  <2>1. Resolve(F, S, Null) = {}
    BY <1>1, ResolveIs
  <2> QED
    BY <2>1 DEF ForwardedSlot
<1>3. ASSUME NEW h \in DOMAIN to, NEW i \in Nat, i <= m[h]
      PROVE  ForwardedSlot(F, S, to, h + HeaderSize + i) = to[h] + HeaderSize + i
  <2>1. h \in Nat /\ h \in ObjectsOf(bs, S) /\ to[h] \in Nat
    BY <1>1
  <2>2. PICK v : v = h + HeaderSize + i
    OBVIOUS
  <2>3. Resolve(F, S, v) = {h}
    BY <1>3, <2>1, <2>2, ReferenceIs
  <2>4. ForwardedSlot(F, S, to, v) = v + to[h] - h
    BY <2>3 DEF ForwardedSlot
  <2>5. v + to[h] - h = to[h] + HeaderSize + i
    BY <2>1, <2>2 DEF HeaderSize
  <2> QED
    BY <2>2, <2>4, <2>5
<1>4. ASSUME NEW v \in Int PROVE ForwardedSlot(F, S, to, v) \in Int
  <2> DEFINE target == Resolve(F, S, v) \cap DOMAIN to
             h == CHOOSE h \in target : TRUE
  <2>1. CASE target = {}
    BY <2>1 DEF ForwardedSlot
  <2>2. CASE target # {}
    <3>1. h \in DOMAIN to
      BY <2>2
    <3>2. ForwardedSlot(F, S, to, v) = v + to[h] - h
      BY <2>2 DEF ForwardedSlot
    <3> HIDE DEF h
    <3>3. to[h] \in Nat /\ h \in Nat
      BY <1>1, <3>1
    <3> QED
      BY <3>2, <3>3
  <2> QED
    BY <2>1, <2>2
<1> QED
  BY <1>2, <1>3, <1>4 DEF Forwards

-----------------------------------------------------------------------------
(* What a collection leaves *)

\* A word belongs to one block only.
LEMMA OneBlock ==
  ASSUME NEW m \in [Words -> Int], NEW end \in Base .. End, NEW S, Layout(m, end, S),
         NEW g \in S, NEW h \in S, NEW a \in Nat,
         a \in g .. Past(m, g) - 1, a \in h .. Past(m, h) - 1
  PROVE  g = h
<1>1. /\ g \in Nat /\ h \in Nat /\ m[g] \in Nat /\ m[h] \in Nat
  BY LayoutWords
<1>2. Past(m, g) \in Nat /\ Past(m, h) \in Nat
  BY <1>1 DEF Past, HeaderSize
<1>3. g <= a /\ a < Past(m, g) /\ h <= a /\ a < Past(m, h)
  BY <1>1, <1>2
<1>4. /\ g < h => Past(m, g) <= h
      /\ h < g => Past(m, h) <= g
  BY DEF Layout
<1> QED
  BY <1>1, <1>2, <1>3, <1>4

\* u has the fields of the objects of K forwarded and keeps their other words, sizes and
\* descriptors among them, except for their forward words.
Updates(F, S, K, to, u) ==
  /\ u \in [Words -> Int]
  /\ \A h \in K : /\ u[h] = F[h] /\ u[h + 2] = F[h + 2]
                  /\ \A f \in Fields(F, h) : u[f] = ForwardedSlot(F, S, to, F[f])
                  /\ \A a \in h .. Past(F, h) - 1 : a # h + 1 /\ a \notin Fields(F, h) => u[a] = F[a]

\* The update of the references does so: no forward word it writes lies on any of these.
LEMMA UpdatedIs ==
  ASSUME NEW m, NEW end, NEW bs, NEW ts, NEW S, Sound(m, end, bs, ts, S),
         NEW F, F = FillOf(m, bs, ts),
         NEW rt, NEW off, Rooted(m, ObjectsOf(bs, S), rt, off),
         NEW K, K = Marked(F, S, {rt[r] : r \in Roots} \ {Null}),
         NEW to, DOMAIN to = K, \A h \in K : to[h] \in Nat,
         NEW u, u = Updated(F, S, S, to)
  PROVE  Updates(F, S, K, to, u)
<1> DEFINE fields == UNION {Fields(F, h) : h \in K}
<1>1. /\ F \in [Words -> Int] /\ end \in Base .. End /\ Layout(F, end, S)
      /\ \A h \in ObjectsOf(bs, S) : h \in S /\ h \in Nat /\ m[h] \in Nat /\ F[h] = m[h]
  BY SoundFacts
<1>2. /\ K \subseteq ObjectsOf(bs, S)
      /\ \A h \in K : \A f \in Fields(F, h) :
           f \in Nat /\ f \in Words /\ f \in h .. Past(F, h) - 1 /\ h + HeaderSize <= f
  <2>1. Traced(F, ObjectsOf(bs, S), rt, off, K)
    BY MarkedIs
  <2> QED
    BY <2>1 DEF Traced
<1>3. \A v \in Int : ForwardedSlot(F, S, to, v) \in Int
  <2>1. Forwards(m, F, S, to)
    BY <1>2, ForwardedIs
  <2> QED
    BY <2>1 DEF Forwards
<1>4. u = [a \in Words |->
             IF a - 1 \in K THEN Payload(to[a - 1])
             ELSE IF a - 1 \in S THEN 0
             ELSE IF a \in fields THEN ForwardedSlot(F, S, to, F[a])
             ELSE F[a]]
  BY <1>1 DEF Updated
<1> HIDE DEF fields
<1>5. u \in [Words -> Int]
  <2>1. ASSUME NEW a \in Words PROVE u[a] \in Int
    <3>1. F[a] \in Int
      BY <1>1
    <3>2. a - 1 \in K => Payload(to[a - 1]) \in Int
      BY DEF Payload, HeaderSize
    <3> QED
      BY <1>3, <1>4, <3>1, <3>2
  <2>2. u = [a \in Words |-> u[a]]
    BY <1>4
  <2> QED
    BY <2>1, <2>2
<1>6. ASSUME NEW h \in K, NEW a \in h .. Past(F, h) - 1, a # h + 1
      PROVE  a - 1 \notin S /\ a \in Nat /\ h \in S /\ h \in Nat
  <2>1. h \in S /\ h \in Nat /\ F[h] \in Nat /\ Past(F, h) \in Nat
    <3>1. h \in S /\ h \in Nat /\ F[h] \in Nat
      BY <1>1, <1>2
    <3> QED
      BY <3>1 DEF Past, HeaderSize
  <2>2. a \in Nat /\ h <= a /\ a < Past(F, h)
    BY <1>6, <2>1
  <2>3. ASSUME a - 1 \in S PROVE FALSE
    <3>1. PICK g \in S : g = a - 1
      BY <2>3
    <3>2. g \in Nat /\ g + HeaderSize <= Past(F, g) /\ F[g] \in Nat
      BY <1>1, LayoutWords
    <3>3. Past(F, g) \in Nat
      BY <3>2 DEF Past, HeaderSize
    <3>4. a \in g .. Past(F, g) - 1
      BY <2>2, <3>1, <3>2, <3>3 DEF HeaderSize
    <3>5. g = h
      BY <1>1, <1>6, <2>1, <2>2, <3>4, OneBlock
    <3> QED
      BY <1>6, <2>2, <3>1, <3>2, <3>5
  <2> QED
    BY <2>1, <2>2, <2>3
<1>7. ASSUME NEW h \in K, NEW a \in h .. Past(F, h) - 1, a # h + 1, a \notin Fields(F, h)
      PROVE  u[a] = F[a]
  <2>1. a - 1 \notin S /\ a \in Nat /\ h \in S /\ h \in Nat /\ K \subseteq S
    BY <1>1, <1>2, <1>6, <1>7
  <2>2. a \notin fields
    <3> SUFFICES ASSUME NEW g \in K, a \in Fields(F, g) PROVE FALSE
      BY DEF fields
    <3>1. a \in g .. Past(F, g) - 1 /\ g \in S
      BY <1>1, <1>2
    <3>2. g = h
      BY <1>1, <1>7, <2>1, <3>1, OneBlock
    <3> QED
      BY <1>7, <3>2
  <2>3. a \in Words
    BY <1>2, SoundFacts
  <2> QED
    BY <1>4, <2>1, <2>2, <2>3
<1>8. ASSUME NEW h \in K PROVE u[h] = F[h] /\ u[h + 2] = F[h + 2]
  <2>1. h \in S /\ h \in Nat /\ F[h] \in Nat
    BY <1>1, <1>2
  <2>2. h \in h .. Past(F, h) - 1 /\ h + 2 \in h .. Past(F, h) - 1 /\ h # h + 1 /\ h + 2 # h + 1
    BY <2>1 DEF Past, HeaderSize
  <2>3. h \notin Fields(F, h) /\ h + 2 \notin Fields(F, h)
    <3> SUFFICES ASSUME NEW f \in Fields(F, h) PROVE f # h /\ f # h + 2
      OBVIOUS
    <3>1. f \in Nat /\ h + HeaderSize <= f
      BY <1>2
    <3> QED
      BY <2>1, <3>1 DEF HeaderSize
  <2> QED
    BY <1>7, <2>2, <2>3
<1>9. ASSUME NEW h \in K, NEW f \in Fields(F, h) PROVE u[f] = ForwardedSlot(F, S, to, F[f])
  <2>1. f \in Nat /\ f \in Words /\ f \in h .. Past(F, h) - 1 /\ h + HeaderSize <= f /\ h \in Nat
    BY <1>1, <1>2
  <2>2. f # h + 1
    BY <2>1 DEF HeaderSize
  <2>3. f - 1 \notin S
    BY <1>6, <2>1, <2>2
  <2>4. K \subseteq S /\ f \in fields
    BY <1>1, <1>2, <1>9 DEF fields
  <2> QED
    BY <1>4, <2>1, <2>3, <2>4
<1> QED
  BY <1>5, <1>7, <1>8, <1>9 DEF Updates

\* x is as far into the object at g as one of its fields is into the object at h.
AtField(m, h, g, x) == \E i \in Nat : x = g + i /\ h + i \in Fields(m, h)

\* An object and its copy have their fields at the same places.
LEMMA ShiftedFields ==
  ASSUME NEW m \in [Words -> Int], NEW m2 \in [Words -> Int],
         NEW h \in Words, NEW g \in Words, h + 2 \in Words, g + 2 \in Words,
         m2[g] = m[h], m2[g + 2] = m[h + 2], m[h] \in Nat,
         NEW x \in Fields(m2, g)
  PROVE  AtField(m, h, g, x)
<1>1. /\ SizeAt(m2, g) = m[h] /\ SizeAt(m, h) = m[h]
      /\ DescriptorAt(m2, g) = m[h + 2] /\ DescriptorAt(m, h) = m[h + 2]
  BY DEF SizeAt, DescriptorAt, Word
<1>2. g \in Nat /\ h \in Nat
  BY WordsAreNat
<1>3. CASE m[h + 2] = Cell
  <2>1. x \in {Payload(g)} /\ Fields(m, h) = {Payload(h)}
    BY <1>1, <1>3 DEF Fields, Pairs, Cell
  <2>2. x = g + 3 /\ h + 3 \in Fields(m, h)
    BY <2>1 DEF Payload, HeaderSize
  <2> QED
    BY <2>2 DEF AtField
<1>4. CASE m[h + 2] = Pairs
  <2>1. /\ x \in {Payload(g) + 2 * e : e \in 0 .. (m[h] \div 2) - 1}
        /\ Fields(m, h) = {Payload(h) + 2 * e : e \in 0 .. (m[h] \div 2) - 1}
    BY <1>1, <1>4 DEF Fields, Pairs, Cell
  <2>2. PICK e \in 0 .. (m[h] \div 2) - 1 : x = Payload(g) + 2 * e
    BY <2>1
  <2>3. Payload(h) + 2 * e \in Fields(m, h)
    BY <2>1
  <2>4. PICK i \in Nat : i = HeaderSize + 2 * e
    <3>1. e \in Nat
      OBVIOUS
    <3> QED
      BY <3>1 DEF HeaderSize
  <2>5. x = g + i /\ Payload(h) + 2 * e = h + i
    <3>1. e \in Nat
      OBVIOUS
    <3> QED
      BY <1>2, <2>2, <2>4, <3>1 DEF Payload, HeaderSize
  <2> QED
    BY <2>3, <2>5 DEF AtField
<1>5. CASE m[h + 2] # Cell /\ m[h + 2] # Pairs
  BY <1>1, <1>5 DEF Fields
<1> QED
  BY <1>3, <1>4, <1>5

\* In the heap m2 that is left, the words of the objects that have arrived are those of the
\* updated heap u, but for the forward word, which is clean.
Landed(F, K, to, u, m2) ==
  /\ m2 \in [Words -> Int]
  /\ \A h \in K :
       /\ to[h] \in Nat /\ to[h] \in Words /\ to[h] + 2 \in Words
       /\ to[h] + HeaderSize + F[h] <= End
       /\ \A i \in Nat : i < HeaderSize + F[h] =>
            to[h] + i \in Words /\ m2[to[h] + i] = IF i = 1 THEN 0 ELSE u[h + i]
LEMMA CopiedWords ==
  ASSUME NEW F \in [Words -> Int], NEW end \in Base .. End,
         NEW K, \A h \in K : h \in Nat /\ F[h] \in Nat,
         NEW to, NEW nt, Packs(F, end, K, to, nt),
         NEW u \in [Words -> Int], NEW w, Arrived(F, K, to, u, w),
         NEW m2, m2 = Released(w, nt)
  PROVE  Landed(F, K, to, u, m2)
<1>1. /\ nt \in Nat /\ Base <= nt /\ nt <= end
      /\ \A h \in K : to[h] \in Nat /\ Base <= to[h] /\ to[h] + HeaderSize + F[h] <= nt
  BY DEF Packs
<1>2. /\ w \in [Words -> Int]
      /\ \A h \in K : \A i \in 0 .. HeaderSize + F[h] - 1 :
           w[to[h] + i] = IF i = 1 THEN 0 ELSE u[h + i]
  BY DEF Arrived
<1>3. Base \in Nat /\ End \in Nat /\ end \in Nat /\ end <= End
  BY WordsAreNat
<1>4. m2 \in [Words -> Int] /\ \A a \in Words : a < nt => m2[a] = w[a]
  <2>1. m2 = [a \in Words |-> IF a >= nt THEN Stale ELSE w[a]]
    BY DEF Released
  <2>2. Stale \in Int
    BY <1>3 DEF Stale, Payload, HeaderSize
  <2>3. \A a \in Words : a < nt => ~(a >= nt)
    <3> SUFFICES ASSUME NEW a \in Words, a < nt PROVE ~(a >= nt)
      OBVIOUS
    <3>1. a \in Nat
      BY WordsAreNat
    <3> QED
      BY <1>1, <3>1
  <2> QED
    BY <1>2, <2>1, <2>2, <2>3
<1>5. ASSUME NEW h \in K, NEW i \in Nat, i < HeaderSize + F[h]
      PROVE  to[h] + i \in Words /\ m2[to[h] + i] = IF i = 1 THEN 0 ELSE u[h + i]
  <2>1. /\ to[h] \in Nat /\ Base <= to[h] /\ to[h] + HeaderSize + F[h] <= nt /\ F[h] \in Nat
    BY <1>1
  <2>2. to[h] + i \in Nat /\ Base <= to[h] + i /\ to[h] + i < nt /\ to[h] + i < End
    BY <1>1, <1>3, <1>5, <2>1 DEF HeaderSize
  <2>3. to[h] + i \in Words
    BY <2>2, WordsAreNat
  <2>4. i \in 0 .. HeaderSize + F[h] - 1
    BY <1>5, <2>1 DEF HeaderSize
  <2> QED
    BY <1>2, <1>4, <2>2, <2>3, <2>4
<1>6. ASSUME NEW h \in K PROVE to[h] \in Words /\ to[h] + 2 \in Words
  <2>1. 0 < HeaderSize + F[h] /\ 2 < HeaderSize + F[h] /\ to[h] + 0 = to[h]
    BY <1>1 DEF HeaderSize
  <2> QED
    BY <1>5, <2>1
<1>7. ASSUME NEW h \in K PROVE to[h] + HeaderSize + F[h] <= End
  BY <1>1, <1>3 DEF HeaderSize
<1> QED
  BY <1>1, <1>4, <1>5, <1>6, <1>7 DEF Landed

\* The heap is intact when the objects that were traced have arrived where they were forwarded
\* to with their references forwarded, and the rest is released.
LEMMA CopiesSound ==
  ASSUME NEW m, NEW end, NEW bs, NEW ts, NEW S, Sound(m, end, bs, ts, S),
         NEW F, F = FillOf(m, bs, ts),
         NEW rt, NEW off, Rooted(m, ObjectsOf(bs, S), rt, off),
         NEW K, Traced(F, ObjectsOf(bs, S), rt, off, K),
         NEW to, NEW nt, Packs(F, end, K, to, nt), Forwards(m, F, S, to),
         NEW u, Updates(F, S, K, to, u),
         NEW w, Arrived(F, K, to, u, w),
         NEW m2, m2 = Released(w, nt),
         NEW bs2, bs2 = [t \in Mutators |-> NoTlab],
         NEW rt2, rt2 = [r \in Roots |-> ForwardedSlot(F, S, to, rt[r])]
  PROVE  Intact(m2, nt, bs2, ts, rt2, off)
<1> DEFINE S2 == {to[h] : h \in K}
<1>1. /\ F \in [Words -> Int] /\ end \in Base .. End /\ Layout(F, end, S)
      /\ \A h \in ObjectsOf(bs, S) : /\ h \in S /\ h \in Nat /\ m[h] \in Nat
                                     /\ F[h] = m[h] /\ F[h + 2] = m[h + 2]
  BY SoundFacts
<1>2. /\ K \subseteq ObjectsOf(bs, S)
      /\ \A r \in Roots : rt[r] # Null => rt[r] - off[r] - HeaderSize \in K
      /\ \A h \in K : \A f \in Fields(F, h) :
           /\ f \in Nat /\ f \in Words /\ f \in h .. Past(F, h) - 1 /\ h + HeaderSize <= f
           /\ F[f] = Null \/ F[f] - HeaderSize \in K
  BY DEF Traced
<1>4. /\ DOMAIN to = K
      /\ nt \in Nat /\ Base <= nt /\ nt <= end
      /\ \A h \in K : /\ to[h] \in Nat /\ Base <= to[h] /\ to[h] <= h
                      /\ to[h] + HeaderSize + F[h] <= nt
                      /\ to[h] + HeaderSize + F[h] \in S2 \cup {nt}
      /\ Base \in S2 \cup {nt}
      /\ \A g, h \in K : g < h => to[g] + HeaderSize + F[g] <= to[h]
  BY DEF Packs
<1>5. /\ u \in [Words -> Int]
      /\ \A h \in K : /\ u[h] = F[h] /\ u[h + 2] = F[h + 2]
                      /\ \A f \in Fields(F, h) : u[f] = ForwardedSlot(F, S, to, F[f])
  BY DEF Updates
<1>7. /\ ForwardedSlot(F, S, to, Null) = Null
      /\ \A h \in K, i \in Nat : i <= m[h] =>
           ForwardedSlot(F, S, to, h + HeaderSize + i) = to[h] + HeaderSize + i
  BY <1>4 DEF Forwards
<1>8. /\ Base \in Nat /\ End \in Nat /\ end \in Nat /\ Base <= end /\ end <= End
      /\ nt \in Base .. End
  BY <1>1, <1>4, WordsAreNat
<1>9. \A h \in K : /\ h \in Nat /\ h \in S /\ F[h] \in Nat /\ F[h] = m[h] /\ h \in Words /\ h + 2 \in Words
                   /\ F[h + 2] \in Descriptors /\ Past(F, h) = h + HeaderSize + F[h]
  <2> SUFFICES ASSUME NEW h \in K
               PROVE  /\ h \in Nat /\ h \in S /\ F[h] \in Nat /\ F[h] = m[h] /\ h \in Words /\ h + 2 \in Words
                      /\ F[h + 2] \in Descriptors /\ Past(F, h) = h + HeaderSize + F[h]
    OBVIOUS
  <2>1. h \in S /\ h \in Nat /\ F[h] = m[h] /\ m[h] \in Nat
    BY <1>1, <1>2
  <2>2. h \in Words /\ h + 2 \in Words
    BY <1>1, <2>1, LayoutWords
  <2>3. F[h + 2] \in Descriptors
    BY <1>1, <2>1 DEF Layout
  <2> QED
    BY <2>1, <2>2, <2>3 DEF Past
<1> HIDE DEF S2
<1>10. Landed(F, K, to, u, m2) /\ m2 \in [Words -> Int]
  <2>1. Landed(F, K, to, u, m2)
    BY <1>1, <1>5, <1>9, CopiedWords
  <2> QED
    BY <2>1 DEF Landed
<1>11. \A h \in K : \A i \in Nat : i < HeaderSize + F[h] =>
         to[h] + i \in Words /\ m2[to[h] + i] = IF i = 1 THEN 0 ELSE u[h + i]
  BY <1>10 DEF Landed
<1>12. ASSUME NEW h \in K
       PROVE  /\ to[h] \in Words /\ to[h] + 1 \in Words /\ to[h] + 2 \in Words
              /\ m2[to[h]] = F[h] /\ m2[to[h] + 1] = 0 /\ m2[to[h] + 2] = F[h + 2]
              /\ Past(m2, to[h]) = to[h] + HeaderSize + F[h]
  <2>1. /\ F[h] \in Nat /\ to[h] \in Nat /\ h \in Nat
    BY <1>4, <1>9
  <2>2. 0 < HeaderSize + F[h] /\ 1 < HeaderSize + F[h] /\ 2 < HeaderSize + F[h]
    BY <2>1 DEF HeaderSize
  <2>3. to[h] + 0 = to[h] /\ h + 0 = h
    BY <2>1
  <2>4. to[h] \in Words /\ m2[to[h]] = u[h]
    BY <1>11, <2>2, <2>3
  <2>5. to[h] + 1 \in Words /\ m2[to[h] + 1] = 0
    BY <1>11, <2>2
  <2>6. to[h] + 2 \in Words /\ m2[to[h] + 2] = u[h + 2]
    BY <1>11, <2>2
  <2> QED
    BY <1>5, <2>4, <2>5, <2>6 DEF Past
<1>13. /\ Fillers(bs2) = {} /\ ObjectsOf(bs2, S2) = S2
       /\ \A t \in Mutators : ~OpenIn(bs2, t) /\ bs2[t] = NoTlab
  <2>1. \A t \in Mutators : ~OpenIn(bs2, t) /\ bs2[t] = NoTlab
    BY DEF OpenIn, NoTlab, Null
  <2> QED
    BY <2>1 DEF Fillers, ObjectsOf
<1>14. Gaps(bs2, nt)
  <2>1. bs2 \in [Mutators -> Nat \X Nat]
    BY DEF NoTlab, Null
  <2> QED
    BY <1>13, <2>1 DEF Gaps
<1>15. ts \subseteq Mutators
  BY DEF Sound
<1>16. FillOf(m2, bs2, ts) = m2
  <2>1. {t \in ts : bs2[t][1] < bs2[t][2]} = {}
    BY <1>13, <1>15 DEF OpenIn
  <2> QED
    BY <2>1 DEF FillOf
<1>17. ASSUME NEW g \in S2, NEW h \in S2, g < h PROVE Past(m2, g) <= h
  <2>1. PICK x \in K : g = to[x]
    BY DEF S2
  <2>2. PICK y \in K : h = to[y]
    BY DEF S2
  <2>3. x \in Nat /\ y \in Nat /\ to[x] \in Nat /\ to[y] \in Nat /\ F[x] \in Nat /\ F[y] \in Nat
    BY <1>4, <1>9
  <2>4. x < y
    <3> SUFFICES ASSUME ~(x < y) PROVE FALSE
      OBVIOUS
    <3>1. y < x \/ x = y
      BY <2>3
    <3>2. CASE x = y
      BY <1>17, <2>1, <2>2, <2>3, <3>2
    <3>3. CASE y < x
      <4>1. to[y] + HeaderSize + F[y] <= to[x]
        BY <1>4, <3>3
      <4> QED
        BY <1>17, <2>1, <2>2, <2>3, <4>1 DEF HeaderSize
    <3> QED
      BY <3>1, <3>2, <3>3
  <2>5. to[x] + HeaderSize + F[x] <= to[y]
    BY <1>4, <2>4
  <2> QED
    BY <1>12, <2>1, <2>2, <2>5
<1>18. \A h \in S2 : /\ h \in Words /\ m2[h] \in Nat /\ m2[h + 1] = 0 /\ m2[h + 2] \in Descriptors
                     /\ Past(m2, h) <= nt /\ Past(m2, h) \in S2 \cup {nt}
  <2> SUFFICES ASSUME NEW x \in K
               PROVE  /\ to[x] \in Words /\ m2[to[x]] \in Nat /\ m2[to[x] + 1] = 0
                      /\ m2[to[x] + 2] \in Descriptors
                      /\ Past(m2, to[x]) <= nt /\ Past(m2, to[x]) \in S2 \cup {nt}
    BY DEF S2
  <2>1. /\ to[x] \in Words /\ m2[to[x]] = F[x] /\ m2[to[x] + 1] = 0 /\ m2[to[x] + 2] = F[x + 2]
        /\ Past(m2, to[x]) = to[x] + HeaderSize + F[x]
    BY <1>12
  <2>2. F[x] \in Nat /\ F[x + 2] \in Descriptors
    BY <1>9
  <2>3. to[x] + HeaderSize + F[x] <= nt /\ to[x] + HeaderSize + F[x] \in S2 \cup {nt}
    BY <1>4
  <2> QED
    BY <2>1, <2>2, <2>3
<1>19. Layout(m2, nt, S2)
  BY <1>4, <1>17, <1>18 DEF Layout
<1>20. ASSUME NEW h \in S2
       PROVE  /\ m2[h + 2] = Cell => m2[h] # 0
              /\ \A f \in Fields(m2, h) : m2[f] = Null \/ m2[f] - HeaderSize \in S2
  <2>1. PICK x \in K : h = to[x]
    BY DEF S2
  <2>2. /\ h \in Words /\ h + 2 \in Words /\ m2[h] = F[x] /\ m2[h + 2] = F[x + 2]
        /\ x \in Words /\ x + 2 \in Words /\ F[x] \in Nat /\ x \in Nat /\ F[x] = m[x]
    BY <1>9, <1>12, <2>1
  <2>3. F[x + 2] = Cell => F[x] # 0
    <3>1. x \in ObjectsOf(bs, S) /\ F[x + 2] = m[x + 2] /\ F[x] = m[x]
      BY <1>1, <1>2
    <3> QED
      BY <3>1 DEF Sound
  <2>4. ASSUME NEW f \in Fields(m2, h) PROVE m2[f] = Null \/ m2[f] - HeaderSize \in S2
    <3>1. PICK i \in Nat : f = h + i /\ x + i \in Fields(F, x)
      <4>1. AtField(F, x, h, f)
        BY <1>1, <1>10, <2>2, ShiftedFields
      <4> QED
        BY <4>1 DEF AtField
    <3>2. PICK y \in Nat : y = x + i
      BY <2>2
    <3>3. /\ y \in Fields(F, x) /\ y \in x .. Past(F, x) - 1 /\ x + HeaderSize <= y
          /\ (F[y] = Null \/ F[y] - HeaderSize \in K) /\ y \in Words
      BY <1>2, <3>1, <3>2
    <3>4. i < HeaderSize + F[x] /\ i # 1
      <4>1. Past(F, x) = x + HeaderSize + F[x]
        BY <1>9
      <4> QED
        BY <2>2, <3>2, <3>3, <4>1 DEF HeaderSize
    <3>5. m2[f] = u[y]
      BY <1>11, <2>1, <3>1, <3>2, <3>4
    <3>6. m2[f] = ForwardedSlot(F, S, to, F[y])
      BY <1>5, <3>3, <3>5
    <3>7. CASE F[y] = Null
      BY <1>7, <3>6, <3>7
    <3>8. CASE F[y] # Null
      <4>1. PICK g \in K : g = F[y] - HeaderSize
        BY <3>3, <3>8
      <4>2. g \in Nat /\ to[g] \in Nat /\ m[g] \in Nat /\ 0 <= m[g] /\ F[y] \in Int
        BY <1>1, <1>4, <1>9, <3>3, <4>1
      <4>3. F[y] = g + HeaderSize + 0
        BY <4>1, <4>2 DEF HeaderSize
      <4>4. ForwardedSlot(F, S, to, g + HeaderSize + 0) = to[g] + HeaderSize + 0
        BY <1>7, <4>2
      <4>5. m2[f] = to[g] + HeaderSize + 0
        BY <3>6, <4>3, <4>4
      <4>6. m2[f] - HeaderSize = to[g]
        BY <4>2, <4>5 DEF HeaderSize
      <4> QED
        BY <4>6 DEF S2
    <3> QED
      BY <3>7, <3>8
  <2> QED
    BY <2>2, <2>3, <2>4
<1>21. Sound(m2, nt, bs2, ts, S2)
  BY <1>8, <1>10, <1>13, <1>14, <1>15, <1>16, <1>18, <1>19, <1>20 DEF Sound
<1>22. Rooted(m2, S2, rt2, off)
  <2>1. rt \in [Roots -> Nat] /\ off \in [Roots -> Nat]
    BY DEF Rooted
  <2>2. ASSUME NEW r \in Roots
        PROVE  /\ rt2[r] \in Nat
               /\ rt2[r] # Null => rt2[r] - off[r] - HeaderSize \in S2
                                   /\ off[r] <= m2[rt2[r] - off[r] - HeaderSize]
    <3>1. rt2[r] = ForwardedSlot(F, S, to, rt[r])
      OBVIOUS
    <3>2. CASE rt[r] = Null
      BY <1>7, <3>1, <3>2 DEF Null
    <3>3. CASE rt[r] # Null
      <4>1. PICK g \in K : g = rt[r] - off[r] - HeaderSize
        BY <1>2, <3>3
      <4>2. off[r] <= m[g]
        BY <3>3, <4>1 DEF Rooted
      <4>3. g \in Nat /\ to[g] \in Nat /\ off[r] \in Nat /\ rt[r] \in Nat
        BY <1>4, <1>9, <2>1
      <4>4. rt[r] = g + HeaderSize + off[r]
        BY <4>1, <4>3 DEF HeaderSize
      <4>5. ForwardedSlot(F, S, to, g + HeaderSize + off[r]) = to[g] + HeaderSize + off[r]
        BY <1>7, <4>2, <4>3
      <4>6. rt2[r] = to[g] + HeaderSize + off[r]
        BY <3>1, <4>4, <4>5
      <4>7. rt2[r] \in Nat /\ rt2[r] - off[r] - HeaderSize = to[g]
        BY <4>3, <4>6 DEF HeaderSize
      <4>8. m2[to[g]] = m[g]
        BY <1>9, <1>12
      <4> QED
        BY <4>2, <4>7, <4>8 DEF S2
    <3> QED
      BY <3>2, <3>3
  <2> QED
    BY <2>1, <2>2 DEF Rooted
<1> QED
  BY <1>13, <1>21, <1>22 DEF Intact

\* A collection leaves such a heap.
LEMMA Collected ==
  ASSUME NEW m, NEW end, NEW bs, NEW ts, NEW S, Sound(m, end, bs, ts, S),
         NEW F, F = FillOf(m, bs, ts),
         NEW rt, NEW off, Rooted(m, ObjectsOf(bs, S), rt, off),
         NEW K, K = Marked(F, S, {rt[r] : r \in Roots} \ {Null}),
         NEW to, to = Forwarding(F, S, K),
         NEW u, u = Updated(F, S, S, to),
         NEW m2, m2 = Released(Moved(u, to), NewTop(F, to)),
         NEW bs2, bs2 = [t \in Mutators |-> NoTlab],
         NEW rt2, rt2 = [r \in Roots |-> ForwardedSlot(F, S, to, rt[r])]
  PROVE  Intact(m2, NewTop(F, to), bs2, ts, rt2, off)
<1>1. F \in [Words -> Int] /\ end \in Base .. End /\ Layout(F, end, S) /\ ObjectsOf(bs, S) \subseteq S
  BY SoundFacts DEF ObjectsOf
<1>2. Traced(F, ObjectsOf(bs, S), rt, off, K)
  BY MarkedIs
<1>3. K \subseteq ObjectsOf(bs, S) /\ K \in SUBSET S
  BY <1>1, <1>2 DEF Traced
<1>4. Packs(F, end, K, to, NewTop(F, to))
  BY <1>1, <1>3, ForwardingPacks
<1>5. DOMAIN to = K /\ \A h \in K : to[h] \in Nat
  BY <1>4 DEF Packs
<1>6. Forwards(m, F, S, to)
  BY <1>3, <1>5, ForwardedIs
<1>7. Updates(F, S, K, to, u)
  BY <1>5, UpdatedIs
<1>8. u \in [Words -> Int] /\ \A h \in K : u[h] = F[h]
  BY <1>7 DEF Updates
<1>9. Arrived(F, K, to, u, Moved(u, to))
  BY <1>1, <1>3, <1>8, MovedWhole
<1> QED
  BY <1>2, <1>4, <1>6, <1>7, <1>9, CopiesSound

-----------------------------------------------------------------------------
(* The steps *)

\* A tag is a number that can stand in the heap.
LEMMA TagIs == NewTag \in Nat
<1>1. FreeTags \subseteq Nat
  <2>1. FreeTags \subseteq Tags
    BY DEF FreeTags
  <2>2. Tags \subseteq Nat
    BY AllocAssumption DEF AllocAssumption
  <2> QED
    BY <2>1, <2>2
<1>2. CASE FreeTags = {}
  BY <1>2 DEF NewTag, Null
<1>3. CASE FreeTags # {}
  <2>1. \E n \in FreeTags : \A k \in FreeTags : n <= k
    BY <1>1, <1>3, Least
  <2>2. Min(FreeTags) \in FreeTags
    BY <2>1 DEF Min
  <2> QED
    BY <1>1, <1>3, <2>2 DEF NewTag
<1> QED
  BY <1>2, <1>3

\* The root an object was allocated for refers to it.
LEMMA ServedRooted ==
  ASSUME NEW m, NEW L, NEW rt, NEW off, Rooted(m, L, rt, off),
         NEW raw \in Nat, NEW m2, NEW end2, NEW bs2, NEW ts, ServedIn(m, L, raw, m2, end2, bs2, ts),
         NEW r \in Roots
  PROVE  Intact(m2, end2, bs2, ts, [rt EXCEPT ![r] = Payload(raw)], [off EXCEPT ![r] = 0])
<1>1. PICK S : /\ Sound(m2, end2, bs2, ts, S)
               /\ ObjectsOf(bs2, S) = L \cup {raw}
               /\ \A h \in L : m2[h] = m[h]
  BY DEF ServedIn
<1>2. Rooted(m2, ObjectsOf(bs2, S), rt, off)
  BY <1>1, RootedGrows
<1>3. m2[raw] \in Nat
  BY <1>1, SoundFacts
<1>4. Payload(raw) \in Nat /\ Payload(raw) - 0 - HeaderSize = raw
  BY DEF Payload, HeaderSize
<1>5. 0 <= m2[raw] /\ 0 \in Nat
  BY <1>3
<1>6. Rooted(m2, ObjectsOf(bs2, S), [rt EXCEPT ![r] = Payload(raw)], [off EXCEPT ![r] = 0])
  BY <1>1, <1>2, <1>4, <1>5, RootedSet
<1> QED
  BY <1>1, <1>6 DEF Intact

\* A gap filled for good leaves the heap intact.
LEMMA RetiredIntact ==
  ASSUME NEW m, NEW end, NEW bs, NEW ts, NEW rt, NEW off, Intact(m, end, bs, ts, rt, off),
         NEW t \in Mutators, NEW m2, m2 = Filled(m, bs[t]),
         NEW bs2, bs2 = bs \/ bs2 = [bs EXCEPT ![t] = NoTlab],
         NEW ts2 \in SUBSET Mutators, \A u \in Mutators : u \notin ts2 => bs2[u] = NoTlab
  PROVE  Intact(m2, end, bs2, ts2, rt, off)
<1>1. PICK S : Sound(m, end, bs, ts, S) /\ Rooted(m, ObjectsOf(bs, S), rt, off)
  BY DEF Intact
<1>2. /\ Sound(m2, end, bs2, ts2, S)
      /\ ObjectsOf(bs, S) \subseteq ObjectsOf(bs2, S)
      /\ \A h \in ObjectsOf(bs, S) : m2[h] = m[h]
  BY <1>1, Retired
<1>3. Rooted(m2, ObjectsOf(bs2, S), rt, off)
  BY <1>1, <1>2, RootedGrows
<1> QED
  BY <1>2, <1>3 DEF Intact

\* The steps of Serve, in the terms used here.
LEMMA ServeIs ==
  ASSUME NEW t \in Mutators, NEW r \in Roots, NEW shape \in Shapes, NEW m, NEW raw, NEW buffer,
         Serve(t, r, shape, m, raw, buffer), NEW fit, fit = Absorb(buffer, shape, raw)
  PROVE  /\ mem' = Written(m, raw, shape, fit[1], NewTag)
         /\ tlab' = [tlab EXCEPT ![t] = fit[2]]
         /\ root' = [root EXCEPT ![r] = Payload(raw)]
         /\ offset' = [offset EXCEPT ![r] = 0]
  BY DEF Serve, Written

\* A block has been served to t for r, from the heap as it was or with t's gap filled first.
Served(S, t, r, shape) ==
  \E m, bs, raw, buffer :
    /\ \/ m = mem /\ bs = tlab
       \/ m = Filled(mem, tlab[t]) /\ bs = [tlab EXCEPT ![t] = NoTlab]
    /\ Sound(m, top, bs, attached, S) /\ Rooted(m, ObjectsOf(bs, S), root, offset)
    /\ raw \in Nat /\ raw \notin ObjectsOf(bs, S) /\ buffer \in Nat \X Nat
    /\ Serve(t, r, shape, m, raw, buffer)
    /\ ServedIn(m, ObjectsOf(bs, S), raw, mem', top', tlab', attached)

\* No object is where a gap is, or at the heap's end.
LEMMA RoomIsNew ==
  ASSUME NEW m, NEW end, NEW bs, NEW ts, NEW S, Sound(m, end, bs, ts, S)
  PROVE  /\ end \notin ObjectsOf(bs, S)
         /\ \A t \in Mutators : OpenIn(bs, t) => bs[t][1] \notin ObjectsOf(bs, S)
<1>1. PICK F : F = FillOf(m, bs, ts)
  OBVIOUS
<1>2. F \in [Words -> Int] /\ end \in Base .. End /\ Layout(F, end, S)
  BY <1>1, SoundFacts
<1>3. ASSUME end \in S PROVE FALSE
  <2>1. end < end /\ end \in Nat
    BY <1>2, <1>3, LayoutWords, WordsAreNat
  <2> QED
    BY <2>1
<1> QED
  BY <1>3 DEF ObjectsOf, Fillers

\* The fast path of an allocation.
LEMMA FastServed ==
  ASSUME NEW S, Sound(mem, top, tlab, attached, S), Rooted(mem, ObjectsOf(tlab, S), root, offset),
         NEW t \in Mutators, NEW r \in Roots, NEW shape \in Shapes, AllocFast(t, r, shape)
  PROVE  Served(S, t, r, shape)
<1>1. /\ t \in attached /\ tlab[t] # NoTlab /\ tlab[t][1] + HeaderSize + shape[2] <= tlab[t][2]
      /\ top' = top /\ attached' = attached
      /\ Serve(t, r, shape, mem, tlab[t][1], <<tlab[t][1] + HeaderSize + shape[2], tlab[t][2]>>)
  BY DEF AllocFast, FitsTlab
<1>2. /\ top \in Base .. End /\ tlab[t][1] \in Nat /\ tlab[t][2] \in Nat /\ shape[2] \in Nat
  BY AllocAssumption DEF Sound, Gaps, AllocAssumption
<1>3. PICK need \in Nat : need = HeaderSize + shape[2]
  BY <1>2 DEF HeaderSize
<1>4. PICK raw \in Nat : raw = tlab[t][1]
  BY <1>2
<1>5. OpenIn(tlab, t) /\ raw + need <= tlab[t][2] /\ tlab[t][1] + HeaderSize + shape[2] = raw + need
  BY <1>1, <1>2, <1>3, <1>4 DEF OpenIn, HeaderSize
<1>6. PICK buffer : buffer = <<raw + need, tlab[t][2]>>
  OBVIOUS
<1>7. PICK fit : fit = Absorb(buffer, shape, raw)
  OBVIOUS
<1>8. Serve(t, r, shape, mem, raw, buffer) /\ buffer \in Nat \X Nat
  BY <1>1, <1>2, <1>4, <1>5, <1>6
<1>9. mem' = Written(mem, raw, shape, fit[1], NewTag) /\ tlab' = [tlab EXCEPT ![t] = fit[2]]
  BY <1>7, <1>8, ServeIs
<1>10. NewTag \in Int
  BY TagIs
<1>11. RoomAt(tlab, top, t, raw, buffer, top, need)
  BY <1>4, <1>5, <1>6 DEF RoomAt
<1>12. ServedIn(mem, ObjectsOf(tlab, S), raw, mem', top, tlab', attached)
  BY <1>1, <1>2, <1>3, <1>7, <1>9, <1>10, <1>11, ServeSound
<1>13. raw \notin ObjectsOf(tlab, S)
  BY <1>4, <1>5, RoomIsNew
<1> QED
  BY <1>1, <1>8, <1>12, <1>13 DEF Served

\* The slow path when the heap has room.
LEMMA SlowServed ==
  ASSUME NEW S, Sound(mem, top, tlab, attached, S), Rooted(mem, ObjectsOf(tlab, S), root, offset),
         NEW t \in attached, t \in Mutators, NEW r \in Roots, NEW shape \in Shapes,
         SlowServe(t, r, shape), attached' = attached
  PROVE  Served(S, t, r, shape)
<1>1. /\ top \in Base .. End /\ tlab[t][1] \in Nat /\ tlab[t][2] \in Nat /\ shape[2] \in Nat
      /\ TlabWords \in Nat /\ tlab \in [Mutators -> Nat \X Nat]
      /\ attached \in SUBSET Mutators /\ \A u \in Mutators : u \notin attached => tlab[u] = NoTlab
  BY AllocAssumption DEF Sound, Gaps, AllocAssumption
<1>2. top \in Nat /\ End \in Nat /\ Base \in Nat /\ Base <= top
  BY <1>1, WordsAreNat
<1>3. PICK need \in Nat : need = HeaderSize + shape[2]
  BY <1>1 DEF HeaderSize
<1>4. NewTag \in Int
  BY TagIs
<1>5. CASE /\ top + need <= End
           /\ Serve(t, r, shape, mem, top, tlab[t])
           /\ top' = top + need
  <2>1. PICK fit : fit = Absorb(tlab[t], shape, top)
    OBVIOUS
  <2>2. mem' = Written(mem, top, shape, fit[1], NewTag) /\ tlab' = [tlab EXCEPT ![t] = fit[2]]
    BY <1>5, <2>1, ServeIs
  <2>3. top' \in Base .. End
    BY <1>2, <1>5
  <2>4. RoomAt(tlab, top, t, top, tlab[t], top', need)
    BY <1>5 DEF RoomAt
  <2>5. ServedIn(mem, ObjectsOf(tlab, S), top, mem', top', tlab', attached)
    BY <1>3, <1>4, <2>1, <2>2, <2>3, <2>4, ServeSound
  <2>6. top \notin ObjectsOf(tlab, S) /\ tlab[t] \in Nat \X Nat
    BY <1>1, RoomIsNew
  <2> QED
    BY <1>2, <1>5, <2>5, <2>6 DEF Served
<1>6. CASE /\ need <= TlabWords /\ top + TlabWords <= End
           /\ Serve(t, r, shape, Filled(mem, tlab[t]), top, <<top + need, top + TlabWords>>)
           /\ top' = top + TlabWords
  <2>1. PICK m : m = Filled(mem, tlab[t])
    OBVIOUS
  <2>2. PICK bs : bs = [tlab EXCEPT ![t] = NoTlab]
    OBVIOUS
  <2>3. PICK buffer : buffer = <<top + need, top'>>
    OBVIOUS
  <2>4. PICK fit : fit = Absorb(buffer, shape, top)
    OBVIOUS
  <2>5. \A u \in Mutators : u \notin attached => bs[u] = NoTlab
    BY <1>1, <2>2
  <2>6. /\ Sound(m, top, bs, attached, S)
        /\ ObjectsOf(tlab, S) \subseteq ObjectsOf(bs, S)
        /\ \A h \in ObjectsOf(tlab, S) : m[h] = mem[h]
    <3>1. bs = tlab \/ bs = [tlab EXCEPT ![t] = NoTlab]
      BY <2>2
    <3>2. attached \in SUBSET Mutators
      BY <1>1
    <3>3. Sound(m, top, bs, attached, S)
      BY <2>1, <2>5, <3>1, <3>2, Retired
    <3>4. ObjectsOf(tlab, S) \subseteq ObjectsOf(bs, S)
      BY <2>1, <2>5, <3>1, <3>2, Retired
    <3>5. \A h \in ObjectsOf(tlab, S) : m[h] = mem[h]
      BY <2>1, <2>5, <3>1, <3>2, Retired
    <3> QED
      BY <3>3, <3>4, <3>5
  <2>7. Rooted(m, ObjectsOf(bs, S), root, offset)
    BY <2>6, RootedGrows
  <2>8. Serve(t, r, shape, m, top, buffer)
    BY <1>6, <2>1, <2>3
  <2>9. /\ mem' = Written(m, top, shape, fit[1], NewTag) /\ tlab' = [tlab EXCEPT ![t] = fit[2]]
    BY <2>4, <2>8, ServeIs
  <2>10. tlab' = [bs EXCEPT ![t] = fit[2]]
    BY <1>1, <2>2, <2>9
  <2>11. ~OpenIn(bs, t)
    BY <1>1, <2>2 DEF OpenIn, NoTlab, Null
  <2>12. top' \in Base .. End /\ top + need <= top' /\ buffer \in Nat \X Nat
    BY <1>1, <1>2, <1>6, <2>3
  <2>13. RoomAt(bs, top, t, top, buffer, top', need)
    BY <2>3, <2>11, <2>12 DEF RoomAt
  <2>14. mem' = Written(m, top, shape, fit[1], NewTag) /\ t \in attached
    BY <2>9
  <2>15. ServedIn(m, ObjectsOf(bs, S), top, mem', top', tlab', attached)
    BY <1>3, <1>4, <2>4, <2>6, <2>10, <2>12, <2>13, <2>14, ServeSound
  <2>16. top \notin ObjectsOf(bs, S)
    BY <2>6, RoomIsNew
  <2> QED
    BY <1>2, <2>1, <2>2, <2>6, <2>7, <2>8, <2>12, <2>15, <2>16 DEF Served
<1> QED
  BY <1>3, <1>5, <1>6 DEF SlowServe

\* Either way the heap is intact afterwards.
LEMMA ServedStep ==
  ASSUME NEW S, NEW t \in Mutators, NEW r \in Roots, NEW shape \in Shapes, Served(S, t, r, shape)
  PROVE  Intact(mem', top', tlab', attached, root', offset')
<1>1. PICK m, bs, raw, buffer :
        /\ Rooted(m, ObjectsOf(bs, S), root, offset) /\ raw \in Nat
        /\ Serve(t, r, shape, m, raw, buffer)
        /\ ServedIn(m, ObjectsOf(bs, S), raw, mem', top', tlab', attached)
  BY DEF Served
<1>2. root' = [root EXCEPT ![r] = Payload(raw)] /\ offset' = [offset EXCEPT ![r] = 0]
  BY <1>1 DEF Serve
<1>3. PICK m2, end2, bs2 : m2 = mem' /\ end2 = top' /\ bs2 = tlab'
  OBVIOUS
<1>4. Intact(m2, end2, bs2, attached, [root EXCEPT ![r] = Payload(raw)], [offset EXCEPT ![r] = 0])
  BY <1>1, <1>3, ServedRooted
<1> QED
  BY <1>2, <1>3, <1>4

LEMMA FastStep ==
  ASSUME Intact(mem, top, tlab, attached, root, offset),
         NEW t \in Mutators, NEW r \in Roots, NEW shape \in Shapes, AllocFast(t, r, shape)
  PROVE  Intact(mem', top', tlab', attached', root', offset')
<1>1. PICK S : Sound(mem, top, tlab, attached, S) /\ Rooted(mem, ObjectsOf(tlab, S), root, offset)
  BY DEF Intact
<1>2. Served(S, t, r, shape) /\ attached' = attached
  BY <1>1, FastServed DEF AllocFast
<1> QED
  BY <1>2, ServedStep

LEMMA SlowServeStep ==
  ASSUME Intact(mem, top, tlab, attached, root, offset),
         NEW t \in attached, t \in Mutators, NEW r \in Roots, NEW shape \in Shapes,
         SlowServe(t, r, shape), attached' = attached
  PROVE  Intact(mem', top', tlab', attached', root', offset')
<1>1. PICK S : Sound(mem, top, tlab, attached, S) /\ Rooted(mem, ObjectsOf(tlab, S), root, offset)
  BY DEF Intact
<1>2. Served(S, t, r, shape)
  BY <1>1, SlowServed
<1> QED
  BY <1>2, ServedStep

\* The slow path when it has none.
LEMMA ExhaustedStep ==
  ASSUME Intact(mem, top, tlab, attached, root, offset),
         NEW t \in Mutators, NEW shape, Exhausted(t, shape)
  PROVE  Intact(mem', top, tlab, attached, root, offset)
<1>1. CASE mem' = mem
  BY <1>1
<1>2. CASE mem' = Filled(mem, tlab[t])
  <2>1. attached \in SUBSET Mutators /\ \A u \in Mutators : u \notin attached => tlab[u] = NoTlab
    BY DEF Intact, Sound
  <2> QED
    BY <1>2, <2>1, RetiredIntact
<1> QED
  BY <1>1, <1>2 DEF Exhausted

\* A root may be set to null or to the start of an object, or be moved within its object.
LEMMA SetIntact ==
  ASSUME NEW m, NEW end, NEW bs, NEW ts, NEW rt, NEW off, NEW S,
         Sound(m, end, bs, ts, S), Rooted(m, ObjectsOf(bs, S), rt, off),
         NEW r \in Roots, NEW v \in Nat, NEW o \in Nat,
         v = Null \/ (v - o - HeaderSize \in ObjectsOf(bs, S) /\ o <= m[v - o - HeaderSize])
  PROVE  Intact(m, end, bs, ts, [rt EXCEPT ![r] = v], [off EXCEPT ![r] = o])
<1>1. Rooted(m, ObjectsOf(bs, S), [rt EXCEPT ![r] = v], [off EXCEPT ![r] = o])
  BY RootedSet
<1> QED
  BY <1>1 DEF Intact

\* A fresh heap is intact, and nobody waits.
LEMMA StartsIntact ==
  ASSUME HeapInit
  PROVE  HeapInvariant
<1>1. /\ \A t \in Mutators : tlab[t] = NoTlab /\ ~OpenIn(tlab, t)
      /\ tlab \in [Mutators -> Nat \X Nat]
  BY DEF HeapInit, OpenIn, NoTlab, Null
<1>2. Gaps(tlab, top) /\ Fillers(tlab) = {}
  BY <1>1 DEF Gaps, Fillers
<1>3. top \in Base .. End /\ top = Base
  BY WordsAreNat DEF HeapInit
<1>4. Layout(FillOf(mem, tlab, attached), top, {})
  BY <1>3 DEF Layout
<1>5. mem \in [Words -> Int] /\ attached = Mutators
  BY DEF HeapInit
<1>6. Sound(mem, top, tlab, attached, {})
  BY <1>2, <1>3, <1>4, <1>5 DEF Sound, ObjectsOf
<1>7. Rooted(mem, ObjectsOf(tlab, {}), root, offset)
  BY DEF HeapInit, Rooted, Null
<1>8. Intact(mem, top, tlab, attached, root, offset)
  BY <1>6, <1>7 DEF Intact
<1>9. Requests
  BY DEF HeapInit, Requests, NoReq
<1> QED
  BY <1>8, <1>9 DEF HeapInvariant

\* A waiting request names what was asked for, and marking it as retried keeps that.
LEMMA RequestIs ==
  ASSUME Requests, NEW t \in Mutators, req[t] # NoReq
  PROVE  /\ t \in attached
         /\ req[t][1] \in Roots /\ req[t][2] \in Shapes
         /\ [req EXCEPT ![t] = <<@[1], @[2], TRUE>>] \in [Mutators -> {NoReq} \cup Roots \X Shapes \X BOOLEAN]
<1>1. t \in attached /\ req[t] \in Roots \X Shapes \X BOOLEAN
  BY DEF Requests
<1>2. req[t][1] \in Roots /\ req[t][2] \in Shapes
  BY <1>1
<1>3. <<req[t][1], req[t][2], TRUE>> \in Roots \X Shapes \X BOOLEAN
  BY <1>2
<1> QED
  BY <1>1, <1>2, <1>3 DEF Requests

\* Waiting requests after a step that changes the request of one attached thread at most.
LEMMA RequestsStay ==
  ASSUME Requests, NEW t \in Mutators, t \in attached, attached' = attached,
         NEW q \in {NoReq} \cup Roots \X Shapes \X BOOLEAN, req' = [req EXCEPT ![t] = q]
  PROVE  Requests'
BY DEF Requests

\* An allocation that takes the slow path.
LEMMA SlowStep ==
  ASSUME HeapInvariant,
         NEW t \in Mutators, NEW r \in Roots, NEW shape \in Shapes, AllocSlow(t, r, shape)
  PROVE  HeapInvariant'
<1>1. Intact(mem, top, tlab, attached, root, offset) /\ Requests /\ t \in attached
  BY DEF HeapInvariant, AllocSlow
<1>2. CASE SlowServe(t, r, shape) /\ attached' = attached /\ req' = req
  <2>1. Intact(mem', top', tlab', attached', root', offset')
    BY <1>1, <1>2, SlowServeStep
  <2>2. Requests'
    BY <1>1, <1>2 DEF Requests
  <2> QED
    BY <2>1, <2>2 DEF HeapInvariant
<1>3. CASE /\ Exhausted(t, shape)
           /\ req' = [req EXCEPT ![t] = <<r, shape, FALSE>>]
           /\ UNCHANGED <<top, attached, tlab, root, offset>>
  <2>1. Intact(mem', top, tlab, attached, root, offset)
    BY <1>1, <1>3, ExhaustedStep
  <2>2. <<r, shape, FALSE>> \in {NoReq} \cup Roots \X Shapes \X BOOLEAN
    OBVIOUS
  <2>3. Requests'
    BY <1>1, <1>3, <2>2, RequestsStay
  <2> QED
    BY <1>3, <2>1, <2>3 DEF HeapInvariant
<1> QED
  BY <1>2, <1>3 DEF AllocSlow

\* The retry of an allocation.
LEMMA RetryStep ==
  ASSUME HeapInvariant, NEW t \in Mutators, AllocRetry(t)
  PROVE  HeapInvariant'
<1>1. Intact(mem, top, tlab, attached, root, offset) /\ Requests
  BY DEF HeapInvariant
<1>2. /\ req[t] # NoReq /\ req' = [req EXCEPT ![t] = NoReq] /\ attached' = attached
  BY DEF AllocRetry
<1>3. /\ t \in attached /\ req[t][1] \in Roots /\ req[t][2] \in Shapes
  BY <1>1, <1>2, RequestIs
<1>4. Requests'
  BY <1>1, <1>2, <1>3, RequestsStay
<1>5. PICK r \in Roots, shape \in Shapes : r = req[t][1] /\ shape = req[t][2]
  BY <1>3
<1>6. CASE SlowServe(t, r, shape)
  <2>1. Intact(mem', top', tlab', attached', root', offset')
    BY <1>1, <1>2, <1>3, <1>6, SlowServeStep
  <2> QED
    BY <1>4, <2>1 DEF HeapInvariant
<1>7. CASE /\ Exhausted(t, shape)
           /\ root' = [root EXCEPT ![r] = Null]
           /\ offset' = [offset EXCEPT ![r] = 0]
           /\ UNCHANGED <<top, tlab>>
  <2>1. Intact(mem', top, tlab, attached, root, offset)
    BY <1>1, <1>7, ExhaustedStep
  <2>2. PICK S : Sound(mem', top, tlab, attached, S) /\ Rooted(mem', ObjectsOf(tlab, S), root, offset)
    BY <2>1 DEF Intact
  <2>3. Null \in Nat /\ 0 \in Nat
    BY DEF Null
  <2>4. Intact(mem', top, tlab, attached, root', offset')
    BY <1>7, <2>2, <2>3, SetIntact
  <2> QED
    BY <1>2, <1>4, <1>7, <2>4 DEF HeapInvariant
<1> QED
  BY <1>5, <1>6, <1>7 DEF AllocRetry

\* Threads that come and go.
LEMMA AttachStep ==
  ASSUME HeapInvariant, NEW t \in Mutators, AttachThread(t)
  PROVE  HeapInvariant'
<1>1. PICK S : Sound(mem, top, tlab, attached, S) /\ Rooted(mem, ObjectsOf(tlab, S), root, offset)
  BY DEF HeapInvariant, Intact
<1>2. attached' = attached \cup {t} /\ UNCHANGED <<mem, top, tlab, root, offset, req>>
  BY DEF AttachThread
<1>3. attached' \in SUBSET Mutators /\ attached \subseteq attached'
  BY <1>1, <1>2 DEF Sound
<1>4. Sound(mem, top, tlab, attached', S)
  BY <1>1, <1>3, SameThreads
<1>5. Intact(mem', top', tlab', attached', root', offset')
  BY <1>1, <1>2, <1>4 DEF Intact
<1>6. Requests'
  BY <1>2 DEF HeapInvariant, Requests
<1> QED
  BY <1>5, <1>6 DEF HeapInvariant

LEMMA DetachStep ==
  ASSUME HeapInvariant, NEW t \in Mutators, DetachThread(t)
  PROVE  HeapInvariant'
<1>1. Intact(mem, top, tlab, attached, root, offset) /\ Requests
  BY DEF HeapInvariant
<1>2. /\ req[t] = NoReq /\ mem' = Filled(mem, tlab[t]) /\ tlab' = [tlab EXCEPT ![t] = NoTlab]
      /\ attached' = attached \ {t} /\ UNCHANGED <<top, root, offset, req>>
  BY DEF DetachThread
<1>3. /\ attached \in SUBSET Mutators /\ tlab \in [Mutators -> Nat \X Nat]
      /\ \A u \in Mutators : u \notin attached => tlab[u] = NoTlab
  BY <1>1 DEF Intact, Sound, Gaps
<1>4. attached' \in SUBSET Mutators /\ \A u \in Mutators : u \notin attached' => tlab'[u] = NoTlab
  BY <1>2, <1>3
<1>5. Intact(mem', top, tlab', attached', root, offset)
  BY <1>1, <1>2, <1>4, RetiredIntact
<1>6. Requests'
  BY <1>1, <1>2 DEF Requests
<1> QED
  BY <1>2, <1>5, <1>6 DEF HeapInvariant

\* A collection.
LEMMA CollectStep ==
  ASSUME HeapInvariant, NEW t \in Mutators, Collect(t)
  PROVE  HeapInvariant'
<1>1. PICK S : Sound(mem, top, tlab, attached, S) /\ Rooted(mem, ObjectsOf(tlab, S), root, offset)
  BY DEF HeapInvariant, Intact
<1>2. PICK m : m = FillOf(mem, tlab, attached)
  OBVIOUS
<1>3. m \in [Words -> Int] /\ top \in Base .. End /\ Layout(m, top, S)
  BY <1>1, <1>2, SoundFacts
<1>4. m = AllFilled /\ Headers(m, top) = S /\ Index(m, top) = S
  BY <1>2, <1>3, AllFilledIs, HeadersAre, IndexIs
<1>5. PICK K : K = Marked(m, S, {root[r] : r \in Roots} \ {Null})
  OBVIOUS
<1>6. PICK to : to = Forwarding(m, S, K)
  OBVIOUS
<1>7. PICK u : u = Updated(m, S, S, to)
  OBVIOUS
<1>8. /\ t \in attached /\ attached' = attached /\ offset' = offset
      /\ tlab' = [v \in Mutators |-> NoTlab]
      /\ req' = IF req[t] = NoReq THEN req ELSE [req EXCEPT ![t] = <<@[1], @[2], TRUE>>]
  BY DEF Collect, TlabsAfter
<1>9. /\ top' = NewTop(m, to)
      /\ mem' = Released(Moved(u, to), NewTop(m, to))
      /\ root' = [r \in Roots |-> ForwardedSlot(m, S, to, root[r])]
  BY <1>4, <1>5, <1>6, <1>7 DEF Collect, RootValues
<1>10. Intact(mem', top', tlab', attached', root', offset')
  BY <1>1, <1>2, <1>5, <1>6, <1>7, <1>8, <1>9, Collected
<1>11. Requests'
  BY <1>8, RequestIs DEF HeapInvariant, Requests
<1> QED
  BY <1>10, <1>11 DEF HeapInvariant

\* A collection that another thread is found to run.
LEMMA LoseRaceStep ==
  ASSUME HeapInvariant, NEW t \in Mutators, LoseRace(t)
  PROVE  HeapInvariant'
<1>1. /\ req[t] # NoReq /\ req' = [req EXCEPT ![t] = <<@[1], @[2], TRUE>>]
      /\ UNCHANGED <<mem, top, attached, tlab, root, offset>>
  BY DEF LoseRace
<1>2. Requests'
  BY <1>1, RequestIs DEF HeapInvariant, Requests
<1> QED
  BY <1>1, <1>2 DEF HeapInvariant

\* A root that has a field refers to the start of its object.
LEMMA FieldRoot ==
  ASSUME NEW S, Sound(mem, top, tlab, attached, S), Rooted(mem, ObjectsOf(tlab, S), root, offset),
         NEW r \in Roots, HasField(r)
  PROVE  Object(r) \in ObjectsOf(tlab, S) /\ root[r] \in Fields(mem, Object(r)) /\ root[r] \in Nat
BY DEF HasField, Rooted, Object

\* The program stores a reference.
LEMMA StoreStep ==
  ASSUME HeapInvariant, NEW r \in Roots, NEW s \in Roots, Store(r, s)
  PROVE  HeapInvariant'
<1>1. PICK S : Sound(mem, top, tlab, attached, S) /\ Rooted(mem, ObjectsOf(tlab, S), root, offset)
  BY DEF HeapInvariant, Intact
<1>2. /\ HasField(r) /\ offset[s] = 0 /\ mem' = [mem EXCEPT ![root[r]] = root[s]]
      /\ UNCHANGED <<top, attached, tlab, root, offset, req>>
  BY DEF Store, IsBase
<1>3. Object(r) \in ObjectsOf(tlab, S) /\ root[r] \in Fields(mem, Object(r))
  BY <1>1, <1>2, FieldRoot
<1>4. root[s] \in Nat /\ (root[s] = Null \/ root[s] - HeaderSize \in ObjectsOf(tlab, S))
  BY <1>1, <1>2 DEF Rooted, HeaderSize
<1>5. /\ Sound(mem', top, tlab, attached, S)
      /\ \A g \in ObjectsOf(tlab, S) : mem'[g] = mem[g]
  <2>1. PICK v : v = root[s]
    OBVIOUS
  <2>2. PICK f : f = root[r]
    OBVIOUS
  <2>3. PICK h : h = Object(r)
    OBVIOUS
  <2>4. PICK m2 : m2 = [mem EXCEPT ![f] = v]
    OBVIOUS
  <2>5. h \in ObjectsOf(tlab, S) /\ f \in Fields(mem, h)
    BY <1>3, <2>2, <2>3
  <2>6. v \in Nat /\ (v = Null \/ v - HeaderSize \in ObjectsOf(tlab, S))
    BY <1>4, <2>1
  <2>7. Sound(m2, top, tlab, attached, S)
    BY <1>1, <2>4, <2>5, <2>6, StoreSound
  <2>8. \A g \in ObjectsOf(tlab, S) : m2[g] = mem[g]
    BY <1>1, <2>4, <2>5, <2>6, StoreSound
  <2>9. mem' = m2
    BY <1>2, <2>1, <2>2, <2>4
  <2> QED
    BY <2>7, <2>8, <2>9
<1>6. Rooted(mem', ObjectsOf(tlab, S), root, offset)
  BY <1>1, <1>5, RootedGrows
<1>7. Intact(mem', top', tlab', attached', root', offset')
  BY <1>2, <1>5, <1>6 DEF Intact
<1>8. Requests'
  BY <1>2 DEF HeapInvariant, Requests
<1> QED
  BY <1>7, <1>8 DEF HeapInvariant

\* The program loads a reference.
LEMMA LoadStep ==
  ASSUME HeapInvariant, NEW r \in Roots, NEW s \in Roots, Load(r, s)
  PROVE  HeapInvariant'
<1>1. PICK S : Sound(mem, top, tlab, attached, S) /\ Rooted(mem, ObjectsOf(tlab, S), root, offset)
  BY DEF HeapInvariant, Intact
<1>2. /\ HasField(s) /\ root' = [root EXCEPT ![r] = mem[root[s]]] /\ offset' = [offset EXCEPT ![r] = 0]
      /\ UNCHANGED <<mem, top, attached, tlab, req>>
  BY DEF Load
<1>3. Object(s) \in ObjectsOf(tlab, S) /\ root[s] \in Fields(mem, Object(s))
  BY <1>1, <1>2, FieldRoot
<1>4. PICK v : v = mem[root[s]]
  OBVIOUS
<1>5. PICK F : F = FillOf(mem, tlab, attached)
  OBVIOUS
<1>6. v = Null \/ v - HeaderSize \in ObjectsOf(tlab, S)
  BY <1>1, <1>3, <1>4, <1>5, ObjectFields
<1>7. v \in Int
  BY <1>1, <1>3, <1>4, <1>5, ObjectFields, SoundFacts
<1>8. \A h \in ObjectsOf(tlab, S) : h \in Nat /\ mem[h] \in Nat
  BY <1>1, <1>5, SoundFacts
<1>9. v \in Nat /\ (v = Null \/ (v - 0 - HeaderSize \in ObjectsOf(tlab, S)
                                /\ 0 <= mem[v - 0 - HeaderSize]))
  <2>1. CASE v = Null
    BY <2>1 DEF Null
  <2>2. CASE v - HeaderSize \in ObjectsOf(tlab, S)
    <3>1. v - 0 - HeaderSize = v - HeaderSize
      BY <1>7 DEF HeaderSize
    <3>2. v - HeaderSize \in Nat /\ mem[v - HeaderSize] \in Nat
      BY <1>8, <2>2
    <3> QED
      BY <1>7, <2>2, <3>1, <3>2 DEF HeaderSize
  <2> QED
    BY <1>6, <2>1, <2>2
<1>10. 0 \in Nat
  OBVIOUS
<1>11. Intact(mem', top', tlab', attached', root', offset')
  BY <1>1, <1>2, <1>4, <1>9, <1>10, SetIntact
<1>12. Requests'
  BY <1>2 DEF HeapInvariant, Requests
<1> QED
  BY <1>11, <1>12 DEF HeapInvariant

\* The program forgets a reference.
LEMMA DropStep ==
  ASSUME HeapInvariant, NEW r \in Roots, Drop(r)
  PROVE  HeapInvariant'
<1>1. PICK S : Sound(mem, top, tlab, attached, S) /\ Rooted(mem, ObjectsOf(tlab, S), root, offset)
  BY DEF HeapInvariant, Intact
<1>2. /\ root' = [root EXCEPT ![r] = Null] /\ offset' = [offset EXCEPT ![r] = 0]
      /\ UNCHANGED <<mem, top, attached, tlab, req>>
  BY DEF Drop
<1>3. Null \in Nat /\ 0 \in Nat
  BY DEF Null
<1>4. Intact(mem', top', tlab', attached', root', offset')
  BY <1>1, <1>2, <1>3, SetIntact
<1>5. Requests'
  BY <1>2 DEF HeapInvariant, Requests
<1> QED
  BY <1>4, <1>5 DEF HeapInvariant

\* The program steps inside an object, or to its end.
LEMMA AdvanceStep ==
  ASSUME HeapInvariant, NEW r \in Roots, Advance(r)
  PROVE  HeapInvariant'
<1>1. PICK S : Sound(mem, top, tlab, attached, S) /\ Rooted(mem, ObjectsOf(tlab, S), root, offset)
  BY DEF HeapInvariant, Intact
<1>2. PICK k \in {1, SizeAt(mem, Object(r))} \ {0} :
        /\ k <= SizeAt(mem, Object(r))
        /\ root' = [root EXCEPT ![r] = @ + k] /\ offset' = [offset EXCEPT ![r] = k]
  BY DEF Advance
<1>3. /\ root[r] # Null /\ offset[r] = 0 /\ UNCHANGED <<mem, top, attached, tlab, req>>
  BY DEF Advance, IsBase
<1>4. PICK F : F = FillOf(mem, tlab, attached)
  OBVIOUS
<1>5. /\ root[r] \in Nat /\ Object(r) \in ObjectsOf(tlab, S) /\ Object(r) = root[r] - HeaderSize
  BY <1>1, <1>3 DEF Rooted, Object, HeaderSize
<1>6. Object(r) \in Words /\ mem[Object(r)] \in Nat /\ mem \in [Words -> Int]
  BY <1>1, <1>4, <1>5, SoundFacts DEF Layout
<1>7. SizeAt(mem, Object(r)) = mem[Object(r)]
  BY <1>6 DEF SizeAt, Word
<1>8. k \in Nat /\ k <= mem[Object(r)]
  BY <1>2, <1>6, <1>7
<1>9. PICK v : v = root[r] + k
  OBVIOUS
<1>10. v \in Nat /\ v - k - HeaderSize = Object(r)
  BY <1>5, <1>8, <1>9 DEF HeaderSize
<1>11. root' = [root EXCEPT ![r] = v]
  BY <1>1, <1>2, <1>9 DEF Rooted
<1>12. v - k - HeaderSize \in ObjectsOf(tlab, S) /\ k <= mem[v - k - HeaderSize]
  BY <1>5, <1>8, <1>10
<1>13. Intact(mem, top, tlab, attached, root', offset')
  <2>1. k \in Nat /\ v \in Nat /\ offset' = [offset EXCEPT ![r] = k]
    BY <1>2, <1>8, <1>10
  <2> QED
    BY <1>1, <1>11, <1>12, <2>1, SetIntact
<1>14. Requests'
  BY <1>3 DEF HeapInvariant, Requests
<1> QED
  BY <1>3, <1>13, <1>14 DEF HeapInvariant

\* Every step of the heap keeps the invariant.
LEMMA HeapStep ==
  ASSUME HeapInvariant, [HeapNext]_heapVars
  PROVE  HeapInvariant'
<1>1. CASE UNCHANGED heapVars
  BY <1>1 DEF heapVars, HeapInvariant, Intact, Requests
<1>2. ASSUME NEW t \in Mutators, NEW r \in Roots, NEW s \in Shapes, AllocFast(t, r, s)
      PROVE  HeapInvariant'
  <2>1. Intact(mem', top', tlab', attached', root', offset')
    BY <1>2, FastStep DEF HeapInvariant
  <2>2. Requests'
    BY <1>2 DEF AllocFast, HeapInvariant, Requests
  <2> QED
    BY <2>1, <2>2 DEF HeapInvariant
<1>3. ASSUME NEW t \in Mutators, NEW r \in Roots, NEW s \in Shapes, AllocSlow(t, r, s)
      PROVE  HeapInvariant'
  BY <1>3, SlowStep
<1>4. ASSUME NEW t \in Mutators,
             AllocRetry(t) \/ AttachThread(t) \/ DetachThread(t) \/ Collect(t) \/ LoseRace(t)
      PROVE  HeapInvariant'
  BY <1>4, RetryStep, AttachStep, DetachStep, CollectStep, LoseRaceStep
<1>5. ASSUME NEW r \in Roots, Drop(r) \/ Advance(r)
      PROVE  HeapInvariant'
  BY <1>5, DropStep, AdvanceStep
<1>6. ASSUME NEW r \in Roots, NEW s \in Roots, Store(r, s) \/ Load(r, s)
      PROVE  HeapInvariant'
  BY <1>6, StoreStep, LoadStep
<1> QED
  BY <1>1, <1>2, <1>3, <1>4, <1>5, <1>6 DEF HeapNext

\* What the program can reach is an object, and none of the fillers.
LEMMA ReachableAreObjects ==
  ASSUME NEW S, Sound(mem, top, tlab, attached, S), Rooted(mem, ObjectsOf(tlab, S), root, offset)
  PROVE  Reachable \subseteq ObjectsOf(tlab, S)
<1> DEFINE L     == ObjectsOf(tlab, S)
           next  == [h \in Words |-> Referred(h) \cap Words]
           start == {Object(r) : r \in {q \in Roots : root[q] # Null}} \cap Words
<1>1. PICK F : F = FillOf(mem, tlab, attached)
  OBVIOUS
<1>2. mem \in [Words -> Int]
  BY <1>1, SoundFacts
<1>3. L \in SUBSET Words
  BY <1>1, SoundFacts DEF Layout
<1>4. start \subseteq L
  BY DEF Rooted, Object
<1>5. ASSUME NEW x \in L PROVE next[x] \subseteq L
  <2> SUFFICES ASSUME NEW f \in Fields(mem, x), Word(mem, f) # Null
               PROVE  Word(mem, f) - HeaderSize \in L
    BY <1>3 DEF Referred
  <2>1. f \in Words /\ (mem[f] = Null \/ mem[f] - HeaderSize \in L)
    BY <1>1, ObjectFields
  <2>2. Word(mem, f) = mem[f]
    BY <1>2, <2>1 DEF Word
  <2> QED
    BY <2>1, <2>2
<1>6. next \in [Words -> SUBSET Words] /\ start \in SUBSET Words
  OBVIOUS
<1>7. Reachable = Reached(start, next)
  BY DEF Reachable
<1> HIDE DEF L, next, start
<1>8. Reached(start, next) \subseteq L
  BY <1>3, <1>4, <1>5, <1>6, ReachedIsLeast, WordsFinite
<1> QED
  BY <1>7, <1>8 DEF L

\* The invariant implies that the heap can be walked.
LEMMA InvariantWalkable ==
  ASSUME HeapInvariant
  PROVE  HeapWalkable
<1>1. PICK S : Sound(mem, top, tlab, attached, S) /\ Rooted(mem, ObjectsOf(tlab, S), root, offset)
  BY DEF HeapInvariant, Intact
<1>2. PICK m : m = FillOf(mem, tlab, attached)
  OBVIOUS
<1>3. m \in [Words -> Int] /\ top \in Base .. End /\ Layout(m, top, S)
  BY <1>1, <1>2, SoundFacts
<1>4. m = AllFilled /\ Headers(m, top) = S
  BY <1>2, <1>3, AllFilledIs, HeadersAre
<1>5. \A h \in S : /\ h \in Nat /\ Base <= h /\ h < top /\ Word(m, h + 1) = m[h + 1]
                   /\ h + Total(m, h) = Past(m, h)
  BY <1>3, LayoutWords
<1>6. top = IF S = {} THEN Base ELSE Max(S) + Total(m, Max(S))
  <2>1. CASE S = {}
    BY <1>3, <2>1 DEF Layout
  <2>2. CASE S # {}
    <3>1. top # Base /\ top \in Nat
      BY <1>3, <1>5, <2>2, WordsAreNat
    <3>2. PICK p \in S : p < top /\ Past(m, p) = top
      BY <1>3, <3>1, Predecessor
    <3>3. \A g \in S : g <= p
      <4> SUFFICES ASSUME NEW g \in S, ~(g <= p) PROVE FALSE
        OBVIOUS
      <4>1. p < g /\ g < top
        BY <1>5
      <4>2. Past(m, p) <= g
        BY <1>3, <4>1 DEF Layout
      <4> QED
        BY <1>5, <3>1, <3>2, <4>1, <4>2
    <3>4. Max(S) = p
      BY <1>5, <3>3, MaxIs
    <3> QED
      BY <1>5, <2>2, <3>2, <3>4
  <2> QED
    BY <2>1, <2>2
<1>7. \A h \in S : Word(m, h + 1) = 0
  BY <1>1, <1>2, <1>5 DEF Sound
<1>8. Reachable \subseteq S
  BY <1>1, ReachableAreObjects DEF ObjectsOf
<1> QED
  BY <1>4, <1>6, <1>7, <1>8 DEF HeapWalkable

\* The invariant implies that the free room is nobody else's.
LEMMA InvariantRoom ==
  ASSUME HeapInvariant
  PROVE  RoomIsFree
<1>1. PICK S : Sound(mem, top, tlab, attached, S) /\ Rooted(mem, ObjectsOf(tlab, S), root, offset)
  BY DEF HeapInvariant, Intact
<1>2. PICK m : m = FillOf(mem, tlab, attached)
  OBVIOUS
<1>3. /\ attached \subseteq Mutators /\ Gaps(tlab, top) /\ mem \in [Words -> Int]
      /\ \A t \in Mutators : tlab[t][1] \in Nat /\ tlab[t][2] \in Nat
  BY <1>1 DEF Sound, Gaps
<1>4. ASSUME NEW t \in Mutators, Gap(t) # {} PROVE OpenIn(tlab, t)
  BY <1>3, <1>4 DEF Gap, OpenIn
<1>5. ASSUME NEW t \in Mutators, OpenIn(tlab, t) PROVE tlab[t][2] <= top
  BY <1>1, <1>2, <1>5, SoundFacts
<1>6. ASSUME NEW t \in Mutators, NEW u \in Mutators, t # u PROVE Gap(t) \cap Gap(u) = {}
  <2> SUFFICES ASSUME NEW a \in Gap(t), a \in Gap(u) PROVE FALSE
    OBVIOUS
  <2>1. OpenIn(tlab, t) /\ OpenIn(tlab, u)
    BY <1>4
  <2>2. tlab[t][2] <= tlab[u][1] \/ tlab[u][2] <= tlab[t][1]
    BY <1>3, <1>6, <2>1 DEF Gaps
  <2> QED
    BY <1>3, <2>2 DEF Gap
<1>7. ASSUME NEW t \in Mutators, NEW h \in Reachable PROVE Gap(t) \cap Extent(h) = {}
  <2> SUFFICES ASSUME NEW a \in Gap(t), a \in Extent(h) PROVE FALSE
    OBVIOUS
  <2>1. h \in ObjectsOf(tlab, S)
    BY <1>1, ReachableAreObjects
  <2>2. h \in S /\ h \in Nat /\ mem[h] \in Nat /\ m[h] = mem[h]
    BY <1>1, <1>2, <2>1, SoundFacts
  <2>3. h \in Words
    BY <1>1, <1>2, <2>2, SoundFacts DEF Layout
  <2>4. h + Total(mem, h) = Past(m, h) /\ Total(mem, h) \in Nat
    BY <1>3, <2>2, <2>3 DEF Total, SizeAt, Word, Past, HeaderSize
  <2>5. OpenIn(tlab, t)
    BY <1>4
  <2>6. Past(m, h) <= tlab[t][1] \/ tlab[t][2] <= h
    BY <1>1, <1>2, <2>1, <2>5, SoundFacts
  <2>7. h <= a /\ a < h + Total(mem, h) /\ a \in Nat /\ tlab[t][1] <= a /\ a < tlab[t][2]
    BY <1>3, <2>2, <2>4 DEF Gap, Extent
  <2> QED
    BY <1>3, <2>2, <2>4, <2>6, <2>7
<1> QED
  BY <1>3, <1>4, <1>5, <1>6, <1>7 DEF RoomIsFree

\* The inductive invariant of the heap: a row of blocks leads to the top, the gaps of
\* the buffers are blocks of it, and every reference refers to an object.
THEOREM HeapStaysSound == HeapSpec => []HeapInvariant
<1>1. HeapInit => HeapInvariant
  BY StartsIntact
<1>2. HeapInvariant /\ [HeapNext]_heapVars => HeapInvariant'
  BY HeapStep
<1> QED
  BY <1>1, <1>2, PTL DEF HeapSpec

\* Whatever was allocated, dropped, moved or left behind, the heap can be walked from
\* its first header to the top: no sequence of steps makes a collection lose its way.
THEOREM HeapIsWalkable == HeapSpec => []HeapWalkable
<1>1. HeapInvariant => HeapWalkable
  BY InvariantWalkable
<1> QED
  BY <1>1, HeapStaysSound, PTL

\* The room a thread may still bump into stays its own: no other buffer and no object
\* that can be reached lies in it, through refills, collections and threads that leave.
THEOREM RoomStaysFree == HeapSpec => []RoomIsFree
<1>1. HeapInvariant => RoomIsFree
  BY InvariantRoom
<1> QED
  BY <1>1, HeapStaysSound, PTL

-----------------------------------------------------------------------------
(* What a collection reclaims *)

\* Two sweeps, over blocks with and without x, differ from x on by the length of x.
Longer(m, K, x, c, d) ==
  \A a \in Nat : c[a] = d[a] + (IF x \in K /\ x < a THEN HeaderSize + m[x] ELSE 0)
LEMMA CursorsDiffer ==
  ASSUME NEW m \in [Words -> Int], NEW end \in Base .. End, NEW S, Layout(m, end, S),
         NEW K \in SUBSET S, NEW x \in Nat, Base <= x,
         NEW c, Cursor(m, K, c), NEW d, Cursor(m, K \ {x}, d)
  PROVE  Longer(m, K, x, c, d)
<1> DEFINE P(a) == c[a] = d[a] + (IF x \in K /\ x < a THEN HeaderSize + m[x] ELSE 0)
           T    == {a \in Nat : ~P(a)}
<1> SUFFICES ASSUME T # {} PROVE FALSE
  BY DEF Longer
<1>1. /\ Base \in Nat /\ c \in [Nat -> Nat] /\ d \in [Nat -> Nat]
      /\ \A a \in Nat : a <= Base => c[a] = Base /\ d[a] = Base
      /\ \A a \in Nat : a >= Base => c[a + 1] = IF a \in K THEN c[a] + HeaderSize + m[a] ELSE c[a]
      /\ \A a \in Nat : a >= Base => d[a + 1] = IF a \in K \ {x} THEN d[a] + HeaderSize + m[a] ELSE d[a]
  BY WordsAreNat DEF Cursor
<1>2. PICK a \in T : \A b \in T : a <= b
  <2>1. T \subseteq Nat
    OBVIOUS
  <2> HIDE DEF T
  <2> QED
    BY <2>1, Least
<1>3. a \in Nat /\ ~P(a)
  OBVIOUS
<1>4. a > Base
  <2> SUFFICES ASSUME a <= Base PROVE FALSE
    BY <1>1, <1>3
  <2>1. c[a] = Base /\ d[a] = Base /\ ~(x < a)
    BY <1>1, <1>3
  <2> QED
    BY <1>1, <1>3, <2>1
<1>5. PICK b \in Nat : a = b + 1 /\ b >= Base
  <2>1. a - 1 \in Nat /\ a = (a - 1) + 1 /\ a - 1 >= Base
    BY <1>1, <1>3, <1>4
  <2> QED
    BY <2>1
<1>6. P(b)
  <2>1. b \notin T
    BY <1>2, <1>3, <1>5
  <2> QED
    BY <2>1
<1>7. /\ c[a] = IF b \in K THEN c[b] + HeaderSize + m[b] ELSE c[b]
      /\ d[a] = IF b \in K \ {x} THEN d[b] + HeaderSize + m[b] ELSE d[b]
      /\ c[b] \in Nat /\ d[b] \in Nat
  BY <1>1, <1>5
<1>8. b \in K => m[b] \in Nat
  BY LayoutWords
<1>9. x \in K => m[x] \in Nat
  BY LayoutWords
<1>10. CASE b = x
  BY <1>3, <1>5, <1>6, <1>7, <1>8, <1>10 DEF HeaderSize
<1>11. CASE b # x
  <2>1. x < b <=> x < a
    BY <1>5, <1>11
  <2>2. b \in K <=> b \in K \ {x}
    BY <1>11
  <2>3. CASE x \in K /\ x < a
    BY <1>3, <1>6, <1>7, <1>8, <1>9, <2>1, <2>2, <2>3 DEF HeaderSize
  <2>4. CASE ~(x \in K /\ x < a)
    BY <1>3, <1>6, <1>7, <1>8, <2>1, <2>2, <2>4 DEF HeaderSize
  <2> QED
    BY <2>3, <2>4
<1> QED
  BY <1>10, <1>11

\* What the blocks of K take, of their lengths in w.
Lengths(w, K) == MapThenSumSet(LAMBDA h : Total(w, h), K)

\* A sum over blocks, as the library computes it, is where their cursor ends: taking a
\* block away shortens both by its length, whichever is taken.
LEMMA SumIs ==
  ASSUME NEW m \in [Words -> Int], NEW end \in Base .. End, NEW S, Layout(m, end, S),
         NEW K \in SUBSET S, NEW w, \A h \in K : Total(w, h) = HeaderSize + m[h],
         NEW n, Ends(m, K, end, n)
  PROVE  n = Base + Lengths(w, K)
<1> DEFINE Sweep(s) == CHOOSE c : Cursor(m, s, c)
           One(s)   == CHOOSE x \in s : TRUE
           Step(f)  == [s \in SUBSET K |-> IF s = {} THEN 0 ELSE Total(w, One(s)) + f[s \ {One(s)}]]
           g == [s \in SUBSET K |-> Sweep(s)[end] - Base]
           f == CHOOSE f : f = Step(f)
<1>1. Base \in Nat /\ end \in Nat /\ Base <= end
  BY WordsAreNat
<1>2. \A h \in K : h \in Nat /\ Base <= h /\ h < end /\ m[h] \in Nat
  BY LayoutWords
<1>3. ASSUME NEW s \in SUBSET K
      PROVE  Cursor(m, s, Sweep(s)) /\ Sweep(s)[end] \in Nat
  <2>1. s \in SUBSET S
    OBVIOUS
  <2>2. \E c : Cursor(m, s, c)
    BY <2>1, ForwardingIs
  <2>3. Cursor(m, s, Sweep(s))
    BY <2>2
  <2> QED
    BY <1>1, <2>3 DEF Cursor
<1>4. Sweep({})[end] = Base
  <2>1. Cursor(m, {}, Sweep({})) /\ {} \in SUBSET S
    BY <1>3
  <2>2. Steady(end, S, {}, Sweep({}))
    BY <2>1, CursorFacts
  <2>3. Sweep({})[Base] = Base
    <3> HIDE DEF Sweep
    <3> QED
      BY <1>1, <2>1 DEF Cursor
  <2>4. Sweep({})[Base] = Sweep({})[end]
    BY <1>1, <2>2 DEF Steady
  <2> QED
    BY <2>3, <2>4
<1>5. ASSUME NEW s \in SUBSET K, NEW x \in s
      PROVE  Sweep(s)[end] = Sweep(s \ {x})[end] + HeaderSize + m[x]
  <2>1. s \in SUBSET S /\ s \ {x} \in SUBSET K /\ x \in K
    OBVIOUS
  <2>2. Cursor(m, s, Sweep(s)) /\ Cursor(m, s \ {x}, Sweep(s \ {x})) /\ Sweep(s \ {x})[end] \in Nat
    BY <1>3, <2>1
  <2>3. x \in Nat /\ Base <= x /\ x < end /\ m[x] \in Nat
    BY <1>2, <2>1
  <2> HIDE DEF Sweep
  <2>4. PICK c : c = Sweep(s)
    OBVIOUS
  <2>5. PICK d : d = Sweep(s \ {x})
    OBVIOUS
  <2>6. Cursor(m, s, c) /\ Cursor(m, s \ {x}, d)
    BY <2>2, <2>4, <2>5
  <2>7. Longer(m, s, x, c, d)
    BY <2>1, <2>3, <2>6, CursorsDiffer
  <2>8. c[end] = d[end] + (HeaderSize + m[x])
    BY <1>1, <2>3, <2>7 DEF Longer
  <2>9. d[end] \in Nat /\ m[x] \in Nat /\ HeaderSize \in Nat
    BY <2>2, <2>3, <2>5 DEF HeaderSize
  <2> QED
    BY <2>4, <2>5, <2>8, <2>9
<1>6. g = Step(g)
  <2> HIDE DEF Sweep
  <2>1. ASSUME NEW s \in SUBSET K
        PROVE  g[s] = IF s = {} THEN 0 ELSE Total(w, One(s)) + g[s \ {One(s)}]
    <3>1. CASE s = {}
      BY <1>1, <1>4, <3>1
    <3>2. CASE s # {}
      <4>1. PICK x \in s : x = One(s)
        BY <3>2
      <4>2. s \ {x} \in SUBSET K /\ x \in K
        OBVIOUS
      <4>3. Sweep(s)[end] = Sweep(s \ {x})[end] + HeaderSize + m[x] /\ Sweep(s \ {x})[end] \in Nat
        BY <1>3, <1>5, <4>2
      <4>4. Total(w, x) = HeaderSize + m[x] /\ m[x] \in Nat
        BY <1>2, <4>2
      <4>5. g[s] = Total(w, x) + g[s \ {x}]
        BY <1>1, <4>2, <4>3, <4>4 DEF HeaderSize
      <4> QED
        BY <3>2, <4>1, <4>5
    <3> QED
      BY <3>1, <3>2
  <2>2. g = [s \in SUBSET K |-> g[s]]
    OBVIOUS
  <2> HIDE DEF g, One
  <2> QED
    BY <2>1, <2>2
<1>7. f = Step(f)
  <2> HIDE DEF g, Step
  <2> QED
    BY <1>6
<1>8. IsFiniteSet(K)
  <2>1. K \subseteq Words
    BY DEF Layout
  <2> QED
    BY <2>1, WordsFinite, FS_Subset
<1> HIDE DEF f, g
<1>9. ASSUME NEW s \in SUBSET K, f[s] # g[s] PROVE FALSE
  <2> DEFINE T == {Cardinality(q) : q \in {p \in SUBSET K : f[p] # g[p]}}
  <2>1. \A q \in SUBSET K : IsFiniteSet(q) /\ Cardinality(q) \in Nat
    BY <1>8, FS_Subset, FS_CardinalityType
  <2>2. T \subseteq Nat /\ T # {}
    BY <1>9, <2>1
  <2>3. PICK k \in T : \A n2 \in T : k <= n2
    <3> HIDE DEF T
    <3> QED
      BY <2>2, Least
  <2>4. PICK q \in SUBSET K : f[q] # g[q] /\ Cardinality(q) = k
    BY <2>3
  <2>5. q # {}
    BY <1>6, <1>7, <2>4
  <2>6. PICK x \in q : x = One(q)
    BY <2>5
  <2>7. q \ {x} \in SUBSET K /\ Cardinality(q \ {x}) = Cardinality(q) - 1
    BY <2>1, FS_RemoveElement
  <2>8. f[q \ {x}] = g[q \ {x}]
    <3> SUFFICES ASSUME f[q \ {x}] # g[q \ {x}] PROVE FALSE
      OBVIOUS
    <3>1. PICK j \in T : j = Cardinality(q \ {x})
      BY <2>7
    <3>2. k \in Nat /\ k <= j
      BY <2>1, <2>3, <2>4
    <3>3. j = k - 1
      BY <2>4, <2>7, <3>1
    <3> HIDE DEF T
    <3> QED
      BY <3>2, <3>3
  <2>9. f[q] = Total(w, x) + f[q \ {x}] /\ g[q] = Total(w, x) + g[q \ {x}]
    <3> HIDE DEF One
    <3> QED
      BY <1>6, <1>7, <2>5, <2>6
  <2> QED
    BY <2>4, <2>8, <2>9
<1>10. Lengths(w, K) = f[K]
  BY DEF Lengths, MapThenSumSet, MapThenFoldSet, f
<1>11. PICK c : Cursor(m, K, c) /\ n = c[end]
  BY DEF Ends
<1>12. c[end] = Sweep(K)[end]
  <2>1. end \notin K /\ K \ {end} = K
    BY <1>1, <1>2
  <2>2. Cursor(m, K \ {end}, Sweep(K)) /\ Sweep(K)[end] \in Nat
    BY <1>3, <2>1
  <2> HIDE DEF Sweep
  <2>3. Longer(m, K, end, c, Sweep(K))
    BY <1>1, <1>11, <2>2, CursorsDiffer
  <2> QED
    BY <1>1, <2>1, <2>2, <2>3 DEF Longer
<1>13. f[K] = Sweep(K)[end] - Base /\ Sweep(K)[end] \in Nat
  BY <1>3, <1>9 DEF g
<1> HIDE DEF Sweep
<1> QED
  BY <1>1, <1>10, <1>11, <1>12, <1>13

\* What a collection marks is what the program can reach.
LEMMA MarkedIsReachable ==
  ASSUME NEW S, Sound(mem, top, tlab, attached, S), Rooted(mem, ObjectsOf(tlab, S), root, offset),
         NEW F, F = FillOf(mem, tlab, attached),
         NEW K, K = Marked(F, S, {root[r] : r \in Roots} \ {Null})
  PROVE  K = Reachable /\ K \subseteq ObjectsOf(tlab, S)
<1> DEFINE L     == ObjectsOf(tlab, S)
           next  == [h \in Words |-> Referred(h) \cap Words]
           start == {Object(r) : r \in {q \in Roots : root[q] # Null}} \cap Words
<1>1. Traced(F, L, root, offset, K) /\ Minimal(F, L, root, offset, K)
  BY MarkedIs
<1>2. mem \in [Words -> Int] /\ F \in [Words -> Int] /\ top \in Base .. End /\ Layout(F, top, S)
  BY SoundFacts
<1>3. L \in SUBSET Words
  BY SoundFacts DEF Layout
<1>4. ASSUME NEW h \in L
      PROVE  /\ Fields(F, h) = Fields(mem, h)
             /\ \A f \in Fields(F, h) : Word(mem, f) = F[f] /\ (F[f] = Null \/ F[f] - HeaderSize \in L)
  <2>1. h \in S /\ F[h] = mem[h] /\ F[h + 2] = mem[h + 2]
    BY SoundFacts
  <2>2. h \in Words /\ h + 2 \in Words
    BY <1>2, <2>1, LayoutWords
  <2>3. Fields(F, h) = Fields(mem, h)
    BY <1>2, <2>1, <2>2, SameFields
  <2>4. ASSUME NEW f \in Fields(mem, h)
        PROVE  f \in Words /\ F[f] = mem[f] /\ (mem[f] = Null \/ mem[f] - HeaderSize \in L)
    BY ObjectFields
  <2>5. \A f \in Fields(mem, h) : Word(mem, f) = mem[f]
    BY <1>2, <2>4 DEF Word
  <2> QED
    BY <2>3, <2>4, <2>5
<1>5. \A r \in Roots : root[r] # Null => Object(r) \in L /\ Object(r) = root[r] - offset[r] - HeaderSize
  BY DEF Rooted, Object
<1>6. next \in [Words -> SUBSET Words] /\ start \in SUBSET Words /\ Reachable = Reached(start, next)
  BY DEF Reachable
<1>7. ASSUME NEW h \in L, NEW f \in Fields(F, h), F[f] # Null PROVE F[f] - HeaderSize \in next[h]
  BY <1>3, <1>4, <1>7 DEF Referred
<1>8. ASSUME NEW h \in L, NEW x \in next[h] PROVE \E f \in Fields(F, h) : F[f] # Null /\ x = F[f] - HeaderSize
  BY <1>3, <1>4, <1>8 DEF Referred
<1>9. \A r \in Roots : root[r] # Null => Object(r) \in start
  BY <1>3, <1>5
<1>10. \A x \in start : \E r \in Roots : root[r] # Null /\ x = Object(r)
  OBVIOUS
<1> HIDE DEF start, next
<1>11. /\ start \subseteq Reachable /\ \A x \in Reachable : next[x] \subseteq Reachable
       /\ \A c \in SUBSET Words : start \subseteq c /\ (\A x \in c : next[x] \subseteq c) => Reachable \subseteq c
  BY <1>6, ReachedIsLeast, WordsFinite
<1>12. Reachable \in SUBSET L
  BY ReachableAreObjects
<1>13. Closed(F, root, offset, Reachable)
  BY <1>5, <1>7, <1>9, <1>11, <1>12 DEF Closed
<1>14. K \subseteq Reachable
  BY <1>1, <1>12, <1>13 DEF Minimal
<1>15. K \subseteq L /\ start \subseteq K /\ \A x \in K : next[x] \subseteq K
  BY <1>1, <1>5, <1>8, <1>10 DEF Traced
<1>16. Reachable \subseteq K
  BY <1>3, <1>11, <1>15
<1> QED
  BY <1>14, <1>15, <1>16

\* A collection leaves a heap as long as what the program can reach.
LEMMA ReclaimsStep ==
  ASSUME HeapInvariant, NEW t \in Mutators, Collect(t)
  PROVE  top' = Base + MapThenSumSet(LAMBDA h : Total(mem, h), Reachable)
<1>1. PICK S : Sound(mem, top, tlab, attached, S) /\ Rooted(mem, ObjectsOf(tlab, S), root, offset)
  BY DEF HeapInvariant, Intact
<1>2. PICK m : m = FillOf(mem, tlab, attached)
  OBVIOUS
<1>3. m \in [Words -> Int] /\ top \in Base .. End /\ Layout(m, top, S) /\ mem \in [Words -> Int]
  BY <1>1, <1>2, SoundFacts
<1>4. m = AllFilled /\ Headers(m, top) = S /\ Index(m, top) = S
  BY <1>2, <1>3, AllFilledIs, HeadersAre, IndexIs
<1>5. PICK K : K = Marked(m, S, {root[r] : r \in Roots} \ {Null})
  OBVIOUS
<1>6. PICK to : to = Forwarding(m, S, K)
  OBVIOUS
<1>7. top' = NewTop(m, to)
  BY <1>4, <1>5, <1>6 DEF Collect, RootValues
<1>8. K = Reachable /\ K \subseteq ObjectsOf(tlab, S)
  BY <1>1, <1>2, <1>5, MarkedIsReachable
<1>9. K \in SUBSET S
  BY <1>8 DEF ObjectsOf
<1>10. Ends(m, K, top, top')
  BY <1>3, <1>6, <1>7, <1>9, ForwardingPacks
<1>11. ASSUME NEW h \in K PROVE Total(mem, h) = HeaderSize + m[h]
  <2>1. h \in S /\ mem[h] \in Nat /\ m[h] = mem[h]
    BY <1>1, <1>2, <1>8, SoundFacts
  <2>2. h \in Words
    BY <1>3, <2>1, LayoutWords
  <2> QED
    BY <1>3, <2>1, <2>2 DEF Total, SizeAt, Word
<1>12. PICK n : n = top'
  OBVIOUS
<1>13. Ends(m, K, top, n) /\ \A h \in K : Total(mem, h) = HeaderSize + m[h]
  BY <1>10, <1>11, <1>12
<1>14. n = Base + Lengths(mem, K)
  BY <1>3, <1>9, <1>13, SumIs
<1>15. top' = Base + Lengths(mem, Reachable)
  BY <1>8, <1>12, <1>14
<1> QED
  BY <1>15 DEF Lengths

\* For every heap, a collection leaves nothing but what was reachable, without a hole.
THEOREM GarbageIsReclaimed == HeapSpec => CollectReclaims
<1>1. HeapInvariant /\ [HeapNext]_heapVars =>
        [\A t \in Mutators : Collect(t) =>
           top' = Base + MapThenSumSet(LAMBDA h : Total(mem, h), Reachable)]_heapVars
  BY ReclaimsStep
<1> QED
  BY <1>1, HeapStaysSound, PTL DEF HeapSpec, CollectReclaims

-----------------------------------------------------------------------------
(* What the program sees *)

\* The objects H lie in the region, apart from one another, and their fields are null or
\* refer to objects of H.
Row(m, H) ==
  /\ m \in [Words -> Int]
  /\ \A h \in H : /\ h \in Nat /\ h \in Words /\ h + 2 \in Words /\ m[h] \in Nat
                  /\ h + HeaderSize + m[h] <= End
                  /\ m[h + 2] = Cell => m[h] # 0
                  /\ \A f \in Fields(m, h) : m[f] = Null \/ m[f] - HeaderSize \in H
  /\ \A g, h \in H : g < h => g + HeaderSize + m[g] <= h

\* What tells an object apart: the tag in its payload, if it has one.
HasTag(m, h) == m[h + 2] # Closure
NameOf(m, h) == IF HasTag(m, h) THEN m[h + HeaderSize + 1] ELSE Base
Names(m, H)  == {NameOf(m, h) : h \in {x \in H : HasTag(m, x)}}

\* The name of what v refers to, and of what the field of the object h does.
NameAt(m, v) == IF v = Null THEN Null ELSE NameOf(m, v - HeaderSize)
NextOf(m, h) == IF Fields(m, h) = {} THEN Null ELSE NameAt(m, m[h + HeaderSize])

\* The tags tell the objects H apart, and only their first fields refer to anything.
Identified(m, H) ==
  /\ \A h \in H : /\ m[h] <= Longest
                  /\ HasTag(m, h) => 2 <= m[h] /\ m[h + HeaderSize + 1] \in Tags
                  /\ \A f \in Fields(m, h) : f # h + HeaderSize => m[f] = Null
  /\ \A g, h \in H : HasTag(m, g) /\ HasTag(m, h) /\ NameOf(m, g) = NameOf(m, h) => g = h

\* The roots are null or point into objects of H, and H is what they reach.
RootsIn(rt, off, H) ==
  /\ rt \in [Roots -> Nat] /\ off \in [Roots -> Nat]
  /\ \A r \in Roots : /\ rt[r] = Null => off[r] = 0
                      /\ rt[r] # Null => rt[r] - off[r] - HeaderSize \in H
IsLive(m, rt, off, H) ==
  /\ H \in SUBSET Words
  /\ Closed(m, rt, off, H)
  /\ \A c \in SUBSET H : Closed(m, rt, off, c) => H \subseteq c

\* What the roots show of such a heap, and nx is what the fields do.
SlotsOf(m, rt, off) == [r \in Roots |-> <<NameAt(m, rt[r] - off[r]), off[r]>>]
Sees(m, H, nx) ==
  /\ nx = [o \in Tags |-> nx[o]]
  /\ \A h \in H : HasTag(m, h) => nx[NameOf(m, h)] = NextOf(m, h)
  /\ \A o \in Tags : o \notin Names(m, H) => nx[o] = Null

\* All of it: the heap m with these roots is seen as sl and nx.
World(m, rt, off, H, sl, nx) ==
  /\ Row(m, H) /\ Identified(m, H) /\ RootsIn(rt, off, H) /\ IsLive(m, rt, off, H)
  /\ sl = SlotsOf(m, rt, off) /\ Sees(m, H, nx)

\* Tags are neither null nor what stands for an object without one.
LEMMA TagsApart == Tags \subseteq Nat /\ Null \notin Tags /\ Base \notin Tags /\ Base \in Nat
<1>1. Base \in Nat /\ Tags \subseteq 1 .. Base - 1
  BY AllocAssumption, WordsAreNat DEF AllocAssumption
<1> QED
  BY <1>1 DEF Null

\* Where an object's fields are: in its payload and never at its tag; the first of them at
\* the start of the payload.
LEMMA FieldPlaces ==
  ASSUME NEW m, NEW H, Row(m, H), NEW h \in H
  PROVE  /\ \A f \in Fields(m, h) :
              /\ f \in Nat /\ f \in Words /\ f # h + HeaderSize + 1
              /\ h + HeaderSize <= f /\ f < h + HeaderSize + m[h]
         /\ Fields(m, h) # {} => h + HeaderSize \in Fields(m, h) /\ HasTag(m, h)
<1>1. /\ m \in [Words -> Int] /\ h \in Nat /\ h \in Words /\ h + 2 \in Words /\ m[h] \in Nat
      /\ h + HeaderSize + m[h] <= End /\ (m[h + 2] = Cell => m[h] # 0)
  BY DEF Row
<1>2. SizeAt(m, h) = m[h] /\ DescriptorAt(m, h) = m[h + 2]
  BY <1>1 DEF SizeAt, DescriptorAt, Word
<1>3. ASSUME NEW f \in Fields(m, h)
      PROVE  f \in Nat /\ f \in Words /\ h + HeaderSize <= f /\ f < h + HeaderSize + m[h]
  BY <1>1, FieldsInside
<1>4. CASE m[h + 2] = Cell
  <2>1. Fields(m, h) = {Payload(h)} /\ HasTag(m, h)
    BY <1>2, <1>4 DEF Fields, HasTag, Pairs, Cell, Closure
  <2>2. Payload(h) = h + HeaderSize /\ Payload(h) # h + HeaderSize + 1
    BY <1>1 DEF Payload, HeaderSize
  <2> QED
    BY <1>3, <2>1, <2>2
<1>5. CASE m[h + 2] = Pairs
  <2>1. /\ Fields(m, h) = {Payload(h) + 2 * e : e \in 0 .. (m[h] \div 2) - 1}
        /\ HasTag(m, h)
    BY <1>2, <1>5 DEF Fields, HasTag, Pairs, Cell, Closure
  <2>2. ASSUME NEW e \in 0 .. (m[h] \div 2) - 1
        PROVE  Payload(h) + 2 * e # h + HeaderSize + 1 /\ 0 \in 0 .. (m[h] \div 2) - 1
    <3>1. e \in Nat /\ e <= (m[h] \div 2) - 1 /\ m[h] \div 2 \in Nat
      BY <1>1
    <3>2. 2 * e # 1
      BY <3>1
    <3> QED
      BY <1>1, <3>1, <3>2 DEF Payload, HeaderSize
  <2>3. Fields(m, h) # {} => h + HeaderSize \in Fields(m, h)
    <3> SUFFICES ASSUME Fields(m, h) # {} PROVE h + HeaderSize \in Fields(m, h)
      OBVIOUS
    <3>1. 0 \in 0 .. (m[h] \div 2) - 1
      BY <2>1, <2>2
    <3>2. Payload(h) + 2 * 0 = h + HeaderSize
      BY <1>1 DEF Payload, HeaderSize
    <3> QED
      BY <2>1, <3>1, <3>2
  <2> QED
    BY <1>3, <2>1, <2>2, <2>3
<1>6. CASE m[h + 2] # Cell /\ m[h + 2] # Pairs
  BY <1>2, <1>6 DEF Fields
<1> QED
  BY <1>4, <1>5, <1>6

\* A reference to an object has its name.
LEMMA NameAtIs ==
  ASSUME NEW m, NEW h \in Nat, NEW v \in Int, v - HeaderSize = h
  PROVE  v # Null /\ NameAt(m, v) = NameOf(m, h)
BY DEF NameAt, Null, HeaderSize

\* Whatever the roots are, as long as they point into H: the objects they reach are those of
\* the names that the store reaches from what the roots show.
LEMMA NamesReached ==
  ASSUME NEW m, NEW H, Row(m, H), Identified(m, H), NEW nx, Sees(m, H, nx),
         NEW rt, NEW off, RootsIn(rt, off, H), NEW L, IsLive(m, rt, off, L),
         NEW sl, sl = SlotsOf(m, rt, off)
  PROVE  L \subseteq H /\ Abstract!Reached(sl, nx) = Names(m, L)
<1> DEFINE first == {sl[r][1] : r \in Roots} \cap Tags
           closed(c) == first \subseteq c /\ \A o \in c : nx[o] \in Tags => nx[o] \in c
<1>1. L \subseteq H
  <2>1. Closed(m, rt, off, H \cap L)
    <3>1. \A r \in Roots : rt[r] # Null => rt[r] - off[r] - HeaderSize \in H \cap L
      BY DEF RootsIn, IsLive, Closed
    <3>2. \A h \in H \cap L : \A f \in Fields(m, h) : m[f] # Null => m[f] - HeaderSize \in H \cap L
      BY DEF Row, IsLive, Closed
    <3> QED
      BY <3>1, <3>2 DEF Closed
  <2> QED
    BY <2>1 DEF IsLive
<1>2. L \in SUBSET Words /\ L \subseteq Nat /\ Closed(m, rt, off, L)
  BY WordsAreNat DEF IsLive
<1>3. \A o \in Tags : o \in Nat /\ o # Null /\ o # Base
  BY TagsApart
<1>4. ASSUME NEW r \in Roots
      PROVE  /\ rt[r] = Null => sl[r][1] = Null
             /\ rt[r] # Null => /\ rt[r] - off[r] - HeaderSize \in L
                                /\ sl[r][1] = NameOf(m, rt[r] - off[r] - HeaderSize)
  <2>1. rt[r] \in Nat /\ off[r] \in Nat /\ sl[r][1] = NameAt(m, rt[r] - off[r])
    BY DEF RootsIn, SlotsOf
  <2>2. CASE rt[r] = Null
    <3>1. rt[r] - off[r] = Null
      BY <2>1, <2>2 DEF RootsIn, Null
    <3> QED
      BY <2>1, <2>2, <3>1 DEF NameAt
  <2>3. CASE rt[r] # Null
    <3>1. PICK h \in L : h = rt[r] - off[r] - HeaderSize
      BY <1>2, <2>3 DEF Closed
    <3>2. PICK v \in Int : v = rt[r] - off[r]
      BY <2>1
    <3>3. h \in Nat /\ v - HeaderSize = h
      BY <1>2, <3>1, <3>2
    <3>4. NameAt(m, v) = NameOf(m, h)
      BY <3>3, NameAtIs
    <3> QED
      BY <2>1, <2>3, <3>1, <3>2, <3>4
  <2> QED
    BY <2>2, <2>3
<1>5. ASSUME NEW h \in L PROVE HasTag(m, h) => NameOf(m, h) \in Tags
  BY <1>1 DEF Identified, NameOf
<1>6. ASSUME NEW h \in L, NameOf(m, h) \in Tags PROVE HasTag(m, h)
  BY <1>3, <1>6 DEF NameOf
<1>7. ASSUME NEW h \in L, NEW f \in Fields(m, h), m[f] # Null
      PROVE  /\ f = h + HeaderSize /\ HasTag(m, h) /\ m[f] - HeaderSize \in L
             /\ nx[NameOf(m, h)] = NameOf(m, m[f] - HeaderSize)
  <2>1. h \in H
    BY <1>1
  <2>2. f = h + HeaderSize /\ HasTag(m, h) /\ f \in Words
    BY <1>7, <2>1, FieldPlaces DEF Identified
  <2>3. nx[NameOf(m, h)] = NameAt(m, m[f])
    BY <2>1, <2>2 DEF Sees, NextOf
  <2>4. m[f] \in Int
    BY <2>2 DEF Row
  <2>5. PICK g \in L : g = m[f] - HeaderSize
    BY <1>2, <1>7 DEF Closed
  <2>6. NameAt(m, m[f]) = NameOf(m, g)
    BY <1>2, <2>4, <2>5, NameAtIs
  <2> QED
    BY <2>2, <2>3, <2>5, <2>6
<1>8. Names(m, L) \in SUBSET Tags
  BY <1>5 DEF Names
<1>9. first \subseteq Names(m, L)
  <2> SUFFICES ASSUME NEW r \in Roots, sl[r][1] \in Tags PROVE sl[r][1] \in Names(m, L)
    OBVIOUS
  <2>1. rt[r] # Null
    BY <1>3, <1>4
  <2>2. PICK h \in L : h = rt[r] - off[r] - HeaderSize /\ sl[r][1] = NameOf(m, h)
    BY <1>4, <2>1
  <2> QED
    BY <1>6, <2>2 DEF Names
<1>10. ASSUME NEW o \in Names(m, L), nx[o] \in Tags PROVE nx[o] \in Names(m, L)
  <2>1. PICK h \in L : HasTag(m, h) /\ o = NameOf(m, h)
    BY DEF Names
  <2>2. h \in H /\ nx[o] = NextOf(m, h)
    BY <1>1, <2>1 DEF Sees
  <2>3. Fields(m, h) # {} /\ m[h + HeaderSize] # Null
    BY <1>3, <1>10, <2>2 DEF NextOf, NameAt
  <2>4. PICK f \in Fields(m, h) : f = h + HeaderSize
    BY <2>2, <2>3, FieldPlaces
  <2>5. PICK g \in L : g = m[f] - HeaderSize /\ nx[o] = NameOf(m, g)
    BY <1>7, <2>1, <2>3, <2>4
  <2> QED
    BY <1>6, <1>10, <2>5 DEF Names
<1>11. ASSUME NEW c \in SUBSET Tags, closed(c) PROVE Names(m, L) \subseteq c
  <2> DEFINE C == {h \in L : HasTag(m, h) => NameOf(m, h) \in c}
  <2>1. ASSUME NEW r \in Roots, rt[r] # Null PROVE rt[r] - off[r] - HeaderSize \in C
    <3>1. PICK h \in L : h = rt[r] - off[r] - HeaderSize /\ sl[r][1] = NameOf(m, h)
      BY <1>4, <2>1
    <3>2. HasTag(m, h) => sl[r][1] \in first
      BY <1>5, <3>1
    <3> QED
      BY <1>11, <3>1, <3>2
  <2>2. ASSUME NEW h \in C, NEW f \in Fields(m, h), m[f] # Null PROVE m[f] - HeaderSize \in C
    <3>1. PICK g \in L : g = m[f] - HeaderSize
      BY <1>7, <2>2
    <3>2. HasTag(m, h) /\ nx[NameOf(m, h)] = NameOf(m, g)
      BY <1>7, <2>2, <3>1
    <3>3. NameOf(m, h) \in c
      BY <3>2
    <3>4. HasTag(m, g) => NameOf(m, g) \in c
      BY <1>5, <1>11, <3>2, <3>3
    <3> QED
      BY <3>1, <3>4
  <2>3. Closed(m, rt, off, C) /\ C \in SUBSET L
    BY <2>1, <2>2 DEF Closed
  <2>4. L \subseteq C
    <3> HIDE DEF C
    <3> QED
      BY <2>3 DEF IsLive
  <2> QED
    BY <2>4 DEF Names
<1>12. closed(Names(m, L))
  BY <1>9, <1>10
<1>13. Abstract!Reached(sl, nx) = {o \in Tags : \A c \in SUBSET Tags : closed(c) => o \in c}
  BY DEF Abstract!Reached
<1> HIDE DEF closed
<1> QED
  BY <1>1, <1>8, <1>11, <1>12, <1>13

\* And what the store then keeps is what the fields of those objects show.
LEMMA Trims ==
  ASSUME NEW m, NEW H, Row(m, H), Identified(m, H), NEW nx, Sees(m, H, nx),
         NEW rt, NEW off, RootsIn(rt, off, H), NEW L, IsLive(m, rt, off, L),
         NEW sl, sl = SlotsOf(m, rt, off)
  PROVE  World(m, rt, off, L, sl, Abstract!Trimmed(sl, nx))
<1>1. L \subseteq H /\ Abstract!Reached(sl, nx) = Names(m, L)
  BY NamesReached
<1>2. Closed(m, rt, off, L)
  BY DEF IsLive
<1>3. Row(m, L)
  <2>1. \A h \in L : \A f \in Fields(m, h) : m[f] = Null \/ m[f] - HeaderSize \in L
    BY <1>2 DEF Closed
  <2> QED
    BY <1>1, <2>1 DEF Row
<1>4. Identified(m, L)
  BY <1>1 DEF Identified
<1>5. RootsIn(rt, off, L)
  BY <1>2 DEF RootsIn, Closed
<1>6. PICK nx2 : nx2 = Abstract!Trimmed(sl, nx)
  OBVIOUS
<1>7. nx2 = [o \in Tags |-> IF o \in Names(m, L) THEN nx[o] ELSE Null]
  BY <1>1, <1>6 DEF Abstract!Trimmed, Abstract!Nobody, Null
<1>8. Sees(m, L, nx2)
  <2>1. ASSUME NEW h \in L, HasTag(m, h) PROVE nx2[NameOf(m, h)] = NextOf(m, h)
    <3>1. h \in H /\ NameOf(m, h) \in Tags
      BY <1>1, <2>1 DEF Identified, NameOf
    <3>2. NameOf(m, h) \in Names(m, L)
      BY <2>1 DEF Names
    <3> QED
      BY <1>7, <2>1, <3>1, <3>2 DEF Sees
  <2>2. \A o \in Tags : o \notin Names(m, L) => nx2[o] = Null
    BY <1>7
  <2>3. nx2 = [o \in Tags |-> nx2[o]]
    BY <1>7
  <2> QED
    BY <2>1, <2>2, <2>3 DEF Sees
<1> QED
  BY <1>3, <1>4, <1>5, <1>6, <1>8 DEF World

\* The definitions of the refinement, of any words and roots.
ReachIn(m, rt, off) ==
  LET refer(h) == {Word(m, f) - HeaderSize : f \in {g \in Fields(m, h) : Word(m, g) # Null}}
  IN Reached({rt[r] - off[r] - HeaderSize : r \in {q \in Roots : rt[q] # Null}} \cap Words,
             [h \in Words |-> refer(h) \cap Words])
KnownIn(m, p) ==
  IF p = Null THEN Null
  ELSE IF Word(m, p - HeaderSize + 2) # Closure THEN Word(m, Payload(p - HeaderSize) + 1) ELSE Base
FieldIn(m, h) == IF Fields(m, h) = {} THEN Null ELSE KnownIn(m, Word(m, Payload(h)))
SlotsIn(m, rt, off) == [r \in Roots |-> <<KnownIn(m, rt[r] - off[r]), off[r]>>]
LinksIn(m, H) ==
  FoldSet(LAMBDA h, links : [links EXCEPT ![Word(m, Payload(h) + 1)] = FieldIn(m, h)],
          [o \in Tags |-> Null], {h \in H : Word(m, h + 2) # Closure})

\* They are those definitions, before a step and after it.
LEMMA SameDefinitions ==
  /\ Reachable = ReachIn(mem, root, offset)
  /\ Reachable' = ReachIn(mem', root', offset')
  /\ Slots = SlotsIn(mem, root, offset)
  /\ Slots' = SlotsIn(mem', root', offset')
  /\ Links = LinksIn(mem, Reachable)
  /\ Links' = LinksIn(mem', Reachable')
<1>1. Reachable = ReachIn(mem, root, offset) /\ Reachable' = ReachIn(mem', root', offset')
  BY DEF Reachable, ReachIn, Object, Referred
<1>2. Slots = SlotsIn(mem, root, offset) /\ Slots' = SlotsIn(mem', root', offset')
  BY DEF Slots, SlotsIn, Known, KnownIn, Tagged, TagAt, DescriptorAt
<1>3. Links = LinksIn(mem, Reachable)
  BY DEF Links, LinksIn, FieldOf, FieldIn, Known, KnownIn, Tagged, TagAt, DescriptorAt
<1>4. Links' = LinksIn(mem', Reachable')
  BY DEF Links, LinksIn, FieldOf, FieldIn, Known, KnownIn, Tagged, TagAt, DescriptorAt, FoldSet, MapThenFoldSet
<1> QED
  BY <1>1, <1>2, <1>3, <1>4

\* The objects of a sound heap make such a row.
LEMMA SoundRow ==
  ASSUME NEW m, NEW end, NEW bs, NEW ts, NEW S, Sound(m, end, bs, ts, S)
  PROVE  Row(m, ObjectsOf(bs, S))
<1> DEFINE L == ObjectsOf(bs, S)
<1>1. PICK F : F = FillOf(m, bs, ts)
  OBVIOUS
<1>2. /\ m \in [Words -> Int] /\ F \in [Words -> Int] /\ end \in Base .. End /\ Layout(F, end, S)
      /\ \A h \in L : h \in S /\ h \in Nat /\ m[h] \in Nat /\ F[h] = m[h]
  BY <1>1, SoundFacts
<1>3. ASSUME NEW h \in L
      PROVE  /\ h \in Words /\ h + 2 \in Words /\ h + HeaderSize + m[h] <= End
             /\ m[h + 2] = Cell => m[h] # 0
             /\ \A f \in Fields(m, h) : m[f] = Null \/ m[f] - HeaderSize \in L
  <2>1. h \in S /\ F[h] = m[h] /\ h \in Nat /\ m[h] \in Nat
    BY <1>2
  <2>2. h \in Words /\ h + 2 \in Words /\ Past(F, h) <= end
    BY <1>2, <2>1, LayoutWords
  <2>3. h + HeaderSize + m[h] <= End
    <3>1. Past(F, h) = h + HeaderSize + m[h]
      BY <2>1 DEF Past
    <3>2. end \in Nat /\ end <= End /\ End \in Nat
      BY <1>2, WordsAreNat
    <3> QED
      BY <2>1, <2>2, <3>1, <3>2 DEF HeaderSize
  <2> QED
    BY <2>2, <2>3 DEF Sound
<1>4. ASSUME NEW g \in L, NEW h \in L, g < h PROVE g + HeaderSize + m[g] <= h
  BY <1>2, <1>4 DEF Layout, Past
<1> HIDE DEF L
<1> QED
  BY <1>2, <1>3, <1>4 DEF Row, L

\* So are those that the roots reach, and Reachable is what they reach.
LEMMA LiveIs ==
  ASSUME NEW m, NEW L, Row(m, L), NEW rt, NEW off, Rooted(m, L, rt, off),
         NEW H, H = ReachIn(m, rt, off)
  PROVE  IsLive(m, rt, off, H) /\ Row(m, H) /\ H \subseteq L /\ IsFiniteSet(H)
<1> DEFINE next  == [h \in Words |->
                       {Word(m, f) - HeaderSize : f \in {g \in Fields(m, h) : Word(m, g) # Null}} \cap Words]
           start == {rt[r] - off[r] - HeaderSize : r \in {q \in Roots : rt[q] # Null}} \cap Words
<1>1. /\ m \in [Words -> Int] /\ L \in SUBSET Words
      /\ \A r \in Roots : rt[r] # Null => rt[r] - off[r] - HeaderSize \in L
  BY DEF Row, Rooted
<1>2. ASSUME NEW h \in L, NEW f \in Fields(m, h)
      PROVE  Word(m, f) = m[f] /\ (m[f] = Null \/ m[f] - HeaderSize \in L)
  <2>1. f \in Words
    BY FieldPlaces
  <2> QED
    BY <1>1, <2>1 DEF Row, Word
<1>3. next \in [Words -> SUBSET Words] /\ start \in SUBSET Words /\ H = Reached(start, next)
  BY DEF ReachIn
<1>4. ASSUME NEW h \in L, NEW f \in Fields(m, h), m[f] # Null PROVE m[f] - HeaderSize \in next[h]
  BY <1>1, <1>2, <1>4
<1>5. ASSUME NEW h \in L, NEW x \in next[h]
      PROVE  \E f \in Fields(m, h) : m[f] # Null /\ x = m[f] - HeaderSize
  BY <1>1, <1>2, <1>5
<1>6. \A r \in Roots : rt[r] # Null => rt[r] - off[r] - HeaderSize \in start
  BY <1>1
<1>7. \A x \in start : \E r \in Roots : rt[r] # Null /\ x = rt[r] - off[r] - HeaderSize
  OBVIOUS
<1> HIDE DEF start, next
<1>8. /\ start \subseteq H /\ H \subseteq Words /\ \A x \in H : next[x] \subseteq H
      /\ \A c \in SUBSET Words : start \subseteq c /\ (\A x \in c : next[x] \subseteq c) => H \subseteq c
  BY <1>3, ReachedIsLeast, WordsFinite
<1>9. H \subseteq L
  <2>1. start \subseteq L /\ \A x \in L : next[x] \subseteq L
    BY <1>1, <1>2, <1>5, <1>7
  <2> QED
    BY <1>1, <1>8, <2>1
<1>10. Closed(m, rt, off, H)
  BY <1>4, <1>6, <1>8, <1>9 DEF Closed
<1>11. ASSUME NEW c \in SUBSET H, Closed(m, rt, off, c) PROVE H \subseteq c
  <2>1. start \subseteq c
    BY <1>7, <1>11 DEF Closed
  <2>2. \A x \in c : next[x] \subseteq c
    BY <1>5, <1>9, <1>11 DEF Closed
  <2> QED
    BY <1>8, <2>1, <2>2
<1>12. Row(m, H)
  <2>1. \A h \in H : \A f \in Fields(m, h) : m[f] = Null \/ m[f] - HeaderSize \in H
    BY <1>10 DEF Closed
  <2> QED
    BY <1>9, <2>1 DEF Row
<1>13. IsFiniteSet(H)
  BY <1>8, WordsFinite, FS_Subset
<1> QED
  BY <1>8, <1>9, <1>10, <1>11, <1>12, <1>13 DEF IsLive

\* A name as the refinement reads it.
LEMMA KnownIs ==
  ASSUME NEW m, NEW H, Row(m, H), Identified(m, H), NEW h \in H
  PROVE  /\ Word(m, h + 2) = m[h + 2]
         /\ HasTag(m, h) => Word(m, Payload(h) + 1) = NameOf(m, h)
         /\ \A p \in Int : p - HeaderSize = h => KnownIn(m, p) = NameOf(m, h)
<1>1. /\ m \in [Words -> Int] /\ h \in Nat /\ h \in Words /\ h + 2 \in Words /\ m[h] \in Nat
      /\ h + HeaderSize + m[h] <= End
  BY DEF Row
<1>2. Word(m, h + 2) = m[h + 2]
  BY <1>1 DEF Word
<1>3. ASSUME HasTag(m, h) PROVE Word(m, Payload(h) + 1) = NameOf(m, h)
  <2>1. 2 <= m[h]
    BY <1>3 DEF Identified
  <2>2. Payload(h) + 1 = h + HeaderSize + 1 /\ h + HeaderSize + 1 \in Nat
    BY <1>1 DEF Payload, HeaderSize
  <2>3. h + HeaderSize + 1 \in Words
    <3>1. Base <= h /\ Base \in Nat /\ End \in Nat
      BY <1>1, WordsAreNat
    <3>2. Base <= h + HeaderSize + 1 /\ h + HeaderSize + 1 < End
      BY <1>1, <2>1, <3>1 DEF HeaderSize
    <3> QED
      BY <2>2, <3>2, WordsAreNat
  <2> QED
    BY <1>1, <1>3, <2>2, <2>3 DEF Word, NameOf
<1>4. ASSUME NEW p \in Int, p - HeaderSize = h PROVE KnownIn(m, p) = NameOf(m, h)
  <2>1. p # Null
    BY <1>1, <1>4 DEF Null, HeaderSize
  <2>2. KnownIn(m, p) = IF Word(m, h + 2) # Closure THEN Word(m, Payload(h) + 1) ELSE Base
    BY <1>4, <2>1 DEF KnownIn
  <2>3. CASE HasTag(m, h)
    BY <1>2, <1>3, <2>2, <2>3 DEF HasTag
  <2>4. CASE ~HasTag(m, h)
    BY <1>2, <2>2, <2>4 DEF HasTag, NameOf
  <2> QED
    BY <2>3, <2>4
<1> QED
  BY <1>2, <1>3, <1>4

\* So is what the roots show.
LEMMA SlotsAre ==
  ASSUME NEW m, NEW H, Row(m, H), Identified(m, H), NEW rt, NEW off, RootsIn(rt, off, H)
  PROVE  SlotsIn(m, rt, off) = SlotsOf(m, rt, off)
<1>1. ASSUME NEW r \in Roots PROVE KnownIn(m, rt[r] - off[r]) = NameAt(m, rt[r] - off[r])
  <2>1. rt[r] \in Nat /\ off[r] \in Nat
    BY DEF RootsIn
  <2>2. CASE rt[r] = Null
    <3>1. rt[r] - off[r] = Null
      BY <2>1, <2>2 DEF RootsIn, Null
    <3> QED
      BY <3>1 DEF KnownIn, NameAt
  <2>3. CASE rt[r] # Null
    <3>1. PICK p \in Int : p = rt[r] - off[r]
      BY <2>1
    <3>2. PICK h \in H : h = p - HeaderSize
      BY <2>3, <3>1 DEF RootsIn
    <3>3. h \in Nat
      BY DEF Row
    <3>4. KnownIn(m, p) = NameOf(m, h) /\ NameAt(m, p) = NameOf(m, h)
      BY <3>2, <3>3, KnownIs, NameAtIs
    <3> QED
      BY <3>1, <3>4
  <2> QED
    BY <2>2, <2>3
<1> QED
  BY <1>1 DEF SlotsIn, SlotsOf

\* So is what the field of an object shows.
LEMMA FieldInIs ==
  ASSUME NEW m, NEW H, Row(m, H), Identified(m, H), NEW h \in H
  PROVE  FieldIn(m, h) = NextOf(m, h)
<1>1. CASE Fields(m, h) = {}
  BY <1>1 DEF FieldIn, NextOf
<1>2. CASE Fields(m, h) # {}
  <2>1. PICK f \in Fields(m, h) : f = h + HeaderSize
    BY <1>2, FieldPlaces
  <2>2. f \in Words /\ Payload(h) = f
    BY <2>1, FieldPlaces DEF Payload
  <2>3. m[f] \in Int /\ Word(m, f) = m[f] /\ (m[f] = Null \/ m[f] - HeaderSize \in H)
    BY <2>2 DEF Row, Word
  <2>4. FieldIn(m, h) = KnownIn(m, m[f]) /\ NextOf(m, h) = NameAt(m, m[f])
    BY <1>2, <2>1, <2>2, <2>3 DEF FieldIn, NextOf
  <2>5. CASE m[f] = Null
    BY <2>4, <2>5 DEF KnownIn, NameAt
  <2>6. CASE m[f] # Null
    <3>1. PICK g \in H : g = m[f] - HeaderSize
      BY <2>3, <2>6
    <3>2. g \in Nat
      BY DEF Row
    <3>3. PICK v \in Int : v = m[f]
      BY <2>3
    <3>4. KnownIn(m, v) = NameOf(m, g) /\ NameAt(m, v) = NameOf(m, g)
      BY <3>1, <3>2, <3>3, KnownIs, NameAtIs
    <3> QED
      BY <2>4, <3>3, <3>4
  <2> QED
    BY <2>5, <2>6
<1> QED
  BY <1>1, <1>2

\* The fold writes the field of every object under its tag.
LEMMA LinksSeen ==
  ASSUME NEW m, NEW H, Row(m, H), Identified(m, H), IsFiniteSet(H)
  PROVE  Sees(m, H, LinksIn(m, H))
<1> DEFINE Q       == {h \in H : Word(m, h + 2) # Closure}
           key(h)  == Word(m, Payload(h) + 1)
           val(h)  == FieldIn(m, h)
           none    == [o \in Tags |-> Null]
           One(s)  == CHOOSE x \in s : TRUE
           Step(f) == [s \in SUBSET Q |->
                         IF s = {} THEN none
                         ELSE [f[s \ {One(s)}] EXCEPT ![key(One(s))] = val(One(s))]]
           Of(s, o) == {h \in s : key(h) = o}
           Any(c)  == CHOOSE h \in c : TRUE
           g == [s \in SUBSET Q |->
                   [o \in Tags |-> IF Of(s, o) = {} THEN Null ELSE val(Any(Of(s, o)))]]
           f == CHOOSE f : f = Step(f)
<1>1. /\ Q = {h \in H : HasTag(m, h)} /\ Q \subseteq H
      /\ \A h \in Q : key(h) = NameOf(m, h) /\ key(h) \in Tags /\ val(h) = NextOf(m, h)
  <2>1. ASSUME NEW h \in H
        PROVE  /\ Word(m, h + 2) = m[h + 2]
               /\ HasTag(m, h) => Word(m, Payload(h) + 1) = NameOf(m, h)
    BY KnownIs
  <2>2. ASSUME NEW h \in H PROVE FieldIn(m, h) = NextOf(m, h)
    BY FieldInIs
  <2>3. Q = {h \in H : HasTag(m, h)}
    BY <2>1 DEF HasTag
  <2>4. \A h \in H : HasTag(m, h) => NameOf(m, h) \in Tags
    BY DEF Identified, NameOf
  <2> QED
    BY <2>1, <2>2, <2>3, <2>4
<1>2. \A a, b \in Q : key(a) = key(b) => a = b
  BY <1>1 DEF Identified
<1>3. IsFiniteSet(Q)
  BY FS_Subset
<1>4. LinksIn(m, H) = f[Q]
  BY DEF LinksIn, FoldSet, MapThenFoldSet
<1> HIDE DEF Q, key, val
<1>5. g = Step(g)
  <2>1. ASSUME NEW s \in SUBSET Q
        PROVE  g[s] = IF s = {} THEN none ELSE [g[s \ {One(s)}] EXCEPT ![key(One(s))] = val(One(s))]
    <3>1. CASE s = {}
      BY <3>1
    <3>2. CASE s # {}
      <4>1. PICK x \in s : x = One(s)
        BY <3>2
      <4>2. s \ {x} \in SUBSET Q /\ x \in Q /\ key(x) \in Tags
        BY <1>1
      <4> HIDE DEF One
      <4>3. ASSUME NEW o \in Tags
            PROVE  g[s][o] = [g[s \ {x}] EXCEPT ![key(x)] = val(x)][o]
        <5>1. CASE o = key(x)
          <6>1. Of(s, o) = {x}
            BY <1>2, <4>2, <5>1
          <6>2. g[s][o] = val(x)
            BY <6>1
          <6>3. DOMAIN g[s \ {x}] = Tags
            BY <4>2
          <6> HIDE DEF g
          <6> QED
            BY <5>1, <6>2, <6>3
        <5>2. CASE o # key(x)
          <6>1. Of(s, o) = Of(s \ {x}, o)
            BY <5>2
          <6>2. g[s][o] = g[s \ {x}][o]
            <7> HIDE DEF Of, Any
            <7> QED
              BY <4>2, <6>1
          <6>3. DOMAIN g[s \ {x}] = Tags
            BY <4>2
          <6> HIDE DEF g
          <6> QED
            BY <5>2, <6>2, <6>3
        <5> QED
          BY <5>1, <5>2
      <4>4. g[s] = [g[s \ {x}] EXCEPT ![key(x)] = val(x)]
        BY <4>2, <4>3
      <4> QED
        BY <3>2, <4>1, <4>4
    <3> QED
      BY <3>1, <3>2
  <2>2. g = [s \in SUBSET Q |-> g[s]]
    OBVIOUS
  <2> HIDE DEF g, One
  <2> QED
    BY <2>1, <2>2
<1>6. f = Step(f)
  <2> HIDE DEF g, Step
  <2> QED
    BY <1>5
<1> HIDE DEF f, g
<1>7. ASSUME NEW s \in SUBSET Q, f[s] # g[s] PROVE FALSE
  <2> DEFINE T == {Cardinality(q) : q \in {p \in SUBSET Q : f[p] # g[p]}}
  <2>1. \A q \in SUBSET Q : IsFiniteSet(q) /\ Cardinality(q) \in Nat
    BY <1>3, FS_Subset, FS_CardinalityType
  <2>2. T \subseteq Nat /\ T # {}
    BY <1>7, <2>1
  <2>3. PICK k \in T : \A n2 \in T : k <= n2
    <3> HIDE DEF T
    <3> QED
      BY <2>2, Least
  <2>4. PICK q \in SUBSET Q : f[q] # g[q] /\ Cardinality(q) = k
    BY <2>3
  <2>5. q # {}
    BY <1>5, <1>6, <2>4
  <2>6. PICK x \in q : x = One(q)
    BY <2>5
  <2>7. q \ {x} \in SUBSET Q /\ Cardinality(q \ {x}) = Cardinality(q) - 1
    BY <2>1, FS_RemoveElement
  <2>8. f[q \ {x}] = g[q \ {x}]
    <3> SUFFICES ASSUME f[q \ {x}] # g[q \ {x}] PROVE FALSE
      OBVIOUS
    <3>1. PICK j \in T : j = Cardinality(q \ {x})
      BY <2>7
    <3>2. k \in Nat /\ k <= j
      BY <2>1, <2>3, <2>4
    <3>3. j = k - 1
      BY <2>4, <2>7, <3>1
    <3> HIDE DEF T
    <3> QED
      BY <3>2, <3>3
  <2>9. /\ f[q] = [f[q \ {x}] EXCEPT ![key(x)] = val(x)]
        /\ g[q] = [g[q \ {x}] EXCEPT ![key(x)] = val(x)]
    <3> HIDE DEF One
    <3> QED
      BY <1>5, <1>6, <2>5, <2>6
  <2> QED
    BY <2>4, <2>8, <2>9
<1>8. PICK n : n = g[Q]
  OBVIOUS
<1>9. LinksIn(m, H) = n
  BY <1>4, <1>7, <1>8
<1>10. n = [o \in Tags |-> IF Of(Q, o) = {} THEN Null ELSE val(Any(Of(Q, o)))]
  BY <1>8 DEF g
<1>11. ASSUME NEW h \in H, HasTag(m, h) PROVE n[NameOf(m, h)] = NextOf(m, h)
  <2>1. h \in Q /\ key(h) = NameOf(m, h) /\ key(h) \in Tags /\ val(h) = NextOf(m, h)
    BY <1>1, <1>11
  <2>2. Of(Q, key(h)) = {h}
    BY <1>2, <2>1
  <2> QED
    BY <1>10, <2>1, <2>2
<1>12. ASSUME NEW o \in Tags, o \notin Names(m, H) PROVE n[o] = Null
  <2>1. Of(Q, o) = {}
    BY <1>1, <1>12 DEF Names
  <2> QED
    BY <1>10, <2>1
<1>13. n = [o \in Tags |-> n[o]]
  BY <1>10
<1> QED
  BY <1>9, <1>11, <1>12, <1>13 DEF Sees

\* There is only one thing to see.
LEMMA SeesOnce ==
  ASSUME NEW m, NEW H, Identified(m, H), NEW n1, Sees(m, H, n1), NEW n2, Sees(m, H, n2)
  PROVE  n1 = n2
<1>1. ASSUME NEW o \in Tags PROVE n1[o] = n2[o]
  <2>1. CASE o \in Names(m, H)
    <3>1. PICK h \in H : HasTag(m, h) /\ o = NameOf(m, h)
      BY <2>1 DEF Names
    <3> QED
      BY <3>1 DEF Sees
  <2>2. CASE o \notin Names(m, H)
    BY <2>2 DEF Sees
  <2> QED
    BY <2>1, <2>2
<1>2. n1 = [o \in Tags |-> n1[o]] /\ n2 = [o \in Tags |-> n2[o]]
  BY DEF Sees
<1> QED
  BY <1>1, <1>2

\* The objects T, of which some may be unreachable, show nx.
Shows(m, rt, off, T, nx) ==
  Row(m, T) /\ Identified(m, T) /\ RootsIn(rt, off, T) /\ Sees(m, T, nx)

\* What the refinement makes of them: what the roots show, and nx as far as it is reached.
Refines(m, rt, off, H, sl, nx) ==
  /\ Shows(m, rt, off, H, nx)
  /\ SlotsIn(m, rt, off) = sl /\ sl = SlotsOf(m, rt, off) /\ LinksIn(m, H) = nx
LEMMA Shown ==
  ASSUME NEW m, NEW end, NEW bs, NEW ts, NEW rt, NEW off, Intact(m, end, bs, ts, rt, off),
         NEW T, NEW nx, Shows(m, rt, off, T, nx),
         NEW H, H = ReachIn(m, rt, off), NEW sl, sl = SlotsOf(m, rt, off)
  PROVE  /\ Refines(m, rt, off, H, sl, Abstract!Trimmed(sl, nx))
         /\ Abstract!Reached(sl, nx) = Names(m, H) /\ H \subseteq T
<1>1. PICK S : Sound(m, end, bs, ts, S) /\ Rooted(m, ObjectsOf(bs, S), rt, off)
  BY DEF Intact
<1>2. PICK L : L = ObjectsOf(bs, S)
  OBVIOUS
<1>3. Row(m, L) /\ Rooted(m, L, rt, off)
  BY <1>1, <1>2, SoundRow
<1>4. IsLive(m, rt, off, H) /\ IsFiniteSet(H)
  BY <1>3, LiveIs
<1>5. Row(m, T) /\ Identified(m, T) /\ RootsIn(rt, off, T) /\ Sees(m, T, nx)
  BY DEF Shows
<1>6. PICK nx2 : nx2 = Abstract!Trimmed(sl, nx)
  OBVIOUS
<1>7. World(m, rt, off, H, sl, nx2)
  BY <1>4, <1>5, <1>6, Trims
<1>8. Row(m, H) /\ Identified(m, H) /\ RootsIn(rt, off, H) /\ Sees(m, H, nx2)
  BY <1>7 DEF World
<1>9. PICK n : n = LinksIn(m, H)
  OBVIOUS
<1>10. Sees(m, H, n)
  BY <1>4, <1>8, <1>9, LinksSeen
<1>11. n = nx2
  BY <1>8, <1>10, SeesOnce
<1>12. SlotsIn(m, rt, off) = sl
  BY <1>8, SlotsAre
<1>13. Abstract!Reached(sl, nx) = Names(m, H) /\ H \subseteq T
  BY <1>4, <1>5, NamesReached
<1> QED
  BY <1>6, <1>8, <1>9, <1>11, <1>12, <1>13 DEF Refines, Shows

\* The state invariant that makes the mapping a refinement: the tags of the objects that can
\* be reached tell them apart, and a null root has no offset.
Identity ==
  Identified(mem, Reachable) /\ \A r \in Roots : root[r] = Null => offset[r] = 0

\* What is shown before a step.
LEMMA ShownNow ==
  ASSUME HeapInvariant, Identity
  PROVE  /\ Shows(mem, root, offset, Reachable, Links)
         /\ Slots = SlotsOf(mem, root, offset)
         /\ Links = Abstract!Trimmed(Slots, Links)
         /\ Abstract!Reached(Slots, Links) = Names(mem, Reachable)
<1>1. Intact(mem, top, tlab, attached, root, offset)
  BY DEF HeapInvariant
<1>2. PICK H : H = Reachable
  OBVIOUS
<1>3. H = ReachIn(mem, root, offset)
  BY <1>2, SameDefinitions
<1>4. PICK S : Sound(mem, top, tlab, attached, S) /\ Rooted(mem, ObjectsOf(tlab, S), root, offset)
  BY <1>1 DEF Intact
<1>5. PICK L : L = ObjectsOf(tlab, S)
  OBVIOUS
<1>6. Row(mem, L) /\ Rooted(mem, L, root, offset)
  BY <1>4, <1>5, SoundRow
<1>7. IsLive(mem, root, offset, H) /\ Row(mem, H) /\ IsFiniteSet(H)
  BY <1>3, <1>6, LiveIs
<1>8. RootsIn(root, offset, H)
  BY <1>6, <1>7 DEF Identity, Rooted, RootsIn, IsLive, Closed
<1>9. PICK n : n = LinksIn(mem, H)
  OBVIOUS
<1>10. Identified(mem, H)
  BY <1>2 DEF Identity
<1>11. Sees(mem, H, n)
  BY <1>7, <1>9, <1>10, LinksSeen
<1>12. Shows(mem, root, offset, H, n)
  BY <1>7, <1>8, <1>10, <1>11 DEF Shows
<1>13. PICK sl : sl = SlotsOf(mem, root, offset)
  OBVIOUS
<1>14. PICK n2 : n2 = Abstract!Trimmed(sl, n)
  OBVIOUS
<1>15. /\ Refines(mem, root, offset, H, sl, Abstract!Trimmed(sl, n))
       /\ Abstract!Reached(sl, n) = Names(mem, H)
  BY <1>1, <1>3, <1>12, <1>13, Shown
<1>16. SlotsIn(mem, root, offset) = sl /\ LinksIn(mem, H) = n2
  BY <1>14, <1>15 DEF Refines
<1>17. Slots = sl /\ Links = n /\ n = n2
  BY <1>2, <1>9, <1>16, SameDefinitions
<1> QED
  BY <1>2, <1>12, <1>13, <1>14, <1>15, <1>17

\* What is shown after it.
LEMMA ShownNext ==
  ASSUME HeapInvariant', NEW T, NEW nx, Shows(mem', root', offset', T, nx),
         NEW sl, sl = SlotsOf(mem', root', offset')
  PROVE  Identity' /\ Slots' = sl /\ Links' = Abstract!Trimmed(sl, nx)
<1>1. Intact(mem', top', tlab', attached', root', offset')
  BY DEF HeapInvariant
<1>2. PICK H : H = Reachable'
  OBVIOUS
<1>3. H = ReachIn(mem', root', offset')
  BY <1>2, SameDefinitions
<1>4. PICK n2 : n2 = Abstract!Trimmed(sl, nx)
  OBVIOUS
<1>5. Refines(mem', root', offset', H, sl, n2)
  BY <1>1, <1>3, <1>4, Shown
<1>6. /\ Shows(mem', root', offset', H, n2)
      /\ SlotsIn(mem', root', offset') = sl /\ LinksIn(mem', H) = n2
  BY <1>5 DEF Refines
<1>7. Slots' = sl /\ Links' = n2
  BY <1>2, <1>6, SameDefinitions
<1>8. Identified(mem', H) /\ RootsIn(root', offset', H)
  BY <1>6 DEF Shows
<1>9. Identity'
  BY <1>2, <1>8 DEF Identity, RootsIn, Identified, HasTag, NameOf
<1> QED
  BY <1>4, <1>7, <1>9

\* In m2 the objects H of m are where `to` puts them, with the same tags, and their fields
\* refer to the same objects.
Referring(to, v, i) == IF v = Null THEN Null ELSE to[v - i - HeaderSize] + HeaderSize + i
Mirrors(m, H, to, m2) ==
  /\ m2 \in [Words -> Int]
  /\ \A h \in H : /\ to[h] \in Nat /\ to[h] \in Words /\ to[h] + 2 \in Words
                  /\ to[h] + HeaderSize + m[h] <= End
                  /\ m2[to[h]] = m[h] /\ m2[to[h] + 2] = m[h + 2]
                  /\ HasTag(m, h) => m2[to[h] + HeaderSize + 1] = m[h + HeaderSize + 1]
                  /\ \A i \in Nat : h + i \in Fields(m, h) => m2[to[h] + i] = Referring(to, m[h + i], 0)
  /\ \A g, h \in H : to[g] < to[h] => to[g] + HeaderSize + m[g] <= to[h]
  /\ \A g, h \in H : to[g] = to[h] => g = h

\* Such objects show the same, and so do roots that refer to them as before.
LEMMA MirrorShows ==
  ASSUME NEW m, NEW H, NEW rt, NEW off, NEW nx, Shows(m, rt, off, H, nx),
         NEW m2, NEW to, Mirrors(m, H, to, m2), NEW T, T = {to[h] : h \in H},
         NEW rt2, rt2 = [r \in Roots |-> Referring(to, rt[r], off[r])]
  PROVE  /\ Shows(m2, rt2, off, T, nx) /\ SlotsOf(m2, rt2, off) = SlotsOf(m, rt, off)
         /\ Names(m2, T) = Names(m, H)
<1>1. Row(m, H) /\ Identified(m, H) /\ RootsIn(rt, off, H) /\ Sees(m, H, nx)
  BY DEF Shows
<1>2. /\ m \in [Words -> Int] /\ m2 \in [Words -> Int]
      /\ \A h \in H : /\ h \in Nat /\ h \in Words /\ h + 2 \in Words /\ m[h] \in Nat
                      /\ to[h] \in Nat /\ to[h] \in Words /\ to[h] + 2 \in Words
                      /\ m2[to[h]] = m[h] /\ m2[to[h] + 2] = m[h + 2]
  BY <1>1 DEF Row, Mirrors
<1>3. ASSUME NEW h \in H PROVE HasTag(m2, to[h]) <=> HasTag(m, h)
  BY <1>2 DEF HasTag
<1>4. ASSUME NEW h \in H PROVE NameOf(m2, to[h]) = NameOf(m, h)
  BY <1>3 DEF NameOf, Mirrors
<1>5. ASSUME NEW v \in Int, v # Null, NEW i \in Nat, NEW g \in H, g = v - i - HeaderSize
      PROVE  /\ Referring(to, v, i) \in Nat /\ Referring(to, v, i) # Null
             /\ Referring(to, v, i) - i - HeaderSize = to[g]
             /\ NameAt(m2, Referring(to, v, i) - i) = NameOf(m, g)
             /\ NameAt(m, v - i) = NameOf(m, g)
  <2>1. Referring(to, v, i) = to[g] + HeaderSize + i /\ to[g] \in Nat /\ g \in Nat
    BY <1>2, <1>5 DEF Referring
  <2>2. PICK w \in Int : w = Referring(to, v, i) - i
    BY <2>1 DEF HeaderSize
  <2>3. PICK x \in Int : x = v - i
    OBVIOUS
  <2>4. w - HeaderSize = to[g] /\ x - HeaderSize = g
    BY <1>5, <2>1, <2>2, <2>3 DEF HeaderSize
  <2>5. PICK h2 \in Nat : h2 = to[g]
    BY <2>1
  <2>6. NameAt(m2, w) = NameOf(m2, h2)
    BY <2>4, <2>5, NameAtIs
  <2>7. NameAt(m, x) = NameOf(m, g)
    BY <2>1, <2>4, NameAtIs
  <2>8. NameOf(m2, h2) = NameOf(m, g)
    BY <1>4, <2>5
  <2>9. Referring(to, v, i) \in Nat /\ Referring(to, v, i) # Null
    BY <2>1 DEF HeaderSize, Null
  <2> QED
    BY <2>2, <2>3, <2>4, <2>6, <2>7, <2>8, <2>9
<1>6. ASSUME NEW h \in H, NEW f \in Fields(m2, to[h])
      PROVE  \E i \in Nat : /\ f = to[h] + i /\ h + i \in Fields(m, h) /\ h + i \in Words
                            /\ m2[f] = Referring(to, m[h + i], 0) /\ m[h + i] \in Int
                            /\ m[h + i] = Null \/ m[h + i] - HeaderSize \in H
                            /\ f # to[h] + HeaderSize => m[h + i] = Null
  <2>1. PICK h2 \in Words : h2 = to[h]
    BY <1>2
  <2>2. AtField(m, h, h2, f)
    BY <1>2, <2>1, ShiftedFields
  <2>3. PICK i \in Nat : f = h2 + i /\ h + i \in Fields(m, h)
    BY <2>2 DEF AtField
  <2>4. PICK x \in Fields(m, h) : x = h + i
    BY <2>3
  <2>5. x \in Words /\ (m[x] = Null \/ m[x] - HeaderSize \in H)
    BY <1>1, FieldPlaces DEF Row
  <2>6. m[x] \in Int
    BY <1>2, <2>5
  <2>7. m2[f] = Referring(to, m[x], 0)
    BY <2>1, <2>3, <2>4 DEF Mirrors
  <2>8. ASSUME f # to[h] + HeaderSize PROVE m[x] = Null
    <3>1. x # h + HeaderSize
      BY <1>2, <2>1, <2>3, <2>4, <2>8 DEF HeaderSize
    <3> QED
      BY <1>1, <3>1 DEF Identified
  <2> QED
    BY <2>1, <2>3, <2>4, <2>5, <2>6, <2>7, <2>8
<1>7. Row(m2, T)
  <2>1. ASSUME NEW h \in H, NEW f \in Fields(m2, to[h]) PROVE m2[f] = Null \/ m2[f] - HeaderSize \in T
    <3>1. PICK i \in Nat : /\ m2[f] = Referring(to, m[h + i], 0) /\ m[h + i] \in Int
                           /\ m[h + i] = Null \/ m[h + i] - HeaderSize \in H
      BY <1>6
    <3>2. PICK v \in Int : v = m[h + i]
      BY <3>1
    <3>3. CASE v = Null
      BY <3>1, <3>2, <3>3 DEF Referring
    <3>4. CASE v # Null
      <4>1. PICK g \in H : g = v - HeaderSize
        BY <3>1, <3>2, <3>4
      <4>2. g = v - 0 - HeaderSize /\ 0 \in Nat
        BY <4>1
      <4>3. Referring(to, v, 0) - 0 - HeaderSize = to[g] /\ Referring(to, v, 0) \in Nat
        BY <1>5, <3>4, <4>2
      <4>4. m2[f] - HeaderSize = to[g]
        BY <3>1, <3>2, <4>3 DEF HeaderSize
      <4> QED
        BY <4>4
    <3> QED
      BY <3>3, <3>4
  <2>2. ASSUME NEW h \in H
        PROVE  /\ to[h] \in Nat /\ to[h] \in Words /\ to[h] + 2 \in Words /\ m2[to[h]] \in Nat
               /\ to[h] + HeaderSize + m2[to[h]] <= End
               /\ m2[to[h] + 2] = Cell => m2[to[h]] # 0
    BY <1>1, <1>2 DEF Mirrors, Row
  <2>3. ASSUME NEW g \in H, NEW h \in H, to[g] < to[h] PROVE to[g] + HeaderSize + m2[to[g]] <= to[h]
    BY <1>2, <2>3 DEF Mirrors
  <2> QED
    BY <1>2, <2>1, <2>2, <2>3 DEF Row
<1>8. Identified(m2, T)
  <2>1. ASSUME NEW h \in H
        PROVE  /\ m2[to[h]] <= Longest
               /\ HasTag(m2, to[h]) => 2 <= m2[to[h]] /\ m2[to[h] + HeaderSize + 1] \in Tags
    BY <1>1, <1>2, <1>3 DEF Identified, Mirrors
  <2>2. ASSUME NEW h \in H, NEW f \in Fields(m2, to[h]), f # to[h] + HeaderSize PROVE m2[f] = Null
    <3>1. PICK i \in Nat : m2[f] = Referring(to, m[h + i], 0) /\ m[h + i] = Null
      BY <1>6, <2>2
    <3> QED
      BY <3>1 DEF Referring
  <2>3. ASSUME NEW g \in H, NEW h \in H, HasTag(m2, to[g]), HasTag(m2, to[h]),
               NameOf(m2, to[g]) = NameOf(m2, to[h])
        PROVE  to[g] = to[h]
    <3>1. HasTag(m, g) /\ HasTag(m, h) /\ NameOf(m, g) = NameOf(m, h)
      BY <1>3, <1>4, <2>3
    <3> QED
      BY <1>1, <3>1 DEF Identified
  <2> QED
    BY <2>1, <2>2, <2>3 DEF Identified
<1>9. ASSUME NEW h \in H PROVE NextOf(m2, to[h]) = NextOf(m, h)
  <2>1. PICK h2 \in Words : h2 = to[h]
    BY <1>2
  <2>2. h2 \in Nat
    BY <1>2, <2>1
  <2>3. CASE Fields(m, h) = {}
    <3>1. Fields(m2, to[h]) = {}
      BY <1>6, <2>3
    <3> QED
      BY <2>3, <3>1 DEF NextOf
  <2>4. CASE Fields(m, h) # {}
    <3>1. PICK x \in Fields(m, h) : x = h + HeaderSize
      BY <1>1, <2>4, FieldPlaces
    <3>2. x \in Words /\ (m[x] = Null \/ m[x] - HeaderSize \in H)
      BY <1>1, FieldPlaces DEF Row
    <3>3. PICK v \in Int : v = m[x]
      BY <1>2, <3>2
    <3>4. m2[to[h] + HeaderSize] = Referring(to, v, 0)
      BY <3>1, <3>3 DEF Mirrors, HeaderSize
    <3>5. Fields(m2, h2) # {}
      <4>1. AtField(m2, h2, h, x)
        BY <1>2, <2>1, ShiftedFields
      <4> QED
        BY <4>1 DEF AtField
    <3>6. NextOf(m2, to[h]) = NameAt(m2, Referring(to, v, 0)) /\ NextOf(m, h) = NameAt(m, v)
      BY <2>1, <2>4, <3>1, <3>3, <3>4, <3>5 DEF NextOf
    <3>7. CASE v = Null
      BY <3>6, <3>7 DEF NameAt, Referring
    <3>8. CASE v # Null
      <4>1. PICK g \in H : g = v - HeaderSize
        BY <3>2, <3>3, <3>8
      <4>2. g = v - 0 - HeaderSize /\ 0 \in Nat /\ v - 0 = v
        BY <4>1
      <4>3. /\ Referring(to, v, 0) \in Nat
            /\ NameAt(m2, Referring(to, v, 0) - 0) = NameOf(m, g) /\ NameAt(m, v - 0) = NameOf(m, g)
        BY <1>5, <3>8, <4>2
      <4>4. Referring(to, v, 0) - 0 = Referring(to, v, 0)
        BY <4>3
      <4> QED
        BY <3>6, <4>2, <4>3, <4>4
    <3> QED
      BY <3>7, <3>8
  <2> QED
    BY <2>3, <2>4
<1>10. Names(m2, T) = Names(m, H)
  BY <1>3, <1>4 DEF Names
<1>11. Sees(m2, T, nx)
  <2>1. ASSUME NEW h \in H, HasTag(m2, to[h]) PROVE nx[NameOf(m2, to[h])] = NextOf(m2, to[h])
    BY <1>1, <1>3, <1>4, <1>9, <2>1 DEF Sees
  <2>2. nx = [o \in Tags |-> nx[o]] /\ \A o \in Tags : o \notin Names(m2, T) => nx[o] = Null
    BY <1>1, <1>10 DEF Sees
  <2> QED
    BY <2>1, <2>2 DEF Sees
<1>12. ASSUME NEW r \in Roots
       PROVE  /\ rt2[r] \in Nat /\ (rt2[r] = Null => off[r] = 0)
              /\ rt2[r] # Null => rt2[r] - off[r] - HeaderSize \in T
              /\ NameAt(m2, rt2[r] - off[r]) = NameAt(m, rt[r] - off[r])
  <2>1. rt[r] \in Nat /\ off[r] \in Nat /\ rt2[r] = Referring(to, rt[r], off[r])
    BY <1>1 DEF RootsIn
  <2>2. CASE rt[r] = Null
    <3>1. rt2[r] = Null /\ off[r] = 0
      BY <1>1, <2>1, <2>2 DEF RootsIn, Referring
    <3>2. rt2[r] - off[r] = Null /\ rt[r] - off[r] = Null /\ Null \in Nat
      BY <2>2, <3>1 DEF Null
    <3> QED
      BY <3>1, <3>2 DEF NameAt
  <2>3. CASE rt[r] # Null
    <3>1. PICK g \in H : g = rt[r] - off[r] - HeaderSize
      BY <1>1, <2>3 DEF RootsIn
    <3>2. PICK v \in Int, i \in Nat : v = rt[r] /\ i = off[r]
      BY <2>1
    <3>3. v # Null /\ g = v - i - HeaderSize /\ rt2[r] = Referring(to, v, i)
      BY <2>1, <2>3, <3>1, <3>2
    <3>4. /\ rt2[r] \in Nat /\ rt2[r] # Null
          /\ rt2[r] - i - HeaderSize = to[g]
          /\ NameAt(m2, rt2[r] - i) = NameOf(m, g)
          /\ NameAt(m, v - i) = NameOf(m, g)
      BY <1>5, <3>3
    <3> QED
      BY <3>2, <3>4
  <2> QED
    BY <2>2, <2>3
<1>13. RootsIn(rt2, off, T)
  <2>1. off \in [Roots -> Nat]
    BY <1>1 DEF RootsIn
  <2> QED
    BY <1>12, <2>1 DEF RootsIn
<1>14. SlotsOf(m2, rt2, off) = SlotsOf(m, rt, off)
  BY <1>12 DEF SlotsOf
<1> QED
  BY <1>7, <1>8, <1>10, <1>11, <1>13, <1>14 DEF Shows

\* In particular when the words of the objects stay as they are.
LEMMA KeptShows ==
  ASSUME NEW m, NEW H, NEW rt, NEW off, NEW nx, Shows(m, rt, off, H, nx),
         NEW m2 \in [Words -> Int],
         \A h \in H : \A a \in Words : h <= a /\ a < h + HeaderSize + m[h] => m2[a] = m[a]
  PROVE  /\ Shows(m2, rt, off, H, nx) /\ SlotsOf(m2, rt, off) = SlotsOf(m, rt, off)
         /\ Names(m2, H) = Names(m, H)
<1> DEFINE to == [h \in H |-> h]
<1>1. Row(m, H) /\ Identified(m, H) /\ RootsIn(rt, off, H)
  BY DEF Shows
<1>2. ASSUME NEW h \in H
      PROVE  /\ h \in Nat /\ h \in Words /\ h + 2 \in Words /\ m[h] \in Nat
             /\ h + HeaderSize + m[h] <= End
             /\ m2[h] = m[h] /\ m2[h + 2] = m[h + 2]
             /\ HasTag(m, h) => m2[h + HeaderSize + 1] = m[h + HeaderSize + 1]
             /\ \A i \in Nat : h + i \in Fields(m, h) =>
                  /\ m2[h + i] = m[h + i] /\ m[h + i] \in Int
                  /\ m[h + i] = Null \/ m[h + i] - HeaderSize \in H
  <2>1. /\ h \in Nat /\ h \in Words /\ h + 2 \in Words /\ m[h] \in Nat
        /\ h + HeaderSize + m[h] <= End /\ m \in [Words -> Int]
    BY <1>1 DEF Row
  <2>2. ASSUME NEW i \in Nat, h + i \in Fields(m, h)
        PROVE  /\ m2[h + i] = m[h + i] /\ m[h + i] \in Int
               /\ m[h + i] = Null \/ m[h + i] - HeaderSize \in H
    <3>1. PICK x \in Fields(m, h) : x = h + i
      BY <2>2
    <3>2. x \in Nat /\ x \in Words /\ h + HeaderSize <= x /\ x < h + HeaderSize + m[h]
      BY <1>1, FieldPlaces
    <3>3. h <= x
      BY <2>1, <3>2 DEF HeaderSize
    <3>4. m2[x] = m[x] /\ m[x] \in Int
      BY <2>1, <3>2, <3>3
    <3>5. m[x] = Null \/ m[x] - HeaderSize \in H
      BY <1>1 DEF Row
    <3> QED
      BY <3>1, <3>4, <3>5
  <2>3. ASSUME HasTag(m, h) PROVE m2[h + HeaderSize + 1] = m[h + HeaderSize + 1]
    <3>1. 2 <= m[h]
      BY <1>1, <2>3 DEF Identified
    <3>2. PICK a \in Nat : a = h + HeaderSize + 1
      BY <2>1 DEF HeaderSize
    <3>3. h <= a /\ a < h + HeaderSize + m[h] /\ Base <= a /\ a < End
      <4>1. Base <= h /\ Base \in Nat /\ End \in Nat
        BY <2>1, WordsAreNat
      <4> QED
        BY <2>1, <3>1, <3>2, <4>1 DEF HeaderSize
    <3>4. a \in Words
      BY <3>2, <3>3, WordsAreNat
    <3> QED
      BY <3>2, <3>3, <3>4
  <2>4. h <= h /\ h < h + HeaderSize + m[h] /\ h <= h + 2 /\ h + 2 < h + HeaderSize + m[h]
    BY <2>1 DEF HeaderSize
  <2>5. m2[h] = m[h] /\ m2[h + 2] = m[h + 2]
    BY <2>1, <2>4
  <2> QED
    BY <2>1, <2>2, <2>3, <2>5
<1>3. ASSUME NEW v \in Int, NEW i \in Nat, v # Null => v - i - HeaderSize \in H
      PROVE  Referring(to, v, i) = v
  <2>1. CASE v = Null
    BY <2>1 DEF Referring
  <2>2. CASE v # Null
    <3>1. Referring(to, v, i) = (v - i - HeaderSize) + HeaderSize + i
      BY <1>3, <2>2 DEF Referring
    <3> QED
      BY <3>1 DEF HeaderSize
  <2> QED
    BY <2>1, <2>2
<1>4. Mirrors(m, H, to, m2)
  <2>1. ASSUME NEW h \in H, NEW i \in Nat, h + i \in Fields(m, h)
        PROVE  m2[h + i] = Referring(to, m[h + i], 0)
    <3>1. PICK v \in Int : v = m[h + i]
      BY <1>2, <2>1
    <3>2. v # Null => v - 0 - HeaderSize \in H
      BY <1>2, <2>1, <3>1
    <3>3. Referring(to, v, 0) = v
      BY <1>3, <3>2
    <3> QED
      BY <1>2, <2>1, <3>1, <3>3
  <2>2. \A g, h \in H : g < h => g + HeaderSize + m[g] <= h
    BY <1>1 DEF Row
  <2>3. \A h \in H : to[h] = h
    OBVIOUS
  <2> HIDE DEF to
  <2> QED
    BY <1>2, <2>1, <2>2, <2>3 DEF Mirrors
<1>5. rt = [r \in Roots |-> Referring(to, rt[r], off[r])]
  <2>1. ASSUME NEW r \in Roots PROVE Referring(to, rt[r], off[r]) = rt[r]
    <3>1. rt[r] \in Int /\ off[r] \in Nat /\ (rt[r] # Null => rt[r] - off[r] - HeaderSize \in H)
      BY <1>1 DEF RootsIn
    <3> QED
      BY <1>3, <3>1
  <2>2. rt = [r \in Roots |-> rt[r]]
    BY <1>1 DEF RootsIn
  <2> HIDE DEF to
  <2> QED
    BY <2>1, <2>2
<1>6. H = {to[h] : h \in H}
  OBVIOUS
<1> HIDE DEF to
<1>7. PICK rt2 : rt2 = [r \in Roots |-> Referring(to, rt[r], off[r])]
  OBVIOUS
<1>8. PICK T : T = {to[h] : h \in H}
  OBVIOUS
<1>9. /\ Shows(m2, rt2, off, T, nx) /\ SlotsOf(m2, rt2, off) = SlotsOf(m, rt, off)
      /\ Names(m2, T) = Names(m, H)
  BY <1>4, <1>7, <1>8, MirrorShows
<1> QED
  BY <1>5, <1>6, <1>7, <1>8, <1>9

\* The value v, o words into what it refers to, is null or a place in an object of T.
RefersInto(v, o, T) == IF v = Null THEN o = 0 ELSE v - o - HeaderSize \in T

\* A root set to such a value.
LEMMA RootShows ==
  ASSUME NEW m, NEW T, NEW rt, NEW off, NEW nx, Shows(m, rt, off, T, nx),
         NEW r \in Roots, NEW v \in Nat, NEW o \in Nat, RefersInto(v, o, T)
  PROVE  /\ Shows(m, [rt EXCEPT ![r] = v], [off EXCEPT ![r] = o], T, nx)
         /\ SlotsOf(m, [rt EXCEPT ![r] = v], [off EXCEPT ![r] = o])
              = [SlotsOf(m, rt, off) EXCEPT ![r] = <<NameAt(m, v - o), o>>]
<1>1. rt \in [Roots -> Nat] /\ off \in [Roots -> Nat]
  BY DEF Shows, RootsIn
<1>2. RootsIn([rt EXCEPT ![r] = v], [off EXCEPT ![r] = o], T)
  BY DEF Shows, RootsIn, RefersInto
<1>3. SlotsOf(m, [rt EXCEPT ![r] = v], [off EXCEPT ![r] = o])
        = [SlotsOf(m, rt, off) EXCEPT ![r] = <<NameAt(m, v - o), o>>]
  BY <1>1 DEF SlotsOf
<1> QED
  BY <1>2, <1>3 DEF Shows

\* Blocks that share a word are the same block.
LEMMA RowApart ==
  ASSUME NEW m, NEW H, Row(m, H), NEW g \in H, NEW h \in H, NEW a \in Nat,
         g <= a, a < g + HeaderSize + m[g], h <= a, a < h + HeaderSize + m[h]
  PROVE  g = h
<1>1. g \in Nat /\ h \in Nat /\ m[g] \in Nat /\ m[h] \in Nat
  BY DEF Row
<1>2. CASE g < h
  <2>1. g + HeaderSize + m[g] <= h
    BY <1>2 DEF Row
  <2> QED
    BY <1>1, <2>1 DEF HeaderSize
<1>3. CASE h < g
  <2>1. h + HeaderSize + m[h] <= g
    BY <1>3 DEF Row
  <2> QED
    BY <1>1, <2>1 DEF HeaderSize
<1> QED
  BY <1>1, <1>2, <1>3

\* A step that shows nothing new.
LEMMA Unseen ==
  ASSUME HeapInvariant, HeapInvariant', Identity,
         NEW T, Shows(mem', root', offset', T, Links),
         SlotsOf(mem', root', offset') = SlotsOf(mem, root, offset)
  PROVE  Identity' /\ UNCHANGED <<Slots, Links>>
<1>1. PICK sl : sl = SlotsOf(mem', root', offset')
  OBVIOUS
<1>2. Slots = sl /\ Links = Abstract!Trimmed(sl, Links)
  BY <1>1, ShownNow
<1>3. PICK nx : nx = Links
  OBVIOUS
<1>4. Shows(mem', root', offset', T, nx)
  BY <1>3
<1>5. Identity' /\ Slots' = sl /\ Links' = Abstract!Trimmed(sl, nx)
  BY <1>1, <1>4, ShownNext
<1> QED
  BY <1>2, <1>3, <1>5

\* Filling a gap writes to no object.
LEMMA FilledShows ==
  ASSUME NEW m, NEW end, NEW bs, NEW ts, NEW S, Sound(m, end, bs, ts, S),
         NEW H, H \subseteq ObjectsOf(bs, S), NEW rt, NEW off, NEW nx, Shows(m, rt, off, H, nx),
         NEW t \in Mutators, NEW m2, m2 = Filled(m, bs[t])
  PROVE  /\ Shows(m2, rt, off, H, nx) /\ SlotsOf(m2, rt, off) = SlotsOf(m, rt, off)
         /\ Names(m2, H) = Names(m, H)
<1>1. PICK F : F = FillOf(m, bs, ts)
  OBVIOUS
<1>2. /\ m \in [Words -> Int]
      /\ OpenIn(bs, t) => bs[t][1] \in Nat /\ bs[t][2] \in Nat
      /\ \A h \in ObjectsOf(bs, S) :
           /\ h \in Nat /\ m[h] \in Nat /\ F[h] = m[h]
           /\ OpenIn(bs, t) => Past(F, h) <= bs[t][1] \/ bs[t][2] <= h
  BY <1>1, SoundFacts
<1>3. \A u \in Mutators : u \notin ts => bs[u] = NoTlab
  BY DEF Sound
<1>4. ts \in SUBSET Mutators
  BY DEF Sound
<1>5. m2 \in [Words -> Int]
  <2>1. Sound(m2, end, bs, ts, S)
    BY <1>3, <1>4, Retired
  <2> QED
    BY <2>1 DEF Sound
<1>6. bs[t][1] \in Nat /\ bs[t][2] \in Nat
  BY DEF Sound, Gaps
<1>7. ASSUME NEW h \in H, NEW a \in Words, h <= a, a < h + HeaderSize + m[h] PROVE m2[a] = m[a]
  <2>1. a \in Nat /\ h \in Nat /\ m[h] \in Nat
    BY <1>2, WordsAreNat
  <2>2. ~(bs[t][1] <= a /\ a < bs[t][2])
    <3> SUFFICES ASSUME bs[t][1] <= a, a < bs[t][2] PROVE FALSE
      OBVIOUS
    <3>1. OpenIn(bs, t)
      BY <1>6, <2>1 DEF OpenIn
    <3>2. h + HeaderSize + m[h] <= bs[t][1] \/ bs[t][2] <= h
      BY <1>2, <3>1 DEF Past
    <3> QED
      BY <1>6, <1>7, <2>1, <3>2 DEF HeaderSize
  <2> QED
    BY <2>2 DEF Filled
<1> QED
  BY <1>5, <1>7, KeptShows

\* A new object of a name that no object has shows no more than the root it is for.
LEMMA ServedShows ==
  ASSUME NEW m, NEW L, NEW H, H \subseteq L,
         NEW rt, NEW off, NEW nx, Shows(m, rt, off, H, nx),
         NEW raw \in Nat, raw \notin L, NEW rest \in Nat, NEW m2, Clean(m, m2, raw, rest),
         NEW end2, NEW bs2, NEW ts, ServedIn(m, L, raw, m2, end2, bs2, ts),
         m2[raw] <= Longest,
         HasTag(m2, raw) => /\ 2 <= m2[raw] /\ m2[raw + HeaderSize + 1] \in Tags
                            /\ m2[raw + HeaderSize + 1] \notin Names(m, H)
  PROVE  /\ Shows(m2, rt, off, H \cup {raw}, nx)
         /\ SlotsOf(m2, rt, off) = SlotsOf(m, rt, off)
<1>1. PICK S : Sound(m2, end2, bs2, ts, S) /\ ObjectsOf(bs2, S) = L \cup {raw} /\ \A h \in L : m2[h] = m[h]
  BY DEF ServedIn
<1>2. PICK L2 : L2 = L \cup {raw}
  OBVIOUS
<1>3. Row(m2, L2)
  BY <1>1, <1>2, SoundRow
<1>4. /\ m2 \in [Words -> Int]
      /\ m2[raw] = rest - raw - HeaderSize
      /\ \A f \in Fields(m2, raw) : m2[f] = Null
      /\ \A a \in Words : a < raw \/ rest <= a => m2[a] = m[a]
  BY DEF Clean
<1>5. raw \in L2 /\ H \subseteq L2 /\ H \cup {raw} \subseteq L2
  BY <1>2
<1>6. raw \in Words /\ m2[raw] \in Nat
  BY <1>3, <1>5 DEF Row
<1>7. ASSUME NEW h \in H, NEW a \in Words, h <= a, a < h + HeaderSize + m[h] PROVE m2[a] = m[a]
  <2>1. h \in L2 /\ m2[h] = m[h] /\ h # raw
    BY <1>1, <1>5
  <2>2. a < raw \/ rest <= a
    <3> SUFFICES ASSUME ~(a < raw), ~(rest <= a) PROVE FALSE
      OBVIOUS
    <3>1. a \in Nat
      BY WordsAreNat
    <3>2. raw <= a /\ a < raw + HeaderSize + m2[raw]
      BY <1>4, <3>1 DEF HeaderSize
    <3>3. h <= a /\ a < h + HeaderSize + m2[h]
      BY <1>7, <2>1
    <3> QED
      BY <1>3, <1>5, <2>1, <3>1, <3>2, <3>3, RowApart
  <2> QED
    BY <1>4, <2>2
<1>8. /\ Shows(m2, rt, off, H, nx) /\ SlotsOf(m2, rt, off) = SlotsOf(m, rt, off)
      /\ Names(m2, H) = Names(m, H)
  BY <1>4, <1>7, KeptShows
<1>9. Row(m2, H) /\ Identified(m2, H) /\ RootsIn(rt, off, H) /\ Sees(m2, H, nx)
  BY <1>8 DEF Shows
<1>10. PICK T : T = H \cup {raw}
  OBVIOUS
<1>11. Row(m2, T)
  <2>1. \A h \in T : \A f \in Fields(m2, h) : m2[f] = Null \/ m2[f] - HeaderSize \in T
    BY <1>4, <1>9, <1>10 DEF Row
  <2>2. T \subseteq L2
    BY <1>5, <1>10
  <2> QED
    BY <1>3, <2>1, <2>2 DEF Row
<1>12. HasTag(m2, raw) => /\ 2 <= m2[raw] /\ m2[raw + HeaderSize + 1] \in Tags
                          /\ NameOf(m2, raw) = m2[raw + HeaderSize + 1]
                          /\ NameOf(m2, raw) \notin Names(m2, H)
  BY <1>8 DEF NameOf
<1>13. Identified(m2, T)
  <2>1. ASSUME NEW g \in T, NEW h \in T, HasTag(m2, g), HasTag(m2, h), NameOf(m2, g) = NameOf(m2, h)
        PROVE  g = h
    <3>1. CASE g \in H /\ h \in H
      BY <1>9, <2>1, <3>1 DEF Identified
    <3>2. CASE g = raw /\ h \in H
      BY <1>12, <2>1, <3>2 DEF Names
    <3>3. CASE h = raw /\ g \in H
      BY <1>12, <2>1, <3>3 DEF Names
    <3>4. CASE g = raw /\ h = raw
      BY <3>4
    <3> QED
      BY <1>10, <3>1, <3>2, <3>3, <3>4
  <2>2. \A h \in T : /\ m2[h] <= Longest
                     /\ HasTag(m2, h) => 2 <= m2[h] /\ m2[h + HeaderSize + 1] \in Tags
                     /\ \A f \in Fields(m2, h) : f # h + HeaderSize => m2[f] = Null
    BY <1>4, <1>9, <1>10, <1>12 DEF Identified
  <2> QED
    BY <2>1, <2>2 DEF Identified
<1>14. RootsIn(rt, off, T)
  BY <1>9, <1>10 DEF RootsIn
<1>15. Sees(m2, T, nx)
  <2>1. NextOf(m2, raw) = Null
    <3>1. CASE Fields(m2, raw) = {}
      BY <3>1 DEF NextOf
    <3>2. CASE Fields(m2, raw) # {}
      <4>1. raw + HeaderSize \in Fields(m2, raw)
        BY <1>3, <1>5, <3>2, FieldPlaces
      <4> QED
        BY <1>4, <3>2, <4>1 DEF NextOf, NameAt
    <3> QED
      BY <3>1, <3>2
  <2>2. ASSUME NEW h \in T, HasTag(m2, h) PROVE nx[NameOf(m2, h)] = NextOf(m2, h)
    <3>1. CASE h \in H
      BY <1>9, <2>2, <3>1 DEF Sees
    <3>2. CASE h = raw
      BY <1>9, <1>12, <2>1, <2>2, <3>2 DEF Sees
    <3> QED
      BY <1>10, <3>1, <3>2
  <2>3. Names(m2, H) \subseteq Names(m2, T)
    BY <1>10 DEF Names
  <2> QED
    BY <1>9, <2>2, <2>3 DEF Sees
<1> QED
  BY <1>8, <1>10, <1>11, <1>13, <1>14, <1>15 DEF Shows

\* A reference v stored in the field f of the object x shows in that field alone.
Storing(m, H, x, f, v, m2, nx, nx2) ==
  /\ x \in H /\ f \in Fields(m, x) /\ f = x + HeaderSize
  /\ v \in Nat /\ (v = Null \/ v - HeaderSize \in H)
  /\ m2 = [m EXCEPT ![f] = v]
  /\ nx2 = [nx EXCEPT ![NameOf(m, x)] = NameAt(m, v)]
LEMMA StoreShows ==
  ASSUME NEW m, NEW H, NEW rt, NEW off, NEW nx, Shows(m, rt, off, H, nx),
         NEW x, NEW f, NEW v, NEW m2, NEW nx2, Storing(m, H, x, f, v, m2, nx, nx2)
  PROVE  Shows(m2, rt, off, H, nx2) /\ SlotsOf(m2, rt, off) = SlotsOf(m, rt, off)
<1>0. /\ x \in H /\ f \in Fields(m, x) /\ f = x + HeaderSize
      /\ v \in Nat /\ (v = Null \/ v - HeaderSize \in H)
      /\ m2 = [m EXCEPT ![f] = v]
      /\ nx2 = [nx EXCEPT ![NameOf(m, x)] = NameAt(m, v)]
  BY DEF Storing
<1>1. Row(m, H) /\ Identified(m, H) /\ RootsIn(rt, off, H) /\ Sees(m, H, nx)
  BY <1>0 DEF Shows
<1>2. /\ m \in [Words -> Int] /\ m2 \in [Words -> Int]
      /\ \A h \in H : /\ h \in Nat /\ h \in Words /\ h + 2 \in Words /\ m[h] \in Nat
                      /\ h + HeaderSize + m[h] <= End
  <2>1. m \in [Words -> Int] /\ v \in Int
    BY <1>0, <1>1 DEF Row
  <2>2. m2 \in [Words -> Int]
    BY <1>0, <2>1
  <2> QED
    BY <1>0, <1>1, <2>1, <2>2 DEF Row
<1>3. f \in Nat /\ f \in Words /\ f < x + HeaderSize + m[x] /\ x <= f /\ HasTag(m, x)
  <2>1. f \in Nat /\ f \in Words /\ f < x + HeaderSize + m[x] /\ HasTag(m, x)
    BY <1>0, <1>1, FieldPlaces
  <2> QED
    BY <1>0, <1>2, <2>1 DEF HeaderSize
<1>4. ASSUME NEW h \in H, NEW a \in Nat, h <= a, a < h + HeaderSize + m[h], a # f
      PROVE  m2[a] = m[a]
  BY <1>0, <1>2, <1>4
<1>5. ASSUME NEW h \in H
      PROVE  /\ m2[h] = m[h] /\ m2[h + 2] = m[h + 2]
             /\ HasTag(m, h) => m2[h + HeaderSize + 1] = m[h + HeaderSize + 1]
             /\ Fields(m2, h) = Fields(m, h)
  <2>1. h \in Nat /\ m[h] \in Nat /\ h \in Words /\ h + 2 \in Words
    BY <1>0, <1>2
  <2>2. ASSUME NEW a \in Nat, h <= a, a < h + HeaderSize + m[h], a # h + HeaderSize
        PROVE  m2[a] = m[a]
    <3>1. CASE a = f
      <4>1. h = x
        BY <1>0, <1>1, <1>3, <2>2, <3>1, RowApart
      <4> QED
        BY <1>0, <2>2, <3>1, <4>1
    <3>2. CASE a # f
      BY <1>0, <1>4, <2>2, <3>2
    <3> QED
      BY <1>0, <3>1, <3>2
  <2>3. m2[h] = m[h] /\ m2[h + 2] = m[h + 2]
    <3>1. PICK b \in Nat : b = h + 2
      BY <1>0, <2>1
    <3>2. /\ h <= h /\ h < h + HeaderSize + m[h] /\ h # h + HeaderSize
          /\ h <= b /\ b < h + HeaderSize + m[h] /\ b # h + HeaderSize
      BY <1>0, <2>1, <3>1 DEF HeaderSize
    <3> QED
      BY <1>0, <2>1, <2>2, <3>1, <3>2
  <2>4. ASSUME HasTag(m, h) PROVE m2[h + HeaderSize + 1] = m[h + HeaderSize + 1]
    <3>1. 2 <= m[h]
      BY <1>0, <1>1, <2>4 DEF Identified
    <3>2. PICK b \in Nat : b = h + HeaderSize + 1
      BY <1>0, <2>1 DEF HeaderSize
    <3>3. h <= b /\ b < h + HeaderSize + m[h] /\ b # h + HeaderSize
      BY <1>0, <2>1, <3>1, <3>2 DEF HeaderSize
    <3> QED
      BY <1>0, <2>2, <3>2, <3>3
  <2>5. Fields(m2, h) = Fields(m, h)
    <3>1. PICK w : w = m2
      BY <1>0
    <3>2. m \in [Words -> Int] /\ w \in [Words -> Int] /\ w[h] = m[h] /\ w[h + 2] = m[h + 2]
      BY <1>0, <1>2, <2>3, <3>1
    <3>3. Fields(w, h) = Fields(m, h)
      BY <1>0, <2>1, <3>2, SameFields
    <3> QED
      BY <1>0, <3>1, <3>3
  <2> QED
    BY <1>0, <2>3, <2>4, <2>5
<1>6. ASSUME NEW h \in H, NEW a \in Fields(m, h)
      PROVE  IF a = f THEN h = x /\ m2[a] = v ELSE m2[a] = m[a]
  <2>1. a \in Nat /\ a \in Words /\ h + HeaderSize <= a /\ a < h + HeaderSize + m[h] /\ h \in Nat
    BY <1>0, <1>1, <1>2, FieldPlaces
  <2>2. h <= a
    BY <1>0, <2>1 DEF HeaderSize
  <2>3. CASE a = f
    <3>1. h = x
      BY <1>0, <1>1, <1>3, <2>1, <2>2, <2>3, RowApart
    <3> QED
      BY <1>0, <1>2, <1>3, <2>3, <3>1
  <2>4. CASE a # f
    BY <1>0, <1>4, <2>1, <2>2, <2>4
  <2> QED
    BY <1>0, <2>3, <2>4
<1>7. Row(m2, H)
  <2>1. ASSUME NEW h \in H, NEW a \in Fields(m2, h) PROVE m2[a] = Null \/ m2[a] - HeaderSize \in H
    <3>1. a \in Fields(m, h)
      BY <1>5
    <3>2. IF a = f THEN m2[a] = v ELSE m2[a] = m[a]
      BY <1>6, <3>1
    <3>3. m[a] = Null \/ m[a] - HeaderSize \in H
      BY <1>1, <3>1 DEF Row
    <3> QED
      BY <1>0, <3>2, <3>3
  <2> QED
    BY <1>0, <1>1, <1>2, <1>5, <2>1 DEF Row
<1>8. \A h \in H : (HasTag(m2, h) <=> HasTag(m, h)) /\ NameOf(m2, h) = NameOf(m, h)
  BY <1>0, <1>5 DEF HasTag, NameOf
<1>9. Identified(m2, H)
  <2>1. \A h \in H : \A a \in Fields(m2, h) : a # h + HeaderSize => m2[a] = Null
    <3> SUFFICES ASSUME NEW h \in H, NEW a \in Fields(m, h), a # h + HeaderSize PROVE m2[a] = Null
      BY <1>0, <1>5
    <3>1. m[a] = Null
      BY <1>0, <1>1 DEF Identified
    <3> QED
      BY <1>0, <1>6, <3>1
  <2> QED
    BY <1>0, <1>1, <1>5, <1>8, <2>1 DEF Identified
<1>10. Names(m2, H) = Names(m, H)
  BY <1>0, <1>8 DEF Names
<1>11. ASSUME NEW w \in Int, w = Null \/ w - HeaderSize \in H PROVE NameAt(m2, w) = NameAt(m, w)
  BY <1>0, <1>8, <1>11 DEF NameAt
<1>12. Sees(m2, H, nx2)
  <2>1. nx = [o \in Tags |-> nx[o]] /\ NameOf(m, x) \in Tags
    BY <1>0, <1>1, <1>3 DEF Sees, Identified, NameOf
  <2>2. ASSUME NEW h \in H, HasTag(m2, h) PROVE nx2[NameOf(m2, h)] = NextOf(m2, h)
    <3>1. HasTag(m, h) /\ NameOf(m2, h) = NameOf(m, h) /\ NameOf(m, h) \in Tags
      BY <1>0, <1>1, <1>8, <2>2 DEF Identified, NameOf
    <3>2. CASE h = x
      <4>1. NextOf(m2, h) = NameAt(m2, v)
        BY <1>0, <1>5, <1>6, <3>2 DEF NextOf
      <4>2. NameAt(m2, v) = NameAt(m, v)
        <5>1. v \in Int /\ (v = Null \/ v - HeaderSize \in H)
          BY <1>0
        <5> QED
          BY <1>0, <1>11, <5>1
      <4> QED
        BY <1>0, <2>1, <3>1, <3>2, <4>1, <4>2
    <3>3. CASE h # x
      <4>1. NameOf(m, h) # NameOf(m, x)
        BY <1>0, <1>1, <1>3, <3>1, <3>3 DEF Identified
      <4>2. nx2[NameOf(m, h)] = NextOf(m, h)
        BY <1>0, <1>1, <2>1, <3>1, <4>1 DEF Sees
      <4>3. NextOf(m2, h) = NextOf(m, h)
        <5>1. CASE Fields(m, h) = {}
          BY <1>0, <1>5, <5>1 DEF NextOf
        <5>2. CASE Fields(m, h) # {}
          <6>1. PICK a \in Fields(m, h) : a = h + HeaderSize
            BY <1>0, <1>1, <5>2, FieldPlaces
          <6>2. m2[a] = m[a] /\ m[a] \in Int /\ (m[a] = Null \/ m[a] - HeaderSize \in H)
            <7>1. a \in Words
              BY <1>0, <1>1, FieldPlaces
            <7> QED
              BY <1>0, <1>1, <1>2, <1>6, <3>3, <7>1 DEF Row
          <6>3. NameAt(m2, m[a]) = NameAt(m, m[a])
            BY <1>0, <1>11, <6>2
          <6> QED
            BY <1>0, <1>5, <5>2, <6>1, <6>2, <6>3 DEF NextOf
        <5> QED
          BY <1>0, <5>1, <5>2
      <4> QED
        BY <1>0, <3>1, <4>2, <4>3
    <3> QED
      BY <1>0, <3>2, <3>3
  <2>3. ASSUME NEW o \in Tags, o \notin Names(m2, H) PROVE nx2[o] = Null
    <3>1. o # NameOf(m, x) /\ nx[o] = Null
      BY <1>0, <1>1, <1>3, <1>10, <2>3 DEF Names, Sees
    <3> QED
      BY <1>0, <2>1, <3>1
  <2>4. nx2 = [o \in Tags |-> nx2[o]]
    BY <1>0, <2>1
  <2> QED
    BY <1>0, <2>2, <2>3, <2>4 DEF Sees
<1>13. SlotsOf(m2, rt, off) = SlotsOf(m, rt, off)
  <2>1. ASSUME NEW r \in Roots PROVE NameAt(m2, rt[r] - off[r]) = NameAt(m, rt[r] - off[r])
    <3>1. rt[r] \in Nat /\ off[r] \in Nat
      BY <1>0, <1>1 DEF RootsIn
    <3>2. PICK w \in Int : w = rt[r] - off[r]
      BY <1>0, <3>1
    <3>3. w = Null \/ w - HeaderSize \in H
      BY <1>0, <1>1, <3>1, <3>2 DEF RootsIn, Null
    <3> QED
      BY <1>0, <1>11, <3>2, <3>3
  <2> QED
    BY <1>0, <2>1 DEF SlotsOf
<1> QED
  BY <1>0, <1>1, <1>7, <1>9, <1>12, <1>13 DEF Shows

\* Filling a gap shows nothing.
LEMMA FilledUnseen ==
  ASSUME HeapInvariant, Identity, NEW t \in Mutators,
         mem' = mem \/ mem' = Filled(mem, tlab[t])
  PROVE  Shows(mem', root, offset, Reachable, Links) /\ SlotsOf(mem', root, offset) = Slots
<1>1. Shows(mem, root, offset, Reachable, Links) /\ SlotsOf(mem, root, offset) = Slots
  BY ShownNow
<1>2. CASE mem' = mem
  BY <1>1, <1>2
<1>3. CASE mem' = Filled(mem, tlab[t])
  <2>1. PICK S : Sound(mem, top, tlab, attached, S) /\ Rooted(mem, ObjectsOf(tlab, S), root, offset)
    BY DEF HeapInvariant, Intact
  <2>2. Reachable \subseteq ObjectsOf(tlab, S)
    BY <2>1, ReachableAreObjects
  <2>3. PICK m2 : m2 = Filled(mem, tlab[t])
    OBVIOUS
  <2>4. /\ Shows(m2, root, offset, Reachable, Links)
        /\ SlotsOf(m2, root, offset) = SlotsOf(mem, root, offset)
    BY <1>1, <2>1, <2>2, <2>3, FilledShows
  <2> QED
    BY <1>1, <1>3, <2>3, <2>4
<1> QED
  BY <1>2, <1>3

\* Steps of threads that come, go or find the heap exhausted show nothing.
LEMMA QuietStep ==
  ASSUME HeapInvariant, HeapInvariant', Identity, NEW t \in Mutators,
         mem' = mem \/ mem' = Filled(mem, tlab[t]), UNCHANGED <<root, offset>>
  PROVE  Identity' /\ UNCHANGED <<Slots, Links>>
<1>1. Shows(mem', root', offset', Reachable, Links) /\ SlotsOf(mem', root', offset') = Slots
  BY FilledUnseen
<1>2. Slots = SlotsOf(mem, root, offset)
  BY ShownNow
<1> QED
  BY <1>1, <1>2, Unseen

\* A root that is set, with or without an object more, shows that and nothing else.
Setting(T, r, v, o) ==
  /\ Shows(mem', root, offset, T, Links) /\ SlotsOf(mem', root, offset) = Slots
  /\ r \in Roots /\ v \in Nat /\ o \in Nat /\ RefersInto(v, o, T)
  /\ root' = [root EXCEPT ![r] = v] /\ offset' = [offset EXCEPT ![r] = o]
LEMMA SetStep ==
  ASSUME HeapInvariant, HeapInvariant', Identity,
         NEW T, NEW r, NEW v, NEW o, Setting(T, r, v, o)
  PROVE  /\ Identity' /\ Links' = Abstract!Trimmed(Slots', Links)
         /\ Slots' = [Slots EXCEPT ![r] = <<NameAt(mem', v - o), o>>]
<1>0. /\ Shows(mem', root, offset, T, Links) /\ SlotsOf(mem', root, offset) = Slots
      /\ r \in Roots /\ v \in Nat /\ o \in Nat /\ RefersInto(v, o, T)
      /\ root' = [root EXCEPT ![r] = v] /\ offset' = [offset EXCEPT ![r] = o]
  BY DEF Setting
<1>1. PICK m2, rt2, off2 : m2 = mem' /\ rt2 = root' /\ off2 = offset'
  OBVIOUS
<1>2. PICK nx, rt, off : nx = Links /\ rt = root /\ off = offset
  OBVIOUS
<1>3. Shows(m2, rt, off, T, nx)
  BY <1>0, <1>1, <1>2
<1>4. rt2 = [rt EXCEPT ![r] = v] /\ off2 = [off EXCEPT ![r] = o]
  BY <1>0, <1>1, <1>2
<1>5. /\ Shows(m2, rt2, off2, T, nx)
      /\ SlotsOf(m2, rt2, off2) = [SlotsOf(m2, rt, off) EXCEPT ![r] = <<NameAt(m2, v - o), o>>]
  <2>1. r \in Roots /\ v \in Nat /\ o \in Nat /\ RefersInto(v, o, T)
    BY <1>0
  <2>2. Shows(m2, [rt EXCEPT ![r] = v], [off EXCEPT ![r] = o], T, nx)
    BY <1>3, <2>1, RootShows
  <2>3. SlotsOf(m2, [rt EXCEPT ![r] = v], [off EXCEPT ![r] = o])
          = [SlotsOf(m2, rt, off) EXCEPT ![r] = <<NameAt(m2, v - o), o>>]
    BY <1>3, <2>1, RootShows
  <2> QED
    BY <1>4, <2>2, <2>3
<1>6. PICK sl : sl = SlotsOf(m2, rt2, off2)
  OBVIOUS
<1>7. Shows(mem', root', offset', T, nx) /\ sl = SlotsOf(mem', root', offset')
  BY <1>1, <1>5, <1>6
<1>8. Identity' /\ Slots' = sl /\ Links' = Abstract!Trimmed(sl, nx)
  BY <1>7, ShownNext
<1>9. sl = [Slots EXCEPT ![r] = <<NameAt(mem', v - o), o>>]
  BY <1>0, <1>1, <1>2, <1>5, <1>6
<1> QED
  BY <1>2, <1>8, <1>9

\* What is shown after a step is a step of the store, or what was shown before.
Seen == Identity' /\ [Abstract!Next]_<<Slots, Links>>

\* A root that is dropped.
LEMMA DropSeen ==
  ASSUME HeapInvariant, HeapInvariant', Identity, NEW r \in Roots, Drop(r)
  PROVE  Seen
<1>1. mem' = mem /\ root' = [root EXCEPT ![r] = Null] /\ offset' = [offset EXCEPT ![r] = 0]
  BY DEF Drop
<1>2. Shows(mem', root, offset, Reachable, Links) /\ SlotsOf(mem', root, offset) = Slots
  BY <1>1, ShownNow
<1>3. PICK v \in Nat, o \in Nat : v = Null /\ o = 0
  BY DEF Null
<1>4. PICK T : T = Reachable
  OBVIOUS
<1>5. Setting(T, r, v, o)
  BY <1>1, <1>2, <1>3, <1>4 DEF RefersInto, Setting
<1>6. /\ Identity' /\ Links' = Abstract!Trimmed(Slots', Links)
      /\ Slots' = [Slots EXCEPT ![r] = <<NameAt(mem', v - o), o>>]
  BY <1>5, SetStep
<1>7. NameAt(mem', v - o) = Abstract!Nobody
  BY <1>3 DEF Null, NameAt, Abstract!Nobody
<1>8. Abstract!Drop(r)
  BY <1>3, <1>6, <1>7 DEF Abstract!Drop
<1> QED
  BY <1>6, <1>8 DEF Seen, Abstract!Next

\* What a root with a field refers to, and how it is shown.
LEMMA FieldShown ==
  ASSUME HeapInvariant, Identity, NEW r \in Roots, HasField(r)
  PROVE  /\ Object(r) \in Reachable /\ root[r] \in Fields(mem, Object(r))
         /\ root[r] = Object(r) + HeaderSize
         /\ Slots[r] = <<NameOf(mem, Object(r)), 0>> /\ NameOf(mem, Object(r)) \in Tags
<1>1. Shows(mem, root, offset, Reachable, Links) /\ Slots = SlotsOf(mem, root, offset)
  BY ShownNow
<1>2. Row(mem, Reachable) /\ Identified(mem, Reachable) /\ RootsIn(root, offset, Reachable)
  BY <1>1 DEF Shows
<1>3. root[r] # Null /\ offset[r] = 0 /\ root[r] \in Fields(mem, Object(r)) /\ root[r] \in Nat
  BY <1>2 DEF HasField, IsBase, RootsIn
<1>4. PICK h \in Reachable : h = Object(r)
  BY <1>2, <1>3 DEF RootsIn, Object
<1>5. h \in Nat
  BY <1>2 DEF Row
<1>6. PICK v \in Int : v = root[r]
  BY <1>3
<1>7. v - HeaderSize = h /\ root[r] = h + HeaderSize /\ root[r] - offset[r] = v
  BY <1>3, <1>4, <1>5, <1>6 DEF Object, HeaderSize
<1>8. NameAt(mem, v) = NameOf(mem, h)
  BY <1>5, <1>7, NameAtIs
<1>9. HasTag(mem, h)
  BY <1>2, <1>3, <1>4, FieldPlaces
<1>10. NameOf(mem, h) \in Tags
  BY <1>2, <1>9 DEF Identified, NameOf
<1>11. Slots[r] = <<NameAt(mem, v), 0>>
  BY <1>1, <1>3, <1>7 DEF SlotsOf
<1> QED
  BY <1>3, <1>4, <1>7, <1>8, <1>10, <1>11

\* A reference that is loaded.
LEMMA LoadSeen ==
  ASSUME HeapInvariant, HeapInvariant', Identity, NEW r \in Roots, NEW s \in Roots, Load(r, s)
  PROVE  Seen
<1>1. /\ HasField(s) /\ mem' = mem
      /\ root' = [root EXCEPT ![r] = mem[root[s]]] /\ offset' = [offset EXCEPT ![r] = 0]
  BY DEF Load
<1>2. Shows(mem', root, offset, Reachable, Links) /\ SlotsOf(mem', root, offset) = Slots
  BY <1>1, ShownNow
<1>3. Row(mem, Reachable) /\ Sees(mem, Reachable, Links)
  BY <1>1, <1>2 DEF Shows
<1>4. PICK h \in Reachable : h = Object(s)
  BY <1>1, FieldShown
<1>5. /\ root[s] \in Fields(mem, h) /\ root[s] = h + HeaderSize
      /\ Slots[s] = <<NameOf(mem, h), 0>> /\ NameOf(mem, h) \in Tags
  BY <1>1, <1>4, FieldShown
<1>6. HasTag(mem, h) /\ root[s] \in Words
  BY <1>3, <1>5, FieldPlaces
<1>7. PICK v \in Int : v = mem[root[s]]
  BY <1>3, <1>6 DEF Row
<1>8. v = Null \/ v - HeaderSize \in Reachable
  BY <1>3, <1>5, <1>7 DEF Row
<1>9. v \in Nat
  <2>1. CASE v = Null
    BY <2>1 DEF Null
  <2>2. CASE v - HeaderSize \in Reachable
    <3>1. v - HeaderSize \in Nat
      BY <1>3, <2>2 DEF Row
    <3> QED
      BY <3>1 DEF HeaderSize
  <2> QED
    BY <1>8, <2>1, <2>2
<1>10. Links[NameOf(mem, h)] = NameAt(mem, v)
  BY <1>3, <1>5, <1>6, <1>7 DEF Sees, NextOf
<1>11. PICK T : T = Reachable
  OBVIOUS
<1>12. PICK o \in Nat : o = 0
  OBVIOUS
<1>13. Setting(T, r, v, o) /\ v - o = v
  BY <1>1, <1>2, <1>7, <1>8, <1>9, <1>11, <1>12 DEF RefersInto, Setting
<1>14. /\ Identity' /\ Links' = Abstract!Trimmed(Slots', Links)
       /\ Slots' = [Slots EXCEPT ![r] = <<NameAt(mem', v - o), o>>]
  BY <1>13, SetStep
<1>15. Slots[s][1] = NameOf(mem, h) /\ Slots[s][2] = 0
  BY <1>5
<1>16. NameAt(mem', v - o) = Links[Slots[s][1]]
  BY <1>1, <1>10, <1>13, <1>15
<1>17. Abstract!Load(r, s)
  BY <1>5, <1>12, <1>14, <1>15, <1>16 DEF Abstract!Load
<1> QED
  BY <1>14, <1>17 DEF Seen, Abstract!Next

\* A reference that is stored.
LEMMA StoreSeen ==
  ASSUME HeapInvariant, HeapInvariant', Identity, NEW r \in Roots, NEW s \in Roots, Store(r, s)
  PROVE  Seen
<1>1. /\ HasField(r) /\ offset[s] = 0 /\ mem' = [mem EXCEPT ![root[r]] = root[s]]
      /\ UNCHANGED <<root, offset>>
  BY DEF Store, IsBase
<1>2. Shows(mem, root, offset, Reachable, Links) /\ Slots = SlotsOf(mem, root, offset)
  BY ShownNow
<1>3. RootsIn(root, offset, Reachable)
  BY <1>2 DEF Shows
<1>4. PICK h \in Reachable : h = Object(r)
  BY <1>1, FieldShown
<1>5. PICK f \in Fields(mem, h) : f = root[r] /\ f = h + HeaderSize
  BY <1>1, <1>4, FieldShown
<1>6. Slots[r] = <<NameOf(mem, h), 0>> /\ NameOf(mem, h) \in Tags
  BY <1>1, <1>4, FieldShown
<1>7. PICK v \in Nat : v = root[s]
  BY <1>3 DEF RootsIn
<1>8. (v = Null \/ v - HeaderSize \in Reachable) /\ root[s] - offset[s] = v
  BY <1>1, <1>3, <1>7 DEF RootsIn, HeaderSize
<1>9. Slots[s] = <<NameAt(mem, v), 0>>
  BY <1>1, <1>2, <1>8 DEF SlotsOf
<1>10. PICK m, H, nx, rt, off :
         m = mem /\ H = Reachable /\ nx = Links /\ rt = root /\ off = offset
  OBVIOUS
<1>11. PICK m2 : m2 = [m EXCEPT ![f] = v]
  OBVIOUS
<1>12. PICK nx2 : nx2 = [nx EXCEPT ![NameOf(m, h)] = NameAt(m, v)]
  OBVIOUS
<1>13. Shows(m, rt, off, H, nx)
  BY <1>2, <1>10
<1>14. Storing(m, H, h, f, v, m2, nx, nx2)
  BY <1>5, <1>7, <1>8, <1>10, <1>11, <1>12 DEF Storing
<1>15. Shows(m2, rt, off, H, nx2) /\ SlotsOf(m2, rt, off) = SlotsOf(m, rt, off)
  BY <1>13, <1>14, StoreShows
<1>16. m2 = mem'
  BY <1>1, <1>5, <1>7, <1>10, <1>11
<1>17. PICK sl : sl = Slots
  OBVIOUS
<1>18. Shows(mem', root', offset', H, nx2) /\ sl = SlotsOf(mem', root', offset')
  BY <1>1, <1>2, <1>10, <1>15, <1>16, <1>17
<1>19. Identity' /\ Slots' = sl /\ Links' = Abstract!Trimmed(sl, nx2)
  BY <1>18, ShownNext
<1>20. nx2 = [Links EXCEPT ![Slots[r][1]] = Slots[s][1]]
  BY <1>6, <1>9, <1>10, <1>12
<1>21. Slots[r][1] \in Tags /\ Slots[r][2] = 0 /\ Slots[s][2] = 0
  BY <1>6, <1>9
<1>22. Abstract!Store(r, s)
  BY <1>17, <1>19, <1>20, <1>21 DEF Abstract!Store
<1> QED
  BY <1>19, <1>22 DEF Seen, Abstract!Next

\* A finite set of naturals that has a member has a greatest one.
LEMMA FiniteGreatest ==
  ASSUME NEW T, T \subseteq Nat, IsFiniteSet(T), T # {}
  PROVE  \E b \in T : \A n \in T : n <= b
<1> DEFINE Lacks(q) == q # {} /\ ~\E b \in q : \A n \in q : n <= b
           C == {Cardinality(q) : q \in {p \in SUBSET T : Lacks(p)}}
<1> SUFFICES ASSUME Lacks(T) PROVE FALSE
  OBVIOUS
<1>1. \A q \in SUBSET T : IsFiniteSet(q) /\ Cardinality(q) \in Nat
  BY FS_Subset, FS_CardinalityType
<1> HIDE DEF Lacks
<1>2. C \subseteq Nat /\ C # {}
  BY <1>1
<1>3. PICK k \in C : \A n \in C : k <= n
  <2> HIDE DEF C
  <2> QED
    BY <1>2, Least
<1>4. PICK q \in SUBSET T : Lacks(q) /\ Cardinality(q) = k
  BY <1>3
<1>5. PICK x \in q : TRUE
  BY <1>4 DEF Lacks
<1>6. q \ {x} \in SUBSET T /\ Cardinality(q \ {x}) = Cardinality(q) - 1
  BY <1>1, FS_RemoveElement
<1>7. ~Lacks(q \ {x})
  <2> SUFFICES ASSUME Lacks(q \ {x}) PROVE FALSE
    OBVIOUS
  <2>1. PICK j \in C : j = Cardinality(q \ {x})
    BY <1>6
  <2>2. k \in Nat /\ k <= j /\ j = k - 1
    BY <1>2, <1>3, <1>4, <1>6, <2>1
  <2> QED
    BY <2>2
<1>8. \A n \in q : n \in Nat
  OBVIOUS
<1>9. CASE q \ {x} = {}
  <2>1. \A n \in q : n <= x
    BY <1>8, <1>9
  <2> QED
    BY <1>4, <2>1 DEF Lacks
<1>10. CASE q \ {x} # {}
  <2>1. PICK y \in q \ {x} : \A n \in q \ {x} : n <= y
    BY <1>7, <1>10 DEF Lacks
  <2>2. CASE x <= y
    <3>1. \A n \in q : n <= y
      BY <2>1, <2>2
    <3> QED
      BY <1>4, <3>1 DEF Lacks
  <2>3. CASE y < x
    <3>1. \A n \in q : n <= x
      BY <1>8, <2>1, <2>3
    <3> QED
      BY <1>4, <3>1 DEF Lacks
  <2> QED
    BY <1>8, <2>2, <2>3
<1> QED
  BY <1>9, <1>10

\* No payload is longer than the longest.
LEMMA LongestIs ==
  ASSUME Distinguishable
  PROVE  Longest \in Nat /\ \A s \in Shapes : s[2] + HeaderSize - 1 <= Longest
<1> DEFINE T == {s[2] : s \in Shapes}
<1>1. T \subseteq Nat /\ T # {}
  BY AllocAssumption DEF AllocAssumption, Distinguishable
<1>2. IsFiniteSet(T)
  <2> DEFINE f == [s \in Shapes |-> s[2]]
  <2>1. f \in Surjection(Shapes, T)
    BY DEF Surjection
  <2> HIDE DEF f, T
  <2> QED
    BY <2>1, FS_Surjection DEF Distinguishable
<1> HIDE DEF T
<1>3. PICK b \in T : \A n \in T : n <= b
  BY <1>1, <1>2, FiniteGreatest
<1>4. Max(T) = b
  BY <1>1, <1>3, MaxIs
<1>5. Longest = b + HeaderSize - 1 /\ b \in Nat
  BY <1>1, <1>4 DEF Longest, T
<1>6. \A s \in Shapes : s[2] \in T
  BY DEF T
<1>7. ASSUME NEW s \in Shapes PROVE s[2] + HeaderSize - 1 <= Longest
  <2>1. s[2] \in Nat /\ s[2] <= b
    BY <1>1, <1>3, <1>6
  <2> QED
    BY <1>5, <2>1 DEF HeaderSize
<1> QED
  BY <1>5, <1>7 DEF HeaderSize

\* An element reference: the root still refers to the same object.
LEMMA AdvanceSeen ==
  ASSUME HeapInvariant, HeapInvariant', Identity, Distinguishable, NEW r \in Roots, Advance(r)
  PROVE  Seen
<1>1. PICK k \in {1, SizeAt(mem, Object(r))} \ {0} :
        /\ k <= SizeAt(mem, Object(r))
        /\ root' = [root EXCEPT ![r] = root[r] + k] /\ offset' = [offset EXCEPT ![r] = k]
  <2>1. root \in [Roots -> Nat] /\ offset \in [Roots -> Nat]
    BY DEF HeapInvariant, Intact, Rooted
  <2> QED
    BY <2>1 DEF Advance
<1>2. mem' = mem /\ root[r] # Null /\ offset[r] = 0
  BY DEF Advance, IsBase
<1>3. Shows(mem, root, offset, Reachable, Links) /\ Slots = SlotsOf(mem, root, offset)
  BY ShownNow
<1>4. Row(mem, Reachable) /\ Identified(mem, Reachable) /\ RootsIn(root, offset, Reachable)
  BY <1>3 DEF Shows
<1>5. PICK v \in Nat : v = root[r]
  BY <1>4 DEF RootsIn
<1>6. PICK h \in Reachable : h = Object(r) /\ h = v - HeaderSize
  BY <1>2, <1>4, <1>5 DEF RootsIn, Object, HeaderSize
<1>7. h \in Nat /\ h \in Words /\ mem[h] \in Nat /\ mem[h] <= Longest /\ SizeAt(mem, h) = mem[h]
  BY <1>4 DEF Row, Identified, SizeAt, Word
<1>8. k \in 1 .. Longest /\ k \in Nat
  BY <1>1, <1>6, <1>7, LongestIs
<1>9. PICK w \in Nat : w = v + k
  BY <1>8
<1>10. w # Null /\ w - k = v /\ w - k - HeaderSize = h
  BY <1>5, <1>6, <1>8, <1>9 DEF Null, HeaderSize
<1>11. PICK T : T = Reachable
  OBVIOUS
<1>12. Setting(T, r, w, k)
  BY <1>1, <1>2, <1>3, <1>5, <1>8, <1>9, <1>10, <1>11 DEF Setting, RefersInto
<1>13. /\ Identity' /\ Links' = Abstract!Trimmed(Slots', Links)
       /\ Slots' = [Slots EXCEPT ![r] = <<NameAt(mem', w - k), k>>]
  BY <1>12, SetStep
<1>14. Slots[r] = <<NameAt(mem, v), 0>> /\ Slots = [q \in Roots |-> Slots[q]]
  BY <1>2, <1>3, <1>5 DEF SlotsOf
<1>15. Slots' = [Slots EXCEPT ![r] = <<Slots[r][1], k>>]
  <2>1. Slots[r][1] = NameAt(mem, v)
    BY <1>14
  <2>2. NameAt(mem', w - k) = NameAt(mem, v)
    BY <1>2, <1>10
  <2>3. Slots' = [Slots EXCEPT ![r] = <<NameAt(mem', w - k), k>>]
    BY <1>13
  <2>4. <<NameAt(mem', w - k), k>> = <<Slots[r][1], k>>
    BY <2>1, <2>2
  <2> QED
    BY <2>3, <2>4
<1>16. Slots[r][1] # Abstract!Nobody
  <2>1. NameAt(mem, v) = NameOf(mem, h)
    BY <1>6, <1>7, NameAtIs
  <2>2. NameOf(mem, h) # Null
    BY <1>4, TagsApart, WordsAreNat DEF Identified, NameOf, Null
  <2> QED
    BY <1>14, <2>1, <2>2 DEF Abstract!Nobody, Null
<1>17. Links' = Links
  <2>1. PICK sl, sl2 : sl = Slots /\ sl2 = Slots'
    OBVIOUS
  <2>2. \A q \in Roots : sl2[q][1] = sl[q][1]
    BY <1>14, <1>15, <2>1
  <2>3. {sl2[q][1] : q \in Roots} = {sl[q][1] : q \in Roots}
    BY <2>2
  <2>4. Abstract!Reached(sl2, Links) = Abstract!Reached(sl, Links)
    BY <2>3 DEF Abstract!Reached
  <2>5. Abstract!Trimmed(sl2, Links) = Abstract!Trimmed(sl, Links)
    BY <2>4 DEF Abstract!Trimmed
  <2> QED
    BY <1>13, <2>1, <2>5, ShownNow
<1>18. Abstract!Advance(r)
  BY <1>8, <1>15, <1>16, <1>17 DEF Abstract!Advance
<1> QED
  BY <1>13, <1>18 DEF Seen, Abstract!Next

\* A name that is given to an object is a tag that no object has.
LEMMA NewTagIs ==
  ASSUME HeapInvariant, Identity, NewTag # Null
  PROVE  NewTag \in Tags /\ NewTag \notin Names(mem, Reachable)
<1>1. NewTag \in FreeTags
  <2>1. FreeTags \subseteq Nat /\ FreeTags # {}
    BY TagsApart DEF FreeTags, NewTag
  <2>2. \E n \in FreeTags : \A k \in FreeTags : n <= k
    BY <2>1, Least
  <2>3. Min(FreeTags) \in FreeTags
    BY <2>2 DEF Min
  <2> QED
    BY <2>1, <2>3 DEF NewTag
<1>2. Row(mem, Reachable) /\ Identified(mem, Reachable)
  BY ShownNow DEF Shows
<1>3. ASSUME NEW h \in Reachable, HasTag(mem, h) PROVE Tagged(h) /\ TagAt(h) = NameOf(mem, h)
  <2>1. /\ mem \in [Words -> Int] /\ h \in Nat /\ h \in Words /\ h + 2 \in Words /\ mem[h] \in Nat
        /\ h + HeaderSize + mem[h] <= End /\ 2 <= mem[h]
    BY <1>2, <1>3 DEF Row, Identified
  <2>2. Tagged(h)
    BY <1>3, <2>1 DEF Tagged, HasTag, DescriptorAt, Word
  <2>3. PICK a \in Nat : a = h + HeaderSize + 1 /\ a = Payload(h) + 1
    BY <2>1 DEF HeaderSize, Payload
  <2>4. a \in Words
    <3>1. Base <= a /\ a < End
      BY <2>1, <2>3, WordsAreNat DEF HeaderSize
    <3> QED
      BY <3>1, WordsAreNat
  <2> QED
    BY <1>3, <2>1, <2>2, <2>3, <2>4 DEF TagAt, NameOf, Word
<1>4. ASSUME NewTag \in Names(mem, Reachable) PROVE FALSE
  <2>1. PICK h \in Reachable : HasTag(mem, h) /\ NewTag = NameOf(mem, h)
    BY <1>4 DEF Names
  <2>2. Tagged(h) /\ TagAt(h) = NewTag
    BY <1>3, <2>1
  <2> QED
    BY <1>1, <2>2 DEF FreeTags
<1> QED
  BY <1>1, <1>4 DEF FreeTags

\* The words of an object that is served: its size, its descriptor and its tag.
LEMMA ServedWords ==
  ASSUME NEW m \in [Words -> Int], NEW raw \in Nat, NEW shape \in Shapes, NEW size \in Nat, NEW tag \in Int,
         shape[2] <= size, NEW m2, m2 = Written(m, raw, shape, size, tag),
         Base <= raw, raw + HeaderSize + size <= End
  PROVE  /\ m2[raw] = size
         /\ m2[raw + 2] = shape[1]
         /\ shape[2] # 0 => 2 <= size /\ m2[raw + HeaderSize + 1] = tag
<1>1. shape[2] \in Nat /\ shape[2] % 2 = 0
  BY AllocAssumption DEF AllocAssumption
<1>2. PICK b \in Nat, d \in Nat : b = raw + 2 /\ d = raw + HeaderSize + 1 /\ d = Payload(raw) + 1
  BY DEF HeaderSize, Payload
<1>3. raw \in Words /\ b \in Words
  BY <1>2, WordsAreNat DEF HeaderSize
<1>4. raw # b /\ raw # d /\ b # d
  BY <1>2 DEF HeaderSize
<1>5. PICK new : new = Header(m, raw, shape, size)
  OBVIOUS
<1>6. new[raw] = size /\ new[b] = shape[1] /\ DOMAIN new = Words
  BY <1>2, <1>3, <1>4, <1>5 DEF Header
<1>7. m2 = IF shape[2] = 0 THEN new ELSE [new EXCEPT ![d] = tag]
  BY <1>2, <1>5 DEF Written
<1>8. m2[raw] = size /\ m2[b] = shape[1]
  BY <1>3, <1>4, <1>6, <1>7
<1>9. ASSUME shape[2] # 0 PROVE 2 <= size /\ m2[d] = tag
  <2>1. 2 <= size
    BY <1>1, <1>9
  <2>2. d \in Words
    BY <1>2, <2>1, WordsAreNat DEF HeaderSize
  <2> QED
    BY <1>6, <1>7, <1>9, <2>1, <2>2
<1> QED
  BY <1>2, <1>8, <1>9

\* Absorbing a tail makes no payload longer than the longest.
LEMMA AbsorbShort ==
  ASSUME Distinguishable, NEW raw \in Nat, NEW shape \in Shapes, NEW buffer \in Nat \X Nat,
         NEW fit, fit = Absorb(buffer, shape, raw)
  PROVE  fit[1] <= Longest
<1>1. shape[2] \in Nat /\ Longest \in Nat /\ shape[2] + HeaderSize - 1 <= Longest
  BY AllocAssumption, LongestIs DEF AllocAssumption
<1>2. buffer[1] \in Nat /\ buffer[2] \in Nat
  OBVIOUS
<1>3. CASE buffer[2] - buffer[1] \in 1 .. HeaderSize - 1
  <2>1. fit[1] = shape[2] + (buffer[2] - buffer[1]) \/ fit[1] = shape[2]
    BY DEF Absorb
  <2> QED
    BY <1>1, <1>2, <1>3, <2>1 DEF HeaderSize
<1>4. CASE ~(buffer[2] - buffer[1] \in 1 .. HeaderSize - 1)
  <2>1. fit[1] = shape[2]
    BY <1>4 DEF Absorb
  <2> QED
    BY <1>1, <2>1 DEF HeaderSize
<1> QED
  BY <1>3, <1>4

\* What can be reached is an object too once t's gap has been filled and its buffer dropped.
LEMMA DroppedObjects ==
  ASSUME NEW S, NEW t \in Mutators, NEW bs, NEW b2, b2 = [bs EXCEPT ![t] = NoTlab],
         bs \in [Mutators -> Nat \X Nat]
  PROVE  ObjectsOf(bs, S) \subseteq ObjectsOf(b2, S)
<1>1. ~OpenIn(b2, t)
  BY DEF OpenIn, NoTlab, Null
<1>2. \A u \in Mutators : u # t => b2[u] = bs[u]
  OBVIOUS
<1>3. Fillers(b2) \subseteq Fillers(bs)
  BY <1>1, <1>2 DEF Fillers, OpenIn
<1> QED
  BY <1>3 DEF ObjectsOf

\* An allocation that is served: the root refers to an object of a new name.
LEMMA ServedSeen ==
  ASSUME HeapInvariant, HeapInvariant', Identity, Distinguishable, NewTag # Null,
         NEW S, Sound(mem, top, tlab, attached, S), Rooted(mem, ObjectsOf(tlab, S), root, offset),
         NEW t \in Mutators, NEW r \in Roots, NEW shape \in Shapes, Served(S, t, r, shape)
  PROVE  Seen
<1>1. PICK m, bs, raw, buffer :
        /\ \/ m = mem /\ bs = tlab
           \/ m = Filled(mem, tlab[t]) /\ bs = [tlab EXCEPT ![t] = NoTlab]
        /\ Sound(m, top, bs, attached, S)
        /\ raw \in Nat /\ raw \notin ObjectsOf(bs, S) /\ buffer \in Nat \X Nat
        /\ Serve(t, r, shape, m, raw, buffer)
        /\ ServedIn(m, ObjectsOf(bs, S), raw, mem', top', tlab', attached)
  BY DEF Served
<1>2. PICK L, H, nx, rt, off :
        L = ObjectsOf(bs, S) /\ H = Reachable /\ nx = Links /\ rt = root /\ off = offset
  OBVIOUS
<1>3. H \subseteq ObjectsOf(tlab, S)
  BY <1>2, ReachableAreObjects
<1>4. H \subseteq L
  <2>1. CASE bs = tlab
    BY <1>2, <1>3, <2>1
  <2>2. CASE bs = [tlab EXCEPT ![t] = NoTlab]
    <3>1. tlab \in [Mutators -> Nat \X Nat]
      BY DEF Sound, Gaps
    <3>2. ObjectsOf(tlab, S) \subseteq ObjectsOf(bs, S)
      BY <2>2, <3>1, DroppedObjects
    <3> QED
      BY <1>2, <1>3, <3>2
  <2> QED
    BY <1>1, <2>1, <2>2
<1>5. Shows(mem, rt, off, H, nx) /\ SlotsOf(mem, rt, off) = Slots
  BY <1>2, ShownNow
<1>6. /\ Shows(m, rt, off, H, nx) /\ SlotsOf(m, rt, off) = Slots
      /\ Names(m, H) = Names(mem, H)
  <2>1. CASE m = mem
    BY <1>5, <2>1
  <2>2. CASE m = Filled(mem, tlab[t])
    <3>1. /\ Shows(m, rt, off, H, nx) /\ SlotsOf(m, rt, off) = SlotsOf(mem, rt, off)
          /\ Names(m, H) = Names(mem, H)
      BY <1>3, <1>5, <2>2, FilledShows
    <3> QED
      BY <1>5, <3>1
  <2> QED
    BY <1>1, <2>1, <2>2
<1>7. PICK fit : fit = Absorb(buffer, shape, raw)
  OBVIOUS
<1>8. PICK m2 : m2 = mem'
  OBVIOUS
<1>9. /\ m2 = Written(m, raw, shape, fit[1], NewTag)
      /\ root' = [root EXCEPT ![r] = Payload(raw)] /\ offset' = [offset EXCEPT ![r] = 0]
  BY <1>1, <1>7, <1>8, ServeIs
<1>10. shape[2] \in Nat /\ fit[1] \in Nat /\ shape[2] <= fit[1]
  BY <1>1, <1>7, AbsorbIs
<1>11. PICK size \in Nat : size = fit[1]
  BY <1>10
<1>12. size <= Longest
  BY <1>1, <1>7, <1>11, AbsorbShort
<1>13. PICK end2, bs2 : end2 = top' /\ bs2 = tlab'
  OBVIOUS
<1>14. ServedIn(m, L, raw, m2, end2, bs2, attached)
  BY <1>1, <1>2, <1>8, <1>13
<1>15. m \in [Words -> Int] /\ NewTag \in Int
  BY <1>1, TagIs DEF Sound
<1>16. raw \in Words /\ m2[raw] \in Nat /\ raw + HeaderSize + m2[raw] <= End
  <2>1. PICK S2 : Sound(m2, end2, bs2, attached, S2) /\ ObjectsOf(bs2, S2) = L \cup {raw}
    BY <1>14 DEF ServedIn
  <2>2. Row(m2, L \cup {raw})
    BY <2>1, SoundRow
  <2> QED
    BY <2>2 DEF Row
<1>17. m2[raw] = size
  <2>1. PICK new : new = Header(m, raw, shape, size)
    OBVIOUS
  <2>2. new[raw] = size
    BY <1>15, <1>16, <2>1 DEF Header
  <2>3. PICK d : d = Payload(raw) + 1 /\ d # raw
    BY <1>1 DEF Payload, HeaderSize
  <2>4. m2 = IF shape[2] = 0 THEN new ELSE [new EXCEPT ![d] = NewTag]
    BY <1>9, <1>11, <2>1, <2>3 DEF Written
  <2>5. raw \in DOMAIN new
    BY <1>15, <1>16, <2>1 DEF Header
  <2> QED
    BY <2>2, <2>3, <2>4, <2>5
<1>18. Base <= raw /\ raw + HeaderSize + size <= End
  BY <1>16, <1>17, WordsAreNat
<1>19. m2 = Written(m, raw, shape, size, NewTag) /\ shape[2] <= size
  BY <1>9, <1>10, <1>11
<1>20. PICK rest \in Nat : rest = raw + HeaderSize + size
  BY <1>1, <1>11 DEF HeaderSize
<1>21. Clean(m, m2, raw, rest)
  BY <1>1, <1>15, <1>18, <1>19, <1>20, WrittenIs
<1>22. m2[raw + 2] = shape[1] /\ (shape[2] # 0 => 2 <= size /\ m2[raw + HeaderSize + 1] = NewTag)
  BY <1>1, <1>15, <1>18, <1>19, ServedWords
<1>23. NewTag \in Tags /\ NewTag \notin Names(m, H)
  BY <1>2, <1>6, NewTagIs
<1>24. HasTag(m2, raw) => /\ 2 <= m2[raw] /\ m2[raw + HeaderSize + 1] = NewTag
                          /\ m2[raw + HeaderSize + 1] \in Tags
                          /\ m2[raw + HeaderSize + 1] \notin Names(m, H)
  BY <1>17, <1>22, <1>23 DEF HasTag, Distinguishable
<1>25. m2[raw] <= Longest /\ raw \notin L /\ raw \in Nat
  BY <1>1, <1>2, <1>12, <1>17
<1>26. PICK T : T = H \cup {raw}
  OBVIOUS
<1>27. Shows(m2, rt, off, H \cup {raw}, nx) /\ SlotsOf(m2, rt, off) = SlotsOf(m, rt, off)
  BY <1>4, <1>6, <1>14, <1>21, <1>24, <1>25, ServedShows
<1>28. Shows(m2, rt, off, T, nx) /\ SlotsOf(m2, rt, off) = Slots
  BY <1>6, <1>26, <1>27
<1>29. PICK v \in Nat, o \in Nat : v = Payload(raw) /\ o = 0
  BY <1>1 DEF Payload, HeaderSize
<1>30. v # Null /\ v - o = v /\ v - HeaderSize = raw
  BY <1>1, <1>29 DEF Payload, HeaderSize, Null
<1>31. Setting(T, r, v, o)
  <2>1. Shows(mem', root, offset, T, Links) /\ SlotsOf(mem', root, offset) = Slots
    BY <1>2, <1>8, <1>28
  <2>2. root' = [root EXCEPT ![r] = v] /\ offset' = [offset EXCEPT ![r] = o]
    BY <1>9, <1>29
  <2>3. RefersInto(v, o, T)
    BY <1>26, <1>30 DEF RefersInto
  <2> QED
    BY <1>29, <2>1, <2>2, <2>3 DEF Setting
<1>32. /\ Identity' /\ Links' = Abstract!Trimmed(Slots', Links)
       /\ Slots' = [Slots EXCEPT ![r] = <<NameAt(mem', v - o), o>>]
  BY <1>31, SetStep
<1>33. PICK name : name = NameOf(m2, raw)
  OBVIOUS
<1>34. NameAt(mem', v - o) = name
  <2>1. NameAt(m2, v) = NameOf(m2, raw)
    BY <1>1, <1>29, <1>30, NameAtIs
  <2> QED
    BY <1>8, <1>30, <1>33, <2>1
<1>35. name = NewTag \/ name = Base
  BY <1>24, <1>33 DEF NameOf
<1>36. name \notin Abstract!Reached(Slots, Links)
  <2>1. Identified(m, H) /\ Names(m, H) \subseteq Tags
    BY <1>6 DEF Shows, Identified, Names, NameOf
  <2>2. name \notin Names(m, H)
    BY <1>23, <1>35, <2>1, TagsApart
  <2>3. Abstract!Reached(Slots, Links) = Names(mem, Reachable)
    BY ShownNow
  <2> QED
    BY <1>2, <1>6, <2>2, <2>3
<1>37. name \in Tags \cup {Base, Abstract!Nobody}
  BY <1>23, <1>35
<1>38. Slots' = [Slots EXCEPT ![r] = <<name, 0>>]
  BY <1>29, <1>32, <1>34
<1>39. Abstract!Alloc(r)
  BY <1>32, <1>36, <1>37, <1>38 DEF Abstract!Alloc
<1> QED
  BY <1>32, <1>39 DEF Seen, Abstract!Next

\* The allocations, whether they are served or not.
LEMMA FastSeen ==
  ASSUME HeapInvariant, HeapInvariant', Identity, Distinguishable,
         NEW t \in Mutators, NEW r \in Roots, NEW shape \in Shapes, AllocFast(t, r, shape)
  PROVE  Seen
<1>1. PICK S : Sound(mem, top, tlab, attached, S) /\ Rooted(mem, ObjectsOf(tlab, S), root, offset)
  BY DEF HeapInvariant, Intact
<1>2. Served(S, t, r, shape)
  BY <1>1, FastServed
<1>3. NewTag # Null
  BY DEF AllocFast
<1> QED
  BY <1>1, <1>2, <1>3, ServedSeen

LEMMA SlowServeSeen ==
  ASSUME HeapInvariant, HeapInvariant', Identity, Distinguishable, NewTag # Null, attached' = attached,
         NEW t \in Mutators, t \in attached, NEW r \in Roots, NEW shape \in Shapes, SlowServe(t, r, shape)
  PROVE  Seen
<1>1. PICK S : Sound(mem, top, tlab, attached, S) /\ Rooted(mem, ObjectsOf(tlab, S), root, offset)
  BY DEF HeapInvariant, Intact
<1>2. Served(S, t, r, shape)
  BY <1>1, SlowServed
<1> QED
  BY <1>1, <1>2, ServedSeen

LEMMA QuietSeen ==
  ASSUME HeapInvariant, HeapInvariant', Identity, NEW t \in Mutators,
         mem' = mem \/ mem' = Filled(mem, tlab[t]), UNCHANGED <<root, offset>>
  PROVE  Seen
BY QuietStep DEF Seen

LEMMA SlowSeen ==
  ASSUME HeapInvariant, HeapInvariant', Identity, Distinguishable,
         NEW t \in Mutators, NEW r \in Roots, NEW shape \in Shapes, AllocSlow(t, r, shape)
  PROVE  Seen
<1>1. t \in attached /\ NewTag # Null
  BY DEF AllocSlow
<1>2. CASE SlowServe(t, r, shape) /\ attached' = attached
  BY <1>1, <1>2, SlowServeSeen
<1>3. CASE Exhausted(t, shape) /\ UNCHANGED <<root, offset>>
  <2>1. mem' = mem \/ mem' = Filled(mem, tlab[t])
    BY <1>3 DEF Exhausted
  <2> QED
    BY <1>3, <2>1, QuietSeen
<1> QED
  BY <1>2, <1>3 DEF AllocSlow

LEMMA RetrySeen ==
  ASSUME HeapInvariant, HeapInvariant', Identity, Distinguishable, NEW t \in Mutators, AllocRetry(t)
  PROVE  Seen
<1>1. req[t] # NoReq /\ attached' = attached
  BY DEF AllocRetry
<1>2. t \in attached /\ req[t][1] \in Roots /\ req[t][2] \in Shapes
  BY <1>1, RequestIs DEF HeapInvariant
<1>3. PICK r \in Roots, shape \in Shapes : r = req[t][1] /\ shape = req[t][2]
  BY <1>2
<1>4. CASE NewTag # Null /\ SlowServe(t, r, shape)
  BY <1>1, <1>2, <1>4, SlowServeSeen
<1>5. CASE /\ Exhausted(t, shape)
           /\ root' = [root EXCEPT ![r] = Null] /\ offset' = [offset EXCEPT ![r] = 0]
  <2>1. mem' = mem \/ mem' = Filled(mem, tlab[t])
    BY <1>5 DEF Exhausted
  <2>2. PICK T : T = Reachable
    OBVIOUS
  <2>3. Shows(mem', root, offset, T, Links) /\ SlotsOf(mem', root, offset) = Slots
    BY <2>1, <2>2, FilledUnseen
  <2>4. PICK v \in Nat, o \in Nat : v = Null /\ o = 0
    BY DEF Null
  <2>5. Setting(T, r, v, o)
    BY <1>3, <1>5, <2>3, <2>4 DEF Setting, RefersInto
  <2>6. /\ Identity' /\ Links' = Abstract!Trimmed(Slots', Links)
        /\ Slots' = [Slots EXCEPT ![r] = <<NameAt(mem', v - o), o>>]
    BY <2>5, SetStep
  <2>7. NameAt(mem', v - o) = Abstract!Nobody
    BY <2>4 DEF Null, NameAt, Abstract!Nobody
  <2>8. Abstract!Drop(r)
    BY <2>4, <2>6, <2>7 DEF Abstract!Drop
  <2> QED
    BY <1>3, <2>6, <2>8 DEF Seen, Abstract!Next
<1> QED
  BY <1>3, <1>4, <1>5 DEF AllocRetry

\* The objects that have arrived mirror those that were reached.
LEMMA CopiesMirror ==
  ASSUME NEW m, NEW end, NEW bs, NEW ts, NEW S, Sound(m, end, bs, ts, S),
         NEW F, F = FillOf(m, bs, ts),
         NEW K, K \subseteq ObjectsOf(bs, S), Row(m, K), Identified(m, K),
         NEW to, NEW nt, Packs(F, end, K, to, nt), Forwards(m, F, S, to),
         NEW u, Updates(F, S, K, to, u),
         NEW w, Arrived(F, K, to, u, w),
         NEW m2, m2 = Released(w, nt)
  PROVE  /\ Mirrors(m, K, to, m2)
         /\ \A g \in K : \A i \in Nat : i <= m[g] =>
              ForwardedSlot(F, S, to, g + HeaderSize + i) = Referring(to, g + HeaderSize + i, i)
<1>1. /\ m \in [Words -> Int] /\ F \in [Words -> Int] /\ end \in Base .. End
      /\ \A h \in ObjectsOf(bs, S) :
           /\ h \in S /\ h \in Nat /\ m[h] \in Nat /\ F[h] = m[h] /\ F[h + 2] = m[h + 2]
           /\ \A a \in h .. Past(F, h) - 1 : a \in Words /\ F[a] = m[a]
  BY SoundFacts
<1>2. \A h \in K : /\ h \in Nat /\ m[h] \in Nat /\ F[h] = m[h] /\ F[h] \in Nat
                   /\ F[h + 2] = m[h + 2] /\ h \in Words /\ h + 2 \in Words
                   /\ Past(F, h) = h + HeaderSize + m[h]
  BY <1>1 DEF Row, Past
<1>3. /\ u \in [Words -> Int]
      /\ \A h \in K : /\ u[h] = F[h] /\ u[h + 2] = F[h + 2]
                      /\ \A f \in Fields(F, h) : u[f] = ForwardedSlot(F, S, to, F[f])
                      /\ \A a \in h .. Past(F, h) - 1 : a # h + 1 /\ a \notin Fields(F, h) => u[a] = F[a]
  BY DEF Updates
<1>4. /\ DOMAIN to = K
      /\ \A h \in K : to[h] \in Nat
      /\ \A g, h \in K : g < h => to[g] + HeaderSize + m[g] <= to[h]
  BY <1>2 DEF Packs
<1>5. /\ m2 \in [Words -> Int]
      /\ \A h \in K : /\ to[h] \in Nat /\ to[h] \in Words /\ to[h] + 2 \in Words
                      /\ to[h] + HeaderSize + F[h] <= End
                      /\ \A i \in Nat : i < HeaderSize + F[h] =>
                           to[h] + i \in Words /\ m2[to[h] + i] = IF i = 1 THEN 0 ELSE u[h + i]
  <2>1. Landed(F, K, to, u, m2)
    BY <1>1, <1>2, <1>3, CopiedWords
  <2> QED
    BY <2>1 DEF Landed
<1>6. /\ ForwardedSlot(F, S, to, Null) = Null
      /\ \A h \in K, i \in Nat : i <= m[h] =>
           ForwardedSlot(F, S, to, h + HeaderSize + i) = to[h] + HeaderSize + i
  BY <1>4 DEF Forwards
<1>7. ASSUME NEW g \in K, NEW i \in Nat, i <= m[g]
      PROVE  ForwardedSlot(F, S, to, g + HeaderSize + i) = Referring(to, g + HeaderSize + i, i)
  <2>1. g \in Nat /\ to[g] \in Nat
    BY <1>2, <1>4
  <2>2. PICK v \in Nat : v = g + HeaderSize + i
    BY <2>1 DEF HeaderSize
  <2>3. v # Null /\ v - i - HeaderSize = g
    BY <2>1, <2>2 DEF Null, HeaderSize
  <2>4. Referring(to, v, i) = to[g] + HeaderSize + i
    BY <2>3 DEF Referring
  <2>5. ForwardedSlot(F, S, to, g + HeaderSize + i) = to[g] + HeaderSize + i
    BY <1>6, <1>7
  <2> QED
    BY <2>2, <2>4, <2>5
<1>8. ASSUME NEW h \in K PROVE Fields(F, h) = Fields(m, h)
  BY <1>1, <1>2, SameFields
<1>9. ASSUME NEW h \in K PROVE m2[to[h]] = m[h] /\ m2[to[h] + 2] = m[h + 2]
  <2>1. 0 < HeaderSize + F[h] /\ 2 < HeaderSize + F[h] /\ to[h] + 0 = to[h] /\ h + 0 = h
    BY <1>2, <1>5 DEF HeaderSize
  <2>2. m2[to[h] + 0] = u[h + 0] /\ m2[to[h] + 2] = u[h + 2]
    BY <1>5, <2>1
  <2> QED
    BY <1>2, <1>3, <2>1, <2>2
<1>10. ASSUME NEW h \in K, HasTag(m, h)
       PROVE  m2[to[h] + HeaderSize + 1] = m[h + HeaderSize + 1]
  <2>1. 2 <= m[h]
    BY <1>10 DEF Identified
  <2>2. PICK i \in Nat : i = HeaderSize + 1
    BY DEF HeaderSize
  <2>3. PICK a \in Nat : a = h + i
    BY <1>2, <2>2
  <2>4. /\ a = h + HeaderSize + 1 /\ to[h] + i = to[h] + HeaderSize + 1
        /\ i < HeaderSize + F[h] /\ i # 1 /\ a # h + 1
    BY <1>2, <1>5, <2>1, <2>2, <2>3 DEF HeaderSize
  <2>5. a \in h .. Past(F, h) - 1
    BY <1>2, <2>1, <2>4 DEF HeaderSize
  <2>6. a \notin Fields(F, h)
    BY <1>8, <2>4, FieldPlaces
  <2>7. u[a] = F[a] /\ F[a] = m[a]
    BY <1>1, <1>3, <2>4, <2>5, <2>6
  <2>8. m2[to[h] + i] = u[a]
    BY <1>5, <2>3, <2>4
  <2> QED
    BY <2>4, <2>7, <2>8
<1>11. ASSUME NEW h \in K, NEW i \in Nat, h + i \in Fields(m, h)
       PROVE  m2[to[h] + i] = Referring(to, m[h + i], 0)
  <2>1. PICK f \in Fields(m, h) : f = h + i
    BY <1>11
  <2>2. /\ f \in Nat /\ f \in Words /\ h + HeaderSize <= f /\ f < h + HeaderSize + m[h]
        /\ m[f] = Null \/ m[f] - HeaderSize \in K
    BY FieldPlaces DEF Row
  <2>3. i < HeaderSize + F[h] /\ i # 1 /\ f \in h .. Past(F, h) - 1
    BY <1>2, <2>1, <2>2 DEF HeaderSize
  <2>4. F[f] = m[f]
    BY <1>1, <2>3
  <2>5. m2[to[h] + i] = u[f]
    BY <1>5, <2>1, <2>3
  <2>6. m2[to[h] + i] = ForwardedSlot(F, S, to, m[f])
    BY <1>3, <1>8, <2>4, <2>5
  <2>7. CASE m[f] = Null
    BY <1>6, <2>1, <2>6, <2>7 DEF Referring
  <2>8. CASE m[f] # Null
    <3>1. PICK g \in K : g = m[f] - HeaderSize
      BY <2>2, <2>8
    <3>2. g \in Nat /\ m[g] \in Nat /\ 0 <= m[g] /\ m[f] \in Int
      BY <1>1, <1>2, <2>2
    <3>3. m[f] = g + HeaderSize + 0
      BY <3>1, <3>2 DEF HeaderSize
    <3>4. ForwardedSlot(F, S, to, g + HeaderSize + 0) = Referring(to, g + HeaderSize + 0, 0)
      BY <1>7, <3>2
    <3> QED
      BY <2>1, <2>6, <3>3, <3>4
  <2> QED
    BY <2>7, <2>8
<1>12. ASSUME NEW g \in K, NEW h \in K, g < h PROVE to[g] < to[h]
  BY <1>2, <1>4, <1>12 DEF HeaderSize
<1>13. ASSUME NEW g \in K, NEW h \in K, to[g] < to[h] PROVE to[g] + HeaderSize + m[g] <= to[h]
  <2>1. g < h \/ h < g \/ g = h
    BY <1>2
  <2>2. g < h
    BY <1>4, <1>12, <1>13, <2>1
  <2> QED
    BY <1>4, <2>2
<1>14. ASSUME NEW g \in K, NEW h \in K, to[g] = to[h] PROVE g = h
  <2>1. g < h \/ h < g \/ g = h
    BY <1>2
  <2> QED
    BY <1>4, <1>12, <1>14, <2>1
<1>15. Mirrors(m, K, to, m2)
  <2>1. \A h \in K : to[h] + HeaderSize + m[h] <= End
    BY <1>2, <1>5
  <2> QED
    BY <1>5, <1>9, <1>10, <1>11, <1>13, <1>14, <2>1 DEF Mirrors
<1> QED
  BY <1>7, <1>15

\* A collection shows nothing.
LEMMA CollectSeen ==
  ASSUME HeapInvariant, HeapInvariant', Identity, NEW t \in Mutators, Collect(t)
  PROVE  Seen
<1>1. PICK S : Sound(mem, top, tlab, attached, S) /\ Rooted(mem, ObjectsOf(tlab, S), root, offset)
  BY DEF HeapInvariant, Intact
<1>2. PICK F : F = FillOf(mem, tlab, attached)
  OBVIOUS
<1>3. F \in [Words -> Int] /\ top \in Base .. End /\ Layout(F, top, S)
  BY <1>1, <1>2, SoundFacts
<1>4. F = AllFilled /\ Headers(F, top) = S /\ Index(F, top) = S
  BY <1>2, <1>3, AllFilledIs, HeadersAre, IndexIs
<1>5. PICK K : K = Marked(F, S, {root[r] : r \in Roots} \ {Null})
  OBVIOUS
<1>6. PICK to : to = Forwarding(F, S, K)
  OBVIOUS
<1>7. PICK u : u = Updated(F, S, S, to)
  OBVIOUS
<1>8. PICK nt, w : nt = NewTop(F, to) /\ w = Moved(u, to)
  OBVIOUS
<1>9. PICK m2, rt2 : m2 = Released(w, nt) /\ rt2 = [r \in Roots |-> ForwardedSlot(F, S, to, root[r])]
  OBVIOUS
<1>10. mem' = m2 /\ root' = rt2 /\ offset' = offset
  BY <1>4, <1>5, <1>6, <1>7, <1>8, <1>9 DEF Collect, RootValues
<1>11. K = Reachable /\ K \subseteq ObjectsOf(tlab, S) /\ K \in SUBSET S
  BY <1>1, <1>2, <1>5, MarkedIsReachable DEF ObjectsOf
<1>12. Packs(F, top, K, to, nt)
  BY <1>3, <1>6, <1>8, <1>11, ForwardingPacks
<1>13. DOMAIN to = K /\ \A h \in K : to[h] \in Nat
  BY <1>12 DEF Packs
<1>14. Forwards(mem, F, S, to)
  BY <1>1, <1>2, <1>11, <1>13, ForwardedIs
<1>15. Updates(F, S, K, to, u)
  BY <1>1, <1>2, <1>5, <1>7, <1>13, UpdatedIs
<1>16. Arrived(F, K, to, u, w)
  <2>1. u \in [Words -> Int] /\ \A h \in K : u[h] = F[h]
    BY <1>15 DEF Updates
  <2> QED
    BY <1>3, <1>6, <1>8, <1>11, <2>1, MovedWhole
<1>17. PICK m, rt, off, nx : m = mem /\ rt = root /\ off = offset /\ nx = Links
  OBVIOUS
<1>18. Shows(m, rt, off, K, nx) /\ Slots = SlotsOf(m, rt, off)
  BY <1>11, <1>17, ShownNow
<1>19. Row(m, K) /\ Identified(m, K) /\ RootsIn(rt, off, K)
  BY <1>18 DEF Shows
<1>20. /\ Mirrors(m, K, to, m2)
       /\ \A g \in K : \A i \in Nat : i <= m[g] =>
            ForwardedSlot(F, S, to, g + HeaderSize + i) = Referring(to, g + HeaderSize + i, i)
  BY <1>1, <1>2, <1>9, <1>11, <1>12, <1>14, <1>15, <1>16, <1>17, <1>19, CopiesMirror
<1>21. ASSUME NEW r \in Roots PROVE ForwardedSlot(F, S, to, rt[r]) = Referring(to, rt[r], off[r])
  <2>1. rt[r] \in Nat /\ off[r] \in Nat
    BY <1>19 DEF RootsIn
  <2>2. CASE rt[r] = Null
    BY <1>14, <2>2 DEF Forwards, Referring
  <2>3. CASE rt[r] # Null
    <3>1. PICK g \in K : g = rt[r] - off[r] - HeaderSize
      BY <1>19, <2>3 DEF RootsIn
    <3>2. off[r] <= m[g] /\ g \in Nat
      BY <1>1, <1>17, <1>19, <2>3, <3>1 DEF Rooted, Row
    <3>3. rt[r] = g + HeaderSize + off[r]
      BY <2>1, <3>1, <3>2 DEF HeaderSize
    <3> QED
      BY <1>20, <2>1, <3>2, <3>3
  <2> QED
    BY <2>2, <2>3
<1>22. rt2 = [r \in Roots |-> Referring(to, rt[r], off[r])]
  BY <1>9, <1>17, <1>21
<1>23. PICK T : T = {to[h] : h \in K}
  OBVIOUS
<1>24. Shows(m2, rt2, off, T, nx) /\ SlotsOf(m2, rt2, off) = SlotsOf(m, rt, off)
  <2>1. Shows(m, rt, off, K, nx) /\ Mirrors(m, K, to, m2)
    BY <1>18, <1>20
  <2>2. Shows(m2, rt2, off, T, nx)
    BY <1>22, <1>23, <2>1, MirrorShows
  <2>3. SlotsOf(m2, rt2, off) = SlotsOf(m, rt, off)
    BY <1>22, <1>23, <2>1, MirrorShows
  <2> QED
    BY <2>2, <2>3
<1>25. Shows(mem', root', offset', T, Links) /\ SlotsOf(mem', root', offset') = SlotsOf(mem, root, offset)
  BY <1>10, <1>17, <1>24
<1>26. Identity' /\ UNCHANGED <<Slots, Links>>
  BY <1>25, Unseen
<1> QED
  BY <1>26 DEF Seen

\* Every step of the heap is seen as a step of the store, or not at all.
LEMMA SeenStep ==
  ASSUME HeapInvariant, HeapInvariant', Identity, Distinguishable, [HeapNext]_heapVars
  PROVE  Seen
<1>1. CASE UNCHANGED heapVars
  <2>1. PICK m, rt, off : m = mem /\ rt = root /\ off = offset
    OBVIOUS
  <2>2. mem' = m /\ root' = rt /\ offset' = off
    BY <1>1, <2>1 DEF heapVars
  <2>3. Reachable' = Reachable /\ Slots' = Slots
    BY <2>1, <2>2, SameDefinitions
  <2>4. Links' = Links
    BY <2>1, <2>2, <2>3, SameDefinitions
  <2>5. Identity'
    BY <2>1, <2>2, <2>3 DEF Identity, Identified, HasTag, NameOf
  <2> QED
    BY <2>3, <2>4, <2>5 DEF Seen
<1>2. ASSUME NEW t \in Mutators, NEW r \in Roots, NEW s \in Shapes,
             AllocFast(t, r, s) \/ AllocSlow(t, r, s)
      PROVE  Seen
  BY <1>2, FastSeen, SlowSeen
<1>3. ASSUME NEW t \in Mutators, AttachThread(t) \/ DetachThread(t) \/ LoseRace(t)
      PROVE  Seen
  <2>1. (mem' = mem \/ mem' = Filled(mem, tlab[t])) /\ UNCHANGED <<root, offset>>
    BY <1>3 DEF AttachThread, DetachThread, LoseRace
  <2> QED
    BY <2>1, QuietSeen
<1>4. ASSUME NEW t \in Mutators, AllocRetry(t) \/ Collect(t)
      PROVE  Seen
  BY <1>4, RetrySeen, CollectSeen
<1>5. ASSUME NEW r \in Roots, Drop(r) \/ Advance(r)
      PROVE  Seen
  BY <1>5, DropSeen, AdvanceSeen
<1>6. ASSUME NEW r \in Roots, NEW s \in Roots, Store(r, s) \/ Load(r, s)
      PROVE  Seen
  BY <1>6, StoreSeen, LoadSeen
<1> QED
  BY <1>1, <1>2, <1>3, <1>4, <1>5, <1>6 DEF HeapNext

\* A fresh heap is seen as an empty store.
LEMMA SeenInit ==
  ASSUME HeapInit
  PROVE  Identity /\ Abstract!Init
<1>1. HeapInvariant
  BY StartsIntact
<1>2. /\ root = [r \in Roots |-> Null] /\ offset = [r \in Roots |-> 0] /\ mem = [a \in Words |-> 0]
  BY DEF HeapInit
<1>3. PICK nx : nx = [o \in Tags |-> Null]
  OBVIOUS
<1>4. Shows(mem, root, offset, {}, nx)
  BY <1>2, <1>3 DEF Shows, Row, Identified, RootsIn, Sees, Null
<1>5. PICK sl : sl = SlotsOf(mem, root, offset)
  OBVIOUS
<1>6. PICK H : H = ReachIn(mem, root, offset)
  OBVIOUS
<1>7. /\ Refines(mem, root, offset, H, sl, Abstract!Trimmed(sl, nx)) /\ H \subseteq {}
  BY <1>1, <1>4, <1>5, <1>6, Shown DEF HeapInvariant
<1>8. H = {}
  BY <1>7
<1>9. Identity
  BY <1>2, <1>6, <1>8, SameDefinitions DEF Identity, Identified
<1>10. Slots = sl /\ Links = Abstract!Trimmed(sl, nx)
  BY <1>6, <1>7, SameDefinitions DEF Refines
<1>11. sl = [r \in Roots |-> <<Abstract!Nobody, 0>>]
  <2>1. \A r \in Roots : root[r] - offset[r] = Null /\ offset[r] = 0
    BY <1>2 DEF Null
  <2>2. \A r \in Roots : NameAt(mem, root[r] - offset[r]) = Abstract!Nobody
    BY <2>1 DEF NameAt, Null, Abstract!Nobody
  <2> QED
    BY <1>5, <2>1, <2>2 DEF SlotsOf
<1>12. Abstract!Trimmed(sl, nx) = [o \in Tags |-> Abstract!Nobody]
  BY <1>3 DEF Abstract!Trimmed, Abstract!Nobody, Null
<1> QED
  BY <1>9, <1>10, <1>11, <1>12 DEF Abstract!Init

\* For every heap and every set of shapes that can be told apart, the collector cannot be
\* observed: what the program sees is a store of objects without addresses.
THEOREM CollectorIsTransparent ==
  ASSUME Distinguishable
  PROVE  HeapSpec => Transparent
<1>1. HeapInit => Identity /\ Abstract!Init
  BY SeenInit
<1>2. HeapInvariant /\ HeapInvariant' /\ Identity /\ [HeapNext]_heapVars =>
        Identity' /\ [Abstract!Next]_<<Slots, Links>>
  BY SeenStep DEF Seen
<1> QED
  BY <1>1, <1>2, HeapStaysSound, PTL DEF HeapSpec, Transparent, Abstract!Spec
=============================================================================
