---------------------------- MODULE ManagedStore ----------------------------
(***************************************************************************)
(* What a Peko program sees of the managed heap: objects without an        *)
(* address, root slots that refer to them, one managed field per object.   *)
(* There is no collector here: an object that no root reaches is gone at   *)
(* once, and an allocation may fail.  PgcHeap implements this module.      *)
(***************************************************************************)
EXTENDS Naturals

CONSTANTS Roots,     \* root slots
          Tags,      \* the identities of objects that carry data
          Empty,     \* what stands for an object without a payload
          MaxOffset  \* how far an element reference may point into an object

Nobody == 0          \* a null reference

VARIABLES slots,     \* root -> <<object, offset>>
          next       \* object -> the object its managed field refers to

Targets == Tags \cup {Empty, Nobody}

\* The objects some root reaches through fields: those in every set that has the
\* objects of the roots and, with each object, the one its field refers to.
Reached(sl, nx) ==
  LET first == {sl[r][1] : r \in Roots} \cap Tags
      closed(c) == first \subseteq c /\ \A o \in c : nx[o] \in Tags => nx[o] \in c
  IN {o \in Tags : \A c \in SUBSET Tags : closed(c) => o \in c}

\* The fields of the objects that are still there.
Trimmed(sl, nx) ==
  LET there == Reached(sl, nx)
  IN [o \in Tags |-> IF o \in there THEN nx[o] ELSE Nobody]

Init == /\ slots = [r \in Roots |-> <<Nobody, 0>>]
        /\ next = [o \in Tags |-> Nobody]

Alloc(r) ==
  \E o \in Tags \cup {Empty, Nobody} :
    /\ slots' = [slots EXCEPT ![r] = <<o, 0>>]
    /\ o \notin Reached(slots, next)
    /\ next' = Trimmed(slots', next)

Store(r, s) ==
  /\ UNCHANGED slots
  /\ slots[r][1] \in Tags /\ slots[r][2] = 0 /\ slots[s][2] = 0
  /\ next' = Trimmed(slots, [next EXCEPT ![slots[r][1]] = slots[s][1]])

Load(r, s) ==
  /\ slots[s][1] \in Tags /\ slots[s][2] = 0
  /\ slots' = [slots EXCEPT ![r] = <<next[slots[s][1]], 0>>]
  /\ next' = Trimmed(slots', next)

Drop(r) ==
  /\ slots' = [slots EXCEPT ![r] = <<Nobody, 0>>]
  /\ next' = Trimmed(slots', next)

Advance(r) ==
  /\ slots[r][1] # Nobody
  /\ \E k \in 1 .. MaxOffset : slots' = [slots EXCEPT ![r] = <<@[1], k>>]
  /\ UNCHANGED next

Next == \E r \in Roots :
          \/ Alloc(r) \/ Drop(r) \/ Advance(r)
          \/ \E s \in Roots : Store(r, s) \/ Load(r, s)

Spec == Init /\ [][Next]_<<slots, next>>
=============================================================================
