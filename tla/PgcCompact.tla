----------------------------- MODULE PgcCompact -----------------------------
(***************************************************************************)
(* The passes of one collection over the words of the managed heap:        *)
(* toolkit/std/c/runtime/heap.c and mark.c.  The heap is a function from   *)
(* word addresses to words, a word being eight bytes, so a header is three *)
(* words and a payload, rounded up to sixteen bytes, an even number.       *)
(*                                                                         *)
(* A word is an integer: a size, a small datum, zero, the address of a     *)
(* payload (Base or more) or, negative, a descriptor.  Base stands far     *)
(* above every size and datum, as addresses do in the program, so that an  *)
(* address read as a size overruns the heap.                               *)
(***************************************************************************)
EXTENDS Integers, Sequences, FiniteSetsExt

CONSTANTS Base,        \* g_gc.heap.base
          HeapWords    \* the size of the region

ASSUME HeapAssumption ==
  /\ Base \in Nat /\ HeapWords \in Nat
  /\ Base > HeapWords

End   == Base + HeapWords
Words == Base .. End - 1

HeaderSize == 3
Null       == 0
Atomic     == -1        \* PGC_ATOMIC_DESCRIPTOR
Closure    == -2        \* a fixed descriptor with no offsets
Cell       == -3        \* a fixed descriptor with the one offset 0
Pairs      == -4        \* an array descriptor: stride of two words, element Cell
Descriptors == {Null, Atomic, Closure, Cell, Pairs}

\* The header words of the object whose header is at h.  Reading past the region
\* is given the value zero: only a walk that has lost its way does.
Word(m, a)       == IF a \in DOMAIN m THEN m[a] ELSE 0
SizeAt(m, h)     == Word(m, h)
DescriptorAt(m, h) == Word(m, h + 2)
Payload(h)       == h + HeaderSize

\* pgc_object_total; a size word that is no size is an overrun.
Total(m, h) == HeaderSize + IF SizeAt(m, h) < 0 THEN HeapWords ELSE SizeAt(m, h)

\* A size of zero is an object without a payload if the descriptor is plausible.
Walkable(m, h) == SizeAt(m, h) # 0 \/ DescriptorAt(m, h) \in Descriptors

\* What can be reached from the nodes of start, next being the neighbours of each.
Reached(start, next) ==
  LET from[seen \in SUBSET DOMAIN next] ==
        LET more == seen \cup UNION {next[x] : x \in seen}
        IN IF more = seen THEN seen ELSE from[more]
  IN from[start]

\* The headers a heap walk visits: from the first, each total leads to the next.
Headers(m, top) ==
  LET walked == {a \in Words : a < top /\ Walkable(m, a)}
  IN Reached({Base} \cap walked, [a \in walked |-> {a + Total(m, a)} \cap walked])

\* pgc_object_index_build: an object that runs past top is not indexed.
Index(m, top) == {h \in Headers(m, top) : h + Total(m, h) <= top}

\* pgc_resolve_base: the indexed object that contains address v, its one-past-end
\* address included, as a set of at most one header.
Resolve(m, index, v) ==
  LET below == {h \in index : Payload(h) <= v}
  IN {h \in below : h = Max(below) /\ v <= h + Total(m, h)}

\* The addresses of the managed fields of h, as its descriptor names them.
Fields(m, h) ==
  CASE DescriptorAt(m, h) = Cell  -> {Payload(h)}
    [] DescriptorAt(m, h) = Pairs -> {Payload(h) + 2 * e : e \in 0 .. (SizeAt(m, h) \div 2) - 1}
    [] OTHER -> {}

\* pgc_mark_all: the objects the closure from the roots' values marks.
Marked(m, index, values) ==
  LET targets(vs) == UNION {Resolve(m, index, v) : v \in vs}
  IN Reached(targets(values), [h \in index |-> targets({Word(m, f) : f \in Fields(m, h)})])

-----------------------------------------------------------------------------
\* Variant for mutation: a dead object keeps its room.
ForwardingKeepsDead(m, headers, marked) ==
  LET compact[a \in Nat] ==
        IF a <= Base THEN Base
        ELSE IF a - 1 \notin headers THEN compact[a - 1]
        ELSE compact[a - 1] + Total(m, a - 1)
  IN [h \in marked |-> compact[h]]

\* pgc_compute_forwarding: the new header address of every live object.  compact[a]
\* is the next free destination when the sweep is at a.
Forwarding(m, headers, marked) ==
  LET compact[a \in Nat] ==
        IF a <= Base THEN Base
        ELSE IF a - 1 \notin headers \cap marked THEN compact[a - 1]
        ELSE compact[a - 1] + Total(m, a - 1)
  IN [h \in marked |-> compact[h]]

\* Variant for mutation: an interior pointer is moved to its object's start.
ForwardedToBase(m, index, to, v) ==
  LET target == Resolve(m, index, v) \cap DOMAIN to
  IN IF target = {} THEN v ELSE Payload(to[CHOOSE h \in target : TRUE])

\* pgc_forward_slot: the same offset into the object at its new address.
ForwardedSlot(m, index, to, v) ==
  LET target == Resolve(m, index, v) \cap DOMAIN to
  IN IF target = {} THEN v
     ELSE LET h == CHOOSE h \in target : TRUE IN v + to[h] - h

\* pgc_compute_forwarding's stores and pgc_update_references' on the heap: the
\* forward word of every header walked, and every managed field of a live object.
Updated(m, headers, index, to) ==
  LET live   == DOMAIN to
      fields == UNION {Fields(m, h) : h \in live}
  IN [a \in DOMAIN m |->
        IF a - 1 \in live THEN Payload(to[a - 1])
        ELSE IF a - 1 \in headers THEN 0
        ELSE IF a \in fields THEN ForwardedSlot(m, index, to, m[a])
        ELSE m[a]]

\* One copy: the block of total words at src goes to dst, its forward word cleared.
Copied(m, src, dst, total) ==
  [a \in DOMAIN m |->
     IF a \notin dst .. dst + total - 1 THEN m[a]
     ELSE IF a = dst + 1 THEN 0
     ELSE Word(m, a - dst + src)]

\* pgc_move_objects: one copy after another, in the order of the walk.  slid[a] is
\* the heap when every object below a has been copied; extents are those recorded.
Moved(m, to) ==
  LET slid[a \in Nat] ==
        IF a <= Base THEN m
        ELSE IF a - 1 \notin DOMAIN to THEN slid[a - 1]
        ELSE Copied(slid[a - 1], a - 1, to[a - 1], Total(m, a - 1))
  IN slid[End]

\* The new bump pointer: the end of the highest copy.
NewTop(m, to) == Max({Base} \cup {to[h] + Total(m, h) : h \in DOMAIN to})
=============================================================================
