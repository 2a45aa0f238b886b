------------------------------ MODULE PgcHeap -------------------------------
(***************************************************************************)
(* The managed heap as its users see it change: allocation through         *)
(* thread-local buffers (toolkit/std/c/runtime/alloc.c), attaching and     *)
(* leaving threads (threads.c), and the collection of pgc.c, which is one  *)
(* step here because PgcWorld shows that it runs in a stopped world.       *)
(* The program's own steps store, load and drop references.  Pinned        *)
(* objects are left out: nothing in the repository calls pgc_pin.          *)
(***************************************************************************)
EXTENDS PgcCompact

CONSTANTS Mutators,     \* threads that allocate
          Roots,        \* root slots: globals, handles and stack slots alike
          Shapes,       \* <<descriptor, payload words>> the program allocates
          Tags,         \* data words that tell objects apart
          TlabWords,    \* PGC_TLAB_BYTES
          MayLeave      \* whether threads detach and attach again

ASSUME AllocAssumption ==
  /\ TlabWords \in Nat \ {0}
  /\ Shapes \subseteq (Descriptors \X Nat)
  /\ Tags \subseteq 1 .. Base - 1
  /\ \A s \in Shapes : s[2] % 2 = 0     \* pgc_align_up_alloc has been applied
  /\ \A s \in Shapes : s[1] = Cell => s[2] # 0     \* a descriptor's offsets are inside
  /\ MayLeave \in BOOLEAN

VARIABLES
  mem,      \* the words of the region
  top,      \* g_gc.heap.top
  attached, \* attached threads
  tlab,     \* each thread's buffer, <<top, end>>
  root,     \* the value of each root slot
  offset,   \* how far into its object the program made the reference point
  req       \* an allocation that found the heap exhausted: what, and whether retried

heapVars == <<mem, top, attached, tlab, root, offset, req>>

NoTlab == <<Null, Null>>
NoReq  == <<>>

\* What lies above top is stale: a reference to the first object stands for it.
Stale == Payload(Base)

HeapInit ==
  /\ mem = [a \in Words |-> 0]
  /\ top = Base
  /\ attached = Mutators
  /\ tlab = [t \in Mutators |-> NoTlab]
  /\ root = [r \in Roots |-> Null]
  /\ offset = [r \in Roots |-> 0]
  /\ req = [t \in Mutators |-> NoReq]

\* pgc_fill_gap: one dead atomic object over the whole gap, zeros if it is too
\* short for a header.
FilledWord(m, gap, a) ==
  LET size == gap[2] - gap[1]
  IN IF size < HeaderSize THEN 0
     ELSE CASE a = gap[1]     -> size - HeaderSize
            [] a = gap[1] + 1 -> 0
            [] a = gap[1] + 2 -> Atomic
            [] OTHER          -> m[a]
Filled(m, gap) ==
  [a \in Words |-> IF gap[1] <= a /\ a < gap[2] THEN FilledWord(m, gap, a) ELSE m[a]]

\* pgc_fill_all_tlab_gaps: the gaps are apart, so each is filled by itself.
AllFilled ==
  LET open == {t \in attached : tlab[t][1] < tlab[t][2]}
      within(t, a) == tlab[t][1] <= a /\ a < tlab[t][2]
  IN IF open = {} THEN mem
     ELSE [a \in Words |-> IF \E t \in open : within(t, a)
                           THEN FilledWord(mem, tlab[CHOOSE t \in open : within(t, a)], a)
                           ELSE mem[a]]

RootValues == {root[r] : r \in Roots} \ {Null}

\* The objects the program can still reach, by following its own references: the
\* header each root's reference was made from, and the fields from there on.
Object(r) == root[r] - offset[r] - HeaderSize
Referred(h) == {Word(mem, f) - HeaderSize : f \in {g \in Fields(mem, h) : Word(mem, g) # Null}}
Reachable ==
  Reached({Object(r) : r \in {q \in Roots : root[q] # Null}} \cap Words,
          [h \in Words |-> Referred(h) \cap Words])

TagAt(h)  == Word(mem, Payload(h) + 1)
Tagged(h) == DescriptorAt(mem, h) # Closure
FreeTags  == Tags \ {TagAt(h) : h \in {o \in Reachable : Tagged(o)}}
NewTag    == IF FreeTags = {} THEN Null ELSE Min(FreeTags)

-----------------------------------------------------------------------------
(* Allocation *)

\* Variant for mutation: a tail too short for a header is left behind.
AbsorbNothing(buffer, shape, raw) == <<shape[2], buffer>>

\* pgc_absorb_tiny_tail: the payload and the buffer after it.
Absorb(buffer, shape, raw) ==
  LET tail == buffer[2] - buffer[1]
  IN IF /\ buffer # NoTlab
        /\ buffer[1] = raw + HeaderSize + shape[2]
        /\ tail \in 1 .. HeaderSize - 1
     THEN <<shape[2] + tail, <<buffer[2], buffer[2]>>>>
     ELSE <<shape[2], buffer>>

\* pgc_init_header: a clean header and a payload of zeros.
Header(m, raw, shape, size) ==
  [a \in DOMAIN m |-> IF a = raw THEN size
                     ELSE IF a = raw + 2 THEN shape[1]
                     ELSE IF a \in raw + 1 .. Payload(raw) + size - 1 THEN 0
                     ELSE m[a]]

\* The block raw is served to t for root r; the program writes the object's tag.
Serve(t, r, shape, m, raw, buffer) ==
  LET fit == Absorb(buffer, shape, raw)
      new == Header(m, raw, shape, fit[1])
  IN /\ mem' = IF shape[2] = 0 THEN new ELSE [new EXCEPT ![Payload(raw) + 1] = NewTag]
     /\ tlab' = [tlab EXCEPT ![t] = fit[2]]
     /\ root' = [root EXCEPT ![r] = Payload(raw)]
     /\ offset' = [offset EXCEPT ![r] = 0]

FitsTlab(t, shape) ==
  tlab[t] # NoTlab /\ tlab[t][1] + HeaderSize + shape[2] <= tlab[t][2]

\* pgc_alloc_internal's fast path.
AllocFast(t, r, shape) ==
  /\ t \in attached /\ req[t] = NoReq
  /\ FitsTlab(t, shape) /\ NewTag # Null
  /\ Serve(t, r, shape, mem, tlab[t][1],
           <<tlab[t][1] + HeaderSize + shape[2], tlab[t][2]>>)
  /\ UNCHANGED <<top, attached, req>>

\* pgc_alloc_slow when the heap has room: a large object straight from the heap,
\* a small one from a fresh buffer, the old buffer's tail being filled.
SlowServe(t, r, shape) ==
  LET total == HeaderSize + shape[2]
  IN \/ /\ total > TlabWords /\ top + total <= End
        /\ Serve(t, r, shape, mem, top, tlab[t])
        /\ top' = top + total
     \/ /\ total <= TlabWords /\ top + TlabWords <= End
        /\ Serve(t, r, shape, Filled(mem, tlab[t]), top, <<top + total, top + TlabWords>>)
        /\ top' = top + TlabWords

\* pgc_alloc_slow when it has none: the tail is filled all the same.
Exhausted(t, shape) ==
  LET total == HeaderSize + shape[2]
  IN \/ total > TlabWords /\ top + total > End /\ UNCHANGED mem
     \/ total <= TlabWords /\ top + TlabWords > End /\ mem' = Filled(mem, tlab[t])

AllocSlow(t, r, shape) ==
  /\ t \in attached /\ req[t] = NoReq /\ ~FitsTlab(t, shape) /\ NewTag # Null
  /\ \/ SlowServe(t, r, shape) /\ UNCHANGED <<attached, req>>
     \/ /\ Exhausted(t, shape)
        /\ req' = [req EXCEPT ![t] = <<r, shape, FALSE>>]
        /\ UNCHANGED <<top, attached, tlab, root, offset>>

\* The one retry after pgc_collect; a second failure returns a null reference.
AllocRetry(t) ==
  /\ req[t] # NoReq /\ req[t][3]
  /\ req' = [req EXCEPT ![t] = NoReq]
  /\ LET r == req[t][1] shape == req[t][2]
     IN \/ NewTag # Null /\ SlowServe(t, r, shape)
        \/ /\ Exhausted(t, shape)
           /\ root' = [root EXCEPT ![r] = Null]
           /\ offset' = [offset EXCEPT ![r] = 0]
           /\ UNCHANGED <<top, tlab>>
  /\ UNCHANGED attached

-----------------------------------------------------------------------------
(* Mutators come and go *)

AttachThread(t) ==
  /\ MayLeave /\ t \notin attached
  /\ attached' = attached \cup {t}
  /\ UNCHANGED <<mem, top, tlab, root, offset, req>>

\* pgc_thread_detach.
DetachThread(t) ==
  /\ MayLeave /\ t \in attached /\ req[t] = NoReq
  /\ mem' = Filled(mem, tlab[t])
  /\ tlab' = [tlab EXCEPT ![t] = NoTlab]
  /\ attached' = attached \ {t}
  /\ UNCHANGED <<top, root, offset, req>>

-----------------------------------------------------------------------------
(* Collection *)

\* Variant for mutation: only the driver's own buffer is reset.
TlabsAfterOwn(t) == [tlab EXCEPT ![t] = NoTlab]

\* pgc_reset_all_tlabs.
TlabsAfter(t) == [u \in Mutators |-> NoTlab]

\* What is left above the new top.
Released(m, end) == [a \in Words |-> IF a >= end THEN Stale ELSE m[a]]

\* pgc_collect by t, which may be pgc_alloc_internal's on a failed request.
Collect(t) ==
  /\ t \in attached
  /\ tlab' = TlabsAfter(t)
  /\ req' = IF req[t] = NoReq THEN req ELSE [req EXCEPT ![t] = <<@[1], @[2], TRUE>>]
  /\ UNCHANGED <<attached, offset>>
  /\ LET m       == AllFilled
         headers == Headers(m, top)
         index   == Index(m, top)
         to      == Forwarding(m, headers, Marked(m, index, RootValues))
         moved   == Moved(Updated(m, headers, index, to), to)
     IN /\ top' = NewTop(m, to)
        /\ mem' = Released(moved, NewTop(m, to))
        /\ root' = [r \in Roots |-> ForwardedSlot(m, index, to, root[r])]

\* A caller that loses the race for g_collecting may come back with no cycle done.
LoseRace(t) ==
  /\ req[t] # NoReq /\ ~req[t][3] /\ attached # {t}
  /\ req' = [req EXCEPT ![t] = <<@[1], @[2], TRUE>>]
  /\ UNCHANGED <<mem, top, attached, tlab, root, offset>>

-----------------------------------------------------------------------------
(* The program *)

IsBase(r)   == offset[r] = 0
HasField(r) == root[r] # Null /\ IsBase(r) /\ root[r] \in Fields(mem, Object(r))

Store(r, s) ==
  /\ HasField(r) /\ IsBase(s)
  /\ mem' = [mem EXCEPT ![root[r]] = root[s]]
  /\ UNCHANGED <<top, attached, tlab, root, offset, req>>

Load(r, s) ==
  /\ HasField(s)
  /\ root' = [root EXCEPT ![r] = mem[root[s]]]
  /\ offset' = [offset EXCEPT ![r] = 0]
  /\ UNCHANGED <<mem, top, attached, tlab, req>>

Drop(r) ==
  /\ root[r] # Null
  /\ root' = [root EXCEPT ![r] = Null]
  /\ offset' = [offset EXCEPT ![r] = 0]
  /\ UNCHANGED <<mem, top, attached, tlab, req>>

\* An element reference: an address inside a buffer, or one past its end.
Advance(r) ==
  /\ root[r] # Null /\ IsBase(r)
  /\ \E k \in {1, SizeAt(mem, Object(r))} \ {0} :
       /\ k <= SizeAt(mem, Object(r))
       /\ root' = [root EXCEPT ![r] = @ + k]
       /\ offset' = [offset EXCEPT ![r] = k]
  /\ UNCHANGED <<mem, top, attached, tlab, req>>

HeapNext ==
  \/ \E t \in Mutators :
       \/ \E r \in Roots, s \in Shapes : AllocFast(t, r, s) \/ AllocSlow(t, r, s)
       \/ AllocRetry(t) \/ AttachThread(t) \/ DetachThread(t) \/ Collect(t) \/ LoseRace(t)
  \/ \E r \in Roots : Drop(r) \/ Advance(r)
  \/ \E r, s \in Roots : Store(r, s) \/ Load(r, s)

HeapSpec == HeapInit /\ [][HeapNext]_heapVars

-----------------------------------------------------------------------------
(* Properties *)

\* The heap can be walked at every moment a collection may start: from the first
\* header the sizes lead exactly to top, past buffer tails, absorbed tails,
\* objects without a payload and what the last cycle left, and no header still
\* carries a mark or a forwarding address.
HeapWalkable ==
  LET m == AllFilled
      headers == Headers(m, top)
  IN /\ top = IF headers = {} THEN Base ELSE Max(headers) + Total(m, Max(headers))
     /\ \A h \in headers : Word(m, h + 1) = 0
     /\ Reachable \subseteq headers

Gap(t) == tlab[t][1] .. tlab[t][2] - 1
Extent(h) == h .. h + Total(mem, h) - 1

\* A block a thread may still bump into belongs to it alone: the free room of the
\* attached threads' buffers lies below top, apart from one another and from
\* every object that is reachable.
RoomIsFree ==
  \A t \in attached : Gap(t) # {} =>
    /\ tlab[t][2] <= top
    /\ \A u \in attached \ {t} : Gap(t) \cap Gap(u) = {}
    /\ \A h \in Reachable : Gap(t) \cap Extent(h) = {}

\* A collection leaves nothing but what was reachable: what it keeps is exactly
\* as long as the objects the roots reach, with no hole between them.
CollectReclaims ==
  [][\A t \in Mutators : Collect(t) =>
       top' = Base + MapThenSumSet(LAMBDA h : Total(mem, h), Reachable)]_heapVars

\* The object at payload address p as the program knows it.
Known(p) == IF p = Null THEN Null
            ELSE IF Tagged(p - HeaderSize) THEN TagAt(p - HeaderSize) ELSE Base

Slots == [r \in Roots |-> <<Known(root[r] - offset[r]), offset[r]>>]

FieldOf(h) == IF Fields(mem, h) = {} THEN Null ELSE Known(Word(mem, Payload(h)))

Links == FoldSet(LAMBDA h, links : [links EXCEPT ![TagAt(h)] = FieldOf(h)],
                 [o \in Tags |-> Null], {h \in Reachable : Tagged(h)})

\* The longest payload there is: a shape's, with a tiny tail absorbed.
Longest == Max({s[2] : s \in Shapes}) + HeaderSize - 1

\* What the mapping asks of the shapes: that there is a longest, and that an object with
\* no room for a tag is a closure, which is read as one without an identity.
Distinguishable ==
  /\ IsFiniteSet(Shapes) /\ Shapes # {}
  /\ \A s \in Shapes : s[2] = 0 => s[1] = Closure

Abstract == INSTANCE ManagedStore
  WITH Empty <- Base, MaxOffset <- Longest, slots <- Slots, next <- Links

\* The collector cannot be observed: allocations, buffers, collections and moved
\* objects implement a store of objects without addresses, in which a collection
\* is no step at all.
Transparent == Abstract!Spec
=============================================================================
