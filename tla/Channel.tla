------------------------------ MODULE Channel -------------------------------
(***************************************************************************)
(* The channel of std::threads: toolkit/std/c/threads/threads.c.  A        *)
(* capacity of 0 makes a rendezvous channel, whose single cell is          *)
(* allocated by a sender for each item.                                    *)
(*                                                                         *)
(* c->lock is held from its acquisition to a condition wait or the unlock, *)
(* and nothing inside blocks otherwise, so each stretch is one action.     *)
(* The reads of closed before the lock, and the use of an item's handle    *)
(* after the unlock, are actions of their own.  There is one condition     *)
(* variable for senders and receivers, and it is always broadcast.         *)
(*                                                                         *)
(* An item stands for the handle that roots it.                            *)
(***************************************************************************)
EXTENDS Naturals, FiniteSets, Sequences

CONSTANTS Senders, Receivers,
          Capacities,    \* the buffer sizes a channel is made with
          MaxSends       \* bound: sends per sender

ASSUME ChannelAssumption ==
  /\ Capacities \subseteq Nat /\ MaxSends \in Nat
  /\ Senders \cap Receivers = {}

Threads == Senders \cup Receivers
Items   == Senders \X (1 .. MaxSends)
NoItem  == <<>>                         \* PGC_NULL_HANDLE

VARIABLES
  capacity,   \* c->capacity, 0 for rendezvous; never changes
  buf,        \* c->buf: the slots; for rendezvous the one cell, NoItem when NULL
  head, tail, count,
  closed,
  freed,      \* peko_channel_free has run
  pc,         \* what each thread is doing in the channel
  asleep,     \* threads in pthread_cond_wait
  sends,      \* how many sends each sender has begun
  item,       \* the item in each thread's hands
  answer,     \* whether each thread's last operation succeeded
  rooted,     \* items whose handle is live
  delivered   \* history: items a receive has returned

vars == <<capacity, buf, head, tail, count, closed, freed, pc, asleep, sends, item, answer,
          rooted, delivered>>

queue == <<buf, head, tail, count>>

Slots == 0 .. (IF capacity = 0 THEN 0 ELSE capacity - 1)

\* peko_channel_new.
Init ==
  /\ capacity \in Capacities
  /\ buf = [i \in Slots |-> NoItem]
  /\ head = 0 /\ tail = 0 /\ count = 0
  /\ closed = FALSE /\ freed = FALSE
  /\ pc = [t \in Threads |-> "idle"]
  /\ asleep = {}
  /\ sends = [s \in Senders |-> 0]
  /\ item = [t \in Threads |-> NoItem]
  /\ answer = [t \in Threads |-> FALSE]
  /\ rooted = {} /\ delivered = {}

Goto(t, place) == pc' = [pc EXCEPT ![t] = place]

\* An operation of t returns; v tells whether it succeeded.
Return(t, v) ==
  /\ Goto(t, "idle")
  /\ answer' = [answer EXCEPT ![t] = v]

Broadcast == asleep' = {}
Sleep(t)  == asleep' = asleep \cup {t}

Full == count >= IF capacity = 0 THEN 1 ELSE capacity

-----------------------------------------------------------------------------
(* Sending *)

\* peko_channel_send and peko_channel_try_send up to the lock: closed is read
\* without it, then a handle is created for the item.
BeginSend(s, place) ==
  /\ pc[s] = "idle" /\ ~freed /\ sends[s] < MaxSends
  /\ sends' = [sends EXCEPT ![s] = @ + 1]
  /\ \/ /\ closed
        /\ Return(s, FALSE)
        /\ UNCHANGED <<item, rooted>>
     \/ /\ ~closed
        /\ Goto(s, place)
        /\ item' = [item EXCEPT ![s] = <<s, sends[s] + 1>>]
        /\ rooted' = rooted \cup {<<s, sends[s] + 1>>}
        /\ UNCHANGED answer
  /\ UNCHANGED <<queue, capacity, closed, freed, asleep, delivered>>

\* The item is given back: its handle is released and the send returns false.
Refuse(s) ==
  /\ Return(s, FALSE)
  /\ rooted' = rooted \ {item[s]}
  /\ item' = [item EXCEPT ![s] = NoItem]
  /\ UNCHANGED <<queue, asleep>>

\* The store into the ring.
Put(s) ==
  /\ buf' = [buf EXCEPT ![tail] = item[s]]
  /\ tail' = (tail + 1) % capacity
  /\ count' = count + 1
  /\ Broadcast
  /\ UNCHANGED head

\* The rendezvous store: a fresh cell takes the place of whatever c->buf was; the
\* sender then waits, still under the lock it gives up only in the wait.
Offer(s) ==
  /\ buf' = [buf EXCEPT ![0] = item[s]]
  /\ count' = 1
  /\ asleep' = {s}
  /\ Goto(s, "offered")
  /\ UNCHANGED <<head, tail>>

\* peko_channel_send with the lock: the first time, and after each wake-up.
Send(s) ==
  /\ pc[s] \in {"enter", "full"} /\ s \notin asleep
  /\ \/ /\ Full /\ ~closed
        /\ Sleep(s)
        /\ Goto(s, "full")
        /\ UNCHANGED <<queue, item, answer, rooted>>
     \/ closed /\ Refuse(s)
     \/ /\ ~Full /\ ~closed /\ capacity = 0
        /\ Offer(s)
        /\ UNCHANGED <<item, answer, rooted>>
     \/ /\ ~Full /\ ~closed /\ capacity > 0
        /\ Put(s)
        /\ Return(s, TRUE)
        /\ item' = [item EXCEPT ![s] = NoItem]
        /\ UNCHANGED rooted
  /\ UNCHANGED <<capacity, closed, freed, sends, delivered>>

\* Variant for mutation: the sender does not look whether its item was taken.
WithdrawAtOnce(s) ==
  /\ pc[s] = "offered" /\ s \notin asleep
  /\ buf' = [buf EXCEPT ![0] = NoItem]
  /\ item' = [item EXCEPT ![s] = NoItem]
  /\ Return(s, TRUE)
  /\ UNCHANGED <<head, tail, count, capacity, closed, freed, asleep, sends, rooted, delivered>>

\* The end of a rendezvous send: when no item is on offer, or the channel is
\* closed, c->buf is freed, whoever allocated it, and the send returns true.
Withdraw(s) ==
  /\ pc[s] = "offered" /\ s \notin asleep
  /\ \/ /\ count > 0 /\ ~closed
        /\ Sleep(s)
        /\ UNCHANGED <<buf, pc, item, answer>>
     \/ /\ count = 0 \/ closed
        /\ buf' = [buf EXCEPT ![0] = NoItem]
        /\ item' = [item EXCEPT ![s] = NoItem]
        /\ Return(s, TRUE)
        /\ UNCHANGED asleep
  /\ UNCHANGED <<head, tail, count, capacity, closed, freed, sends, rooted, delivered>>

\* peko_channel_try_send with the lock; a rendezvous channel always refuses.
TrySend(s) ==
  /\ pc[s] = "try"
  /\ \/ /\ capacity = 0 \/ Full \/ closed
        /\ Refuse(s)
     \/ /\ capacity > 0 /\ ~Full /\ ~closed
        /\ Put(s)
        /\ Return(s, TRUE)
        /\ item' = [item EXCEPT ![s] = NoItem]
        /\ UNCHANGED rooted
  /\ UNCHANGED <<capacity, closed, freed, sends, delivered>>

-----------------------------------------------------------------------------
(* Receiving *)

BeginRecv(r) ==
  /\ pc[r] = "idle" /\ ~freed
  /\ Goto(r, "empty")
  /\ UNCHANGED <<queue, capacity, closed, freed, asleep, sends, item, answer, rooted, delivered>>

\* Variant for mutation: the senders that wait for room are not woken.
TakeSilently(r) ==
  /\ item' = [item EXCEPT ![r] = buf[head]]
  /\ buf' = [buf EXCEPT ![head] = NoItem]
  /\ head' = (head + 1) % capacity
  /\ count' = count - 1
  /\ Goto(r, "took")
  /\ UNCHANGED <<tail, asleep>>

\* The oldest item leaves the ring and the sleepers are woken.
Take(r) ==
  /\ item' = [item EXCEPT ![r] = buf[head]]
  /\ buf' = [buf EXCEPT ![head] = NoItem]
  /\ head' = (head + 1) % capacity
  /\ count' = count - 1
  /\ Goto(r, "took")
  /\ Broadcast
  /\ UNCHANGED tail

\* Variant for mutation: the item stays on offer.
TakeOfferKept(r, cell) ==
  /\ item' = [item EXCEPT ![r] = buf[0]]
  /\ Goto(r, "took")
  /\ Broadcast
  /\ UNCHANGED <<buf, count, head, tail>>

\* The item on offer is taken; a blocking receive leaves the cell to its sender.
TakeOffer(r, cell) ==
  /\ item' = [item EXCEPT ![r] = buf[0]]
  /\ buf' = [buf EXCEPT ![0] = cell]
  /\ count' = 0
  /\ Goto(r, "took")
  /\ Broadcast
  /\ UNCHANGED <<head, tail>>

\* peko_channel_recv with the lock: the first time, and after each wake-up.
Recv(r) ==
  /\ pc[r] = "empty" /\ r \notin asleep
  /\ \/ /\ count = 0 /\ ~closed
        /\ Sleep(r)
        /\ UNCHANGED <<queue, pc, item, answer>>
     \/ /\ count = 0 /\ closed
        /\ Return(r, FALSE)
        /\ UNCHANGED <<queue, item, asleep>>
     \/ count > 0 /\ capacity = 0 /\ TakeOffer(r, buf[0]) /\ UNCHANGED answer
     \/ count > 0 /\ capacity > 0 /\ Take(r) /\ UNCHANGED answer
  /\ UNCHANGED <<capacity, closed, freed, sends, rooted, delivered>>

\* peko_channel_try_recv.
TryRecv(r) ==
  /\ pc[r] = "idle" /\ ~freed
  /\ \/ /\ count = 0
        /\ Return(r, FALSE)
        /\ UNCHANGED <<queue, item, asleep>>
     \/ count > 0 /\ capacity = 0 /\ TakeOffer(r, NoItem) /\ UNCHANGED answer
     \/ count > 0 /\ capacity > 0 /\ Take(r) /\ UNCHANGED answer
  /\ UNCHANGED <<capacity, closed, freed, sends, rooted, delivered>>

\* Variant for mutation: the item's handle is not released.
FinishRecvUnreleased(r) ==
  /\ pc[r] = "took"
  /\ Return(r, item[r] # NoItem)
  /\ delivered' = delivered \cup ({item[r]} \ {NoItem})
  /\ item' = [item EXCEPT ![r] = NoItem]
  /\ UNCHANGED <<queue, capacity, closed, freed, asleep, sends, rooted>>

\* A receive after the unlock: the handle is read and released; a null handle is
\* reported as no item.
FinishRecv(r) ==
  /\ pc[r] = "took"
  /\ Return(r, item[r] # NoItem)
  /\ rooted' = rooted \ {item[r]}
  /\ delivered' = delivered \cup ({item[r]} \ {NoItem})
  /\ item' = [item EXCEPT ![r] = NoItem]
  /\ UNCHANGED <<queue, capacity, closed, freed, asleep, sends>>

-----------------------------------------------------------------------------
\* Variant for mutation: nobody is woken.
CloseSilently ==
  /\ ~closed /\ ~freed
  /\ closed' = TRUE
  /\ UNCHANGED <<queue, capacity, freed, pc, asleep, sends, item, answer, rooted, delivered>>

\* peko_channel_close, by any thread.
Close ==
  /\ ~closed /\ ~freed
  /\ closed' = TRUE
  /\ Broadcast
  /\ UNCHANGED <<queue, capacity, freed, pc, sends, item, answer, rooted, delivered>>

\* peko_channel_free: nobody is in the channel any more ("it must not be used
\* after this"); the handles still in the buffer are released.
Free ==
  /\ ~freed /\ \A t \in Threads : pc[t] = "idle"
  /\ freed' = TRUE
  /\ rooted' = IF capacity > 0 \/ count > 0
               THEN rooted \ {buf[i] : i \in Slots} ELSE rooted
  /\ UNCHANGED <<queue, capacity, closed, pc, asleep, sends, item, answer, delivered>>

\* pthread_cond_wait may return with no signal.
SpuriousWake(t) ==
  /\ t \in asleep
  /\ asleep' = asleep \ {t}
  /\ UNCHANGED <<queue, capacity, closed, freed, pc, sends, item, answer, rooted, delivered>>

\* The steps of an operation that has begun.
Progress(t) ==
  \/ t \in Senders /\ (Send(t) \/ Withdraw(t) \/ TrySend(t))
  \/ t \in Receivers /\ (Recv(t) \/ FinishRecv(t))

Next ==
  \/ \E t \in Threads : Progress(t) \/ SpuriousWake(t)
  \/ \E s \in Senders : BeginSend(s, "enter") \/ BeginSend(s, "try")
  \/ \E r \in Receivers : BeginRecv(r) \/ TryRecv(r)
  \/ Close \/ Free

Spec == Init /\ [][Next]_vars

\* The OS runs every thread, and the lock is free infinitely often.
FairSpec == Spec /\ \A t \in Threads : WF_vars(Progress(t))

-----------------------------------------------------------------------------
(* Properties *)

TypeOK ==
  /\ capacity \in Capacities
  /\ buf \in [Slots -> Items \cup {NoItem}]
  /\ head \in Slots /\ tail \in Slots
  /\ count \in 0 .. capacity + 1
  /\ closed \in BOOLEAN /\ freed \in BOOLEAN
  /\ pc \in [Threads -> {"idle", "enter", "try", "full", "offered", "empty", "took"}]
  /\ asleep \subseteq Threads
  /\ sends \in [Senders -> 0 .. MaxSends]
  /\ item \in [Threads -> Items \cup {NoItem}]
  /\ answer \in [Threads -> BOOLEAN]
  /\ rooted \subseteq Items
  /\ delivered \subseteq Items

\* No wake-up is lost: a thread sleeps on the one condition variable only while
\* what it waits for is not so, whichever of the senders, receivers and closers
\* made the last change.
NoLostWakeup ==
  \A t \in asleep :
    /\ ~closed
    /\ pc[t] = "full" => Full
    /\ pc[t] = "offered" => count > 0
    /\ pc[t] = "empty" => count = 0

\* A handle is live exactly as long as its item is on its way: in a sender's
\* hands before it is stored, in the buffer, or in a receiver's hands.  The item
\* on offer when a rendezvous channel is closed keeps its handle for ever.
HandlesOnTheirWay ==
  capacity > 0 \/ ~closed =>
    rooted = ({item[t] : t \in {u \in Threads : pc[u] # "offered"}}
              \cup (IF freed \/ count = 0 THEN {} ELSE {buf[i] : i \in Slots})) \ {NoItem}

\* The items in the buffer, oldest first.
Waiting ==
  IF capacity = 0
  THEN IF count = 0 \/ buf[0] = NoItem THEN <<>> ELSE <<buf[0]>>
  ELSE [i \in 1 .. count |-> buf[(head + i - 1) % capacity]]

Abstract == INSTANCE BoundedChannel
  WITH Rooms <- Capacities, room <- capacity, queue <- Waiting, shut <- closed,
       got <- (delivered \cup {item[r] : r \in Receivers}) \ {NoItem}

\* Items leave the channel in the order they entered it, each once, never more
\* than there is room for, and none enters a closed channel.
FirstInFirstOut == Abstract!Spec

\* A rendezvous send that returns true on an open channel has handed its item to
\* a receiver (threads.peko:181-183), however many senders and receivers meet.
\* When the channel is closed meanwhile it returns true all the same.
SendMeansTaken ==
  [][\A s \in Senders : pc[s] = "offered" /\ pc'[s] = "idle" /\ ~closed =>
       \/ item[s] \in delivered
       \/ \E r \in Receivers : item[r] = item[s]]_vars

\* A blocked operation returns once the channel is closed.
CloseReleases == \A t \in Threads : closed ~> pc[t] = "idle"
=============================================================================
