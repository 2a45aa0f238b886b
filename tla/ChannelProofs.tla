--------------------------- MODULE ChannelProofs ----------------------------
(***************************************************************************)
(* For every capacity, any threads and any number of sends: the channel's  *)
(* indices stay inside its ring, no wake-up is lost, a handle lives as     *)
(* long as its item is on the way, a rendezvous that succeeds has handed   *)
(* its item over, and the channel implements BoundedChannel.               *)
(*                                                                         *)
(* The second half rests on ItemInv: what is in each thread's hands, which *)
(* slots of the ring are full, that no item is in two places, and what     *)
(* became of the items offered.  Each step is first reduced to what it     *)
(* does to the items (Kinds).                                              *)
(***************************************************************************)
EXTENDS Channel, SequenceTheorems, TLAPS

\* Every channel has a slot 0: the ring's first, or the rendezvous cell.
LEMMA SlotsNat == capacity \in Capacities => 0 \in Slots
  BY ChannelAssumption, SMT DEF ChannelAssumption, Slots

\* The index after i, wrapped around, is a slot.
LEMMA NextSlot ==
  ASSUME NEW i \in Slots, capacity \in Capacities, capacity > 0
  PROVE  (i + 1) % capacity \in Slots
  BY ChannelAssumption, SMT DEF ChannelAssumption, Slots

\* A channel keeps its slots as long as it keeps its capacity.
LEMMA SameSlots == capacity' = capacity => Slots' = Slots
  BY DEF Slots

\* An empty, open channel has the types.
LEMMA InitType == Init => TypeOK
<1> SUFFICES ASSUME Init PROVE TypeOK
  OBVIOUS
<1>1. 0 \in Slots /\ 0 \in 0 .. capacity + 1 /\ 0 \in 0 .. MaxSends
  BY ChannelAssumption, SlotsNat, SMT DEF ChannelAssumption, Init
<1> QED
  BY <1>1 DEF Init, TypeOK

\* The count stays in range where the guards of the operations let it change.
LEMMA FullMeans ==
  ASSUME TypeOK
  PROVE  /\ capacity > 0 /\ ~Full => count + 1 \in 0 .. capacity + 1
         /\ count > 0 => count - 1 \in 0 .. capacity + 1
         /\ {0, 1} \subseteq 0 .. capacity + 1
  BY ChannelAssumption, SMT DEF ChannelAssumption, TypeOK, Full

\* The steps of a sender keep the types.
LEMMA SenderType ==
  ASSUME TypeOK, NEW s \in Senders,
         \/ BeginSend(s, "enter") \/ BeginSend(s, "try")
         \/ Send(s) \/ Withdraw(s) \/ TrySend(s)
  PROVE  TypeOK'
<1>t. s \in Threads
  BY DEF Threads
<1>c. capacity' = capacity /\ Slots' = Slots
  BY SameSlots DEF BeginSend, Send, Withdraw, TrySend, Refuse, queue
<1> USE <1>c
<1>1. CASE BeginSend(s, "enter") \/ BeginSend(s, "try")
  <2>1. <<s, sends[s] + 1>> \in Items /\ sends[s] + 1 \in 0 .. MaxSends
    <3>1. sends[s] \in 0 .. MaxSends /\ sends[s] < MaxSends
      BY <1>1 DEF BeginSend, TypeOK
    <3>2. sends[s] + 1 \in 1 .. MaxSends /\ sends[s] + 1 \in 0 .. MaxSends
      BY <3>1, ChannelAssumption, SMT DEF ChannelAssumption
    <3> QED
      BY <3>2 DEF Items
  <2>2. sends' \in [Senders -> 0 .. MaxSends]
    BY <1>1, <2>1 DEF BeginSend, TypeOK
  <2>3. item' \in [Threads -> Items \cup {NoItem}] /\ rooted' \subseteq Items
    BY <1>1, <2>1, <1>t DEF BeginSend, TypeOK
  <2>4. /\ pc' \in [Threads -> {"idle", "enter", "try", "full", "offered", "empty", "took"}]
        /\ answer' \in [Threads -> BOOLEAN]
    BY <1>1, <1>t DEF BeginSend, TypeOK, Goto, Return
  <2> QED
    BY <1>1, <2>2, <2>3, <2>4 DEF BeginSend, TypeOK, queue
<1>2. CASE Send(s)
  <2>1. CASE Full /\ ~closed /\ Sleep(s) /\ Goto(s, "full")
             /\ UNCHANGED <<queue, item, answer, rooted>>
    BY <1>2, <2>1, <1>t DEF Send, TypeOK, Goto, Sleep, queue
  <2>2. CASE closed /\ Refuse(s)
    BY <1>2, <2>2, <1>t DEF Send, TypeOK, Goto, Return, Refuse, queue
  <2>3. CASE ~Full /\ ~closed /\ capacity = 0 /\ Offer(s)
             /\ UNCHANGED <<item, answer, rooted>>
    BY <1>2, <2>3, <1>t, FullMeans, SlotsNat DEF Send, TypeOK, Goto, Offer
  <2>4. CASE /\ ~Full /\ ~closed /\ capacity > 0 /\ Put(s) /\ Return(s, TRUE)
             /\ item' = [item EXCEPT ![s] = NoItem]
             /\ UNCHANGED rooted
    <3>1. tail' \in Slots /\ count' \in 0 .. capacity + 1
      BY <2>4, NextSlot, FullMeans DEF TypeOK, Put
    <3>2. buf' \in [Slots -> Items \cup {NoItem}]
      BY <2>4, <1>t DEF TypeOK, Put
    <3> QED
      BY <1>2, <2>4, <1>t, <3>1, <3>2 DEF Send, TypeOK, Goto, Return, Put, Broadcast
  <2> QED
    BY <1>2, <2>1, <2>2, <2>3, <2>4 DEF Send
<1>3. CASE Withdraw(s)
  BY <1>3, <1>t, SlotsNat DEF Withdraw, TypeOK, Goto, Return, Sleep
<1>4. CASE TrySend(s)
  <2>1. CASE Refuse(s)
    BY <1>4, <2>1, <1>t DEF TrySend, TypeOK, Goto, Return, Refuse, queue
  <2>2. CASE /\ capacity > 0 /\ ~Full /\ ~closed /\ Put(s) /\ Return(s, TRUE)
             /\ item' = [item EXCEPT ![s] = NoItem]
             /\ UNCHANGED rooted
    <3>1. tail' \in Slots /\ count' \in 0 .. capacity + 1
      BY <2>2, NextSlot, FullMeans DEF TypeOK, Put
    <3>2. buf' \in [Slots -> Items \cup {NoItem}]
      BY <2>2, <1>t DEF TypeOK, Put
    <3> QED
      BY <1>4, <2>2, <1>t, <3>1, <3>2 DEF TrySend, TypeOK, Goto, Return, Put, Broadcast
  <2> QED
    BY <1>4, <2>1, <2>2 DEF TrySend
<1> QED
  BY <1>1, <1>2, <1>3, <1>4

\* A receive that takes an item keeps the types.
LEMMA TakeType ==
  ASSUME TypeOK, capacity' = capacity, NEW r \in Receivers, NEW cell \in Items \cup {NoItem},
         count > 0,
         \/ capacity = 0 /\ TakeOffer(r, cell)
         \/ capacity > 0 /\ Take(r)
  PROVE  /\ buf' \in [Slots -> Items \cup {NoItem}]
         /\ head' \in Slots /\ tail' \in Slots
         /\ count' \in 0 .. capacity + 1
         /\ pc' \in [Threads -> {"idle", "enter", "try", "full", "offered", "empty", "took"}]
         /\ asleep' \subseteq Threads
         /\ item' \in [Threads -> Items \cup {NoItem}]
<1>t. r \in Threads
  BY DEF Threads
<1>c. capacity \in Capacities /\ capacity' = capacity /\ Slots' = Slots
  BY SameSlots DEF TypeOK
<1> USE <1>c
<1>1. CASE capacity = 0 /\ TakeOffer(r, cell)
  BY <1>1, <1>t, FullMeans, SlotsNat DEF TakeOffer, TypeOK, Goto, Broadcast
<1>2. CASE capacity > 0 /\ Take(r)
  <2>1. head' \in Slots /\ count' \in 0 .. capacity + 1
    BY <1>2, NextSlot, FullMeans DEF Take, TypeOK
  <2> QED
    BY <1>2, <1>t, <2>1 DEF Take, TypeOK, Goto, Broadcast
<1> QED
  BY <1>1, <1>2

\* The steps of a receiver keep the types.
LEMMA ReceiverType ==
  ASSUME TypeOK, NEW r \in Receivers,
         BeginRecv(r) \/ Recv(r) \/ TryRecv(r) \/ FinishRecv(r)
  PROVE  TypeOK'
<1>t. r \in Threads
  BY DEF Threads
<1>c. capacity' = capacity /\ Slots' = Slots
  BY SameSlots DEF BeginRecv, Recv, TryRecv, FinishRecv
<1> USE <1>c
<1>b. buf[0] \in Items \cup {NoItem} /\ NoItem \in Items \cup {NoItem}
  BY SlotsNat DEF TypeOK
<1>1. CASE BeginRecv(r)
  BY <1>1, <1>t DEF BeginRecv, TypeOK, Goto, queue
<1>2. CASE Recv(r)
  <2>0. UNCHANGED <<closed, freed, sends, rooted, delivered>>
    BY <1>2 DEF Recv
  <2>1. CASE count = 0 /\ ~closed /\ Sleep(r) /\ UNCHANGED <<queue, pc, item, answer>>
    BY <2>0, <2>1, <1>t DEF TypeOK, Sleep, queue
  <2>3. CASE count = 0 /\ closed /\ Return(r, FALSE) /\ UNCHANGED <<queue, item, asleep>>
    BY <2>0, <2>3, <1>t DEF TypeOK, Goto, Return, queue
  <2>2. CASE count > 0 /\ capacity = 0 /\ TakeOffer(r, buf[0]) /\ UNCHANGED answer
    <3> DEFINE cell == buf[0]
    <3>1. cell \in Items \cup {NoItem} /\ TakeOffer(r, cell)
      BY <1>b, <2>2
    <3> HIDE DEF cell
    <3> QED
      BY <2>0, <2>2, <3>1, TakeType DEF TypeOK
  <2>4. CASE count > 0 /\ capacity > 0 /\ Take(r) /\ UNCHANGED answer
    BY <2>0, <2>4, <1>b, TakeType DEF TypeOK
  <2> QED
    BY <1>2, <2>1, <2>2, <2>3, <2>4 DEF Recv
<1>3. CASE TryRecv(r)
  <2>1. CASE count = 0 /\ Return(r, FALSE) /\ UNCHANGED <<queue, item, asleep>>
    BY <1>3, <2>1, <1>t DEF TryRecv, TypeOK, Goto, Return, queue
  <2>0. UNCHANGED <<closed, freed, sends, rooted, delivered>>
    BY <1>3 DEF TryRecv
  <2>2. CASE count > 0 /\ capacity = 0 /\ TakeOffer(r, NoItem) /\ UNCHANGED answer
    BY <2>0, <2>2, <1>b, TakeType DEF TypeOK
  <2>3. CASE count > 0 /\ capacity > 0 /\ Take(r) /\ UNCHANGED answer
    BY <2>0, <2>3, <1>b, TakeType DEF TypeOK
  <2> QED
    BY <1>3, <2>1, <2>2, <2>3 DEF TryRecv
<1>4. CASE FinishRecv(r)
  BY <1>4, <1>t DEF FinishRecv, TypeOK, Goto, Return, queue
<1> QED
  BY <1>1, <1>2, <1>3, <1>4

\* Every step keeps the types.
LEMMA NextType == TypeOK /\ [Next]_vars => TypeOK'
<1> SUFFICES ASSUME TypeOK, [Next]_vars PROVE TypeOK'
  OBVIOUS
<1>1. ASSUME NEW t \in Threads, Progress(t) PROVE TypeOK'
  BY <1>1, SenderType, ReceiverType DEF Progress
<1>2. ASSUME NEW t \in Threads, SpuriousWake(t) PROVE TypeOK'
  BY <1>2, SameSlots DEF SpuriousWake, TypeOK, queue
<1>3. ASSUME NEW s \in Senders, BeginSend(s, "enter") \/ BeginSend(s, "try") PROVE TypeOK'
  BY <1>3, SenderType
<1>4. ASSUME NEW r \in Receivers, BeginRecv(r) \/ TryRecv(r) PROVE TypeOK'
  BY <1>4, ReceiverType
<1>5. CASE Close
  BY <1>5, SameSlots DEF Close, TypeOK, Broadcast, queue
<1>6. CASE Free
  BY <1>6, SameSlots DEF Free, TypeOK, queue
<1>7. CASE UNCHANGED vars
  BY <1>7, SameSlots DEF vars, TypeOK
<1> QED
  BY <1>1, <1>2, <1>3, <1>4, <1>5, <1>6, <1>7 DEF Next

\* The ring's indices and count stay in range, and every slot holds an item or
\* nothing, whatever the interleaving of sends, receives, close and free.
THEOREM ChannelTypeCorrect == Spec => []TypeOK
  BY InitType, NextType, PTL DEF Spec

-----------------------------------------------------------------------------
(* No lost wake-up *)

\* Only the three wait loops put a thread to sleep.
SleepersWait == \A t \in asleep : pc[t] \in {"full", "offered", "empty"}

\* The inductive strengthening of NoLostWakeup.
WakeInv == TypeOK /\ SleepersWait /\ NoLostWakeup

\* A step of a sender leaves no sleeper behind: it sleeps with the condition still
\* false, wakes everybody, or changes nothing a sleeper waits for.
LEMMA SenderWakes ==
  ASSUME WakeInv, NEW s \in Senders,
         \/ BeginSend(s, "enter") \/ BeginSend(s, "try")
         \/ Send(s) \/ Withdraw(s) \/ TrySend(s)
  PROVE  SleepersWait' /\ NoLostWakeup'
<1>t. s \in Threads /\ asleep \subseteq Threads
      /\ pc \in [Threads -> {"idle", "enter", "try", "full", "offered", "empty", "took"}]
  BY DEF Threads, WakeInv, TypeOK
<1>1. CASE BeginSend(s, "enter") \/ BeginSend(s, "try")
  <2>1. s \notin asleep
    BY <1>1 DEF BeginSend, WakeInv, SleepersWait
  <2> QED
    BY <1>1, <2>1, <1>t
    DEF BeginSend, WakeInv, SleepersWait, NoLostWakeup, Goto, Return, queue, Full
<1>2. CASE Send(s)
  <2>1. CASE Full /\ ~closed /\ Sleep(s) /\ Goto(s, "full")
             /\ UNCHANGED <<queue, item, answer, rooted>>
    BY <1>2, <2>1, <1>t
    DEF Send, WakeInv, SleepersWait, NoLostWakeup, Goto, Sleep, queue, Full
  <2>2. CASE closed /\ Refuse(s)
    BY <1>2, <2>2, <1>t
    DEF Send, WakeInv, SleepersWait, NoLostWakeup, Goto, Return, Refuse, queue, Full
  <2>3. CASE ~Full /\ ~closed /\ capacity = 0 /\ Offer(s)
    BY <1>2, <2>3, <1>t DEF Send, SleepersWait, NoLostWakeup, Goto, Offer
  <2>4. CASE Put(s)
    BY <2>4 DEF Put, SleepersWait, NoLostWakeup, Broadcast
  <2> QED
    BY <1>2, <2>1, <2>2, <2>3, <2>4 DEF Send
<1>3. CASE Withdraw(s)
  <2>1. CASE count > 0 /\ ~closed /\ Sleep(s) /\ UNCHANGED <<buf, pc, item, answer>>
    BY <1>3, <2>1, <1>t
    DEF Withdraw, WakeInv, SleepersWait, NoLostWakeup, Sleep, Full
  <2>2. CASE Return(s, TRUE) /\ UNCHANGED asleep
    BY <1>3, <2>2, <1>t
    DEF Withdraw, WakeInv, SleepersWait, NoLostWakeup, Return, Goto, Full
  <2> QED
    BY <1>3, <2>1, <2>2 DEF Withdraw
<1>4. CASE TrySend(s)
  <2>1. CASE Refuse(s)
    <3>1. s \notin asleep
      BY <1>4 DEF TrySend, WakeInv, SleepersWait
    <3> QED
      BY <1>4, <2>1, <3>1, <1>t
      DEF TrySend, WakeInv, SleepersWait, NoLostWakeup, Goto, Return, Refuse, queue, Full
  <2>2. CASE Put(s)
    BY <2>2 DEF Put, SleepersWait, NoLostWakeup, Broadcast
  <2> QED
    BY <1>4, <2>1, <2>2 DEF TrySend
<1> QED
  BY <1>1, <1>2, <1>3, <1>4

\* So does a step of a receiver.
LEMMA ReceiverWakes ==
  ASSUME WakeInv, NEW r \in Receivers,
         BeginRecv(r) \/ Recv(r) \/ TryRecv(r) \/ FinishRecv(r)
  PROVE  SleepersWait' /\ NoLostWakeup'
<1>t. r \in Threads /\ asleep \subseteq Threads
      /\ pc \in [Threads -> {"idle", "enter", "try", "full", "offered", "empty", "took"}]
  BY DEF Threads, WakeInv, TypeOK
<1>1. CASE asleep' = {}
  BY <1>1 DEF SleepersWait, NoLostWakeup
<1>2. CASE Recv(r) /\ count = 0 /\ ~closed /\ Sleep(r)
           /\ UNCHANGED <<queue, pc, item, answer>>
  BY <1>2, <1>t DEF Recv, WakeInv, SleepersWait, NoLostWakeup, Sleep, queue, Full
<1>3. CASE /\ UNCHANGED <<queue, capacity, closed, asleep>>
           /\ r \notin asleep
           /\ \E place \in {"idle", "empty"} : Goto(r, place)
  BY <1>3, <1>t DEF WakeInv, SleepersWait, NoLostWakeup, Goto, queue, Full
<1>4. pc[r] \in {"idle", "took"} => r \notin asleep
  BY DEF WakeInv, SleepersWait
<1>5. CASE BeginRecv(r) \/ FinishRecv(r)
  BY <1>3, <1>4, <1>5 DEF BeginRecv, FinishRecv, Return
<1>6. CASE Recv(r)
  BY <1>1, <1>2, <1>3, <1>6 DEF Recv, Return, TakeOffer, Take, Broadcast
<1>7. CASE TryRecv(r)
  BY <1>1, <1>3, <1>4, <1>7 DEF TryRecv, Return, TakeOffer, Take, Broadcast
<1> QED
  BY <1>5, <1>6, <1>7

\* Every step keeps the strengthened invariant.
LEMMA NextWakes == WakeInv /\ [Next]_vars => WakeInv'
<1> SUFFICES ASSUME WakeInv, [Next]_vars PROVE SleepersWait' /\ NoLostWakeup'
  BY NextType DEF WakeInv
<1>1. ASSUME NEW t \in Threads, Progress(t) PROVE SleepersWait' /\ NoLostWakeup'
  BY <1>1, SenderWakes, ReceiverWakes DEF Progress
<1>2. ASSUME NEW t \in Threads, SpuriousWake(t) PROVE SleepersWait' /\ NoLostWakeup'
  BY <1>2 DEF SpuriousWake, WakeInv, SleepersWait, NoLostWakeup, queue, Full
<1>3. ASSUME NEW s \in Senders, BeginSend(s, "enter") \/ BeginSend(s, "try")
      PROVE  SleepersWait' /\ NoLostWakeup'
  BY <1>3, SenderWakes
<1>4. ASSUME NEW r \in Receivers, BeginRecv(r) \/ TryRecv(r)
      PROVE  SleepersWait' /\ NoLostWakeup'
  BY <1>4, ReceiverWakes
<1>5. CASE Close
  BY <1>5 DEF Close, SleepersWait, NoLostWakeup, Broadcast
<1>6. CASE Free
  BY <1>6 DEF Free, WakeInv, SleepersWait, NoLostWakeup, queue, Full
<1>7. CASE UNCHANGED vars
  BY <1>7 DEF vars, WakeInv, SleepersWait, NoLostWakeup, Full
<1> QED
  BY <1>1, <1>2, <1>3, <1>4, <1>5, <1>6, <1>7 DEF Next

\* With one condition variable for senders and receivers, no thread ever sleeps
\* on a channel that has already changed in the way it waits for.
THEOREM WakeupsKept == Spec => []NoLostWakeup
<1>1. Init => WakeInv
  BY InitType DEF Init, WakeInv, SleepersWait, NoLostWakeup
<1>2. WakeInv => NoLostWakeup
  BY DEF WakeInv
<1> QED
  BY <1>1, <1>2, NextWakes, PTL DEF Spec

-----------------------------------------------------------------------------
(* Where the items are *)

\* An item that has left the channel, and one that is in it.
Received(i) == i \in delivered \/ \E r \in Receivers : item[r] = i
Buffered(i) == IF capacity = 0 THEN count > 0 /\ buf[0] = i ELSE \E k \in Slots : buf[k] = i

\* A sender that has its item and has not yet put it into the channel.
Entering(s) == pc[s] \in {"enter", "try", "full"}

\* What each thread has in its hands.
Hands ==
  /\ \A s \in Senders :
       /\ pc[s] \in {"idle", "enter", "try", "full", "offered"}
       /\ pc[s] = "idle" => item[s] = NoItem
       /\ pc[s] # "idle" => sends[s] > 0 /\ item[s] = <<s, sends[s]>>
       /\ pc[s] = "offered" => capacity = 0
  /\ \A r \in Receivers :
       /\ pc[r] \in {"idle", "empty", "took"}
       /\ pc[r] # "took" => item[r] = NoItem
  /\ freed => \A t \in Threads : pc[t] = "idle"

\* The slots from head up to tail hold items, the others none.
Occupied(i) == IF head + count <= capacity THEN head <= i /\ i < head + count
               ELSE head <= i \/ i < head + count - capacity
Ring ==
  capacity > 0 =>
    /\ count <= capacity
    /\ tail = IF head + count < capacity THEN head + count ELSE head + count - capacity
    /\ \A i \in Slots : buf[i] # NoItem <=> Occupied(i)
    /\ \A i, j \in Slots : buf[i] = buf[j] /\ buf[i] # NoItem => i = j

\* An item is in one place: an item in the channel or past it has been sent and is in
\* no sender's hands any more, and no item is twice among the rest.
Places ==
  /\ \A i \in Items : Received(i) \/ Buffered(i) =>
       i[2] <= sends[i[1]] /\ ~(Entering(i[1]) /\ item[i[1]] = i)
  /\ \A i \in Items : ~(Received(i) /\ Buffered(i))
  /\ \A q, r \in Receivers : item[q] = item[r] /\ item[q] # NoItem => q = r

\* While a rendezvous channel is open, what was offered is on offer or was taken, and
\* what is on offer has its sender.
Offers ==
  capacity = 0 /\ ~closed =>
    /\ \A s \in Senders : pc[s] = "offered" => Received(item[s]) \/ Buffered(item[s])
    /\ count > 0 => \E s \in Senders : pc[s] = "offered" /\ buf[0] = item[s]

\* The inductive strengthening of HandlesOnTheirWay and FirstInFirstOut.
ItemInv == TypeOK /\ Hands /\ Ring /\ Places /\ Offers

-----------------------------------------------------------------------------
(* The steps, by what they do to the items *)

\* Nothing happens to the items; a thread may go to sleep or wake, and the channel close.
Quiet ==
  /\ UNCHANGED <<capacity, queue, sends, item, rooted, delivered, freed>>
  /\ closed => closed'
  /\ \A s \in Senders : pc'[s] = pc[s] \/ (Entering(s) /\ pc'[s] = "full")
  /\ \A r \in Receivers : pc'[r] = pc[r] \/ (pc[r] # "took" /\ pc'[r] \in {"idle", "empty"})
  /\ freed => pc' = pc

\* The sender s finds the channel closed, takes an item in hand, gets it back, puts it
\* into the ring, offers it, and withdraws its offer.
Skips(s) ==
  /\ pc[s] = "idle" /\ sends' = [sends EXCEPT ![s] = @ + 1]
  /\ UNCHANGED <<capacity, queue, closed, freed, pc, item, rooted, delivered>>
Starts(s) ==
  /\ pc[s] = "idle" /\ ~freed /\ sends[s] < MaxSends
  /\ sends' = [sends EXCEPT ![s] = @ + 1]
  /\ item' = [item EXCEPT ![s] = <<s, sends[s] + 1>>]
  /\ rooted' = rooted \cup {<<s, sends[s] + 1>>}
  /\ pc' \in {[pc EXCEPT ![s] = "enter"], [pc EXCEPT ![s] = "try"]}
  /\ UNCHANGED <<capacity, queue, closed, freed, delivered>>
Refused(s) ==
  /\ Entering(s)
  /\ pc' = [pc EXCEPT ![s] = "idle"]
  /\ item' = [item EXCEPT ![s] = NoItem]
  /\ rooted' = rooted \ {item[s]}
  /\ UNCHANGED <<capacity, queue, closed, freed, sends, delivered>>
Puts(s) ==
  /\ Entering(s) /\ capacity > 0 /\ count < capacity /\ ~closed
  /\ Put(s)
  /\ pc' = [pc EXCEPT ![s] = "idle"]
  /\ item' = [item EXCEPT ![s] = NoItem]
  /\ UNCHANGED <<capacity, closed, freed, sends, rooted, delivered>>
Offered(s) ==
  /\ Entering(s) /\ capacity = 0 /\ count = 0 /\ ~closed
  /\ Offer(s)
  /\ UNCHANGED <<capacity, closed, freed, sends, item, rooted, delivered>>
Withdrawn(s) ==
  /\ pc[s] = "offered" /\ (count = 0 \/ closed)
  /\ buf' = [buf EXCEPT ![0] = NoItem]
  /\ item' = [item EXCEPT ![s] = NoItem]
  /\ pc' = [pc EXCEPT ![s] = "idle"]
  /\ UNCHANGED <<head, tail, count, capacity, closed, freed, sends, rooted, delivered>>

\* The receiver r takes an item from the ring or from an offer, and lets it go.
Takes(r) ==
  /\ pc[r] \in {"idle", "empty"} /\ ~freed /\ capacity > 0 /\ count > 0
  /\ Take(r)
  /\ UNCHANGED <<capacity, closed, freed, sends, rooted, delivered>>
TakesOffer(r) ==
  /\ pc[r] \in {"idle", "empty"} /\ ~freed /\ capacity = 0 /\ count > 0
  /\ \E cell \in {buf[0], NoItem} : TakeOffer(r, cell)
  /\ UNCHANGED <<capacity, closed, freed, sends, rooted, delivered>>

\* What a sender does to the items, and what a receiver does.
SenderKind(s) ==
  Skips(s) \/ Starts(s) \/ Refused(s) \/ Puts(s) \/ Offered(s) \/ Withdrawn(s)
ReceiverKind(r) == Takes(r) \/ TakesOffer(r) \/ FinishRecv(r)
Kinds ==
  Quiet \/ Free \/ (\E s \in Senders : SenderKind(s)) \/ (\E r \in Receivers : ReceiverKind(r))

\* A sender's step is one of these.
LEMMA SenderKinds ==
  ASSUME ItemInv, NEW s \in Senders,
         \/ BeginSend(s, "enter") \/ BeginSend(s, "try")
         \/ Send(s) \/ Withdraw(s) \/ TrySend(s)
  PROVE  Quiet \/ SenderKind(s)
<1>t. /\ s \in Threads /\ s \notin Receivers
      /\ pc \in [Threads -> {"idle", "enter", "try", "full", "offered", "empty", "took"}]
      /\ Receivers \subseteq Threads /\ Senders \subseteq Threads
  BY ChannelAssumption DEF ChannelAssumption, Threads, ItemInv, TypeOK
<1>f. /\ ~Full /\ capacity > 0 => count < capacity
      /\ ~Full /\ capacity = 0 => count = 0
  BY ChannelAssumption, SMT DEF ChannelAssumption, ItemInv, TypeOK, Full
<1>e. freed => pc[s] = "idle"
  BY <1>t DEF ItemInv, Hands
<1>1. CASE BeginSend(s, "enter") \/ BeginSend(s, "try")
  <2>1. CASE closed /\ Return(s, FALSE) /\ UNCHANGED <<item, rooted>>
    <3>1. pc' = pc
      BY <1>1, <1>t, <2>1 DEF BeginSend, Return, Goto
    <3> QED
      BY <1>1, <2>1, <3>1 DEF BeginSend, SenderKind, Skips
  <2>2. CASE ~closed
    BY <1>1, <2>2 DEF BeginSend, SenderKind, Starts, Goto
  <2> QED
    BY <1>1, <2>1, <2>2 DEF BeginSend
<1>2. CASE Send(s)
  <2>1. CASE Full /\ ~closed /\ Sleep(s) /\ Goto(s, "full") /\ UNCHANGED <<queue, item, answer, rooted>>
    BY <1>2, <1>t, <1>e, <2>1 DEF Send, Goto, Quiet, Entering
  <2>2. CASE closed /\ Refuse(s)
    BY <1>2, <2>2 DEF Send, Refuse, Return, Goto, SenderKind, Refused, Entering, queue
  <2>3. CASE ~Full /\ ~closed /\ capacity = 0 /\ Offer(s) /\ UNCHANGED <<item, answer, rooted>>
    BY <1>2, <1>f, <2>3 DEF Send, SenderKind, Offered, Entering
  <2>4. CASE ~Full /\ ~closed /\ capacity > 0 /\ Put(s) /\ Return(s, TRUE)
             /\ item' = [item EXCEPT ![s] = NoItem] /\ UNCHANGED rooted
    BY <1>2, <1>f, <2>4 DEF Send, Return, Goto, SenderKind, Puts, Entering
  <2> QED
    BY <1>2, <2>1, <2>2, <2>3, <2>4 DEF Send
<1>3. CASE Withdraw(s)
  <2>1. CASE Sleep(s) /\ UNCHANGED <<buf, pc, item, answer>>
    BY <1>3, <2>1 DEF Withdraw, Quiet, queue
  <2>2. CASE /\ count = 0 \/ closed
             /\ buf' = [buf EXCEPT ![0] = NoItem] /\ item' = [item EXCEPT ![s] = NoItem]
             /\ Return(s, TRUE)
    BY <1>3, <2>2 DEF Withdraw, Return, Goto, SenderKind, Withdrawn
  <2> QED
    BY <1>3, <2>1, <2>2 DEF Withdraw
<1>4. CASE TrySend(s)
  <2>1. CASE Refuse(s)
    BY <1>4, <2>1 DEF TrySend, Refuse, Return, Goto, SenderKind, Refused, Entering, queue
  <2>2. CASE capacity > 0 /\ ~Full /\ ~closed /\ Put(s) /\ Return(s, TRUE)
             /\ item' = [item EXCEPT ![s] = NoItem] /\ UNCHANGED rooted
    BY <1>4, <1>f, <2>2 DEF TrySend, Return, Goto, SenderKind, Puts, Entering
  <2> QED
    BY <1>4, <2>1, <2>2 DEF TrySend
<1> QED
  BY <1>1, <1>2, <1>3, <1>4

\* A receiver's step is one of these.
LEMMA ReceiverKinds ==
  ASSUME ItemInv, NEW r \in Receivers,
         BeginRecv(r) \/ Recv(r) \/ TryRecv(r) \/ FinishRecv(r)
  PROVE  Quiet \/ ReceiverKind(r)
<1>t. /\ r \in Threads /\ r \notin Senders
      /\ pc \in [Threads -> {"idle", "enter", "try", "full", "offered", "empty", "took"}]
      /\ Receivers \subseteq Threads /\ Senders \subseteq Threads
  BY ChannelAssumption DEF ChannelAssumption, Threads, ItemInv, TypeOK
<1>e. freed => pc[r] = "idle"
  BY <1>t DEF ItemInv, Hands
<1>c. count > 0 \/ count = 0
  BY ChannelAssumption, SMT DEF ChannelAssumption, ItemInv, TypeOK
<1>1. CASE BeginRecv(r)
  BY <1>1, <1>t DEF BeginRecv, Goto, Quiet
<1>2. CASE Recv(r)
  <2>1. CASE count = 0 /\ ~closed /\ Sleep(r) /\ UNCHANGED <<queue, pc, item, answer>>
    BY <1>2, <2>1 DEF Recv, Quiet
  <2>2. CASE count = 0 /\ Return(r, FALSE) /\ UNCHANGED <<queue, item, asleep>>
    BY <1>2, <1>t, <1>e, <2>2 DEF Recv, Return, Goto, Quiet
  <2>3. CASE count > 0 /\ capacity = 0 /\ TakeOffer(r, buf[0])
    BY <1>2, <1>e, <2>3 DEF Recv, ReceiverKind, TakesOffer
  <2>4. CASE count > 0 /\ capacity > 0 /\ Take(r)
    BY <1>2, <1>e, <2>4 DEF Recv, ReceiverKind, Takes
  <2> QED
    BY <1>2, <2>1, <2>2, <2>3, <2>4 DEF Recv
<1>3. CASE TryRecv(r)
  <2>1. CASE count = 0 /\ Return(r, FALSE) /\ UNCHANGED <<queue, item, asleep>>
    BY <1>3, <1>t, <1>e, <2>1 DEF TryRecv, Return, Goto, Quiet
  <2>2. CASE count > 0 /\ capacity = 0 /\ TakeOffer(r, NoItem)
    BY <1>3, <2>2 DEF TryRecv, ReceiverKind, TakesOffer
  <2>3. CASE count > 0 /\ capacity > 0 /\ Take(r)
    BY <1>3, <2>3 DEF TryRecv, ReceiverKind, Takes
  <2> QED
    BY <1>3, <2>1, <2>2, <2>3 DEF TryRecv
<1>4. CASE FinishRecv(r)
  BY <1>4 DEF ReceiverKind
<1> QED
  BY <1>1, <1>2, <1>3, <1>4

\* So is every step of the specification.
LEMMA StepKinds == ItemInv /\ [Next]_vars => Kinds
<1> SUFFICES ASSUME ItemInv, [Next]_vars PROVE Kinds
  OBVIOUS
<1>1. ASSUME NEW t \in Threads, Progress(t) PROVE Kinds
  BY <1>1, SenderKinds, ReceiverKinds DEF Progress, Kinds
<1>2. ASSUME NEW t \in Threads, SpuriousWake(t) PROVE Kinds
  BY <1>2 DEF SpuriousWake, Kinds, Quiet
<1>3. ASSUME NEW s \in Senders, BeginSend(s, "enter") \/ BeginSend(s, "try") PROVE Kinds
  BY <1>3, SenderKinds DEF Kinds
<1>4. ASSUME NEW r \in Receivers, BeginRecv(r) \/ TryRecv(r) PROVE Kinds
  BY <1>4, ReceiverKinds DEF Kinds
<1>5. CASE Close
  BY <1>5 DEF Close, Kinds, Quiet
<1>6. CASE UNCHANGED vars
  BY <1>6 DEF vars, Kinds, Quiet, queue
<1> QED
  BY <1>1, <1>2, <1>3, <1>4, <1>5, <1>6 DEF Next, Kinds

-----------------------------------------------------------------------------
(* What the steps do to the ring and to the places of the items *)

\* No item is the absence of one.
LEMMA NoItemIsNone == NoItem \notin Items
  BY DEF NoItem, Items

\* The remainder of a sum of less than twice the capacity.
LEMMA Wraps ==
  ASSUME NEW b \in Nat, b > 0, NEW a \in Nat, a < 2 * b
  PROVE  a % b = IF a < b THEN a ELSE a - b
<1>1. CASE a < b
  BY <1>1, SMT
<1>2. CASE ~(a < b)
  BY <1>2, SMT
<1> QED
  BY <1>1, <1>2

\* Of the types, what the arithmetic of the ring needs.
LEMMA RingTypes ==
  ASSUME TypeOK
  PROVE  /\ capacity \in Nat /\ count \in Nat /\ head \in Nat /\ tail \in Nat
         /\ capacity > 0 => Slots = 0 .. capacity - 1
         /\ capacity = 0 => Slots = {0} /\ count \in {0, 1}
         /\ buf \in [Slots -> Items \cup {NoItem}]
  BY ChannelAssumption, SMT DEF ChannelAssumption, TypeOK, Slots

\* The item a sender is about to put into the channel is nowhere else.
LEMMA InHand ==
  ASSUME ItemInv, NEW s \in Senders, Entering(s)
  PROVE  /\ item[s] \in Items /\ item[s] = <<s, sends[s]>>
         /\ item[s][1] = s /\ item[s][2] = sends[s]
         /\ ~Received(item[s]) /\ ~Buffered(item[s])
<1>1. item[s] = <<s, sends[s]>> /\ sends[s] \in 1 .. MaxSends
  <2>1. pc[s] # "idle"
    BY DEF Entering
  <2> QED
    BY <2>1, ChannelAssumption, SMT DEF ChannelAssumption, ItemInv, Hands, TypeOK
<1>2. item[s] \in Items /\ item[s][1] = s /\ item[s][2] = sends[s]
  BY <1>1 DEF Items
<1> QED
  BY <1>1, <1>2 DEF ItemInv, Places

\* A sender that has offered an item still has it in hand.
LEMMA OfferedItem ==
  ASSUME ItemInv, NEW s \in Senders, pc[s] = "offered"
  PROVE  item[s] \in Items
<1>1. item[s] = <<s, sends[s]>> /\ sends[s] \in 1 .. MaxSends
  BY ChannelAssumption, SMT DEF ChannelAssumption, ItemInv, Hands, TypeOK
<1> QED
  BY <1>1 DEF Items

\* A put fills the free slot at the tail.
LEMMA PutRing ==
  ASSUME ItemInv, NEW s \in Senders, Puts(s)
  PROVE  /\ tail \in Slots /\ buf[tail] = NoItem /\ item[s] \in Items
         /\ \A k \in Slots : buf'[k] = IF k = tail THEN item[s] ELSE buf[k]
         /\ count' = count + 1 /\ head' = head
         /\ tail' = IF tail + 1 < capacity THEN tail + 1 ELSE 0
<1>t. /\ capacity \in Nat /\ count \in Nat /\ head \in Slots /\ tail \in Slots
      /\ capacity > 0 /\ count < capacity /\ Slots = 0 .. capacity - 1
      /\ buf \in [Slots -> Items \cup {NoItem}]
  BY RingTypes DEF ItemInv, TypeOK, Puts
<1>1. buf[tail] = NoItem
  <2>1. ~Occupied(tail)
    BY <1>t, SMT DEF ItemInv, Ring, Occupied
  <2> QED
    BY <1>t, <2>1 DEF ItemInv, Ring
<1>2. item[s] \in Items
  BY InHand DEF Puts
<1>3. (tail + 1) % capacity = IF tail + 1 < capacity THEN tail + 1 ELSE 0
  BY <1>t, Wraps, SMT
<1> QED
  BY <1>t, <1>1, <1>2, <1>3 DEF Puts, Put

\* So the ring stays one.
LEMMA PutKeepsRing ==
  ASSUME ItemInv, NEW s \in Senders, Puts(s)
  PROVE  Ring'
<1>t. /\ capacity \in Nat /\ count \in Nat /\ head \in Slots /\ capacity' = capacity
      /\ capacity > 0 /\ count < capacity /\ Slots = 0 .. capacity - 1 /\ Slots' = Slots
  BY RingTypes, SameSlots DEF ItemInv, TypeOK, Puts
<1>r. /\ tail = IF head + count < capacity THEN head + count ELSE head + count - capacity
      /\ \A i \in Slots : buf[i] # NoItem <=> Occupied(i)
      /\ \A i, j \in Slots : buf[i] = buf[j] /\ buf[i] # NoItem => i = j
  BY <1>t DEF ItemInv, Ring
<1>p. /\ tail \in Slots /\ buf[tail] = NoItem /\ item[s] \in Items
      /\ \A k \in Slots : buf'[k] = IF k = tail THEN item[s] ELSE buf[k]
      /\ count' = count + 1 /\ head' = head
      /\ tail' = IF tail + 1 < capacity THEN tail + 1 ELSE 0
  BY PutRing
<1>1. count' <= capacity
  BY <1>t, <1>p, SMT
<1>2. tail' = IF head' + count' < capacity THEN head' + count' ELSE head' + count' - capacity
  BY <1>t, <1>r, <1>p, SMT
<1>3. ASSUME NEW i \in Slots PROVE buf'[i] # NoItem <=> Occupied(i)'
  <2>1. Occupied(i)' <=> Occupied(i) \/ i = tail
    BY <1>t, <1>r, <1>p, SMT DEF Occupied
  <2> QED
    BY <1>r, <1>p, <2>1, NoItemIsNone
<1>4. ASSUME NEW i \in Slots PROVE buf[i] # item[s]
  <2>1. ~Buffered(item[s])
    BY InHand DEF Puts
  <2> QED
    BY <1>t, <2>1 DEF Buffered
<1>5. \A i, j \in Slots : buf'[i] = buf'[j] /\ buf'[i] # NoItem => i = j
  BY <1>r, <1>p, <1>4
<1> QED
  BY <1>t, <1>1, <1>2, <1>3, <1>5 DEF Ring

\* A take empties the slot at the head.
LEMMA TakeRing ==
  ASSUME ItemInv, NEW r \in Receivers, Takes(r)
  PROVE  /\ head \in Slots /\ buf[head] \in Items
         /\ \A k \in Slots : buf'[k] = IF k = head THEN NoItem ELSE buf[k]
         /\ count' = count - 1 /\ tail' = tail
         /\ head' = IF head + 1 < capacity THEN head + 1 ELSE 0
<1>t. /\ capacity \in Nat /\ count \in Nat /\ head \in Slots
      /\ capacity > 0 /\ count > 0 /\ Slots = 0 .. capacity - 1
      /\ buf \in [Slots -> Items \cup {NoItem}]
  BY RingTypes DEF ItemInv, TypeOK, Takes
<1>1. buf[head] \in Items
  <2>1. Occupied(head)
    BY <1>t, SMT DEF Occupied
  <2> QED
    BY <1>t, <2>1 DEF ItemInv, Ring
<1>3. (head + 1) % capacity = IF head + 1 < capacity THEN head + 1 ELSE 0
  BY <1>t, Wraps, SMT
<1> QED
  BY <1>t, <1>1, <1>3 DEF Takes, Take

\* The ring stays one again.
LEMMA TakeKeepsRing ==
  ASSUME ItemInv, NEW r \in Receivers, Takes(r)
  PROVE  Ring'
<1>t. /\ capacity \in Nat /\ count \in Nat /\ head \in Slots /\ capacity' = capacity
      /\ capacity > 0 /\ count > 0 /\ Slots = 0 .. capacity - 1 /\ Slots' = Slots
  BY RingTypes, SameSlots DEF ItemInv, TypeOK, Takes
<1>r. /\ tail = IF head + count < capacity THEN head + count ELSE head + count - capacity
      /\ count <= capacity
      /\ \A i \in Slots : buf[i] # NoItem <=> Occupied(i)
      /\ \A i, j \in Slots : buf[i] = buf[j] /\ buf[i] # NoItem => i = j
  BY <1>t DEF ItemInv, Ring
<1>p. /\ \A k \in Slots : buf'[k] = IF k = head THEN NoItem ELSE buf[k]
      /\ count' = count - 1 /\ tail' = tail
      /\ head' = IF head + 1 < capacity THEN head + 1 ELSE 0
  BY TakeRing
<1>2. /\ count' <= capacity
      /\ tail' = IF head' + count' < capacity THEN head' + count' ELSE head' + count' - capacity
  BY <1>t, <1>r, <1>p, SMT
<1>3. ASSUME NEW i \in Slots PROVE buf'[i] # NoItem <=> Occupied(i)'
  <2>1. Occupied(i)' <=> Occupied(i) /\ i # head
    BY <1>t, <1>r, <1>p, SMTT(30) DEF Occupied
  <2> QED
    BY <1>r, <1>p, <2>1
<1>5. \A i, j \in Slots : buf'[i] = buf'[j] /\ buf'[i] # NoItem => i = j
  BY <1>r, <1>p
<1> QED
  BY <1>t, <1>2, <1>3, <1>5 DEF Ring

\* The receivers' hands are the senders' business in no step of theirs.
LEMMA SenderKeepsReceived ==
  ASSUME ItemInv, NEW s \in Senders, SenderKind(s)
  PROVE  /\ \A i \in Items : Received(i)' <=> Received(i)
         /\ \A r \in Receivers : item'[r] = item[r] /\ pc'[r] = pc[r]
         /\ delivered' = delivered /\ capacity' = capacity /\ Slots' = Slots
<1>1. \A r \in Receivers : r \in Threads /\ r # s
  BY ChannelAssumption DEF ChannelAssumption, Threads
<1>2. /\ item \in [Threads -> Items \cup {NoItem}] /\ s \in Threads
      /\ pc \in [Threads -> {"idle", "enter", "try", "full", "offered", "empty", "took"}]
  BY DEF ItemInv, TypeOK, Threads
<1>3. \A r \in Receivers : item'[r] = item[r] /\ pc'[r] = pc[r]
  BY <1>1, <1>2
  DEF SenderKind, Skips, Starts, Refused, Puts, Offered, Withdrawn, Offer, Goto
<1>4. delivered' = delivered /\ capacity' = capacity
  BY DEF SenderKind, Skips, Starts, Refused, Puts, Offered, Withdrawn
<1> QED
  BY <1>3, <1>4, SameSlots DEF Received

\* The item a sender puts or offers is in the channel, and no other comes or goes.
LEMMA EnterMoves ==
  ASSUME ItemInv, NEW s \in Senders, Puts(s) \/ Offered(s), NEW i \in Items
  PROVE  Buffered(i)' <=> Buffered(i) \/ i = item[s]
<1>t. /\ capacity \in Nat /\ count \in Nat /\ capacity' = capacity /\ Slots' = Slots
      /\ capacity = 0 => Slots = {0}
      /\ buf \in [Slots -> Items \cup {NoItem}]
  BY RingTypes, SenderKeepsReceived DEF ItemInv, TypeOK, SenderKind
<1>1. CASE Puts(s)
  <2>1. /\ tail \in Slots /\ buf[tail] = NoItem
        /\ \A k \in Slots : buf'[k] = IF k = tail THEN item[s] ELSE buf[k]
    BY <1>1, PutRing
  <2>2. capacity # 0
    BY <1>1 DEF Puts
  <2> QED
    BY <1>t, <2>1, <2>2, NoItemIsNone DEF Buffered
<1>2. CASE Offered(s)
  BY <1>2, <1>t DEF Buffered, Offered, Offer
<1> QED
  BY <1>1, <1>2

\* Before that, and when it gets it back, nothing comes or goes.
LEMMA SenderStays ==
  ASSUME ItemInv, NEW s \in Senders, Skips(s) \/ Starts(s) \/ Refused(s), NEW i \in Items
  PROVE  Buffered(i)' <=> Buffered(i)
<1>1. UNCHANGED queue
  BY DEF Skips, Starts, Refused
<1>2. capacity' = capacity /\ Slots' = Slots
  BY SenderKeepsReceived DEF SenderKind
<1> QED
  BY <1>1, <1>2 DEF Buffered, queue

\* Only on a closed channel does the end of a rendezvous drop an item.
LEMMA WithdrawMoves ==
  ASSUME ItemInv, NEW s \in Senders, Withdrawn(s), NEW i \in Items
  PROVE  /\ Buffered(i)' => Buffered(i)
         /\ ~closed => (Buffered(i)' <=> Buffered(i))
<1>t. /\ capacity' = capacity /\ Slots' = Slots
      /\ capacity = 0 => Slots = {0}
      /\ buf \in [Slots -> Items \cup {NoItem}]
  BY RingTypes, SenderKeepsReceived DEF ItemInv, TypeOK, SenderKind
<1>1. capacity = 0
  BY DEF ItemInv, Hands, Withdrawn
<1>2. buf'[0] = NoItem /\ count' = count
  BY <1>t, <1>1 DEF Withdrawn
<1> QED
  BY <1>t, <1>1, <1>2, NoItemIsNone DEF Buffered, Withdrawn

\* The item a receiver takes leaves the channel and is in its hands.
LEMMA ReceiverMoves ==
  ASSUME ItemInv, NEW r \in Receivers, Takes(r) \/ TakesOffer(r), NEW i \in Items
  PROVE  LET taken == IF capacity = 0 THEN buf[0] ELSE buf[head] IN
         /\ taken \in Items \cup {NoItem} /\ item[r] = NoItem
         /\ item' = [item EXCEPT ![r] = taken] /\ pc' = [pc EXCEPT ![r] = "took"]
         /\ taken \in Items => Buffered(taken)
         /\ Buffered(i)' <=> Buffered(i) /\ i # taken
         /\ Received(i)' <=> Received(i) \/ i = taken
         /\ capacity > 0 => taken \in Items
<1> DEFINE taken == IF capacity = 0 THEN buf[0] ELSE buf[head]
<1>t. /\ capacity \in Nat /\ count \in Nat /\ capacity' = capacity /\ Slots' = Slots
      /\ capacity > 0 => Slots = 0 .. capacity - 1
      /\ capacity = 0 => Slots = {0}
      /\ head \in Slots
      /\ buf \in [Slots -> Items \cup {NoItem}] /\ 0 \in Slots
      /\ item \in [Threads -> Items \cup {NoItem}] /\ r \in Threads
      /\ Receivers \subseteq Threads
  BY RingTypes, SlotsNat, SameSlots DEF ItemInv, TypeOK, Takes, TakesOffer, Threads
<1>1. /\ item[r] = NoItem /\ item' = [item EXCEPT ![r] = taken]
      /\ pc' = [pc EXCEPT ![r] = "took"] /\ delivered' = delivered
  BY <1>t DEF Takes, TakesOffer, Take, TakeOffer, Goto, ItemInv, Hands
<1>2. taken \in Items => Buffered(taken)
  BY <1>t DEF Takes, TakesOffer, Buffered
<1>3. Received(i)' <=> Received(i) \/ i = taken
  <2>1. \A q \in Receivers : item'[q] = IF q = r THEN taken ELSE item[q]
    BY <1>t, <1>1
  <2> QED
    BY <1>1, <2>1, NoItemIsNone DEF Received
<1>4. CASE Takes(r)
  <2>1. /\ head \in Slots /\ buf[head] \in Items
        /\ \A k \in Slots : buf'[k] = IF k = head THEN NoItem ELSE buf[k]
    BY <1>4, TakeRing
  <2>2. \A k \in Slots : buf[k] = buf[head] => k = head
    BY <1>4, <2>1, NoItemIsNone DEF ItemInv, Ring, Takes
  <2>3. capacity > 0 /\ capacity # 0 /\ taken = buf[head]
    BY <1>4 DEF Takes
  <2>4. Buffered(i)' <=> Buffered(i) /\ i # taken
    BY <1>t, <2>1, <2>2, <2>3, NoItemIsNone DEF Buffered
  <2> QED
    BY <1>1, <1>2, <1>3, <2>1, <2>3, <2>4
<1>5. CASE TakesOffer(r)
  <2>1. capacity = 0 /\ count > 0 /\ count' = 0 /\ taken = buf[0]
    BY <1>5 DEF TakesOffer, TakeOffer
  <2>2. Buffered(i)' <=> Buffered(i) /\ i # taken
    BY <1>t, <2>1 DEF Buffered
  <2> QED
    BY <1>t, <1>1, <1>2, <1>3, <2>1, <2>2
<1> QED
  BY <1>4, <1>5

\* Letting an item go leaves it received.
LEMMA FinishMoves ==
  ASSUME ItemInv, NEW r \in Receivers, FinishRecv(r), NEW i \in Items
  PROVE  /\ Buffered(i)' <=> Buffered(i)
         /\ Received(i)' <=> Received(i)
<1>t. /\ item \in [Threads -> Items \cup {NoItem}] /\ r \in Threads
      /\ Receivers \subseteq Threads /\ Slots' = Slots
  BY SameSlots DEF ItemInv, TypeOK, Threads, FinishRecv
<1>1. \A q \in Receivers : item'[q] = IF q = r THEN NoItem ELSE item[q]
  BY <1>t DEF FinishRecv
<1>2. delivered' = delivered \cup ({item[r]} \ {NoItem})
  BY DEF FinishRecv
<1> QED
  BY <1>t, <1>1, <1>2, NoItemIsNone DEF Received, Buffered, FinishRecv, queue

-----------------------------------------------------------------------------
(* The invariant of the items *)

\* A new channel has no items.
LEMMA InitItems == Init => ItemInv
<1> SUFFICES ASSUME Init PROVE ItemInv
  OBVIOUS
<1>1. TypeOK /\ capacity \in Nat
  BY InitType, ChannelAssumption DEF ChannelAssumption, Init
<1>2. \A t \in Threads : pc[t] = "idle" /\ item[t] = NoItem
  BY DEF Init
<1>3. Hands
  BY <1>2 DEF Hands, Threads
<1>4. \A k \in Slots : buf[k] = NoItem
  BY DEF Init
<1>5. Ring
  BY <1>1, <1>4, RingTypes, SMT DEF Init, Ring, Occupied
<1>6. \A i \in Items : ~Received(i) /\ ~Buffered(i)
  BY <1>1, <1>2, <1>4, NoItemIsNone, SlotsNat DEF Init, Received, Buffered, Threads
<1>7. Places
  BY <1>2, <1>6 DEF Places, Threads
<1>8. Offers
  BY <1>2 DEF Offers, Init, Threads
<1> QED
  BY <1>1, <1>3, <1>5, <1>7, <1>8 DEF ItemInv

\* A step of a sender keeps what the threads have in their hands.
LEMMA SenderHands == ASSUME ItemInv, NEW s \in Senders, SenderKind(s) PROVE Hands'
<1>t. /\ item \in [Threads -> Items \cup {NoItem}] /\ s \in Threads /\ Senders \subseteq Threads
      /\ pc \in [Threads -> {"idle", "enter", "try", "full", "offered", "empty", "took"}]
      /\ sends \in [Senders -> 0 .. MaxSends] /\ MaxSends \in Nat /\ capacity' = capacity
  BY SenderKeepsReceived, ChannelAssumption DEF ChannelAssumption, ItemInv, TypeOK, Threads
<1>1. ASSUME NEW r \in Receivers
      PROVE  pc'[r] \in {"idle", "empty", "took"} /\ (pc'[r] # "took" => item'[r] = NoItem)
  BY SenderKeepsReceived DEF ItemInv, Hands
<1>2. freed' => \A t \in Threads : pc'[t] = "idle"
  <2>1. freed' = freed
    BY DEF SenderKind, Skips, Starts, Refused, Puts, Offered, Withdrawn
  <2>2. freed => Skips(s)
    BY <1>t DEF SenderKind, Starts, Refused, Puts, Offered, Withdrawn, Entering, ItemInv, Hands
  <2> QED
    BY <2>1, <2>2 DEF Skips, ItemInv, Hands
<1>3. ASSUME NEW u \in Senders, u # s
      PROVE  pc'[u] = pc[u] /\ item'[u] = item[u] /\ sends'[u] = sends[u]
  BY <1>t, <1>3
  DEF SenderKind, Skips, Starts, Refused, Puts, Offered, Withdrawn, Offer, Goto
<1>4. /\ pc'[s] \in {"idle", "enter", "try", "full", "offered"}
      /\ pc'[s] = "idle" => item'[s] = NoItem
      /\ pc'[s] # "idle" => sends'[s] > 0 /\ item'[s] = <<s, sends'[s]>>
      /\ pc'[s] = "offered" => capacity = 0
  <2>1. CASE Skips(s)
    BY <1>t, <2>1 DEF Skips, ItemInv, Hands
  <2>2. CASE Starts(s)
    BY <1>t, <2>2 DEF Starts
  <2>3. CASE Refused(s) \/ Puts(s) \/ Withdrawn(s)
    BY <1>t, <2>3 DEF Refused, Puts, Withdrawn
  <2>4. CASE Offered(s)
    <3>1. pc'[s] = "offered" /\ item' = item /\ sends' = sends /\ capacity = 0 /\ pc[s] # "idle"
      BY <1>t, <2>4 DEF Offered, Offer, Goto, Entering
    <3> QED
      BY <3>1 DEF ItemInv, Hands
  <2> QED
    BY <2>1, <2>2, <2>3, <2>4 DEF SenderKind
<1>5. ASSUME NEW u \in Senders
      PROVE  /\ pc'[u] \in {"idle", "enter", "try", "full", "offered"}
             /\ pc'[u] = "idle" => item'[u] = NoItem
             /\ pc'[u] # "idle" => sends'[u] > 0 /\ item'[u] = <<u, sends'[u]>>
             /\ pc'[u] = "offered" => capacity' = 0
  BY <1>t, <1>3, <1>4 DEF ItemInv, Hands
<1> QED
  BY <1>1, <1>2, <1>5 DEF Hands

\* So does a step of a receiver.
LEMMA ReceiverHands == ASSUME ItemInv, NEW r \in Receivers, ReceiverKind(r) PROVE Hands'
<1>t. /\ item \in [Threads -> Items \cup {NoItem}] /\ r \in Threads
      /\ pc \in [Threads -> {"idle", "enter", "try", "full", "offered", "empty", "took"}]
      /\ Senders \subseteq Threads /\ Receivers \subseteq Threads /\ r \notin Senders
  BY ChannelAssumption DEF ChannelAssumption, ItemInv, TypeOK, Threads
<1>1. UNCHANGED <<capacity, freed, sends>>
  BY DEF ReceiverKind, Takes, TakesOffer, FinishRecv
<1>2. ASSUME NEW u \in Threads, u # r PROVE pc'[u] = pc[u] /\ item'[u] = item[u]
  BY <1>t, <1>2
  DEF ReceiverKind, Takes, TakesOffer, FinishRecv, Take, TakeOffer, Goto, Return
<1>3. /\ pc'[r] \in {"idle", "empty", "took"}
      /\ pc'[r] # "took" => item'[r] = NoItem
  BY <1>t DEF ReceiverKind, Takes, TakesOffer, FinishRecv, Take, TakeOffer, Goto, Return
<1>4. ~freed
  BY <1>t DEF ReceiverKind, Takes, TakesOffer, FinishRecv, ItemInv, Hands
<1> QED
  BY <1>t, <1>1, <1>2, <1>3, <1>4 DEF ItemInv, Hands

\* A step of a sender keeps the ring, and every item in one place.
LEMMA SenderPlaces == ASSUME ItemInv, NEW s \in Senders, SenderKind(s) PROVE Ring' /\ Places'
<1>t. /\ item \in [Threads -> Items \cup {NoItem}] /\ s \in Threads /\ Senders \subseteq Threads
      /\ pc \in [Threads -> {"idle", "enter", "try", "full", "offered", "empty", "took"}]
      /\ sends \in [Senders -> 0 .. MaxSends] /\ MaxSends \in Nat /\ capacity' = capacity
  BY SenderKeepsReceived, ChannelAssumption DEF ChannelAssumption, ItemInv, TypeOK, Threads
<1>0. /\ \A i \in Items : Received(i)' <=> Received(i)
      /\ \A r \in Receivers : item'[r] = item[r]
  BY SenderKeepsReceived
<1>1. Ring'
  <2>1. CASE Puts(s)
    BY <2>1, PutKeepsRing
  <2>2. CASE Skips(s) \/ Starts(s) \/ Refused(s)
    BY <2>2, SameSlots DEF Skips, Starts, Refused, queue, ItemInv, Ring, Occupied
  <2>3. CASE Offered(s) \/ Withdrawn(s)
    BY <2>3 DEF Offered, Withdrawn, ItemInv, Ring, Hands
  <2> QED
    BY <2>1, <2>2, <2>3 DEF SenderKind
<1>2. ASSUME NEW i \in Items, Received(i)' \/ Buffered(i)'
      PROVE  i[2] <= sends'[i[1]] /\ ~(Entering(i[1])' /\ item'[i[1]] = i)
  <2>i. PICK u \in Senders, n \in 1 .. MaxSends : i = <<u, n>>
    BY DEF Items
  <2>u. i[1] = u /\ i[2] = n
    BY <2>i
  <2>o. u # s => pc'[u] = pc[u] /\ item'[u] = item[u] /\ sends'[u] = sends[u]
    BY <1>t
    DEF SenderKind, Skips, Starts, Refused, Puts, Offered, Withdrawn, Offer, Goto
  <2>1. CASE (Received(i) \/ Buffered(i)) /\ u # s
    BY <2>1, <2>u, <2>o DEF ItemInv, Places, Entering
  <2>2. CASE (Received(i) \/ Buffered(i)) /\ u = s
    <3>1. n <= sends[s]
      BY <2>2, <2>u DEF ItemInv, Places
    <3>2. CASE Skips(s)
      BY <1>t, <2>u, <2>2, <3>1, <3>2, SMT DEF Skips, Entering
    <3>3. CASE Starts(s)
      <4>1. sends'[s] = sends[s] + 1 /\ item'[s] = <<s, sends[s] + 1>>
        BY <1>t, <3>3 DEF Starts
      <4>2. n # sends[s] + 1 /\ n <= sends[s] + 1
        BY <1>t, <3>1, SMT
      <4> QED
        BY <2>i, <2>u, <2>2, <4>1, <4>2
    <3>4. CASE Refused(s) \/ Puts(s) \/ Offered(s) \/ Withdrawn(s)
      <4>1. pc'[s] \in {"idle", "offered"} /\ sends' = sends
        BY <1>t, <3>4 DEF Refused, Puts, Offered, Withdrawn, Offer, Goto
      <4> QED
        BY <2>u, <2>2, <3>1, <4>1 DEF Entering
    <3> QED
      BY <3>2, <3>3, <3>4 DEF SenderKind
  <2>3. CASE ~Received(i) /\ ~Buffered(i)
    <3>1. (Puts(s) \/ Offered(s)) /\ i = item[s]
      BY <1>0, <1>2, <2>3, EnterMoves, SenderStays, WithdrawMoves DEF SenderKind
    <3>2. u = s /\ n = sends[s] /\ sends' = sends /\ pc'[s] \in {"idle", "offered"}
      <4>1. Entering(s)
        BY <3>1 DEF Puts, Offered
      <4>2. item[s][1] = s /\ item[s][2] = sends[s]
        BY <4>1, InHand
      <4> QED
        BY <1>t, <2>u, <3>1, <4>2 DEF Puts, Offered, Offer, Goto
    <3> QED
      BY <1>t, <2>u, <3>2, SMT DEF Entering
  <2> QED
    BY <2>1, <2>2, <2>3
<1>3. ASSUME NEW i \in Items PROVE ~(Received(i)' /\ Buffered(i)')
  <2>1. ~(Received(i) /\ Buffered(i))
    BY DEF ItemInv, Places
  <2>2. CASE Puts(s) \/ Offered(s)
    <3>1. ~Received(item[s])
      BY <2>2, InHand DEF Puts, Offered
    <3> QED
      BY <1>0, <2>1, <2>2, <3>1, EnterMoves
  <2>3. CASE Skips(s) \/ Starts(s) \/ Refused(s)
    BY <1>0, <2>1, <2>3, SenderStays
  <2>4. CASE Withdrawn(s)
    BY <1>0, <2>1, <2>4, WithdrawMoves
  <2> QED
    BY <2>2, <2>3, <2>4 DEF SenderKind
<1>4. \A q, r \in Receivers : item'[q] = item'[r] /\ item'[q] # NoItem => q = r
  BY <1>0 DEF ItemInv, Places
<1> QED
  BY <1>1, <1>2, <1>3, <1>4 DEF Places

\* A step of a receiver does so, too.
LEMMA ReceiverPlaces ==
  ASSUME ItemInv, NEW r \in Receivers, ReceiverKind(r)
  PROVE  Ring' /\ Places'
<1>t. /\ item \in [Threads -> Items \cup {NoItem}] /\ r \in Threads
      /\ pc \in [Threads -> {"idle", "enter", "try", "full", "offered", "empty", "took"}]
      /\ Senders \subseteq Threads /\ Receivers \subseteq Threads /\ r \notin Senders
      /\ capacity' = capacity /\ Slots' = Slots /\ sends' = sends
  BY ChannelAssumption, SameSlots
  DEF ChannelAssumption, ItemInv, TypeOK, Threads, ReceiverKind, Takes, TakesOffer, FinishRecv
<1>1. Ring'
  <2>1. CASE Takes(r)
    BY <2>1, TakeKeepsRing
  <2>2. CASE TakesOffer(r)
    BY <2>2, <1>t DEF TakesOffer, Ring
  <2>3. CASE FinishRecv(r)
    BY <2>3, <1>t DEF FinishRecv, queue, ItemInv, Ring, Occupied
  <2> QED
    BY <2>1, <2>2, <2>3 DEF ReceiverKind
<1>s. ASSUME NEW u \in Senders PROVE pc'[u] = pc[u] /\ item'[u] = item[u]
  BY <1>t
  DEF ReceiverKind, Takes, TakesOffer, FinishRecv, Take, TakeOffer, Goto, Return
<1>2. ASSUME NEW i \in Items
      PROVE  (Received(i)' \/ Buffered(i)') <=> (Received(i) \/ Buffered(i))
  BY ReceiverMoves, FinishMoves DEF ReceiverKind
<1>3. ASSUME NEW i \in Items, Received(i)' \/ Buffered(i)'
      PROVE  i[2] <= sends'[i[1]] /\ ~(Entering(i[1])' /\ item'[i[1]] = i)
  <2>1. i[1] \in Senders
    BY DEF Items
  <2> QED
    BY <1>t, <1>s, <1>2, <1>3, <2>1 DEF ItemInv, Places, Entering
<1>4. ASSUME NEW i \in Items PROVE ~(Received(i)' /\ Buffered(i)')
  <2>1. ~(Received(i) /\ Buffered(i))
    BY DEF ItemInv, Places
  <2> QED
    BY <2>1, ReceiverMoves, FinishMoves DEF ReceiverKind
<1>5. \A q, u \in Receivers : item'[q] = item'[u] /\ item'[q] # NoItem => q = u
  <2>1. CASE FinishRecv(r)
    <3>1. \A q \in Receivers : item'[q] = IF q = r THEN NoItem ELSE item[q]
      BY <1>t, <2>1 DEF FinishRecv
    <3> QED
      BY <3>1 DEF ItemInv, Places
  <2>2. CASE Takes(r) \/ TakesOffer(r)
    <3> DEFINE taken == IF capacity = 0 THEN buf[0] ELSE buf[head]
    <3>1. \A q \in Receivers : item'[q] = IF q = r THEN taken ELSE item[q]
      <4>1. CASE Takes(r)
        BY <1>t, <4>1 DEF Takes, Take
      <4>2. CASE TakesOffer(r)
        BY <1>t, <4>2 DEF TakesOffer, TakeOffer
      <4> QED
        BY <2>2, <4>1, <4>2
    <3>2. taken \in Items => Buffered(taken)
      BY <2>2, RingTypes DEF Takes, TakesOffer, Buffered, ItemInv, TypeOK
    <3>3. taken # NoItem => \A q \in Receivers : item[q] # taken
      <4>1. \A q \in Receivers : item[q] # NoItem => item[q] \in Items
        BY <1>t
      <4>2. \A q \in Receivers : item[q] \in Items => Received(item[q])
        BY DEF Received
      <4> QED
        BY <3>2, <4>1, <4>2 DEF ItemInv, Places
    <3> HIDE DEF taken
    <3> QED
      BY <3>1, <3>3 DEF ItemInv, Places
  <2> QED
    BY <2>1, <2>2 DEF ReceiverKind
<1> QED
  BY <1>1, <1>3, <1>4, <1>5 DEF Places

\* Quiet steps and the freeing of the channel leave the items where they are.
LEMMA QuietItems == ASSUME ItemInv, Quiet \/ Free PROVE Hands' /\ Ring' /\ Places' /\ Offers'
<1>t. Senders \subseteq Threads /\ Receivers \subseteq Threads
  BY DEF Threads
<1>1. /\ UNCHANGED <<capacity, queue, sends, item, delivered>>
      /\ closed => closed'
      /\ \A s \in Senders : pc'[s] = pc[s] \/ (Entering(s) /\ pc'[s] = "full")
      /\ \A r \in Receivers : pc'[r] = pc[r] \/ (pc[r] # "took" /\ pc'[r] \in {"idle", "empty"})
      /\ freed' => (\A t \in Threads : pc'[t] = "idle")
  <2>1. CASE Quiet
    BY <2>1, <1>t DEF Quiet, ItemInv, Hands
  <2>2. CASE Free
    BY <2>2 DEF Free
  <2> QED
    BY <2>1, <2>2
<1>2. UNCHANGED <<buf, head, tail, count>> /\ Slots' = Slots
  BY <1>1, SameSlots DEF queue
<1>3. \A i \in Items : (Received(i)' <=> Received(i)) /\ (Buffered(i)' <=> Buffered(i))
  BY <1>1, <1>2 DEF Received, Buffered
<1>4. Hands'
  BY <1>1 DEF ItemInv, Hands, Entering
<1>5. Ring'
  BY <1>1, <1>2 DEF ItemInv, Ring, Occupied
<1>6. Places'
  <2>1. \A i \in Items : i[1] \in Senders
    BY DEF Items
  <2> QED
    BY <1>1, <1>3, <2>1 DEF ItemInv, Places, Entering
<1>7. Offers'
  <2> SUFFICES ASSUME capacity = 0, ~closed, ~closed'
               PROVE  Offers'
    BY <1>1 DEF Offers
  <2>1. \A s \in Senders : pc'[s] = "offered" <=> pc[s] = "offered"
    BY <1>1 DEF Entering
  <2>2. ASSUME NEW s \in Senders, pc'[s] = "offered"
        PROVE  (Received(item[s]) \/ Buffered(item[s]))'
    BY <1>1, <1>2, <2>1, <2>2 DEF ItemInv, Offers, Received, Buffered
  <2>3. count' > 0 => \E s \in Senders : pc'[s] = "offered" /\ buf'[0] = item'[s]
    BY <1>1, <1>2, <2>1 DEF ItemInv, Offers
  <2> QED
    BY <2>2, <2>3 DEF Offers
<1> QED
  BY <1>4, <1>5, <1>6, <1>7

\* A sender that leaves an open rendezvous leaves because its item was taken, and takes
\* nobody else's offer along.
LEMMA SenderOffers == ASSUME ItemInv, NEW s \in Senders, SenderKind(s) PROVE Offers'
<1> SUFFICES ASSUME capacity = 0, ~closed
             PROVE  /\ \A u \in Senders : pc'[u] = "offered" =>
                         (Received(item[u]) \/ Buffered(item[u]))'
                    /\ count' > 0 => \E u \in Senders : pc'[u] = "offered" /\ buf'[0] = item'[u]
  BY SenderKeepsReceived
  DEF SenderKind, Skips, Starts, Refused, Puts, Offered, Withdrawn, Offers
<1>t. /\ item \in [Threads -> Items \cup {NoItem}] /\ s \in Threads /\ Senders \subseteq Threads
      /\ pc \in [Threads -> {"idle", "enter", "try", "full", "offered", "empty", "took"}]
      /\ sends \in [Senders -> 0 .. MaxSends]
      /\ buf \in [Slots -> Items \cup {NoItem}] /\ Slots = {0} /\ count \in {0, 1}
  BY RingTypes DEF ItemInv, TypeOK, Threads
<1>o. /\ \A u \in Senders : pc[u] = "offered" => Received(item[u]) \/ Buffered(item[u])
      /\ count > 0 => \E u \in Senders : pc[u] = "offered" /\ buf[0] = item[u]
  BY DEF ItemInv, Offers
<1>i. \A u \in Senders : pc[u] = "offered" => item[u] \in Items
  BY OfferedItem
<1>k. ASSUME NEW u \in Senders, u # s PROVE pc'[u] = pc[u] /\ item'[u] = item[u]
  BY <1>t, <1>k
  DEF SenderKind, Skips, Starts, Refused, Puts, Offered, Withdrawn, Offer, Goto
<1>1. CASE Skips(s) \/ Starts(s) \/ Refused(s)
  <2>1. UNCHANGED <<buf, count>>
    BY <1>1 DEF Skips, Starts, Refused, queue
  <2>2. pc[s] # "offered" /\ pc'[s] # "offered"
    BY <1>t, <1>1 DEF Skips, Starts, Refused, Entering
  <2>3. \A i \in Items : Received(i) \/ Buffered(i) => Received(i)' \/ Buffered(i)'
    BY <1>1, SenderKeepsReceived, SenderStays DEF SenderKind
  <2> QED
    BY <1>o, <1>i, <1>k, <2>1, <2>2, <2>3
<1>2. CASE Offered(s)
  <2>1. /\ pc'[s] = "offered" /\ item' = item /\ buf'[0] = item[s] /\ count = 0 /\ item[s] \in Items
    BY <1>t, <1>2, InHand DEF Offered, Offer, Goto
  <2>2. \A i \in Items : Received(i) \/ Buffered(i) \/ i = item[s] => Received(i)' \/ Buffered(i)'
    BY <1>2, SenderKeepsReceived, EnterMoves DEF SenderKind
  <2> QED
    BY <1>o, <1>i, <1>k, <2>1, <2>2
<1>3. CASE Withdrawn(s)
  <2>1. pc'[s] = "idle" /\ count' = count /\ count = 0
    BY <1>t, <1>3 DEF Withdrawn
  <2>2. \A i \in Items : Received(i) \/ Buffered(i) => Received(i)' \/ Buffered(i)'
    BY <1>3, SenderKeepsReceived, WithdrawMoves DEF SenderKind
  <2> QED
    BY <1>t, <1>o, <1>i, <1>k, <2>1, <2>2
<1> QED
  BY <1>1, <1>2, <1>3 DEF SenderKind, Puts

\* Taking an offer moves it on.
LEMMA ReceiverOffers == ASSUME ItemInv, NEW r \in Receivers, ReceiverKind(r) PROVE Offers'
<1> SUFFICES ASSUME capacity = 0, ~closed
             PROVE  /\ \A u \in Senders : pc'[u] = "offered" =>
                         (Received(item[u]) \/ Buffered(item[u]))'
                    /\ count' > 0 => \E u \in Senders : pc'[u] = "offered" /\ buf'[0] = item'[u]
  BY DEF ReceiverKind, Takes, TakesOffer, FinishRecv, Offers
<1>t. /\ item \in [Threads -> Items \cup {NoItem}] /\ r \in Threads
      /\ pc \in [Threads -> {"idle", "enter", "try", "full", "offered", "empty", "took"}]
      /\ Senders \subseteq Threads /\ r \notin Senders
  BY ChannelAssumption DEF ChannelAssumption, ItemInv, TypeOK, Threads
<1>o. /\ \A u \in Senders : pc[u] = "offered" => Received(item[u]) \/ Buffered(item[u])
      /\ count > 0 => \E u \in Senders : pc[u] = "offered" /\ buf[0] = item[u]
  BY DEF ItemInv, Offers
<1>i. \A u \in Senders : pc[u] = "offered" => item[u] \in Items
  BY OfferedItem
<1>k. ASSUME NEW u \in Senders PROVE pc'[u] = pc[u] /\ item'[u] = item[u]
  BY <1>t DEF ReceiverKind, Takes, TakesOffer, FinishRecv, Take, TakeOffer, Goto, Return
<1>1. \A i \in Items : Received(i) \/ Buffered(i) => Received(i)' \/ Buffered(i)'
  BY ReceiverMoves, FinishMoves DEF ReceiverKind
<1>2. count' > 0 => UNCHANGED <<buf, count>>
  BY DEF ReceiverKind, Takes, TakesOffer, TakeOffer, FinishRecv, queue
<1> QED
  BY <1>o, <1>i, <1>k, <1>1, <1>2

\* Every step keeps the invariant.
LEMMA NextItems == ItemInv /\ [Next]_vars => ItemInv'
<1> SUFFICES ASSUME ItemInv, [Next]_vars PROVE ItemInv'
  OBVIOUS
<1>1. TypeOK'
  BY NextType DEF ItemInv
<1>2. Kinds
  BY StepKinds
<1> QED
  BY <1>1, <1>2, QuietItems, SenderHands, SenderPlaces, SenderOffers,
     ReceiverHands, ReceiverPlaces, ReceiverOffers
  DEF ItemInv, Kinds

\* The invariant of the items holds.
LEMMA ItemsKept == Spec => []ItemInv
  BY InitItems, NextItems, PTL DEF Spec

\* A rendezvous send that returns true on an open channel has handed its item over,
\* however many senders and receivers meet on the channel.
THEOREM SentMeansTaken == Spec => SendMeansTaken
<1>1. ASSUME ItemInv, [Next]_vars, NEW s \in Senders,
             pc[s] = "offered", pc'[s] = "idle", ~closed
      PROVE  item[s] \in delivered \/ \E r \in Receivers : item[r] = item[s]
  <2>t. /\ pc \in [Threads -> {"idle", "enter", "try", "full", "offered", "empty", "took"}]
        /\ Senders \subseteq Threads /\ Receivers \subseteq Threads
        /\ \A u \in Receivers : u # s
    BY <1>1, ChannelAssumption DEF ChannelAssumption, Threads, ItemInv, TypeOK
  <2>1. Withdrawn(s)
    <3>1. ~Quiet /\ ~Free
      BY <1>1 DEF Quiet, Free, Entering
    <3>2. ASSUME NEW u \in Senders, SenderKind(u) PROVE Withdrawn(s)
      BY <1>1, <2>t, <3>2
      DEF SenderKind, Skips, Starts, Refused, Puts, Offered, Withdrawn, Offer, Goto, Entering
    <3>3. ASSUME NEW r \in Receivers, ReceiverKind(r) PROVE FALSE
      BY <1>1, <2>t, <3>3
      DEF ReceiverKind, Takes, TakesOffer, FinishRecv, Take, TakeOffer, Goto, Return
    <3> QED
      BY <1>1, <3>1, <3>2, <3>3, StepKinds DEF Kinds
  <2>2. capacity = 0 /\ count = 0
    BY <1>1, <2>1 DEF Withdrawn, ItemInv, Hands
  <2>3. Received(item[s])
    BY <1>1, <2>2 DEF ItemInv, Offers, Buffered
  <2> QED
    BY <2>3 DEF Received
<1>2. ItemInv /\ [Next]_vars =>
        [\A s \in Senders : pc[s] = "offered" /\ pc'[s] = "idle" /\ ~closed =>
           \/ item[s] \in delivered
           \/ \E r \in Receivers : item[r] = item[s]]_vars
  BY <1>1
<1> QED
  BY <1>2, ItemsKept, PTL DEF Spec, SendMeansTaken

-----------------------------------------------------------------------------
(* The items' handles *)

\* Item i is on its way: in a sender's hands, in the channel or in a receiver's hands.
SenderHas(i)   == \E s \in Senders : Entering(s) /\ item[s] = i
ReceiverHas(i) == \E r \in Receivers : item[r] = i
Carried(i) == SenderHas(i) \/ ReceiverHas(i) \/ (~freed /\ Buffered(i))

\* HandlesOnTheirWay, one item at a time.
Accounted == capacity > 0 \/ ~closed => \A i \in Items : i \in rooted <=> Carried(i)

\* The invariant makes the equality of sets a statement about each item.
LEMMA AccountedIsProperty == ItemInv => (Accounted <=> HandlesOnTheirWay)
<1> SUFFICES ASSUME ItemInv PROVE Accounted <=> HandlesOnTheirWay
  OBVIOUS
<1> DEFINE hands == {item[t] : t \in {u \in Threads : pc[u] # "offered"}}
           held == IF freed \/ count = 0 THEN {} ELSE {buf[i] : i \in Slots}
<1>t. /\ item \in [Threads -> Items \cup {NoItem}] /\ rooted \subseteq Items
      /\ buf \in [Slots -> Items \cup {NoItem}]
      /\ capacity \in Nat /\ count \in Nat /\ head \in Nat
      /\ capacity > 0 => Slots = 0 .. capacity - 1
      /\ capacity = 0 => Slots = {0}
  BY RingTypes DEF ItemInv, TypeOK
<1>1. ASSUME NEW i \in Items
      PROVE  i \in hands <=> SenderHas(i) \/ ReceiverHas(i)
  BY NoItemIsNone DEF ItemInv, Hands, Entering, Threads, SenderHas, ReceiverHas
<1>2. ASSUME NEW i \in Items
      PROVE  i \in held <=> ~freed /\ Buffered(i)
  <2>1. CASE capacity = 0
    BY <1>t, <2>1 DEF Buffered
  <2>2. CASE capacity > 0
    <3>1. count = 0 => \A k \in Slots : buf[k] = NoItem
      <4>1. count = 0 => \A k \in Slots : ~Occupied(k)
        BY <1>t, <2>2, SMT DEF Occupied, ItemInv, TypeOK
      <4> QED
        BY <2>2, <4>1 DEF ItemInv, Ring
    <3> QED
      BY <1>t, <2>2, <3>1, NoItemIsNone DEF Buffered
  <2> QED
    BY <1>t, <2>1, <2>2
<1>3. hands \subseteq Items \cup {NoItem} /\ held \subseteq Items \cup {NoItem}
  BY <1>t
<1>4. HandlesOnTheirWay <=> (capacity > 0 \/ ~closed => rooted = (hands \cup held) \ {NoItem})
  BY DEF HandlesOnTheirWay
<1>5. ASSUME NEW i \in Items PROVE i \in (hands \cup held) \ {NoItem} <=> Carried(i)
  BY <1>1, <1>2, NoItemIsNone DEF Carried
<1> HIDE DEF hands, held
<1> QED
  BY <1>t, <1>3, <1>4, <1>5 DEF Accounted

\* A sender roots what it takes in hand and releases what it gets back.
LEMMA SenderAccounts ==
  ASSUME ItemInv, Accounted, NEW s \in Senders, SenderKind(s)
  PROVE  Accounted'
<1>c. capacity' = capacity /\ closed' = closed /\ freed' = freed
  BY DEF SenderKind, Skips, Starts, Refused, Puts, Offered, Withdrawn
<1> SUFFICES ASSUME capacity > 0 \/ ~closed, NEW i \in Items
             PROVE  i \in rooted' <=> Carried(i)'
  BY <1>c DEF Accounted
<1>t. /\ item \in [Threads -> Items \cup {NoItem}] /\ s \in Threads /\ Senders \subseteq Threads
      /\ pc \in [Threads -> {"idle", "enter", "try", "full", "offered", "empty", "took"}]
      /\ i \in rooted <=> Carried(i)
      /\ ReceiverHas(i)' <=> ReceiverHas(i)
  BY SenderKeepsReceived DEF ItemInv, TypeOK, Threads, Accounted, ReceiverHas
<1>k. ASSUME NEW u \in Senders, u # s PROVE pc'[u] = pc[u] /\ item'[u] = item[u]
  BY <1>t, <1>k
  DEF SenderKind, Skips, Starts, Refused, Puts, Offered, Withdrawn, Offer, Goto
<1>e. ASSUME NEW u \in Senders, Entering(u) PROVE ~freed /\ item[u][1] = u
  BY <1>t, <1>e, InHand DEF ItemInv, Hands, Entering
<1>1. CASE Skips(s)
  <2>1. rooted' = rooted /\ (SenderHas(i)' <=> SenderHas(i))
    BY <1>1 DEF Skips, SenderHas, Entering
  <2>2. Buffered(i)' <=> Buffered(i)
    BY <1>1, SenderStays
  <2> QED
    BY <1>t, <1>c, <2>1, <2>2 DEF Carried
<1>2. CASE Starts(s)
  <2>1. item'[s] = <<s, sends[s] + 1>> /\ ~Entering(s) /\ pc'[s] \in {"enter", "try"}
    BY <1>t, <1>2 DEF Starts, Entering
  <2>2. SenderHas(i)' <=> SenderHas(i) \/ i = item'[s]
    BY <1>k, <2>1 DEF Entering, SenderHas
  <2>3. i \in rooted' <=> i \in rooted \/ i = item'[s]
    BY <1>2, <2>1 DEF Starts
  <2>4. Buffered(i)' <=> Buffered(i)
    BY <1>2, SenderStays
  <2> QED
    BY <1>t, <1>c, <2>2, <2>3, <2>4 DEF Carried
<1>3. CASE Refused(s)
  <2>1. Entering(s) /\ ~Entering(s)' /\ rooted' = rooted \ {item[s]}
    BY <1>t, <1>3 DEF Refused, Entering
  <2>2. SenderHas(i)' <=> SenderHas(i) /\ i # item[s]
    BY <1>k, <1>e, <2>1 DEF Entering, SenderHas
  <2>3. i = item[s] => ~ReceiverHas(i) /\ ~Buffered(i)
    BY <2>1, InHand DEF Received, ReceiverHas
  <2>4. i \in rooted' <=> i \in rooted /\ i # item[s]
    BY <2>1
  <2>5. Buffered(i)' <=> Buffered(i)
    BY <1>3, SenderStays
  <2> QED
    BY <1>t, <1>c, <2>2, <2>3, <2>4, <2>5 DEF Carried
<1>4. CASE Puts(s) \/ Offered(s)
  <2>1. Entering(s) /\ ~Entering(s)' /\ rooted' = rooted
    BY <1>t, <1>4 DEF Puts, Offered, Offer, Goto, Entering
  <2>2. SenderHas(i)' <=> SenderHas(i) /\ i # item[s]
    BY <1>k, <1>e, <2>1 DEF Entering, SenderHas
  <2>3. ~freed /\ (i = item[s] => SenderHas(i))
    BY <1>e, <2>1 DEF SenderHas
  <2>4. Buffered(i)' <=> Buffered(i) \/ i = item[s]
    BY <1>4, EnterMoves
  <2> QED
    BY <1>t, <1>c, <2>1, <2>2, <2>3, <2>4 DEF Carried
<1>5. CASE Withdrawn(s)
  <2>1. ~Entering(s) /\ ~Entering(s)' /\ rooted' = rooted /\ ~closed
    BY <1>t, <1>5 DEF Withdrawn, Entering, ItemInv, Hands
  <2>2. SenderHas(i)' <=> SenderHas(i)
    BY <1>k, <2>1 DEF Entering, SenderHas
  <2>3. Buffered(i)' <=> Buffered(i)
    BY <1>5, <2>1, WithdrawMoves
  <2> QED
    BY <1>t, <1>c, <2>1, <2>2, <2>3 DEF Carried
<1> QED
  BY <1>1, <1>2, <1>3, <1>4, <1>5 DEF SenderKind

\* A receiver carries on what it takes, and releases it last.
LEMMA ReceiverAccounts ==
  ASSUME ItemInv, Accounted, NEW r \in Receivers, ReceiverKind(r)
  PROVE  Accounted'
<1>c. capacity' = capacity /\ closed' = closed /\ freed' = freed /\ ~freed
  BY DEF ReceiverKind, Takes, TakesOffer, FinishRecv, ItemInv, Hands, Threads
<1> SUFFICES ASSUME capacity > 0 \/ ~closed, NEW i \in Items
             PROVE  i \in rooted' <=> Carried(i)'
  BY <1>c DEF Accounted
<1>t. /\ item \in [Threads -> Items \cup {NoItem}] /\ r \in Threads
      /\ pc \in [Threads -> {"idle", "enter", "try", "full", "offered", "empty", "took"}]
      /\ Senders \subseteq Threads /\ Receivers \subseteq Threads /\ r \notin Senders
      /\ i \in rooted <=> Carried(i)
  BY <1>c, ChannelAssumption DEF ChannelAssumption, ItemInv, TypeOK, Threads, Accounted
<1>s. SenderHas(i)' <=> SenderHas(i)
  BY <1>t
  DEF ReceiverKind, Takes, TakesOffer, FinishRecv, Take, TakeOffer, Goto, Return, Entering,
      SenderHas
<1>1. CASE Takes(r) \/ TakesOffer(r)
  <2> DEFINE taken == IF capacity = 0 THEN buf[0] ELSE buf[head]
  <2>1. /\ item[r] = NoItem /\ item' = [item EXCEPT ![r] = taken]
        /\ Buffered(i)' <=> Buffered(i) /\ i # taken
        /\ taken \in Items => Buffered(taken)
    BY <1>1, ReceiverMoves
  <2>2. rooted' = rooted
    BY <1>1 DEF Takes, TakesOffer
  <2>3. \A q \in Receivers : item'[q] = IF q = r THEN taken ELSE item[q]
    BY <1>t, <2>1
  <2> HIDE DEF taken
  <2>4. ReceiverHas(i)' <=> ReceiverHas(i) \/ i = taken
    BY <2>1, <2>3, NoItemIsNone DEF ReceiverHas
  <2> QED
    BY <1>t, <1>c, <1>s, <2>1, <2>2, <2>4 DEF Carried
<1>2. CASE FinishRecv(r)
  <2>1. /\ \A q \in Receivers : item'[q] = IF q = r THEN NoItem ELSE item[q]
        /\ rooted' = rooted \ {item[r]}
        /\ Buffered(i)' <=> Buffered(i)
    BY <1>t, <1>2, FinishMoves DEF FinishRecv
  <2>2. i = item[r] => Received(i)
    BY DEF Received
  <2>3. i = item[r] => ~Buffered(i) /\ \A q \in Receivers : item[q] = i => q = r
    BY <2>2, NoItemIsNone DEF ItemInv, Places
  <2>4. i = item[r] => ~SenderHas(i)
    BY <2>2, InHand DEF SenderHas
  <2>5. ReceiverHas(i)' <=> ReceiverHas(i) /\ i # item[r]
    BY <2>1, <2>3, NoItemIsNone DEF ReceiverHas
  <2> QED
    BY <1>t, <1>c, <1>s, <2>1, <2>3, <2>4, <2>5 DEF Carried
<1> QED
  BY <1>1, <1>2 DEF ReceiverKind

\* Freeing the channel releases what is left in it, and nothing is left elsewhere.
LEMMA FreeAccounts == ASSUME ItemInv, Accounted, Free PROVE Accounted'
<1>c. capacity' = capacity /\ closed' = closed /\ freed' = TRUE /\ ~freed
      /\ UNCHANGED <<queue, pc, item>>
  BY DEF Free
<1> SUFFICES ASSUME capacity > 0 \/ ~closed, NEW i \in Items
             PROVE  i \in rooted' <=> Carried(i)'
  BY <1>c DEF Accounted
<1>1. /\ \A s \in Senders : ~Entering(s) /\ pc[s] # "offered"
      /\ \A r \in Receivers : item[r] = NoItem
  BY DEF Free, ItemInv, Hands, Threads, Entering
<1>2. ~Carried(i)'
  BY <1>c, <1>1, NoItemIsNone DEF Carried, SenderHas, ReceiverHas, Entering
<1>3. i \in rooted <=> Buffered(i)
  BY <1>c, <1>1, NoItemIsNone DEF Accounted, Carried, SenderHas, ReceiverHas
<1>4. i \notin rooted'
  <2>1. CASE capacity > 0
    BY <1>3, <2>1, RingTypes DEF Free, Buffered, ItemInv
  <2>2. CASE ~(capacity > 0)
    <3>1. capacity = 0 /\ ~closed /\ count \in {0, 1}
      BY <2>2, RingTypes DEF ItemInv
    <3>2. count = 0
      BY <1>1, <3>1 DEF ItemInv, Offers
    <3> QED
      BY <1>3, <2>2, <3>1, <3>2 DEF Free, Buffered
  <2> QED
    BY <2>1, <2>2
<1> QED
  BY <1>2, <1>4

\* An item's handle is live exactly as long as the item is on its way, however its send
\* ends: it is never released twice, and never kept, but for the item that is on offer
\* when a rendezvous channel is closed.
THEOREM ChannelHandlesKept == Spec => []HandlesOnTheirWay
<1>1. Init => Accounted
  <2> SUFFICES ASSUME Init, NEW i \in Items PROVE i \notin rooted /\ ~Carried(i)
    BY DEF Accounted
  <2>1. ~Buffered(i)
    BY NoItemIsNone, SlotsNat DEF Init, Buffered
  <2> QED
    BY <2>1, NoItemIsNone DEF Init, Carried, SenderHas, ReceiverHas, Entering, Threads
<1>2. ItemInv /\ Accounted /\ [Next]_vars => Accounted'
  <2> SUFFICES ASSUME ItemInv, Accounted, [Next]_vars PROVE Accounted'
    OBVIOUS
  <2>1. CASE Quiet
    <3>1. /\ UNCHANGED <<capacity, queue, item, rooted, freed>> /\ (closed => closed')
          /\ \A s \in Senders : Entering(s)' <=> Entering(s)
      BY <2>1 DEF Quiet, Entering
    <3>2. ASSUME NEW i \in Items PROVE Carried(i)' <=> Carried(i)
      <4>1. Slots' = Slots
        BY <3>1, SameSlots
      <4>2. Buffered(i)' <=> Buffered(i)
        BY <3>1, <4>1 DEF Buffered, queue
      <4>3. (SenderHas(i)' <=> SenderHas(i)) /\ (ReceiverHas(i)' <=> ReceiverHas(i))
        BY <3>1 DEF SenderHas, ReceiverHas
      <4> QED
        BY <3>1, <4>2, <4>3 DEF Carried
    <3>3. closed \in BOOLEAN /\ closed' \in BOOLEAN
      BY NextItems DEF ItemInv, TypeOK
    <3>4. capacity' > 0 \/ ~closed' => capacity > 0 \/ ~closed
      BY <3>1, <3>3
    <3> QED
      BY <3>1, <3>2, <3>4 DEF Accounted
  <2> QED
    BY <2>1, StepKinds, SenderAccounts, ReceiverAccounts, FreeAccounts DEF Kinds
<1>3. ItemInv /\ Accounted => HandlesOnTheirWay
  BY AccountedIsProperty
<1> QED
  BY <1>1, <1>2, <1>3, ItemsKept, PTL DEF Spec

-----------------------------------------------------------------------------
(* The refinement of BoundedChannel *)

\* The items a receive has taken out of the channel.
Got == (delivered \cup {item[r] : r \in Receivers}) \ {NoItem}

\* They are the items received.
LEMMA GotItems == TypeOK => Got \subseteq Items /\ \A i \in Items : i \in Got <=> Received(i)
<1> SUFFICES ASSUME TypeOK
             PROVE  Got \subseteq Items /\ \A i \in Items : i \in Got <=> Received(i)
  OBVIOUS
<1>1. item \in [Threads -> Items \cup {NoItem}] /\ Receivers \subseteq Threads
      /\ delivered \subseteq Items
  BY DEF TypeOK, Threads
<1>2. Got \subseteq Items
  BY <1>1 DEF Got
<1>3. \A i \in Items : i \in Got <=> Received(i)
  BY NoItemIsNone DEF Got, Received
<1> QED
  BY <1>2, <1>3

\* So they change as those do.
LEMMA GotSame ==
  ASSUME TypeOK, TypeOK', \A i \in Items : Received(i)' <=> Received(i)
  PROVE  Got' = Got
<1>1. Got \subseteq Items /\ \A i \in Items : i \in Got <=> Received(i)
  BY GotItems
<1>2. (Got \subseteq Items /\ \A i \in Items : i \in Got <=> Received(i))'
  BY GotItems, PTL
<1> QED
  BY <1>1, <1>2

\* And one item more is one item more.
LEMMA GotMore ==
  ASSUME TypeOK, TypeOK', NEW j \in Items,
         \A i \in Items : Received(i)' <=> Received(i) \/ i = j
  PROVE  Got' = Got \cup {j}
<1>1. Got \subseteq Items /\ \A i \in Items : i \in Got <=> Received(i)
  BY GotItems
<1>2. (Got \subseteq Items /\ \A i \in Items : i \in Got <=> Received(i))'
  BY GotItems, PTL
<1> QED
  BY <1>1, <1>2

\* The index k slots after the head.
At(k) == IF head + k < capacity THEN head + k ELSE head + k - capacity

\* The waiting items of a buffered channel.
LEMMA WaitingItems ==
  ItemInv /\ capacity > 0 =>
    /\ Waiting = [i \in 1 .. count |-> buf[At(i - 1)]]
    /\ Waiting \in Seq(Items \cup {NoItem}) /\ Len(Waiting) = count
<1> SUFFICES ASSUME ItemInv, capacity > 0
             PROVE  /\ Waiting = [i \in 1 .. count |-> buf[At(i - 1)]]
                    /\ Waiting \in Seq(Items \cup {NoItem}) /\ Len(Waiting) = count
  OBVIOUS
<1>t. /\ capacity \in Nat /\ count \in 0 .. capacity /\ head \in 0 .. capacity - 1
      /\ Slots = 0 .. capacity - 1 /\ buf \in [Slots -> Items \cup {NoItem}]
  BY RingTypes DEF ItemInv, Ring, TypeOK
<1>1. ASSUME NEW i \in 1 .. count
      PROVE  (head + i - 1) % capacity = At(i - 1) /\ At(i - 1) \in Slots
  <2>1. head + i - 1 \in Nat /\ head + i - 1 < 2 * capacity
    BY <1>t
  <2>2. (head + i - 1) % capacity
          = IF head + i - 1 < capacity THEN head + i - 1 ELSE head + i - 1 - capacity
    BY <1>t, <2>1, Wraps
  <2> QED
    BY <1>t, <2>2 DEF At
<1>2. Waiting = [i \in 1 .. count |-> buf[At(i - 1)]]
  <2>1. Waiting = [i \in 1 .. count |-> buf[(head + i - 1) % capacity]]
    BY <1>t DEF Waiting
  <2>2. \A i \in 1 .. count : buf[(head + i - 1) % capacity] = buf[At(i - 1)]
    BY <1>1
  <2> QED
    BY <2>1, <2>2
<1>3. \A i \in 1 .. count : buf[At(i - 1)] \in Items \cup {NoItem}
  BY <1>t, <1>1
<1> HIDE DEF At
<1> QED
  BY <1>t, <1>2, <1>3

\* Storing an item appends it.
LEMMA PutAppends ==
  ASSUME ItemInv, ItemInv', NEW s \in Senders, Puts(s)
  PROVE  Waiting' = Append(Waiting, item[s])
<1>p. /\ tail \in Slots /\ item[s] \in Items /\ count' = count + 1 /\ head' = head
      /\ \A k \in Slots : buf'[k] = IF k = tail THEN item[s] ELSE buf[k]
      /\ capacity > 0 /\ capacity' = capacity /\ count < capacity
  BY PutRing DEF Puts
<1>t. /\ capacity \in Nat /\ count \in Nat /\ head \in 0 .. capacity - 1
      /\ Slots = 0 .. capacity - 1
      /\ tail = IF head + count < capacity THEN head + count ELSE head + count - capacity
  BY <1>p, RingTypes DEF ItemInv, Ring, TypeOK
<1>1. /\ Waiting = [i \in 1 .. count |-> buf[At(i - 1)]]
      /\ Waiting \in Seq(Items \cup {NoItem}) /\ Len(Waiting) = count
  BY <1>p, WaitingItems
<1>2. Waiting' = [i \in 1 .. count + 1 |-> buf'[At(i - 1)']]
  <2>1. (capacity > 0)'
    BY <1>p
  <2>2. (Waiting = [i \in 1 .. count |-> buf[At(i - 1)]])'
    BY <2>1, WaitingItems, PTL
  <2> QED
    BY <2>2, <1>p
<1>3. \A i \in 1 .. count + 1 :
        buf'[At(i - 1)'] = IF i = count + 1 THEN item[s] ELSE buf[At(i - 1)]
  BY <1>p, <1>t DEF At
<1>5. Append(Waiting, item[s])
        = [i \in 1 .. count + 1 |-> IF i = count + 1 THEN item[s] ELSE Waiting[i]]
  BY <1>1, <1>p, <1>t
<1> HIDE DEF At
<1>6. ASSUME NEW i \in 1 .. count + 1
      PROVE  buf'[At(i - 1)'] = IF i = count + 1 THEN item[s] ELSE Waiting[i]
  BY <1>t, <1>1, <1>3
<1> QED
  BY <1>2, <1>5, <1>6

\* Taking an item removes the first.
LEMMA TakeRemoves ==
  ASSUME ItemInv, ItemInv', NEW r \in Receivers, Takes(r)
  PROVE  /\ Waiting # <<>> /\ Head(Waiting) = buf[head]
         /\ Waiting' = Tail(Waiting)
<1>p. /\ head \in Slots /\ buf[head] \in Items /\ count' = count - 1
      /\ \A k \in Slots : buf'[k] = IF k = head THEN NoItem ELSE buf[k]
      /\ head' = IF head + 1 < capacity THEN head + 1 ELSE 0
      /\ capacity > 0 /\ capacity' = capacity /\ count > 0
  BY TakeRing DEF Takes
<1>t. /\ capacity \in Nat /\ count \in 0 .. capacity /\ head \in 0 .. capacity - 1
      /\ Slots = 0 .. capacity - 1
  BY <1>p, RingTypes DEF ItemInv, Ring, TypeOK
<1>1. /\ Waiting = [i \in 1 .. count |-> buf[At(i - 1)]]
      /\ Waiting \in Seq(Items \cup {NoItem}) /\ Len(Waiting) = count
  BY <1>p, WaitingItems
<1>2. Waiting' = [i \in 1 .. count - 1 |-> buf'[At(i - 1)']]
  <2>1. (capacity > 0)'
    BY <1>p
  <2>2. (Waiting = [i \in 1 .. count |-> buf[At(i - 1)]])'
    BY <2>1, WaitingItems, PTL
  <2> QED
    BY <2>2, <1>p
<1>3. ASSUME NEW i \in 1 .. count - 1 PROVE buf'[At(i - 1)'] = buf[At(i)]
  <2>1. At(i) \in Slots /\ At(i) # head
    BY <1>p, <1>t DEF At
  <2>2. At(i - 1)' = At(i)
    BY <1>p, <1>t DEF At
  <2> QED
    BY <1>p, <2>1, <2>2
<1>4. At(0) = head
  BY <1>t DEF At
<1>5. Tail(Waiting) = [i \in 1 .. count - 1 |-> Waiting[i + 1]]
  BY <1>1, <1>p, <1>t
<1> HIDE DEF At
<1>6. ASSUME NEW i \in 1 .. count - 1
      PROVE  buf'[At(i - 1)'] = Waiting[i + 1]
  <2>1. i + 1 \in 1 .. count /\ (i + 1) - 1 = i
    BY <1>t
  <2> QED
    BY <1>1, <1>3, <2>1
<1>7. Waiting # <<>> /\ Head(Waiting) = Waiting[1]
  BY <1>1, <1>p, <1>t
<1>8. Waiting[1] = buf[At(0)]
  <2>1. 1 \in 1 .. count /\ 1 - 1 = 0
    BY <1>t, <1>p
  <2> QED
    BY <1>1, <2>1
<1> QED
  BY <1>2, <1>4, <1>5, <1>6, <1>7, <1>8

\* What a sender stores or offers is accepted, and what it withdraws is withdrawn.
LEMMA SenderAbstract ==
  ASSUME ItemInv, ItemInv', NEW s \in Senders, SenderKind(s)
  PROVE  \/ Abstract!Accept \/ Abstract!Withdraw
         \/ UNCHANGED <<capacity, Waiting, Got, closed>>
<1>1. /\ Got' = Got /\ Got \subseteq Items /\ \A i \in Items : i \in Got <=> Received(i)
      /\ Slots' = Slots
  BY SenderKeepsReceived, GotSame, GotItems DEF ItemInv
<1>2. CASE Puts(s)
  <2>1. /\ Waiting' = Append(Waiting, item[s]) /\ Len(Waiting) = count
        /\ capacity > 0 /\ count < capacity /\ ~closed /\ UNCHANGED <<capacity, closed>>
    BY <1>2, PutAppends, WaitingItems DEF Puts
  <2>2. item[s] \in Items \ Got
    BY <1>1, <1>2, InHand DEF Puts
  <2>3. Abstract!Accept
    BY <1>1, <2>1, <2>2 DEF Abstract!Accept, Got
  <2> QED
    BY <2>3
<1>3. CASE Offered(s)
  <2>1. /\ capacity = 0 /\ ~closed /\ UNCHANGED <<capacity, closed>>
        /\ count = 0 /\ count' = 1 /\ buf' = [buf EXCEPT ![0] = item[s]]
    BY <1>3 DEF Offered, Offer
  <2>2. item[s] \in Items \ Got
    BY <1>1, <1>3, InHand DEF Offered
  <2>3. buf'[0] = item[s]
    BY <2>1, RingTypes DEF ItemInv
  <2>4. Waiting = <<>> /\ Waiting' = <<item[s]>>
    BY <2>1, <2>2, <2>3, NoItemIsNone DEF Waiting
  <2>5. Waiting' = Append(Waiting, item[s]) /\ Len(Waiting) = 0
    BY <2>4
  <2>6. Abstract!Accept
    BY <1>1, <2>1, <2>2, <2>5 DEF Abstract!Accept, Got
  <2> QED
    BY <2>6
<1>4. CASE Withdrawn(s)
  <2>1. /\ capacity = 0 /\ (count = 0 \/ closed) /\ UNCHANGED <<capacity, closed, count>>
        /\ buf' = [buf EXCEPT ![0] = NoItem]
    BY <1>4 DEF Withdrawn, ItemInv, Hands
  <2>2. buf'[0] = NoItem
    BY <2>1, RingTypes DEF ItemInv
  <2>3. Waiting' = <<>> /\ (count = 0 => Waiting = <<>>)
    BY <2>1, <2>2 DEF Waiting
  <2>4. closed => Abstract!Withdraw
    BY <1>1, <2>1, <2>3 DEF Abstract!Withdraw, Got
  <2>5. ~closed => UNCHANGED <<capacity, Waiting, Got, closed>>
    BY <1>1, <2>1, <2>3
  <2> QED
    BY <2>4, <2>5
<1>5. CASE Skips(s) \/ Starts(s) \/ Refused(s)
  <2>1. UNCHANGED <<capacity, closed, buf, head, count>>
    BY <1>5 DEF Skips, Starts, Refused, queue
  <2>2. Waiting' = Waiting
    BY <2>1 DEF Waiting
  <2> QED
    BY <1>1, <2>1, <2>2
<1> QED
  BY <1>2, <1>3, <1>4, <1>5 DEF SenderKind

\* What a receiver takes is delivered, but for the offer withdrawn before it came.
LEMMA ReceiverAbstract ==
  ASSUME ItemInv, ItemInv', NEW r \in Receivers, ReceiverKind(r)
  PROVE  Abstract!Deliver \/ UNCHANGED <<capacity, Waiting, Got, closed>>
<1>1. Got \subseteq Items /\ \A i \in Items : i \in Got <=> Received(i)
  BY GotItems DEF ItemInv
<1>2. CASE Takes(r)
  <2>1. /\ Waiting # <<>> /\ Head(Waiting) = buf[head] /\ Waiting' = Tail(Waiting)
        /\ UNCHANGED <<capacity, closed>> /\ capacity > 0
    BY <1>2, TakeRemoves DEF Takes
  <2>2. /\ buf[head] \in Items /\ Buffered(buf[head])
        /\ \A i \in Items : Received(i)' <=> Received(i) \/ i = buf[head]
    <3>1. buf[head] \in Items
      BY <1>2, TakeRing
    <3>2. Buffered(buf[head])
      BY <1>2, <2>1, <3>1, ReceiverMoves
    <3>3. ASSUME NEW i \in Items PROVE Received(i)' <=> Received(i) \/ i = buf[head]
      BY <1>2, <2>1, ReceiverMoves
    <3> QED
      BY <3>1, <3>2, <3>3
  <2>3. buf[head] \notin Got /\ Got' = Got \cup {buf[head]}
    BY <1>1, <2>2, GotMore DEF ItemInv, Places
  <2>4. Abstract!Deliver
    BY <2>1, <2>3 DEF Abstract!Deliver, Got
  <2> QED
    BY <2>4
<1>3. CASE TakesOffer(r)
  <2>1. /\ capacity = 0 /\ count > 0 /\ count' = 0 /\ UNCHANGED <<capacity, closed>>
        /\ count # 0
    BY <1>3, RingTypes DEF TakesOffer, TakeOffer, ItemInv
  <2>2. /\ buf[0] \in Items \cup {NoItem}
        /\ buf[0] \in Items => Buffered(buf[0])
        /\ \A i \in Items : Received(i)' <=> Received(i) \/ i = buf[0]
    <3>1. buf[0] \in Items \cup {NoItem}
      BY <2>1, RingTypes DEF ItemInv
    <3>2. buf[0] \in Items => Buffered(buf[0])
      BY <1>3, <2>1, ReceiverMoves
    <3>3. ASSUME NEW i \in Items PROVE Received(i)' <=> Received(i) \/ i = buf[0]
      BY <1>3, <2>1, ReceiverMoves
    <3> QED
      BY <3>1, <3>2, <3>3
  <2>3. Waiting' = <<>> /\ Waiting = IF buf[0] = NoItem THEN <<>> ELSE <<buf[0]>>
    BY <2>1 DEF Waiting
  <2>4. CASE buf[0] = NoItem
    <3>1. Got' = Got
      BY <2>2, <2>4, GotSame, NoItemIsNone DEF ItemInv
    <3> QED
      BY <2>1, <2>3, <2>4, <3>1
  <2>5. CASE buf[0] \in Items
    <3>1. buf[0] \notin Got /\ Got' = Got \cup {buf[0]}
      BY <1>1, <2>2, <2>5, GotMore DEF ItemInv, Places
    <3>2. Waiting = <<buf[0]>>
      BY <2>3, <2>5, NoItemIsNone
    <3>3. Waiting # <<>> /\ Head(Waiting) = buf[0] /\ Waiting' = Tail(Waiting)
      BY <2>3, <3>2
    <3>4. Abstract!Deliver
      BY <2>1, <3>1, <3>3 DEF Abstract!Deliver, Got
    <3> QED
      BY <3>4
  <2> QED
    BY <2>2, <2>4, <2>5
<1>4. CASE FinishRecv(r)
  <2>1. Got' = Got
    BY <1>4, FinishMoves, GotSame DEF ItemInv
  <2>2. UNCHANGED <<capacity, closed, buf, head, count>>
    BY <1>4 DEF FinishRecv, queue
  <2>3. Waiting' = Waiting
    BY <2>2 DEF Waiting
  <2> QED
    BY <2>1, <2>2, <2>3
<1> QED
  BY <1>2, <1>3, <1>4 DEF ReceiverKind

\* Items leave the channel in the order they entered it, each once, never more than there
\* is room for, and none enters a closed channel: whatever the senders, receivers, closers
\* and wake-ups do, the channel of threads.c is the queue that Channel promises.
THEOREM ChannelIsAQueue == Spec => FirstInFirstOut
<1>1. Init => Abstract!Init
  <2> SUFFICES ASSUME Init PROVE Abstract!Init
    OBVIOUS
  <2>1. Waiting = <<>>
    <3>1. capacity # 0 => Waiting = [i \in 1 .. 0 |-> buf[(head + i - 1) % capacity]]
      BY DEF Init, Waiting
    <3>2. capacity = 0 => Waiting = <<>>
      BY DEF Init, Waiting
    <3> QED
      BY <3>1, <3>2
  <2>2. Got = {}
    BY DEF Init, Got, Threads
  <2> QED
    BY <2>1, <2>2 DEF Init, Abstract!Init, Got
<1>2. ItemInv /\ ItemInv' /\ [Next]_vars
        => [Abstract!Next]_<<capacity, Waiting, Got, closed>>
  <2> SUFFICES ASSUME ItemInv, ItemInv', [Next]_vars
               PROVE  Abstract!Next \/ UNCHANGED <<capacity, Waiting, Got, closed>>
    OBVIOUS
  <2>1. CASE Quiet
    <3>1. UNCHANGED <<capacity, buf, head, count, item, delivered>> /\ (closed => closed')
      BY <2>1 DEF Quiet, queue
    <3>2. Waiting' = Waiting /\ Got' = Got
      <4>1. Waiting' = Waiting
        BY <3>1 DEF Waiting
      <4>2. Got' = Got
        BY <3>1 DEF Got
      <4> QED
        BY <4>1, <4>2
    <3>3. closed \in BOOLEAN /\ closed' \in BOOLEAN
      BY DEF ItemInv, TypeOK
    <3>4. closed' = TRUE => Abstract!Shut
      BY <3>1, <3>2 DEF Abstract!Shut, Got
    <3>5. closed' # TRUE => closed' = closed
      BY <3>1, <3>3
    <3> QED
      BY <3>1, <3>2, <3>4, <3>5 DEF Abstract!Next
  <2>2. CASE Free
    <3>1. UNCHANGED <<capacity, buf, head, count, item, delivered, closed>>
      BY <2>2 DEF Free, queue
    <3> QED
      BY <3>1 DEF Waiting, Got
  <2> QED
    BY <2>1, <2>2, StepKinds, SenderAbstract, ReceiverAbstract DEF Kinds, Abstract!Next
<1> QED
  BY <1>1, <1>2, ItemsKept, PTL DEF Spec, FirstInFirstOut, Abstract!Spec, Got
=============================================================================
