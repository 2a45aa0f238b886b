--------------------------- MODULE BoundedChannel ---------------------------
(***************************************************************************)
(* What std::threads::Channel promises: items leave in the order they were *)
(* accepted, each one once, no more than room wait at a time, and a closed *)
(* channel accepts nothing but can be drained.  Room 0 is a rendezvous,    *)
(* where one item is on offer at a time, and is withdrawn by a closing.    *)
(* Channel implements it.                                                  *)
(***************************************************************************)
EXTENDS Naturals, Sequences

CONSTANTS Items, Rooms

VARIABLES room, queue, got, shut

Init == room \in Rooms /\ queue = <<>> /\ got = {} /\ shut = FALSE

Accept == /\ ~shut /\ Len(queue) < IF room = 0 THEN 1 ELSE room
          /\ \E i \in Items \ got : queue' = Append(queue, i)
          /\ UNCHANGED <<room, got, shut>>

Deliver == /\ queue # <<>>
           /\ Head(queue) \notin got
           /\ got' = got \cup {Head(queue)}
           /\ queue' = Tail(queue)
           /\ UNCHANGED <<room, shut>>

Withdraw == /\ shut /\ room = 0
            /\ queue' = <<>>
            /\ UNCHANGED <<room, got, shut>>

Shut == shut' = TRUE /\ UNCHANGED <<room, queue, got>>

Next == Accept \/ Deliver \/ Withdraw \/ Shut

Spec == Init /\ [][Next]_<<room, queue, got, shut>>
=============================================================================
