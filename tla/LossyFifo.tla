------------------------------ MODULE LossyFifo ------------------------------
(***************************************************************************)
(* What the hand-off between the capture thread and the consumer promises  *)
(* its users, with no mutex, condition variable or wait set in sight: a    *)
(* bounded first-in first-out buffer that loses a new packet only when it  *)
(* is full, may be closed, and tells a consumer that the session is over   *)
(* only when it has been closed and holds nothing.  PacketRingBuffer is    *)
(* shown to implement it.                                                  *)
(***************************************************************************)
EXTENDS Naturals, Sequences

CONSTANTS
  Users,        \* those who take packets out
  Capacity,     \* how many packets the buffer holds at most
  Offers        \* how many packets are ever offered (a bound)

VARIABLES
  items,        \* the packets inside, oldest first
  taken,        \* the packets handed out so far, in order
  offered,      \* how many packets have been offered; also the last identity
  closed,       \* whether the buffer has been closed
  ended         \* the users that were told the session is over

vars == <<items, taken, offered, closed, ended>>

Init ==
  /\ items = <<>>
  /\ taken = <<>>
  /\ offered = 0
  /\ closed = FALSE
  /\ ended = {}

\* The next packet goes in whenever there is room, closed or not.
Accept ==
  /\ offered < Offers
  /\ Len(items) < Capacity
  /\ items' = Append(items, offered + 1)
  /\ offered' = offered + 1
  /\ UNCHANGED <<taken, closed, ended>>

\* It is lost only when there is none.
Lose ==
  /\ offered < Offers
  /\ Len(items) >= Capacity
  /\ offered' = offered + 1
  /\ UNCHANGED <<items, taken, closed, ended>>

\* Some user that is still there gets the oldest packet.
Take ==
  /\ items # <<>>
  /\ ended # Users
  /\ taken' = Append(taken, Head(items))
  /\ items' = Tail(items)
  /\ UNCHANGED <<offered, closed, ended>>

Close ==
  /\ closed' = TRUE
  /\ UNCHANGED <<items, taken, offered, ended>>

End(u) ==
  /\ u \notin ended
  /\ closed
  /\ items = <<>>
  /\ ended' = ended \cup {u}
  /\ UNCHANGED <<items, taken, offered, closed>>

Next == Accept \/ Lose \/ Take \/ Close \/ \E u \in Users : End(u)

SafetySpec == Init /\ [][Next]_vars

\* As long as a user is left, what is inside is eventually handed out.
Spec == SafetySpec /\ WF_vars(Take)
=============================================================================
