------------------------------ MODULE AlertLog ------------------------------
(***************************************************************************)
(* What the delivery layer promises the thread that fires alerts, with no  *)
(* queue, writer or lock in sight: every alert is offered to the database  *)
(* once, in the order of firing, whether or not the layer is being stopped *)
(* meanwhile, and the log is closed only when none is left.  DeliveryLayer *)
(* is shown to implement it.                                               *)
(***************************************************************************)
EXTENDS Naturals, Sequences

CONSTANT Alerts   \* how many alerts are ever fired (a bound)

VARIABLES
  fired,     \* how many alerts were fired; also the last one's identity
  table,     \* the alerts in the database, in order
  refused,   \* the alerts the database refused
  closed     \* whether the log is closed

vars == <<fired, table, refused, closed>>

Init ==
  /\ fired = 0
  /\ table = <<>>
  /\ refused = {}
  /\ closed = FALSE

Fire ==
  /\ ~closed
  /\ fired < Alerts
  /\ fired' = fired + 1
  /\ UNCHANGED <<table, refused, closed>>

handled == {table[i] : i \in 1..Len(table)} \cup refused

\* The oldest alert not yet offered is stored, or refused for good.
Offer ==
  /\ \E a \in 1..fired :
       /\ a \notin handled
       /\ 1..(a - 1) \subseteq handled
       /\ \/ table' = Append(table, a) /\ UNCHANGED refused
          \/ refused' = refused \cup {a} /\ UNCHANGED table
  /\ UNCHANGED <<fired, closed>>

Close ==
  /\ 1..fired \subseteq handled
  /\ closed' = TRUE
  /\ UNCHANGED <<fired, table, refused>>

Next == Fire \/ Offer \/ Close

SafetySpec == Init /\ [][Next]_vars

\* An alert that was fired is eventually offered; nobody has to close the log.
Spec == SafetySpec /\ WF_vars(Offer)
=============================================================================
