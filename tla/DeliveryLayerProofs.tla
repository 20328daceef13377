------------------------ MODULE DeliveryLayerProofs ------------------------
(***************************************************************************)
(* Proofs about DeliveryLayer for any number of alerts and any size of the *)
(* display ring.                                                           *)
(***************************************************************************)
EXTENDS DeliveryLayer, Integers, SequenceTheorems, TLAPS

(***************************************************************************)
(* The inductive invariant.  Lifecycle ties the four program counters to   *)
(* one another and to what start() and stop() set up and take down; Hand   *)
(* and Order say where each alert is, with the numbers of the alerts in    *)
(* the queue counted back from the last one fired, so that they do not     *)
(* change when the writer pops.                                            *)
(***************************************************************************)
UpPlaces == {"up", "notify", "joinWriter", "joinDashboard", "teardown", "close"}

Lifecycle ==
  /\ mpc \in {"start", "failed"} => wpc = "none" /\ dpc = "none"
  /\ mpc # "up" => ~running /\ epc = "idle"
  /\ mpc = "up" => wpc \notin {"drain", "done"} /\ running
  /\ mpc \in UpPlaces => db = "open" /\ wpc # "none"
  /\ mpc \in {"joinDashboard", "teardown", "close", "stopped"} => wpc = "done"
  /\ mpc \in {"teardown", "close", "stopped"} => dpc = "done"
  /\ wpc \in {"none", "done"} => alert_queue = <<>>

Hand ==
  IF wpc \in {"persist", "display"} THEN Len(hand) = 1 ELSE hand = <<>>

\* How many alerts have been offered to the database.
offered ==
  IF wpc = "persist" THEN fired - Len(alert_queue) - 1 ELSE fired - Len(alert_queue)

Order ==
  /\ offered >= 0
  /\ \A i \in 1..Len(alert_queue) : alert_queue[i] = fired - Len(alert_queue) + i
  /\ wpc = "persist" => hand[1] = offered + 1
  /\ Increasing(stored)
  /\ Elements(stored) \cap refused = {}
  /\ Elements(stored) \cup refused = 1..offered

\* How many alerts have been shown, as long as the writer's loop goes on.
displayed == IF wpc = "display" THEN offered - 1 ELSE offered

\* The display ring, element by element, the alert on its way into it, and what has
\* been shown: in the loop all that was offered, the one in hand apart.
Ring ==
  /\ Len(display_ring) = IF Len(shown) < DISPLAY_RING_SIZE THEN Len(shown)
                         ELSE DISPLAY_RING_SIZE
  /\ \A i \in 1..Len(display_ring) :
       display_ring[i] = shown[Len(shown) - Len(display_ring) + i]
  /\ Elements(shown) \subseteq 1..offered
  /\ wpc = "display" => hand[1] = offered /\ offered > 0
  /\ wpc \notin {"drain", "done"} => Elements(shown) = 1..displayed

IInv ==
  /\ TypeOK
  /\ Lifecycle
  /\ Hand
  /\ Order
  /\ Ring

\* A new layer satisfies the invariant.
LEMMA InitIInv == Init => IInv
<1> SUFFICES ASSUME Init PROVE IInv
    OBVIOUS
<1>1. TypeOK
    <2>1. Len(display_ring) <= DISPLAY_RING_SIZE
        BY DeliveryAssumption DEF Init
    <2>2. /\ alert_queue \in Seq(Nat) /\ hand \in Seq(Nat) /\ display_ring \in Seq(Nat)
          /\ stored \in Seq(Nat) /\ shown \in Seq(Nat)
        BY DEF Init
    <2>3. running \in BOOLEAN /\ locked \in BOOLEAN /\ windows \in BOOLEAN /\ raced \in BOOLEAN
        BY DEF Init
    <2> QED
        BY <2>1, <2>2, <2>3 DEF Init, TypeOK, WriterPlaces
<1>2. Lifecycle /\ Hand
    BY DEF Init, Lifecycle, Hand, UpPlaces
<1>3. offered = 0 /\ Elements(stored) = {} /\ Elements(shown) = {}
    <2>1. ASSUME NEW s, s = <<>> PROVE Elements(s) = {}
        <3>1. 1..Len(s) = {}
            BY <2>1
        <3> QED
            BY <3>1 DEF Elements
    <2>2. stored = <<>> /\ shown = <<>>
        BY DEF Init
    <2>3. fired = 0 /\ alert_queue = <<>> /\ wpc = "none"
        BY DEF Init
    <2>4. offered = 0
        <3>1. Len(alert_queue) = 0
            BY <2>3
        <3>2. offered = fired - Len(alert_queue)
            BY <2>3 DEF offered
        <3> QED
            BY <2>3, <3>1, <3>2
    <2> QED
        BY <2>1, <2>2, <2>4
<1>4. Order
    BY <1>3 DEF Init, Order, Increasing
<1>5. Ring
    <2>1. 1..displayed = {}
        BY <1>3 DEF Init, displayed
    <2>2. Elements(shown) = 1..displayed /\ wpc = "none"
        BY <1>3, <2>1 DEF Init
    <2>3. Len(display_ring) = IF Len(shown) < DISPLAY_RING_SIZE THEN Len(shown)
                              ELSE DISPLAY_RING_SIZE
        BY DeliveryAssumption DEF Init
    <2>4. Len(display_ring) = 0 /\ Elements(shown) \subseteq 1..offered
        BY <1>3 DEF Init
    <2> QED
        BY <2>2, <2>3, <2>4 DEF Ring
<1> QED
    BY <1>1, <1>2, <1>4, <1>5 DEF IInv

-----------------------------------------------------------------------------
(* Sequences and their elements *)

\* persist_alert() keeps the types of the table and of the refused alerts.
LEMMA PersistType ==
  ASSUME stored \in Seq(Nat), refused \in SUBSET Nat, NEW a \in Nat, persist(a)
  PROVE  stored' \in Seq(Nat) /\ refused' \in SUBSET Nat
<1>1. CASE stored' = Append(stored, a) /\ refused' = refused
    BY <1>1
<1>2. CASE refused' = refused \cup {a} /\ stored' = stored
    BY <1>2
<1>3. CASE stored' = stored /\ refused' = refused
    BY <1>3
<1> QED
    BY <1>1, <1>2, <1>3 DEF persist

\* The writer's hand.
LEMMA OneElement ==
  ASSUME NEW s \in Seq(Nat), Len(s) = 1
  PROVE  s = <<s[1]>> /\ Head(s) = s[1] /\ s[1] \in Nat
<1>1. s # <<>> /\ s[1] \in Nat
    OBVIOUS
<1>2. <<s[1]>> \in Seq(Nat) /\ Len(<<s[1]>>) = 1 /\ <<s[1]>>[1] = s[1]
    BY <1>1
<1>3. \A i \in 1..Len(s) : s[i] = <<s[1]>>[i]
    BY <1>2
<1>4. s = <<s[1]>>
    BY <1>2, <1>3, SeqEqual
<1> QED
    BY <1>1, <1>4

\* The display ring is cut to its size.
LEMMA TrimType ==
  ASSUME NEW ring \in Seq(Nat)
  PROVE  /\ trim(ring) \in Seq(Nat)
         /\ Len(trim(ring)) = IF Len(ring) < DISPLAY_RING_SIZE THEN Len(ring)
                              ELSE DISPLAY_RING_SIZE
         /\ \A i \in 1..Len(trim(ring)) :
              trim(ring)[i] = ring[Len(ring) - Len(trim(ring)) + i]
<1>1. CASE Len(ring) > DISPLAY_RING_SIZE
    <2> DEFINE m == Len(ring) - DISPLAY_RING_SIZE + 1
    <2>1. m \in 1..(Len(ring) + 1) /\ Len(ring) \in Nat
        BY <1>1, DeliveryAssumption
    <2>2. trim(ring) = SubSeq(ring, m, Len(ring))
        BY <1>1 DEF trim
    <2>3. /\ SubSeq(ring, m, Len(ring)) \in Seq(Nat)
          /\ Len(SubSeq(ring, m, Len(ring))) = DISPLAY_RING_SIZE
          /\ \A i \in 1..DISPLAY_RING_SIZE : SubSeq(ring, m, Len(ring))[i] = ring[m + i - 1]
        BY <1>1, <2>1, DeliveryAssumption
    <2> QED
        BY <1>1, <2>1, <2>2, <2>3, DeliveryAssumption
<1>2. CASE ~(Len(ring) > DISPLAY_RING_SIZE)
    BY <1>2, DeliveryAssumption DEF trim
<1> QED
    BY <1>1, <1>2

\* The display ring does not exceed its size.
LEMMA TrimBound ==
  ASSUME NEW ring \in Seq(Nat)
  PROVE  trim(ring) \in Seq(Nat) /\ Len(trim(ring)) <= DISPLAY_RING_SIZE
BY TrimType, LenProperties, DeliveryAssumption

-----------------------------------------------------------------------------
(* Types and places *)

\* Every step keeps the types.
LEMMA TypeStep == TypeOK /\ Hand /\ [Next]_vars => TypeOK'
<1> SUFFICES ASSUME TypeOK, Hand, [Next]_vars PROVE TypeOK'
    OBVIOUS
<1> USE DeliveryAssumption DEF TypeOK, WriterPlaces, queueVars, writeVars, upVars
<1>1. CASE Start
    BY <1>1 DEF Start
<1>2. CASE StartThrows
    BY <1>2 DEF StartThrows
<1>3. CASE Enqueue
    BY <1>3 DEF Enqueue
<1>4. CASE EnqueueNotify
    BY <1>4 DEF EnqueueNotify, wake_writer
<1>5. CASE WriterHead
    BY <1>5 DEF WriterHead, after_loop
<1>6. CASE WriterPop
    BY <1>6 DEF WriterPop
<1>7. CASE WriterContinue
    BY <1>7 DEF WriterContinue
<1>8. CASE WriterSleep
    BY <1>8 DEF WriterSleep
<1>9. CASE WriterBlock
    BY <1>9 DEF WriterBlock
<1>10. CASE WriterPersist
    <2>1. Head(hand) \in Nat
        BY <1>10, OneElement DEF WriterPersist, Hand
    <2> QED
        BY <1>10, <2>1, PersistType DEF WriterPersist
<1>11. CASE WriterDisplay
    <2>1. (display_ring \o hand) \in Seq(Nat) /\ shown \o hand \in Seq(Nat)
        OBVIOUS
    <2>2. display_ring' \in Seq(Nat) /\ Len(display_ring') <= DISPLAY_RING_SIZE
        BY <1>11, <2>1, TrimBound DEF WriterDisplay
    <2>3. hand' \in Seq(Nat)
        BY <1>11 DEF WriterDisplay
    <2> QED
        BY <1>11, <2>1, <2>2, <2>3 DEF WriterDisplay
<1>12. CASE WriterDrain
    <2>1. Head(alert_queue) \in Nat /\ Tail(alert_queue) \in Seq(Nat)
        BY <1>12 DEF WriterDrain
    <2> QED
        BY <1>12, <2>1, PersistType DEF WriterDrain
<1>13. CASE WriterEnd
    BY <1>13 DEF WriterEnd
<1>14. CASE SpuriousWakeup
    BY <1>14 DEF SpuriousWakeup
<1>15. CASE DashboardHead
    BY <1>15 DEF DashboardHead, DashboardStep
<1>16. CASE DashboardWake
    BY <1>16 DEF DashboardWake, DashboardStep
<1>17. CASE DashboardDraw
    BY <1>17 DEF DashboardDraw, DashboardStep
<1>18. CASE Stop
    BY <1>18 DEF Stop, StopStep
<1>19. CASE StopNotify
    BY <1>19 DEF StopNotify, StopStep, wake_writer
<1>20. CASE StopJoinWriter
    BY <1>20 DEF StopJoinWriter, StopStep, writer_joinable
<1>21. CASE StopJoinDashboard
    BY <1>21 DEF StopJoinDashboard, StopStep, dashboard_joinable
<1>22. CASE StopTeardown
    BY <1>22 DEF StopTeardown, StopStep
<1>23. CASE StopClose
    BY <1>23 DEF StopClose, StopStep
<1>24. CASE UNCHANGED vars
    BY <1>24 DEF vars
<1> QED
    BY <1>1, <1>2, <1>3, <1>4, <1>5, <1>6, <1>7, <1>8, <1>9, <1>10, <1>11, <1>12, <1>13, <1>14, <1>15, <1>16, <1>17, <1>18, <1>19, <1>20, <1>21, <1>22, <1>23, <1>24
    DEF Next, Writer, Dashboard, Stopping

\* main, the writer, the dashboard and the alerting thread keep in step.
LEMMA LifecycleStep == TypeOK /\ Lifecycle /\ [Next]_vars => Lifecycle'
<1> SUFFICES ASSUME TypeOK, Lifecycle, [Next]_vars PROVE Lifecycle'
    OBVIOUS
<1> USE DEF TypeOK, WriterPlaces, Lifecycle, UpPlaces, queueVars, writeVars, upVars
<1>1. CASE Start
    BY <1>1 DEF Start
<1>2. CASE StartThrows
    BY <1>2 DEF StartThrows
<1>3. CASE Enqueue
    BY <1>3 DEF Enqueue
<1>4. CASE EnqueueNotify
    BY <1>4 DEF EnqueueNotify, wake_writer
<1>5. CASE WriterHead
    BY <1>5 DEF WriterHead, after_loop
<1>6. CASE WriterPop
    BY <1>6 DEF WriterPop
<1>7. CASE WriterContinue
    BY <1>7 DEF WriterContinue
<1>8. CASE WriterSleep
    BY <1>8 DEF WriterSleep
<1>9. CASE WriterBlock
    BY <1>9 DEF WriterBlock
<1>10. CASE WriterPersist
    BY <1>10 DEF WriterPersist, persist
<1>11. CASE WriterDisplay
    BY <1>11 DEF WriterDisplay, trim
<1>12. CASE WriterDrain
    BY <1>12 DEF WriterDrain, persist
<1>13. CASE WriterEnd
    BY <1>13 DEF WriterEnd
<1>14. CASE SpuriousWakeup
    BY <1>14 DEF SpuriousWakeup
<1>15. CASE DashboardHead
    BY <1>15 DEF DashboardHead, DashboardStep
<1>16. CASE DashboardWake
    BY <1>16 DEF DashboardWake, DashboardStep
<1>17. CASE DashboardDraw
    BY <1>17 DEF DashboardDraw, DashboardStep
<1>18. CASE Stop
    BY <1>18 DEF Stop, StopStep
<1>19. CASE StopNotify
    BY <1>19 DEF StopNotify, StopStep, wake_writer
<1>20. CASE StopJoinWriter
    BY <1>20 DEF StopJoinWriter, StopStep, writer_joinable
<1>21. CASE StopJoinDashboard
    BY <1>21 DEF StopJoinDashboard, StopStep, dashboard_joinable
<1>22. CASE StopTeardown
    BY <1>22 DEF StopTeardown, StopStep
<1>23. CASE StopClose
    BY <1>23 DEF StopClose, StopStep
<1>24. CASE UNCHANGED vars
    BY <1>24 DEF vars
<1> QED
    BY <1>1, <1>2, <1>3, <1>4, <1>5, <1>6, <1>7, <1>8, <1>9, <1>10, <1>11, <1>12, <1>13, <1>14, <1>15, <1>16, <1>17, <1>18, <1>19, <1>20, <1>21, <1>22, <1>23, <1>24
    DEF Next, Writer, Dashboard, Stopping

-----------------------------------------------------------------------------
(* Where the alerts are *)

\* A step that moves no alert.
Quiet ==
  /\ UNCHANGED <<alert_queue, fired, hand, display_ring, stored, refused, shown>>
  /\ wpc' = "persist" <=> wpc = "persist"
  /\ wpc' = "display" <=> wpc = "display"
  /\ wpc \in {"drain", "done"} => wpc' \in {"drain", "done"}

\* All steps but five are such.
LEMMA QuietStep ==
  ASSUME [Next]_vars, Lifecycle
  PROVE  Quiet \/ Enqueue \/ WriterPop \/ WriterPersist \/ WriterDisplay \/ WriterDrain
<1> USE DEF Quiet, queueVars, writeVars
<1>1. CASE UNCHANGED vars
    BY <1>1 DEF vars
<1>2. CASE Start \/ StartThrows
    BY <1>2 DEF Start, StartThrows, Lifecycle
<1>3. CASE EnqueueNotify \/ SpuriousWakeup
    BY <1>3 DEF EnqueueNotify, SpuriousWakeup, wake_writer
<1>4. CASE WriterHead \/ WriterContinue \/ WriterSleep \/ WriterBlock \/ WriterEnd
    BY <1>4 DEF WriterHead, WriterContinue, WriterSleep, WriterBlock, WriterEnd, after_loop
<1>5. CASE Dashboard
    BY <1>5 DEF Dashboard, DashboardHead, DashboardWake, DashboardDraw, DashboardStep
<1>6. CASE Stop \/ Stopping
    BY <1>6 DEF Stop, Stopping, StopNotify, StopJoinWriter, StopJoinDashboard, StopTeardown,
                StopClose, StopStep, wake_writer
<1> QED
    BY <1>1, <1>2, <1>3, <1>4, <1>5, <1>6 DEF Next, Writer

\* The writer's hand is full between the pop and the display, and only then.
LEMMA HandStep == TypeOK /\ Lifecycle /\ Hand /\ [Next]_vars => Hand'
<1> SUFFICES ASSUME TypeOK, Lifecycle, Hand, [Next]_vars PROVE Hand'
    OBVIOUS
<1>1. CASE Quiet
    BY <1>1 DEF Quiet, Hand
<1>2. CASE Enqueue
    BY <1>2 DEF Enqueue, Hand, writeVars
<1>3. CASE WriterPop
    BY <1>3 DEF WriterPop, Hand
<1>4. CASE WriterPersist
    BY <1>4 DEF WriterPersist, Hand
<1>5. CASE WriterDisplay
    BY <1>5 DEF WriterDisplay, Hand
<1>6. CASE WriterDrain
    BY <1>6 DEF WriterDrain, Hand
<1> QED
    BY <1>1, <1>2, <1>3, <1>4, <1>5, <1>6, QuietStep

\* The elements of a sequence that grows by one.
LEMMA AppendElements ==
  ASSUME NEW s \in Seq(Nat), NEW x \in Nat
  PROVE  Elements(Append(s, x)) = Elements(s) \cup {x}
<1> DEFINE t == Append(s, x)
<1>1. /\ Len(t) = Len(s) + 1 /\ Len(s) \in Nat
      /\ \A i \in 1..Len(s) : t[i] = s[i]
      /\ t[Len(s) + 1] = x
    BY AppendProperties
<1> HIDE DEF t
<1>2. 1..Len(t) = 1..Len(s) \cup {Len(s) + 1}
    BY <1>1
<1>3. Elements(t) = Elements(s) \cup {x}
    BY <1>1, <1>2 DEF Elements
<1> QED
    BY <1>3 DEF t

\* persist_alert() of the next alert: it is stored behind the others or refused.
LEMMA PersistNext ==
  ASSUME TypeOK, Order, db = "open", NEW a, a = offered + 1, persist(a),
         NEW n \in Nat, n = offered
  PROVE  /\ Increasing(stored')
         /\ Elements(stored') \cap refused' = {}
         /\ Elements(stored') \cup refused' = 1..(n + 1)
<1>1. /\ stored \in Seq(Nat) /\ Len(stored) \in Nat /\ a = n + 1 /\ a \in Nat
      /\ Elements(stored) \cup refused = 1..n
      /\ Elements(stored) \cap refused = {}
    BY DEF TypeOK, Order
<1>2. a \notin Elements(stored) /\ a \notin refused
    BY <1>1
<1>3. (1..n) \cup {a} = 1..(n + 1)
    BY <1>1
<1>4. CASE stored' = Append(stored, a) /\ refused' = refused
    <2>1. Elements(stored') = Elements(stored) \cup {a}
        BY <1>1, <1>4, AppendElements
    <2>2. /\ Len(stored') = Len(stored) + 1
          /\ \A i \in 1..Len(stored) : stored'[i] = stored[i]
          /\ stored'[Len(stored) + 1] = a
        BY <1>1, <1>4, AppendProperties
    <2>3. \A i \in 1..Len(stored) : stored[i] \in 1..n
        BY <1>1 DEF Elements
    <2>4. Increasing(stored')
        <3> SUFFICES ASSUME NEW i \in 1..Len(stored'), NEW j \in 1..Len(stored'), i < j
                     PROVE  stored'[i] < stored'[j]
            BY DEF Increasing
        <3>1. CASE j = Len(stored) + 1
            BY <1>1, <2>2, <2>3, <3>1
        <3>2. CASE j # Len(stored) + 1
            <4>1. i \in 1..Len(stored) /\ j \in 1..Len(stored)
                <5>1. i \in 1..(Len(stored) + 1) /\ j \in 1..(Len(stored) + 1)
                    BY <2>2
                <5> QED
                    BY <1>1, <3>2, <5>1
            <4>2. stored[i] < stored[j]
                BY <4>1 DEF Order, Increasing
            <4> QED
                BY <2>2, <4>1, <4>2
        <3> QED
            BY <3>1, <3>2
    <2> QED
        BY <1>1, <1>2, <1>3, <1>4, <2>1, <2>2, <2>4
<1>5. CASE refused' = refused \cup {a} /\ stored' = stored
    BY <1>1, <1>2, <1>3, <1>5 DEF Order
<1> QED
    BY <1>4, <1>5 DEF persist

\* The numbers in the queue and in the hand count back from the last alert fired,
\* and what has been offered is in the table, in order, or refused.
LEMMA OrderStep ==
  TypeOK /\ Lifecycle /\ Hand /\ Order /\ [Next]_vars => Order'
<1> SUFFICES ASSUME TypeOK, Lifecycle, Hand, Order, [Next]_vars PROVE Order'
    OBVIOUS
<1>1. /\ fired \in Nat /\ alert_queue \in Seq(Nat) /\ Len(alert_queue) \in Nat
      /\ offered \in Nat
    BY DEF TypeOK, Order, offered
<1>2. CASE Quiet
    <2>1. offered' = offered
        BY <1>2 DEF Quiet, offered
    <2> QED
        BY <1>2, <2>1 DEF Quiet, Order, Increasing, Elements
<1>3. CASE Enqueue
    <2>1. /\ fired' = fired + 1 /\ alert_queue' = Append(alert_queue, fired + 1)
          /\ UNCHANGED <<wpc, hand, stored, refused>>
        BY <1>3 DEF Enqueue, writeVars
    <2>2. /\ Len(alert_queue') = Len(alert_queue) + 1
          /\ \A i \in 1..Len(alert_queue) : alert_queue'[i] = alert_queue[i]
          /\ alert_queue'[Len(alert_queue) + 1] = fired + 1
        BY <1>1, <2>1, AppendProperties
    <2>3. offered' = offered
        BY <1>1, <2>1, <2>2 DEF offered
    <2>4. ASSUME NEW i \in 1..Len(alert_queue')
          PROVE  alert_queue'[i] = fired' - Len(alert_queue') + i
        BY <1>1, <2>1, <2>2, <2>4 DEF Order
    <2> QED
        BY <2>1, <2>3, <2>4 DEF Order, Increasing, Elements
<1>4. CASE WriterPop
    <2>1. /\ wpc = "test" /\ wpc' = "persist" /\ alert_queue # <<>>
          /\ hand' = <<Head(alert_queue)>> /\ alert_queue' = Tail(alert_queue)
          /\ UNCHANGED <<fired, stored, refused>>
        BY <1>4 DEF WriterPop
    <2>2. /\ Len(alert_queue') = Len(alert_queue) - 1
          /\ \A i \in 1..Len(alert_queue') : alert_queue'[i] = alert_queue[i + 1]
          /\ Len(alert_queue) > 0 /\ hand'[1] = alert_queue[1]
        BY <1>1, <2>1, HeadTailProperties
    <2>3. offered' = offered /\ offered = fired - Len(alert_queue)
        BY <1>1, <2>1, <2>2 DEF offered
    <2>4. ASSUME NEW i \in 1..Len(alert_queue')
          PROVE  alert_queue'[i] = fired' - Len(alert_queue') + i
        BY <1>1, <2>1, <2>2, <2>4 DEF Order
    <2>5. hand'[1] = offered' + 1
        BY <1>1, <2>2, <2>3 DEF Order
    <2> QED
        BY <2>1, <2>3, <2>4, <2>5 DEF Order, Increasing, Elements
<1>5. CASE WriterPersist
    <2>1. /\ wpc = "persist" /\ wpc' = "display" /\ persist(Head(hand))
          /\ UNCHANGED <<fired, alert_queue, hand>>
        BY <1>5 DEF WriterPersist, queueVars
    <2>2. db = "open"
        BY <2>1 DEF Lifecycle, UpPlaces, TypeOK
    <2>3. Head(hand) = offered + 1
        BY <2>1, OneElement DEF Order, Hand, TypeOK
    <2>4. offered' = offered + 1
        BY <1>1, <2>1 DEF offered
    <2> QED
        BY <1>1, <2>1, <2>2, <2>3, <2>4, PersistNext DEF Order
<1>6. CASE WriterDisplay
    <2>1. offered' = offered
        BY <1>6 DEF WriterDisplay, queueVars, offered
    <2> QED
        BY <1>6, <2>1 DEF WriterDisplay, queueVars, Order, Increasing, Elements
<1>7. CASE WriterDrain
    <2>1. /\ wpc = "drain" /\ wpc' = "drain" /\ alert_queue # <<>>
          /\ persist(Head(alert_queue)) /\ alert_queue' = Tail(alert_queue)
          /\ UNCHANGED fired
        BY <1>7 DEF WriterDrain
    <2>2. /\ Len(alert_queue') = Len(alert_queue) - 1
          /\ \A i \in 1..Len(alert_queue') : alert_queue'[i] = alert_queue[i + 1]
          /\ Len(alert_queue) > 0 /\ Head(alert_queue) = alert_queue[1]
        BY <1>1, <2>1, HeadTailProperties
    <2>3. db = "open"
        BY <2>1 DEF Lifecycle, UpPlaces, TypeOK
    <2>4. Head(alert_queue) = offered + 1 /\ offered' = offered + 1
        BY <1>1, <2>1, <2>2 DEF Order, offered
    <2>5. ASSUME NEW i \in 1..Len(alert_queue')
          PROVE  alert_queue'[i] = fired' - Len(alert_queue') + i
        BY <1>1, <2>1, <2>2, <2>5 DEF Order
    <2> QED
        BY <1>1, <2>1, <2>3, <2>4, <2>5, PersistNext DEF Order
<1> QED
    BY <1>2, <1>3, <1>4, <1>5, <1>6, <1>7, QuietStep

\* The display ring follows what is shown.
LEMMA RingStep ==
  TypeOK /\ Lifecycle /\ Hand /\ Order /\ Ring /\ [Next]_vars => Ring'
<1> SUFFICES ASSUME TypeOK, Lifecycle, Hand, Order, Ring, [Next]_vars PROVE Ring'
    OBVIOUS
<1>1. /\ fired \in Nat /\ Len(alert_queue) \in Nat /\ offered \in Nat
      /\ alert_queue \in Seq(Nat)
    BY DEF TypeOK, Order, offered
<1>2. ASSUME UNCHANGED <<display_ring, shown>>, offered' \in Nat, offered' >= offered,
             wpc' = "display" => hand'[1] = offered' /\ offered' > 0,
             wpc' \notin {"drain", "done"} =>
               wpc \notin {"drain", "done"} /\ displayed' = displayed
      PROVE  Ring'
    <2>1. Elements(shown') \subseteq 1..offered'
        BY <1>1, <1>2 DEF Ring, Elements
    <2>2. wpc' \notin {"drain", "done"} => Elements(shown') = 1..displayed'
        BY <1>2 DEF Ring, Elements
    <2> QED
        BY <1>2, <2>1, <2>2 DEF Ring
<1>3. CASE Quiet
    <2>1. offered' = offered
        BY <1>3 DEF Quiet, offered
    <2>2. displayed' = displayed
        BY <1>3, <2>1 DEF Quiet, displayed
    <2> QED
        BY <1>1, <1>2, <1>3, <2>1, <2>2 DEF Quiet, Ring
<1>4. CASE Enqueue
    <2>1. /\ fired' = fired + 1 /\ Len(alert_queue') = Len(alert_queue) + 1
          /\ UNCHANGED <<wpc, hand, display_ring, shown>>
        BY <1>1, <1>4 DEF Enqueue, writeVars
    <2>2. offered' = offered
        BY <1>1, <2>1 DEF offered
    <2>3. displayed' = displayed
        BY <2>1, <2>2 DEF displayed
    <2> QED
        BY <1>1, <1>2, <2>1, <2>2, <2>3 DEF Ring
<1>5. CASE WriterPop
    <2>1. /\ fired' = fired /\ Len(alert_queue') = Len(alert_queue) - 1
          /\ wpc = "test" /\ wpc' = "persist" /\ UNCHANGED <<display_ring, shown>>
        BY <1>1, <1>5 DEF WriterPop
    <2>2. offered' = offered
        BY <1>1, <2>1 DEF offered
    <2>3. displayed' = displayed
        BY <1>1, <2>1, <2>2 DEF displayed
    <2> QED
        BY <1>1, <1>2, <2>1, <2>2, <2>3
<1>6. CASE WriterPersist
    <2>1. /\ wpc = "persist" /\ wpc' = "display"
          /\ UNCHANGED <<fired, alert_queue, hand, display_ring, shown>>
        BY <1>6 DEF WriterPersist, queueVars
    <2>2. offered' = offered + 1 /\ hand[1] = offered + 1
        BY <1>1, <2>1 DEF offered, Order
    <2>3. displayed' = displayed
        BY <1>1, <2>1, <2>2 DEF displayed
    <2> QED
        BY <1>1, <1>2, <2>1, <2>2, <2>3
<1>7. CASE WriterDisplay
    <2> DEFINE a == hand[1]
               longer == Append(display_ring, a)
    <2>1. /\ display_ring \in Seq(Nat) /\ shown \in Seq(Nat) /\ hand \in Seq(Nat)
          /\ Len(display_ring) \in Nat /\ Len(shown) \in Nat
        BY DEF TypeOK
    <2>2. hand = <<a>> /\ a \in Nat /\ a = offered /\ offered > 0
        BY <1>7, <2>1, OneElement DEF WriterDisplay, Hand, Ring
    <2>3. display_ring \o hand = longer /\ shown \o hand = Append(shown, a)
        BY <2>1, <2>2, AppendIsConcat
    <2>4. /\ display_ring' = trim(longer) /\ shown' = Append(shown, a)
          /\ UNCHANGED <<fired, alert_queue>> /\ wpc = "display" /\ wpc' = "head"
        BY <1>7, <2>3 DEF WriterDisplay, queueVars
    <2>5. /\ longer \in Seq(Nat) /\ Len(longer) = Len(display_ring) + 1
          /\ \A i \in 1..Len(display_ring) : longer[i] = display_ring[i]
          /\ longer[Len(display_ring) + 1] = a
        BY <2>1, <2>2, AppendProperties
    <2>6. /\ Len(shown') = Len(shown) + 1
          /\ \A i \in 1..Len(shown) : shown'[i] = shown[i]
          /\ shown'[Len(shown) + 1] = a
        BY <2>1, <2>2, <2>4, AppendProperties
    <2> HIDE DEF a, longer
    <2>7. Len(display_ring) <= Len(shown)
        BY <2>1, DeliveryAssumption DEF Ring
    <2>8. ASSUME NEW i \in 1..Len(longer)
          PROVE  longer[i] = shown'[Len(shown') - Len(longer) + i]
        <3>1. CASE i = Len(display_ring) + 1
            BY <2>1, <2>5, <2>6, <3>1
        <3>2. CASE i # Len(display_ring) + 1
            <4>1. i \in 1..Len(display_ring)
                BY <2>1, <2>5, <2>8, <3>2
            <4>2. Len(shown) - Len(display_ring) + i \in 1..Len(shown)
                BY <2>1, <2>7, <4>1
            <4>3. longer[i] = shown'[Len(shown) - Len(display_ring) + i]
                BY <2>5, <2>6, <4>1, <4>2 DEF Ring
            <4>4. Len(shown') - Len(longer) + i = Len(shown) - Len(display_ring) + i
                BY <2>1, <2>5, <2>6, <4>1
            <4> QED
                BY <4>3, <4>4
        <3> QED
            BY <3>1, <3>2
    <2>9. /\ display_ring' \in Seq(Nat)
          /\ Len(display_ring') = IF Len(longer) < DISPLAY_RING_SIZE THEN Len(longer)
                                  ELSE DISPLAY_RING_SIZE
          /\ \A i \in 1..Len(display_ring') :
               display_ring'[i] = longer[Len(longer) - Len(display_ring') + i]
        BY <2>4, <2>5, TrimType
    <2>10. Len(display_ring') = IF Len(shown') < DISPLAY_RING_SIZE THEN Len(shown')
                                ELSE DISPLAY_RING_SIZE
        BY <2>1, <2>5, <2>6, <2>9, DeliveryAssumption DEF Ring
    <2>11. ASSUME NEW i \in 1..Len(display_ring')
           PROVE  display_ring'[i] = shown'[Len(shown') - Len(display_ring') + i]
        <3> DEFINE j == Len(longer) - Len(display_ring') + i
        <3>1. /\ j \in 1..Len(longer)
              /\ Len(shown') - Len(longer) + j = Len(shown') - Len(display_ring') + i
            BY <2>1, <2>5, <2>6, <2>9, <2>11, DeliveryAssumption
        <3>2. display_ring'[i] = longer[j]
            BY <2>9, <2>11
        <3> HIDE DEF j
        <3> QED
            BY <2>8, <3>1, <3>2
    <2>12. offered' = offered
        BY <2>4 DEF offered
    <2>13. Elements(shown) = 1..(offered - 1)
        BY <2>4 DEF Ring, displayed
    <2>14. Elements(shown') = Elements(shown) \cup {offered}
        BY <2>1, <2>2, <2>4, AppendElements
    <2>15. Elements(shown') = 1..offered
        BY <1>1, <2>2, <2>13, <2>14
    <2>16. displayed' = offered /\ offered' = offered
        BY <2>4, <2>12 DEF displayed
    <2> QED
        BY <2>4, <2>10, <2>11, <2>15, <2>16 DEF Ring
<1>8. CASE WriterDrain
    <2>1. /\ wpc = "drain" /\ wpc' = "drain" /\ fired' = fired
          /\ Len(alert_queue') = Len(alert_queue) - 1 /\ Len(alert_queue) > 0
          /\ UNCHANGED <<display_ring, shown>>
        BY <1>1, <1>8 DEF WriterDrain
    <2>2. offered' = offered + 1
        BY <1>1, <2>1 DEF offered
    <2> QED
        BY <1>1, <1>2, <2>1, <2>2
<1> QED
    BY <1>3, <1>4, <1>5, <1>6, <1>7, <1>8, QuietStep

-----------------------------------------------------------------------------
(* Theorems *)

\* The invariant holds in every state of the layer.
LEMMA Invariance == Spec => []IInv
<1>1. IInv /\ [Next]_vars => IInv'
    BY TypeStep, LifecycleStep, HandStep, OrderStep, RingStep DEF IInv
<1> QED
    BY <1>1, InitIInv, PTL DEF Spec

\* For any number of alerts: each is stored once and in order, refused, or still
\* pending, and none is pending when stop() has returned.
THEOREM AlertsNeitherLostNorDoubled == Spec => []EveryAlertOnce
<1>1. IInv => EveryAlertOnce
    <2> SUFFICES ASSUME IInv PROVE EveryAlertOnce
        OBVIOUS
    <2>1. /\ fired \in Nat /\ alert_queue \in Seq(Nat) /\ hand \in Seq(Nat)
          /\ Len(alert_queue) \in Nat
        BY DEF IInv, TypeOK
    <2>2. CASE wpc = "persist"
        <3>1. pending = hand \o alert_queue /\ Len(hand) = 1
            BY <2>2 DEF pending, IInv, Hand
        <3>2. Len(pending) = Len(alert_queue) + 1 /\ offered = fired - Len(pending)
            <4>1. Len(hand \o alert_queue) = Len(hand) + Len(alert_queue)
                BY <2>1, ConcatProperties
            <4>2. offered = fired - Len(alert_queue) - 1
                BY <2>2 DEF offered
            <4> QED
                BY <2>1, <3>1, <4>1, <4>2
        <3>3. ASSUME NEW i \in 1..Len(pending)
              PROVE  pending[i] = fired - Len(pending) + i
            <4>1. CASE i = 1
                BY <2>1, <2>2, <3>1, <3>2, <4>1 DEF IInv, Order
            <4>2. CASE i # 1
                <5>1. i - 1 \in 1..Len(alert_queue) /\ pending[i] = alert_queue[i - 1]
                    BY <2>1, <3>1, <3>2, <4>2
                <5> QED
                    BY <2>1, <3>2, <5>1 DEF IInv, Order
            <4> QED
                BY <4>1, <4>2
        <3>4. mpc # "stopped"
            BY <2>2 DEF IInv, Lifecycle
        <3> QED
            BY <3>2, <3>3, <3>4 DEF IInv, Order, EveryAlertOnce
    <2>3. CASE wpc # "persist"
        <3>1. pending = alert_queue
            BY <2>1, <2>3 DEF pending
        <3>2. offered = fired - Len(pending)
            BY <2>3, <3>1 DEF offered
        <3>3. mpc = "stopped" => pending = <<>>
            BY <3>1 DEF IInv, Lifecycle
        <3> QED
            BY <3>1, <3>2, <3>3 DEF IInv, Order, EveryAlertOnce
    <2> QED
        BY <2>2, <2>3
<1> QED
    BY <1>1, Invariance, PTL

\* For any size of the ring: it holds the most recent alerts shown, oldest first;
\* none of them was shown before it was offered to the database, and until the final
\* drain all that were offered are shown, those that were refused included.
THEOREM DisplayRingIsLatest == Spec => []RingShowsLatest
<1>1. IInv => RingShowsLatest
    <2> SUFFICES ASSUME IInv PROVE RingShowsLatest
        OBVIOUS
    <2>1. /\ display_ring \in Seq(Nat) /\ shown \in Seq(Nat)
          /\ Len(display_ring) \in Nat /\ Len(shown) \in Nat
          /\ Len(display_ring) <= Len(shown)
        BY DeliveryAssumption DEF IInv, TypeOK, Ring
    <2> DEFINE m == Len(shown) - Len(display_ring) + 1
               last == SubSeq(shown, m, Len(shown))
    <2>2. /\ last \in Seq(Nat) /\ Len(last) = Len(display_ring)
          /\ \A i \in 1..Len(display_ring) : last[i] = shown[m + i - 1]
        BY <2>1
    <2>3. \A i \in 1..Len(display_ring) : display_ring[i] = last[i]
        <3> SUFFICES ASSUME NEW i \in 1..Len(display_ring)
                     PROVE  display_ring[i] = last[i]
            OBVIOUS
        <3>1. m + i - 1 = Len(shown) - Len(display_ring) + i
            BY <2>1
        <3>2. display_ring[i] = shown[Len(shown) - Len(display_ring) + i]
            BY DEF IInv, Ring
        <3> HIDE DEF m, last
        <3> QED
            BY <2>2, <3>1, <3>2
    <2>4. display_ring = last
        <3> HIDE DEF last
        <3> QED
            BY <2>1, <2>2, <2>3, SeqEqual
    <2>5. /\ Elements(shown) \subseteq Elements(stored) \cup refused
          /\ wpc \notin {"display", "drain", "done"} =>
               Elements(stored) \cup refused \subseteq Elements(shown)
        BY DEF IInv, Ring, Order, displayed
    <2> QED
        BY <2>4, <2>5 DEF IInv, Ring, RingShowsLatest
<1> QED
    BY <1>1, Invariance, PTL

\* Neither the dashboard nor the writer meets a window or a database that stop()
\* has taken down.
THEOREM NothingUsedAfterStop == Spec => []NoUseAfterStop
<1>1. IInv => NoUseAfterStop
    BY DEF IInv, TypeOK, Lifecycle, UpPlaces, NoUseAfterStop
<1> QED
    BY <1>1, Invariance, PTL

-----------------------------------------------------------------------------
(* Refinement *)

\* A step of the layer is a step of the alert log or leaves it alone: an alert is
\* offered where persist_alert() is called, by the loop or by the final drain.
LEMMA RefineStep == IInv /\ [Next]_vars => [AlertLogRef!Next]_(AlertLogRef!vars)
<1> SUFFICES ASSUME IInv, [Next]_vars PROVE [AlertLogRef!Next]_(AlertLogRef!vars)
    OBVIOUS
<1>1. /\ fired \in Nat /\ alert_queue \in Seq(Nat) /\ Len(alert_queue) \in Nat
      /\ offered \in Nat /\ AlertLogRef!handled = 1..offered
    <2>1. fired \in Nat /\ alert_queue \in Seq(Nat) /\ Len(alert_queue) \in Nat
        BY DEF IInv, TypeOK
    <2>2. offered \in Nat
        <3>1. offered >= 0
            BY DEF IInv, Order
        <3> QED
            BY <2>1, <3>1 DEF offered
    <2>3. AlertLogRef!handled = 1..offered
        BY DEF IInv, Order, Elements, AlertLogRef!handled
    <2> QED
        BY <2>1, <2>2, <2>3
<1>2. ASSUME persist(offered + 1), db = "open", offered < fired, UNCHANGED <<fired, mpc>>
      PROVE  AlertLogRef!Offer
    <2> DEFINE a == offered + 1
    <2>1. a \in 1..fired /\ a \notin 1..offered /\ 1..(a - 1) \subseteq 1..offered
        BY <1>1, <1>2
    <2>2. \/ stored' = Append(stored, a) /\ UNCHANGED refused
          \/ refused' = refused \cup {a} /\ UNCHANGED stored
        BY <1>2 DEF persist
    <2>3. UNCHANGED <<fired, (mpc = "stopped")>>
        BY <1>2
    <2> HIDE DEF a
    <2> QED
        BY <1>1, <2>1, <2>2, <2>3 DEF AlertLogRef!Offer
<1>3. CASE Enqueue
    BY <1>3 DEF Enqueue, writeVars, upVars, AlertLogRef!Next, AlertLogRef!Fire
<1>4. CASE WriterPersist
    <2>1. /\ wpc = "persist" /\ persist(Head(hand)) /\ UNCHANGED <<fired, mpc>>
        BY <1>4 DEF WriterPersist, queueVars, upVars
    <2>2. db = "open" /\ Head(hand) = offered + 1
        BY <2>1, OneElement DEF IInv, Lifecycle, UpPlaces, TypeOK, Order, Hand
    <2>3. offered < fired
        BY <1>1, <2>1 DEF offered
    <2> QED
        BY <1>2, <2>1, <2>2, <2>3 DEF AlertLogRef!Next
<1>5. CASE WriterDrain
    <2>1. /\ wpc = "drain" /\ alert_queue # <<>> /\ persist(Head(alert_queue))
          /\ UNCHANGED <<fired, mpc>>
        BY <1>5 DEF WriterDrain, upVars
    <2>2. db = "open"
        BY <2>1 DEF IInv, Lifecycle, UpPlaces, TypeOK
    <2>3. Len(alert_queue) > 0 /\ Head(alert_queue) = alert_queue[1]
        BY <1>1, <2>1
    <2>4. Head(alert_queue) = offered + 1 /\ offered < fired
        BY <1>1, <2>1, <2>3 DEF IInv, Order, offered
    <2> QED
        BY <1>2, <2>1, <2>2, <2>4 DEF AlertLogRef!Next
<1>6. CASE StopClose
    <2>1. alert_queue = <<>> /\ wpc = "done"
        BY <1>6 DEF IInv, Lifecycle, StopClose, StopStep
    <2>2. Len(alert_queue) = 0
        BY <2>1
    <2>3. AlertLogRef!handled = 1..fired
        BY <1>1, <2>1, <2>2 DEF offered
    <2> QED
        BY <1>6, <2>3
        DEF StopClose, StopStep, queueVars, writeVars, AlertLogRef!Next, AlertLogRef!Close
<1>7. CASE Start \/ StartThrows
    BY <1>7 DEF Start, StartThrows, queueVars, writeVars, AlertLogRef!vars
<1>8. CASE EnqueueNotify \/ SpuriousWakeup
    BY <1>8 DEF EnqueueNotify, SpuriousWakeup, queueVars, writeVars, upVars, AlertLogRef!vars
<1>9. CASE WriterHead \/ WriterPop \/ WriterContinue \/ WriterSleep
    BY <1>9 DEF WriterHead, WriterPop, WriterContinue, WriterSleep, queueVars, writeVars,
                upVars, AlertLogRef!vars
<1>10. CASE WriterBlock \/ WriterDisplay \/ WriterEnd
    BY <1>10 DEF WriterBlock, WriterDisplay, WriterEnd, queueVars, writeVars, upVars,
                 AlertLogRef!vars
<1>11. CASE Dashboard
    BY <1>11 DEF Dashboard, DashboardHead, DashboardWake, DashboardDraw, DashboardStep,
                 queueVars, writeVars, upVars, AlertLogRef!vars
<1>12. CASE Stop \/ StopNotify \/ StopJoinWriter \/ StopJoinDashboard \/ StopTeardown
    BY <1>12 DEF Stop, StopNotify, StopJoinWriter, StopJoinDashboard, StopTeardown, StopStep,
                 queueVars, writeVars, AlertLogRef!vars
<1>13. CASE UNCHANGED vars
    BY <1>13 DEF vars, queueVars, writeVars, upVars, AlertLogRef!vars
<1> QED
    BY <1>3, <1>4, <1>5, <1>6, <1>7, <1>8, <1>9, <1>10, <1>11, <1>12, <1>13
    DEF Next, Writer, Stopping

\* The queue, the wait and the final drain implement the alert log (its safety
\* part): the alerts are offered to the database one by one in the order of firing,
\* and stop() returns only when all have been.
THEOREM DeliveryImplementsAlertLog == Spec => AlertLogRef!SafetySpec
<1>1. Init => AlertLogRef!Init
    BY DEF Init, AlertLogRef!Init
<1>2. IInv /\ [Next]_vars => [AlertLogRef!Next]_(AlertLogRef!vars)
    BY RefineStep
<1> QED
    BY <1>1, <1>2, Invariance, PTL DEF Spec, AlertLogRef!SafetySpec
=============================================================================
