---------------------------- MODULE DeliveryLayer ----------------------------
(***************************************************************************)
(* src/DeliveryLayer.cpp: alerts come in through enqueue_alert(), the      *)
(* writer thread persists, prints and displays them, the dashboard thread  *)
(* redraws, and main starts and stops the layer.                           *)
(*                                                                         *)
(* The wait of writer_loop() is cut like pop() of the ring buffer: test of *)
(* the predicate with queue_mutex_ held, then blocking.  stop() clears     *)
(* running_ and notifies without that mutex.  The thread that fires alerts *)
(* has been joined before main calls stop() (Pipeline, UsersOutlived), so  *)
(* none is fired after it.  An alert is its position among those fired.    *)
(***************************************************************************)
EXTENDS Naturals, Sequences

CONSTANTS
  MaxAlerts,          \* bound: alerts fired in a run
  DISPLAY_RING_SIZE   \* how many alerts the display ring keeps

ASSUME DeliveryAssumption ==
  /\ MaxAlerts \in Nat
  /\ DISPLAY_RING_SIZE \in Nat

VARIABLES
  running,        \* running_
  alert_queue,    \* alert_queue_
  locked,         \* whether the writer holds queue_mutex_ between two steps
  hand,           \* the alert the writer has popped: <<>> or <<alert>>
  display_ring,   \* display_ring_
  db,             \* "none", "open", "closed"
  windows,        \* ncurses_active_ and the four windows
  epc,            \* enqueue_alert(): "idle", or "notify" after the unlock
  wpc,            \* writer: see WriterPlaces
  dpc,            \* dashboard: "none", "head", "sleep", "draw", "done"
  mpc,            \* main: where start() or stop() is
  fired,          \* history: how many alerts were enqueued
  stored,         \* history: the alerts in the table, in order
  refused,        \* history: the alerts whose INSERT failed
  shown,          \* history: the alerts that went to the display ring
  raced           \* history: stop()'s notify_all() found the writer between
                  \* its test and its blocking

queueVars == <<alert_queue, fired>>
writeVars == <<hand, display_ring, stored, refused, shown>>
upVars    == <<running, db, windows, mpc>>
vars == <<queueVars, writeVars, upVars, locked, epc, wpc, dpc, raced>>

WriterPlaces == {"none", "head", "test", "block", "waiting", "persist",
                 "display", "drain", "done"}

Init ==
  /\ running = FALSE
  /\ alert_queue = <<>>
  /\ locked = FALSE
  /\ hand = <<>>
  /\ display_ring = <<>>
  /\ db = "none"
  /\ windows = FALSE
  /\ epc = "idle"
  /\ wpc = "none"
  /\ dpc = "none"
  /\ mpc = "start"
  /\ fired = 0
  /\ stored = <<>>
  /\ refused = {}
  /\ shown = <<>>
  /\ raced = FALSE

-----------------------------------------------------------------------------
(* start() *)

\* init_ncurses() may leave the layer without a screen.
Start ==
  /\ mpc = "start"
  /\ db' = "open"
  /\ windows' \in BOOLEAN
  /\ running' = TRUE
  /\ wpc' = "head"
  /\ dpc' = "head"
  /\ mpc' = "up"
  /\ UNCHANGED <<queueVars, writeVars, locked, epc, raced>>

\* init_database() throws before anything runs, at the open or at a statement
\* after it; stop() will return at once.
StartThrows ==
  /\ mpc = "start"
  /\ db' \in {"none", "open"}
  /\ mpc' = "failed"
  /\ UNCHANGED <<queueVars, writeVars, running, windows, locked, epc, wpc, dpc,
                 raced>>

-----------------------------------------------------------------------------
(* delivery_fire_alert() and enqueue_alert() *)

Enqueue ==
  /\ mpc = "up"
  /\ epc = "idle"
  /\ fired < MaxAlerts
  /\ ~locked
  /\ alert_queue' = Append(alert_queue, fired + 1)
  /\ fired' = fired + 1
  /\ epc' = "notify"
  /\ UNCHANGED <<writeVars, upVars, locked, wpc, dpc, raced>>

\* Mutant: nobody is told.
wake_writer_missing == UNCHANGED wpc

wake_writer == wpc' = IF wpc = "waiting" THEN "test" ELSE wpc

EnqueueNotify ==
  /\ epc = "notify"
  /\ epc' = "idle"
  /\ wake_writer
  /\ UNCHANGED <<queueVars, writeVars, upVars, locked, dpc, raced>>

-----------------------------------------------------------------------------
(* writer_loop() *)

\* Mutant: the thread returns when it is told to stop.
after_loop_return == "done"

\* What follows the loop: the rest of the queue is written out.
after_loop == "drain"

WriterHead ==
  /\ wpc = "head"
  /\ wpc' = IF running THEN "test" ELSE after_loop
  /\ UNCHANGED <<queueVars, writeVars, upVars, locked, epc, dpc, raced>>

\* An alert is there: pop it, whether or not the layer is stopping.
WriterPop ==
  /\ wpc = "test"
  /\ alert_queue # <<>>
  /\ hand' = <<Head(alert_queue)>>
  /\ alert_queue' = Tail(alert_queue)
  /\ wpc' = "persist"
  /\ UNCHANGED <<display_ring, stored, refused, shown, fired, upVars, locked,
                 epc, dpc, raced>>

\* Nothing there and stopping: `continue'.
WriterContinue ==
  /\ wpc = "test"
  /\ alert_queue = <<>>
  /\ ~running
  /\ wpc' = "head"
  /\ UNCHANGED <<queueVars, writeVars, upVars, locked, epc, dpc, raced>>

WriterSleep ==
  /\ wpc = "test"
  /\ alert_queue = <<>>
  /\ running
  /\ locked' = TRUE
  /\ wpc' = "block"
  /\ UNCHANGED <<queueVars, writeVars, upVars, epc, dpc, raced>>

WriterBlock ==
  /\ wpc = "block"
  /\ locked' = FALSE
  /\ wpc' = "waiting"
  /\ UNCHANGED <<queueVars, writeVars, upVars, epc, dpc, raced>>

SpuriousWakeup ==
  /\ wpc = "waiting"
  /\ wpc' = "test"
  /\ UNCHANGED <<queueVars, writeVars, upVars, locked, epc, dpc, raced>>

\* persist_alert(a): nothing at all without a database; otherwise the INSERT
\* succeeds and is counted, or fails and is logged.
persist(a) ==
  IF db = "open"
    THEN \/ stored' = Append(stored, a) /\ UNCHANGED refused
         \/ refused' = refused \cup {a} /\ UNCHANGED stored
    ELSE UNCHANGED <<stored, refused>>

WriterPersist ==
  /\ wpc = "persist"
  /\ persist(Head(hand))
  /\ wpc' = "display"
  /\ UNCHANGED <<queueVars, hand, display_ring, shown, upVars, locked, epc, dpc,
                 raced>>

\* Mutant: the newest alerts are the ones that are cut off.
trim_newest(ring) ==
  IF Len(ring) > DISPLAY_RING_SIZE THEN SubSeq(ring, 1, DISPLAY_RING_SIZE) ELSE ring

\* while (size() > DISPLAY_RING_SIZE) pop_front()
trim(ring) ==
  IF Len(ring) > DISPLAY_RING_SIZE
    THEN SubSeq(ring, Len(ring) - DISPLAY_RING_SIZE + 1, Len(ring))
    ELSE ring

\* Printed if there is no screen, then pushed to the display ring.
WriterDisplay ==
  /\ wpc = "display"
  /\ display_ring' = trim(display_ring \o hand)
  /\ shown' = shown \o hand
  /\ hand' = <<>>
  /\ wpc' = "head"
  /\ UNCHANGED <<queueVars, stored, refused, upVars, locked, epc, dpc, raced>>

\* After the loop, under queue_mutex_, what is left is persisted, not shown.
WriterDrain ==
  /\ wpc = "drain"
  /\ alert_queue # <<>>
  /\ persist(Head(alert_queue))
  /\ alert_queue' = Tail(alert_queue)
  /\ UNCHANGED <<fired, hand, display_ring, shown, upVars, locked, epc, wpc, dpc,
                 raced>>

WriterEnd ==
  /\ wpc = "drain"
  /\ alert_queue = <<>>
  /\ wpc' = "done"
  /\ UNCHANGED <<queueVars, writeVars, upVars, locked, epc, dpc, raced>>

Writer == WriterHead \/ WriterPop \/ WriterContinue \/ WriterSleep \/ WriterBlock
          \/ WriterPersist \/ WriterDisplay \/ WriterDrain \/ WriterEnd

-----------------------------------------------------------------------------
(* dashboard_loop() *)

DashboardStep(from, to) ==
  /\ dpc = from
  /\ dpc' = to
  /\ UNCHANGED <<queueVars, writeVars, upVars, locked, epc, wpc, raced>>

DashboardHead == DashboardStep("head", IF running THEN "sleep" ELSE "done")
DashboardWake == DashboardStep("sleep", IF running THEN "draw" ELSE "done")

\* redraw_dashboard() on the screen, or the statistics on stdout.
DashboardDraw == DashboardStep("draw", "head")

Dashboard == DashboardHead \/ DashboardWake \/ DashboardDraw

-----------------------------------------------------------------------------
(* stop() *)

\* Main's next step inside stop().
StopStep(from, to) ==
  /\ mpc = from
  /\ mpc' = to
  /\ UNCHANGED <<queueVars, writeVars, locked, epc, dpc>>

Stop ==
  /\ epc = "idle"
  /\ StopStep("up", "notify")
  /\ running' = FALSE
  /\ UNCHANGED <<db, windows, wpc, raced>>

StopNotify ==
  /\ StopStep("notify", "joinWriter")
  /\ wake_writer
  /\ raced' = (wpc = "block")
  /\ UNCHANGED <<running, db, windows>>

writer_joinable == wpc = "done"

StopJoinWriter ==
  /\ StopStep("joinWriter", "joinDashboard")
  /\ writer_joinable
  /\ UNCHANGED <<running, db, windows, wpc, raced>>

\* Mutant: the dashboard is left to itself.
dashboard_joinable_now == TRUE

dashboard_joinable == dpc = "done"

StopJoinDashboard ==
  /\ StopStep("joinDashboard", "teardown")
  /\ dashboard_joinable
  /\ UNCHANGED <<running, db, windows, wpc, raced>>

StopTeardown ==
  /\ StopStep("teardown", "close")
  /\ windows' = FALSE
  /\ UNCHANGED <<running, db, wpc, raced>>

StopClose ==
  /\ StopStep("close", "stopped")
  /\ db' = "closed"
  /\ UNCHANGED <<running, windows, wpc, raced>>

Stopping == StopNotify \/ StopJoinWriter \/ StopJoinDashboard \/ StopTeardown
            \/ StopClose

-----------------------------------------------------------------------------

Next == Start \/ StartThrows \/ Enqueue \/ EnqueueNotify \/ Writer
        \/ SpuriousWakeup \/ Dashboard \/ Stop \/ Stopping

\* Threads that can go on do; alerts, stop() and spurious wake-ups need not come.
Fairness ==
  /\ WF_vars(EnqueueNotify)
  /\ WF_vars(Writer)
  /\ WF_vars(Dashboard)
  /\ WF_vars(Stopping)

Spec == Init /\ [][Next]_vars /\ Fairness

-----------------------------------------------------------------------------
(* Properties *)

\* DeliveryLayer's members stay in range; the display ring never exceeds its size.
TypeOK ==
  /\ running \in BOOLEAN
  /\ alert_queue \in Seq(Nat)
  /\ locked \in BOOLEAN
  /\ hand \in Seq(Nat)
  /\ display_ring \in Seq(Nat)
  /\ Len(display_ring) <= DISPLAY_RING_SIZE
  /\ db \in {"none", "open", "closed"}
  /\ windows \in BOOLEAN
  /\ epc \in {"idle", "notify"}
  /\ wpc \in WriterPlaces
  /\ dpc \in {"none", "head", "sleep", "draw", "done"}
  /\ mpc \in {"start", "failed", "up", "notify", "joinWriter", "joinDashboard",
              "teardown", "close", "stopped"}
  /\ fired \in Nat
  /\ stored \in Seq(Nat)
  /\ refused \in SUBSET Nat
  /\ shown \in Seq(Nat)
  /\ raced \in BOOLEAN

Elements(s) == {s[i] : i \in 1..Len(s)}
Increasing(s) == \A i, j \in 1..Len(s) : i < j => s[i] < s[j]

\* The alerts not yet offered to the database, oldest first.
pending == (IF wpc = "persist" THEN hand ELSE <<>>) \o alert_queue

\* Every alert ever fired is in exactly one place, across the hand-over from the
\* loop to the final drain: in the table, in the order of firing, refused by the
\* database, or still pending behind all of those; and when stop() has returned
\* none is pending.
EveryAlertOnce ==
  /\ TypeOK
  /\ Increasing(stored)
  /\ Elements(stored) \cap refused = {}
  /\ Elements(stored) \cup refused = 1..(fired - Len(pending))
  /\ \A i \in 1..Len(pending) : pending[i] = fired - Len(pending) + i
  /\ mpc = "stopped" => pending = <<>>

\* The display ring is the most recent DISPLAY_RING_SIZE alerts shown, oldest
\* first.  None is shown before it has been offered to the database, and as long
\* as the writer's loop goes on every one that was offered is shown, whether or
\* not its INSERT succeeded, the one in the writer's hand apart.
RingShowsLatest ==
  /\ display_ring = SubSeq(shown, Len(shown) - Len(display_ring) + 1, Len(shown))
  /\ Len(display_ring) = IF Len(shown) < DISPLAY_RING_SIZE THEN Len(shown)
                         ELSE DISPLAY_RING_SIZE
  /\ Elements(shown) \subseteq Elements(stored) \cup refused
  /\ wpc \notin {"display", "drain", "done"} =>
       Elements(stored) \cup refused \subseteq Elements(shown)

\* Neither thread meets what stop() has taken down: the dashboard draws only
\* while main has not begun the teardown, the writer persists only while the
\* database is open.
NoUseAfterStop ==
  /\ dpc = "draw" => mpc \in {"up", "notify", "joinWriter", "joinDashboard"}
  /\ wpc \in {"persist", "drain"} => db = "open"

AlertLogRef ==
  INSTANCE AlertLog WITH Alerts <- MaxAlerts, table <- stored,
                         closed <- (mpc = "stopped")

\* The layer is an AlertLog: between the loop of the writer and its final drain
\* no alert is skipped, offered twice or out of order, every one is eventually
\* offered even if stop()'s notification is missed, and stop() returns only when
\* all have been.
ImplementsAlertLog == AlertLogRef!Spec

\* stop() returns, unless its notify_all() fell between the writer's test and
\* its blocking.
StopReturnsUnlessRaced == mpc = "notify" ~> (mpc = "stopped" \/ raced)
=============================================================================
