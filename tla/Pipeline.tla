------------------------------- MODULE Pipeline -------------------------------
(***************************************************************************)
(* src/main.cpp and src/CaptureLayer.cpp around PacketRingBuffer: how the  *)
(* program comes up, runs, is told to stop and comes down.                 *)
(*                                                                         *)
(* Threads: main; "producer", the capture thread inside pcap_loop();       *)
(* "consumer", the packet loop; "reaper" and "delivery", here only alive   *)
(* or not (FlowTracker and DeliveryLayer model them).  A signal handler    *)
(* runs on some live thread, which stands still meanwhile; the others go   *)
(* on.  Two signals are handled one after the other.                       *)
(***************************************************************************)
EXTENDS Naturals, Sequences, FiniteSets

CONSTANTS
  MaxCapacity,  \* config.ring_buffer.max_capacity
  MaxPackets,   \* bound: packets seen by pcap
  MaxSignals,   \* bound: signals delivered
  DeviceFails,  \* whether the capture device may go away
  Nil           \* no thread

Threads == {"main", "producer", "consumer", "reaper", "delivery"}

ASSUME PipelineAssumption ==
  /\ {MaxCapacity, MaxPackets, MaxSignals} \subseteq Nat
  /\ DeviceFails \in BOOLEAN
  /\ Nil \notin Threads

VARIABLES
  \* the ring buffer
  queue, pushed_count, popped_count, dropped_count, shutdown_flag, mutex,
  ppc, cpc, spc, accepted, delivered, raced,
  \* the threads
  mpc,              \* main: the next thing it does
  kpc,              \* the capture thread: see ProducerPlaces
  dpc,              \* the consumer: "none", "popping", "processing", "done"
  hpc,              \* the signal handler: "idle", "handle", "break", "ring", "notify"
  host,             \* the thread a running handler has interrupted, or Nil
  signals,          \* how many signals have been delivered
  background,       \* which of "reaper" and "delivery" run
  missed,           \* whether DeliveryLayer::stop()'s notify_all() found the alert
                    \* writer between its test and its blocking, where it still is
  \* main.cpp's globals
  g_shutdown_flag,
  g_ring_buffer,    \* whether it points to a buffer
  layers,           \* whether the layers exist and the set_* pointers are set
  processed,        \* g_consumer_packets_processed
  \* CaptureLayer
  running,          \* running_
  pcap,             \* what pcap_handle_ refers to: "none", "open" or "closed"
  pcap_handle,      \* whether pcap_handle_ is non-null
  break_loop,       \* libpcap's own flag in the handle
  joined,           \* whether producer_thread_ has been joined
  captured_count, dropped_by_ring

ringVars == <<queue, pushed_count, popped_count, dropped_count, shutdown_flag,
              mutex, ppc, cpc, spc, accepted, delivered, raced>>
backVars    == <<background, missed>>
threadVars  == <<kpc, dpc, backVars>>
globalVars  == <<g_ring_buffer, layers, joined>>
handlerVars == <<hpc, host, signals>>
countVars   == <<processed, captured_count, dropped_by_ring>>
pcapVars    == <<pcap, pcap_handle, break_loop>>
vars == <<ringVars, mpc, threadVars, globalVars, handlerVars, g_shutdown_flag,
          countVars, running, pcapVars>>

Ring == INSTANCE PacketRingBuffer WITH
  Producers <- {"producer"}, Consumers <- {"consumer"},
  Closers <- {"handler", "main"}

ProducerPlaces == {"none", "loop", "push", "drop", "left", "done"}
MainPlaces == {"mkRing", "mkLayers", "startDelivery", "startReaper",
  "startConsumer", "openCapture", "startCapture", "join", "stopCapture",
  "joinCapture", "closeCapture", "nullCapture", "stopReaper", "stopDelivery",
  "joinDelivery", "catch", "catchNotify", "catchDelivery", "catchJoinDelivery",
  "catchReaper", "summary", "clear", "destroy", "exit", "aborted"}

\* The handlers have just been installed; nothing else exists.
Init ==
  /\ Ring!Init
  /\ mpc = "mkRing"
  /\ kpc = "none"
  /\ dpc = "none"
  /\ hpc = "idle"
  /\ host = Nil
  /\ signals = 0
  /\ background = {}
  /\ missed = FALSE
  /\ g_shutdown_flag = FALSE
  /\ g_ring_buffer = FALSE
  /\ layers = FALSE
  /\ processed = 0
  /\ running = FALSE
  /\ pcap = "none"
  /\ pcap_handle = FALSE
  /\ break_loop = FALSE
  /\ joined = FALSE
  /\ captured_count = 0
  /\ dropped_by_ring = 0

Ended == mpc \in {"exit", "aborted"}

\* The threads a signal can interrupt.
alive ==
  IF Ended THEN {}
  ELSE {"main"} \cup background
       \cup (IF kpc \in {"none", "done"} THEN {} ELSE {"producer"})
       \cup (IF dpc \in {"none", "done"} THEN {} ELSE {"consumer"})

\* Thread t may take a step: the process is up and no handler sits on t.
Runs(t) == ~Ended /\ host # t

-----------------------------------------------------------------------------
(* signal_handler() *)

HandlerEnter(t) ==
  /\ hpc = "idle"
  /\ signals < MaxSignals
  /\ t \in alive
  /\ signals' = signals + 1
  /\ host' = t
  /\ g_shutdown_flag' = TRUE
  /\ hpc' = "handle"
  /\ UNCHANGED <<ringVars, mpc, threadVars, globalVars, countVars, running,
                 pcapVars>>

\* The handler goes on; at "idle" the interrupted thread is free again.
HandlerStep(from, to) ==
  /\ ~Ended
  /\ hpc = from
  /\ hpc' = to
  /\ host' = IF to = "idle" THEN Nil ELSE host
  /\ UNCHANGED <<mpc, threadVars, globalVars, signals, g_shutdown_flag,
                 countVars, running, pcap, pcap_handle>>

\* get_capture_layer() and its pcap_handle(), either of which may be null.
HandlerReadHandle ==
  /\ HandlerStep("handle", IF layers /\ pcap_handle THEN "break" ELSE "ring")
  /\ UNCHANGED <<ringVars, break_loop>>

HandlerBreak ==
  /\ HandlerStep("break", "ring")
  /\ break_loop' = TRUE
  /\ UNCHANGED ringVars

HandlerShutdownRing ==
  /\ HandlerStep("ring", "notify")
  /\ g_ring_buffer
  /\ Ring!ShutdownStore("handler")
  /\ UNCHANGED break_loop

HandlerNoRing ==
  /\ HandlerStep("ring", "idle")
  /\ ~g_ring_buffer
  /\ UNCHANGED <<ringVars, break_loop>>

HandlerNotify ==
  /\ HandlerStep("notify", "idle")
  /\ Ring!ShutdownNotify("handler")
  /\ UNCHANGED break_loop

Handler == HandlerReadHandle \/ HandlerBreak \/ HandlerShutdownRing
           \/ HandlerNoRing \/ HandlerNotify

-----------------------------------------------------------------------------
(* CaptureLayer::producer_loop() and packet_callback() *)

ProducerStep(from, to) ==
  /\ Runs("producer")
  /\ kpc = from
  /\ kpc' = to
  /\ UNCHANGED <<mpc, dpc, backVars, globalVars, handlerVars,
                 g_shutdown_flag, processed, pcapVars>>

\* pcap_loop() calls back with a packet: it is counted first.
Callback ==
  /\ ProducerStep("loop", "push")
  /\ ppc["producer"] = "idle"
  /\ captured_count < MaxPackets
  /\ captured_count' = captured_count + 1
  /\ UNCHANGED <<ringVars, dropped_by_ring, running>>

CallbackPush ==
  /\ \/ ProducerStep("push", "loop") /\ Ring!PushEnqueue("producer")
     \/ ProducerStep("push", "drop") /\ Ring!PushDrop("producer")
  /\ UNCHANGED <<captured_count, dropped_by_ring, running>>

CallbackNotify ==
  /\ ProducerStep("loop", "loop")
  /\ Ring!PushNotify("producer")
  /\ UNCHANGED <<captured_count, dropped_by_ring, running>>

\* push() returned false.
CallbackDrop ==
  /\ ProducerStep("drop", "loop")
  /\ dropped_by_ring' = dropped_by_ring + 1
  /\ UNCHANGED <<ringVars, captured_count, running>>

\* pcap_loop() returns PCAP_ERROR_BREAK.
LoopBreak ==
  /\ ProducerStep("loop", "left")
  /\ ppc["producer"] = "idle"
  /\ break_loop
  /\ UNCHANGED <<ringVars, captured_count, dropped_by_ring, running>>

\* pcap_loop() returns PCAP_ERROR: the device went away.
LoopError ==
  /\ DeviceFails
  /\ ProducerStep("loop", "left")
  /\ ppc["producer"] = "idle"
  /\ ~break_loop
  /\ UNCHANGED <<ringVars, captured_count, dropped_by_ring, running>>

\* The last thing the thread does is to clear running_ itself.
ProducerExit ==
  /\ ProducerStep("left", "done")
  /\ running' = FALSE
  /\ UNCHANGED <<ringVars, captured_count, dropped_by_ring>>

-----------------------------------------------------------------------------
(* consumer_thread_func() *)

ConsumerStep(from, to) ==
  /\ Runs("consumer")
  /\ dpc = from
  /\ dpc' = to
  /\ UNCHANGED <<mpc, kpc, backVars, globalVars, handlerVars, g_shutdown_flag,
                 captured_count, dropped_by_ring, running, pcapVars>>

ConsumerPop ==
  /\ \/ ConsumerStep("popping", "processing") /\ Ring!PopTake("consumer")
     \/ ConsumerStep("popping", "done") /\ Ring!PopClosed("consumer")
     \/ /\ ConsumerStep("popping", "popping")
        /\ Ring!PopSleep("consumer") \/ Ring!PopBlock("consumer")
  /\ UNCHANGED processed

ConsumerSpurious ==
  /\ ConsumerStep("popping", "popping")
  /\ Ring!SpuriousWakeup("consumer")
  /\ UNCHANGED processed

\* Dissect, track, inspect and count the packet; leave if a signal came in,
\* whatever is still queued.
ConsumerProcess ==
  /\ ConsumerStep("processing", IF g_shutdown_flag THEN "done" ELSE "popping")
  /\ processed' = processed + 1
  /\ UNCHANGED ringVars

-----------------------------------------------------------------------------
(* main() *)

MainStep(from, to) ==
  /\ Runs("main")
  /\ mpc = from
  /\ mpc' = to
  /\ UNCHANGED <<handlerVars, countVars>>

\* A step of main that only moves on.
Pass(from, to) ==
  /\ MainStep(from, to)
  /\ UNCHANGED <<ringVars, threadVars, globalVars, g_shutdown_flag, running,
                 pcapVars>>

MakeRing ==
  /\ MainStep("mkRing", "mkLayers")
  /\ g_ring_buffer' = TRUE
  /\ UNCHANGED <<ringVars, threadVars, layers, joined, g_shutdown_flag, running,
                 pcapVars>>

\* Construct the capture layer, the tracker, the detector and the delivery
\* layer, and publish their pointers.
MakeLayers ==
  /\ MainStep("mkLayers", "startDelivery")
  /\ layers' = TRUE
  /\ UNCHANGED <<ringVars, threadVars, g_ring_buffer, joined, g_shutdown_flag,
                 running, pcapVars>>

\* Threads of the other layers are started or joined; a thread is not joined
\* while a handler sits on it.
Background(from, to, threads) ==
  /\ MainStep(from, to)
  /\ host \notin background \ threads
  /\ background' = threads
  /\ UNCHANGED <<ringVars, kpc, dpc, missed, globalVars, g_shutdown_flag, running,
                 pcapVars>>

StartDelivery == Background("startDelivery", "startReaper", {"delivery"})

\* The database cannot be opened, or one of the two std::thread constructors
\* throws std::system_error, the second with the writer already running.
StartDeliveryThrows ==
  \E threads \in {{}, {"delivery"}} : Background("startDelivery", "catch", threads)

StartReaper ==
  Background("startReaper", "startConsumer", {"delivery", "reaper"})

\* No thread can be made for the reaper, or for the consumer.
StartReaperThrows == Pass("startReaper", "catch")
StartConsumerThrows == Pass("startConsumer", "catch")

StartConsumer ==
  /\ MainStep("startConsumer", "openCapture")
  /\ dpc' = "popping"
  /\ UNCHANGED <<ringVars, kpc, backVars, globalVars, g_shutdown_flag,
                 running, pcapVars>>

OpenCapture ==
  /\ MainStep("openCapture", "startCapture")
  /\ pcap' = "open"
  /\ pcap_handle' = TRUE
  /\ UNCHANGED <<ringVars, threadVars, globalVars, g_shutdown_flag, running,
                 break_loop>>

\* No interface, or no permission: the exception leaves the block that owns
\* the std::thread `consumer', whose destructor finds it joinable and calls
\* std::terminate().
OpenCaptureThrows == Pass("openCapture", "aborted")

StartCapture ==
  /\ MainStep("startCapture", "join")
  /\ running' = TRUE
  /\ kpc' = "loop"
  /\ UNCHANGED <<ringVars, dpc, backVars, globalVars, g_shutdown_flag,
                 pcapVars>>

\* No thread can be made for pcap_loop(): again `consumer' is joinable.
StartCaptureThrows ==
  /\ MainStep("startCapture", "aborted")
  /\ running' = TRUE
  /\ UNCHANGED <<ringVars, threadVars, globalVars, g_shutdown_flag, pcapVars>>

\* Mutant: the consumer is detached.
JoinConsumerDetached == Pass("join", "stopCapture")

JoinConsumer ==
  /\ dpc = "done"
  /\ host # "consumer"
  /\ Pass("join", "stopCapture")

\* Mutant: nobody tells pcap_loop() to return.
StopCaptureNoBreak ==
  /\ running
  /\ MainStep("stopCapture", "joinCapture")
  /\ running' = FALSE
  /\ UNCHANGED <<ringVars, threadVars, globalVars, g_shutdown_flag, pcapVars>>

StopCapture ==
  /\ running
  /\ MainStep("stopCapture", "joinCapture")
  /\ running' = FALSE
  /\ break_loop' = TRUE
  /\ UNCHANGED <<ringVars, threadVars, globalVars, g_shutdown_flag, pcap,
                 pcap_handle>>

\* running_ was cleared by the capture thread: stop() returns at once, without
\* join() and without pcap_close().
StopCaptureEarly == ~running /\ Pass("stopCapture", "stopReaper")

\* Mutant: stop() does not wait for the thread.
capture_joinable_now == TRUE

capture_joinable == kpc = "done" /\ host # "producer"

JoinCapture ==
  /\ MainStep("joinCapture", "closeCapture")
  /\ capture_joinable
  /\ joined' = TRUE
  /\ UNCHANGED <<ringVars, threadVars, g_ring_buffer, layers, g_shutdown_flag,
                 running, pcapVars>>

CloseCapture ==
  /\ MainStep("closeCapture", "nullCapture")
  /\ pcap' = "closed"
  /\ UNCHANGED <<ringVars, threadVars, globalVars, g_shutdown_flag, running,
                 pcap_handle, break_loop>>

NullCapture ==
  /\ MainStep("nullCapture", "stopReaper")
  /\ pcap_handle' = FALSE
  /\ UNCHANGED <<ringVars, threadVars, globalVars, g_shutdown_flag, running,
                 pcap, break_loop>>

StopReaper == Background("stopReaper", "stopDelivery", {"delivery"})

\* DeliveryLayer::stop() clears running_ and notifies without queue_mutex_: if the
\* alert writer stands between its test and its blocking it sleeps on.
DeliveryStop(from, to) ==
  /\ MainStep(from, to)
  /\ missed' \in {FALSE, "delivery" \in background}
  /\ UNCHANGED <<ringVars, kpc, dpc, background, globalVars, g_shutdown_flag,
                 running, pcapVars>>

\* It then joins the threads that were started; the writer ends once it wakes up.
DeliveryJoin(from, to) ==
  ~missed /\ Background(from, to, background \ {"delivery"})

StopDelivery == DeliveryStop("stopDelivery", "joinDelivery")
JoinDelivery == DeliveryJoin("joinDelivery", "summary")

\* The catch block: the ring, the delivery layer, the reaper, of which only what was
\* started has to be stopped.  CaptureLayer::stop(), the last, returns at once: the
\* exceptions that leave it running never get here.
Catch ==
  /\ MainStep("catch", "catchNotify")
  /\ g_shutdown_flag' = TRUE
  /\ Ring!ShutdownStore("main")
  /\ UNCHANGED <<threadVars, globalVars, running, pcapVars>>

CatchNotify ==
  /\ MainStep("catchNotify", "catchDelivery")
  /\ Ring!ShutdownNotify("main")
  /\ UNCHANGED <<threadVars, globalVars, g_shutdown_flag, running, pcapVars>>

CatchStopDelivery == DeliveryStop("catchDelivery", "catchJoinDelivery")
CatchJoinDelivery == DeliveryJoin("catchJoinDelivery", "catchReaper")
CatchStopReaper == Background("catchReaper", "summary", {})

\* A spurious wake-up gets the alert writer out of its wait.
WriterWakes ==
  /\ Runs("delivery")
  /\ missed
  /\ missed' = FALSE
  /\ UNCHANGED <<ringVars, mpc, kpc, dpc, background, globalVars, handlerVars,
                 g_shutdown_flag, countVars, running, pcapVars>>

\* The figures the session summary shows, besides `processed': what it calls
\* captured are the packets the ring accepted.
collect_stats ==
  [packets_captured |-> pushed_count, packets_dropped_ring |-> dropped_count,
   ring_queue_depth |-> Len(queue)]

\* print_session_summary() only reads.
Summary == Pass("summary", "clear")

ClearPointers ==
  /\ MainStep("clear", "destroy")
  /\ layers' = FALSE
  /\ UNCHANGED <<ringVars, threadVars, g_ring_buffer, joined, g_shutdown_flag,
                 running, pcapVars>>

\* Mutant: a capture thread that was never joined is simply let go.
destroyable_detached == TRUE

\* ~CaptureLayer() destroys producer_thread_, which std::thread only allows
\* when it was joined or never started.
destroyable == kpc = "none" \/ joined

\* The reset() calls, the ring buffer's last.
Destroy ==
  \/ /\ destroyable
     /\ MainStep("destroy", "exit")
     /\ g_ring_buffer' = FALSE
     /\ UNCHANGED <<ringVars, threadVars, layers, joined, g_shutdown_flag,
                    running, pcapVars>>
  \/ ~destroyable /\ Pass("destroy", "aborted")

Main ==
  \/ MakeRing \/ MakeLayers \/ StartDelivery \/ StartDeliveryThrows
  \/ StartReaper \/ StartReaperThrows \/ StartConsumer \/ StartConsumerThrows
  \/ OpenCapture \/ OpenCaptureThrows \/ StartCapture \/ StartCaptureThrows
  \/ JoinConsumer
  \/ StopCapture \/ StopCaptureEarly \/ JoinCapture \/ CloseCapture \/ NullCapture
  \/ StopReaper \/ StopDelivery \/ JoinDelivery
  \/ Catch \/ CatchNotify \/ CatchStopDelivery \/ CatchJoinDelivery \/ CatchStopReaper
  \/ Summary \/ ClearPointers \/ Destroy

Producer == Callback \/ CallbackPush \/ CallbackNotify \/ CallbackDrop
            \/ LoopBreak \/ LoopError \/ ProducerExit

Consumer == ConsumerPop \/ ConsumerProcess

Next ==
  \/ \E t \in alive : HandlerEnter(t)
  \/ Handler
  \/ Producer
  \/ Consumer \/ ConsumerSpurious
  \/ Main
  \/ WriterWakes

\* Main, the consumer and a handler that has begun go on when they can, and so
\* does the capture thread inside a callback or once it has been told to leave:
\* pcap_loop() looks at its flag at every read timeout.  Whoever asks for a mutex
\* that is released again and again gets it in the end.  Packets, errors of the
\* device, signals and spurious wake-ups need not come.
Fairness ==
  /\ WF_vars(Main)
  /\ WF_vars(Consumer)
  /\ WF_vars(Handler)
  /\ SF_vars(CallbackPush) /\ WF_vars(CallbackNotify) /\ WF_vars(CallbackDrop)
  /\ WF_vars(LoopBreak) /\ WF_vars(ProducerExit)

Spec == Init /\ [][Next]_vars /\ Fairness

-----------------------------------------------------------------------------
(* Properties *)

\* main.cpp's globals, CaptureLayer's members and the places of all threads stay
\* in range, the ring buffer's included.
TypeOK ==
  /\ Ring!TypeOK
  /\ mpc \in MainPlaces
  /\ kpc \in ProducerPlaces
  /\ dpc \in {"none", "popping", "processing", "done"}
  /\ hpc \in {"idle", "handle", "break", "ring", "notify"}
  /\ host \in Threads \cup {Nil}
  /\ background \subseteq {"reaper", "delivery"}
  /\ pcap \in {"none", "open", "closed"}
  /\ {missed, g_shutdown_flag, g_ring_buffer, layers, running, pcap_handle, break_loop,
      joined} \subseteq BOOLEAN
  /\ {signals, processed, captured_count, dropped_by_ring} \subseteq Nat

\* Nothing outlives what it uses: as long as the consumer, the capture thread,
\* the delivery thread (its dashboard calls collect_stats) or a signal handler
\* inside shutdown() can touch the ring buffer, main has not destroyed it;
\* pcap_loop() never runs on a closed handle; the layers and their pointers are
\* there for the reaper, the dashboard and the consumer; and while the consumer can
\* still fire alerts the delivery layer runs to take them.
UsersOutlived ==
  /\ TypeOK
  /\ mpc # "aborted" =>
       /\ (hpc = "notify" \/ "delivery" \in background) => g_ring_buffer
       /\ background # {} => layers
       /\ dpc \in {"popping", "processing"} =>
            g_ring_buffer /\ layers /\ background = {"delivery", "reaper"}
       /\ kpc \in {"loop", "push", "drop"} => g_ring_buffer /\ pcap = "open"

\* What the printed session summary accounts for.  "Packets captured" is the
\* number the ring accepted: with "Ring buffer drops" it makes up all that
\* pcap_loop() handed over (captured_count, which is not printed), and it exceeds
\* "Packets processed" by exactly the packets the consumer left in the queue.  The
\* capture layer's own drop count agrees with the ring's.
SummaryAddsUp ==
  mpc \in {"summary", "clear", "destroy", "exit"} =>
    /\ collect_stats.packets_captured + collect_stats.packets_dropped_ring = captured_count
    /\ collect_stats.packets_dropped_ring = dropped_by_ring
    /\ processed + collect_stats.ring_queue_depth = collect_stats.packets_captured

\* A process that returns from main has joined every thread it started and has
\* closed the capture handle it opened.
ExitReleasesAll ==
  mpc = "exit" =>
    /\ dpc \in {"none", "done"}
    /\ kpc \in {"none", "done"}
    /\ background = {}
    /\ pcap # "open"

\* Once the ring has been shut down the process ends, in order or by
\* std::terminate(), unless one of its two unlocked notifications is missed: that of
\* the ring by the consumer or that of DeliveryLayer::stop() by the alert writer.
ShutdownEndsUnlessRaced ==
  shutdown_flag ~> (Ended \/ "consumer" \in raced \/ missed)

\* main.cpp: "Block main thread until Consumer drains and exits".  The consumer
\* ends only when nothing is left in the queue.
ConsumerDrains == [][dpc # "done" /\ dpc' = "done" => queue = <<>>]_vars

\* README: "Capture Thread : joined", then an orderly end.  A process whose
\* capture thread was started is never torn down by std::terminate().
NeverTerminated == kpc # "none" => mpc # "aborted"
=============================================================================
