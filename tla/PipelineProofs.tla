---------------------------- MODULE PipelineProofs ----------------------------
(***************************************************************************)
(* Proofs about Pipeline for any capacity of the ring buffer, any number   *)
(* of packets and any number of signals.  What PacketRingBufferProofs says *)
(* of the ring buffer on its own is carried over to the ring buffer inside *)
(* the process, where its callers are the capture thread, the consumer,    *)
(* the signal handler and main's catch block.                              *)
(***************************************************************************)
EXTENDS Pipeline, Integers, SequenceTheorems, TLAPS

RingProofs == INSTANCE PacketRingBufferProofs WITH
  Producers <- {"producer"}, Consumers <- {"consumer"},
  Closers <- {"handler", "main"}

-----------------------------------------------------------------------------
(* The ring buffer inside the process *)

\* What the proofs about the ring buffer assume holds in the process.
LEMMA RingAssumptionHolds == RingProofs!RingAssumption
BY PipelineAssumption DEF RingProofs!RingAssumption, Threads

\* The two instances of the ring buffer, the one with and the one without proofs,
\* take the same steps.
LEMMA SameRing ==
  /\ Ring!Init => RingProofs!Init
  /\ [Ring!Next]_(Ring!vars) => [RingProofs!Next]_(RingProofs!vars)
  /\ RingProofs!TypeOK => Ring!TypeOK
  /\ RingProofs!FifoExactlyOnce => Ring!FifoExactlyOnce
<1>1. Ring!Init => RingProofs!Init
    BY DEF Ring!Init, RingProofs!Init
<1>2. Ring!Next => RingProofs!Next
    BY DEF Ring!Next, RingProofs!Next, Ring!Push, RingProofs!Push, Ring!Pop, RingProofs!Pop,
      Ring!PushEnqueue, RingProofs!PushEnqueue, Ring!PushDrop, RingProofs!PushDrop,
      Ring!PushNotify, RingProofs!PushNotify, Ring!PopTake, RingProofs!PopTake,
      Ring!PopClosed, RingProofs!PopClosed, Ring!PopSleep, RingProofs!PopSleep,
      Ring!PopBlock, RingProofs!PopBlock, Ring!SpuriousWakeup, RingProofs!SpuriousWakeup,
      Ring!ShutdownStore, RingProofs!ShutdownStore, Ring!ShutdownNotify,
      RingProofs!ShutdownNotify, Ring!notify_one, RingProofs!notify_one, Ring!notify_all,
      RingProofs!notify_all, Ring!waiters, RingProofs!waiters, Ring!offered,
      RingProofs!offered, Ring!full, RingProofs!full, Ring!front, RingProofs!front,
      Ring!count_popped, RingProofs!count_popped, Ring!keep_lock, RingProofs!keep_lock,
      Ring!counters, RingProofs!counters, Ring!history, RingProofs!history
<1>3. Ring!vars = RingProofs!vars /\ Ring!vars' = RingProofs!vars'
    BY DEF Ring!vars, RingProofs!vars, Ring!counters, RingProofs!counters, Ring!history,
      RingProofs!history
<1>4. RingProofs!TypeOK => Ring!TypeOK
    BY DEF Ring!TypeOK, RingProofs!TypeOK, Ring!ConsumerPlaces, RingProofs!ConsumerPlaces
<1>5. RingProofs!FifoExactlyOnce => Ring!FifoExactlyOnce
    BY DEF Ring!FifoExactlyOnce, RingProofs!FifoExactlyOnce
<1> QED
    BY <1>1, <1>2, <1>3, <1>4, <1>5

\* Whatever a thread of the process does is a step of the ring buffer or leaves it
\* alone.
LEMMA RingStep == [Next]_vars => [Ring!Next]_(Ring!vars)
<1> SUFFICES ASSUME [Next]_vars PROVE Ring!Next \/ UNCHANGED ringVars
    BY DEF ringVars, Ring!vars, Ring!counters, Ring!history
<1> DEFINE Goal == Ring!Next \/ UNCHANGED ringVars
<1> SUFFICES Goal
    OBVIOUS
<1>1. ASSUME NEW t, HandlerEnter(t) PROVE Goal
    BY <1>1 DEF HandlerEnter
<1>2. CASE Handler
    BY <1>2 DEF Handler, HandlerReadHandle, HandlerBreak, HandlerShutdownRing, HandlerNoRing,
      HandlerNotify, Ring!Next
<1>3. CASE Producer
    BY <1>3 DEF Producer, Callback, CallbackPush, CallbackNotify, CallbackDrop, LoopBreak,
      LoopError, ProducerExit, Ring!Next, Ring!Push
<1>4. CASE Consumer \/ ConsumerSpurious
    BY <1>4 DEF Consumer, ConsumerSpurious, ConsumerPop, ConsumerProcess, Ring!Next, Ring!Pop
<1>5. CASE Main
    BY <1>5 DEF Main, MakeRing, MakeLayers, StartDelivery, StartDeliveryThrows, StartReaper,
      StartReaperThrows, StartConsumer, StartConsumerThrows, OpenCapture, OpenCaptureThrows,
      StartCapture, StartCaptureThrows, JoinConsumer, StopCapture, StopCaptureEarly,
      JoinCapture, CloseCapture, NullCapture, StopReaper, StopDelivery, JoinDelivery, Catch,
      CatchNotify, CatchStopDelivery, CatchJoinDelivery, CatchStopReaper, Summary,
      ClearPointers, Destroy, Pass, Background, DeliveryStop, DeliveryJoin, Ring!Next
<1>6. CASE WriterWakes
    BY <1>6 DEF WriterWakes
<1>7. CASE UNCHANGED vars
    BY <1>7 DEF vars
<1> QED
    BY <1>1, <1>2, <1>3, <1>4, <1>5, <1>6, <1>7 DEF Next

\* The process contains the ring buffer as PacketRingBuffer specifies it: main, the
\* consumer, the capture thread and the signal handler use it by its protocol.
THEOREM ProcessRunsRing == Spec => Ring!SafetySpec
<1>1. Init => Ring!Init
    BY DEF Init
<1> QED
    BY <1>1, RingStep, PTL DEF Spec, Ring!SafetySpec

\* So its invariant holds in the process.
LEMMA RingInvariance == Spec => []RingProofs!IInv
<1>1. Init => RingProofs!IInv
    BY SameRing, RingAssumptionHolds, RingProofs!InitIInv DEF Init
<1>2. RingProofs!IInv /\ [Next]_vars => RingProofs!IInv'
    BY SameRing, RingStep, RingAssumptionHolds, RingProofs!StepIInv
<1> QED
    BY <1>1, <1>2, PTL DEF Spec

-----------------------------------------------------------------------------
(***************************************************************************)
(* The inductive invariant of the process: what exists and which threads   *)
(* run at each place of main, and how far the counters are apart while a   *)
(* packet is in the hands of a thread.                                     *)
(***************************************************************************)
Starting == {"mkRing", "mkLayers", "startDelivery"}
Failing == {"catch", "catchNotify", "catchDelivery", "catchJoinDelivery", "catchReaper"}
Stopped == {"summary", "clear", "destroy", "exit"}
Capturing == {"loop", "push", "drop", "left"}

Places ==
  /\ mpc \in MainPlaces
  /\ kpc \in ProducerPlaces
  /\ dpc \in {"none", "popping", "processing", "done"}
  /\ hpc \in {"idle", "handle", "break", "ring", "notify"}
  /\ host \in Threads \cup {Nil}
  /\ pcap \in {"none", "open", "closed"}
  /\ g_ring_buffer \in BOOLEAN /\ layers \in BOOLEAN /\ running \in BOOLEAN
  /\ joined \in BOOLEAN
  /\ background \in {{}, {"delivery"}, {"reaper"}, {"delivery", "reaper"}}

Existing ==
  /\ mpc \notin {"mkRing", "exit"} => g_ring_buffer
  /\ mpc \notin {"mkRing", "mkLayers", "destroy", "exit", "aborted"} => layers
  /\ mpc \in Starting \cup Stopped => background = {}
  /\ mpc \in {"startReaper", "stopDelivery", "joinDelivery"} => background = {"delivery"}
  /\ mpc \in {"startConsumer", "openCapture", "startCapture", "join", "stopCapture",
              "joinCapture", "closeCapture", "nullCapture", "stopReaper"} =>
       background = {"delivery", "reaper"}
  /\ mpc = "catchReaper" => "delivery" \notin background

ConsumerThread ==
  /\ mpc \in Starting \cup Failing \cup {"startReaper", "startConsumer"} => dpc = "none"
  /\ dpc \in {"popping", "processing"} =>
       mpc \in {"openCapture", "startCapture", "join", "aborted"}

\* The capture thread clears running_ last of all, so that stop() returns early only
\* when the thread is done; and it runs only while its handle is open.
CaptureThread ==
  /\ mpc \in Starting \cup Failing \cup {"startReaper", "startConsumer", "openCapture"} =>
       kpc = "none" /\ pcap = "none"
  /\ mpc \in {"startReaper", "startConsumer", "openCapture", "startCapture"} => kpc = "none"
  /\ mpc \in {"startCapture", "join", "stopCapture", "joinCapture", "closeCapture"} =>
       pcap = "open"
  /\ mpc \in {"join", "stopCapture", "joinCapture", "closeCapture", "nullCapture",
              "stopReaper", "stopDelivery", "joinDelivery"} => kpc # "none"
  /\ mpc \in {"join", "stopCapture"} /\ ~running => kpc = "done"
  /\ kpc \in Capturing => mpc \in {"join", "stopCapture", "joinCapture"}
  /\ mpc \in {"closeCapture", "nullCapture"} => joined
  /\ mpc \in Stopped /\ kpc = "none" => pcap = "none"
  /\ joined => mpc \in {"closeCapture", "nullCapture", "stopReaper", "stopDelivery",
                         "joinDelivery", "aborted"} \cup Stopped
  /\ joined /\ mpc # "closeCapture" => pcap = "closed"
  /\ mpc = "exit" => kpc = "none" \/ joined

\* A handler runs on a thread that is alive.
HandlerThread ==
  /\ hpc = "idle" <=> host = Nil
  /\ host # Nil /\ mpc # "aborted" => host \in alive
  /\ hpc = "notify" /\ mpc # "aborted" => g_ring_buffer

Control == Places /\ Existing /\ ConsumerThread /\ CaptureThread /\ HandlerThread

Counting ==
  /\ captured_count \in Nat /\ processed \in Nat /\ dropped_by_ring \in Nat
  /\ IF kpc = "push" THEN captured_count = pushed_count + dropped_count + 1
     ELSE captured_count = pushed_count + dropped_count
  /\ IF kpc = "drop" THEN dropped_count = dropped_by_ring + 1
     ELSE dropped_count = dropped_by_ring
  /\ IF dpc = "processing" THEN popped_count = processed + 1
     ELSE popped_count = processed

Rest ==
  /\ g_shutdown_flag \in BOOLEAN /\ pcap_handle \in BOOLEAN /\ break_loop \in BOOLEAN
  /\ signals \in Nat /\ missed \in BOOLEAN

\* At the start nothing exists.
LEMMA InitControl == Init => Control /\ Counting /\ Rest
<1> SUFFICES ASSUME Init PROVE Control /\ Counting /\ Rest
    OBVIOUS
<1>1. Control
    BY PipelineAssumption DEF Init, Control, Places, Existing, ConsumerThread, CaptureThread,
      HandlerThread, MainPlaces, ProducerPlaces, Starting, Failing, Stopped, Capturing, Threads
<1>2. Counting
    BY DEF Init, Counting, Ring!Init
<1>3. Rest
    BY DEF Init, Rest
<1> QED
    BY <1>1, <1>2, <1>3

\* The signal handler runs to its end on a thread that waits for it.
LEMMA HandlerControl ==
  ASSUME Control, Handler \/ \E t \in alive : HandlerEnter(t)
  PROVE  Control'
<1> USE PipelineAssumption DEF Control, Places, Existing, ConsumerThread, CaptureThread,
      HandlerThread, Threads, alive, Ended, threadVars, backVars, globalVars, handlerVars, pcapVars
<1>1. ASSUME NEW t \in alive, HandlerEnter(t) PROVE Control'
    BY <1>1 DEF HandlerEnter
<1>2. CASE HandlerReadHandle
    BY <1>2 DEF HandlerReadHandle, HandlerStep
<1>3. CASE HandlerBreak
    BY <1>3 DEF HandlerBreak, HandlerStep
<1>4. CASE HandlerShutdownRing
    BY <1>4 DEF HandlerShutdownRing, HandlerStep
<1>5. CASE HandlerNoRing
    BY <1>5 DEF HandlerNoRing, HandlerStep
<1>6. CASE HandlerNotify
    BY <1>6 DEF HandlerNotify, HandlerStep
<1> QED
    BY <1>1, <1>2, <1>3, <1>4, <1>5, <1>6 DEF Handler

\* The capture thread.
LEMMA ProducerControl == Control /\ Producer => Control'
<1> SUFFICES ASSUME Control, Producer PROVE Control'
    OBVIOUS
<1> USE PipelineAssumption DEF Control, Places, Existing, ConsumerThread, CaptureThread,
      HandlerThread, Threads, ProducerPlaces, Capturing, Stopped, Starting, Failing, alive, Ended,
      Runs, backVars, globalVars, handlerVars, pcapVars, ProducerStep
<1>1. CASE Callback
    BY <1>1 DEF Callback
<1>2. CASE CallbackPush
    BY <1>2 DEF CallbackPush
<1>3. CASE CallbackNotify
    BY <1>3 DEF CallbackNotify
<1>4. CASE CallbackDrop
    BY <1>4 DEF CallbackDrop
<1>5. CASE LoopBreak
    BY <1>5 DEF LoopBreak
<1>6. CASE LoopError
    BY <1>6 DEF LoopError
<1>7. CASE ProducerExit
    <2>1. Places' /\ Existing' /\ ConsumerThread'
        BY <1>7 DEF ProducerExit, threadVars
    <2>2. CaptureThread'
        BY <1>7 DEF ProducerExit
    <2>3. HandlerThread'
        BY <1>7 DEF ProducerExit
    <2> QED
        BY <2>1, <2>2, <2>3
<1> QED
    BY <1>1, <1>2, <1>3, <1>4, <1>5, <1>6, <1>7 DEF Producer

\* The consumer.
LEMMA ConsumerControl == Control /\ (Consumer \/ ConsumerSpurious) => Control'
<1> SUFFICES ASSUME Control, Consumer \/ ConsumerSpurious PROVE Control'
    OBVIOUS
<1> USE PipelineAssumption DEF Control, Places, Existing, ConsumerThread, CaptureThread,
      HandlerThread, Threads, alive, Ended, Runs, backVars, globalVars, handlerVars, pcapVars,
      ConsumerStep
<1>1. CASE ConsumerPop
    BY <1>1 DEF ConsumerPop
<1>2. CASE ConsumerProcess
    BY <1>2 DEF ConsumerProcess
<1>3. CASE ConsumerSpurious
    BY <1>3 DEF ConsumerSpurious
<1> QED
    BY <1>1, <1>2, <1>3 DEF Consumer

\* main: up to its last place, and from the catch block.
LEMMA MainControl == Control /\ Main => Control'
<1> SUFFICES ASSUME Control, Main PROVE Control'
    OBVIOUS
<1> USE PipelineAssumption DEF Control, Places, Existing, ConsumerThread, CaptureThread,
      HandlerThread, Threads, MainPlaces, ProducerPlaces, Capturing, Stopped, Starting, Failing, alive,
      Ended, Runs, threadVars, backVars, globalVars, handlerVars, pcapVars, MainStep
<1>1. CASE MakeRing
    BY <1>1 DEF MakeRing
<1>2. CASE MakeLayers
    BY <1>2 DEF MakeLayers
<1>3. CASE StartDelivery
    BY <1>3 DEF StartDelivery, Background
<1>4. CASE StartDeliveryThrows
    BY <1>4 DEF StartDeliveryThrows, Background
<1>5. CASE StartReaper
    BY <1>5 DEF StartReaper, Background
<1>6. CASE StartConsumer
    BY <1>6 DEF StartConsumer
<1>7. CASE OpenCapture
    BY <1>7 DEF OpenCapture
<1>8. CASE OpenCaptureThrows
    BY <1>8 DEF OpenCaptureThrows, Pass
<1>9. CASE StartCapture
    BY <1>9 DEF StartCapture
<1>10. CASE JoinConsumer
    BY <1>10 DEF JoinConsumer, Pass
<1>11. CASE StopCapture
    BY <1>11 DEF StopCapture
<1>12. CASE StopCaptureEarly
    BY <1>12 DEF StopCaptureEarly, Pass
<1>13. CASE JoinCapture
    BY <1>13 DEF JoinCapture, capture_joinable
<1>14. CASE CloseCapture
    BY <1>14 DEF CloseCapture
<1>15. CASE NullCapture
    BY <1>15 DEF NullCapture
<1>16. CASE StopReaper
    BY <1>16 DEF StopReaper, Background
<1>17. CASE StopDelivery
    BY <1>17 DEF StopDelivery, DeliveryStop
<1>18. CASE Catch
    BY <1>18 DEF Catch
<1>19. CASE CatchNotify
    BY <1>19 DEF CatchNotify
<1>20. CASE Summary
    BY <1>20 DEF Summary, Pass
<1>21. CASE ClearPointers
    <2>1. Places' /\ Existing'
        BY <1>21 DEF ClearPointers
    <2>2. ConsumerThread'
        BY <1>21 DEF ClearPointers
    <2>3. CaptureThread'
        BY <1>21 DEF ClearPointers
    <2>4. HandlerThread'
        BY <1>21 DEF ClearPointers
    <2> QED
        BY <2>1, <2>2, <2>3, <2>4
<1>22. CASE Destroy
    <2>1. Places' /\ Existing'
        BY <1>22 DEF Destroy, Pass, destroyable
    <2>2. ConsumerThread'
        BY <1>22 DEF Destroy, Pass, destroyable
    <2>3. CaptureThread'
        BY <1>22 DEF Destroy, Pass, destroyable
    <2>4. HandlerThread'
        BY <1>22 DEF Destroy, Pass, destroyable
    <2> QED
        BY <2>1, <2>2, <2>3, <2>4
<1>23. CASE JoinDelivery
    <2>1. Places' /\ Existing'
        BY <1>23 DEF JoinDelivery, DeliveryJoin, Background
    <2>2. ConsumerThread'
        BY <1>23 DEF JoinDelivery, DeliveryJoin, Background
    <2>3. CaptureThread'
        BY <1>23 DEF JoinDelivery, DeliveryJoin, Background
    <2>4. HandlerThread'
        BY <1>23 DEF JoinDelivery, DeliveryJoin, Background
    <2> QED
        BY <2>1, <2>2, <2>3, <2>4
<1>24. CASE CatchStopDelivery
    BY <1>24 DEF CatchStopDelivery, DeliveryStop
<1>25. CASE CatchJoinDelivery
    <2>1. Places' /\ Existing'
        BY <1>25 DEF CatchJoinDelivery, DeliveryJoin, Background
    <2>2. ConsumerThread'
        BY <1>25 DEF CatchJoinDelivery, DeliveryJoin, Background
    <2>3. CaptureThread'
        BY <1>25 DEF CatchJoinDelivery, DeliveryJoin, Background
    <2>4. HandlerThread'
        BY <1>25 DEF CatchJoinDelivery, DeliveryJoin, Background
    <2> QED
        BY <2>1, <2>2, <2>3, <2>4
<1>26. CASE CatchStopReaper
    <2>1. Places' /\ Existing'
        BY <1>26 DEF CatchStopReaper, Background
    <2>2. ConsumerThread'
        BY <1>26 DEF CatchStopReaper, Background
    <2>3. CaptureThread'
        BY <1>26 DEF CatchStopReaper, Background
    <2>4. HandlerThread'
        BY <1>26 DEF CatchStopReaper, Background
    <2> QED
        BY <2>1, <2>2, <2>3, <2>4
<1>27. CASE StartReaperThrows
    BY <1>27 DEF StartReaperThrows, Pass
<1>28. CASE StartConsumerThrows
    BY <1>28 DEF StartConsumerThrows, Pass
<1>29. CASE StartCaptureThrows
    BY <1>29 DEF StartCaptureThrows
<1> QED
    BY <1>1, <1>2, <1>3, <1>4, <1>5, <1>6, <1>7, <1>8, <1>9, <1>10, <1>11,
       <1>12, <1>13, <1>14, <1>15, <1>16, <1>17, <1>18, <1>19, <1>20, <1>21, <1>22,
       <1>23, <1>24, <1>25, <1>26, <1>27, <1>28, <1>29 DEF Main

\* The alert writer, woken for no reason.
LEMMA WriterControl == Control /\ WriterWakes => Control'
BY DEF WriterWakes, Control, Places, Existing, ConsumerThread, CaptureThread, HandlerThread,
  alive, Ended, globalVars, handlerVars, pcapVars

-----------------------------------------------------------------------------
(* The counters *)

\* A packet is counted at every hand it goes through: the counters differ by the
\* packets in the hands of the capture thread and of the consumer.
LEMMA CountingStep ==
  Ring!TypeOK /\ Control /\ Counting /\ Rest /\ [Next]_vars => Counting' /\ Rest'
<1> SUFFICES ASSUME Ring!TypeOK, Control, Counting, Rest, [Next]_vars PROVE Counting' /\ Rest'
    OBVIOUS
<1>0. /\ pushed_count \in Nat /\ popped_count \in Nat /\ dropped_count \in Nat
      /\ captured_count \in Nat /\ processed \in Nat /\ dropped_by_ring \in Nat
    BY DEF Ring!TypeOK, Counting
<1> DEFINE Untouched == UNCHANGED <<kpc, dpc, countVars, pushed_count, popped_count,
                                    dropped_count>>
<1>1. ASSUME Untouched PROVE Counting'
    BY <1>1 DEF Counting, countVars
<1>2. ASSUME NEW t, HandlerEnter(t) PROVE Counting' /\ Rest'
    <2>1. Untouched
        BY <1>2 DEF HandlerEnter, ringVars, threadVars
    <2>2. Rest'
        BY <1>2 DEF HandlerEnter, Rest, threadVars, backVars, pcapVars
    <2> QED
        BY <1>1, <2>1, <2>2
<1>3. CASE Handler
    <2>1. Untouched
        BY <1>3 DEF Handler, HandlerReadHandle, HandlerBreak, HandlerShutdownRing, HandlerNoRing,
          HandlerNotify, HandlerStep, ringVars, threadVars, Ring!ShutdownStore,
          Ring!ShutdownNotify, Ring!counters
    <2>2. Rest'
        BY <1>3 DEF Handler, HandlerReadHandle, HandlerBreak, HandlerShutdownRing, HandlerNoRing,
          HandlerNotify, HandlerStep, Rest, threadVars, backVars
    <2> QED
        BY <1>1, <2>1, <2>2
<1>4. CASE Producer
    <2>1. Rest'
        BY <1>4 DEF Producer, Callback, CallbackPush, CallbackNotify, CallbackDrop, LoopBreak,
          LoopError, ProducerExit, ProducerStep, Rest, backVars, handlerVars, pcapVars
    <2>2. dpc' = dpc /\ processed' = processed
        BY <1>4 DEF Producer, Callback, CallbackPush, CallbackNotify, CallbackDrop, LoopBreak,
          LoopError, ProducerExit, ProducerStep
    <2>3. popped_count' = popped_count
        BY <1>4 DEF Producer, Callback, CallbackPush, CallbackNotify, CallbackDrop, LoopBreak,
          LoopError, ProducerExit, ringVars, Ring!PushEnqueue, Ring!PushDrop, Ring!PushNotify,
          Ring!counters
    <2>4. CASE Callback
        <3>1. /\ kpc = "loop" /\ kpc' = "push" /\ captured_count' = captured_count + 1
              /\ UNCHANGED <<pushed_count, dropped_count, dropped_by_ring>>
            BY <2>4 DEF Callback, ProducerStep, ringVars
        <3> QED
            BY <1>0, <2>1, <2>2, <2>3, <3>1 DEF Counting
    <2>5. CASE CallbackPush
        <3>1. CASE kpc = "push" /\ kpc' = "loop" /\ Ring!PushEnqueue("producer")
            <4>1. /\ pushed_count' = pushed_count + 1
                  /\ UNCHANGED <<dropped_count, captured_count, dropped_by_ring>>
                BY <2>5, <3>1 DEF Ring!PushEnqueue, CallbackPush
            <4> QED
                BY <1>0, <2>1, <2>2, <2>3, <3>1, <4>1 DEF Counting
        <3>2. CASE kpc = "push" /\ kpc' = "drop" /\ Ring!PushDrop("producer")
            <4>1. /\ dropped_count' = dropped_count + 1
                  /\ UNCHANGED <<pushed_count, captured_count, dropped_by_ring>>
                BY <2>5, <3>2 DEF Ring!PushDrop, CallbackPush
            <4> QED
                BY <1>0, <2>1, <2>2, <2>3, <3>2, <4>1 DEF Counting
        <3> QED
            BY <2>5, <3>1, <3>2 DEF CallbackPush, ProducerStep
    <2>6. CASE CallbackDrop
        <3>1. /\ kpc = "drop" /\ kpc' = "loop" /\ dropped_by_ring' = dropped_by_ring + 1
              /\ UNCHANGED <<pushed_count, dropped_count, captured_count>>
            BY <2>6 DEF CallbackDrop, ProducerStep, ringVars
        <3> QED
            BY <1>0, <2>1, <2>2, <2>3, <3>1 DEF Counting
    <2>7. CASE CallbackNotify \/ LoopBreak \/ LoopError \/ ProducerExit
        <3>1. /\ kpc \in {"loop", "left"} /\ kpc' \in {"loop", "left", "done"}
              /\ UNCHANGED <<captured_count, dropped_by_ring>>
            BY <2>7 DEF CallbackNotify, LoopBreak, LoopError, ProducerExit, ProducerStep
        <3>2. UNCHANGED <<pushed_count, dropped_count>>
            BY <2>7 DEF CallbackNotify, LoopBreak, LoopError, ProducerExit, ringVars,
              Ring!PushNotify, Ring!counters
        <3> QED
            BY <1>0, <2>1, <2>2, <2>3, <3>1, <3>2 DEF Counting
    <2> QED
        BY <1>4, <2>4, <2>5, <2>6, <2>7 DEF Producer
<1>5. CASE Consumer \/ ConsumerSpurious
    <2>1. Rest'
        BY <1>5 DEF Consumer, ConsumerPop, ConsumerProcess, ConsumerSpurious, ConsumerStep, Rest,
          backVars, handlerVars, pcapVars
    <2>2. UNCHANGED <<kpc, captured_count, dropped_by_ring>>
        BY <1>5 DEF Consumer, ConsumerPop, ConsumerProcess, ConsumerSpurious, ConsumerStep
    <2>3. UNCHANGED <<pushed_count, dropped_count>>
        BY <1>5 DEF Consumer, ConsumerPop, ConsumerProcess, ConsumerSpurious, ringVars,
          Ring!PopTake, Ring!PopClosed, Ring!PopSleep, Ring!PopBlock, Ring!SpuriousWakeup,
          Ring!counters
    <2>4. CASE ConsumerStep("popping", "processing") /\ Ring!PopTake("consumer")
               /\ UNCHANGED processed
        <3>1. /\ dpc = "popping" /\ dpc' = "processing" /\ processed' = processed
              /\ popped_count' = popped_count + 1
            BY <2>4 DEF ConsumerStep, Ring!PopTake, Ring!count_popped
        <3> QED
            BY <1>0, <2>1, <2>2, <2>3, <3>1 DEF Counting
    <2>5. CASE ConsumerProcess
        <3>1. /\ dpc = "processing" /\ dpc' \in {"done", "popping"}
              /\ processed' = processed + 1 /\ popped_count' = popped_count
            BY <2>5 DEF ConsumerProcess, ConsumerStep, ringVars
        <3> QED
            BY <1>0, <2>1, <2>2, <2>3, <3>1 DEF Counting
    <2>6. CASE dpc = "popping" /\ dpc' \in {"popping", "done"} /\ UNCHANGED processed
               /\ UNCHANGED popped_count
        BY <1>0, <2>1, <2>2, <2>3, <2>6 DEF Counting
    <2> QED
        BY <1>5, <2>4, <2>5, <2>6 DEF Consumer, ConsumerPop, ConsumerSpurious, ConsumerStep,
          Ring!PopClosed, Ring!PopSleep, Ring!PopBlock, Ring!SpuriousWakeup, Ring!counters
<1>6. CASE Main
    <2> USE DEF Main, MakeRing, MakeLayers, StartDelivery, StartDeliveryThrows, StartReaper,
          StartReaperThrows, StartConsumer, StartConsumerThrows, OpenCapture, OpenCaptureThrows,
          StartCapture, StartCaptureThrows, JoinConsumer, StopCapture, StopCaptureEarly,
          JoinCapture, CloseCapture, NullCapture, StopReaper, StopDelivery, JoinDelivery, Catch,
          CatchNotify, CatchStopDelivery, CatchJoinDelivery, CatchStopReaper, Summary,
          ClearPointers, Destroy, Pass, Background, DeliveryStop, DeliveryJoin, MainStep
    <2>1. Rest'
        <3>1. {FALSE, "delivery" \in background} \subseteq BOOLEAN
            OBVIOUS
        <3>2. missed' = missed \/ missed' \in {FALSE, "delivery" \in background}
            BY <1>6 DEF threadVars, backVars
        <3>3. missed' \in BOOLEAN
            BY <3>1, <3>2 DEF Rest
        <3>4. signals' \in Nat /\ g_shutdown_flag' \in BOOLEAN
            BY <1>6 DEF Rest, handlerVars
        <3>5. pcap_handle' \in BOOLEAN /\ break_loop' \in BOOLEAN
            BY <1>6 DEF Rest, pcapVars
        <3> QED
            BY <3>3, <3>4, <3>5 DEF Rest
    <2>2. UNCHANGED countVars
        BY <1>6
    <2>3. UNCHANGED <<pushed_count, popped_count, dropped_count>>
        BY <1>6 DEF ringVars, Ring!ShutdownStore, Ring!ShutdownNotify, Ring!counters
    <2>4. /\ kpc' = kpc \/ (kpc = "none" /\ kpc' = "loop")
          /\ dpc' = dpc \/ (dpc = "none" /\ dpc' = "popping")
        <3>1. /\ mpc = "startCapture" => kpc = "none"
              /\ mpc = "startConsumer" => dpc = "none"
            BY DEF Control, CaptureThread, ConsumerThread
        <3> QED
            BY <1>6, <3>1 DEF threadVars
    <2>5. kpc' = kpc \/ (kpc \notin {"push", "drop"} /\ kpc' \notin {"push", "drop"})
        BY <2>4
    <2>6. dpc' = dpc \/ (dpc # "processing" /\ dpc' # "processing")
        BY <2>4
    <2> QED
        BY <1>0, <2>1, <2>2, <2>3, <2>5, <2>6 DEF Counting, countVars
<1>7. CASE UNCHANGED vars
    <2>1. Untouched /\ Rest'
        BY <1>7 DEF vars, ringVars, threadVars, backVars, handlerVars, pcapVars, Rest
    <2> QED
        BY <1>1, <2>1
<1>8. CASE WriterWakes
    <2>1. Untouched /\ Rest'
        BY <1>8 DEF WriterWakes, ringVars, handlerVars, pcapVars, Rest
    <2> QED
        BY <1>1, <2>1
<1> QED
    BY <1>2, <1>3, <1>4, <1>5, <1>6, <1>7, <1>8 DEF Next

-----------------------------------------------------------------------------

IInv == RingProofs!IInv /\ Control /\ Counting /\ Rest

\* The invariant of the process is inductive and holds in all its states.
LEMMA Invariance == Spec => []IInv
<1>1. Init => IInv
    BY SameRing, RingAssumptionHolds, RingProofs!InitIInv, InitControl DEF Init, IInv
<1>2. IInv /\ [Next]_vars => IInv'
    <2> SUFFICES ASSUME IInv, [Next]_vars PROVE IInv'
        OBVIOUS
    <2>1. RingProofs!IInv'
        BY SameRing, RingStep, RingAssumptionHolds, RingProofs!StepIInv DEF IInv
    <2>2. Ring!TypeOK
        BY SameRing DEF IInv, RingProofs!IInv
    <2>3. Counting' /\ Rest'
        BY <2>2, CountingStep DEF IInv
    <2>4. Control'
        <3>1. CASE UNCHANGED vars
            BY <3>1 DEF IInv, Control, Places, Existing, ConsumerThread, CaptureThread,
              HandlerThread, alive, Ended, vars, threadVars, backVars, globalVars, handlerVars, pcapVars
        <3> QED
            BY <3>1, HandlerControl, ProducerControl, ConsumerControl, MainControl,
               WriterControl DEF IInv, Next
    <2> QED
        BY <2>1, <2>3, <2>4 DEF IInv
<1> QED
    BY <1>1, <1>2, PTL DEF Spec

\* No thread outlives what it uses, whenever the signals come and whichever thread
\* they interrupt: the ring buffer is there for the consumer, the capture thread,
\* the dashboard and a handler inside shutdown(), pcap_loop() never runs on a closed
\* handle, the layers are there for the reaper and the dashboard, and the delivery
\* layer outlives the consumer.
THEOREM NothingOutlivesItsUsers == Spec => []UsersOutlived
<1>1. IInv => UsersOutlived
    <2> SUFFICES ASSUME IInv PROVE UsersOutlived
        OBVIOUS
    <2>1. TypeOK
        <3>1. Ring!TypeOK
            BY SameRing DEF IInv, RingProofs!IInv
        <3>2. background \subseteq {"reaper", "delivery"}
            BY DEF IInv, Control, Places
        <3>3. {signals, processed, captured_count, dropped_by_ring} \subseteq Nat
            BY DEF IInv, Counting, Rest
        <3> QED
            BY <3>1, <3>2, <3>3 DEF IInv, Control, Places, Rest, TypeOK
    <2>2. mpc # "aborted" =>
            /\ (hpc = "notify" \/ "delivery" \in background) => g_ring_buffer
            /\ background # {} => layers
            /\ dpc \in {"popping", "processing"} =>
                 g_ring_buffer /\ layers /\ background = {"delivery", "reaper"}
            /\ kpc \in {"loop", "push", "drop"} => g_ring_buffer /\ pcap = "open"
        BY DEF IInv, Control, Places, Existing, ConsumerThread, CaptureThread, HandlerThread,
          Starting, Failing, Stopped, Capturing
    <2> QED
        BY <2>1, <2>2 DEF UsersOutlived
<1> QED
    BY <1>1, Invariance, PTL

\* When main prints the session summary no packet is in the hands of a thread any
\* more: what it calls captured, with the drops, is all that pcap_loop() handed
\* over, and what it calls processed falls short of it by the packets still queued.
THEOREM SummaryIsExact == Spec => []SummaryAddsUp
<1>1. IInv => SummaryAddsUp
    <2> SUFFICES ASSUME IInv, mpc \in {"summary", "clear", "destroy", "exit"}
                 PROVE  /\ pushed_count + dropped_count = captured_count
                        /\ dropped_count = dropped_by_ring
                        /\ processed + Len(queue) = pushed_count
        BY DEF SummaryAddsUp, collect_stats
    <2>1. kpc \notin {"push", "drop"} /\ dpc # "processing"
        BY DEF IInv, Control, ConsumerThread, CaptureThread, Capturing
    <2>2. /\ captured_count = pushed_count + dropped_count
          /\ dropped_by_ring = dropped_count
          /\ processed = popped_count
        BY <2>1 DEF IInv, Counting
    <2>3. popped_count + Len(queue) = pushed_count
        <3>1. /\ queue \in Seq(Nat) /\ delivered \in Seq(Nat) /\ accepted = delivered \o queue
              /\ pushed_count = Len(accepted) /\ popped_count = Len(delivered)
            BY DEF IInv, RingProofs!IInv, RingProofs!TypeOK, RingProofs!FifoExactlyOnce
        <3>2. Len(delivered \o queue) = Len(delivered) + Len(queue)
            BY <3>1, ConcatProperties
        <3> QED
            BY <3>1, <3>2
    <2> QED
        BY <2>2, <2>3
<1> QED
    BY <1>1, Invariance, PTL

\* A process that returns from main() has joined every thread and closed the capture
\* handle it opened; the early return of stop() ends in std::terminate() instead.
THEOREM ExitIsClean == Spec => []ExitReleasesAll
<1>1. IInv => ExitReleasesAll
    BY DEF IInv, Control, Places, Existing, ConsumerThread, CaptureThread, ExitReleasesAll,
      Stopped, Capturing, ProducerPlaces
<1> QED
    BY <1>1, Invariance, PTL
=============================================================================
