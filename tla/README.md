# Network Threat Engine: a TLA+ model

The program (`src/`) captures packets with libpcap, hands them from a capture
thread to a consumer thread through a bounded queue, keeps a table of flows,
looks for attacks and writes alerts to SQLite and to a dashboard. This project
models its concurrent core, its detection rules and its parser in TLA+, checks them
with TLC on small instances, and proves with TLAPS, for all values of the constants,
all of the safety properties that TLC checks. `PROJECT.json` lists components, runs,
mutants, theorems, hazards, and for every definition the source lines it stands for.

## 1. The system

| Component | State it keeps | Operations | Threads that touch it |
|---|---|---|---|
| `PacketRingBuffer` | queue, three counters, shutdown flag, mutex, condition variable | `push`, `pop`, `shutdown` | capture, consumer, signal handler, main |
| `CaptureLayer` | pcap handle, `running_`, thread, counters | `start`, `stop`, capture loop, `packet_callback` | main, capture, signal handler |
| `main.cpp` | shutdown flag, pointers to all layers, packet counter | start-up, consumer loop, `signal_handler`, shutdown, summary | all |
| `FlowKey` | none | `make`, direction of a packet | consumer |
| `FlowRecord` | TCP state, counters, times | `advance_tcp_state` | consumer, reaper |
| `FlowTracker` | table of flows, counters, `running_` | `update`, reaper loop, eviction, `stop_reaper` | consumer, reaper, main |
| `ThreatDetector` | per-source windows, last alert per source and type | `inspect` | consumer |
| `PortScanDetector` | one profile per source | `inspect` | consumer |
| `SynFloodDetector`, `EWMAEngine` | one profile per source | `inspect`, `update` | consumer |
| `DeliveryLayer` | alert queue, display ring, database, windows, two threads | `start`, `enqueue_alert`, writer loop, dashboard loop, `stop` | consumer, writer, dashboard, main |
| `ProtocolDissector` | none | `dissect` | consumer |
| Configuration | constants while the program runs | `parse_args` | main |

How they meet: the capture thread's callback calls `push()`. The consumer calls
`pop()`, the dissector, `FlowTracker::update()` and `ThreatDetector::inspect()`,
which calls back into `DeliveryLayer::enqueue_alert()`. The dashboard reads
counters of every layer. The signal handler may interrupt any thread; it reads the
capture layer and the ring buffer through global pointers that main sets and
clears. main joins the consumer, stops capture, reaper and delivery in this order,
prints the summary, clears the pointers and destroys the layers.

What is hard here:

* three condition variables whose stop request is stored and notified without the
  mutex of the waiter (ring buffer, reaper, writer);
* a signal handler that runs at any moment, on any thread, also while main is
  coming up or going down;
* the order of joins and destructions against the users of each object;
* two locked sections in `update()` with the reaper between them, and clock values
  that are read before a lock and used after it;
* fixed windows that begin with a packet, and their first and last packet;
* TCP state kept over repeated, missing and half-seen segments;
* baselines that are seeded, averaged and forgotten, one packet at a time;
* lengths from the wire that bound other lengths from the wire.

What makes each part correct: the queue hands out what it accepted, in order, once
and within its bound, and nobody sleeps on a non-empty queue; the process ends after
a signal and nothing is used after it is destroyed; every alert that is fired is
offered to the database, once and in order; every packet is counted in one flow and flows leave
only when idle; a detection is backed by packets that were there, and activity that
is strong enough is found; a frame of any content is parsed within its bytes and to an
end, and its source keeps its identity.

## 2. The modules

| Module | Models | State and actions |
|---|---|---|
| `LossyFifo` | what the ring buffer promises | a bounded FIFO that may refuse an item, may be closed, and hands out everything it holds before it reports the end |
| `PacketRingBuffer` | `include/PacketRingBuffer.hpp` | `push()`: the locked section, then `notify_one()`; `pop()`: the test of the predicate with the mutex held, then the blocking; `shutdown()`: the store, then `notify_all()`; spurious wake-ups |
| `Pipeline` | `src/main.cpp`, `src/CaptureLayer.cpp` | composes `PacketRingBuffer` (INSTANCE) with main, the capture thread, the consumer and the signal handler, one action per statement that another thread can observe; every start-up step that can throw has an action for that. Of the delivery layer only what decides whether its `stop()` returns: `missed` says that its notification found the writer between test and blocking, and `join()` waits until a spurious wake-up clears it |
| `AlertLog` | what the delivery layer promises, its safety part (`SafetySpec`) and its fairness | alerts are fired, offered to the database one by one in that order, stored or refused; the log closes when none is left |
| `DeliveryLayer` | `src/DeliveryLayer.cpp` | enqueuing, the writer's loop cut like `pop()`, the final drain, the dashboard, `start()` and `stop()` step by step |
| `FlowKey` | `include/FlowKey.hpp` and the direction in `update()` | operators |
| `FlowRecord` | `advance_tcp_state()` in `include/FlowRecord.hpp` | operators |
| `TcpFlow` | one record under all sequences of segments of either side | one action; histories: the segments of the session as they were, which sessions were established, the PSH segments of the sessions before |
| `FlowTracker` | `src/FlowTracker.cpp` | composes `FlowKey` and `FlowRecord` with the table, `update()` (three steps), the reaper and `stop_reaper()` |
| `PerSource` | what the detectors share | maps from a source to its state; comparing rates without dividing |
| `EWMAEngine`, `SynFloodDetector`, `PortScanDetector` | the headers of these names in `include/` | operators: the profile after a packet, and the severities (none or one) it is found to have |
| `ThreatDetector` | `src/ThreatDetector.cpp` | composes the three (EXTENDS) with a clock, the consumer reading it, and `inspect()` as one step: the three detectors, its own three checks, suppression, `fire()` |
| `Ipv6Format` | `format_ipv6()` in `src/ProtocolDissector.cpp` | the loop over the groups as a recursive function of its turns, the text as tokens, and what it means for a text to name an address |
| `L7Extractors` | `extract_dns()`, `extract_http()`, `extract_tls()` | one action per header, label, line, list, extension or name; the position, the nested ends, the number of labels |
| `ProtocolDissector` | `dissect_packet()` | extends both: one action per header, the `PacketInfo` it fills in, and the choice of the extractor |
| `PacketRingBufferProofs`, `PipelineProofs`, `DeliveryLayerProofs`, `TcpFlowProofs`, `FlowTrackerProofs` (and `FlowKey`), `ThreatDetectorProofs`, `ProtocolDissectorProofs` | | theorems about the module of that name |
| `DetectionProofs` | | extends `ThreatDetectorProofs`: what the detectors cannot miss |
| `MC...` | | packets and segments for TLC |

Conventions. A definition keeps the name of what it models (`table_full`,
`is_suppressed`, `advance_tcp_state`). A program counter such as `cpc` or `mpc` says
where a thread is. Variables called history record what happened for the properties
and no guard reads them, bounds apart. A definition named after another with a
suffix (`trim_newest` for `trim`) is a plausible wrong version of it, used by a mutant
and by nothing else. The type invariant of a module, `TypeOK`, is the first conjunct of
one of its invariants.

Abstractions. A packet in the ring buffer and an alert in the delivery layer are
their position. Addresses are numbers; `FlowKey` needs only their order. Bytes,
SQL, layout, logging and the command line are left out. Counters are unbounded naturals: the code
uses 64 bits, which a session does not exhaust. Atomics are sequentially
consistent: each flag is stored and loaded alone, and weaker orders only delay what
the interleavings already delay. libpcap, SQLite and ncurses are external: an INSERT
succeeds or fails, `pcap_loop()` ends when it sees the break flag or when the device
fails. Two signals are handled one after the other; a handler's `notify_all()` is
atomic, although calling it from a handler is not async-signal-safe.

The reaper's eviction is one step, like every other section under the table's lock.
`active_flow_count()` and its siblings read atomics without that lock, so the dashboard
can see the counters between the erase and their update (`FlowTracker.cpp:217`, `:224`);
`CountersMatchTable` is about the ends of the locked sections.

A double of the detectors is an exact number: rates are compared by multiplying out, a
baseline is a fraction. The code's rounding can differ at a threshold, never away from
one.

A frame's bytes are not kept. A field is chosen when it is read, from small sets of
lengths; each byte that decides something is read once, so every frame is some sequence
of choices. (The scans over an HTTP request pass over the same bytes again; each chooses
its own end, which allows more than the frames there are.) Only the captured length is fixed from the start. `read_to` records how far
the frame was read.

Time. `FlowTracker` keeps ages instead of time points, so that its state space is
finite without a bound on the clock: the age of a time point grows with each tick
and stops at `Old`, from where nothing can tell it from an older one. The detectors
have a clock bounded by `MaxTime`. In both a thread may read the clock and use
the value up to `MaxStall` ticks later.

## 3. The runs

Every passing run also has one mutant per property: the definition is replaced by
its wrong version, and TLC finds the property violated.

| Run | Question | Bounds, and why they are enough |
|---|---|---|
| `ring` | Is the queue exact, bounded, free of lost wake-ups for `push()`, and an implementation of `LossyFifo`? | 1 producer, 2 consumers, capacity 2, 4 packets: the queue fills, overflows, empties and fills again; two consumers let a notification go to the wrong one |
| `ring_shutdown` | Does `shutdown()` get every consumer out of `pop()`? | the program's own one producer and one consumer; **violated** |
| `pipeline` | Does nothing outlive what it uses, what do the numbers of the summary account for, are all threads joined, and does the process end once the ring is shut down, missed notifications apart? | capacity 1, 3 packets, 2 signals, device failure: drops occur, a second signal arrives in every phase of the shutdown |
| `pipeline_terminated` | Is a running process always shut down in order? | **violated** |
| `pipeline_drained` | Does the consumer end only when the queue is empty? | **violated** |
| `delivery` | Is every alert stored or refused, once and in order, is the display ring the latest of all that were offered, does `stop()` return? | 4 alerts, ring of 2: the ring overflows twice, `stop()` comes with 0 to 4 alerts queued |
| `tcp_flow` | Does the state machine establish sessions only for cause, close them exactly when they are finished, and what does each counter count? | 5 segments per session, 2 sessions: a handshake and a close take 5, re-use of the record (by a SYN, or a SYN with a FIN) is the second session; 2 million states |
| `tcp_close` | Is a session closed only when both sides have sent a FIN, or a RST came? | one session of 5 segments from either side; **violated** |
| `flow_tracker` | Do table, counters and packets agree under the reaper, do directions follow the key, are only idle flows evicted, are all of them in the end, does `stop_reaper()` return? | 3 packets of 3 conversations, 2 table entries, timeouts 2, 1, 1, stall 1: the table fills, rejects, is emptied and filled again |
| `threat_detector` | Are alerts of one type about one source spaced by the suppression interval, is nothing suppressed without cause, is a port-scan detection backed by packets of that source, and are 2 * threshold - 1 ports in a window's time always found? | 4 packets of 8 kinds over 4 ticks, interval 2, scan window 2, threshold 2: the edge of the interval, two sources, two rules that share a type, two windows and their boundary, a failing SYN ratio; 2 million states |
| `rates` | Is a brute-force, SYN-flood or volume alert backed by a real rate, and is a sustained brute force or flood found? | 6 packets, 7 ticks, a second of 2 ticks, stall 1: windows beginning anywhere, three windows in a row (seed, baseline, spike), a silence longer than the stale limit, both kinds of TCP packets |
| `dissector` | Does every frame end, within its bytes, with a `PacketInfo` that is right? | 26 lengths that end in and after every header, labels and lists of 0 to 255 bytes, 3 labels at most, ClientHellos of 45 and 56 bytes with up to three extensions, IPv6 addresses with zero groups at either end, in two runs, alone and everywhere |

`SustainedBruteForceIsFound` and `SustainedFloodIsFound` say how long a rate must be kept
up, two windows, for an alert wherever the source's window began; the flood need not
begin with the window, since an older, quieter part is closed by the flood's first
packets. To keep up a rate is to send packets at every tick and as many as the rate asks
for: a rate of 0 is no attack by itself. Both are about packets with a source address,
since `inspect()` looks at no others, and whether a packet goes to a sensitive port is a
function of its port (`DetectorAssumption`, from `is_sensitive_port()`).

`VolumeIsSpike` says what an average over all windows so far still proves:
some earlier run of the source, all that it sent between two times a window or more
apart, was quieter by the multiplier, the baseline being a mean of such runs, and no
silence in between should have erased it. The whole of the run counts: a slow source is
not made out of a busy one by leaving packets out.

`FlowTracker` numbers the packets offered to `update()`, and `PacketsAccounted` is about
the numbers: each packet is in one record, or went with one that was evicted, or was
rejected, or is in hand, and in no two of these.

### Fairness

A thread that can take its next step takes it (weak fairness), since each runs on a
scheduler that starves nobody. Locks are released by their holders after finitely
many steps; the capture thread's `push()` needs strong fairness in `Pipeline`, because
the consumer takes and releases the mutex again and again and a waiting thread
gets it in the end. `wait_for()` of the reaper times out and time passes, so the
reaper and `Tick` are weakly fair. Nothing obliges a packet, an alert, a signal, a
device error or a spurious wake-up to occur. `dissect_packet()` is straight-line code on
one thread, so its steps are weakly fair; no frame has to come. Its history variable
`turn` changes with every step: without it a loop that does not advance would be a
stutter, which no fairness forbids. `TcpFlow` and the detectors have no liveness
properties and no fairness.

`ImplementsAlertLog` includes the fairness of `AlertLog`: the writer's weak fairness
implies that every alert is offered in the end, also when `stop()`'s notification is
missed, since the writer then sleeps on an empty queue.

Deadlock is checked in `ring` and `ring_shutdown`, where another call of
`shutdown()` is always possible, and in `dissector`, where another frame is: the steps
of the walk leave no case out. The other systems end, or run out
of a bounded clock, and say `CHECK_DEADLOCK FALSE`.

## 4. What the runs show where code and text disagree

1. `ring_shutdown`. `shutdown()` (`PacketRingBuffer.hpp:79`) takes no mutex. Its
   store and its `notify_all()` can both fall between a consumer's test of the
   predicate and its blocking; the consumer then sleeps with the flag set, and main
   waits for it in `join()`. `ShutdownUnblocksUnlessRaced` shows that this is the
   only way to stay behind. `ShutdownEndsUnlessRaced` says for the process that it
   ends unless this happens, or the same to `DeliveryLayer::stop()` and the writer.
2. `pipeline_terminated`. When the handler breaks `pcap_loop()`, the capture thread
   clears `running_` itself. If it does so before main calls `stop()`, `stop()`
   returns without joining (`CaptureLayer.cpp:124`), and destroying the layer
   destroys a joinable `std::thread`.
3. `pipeline_drained`. The consumer tests the flag after the packet in hand and leaves,
   whatever is queued (`main.cpp:286`); the comment at `main.cpp:434` and the sample
   output at `README.md:635` say that it drains. `SummaryAddsUp` says what holds: the
   summary's "captured" exceeds its "processed" by the packets left behind.
4. `tcp_close`. In FIN_WAIT any FIN+ACK closes the record, a retransmission by the same
   side included (`FlowRecord.hpp:216`); `FlowRecord.hpp:21` speaks of both FINs.
   `ClosedIffFinished` says what does close a session.

Other observations made while modelling, with no run of their own:

* `DeliveryLayer::stop()` has the race of 1 with the writer (`DeliveryLayer.cpp:268`);
  `StopReturnsUnlessRaced` states it as an exception, and so does
  `ShutdownEndsUnlessRaced` for the process (`missed`).
* A signal before the ring buffer exists sets the flag and stops nothing
  (`main.cpp:90`); main never looks at the flag and the consumer only after a packet.
* "Packets captured" in the session summary is `pushed_count()` (`main.cpp:223`), without
  the packets the full ring refused; the capture layer's own `captured_count` and
  `dropped_by_ring` are never printed.
* `update()` compares addresses only (`FlowTracker.cpp:75`), the key compares address and
  port. Between two ports of one address every packet counts as LO_TO_HI, against
  `FlowRecord.hpp:47`. `DirectionMatchesKey` states this, and that the directions are
  those of the key everywhere else.
* `Config.hpp:83` speaks of a rolling window. The window is emptied as a whole
  (`PortScanDetector.hpp:74`), so the ports of a scan across its end are not added up
  and a source with as many ports as the threshold escapes.
  `TwiceTheThresholdIsDetected` says what does hold: 2 * threshold - 1 ports do not.
* UDP packets go to the port-scan detector too (`ThreatDetector.cpp:264`) and are counted
  in `tcp_packet_count`, documented as TCP packets (`PortScanDetector.hpp:21`); they lower
  the ratio of SYNs, and enough of them hide a scan. `TwiceTheThresholdIsDetected`
  therefore asks for a source of nothing but SYNs.
* `Config.hpp:228` speaks of "treating a name as malformed" after `DNS_MAX_LABEL_HOPS`;
  the loop ends there, the name is taken and the next two bytes are its type
  (`ProtocolDissector.cpp:508`). `DnsNameIsWhole` states the exception.
* `PacketInfo.hpp:146` says of `truncated` "true if any header exceeded captured_length";
  an IPv6 packet too short for its transport header is not flagged
  (`ProtocolDissector.cpp:385`). `ShortHeaderIsFlagged` has this and the empty frame as
  its exceptions.
* `stop()` closes the pcap handle before it clears the pointer
  (`CaptureLayer.cpp:136`); a handler in between uses a closed handle.
* `CaptureLayer::start()` may throw while the consumer thread runs: unwinding then
  destroys a joinable thread and the process aborts (`OpenCaptureThrows`,
  `StartCaptureThrows`). Exceptions before that, a `std::thread` that cannot be made
  included, reach the catch block, which stops what was started.
* `drop_rate_percent()` divides by accepted packets only (`PacketRingBuffer.hpp:130`)
  and can exceed 100.
* When a SYN re-opens a record, `psh_count`, listed with the other per-flag counts
  (`FlowRecord.hpp:84`), is not started again, and a FIN in that SYN is counted
  (`FlowRecord.hpp:160`) and wiped out (`:231`). `CountersMatchSession` states both.
* A flow that the full table refuses is dropped without a trace (`FlowTracker.cpp:96`);
  there is no "warning counter" as in `Config.hpp:51`. `rejected` is a history variable.
* `update()` returns a pointer into the table after it has unlocked
  (`FlowTracker.cpp:84`); the reaper may erase the record, but the only receiver ignores
  the pointer (`ThreatDetector.cpp:274`).
* A new record's `first_seen` is later than the `last_seen` it is given
  (`FlowTracker.cpp:76`).
* `evict_stale_state()` has no caller, so per-source state is never released.
* `Config.hpp:102` calls the SYN window rolling too; it is fixed like the scan window.
* A profile that has no baseline yet is not reset by a silence (`EWMAEngine.hpp:82`), so
  its first window may last for hours; a source that floods from its first packet seeds
  its baseline with the flood.
* Label lengths from 64 to 191, which DNS reserves, are taken as lengths.
* `README.md:147` says that truncated packets are "silently discarded" with a counter.
  There is no counter, and `valid` is set before the transport header is looked at, so
  such packets reach the flow tracker and the detectors, without ports.
* A later fragment's bytes are parsed as a transport header (`ProtocolDissector.cpp:259`);
  `ip_fragmented` is set and nothing reads it.
* The payload is what was captured after the headers, Ethernet padding included
  (`ProtocolDissector.cpp:286`): `ip_total_length` is not looked at.
* `ip_total_length` of an IPv6 packet wraps at 16 bits (`ProtocolDissector.cpp:376`).
* The ClientHello's length is compared with the frame, not with its record, and the list
  of names with the end of all extensions, not of its own (`ProtocolDissector.cpp:722`).
* IPv6 looks for DNS over UDP only and keeps no other UDP payload, so the exfiltration
  check does not see UDP over IPv6.
* `-b` multiplies by 1024 * 1024 in an `int` (`main.cpp:188`), which overflows from
  2048 on.

## 5. What is proved

All theorems are for every value of the constants that satisfies the named
assumptions of the modules (sizes, windows and thresholds are naturals, positive where
the code divides by them or waits for them; ratios and the smoothing factor do not
exceed 1; the machine has been up for a second; markers such as `Nil` and `None` are no
packets or threads). The bounds that keep TLC's instances finite (`MaxPackets`,
`MaxTime`, ...) are constants like the others, so the theorems hold for runs of any
length. Each `Spec` implies its part without fairness, and only that part is used.

Most invariants are not inductive as they stand. Each proof module defines the
inductive invariant, `IInv`, and proves that it holds at the start, that each action
keeps it, and that the property follows. What has to be added is the interesting part.

| Module | Theorems | What the invariant adds, and why |
|---|---|---|
| `PacketRingBufferProofs` | `TypeCorrect`, `ExactlyOnce` (`FifoExactlyOnce`), `NeverOverfull` (`Bounded`), `PushIsHeard` (`NoLostPush`), `RingImplementsFifo` | accepted identities do not exceed the number offered, or a new packet could not be shown larger than the old ones; a consumer between its test and its blocking owns the mutex and saw an empty queue, or a `notify_one()` that finds no waiter would be lost |
| `PipelineProofs` | `ProcessRunsRing`, `NothingOutlivesItsUsers` (`UsersOutlived`), `SummaryIsExact` (`SummaryAddsUp`), `ExitIsClean` (`ExitReleasesAll`) | where main is determines which objects exist and which threads may run, also while a handler runs on one of them and after a start-up step has thrown half-way; and how many packets are between two counters |
| `DeliveryLayerProofs` | `AlertsNeitherLostNorDoubled` (`EveryAlertOnce`), `DisplayRingIsLatest` (`RingShowsLatest`), `NothingUsedAfterStop` (`NoUseAfterStop`), `DeliveryImplementsAlertLog` | where `start()` and `stop()` are ties the writer and the dashboard to what is set up; the alerts of the queue are numbered back from the last one fired, so that they keep their numbers when the writer pops; in the loop all alerts offered have been shown but the one in hand |
| `TcpFlowProofs` | `NoFakedHandshake` (`EstablishedMeansHandshake`), `HandshakesMatchOpenings` (`HandshakesCounted`), `CountersAreCounts` (`CountersMatchSession`), `ClosingIsEarned` (`ClosedIffFinished`) | for each TCP state, how far exactly the segments of this session have come: which steps of the connection they contain and that they do not contain the next one, or a closed record could not be told from an open one; and which session of the record the state belongs to |
| `FlowTrackerProofs` | `CountersAgree` (`CountersMatchTable`), `NoPacketLost` (`PacketsAccounted`), `OneRecord` (`OneRecordPerConversation`), `DirectionsFollowKey` (`DirectionMatchesKey`), `OnlyIdleEvicted` (`EvictOnlyIdle`); for `FlowKey::make` and all addresses and ports `MakeSymmetric`, `MakeInjective` | what `update()` has in its hand in the two gaps between its locked sections, where the reaper may run |
| `ThreatDetectorProofs` | `NoAlertTooSoon` (`AlertsSpaced`), `NoAlertLostWithoutCause` (`SuppressedHasCause`), `BruteForceAlertsAreReal` (`BruteForceIsReal`), `FloodAlertsAreReal` (`FloodIsReal`), `ScanAlertsAreReal` (`DetectionIsReal`), `VolumeAlertsAreSpikes` (`VolumeIsSpike`) | `last_fired` is the time of the latest alert; and behind every window or profile there is a run of logged packets that it counts |
| `DetectionProofs` | `FixedWindowsFindScans` (`TwiceTheThresholdIsDetected`), `BruteForceIsNotMissed` (`SustainedBruteForceIsFound`), `FloodsAreNotMissed` (`SustainedFloodIsFound`) | what an attacker has got away with so far: since any place in the log at most two windows with too few ports each, since any tick of the attack a window that began early and counts all of it |
| `ProtocolDissectorProofs` | `NoReadBehindFrame` (`ReadsInBounds`), `ServerNameInsideHello` (`SniInsideHello`), `DnsNameNotCutOff` (`DnsNameIsWhole`), `TruncationFlagged` (`ShortHeaderIsFlagged`), `SourceTextNamesAddress` (`AddressKept`), `SourceTextsDiffer` | where the walk stands: behind what was read, within the ends of the lists it has entered |

Refinement. `RingImplementsFifo` maps the queue to the items, the delivered packets
to those taken, the consumers that have returned false to those that ended; the
blocking, the notifications and the wake-ups are stutters.
`DeliveryImplementsAlertLog` maps the queue and the alert in the writer's hand to what
is pending. `ProcessRunsRing` shows that every step of the process is a step of
`PacketRingBuffer`'s specification or leaves the ring buffer alone, with the capture
thread as producer, the one consumer, and the handler and main's catch block as
closers. The ring buffer's invariant is then taken over by INSTANCE of its proof module,
and `SummaryIsExact` rests on it.

The detectors. A window is a few numbers, the property speaks of packets, so each
theorem needs to know which packets the numbers stand for. `BruteRuns`, `SynRuns` and
`ScanRuns` say it for the fixed windows: there is a place in the log from which the
source's packets are as many (and have the ports and the SYNs) as the profile says. `EwmaRuns`
says it for the baseline. A first window counts a run. Later, the open window counts
the run after the packet that closed the last one; and for the average there is a run,
before or up to that packet, that was not louder than it, with no long silence since.
When a window closes, the new average lies between the old one and the rate of that
window: if the window was louder, the old run still serves (`AverageKeeps`); if it was
quieter, the window itself does (`AverageLowers`). These and `Louder` multiply out
fractions, the lemmas before them being the arithmetic the solver does not find alone.

What cannot be missed. The theorems above start from an alert and look back; these start
from packets, and have to exclude that nothing was raised. `FixedWindowsFindScans` uses
`ScanTail`: for every place of the log, either the source was detected since, or it took
a window's time, or at most two windows (`TwoWindows`) saw everything since that place,
each with fewer ports than the threshold, so that 2 * threshold - 2 is the most they can
have seen. `ScanKnown` supplies that a source with packets in the log has a profile.
The two theorems on rates share one argument over an abstract stream of packets. `Tracked`
says of every tick since which the stream has been busy, without an alert, that the open
window began no later than one window length after it and counts all that came since it
began. When the window is then asked, its packets are as many as the rate requires
because every tick it covers has its share: `BusyTicks` counts them. That is an
induction over the number of ticks, done by looking at the least counterexample
(`Least`, from `WFMin` for the order of the naturals), since the induction rules of the
library take the formula as a parameter.

The text of an address. `NextRun` says that a turn of the first loop of `format_ipv6()`
keeps its best and its current run within the groups seen and zero throughout; there are
eight turns, so no induction is needed (`ZeroRunsOK`). `GapText` and `WholeText` compute
the tokens of the text by position. A text names one address at most (`NamesOne`), so two
addresses have two texts (`SourceTextsDiffer`), and no two IPv6 sources share a flow, a
profile or a suppression interval.

What the attempts to prove changed. `EvictOnlyIdle` was true in the instance TLC checks
and false when `TcpTimeout` is below the timeout of closed flows; it now states the
timeouts that the code applies to a record. `PacketsAccounted` added up counts,
which a packet counted twice and one lost would satisfy; it is now a partition of the
packets. `VolumeIsSpike` allowed a quiet run from which packets were left out; it now
takes all packets from a time on. `SustainedBruteForceIsFound` and
`SustainedFloodIsFound` were false for a rate of 0, which silence keeps up, and for packets
without a source; and nothing said that two packets to one port are both, or neither,
to a sensitive one. `Ipv6Format` was restated by positions, after TLC had found the
old and the new definition equal on all addresses with groups 0, 1 and 2.

Model-checked only: liveness (`ShutdownUnblocksUnlessRaced`, `ShutdownEndsUnlessRaced`,
`StopReturnsUnlessRaced`, `IdleFlowsEvicted`, `ReaperStops`, `DissectEnds`) and the
fairness halves of `ImplementsLossyFifo` and `ImplementsAlertLog`. Fairness is out of the
prover's reach. Every invariant and every action property of the passing runs has a
theorem.

## 6. What is not modelled

* The texts the dissector extracts (names, methods, URIs), the fields it only copies,
  and `format_tcp_flags()`, which nothing calls.
* Counters of the detectors that decide nothing: bytes per second, lifetime SYNs,
  completed handshakes.
* Memory exhaustion (`std::bad_alloc`). In `DeliveryLayer` a failing `start()` is a failing
  database; the failures of its two `std::thread` constructors are in `Pipeline`.
* `tcp_flags_seen` of a flow record, which nothing reads.
* The dashboard's contents, the summary's text, the formatting of alerts, the SQL.
* The command line and the configuration: their values are the constants.
* The hash of a flow key, `snapshot_active_flows()`, the `evict_stale` functions:
  they change nothing the program observes, or nothing calls them.
* Memory growth of the alert queue and of per-source state: the code states no bound.

## 7. Plan

Modelled: the ring buffer with its abstract specification, the pipeline around it, the
delivery layer with its abstract specification, flow keys, flow records, the flow
tracker, the three detectors and the threat detector that owns them, the dissector with
its extractors. Proved: every safety property of these.

What would extend it:

1. a consumer that composes `FlowTracker`, `ThreatDetector` and `DeliveryLayer`, for
   properties of the whole path from a packet to a stored alert. The parts share no state
   but the clock and the queue of alerts, which is why they are apart today;
2. the floating-point rounding of the baselines, which decides only at a threshold;
3. `evict_stale_state()`, as soon as something calls it.
