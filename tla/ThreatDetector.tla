---------------------------- MODULE ThreatDetector ----------------------------
(***************************************************************************)
(* src/ThreatDetector.cpp: what inspect() does with one packet: the three  *)
(* detectors it owns, each with a profile per source, the checks it makes  *)
(* itself (brute force, DNS tunneling, data exfiltration), and the         *)
(* suppression of repeated alerts.                                         *)
(*                                                                         *)
(* The consumer reads the clock when it begins with a packet and uses the  *)
(* value later; a new profile reads the clock again.  So the first packet  *)
(* of a profile may be older than its window, by at most MaxStall ticks.   *)
(***************************************************************************)
EXTENDS EWMAEngine, SynFloodDetector, PortScanDetector, Sequences

CONSTANTS
  Packets,        \* see DetectorAssumption
  SuppressionSec, \* config_.delivery.alert_suppression_sec, in ticks
  BruteRate,      \* config_.brute_force.rate_pps
  TxtRate,        \* config_.dns_tunneling.txt_rate_pps
  ExfilRate,      \* MED in check_data_exfiltration(), in units of payload
  Uptime,         \* how long ago the epoch of steady_clock was, at the start
  MaxStall,       \* bound: ticks between reading the clock and using it
  MaxTime,        \* bound: ticks in a run
  MaxPackets,     \* bound: packets in a run
  None            \* no packet in hand, no source

Types == {"VOLUME_ANOMALY", "SYN_FLOOD", "PORT_SCAN", "BRUTE_FORCE",
          "DNS_TUNNELING", "DATA_EXFILTRATION"}

ASSUME DetectorAssumption ==
  /\ {SuppressionSec, BruteRate, TxtRate, ExfilRate, Uptime, MaxStall,
      MaxTime, MaxPackets} \subseteq Nat
  /\ Uptime >= Second
  /\ None \notin Packets
  /\ \A p \in Packets :
       /\ p.port \in Nat                \* dst_port, 0 if it has none
       /\ p.kind \in {"syn", "synack", "tcp", "udp"} \* l4_proto and flags;
                                        \* "udp": all that is not TCP
       /\ p.sensitive \in BOOLEAN       \* is_sensitive_port(dst_port)
       /\ p.dns \subseteq {"long", "txt"} \* a suspicious name, a TXT query
       /\ p.payload \in Nat             \* l7_payload_length
  /\ \A p, q \in Packets : p.port = q.port => p.sensitive = q.sensitive

VARIABLES
  clock,        \* steady_clock
  packet,       \* the packet the consumer is working on, or None
  now,          \* the clock value it read for it
  ewma,         \* ewma_.profiles_: a function on sources
  syn,          \* syn_flood_.profiles_: a function on sources
  scan,         \* port_scan_.profiles_: a function on sources
  last_fired,   \* suppression_: a function on pairs of source and type
  brute_force,  \* brute_force_state_: a function on pairs of source and port
  dns_txt,      \* dns_txt_state_: a function on sources
  exfil,        \* exfil_state_: a function on sources
  total_alerts_fired,
  log,          \* history: the packets inspected, with their clock values
  raised,       \* history: everything a check found: [src, port, type, severity,
                \* at, place]
  fired         \* history: what was handed to the delivery layer, of raised

stateVars == <<ewma, syn, scan, last_fired, brute_force, dns_txt, exfil,
               total_alerts_fired>>
vars == <<clock, packet, now, stateVars, log, raised, fired>>

Empty == [x \in {} |-> 0]

Init ==
  /\ clock = 0
  /\ packet = None
  /\ now = 0
  /\ ewma = Empty /\ syn = Empty /\ scan = Empty
  /\ last_fired = Empty
  /\ brute_force = Empty
  /\ dns_txt = Empty
  /\ exfil = Empty
  /\ total_alerts_fired = 0
  /\ log = <<>>
  /\ raised = {}
  /\ fired = {}

Tick ==
  /\ clock < MaxTime
  /\ packet # None => clock - now < MaxStall
  /\ clock' = clock + 1
  /\ UNCHANGED <<packet, now, stateVars, log, raised, fired>>

Receive(p) ==
  /\ packet = None
  /\ Len(log) < MaxPackets
  /\ packet' = p
  /\ now' = clock
  /\ UNCHANGED <<clock, stateVars, log, raised, fired>>

-----------------------------------------------------------------------------
(* Windows *)

Window(start, n) == [start |-> start, count |-> n]

over(w) == now - w.start >= Second
rate_reached(n, w, rate) == Reaches(n, now - w.start, rate)

\* Mutant: the packet that closes a window belongs to no window.
counted_zero(w) == IF over(w) THEN Window(now, 0) ELSE Window(w.start, w.count + 1)

\* Mutant: the old count goes on in the new window.
counted_kept(w) == Window(IF over(w) THEN now ELSE w.start, w.count + 1)

\* A packet that finds the window over opens the next one and is its first.
counted(w) == IF over(w) THEN Window(now, 1) ELSE Window(w.start, w.count + 1)

\* PortWindow reads the clock when it is made.
brute_window(p) == Lookup(brute_force, <<p.src, p.port>>, Window(clock, 0))

\* A time_point{} is the clock's epoch.
txt_window(p) == Lookup(dns_txt, p.src, Window(0 - Uptime, 0))
exfil_window(p) == Lookup(exfil, p.src, Window(0 - Uptime, 0))

-----------------------------------------------------------------------------
(* Suppression *)

\* Mutant: one alert silences all types of its source.
is_suppressed_any_type(src, type) ==
  \E x \in DOMAIN last_fired : x[1] = src /\ now - last_fired[x] < SuppressionSec

\* Mutant: the interval is one tick short.
is_suppressed_short(src, type) ==
  /\ <<src, type>> \in DOMAIN last_fired
  /\ now - last_fired[<<src, type>>] < SuppressionSec - 1

is_suppressed(src, type) ==
  /\ <<src, type>> \in DOMAIN last_fired
  /\ now - last_fired[<<src, type>>] < SuppressionSec

count_fired(alerts) == total_alerts_fired + Cardinality(alerts)

-----------------------------------------------------------------------------
(* inspect() *)

\* The profiles read the clock when they are made.
ewma_profile(p) == Lookup(ewma, p.src, EwmaProfile(clock))
syn_profile(p) == Lookup(syn, p.src, SynProfile(clock))
scan_profile(p) == Lookup(scan, p.src, ScanProfile(clock))

is_tcp(p) == p.kind # "udp"
brute_checked(p) == p.port # 0 /\ p.sensitive

\* Each check returns the severities of what it found: none or one.
brute_found(p) ==
  LET w == brute_window(p)
  IN IF ~(over(w) /\ rate_reached(w.count, w, BruteRate)) THEN {}
     ELSE {IF rate_reached(w.count, w, 3 * BruteRate) THEN "CRITICAL" ELSE "HIGH"}

\* An alert for the name ends the DNS check: the TXT query is then not counted.
dns_returns_early(p) == "long" \in p.dns /\ ~is_suppressed(p.src, "DNS_TUNNELING")
txt_counts(p) == "txt" \in p.dns /\ ~dns_returns_early(p)
dns_found(p) ==
  LET w == txt_window(p)
      txt == txt_counts(p) /\ over(w) /\ rate_reached(w.count, w, TxtRate)
  IN IF "long" \in p.dns \/ txt THEN {"HIGH"} ELSE {}

\* The packet that closes an exfiltration window is the last one in it.
exfil_total(p) == exfil_window(p).count + p.payload
exfil_found(p) ==
  LET w == exfil_window(p)
  IN IF ~(over(w) /\ rate_reached(exfil_total(p), w, ExfilRate)) THEN {}
     ELSE {IF rate_reached(exfil_total(p), w, 4 * ExfilRate) THEN "HIGH" ELSE "MEDIUM"}

When(condition, severities) == IF condition THEN severities ELSE {}

\* Everything that is found in p, as pairs of a type and a severity.
findings(p) ==
  ({"VOLUME_ANOMALY"} \X volume_anomaly(ewma_profile(p), now))
    \cup ({"SYN_FLOOD"} \X When(is_tcp(p), syn_flood(syn_profile(p), p.kind, now)))
    \cup ({"PORT_SCAN"} \X
           When(p.port # 0, port_scan(scan_profile(p), p.port, p.kind, now)))
    \cup ({"BRUTE_FORCE"} \X When(brute_checked(p), brute_found(p)))
    \cup ({"DNS_TUNNELING"} \X dns_found(p))
    \cup ({"DATA_EXFILTRATION"} \X When(p.payload > 0, exfil_found(p)))

\* fire(): remember when, count, and hand the alert to the delivery layer.
Fire(p) ==
  LET found == findings(p)
      passed == {f \in found : ~is_suppressed(p.src, f[1])}
      pairs == {<<p.src, f[1]>> : f \in passed}
      alerts(fs) == {[src |-> p.src, port |-> p.port, type |-> f[1],
                      severity |-> f[2], at |-> now, place |-> Len(log) + 1] : f \in fs}
  IN /\ last_fired' = [x \in DOMAIN last_fired \cup pairs |->
                         IF x \in pairs THEN now ELSE last_fired[x]]
     /\ total_alerts_fired' = count_fired(passed)
     /\ raised' = raised \cup alerts(found)
     /\ fired' = fired \cup alerts(passed)

Done ==
  /\ log' = Append(log, [packet |-> packet, at |-> now])
  /\ packet' = None
  /\ UNCHANGED <<clock, now>>

Inspect ==
  LET p == packet
  IN /\ p # None
     /\ p.src # None
     /\ Fire(p)
     /\ ewma' = Put(ewma, p.src, ewma_updated(ewma_profile(p), now))
     /\ syn' = IF is_tcp(p)
                 THEN Put(syn, p.src, syn_inspected(syn_profile(p), p.kind, now))
                 ELSE syn
     /\ scan' = IF p.port # 0
                  THEN Put(scan, p.src, scan_inspected(scan_profile(p), p.port, p.kind, now))
                  ELSE scan
     /\ brute_force' = IF brute_checked(p)
                         THEN Put(brute_force, <<p.src, p.port>>, counted(brute_window(p)))
                         ELSE brute_force
     /\ dns_txt' = IF txt_counts(p)
                     THEN Put(dns_txt, p.src, counted(txt_window(p)))
                     ELSE dns_txt
     /\ exfil' = IF p.payload > 0
                   THEN Put(exfil, p.src,
                            IF over(exfil_window(p)) THEN Window(now, 0)
                            ELSE Window(exfil_window(p).start, exfil_total(p)))
                   ELSE exfil
     /\ Done

\* A packet without a source address: nothing is looked at.
InspectIgnore ==
  /\ packet # None
  /\ packet.src = None
  /\ Done
  /\ UNCHANGED <<stateVars, raised, fired>>

Next == Tick \/ Inspect \/ InspectIgnore \/ \E p \in Packets : Receive(p)

Spec == Init /\ [][Next]_vars

-----------------------------------------------------------------------------
(* Properties *)

Sources == {p.src : p \in Packets} \ {None}

WindowOK(w) == w.start \in (0 - Uptime)..clock /\ w.count \in Nat

\* Per-source state is about sources seen, no window or firing time is in the
\* future, no counter runs below zero, and what is fired was found by a check.
TypeOK ==
  /\ clock \in 0..MaxTime
  /\ now \in 0..clock
  /\ packet \in Packets \cup {None}
  /\ \A x \in DOMAIN last_fired :
       x \in Sources \X Types /\ last_fired[x] \in 0..clock
  /\ DOMAIN ewma \cup DOMAIN syn \cup DOMAIN scan \subseteq Sources
  /\ \A s \in DOMAIN ewma : {ewma[s].last_update, ewma[s].window_start} \subseteq 0..clock
  /\ \A s \in DOMAIN syn : syn[s].syn_only_count \in 0..syn[s].tcp_total_count
  /\ \A s \in DOMAIN scan : scan[s].syn_only_count \in 0..scan[s].tcp_packet_count
  /\ \A x \in DOMAIN brute_force : x[1] \in Sources /\ WindowOK(brute_force[x])
  /\ \A s \in DOMAIN dns_txt : s \in Sources /\ WindowOK(dns_txt[s])
  /\ \A s \in DOMAIN exfil : s \in Sources /\ WindowOK(exfil[s])
  /\ total_alerts_fired \in Nat
  /\ fired \subseteq raised

\* Two alerts of one type about one source are at least the suppression interval
\* apart, also when two rules share the type; and total_alerts_fired is the
\* number of alerts handed to the callback.
AlertsSpaced ==
  /\ TypeOK
  /\ \A a, b \in fired :
       a # b /\ a.src = b.src /\ a.type = b.type =>
         a.at - b.at >= SuppressionSec \/ b.at - a.at >= SuppressionSec
  /\ total_alerts_fired = Cardinality(fired)

\* Nothing is kept back without cause: whatever a check finds and inspect() does
\* not hand over has an alert of the same type about the same source before it,
\* less than the interval ago.
SuppressedHasCause ==
  \A a \in raised \ fired :
    \E b \in fired : /\ b.src = a.src /\ b.type = a.type
                     /\ b.place < a.place
                     /\ a.at - b.at < SuppressionSec

\* The places of src's packets among those from place i to place j, and those of
\* its packets that a detector looks at.
From(src, i, j) == {k \in i..j : log[k].packet.src = src}
WithPort(places) == {k \in places : log[k].packet.port # 0}
Tcp(places) == {k \in places : is_tcp(log[k].packet)}
SynAt(places) == {k \in places : log[k].packet.kind = "syn"}
PortsAt(places) == {log[k].packet.port : k \in places}
SentTo(places, port) == {k \in places : log[k].packet.port = port}

Raised(type) == {a \in raised : a.type = type}
Times(a, severity, m) == IF a.severity = severity THEN m ELSE 1

\* A brute-force alert is about a rate that was really there: over some period
\* of at least a second the source sent the port that many packets (three times
\* as many for CRITICAL), none of them counted in two windows.
BruteForceIsReal ==
  \A a \in Raised("BRUTE_FORCE") :
    \E i \in 1..(a.place - 1), t \in 0..(a.at - Second) :
      /\ log[i].at >= t - MaxStall
      /\ Reaches(Cardinality(SentTo(From(a.src, i, a.place - 1), a.port)), a.at - t,
                 Times(a, "CRITICAL", 3) * BruteRate)

\* A SYN-flood alert is about a flood that was really there: a run of the
\* source's TCP packets that took a window or longer, up to and including the
\* one that raised it, had the rate of SYNs (five times the rate for CRITICAL)
\* over all that time, and the share of SYNs.
FloodIsReal ==
  \A a \in Raised("SYN_FLOOD") :
    \E i \in 1..a.place, t \in 0..(a.at - SynWindow) :
      LET run == Tcp(From(a.src, i, a.place))
          syns == Cardinality(SynAt(run))
      IN /\ log[i].at >= t - MaxStall
         /\ Reaches(syns, a.at - t, Times(a, "CRITICAL", 5) * SynRate)
         /\ syns * SynRatioDen >= SynRatioNum * Cardinality(run)

\* Src has no silence longer than StaleSec between places j and k.
Unbroken(src, j, k) ==
  \A x, y \in From(src, j, k) :
    x < y /\ From(src, x, y) = {x, y} => log[y].at - log[x].at <= StaleSec

\* All of src's packets before place i came at time t or earlier.
AllBy(src, i, t) == \A k \in From(src, 1, i - 1) : log[k].at <= t

\* A volume anomaly is a spike against something the source really did before:
\* a loud run of its packets, after packet l, has the multiple of the floor and
\* the multiple of the rate of an earlier quiet run: all it sent from time t to
\* packet j, from place i on, which took a window at least; and the source was never
\* silent for so long in between that the baseline should have been forgotten.
VolumeIsSpike ==
  \A a \in Raised("VOLUME_ANOMALY") :
    \E j, l \in From(a.src, 1, a.place - 1), t \in 0..a.at : \E i \in 1..j :
      LET m == IF a.severity = "HIGH" THEN HighMultiplier ELSE MediumMultiplier
          quiet == Cardinality(From(a.src, i, j))
          loud == Cardinality(From(a.src, l + 1, a.place))
      IN /\ j <= l
         /\ AllBy(a.src, i, t) /\ log[i].at >= t - MaxStall
         /\ log[j].at - t >= EwmaWindow
         /\ a.at - log[l].at >= EwmaWindow
         /\ Reaches(loud, a.at - log[l].at, m * PpsFloor)
         /\ loud * (log[j].at - t) >= m * quiet * (a.at - log[l].at)
         /\ Unbroken(a.src, j, a.place)

\* A port-scan detection is never made up of packets that are further apart than
\* a window (and the stall of the consumer) or that come from another source:
\* behind each one there is a run of the source's own packets with enough ports,
\* enough SYNs and, for HIGH, twice as many ports.
DetectionIsReal ==
  \A a \in Raised("PORT_SCAN") :
    \E i \in From(a.src, 1, a.place) :
      LET run == WithPort(From(a.src, i, a.place))
      IN /\ a.at - log[i].at < ScanWindow + MaxStall
         /\ Cardinality(PortsAt(run)) >= Times(a, "HIGH", 2) * ScanThreshold
         /\ Cardinality(SynAt(run)) * ScanRatioDen >= ScanRatioNum * Cardinality(run)

\* At tick t there are packets, and at least rate per second, among the places.
Busy(places, t, rate) ==
  LET then == {k \in places : log[k].at = t}
  IN then # {} /\ Reaches(Cardinality(then), 1, rate)

FoundBy(a, p, from, until) == a.src = p.src /\ a.at \in from..until

\* A source that keeps up the rate towards a sensitive port for two seconds is
\* found out within that time, wherever its window happened to begin.
SustainedBruteForceIsFound ==
  \A p \in {q \in Packets : q.src # None /\ brute_checked(q)}, t \in 0..MaxTime :
    (\A u \in t..(t + 2 * Second) :
       Busy(SentTo(From(p.src, 1, Len(log)), p.port), u, BruteRate)) =>
      \E a \in Raised("BRUTE_FORCE") :
        a.port = p.port /\ FoundBy(a, p, t, t + 2 * Second)

OnlySyn(places) == places = SynAt(places)

\* A source whose TCP packets are nothing but SYNs and that keeps up the rate for two
\* windows is found out within that time, at whatever rate it sent them before.
SustainedFloodIsFound ==
  \A p \in {q \in Packets : q.src # None /\ is_tcp(q)}, t \in 0..MaxTime :
    LET flood == Tcp(From(p.src, 1, Len(log)))
    IN OnlySyn(flood) /\ (\A u \in t..(t + 2 * SynWindow) : Busy(flood, u, SynRate)) =>
         \E a \in Raised("SYN_FLOOD") : FoundBy(a, p, t, t + 2 * SynWindow)

\* Src, of nothing but SYNs, contacted n distinct ports in less than a window, at
\* places i to j.
Contacts(src, n, i, j) ==
  /\ OnlySyn(WithPort(From(src, 1, Len(log))))
  /\ log[j].at - log[i].at < ScanWindow
  /\ Cardinality(PortsAt(WithPort(From(src, i, j)))) >= n

Detects(src, i, j) == \E a \in Raised("PORT_SCAN") : a.place \in From(src, i, j)

\* What the fixed windows do guarantee: wherever they happen to begin, a source
\* of nothing but SYNs that contacts 2 * threshold - 1 ports within any window's
\* time is detected within that time, since at most two windows share it.
TwiceTheThresholdIsDetected ==
  \A src \in Sources, i, j \in 1..Len(log) :
    i <= j /\ Contacts(src, 2 * ScanThreshold - 1, i, j) => Detects(src, i, j)
=============================================================================
