------------------------ MODULE ThreatDetectorProofs ------------------------
(***************************************************************************)
(* Proofs about ThreatDetector for every choice of windows, thresholds,    *)
(* suppression interval and stall, for any number of sources and packets.  *)
(***************************************************************************)
EXTENDS ThreatDetector, FiniteSetTheorems, SequenceTheorems, TLAPS

Entries == [packet : Packets, at : Nat]

EwmaProfiles(c) ==
  [ewma_pps : [num : Nat, den : Nat], window_packets : Nat, window_start : 0..c,
   cold_start : BOOLEAN, last_update : 0..c]

SynProfiles(c) ==
  {r \in [syn_only_count : Nat, tcp_total_count : Nat, window_start : 0..c] :
     r.syn_only_count <= r.tcp_total_count}

ScanProfiles(c) ==
  {r \in [dst_ports : SUBSET Nat, tcp_packet_count : Nat, syn_only_count : Nat,
          window_start : 0..c] : r.syn_only_count <= r.tcp_packet_count}

Windows(c) == [start : (0 - Uptime)..c, count : Nat]

(***************************************************************************)
(* The inductive invariant.  That alerts are spaced rests on LastFired:    *)
(* the map has, for every source and type, the time of the latest alert.   *)
(* Profiles and OwnWindows type the state of the detectors, and Logged     *)
(* says that the packets were logged in the order of their times.  The     *)
(* theorems about single detectors add to it, further down, what each      *)
(* window or profile counts: a run of logged packets.                      *)
(***************************************************************************)
Clocks ==
  /\ clock \in Nat /\ clock <= MaxTime
  /\ now \in Nat /\ now <= clock
  /\ packet \in Packets \cup {None}
  /\ packet # None => clock - now <= MaxStall

Logged ==
  /\ log \in Seq(Entries)
  /\ \A k \in 1..Len(log) : log[k].at <= now
  /\ \A k, m \in 1..Len(log) : k <= m => log[k].at <= log[m].at

Profiles ==
  /\ DOMAIN ewma \subseteq Sources /\ \A s \in DOMAIN ewma : ewma[s] \in EwmaProfiles(clock)
  /\ DOMAIN syn \subseteq Sources /\ \A s \in DOMAIN syn : syn[s] \in SynProfiles(clock)
  /\ DOMAIN scan \subseteq Sources /\ \A s \in DOMAIN scan : scan[s] \in ScanProfiles(clock)

OwnWindows ==
  /\ \A x \in DOMAIN brute_force : x[1] \in Sources /\ brute_force[x] \in Windows(clock)
  /\ \A s \in DOMAIN dns_txt : s \in Sources /\ dns_txt[s] \in Windows(clock)
  /\ \A s \in DOMAIN exfil : s \in Sources /\ exfil[s] \in Windows(clock)

\* last_fired is the time of the latest alert about the pair, and there is one.
LastFired ==
  /\ \A x \in DOMAIN last_fired :
       /\ x \in Sources \X Types /\ last_fired[x] \in 0..now
       /\ \E b \in fired : b.src = x[1] /\ b.type = x[2] /\ b.at = last_fired[x]
  /\ \A a \in fired :
       /\ <<a.src, a.type>> \in DOMAIN last_fired
       /\ a.at <= last_fired[<<a.src, a.type>>]

Alerts ==
  /\ fired \subseteq raised
  /\ \A a \in raised : a.place \in 1..Len(log) /\ a.at \in 0..now
  /\ IsFiniteSet(fired)
  /\ total_alerts_fired = Cardinality(fired)

Spaced ==
  \A a, b \in fired :
    a # b /\ a.src = b.src /\ a.type = b.type =>
      a.at - b.at >= SuppressionSec \/ b.at - a.at >= SuppressionSec

IInv ==
  /\ Clocks /\ Logged /\ Profiles /\ OwnWindows
  /\ LastFired /\ Alerts /\ Spaced /\ SuppressedHasCause

-----------------------------------------------------------------------------
(* The maps and the constants *)

\* The entries of a map stay in a set when the new entry is in it.
LEMMA PutType ==
  ASSUME NEW f, NEW x, NEW v, NEW S, v \in S, \A y \in DOMAIN f : f[y] \in S
  PROVE  \A y \in DOMAIN Put(f, x, v) : Put(f, x, v)[y] \in S
BY DEF Put

\* What is looked up is in a set when all entries and the default are.
LEMMA LookupType ==
  ASSUME NEW f, NEW x, NEW d, NEW S, d \in S, \A y \in DOMAIN f : f[y] \in S
  PROVE  Lookup(f, x, d) \in S
BY DEF Lookup

\* The types of the constants.
LEMMA ConstantTypes ==
  /\ SuppressionSec \in Nat /\ BruteRate \in Nat /\ TxtRate \in Nat /\ ExfilRate \in Nat
  /\ Uptime \in Nat /\ MaxStall \in Nat /\ MaxTime \in Nat /\ MaxPackets \in Nat
  /\ Second \in Nat /\ Second > 0
BY DetectorAssumption, SecondAssumption

\* A profile stays well formed as the clock goes on.
LEMMA ClockGrows ==
  ASSUME NEW c \in Nat, NEW d \in Nat, c <= d
  PROVE  /\ EwmaProfiles(c) \subseteq EwmaProfiles(d)
         /\ SynProfiles(c) \subseteq SynProfiles(d)
         /\ ScanProfiles(c) \subseteq ScanProfiles(d)
         /\ Windows(c) \subseteq Windows(d)
<1>1. 0..c \subseteq 0..d /\ (0 - Uptime)..c \subseteq (0 - Uptime)..d
    BY ConstantTypes
<1>2. EwmaProfiles(c) \subseteq EwmaProfiles(d)
    BY <1>1 DEF EwmaProfiles
<1>3. SynProfiles(c) \subseteq SynProfiles(d)
    BY <1>1 DEF SynProfiles
<1>4. ScanProfiles(c) \subseteq ScanProfiles(d)
    BY <1>1 DEF ScanProfiles
<1>5. Windows(c) \subseteq Windows(d)
    BY <1>1 DEF Windows
<1> QED
    BY <1>2, <1>3, <1>4, <1>5

-----------------------------------------------------------------------------
(* The detectors *)

\* A window with a packet more, or the next one.
LEMMA CountedType ==
  ASSUME NEW c \in Nat, now \in 0..c, NEW w \in Windows(c)
  PROVE  counted(w) \in Windows(c)
<1>1. now \in (0 - Uptime)..c /\ w.start \in (0 - Uptime)..c /\ w.count + 1 \in Nat
    BY ConstantTypes DEF Windows
<1> QED
    BY <1>1 DEF counted, Window, Windows

\* SynFloodDetector::inspect() keeps its counts in order.
LEMMA SynType ==
  ASSUME NEW c \in Nat, NEW n \in 0..c, NEW r \in SynProfiles(c), NEW kind
  PROVE  syn_inspected(r, kind, n) \in SynProfiles(c)
<1> DEFINE q == classified(r, kind)
           syns == IF syn_only(kind) THEN r.syn_only_count + 1 ELSE r.syn_only_count
           all == r.tcp_total_count + 1
           Shape == [syn_only_count : Nat, tcp_total_count : Nat, window_start : 0..c]
<1>1. SynProfile(n) \in SynProfiles(c)
    BY DEF SynProfile, SynProfiles
<1>2. r \in Shape /\ r.syn_only_count \in Nat /\ r.tcp_total_count \in Nat
      /\ r.syn_only_count <= r.tcp_total_count
    BY DEF SynProfiles
<1>3. syns \in Nat /\ all \in Nat /\ syns <= all
    BY <1>2
<1>4. q = [r EXCEPT !.tcp_total_count = all, !.syn_only_count = syns]
    BY DEF classified
<1> HIDE DEF q, syns, all
<1>5. q \in Shape /\ q.syn_only_count = syns /\ q.tcp_total_count = all
    BY <1>2, <1>3, <1>4
<1>6. q \in SynProfiles(c)
    BY <1>3, <1>5 DEF SynProfiles
<1> QED
    BY <1>1, <1>6 DEF syn_inspected, q

\* PortScanDetector::inspect() keeps its counts in order.
LEMMA ScanType ==
  ASSUME NEW c \in Nat, NEW n \in 0..c, NEW r \in ScanProfiles(c), NEW port \in Nat, NEW kind
  PROVE  scan_inspected(r, port, kind, n) \in ScanProfiles(c)
<1> DEFINE q == rolled(r, n)
<1>1. q \in ScanProfiles(c)
    BY DEF ScanProfile, ScanProfiles, rolled
<1> HIDE DEF q
<1> DEFINE ports == q.dst_ports \cup {port}
           all == q.tcp_packet_count + 1
           syns == IF kind = "syn" THEN q.syn_only_count + 1 ELSE q.syn_only_count
           Shape == [dst_ports : SUBSET Nat, tcp_packet_count : Nat, syn_only_count : Nat,
                     window_start : 0..c]
           u == scan_inspected(r, port, kind, n)
<1>2. /\ q \in Shape /\ q.syn_only_count \in Nat /\ q.tcp_packet_count \in Nat
      /\ q.syn_only_count <= q.tcp_packet_count /\ q.dst_ports \subseteq Nat
    BY <1>1 DEF ScanProfiles
<1>3. ports \in SUBSET Nat /\ syns \in Nat /\ all \in Nat /\ syns <= all
    BY <1>2
<1>4. u = [q EXCEPT !.dst_ports = ports, !.tcp_packet_count = all, !.syn_only_count = syns]
    BY DEF scan_inspected, q
<1> HIDE DEF ports, all, syns, u
<1>5. u \in Shape /\ u.syn_only_count = syns /\ u.tcp_packet_count = all
    BY <1>2, <1>3, <1>4
<1> QED
    BY <1>3, <1>5 DEF ScanProfiles, u

\* EWMAEngine::update() keeps its times behind the clock and its baseline a
\* fraction of naturals.
LEMMA EwmaType ==
  ASSUME NEW c \in Nat, NEW n \in 0..c, NEW r \in EwmaProfiles(c)
  PROVE  ewma_updated(r, n) \in EwmaProfiles(c)
<1> DEFINE q == observed(r, n)
<1>1. refreshed(r, n) \in EwmaProfiles(c)
    <2>1. EwmaProfile(n) \in EwmaProfiles(c)
        BY DEF EwmaProfile, EwmaProfiles, Frac
    <2> QED
        BY <2>1 DEF refreshed
<1>2. q \in EwmaProfiles(c)
    <2> DEFINE p == refreshed(r, n)
               m == p.window_packets + 1
    <2>1. m \in Nat
        BY <1>1 DEF EwmaProfiles
    <2>2. q = [p EXCEPT !.last_update = n, !.window_packets = m]
        BY DEF observed
    <2> HIDE DEF p, m, q
    <2> QED
        BY <1>1, <2>1, <2>2 DEF EwmaProfiles, p
<1> HIDE DEF q
<1>3. CASE ~ewma_over(q, n)
    BY <1>2, <1>3 DEF ewma_updated, q
<1>4. CASE ewma_over(q, n)
    <2> DEFINE age == n - q.window_start
               b == baseline(q, age)
    <2>1. /\ q.window_packets \in Nat /\ q.ewma_pps.num \in Nat /\ q.ewma_pps.den \in Nat
          /\ q.window_start \in 0..c
        BY <1>2 DEF EwmaProfiles
    <2>2. age \in Nat
        BY <1>4, <2>1, EwmaAssumption DEF ewma_over
    <2> HIDE DEF age
    <2>3. b \in [num : Nat, den : Nat]
        <3>1. AlphaNum \in Nat /\ AlphaDen \in Nat /\ AlphaDen - AlphaNum \in Nat
            BY EwmaAssumption
        <3>2. \A x, y \in Nat : x * y \in Nat
            OBVIOUS
        <3>3. /\ AlphaNum * q.window_packets * q.ewma_pps.den \in Nat
              /\ (AlphaDen - AlphaNum) * q.ewma_pps.num * age \in Nat
              /\ AlphaDen * age * q.ewma_pps.den \in Nat
            BY <2>1, <2>2, <3>1, <3>2
        <3> QED
            BY <2>1, <2>2, <3>3 DEF baseline, averaged, Frac
    <2> HIDE DEF b
    <2>4. ewma_updated(r, n) = [q EXCEPT !.ewma_pps = b, !.cold_start = FALSE,
                                         !.window_packets = 0, !.window_start = n]
        BY <1>4 DEF ewma_updated, q, b, age
    <2> DEFINE cold == FALSE
               none == 0
               F == [num : Nat, den : Nat]
               I == 0..c
               B == BOOLEAN
    <2>5. cold \in B /\ none \in Nat /\ n \in I /\ b \in F
        BY <2>3
    <2>6. ewma_updated(r, n) = [q EXCEPT !.ewma_pps = b, !.cold_start = cold,
                                         !.window_packets = none, !.window_start = n]
        BY <2>4
    <2>7. q \in [ewma_pps : F, window_packets : Nat, window_start : I, cold_start : B,
                 last_update : I]
        BY <1>2 DEF EwmaProfiles
    <2> HIDE DEF cold, none, F, I, B
    <2>8. ewma_updated(r, n) \in [ewma_pps : F, window_packets : Nat, window_start : I,
                                  cold_start : B, last_update : I]
        BY <2>5, <2>6, <2>7
    <2> QED
        BY <2>8 DEF EwmaProfiles, F, I, B
<1> QED
    BY <1>3, <1>4

\* Each check returns one severity at most, and no two checks share a type: no
\* packet raises two alerts of one type.
LEMMA OneSeverity ==
  ASSUME NEW p
  PROVE  /\ \A f \in findings(p) : f[1] \in Types
         /\ \A f, g \in findings(p) : f[1] = g[1] => f = g
<1> DEFINE Single(S) == \A x, y \in S : x = y
           V == volume_anomaly(ewma_profile(p), now)
           S == When(is_tcp(p), syn_flood(syn_profile(p), p.kind, now))
           P == When(p.port # 0, port_scan(scan_profile(p), p.port, p.kind, now))
           B == When(brute_checked(p), brute_found(p))
           D == dns_found(p)
           E == When(p.payload > 0, exfil_found(p))
<1>1. Single(V)
    BY DEF volume_anomaly
<1>2. Single(S)
    BY DEF syn_flood, When
<1>3. Single(P)
    BY DEF port_scan, When
<1>4. Single(B)
    BY DEF brute_found, When
<1>5. Single(D)
    BY DEF dns_found
<1>6. Single(E)
    BY DEF exfil_found, When
<1>7. findings(p) = ({"VOLUME_ANOMALY"} \X V) \cup ({"SYN_FLOOD"} \X S)
        \cup ({"PORT_SCAN"} \X P) \cup ({"BRUTE_FORCE"} \X B)
        \cup ({"DNS_TUNNELING"} \X D) \cup ({"DATA_EXFILTRATION"} \X E)
    BY DEF findings
<1> HIDE DEF V, S, P, B, D, E
<1> QED
    BY <1>1, <1>2, <1>3, <1>4, <1>5, <1>6, <1>7 DEF Types

\* So a packet raises finitely many alerts.
LEMMA FindingsFinite == ASSUME NEW p PROVE IsFiniteSet(findings(p))
<1> DEFINE type == [f \in findings(p) |-> f[1]]
<1>1. IsFiniteSet(Types)
    <2>1. /\ IsFiniteSet({"VOLUME_ANOMALY", "SYN_FLOOD"})
          /\ IsFiniteSet({"PORT_SCAN", "BRUTE_FORCE"})
          /\ IsFiniteSet({"DNS_TUNNELING", "DATA_EXFILTRATION"})
        <3>1. ASSUME NEW x, NEW y PROVE IsFiniteSet({x, y})
            <4>1. IsFiniteSet({x}) /\ IsFiniteSet({y})
                BY FS_Singleton
            <4>2. IsFiniteSet({x} \cup {y})
                BY <4>1, FS_Union
            <4>3. {x} \cup {y} = {x, y}
                OBVIOUS
            <4> QED
                BY <4>2, <4>3
        <3> QED
            BY <3>1
    <2>2. Types = ({"VOLUME_ANOMALY", "SYN_FLOOD"} \cup {"PORT_SCAN", "BRUTE_FORCE"})
                    \cup {"DNS_TUNNELING", "DATA_EXFILTRATION"}
        BY DEF Types
    <2> QED
        BY <2>1, <2>2, FS_Union
<1>2. type \in Injection(findings(p), Types)
    BY OneSeverity DEF Injection, IsInjective
<1> QED
    BY <1>1, <1>2, FS_Injection

-----------------------------------------------------------------------------
(* The inductive invariant *)

\* Nothing has been seen.
LEMMA InitIInv == Init => IInv
<1> SUFFICES ASSUME Init PROVE IInv
    OBVIOUS
<1>1. Clocks
    BY ConstantTypes DEF Init, Clocks
<1>2. log = <<>> /\ fired = {} /\ raised = {} /\ DOMAIN Empty = {}
    BY DEF Init, Empty
<1>3. Logged
    BY <1>2, EmptySeq DEF Logged
<1>4. Profiles /\ OwnWindows
    BY <1>2 DEF Init, Profiles, OwnWindows
<1>5. LastFired /\ Spaced /\ SuppressedHasCause
    BY <1>2 DEF Init, LastFired, Spaced, SuppressedHasCause
<1>6. Alerts
    BY <1>2, FS_EmptySet DEF Init, Alerts
<1> QED
    BY <1>1, <1>3, <1>4, <1>5, <1>6 DEF IInv

\* The clock goes on.
LEMMA TickIInv == IInv /\ Tick => IInv'
<1> SUFFICES ASSUME IInv, Tick PROVE IInv'
    OBVIOUS
<1>1. UNCHANGED <<packet, now, ewma, syn, scan, last_fired, brute_force, dns_txt, exfil,
                  total_alerts_fired, log, raised, fired>>
    BY DEF Tick, stateVars
<1>2. clock \in Nat /\ clock' = clock + 1 /\ clock' \in Nat /\ clock <= clock'
    BY DEF IInv, Clocks, Tick
<1>3. Clocks'
    BY <1>1, <1>2, ConstantTypes DEF IInv, Clocks, Tick
<1>4. Profiles' /\ OwnWindows'
    BY <1>1, <1>2, ClockGrows DEF IInv, Profiles, OwnWindows
<1>5. Logged' /\ LastFired' /\ Alerts' /\ Spaced' /\ SuppressedHasCause'
    BY <1>1 DEF IInv, Logged, LastFired, Alerts, Spaced, SuppressedHasCause
<1> QED
    BY <1>3, <1>4, <1>5 DEF IInv

\* The consumer begins with a packet and reads the clock.
LEMMA ReceiveIInv == ASSUME IInv, NEW p \in Packets, Receive(p) PROVE IInv'
<1>1. UNCHANGED <<clock, ewma, syn, scan, last_fired, brute_force, dns_txt, exfil,
                  total_alerts_fired, log, raised, fired>>
    BY DEF Receive, stateVars
<1>2. /\ packet' = p /\ now' = clock /\ now \in Nat /\ clock \in Nat /\ now <= now'
      /\ clock - now' = 0
    BY DEF IInv, Clocks, Receive
<1>3. Clocks'
    BY <1>1, <1>2, ConstantTypes DEF IInv, Clocks
<1>4. Logged'
    <2>1. log \in Seq(Entries)
        BY DEF IInv, Logged
    <2>2. ASSUME NEW k \in 1..Len(log) PROVE log[k].at <= now'
        <3>1. log[k] \in Entries
            BY <2>1, ElementOfSeq
        <3>2. log[k].at \in Nat /\ log[k].at <= now
            BY <3>1 DEF Entries, IInv, Logged
        <3> QED
            BY <1>2, <3>2
    <2> QED
        BY <1>1, <2>1, <2>2 DEF IInv, Logged
<1>5. Profiles' /\ OwnWindows' /\ Spaced' /\ SuppressedHasCause'
    BY <1>1 DEF IInv, Profiles, OwnWindows, Spaced, SuppressedHasCause
<1>6. 0..now \subseteq 0..now'
    BY <1>2
<1>7. LastFired' /\ Alerts'
    BY <1>1, <1>6 DEF IInv, LastFired, Alerts
<1> QED
    BY <1>3, <1>4, <1>5, <1>7 DEF IInv

\* The packet is put into the log.
LEMMA DoneFacts ==
  ASSUME Clocks, Logged, packet # None, Done
  PROVE  /\ Clocks' /\ Logged' /\ now' = now /\ clock' = clock
         /\ Len(log) \in Nat /\ Len(log') = Len(log) + 1
         /\ log'[Len(log) + 1] = [packet |-> packet, at |-> now]
         /\ \A k \in 1..Len(log) : log'[k] = log[k]
<1> DEFINE e == [packet |-> packet, at |-> now]
<1>1. e \in Entries /\ e.at = now
    BY DEF Clocks, Entries
<1>2. log' = Append(log, e) /\ log \in Seq(Entries) /\ packet' = None /\ UNCHANGED <<clock, now>>
    BY DEF Done, Logged
<1> HIDE DEF e
<1>3. /\ Len(log) \in Nat /\ Len(log') = Len(log) + 1 /\ log' \in Seq(Entries)
      /\ log'[Len(log) + 1] = e /\ \A k \in 1..Len(log) : log'[k] = log[k]
    BY <1>1, <1>2, AppendProperties
<1>4. Clocks'
    BY <1>2 DEF Clocks
<1>5. Logged'
    <2>1. now \in Nat
        BY DEF Clocks
    <2>2. \A k \in 1..Len(log) : log'[k].at <= now
        BY <1>3 DEF Logged
    <2>3. \A k \in 1..Len(log') : k \in 1..Len(log) \/ k = Len(log) + 1
        BY <1>3
    <2>4. \A k \in 1..Len(log') : log'[k].at <= now
        BY <1>1, <1>3, <2>1, <2>2, <2>3
    <2>5. ASSUME NEW k \in 1..Len(log'), NEW m \in 1..Len(log'), k <= m
          PROVE  log'[k].at <= log'[m].at
        <3>1. CASE m = Len(log) + 1
            BY <1>1, <1>3, <2>4, <3>1
        <3>2. CASE m \in 1..Len(log)
            <4>1. k \in 1..Len(log)
                BY <1>3, <2>5, <3>2
            <4> QED
                BY <1>3, <2>5, <3>2, <4>1 DEF Logged
        <3> QED
            BY <2>3, <3>1, <3>2
    <2> QED
        BY <1>2, <1>3, <2>4, <2>5 DEF Logged
<1> QED
    BY <1>2, <1>3, <1>4, <1>5 DEF e

\* A packet without a source changes nothing else.
LEMMA IgnoreIInv == IInv /\ InspectIgnore => IInv'
<1> SUFFICES ASSUME IInv, InspectIgnore PROVE IInv'
    OBVIOUS
<1>1. UNCHANGED <<ewma, syn, scan, last_fired, brute_force, dns_txt, exfil,
                  total_alerts_fired, raised, fired>>
    BY DEF InspectIgnore, stateVars
<1>2. /\ Clocks' /\ Logged' /\ now' = now /\ clock' = clock
      /\ 1..Len(log) \subseteq 1..Len(log')
    BY DoneFacts DEF IInv, InspectIgnore
<1>3. Profiles' /\ OwnWindows' /\ LastFired' /\ Alerts' /\ Spaced' /\ SuppressedHasCause'
    BY <1>1, <1>2 DEF IInv, Profiles, OwnWindows, LastFired, Alerts, Spaced,
      SuppressedHasCause
<1> QED
    BY <1>2, <1>3 DEF IInv

\* What a packet with a source looks like.
LEMMA SourceFacts ==
  ASSUME Clocks, packet # None, packet.src # None
  PROVE  /\ packet \in Packets /\ packet.src \in Sources
         /\ packet.port \in Nat /\ packet.payload \in Nat
<1>1. packet \in Packets
    BY DEF Clocks
<1> QED
    BY <1>1, DetectorAssumption DEF Sources

\* The profiles of the three detectors stay well formed.
LEMMA InspectProfiles ==
  ASSUME Clocks, Profiles, Inspect
  PROVE  Profiles'
<1> DEFINE p == packet
<1>1. p.src \in Sources /\ p.port \in Nat
    BY SourceFacts DEF Inspect
<1>2. clock \in Nat /\ now \in 0..clock /\ clock \in 0..clock /\ clock' = clock
    BY DEF Clocks, Inspect, Done
<1>3. /\ ewma' = Put(ewma, p.src, ewma_updated(ewma_profile(p), now))
      /\ syn' = IF is_tcp(p)
                  THEN Put(syn, p.src, syn_inspected(syn_profile(p), p.kind, now))
                  ELSE syn
      /\ scan' = IF p.port # 0
                   THEN Put(scan, p.src, scan_inspected(scan_profile(p), p.port, p.kind, now))
                   ELSE scan
    BY DEF Inspect
<1> HIDE DEF p
<1>4. DOMAIN ewma' \subseteq Sources /\ \A s \in DOMAIN ewma' : ewma'[s] \in EwmaProfiles(clock)
    <2>1. EwmaProfile(clock) \in EwmaProfiles(clock)
        BY <1>2 DEF EwmaProfile, EwmaProfiles, Frac
    <2>2. ewma_profile(p) \in EwmaProfiles(clock)
        BY <2>1, LookupType DEF ewma_profile, Profiles
    <2>3. ewma_updated(ewma_profile(p), now) \in EwmaProfiles(clock)
        BY <1>2, <2>2, EwmaType
    <2> DEFINE v == ewma_updated(ewma_profile(p), now)
               m == Put(ewma, p.src, v)
    <2>4. DOMAIN ewma \subseteq Sources /\ \A s \in DOMAIN ewma : ewma[s] \in EwmaProfiles(clock)
        BY DEF Profiles
    <2>5. ewma' = m
        BY <1>3
    <2> HIDE DEF v
    <2>6. DOMAIN m = DOMAIN ewma \cup {p.src}
        BY DEF Put
    <2>7. \A s \in DOMAIN m : m[s] \in EwmaProfiles(clock)
        BY <2>3, <2>4, PutType DEF v
    <2> HIDE DEF m
    <2> QED
        BY <1>1, <2>4, <2>5, <2>6, <2>7
<1>5. DOMAIN syn' \subseteq Sources /\ \A s \in DOMAIN syn' : syn'[s] \in SynProfiles(clock)
    <2>1. SynProfile(clock) \in SynProfiles(clock)
        BY <1>2 DEF SynProfile, SynProfiles
    <2>2. syn_profile(p) \in SynProfiles(clock)
        BY <2>1, LookupType DEF syn_profile, Profiles
    <2>3. syn_inspected(syn_profile(p), p.kind, now) \in SynProfiles(clock)
        BY <1>2, <2>2, SynType
    <2> DEFINE v == syn_inspected(syn_profile(p), p.kind, now)
               m == Put(syn, p.src, v)
    <2>4. DOMAIN syn \subseteq Sources /\ \A s \in DOMAIN syn : syn[s] \in SynProfiles(clock)
        BY DEF Profiles
    <2>5. syn' = m \/ syn' = syn
        BY <1>3
    <2> HIDE DEF v
    <2>6. DOMAIN m = DOMAIN syn \cup {p.src}
        BY DEF Put
    <2>7. \A s \in DOMAIN m : m[s] \in SynProfiles(clock)
        BY <2>3, <2>4, PutType DEF v
    <2> HIDE DEF m
    <2> QED
        BY <1>1, <2>4, <2>5, <2>6, <2>7
<1>6. DOMAIN scan' \subseteq Sources /\ \A s \in DOMAIN scan' : scan'[s] \in ScanProfiles(clock)
    <2>1. ScanProfile(clock) \in ScanProfiles(clock)
        BY <1>2 DEF ScanProfile, ScanProfiles
    <2>2. scan_profile(p) \in ScanProfiles(clock)
        BY <2>1, LookupType DEF scan_profile, Profiles
    <2>3. scan_inspected(scan_profile(p), p.port, p.kind, now) \in ScanProfiles(clock)
        BY <1>1, <1>2, <2>2, ScanType
    <2> DEFINE v == scan_inspected(scan_profile(p), p.port, p.kind, now)
               m == Put(scan, p.src, v)
    <2>4. DOMAIN scan \subseteq Sources /\ \A s \in DOMAIN scan : scan[s] \in ScanProfiles(clock)
        BY DEF Profiles
    <2>5. scan' = m \/ scan' = scan
        BY <1>3
    <2> HIDE DEF v
    <2>6. DOMAIN m = DOMAIN scan \cup {p.src}
        BY DEF Put
    <2>7. \A s \in DOMAIN m : m[s] \in ScanProfiles(clock)
        BY <2>3, <2>4, PutType DEF v
    <2> HIDE DEF m
    <2> QED
        BY <1>1, <2>4, <2>5, <2>6, <2>7
<1> QED
    BY <1>2, <1>4, <1>5, <1>6 DEF Profiles

\* So do the windows that ThreatDetector keeps itself.
LEMMA InspectWindows ==
  ASSUME Clocks, OwnWindows, Inspect
  PROVE  OwnWindows'
<1> DEFINE p == packet
           W == Windows(clock)
<1>1. p.src \in Sources /\ p.payload \in Nat
    BY SourceFacts DEF Inspect
<1>2. clock \in Nat /\ now \in 0..clock /\ clock' = clock
    BY DEF Clocks, Inspect, Done
<1>3. /\ brute_force' = IF brute_checked(p)
                          THEN Put(brute_force, <<p.src, p.port>>, counted(brute_window(p)))
                          ELSE brute_force
      /\ dns_txt' = IF txt_counts(p) THEN Put(dns_txt, p.src, counted(txt_window(p)))
                    ELSE dns_txt
      /\ exfil' = IF p.payload > 0
                    THEN Put(exfil, p.src,
                             IF over(exfil_window(p)) THEN Window(now, 0)
                             ELSE Window(exfil_window(p).start, exfil_total(p)))
                    ELSE exfil
    BY DEF Inspect
<1>4. Window(clock, 0) \in W /\ Window(0 - Uptime, 0) \in W /\ Window(now, 0) \in W
    BY <1>2, ConstantTypes DEF Window, Windows
<1> HIDE DEF p, W
<1>5. brute_window(p) \in W /\ txt_window(p) \in W /\ exfil_window(p) \in W
    BY <1>4, LookupType DEF brute_window, txt_window, exfil_window, OwnWindows, W
<1>6. \A x \in DOMAIN brute_force' : x[1] \in Sources /\ brute_force'[x] \in W
    <2>1. counted(brute_window(p)) \in W
        BY <1>2, <1>5, CountedType DEF W
    <2> DEFINE v == counted(brute_window(p))
               m == Put(brute_force, <<p.src, p.port>>, v)
    <2>2. \A x \in DOMAIN brute_force : x[1] \in Sources /\ brute_force[x] \in W
        BY DEF OwnWindows, W
    <2>3. v \in W
        BY <2>1
    <2>4. brute_force' = m \/ brute_force' = brute_force
        BY <1>3
    <2> HIDE DEF v
    <2>5. DOMAIN m = DOMAIN brute_force \cup {<<p.src, p.port>>}
        BY DEF Put
    <2>6. \A x \in DOMAIN m : m[x] \in W
        BY <2>2, <2>3, PutType
    <2> HIDE DEF m
    <2> QED
        BY <1>1, <2>2, <2>4, <2>5, <2>6
<1>7. \A s \in DOMAIN dns_txt' : s \in Sources /\ dns_txt'[s] \in W
    <2>1. counted(txt_window(p)) \in W
        BY <1>2, <1>5, CountedType DEF W
    <2> DEFINE v == counted(txt_window(p))
               m == Put(dns_txt, p.src, v)
    <2>2. \A x \in DOMAIN dns_txt : x \in Sources /\ dns_txt[x] \in W
        BY DEF OwnWindows, W
    <2>3. v \in W
        BY <2>1
    <2>4. dns_txt' = m \/ dns_txt' = dns_txt
        BY <1>3
    <2> HIDE DEF v
    <2>5. DOMAIN m = DOMAIN dns_txt \cup {p.src}
        BY DEF Put
    <2>6. \A x \in DOMAIN m : m[x] \in W
        BY <2>2, <2>3, PutType
    <2> HIDE DEF m
    <2> QED
        BY <1>1, <2>2, <2>4, <2>5, <2>6
<1>8. \A s \in DOMAIN exfil' : s \in Sources /\ exfil'[s] \in W
    <2>1. Window(exfil_window(p).start, exfil_total(p)) \in W
        BY <1>1, <1>5 DEF exfil_total, Window, Windows, W
    <2> DEFINE v == IF over(exfil_window(p)) THEN Window(now, 0)
                    ELSE Window(exfil_window(p).start, exfil_total(p))
               m == Put(exfil, p.src, v)
    <2>2. \A x \in DOMAIN exfil : x \in Sources /\ exfil[x] \in W
        BY DEF OwnWindows, W
    <2>3. v \in W
        BY <1>4, <2>1
    <2>4. exfil' = m \/ exfil' = exfil
        BY <1>3
    <2> HIDE DEF v
    <2>5. DOMAIN m = DOMAIN exfil \cup {p.src}
        BY DEF Put
    <2>6. \A x \in DOMAIN m : m[x] \in W
        BY <2>2, <2>3, PutType
    <2> HIDE DEF m
    <2> QED
        BY <1>1, <2>2, <2>4, <2>5, <2>6
<1> QED
    BY <1>2, <1>6, <1>7, <1>8 DEF OwnWindows, W

\* fire() keeps the alerts spaced and remembers the latest of each kind.
LEMMA FireIInv ==
  ASSUME IInv, Inspect
  PROVE  LastFired' /\ Alerts' /\ Spaced' /\ SuppressedHasCause'
<1> DEFINE p == packet
           found == findings(p)
           passed == {f \in found : ~is_suppressed(p.src, f[1])}
           pairs == {<<p.src, f[1]>> : f \in passed}
           alert(f) == [src |-> p.src, port |-> p.port, type |-> f[1],
                        severity |-> f[2], at |-> now, place |-> Len(log) + 1]
           new == {alert(f) : f \in passed}
           all == {alert(f) : f \in found}
<1>1. /\ last_fired' = [x \in DOMAIN last_fired \cup pairs |->
                          IF x \in pairs THEN now ELSE last_fired[x]]
      /\ total_alerts_fired' = total_alerts_fired + Cardinality(passed)
      /\ raised' = raised \cup all
      /\ fired' = fired \cup new
    BY DEF Inspect, Fire, count_fired
<1>2. /\ now' = now /\ Len(log) \in Nat /\ Len(log') = Len(log) + 1
      /\ now \in Nat /\ p.src \in Sources
    BY DoneFacts, SourceFacts DEF IInv, Inspect, Clocks
<1>3. /\ \A f \in found : f[1] \in Types
      /\ \A f, g \in found : f[1] = g[1] => f = g
      /\ passed \subseteq found
    BY OneSeverity
<1>4. IsFiniteSet(passed)
    BY <1>3, FindingsFinite, FS_Subset
<1>5. \A f \in passed : ~is_suppressed(p.src, f[1])
    OBVIOUS
<1>6. \A f \in found \ passed : is_suppressed(p.src, f[1])
    OBVIOUS
<1>7. \A f : /\ alert(f).src = p.src /\ alert(f).type = f[1] /\ alert(f).at = now
             /\ alert(f).place = Len(log) + 1
    OBVIOUS
<1>8. /\ \A a \in new : \E f \in passed : a = alert(f)
      /\ \A f \in passed : alert(f) \in new
      /\ \A a \in all : \E f \in found : a = alert(f)
      /\ new \subseteq all
    BY <1>3
<1>9. /\ \A x \in pairs : \E f \in passed : x = <<p.src, f[1]>>
      /\ \A f \in passed : <<p.src, f[1]>> \in pairs
    OBVIOUS
<1>10. /\ DOMAIN last_fired' = DOMAIN last_fired \cup pairs
       /\ \A x \in pairs : last_fired'[x] = now
       /\ \A x \in DOMAIN last_fired \ pairs : last_fired'[x] = last_fired[x]
    BY <1>1
<1> HIDE DEF p, found, passed, pairs, alert, new, all
<1>11. LastFired /\ Alerts /\ Spaced /\ SuppressedHasCause /\ SuppressionSec \in Nat
    BY ConstantTypes DEF IInv
<1>12. \A a \in fired : a.at \in 0..now
    BY <1>11 DEF Alerts
<1>13. LastFired'
    <2>1. ASSUME NEW x \in DOMAIN last_fired'
          PROVE  /\ x \in Sources \X Types /\ last_fired'[x] \in 0..now
                 /\ \E b \in fired' : b.src = x[1] /\ b.type = x[2] /\ b.at = last_fired'[x]
        <3>1. CASE x \in pairs
            <4>1. PICK f \in passed : x = <<p.src, f[1]>>
                BY <1>9, <3>1
            <4>2. alert(f) \in fired'
                BY <1>1, <1>8
            <4>3. x \in Sources \X Types /\ last_fired'[x] = now
                BY <1>2, <1>3, <1>10, <3>1, <4>1
            <4>4. x[1] = p.src /\ x[2] = f[1]
                BY <4>1
            <4>5. now \in 0..now
                BY <1>2
            <4> QED
                BY <1>7, <4>2, <4>3, <4>4, <4>5
        <3>2. CASE x \notin pairs
            BY <1>1, <1>10, <1>11, <3>2 DEF LastFired
        <3> QED
            BY <3>1, <3>2
    <2>2. ASSUME NEW a \in fired'
          PROVE  /\ <<a.src, a.type>> \in DOMAIN last_fired'
                 /\ a.at <= last_fired'[<<a.src, a.type>>]
        <3>1. CASE a \in new
            <4>1. PICK f \in passed : a = alert(f)
                BY <1>8, <3>1
            <4>2. <<a.src, a.type>> \in pairs /\ a.at = now
                BY <1>7, <1>9, <4>1
            <4> QED
                BY <1>2, <1>10, <4>2
        <3>2. CASE a \in fired
            <4>1. /\ <<a.src, a.type>> \in DOMAIN last_fired
                  /\ a.at <= last_fired[<<a.src, a.type>>]
                BY <1>11, <3>2 DEF LastFired
            <4>2. a.at <= now
                BY <1>2, <1>12, <3>2
            <4> QED
                BY <1>10, <4>1, <4>2
        <3> QED
            BY <1>1, <3>1, <3>2
    <2> QED
        BY <1>2, <2>1, <2>2 DEF LastFired
<1>14. Alerts'
    <2>1. fired' \subseteq raised'
        BY <1>1, <1>8, <1>11 DEF Alerts
    <2>2. ASSUME NEW a \in raised' PROVE a.place \in 1..Len(log') /\ a.at \in 0..now'
        <3>1. CASE a \in raised
            BY <1>2, <1>11, <3>1 DEF Alerts
        <3>2. CASE a \in all
            <4>1. a.place = Len(log) + 1 /\ a.at = now
                BY <1>7, <1>8, <3>2
            <4> QED
                BY <1>2, <4>1
        <3> QED
            BY <1>1, <3>1, <3>2
    <2>3. IsFiniteSet(new) /\ Cardinality(new) = Cardinality(passed)
        <3> DEFINE g == [f \in passed |-> alert(f)]
        <3>1. g \in Injection(passed, new)
            BY <1>3, <1>7, <1>8 DEF Injection, IsInjective
        <3>2. g \in Surjection(passed, new)
            BY <1>8 DEF Surjection
        <3>3. IsFiniteSet(new) /\ Cardinality(new) <= Cardinality(passed)
            BY <1>4, <3>2, FS_Surjection
        <3>4. Cardinality(passed) <= Cardinality(new)
            BY <3>1, <3>3, FS_Injection
        <3>5. Cardinality(new) \in Nat /\ Cardinality(passed) \in Nat
            BY <1>4, <3>3, FS_CardinalityType
        <3> QED
            BY <3>3, <3>4, <3>5
    <2>4. fired \cap new = {}
        <3>1. \A a \in fired : a.place <= Len(log)
            BY <1>2, <1>11 DEF Alerts
        <3>2. \A a \in new : a.place = Len(log) + 1
            BY <1>7, <1>8
        <3>3. ASSUME NEW a \in fired, a \in new PROVE FALSE
            <4>1. a.place <= Len(log) /\ a.place = Len(log) + 1
                BY <3>1, <3>2, <3>3
            <4> QED
                BY <1>2, <4>1
        <3> QED
            BY <3>3
    <2>5. IsFiniteSet(fired \cup new)
          /\ Cardinality(fired \cup new) = Cardinality(fired) + Cardinality(new)
        <3>1. IsFiniteSet(fired)
            BY <1>11 DEF Alerts
        <3>2. /\ IsFiniteSet(fired \cup new)
              /\ Cardinality(fired \cup new)
                   = Cardinality(fired) + Cardinality(new) - Cardinality(fired \cap new)
            BY <2>3, <3>1, FS_Union
        <3>3. Cardinality(fired \cap new) = 0
            BY <2>4, FS_EmptySet
        <3>4. Cardinality(fired) \in Nat /\ Cardinality(new) \in Nat
            BY <2>3, <3>1, FS_CardinalityType
        <3> QED
            BY <3>2, <3>3, <3>4
    <2> QED
        BY <1>1, <1>11, <2>1, <2>2, <2>3, <2>5 DEF Alerts
<1>15. Spaced'
    <2>1. ASSUME NEW a \in fired, NEW b \in new, a.src = b.src, a.type = b.type
          PROVE  b.at - a.at >= SuppressionSec
        <3>1. PICK f \in passed : b = alert(f)
            BY <1>8
        <3>2. <<p.src, f[1]>> = <<a.src, a.type>> /\ b.at = now
            BY <1>7, <2>1, <3>1
        <3>3. <<p.src, f[1]>> \in DOMAIN last_fired /\ a.at <= last_fired[<<p.src, f[1]>>]
            BY <1>11, <3>2 DEF LastFired
        <3>4. ~(now - last_fired[<<p.src, f[1]>>] < SuppressionSec)
            BY <1>5, <3>3 DEF is_suppressed
        <3>5. last_fired[<<p.src, f[1]>>] \in 0..now
            BY <1>11, <3>3 DEF LastFired
        <3>6. a.at \in 0..now
            BY <1>12
        <3> QED
            BY <1>2, <1>11, <3>2, <3>3, <3>4, <3>5, <3>6
    <2>2. ASSUME NEW a \in new, NEW b \in new, a.src = b.src, a.type = b.type
          PROVE  a = b
        <3>1. PICK f \in passed : a = alert(f)
            BY <1>8
        <3>2. PICK g \in passed : b = alert(g)
            BY <1>8
        <3>3. f[1] = g[1]
            BY <1>7, <2>2, <3>1, <3>2
        <3> QED
            BY <1>3, <3>1, <3>2, <3>3
    <2>3. ASSUME NEW a \in fired', NEW b \in fired', a # b, a.src = b.src, a.type = b.type
          PROVE  a.at - b.at >= SuppressionSec \/ b.at - a.at >= SuppressionSec
        <3>1. (a \in fired \/ a \in new) /\ (b \in fired \/ b \in new)
            BY <1>1
        <3> QED
            BY <1>11, <2>1, <2>2, <2>3, <3>1 DEF Spaced
    <2> QED
        BY <2>3 DEF Spaced
<1>16. SuppressedHasCause'
    <2>1. ASSUME NEW a \in raised' \ fired'
          PROVE  \E b \in fired' : /\ b.src = a.src /\ b.type = a.type
                                   /\ b.place < a.place
                                   /\ a.at - b.at < SuppressionSec
        <3>1. CASE a \in raised
            BY <1>1, <1>11, <3>1 DEF SuppressedHasCause
        <3>2. CASE a \in all
            <4>1. PICK f \in found : a = alert(f)
                BY <1>8, <3>2
            <4>2. f \notin passed
                BY <1>1, <1>8, <4>1
            <4>3. /\ <<p.src, f[1]>> \in DOMAIN last_fired
                  /\ now - last_fired[<<p.src, f[1]>>] < SuppressionSec
                BY <1>6, <4>2 DEF is_suppressed
            <4>4. PICK b \in fired : /\ b.src = p.src /\ b.type = f[1]
                                     /\ b.at = last_fired[<<p.src, f[1]>>]
                BY <1>11, <4>3 DEF LastFired
            <4>5. b.place \in 1..Len(log)
                BY <1>11 DEF Alerts
            <4>6. a.src = p.src /\ a.type = f[1] /\ a.at = now /\ a.place = Len(log) + 1
                BY <1>7, <4>1
            <4>7. b.place < a.place
                BY <1>2, <4>5, <4>6
            <4>8. a.at - b.at < SuppressionSec /\ b \in fired'
                BY <1>1, <4>3, <4>4, <4>6
            <4> QED
                BY <4>4, <4>6, <4>7, <4>8
        <3> QED
            BY <1>1, <3>1, <3>2
    <2> QED
        BY <2>1 DEF SuppressedHasCause
<1> QED
    BY <1>13, <1>14, <1>15, <1>16

\* inspect() as a whole.
LEMMA InspectIInv == IInv /\ Inspect => IInv'
<1> SUFFICES ASSUME IInv, Inspect PROVE IInv'
    OBVIOUS
<1>1. Clocks' /\ Logged'
    BY DoneFacts DEF IInv, Inspect
<1>2. Profiles' /\ OwnWindows'
    BY InspectProfiles, InspectWindows DEF IInv
<1> QED
    BY <1>1, <1>2, FireIInv DEF IInv

\* Every step preserves the inductive invariant.
LEMMA NextIInv == IInv /\ [Next]_vars => IInv'
<1>1. IInv /\ UNCHANGED vars => IInv'
    BY DEF vars, stateVars, IInv, Clocks, Logged, Profiles, OwnWindows, LastFired, Alerts,
      Spaced, SuppressedHasCause
<1> QED
    BY <1>1, TickIInv, ReceiveIInv, InspectIInv, IgnoreIInv DEF Next

\* The inductive invariant holds in every state.
LEMMA Invariance == Spec => []IInv
BY InitIInv, NextIInv, PTL DEF Spec

\* The inductive invariant has the types of the state in it.
LEMMA IInvTypes == IInv => TypeOK
<1> SUFFICES ASSUME IInv PROVE TypeOK
    OBVIOUS
<1>1. clock \in 0..MaxTime /\ now \in 0..clock /\ packet \in Packets \cup {None}
    BY ConstantTypes DEF IInv, Clocks
<1>2. \A x \in DOMAIN last_fired : x \in Sources \X Types /\ last_fired[x] \in 0..clock
    BY <1>1 DEF IInv, LastFired
<1>3. DOMAIN ewma \cup DOMAIN syn \cup DOMAIN scan \subseteq Sources
    BY DEF IInv, Profiles
<1>4. \A s \in DOMAIN ewma : {ewma[s].last_update, ewma[s].window_start} \subseteq 0..clock
    BY DEF IInv, Profiles, EwmaProfiles
<1>5. \A s \in DOMAIN syn : syn[s].syn_only_count \in 0..syn[s].tcp_total_count
    BY DEF IInv, Profiles, SynProfiles
<1>6. \A s \in DOMAIN scan : scan[s].syn_only_count \in 0..scan[s].tcp_packet_count
    BY DEF IInv, Profiles, ScanProfiles
<1>7. \A w \in Windows(clock) : WindowOK(w)
    BY DEF Windows, WindowOK
<1>8. /\ \A x \in DOMAIN brute_force : x[1] \in Sources /\ WindowOK(brute_force[x])
      /\ \A s \in DOMAIN dns_txt : s \in Sources /\ WindowOK(dns_txt[s])
      /\ \A s \in DOMAIN exfil : s \in Sources /\ WindowOK(exfil[s])
    BY <1>7 DEF IInv, OwnWindows
<1>9. total_alerts_fired \in Nat /\ fired \subseteq raised
    BY FS_CardinalityType DEF IInv, Alerts
<1> QED
    BY <1>1, <1>2, <1>3, <1>4, <1>5, <1>6, <1>8, <1>9 DEF TypeOK

-----------------------------------------------------------------------------
(* Runs of packets *)

\* A run of packets, and what a detector looks at of it, is finite.
LEMMA RunsFinite ==
  ASSUME NEW src, NEW i \in Nat, NEW j \in Nat, NEW S, S \subseteq From(src, i, j)
  PROVE  IsFiniteSet(S) /\ Cardinality(S) \in Nat
<1>1. IsFiniteSet(i..j)
    BY FS_Interval
<1>2. S \subseteq i..j
    BY DEF From
<1> QED
    BY <1>1, <1>2, FS_Subset, FS_CardinalityType

\* A place more.
LEMMA OnePlaceMore ==
  ASSUME NEW S, IsFiniteSet(S), NEW x, x \notin S
  PROVE  Cardinality(S \cup {x}) = Cardinality(S) + 1
BY FS_AddElement

\* The log keeps what is in it, and the packet becomes its last entry.
LEMMA LogGrows ==
  ASSUME Clocks, Logged, packet # None, Done, NEW n, n = Len(log) + 1
  PROVE  /\ n \in Nat /\ n >= 1 /\ Len(log') = n /\ Len(log) = n - 1
         /\ log'[n].packet = packet /\ log'[n].at = now
         /\ \A k \in 1..(n - 1) : log'[k] = log[k]
         /\ now' = now /\ clock' = clock
<1>1. /\ now' = now /\ clock' = clock
      /\ Len(log) \in Nat /\ Len(log') = Len(log) + 1
      /\ log'[Len(log) + 1] = [packet |-> packet, at |-> now]
      /\ \A k \in 1..Len(log) : log'[k] = log[k]
    BY DoneFacts
<1> QED
    BY <1>1

\* A source's run goes on with the packet if it is the source's, and is otherwise
\* the same.
LEMMA RunGrows ==
  ASSUME NEW n \in Nat, n >= 1, NEW i \in 1..n, NEW src,
         \A k \in 1..(n - 1) : log'[k] = log[k]
  PROVE  /\ log'[n].packet.src = src => From(src, i, n)' = From(src, i, n - 1) \cup {n}
         /\ log'[n].packet.src # src => From(src, i, n)' = From(src, i, n - 1)
         /\ n \notin From(src, i, n - 1)
         /\ From(src, i, n - 1) \subseteq 1..(n - 1)
<1>1. i..n = (i..(n - 1)) \cup {n} /\ n \notin i..(n - 1) /\ i..(n - 1) \subseteq 1..(n - 1)
    OBVIOUS
<1> QED
    BY <1>1 DEF From

\* Runs that ended before are the same after a step.
LEMMA OldRuns ==
  ASSUME NEW n \in Nat, NEW i \in Nat, NEW j \in Nat, i >= 1, j <= n, NEW src,
         \A k \in 1..n : log'[k] = log[k]
  PROVE  /\ From(src, i, j)' = From(src, i, j)
         /\ \A k \in From(src, i, j) : log'[k] = log[k]
<1>1. i..j \subseteq 1..n
    OBVIOUS
<1> QED
    BY <1>1 DEF From

\* What the checks find is about what they look at.
LEMMA FoundBecause ==
  ASSUME NEW p, NEW type, NEW severity, <<type, severity>> \in findings(p)
  PROVE  /\ type = "VOLUME_ANOMALY" => severity \in volume_anomaly(ewma_profile(p), now)
         /\ type = "SYN_FLOOD" =>
              is_tcp(p) /\ severity \in syn_flood(syn_profile(p), p.kind, now)
         /\ type = "PORT_SCAN" =>
              p.port # 0 /\ severity \in port_scan(scan_profile(p), p.port, p.kind, now)
         /\ type = "BRUTE_FORCE" => brute_checked(p) /\ severity \in brute_found(p)
<1> DEFINE V == volume_anomaly(ewma_profile(p), now)
           S == When(is_tcp(p), syn_flood(syn_profile(p), p.kind, now))
           P == When(p.port # 0, port_scan(scan_profile(p), p.port, p.kind, now))
           B == When(brute_checked(p), brute_found(p))
           D == dns_found(p)
           E == When(p.payload > 0, exfil_found(p))
<1>1. findings(p) = ({"VOLUME_ANOMALY"} \X V) \cup ({"SYN_FLOOD"} \X S)
        \cup ({"PORT_SCAN"} \X P) \cup ({"BRUTE_FORCE"} \X B)
        \cup ({"DNS_TUNNELING"} \X D) \cup ({"DATA_EXFILTRATION"} \X E)
    BY DEF findings
<1> HIDE DEF V, S, P, B, D, E
<1>2. /\ type = "VOLUME_ANOMALY" => severity \in V
      /\ type = "SYN_FLOOD" => severity \in S
      /\ type = "PORT_SCAN" => severity \in P
      /\ type = "BRUTE_FORCE" => severity \in B
    BY <1>1
<1> QED
    BY <1>2 DEF V, S, P, B, When

\* A finding is an earlier one or one about the packet.
LEMMA NewFinding ==
  ASSUME IInv, Inspect, NEW a \in raised', a \notin raised
  PROVE  /\ a.src = packet.src /\ a.port = packet.port /\ a.at = now
         /\ a.place = Len(log) + 1 /\ <<a.type, a.severity>> \in findings(packet)
<1> DEFINE p == packet
           found == findings(p)
           alert(f) == [src |-> p.src, port |-> p.port, type |-> f[1],
                        severity |-> f[2], at |-> now, place |-> Len(log) + 1]
<1>1. PICK f \in found : a = alert(f)
    BY DEF Inspect, Fire
<1>2. f = <<f[1], f[2]>>
    BY <1>1 DEF findings
<1> QED
    BY <1>1, <1>2

-----------------------------------------------------------------------------
(* Brute force *)

\* Behind a window there is a run of packets to its port, at least as many as it
\* counts, the first of them no older than the window but for the stall.
BruteRuns ==
  \A x \in DOMAIN brute_force :
    /\ brute_force[x].start >= 0
    /\ \E i \in 1..Len(log) :
         /\ log[i].at >= brute_force[x].start - MaxStall
         /\ Cardinality(SentTo(From(x[1], i, Len(log)), x[2])) >= brute_force[x].count

\* The windows after a packet.
LEMMA BruteRunsStep ==
  ASSUME IInv, BruteRuns, Inspect \/ InspectIgnore
  PROVE  BruteRuns'
<1> PICK n : n = Len(log) + 1
    OBVIOUS
<1> PICK key : key = <<packet.src, packet.port>>
    OBVIOUS
<1> DEFINE p == packet
           Sent(x, i, j) == SentTo(From(x[1], i, j), x[2])
<1>1. /\ n \in Nat /\ n >= 1 /\ Len(log') = n /\ Len(log) = n - 1
      /\ log'[n].packet = p /\ log'[n].at = now
      /\ \A k \in 1..(n - 1) : log'[k] = log[k]
      /\ now' = now /\ clock' = clock
    BY LogGrows DEF IInv, Inspect, InspectIgnore
<1>2. /\ clock \in Nat /\ now \in Nat /\ now <= clock /\ clock - now <= MaxStall
      /\ MaxStall \in Nat
    BY ConstantTypes DEF IInv, Clocks, Inspect, InspectIgnore
<1>3. ASSUME NEW x, NEW i \in 1..n
      PROVE  /\ Sent(x, i, n - 1) \subseteq Sent(x, i, n)'
             /\ x = key => Sent(x, i, n)' = Sent(x, i, n - 1) \cup {n}
             /\ n \notin Sent(x, i, n - 1)
             /\ IsFiniteSet(Sent(x, i, n - 1)) /\ Cardinality(Sent(x, i, n - 1)) \in Nat
             /\ IsFiniteSet(Sent(x, i, n)')
    <2>1. /\ p.src = x[1] => From(x[1], i, n)' = From(x[1], i, n - 1) \cup {n}
          /\ p.src # x[1] => From(x[1], i, n)' = From(x[1], i, n - 1)
          /\ n \notin From(x[1], i, n - 1)
          /\ From(x[1], i, n - 1) \subseteq 1..(n - 1)
        BY <1>1, <1>3, RunGrows
    <2>2. /\ Sent(x, i, n - 1) \subseteq Sent(x, i, n)'
          /\ x = key => Sent(x, i, n)' = Sent(x, i, n - 1) \cup {n}
          /\ n \notin Sent(x, i, n - 1)
        BY <1>1, <2>1 DEF SentTo
    <2>3. Sent(x, i, n - 1) \subseteq From(x[1], i, n - 1)
        BY DEF SentTo
    <2>4. IsFiniteSet(Sent(x, i, n - 1)) /\ Cardinality(Sent(x, i, n - 1)) \in Nat
        <3>1. i \in Nat /\ n - 1 \in Nat
            BY <1>1
        <3> QED
            BY <2>3, <3>1, RunsFinite
    <2>5. IsFiniteSet(Sent(x, i, n)')
        <3>1. Sent(x, i, n)' \subseteq i..n /\ IsFiniteSet(i..n)
            BY <1>1, FS_Interval DEF SentTo, From
        <3> QED
            BY <3>1, FS_Subset
    <2> QED
        BY <2>2, <2>4, <2>5
<1> DEFINE Run(x, w, i) == /\ log'[i].at >= w.start - MaxStall
                           /\ Cardinality(Sent(x, i, n)') >= w.count
           Real(x, w) == w.start >= 0 /\ \E i \in 1..n : Run(x, w, i)
<1>4. ASSUME NEW x \in DOMAIN brute_force PROVE Real(x, brute_force[x])
    <2> DEFINE w == brute_force[x]
    <2>1. w.start >= 0 /\ w.count \in Nat
        BY DEF BruteRuns, IInv, OwnWindows, Windows
    <2>2. PICK i \in 1..(n - 1) : /\ log[i].at >= w.start - MaxStall
                                  /\ Cardinality(Sent(x, i, n - 1)) >= w.count
        BY <1>1 DEF BruteRuns
    <2>3. i \in 1..n
        BY <1>1
    <2>4. Cardinality(Sent(x, i, n - 1)) <= Cardinality(Sent(x, i, n)')
          /\ Cardinality(Sent(x, i, n)') \in Nat
        BY <1>3, <2>3, FS_Subset, FS_CardinalityType
    <2>5. Cardinality(Sent(x, i, n - 1)) \in Nat
        BY <1>3, <2>3
    <2> HIDE DEF w, Sent
    <2>6. Cardinality(Sent(x, i, n)') >= w.count
        BY <2>1, <2>2, <2>4, <2>5
    <2>7. log'[i].at >= w.start - MaxStall
        BY <1>1, <2>2
    <2> QED
        BY <2>1, <2>3, <2>6, <2>7 DEF w
<1>5. ASSUME Inspect, brute_checked(p) PROVE Real(key, counted(brute_window(p)))
    <2> DEFINE w == brute_window(p)
    <2>1. n \in 1..n
        BY <1>1
    <2>2. Cardinality(Sent(key, n, n)') >= 1
        <3> HIDE DEF Sent
        <3>1. n \in Sent(key, n, n)' /\ IsFiniteSet(Sent(key, n, n)')
            BY <1>3, <2>1
        <3>2. Cardinality({n}) = 1
            BY FS_Singleton
        <3>3. {n} \subseteq Sent(key, n, n)'
            BY <3>1
        <3>4. Cardinality({n}) <= Cardinality(Sent(key, n, n)')
              /\ Cardinality(Sent(key, n, n)') \in Nat
            BY <3>1, <3>3, FS_Subset, FS_CardinalityType
        <3> QED
            BY <3>2, <3>4
    <2>3. CASE over(w)
        <3>1. counted(w) = [start |-> now, count |-> 1]
            BY <2>3 DEF counted, Window
        <3>2. Run(key, counted(w), n) /\ counted(w).start >= 0
            BY <1>1, <1>2, <2>2, <3>1
        <3> QED
            BY <2>1, <3>2
    <2>4. CASE ~over(w) /\ key \notin DOMAIN brute_force
        <3>1. w = [start |-> clock, count |-> 0]
            BY <2>4 DEF brute_window, Lookup, Window
        <3>2. counted(w) = [start |-> clock, count |-> 1]
            BY <2>4, <3>1 DEF counted, Window
        <3>3. Run(key, counted(w), n) /\ counted(w).start >= 0
            BY <1>1, <1>2, <2>2, <3>2
        <3> QED
            BY <2>1, <3>3
    <2>5. CASE ~over(w) /\ key \in DOMAIN brute_force
        <3>1. w = brute_force[key] /\ counted(w) = [start |-> w.start, count |-> w.count + 1]
            BY <2>5 DEF brute_window, Lookup, counted, Window
        <3>2. w.start >= 0 /\ w.count \in Nat
            BY <2>5, <3>1 DEF BruteRuns, IInv, OwnWindows, Windows
        <3>3. PICK i \in 1..(n - 1) : /\ log[i].at >= w.start - MaxStall
                                      /\ Cardinality(Sent(key, i, n - 1)) >= w.count
            BY <1>1, <2>5, <3>1 DEF BruteRuns
        <3>4. i \in 1..n
            BY <1>1
        <3>5. Cardinality(Sent(key, i, n)') = Cardinality(Sent(key, i, n - 1)) + 1
            <4> HIDE DEF Sent
            <4>1. Sent(key, i, n)' = Sent(key, i, n - 1) \cup {n}
                BY <1>3, <3>4
            <4>2. n \notin Sent(key, i, n - 1) /\ IsFiniteSet(Sent(key, i, n - 1))
                BY <1>3, <3>4
            <4> QED
                BY <4>1, <4>2, OnePlaceMore
        <3>6. Cardinality(Sent(key, i, n - 1)) \in Nat
            BY <1>3, <3>4
        <3>7. log'[i].at = log[i].at
            BY <1>1
        <3> HIDE DEF Sent, w
        <3>8. Cardinality(Sent(key, i, n)') >= w.count + 1
            BY <3>2, <3>3, <3>5, <3>6
        <3>9. counted(w).start = w.start /\ counted(w).count = w.count + 1
            BY <3>1
        <3>10. Run(key, counted(w), i) /\ counted(w).start >= 0
            BY <3>2, <3>3, <3>7, <3>8, <3>9
        <3> QED
            BY <3>4, <3>10 DEF w
    <2> QED
        BY <2>3, <2>4, <2>5
<1>6. \/ brute_force' = brute_force
      \/ /\ Inspect /\ brute_checked(p)
         /\ brute_force' = Put(brute_force, key, counted(brute_window(p)))
    BY DEF Inspect, InspectIgnore, stateVars
<1>7. \A x \in DOMAIN brute_force' : Real(x, brute_force'[x])
    <2> HIDE DEF Real
    <2>1. CASE brute_force' = brute_force
        BY <1>4, <2>1
    <2>2. CASE brute_force' # brute_force
        BY <1>4, <1>5, <1>6, <2>2 DEF Put
    <2> QED
        BY <2>1, <2>2
<1> QED
    BY <1>1, <1>7 DEF BruteRuns

\* More packets in the same time reach a rate all the more.
LEMMA MoreReaches ==
  ASSUME NEW m \in Nat, NEW n \in Nat, NEW age \in Nat, NEW r \in Nat, n <= m,
         Reaches(n, age, r)
  PROVE  Reaches(m, age, r)
<1>1. Second \in Nat /\ n * Second \in Nat /\ m * Second \in Nat /\ r * age \in Nat
    BY ConstantTypes
<1>2. n * Second <= m * Second
    BY <1>1
<1> QED
    BY <1>1, <1>2 DEF Reaches

\* The findings after a packet.
LEMMA BruteRealStep ==
  ASSUME IInv, BruteRuns, BruteForceIsReal, Inspect \/ InspectIgnore
  PROVE  BruteForceIsReal'
<1> PICK n : n = Len(log) + 1
    OBVIOUS
<1> DEFINE p == packet
           Sent(src, port, i, j) == SentTo(From(src, i, j), port)
           Backed(a, i, t) ==
             /\ log[i].at >= t - MaxStall
             /\ Reaches(Cardinality(Sent(a.src, a.port, i, a.place - 1)), a.at - t,
                        Times(a, "CRITICAL", 3) * BruteRate)
<1>1. /\ n \in Nat /\ n >= 1 /\ Len(log) = n - 1
      /\ \A k \in 1..(n - 1) : log'[k] = log[k]
    BY LogGrows DEF IInv, Inspect, InspectIgnore
<1>2. ASSUME NEW a, a.place \in 1..n, NEW i \in 1..(a.place - 1), NEW t, Backed(a, i, t)
      PROVE  Backed(a, i, t)'
    <2>1. i \in 1..(n - 1) /\ i \in Nat /\ i >= 1 /\ a.place - 1 \in Nat /\ a.place - 1 <= n - 1
          /\ n - 1 \in Nat
        BY <1>1, <1>2
    <2>2. /\ From(a.src, i, a.place - 1)' = From(a.src, i, a.place - 1)
          /\ \A k \in From(a.src, i, a.place - 1) : log'[k] = log[k]
        BY <1>1, <2>1, OldRuns
    <2>3. Sent(a.src, a.port, i, a.place - 1)' = Sent(a.src, a.port, i, a.place - 1)
        BY <2>2 DEF SentTo
    <2>4. log'[i] = log[i]
        BY <1>1, <2>1
    <2> HIDE DEF Sent
    <2> QED
        BY <1>2, <2>3, <2>4 DEF Times
<1>3. ASSUME NEW a \in raised, a.type = "BRUTE_FORCE"
      PROVE  \E i \in 1..(a.place - 1), t \in 0..(a.at - Second) : Backed(a, i, t)'
    <2>1. a.place \in 1..n
        BY <1>1 DEF IInv, Alerts
    <2>2. PICK i \in 1..(a.place - 1), t \in 0..(a.at - Second) : Backed(a, i, t)
        BY <1>3 DEF BruteForceIsReal, Raised
    <2> HIDE DEF Backed
    <2> QED
        BY <1>2, <2>1, <2>2
<1>4. ASSUME NEW a \in raised', a \notin raised, a.type = "BRUTE_FORCE"
      PROVE  \E i \in 1..(a.place - 1), t \in 0..(a.at - Second) : Backed(a, i, t)'
    <2>1. Inspect
        BY <1>4 DEF InspectIgnore
    <2>2. /\ a.src = p.src /\ a.port = p.port /\ a.at = now /\ a.place = n
          /\ <<a.type, a.severity>> \in findings(p)
        BY <1>4, <2>1, NewFinding
    <2>3. a.severity \in brute_found(p)
        BY <1>4, <2>2, FoundBecause
    <2> DEFINE w == brute_window(p)
               key == <<p.src, p.port>>
               age == now - w.start
    <2>4. /\ over(w) /\ Reaches(w.count, age, BruteRate)
          /\ a.severity = "CRITICAL" => Reaches(w.count, age, 3 * BruteRate)
        BY <2>3 DEF brute_found, rate_reached
    <2>5. clock \in Nat /\ now \in Nat /\ now <= clock /\ Second \in Nat /\ Second > 0
          /\ BruteRate \in Nat
        BY ConstantTypes DEF IInv, Clocks
    <2>6. key \in DOMAIN brute_force
        <3>1. key \notin DOMAIN brute_force => w = [start |-> clock, count |-> 0]
            BY DEF brute_window, Lookup, Window
        <3> QED
            BY <2>4, <2>5, <3>1 DEF over
    <2>7. w = brute_force[key]
        BY <2>6 DEF brute_window, Lookup
    <2>8. w.start \in Int /\ w.start >= 0 /\ w.count \in Nat
        BY <2>6, <2>7, ConstantTypes DEF BruteRuns, IInv, OwnWindows, Windows
    <2>9. PICK i \in 1..(n - 1) :
            /\ log[i].at >= w.start - MaxStall
            /\ Cardinality(SentTo(From(p.src, i, n - 1), p.port)) >= w.count
        BY <1>1, <2>6, <2>7 DEF BruteRuns
    <2> DEFINE c == Cardinality(SentTo(From(p.src, i, n - 1), p.port))
    <2>10. c \in Nat
        <3>1. SentTo(From(p.src, i, n - 1), p.port) \subseteq From(p.src, i, n - 1)
            BY DEF SentTo
        <3>2. i \in Nat /\ n - 1 \in Nat
            BY <1>1
        <3> QED
            BY <3>1, <3>2, RunsFinite
    <2>11. age \in Nat /\ w.start \in 0..(now - Second)
        BY <2>4, <2>5, <2>8 DEF over
    <2>12. Times(a, "CRITICAL", 3) * BruteRate \in Nat
           /\ Reaches(w.count, age, Times(a, "CRITICAL", 3) * BruteRate)
        BY <2>4, <2>5 DEF Times
    <2> HIDE DEF w, age, c
    <2>13. Reaches(c, age, Times(a, "CRITICAL", 3) * BruteRate)
        BY <2>8, <2>9, <2>10, <2>11, <2>12, MoreReaches DEF c
    <2> PICK t : t = w.start
        OBVIOUS
    <2>14. Backed(a, i, t)
        BY <2>2, <2>9, <2>13 DEF age, c
    <2>15. t \in 0..(a.at - Second) /\ i \in 1..(a.place - 1) /\ a.place \in 1..n
        BY <1>1, <2>2, <2>11
    <2> HIDE DEF Backed
    <2> QED
        BY <1>2, <2>14, <2>15
<1> QED
    BY <1>3, <1>4 DEF BruteForceIsReal, Raised

-----------------------------------------------------------------------------
(* SYN flood *)

\* A profile counts the TCP packets of a run that begins with its window; the run is
\* empty when the window was just closed.
SynRuns ==
  \A s \in DOMAIN syn :
    \E i \in 1..(Len(log) + 1) :
      /\ i <= Len(log) => log[i].at >= syn[s].window_start - MaxStall
      /\ i = Len(log) + 1 => now >= syn[s].window_start
      /\ Cardinality(Tcp(From(s, i, Len(log)))) = syn[s].tcp_total_count
      /\ Cardinality(SynAt(Tcp(From(s, i, Len(log))))) = syn[s].syn_only_count

\* What a packet adds to the TCP packets and to the SYNs of a source.
LEMMA TcpRunGrows ==
  ASSUME NEW n \in Nat, n >= 1, NEW i \in 1..n, NEW src, NEW p, log'[n].packet = p,
         \A k \in 1..(n - 1) : log'[k] = log[k]
  PROVE  LET old == Tcp(From(src, i, n - 1))
             new == Tcp(From(src, i, n))'
             oldSyn == SynAt(Tcp(From(src, i, n - 1)))
             newSyn == SynAt(Tcp(From(src, i, n)))'
         IN /\ p.src = src /\ is_tcp(p) => Cardinality(new) = Cardinality(old) + 1
            /\ ~(p.src = src /\ is_tcp(p)) => new = old /\ newSyn = oldSyn
            /\ p.src = src /\ is_tcp(p) /\ syn_only(p.kind) =>
                 Cardinality(newSyn) = Cardinality(oldSyn) + 1
            /\ ~syn_only(p.kind) => newSyn = oldSyn
<1> DEFINE F == From(src, i, n - 1)
           old == Tcp(F)
           oldSyn == SynAt(Tcp(F))
           new == Tcp(From(src, i, n))'
           newSyn == SynAt(Tcp(From(src, i, n)))'
<1>1. /\ p.src = src => From(src, i, n)' = F \cup {n}
      /\ p.src # src => From(src, i, n)' = F
      /\ n \notin F /\ F \subseteq 1..(n - 1)
    BY RunGrows
<1> HIDE DEF F
<1>2. /\ n \notin old /\ n \notin oldSyn
      /\ p.src = src /\ is_tcp(p) => new = old \cup {n}
      /\ ~(p.src = src /\ is_tcp(p)) => new = old
    BY <1>1 DEF Tcp, SynAt, is_tcp
<1>3. /\ p.src = src /\ is_tcp(p) /\ syn_only(p.kind) => newSyn = oldSyn \cup {n}
      /\ ~(p.src = src /\ is_tcp(p)) => newSyn = oldSyn
      /\ ~syn_only(p.kind) => newSyn = oldSyn
    BY <1>1 DEF Tcp, SynAt, is_tcp, syn_only
<1>4. IsFiniteSet(old) /\ IsFiniteSet(oldSyn)
    <2>1. old \subseteq F /\ oldSyn \subseteq F
        BY DEF Tcp, SynAt
    <2>2. i \in Nat /\ n - 1 \in Nat
        OBVIOUS
    <2> QED
        BY <2>1, <2>2, RunsFinite DEF F
<1> HIDE DEF old, oldSyn, new, newSyn
<1>5. p.src = src /\ is_tcp(p) => Cardinality(new) = Cardinality(old) + 1
    BY <1>2, <1>4, OnePlaceMore
<1>6. p.src = src /\ is_tcp(p) /\ syn_only(p.kind) =>
        Cardinality(newSyn) = Cardinality(oldSyn) + 1
    BY <1>2, <1>3, <1>4, OnePlaceMore
<1> QED
    BY <1>2, <1>3, <1>5, <1>6 DEF F, old, oldSyn, new, newSyn

\* The counts that inspect() looks at are those of a run up to the packet.
LEMMA SynWindowIsReal ==
  ASSUME IInv, SynRuns, Inspect, is_tcp(packet), NEW n, n = Len(log) + 1, NEW q,
         q = classified(syn_profile(packet), packet.kind), NEW src, src = packet.src
  PROVE  /\ q \in SynProfiles(clock)
         /\ \E i \in 1..n :
              /\ log'[i].at >= q.window_start - MaxStall
              /\ Cardinality(Tcp(From(src, i, n))') = q.tcp_total_count
              /\ Cardinality(SynAt(Tcp(From(src, i, n)))') = q.syn_only_count
<1> DEFINE p == packet
           r == syn_profile(p)
           syns == IF syn_only(p.kind) THEN r.syn_only_count + 1 ELSE r.syn_only_count
<1>1. /\ n \in Nat /\ n >= 1 /\ Len(log') = n /\ Len(log) = n - 1
      /\ log'[n].packet = p /\ log'[n].at = now
      /\ \A k \in 1..(n - 1) : log'[k] = log[k]
    BY LogGrows DEF IInv, Inspect
<1>2. /\ clock \in Nat /\ now \in Nat /\ now <= clock /\ clock - now <= MaxStall
      /\ MaxStall \in Nat
    BY ConstantTypes DEF IInv, Clocks, Inspect
<1>3. r \in SynProfiles(clock)
    <2>1. SynProfile(clock) \in SynProfiles(clock)
        BY <1>2 DEF SynProfile, SynProfiles
    <2> QED
        BY <2>1, LookupType DEF syn_profile, IInv, Profiles
<1>4. /\ r.syn_only_count \in Nat /\ r.tcp_total_count \in Nat /\ r.window_start \in Nat
      /\ r.syn_only_count <= r.tcp_total_count
    BY <1>2, <1>3 DEF SynProfiles
<1>5. q.window_start = r.window_start /\ q.tcp_total_count = r.tcp_total_count + 1
      /\ q.syn_only_count = syns
    BY <1>3 DEF classified, SynProfiles
<1>6. q \in SynProfiles(clock)
    <2> DEFINE all == r.tcp_total_count + 1
               Shape == [syn_only_count : Nat, tcp_total_count : Nat, window_start : 0..clock]
    <2>1. syns \in Nat /\ all \in Nat /\ syns <= all
        BY <1>4
    <2>2. q = [r EXCEPT !.tcp_total_count = all, !.syn_only_count = syns] /\ r \in Shape
        BY <1>3 DEF classified, SynProfiles
    <2> HIDE DEF r, syns, all
    <2>3. q \in Shape /\ q.syn_only_count = syns /\ q.tcp_total_count = all
        BY <2>1, <2>2
    <2> QED
        BY <2>1, <2>3 DEF SynProfiles
<1>7. \E i \in 1..n : /\ log'[i].at >= r.window_start - MaxStall
                      /\ Cardinality(Tcp(From(src, i, n - 1))) = r.tcp_total_count
                      /\ Cardinality(SynAt(Tcp(From(src, i, n - 1)))) = r.syn_only_count
    <2>1. CASE src \in DOMAIN syn
        <3>1. r = syn[src]
            BY <2>1 DEF syn_profile, Lookup
        <3>2. PICK i \in 1..n :
                /\ i <= n - 1 => log[i].at >= r.window_start - MaxStall
                /\ i = n => now >= r.window_start
                /\ Cardinality(Tcp(From(src, i, n - 1))) = r.tcp_total_count
                /\ Cardinality(SynAt(Tcp(From(src, i, n - 1)))) = r.syn_only_count
            BY <1>1, <2>1, <3>1 DEF SynRuns
        <3>3. log'[i].at >= r.window_start - MaxStall
            <4> HIDE DEF r
            <4>1. CASE i = n
                BY <1>1, <1>2, <1>4, <3>2, <4>1
            <4>2. CASE i <= n - 1
                BY <1>1, <3>2, <4>2
            <4> QED
                BY <1>1, <4>1, <4>2
        <3> QED
            BY <3>2, <3>3
    <2>2. CASE src \notin DOMAIN syn
        <3>1. r.window_start = clock /\ r.tcp_total_count = 0 /\ r.syn_only_count = 0
            BY <2>2 DEF syn_profile, Lookup, SynProfile
        <3>2. n..(n - 1) = {}
            BY <1>1
        <3>3. Tcp(From(src, n, n - 1)) = {} /\ SynAt(Tcp(From(src, n, n - 1))) = {}
            BY <3>2 DEF From, Tcp, SynAt
        <3>4. Cardinality(Tcp(From(src, n, n - 1))) = 0
              /\ Cardinality(SynAt(Tcp(From(src, n, n - 1)))) = 0
            BY <3>3, FS_EmptySet
        <3>5. n \in 1..n /\ log'[n].at >= clock - MaxStall
            BY <1>1, <1>2
        <3> QED
            BY <3>1, <3>4, <3>5
    <2> QED
        BY <2>1, <2>2
<1>8. PICK i \in 1..n : /\ log'[i].at >= r.window_start - MaxStall
                        /\ Cardinality(Tcp(From(src, i, n - 1))) = r.tcp_total_count
                        /\ Cardinality(SynAt(Tcp(From(src, i, n - 1)))) = r.syn_only_count
    BY <1>7
<1> DEFINE old == Tcp(From(src, i, n - 1))
           new == Tcp(From(src, i, n))'
           oldSyn == SynAt(Tcp(From(src, i, n - 1)))
           newSyn == SynAt(Tcp(From(src, i, n)))'
<1>9. PICK pkt : pkt = packet
    OBVIOUS
<1>10. /\ Cardinality(new) = Cardinality(old) + 1
       /\ syn_only(p.kind) => Cardinality(newSyn) = Cardinality(oldSyn) + 1
       /\ ~syn_only(p.kind) => newSyn = oldSyn
    BY <1>1, <1>9, TcpRunGrows
<1> HIDE DEF r, old, new, oldSyn, newSyn
<1>11. Cardinality(new) = q.tcp_total_count /\ Cardinality(newSyn) = q.syn_only_count
       /\ log'[i].at >= q.window_start - MaxStall
    BY <1>5, <1>8, <1>10 DEF old, oldSyn
<1> QED
    BY <1>6, <1>11 DEF new, newSyn

\* The profiles after a packet.
LEMMA SynRunsStep ==
  ASSUME IInv, SynRuns, Inspect \/ InspectIgnore
  PROVE  SynRuns'
<1> PICK n : n = Len(log) + 1
    OBVIOUS
<1> PICK p : p = packet
    OBVIOUS
<1>1. /\ n \in Nat /\ n >= 1 /\ Len(log') = n /\ Len(log) = n - 1
      /\ log'[n].packet = p /\ log'[n].at = now
      /\ \A k \in 1..(n - 1) : log'[k] = log[k]
      /\ now' = now /\ clock' = clock
    BY LogGrows DEF IInv, Inspect, InspectIgnore
<1>2. now \in Nat /\ MaxStall \in Nat
    BY ConstantTypes DEF IInv, Clocks
<1> DEFINE Counts(s, r, i) ==
             /\ Cardinality(Tcp(From(s, i, n))') = r.tcp_total_count
             /\ Cardinality(SynAt(Tcp(From(s, i, n)))') = r.syn_only_count
           Run(s, r, i) ==
             /\ i <= n => log'[i].at >= r.window_start - MaxStall
             /\ i = n + 1 => now >= r.window_start
             /\ Counts(s, r, i)
           Real(s, r) == \E i \in 1..(n + 1) : Run(s, r, i)
<1>3. ASSUME NEW s \in DOMAIN syn, ~(s = p.src /\ is_tcp(p)) PROVE Real(s, syn[s])
    <2> DEFINE r == syn[s]
    <2>1. r.window_start \in Nat
        BY DEF IInv, Profiles, SynProfiles, Clocks
    <2>2. PICK i \in 1..n :
            /\ i <= n - 1 => log[i].at >= r.window_start - MaxStall
            /\ i = n => now >= r.window_start
            /\ Cardinality(Tcp(From(s, i, n - 1))) = r.tcp_total_count
            /\ Cardinality(SynAt(Tcp(From(s, i, n - 1)))) = r.syn_only_count
        BY <1>1 DEF SynRuns
    <2>3. /\ Tcp(From(s, i, n))' = Tcp(From(s, i, n - 1))
          /\ SynAt(Tcp(From(s, i, n)))' = SynAt(Tcp(From(s, i, n - 1)))
        BY <1>1, <1>3, TcpRunGrows
    <2> HIDE DEF r
    <2>4. Counts(s, r, i)
        BY <2>2, <2>3
    <2>5. log'[i].at >= r.window_start - MaxStall
        <3>1. CASE i = n
            BY <1>1, <1>2, <2>1, <2>2, <3>1
        <3>2. CASE i <= n - 1
            BY <1>1, <2>2, <3>2
        <3> QED
            BY <1>1, <3>1, <3>2
    <2>6. i \in 1..(n + 1) /\ i # n + 1
        BY <1>1
    <2> HIDE DEF Counts
    <2> QED
        BY <2>4, <2>5, <2>6 DEF r
<1>4. ASSUME Inspect, is_tcp(p)
      PROVE  Real(p.src, syn_inspected(syn_profile(p), p.kind, now))
    <2> PICK q : q = classified(syn_profile(p), p.kind)
        OBVIOUS
    <2>1. PICK i \in 1..n : log'[i].at >= q.window_start - MaxStall /\ Counts(p.src, q, i)
        BY <1>4, SynWindowIsReal
    <2>2. CASE ~syn_over(q, now)
        <3>1. syn_inspected(syn_profile(p), p.kind, now) = q
            BY <2>2 DEF syn_inspected
        <3>2. i \in 1..(n + 1) /\ i # n + 1
            BY <1>1
        <3> HIDE DEF Counts
        <3> QED
            BY <2>1, <3>1, <3>2
    <2>3. CASE syn_over(q, now)
        <3> DEFINE u == syn_inspected(syn_profile(p), p.kind, now)
        <3>1. u.window_start = now /\ u.tcp_total_count = 0 /\ u.syn_only_count = 0
            BY <2>3 DEF syn_inspected, SynProfile
        <3>2. (n + 1)..n = {} /\ n + 1 \in 1..(n + 1) /\ ~(n + 1 <= n)
            BY <1>1
        <3>3. Tcp(From(p.src, n + 1, n))' = {} /\ SynAt(Tcp(From(p.src, n + 1, n)))' = {}
            BY <3>2 DEF From, Tcp, SynAt
        <3>4. Counts(p.src, u, n + 1)
            BY <3>1, <3>3, FS_EmptySet
        <3>5. now >= u.window_start
            BY <1>2, <3>1
        <3> HIDE DEF Counts, u
        <3> QED
            BY <3>2, <3>4, <3>5 DEF u
    <2> QED
        BY <2>2, <2>3
<1>5. \/ Inspect /\ is_tcp(p)
         /\ syn' = Put(syn, p.src, syn_inspected(syn_profile(p), p.kind, now))
      \/ ~(p.src \in DOMAIN syn /\ is_tcp(p)) /\ syn' = syn
    <2>1. CASE Inspect
        BY <2>1 DEF Inspect
    <2>2. CASE InspectIgnore
        <3>1. p.src \notin DOMAIN syn /\ syn' = syn
            BY <2>2 DEF InspectIgnore, stateVars, IInv, Profiles, Sources
        <3> QED
            BY <3>1
    <2> QED
        BY <2>1, <2>2
<1>6. \A s \in DOMAIN syn' : Real(s, syn'[s])
    <2> HIDE DEF Real
    <2>1. CASE Inspect /\ is_tcp(p)
               /\ syn' = Put(syn, p.src, syn_inspected(syn_profile(p), p.kind, now))
        BY <1>3, <1>4, <2>1 DEF Put
    <2>2. CASE ~(p.src \in DOMAIN syn /\ is_tcp(p)) /\ syn' = syn
        BY <1>3, <2>2
    <2> QED
        BY <1>5, <2>1, <2>2
<1> QED
    BY <1>1, <1>6 DEF SynRuns

\* The findings after a packet.
LEMMA FloodRealStep ==
  ASSUME IInv, SynRuns, FloodIsReal, Inspect \/ InspectIgnore
  PROVE  FloodIsReal'
<1> PICK n : n = Len(log) + 1
    OBVIOUS
<1> PICK p : p = packet
    OBVIOUS
<1> DEFINE Syns(a, i) == Cardinality(SynAt(Tcp(From(a.src, i, a.place))))
           All(a, i) == Cardinality(Tcp(From(a.src, i, a.place)))
           Backed(a, i, t) ==
             /\ log[i].at >= t - MaxStall
             /\ Reaches(Syns(a, i), a.at - t, Times(a, "CRITICAL", 5) * SynRate)
             /\ Syns(a, i) * SynRatioDen >= SynRatioNum * All(a, i)
<1>1. /\ n \in Nat /\ n >= 1 /\ Len(log') = n /\ Len(log) = n - 1
      /\ log'[n].packet = p /\ log'[n].at = now
      /\ \A k \in 1..(n - 1) : log'[k] = log[k]
    BY LogGrows DEF IInv, Inspect, InspectIgnore
<1>2. ASSUME NEW a \in raised, a.type = "SYN_FLOOD"
      PROVE  \E i \in 1..a.place, t \in 0..(a.at - SynWindow) : Backed(a, i, t)'
    <2>1. a.place \in 1..(n - 1)
        BY <1>1 DEF IInv, Alerts
    <2>2. PICK i \in 1..a.place, t \in 0..(a.at - SynWindow) : Backed(a, i, t)
        BY <1>2 DEF FloodIsReal, Raised
    <2>3. i \in 1..(n - 1) /\ i \in Nat /\ i >= 1 /\ a.place \in Nat /\ a.place <= n - 1
          /\ n - 1 \in Nat
        BY <1>1, <2>1
    <2>4. /\ From(a.src, i, a.place)' = From(a.src, i, a.place)
          /\ \A k \in From(a.src, i, a.place) : log'[k] = log[k]
        BY <1>1, <2>3, OldRuns
    <2>5. Syns(a, i)' = Syns(a, i) /\ All(a, i)' = All(a, i)
        <3>1. Tcp(From(a.src, i, a.place))' = Tcp(From(a.src, i, a.place))
            BY <2>4 DEF Tcp
        <3>2. SynAt(Tcp(From(a.src, i, a.place)))' = SynAt(Tcp(From(a.src, i, a.place)))
            BY <2>4 DEF Tcp, SynAt
        <3> QED
            BY <3>1, <3>2
    <2>6. log'[i] = log[i]
        BY <1>1, <2>3
    <2> HIDE DEF Syns, All
    <2>7. Backed(a, i, t)'
        BY <2>2, <2>5, <2>6 DEF Times
    <2> HIDE DEF Backed
    <2> QED
        BY <2>7
<1>3. ASSUME NEW a \in raised', a \notin raised, a.type = "SYN_FLOOD"
      PROVE  \E i \in 1..a.place, t \in 0..(a.at - SynWindow) : Backed(a, i, t)'
    <2>1. Inspect
        BY <1>3 DEF InspectIgnore
    <2>2. /\ a.src = p.src /\ a.at = now /\ a.place = n
          /\ <<a.type, a.severity>> \in findings(p)
        BY <1>3, <2>1, NewFinding
    <2>3. is_tcp(p) /\ a.severity \in syn_flood(syn_profile(p), p.kind, now)
        BY <1>3, <2>2, FoundBecause
    <2> PICK q : q = classified(syn_profile(p), p.kind)
        OBVIOUS
    <2>4. /\ syn_over(q, now) /\ Reaches(q.syn_only_count, now - q.window_start, SynRate)
          /\ q.syn_only_count * SynRatioDen >= SynRatioNum * q.tcp_total_count
          /\ a.severity = "CRITICAL" =>
               Reaches(q.syn_only_count, now - q.window_start, 5 * SynRate)
        BY <2>3 DEF syn_flood, syn_age
    <2>5. /\ q \in SynProfiles(clock)
          /\ \E i \in 1..n :
               /\ log'[i].at >= q.window_start - MaxStall
               /\ Cardinality(Tcp(From(p.src, i, n))') = q.tcp_total_count
               /\ Cardinality(SynAt(Tcp(From(p.src, i, n)))') = q.syn_only_count
        BY <2>1, <2>3, SynWindowIsReal
    <2>6. PICK i \in 1..n :
            /\ log'[i].at >= q.window_start - MaxStall
            /\ Cardinality(Tcp(From(p.src, i, n))') = q.tcp_total_count
            /\ Cardinality(SynAt(Tcp(From(p.src, i, n)))') = q.syn_only_count
        BY <2>5
    <2>7. All(a, i)' = q.tcp_total_count /\ Syns(a, i)' = q.syn_only_count
        BY <2>2, <2>6
    <2>8. q.window_start \in Nat /\ SynWindow \in Nat /\ now \in Nat
        BY <2>5, SynAssumption DEF SynProfiles, IInv, Clocks
    <2>9. q.window_start \in 0..(a.at - SynWindow)
        BY <2>2, <2>4, <2>8 DEF syn_over
    <2>10. Reaches(q.syn_only_count, now - q.window_start, Times(a, "CRITICAL", 5) * SynRate)
        <3>1. SynRate \in Nat
            BY SynAssumption
        <3> QED
            BY <2>4, <3>1 DEF Times
    <2> HIDE DEF All, Syns
    <2> PICK t : t = q.window_start
        OBVIOUS
    <2>11. Backed(a, i, t)'
        BY <2>2, <2>4, <2>6, <2>7, <2>10 DEF Times
    <2> HIDE DEF Backed
    <2> QED
        BY <2>2, <2>9, <2>11
<1> QED
    BY <1>2, <1>3 DEF FloodIsReal, Raised

-----------------------------------------------------------------------------
(* Port scan *)

\* A profile holds the ports and the counts of a run of the source's packets, the
\* first of them no older than the window but for the stall.
ScanRuns ==
  \A s \in DOMAIN scan :
    \E i \in From(s, 1, Len(log)) :
      /\ log[i].at >= scan[s].window_start - MaxStall
      /\ PortsAt(WithPort(From(s, i, Len(log)))) = scan[s].dst_ports
      /\ Cardinality(WithPort(From(s, i, Len(log)))) = scan[s].tcp_packet_count
      /\ Cardinality(SynAt(WithPort(From(s, i, Len(log))))) = scan[s].syn_only_count

\* What a packet adds to the ports and the counts of a source.
LEMMA PortRunGrows ==
  ASSUME NEW n \in Nat, n >= 1, NEW i \in 1..n, NEW src, NEW p, log'[n].packet = p,
         \A k \in 1..(n - 1) : log'[k] = log[k]
  PROVE  LET old == WithPort(From(src, i, n - 1))
             new == WithPort(From(src, i, n))'
             ports == PortsAt(WithPort(From(src, i, n - 1)))
             newPorts == PortsAt(WithPort(From(src, i, n)))'
             oldSyn == SynAt(WithPort(From(src, i, n - 1)))
             newSyn == SynAt(WithPort(From(src, i, n)))'
         IN /\ p.src = src /\ p.port # 0 => Cardinality(new) = Cardinality(old) + 1
            /\ p.src = src /\ p.port # 0 => newPorts = ports \cup {p.port}
            /\ ~(p.src = src /\ p.port # 0) =>
                 new = old /\ newSyn = oldSyn /\ newPorts = ports
            /\ p.src = src /\ p.port # 0 /\ p.kind = "syn" =>
                 Cardinality(newSyn) = Cardinality(oldSyn) + 1
            /\ p.kind # "syn" => newSyn = oldSyn
<1> DEFINE F == From(src, i, n - 1)
           old == WithPort(F)
           ports == PortsAt(WithPort(F))
           oldSyn == SynAt(WithPort(F))
           new == WithPort(From(src, i, n))'
           newPorts == PortsAt(WithPort(From(src, i, n)))'
           newSyn == SynAt(WithPort(From(src, i, n)))'
<1>1. /\ p.src = src => From(src, i, n)' = F \cup {n}
      /\ p.src # src => From(src, i, n)' = F
      /\ n \notin F /\ F \subseteq 1..(n - 1)
    BY RunGrows
<1> HIDE DEF F
<1>2. /\ n \notin old /\ n \notin oldSyn
      /\ p.src = src /\ p.port # 0 => new = old \cup {n}
      /\ ~(p.src = src /\ p.port # 0) => new = old
    BY <1>1 DEF WithPort, SynAt
<1>3. /\ p.src = src /\ p.port # 0 /\ p.kind = "syn" => newSyn = oldSyn \cup {n}
      /\ ~(p.src = src /\ p.port # 0) => newSyn = oldSyn
      /\ p.kind # "syn" => newSyn = oldSyn
    BY <1>1 DEF WithPort, SynAt
<1>4. \A k \in old : log'[k] = log[k]
    BY <1>1 DEF WithPort
<1>5. newPorts = {log'[k].packet.port : k \in new}
    BY DEF PortsAt
<1>6. ports = {log[k].packet.port : k \in old}
    BY DEF PortsAt
<1>7. IsFiniteSet(old) /\ IsFiniteSet(oldSyn)
    <2>1. old \subseteq F /\ oldSyn \subseteq F
        BY DEF WithPort, SynAt
    <2>2. i \in Nat /\ n - 1 \in Nat
        OBVIOUS
    <2> QED
        BY <2>1, <2>2, RunsFinite DEF F
<1> HIDE DEF old, oldSyn, new, newSyn, ports, newPorts
<1>8. p.src = src /\ p.port # 0 => newPorts = ports \cup {p.port}
    BY <1>2, <1>4, <1>5, <1>6
<1>9. ~(p.src = src /\ p.port # 0) => newPorts = ports
    BY <1>2, <1>4, <1>5, <1>6
<1>10. p.src = src /\ p.port # 0 => Cardinality(new) = Cardinality(old) + 1
    BY <1>2, <1>7, OnePlaceMore
<1>11. p.src = src /\ p.port # 0 /\ p.kind = "syn" =>
         Cardinality(newSyn) = Cardinality(oldSyn) + 1
    BY <1>2, <1>3, <1>7, OnePlaceMore
<1> QED
    BY <1>2, <1>3, <1>8, <1>9, <1>10, <1>11
    DEF F, old, oldSyn, new, newSyn, ports, newPorts

\* The profile that inspect() judges is that of a run up to the packet.
LEMMA ScanWindowIsReal ==
  ASSUME IInv, ScanRuns, Inspect, packet.port # 0, NEW n, n = Len(log) + 1, NEW p, p = packet,
         NEW q, q = scan_inspected(scan_profile(p), p.port, p.kind, now)
  PROVE  /\ q \in ScanProfiles(clock) /\ now - q.window_start < ScanWindow
         /\ \E i \in 1..n :
              /\ log'[i].packet.src = p.src /\ log'[i].at >= q.window_start - MaxStall
              /\ PortsAt(WithPort(From(p.src, i, n)))' = q.dst_ports
              /\ Cardinality(WithPort(From(p.src, i, n))') = q.tcp_packet_count
              /\ Cardinality(SynAt(WithPort(From(p.src, i, n)))') = q.syn_only_count
<1> DEFINE r == scan_profile(p)
           b == rolled(r, now)
           syns == IF p.kind = "syn" THEN b.syn_only_count + 1 ELSE b.syn_only_count
<1>1. /\ n \in Nat /\ n >= 1 /\ Len(log') = n /\ Len(log) = n - 1
      /\ log'[n].packet = p /\ log'[n].at = now
      /\ \A k \in 1..(n - 1) : log'[k] = log[k]
    BY LogGrows DEF IInv, Inspect
<1>2. /\ clock \in Nat /\ now \in Nat /\ now <= clock /\ clock - now <= MaxStall
      /\ MaxStall \in Nat /\ ScanWindow \in Nat /\ ScanWindow > 0 /\ p.port \in Nat
    <2>1. p.port \in Nat
        BY SourceFacts DEF IInv, Inspect
    <2> QED
        BY <2>1, ConstantTypes, ScanAssumption DEF IInv, Clocks, Inspect
<1>3. r \in ScanProfiles(clock)
    <2>1. ScanProfile(clock) \in ScanProfiles(clock)
        BY <1>2 DEF ScanProfile, ScanProfiles
    <2> QED
        BY <2>1, LookupType DEF scan_profile, IInv, Profiles
<1>4. q \in ScanProfiles(clock)
    BY <1>2, <1>3, ScanType
<1>5. b \in ScanProfiles(clock)
    <2>1. ScanProfile(now) \in ScanProfiles(clock)
        BY <1>2 DEF ScanProfile, ScanProfiles
    <2> QED
        BY <1>3, <2>1 DEF rolled
<1>6. /\ q.window_start = b.window_start /\ q.tcp_packet_count = b.tcp_packet_count + 1
      /\ q.syn_only_count = syns /\ q.dst_ports = b.dst_ports \cup {p.port}
    <2> DEFINE ports == b.dst_ports \cup {p.port}
               all == b.tcp_packet_count + 1
               Shape == [dst_ports : SUBSET Nat, tcp_packet_count : Nat, syn_only_count : Nat,
                         window_start : 0..clock]
    <2>1. b \in Shape
        BY <1>5 DEF ScanProfiles
    <2>2. q = [b EXCEPT !.dst_ports = ports, !.tcp_packet_count = all, !.syn_only_count = syns]
        BY DEF scan_inspected
    <2> HIDE DEF b, syns, ports, all
    <2>3. q.window_start = b.window_start /\ q.tcp_packet_count = all
          /\ q.syn_only_count = syns /\ q.dst_ports = ports
        BY <2>1, <2>2
    <2> QED
        BY <2>3 DEF all, ports
<1>7. b.window_start \in Nat /\ now - b.window_start < ScanWindow
    <2>1. r.window_start \in Nat
        BY <1>2, <1>3 DEF ScanProfiles
    <2>2. CASE now - r.window_start >= ScanWindow
        <3>1. b.window_start = now
            BY <2>2 DEF rolled, ScanProfile
        <3> QED
            BY <1>2, <3>1
    <2>3. CASE ~(now - r.window_start >= ScanWindow)
        <3>1. b.window_start = r.window_start
            BY <2>3 DEF rolled
        <3> QED
            BY <1>2, <2>1, <2>3, <3>1
    <2> QED
        BY <2>2, <2>3
<1> DEFINE Base(i) ==
             /\ log'[i].packet.src = p.src /\ log'[i].at >= b.window_start - MaxStall
             /\ PortsAt(WithPort(From(p.src, i, n - 1))) = b.dst_ports
             /\ Cardinality(WithPort(From(p.src, i, n - 1))) = b.tcp_packet_count
             /\ Cardinality(SynAt(WithPort(From(p.src, i, n - 1)))) = b.syn_only_count
<1>8. \E i \in 1..n : Base(i)
    <2>1. CASE p.src \in DOMAIN scan /\ b = r
        <3>1. r = scan[p.src]
            BY <2>1 DEF scan_profile, Lookup
        <3>2. PICK i \in From(p.src, 1, n - 1) :
                /\ log[i].at >= r.window_start - MaxStall
                /\ PortsAt(WithPort(From(p.src, i, n - 1))) = r.dst_ports
                /\ Cardinality(WithPort(From(p.src, i, n - 1))) = r.tcp_packet_count
                /\ Cardinality(SynAt(WithPort(From(p.src, i, n - 1)))) = r.syn_only_count
            BY <1>1, <2>1, <3>1 DEF ScanRuns
        <3>3. i \in 1..(n - 1) /\ log[i].packet.src = p.src
            BY DEF From
        <3>4. log'[i] = log[i] /\ i \in 1..n
            BY <1>1, <3>3
        <3>5. Base(i)
            <4> HIDE DEF r, b
            <4> QED
                BY <2>1, <3>2, <3>3, <3>4
        <3> QED
            BY <3>4, <3>5
    <2>2. CASE ~(p.src \in DOMAIN scan /\ b = r)
        <3>1. b = ScanProfile(now) \/ b = ScanProfile(clock)
            BY <2>2 DEF scan_profile, Lookup, rolled
        <3>2. /\ b.window_start \in {now, clock} /\ b.dst_ports = {}
              /\ b.tcp_packet_count = 0 /\ b.syn_only_count = 0
            BY <3>1 DEF ScanProfile
        <3>3. n..(n - 1) = {}
            BY <1>1
        <3>4. /\ WithPort(From(p.src, n, n - 1)) = {}
              /\ SynAt(WithPort(From(p.src, n, n - 1))) = {}
              /\ PortsAt(WithPort(From(p.src, n, n - 1))) = {}
            BY <3>3 DEF From, WithPort, SynAt, PortsAt
        <3>5. Cardinality({}) = 0
            BY FS_EmptySet
        <3> HIDE DEF b
        <3>6. n \in 1..n /\ log'[n].at >= b.window_start - MaxStall
            BY <1>1, <1>2, <3>2
        <3>7. Base(n)
            BY <1>1, <3>2, <3>4, <3>5, <3>6
        <3> QED
            BY <3>6, <3>7
    <2> QED
        BY <2>1, <2>2
<1>9. PICK i \in 1..n : Base(i)
    BY <1>8
<1> PICK src : src = p.src
    OBVIOUS
<1> DEFINE old == WithPort(From(src, i, n - 1))
           new == WithPort(From(src, i, n))'
           ports == PortsAt(WithPort(From(src, i, n - 1)))
           newPorts == PortsAt(WithPort(From(src, i, n)))'
           oldSyn == SynAt(WithPort(From(src, i, n - 1)))
           newSyn == SynAt(WithPort(From(src, i, n)))'
<1>10. /\ Cardinality(new) = Cardinality(old) + 1
       /\ newPorts = ports \cup {p.port}
       /\ p.kind = "syn" => Cardinality(newSyn) = Cardinality(oldSyn) + 1
       /\ p.kind # "syn" => newSyn = oldSyn
    BY <1>1, PortRunGrows
<1>11. /\ log'[i].packet.src = p.src /\ log'[i].at >= b.window_start - MaxStall
       /\ ports = b.dst_ports /\ Cardinality(old) = b.tcp_packet_count
       /\ Cardinality(oldSyn) = b.syn_only_count
    BY <1>9
<1> HIDE DEF b, Base, old, new, oldSyn, newSyn, ports, newPorts
<1>12. /\ Cardinality(new) = q.tcp_packet_count /\ Cardinality(newSyn) = q.syn_only_count
       /\ newPorts = q.dst_ports /\ log'[i].at >= q.window_start - MaxStall
    BY <1>6, <1>10, <1>11
<1>13. now - q.window_start < ScanWindow
    BY <1>6, <1>7
<1> QED
    BY <1>4, <1>11, <1>12, <1>13 DEF new, newSyn, newPorts

\* The profiles after a packet.
LEMMA ScanRunsStep ==
  ASSUME IInv, ScanRuns, Inspect \/ InspectIgnore
  PROVE  ScanRuns'
<1> PICK n : n = Len(log) + 1
    OBVIOUS
<1> PICK p : p = packet
    OBVIOUS
<1>1. /\ n \in Nat /\ n >= 1 /\ Len(log') = n /\ Len(log) = n - 1
      /\ log'[n].packet = p /\ log'[n].at = now
      /\ \A k \in 1..(n - 1) : log'[k] = log[k]
    BY LogGrows DEF IInv, Inspect, InspectIgnore
<1> DEFINE Run(s, r, i) ==
             /\ log'[i].packet.src = s /\ log'[i].at >= r.window_start - MaxStall
             /\ PortsAt(WithPort(From(s, i, n)))' = r.dst_ports
             /\ Cardinality(WithPort(From(s, i, n))') = r.tcp_packet_count
             /\ Cardinality(SynAt(WithPort(From(s, i, n)))') = r.syn_only_count
           Real(s, r) == \E i \in 1..n : Run(s, r, i)
<1>2. ASSUME NEW s \in DOMAIN scan, ~(s = p.src /\ p.port # 0) PROVE Real(s, scan[s])
    <2> DEFINE r == scan[s]
    <2>1. PICK i \in From(s, 1, n - 1) :
            /\ log[i].at >= r.window_start - MaxStall
            /\ PortsAt(WithPort(From(s, i, n - 1))) = r.dst_ports
            /\ Cardinality(WithPort(From(s, i, n - 1))) = r.tcp_packet_count
            /\ Cardinality(SynAt(WithPort(From(s, i, n - 1)))) = r.syn_only_count
        BY <1>1 DEF ScanRuns
    <2>2. i \in 1..(n - 1) /\ i \in 1..n /\ log[i].packet.src = s
        BY <1>1 DEF From
    <2>3. /\ WithPort(From(s, i, n))' = WithPort(From(s, i, n - 1))
          /\ PortsAt(WithPort(From(s, i, n)))' = PortsAt(WithPort(From(s, i, n - 1)))
          /\ SynAt(WithPort(From(s, i, n)))' = SynAt(WithPort(From(s, i, n - 1)))
        BY <1>1, <1>2, <2>2, PortRunGrows
    <2>4. log'[i] = log[i]
        BY <1>1, <2>2
    <2> HIDE DEF r
    <2>5. Run(s, r, i)
        BY <2>1, <2>2, <2>3, <2>4
    <2> HIDE DEF Run
    <2> QED
        BY <2>2, <2>5 DEF r
<1>3. ASSUME Inspect, p.port # 0
      PROVE  Real(p.src, scan_inspected(scan_profile(p), p.port, p.kind, now))
    <2> PICK q : q = scan_inspected(scan_profile(p), p.port, p.kind, now)
        OBVIOUS
    <2> QED
        BY <1>3, ScanWindowIsReal
<1>4. \/ Inspect /\ p.port # 0
         /\ scan' = Put(scan, p.src, scan_inspected(scan_profile(p), p.port, p.kind, now))
      \/ ~(p.src \in DOMAIN scan /\ p.port # 0) /\ scan' = scan
    <2>1. CASE Inspect
        BY <2>1 DEF Inspect
    <2>2. CASE InspectIgnore
        <3>1. p.src \notin DOMAIN scan /\ scan' = scan
            BY <2>2 DEF InspectIgnore, stateVars, IInv, Profiles, Sources
        <3> QED
            BY <3>1
    <2> QED
        BY <2>1, <2>2
<1>5. \A s \in DOMAIN scan' : Real(s, scan'[s])
    <2> HIDE DEF Real
    <2>1. CASE Inspect /\ p.port # 0
               /\ scan' = Put(scan, p.src, scan_inspected(scan_profile(p), p.port, p.kind, now))
        BY <1>2, <1>3, <2>1 DEF Put
    <2>2. CASE ~(p.src \in DOMAIN scan /\ p.port # 0) /\ scan' = scan
        BY <1>2, <2>2
    <2> QED
        BY <1>4, <2>1, <2>2
<1>6. \A s : From(s, 1, n)' = {k \in 1..n : log'[k].packet.src = s}
    BY DEF From
<1>7. ASSUME NEW s \in DOMAIN scan'
      PROVE  \E i \in From(s, 1, n)' :
               /\ log'[i].at >= scan'[s].window_start - MaxStall
               /\ PortsAt(WithPort(From(s, i, n)))' = scan'[s].dst_ports
               /\ Cardinality(WithPort(From(s, i, n))') = scan'[s].tcp_packet_count
               /\ Cardinality(SynAt(WithPort(From(s, i, n)))') = scan'[s].syn_only_count
    <2>1. PICK i \in 1..n : Run(s, scan'[s], i)
        BY <1>5
    <2>2. i \in From(s, 1, n)'
        BY <1>6, <2>1
    <2> QED
        BY <2>1, <2>2
<1> QED
    BY <1>1, <1>7 DEF ScanRuns

\* The findings after a packet.
LEMMA ScanRealStep ==
  ASSUME IInv, ScanRuns, DetectionIsReal, Inspect \/ InspectIgnore
  PROVE  DetectionIsReal'
<1> PICK n : n = Len(log) + 1
    OBVIOUS
<1> PICK p : p = packet
    OBVIOUS
<1> DEFINE Ports(a, i) == PortsAt(WithPort(From(a.src, i, a.place)))
           Syns(a, i) == Cardinality(SynAt(WithPort(From(a.src, i, a.place))))
           All(a, i) == Cardinality(WithPort(From(a.src, i, a.place)))
           Backed(a, i) ==
             /\ a.at - log[i].at < ScanWindow + MaxStall
             /\ Cardinality(Ports(a, i)) >= Times(a, "HIGH", 2) * ScanThreshold
             /\ Syns(a, i) * ScanRatioDen >= ScanRatioNum * All(a, i)
<1>1. /\ n \in Nat /\ n >= 1 /\ Len(log') = n /\ Len(log) = n - 1
      /\ log'[n].packet = p /\ log'[n].at = now
      /\ \A k \in 1..(n - 1) : log'[k] = log[k]
    BY LogGrows DEF IInv, Inspect, InspectIgnore
<1>2. ASSUME NEW a \in raised, a.type = "PORT_SCAN"
      PROVE  \E i \in From(a.src, 1, a.place)' : Backed(a, i)'
    <2>1. a.place \in Nat /\ a.place <= n - 1 /\ n - 1 \in Nat
        BY <1>1 DEF IInv, Alerts
    <2>2. PICK i \in From(a.src, 1, a.place) : Backed(a, i)
        BY <1>2 DEF DetectionIsReal, Raised
    <2>3. From(a.src, 1, a.place)' = From(a.src, 1, a.place)
          /\ \A k \in From(a.src, 1, a.place) : log'[k] = log[k]
        BY <1>1, <2>1, OldRuns
    <2>4. i \in Nat /\ i >= 1
        BY DEF From
    <2>5. /\ From(a.src, i, a.place)' = From(a.src, i, a.place)
          /\ \A k \in From(a.src, i, a.place) : log'[k] = log[k]
        BY <1>1, <2>1, <2>4, OldRuns
    <2>6. WithPort(From(a.src, i, a.place))' = WithPort(From(a.src, i, a.place))
          /\ \A k \in WithPort(From(a.src, i, a.place)) : log'[k] = log[k]
        BY <2>5 DEF WithPort
    <2>7. Syns(a, i)' = Syns(a, i) /\ All(a, i)' = All(a, i)
        <3>1. SynAt(WithPort(From(a.src, i, a.place)))' = SynAt(WithPort(From(a.src, i, a.place)))
            BY <2>6 DEF SynAt
        <3> QED
            BY <2>6, <3>1
    <2>8. Ports(a, i)' = Ports(a, i)
        BY <2>6 DEF PortsAt
    <2>9. log'[i] = log[i] /\ i \in From(a.src, 1, a.place)'
        BY <2>3
    <2> HIDE DEF Syns, All, Ports
    <2>10. Backed(a, i)'
        BY <2>2, <2>7, <2>8, <2>9 DEF Times
    <2> HIDE DEF Backed
    <2> QED
        BY <2>9, <2>10
<1>3. ASSUME NEW a \in raised', a \notin raised, a.type = "PORT_SCAN"
      PROVE  \E i \in From(a.src, 1, a.place)' : Backed(a, i)'
    <2>1. Inspect
        BY <1>3 DEF InspectIgnore
    <2>2. /\ a.src = p.src /\ a.at = now /\ a.place = n
          /\ <<a.type, a.severity>> \in findings(p)
        BY <1>3, <2>1, NewFinding
    <2>3. p.port # 0 /\ a.severity \in port_scan(scan_profile(p), p.port, p.kind, now)
        BY <1>3, <2>2, FoundBecause
    <2> PICK q : q = scan_inspected(scan_profile(p), p.port, p.kind, now)
        OBVIOUS
    <2>4. /\ many_ports(q) /\ ratio_met(q)
          /\ a.severity = "HIGH" => Cardinality(q.dst_ports) >= ScanThreshold * 2
        BY <2>3 DEF port_scan
    <2>5. /\ q \in ScanProfiles(clock) /\ now - q.window_start < ScanWindow
          /\ \E i \in 1..n :
               /\ log'[i].packet.src = p.src /\ log'[i].at >= q.window_start - MaxStall
               /\ PortsAt(WithPort(From(p.src, i, n)))' = q.dst_ports
               /\ Cardinality(WithPort(From(p.src, i, n))') = q.tcp_packet_count
               /\ Cardinality(SynAt(WithPort(From(p.src, i, n)))') = q.syn_only_count
        BY <2>1, <2>3, ScanWindowIsReal
    <2>6. PICK i \in 1..n :
            /\ log'[i].packet.src = p.src /\ log'[i].at >= q.window_start - MaxStall
            /\ PortsAt(WithPort(From(p.src, i, n)))' = q.dst_ports
            /\ Cardinality(WithPort(From(p.src, i, n))') = q.tcp_packet_count
            /\ Cardinality(SynAt(WithPort(From(p.src, i, n)))') = q.syn_only_count
        BY <2>5
    <2>7. /\ All(a, i)' = q.tcp_packet_count /\ Syns(a, i)' = q.syn_only_count
          /\ Ports(a, i)' = q.dst_ports
        BY <2>2, <2>6
    <2>8. /\ q.window_start \in Nat /\ ScanWindow \in Nat /\ now \in Nat /\ MaxStall \in Nat
          /\ ScanThreshold \in Nat /\ ScanRatioDen \in Nat /\ ScanRatioNum \in Nat
          /\ q.syn_only_count \in Nat /\ q.tcp_packet_count \in Nat
        BY <2>5, ScanAssumption, ConstantTypes DEF ScanProfiles, IInv, Clocks
    <2>9. log'[i].at \in Nat
        <3>1. log' \in Seq(Entries)
            BY <2>1, DoneFacts DEF IInv, Inspect, Logged
        <3>2. log'[i] \in Entries
            BY <1>1, <3>1, ElementOfSeq
        <3> QED
            BY <3>2 DEF Entries
    <2>10. now - log'[i].at < ScanWindow + MaxStall
        <3>1. now - q.window_start < ScanWindow /\ log'[i].at >= q.window_start - MaxStall
            BY <2>5, <2>6
        <3> QED
            BY <2>8, <2>9, <3>1
    <2>11. Cardinality(q.dst_ports) >= Times(a, "HIGH", 2) * ScanThreshold
        BY <2>4, <2>8 DEF many_ports, Times
    <2>12. q.syn_only_count * ScanRatioDen >= ScanRatioNum * q.tcp_packet_count
        <3>1. CASE ScanRatioNum > 0
            BY <2>4, <3>1 DEF ratio_met
        <3>2. CASE ScanRatioNum = 0
            <4>1. \A x, y \in Nat : x * y \in Nat
                OBVIOUS
            <4>2. q.syn_only_count * ScanRatioDen \in Nat /\ ScanRatioNum * q.tcp_packet_count = 0
                BY <2>8, <3>2, <4>1
            <4> QED
                BY <4>2
        <3> QED
            BY <2>8, <3>1, <3>2
    <2>13. i \in From(a.src, 1, a.place)'
        BY <2>2, <2>6 DEF From
    <2> HIDE DEF All, Syns, Ports
    <2>14. Backed(a, i)'
        BY <2>2, <2>7, <2>10, <2>11, <2>12 DEF Times
    <2> HIDE DEF Backed
    <2> QED
        BY <2>13, <2>14
<1> QED
    BY <1>2, <1>3 DEF DetectionIsReal, Raised

-----------------------------------------------------------------------------
(* Volume *)

\* Arithmetic that the provers need spelled out: multiplying and cancelling.
LEMMA Scaled ==
  ASSUME NEW a \in Nat, NEW b \in Nat, NEW c \in Nat, a <= b
  PROVE  a * c <= b * c /\ c * a <= c * b
OBVIOUS

\* A positive factor can be taken away.
LEMMA Cancelled ==
  ASSUME NEW a \in Nat, NEW b \in Nat, NEW d \in Nat, d > 0, a * d <= b * d
  PROVE  a <= b
<1> SUFFICES ASSUME b + 1 <= a PROVE FALSE
    OBVIOUS
<1>1. (b + 1) * d <= a * d
    BY Scaled
<1>2. (b + 1) * d = b * d + d /\ b * d \in Nat /\ a * d \in Nat
    OBVIOUS
<1> QED
    BY <1>1, <1>2

\* Products of naturals.
LEMMA Products ==
  ASSUME NEW a \in Nat, NEW b \in Nat, NEW c \in Nat
  PROVE  /\ a * b \in Nat /\ a * b = b * a /\ (a * b) * c = a * (b * c) /\ (a * b) * c = (a * c) * b
         /\ (a + b) * c = a * c + b * c
OBVIOUS

\* A rate of at least m times the baseline is at least m times any rate that the
\* baseline is not below.
LEMMA Louder ==
  ASSUME NEW n \in Nat, NEW num \in Nat, NEW den \in Nat, NEW m \in Nat, NEW age \in Nat,
         NEW q \in Nat, NEW dur \in Nat, den > 0,
         n * den >= m * num * age, q * den <= num * dur
  PROVE  n * dur >= m * q * age
<1>1. /\ n * den \in Nat /\ m * num * age \in Nat /\ q * den \in Nat /\ num * dur \in Nat
      /\ m * age \in Nat /\ n * dur \in Nat /\ m * q * age \in Nat
    BY Products
<1>2. (m * num * age) * dur <= (n * den) * dur
    BY <1>1, Scaled
<1>3. (m * age) * (q * den) <= (m * age) * (num * dur)
    BY <1>1, Scaled
<1>4. (m * num * age) * dur = (m * age) * (num * dur)
    OBVIOUS
<1>5. (m * age) * (q * den) = (m * q * age) * den /\ (n * den) * dur = (n * dur) * den
    OBVIOUS
<1>6. (m * q * age) * den <= (n * dur) * den
    BY <1>1, <1>2, <1>3, <1>4, <1>5, Products
<1> QED
    BY <1>1, <1>6, Cancelled

\* An average with a rate that is not lower is not below what it was not below.
LEMMA AverageKeeps ==
  ASSUME NEW A \in Nat, NEW B \in Nat, NEW n \in Nat, NEW on \in Nat, NEW od \in Nat,
         NEW age \in Nat, NEW q \in Nat, NEW dur \in Nat,
         on * age <= n * od, q * od <= on * dur, A < B
  PROVE  q * (B * age * od) <= (A * n * od + (B - A) * on * age) * dur
<1> DEFINE C == B - A
           x == n * od
           y == on * age
           num == A * n * od + C * on * age
<1>0. C \in Nat /\ B = A + C /\ x \in Nat /\ y \in Nat /\ q * od \in Nat /\ on * dur \in Nat
      /\ B * age \in Nat
    BY Products
<1>1. num = A * x + C * y
    BY <1>0, Products
<1>2. A * y <= A * x
    BY <1>0, Scaled
<1>3. B * y = A * y + C * y
    BY <1>0, Products
<1>4. A * y \in Nat /\ A * x \in Nat /\ C * y \in Nat /\ B * y \in Nat
    BY <1>0, Products
<1> HIDE DEF num
<1>5. B * y <= num /\ num \in Nat
    BY <1>1, <1>2, <1>3, <1>4
<1>6. (B * y) * dur <= num * dur
    BY <1>4, <1>5, Scaled
<1>7. (B * age) * (q * od) <= (B * age) * (on * dur)
    BY <1>0, Scaled
<1>8. (B * y) * dur = (B * age) * (on * dur)
    OBVIOUS
<1>9. q * (B * age * od) = (B * age) * (q * od)
    OBVIOUS
<1>10. num * dur \in Nat /\ (B * y) * dur \in Nat /\ (B * age) * (q * od) \in Nat
    BY <1>0, <1>4, <1>5, Products
<1> HIDE DEF y
<1>11. (B * age) * (q * od) <= num * dur
    BY <1>6, <1>7, <1>8, <1>10
<1> QED
    BY <1>9, <1>11 DEF num

\* An average with a lower rate is not below that rate.
LEMMA AverageLowers ==
  ASSUME NEW A \in Nat, NEW B \in Nat, NEW n \in Nat, NEW on \in Nat, NEW od \in Nat,
         NEW age \in Nat, n * od <= on * age, A < B
  PROVE  n * (B * age * od) <= (A * n * od + (B - A) * on * age) * age
<1> DEFINE C == B - A
           x == n * od
           y == on * age
           num == A * n * od + C * on * age
<1>0. C \in Nat /\ B = A + C /\ x \in Nat /\ y \in Nat
    BY Products
<1>1. num = A * x + C * y
    BY <1>0, Products
<1>2. C * x <= C * y
    BY <1>0, Scaled
<1>3. B * x = A * x + C * x
    BY <1>0, Products
<1>4. A * x \in Nat /\ C * x \in Nat /\ C * y \in Nat /\ B * x \in Nat
    BY <1>0, Products
<1> HIDE DEF num
<1>5. B * x <= num /\ num \in Nat
    BY <1>1, <1>2, <1>3, <1>4
<1>6. (B * x) * age <= num * age
    BY <1>4, <1>5, Scaled
<1>7. n * (B * age * od) = (B * x) * age
    OBVIOUS
<1> QED
    BY <1>6, <1>7 DEF num

\* From time t to packet j the run from place i was no louder than the baseline f.
Quiet(s, f, t, i, j) ==
  /\ AllBy(s, i, t) /\ log[i].at >= t - MaxStall /\ log[j].at - t >= EwmaWindow
  /\ Cardinality(From(s, i, j)) * f.den <= f.num * (log[j].at - t)

\* A first window counts a run that begins with it.
ColdRun(s, r) ==
  \E i \in 1..Len(log) :
    /\ AllBy(s, i, r.window_start) /\ log[i].at >= r.window_start - MaxStall
    /\ Cardinality(From(s, i, Len(log))) = r.window_packets

\* A later one counts what came after the packet that closed the last, and for the
\* baseline there was a quiet run, with no long silence since.
WarmRun(s, r) ==
  \E j, l \in From(s, 1, Len(log)), t \in 0..now : \E i \in 1..j :
    /\ j <= l /\ Quiet(s, r.ewma_pps, t, i, j)
    /\ log[l].at = r.window_start
    /\ Cardinality(From(s, l + 1, Len(log))) = r.window_packets
    /\ Unbroken(s, j, Len(log))

\* The time of the source's last packet.
LastSeen(s, at) ==
  \A k \in From(s, 1, Len(log)) : From(s, k, Len(log)) = {k} => log[k].at = at

Backing(s, r) ==
  /\ r.ewma_pps.den > 0
  /\ LastSeen(s, r.last_update)
  /\ r.cold_start => ColdRun(s, r)
  /\ ~r.cold_start => WarmRun(s, r)

EwmaRuns == \A s \in DOMAIN ewma : Backing(s, ewma[s])

\* Runs up to an earlier place, and the silences in them, stay as they are.
LEMMA OldUnbroken ==
  ASSUME NEW n \in Nat, NEW j \in Nat, NEW k \in Nat, j >= 1, k <= n, NEW src,
         \A m \in 1..n : log'[m] = log[m]
  PROVE  Unbroken(src, j, k)' = Unbroken(src, j, k)
<1>1. From(src, j, k)' = From(src, j, k) /\ \A m \in From(src, j, k) : log'[m] = log[m]
    BY OldRuns
<1>2. ASSUME NEW x \in From(src, j, k), NEW y \in From(src, j, k)
      PROVE  From(src, x, y)' = From(src, x, y)
    <2>1. x \in Nat /\ y \in Nat /\ x >= 1 /\ y <= n
        BY DEF From
    <2> QED
        BY <2>1, OldRuns
<1>3. Unbroken(src, j, k)' <=>
        \A x, y \in From(src, j, k) :
          x < y /\ From(src, x, y)' = {x, y} => log'[y].at - log'[x].at <= StaleSec
    BY <1>1 DEF Unbroken
<1>4. Unbroken(src, j, k) <=>
        \A x, y \in From(src, j, k) :
          x < y /\ From(src, x, y) = {x, y} => log[y].at - log[x].at <= StaleSec
    BY DEF Unbroken
<1>5. Unbroken(src, j, k)' <=> Unbroken(src, j, k)
    BY <1>1, <1>2, <1>3, <1>4
<1>6. Unbroken(src, j, k)' \in BOOLEAN /\ Unbroken(src, j, k) \in BOOLEAN
    BY DEF Unbroken
<1> QED
    BY <1>5, <1>6

\* A packet of the source that comes soon enough breaks nothing.
LEMMA UnbrokenGrows ==
  ASSUME NEW n \in Nat, n >= 1, NEW j \in 1..(n - 1), NEW src, NEW at, Unbroken(src, j, n - 1),
         log'[n].packet.src = src,
         \A k \in 1..(n - 1) : log'[k] = log[k],
         \A k \in From(src, 1, n - 1) : From(src, k, n - 1) = {k} => log[k].at = at,
         log'[n].at - at <= StaleSec
  PROVE  Unbroken(src, j, n)'
<1>1. From(src, j, n)' = From(src, j, n - 1) \cup {n} /\ n \notin From(src, j, n - 1)
      /\ From(src, j, n - 1) \subseteq 1..(n - 1)
    BY RunGrows
<1>2. ASSUME NEW x \in From(src, j, n)', NEW y \in From(src, j, n)', x < y,
             From(src, x, y)' = {x, y}
      PROVE  log'[y].at - log'[x].at <= StaleSec
    <2>1. x \in 1..n /\ y \in 1..n /\ x # n
        BY <1>1, <1>2
    <2>2. x \in From(src, j, n - 1) /\ x \in From(src, 1, n - 1) /\ x \in 1..(n - 1)
          /\ log'[x] = log[x]
        BY <1>1, <2>1 DEF From
    <2>3. CASE y = n
        <3>1. From(src, x, n)' = From(src, x, n - 1) \cup {n} /\ n \notin From(src, x, n - 1)
            BY <2>1, RunGrows
        <3>2. From(src, x, n - 1) = {x}
            BY <1>2, <2>1, <2>3, <3>1
        <3>3. log[x].at = at
            BY <2>2, <3>2
        <3> QED
            BY <2>2, <2>3, <3>3
    <2>4. CASE y # n
        <3>1. y \in From(src, j, n - 1) /\ y \in 1..(n - 1) /\ log'[y] = log[y]
            BY <1>1, <2>1, <2>4
        <3>2. x \in Nat /\ x >= 1 /\ y \in Nat /\ y <= n - 1 /\ n - 1 \in Nat
            BY <2>2, <3>1
        <3>3. From(src, x, y)' = From(src, x, y)
            BY <3>2, OldRuns
        <3>4. log[y].at - log[x].at <= StaleSec
            BY <1>2, <2>2, <3>1, <3>3 DEF Unbroken
        <3> QED
            BY <2>2, <3>1, <3>4
    <2> QED
        BY <2>3, <2>4
<1> QED
    BY <1>2 DEF Unbroken

\* The count of a source's run goes up by one.
LEMMA CountGrows ==
  ASSUME NEW n \in Nat, n >= 1, NEW i \in 1..n, NEW src, log'[n].packet.src = src,
         \A k \in 1..(n - 1) : log'[k] = log[k]
  PROVE  Cardinality(From(src, i, n)') = Cardinality(From(src, i, n - 1)) + 1
<1>1. From(src, i, n)' = From(src, i, n - 1) \cup {n} /\ n \notin From(src, i, n - 1)
    BY RunGrows
<1>2. IsFiniteSet(From(src, i, n - 1))
    <2>1. i \in Nat /\ n - 1 \in Nat
        OBVIOUS
    <2> QED
        BY <2>1, RunsFinite
<1> QED
    BY <1>1, <1>2, OnePlaceMore

\* What update() looks at, after it has forgotten a stale profile and counted the
\* packet, is backed by runs up to the packet.
LEMMA ObservedIsReal ==
  ASSUME IInv, EwmaRuns, Inspect, NEW n, n = Len(log) + 1, NEW p, p = packet, NEW q,
         q = observed(ewma_profile(p), now)
  PROVE  /\ q \in EwmaProfiles(clock) /\ q.ewma_pps.den > 0 /\ q.last_update = now
         /\ q.cold_start =>
              \E i \in 1..n : /\ AllBy(p.src, i, q.window_start)
                              /\ log'[i].at >= q.window_start - MaxStall
                              /\ Cardinality(From(p.src, i, n)') = q.window_packets
         /\ ~q.cold_start =>
              \E j, l \in From(p.src, 1, n - 1), t \in 0..now : \E i \in 1..j :
                /\ j <= l /\ Quiet(p.src, q.ewma_pps, t, i, j)
                /\ log[l].at = q.window_start
                /\ Cardinality(From(p.src, l + 1, n)') = q.window_packets
                /\ Unbroken(p.src, j, n)'
<1> DEFINE r == ewma_profile(p)
           z == refreshed(r, now)
<1>1. /\ n \in Nat /\ n >= 1 /\ Len(log') = n /\ Len(log) = n - 1
      /\ log'[n].packet = p /\ log'[n].at = now
      /\ \A k \in 1..(n - 1) : log'[k] = log[k]
    BY LogGrows DEF IInv, Inspect
<1>2. /\ clock \in Nat /\ now \in Nat /\ now <= clock /\ clock - now <= MaxStall
      /\ MaxStall \in Nat /\ StaleSec \in Nat
    BY ConstantTypes, EwmaAssumption DEF IInv, Clocks, Inspect
<1>3. /\ EwmaProfile(clock) \in EwmaProfiles(clock) /\ EwmaProfile(now) \in EwmaProfiles(clock)
    BY <1>2 DEF EwmaProfile, EwmaProfiles, Frac
<1>4. r \in EwmaProfiles(clock)
    BY <1>3, LookupType DEF ewma_profile, IInv, Profiles
<1>5. z \in EwmaProfiles(clock)
    BY <1>3, <1>4 DEF refreshed
<1>6. /\ q.ewma_pps = z.ewma_pps /\ q.cold_start = z.cold_start
      /\ q.window_start = z.window_start /\ q.last_update = now
      /\ q.window_packets = z.window_packets + 1
    <2> DEFINE m == z.window_packets + 1
    <2>1. q = [z EXCEPT !.last_update = now, !.window_packets = m]
        BY DEF observed
    <2> HIDE DEF z, m
    <2>2. /\ q.ewma_pps = z.ewma_pps /\ q.cold_start = z.cold_start
          /\ q.window_start = z.window_start /\ q.last_update = now
          /\ q.window_packets = m
        BY <1>5, <2>1 DEF EwmaProfiles
    <2> QED
        BY <2>2 DEF m
<1>7. q \in EwmaProfiles(clock)
    <2> DEFINE m == z.window_packets + 1
    <2>1. m \in Nat
        BY <1>5 DEF EwmaProfiles
    <2>2. q = [z EXCEPT !.last_update = now, !.window_packets = m] /\ now \in 0..clock
        BY <1>2 DEF observed
    <2> HIDE DEF z, m
    <2> QED
        BY <1>5, <2>1, <2>2 DEF EwmaProfiles
<1> DEFINE Cold(i) == /\ AllBy(p.src, i, q.window_start)
                      /\ log'[i].at >= q.window_start - MaxStall
                      /\ Cardinality(From(p.src, i, n)') = q.window_packets
           Warm(i, j, l, t) == /\ j <= l /\ Quiet(p.src, q.ewma_pps, t, i, j)
                               /\ log[l].at = q.window_start
                               /\ Cardinality(From(p.src, l + 1, n)') = q.window_packets
                               /\ Unbroken(p.src, j, n)'
<1>8. CASE ~(p.src \in DOMAIN ewma /\ z = r)
    <2>1. z = EwmaProfile(now) \/ z = EwmaProfile(clock)
        BY <1>8 DEF ewma_profile, Lookup, refreshed
    <2>2. /\ z.window_start \in {now, clock} /\ z.window_packets = 0 /\ z.ewma_pps.den = 1
          /\ z.ewma_pps.den > 0
        BY <2>1 DEF EwmaProfile, Frac
    <2>3. z.cold_start = TRUE
        BY <2>1 DEF EwmaProfile
    <2> HIDE DEF z
    <2>4. n \in 1..n /\ log'[n].at >= q.window_start - MaxStall
        BY <1>1, <1>2, <1>6, <2>2
    <2>5. Cardinality(From(p.src, n, n)') = q.window_packets
        <3>1. n..(n - 1) = {}
            BY <1>1
        <3>2. From(p.src, n, n - 1) = {}
            BY <3>1 DEF From
        <3>3. Cardinality(From(p.src, n, n - 1)) = 0
            BY <3>2, FS_EmptySet
        <3>4. Cardinality(From(p.src, n, n)') = Cardinality(From(p.src, n, n - 1)) + 1
            BY <1>1, <2>4, CountGrows
        <3> QED
            BY <1>6, <2>2, <3>3, <3>4
    <2>6. Cold(n)
        <3>1. q.window_start \in Nat /\ q.window_start >= now
            BY <1>2, <1>6, <2>2
        <3>2. ASSUME NEW k \in From(p.src, 1, n - 1) PROVE log[k].at <= q.window_start
            <4>1. k \in 1..Len(log)
                BY <1>1 DEF From
            <4>2. log[k] \in Entries /\ log[k].at <= now
                BY <4>1, ElementOfSeq DEF IInv, Logged
            <4>3. log[k].at \in Nat
                BY <4>2 DEF Entries
            <4> QED
                BY <1>2, <3>1, <4>2, <4>3
        <3> QED
            BY <2>4, <2>5, <3>2 DEF AllBy
    <2>7. q.cold_start
        BY <1>6, <2>3
    <2>8. q.ewma_pps.den > 0
        BY <1>6, <2>2
    <2> HIDE DEF Cold
    <2>9. \E i \in 1..n : Cold(i)
        BY <2>4, <2>6
    <2> QED
        BY <1>6, <1>7, <2>7, <2>8, <2>9 DEF Cold
<1>9. CASE p.src \in DOMAIN ewma /\ z = r
    <2>1. r = ewma[p.src]
        BY <1>9 DEF ewma_profile, Lookup
    <2>2. Backing(p.src, r)
        BY <1>9, <2>1 DEF EwmaRuns
    <2>3. q.ewma_pps.den > 0
        BY <1>6, <1>9, <2>2 DEF Backing
    <2>4. ASSUME q.cold_start PROVE \E i \in 1..n : Cold(i)
        <3>1. r.cold_start
            BY <1>6, <1>9, <2>4
        <3>2. PICK i \in 1..(n - 1) :
                /\ AllBy(p.src, i, r.window_start)
                /\ log[i].at >= r.window_start - MaxStall
                /\ Cardinality(From(p.src, i, n - 1)) = r.window_packets
            BY <1>1, <2>2, <3>1 DEF Backing, ColdRun
        <3>4. i \in 1..n /\ log'[i] = log[i]
            BY <1>1
        <3>5. Cardinality(From(p.src, i, n)') = Cardinality(From(p.src, i, n - 1)) + 1
            BY <1>1, <3>4, CountGrows
        <3> HIDE DEF r, z
        <3>6. Cold(i)
            BY <1>6, <1>9, <3>2, <3>4, <3>5
        <3> HIDE DEF Cold
        <3> QED
            BY <3>4, <3>6
    <2>5. ASSUME ~q.cold_start
          PROVE  \E j, l \in From(p.src, 1, n - 1), t \in 0..now : \E i \in 1..j :
                   Warm(i, j, l, t)
        <3>1. ~r.cold_start
            BY <1>6, <1>9, <2>5
        <3>2. PICK j \in From(p.src, 1, n - 1), l \in From(p.src, 1, n - 1), t \in 0..now :
                \E i \in 1..j :
                  /\ j <= l /\ Quiet(p.src, r.ewma_pps, t, i, j)
                  /\ log[l].at = r.window_start
                  /\ Cardinality(From(p.src, l + 1, n - 1)) = r.window_packets
                  /\ Unbroken(p.src, j, n - 1)
            BY <1>1, <2>2, <3>1 DEF Backing, WarmRun
        <3>2a. PICK i \in 1..j :
                /\ j <= l /\ Quiet(p.src, r.ewma_pps, t, i, j)
                /\ log[l].at = r.window_start
                /\ Cardinality(From(p.src, l + 1, n - 1)) = r.window_packets
                /\ Unbroken(p.src, j, n - 1)
            BY <3>2
        <3>3. j \in 1..(n - 1) /\ l + 1 \in 1..n
            BY <1>1 DEF From
        <3>4. Cardinality(From(p.src, l + 1, n)') = Cardinality(From(p.src, l + 1, n - 1)) + 1
            BY <1>1, <3>3, CountGrows
        <3>5. now - r.last_update <= StaleSec
            <4>1. EwmaProfile(now).cold_start
                BY DEF EwmaProfile
            <4>2. ~(now - r.last_update > StaleSec)
                BY <1>9, <3>1, <4>1 DEF refreshed
            <4>3. r.last_update \in Nat
                BY <1>2, <1>4 DEF EwmaProfiles
            <4> HIDE DEF r
            <4> QED
                BY <1>2, <4>2, <4>3
        <3>6. \A k \in From(p.src, 1, n - 1) : From(p.src, k, n - 1) = {k} => log[k].at = r.last_update
            BY <1>1, <2>2 DEF Backing, LastSeen
        <3> PICK at : at = r.last_update
            OBVIOUS
        <3>7. Unbroken(p.src, j, n)'
            <4> HIDE DEF r
            <4> QED
                BY <1>1, <3>2a, <3>3, <3>5, <3>6, UnbrokenGrows
        <3> HIDE DEF r, z
        <3>8. Warm(i, j, l, t)
            BY <1>6, <1>9, <3>2a, <3>4, <3>7
        <3> HIDE DEF Warm
        <3> QED
            BY <3>8
    <2> HIDE DEF Cold, Warm
    <2>6. /\ q.cold_start => \E i \in 1..n : Cold(i)
          /\ ~q.cold_start =>
               \E j, l \in From(p.src, 1, n - 1), t \in 0..now : \E i \in 1..j :
                 Warm(i, j, l, t)
        BY <2>4, <2>5
    <2> QED
        BY <1>6, <1>7, <2>3, <2>6 DEF Cold, Warm
<1> QED
    BY <1>8, <1>9

\* What was quiet stays it.
LEMMA OldQuiet ==
  ASSUME NEW n \in Nat, NEW j \in 1..n, NEW i \in 1..j, NEW s, NEW f, NEW t,
         \A k \in 1..n : log'[k] = log[k]
  PROVE  /\ AllBy(s, i, t) => AllBy(s, i, t)'
         /\ Quiet(s, f, t, i, j) => Quiet(s, f, t, i, j)'
<1>1. i \in Nat /\ i >= 1 /\ j \in Nat /\ j <= n /\ i - 1 \in Nat /\ i - 1 <= n /\ i \in 1..n
    OBVIOUS
<1>2. From(s, i, j)' = From(s, i, j) /\ log'[i] = log[i] /\ log'[j] = log[j]
    BY <1>1, OldRuns
<1>3. From(s, 1, i - 1)' = From(s, 1, i - 1) /\ \A k \in From(s, 1, i - 1) : log'[k] = log[k]
    BY <1>1, OldRuns
<1>4. AllBy(s, i, t) => AllBy(s, i, t)'
    BY <1>3 DEF AllBy
<1> QED
    BY <1>2, <1>4 DEF Quiet

\* The profile of another source.
LEMMA EwmaOther ==
  ASSUME IInv, Inspect \/ InspectIgnore, NEW s, s # packet.src, NEW r, Backing(s, r)
  PROVE  Backing(s, r)'
<1> PICK n : n = Len(log) + 1
    OBVIOUS
<1>1. /\ n \in Nat /\ n >= 1 /\ Len(log') = n /\ Len(log) = n - 1 /\ n - 1 \in Nat
      /\ log'[n].packet = packet /\ now' = now
      /\ \A k \in 1..(n - 1) : log'[k] = log[k]
    BY LogGrows DEF IInv, Inspect, InspectIgnore
<1>2. ASSUME NEW i \in 1..n PROVE From(s, i, n)' = From(s, i, n - 1)
    BY <1>1, RunGrows
<1>3. From(s, 1, n)' = From(s, 1, n - 1) /\ From(s, 1, n - 1) \subseteq 1..(n - 1)
    BY <1>1, <1>2 DEF From
<1>4. r.ewma_pps.den > 0
    BY DEF Backing
<1>5. LastSeen(s, r.last_update)'
    <2>1. ASSUME NEW k \in From(s, 1, n)', From(s, k, n)' = {k} PROVE log'[k].at = r.last_update
        <3>1. k \in From(s, 1, n - 1) /\ k \in 1..n /\ log'[k] = log[k]
            BY <1>1, <1>3
        <3>2. From(s, k, n - 1) = {k}
            BY <1>2, <2>1, <3>1
        <3> QED
            BY <1>1, <3>1, <3>2 DEF Backing, LastSeen
    <2> QED
        BY <1>1, <2>1 DEF LastSeen
<1>6. ASSUME r.cold_start PROVE ColdRun(s, r)'
    <2>1. PICK i \in 1..(n - 1) :
            /\ AllBy(s, i, r.window_start) /\ log[i].at >= r.window_start - MaxStall
            /\ Cardinality(From(s, i, n - 1)) = r.window_packets
        BY <1>1, <1>6 DEF Backing, ColdRun
    <2>2. i \in 1..n /\ log'[i] = log[i] /\ i \in 1..i
        BY <1>1
    <2>3. AllBy(s, i, r.window_start)'
        BY <1>1, <2>1, <2>2, OldQuiet
    <2>4. Cardinality(From(s, i, n)') = r.window_packets
        BY <1>2, <2>1, <2>2
    <2> QED
        BY <1>1, <2>1, <2>2, <2>3, <2>4 DEF ColdRun
<1>7. ASSUME ~r.cold_start PROVE WarmRun(s, r)'
    <2>1. PICK j \in From(s, 1, n - 1), l \in From(s, 1, n - 1), t \in 0..now : \E i \in 1..j :
            /\ j <= l /\ Quiet(s, r.ewma_pps, t, i, j)
            /\ log[l].at = r.window_start
            /\ Cardinality(From(s, l + 1, n - 1)) = r.window_packets
            /\ Unbroken(s, j, n - 1)
        BY <1>1, <1>7 DEF Backing, WarmRun
    <2>2. PICK i \in 1..j :
            /\ j <= l /\ Quiet(s, r.ewma_pps, t, i, j)
            /\ log[l].at = r.window_start
            /\ Cardinality(From(s, l + 1, n - 1)) = r.window_packets
            /\ Unbroken(s, j, n - 1)
        BY <2>1
    <2>3. /\ j \in 1..(n - 1) /\ l \in 1..(n - 1) /\ l + 1 \in 1..n /\ log'[l] = log[l]
          /\ j \in From(s, 1, n)' /\ l \in From(s, 1, n)' /\ j \in Nat /\ j >= 1 /\ j \in 1..n
        BY <1>1, <1>3
    <2>4. Quiet(s, r.ewma_pps, t, i, j)'
        BY <1>1, <2>2, <2>3, OldQuiet
    <2>5. Cardinality(From(s, l + 1, n)') = r.window_packets
        BY <1>2, <2>2, <2>3
    <2>6. Unbroken(s, j, n)'
        <3>1. Unbroken(s, j, n - 1)'
            BY <1>1, <2>2, <2>3, OldUnbroken
        <3>2. From(s, j, n)' = From(s, j, n - 1)'
            <4>1. From(s, j, n - 1)' = From(s, j, n - 1)
                BY <1>1, <2>3, OldRuns
            <4> QED
                BY <1>2, <2>3, <4>1
        <3> QED
            BY <3>1, <3>2 DEF Unbroken
    <2>7. Len(log') = n /\ now' = now
        BY <1>1
    <2> QED
        BY <2>2, <2>3, <2>4, <2>5, <2>6, <2>7 DEF WarmRun
<1> QED
    BY <1>4, <1>5, <1>6, <1>7 DEF Backing

\* The profile of the packet's source.  When the packet closes a window, the closed one
\* is the quiet run if it has lowered the baseline; otherwise the earlier run still is.
LEMMA EwmaOwn ==
  ASSUME IInv, EwmaRuns, Inspect, NEW p, p = packet, NEW u,
         u = ewma_updated(ewma_profile(p), now)
  PROVE  Backing(p.src, u)'
<1> PICK n : n = Len(log) + 1
    OBVIOUS
<1> PICK q : q = observed(ewma_profile(p), now)
    OBVIOUS
<1> DEFINE age == now - q.window_start
           b == baseline(q, age)
<1>1. /\ n \in Nat /\ n >= 1 /\ Len(log') = n /\ Len(log) = n - 1 /\ n - 1 \in Nat
      /\ log'[n].packet = p /\ log'[n].at = now /\ now' = now
      /\ \A k \in 1..(n - 1) : log'[k] = log[k]
    BY LogGrows DEF IInv, Inspect
<1>2. /\ q \in EwmaProfiles(clock) /\ q.ewma_pps.den > 0 /\ q.last_update = now
      /\ q.cold_start =>
           \E i \in 1..n : /\ AllBy(p.src, i, q.window_start)
                           /\ log'[i].at >= q.window_start - MaxStall
                           /\ Cardinality(From(p.src, i, n)') = q.window_packets
      /\ ~q.cold_start =>
           \E j, l \in From(p.src, 1, n - 1), t \in 0..now : \E i \in 1..j :
             /\ j <= l /\ Quiet(p.src, q.ewma_pps, t, i, j)
             /\ log[l].at = q.window_start
             /\ Cardinality(From(p.src, l + 1, n)') = q.window_packets
             /\ Unbroken(p.src, j, n)'
    BY ObservedIsReal
<1>3. /\ now \in Nat /\ clock \in Nat /\ MaxStall \in Nat /\ EwmaWindow \in Nat /\ EwmaWindow > 0
      /\ q.window_start \in Nat /\ q.window_packets \in Nat
      /\ q.ewma_pps.num \in Nat /\ q.ewma_pps.den \in Nat /\ age \in Int
    <2>1. now \in Nat /\ clock \in Nat /\ MaxStall \in Nat /\ EwmaWindow \in Nat /\ EwmaWindow > 0
        BY ConstantTypes, EwmaAssumption DEF IInv, Clocks
    <2>2. /\ q.window_start \in 0..clock /\ q.window_packets \in Nat
          /\ q.ewma_pps.num \in Nat /\ q.ewma_pps.den \in Nat
        BY <1>2 DEF EwmaProfiles
    <2> QED
        BY <2>1, <2>2
<1>4. \A k \in 1..(n - 1) : log[k].at \in Nat /\ log[k].at <= now
    <2>1. ASSUME NEW k \in 1..Len(log) PROVE log[k].at \in Nat /\ log[k].at <= now
        <3>1. log[k] \in Entries
            BY ElementOfSeq DEF IInv, Logged
        <3> QED
            BY <3>1 DEF Entries, IInv, Logged
    <2> QED
        BY <1>1, <2>1
<1>5. /\ From(p.src, 1, n)' = From(p.src, 1, n - 1) \cup {n} /\ n \in From(p.src, 1, n)'
      /\ From(p.src, 1, n - 1) \subseteq 1..(n - 1)
    BY <1>1, RunGrows
<1> PICK at : at = now
    OBVIOUS
<1>6. LastSeen(p.src, at)'
    <2>1. ASSUME NEW k \in From(p.src, 1, n)', From(p.src, k, n)' = {k} PROVE log'[k].at = at
        <3>1. k \in 1..n
            BY <1>1, <1>5
        <3>2. n \in From(p.src, k, n)'
            BY <1>1, <3>1, RunGrows
        <3> QED
            BY <1>1, <2>1, <3>2
    <2> QED
        BY <1>1, <2>1 DEF LastSeen
<1>7. CASE ~ewma_over(q, now)
    <2>1. u = q
        BY <1>7 DEF ewma_updated
    <2>2. ASSUME q.cold_start PROVE ColdRun(p.src, q)'
        <3>1. PICK i \in 1..n : /\ AllBy(p.src, i, q.window_start)
                                /\ log'[i].at >= q.window_start - MaxStall
                                /\ Cardinality(From(p.src, i, n)') = q.window_packets
            BY <1>2, <2>2
        <3>2. AllBy(p.src, i, q.window_start)'
            <4>1. i - 1 \in Nat /\ i - 1 <= n - 1
                BY <1>1
            <4>2. From(p.src, 1, i - 1)' = From(p.src, 1, i - 1)
                  /\ \A k \in From(p.src, 1, i - 1) : log'[k] = log[k]
                BY <1>1, <4>1, OldRuns
            <4> QED
                BY <3>1, <4>2 DEF AllBy
        <3> QED
            BY <1>1, <3>1, <3>2 DEF ColdRun
    <2>3. ASSUME ~q.cold_start PROVE WarmRun(p.src, q)'
        <3>1. PICK j \in From(p.src, 1, n - 1), l \in From(p.src, 1, n - 1), t \in 0..now :
                \E i \in 1..j :
                  /\ j <= l /\ Quiet(p.src, q.ewma_pps, t, i, j)
                  /\ log[l].at = q.window_start
                  /\ Cardinality(From(p.src, l + 1, n)') = q.window_packets
                  /\ Unbroken(p.src, j, n)'
            BY <1>2, <2>3
        <3>2. PICK i \in 1..j :
                /\ j <= l /\ Quiet(p.src, q.ewma_pps, t, i, j)
                /\ log[l].at = q.window_start
                /\ Cardinality(From(p.src, l + 1, n)') = q.window_packets
                /\ Unbroken(p.src, j, n)'
            BY <3>1
        <3>3. /\ j \in 1..(n - 1) /\ log'[l] = log[l]
              /\ j \in From(p.src, 1, n)' /\ l \in From(p.src, 1, n)'
            BY <1>1, <1>5
        <3>4. Quiet(p.src, q.ewma_pps, t, i, j)'
            BY <1>1, <3>2, <3>3, OldQuiet
        <3>5. Len(log') = n /\ now' = now
            BY <1>1
        <3> QED
            BY <3>2, <3>3, <3>4, <3>5 DEF WarmRun
    <2>4. q.ewma_pps.den > 0 /\ q.last_update = now
        BY <1>2
    <2>5. LastSeen(p.src, q.last_update)'
        <3>1. q.last_update = at
            BY <2>4
        <3> QED
            BY <1>6, <3>1
    <2> QED
        BY <2>1, <2>2, <2>3, <2>4, <2>5 DEF Backing
<1>8. CASE ewma_over(q, now)
    <2>1. age \in Nat /\ age >= EwmaWindow /\ age > 0
        BY <1>3, <1>8 DEF ewma_over
    <2>2. u.ewma_pps = b /\ u.window_packets = 0 /\ u.window_start = now /\ u.last_update = now
        <3>1. u = [q EXCEPT !.ewma_pps = b, !.cold_start = FALSE, !.window_packets = 0,
                            !.window_start = now]
            BY <1>8 DEF ewma_updated
        <3> HIDE DEF b
        <3> DEFINE cold == FALSE
        <3>2. u = [q EXCEPT !.ewma_pps = b, !.cold_start = cold, !.window_packets = 0,
                            !.window_start = now]
            BY <3>1
        <3> HIDE DEF cold
        <3> QED
            BY <1>2, <3>2 DEF EwmaProfiles
    <2>3. ~u.cold_start
        <3>1. u = [q EXCEPT !.ewma_pps = b, !.cold_start = FALSE, !.window_packets = 0,
                            !.window_start = now]
            BY <1>8 DEF ewma_updated
        <3> HIDE DEF b
        <3>2. u.cold_start = FALSE
            BY <1>2, <3>1 DEF EwmaProfiles
        <3> QED
            BY <3>2
    \* It is enough to name a quiet run up to some packet j.
    <2>4. ASSUME NEW j \in From(p.src, 1, n)', NEW t \in 0..now, NEW i \in 1..j,
                 NEW f, f = b, Quiet(p.src, f, t, i, j)', Unbroken(p.src, j, n)', f.den > 0
          PROVE  Backing(p.src, u)'
        <3>1. j <= n
            BY <1>1, <1>5
        <3>2. Cardinality(From(p.src, n + 1, n)') = 0
            <4>1. (n + 1)..n = {}
                BY <1>1
            <4>2. From(p.src, n + 1, n)' = {}
                BY <4>1 DEF From
            <4> QED
                BY <4>2, FS_EmptySet
        <3>3. u.ewma_pps = f
            BY <2>2, <2>4
        <3>4. Quiet(p.src, u.ewma_pps, t, i, j)'
            BY <2>4, <3>3 DEF Quiet
        <3>5. log'[n].at = u.window_start /\ Cardinality(From(p.src, n + 1, n)') = u.window_packets
            BY <1>1, <2>2, <3>2
        <3>6. Len(log') = n /\ now' = now
            BY <1>1
        <3> HIDE DEF b
        <3>7. WarmRun(p.src, u)'
            BY <1>5, <2>4, <3>1, <3>4, <3>5, <3>6 DEF WarmRun
        <3>8. LastSeen(p.src, u.last_update)'
            <4>1. u.last_update = at
                BY <2>2
            <4> QED
                BY <1>6, <4>1
        <3>9. u.ewma_pps.den > 0
            BY <2>4, <3>3
        <3> QED
            BY <2>3, <3>7, <3>8, <3>9 DEF Backing
    <2>5. CASE q.cold_start
        <3>1. PICK i \in 1..n : /\ AllBy(p.src, i, q.window_start)
                                /\ log'[i].at >= q.window_start - MaxStall
                                /\ Cardinality(From(p.src, i, n)') = q.window_packets
            BY <1>2, <2>5
        <3>2. b.num = q.window_packets /\ b.den = age
            BY <2>5 DEF baseline, Frac
        <3> PICK t : t = q.window_start
            OBVIOUS
        <3> PICK f : f = b
            OBVIOUS
        <3>3. AllBy(p.src, i, t)'
            <4>1. i - 1 \in Nat /\ i - 1 <= n - 1
                BY <1>1
            <4>2. From(p.src, 1, i - 1)' = From(p.src, 1, i - 1)
                  /\ \A k \in From(p.src, 1, i - 1) : log'[k] = log[k]
                BY <1>1, <4>1, OldRuns
            <4> QED
                BY <3>1, <4>2 DEF AllBy
        <3>4. log'[n].at - t = age /\ t \in 0..now
            BY <1>1, <1>3, <2>1
        <3>5. f.num = q.window_packets /\ f.den = age
            BY <3>2
        <3> HIDE DEF age, b
        <3>6. Cardinality(From(p.src, i, n)') * f.den <= f.num * (log'[n].at - t)
            <4>1. q.window_packets * age \in Nat
                BY <1>3, <2>1, Products
            <4> QED
                BY <3>1, <3>4, <3>5, <4>1
        <3>7. log'[n].at - t >= EwmaWindow /\ log'[i].at >= t - MaxStall /\ f.den > 0
            BY <2>1, <3>1, <3>4, <3>5
        <3>8. Quiet(p.src, f, t, i, n)'
            BY <3>3, <3>6, <3>7 DEF Quiet
        <3>9. Unbroken(p.src, n, n)'
            <4>1. \A x \in From(p.src, n, n)' : x = n
                BY <1>1 DEF From
            <4>2. ~(n < n)
                BY <1>1
            <4> QED
                BY <4>1, <4>2 DEF Unbroken
        <3> QED
            BY <1>5, <2>4, <3>4, <3>7, <3>8, <3>9
    <2>6. CASE ~q.cold_start
        <3>1. PICK j \in From(p.src, 1, n - 1), l \in From(p.src, 1, n - 1), t \in 0..now :
                \E i \in 1..j :
                  /\ j <= l /\ Quiet(p.src, q.ewma_pps, t, i, j)
                  /\ log[l].at = q.window_start
                  /\ Cardinality(From(p.src, l + 1, n)') = q.window_packets
                  /\ Unbroken(p.src, j, n)'
            BY <1>2, <2>6
        <3>2. PICK i \in 1..j :
                /\ j <= l /\ Quiet(p.src, q.ewma_pps, t, i, j)
                /\ log[l].at = q.window_start
                /\ Cardinality(From(p.src, l + 1, n)') = q.window_packets
                /\ Unbroken(p.src, j, n)'
            BY <3>1
        <3>3. /\ j \in 1..(n - 1) /\ l \in 1..(n - 1) /\ log'[j] = log[j] /\ log'[l] = log[l]
              /\ j \in From(p.src, 1, n)' /\ i \in 1..(n - 1) /\ log'[i] = log[i]
              /\ i \in Nat /\ j \in Nat /\ i >= 1 /\ j <= n - 1
            BY <1>1, <1>5
        <3> DEFINE wp == q.window_packets
                   on == q.ewma_pps.num
                   od == q.ewma_pps.den
        <3>4. /\ b.num = AlphaNum * wp * od + (AlphaDen - AlphaNum) * on * age
              /\ b.den = AlphaDen * age * od
            BY <2>6 DEF baseline, averaged, Frac
        <3>5. AlphaNum \in Nat /\ AlphaDen \in Nat /\ AlphaNum < AlphaDen
            BY EwmaAssumption
        <3>6. wp \in Nat /\ on \in Nat /\ od \in Nat /\ od > 0 /\ wp * od \in Nat /\ on * age \in Nat
            BY <1>2, <1>3, <2>1, Products
        <3> PICK f : f = b
            OBVIOUS
        <3>7. /\ f.num = AlphaNum * wp * od + (AlphaDen - AlphaNum) * on * age
              /\ f.den = AlphaDen * age * od
            BY <3>4
        <3> HIDE DEF age, wp, on, od, b
        <3>8. f.den > 0
            <4>1. \A x, y \in Nat : x > 0 /\ y > 0 => x * y \in Nat /\ x * y > 0
                OBVIOUS
            <4>2. AlphaDen * age \in Nat /\ AlphaDen * age > 0
                BY <2>1, <3>5, <4>1
            <4> QED
                BY <3>6, <3>7, <4>1, <4>2
        <3>9. CASE on * age <= wp * od
            <4> PICK c : c = Cardinality(From(p.src, i, j))
                OBVIOUS
            <4> PICK d : d = log[j].at - t
                OBVIOUS
            <4>1. c \in Nat
                BY <3>3, RunsFinite
            <4>2. /\ AllBy(p.src, i, t) /\ log[i].at >= t - MaxStall /\ d >= EwmaWindow
                  /\ c * od <= on * d
                BY <3>2 DEF Quiet, od, on
            <4>3. d \in Nat
                <5>1. log[j].at \in Nat
                    BY <1>4, <3>3
                <5>2. d >= EwmaWindow
                    BY <4>2
                <5>3. t \in Nat
                    BY <1>3
                <5>4. EwmaWindow \in Nat
                    BY <1>3
                <5> QED
                    BY <5>1, <5>2, <5>3, <5>4
            <4>4. c * f.den <= f.num * d
                <5>1. c * od <= on * d
                    BY <4>2
                <5>2. c * (AlphaDen * age * od)
                        <= (AlphaNum * wp * od + (AlphaDen - AlphaNum) * on * age) * d
                    BY <2>1, <3>5, <3>6, <3>9, <4>1, <4>3, <5>1, AverageKeeps
                <5> QED
                    BY <3>7, <5>2
            <4>5. Quiet(p.src, f, t, i, j)
                BY <4>2, <4>4 DEF Quiet
            <4>6. Quiet(p.src, f, t, i, j)'
                BY <1>1, <3>3, <4>5, OldQuiet
            <4> QED
                BY <2>4, <3>2, <3>3, <3>8, <4>6
        <3>10. CASE wp * od <= on * age
            <4> PICK t2 : t2 = q.window_start
                OBVIOUS
            <4>1. /\ l + 1 \in 1..n /\ l + 1 \in Nat /\ (l + 1) - 1 = l /\ l \in Nat /\ l >= 1
                  /\ l <= n - 1
                BY <1>1, <3>3
            <4>2. log'[n].at - t2 = age /\ t2 \in 0..now
                BY <1>1, <1>3, <2>1 DEF age
            <4>3. wp * f.den <= f.num * age
                BY <2>1, <3>5, <3>6, <3>7, <3>10, AverageLowers
            <4>4. Cardinality(From(p.src, l + 1, n)') * f.den <= f.num * (log'[n].at - t2)
                BY <3>2, <4>2, <4>3 DEF wp
            <4>5. log'[l + 1].at >= t2 - MaxStall
                <5>1. log[l].at \in Nat /\ log[l].at = t2 /\ log[l].at <= now
                    BY <1>4, <3>2, <3>3
                <5>2. CASE l + 1 = n
                    BY <1>1, <1>3, <5>1, <5>2
                <5>3. CASE l + 1 # n
                    <6>1. l + 1 \in 1..(n - 1) /\ l <= l + 1
                        BY <1>1, <4>1, <5>3
                    <6>2. log[l + 1].at >= log[l].at /\ log[l + 1].at \in Nat
                        <7>1. log[l].at <= log[l + 1].at
                            BY <1>1, <3>3, <6>1 DEF IInv, Logged
                        <7> QED
                            BY <1>4, <5>1, <6>1, <7>1
                    <6>3. log'[l + 1] = log[l + 1]
                        BY <1>1, <6>1
                    <6> QED
                        BY <1>3, <5>1, <6>2, <6>3
                <5> QED
                    BY <5>2, <5>3
            <4>6. AllBy(p.src, l + 1, t2)'
                <5>1. From(p.src, 1, l)' = From(p.src, 1, l)
                      /\ \A k \in From(p.src, 1, l) : log'[k] = log[k]
                    BY <1>1, <4>1, OldRuns
                <5>2. ASSUME NEW k \in From(p.src, 1, l) PROVE log[k].at <= t2
                    <6>1. k \in 1..(n - 1) /\ k <= l
                        BY <1>1, <4>1 DEF From
                    <6>2. log[k].at <= log[l].at
                        BY <1>1, <3>3, <6>1 DEF IInv, Logged
                    <6> QED
                        BY <3>2, <6>2
                <5>3. \A k \in From(p.src, 1, l)' : log'[k].at <= t2
                    BY <5>1, <5>2
                <5> QED
                    BY <4>1, <5>3 DEF AllBy
            <4>7. log'[n].at - t2 >= EwmaWindow
                BY <2>1, <4>2
            <4> PICK i2 : i2 = l + 1
                OBVIOUS
            <4>8. Quiet(p.src, f, t2, i2, n)'
                BY <4>4, <4>5, <4>6, <4>7 DEF Quiet
            <4>9. Unbroken(p.src, n, n)'
                <5>1. \A x \in From(p.src, n, n)' : x = n
                    BY <1>1 DEF From
                <5>2. ~(n < n)
                    BY <1>1
                <5> QED
                    BY <5>1, <5>2 DEF Unbroken
            <4> QED
                BY <1>5, <2>4, <3>8, <4>1, <4>2, <4>8, <4>9
        <3> QED
            BY <3>6, <3>9, <3>10
    <2> QED
        BY <2>5, <2>6
<1> QED
    BY <1>7, <1>8

\* The profiles after a packet.
LEMMA EwmaRunsStep ==
  ASSUME IInv, EwmaRuns, Inspect \/ InspectIgnore
  PROVE  EwmaRuns'
<1> PICK p : p = packet
    OBVIOUS
<1> PICK u : u = ewma_updated(ewma_profile(p), now)
    OBVIOUS
<1>1. \/ Inspect /\ ewma' = Put(ewma, p.src, u)
      \/ p.src \notin DOMAIN ewma /\ ewma' = ewma
    <2>1. CASE Inspect
        BY <2>1 DEF Inspect
    <2>2. CASE InspectIgnore
        BY <2>2 DEF InspectIgnore, stateVars, IInv, Profiles, Sources
    <2> QED
        BY <2>1, <2>2
<1>2. ASSUME NEW s \in DOMAIN ewma, s # p.src, NEW r, r = ewma[s] PROVE Backing(s, r)'
    <2>1. Backing(s, r)
        BY <1>2 DEF EwmaRuns
    <2> QED
        BY <1>2, <2>1, EwmaOther
<1>3. ASSUME Inspect PROVE Backing(p.src, u)'
    BY <1>3, EwmaOwn
<1>4. ASSUME NEW s \in DOMAIN ewma', NEW r, r = ewma'[s] PROVE Backing(s, r)'
    <2>1. CASE Inspect /\ ewma' = Put(ewma, p.src, u)
        <3>1. CASE s = p.src
            <4>1. r = u
                BY <1>4, <2>1, <3>1 DEF Put
            <4> QED
                BY <1>3, <2>1, <3>1, <4>1
        <3>2. CASE s # p.src
            <4>1. s \in DOMAIN ewma /\ r = ewma[s]
                BY <1>4, <2>1, <3>2 DEF Put
            <4> QED
                BY <1>2, <3>2, <4>1
        <3> QED
            BY <3>1, <3>2
    <2>2. CASE p.src \notin DOMAIN ewma /\ ewma' = ewma
        BY <1>2, <1>4, <2>2
    <2> QED
        BY <1>1, <2>1, <2>2
<1>5. ASSUME NEW s \in DOMAIN ewma' PROVE Backing(s, ewma[s])'
    <2> PICK r : r = ewma'[s]
        OBVIOUS
    <2>1. Backing(s, r)'
        BY <1>4
    <2> QED
        BY <2>1 DEF Backing, LastSeen, ColdRun, WarmRun, Quiet
<1> QED
    BY <1>5 DEF EwmaRuns

\* The multiple that a severity stands for.
Multiple(a) == IF a.severity = "HIGH" THEN HighMultiplier ELSE MediumMultiplier

\* The run after place l is a spike against the run from place i to place j.
Spike(a, i, j, l, t) ==
  /\ j <= l
  /\ AllBy(a.src, i, t) /\ log[i].at >= t - MaxStall
  /\ log[j].at - t >= EwmaWindow
  /\ a.at - log[l].at >= EwmaWindow
  /\ Reaches(Cardinality(From(a.src, l + 1, a.place)), a.at - log[l].at, Multiple(a) * PpsFloor)
  /\ Cardinality(From(a.src, l + 1, a.place)) * (log[j].at - t)
       >= Multiple(a) * Cardinality(From(a.src, i, j)) * (a.at - log[l].at)
  /\ Unbroken(a.src, j, a.place)

\* VolumeIsSpike, in terms of Spike.
LEMMA SpikeUnfolded ==
  VolumeIsSpike <=>
    \A a \in Raised("VOLUME_ANOMALY") :
      \E j, l \in From(a.src, 1, a.place - 1), t \in 0..a.at : \E i \in 1..j :
        Spike(a, i, j, l, t)
BY DEF VolumeIsSpike, Spike, Multiple

\* The findings after a packet.
LEMMA SpikeStep ==
  ASSUME IInv, EwmaRuns, VolumeIsSpike, Inspect \/ InspectIgnore
  PROVE  VolumeIsSpike'
<1> PICK n : n = Len(log) + 1
    OBVIOUS
<1> PICK p : p = packet
    OBVIOUS
<1>1. /\ n \in Nat /\ n >= 1 /\ Len(log') = n /\ Len(log) = n - 1 /\ n - 1 \in Nat
      /\ log'[n].packet = p /\ log'[n].at = now
      /\ \A k \in 1..(n - 1) : log'[k] = log[k]
    BY LogGrows DEF IInv, Inspect, InspectIgnore
<1>2. ASSUME NEW a \in raised, a.type = "VOLUME_ANOMALY"
      PROVE  \E j, l \in From(a.src, 1, a.place - 1)', t \in 0..a.at : \E i \in 1..j :
               Spike(a, i, j, l, t)'
    <2>1. a.place \in Nat /\ a.place >= 1 /\ a.place <= n - 1 /\ a.place - 1 \in Nat
          /\ a.place - 1 <= n - 1
        BY <1>1 DEF IInv, Alerts
    <2>2. PICK j \in From(a.src, 1, a.place - 1), l \in From(a.src, 1, a.place - 1), t \in 0..a.at :
            \E i \in 1..j : Spike(a, i, j, l, t)
        BY <1>2, SpikeUnfolded DEF Raised
    <2>3. PICK i \in 1..j : Spike(a, i, j, l, t)
        BY <2>2
    <2>4. From(a.src, 1, a.place - 1)' = From(a.src, 1, a.place - 1)
          /\ \A k \in From(a.src, 1, a.place - 1) : log'[k] = log[k]
        BY <1>1, <2>1, OldRuns
    <2>5. /\ j \in 1..(n - 1) /\ j \in Nat /\ j >= 1 /\ j <= n - 1
          /\ l + 1 \in Nat /\ l + 1 >= 1 /\ i \in 1..(n - 1) /\ i \in Nat /\ i >= 1
        BY <1>1, <2>1 DEF From
    <2> PICK l1 : l1 = l + 1
        OBVIOUS
    <2>6. From(a.src, l1, a.place)' = From(a.src, l1, a.place)
        <3>1. l1 \in Nat /\ l1 >= 1
            BY <2>5
        <3>2. l1..a.place \subseteq 1..(n - 1)
            BY <1>1, <2>1, <3>1
        <3> QED
            BY <1>1, <3>2 DEF From
    <2>7. From(a.src, i, j)' = From(a.src, i, j)
        BY <1>1, <2>5, OldRuns
    <2>8. Unbroken(a.src, j, a.place)'
        <3>1. Unbroken(a.src, j, a.place)
            BY <2>3 DEF Spike
        <3>2. \A k \in 1..a.place : log'[k] = log[k]
            BY <1>1, <2>1
        <3>3. a.place \in Nat /\ j \in Nat /\ j >= 1
            BY <2>1, <2>5
        <3>4. a.place <= a.place
            BY <3>3
        <3> QED
            BY <3>1, <3>2, <3>3, <3>4, OldUnbroken
    <2>9. AllBy(a.src, i, t)'
        <3>1. AllBy(a.src, i, t)
            BY <2>3 DEF Spike
        <3> QED
            BY <1>1, <2>5, <3>1, OldQuiet
    <2>10. log'[i] = log[i] /\ log'[j] = log[j] /\ log'[l] = log[l]
        BY <1>1, <2>4, <2>5
    <2>11. Spike(a, i, j, l, t)'
        BY <2>3, <2>6, <2>7, <2>8, <2>9, <2>10 DEF Spike, Multiple
    <2> QED
        BY <2>4, <2>11
<1>3. ASSUME NEW a \in raised', a \notin raised, a.type = "VOLUME_ANOMALY"
      PROVE  \E j, l \in From(a.src, 1, a.place - 1)', t \in 0..a.at : \E i \in 1..j :
               Spike(a, i, j, l, t)'
    <2>1. Inspect
        BY <1>3 DEF InspectIgnore
    <2>2. /\ a.src = p.src /\ a.at = now /\ a.place = n
          /\ <<a.type, a.severity>> \in findings(p)
        BY <1>3, <2>1, NewFinding
    <2>3. a.severity \in volume_anomaly(ewma_profile(p), now)
        BY <1>3, <2>2, FoundBecause
    <2> PICK q : q = observed(ewma_profile(p), now)
        OBVIOUS
    <2>0a. PICK age : age = now - q.window_start
        OBVIOUS
    <2>0m. PICK m : m = Multiple(a)
        OBVIOUS
    <2>4. ewma_over(q, now) /\ ~q.cold_start /\ exceeds(q, age, m)
        BY <2>0a, <2>0m, <2>3 DEF volume_anomaly, scored, Multiple
    <2>5. /\ q \in EwmaProfiles(clock) /\ q.ewma_pps.den > 0
          /\ \E j, l \in From(p.src, 1, n - 1), t \in 0..now : \E i \in 1..j :
               /\ j <= l /\ Quiet(p.src, q.ewma_pps, t, i, j)
               /\ log[l].at = q.window_start
               /\ Cardinality(From(p.src, l + 1, n)') = q.window_packets
               /\ Unbroken(p.src, j, n)'
        BY <2>1, <2>4, ObservedIsReal
    <2>6. PICK j \in From(p.src, 1, n - 1), l \in From(p.src, 1, n - 1), t \in 0..now :
            \E i \in 1..j :
              /\ j <= l /\ Quiet(p.src, q.ewma_pps, t, i, j)
              /\ log[l].at = q.window_start
              /\ Cardinality(From(p.src, l + 1, n)') = q.window_packets
              /\ Unbroken(p.src, j, n)'
        BY <2>5
    <2>7. PICK i \in 1..j :
            /\ j <= l /\ Quiet(p.src, q.ewma_pps, t, i, j)
            /\ log[l].at = q.window_start
            /\ Cardinality(From(p.src, l + 1, n)') = q.window_packets
            /\ Unbroken(p.src, j, n)'
        BY <2>6
    <2>8. From(p.src, 1, n - 1)' = From(p.src, 1, n - 1)
          /\ \A k \in From(p.src, 1, n - 1) : log'[k] = log[k]
        BY <1>1 DEF From
    <2>9. /\ j \in 1..(n - 1) /\ j \in Nat /\ j >= 1 /\ j <= n - 1
          /\ i \in 1..(n - 1) /\ i \in Nat /\ i >= 1
        BY <1>1 DEF From
    <2>10. /\ log'[i] = log[i] /\ log'[j] = log[j] /\ log'[l] = log[l]
           /\ From(p.src, i, j)' = From(p.src, i, j)
        <3>1. log'[i] = log[i] /\ log'[j] = log[j]
            BY <1>1, <2>9
        <3>2. log'[l] = log[l]
            BY <2>8
        <3>3. From(p.src, i, j)' = From(p.src, i, j)
            BY <1>1, <2>9, OldRuns
        <3> QED
            BY <3>1, <3>2, <3>3
    <2>0c. PICK c : c = Cardinality(From(p.src, i, j))
        OBVIOUS
    <2>0d. PICK d : d = log[j].at - t
        OBVIOUS
    <2>11. /\ AllBy(p.src, i, t) /\ log[i].at >= t - MaxStall /\ d >= EwmaWindow
           /\ c * q.ewma_pps.den <= q.ewma_pps.num * d
        BY <2>0c, <2>0d, <2>7 DEF Quiet
    <2>12. AllBy(p.src, i, t)'
        BY <1>1, <2>9, <2>11, OldQuiet
    <2>13. now \in Nat /\ EwmaWindow \in Nat /\ HighMultiplier \in Nat /\ MediumMultiplier \in Nat
        BY EwmaAssumption DEF IInv, Clocks
    <2>14. c \in Nat /\ d \in Nat
        <3>1. log[j].at \in Nat
            <4>1. log[j] \in Entries
                BY <1>1, <2>9, ElementOfSeq DEF IInv, Logged
            <4> QED
                BY <4>1 DEF Entries
        <3>2. d >= EwmaWindow /\ t \in Nat
            BY <2>11, <2>13
        <3>3. c \in Nat
            BY <2>0c, <2>9, RunsFinite
        <3> QED
            BY <2>0d, <2>13, <3>1, <3>2, <3>3
    <2>15. /\ q.window_packets \in Nat /\ q.ewma_pps.num \in Nat /\ q.ewma_pps.den \in Nat
           /\ q.window_start \in Nat
        <3>1. clock \in Nat /\ q.window_start \in 0..clock
            BY <2>5 DEF EwmaProfiles, IInv, Clocks
        <3> QED
            BY <2>5, <3>1 DEF EwmaProfiles
    <2>16. age >= EwmaWindow /\ age \in Nat /\ m \in Nat
        <3>1. age >= EwmaWindow
            BY <2>0a, <2>4 DEF ewma_over
        <3>2. m \in Nat
            BY <2>0m, <2>13 DEF Multiple
        <3> QED
            BY <2>0a, <2>13, <2>15, <3>1, <3>2
    <2>17. /\ q.window_packets * q.ewma_pps.den >= m * q.ewma_pps.num * age
           /\ Reaches(q.window_packets, age, m * PpsFloor)
        BY <2>4 DEF exceeds
    <2>18. q.window_packets * d >= m * c * age
        <3> DEFINE w == q.window_packets
                   num == q.ewma_pps.num
                   den == q.ewma_pps.den
        <3>1. /\ den > 0 /\ c * den <= num * d /\ w * den >= m * num * age
              /\ w \in Nat /\ num \in Nat /\ den \in Nat
            BY <2>5, <2>11, <2>15, <2>17
        <3> HIDE DEF w, num, den
        <3>2. w * d >= m * c * age
            BY <2>14, <2>16, <3>1, Louder
        <3> QED
            BY <3>2 DEF w
    <2>19. /\ a.at - log'[l].at = age /\ log'[j].at - t = d
           /\ Cardinality(From(a.src, l + 1, a.place)') = q.window_packets
           /\ Cardinality(From(a.src, i, j)') = c
        BY <2>0a, <2>0c, <2>0d, <2>2, <2>7, <2>10
    <2>20. Unbroken(a.src, j, a.place)' /\ AllBy(a.src, i, t)' /\ j <= l
           /\ log'[i].at >= t - MaxStall
        BY <2>2, <2>7, <2>10, <2>11, <2>12
    <2>21. d >= EwmaWindow
        BY <2>11
    <2>22. Multiple(a)' = m
        BY <2>0m DEF Multiple
    <2>23. Spike(a, i, j, l, t)'
        BY <2>16, <2>17, <2>18, <2>19, <2>20, <2>21, <2>22 DEF Spike
    <2>24. j \in From(a.src, 1, a.place - 1)' /\ l \in From(a.src, 1, a.place - 1)' /\ t \in 0..a.at
        BY <2>2, <2>8
    <2> QED
        BY <2>23, <2>24
<1>4. \A a \in Raised("VOLUME_ANOMALY")' :
        \E j, l \in From(a.src, 1, a.place - 1)', t \in 0..a.at : \E i \in 1..j :
          Spike(a, i, j, l, t)'
    BY <1>2, <1>3 DEF Raised
<1> QED
    BY <1>4 DEF VolumeIsSpike, Spike, Multiple

-----------------------------------------------------------------------------
(* Theorems *)

\* is_suppressed() and fire() in src/ThreatDetector.cpp: for any suppression
\* interval, two alerts of one type about one source are at least that far apart,
\* by the clock values inspect() read, and total_alerts_fired counts the alerts.
THEOREM NoAlertTooSoon == Spec => []AlertsSpaced
<1>1. IInv => AlertsSpaced
    BY IInvTypes DEF IInv, Spaced, Alerts, AlertsSpaced
<1> QED
    BY <1>1, Invariance, PTL

\* is_suppressed(): nothing that a check finds is kept back unless an alert of its
\* type about its source went out less than the interval before.
THEOREM NoAlertLostWithoutCause == Spec => []SuppressedHasCause
<1>1. IInv => SuppressedHasCause
    BY DEF IInv
<1> QED
    BY <1>1, Invariance, PTL
\* check_brute_force(): a brute-force alert is backed by a run of packets of its
\* source to its port that reached the rate, for any rate, window and stall.
THEOREM BruteForceAlertsAreReal == Spec => []BruteForceIsReal
<1> DEFINE Inv == BruteRuns /\ BruteForceIsReal
<1>1. Init => Inv
    <2>1. Init => DOMAIN brute_force = {} /\ raised = {}
        BY DEF Init, Empty
    <2> QED
        BY <2>1 DEF BruteRuns, BruteForceIsReal, Raised
<1>2. IInv /\ Inv /\ [Next]_vars => Inv'
    <2>1. UNCHANGED <<brute_force, log, raised>> /\ Inv => Inv'
        <3> SUFFICES ASSUME brute_force' = brute_force, log' = log, raised' = raised, Inv
                     PROVE  Inv'
            OBVIOUS
        <3>1. BruteRuns'
            BY DEF BruteRuns, SentTo, From
        <3>2. BruteForceIsReal'
            BY DEF BruteForceIsReal, Raised, SentTo, From, Times
        <3> QED
            BY <3>1, <3>2
    <2>2. [Next]_vars => Inspect \/ InspectIgnore \/ UNCHANGED <<brute_force, log, raised>>
        BY DEF Next, Tick, Receive, vars, stateVars
    <2> QED
        BY <2>1, <2>2, BruteRunsStep, BruteRealStep
<1> QED
    BY <1>1, <1>2, Invariance, PTL DEF Spec
\* SynFloodDetector::inspect(): a SYN-flood alert is backed by a run of TCP packets of
\* its source with the rate and the share of SYNs, for any rate, ratio, window and
\* stall.
THEOREM FloodAlertsAreReal == Spec => []FloodIsReal
<1> DEFINE Inv == SynRuns /\ FloodIsReal
<1>1. Init => Inv
    <2>1. Init => DOMAIN syn = {} /\ raised = {}
        BY DEF Init, Empty
    <2> QED
        BY <2>1 DEF SynRuns, FloodIsReal, Raised
<1>2. IInv /\ Inv /\ [Next]_vars => Inv'
    <2>1. ASSUME IInv, Inv, UNCHANGED <<syn, log, raised>>, now \in Nat, now' \in Nat, now <= now'
          PROVE  Inv'
        <3>1. SynRuns'
            <4>1. \A s \in DOMAIN syn : syn[s].window_start \in Nat
                BY <2>1 DEF IInv, Profiles, SynProfiles, Clocks
            <4>2. \A s \in DOMAIN syn : now >= syn[s].window_start => now' >= syn[s].window_start
                BY <2>1, <4>1
            <4>3. ASSUME NEW s \in DOMAIN syn
                  PROVE  \E i \in 1..(Len(log) + 1) :
                    /\ i <= Len(log) => log[i].at >= syn[s].window_start - MaxStall
                    /\ i = Len(log) + 1 => now' >= syn[s].window_start
                    /\ Cardinality(Tcp(From(s, i, Len(log)))) = syn[s].tcp_total_count
                    /\ Cardinality(SynAt(Tcp(From(s, i, Len(log))))) = syn[s].syn_only_count
                BY <2>1, <4>2 DEF SynRuns
            <4>4. log' = log /\ syn' = syn
                BY <2>1
            <4>5. ASSUME NEW s, NEW i
                  PROVE  /\ Tcp(From(s, i, Len(log)))' = Tcp(From(s, i, Len(log)))
                         /\ SynAt(Tcp(From(s, i, Len(log))))' = SynAt(Tcp(From(s, i, Len(log))))
                BY <4>4 DEF From, Tcp, SynAt, is_tcp
            <4> QED
                BY <4>3, <4>4, <4>5 DEF SynRuns
        <3>2. FloodIsReal'
            BY <2>1 DEF FloodIsReal, Raised, From, Tcp, SynAt, is_tcp, Times
        <3> QED
            BY <3>1, <3>2
    <2>2. IInv /\ [Next]_vars =>
            \/ Inspect \/ InspectIgnore
            \/ UNCHANGED <<syn, log, raised>> /\ now \in Nat /\ now' \in Nat /\ now <= now'
        BY DEF Next, Tick, Receive, vars, stateVars, IInv, Clocks
    <2> QED
        BY <2>1, <2>2, SynRunsStep, FloodRealStep
<1> QED
    BY <1>1, <1>2, Invariance, PTL DEF Spec

\* PortScanDetector::inspect(): a port-scan alert is backed by a run of packets of its
\* source, within a window and the stall, with the ports and the share of SYNs, for
\* any window, threshold and ratio.
THEOREM ScanAlertsAreReal == Spec => []DetectionIsReal
<1> DEFINE Inv == ScanRuns /\ DetectionIsReal
<1>1. Init => Inv
    <2>1. Init => DOMAIN scan = {} /\ raised = {}
        BY DEF Init, Empty
    <2> QED
        BY <2>1 DEF ScanRuns, DetectionIsReal, Raised
<1>2. IInv /\ Inv /\ [Next]_vars => Inv'
    <2>1. ASSUME Inv, scan' = scan, log' = log, raised' = raised PROVE Inv'
        <3>1. ASSUME NEW s, NEW i, NEW j
              PROVE  /\ From(s, i, j)' = From(s, i, j)
                     /\ WithPort(From(s, i, j))' = WithPort(From(s, i, j))
                     /\ PortsAt(WithPort(From(s, i, j)))' = PortsAt(WithPort(From(s, i, j)))
                     /\ SynAt(WithPort(From(s, i, j)))' = SynAt(WithPort(From(s, i, j)))
            BY <2>1 DEF From, WithPort, PortsAt, SynAt
        <3>2. ScanRuns'
            <4> PICK m : m = Len(log)
                OBVIOUS
            <4>1. m = Len(log')
                BY <2>1
            <4>2. ASSUME NEW s \in DOMAIN scan
                  PROVE  \E i \in From(s, 1, m)' :
                    /\ log'[i].at >= scan'[s].window_start - MaxStall
                    /\ PortsAt(WithPort(From(s, i, m)))' = scan'[s].dst_ports
                    /\ Cardinality(WithPort(From(s, i, m))') = scan'[s].tcp_packet_count
                    /\ Cardinality(SynAt(WithPort(From(s, i, m)))') = scan'[s].syn_only_count
                BY <2>1, <3>1 DEF ScanRuns
            <4> QED
                BY <2>1, <4>1, <4>2 DEF ScanRuns
        <3>3. DetectionIsReal'
            BY <2>1, <3>1 DEF DetectionIsReal, Raised, Times
        <3> QED
            BY <3>2, <3>3
    <2>2. [Next]_vars => Inspect \/ InspectIgnore \/ UNCHANGED <<scan, log, raised>>
        BY DEF Next, Tick, Receive, vars, stateVars
    <2> QED
        BY <2>1, <2>2, ScanRunsStep, ScanRealStep
<1> QED
    BY <1>1, <1>2, Invariance, PTL DEF Spec

\* EWMAEngine::update(): a volume alert is a spike.  The source's packets since its last
\* window have the multiple of the floor and the multiple of the rate of an earlier run
\* of its own packets, with no silence in between that resets the baseline; for any
\* smoothing factor, window, multiples and floor.
THEOREM VolumeAlertsAreSpikes == Spec => []VolumeIsSpike
<1> DEFINE Inv == EwmaRuns /\ VolumeIsSpike
<1>1. Init => Inv
    <2>1. Init => DOMAIN ewma = {} /\ raised = {}
        BY DEF Init, Empty
    <2> QED
        BY <2>1 DEF EwmaRuns, VolumeIsSpike, Raised
<1>2. IInv /\ Inv /\ [Next]_vars => Inv'
    <2>1. ASSUME Inv, ewma' = ewma, log' = log, raised' = raised,
                 now \in Nat, now' \in Nat, now <= now'
          PROVE  Inv'
        <3>1. ASSUME NEW s, NEW i, NEW j
              PROVE  /\ From(s, i, j)' = From(s, i, j)
                     /\ AllBy(s, i, j)' = AllBy(s, i, j)
                     /\ Unbroken(s, i, j)' = Unbroken(s, i, j)
            BY <2>1 DEF From, AllBy, Unbroken
        <3>2. ASSUME NEW s, NEW f, NEW t, NEW i, NEW j, Quiet(s, f, t, i, j)
              PROVE  Quiet(s, f, t, i, j)'
            BY <2>1, <3>1, <3>2 DEF Quiet
        <3> PICK m : m = Len(log)
            OBVIOUS
        <3>3. ASSUME NEW s, NEW r, Backing(s, r) PROVE Backing(s, r)'
            <4>1. r.cold_start => ColdRun(s, r)'
                BY <2>1, <3>1, <3>3 DEF Backing, ColdRun
            <4>2. ~r.cold_start => WarmRun(s, r)'
                BY <2>1, <3>1, <3>2, <3>3 DEF Backing, WarmRun
            <4>3. LastSeen(s, r.last_update)'
                BY <2>1, <3>1, <3>3 DEF Backing, LastSeen
            <4> QED
                BY <3>3, <4>1, <4>2, <4>3 DEF Backing
        <3>4. EwmaRuns'
            <4>1. ASSUME NEW s \in DOMAIN ewma PROVE Backing(s, ewma[s])'
                <5> PICK r : r = ewma[s]
                    OBVIOUS
                <5>1. Backing(s, r)'
                    BY <2>1, <3>3 DEF EwmaRuns
                <5>2. r = ewma'[s]
                    BY <2>1
                <5> QED
                    BY <5>1, <5>2 DEF Backing, LastSeen, ColdRun, WarmRun, Quiet
            <4> QED
                BY <2>1, <4>1 DEF EwmaRuns
        <3>5. VolumeIsSpike'
            BY <2>1, <3>1 DEF VolumeIsSpike, Raised
        <3> QED
            BY <3>4, <3>5
    <2>2. IInv /\ [Next]_vars =>
            \/ Inspect \/ InspectIgnore
            \/ UNCHANGED <<ewma, log, raised>> /\ now \in Nat /\ now' \in Nat /\ now <= now'
        BY DEF Next, Tick, Receive, vars, stateVars, IInv, Clocks
    <2> QED
        BY <2>1, <2>2, EwmaRunsStep, SpikeStep
<1> QED
    BY <1>1, <1>2, Invariance, PTL DEF Spec
=============================================================================
