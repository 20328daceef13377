-------------------------- MODULE DetectionProofs --------------------------
(***************************************************************************)
(* Proofs that the detectors miss nothing they promise to find: the        *)
(* completeness of the scan, brute-force and SYN-flood detectors of        *)
(* ThreatDetector, for every choice of windows, thresholds and rates.      *)
(***************************************************************************)
EXTENDS ThreatDetectorProofs, WellFoundedInduction

\* What a check finds is raised, about the packet.
LEMMA FoundIsRaised ==
  ASSUME Inspect, NEW type, NEW severity, <<type, severity>> \in findings(packet)
  PROVE  \E a \in raised' : /\ a.type = type /\ a.src = packet.src /\ a.port = packet.port
                            /\ a.at = now /\ a.place = Len(log) + 1
<1> DEFINE p == packet
           found == findings(p)
           f == <<type, severity>>
           alert(g) == [src |-> p.src, port |-> p.port, type |-> g[1],
                        severity |-> g[2], at |-> now, place |-> Len(log) + 1]
<1>1. raised' = raised \cup {alert(g) : g \in found}
    BY DEF Inspect, Fire
<1>2. alert(f) \in raised'
    BY <1>1
<1>3. /\ alert(f).type = type /\ alert(f).src = packet.src /\ alert(f).port = packet.port
      /\ alert(f).at = now /\ alert(f).place = Len(log) + 1
    OBVIOUS
<1> QED
    BY <1>2, <1>3

\* Nothing that was raised is forgotten.
LEMMA RaisedGrows == ASSUME Inspect \/ InspectIgnore PROVE raised \subseteq raised'
BY DEF Inspect, InspectIgnore, Fire

-----------------------------------------------------------------------------
(* Port scan *)

Ports(src, i, j) == PortsAt(WithPort(From(src, i, j)))
Few(S) == Cardinality(S) < ScanThreshold

\* A source without a profile has sent no packet with a port.
ScanKnown ==
  \A s \in Sources \ DOMAIN scan : WithPort(From(s, 1, Len(log))) = {}

\* All that an undetected source of nothing but SYNs contacted since place i was
\* seen by two windows at most, with few ports each, the second being the present
\* one; or it took a window's time or longer.
TwoWindows(s, i, j) ==
  \E m \in i..j :
    /\ Few(Ports(s, i, m - 1)) /\ Few(Ports(s, m, j))
    /\ Ports(s, m, j) \subseteq scan[s].dst_ports
    /\ m > i => log[i].at <= scan[s].window_start

ScanTail ==
  \A s \in DOMAIN scan, i \in 1..Len(log) :
    OnlySyn(WithPort(From(s, 1, Len(log)))) /\ ~Detects(s, i, Len(log)) =>
      \/ TwoWindows(s, i, Len(log))
      \/ \E k \in i..Len(log) : log[k].at - log[i].at >= ScanWindow

\* The ports of a run are finitely many; of no packets there are none, and so few.
LEMMA PortsFinite ==
  ASSUME NEW s, NEW i \in Nat, NEW j \in Int
  PROVE  /\ IsFiniteSet(Ports(s, i, j)) /\ Cardinality(Ports(s, i, j)) \in Nat
         /\ i > j => Ports(s, i, j) = {} /\ Few({})
<1> DEFINE run == WithPort(From(s, i, j))
<1>1. run \subseteq i..j
    BY DEF WithPort, From
<1>2. IsFiniteSet(i..j)
    BY FS_Interval
<1>3. IsFiniteSet(run)
    BY <1>1, <1>2, FS_Subset
<1>4. Ports(s, i, j) = {log[k].packet.port : k \in run}
    BY DEF Ports, PortsAt
<1>5. IsFiniteSet(Ports(s, i, j))
    <2> DEFINE f == [k \in run |-> log[k].packet.port]
    <2>1. f \in Surjection(run, Ports(s, i, j))
        BY <1>4 DEF Surjection
    <2> QED
        BY <1>3, <2>1, FS_Surjection
<1>6. i > j => Ports(s, i, j) = {}
    BY <1>1, <1>4
<1>7. Few({})
    BY FS_EmptySet, ScanAssumption DEF Few
<1> QED
    BY <1>5, <1>6, <1>7, FS_CardinalityType

\* What a packet changes for a source: it adds to the runs that reach it.
LEMMA PortsGrow ==
  ASSUME IInv, Inspect \/ InspectIgnore, NEW n, n = Len(log) + 1, NEW p, p = packet, NEW s
  PROVE  /\ \A i \in 1..n : IF p.src = s /\ p.port # 0
                             THEN Ports(s, i, n)' = Ports(s, i, n - 1) \cup {p.port}
                             ELSE Ports(s, i, n)' = Ports(s, i, n - 1)
         /\ \A i \in 1..n, j \in 0..(n - 1) : Ports(s, i, j)' = Ports(s, i, j)
         /\ OnlySyn(WithPort(From(s, 1, n)))' =>
              /\ OnlySyn(WithPort(From(s, 1, n - 1)))
              /\ p.src = s /\ p.port # 0 => p.kind = "syn"
         /\ \A i \in 1..n : Detects(s, i, n - 1) => Detects(s, i, n)'
         /\ \A i, j \in 1..(n - 1) : Detects(s, i, j) => Detects(s, i, j)'
<1>1. /\ n \in Nat /\ n >= 1 /\ log'[n].packet = p
      /\ \A k \in 1..(n - 1) : log'[k] = log[k]
    BY LogGrows DEF IInv, Inspect, InspectIgnore
<1>2. ASSUME NEW i \in 1..n
      PROVE  IF p.src = s /\ p.port # 0
               THEN Ports(s, i, n)' = Ports(s, i, n - 1) \cup {p.port}
               ELSE Ports(s, i, n)' = Ports(s, i, n - 1)
    <2> DEFINE old == WithPort(From(s, i, n - 1))
               new == WithPort(From(s, i, n))'
    <2>1. i..n = (i..(n - 1)) \cup {n} /\ i..(n - 1) \subseteq 1..(n - 1)
        BY <1>1
    <2>2. new = IF p.src = s /\ p.port # 0 THEN old \cup {n} ELSE old
        BY <1>1, <2>1 DEF WithPort, From
    <2>3. \A k \in old : log'[k] = log[k]
        BY <1>1, <2>1 DEF WithPort, From
    <2>4. /\ Ports(s, i, n - 1) = {log[k].packet.port : k \in old}
          /\ Ports(s, i, n)' = {log'[k].packet.port : k \in new}
        BY DEF Ports, PortsAt
    <2> HIDE DEF old, new
    <2>5. log'[n].packet.port = p.port
        BY <1>1
    <2>6. CASE p.src = s /\ p.port # 0
        <3>1. new = old \cup {n}
            BY <2>2, <2>6
        <3> QED
            BY <2>3, <2>4, <2>5, <2>6, <3>1
    <2>7. CASE ~(p.src = s /\ p.port # 0)
        <3>1. new = old
            BY <2>2, <2>7
        <3> QED
            BY <2>3, <2>4, <2>7, <3>1
    <2> QED
        BY <2>6, <2>7
<1>3. ASSUME NEW i \in 1..n, NEW j \in 0..(n - 1)
      PROVE  From(s, i, j)' = From(s, i, j) /\ Ports(s, i, j)' = Ports(s, i, j)
    <2>1. i..j \subseteq 1..(n - 1)
        BY <1>1, <1>3
    <2>2. From(s, i, j)' = From(s, i, j) /\ \A k \in From(s, i, j) : log'[k] = log[k]
        BY <1>1, <2>1 DEF From
    <2>3. WithPort(From(s, i, j))' = WithPort(From(s, i, j))
        BY <2>2 DEF WithPort
    <2>4. \A k \in WithPort(From(s, i, j)) : log'[k] = log[k]
        BY <2>2 DEF WithPort
    <2> QED
        BY <2>2, <2>3, <2>4 DEF Ports, PortsAt
<1>4. ASSUME OnlySyn(WithPort(From(s, 1, n)))'
      PROVE  /\ OnlySyn(WithPort(From(s, 1, n - 1)))
             /\ p.src = s /\ p.port # 0 => p.kind = "syn"
    <2>1. \A k \in 1..n : log'[k].packet.src = s /\ log'[k].packet.port # 0 =>
                            log'[k].packet.kind = "syn"
        BY <1>4 DEF OnlySyn, WithPort, SynAt, From
    <2>2. n \in 1..n /\ 1..(n - 1) \subseteq 1..n
        BY <1>1
    <2>3. \A k \in 1..(n - 1) : log[k].packet.src = s /\ log[k].packet.port # 0 =>
                                  log[k].packet.kind = "syn"
        BY <1>1, <2>1, <2>2
    <2>4. OnlySyn(WithPort(From(s, 1, n - 1)))
        BY <2>3 DEF OnlySyn, WithPort, SynAt, From
    <2> QED
        BY <1>1, <2>1, <2>2, <2>4
<1>5. ASSUME NEW i \in 1..n, NEW j, NEW l, i..j \subseteq i..l, i..j \subseteq 1..(n - 1),
             Detects(s, i, j)
      PROVE  Detects(s, i, l)'
    <2>1. PICK a \in raised : a.type = "PORT_SCAN" /\ a.place \in From(s, i, j)
        BY <1>5 DEF Detects, Raised
    <2>2. a \in raised' /\ a.place \in From(s, i, l)'
        BY <1>1, <1>5, <2>1, RaisedGrows DEF From
    <2> QED
        BY <2>1, <2>2 DEF Detects, Raised
<1>6. \A i \in 1..n : Detects(s, i, n - 1) => Detects(s, i, n)'
    <2>1. \A i \in 1..n : i..(n - 1) \subseteq i..n /\ i..(n - 1) \subseteq 1..(n - 1)
        BY <1>1
    <2> QED
        BY <1>5, <2>1
<1>7. \A i, j \in 1..(n - 1) : Detects(s, i, j) => Detects(s, i, j)'
    <2>1. \A i, j \in 1..(n - 1) : i \in 1..n /\ i..j \subseteq 1..(n - 1)
        BY <1>1
    <2> QED
        BY <1>5, <2>1
<1> QED
    BY <1>2, <1>3, <1>4, <1>6, <1>7

\* A window of nothing but SYNs in which nothing is detected has few ports.
LEMMA NoScanFewPorts ==
  ASSUME IInv, ScanRuns, Inspect, NEW n, n = Len(log) + 1, NEW p, p = packet, p.port # 0,
         NEW q, q = scan_inspected(scan_profile(p), p.port, p.kind, now),
         OnlySyn(WithPort(From(p.src, 1, n)))',
         NEW l \in 1..n, ~Detects(p.src, l, n)'
  PROVE  IsFiniteSet(q.dst_ports) /\ Few(q.dst_ports)
<1> PICK s : s = p.src
    OBVIOUS
<1>1. /\ n \in Nat /\ n >= 1 /\ log'[n].packet = p
    BY LogGrows DEF IInv, Inspect
<1>2. PICK i \in 1..n :
        /\ Ports(s, i, n)' = q.dst_ports
        /\ Cardinality(WithPort(From(s, i, n))') = q.tcp_packet_count
        /\ Cardinality(SynAt(WithPort(From(s, i, n)))') = q.syn_only_count
    BY ScanWindowIsReal DEF Ports
<1>3. IsFiniteSet(q.dst_ports) /\ Cardinality(q.dst_ports) \in Nat
    <2>1. Ports(s, i, n)' = Ports(s, i, n - 1) \cup {p.port}
        BY PortsGrow
    <2>2. IsFiniteSet(Ports(s, i, n - 1))
        <3>1. i \in Nat /\ n - 1 \in Int
            BY <1>1
        <3> QED
            BY <3>1, PortsFinite
    <2> DEFINE S == Ports(s, i, n - 1)
    <2>3. q.dst_ports = S \cup {p.port} /\ IsFiniteSet(S)
        BY <1>2, <2>1, <2>2
    <2> HIDE DEF S
    <2>4. IsFiniteSet(q.dst_ports)
        BY <2>3, FS_AddElement
    <2> QED
        BY <2>4, FS_CardinalityType
<1>4. q.tcp_packet_count \in Nat /\ q.syn_only_count = q.tcp_packet_count
    <2>1. i..n \subseteq 1..n
        BY <1>1
    <2>2. SynAt(WithPort(From(s, i, n)))' = WithPort(From(s, i, n))'
        BY <2>1 DEF OnlySyn, WithPort, SynAt, From
    <2>3. q \in ScanProfiles(clock)
        BY ScanWindowIsReal
    <2> QED
        BY <1>2, <2>2, <2>3 DEF ScanProfiles
<1>5. ratio_met(q)
    <2>1. /\ ScanRatioNum \in Nat /\ ScanRatioDen \in Nat /\ ScanRatioNum <= ScanRatioDen
        BY ScanAssumption
    <2>2. ASSUME NEW c \in Nat PROVE c * ScanRatioDen >= ScanRatioNum * c
        BY <2>1
    <2> QED
        BY <1>4, <2>2 DEF ratio_met
<1>6. ASSUME ~Few(q.dst_ports) PROVE FALSE
    <2>1. many_ports(q)
        BY <1>3, <1>6, ScanAssumption DEF Few, many_ports
    <2>2. PICK severity : severity \in port_scan(scan_profile(p), p.port, p.kind, now)
        BY <1>5, <2>1 DEF port_scan
    <2>3. <<"PORT_SCAN", severity>> \in findings(packet)
        BY <2>2 DEF findings, When
    <2>4. PICK a \in raised' : a.type = "PORT_SCAN" /\ a.place = n
        BY <2>3, FoundIsRaised
    <2>5. n \in From(s, l, n)'
        BY <1>1 DEF From
    <2> QED
        BY <2>4, <2>5 DEF Detects, Raised
<1> QED
    BY <1>3, <1>6

\* The profile that inspect() leaves, without the counts.
LEMMA ScanUpdate ==
  ASSUME NEW c \in Nat, NEW r \in ScanProfiles(c), NEW port, NEW kind, NEW t
  PROVE  LET q == scan_inspected(r, port, kind, t)
         IN IF t - r.window_start >= ScanWindow
              THEN q.window_start = t /\ q.dst_ports = {port}
              ELSE q.window_start = r.window_start /\ q.dst_ports = r.dst_ports \cup {port}
<1> DEFINE b == rolled(r, t)
           q == scan_inspected(r, port, kind, t)
           ports == b.dst_ports \cup {port}
           all == b.tcp_packet_count + 1
           syns == IF kind = "syn" THEN b.syn_only_count + 1 ELSE b.syn_only_count
<1>1. /\ DOMAIN b = {"dst_ports", "tcp_packet_count", "syn_only_count", "window_start"}
      /\ IF t - r.window_start >= ScanWindow
           THEN b.window_start = t /\ b.dst_ports = {}
           ELSE b.window_start = r.window_start /\ b.dst_ports = r.dst_ports
    BY DEF rolled, ScanProfile, ScanProfiles
<1>2. q = [b EXCEPT !.dst_ports = ports, !.tcp_packet_count = all, !.syn_only_count = syns]
    BY DEF scan_inspected
<1> HIDE DEF b, q, ports, all, syns
<1>3. q.window_start = b.window_start /\ q.dst_ports = ports
    BY <1>1, <1>2
<1> QED
    BY <1>1, <1>3 DEF ports, q

\* The tail of a source after a packet, of its own or not.
LEMMA ScanTailStep ==
  ASSUME IInv, ScanRuns, ScanKnown, ScanTail, Inspect \/ InspectIgnore,
         NEW n, n = Len(log) + 1, NEW s \in DOMAIN scan', NEW i \in 1..n,
         OnlySyn(WithPort(From(s, 1, n)))', ~Detects(s, i, n)'
  PROVE  \/ TwoWindows(s, i, n)'
         \/ \E k \in i..n : log'[k].at - log'[i].at >= ScanWindow
<1> PICK p : p = packet
    OBVIOUS
<1> PICK w : w = scan'[s]
    OBVIOUS
<1> DEFINE own == p.src = s /\ p.port # 0
<1>1. /\ n \in Nat /\ n >= 1 /\ Len(log') = n /\ Len(log) = n - 1
      /\ log'[n].packet = p /\ log'[n].at = now
      /\ \A k \in 1..(n - 1) : log'[k] = log[k]
    BY LogGrows DEF IInv, Inspect, InspectIgnore
<1>2. /\ \A k \in 1..n : IF own THEN Ports(s, k, n)' = Ports(s, k, n - 1) \cup {p.port}
                               ELSE Ports(s, k, n)' = Ports(s, k, n - 1)
      /\ \A k \in 1..n, j \in 0..(n - 1) : Ports(s, k, j)' = Ports(s, k, j)
      /\ OnlySyn(WithPort(From(s, 1, n - 1))) /\ ~Detects(s, i, n - 1)
    BY PortsGrow
<1>3. Ports(s, n, n - 1) = {} /\ Ports(s, i, i - 1) = {}
    <2>1. i \in Nat /\ n - 1 \in Int /\ i - 1 \in Int /\ i > i - 1 /\ n > n - 1
        BY <1>1
    <2> QED
        BY <1>1, <2>1, PortsFinite
<1>4. Few({})
    BY FS_EmptySet, ScanAssumption DEF Few
<1>5. ASSUME NEW m \in i..n, Few(Ports(s, i, m - 1)), Ports(s, m, n)' \subseteq w.dst_ports,
             Cardinality(Ports(s, m, n)') < ScanThreshold,
             m > i => log'[i].at <= w.window_start
      PROVE  TwoWindows(s, i, n)'
    <2>1. m - 1 \in 0..(n - 1)
        BY <1>1, <1>5
    <2>2. Ports(s, i, m - 1)' = Ports(s, i, m - 1)
        BY <1>2, <2>1
    <2>3. Cardinality(Ports(s, i, m - 1)') < ScanThreshold
        BY <1>5, <2>2 DEF Few
    <2> QED
        BY <1>5, <2>3 DEF TwoWindows, Few
<1>6. ASSUME NEW m \in i..n, Few(Ports(s, i, m - 1)), Ports(s, m, n)' \subseteq w.dst_ports,
             IsFiniteSet(w.dst_ports), Few(w.dst_ports),
             m > i => log'[i].at <= w.window_start
      PROVE  TwoWindows(s, i, n)'
    <2> DEFINE S == Ports(s, m, n)'
    <2>1. Cardinality(S) <= Cardinality(w.dst_ports) /\ Cardinality(S) \in Nat
          /\ Cardinality(w.dst_ports) \in Nat
        BY <1>6, FS_Subset, FS_CardinalityType
    <2>2. Cardinality(S) < ScanThreshold
        <3> HIDE DEF S
        <3> QED
            BY <1>6, <2>1, ScanAssumption DEF Few
    <2> QED
        BY <1>5, <1>6, <2>2
<1>7. i \in i..n /\ n \in i..n /\ n \in 1..n
    BY <1>1
<1>8. CASE ~own
    <2>1. s \in DOMAIN scan /\ w = scan[s]
        BY <1>8 DEF Inspect, InspectIgnore, stateVars, Put
    <2>2. CASE i = n
        <3>1. Ports(s, n, n)' = {}
            BY <1>2, <1>3, <1>7, <1>8
        <3>2. Few(Ports(s, i, i - 1)) /\ Cardinality({}) < ScanThreshold
            BY <1>3, <1>4 DEF Few
        <3>3. ~(i > i)
            OBVIOUS
        <3> QED
            BY <1>5, <1>7, <2>2, <3>1, <3>2, <3>3
    <2>3. CASE i # n
        <3>1. i \in 1..(n - 1) /\ i..(n - 1) \subseteq i..n /\ i..(n - 1) \subseteq 1..n
              /\ i..(n - 1) \subseteq 1..(n - 1)
            BY <1>1, <2>3
        <3>2. CASE TwoWindows(s, i, n - 1)
            <4>1. PICK m \in i..(n - 1) :
                    /\ Few(Ports(s, i, m - 1)) /\ Few(Ports(s, m, n - 1))
                    /\ Ports(s, m, n - 1) \subseteq w.dst_ports
                    /\ m > i => log[i].at <= w.window_start
                BY <2>1, <3>2 DEF TwoWindows
            <4>2. Ports(s, m, n)' = Ports(s, m, n - 1) /\ m \in i..n /\ log'[i] = log[i]
                BY <1>1, <1>2, <1>8, <3>1
            <4> QED
                BY <1>5, <4>1, <4>2 DEF Few
        <3>3. CASE \E k \in i..(n - 1) : log[k].at - log[i].at >= ScanWindow
            BY <1>1, <3>1, <3>3
        <3> QED
            BY <1>1, <1>2, <2>1, <3>1, <3>2, <3>3 DEF ScanTail
    <2> QED
        BY <2>2, <2>3
<1>9. CASE own
    <2>1. Inspect
        <3>1. ASSUME InspectIgnore PROVE FALSE
            <4>1. s \in Sources /\ packet.src = None
                BY <3>1 DEF InspectIgnore, stateVars, IInv, Profiles
            <4> QED
                BY <1>9, <4>1 DEF Sources
        <3> QED
            BY <3>1
    <2>1s. s \in Sources
        BY <1>9, <2>1, SourceFacts DEF IInv, Inspect
    <2>2. w = scan_inspected(scan_profile(p), p.port, p.kind, now)
        BY <1>9, <2>1 DEF Inspect, Put
    <2>3. IsFiniteSet(w.dst_ports) /\ Few(w.dst_ports)
        BY <1>9, <2>1, <2>2, NoScanFewPorts
    <2>4. /\ clock \in Nat /\ now \in Nat /\ now <= clock /\ ScanWindow \in Nat
        BY ScanAssumption DEF IInv, Clocks
    <2> PICK r : r = scan_profile(p)
        OBVIOUS
    <2>5. r \in ScanProfiles(clock)
        <3>1. ScanProfile(clock) \in ScanProfiles(clock)
            BY <2>4 DEF ScanProfile, ScanProfiles
        <3> QED
            BY <3>1, LookupType DEF scan_profile, IInv, Profiles
    <2>6. IF now - r.window_start >= ScanWindow
            THEN w.window_start = now /\ w.dst_ports = {p.port}
            ELSE w.window_start = r.window_start /\ w.dst_ports = r.dst_ports \cup {p.port}
        BY <2>2, <2>4, <2>5, ScanUpdate
    <2>7. p.port \in w.dst_ports
        BY <2>6
    <2>8. CASE Ports(s, i, n - 1) = {}
        <3>1. Ports(s, i, n)' \subseteq w.dst_ports
            BY <1>2, <1>9, <2>7, <2>8
        <3>2. Few(Ports(s, i, i - 1))
            BY <1>3, <1>4
        <3>3. ~(i > i)
            OBVIOUS
        <3> QED
            BY <1>6, <1>7, <2>3, <3>1, <3>2, <3>3
    <2>9. CASE Ports(s, i, n - 1) # {}
        <3>1. i # n
            BY <1>3, <2>9
        <3>2. i \in 1..(n - 1) /\ i..(n - 1) \subseteq i..n /\ i..(n - 1) \subseteq 1..n
              /\ i..(n - 1) \subseteq 1..(n - 1)
            BY <1>1, <3>1
        <3>3. s \in DOMAIN scan /\ r = scan[s]
            <4>1. s \in DOMAIN scan
                BY <1>1, <2>1s, <2>9, <3>2 DEF ScanKnown, Ports, PortsAt, WithPort, From
            <4> QED
                BY <1>9, <4>1 DEF scan_profile, Lookup
        <3>4. CASE \E k \in i..(n - 1) : log[k].at - log[i].at >= ScanWindow
            BY <1>1, <3>2, <3>4
        <3>5. CASE TwoWindows(s, i, n - 1)
            <4>1. PICK m \in i..(n - 1) :
                    /\ Few(Ports(s, i, m - 1)) /\ Few(Ports(s, m, n - 1))
                    /\ Ports(s, m, n - 1) \subseteq r.dst_ports
                    /\ m > i => log[i].at <= r.window_start
                BY <3>3, <3>5 DEF TwoWindows
            <4>2. /\ Ports(s, m, n)' = Ports(s, m, n - 1) \cup {p.port}
                  /\ m \in i..n /\ log'[i] = log[i]
                BY <1>1, <1>2, <1>9, <3>2
            <4>3. log[i].at \in Nat /\ log[i].at <= now /\ r.window_start \in Nat
                <5>1. log[i] \in Entries
                    BY <1>1, <3>2, ElementOfSeq DEF IInv, Logged
                <5> QED
                    BY <1>1, <2>5, <3>2, <5>1 DEF IInv, Logged, Entries, ScanProfiles
            <4>4. CASE ~(now - r.window_start >= ScanWindow)
                <5>1. /\ Ports(s, m, n)' \subseteq w.dst_ports
                      /\ m > i => log'[i].at <= w.window_start
                    BY <2>6, <4>1, <4>2, <4>4
                <5> QED
                    BY <1>6, <2>3, <4>1, <4>2, <5>1
            <4>5. CASE now - r.window_start >= ScanWindow /\ m > i
                <5>1. now - log[i].at >= ScanWindow
                    BY <2>4, <4>1, <4>3, <4>5
                <5> QED
                    BY <1>1, <1>7, <4>2, <5>1
            <4>6. CASE now - r.window_start >= ScanWindow /\ m = i
                <5>1. w.window_start = now /\ w.dst_ports = {p.port}
                    BY <2>6, <4>6
                <5>2. Ports(s, n, n)' = {p.port}
                    BY <1>2, <1>3, <1>7, <1>9
                <5>3. Few(Ports(s, i, n - 1)) /\ log'[i].at <= w.window_start
                    BY <4>1, <4>2, <4>3, <4>6, <5>1
                <5> QED
                    BY <1>6, <1>7, <2>3, <5>1, <5>2, <5>3
            <4>7. m > i \/ m = i
                BY <1>1
            <4> QED
                BY <4>4, <4>5, <4>6, <4>7
        <3> QED
            BY <1>1, <1>2, <3>2, <3>3, <3>4, <3>5 DEF ScanTail
    <2> QED
        BY <2>8, <2>9
<1> QED
    BY <1>8, <1>9

\* A packet with a source and a port makes a profile.
LEMMA ScanKnownStep ==
  ASSUME IInv, ScanKnown, Inspect \/ InspectIgnore
  PROVE  ScanKnown'
<1> PICK n : n = Len(log) + 1
    OBVIOUS
<1>1. /\ n \in Nat /\ n >= 1 /\ Len(log') = n /\ Len(log) = n - 1
      /\ log'[n].packet = packet
      /\ \A k \in 1..(n - 1) : log'[k] = log[k]
    BY LogGrows DEF IInv, Inspect, InspectIgnore
<1>2. DOMAIN scan \subseteq DOMAIN scan'
    BY DEF Inspect, InspectIgnore, stateVars, Put
<1>3. ASSUME NEW s \in Sources, s \notin DOMAIN scan' PROVE WithPort(From(s, 1, n))' = {}
    <2>1. \A k \in 1..(n - 1) : log[k].packet.src = s => log[k].packet.port = 0
        BY <1>1, <1>2, <1>3 DEF ScanKnown, WithPort, From
    <2>2. packet.src = s => packet.port = 0
        BY <1>3 DEF Inspect, InspectIgnore, Put, Sources
    <2>3. \A k \in 1..n : k \in 1..(n - 1) \/ k = n
        BY <1>1
    <2>4. \A k \in 1..n : log'[k].packet.src = s => log'[k].packet.port = 0
        BY <1>1, <2>1, <2>2, <2>3
    <2> QED
        BY <2>4 DEF WithPort, From
<1> QED
    BY <1>1, <1>3 DEF ScanKnown

\* Two windows with few ports each make less than twice the threshold.
LEMMA TwoWindowsFewPorts ==
  ASSUME NEW s, NEW i \in Nat, NEW j \in Nat, NEW m \in i..j,
         Few(Ports(s, i, m - 1)), Few(Ports(s, m, j))
  PROVE  ~(Cardinality(Ports(s, i, j)) >= 2 * ScanThreshold - 1)
<1> DEFINE A == Ports(s, i, m - 1)
           B == Ports(s, m, j)
<1>1. i..j = (i..(m - 1)) \cup (m..j)
    OBVIOUS
<1>2. From(s, i, j) = From(s, i, m - 1) \cup From(s, m, j)
    BY <1>1 DEF From
<1>3. Ports(s, i, j) = A \cup B
    BY <1>2 DEF Ports, PortsAt, WithPort
<1>4. IsFiniteSet(A) /\ IsFiniteSet(B)
    <2>1. m - 1 \in Int /\ m \in Nat /\ j \in Int
        OBVIOUS
    <2> QED
        BY <2>1, PortsFinite
<1>5. Cardinality(A) < ScanThreshold /\ Cardinality(B) < ScanThreshold
    BY DEF Few
<1> HIDE DEF A, B
<1>6. /\ Cardinality(A) \in Nat /\ Cardinality(B) \in Nat /\ Cardinality(A \cap B) \in Nat
      /\ Cardinality(A \cup B) = Cardinality(A) + Cardinality(B) - Cardinality(A \cap B)
    <2>1. IsFiniteSet(A \cap B)
        BY <1>4, FS_Intersection
    <2> QED
        BY <1>4, <2>1, FS_Union, FS_CardinalityType
<1> QED
    BY <1>3, <1>5, <1>6, ScanAssumption

\* A source that contacts so many ports up to the end of the log is detected.
TwiceNow ==
  \A s \in Sources, i \in 1..Len(log) :
    Contacts(s, 2 * ScanThreshold - 1, i, Len(log)) => Detects(s, i, Len(log))

\* Two windows at most share a window's time.
LEMMA TailIsDetected == ASSUME IInv, ScanKnown, ScanTail PROVE TwiceNow
<1> PICK n : n = Len(log)
    OBVIOUS
<1>1. n \in Nat /\ log \in Seq(Entries)
    BY LenProperties DEF IInv, Logged
<1>2. SUFFICES ASSUME NEW s \in Sources, NEW i \in 1..n, ~Detects(s, i, n),
                      OnlySyn(WithPort(From(s, 1, n))),
                      log[n].at - log[i].at < ScanWindow,
                      Cardinality(Ports(s, i, n)) >= 2 * ScanThreshold - 1
               PROVE  FALSE
    BY DEF TwiceNow, Contacts, Ports
<1>3. CASE s \notin DOMAIN scan
    <2>1. i..n \subseteq 1..n
        BY <1>1
    <2>2. Ports(s, i, n) = {}
        BY <1>3, <2>1 DEF ScanKnown, Ports, PortsAt, WithPort, From
    <2> QED
        BY <1>2, <2>2, FS_EmptySet, ScanAssumption
<1>4. CASE s \in DOMAIN scan
    <2>1. CASE TwoWindows(s, i, n)
        <3>1. PICK m \in i..n : Few(Ports(s, i, m - 1)) /\ Few(Ports(s, m, n))
            BY <2>1 DEF TwoWindows
        <3>2. i \in Nat
            OBVIOUS
        <3> QED
            BY <1>1, <1>2, <3>1, <3>2, TwoWindowsFewPorts
    <2>2. CASE \E k \in i..n : log[k].at - log[i].at >= ScanWindow
        <3>1. PICK k \in i..n : log[k].at - log[i].at >= ScanWindow
            BY <2>2
        <3>2. k \in 1..n /\ n \in 1..n /\ k <= n
            BY <1>1
        <3>3. log[k].at <= log[n].at
            BY <3>2 DEF IInv, Logged
        <3>4. log[k].at \in Nat /\ log[n].at \in Nat /\ log[i].at \in Nat
            <4>1. \A l \in 1..n : log[l] \in Entries
                BY <1>1, ElementOfSeq
            <4> QED
                BY <3>2, <4>1 DEF Entries
        <3> QED
            BY <1>2, <3>1, <3>3, <3>4, ScanAssumption
    <2> QED
        BY <1>2, <1>4, <2>1, <2>2 DEF ScanTail
<1> QED
    BY <1>3, <1>4

\* What was detected stays detected, and what is new is up to the end of the log.
LEMMA TwiceStep ==
  ASSUME IInv, TwiceTheThresholdIsDetected, TwiceNow', Inspect \/ InspectIgnore
  PROVE  TwiceTheThresholdIsDetected'
<1> PICK n : n = Len(log) + 1
    OBVIOUS
<1> PICK p : p = packet
    OBVIOUS
<1>1. /\ n \in Nat /\ n >= 1 /\ Len(log') = n /\ Len(log) = n - 1
      /\ \A k \in 1..(n - 1) : log'[k] = log[k]
    BY LogGrows DEF IInv, Inspect, InspectIgnore
<1>2. SUFFICES ASSUME NEW s \in Sources, NEW i \in 1..n, NEW j \in 1..n, i <= j,
                      Contacts(s, 2 * ScanThreshold - 1, i, j)'
               PROVE  Detects(s, i, j)'
    BY <1>1 DEF TwiceTheThresholdIsDetected
<1>3. CASE j # n
    <2>1. i \in 1..(n - 1) /\ j \in 1..(n - 1) /\ j \in 0..(n - 1)
        BY <1>1, <1>2, <1>3
    <2>2. OnlySyn(WithPort(From(s, 1, n)))'
        BY <1>1, <1>2 DEF Contacts
    <2>3. /\ OnlySyn(WithPort(From(s, 1, n - 1))) /\ Ports(s, i, j)' = Ports(s, i, j)
          /\ Detects(s, i, j) => Detects(s, i, j)'
        BY <2>1, <2>2, PortsGrow
    <2>4. /\ log[j].at - log[i].at < ScanWindow
          /\ Cardinality(Ports(s, i, j)) >= 2 * ScanThreshold - 1
        BY <1>1, <1>2, <2>1, <2>3 DEF Contacts, Ports
    <2> QED
        BY <1>1, <1>2, <2>1, <2>3, <2>4 DEF TwiceTheThresholdIsDetected, Contacts, Ports
<1>4. CASE j = n
    BY <1>1, <1>2, <1>4 DEF TwiceNow
<1> QED
    BY <1>3, <1>4

\* PortScanDetector::inspect(): wherever the fixed windows happen to begin, a source of
\* nothing but SYNs that contacts twice the threshold less one ports within a window's
\* time is detected within that time, for any window, threshold and ratio.
THEOREM FixedWindowsFindScans == Spec => []TwiceTheThresholdIsDetected
<1> DEFINE Inv == ScanRuns /\ ScanKnown /\ ScanTail
<1>1. Init => Inv /\ TwiceTheThresholdIsDetected
    <2>1. Init => DOMAIN scan = {} /\ log = <<>> /\ 1..Len(log) = {}
        BY DEF Init, Empty
    <2> QED
        BY <2>1 DEF ScanRuns, ScanKnown, ScanTail, WithPort, From, TwiceTheThresholdIsDetected
<1>2. ASSUME scan' = scan, log' = log, raised' = raised
      PROVE  /\ Inv => Inv'
             /\ TwiceTheThresholdIsDetected => TwiceTheThresholdIsDetected'
    <2>1. ASSUME NEW s, NEW i, NEW j
          PROVE  /\ From(s, i, j)' = From(s, i, j)
                 /\ WithPort(From(s, i, j))' = WithPort(From(s, i, j))
                 /\ PortsAt(WithPort(From(s, i, j)))' = PortsAt(WithPort(From(s, i, j)))
                 /\ SynAt(WithPort(From(s, i, j)))' = SynAt(WithPort(From(s, i, j)))
        BY <1>2 DEF From, WithPort, PortsAt, SynAt
    <2> PICK n : n = Len(log)
        OBVIOUS
    <2>2. n = Len(log')
        BY <1>2
    <2>3. ScanRuns => ScanRuns'
        <3>1. ASSUME ScanRuns, NEW s \in DOMAIN scan
              PROVE  \E i \in From(s, 1, n)' :
                /\ log'[i].at >= scan'[s].window_start - MaxStall
                /\ PortsAt(WithPort(From(s, i, n)))' = scan'[s].dst_ports
                /\ Cardinality(WithPort(From(s, i, n))') = scan'[s].tcp_packet_count
                /\ Cardinality(SynAt(WithPort(From(s, i, n)))') = scan'[s].syn_only_count
            BY <1>2, <2>1, <3>1 DEF ScanRuns
        <3> QED
            BY <1>2, <2>2, <3>1 DEF ScanRuns
    <2>4. ScanKnown => ScanKnown'
        BY <1>2 DEF ScanKnown, WithPort, From
    <2>5. ASSUME NEW s, NEW i, NEW j
          PROVE  /\ Ports(s, i, j)' = Ports(s, i, j)
                 /\ OnlySyn(WithPort(From(s, i, j)))' = OnlySyn(WithPort(From(s, i, j)))
                 /\ Detects(s, i, j)' = Detects(s, i, j)
        BY <1>2, <2>1 DEF Ports, OnlySyn, Detects, Raised
    <2>6. ASSUME NEW s, NEW i, NEW j, TwoWindows(s, i, j)
          PROVE  TwoWindows(s, i, j)'
        BY <1>2, <2>5, <2>6 DEF TwoWindows, Few
    <2>7. ScanTail => ScanTail'
        BY <1>2, <2>2, <2>5, <2>6 DEF ScanTail
    <2>8. TwiceTheThresholdIsDetected => TwiceTheThresholdIsDetected'
        BY <1>2, <2>2, <2>5 DEF TwiceTheThresholdIsDetected, Contacts, Ports
    <2> QED
        BY <2>3, <2>4, <2>7, <2>8
<1>3. [Next]_vars => Inspect \/ InspectIgnore \/ UNCHANGED <<scan, log, raised>>
    BY DEF Next, Tick, Receive, vars, stateVars
<1>4. IInv /\ Inv /\ [Next]_vars => Inv'
    <2>1. ASSUME IInv, Inv, Inspect \/ InspectIgnore PROVE ScanTail'
        <3> PICK n : n = Len(log) + 1
            OBVIOUS
        <3>1. n = Len(log')
            BY <2>1, LogGrows DEF IInv, Inspect, InspectIgnore
        <3>2. ASSUME NEW s \in DOMAIN scan', NEW i \in 1..n,
                     OnlySyn(WithPort(From(s, 1, n)))', ~Detects(s, i, n)'
              PROVE  \/ TwoWindows(s, i, n)'
                     \/ \E k \in i..n : log'[k].at - log'[i].at >= ScanWindow
            BY <2>1, <3>2, ScanTailStep
        <3> QED
            BY <3>1, <3>2 DEF ScanTail
    <2> QED
        BY <1>2, <1>3, <2>1, ScanRunsStep, ScanKnownStep
<1>5. IInv /\ Inv => TwiceNow
    BY TailIsDetected
<1>6. IInv /\ TwiceNow' /\ TwiceTheThresholdIsDetected /\ [Next]_vars
        => TwiceTheThresholdIsDetected'
    BY <1>2, <1>3, TwiceStep
<1> QED
    BY <1>1, <1>4, <1>5, <1>6, Invariance, PTL DEF Spec

-----------------------------------------------------------------------------
(* Windows that count a stream *)

(***************************************************************************)
(* Both rate detectors keep, per stream of packets, a window that the      *)
(* first packet after its end judges and restarts.  What they have in      *)
(* common is said of a function f from the places of the stream's packets  *)
(* to their times, and of the set A of the times of its alerts.            *)
(***************************************************************************)
At(f, t) == {k \in DOMAIN f : f[k] = t}
BusyAt(f, t, rate) == At(f, t) # {} /\ Reaches(Cardinality(At(f, t)), 1, rate)
Latest(f, e) == (\E k \in DOMAIN f : f[k] = e) /\ \A k \in DOMAIN f : f[k] <= e
Within(A, t, e) == \E a \in A : a \in t..e

\* A stream that was busy for two lengths of the window has an alert in that time.
Found(f, A, len, rate) ==
  \A t \in Nat : (\A u \in t..(t + 2 * len) : BusyAt(f, u, rate)) =>
                   Within(A, t, t + 2 * len)

\* The window began after all packets but those of its length; it counts all packets
\* since then; and if the stream was busy without an alert since t, the window began
\* within its length from t.
Tracked(f, A, start, count, len, rate) ==
  /\ start \in Nat /\ count \in Nat /\ DOMAIN f # {}
  /\ \A k \in DOMAIN f : f[k] - start < len
  /\ count >= Cardinality({k \in DOMAIN f : f[k] >= start})
  /\ \A e, t \in Nat :
       t < e /\ Latest(f, e) /\ (\A u \in t..(e - 1) : BusyAt(f, u, rate)) =>
         start <= t + len \/ Within(A, t, e)

\* The stream is finite, and none of its packets came after T.
Stream(f, T) == IsFiniteSet(DOMAIN f) /\ \A k \in DOMAIN f : f[k] \in Nat /\ f[k] <= T

\* The stream with one more packet.
With(f, n, T) == [k \in DOMAIN f \cup {n} |-> IF k = n THEN T ELSE f[k]]

\* A set of naturals that is not empty has a least element.
LEMMA Least ==
  ASSUME NEW S \in SUBSET Nat, S # {}
  PROVE  \E m \in S : \A k \in S : m <= k
<1>1. PICK m \in S : \A k \in S : ~(<<k, m>> \in OpToRel(<, Nat))
    BY NatLessThanWellFounded, WFMin
<1>2. \A k \in S : ~(k < m)
    BY <1>1 DEF OpToRel
<1> QED
    BY <1>2

\* Ticks that are all busy add up: there is no least number of them that does not.
LEMMA BusyTicks ==
  ASSUME NEW f, IsFiniteSet(DOMAIN f), \A k \in DOMAIN f : f[k] \in Nat,
         NEW rate \in Nat, NEW s \in Nat, NEW len \in Nat,
         \A u \in s..(s + len - 1) : BusyAt(f, u, rate)
  PROVE  Reaches(Cardinality({k \in DOMAIN f : f[k] \in s..(s + len - 1)}), len, rate)
<1> DEFINE C(m) == {k \in DOMAIN f : f[k] \in s..(s + m - 1)}
           Bad == {m \in 0..len : ~Reaches(Cardinality(C(m)), m, rate)}
<1>1. SUFFICES ASSUME Bad # {} PROVE FALSE
    <2>1. len \in 0..len
        OBVIOUS
    <2>2. Bad = {} => Reaches(Cardinality(C(len)), len, rate)
        BY <2>1
    <2> QED
        BY <2>2
<1>2. PICK m \in Bad : \A k \in Bad : m <= k
    <2>1. Bad \in SUBSET Nat
        OBVIOUS
    <2> HIDE DEF Bad
    <2> QED
        BY <1>1, <2>1, Least
<1>3. m \in 0..len /\ ~Reaches(Cardinality(C(m)), m, rate)
    BY <1>2
<1>4. Second \in Nat
    BY ConstantTypes
<1>5. ASSUME NEW i PROVE IsFiniteSet(C(i)) /\ Cardinality(C(i)) \in Nat
    <2>1. C(i) \subseteq DOMAIN f
        OBVIOUS
    <2> QED
        BY <2>1, FS_Subset, FS_CardinalityType
<1>6. m # 0
    <2>1. C(0) = {}
        OBVIOUS
    <2>2. Reaches(0, 0, rate)
        BY <1>4 DEF Reaches
    <2> QED
        BY <1>3, <2>1, <2>2, FS_EmptySet
<1> PICK i : i = m - 1
    OBVIOUS
<1>7. i \in 0..len /\ i \in Nat /\ m = i + 1 /\ i < m
    BY <1>3, <1>6
<1>8. Reaches(Cardinality(C(i)), i, rate)
    <2>1. i \notin Bad
        BY <1>2, <1>7
    <2> QED
        BY <1>7, <2>1
<1> DEFINE D == At(f, s + i)
<1>9. C(m) = C(i) \cup D /\ C(i) \cap D = {}
    BY <1>7 DEF At
<1>10. IsFiniteSet(D) /\ Cardinality(D) \in Nat
    <2>1. D \subseteq DOMAIN f
        BY DEF At
    <2> QED
        BY <2>1, FS_Subset, FS_CardinalityType
<1>11. Reaches(Cardinality(D), 1, rate)
    <2>1. s + i \in s..(s + len - 1)
        BY <1>3, <1>7
    <2> QED
        BY <2>1 DEF BusyAt
<1> HIDE DEF C, D, Bad
<1>12. Cardinality(C(m)) = Cardinality(C(i)) + Cardinality(D)
    <2>1. IsFiniteSet(C(i)) /\ Cardinality(C(i)) \in Nat
        BY <1>5
    <2>2. Cardinality(C(i) \cup D) = Cardinality(C(i)) + Cardinality(D) - Cardinality(C(i) \cap D)
        BY <1>10, <2>1, FS_Union
    <2>3. Cardinality(C(i) \cap D) = 0
        BY <1>9, FS_EmptySet
    <2> QED
        BY <1>9, <1>10, <2>1, <2>2, <2>3
<1>13. ASSUME NEW a \in Nat, NEW b \in Nat, Reaches(a, i, rate), Reaches(b, 1, rate)
       PROVE  Reaches(a + b, i + 1, rate)
    <2>1. (a + b) * Second = a * Second + b * Second
        BY <1>4
    <2>2. rate * (i + 1) = rate * i + rate * 1
        BY <1>7
    <2>3. a * Second \in Nat /\ b * Second \in Nat /\ rate * i \in Nat /\ rate * 1 \in Nat
        BY <1>4, <1>7
    <2>4. a * Second >= rate * i /\ b * Second >= rate * 1
        BY <1>13 DEF Reaches
    <2> QED
        BY <2>1, <2>2, <2>3, <2>4 DEF Reaches
<1> QED
    BY <1>3, <1>5, <1>7, <1>8, <1>10, <1>11, <1>12, <1>13
\* If the stream was busy since t without an alert, the window began within its length
\* from t; and if it is over at T, then T is within its length from t or what it
\* counted reaches the rate.
LEMMA BusyWindow ==
  ASSUME NEW f, NEW T \in Nat, Stream(f, T), NEW A, NEW start, NEW count,
         NEW len \in Nat \ {0}, NEW rate \in Nat,
         Tracked(f, A, start, count, len, rate),
         start <= T,
         NEW t \in Nat, t < T, \A u \in t..(T - 1) : BusyAt(f, u, rate), ~Within(A, t, T)
  PROVE  /\ start <= t + len
         /\ T - start >= len => T <= t + len \/ Reaches(count, T - start, rate)
<1>0. IsFiniteSet(DOMAIN f) /\ \A k \in DOMAIN f : f[k] \in Nat /\ f[k] <= T
    BY DEF Stream
<1>1. start \in Nat /\ count \in Nat
    BY DEF Tracked
<1>2. PICK k \in DOMAIN f : f[k] = T - 1
    <2>1. T - 1 \in t..(T - 1)
        OBVIOUS
    <2> QED
        BY <2>1 DEF BusyAt, At
<1>3. start <= t + len
    <2>1. ASSUME NEW e \in {T - 1, T}, Latest(f, e) PROVE start <= t + len
        <3>1. CASE t < e
            <4>1. e \in Nat /\ t..(e - 1) \subseteq t..(T - 1) /\ t..e \subseteq t..T
                BY <2>1, <3>1
            <4>2. ~Within(A, t, e)
                BY <4>1 DEF Within
            <4> QED
                BY <2>1, <3>1, <4>1, <4>2 DEF Tracked
        <3>2. CASE ~(t < e)
            BY <1>1, <2>1, <3>2
        <3> QED
            BY <3>1, <3>2
    <2>2. CASE \E m \in DOMAIN f : f[m] = T
        BY <1>0, <2>1, <2>2 DEF Latest
    <2>3. CASE ~\E m \in DOMAIN f : f[m] = T
        <3>1. \A m \in DOMAIN f : f[m] <= T - 1
            BY <1>0, <2>3
        <3>2. Latest(f, T - 1)
            BY <1>2, <3>1 DEF Latest
        <3> QED
            BY <2>1, <3>2
    <2> QED
        BY <2>2, <2>3
<1>4. ASSUME T - start >= len, ~(T <= t + len) PROVE Reaches(count, T - start, rate)
    <2>1. T - 1 - start < len
        BY <1>2 DEF Tracked
    <2>2. T = start + len /\ start > t
        BY <1>1, <1>4, <2>1
    <2>3. \A u \in start..(start + len - 1) : BusyAt(f, u, rate)
        BY <1>1, <2>2
    <2> DEFINE C == {m \in DOMAIN f : f[m] \in start..(start + len - 1)}
               S == {m \in DOMAIN f : f[m] >= start}
    <2>4. Reaches(Cardinality(C), len, rate)
        BY <1>0, <1>1, <2>3, BusyTicks
    <2>5. C \subseteq S /\ S \subseteq DOMAIN f
        BY <1>1
    <2>6. count >= Cardinality(S)
        BY DEF Tracked
    <2> HIDE DEF C, S
    <2>7. Cardinality(C) \in Nat /\ Cardinality(S) \in Nat /\ Cardinality(C) <= Cardinality(S)
        BY <1>0, <2>5, FS_Subset, FS_CardinalityType
    <2>8. Cardinality(C) <= count
        BY <1>1, <2>6, <2>7
    <2>9. Reaches(count, len, rate)
        BY <1>1, <2>4, <2>7, <2>8, MoreReaches
    <2>10. T - start = len
        BY <1>1, <2>2
    <2> QED
        BY <2>9, <2>10
<1> QED
    BY <1>3, <1>4

\* The window after a packet: the same one with a count more, or, if it is over, the
\* next one, and then an alert at T if the old one reached the rate.
LEMMA TrackedStep ==
  ASSUME NEW f, NEW T \in Nat, Stream(f, T), NEW A, NEW start, NEW count,
         NEW len \in Nat \ {0}, NEW rate \in Nat,
         Tracked(f, A, start, count, len, rate),
         start <= T,
         NEW n, n \notin DOMAIN f, NEW g, g = With(f, n, T), NEW B, A \subseteq B,
         NEW s, NEW c,
         \/ T - start < len /\ s = start /\ c = count + 1
         \/ T - start >= len /\ s = T /\ c = 1 /\ (Reaches(count, T - start, rate) => T \in B)
  PROVE  Tracked(g, B, s, c, len, rate)
<1>0. IsFiniteSet(DOMAIN f) /\ \A k \in DOMAIN f : f[k] \in Nat /\ f[k] <= T
    BY DEF Stream
<1>1. start \in Nat /\ count \in Nat /\ \A k \in DOMAIN f : f[k] - start < len
    BY DEF Tracked
<1>2. /\ \A u \in Int : u < T => At(g, u) = At(f, u)
      /\ \A e : Latest(g, e) => e = T
      /\ DOMAIN g = DOMAIN f \cup {n} /\ g[n] = T /\ \A k \in DOMAIN f : g[k] = f[k]
    <2>0. \A k \in DOMAIN f : f[k] \in Nat /\ f[k] <= T
        BY DEF Stream
    <2>1. DOMAIN g = DOMAIN f \cup {n} /\ g[n] = T /\ \A k \in DOMAIN f : g[k] = f[k]
        BY DEF With
    <2>2. \A u \in Int : u < T => At(g, u) = At(f, u)
        BY <2>0, <2>1 DEF At
    <2>3. ASSUME NEW e, Latest(g, e) PROVE e = T
        <3>1. e \in Nat /\ T <= e /\ e <= T
            BY <2>0, <2>1, <2>3 DEF Latest
        <3> QED
            BY <3>1
    <2> QED
        BY <2>1, <2>2, <2>3
<1>3. s \in Nat /\ c \in Nat /\ DOMAIN g # {}
    BY <1>1, <1>2
<1>4. \A k \in DOMAIN g : g[k] - s < len
    BY <1>0, <1>1, <1>2
<1>5. c >= Cardinality({k \in DOMAIN g : g[k] >= s})
    <2> DEFINE S == {k \in DOMAIN f : f[k] >= s}
               G == {k \in DOMAIN g : g[k] >= s}
    <2>1. G \subseteq S \cup {n} /\ n \notin S /\ S \subseteq DOMAIN f
        BY <1>2
    <2>2. IsFiniteSet(S) /\ Cardinality(S) \in Nat
        BY <1>0, <2>1, FS_Subset, FS_CardinalityType
    <2>3. CASE s = start /\ c = count + 1
        <3>1. count >= Cardinality(S)
            BY <2>3 DEF Tracked
        <3> HIDE DEF S, G
        <3>2. Cardinality(S \cup {n}) = Cardinality(S) + 1 /\ IsFiniteSet(S \cup {n})
            BY <2>1, <2>2, FS_AddElement
        <3>3. Cardinality(G) \in Nat /\ Cardinality(G) <= Cardinality(S \cup {n})
            BY <2>1, <3>2, FS_Subset, FS_CardinalityType
        <3> QED
            BY <1>1, <2>2, <2>3, <3>1, <3>2, <3>3 DEF G
    <2>4. CASE T - start >= len /\ s = T /\ c = 1
        <3>1. S = {}
            BY <1>0, <1>1, <2>4
        <3>2. G = {} \/ G = {n}
            BY <2>1, <3>1
        <3>3. Cardinality({}) = 0 /\ Cardinality({n}) = 1
            BY FS_EmptySet, FS_Singleton
        <3> HIDE DEF S, G
        <3>4. Cardinality(G) = 0 \/ Cardinality(G) = 1
            BY <3>2, <3>3
        <3> QED
            BY <2>4, <3>4 DEF G
    <2> QED
        BY <2>3, <2>4
<1>6. ASSUME NEW e \in Nat, NEW t \in Nat, t < e, Latest(g, e),
             \A u \in t..(e - 1) : BusyAt(g, u, rate), ~Within(B, t, e)
      PROVE  s <= t + len
    <2>1. e = T
        BY <1>2, <1>6
    <2>2. \A u \in t..(T - 1) : BusyAt(f, u, rate)
        BY <1>2, <1>6, <2>1 DEF BusyAt
    <2>3. ~Within(A, t, T) /\ T \notin B
        BY <1>6, <2>1 DEF Within
    <2>4. /\ start <= t + len
          /\ T - start >= len => T <= t + len \/ Reaches(count, T - start, rate)
        BY <1>6, <2>1, <2>2, <2>3, BusyWindow
    <2> QED
        BY <2>3, <2>4
<1> QED
    BY <1>3, <1>4, <1>5, <1>6 DEF Tracked

\* The first packet of a stream, in a window that began with it or later.
LEMMA TrackedFirst ==
  ASSUME NEW f, DOMAIN f = {}, NEW T \in Nat, NEW n, NEW g, g = With(f, n, T),
         NEW A, NEW s \in Nat, T <= s, NEW c \in Nat, c >= 1,
         NEW len \in Nat \ {0}, NEW rate \in Nat
  PROVE  Tracked(g, A, s, c, len, rate)
<1>1. DOMAIN g = {n} /\ g[n] = T
    BY DEF With
<1>0. s \in Nat /\ DOMAIN g # {} /\ \A k \in DOMAIN g : g[k] - s < len
    BY <1>1
<1>2. c >= Cardinality({k \in DOMAIN g : g[k] >= s})
    <2> DEFINE G == {k \in DOMAIN g : g[k] >= s}
    <2>1. G = {} \/ G = {n}
        BY <1>1
    <2>2. Cardinality({}) = 0 /\ Cardinality({n}) = 1
        BY FS_EmptySet, FS_Singleton
    <2> HIDE DEF G
    <2>3. Cardinality(G) = 0 \/ Cardinality(G) = 1
        BY <2>1, <2>2
    <2> QED
        BY <2>3 DEF G
<1>3. ASSUME NEW e \in Nat, NEW t \in Nat, t < e, Latest(g, e),
             \A u \in t..(e - 1) : BusyAt(g, u, rate)
      PROVE  FALSE
    <2>1. e = T
        BY <1>1, <1>3 DEF Latest
    <2>2. t \in t..(e - 1)
        BY <1>3
    <2>3. At(g, t) # {}
        BY <1>3, <2>2 DEF BusyAt
    <2> QED
        BY <1>1, <1>3, <2>1, <2>3 DEF At
<1> QED
    BY <1>0, <1>2, <1>3 DEF Tracked

\* A stream that becomes busy for two lengths of the window is found at that moment: a
\* window that began in the first length would be over.
LEMMA FoundStep ==
  ASSUME NEW f, NEW T \in Nat, Stream(f, T), NEW A, NEW len \in Nat \ {0}, NEW rate \in Nat,
         Found(f, A, len, rate),
         NEW n, n \notin DOMAIN f, NEW g, g = With(f, n, T), NEW B, A \subseteq B,
         NEW s, NEW c, Tracked(g, B, s, c, len, rate)
  PROVE  Found(g, B, len, rate)
<1>1. SUFFICES ASSUME NEW t \in Nat, \A u \in t..(t + 2 * len) : BusyAt(g, u, rate)
               PROVE  Within(B, t, t + 2 * len)
    BY DEF Found
<1>2. /\ \A u \in Int : u < T => At(g, u) = At(f, u)
      /\ \A u \in Int : u > T => At(g, u) = {}
      /\ DOMAIN g = DOMAIN f \cup {n} /\ g[n] = T /\ \A k \in DOMAIN f : g[k] = f[k]
    <2>0. \A k \in DOMAIN f : f[k] \in Nat /\ f[k] <= T
        BY DEF Stream
    <2>1. DOMAIN g = DOMAIN f \cup {n} /\ g[n] = T /\ \A k \in DOMAIN f : g[k] = f[k]
        BY DEF With
    <2>2. \A u \in Int : u < T => At(g, u) = At(f, u)
        BY <2>0, <2>1 DEF At
    <2>3. \A u \in Int : u > T => At(g, u) = {}
        BY <2>0, <2>1 DEF At
    <2> QED
        BY <2>1, <2>2, <2>3
<1>7. \A k \in DOMAIN f : f[k] <= T
    BY DEF Stream
<1> PICK e : e = t + 2 * len
    OBVIOUS
<1>3. e \in Nat /\ t < e /\ e \in t..e
    OBVIOUS
<1>4. CASE T < e
    <2>1. At(g, e) = {}
        BY <1>2, <1>3, <1>4
    <2> QED
        BY <1>1, <1>3, <2>1 DEF BusyAt
<1>5. CASE T > e
    <2>1. \A u \in t..e : BusyAt(f, u, rate)
        BY <1>1, <1>2, <1>3, <1>5 DEF BusyAt
    <2>2. Within(A, t, e)
        BY <2>1 DEF Found
    <2> QED
        BY <2>2 DEF Within
<1>6. CASE T = e
    <2>1. Latest(g, T)
        BY <1>2, <1>7 DEF Latest
    <2>2. t..(T - 1) \subseteq t..e
        BY <1>3, <1>6
    <2>3. s <= t + len \/ Within(B, t, T)
        BY <1>1, <1>3, <1>6, <2>1, <2>2 DEF Tracked
    <2>4. s \in Nat /\ T - s < len
        BY <1>2 DEF Tracked
    <2>5. ~(s <= t + len)
        BY <1>3, <1>6, <2>4
    <2> QED
        BY <1>6, <2>3, <2>5
<1> QED
    BY <1>3, <1>4, <1>5, <1>6

\* An alert more does no harm.
LEMMA MoreAlerts ==
  ASSUME NEW f, NEW A, NEW B, A \subseteq B, NEW s, NEW c, NEW len, NEW rate
  PROVE  /\ Tracked(f, A, s, c, len, rate) => Tracked(f, B, s, c, len, rate)
         /\ Found(f, A, len, rate) => Found(f, B, len, rate)
<1>1. \A t, e : Within(A, t, e) => Within(B, t, e)
    BY DEF Within
<1>2. Found(f, A, len, rate) => Found(f, B, len, rate)
    BY <1>1 DEF Found
<1>3. Tracked(f, A, s, c, len, rate) => Tracked(f, B, s, c, len, rate)
    BY <1>1 DEF Tracked
<1> QED
    BY <1>2, <1>3

\* A stream of no packets is never busy.
LEMMA NoneFound ==
  ASSUME NEW f, DOMAIN f = {}, NEW A, NEW len \in Nat, NEW rate
  PROVE  Found(f, A, len, rate)
<1>1. \A t : ~BusyAt(f, t, rate)
    BY DEF BusyAt, At
<1>2. \A t \in Nat : t \in t..(t + 2 * len)
    OBVIOUS
<1> QED
    BY <1>1, <1>2 DEF Found

\* The packets at some places, as a stream.
StreamOf(places) == [k \in places |-> log[k].at]

Placed(S) == S \subseteq 1..Len(log)

\* A stream of logged packets after a step: the same, or with the packet.
LEMMA StreamGrows ==
  ASSUME IInv, Inspect \/ InspectIgnore, NEW n, n = Len(log) + 1,
         NEW S, Placed(S), NEW f, f = StreamOf(S)
  PROVE  /\ now \in Nat /\ Stream(f, now) /\ DOMAIN f = S /\ n \notin S
         /\ f = StreamOf(S)' /\ With(f, n, now) = StreamOf(S \cup {n})'
<1>1. /\ n \in Nat /\ n >= 1 /\ Len(log) = n - 1 /\ log'[n].at = now
      /\ \A k \in 1..(n - 1) : log'[k] = log[k]
    BY LogGrows DEF IInv, Inspect, InspectIgnore
<1>2. now \in Nat /\ log \in Seq(Entries) /\ \A k \in 1..(n - 1) : log[k].at <= now
    BY <1>1 DEF IInv, Clocks, Logged
<1>3. \A k \in 1..(n - 1) : log[k].at \in Nat
    <2>1. \A k \in 1..(n - 1) : log[k] \in Entries
        BY <1>1, <1>2, ElementOfSeq
    <2> QED
        BY <2>1 DEF Entries
<1>3s. S \subseteq 1..(n - 1)
    BY <1>1 DEF Placed
<1>4. DOMAIN f = S /\ \A k \in S : f[k] = log[k].at /\ f[k] = log'[k].at
    BY <1>1, <1>3s DEF StreamOf
<1>5. n \notin S
    BY <1>1, <1>3s
<1>6. IsFiniteSet(S)
    <2>1. IsFiniteSet(1..(n - 1))
        BY <1>1, FS_Interval
    <2> QED
        BY <1>3s, <2>1, FS_Subset
<1>7. Stream(f, now)
    BY <1>2, <1>3, <1>3s, <1>4, <1>6 DEF Stream
<1>8. f = StreamOf(S)'
    BY <1>1, <1>3s DEF StreamOf
<1>9. With(f, n, now) = StreamOf(S \cup {n})'
    BY <1>1, <1>4, <1>5 DEF With, StreamOf
<1> QED
    BY <1>2, <1>4, <1>5, <1>7, <1>8, <1>9

-----------------------------------------------------------------------------
(* Brute force *)

BruteKeys == {<<p.src, p.port>> : p \in {q \in Packets : q.src # None /\ brute_checked(q)}}
BruteStream(x) == StreamOf(SentTo(From(x[1], 1, Len(log)), x[2]))
BruteAlerts(x) == {a.at : a \in {b \in Raised("BRUTE_FORCE") : b.src = x[1] /\ b.port = x[2]}}

\* The window of a source and a port tracks the packets from one to the other; there
\* is one if there was a packet.
BruteTracked(x) ==
  /\ IF x \in DOMAIN brute_force
       THEN Tracked(BruteStream(x), BruteAlerts(x), brute_force[x].start,
                    brute_force[x].count, Second, BruteRate)
       ELSE DOMAIN BruteStream(x) = {}
  /\ Found(BruteStream(x), BruteAlerts(x), Second, BruteRate)

\* While the consumer works on a packet, no window begins after the time it read.
Began ==
  packet # None =>
    /\ \A x \in DOMAIN brute_force : brute_force[x].start <= now
    /\ \A s \in DOMAIN syn : syn[s].window_start <= now

\* A window after a packet, of its own or not.
LEMMA BruteTrackedStep ==
  ASSUME IInv, Began, NEW x \in BruteKeys, BruteTracked(x), Inspect \/ InspectIgnore
  PROVE  BruteTracked(x)'
<1> PICK n : n = Len(log) + 1
    OBVIOUS
<1> PICK p : p = packet
    OBVIOUS
<1> PICK S : S = SentTo(From(x[1], 1, n - 1), x[2])
    OBVIOUS
<1> PICK f : f = StreamOf(S)
    OBVIOUS
<1> DEFINE own == x = <<p.src, p.port>>
<1>1. /\ n \in Nat /\ n >= 1 /\ Len(log') = n /\ Len(log) = n - 1
      /\ log'[n].packet = p
      /\ \A k \in 1..(n - 1) : log'[k] = log[k]
    BY LogGrows DEF IInv, Inspect, InspectIgnore
<1>2. PICK r \in Packets : x = <<r.src, r.port>> /\ r.src # None /\ brute_checked(r)
    BY DEF BruteKeys
<1>3. /\ p \in Packets /\ p # None /\ clock \in Nat /\ now <= clock
      /\ Second \in Nat \ {0} /\ BruteRate \in Nat
    BY ConstantTypes DEF IInv, Clocks, Inspect, InspectIgnore
<1>4. Placed(S)
    BY <1>1 DEF SentTo, From, Placed
<1>5. /\ now \in Nat /\ Stream(f, now) /\ DOMAIN f = S /\ n \notin S
      /\ f = StreamOf(S)' /\ With(f, n, now) = StreamOf(S \cup {n})'
    BY <1>4, StreamGrows
<1> PICK A : A = BruteAlerts(x)
    OBVIOUS
<1> PICK B : B = BruteAlerts(x)'
    OBVIOUS
<1> PICK g : g = BruteStream(x)'
    OBVIOUS
<1>6. A \subseteq B
    BY RaisedGrows DEF BruteAlerts, Raised
<1>7. g = IF own THEN With(f, n, now) ELSE f
    <2> PICK U : U = SentTo(From(x[1], 1, n), x[2])'
        OBVIOUS
    <2>1. g = StreamOf(U)'
        BY <1>1 DEF BruteStream, StreamOf
    <2>2. 1..n = (1..(n - 1)) \cup {n}
        BY <1>1
    <2>3. U = IF own THEN S \cup {n} ELSE S
        BY <1>1, <1>2, <2>2 DEF SentTo, From
    <2> QED
        BY <1>5, <2>1, <2>3
<1>8. /\ x \in DOMAIN brute_force =>
           Tracked(f, A, brute_force[x].start, brute_force[x].count, Second, BruteRate)
      /\ x \notin DOMAIN brute_force => DOMAIN f = {}
      /\ Found(f, A, Second, BruteRate)
    BY <1>1 DEF BruteTracked, BruteStream
<1>9. SUFFICES /\ IF x \in DOMAIN brute_force'
                     THEN Tracked(g, B, brute_force'[x].start, brute_force'[x].count,
                                  Second, BruteRate)
                     ELSE DOMAIN g = {}
               /\ Found(g, B, Second, BruteRate)
    BY DEF BruteTracked
<1>10. CASE ~own
    <2>1. /\ x \in DOMAIN brute_force' <=> x \in DOMAIN brute_force
          /\ x \in DOMAIN brute_force => brute_force'[x] = brute_force[x]
        BY <1>10 DEF Inspect, InspectIgnore, stateVars, Put
    <2>2. g = f
        BY <1>7, <1>10
    <2> QED
        BY <1>6, <1>8, <2>1, <2>2, MoreAlerts
<1>11. CASE own
    <2>1. p.src # None /\ brute_checked(p)
        <3>1. p.src = r.src /\ p.port = r.port
            BY <1>2, <1>11
        <3>2. p.sensitive = r.sensitive
            BY <1>2, <1>3, <3>1, DetectorAssumption
        <3> QED
            BY <1>2, <3>1, <3>2 DEF brute_checked
    <2>2. Inspect
        BY <2>1 DEF InspectIgnore
    <2> PICK w : w = brute_window(p)
        OBVIOUS
    <2>3. x \in DOMAIN brute_force' /\ brute_force'[x] = counted(w)
        BY <1>11, <2>1, <2>2 DEF Inspect, Put
    <2>4. g = With(f, n, now)
        BY <1>7, <1>11
    <2>5. Tracked(g, B, brute_force'[x].start, brute_force'[x].count, Second, BruteRate)
        <3>1. CASE x \in DOMAIN brute_force
            <4>1. w = brute_force[x] /\ Tracked(f, A, w.start, w.count, Second, BruteRate)
                BY <1>8, <1>11, <3>1 DEF brute_window, Lookup
            <4>2. w.start \in Nat /\ w.count \in Nat /\ w.start <= now
                <5>1. w.start \in Nat /\ w.count \in Nat
                    BY <4>1 DEF Tracked
                <5> QED
                    BY <1>3, <3>1, <4>1, <5>1 DEF Began
            <4>3. CASE over(w)
                <5>1. counted(w).start = now /\ counted(w).count = 1
                    BY <4>3 DEF counted, Window
                <5>2. now - w.start >= Second
                    BY <4>3 DEF over
                <5>3. ASSUME Reaches(w.count, now - w.start, BruteRate) PROVE now \in B
                    <6>1. PICK severity : severity \in brute_found(p)
                        BY <4>3, <5>3 DEF brute_found, rate_reached
                    <6>2. <<"BRUTE_FORCE", severity>> \in findings(packet)
                        BY <2>1, <6>1 DEF findings, When
                    <6>3. PICK a \in raised' : /\ a.type = "BRUTE_FORCE" /\ a.src = p.src
                                               /\ a.port = p.port /\ a.at = now
                        BY <2>2, <6>2, FoundIsRaised
                    <6> QED
                        BY <1>11, <6>3 DEF BruteAlerts, Raised
                <5> QED
                    BY <1>3, <1>5, <1>6, <2>3, <2>4, <4>1, <4>2, <5>1, <5>2, <5>3, TrackedStep
            <4>4. CASE ~over(w)
                <5>1. counted(w).start = w.start /\ counted(w).count = w.count + 1
                    BY <4>4 DEF counted, Window
                <5>2. now - w.start < Second
                    BY <1>3, <1>5, <4>2, <4>4 DEF over
                <5> QED
                    BY <1>3, <1>5, <1>6, <2>3, <2>4, <4>1, <4>2, <5>1, <5>2, TrackedStep
            <4> QED
                BY <4>3, <4>4
        <3>2. CASE x \notin DOMAIN brute_force
            <4>1. w = [start |-> clock, count |-> 0]
                BY <1>11, <3>2 DEF brute_window, Lookup, Window
            <4>2. ~over(w)
                BY <1>3, <1>5, <4>1 DEF over
            <4>3. counted(w).start = clock /\ counted(w).count = 1
                BY <4>1, <4>2 DEF counted, Window
            <4> QED
                BY <1>3, <1>5, <1>8, <2>3, <2>4, <3>2, <4>3, TrackedFirst
        <3> QED
            BY <3>1, <3>2
    <2> QED
        BY <1>3, <1>5, <1>6, <1>8, <2>3, <2>4, <2>5, FoundStep
<1> QED
    BY <1>10, <1>11

-----------------------------------------------------------------------------
(* SYN flood *)

SynStream(x) == StreamOf(Tcp(From(x, 1, Len(log))))
SynAlerts(x) == {a.at : a \in {b \in Raised("SYN_FLOOD") : b.src = x}}

\* The profile of a source of nothing but SYNs tracks its TCP packets; it does not
\* count the packet that began its window.
SynTracked(x) ==
  OnlySyn(Tcp(From(x, 1, Len(log)))) =>
    /\ IF x \in DOMAIN syn
         THEN /\ syn[x].syn_only_count = syn[x].tcp_total_count
              /\ Tracked(SynStream(x), SynAlerts(x), syn[x].window_start,
                         syn[x].tcp_total_count + 1, SynWindow, SynRate)
         ELSE DOMAIN SynStream(x) = {}
    /\ Found(SynStream(x), SynAlerts(x), SynWindow, SynRate)

\* The counts that inspect() judges, of a profile with as many SYNs as packets.
LEMMA SynUpdate ==
  ASSUME NEW c \in Nat, NEW w \in SynProfiles(c), w.syn_only_count = w.tcp_total_count,
         NEW kind, kind = "syn", NEW T
  PROVE  /\ syn_over(w, T) =>
              /\ syn_inspected(w, kind, T).window_start = T
              /\ syn_inspected(w, kind, T).tcp_total_count = 0
              /\ syn_inspected(w, kind, T).syn_only_count = 0
              /\ Reaches(w.tcp_total_count + 1, T - w.window_start, SynRate) =>
                   syn_flood(w, kind, T) # {}
         /\ ~syn_over(w, T) =>
              /\ syn_inspected(w, kind, T).window_start = w.window_start
              /\ syn_inspected(w, kind, T).tcp_total_count = w.tcp_total_count + 1
              /\ syn_inspected(w, kind, T).syn_only_count = w.tcp_total_count + 1
<1> DEFINE q == classified(w, kind)
           m == w.tcp_total_count + 1
<1>1. w.tcp_total_count \in Nat
      /\ DOMAIN w = {"syn_only_count", "tcp_total_count", "window_start"}
    BY DEF SynProfiles
<1>2. q = [w EXCEPT !.tcp_total_count = m, !.syn_only_count = m]
    <2>1. syn_only(kind)
        BY DEF syn_only
    <2> QED
        BY <1>1, <2>1 DEF classified
<1> HIDE DEF m
<1>3. q.tcp_total_count = m /\ q.syn_only_count = m /\ q.window_start = w.window_start
    <2> HIDE DEF q
    <2> QED
        BY <1>1, <1>2
<1>4. m \in Nat
    BY <1>1 DEF m
<1>5. m * SynRatioDen >= SynRatioNum * m
    <2>1. SynRatioNum \in Nat /\ SynRatioDen \in Nat /\ SynRatioNum <= SynRatioDen
        BY SynAssumption
    <2> QED
        BY <1>4, <2>1
<1>6. syn_over(q, T) <=> syn_over(w, T)
    BY <1>3 DEF syn_over
<1>7. ASSUME syn_over(w, T), Reaches(m, T - w.window_start, SynRate)
      PROVE  syn_flood(w, kind, T) # {}
    BY <1>3, <1>5, <1>6, <1>7 DEF syn_flood, syn_age
<1>8. ASSUME syn_over(w, T) PROVE syn_inspected(w, kind, T) = SynProfile(T)
    BY <1>6, <1>8 DEF syn_inspected
<1>9. ASSUME ~syn_over(w, T) PROVE syn_inspected(w, kind, T) = q
    BY <1>6, <1>9 DEF syn_inspected
<1> HIDE DEF q
<1> QED
    BY <1>3, <1>7, <1>8, <1>9 DEF SynProfile, m

\* A profile after a packet, of its own or not.
LEMMA SynTrackedStep ==
  ASSUME IInv, Began, NEW x \in Sources, SynTracked(x), Inspect \/ InspectIgnore
  PROVE  SynTracked(x)'
<1> PICK n : n = Len(log) + 1
    OBVIOUS
<1> PICK p : p = packet
    OBVIOUS
<1> PICK S : S = Tcp(From(x, 1, n - 1))
    OBVIOUS
<1> PICK f : f = StreamOf(S)
    OBVIOUS
<1> DEFINE own == p.src = x /\ is_tcp(p)
<1>1. /\ n \in Nat /\ n >= 1 /\ Len(log') = n /\ Len(log) = n - 1
      /\ log'[n].packet = p
      /\ \A k \in 1..(n - 1) : log'[k] = log[k]
    BY LogGrows DEF IInv, Inspect, InspectIgnore
<1>2. Placed(S)
    BY <1>1 DEF Tcp, From, Placed
<1>3. /\ now \in Nat /\ Stream(f, now) /\ DOMAIN f = S /\ n \notin S
      /\ f = StreamOf(S)' /\ With(f, n, now) = StreamOf(S \cup {n})'
    BY <1>2, StreamGrows
<1> PICK U : U = Tcp(From(x, 1, n))'
    OBVIOUS
<1> PICK A : A = SynAlerts(x)
    OBVIOUS
<1> PICK B : B = SynAlerts(x)'
    OBVIOUS
<1> PICK g : g = SynStream(x)'
    OBVIOUS
<1>4. SUFFICES ASSUME \A k \in U : log'[k].packet.kind = "syn"
               PROVE  /\ IF x \in DOMAIN syn'
                            THEN /\ syn'[x].syn_only_count = syn'[x].tcp_total_count
                                 /\ Tracked(g, B, syn'[x].window_start,
                                            syn'[x].tcp_total_count + 1, SynWindow, SynRate)
                            ELSE DOMAIN g = {}
                      /\ Found(g, B, SynWindow, SynRate)
    BY <1>1 DEF SynTracked, OnlySyn, SynAt
<1>5. /\ p # None /\ clock \in Nat /\ now <= clock
      /\ SynWindow \in Nat \ {0} /\ SynRate \in Nat
    BY SynAssumption DEF IInv, Clocks, Inspect, InspectIgnore
<1>6. A \subseteq B
    BY RaisedGrows DEF SynAlerts, Raised
<1>7. U = IF own THEN S \cup {n} ELSE S
    <2>1. 1..n = (1..(n - 1)) \cup {n}
        BY <1>1
    <2> QED
        BY <1>1, <2>1 DEF Tcp, From, is_tcp
<1>8. g = IF own THEN With(f, n, now) ELSE f
    <2>1. g = StreamOf(U)'
        BY <1>1 DEF SynStream, StreamOf
    <2> QED
        BY <1>3, <1>7, <2>1
<1>9. /\ x \in DOMAIN syn =>
           /\ syn[x].syn_only_count = syn[x].tcp_total_count
           /\ Tracked(f, A, syn[x].window_start, syn[x].tcp_total_count + 1, SynWindow, SynRate)
      /\ x \notin DOMAIN syn => DOMAIN f = {}
      /\ Found(f, A, SynWindow, SynRate)
    <2>1. \A k \in S : log[k].packet.kind = "syn"
        BY <1>1, <1>4, <1>2, <1>7 DEF Placed
    <2>2. OnlySyn(Tcp(From(x, 1, Len(log))))
        BY <1>1, <2>1 DEF OnlySyn, SynAt
    <2> QED
        BY <1>1, <2>2 DEF SynTracked, SynStream
<1>10. CASE ~own
    <2>1. /\ x \in DOMAIN syn' <=> x \in DOMAIN syn
          /\ x \in DOMAIN syn => syn'[x] = syn[x]
        BY <1>10 DEF Inspect, InspectIgnore, stateVars, Put
    <2>2. g = f
        BY <1>8, <1>10
    <2> QED
        BY <1>6, <1>9, <2>1, <2>2, MoreAlerts
<1>11. CASE own
    <2>1. Inspect /\ p.kind = "syn"
        <3>1. p.src # None
            BY <1>11 DEF Sources
        <3>2. n \in U
            BY <1>7, <1>11
        <3> QED
            BY <1>1, <1>4, <3>1, <3>2 DEF InspectIgnore
    <2> PICK w : w = syn_profile(p)
        OBVIOUS
    <2> PICK v : v = syn_inspected(w, p.kind, now)
        OBVIOUS
    <2>2. x \in DOMAIN syn' /\ syn'[x] = v
        BY <1>11, <2>1 DEF Inspect, Put
    <2>3. g = With(f, n, now)
        BY <1>8, <1>11
    <2>4. w \in SynProfiles(clock)
        <3>1. SynProfile(clock) \in SynProfiles(clock)
            BY <1>5 DEF SynProfile, SynProfiles
        <3> QED
            BY <3>1, LookupType DEF syn_profile, IInv, Profiles
    <2>5. /\ w.syn_only_count = w.tcp_total_count
          /\ w.window_start \in Nat /\ w.tcp_total_count \in Nat
        <3>1. w.syn_only_count = w.tcp_total_count
            BY <1>9, <1>11 DEF syn_profile, Lookup, SynProfile
        <3> QED
            BY <1>5, <2>4, <3>1 DEF SynProfiles
    <2>6. /\ syn_over(w, now) => v.window_start = now /\ v.tcp_total_count = 0
                                 /\ v.syn_only_count = 0
          /\ ~syn_over(w, now) => /\ v.window_start = w.window_start
                                  /\ v.tcp_total_count = w.tcp_total_count + 1
                                  /\ v.syn_only_count = w.tcp_total_count + 1
          /\ syn_over(w, now) /\ Reaches(w.tcp_total_count + 1, now - w.window_start, SynRate) =>
               syn_flood(w, p.kind, now) # {}
        BY <1>5, <2>1, <2>4, <2>5, SynUpdate
    <2>7. v.syn_only_count = v.tcp_total_count
        BY <2>6
    <2>8. Tracked(g, B, v.window_start, v.tcp_total_count + 1, SynWindow, SynRate)
        <3> PICK count : count = w.tcp_total_count + 1
            OBVIOUS
        <3>1. CASE x \in DOMAIN syn
            <4>1. w = syn[x] /\ Tracked(f, A, w.window_start, count, SynWindow, SynRate)
                BY <1>9, <1>11, <3>1 DEF syn_profile, Lookup
            <4>2. w.window_start <= now
                BY <1>5, <3>1, <4>1 DEF Began
            <4>3. CASE syn_over(w, now)
                <5>1. now - w.window_start >= SynWindow
                    BY <4>3 DEF syn_over
                <5>2. ASSUME Reaches(count, now - w.window_start, SynRate) PROVE now \in B
                    <6>1. PICK severity : severity \in syn_flood(syn_profile(p), p.kind, now)
                        BY <2>6, <4>3, <5>2
                    <6>2. <<"SYN_FLOOD", severity>> \in findings(packet)
                        BY <1>11, <6>1 DEF findings, When
                    <6>3. PICK a \in raised' : a.type = "SYN_FLOOD" /\ a.src = p.src /\ a.at = now
                        BY <2>1, <6>2, FoundIsRaised
                    <6> QED
                        BY <1>11, <6>3 DEF SynAlerts, Raised
                <5>3. v.window_start = now /\ v.tcp_total_count + 1 = 1
                    BY <2>6, <4>3
                <5> QED
                    BY <1>5, <1>3, <1>6, <2>3, <4>1, <4>2, <5>1, <5>2, <5>3, TrackedStep
            <4>4. CASE ~syn_over(w, now)
                <5>1. now - w.window_start < SynWindow
                    BY <1>5, <1>3, <2>5, <4>4 DEF syn_over
                <5>2. v.window_start = w.window_start /\ v.tcp_total_count + 1 = count + 1
                    BY <2>6, <4>4
                <5> QED
                    BY <1>5, <1>3, <1>6, <2>3, <4>1, <4>2, <5>1, <5>2, TrackedStep
            <4> QED
                BY <4>3, <4>4
        <3>2. CASE x \notin DOMAIN syn
            <4>1. w.window_start = clock /\ w.tcp_total_count = 0
                BY <1>11, <3>2 DEF syn_profile, Lookup, SynProfile
            <4>2. ~syn_over(w, now)
                BY <1>5, <1>3, <4>1 DEF syn_over
            <4>3. v.window_start = clock /\ v.tcp_total_count + 1 = 2
                BY <2>6, <4>1, <4>2
            <4>4. 2 \in Nat /\ 2 >= 1 /\ DOMAIN f = {}
                BY <1>9, <3>2
            <4> QED
                BY <1>5, <1>3, <2>3, <4>3, <4>4, TrackedFirst
        <3> QED
            BY <3>1, <3>2
    <2>9. Found(g, B, SynWindow, SynRate)
        BY <1>5, <1>3, <1>6, <1>9, <2>3, <2>8, FoundStep
    <2> QED
        BY <2>2, <2>7, <2>8, <2>9
<1> QED
    BY <1>10, <1>11

-----------------------------------------------------------------------------
(* The theorems about sustained rates *)

\* The consumer reads the clock before it works on a packet.
LEMMA BeganStep == IInv /\ Began /\ [Next]_vars => Began'
<1> SUFFICES ASSUME IInv, Began, [Next]_vars PROVE Began'
    OBVIOUS
<1>1. CASE Tick \/ UNCHANGED vars
    BY <1>1 DEF Began, Tick, vars, stateVars
<1>2. CASE Inspect \/ InspectIgnore
    BY <1>2 DEF Began, Inspect, InspectIgnore, Done
<1>3. ASSUME NEW p \in Packets, Receive(p) PROVE Began'
    <2>1. now' = clock /\ brute_force' = brute_force /\ syn' = syn
        BY <1>3 DEF Receive, stateVars
    <2>2. \A x \in DOMAIN brute_force : brute_force[x].start <= clock
        BY ConstantTypes DEF IInv, Clocks, OwnWindows, Windows
    <2>3. \A x \in DOMAIN syn : syn[x].window_start <= clock
        BY DEF IInv, Clocks, Profiles, SynProfiles
    <2> QED
        BY <2>1, <2>2, <2>3 DEF Began
<1> QED
    BY <1>1, <1>2, <1>3 DEF Next

\* A tick of a stream is busy when the log says so.
LEMMA SameBusy ==
  ASSUME NEW S, NEW u, NEW rate, Busy(S, u, rate)
  PROVE  BusyAt(StreamOf(S), u, rate)
<1>1. At(StreamOf(S), u) = {k \in S : log[k].at = u}
    BY DEF At, StreamOf
<1> QED
    BY <1>1 DEF Busy, BusyAt

\* ThreatDetector::check_brute_force(): whoever keeps up the rate towards a sensitive port
\* for two seconds is found within that time, wherever the window happened to begin
\* and however long the consumer stalled, for any rate.
THEOREM BruteForceIsNotMissed == Spec => []SustainedBruteForceIsFound
<1> DEFINE Inv == Began /\ \A x \in BruteKeys : BruteTracked(x)
<1>1. Init => Inv
    <2>1. SUFFICES ASSUME Init PROVE Inv
        OBVIOUS
    <2>2. DOMAIN brute_force = {} /\ log = <<>> /\ 1..Len(log) = {} /\ packet = None
        BY <2>1 DEF Init, Empty
    <2>3. \A x : DOMAIN BruteStream(x) = {}
        BY <2>2 DEF BruteStream, StreamOf, SentTo, From
    <2>4. \A x : Found(BruteStream(x), BruteAlerts(x), Second, BruteRate)
        BY <2>3, NoneFound, ConstantTypes
    <2> QED
        BY <2>2, <2>3, <2>4 DEF BruteTracked, Began
<1>2. IInv /\ Inv /\ [Next]_vars => Inv'
    <2>1. SUFFICES ASSUME IInv, Inv, [Next]_vars PROVE Inv'
        OBVIOUS
    <2>2. CASE Inspect \/ InspectIgnore
        <3>1. ASSUME NEW x \in BruteKeys PROVE BruteTracked(x)'
            BY <2>1, <2>2, <3>1, BruteTrackedStep
        <3>2. BruteKeys' = BruteKeys
            BY DEF BruteKeys, brute_checked
        <3> QED
            BY <2>1, <3>1, <3>2, BeganStep
    <2>3. CASE UNCHANGED <<brute_force, log, raised>>
        <3>1. ASSUME NEW x \in BruteKeys PROVE BruteTracked(x)'
            <4>1. BruteStream(x)' = BruteStream(x) /\ BruteAlerts(x)' = BruteAlerts(x)
                BY <2>3 DEF BruteStream, StreamOf, SentTo, From, BruteAlerts, Raised
            <4>2. BruteTracked(x)
                BY <2>1
            <4> QED
                BY <2>3, <4>1, <4>2 DEF BruteTracked
        <3> QED
            BY <2>1, <3>1, BeganStep
    <2> QED
        BY <2>1, <2>2, <2>3 DEF Next, Tick, Receive, vars, stateVars
<1>3. Inv => SustainedBruteForceIsFound
    <2>1. SUFFICES ASSUME Inv, NEW p \in Packets, p.src # None, brute_checked(p), NEW t \in Nat,
                          \A u \in t..(t + 2 * Second) :
                            Busy(SentTo(From(p.src, 1, Len(log)), p.port), u, BruteRate)
                   PROVE  \E a \in Raised("BRUTE_FORCE") :
                            a.port = p.port /\ FoundBy(a, p, t, t + 2 * Second)
        BY ConstantTypes DEF SustainedBruteForceIsFound
    <2> PICK x : x = <<p.src, p.port>>
        OBVIOUS
    <2>2. x \in BruteKeys /\ x[1] = p.src /\ x[2] = p.port
        BY <2>1 DEF BruteKeys
    <2>3. \A u \in t..(t + 2 * Second) : BusyAt(BruteStream(x), u, BruteRate)
        BY <2>1, <2>2, SameBusy DEF BruteStream
    <2>4. Found(BruteStream(x), BruteAlerts(x), Second, BruteRate)
        BY <2>1, <2>2 DEF BruteTracked
    <2>5. PICK b \in BruteAlerts(x) : b \in t..(t + 2 * Second)
        BY <2>3, <2>4 DEF Found, Within
    <2>6. PICK a \in Raised("BRUTE_FORCE") : a.src = x[1] /\ a.port = x[2] /\ a.at = b
        BY <2>5 DEF BruteAlerts
    <2> QED
        BY <2>2, <2>5, <2>6 DEF FoundBy
<1> QED
    BY <1>1, <1>2, <1>3, Invariance, PTL DEF Spec

\* SynFloodDetector::inspect(): a source of nothing but SYNs that keeps up the rate for two
\* windows is found within that time, at whatever rate it sent them before, for any rate, ratio
\* and window.
THEOREM FloodsAreNotMissed == Spec => []SustainedFloodIsFound
<1> DEFINE Inv == Began /\ \A x \in Sources : SynTracked(x)
<1>1. Init => Inv
    <2>1. SUFFICES ASSUME Init PROVE Inv
        OBVIOUS
    <2>2. DOMAIN syn = {} /\ log = <<>> /\ 1..Len(log) = {} /\ packet = None
        BY <2>1 DEF Init, Empty
    <2>3. \A x : DOMAIN SynStream(x) = {}
        BY <2>2 DEF SynStream, StreamOf, Tcp, From
    <2>4. \A x : Found(SynStream(x), SynAlerts(x), SynWindow, SynRate)
        BY <2>3, NoneFound, SynAssumption
    <2> QED
        BY <2>2, <2>3, <2>4 DEF SynTracked, Began
<1>2. IInv /\ Inv /\ [Next]_vars => Inv'
    <2>1. SUFFICES ASSUME IInv, Inv, [Next]_vars PROVE Inv'
        OBVIOUS
    <2>2. CASE Inspect \/ InspectIgnore
        <3>1. ASSUME NEW x \in Sources PROVE SynTracked(x)'
            BY <2>1, <2>2, <3>1, SynTrackedStep
        <3> QED
            BY <2>1, <3>1, BeganStep
    <2>3. CASE UNCHANGED <<syn, log, raised>>
        <3>1. ASSUME NEW x \in Sources PROVE SynTracked(x)'
            <4>1. SynStream(x)' = SynStream(x) /\ SynAlerts(x)' = SynAlerts(x)
                BY <2>3 DEF SynStream, StreamOf, Tcp, From, SynAlerts, Raised
            <4>2. OnlySyn(Tcp(From(x, 1, Len(log))))' <=> OnlySyn(Tcp(From(x, 1, Len(log))))
                BY <2>3 DEF OnlySyn, SynAt, Tcp, From
            <4>3. SynTracked(x)
                BY <2>1
            <4> QED
                BY <2>3, <4>1, <4>2, <4>3 DEF SynTracked
        <3> QED
            BY <2>1, <3>1, BeganStep
    <2> QED
        BY <2>1, <2>2, <2>3 DEF Next, Tick, Receive, vars, stateVars
<1>3. Inv => SustainedFloodIsFound
    <2>1. SUFFICES ASSUME Inv, NEW p \in Packets, p.src # None, NEW t \in Nat,
                          OnlySyn(Tcp(From(p.src, 1, Len(log)))),
                          \A u \in t..(t + 2 * SynWindow) :
                            Busy(Tcp(From(p.src, 1, Len(log))), u, SynRate)
                   PROVE  \E a \in Raised("SYN_FLOOD") : FoundBy(a, p, t, t + 2 * SynWindow)
        BY ConstantTypes DEF SustainedFloodIsFound
    <2> PICK x : x = p.src
        OBVIOUS
    <2>2. x \in Sources
        BY <2>1 DEF Sources
    <2>3. \A u \in t..(t + 2 * SynWindow) : BusyAt(SynStream(x), u, SynRate)
        BY <2>1, SameBusy DEF SynStream
    <2>4. Found(SynStream(x), SynAlerts(x), SynWindow, SynRate)
        BY <2>1, <2>2 DEF SynTracked
    <2>5. PICK b \in SynAlerts(x) : b \in t..(t + 2 * SynWindow)
        BY <2>3, <2>4 DEF Found, Within
    <2>6. PICK a \in Raised("SYN_FLOOD") : a.src = x /\ a.at = b
        BY <2>5 DEF SynAlerts
    <2> QED
        BY <2>5, <2>6 DEF FoundBy
<1> QED
    BY <1>1, <1>2, <1>3, Invariance, PTL DEF Spec
=============================================================================
