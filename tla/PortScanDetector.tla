--------------------------- MODULE PortScanDetector ---------------------------
(***************************************************************************)
(* include/PortScanDetector.hpp: per source the distinct ports it          *)
(* contacted in the current window, and how many of its packets were SYNs. *)
(***************************************************************************)
EXTENDS PerSource

CONSTANTS
  ScanWindow,                  \* cfg_.window_sec, in ticks
  ScanThreshold,               \* cfg_.distinct_port_threshold
  ScanRatioNum, ScanRatioDen   \* cfg_.syn_only_ratio as a fraction; 0: no gate

ASSUME ScanAssumption ==
  /\ {ScanWindow, ScanThreshold, ScanRatioDen} \subseteq Nat \ {0}
  /\ ScanRatioNum \in 0..ScanRatioDen

ScanProfile(start) ==
  [dst_ports |-> {}, tcp_packet_count |-> 0, syn_only_count |-> 0,
   window_start |-> start]

\* Mutant: a window that never ends.
rolled_never(profile, now) == profile

\* A window that is over is emptied; the new one begins with this packet.
rolled(profile, now) ==
  IF now - profile.window_start >= ScanWindow THEN ScanProfile(now) ELSE profile

\* The profile after inspect().  Every packet with a port counts, UDP with its
\* flags taken as 0.
scan_inspected(profile, port, kind, now) ==
  [rolled(profile, now) EXCEPT
     !.dst_ports = @ \cup {port},
     !.tcp_packet_count = @ + 1,
     !.syn_only_count = IF kind = "syn" THEN @ + 1 ELSE @]

\* Mutant: more than the threshold is asked for.
many_ports_off_by_one(q) == Cardinality(q.dst_ports) > ScanThreshold

many_ports(q) == Cardinality(q.dst_ports) >= ScanThreshold

ratio_met(q) ==
  ScanRatioNum > 0 =>
    q.syn_only_count * ScanRatioDen >= ScanRatioNum * q.tcp_packet_count

\* The severities inspect() returns: none or one.
port_scan(profile, port, kind, now) ==
  LET q == scan_inspected(profile, port, kind, now)
  IN IF many_ports(q) /\ ratio_met(q)
       THEN {IF Cardinality(q.dst_ports) >= ScanThreshold * 2 THEN "HIGH" ELSE "MEDIUM"}
       ELSE {}
=============================================================================
