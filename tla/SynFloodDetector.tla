-------------------------- MODULE SynFloodDetector --------------------------
(***************************************************************************)
(* include/SynFloodDetector.hpp: per source the SYNs and all TCP packets   *)
(* of the current window, looked at by the packet that ends it.  The       *)
(* SYN+ACK and lifetime counters, which decide nothing, are left out.      *)
(***************************************************************************)
EXTENDS PerSource

CONSTANTS
  SynRate,                    \* cfg_.syn_rate_pps
  SynRatioNum, SynRatioDen,   \* cfg_.syn_ratio is SynRatioNum / SynRatioDen
  SynWindow                   \* cfg_.window_sec, in ticks

ASSUME SynAssumption ==
  /\ {SynRate, SynRatioDen, SynWindow} \subseteq Nat \ {0}
  /\ SynRatioNum \in 0..SynRatioDen

SynProfile(start) ==
  [syn_only_count |-> 0, tcp_total_count |-> 0, window_start |-> start]

\* SYN set, ACK not set.
syn_only(kind) == kind = "syn"

classified(profile, kind) ==
  [profile EXCEPT !.tcp_total_count = @ + 1,
                  !.syn_only_count = IF syn_only(kind) THEN @ + 1 ELSE @]

syn_over(profile, now) == now - profile.window_start >= SynWindow

\* Mutant: the counts go on into the next window.
syn_inspected_kept(profile, kind, now) ==
  LET q == classified(profile, kind)
  IN IF syn_over(q, now) THEN [q EXCEPT !.window_start = now] ELSE q

\* Mutant: the TCP packets of all windows are counted together.
syn_inspected_total_kept(profile, kind, now) ==
  LET q == classified(profile, kind)
  IN IF syn_over(q, now)
       THEN [SynProfile(now) EXCEPT !.tcp_total_count = q.tcp_total_count] ELSE q

\* The profile after inspect().
syn_inspected(profile, kind, now) ==
  LET q == classified(profile, kind)
  IN IF syn_over(q, now) THEN SynProfile(now) ELSE q

\* The time the rate is averaged over: all of it since the window began.
syn_age(q, now) == now - q.window_start

\* The severities inspect() returns: none or one.
syn_flood(profile, kind, now) ==
  LET q == classified(profile, kind)
      rate(r) == Reaches(q.syn_only_count, syn_age(q, now), r)
  IN IF /\ syn_over(q, now)
        /\ rate(SynRate)
        /\ q.syn_only_count * SynRatioDen >= SynRatioNum * q.tcp_total_count
       THEN {IF rate(5 * SynRate) THEN "CRITICAL" ELSE "HIGH"}
       ELSE {}
=============================================================================
