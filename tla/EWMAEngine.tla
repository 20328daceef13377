----------------------------- MODULE EWMAEngine -----------------------------
(***************************************************************************)
(* include/EWMAEngine.hpp: per source a baseline of packets per second,    *)
(* averaged over the windows so far, and the score of a window against it. *)
(*                                                                         *)
(* A double is modelled by an exact fraction.  The baseline of bytes per   *)
(* second and observed_bps are left out: nothing decides by them.          *)
(***************************************************************************)
EXTENDS PerSource

CONSTANTS
  AlphaNum, AlphaDen,  \* cfg_.alpha is AlphaNum / AlphaDen
  StaleSec,            \* cfg_.stale_reset_sec, in ticks
  EwmaWindow,          \* cfg_.min_window_sec, in ticks
  MediumMultiplier,    \* cfg_.medium_multiplier
  HighMultiplier,      \* cfg_.high_multiplier
  PpsFloor             \* cfg_.pps_floor

ASSUME EwmaAssumption ==
  /\ {AlphaNum, AlphaDen, StaleSec, EwmaWindow, MediumMultiplier,
      HighMultiplier, PpsFloor} \subseteq Nat \ {0}
  /\ AlphaNum < AlphaDen
  /\ MediumMultiplier <= HighMultiplier

Frac(num, den) == [num |-> num, den |-> den]

\* PerIpEwmaProfile(), and what a stale profile is reset to.
EwmaProfile(start) ==
  [ewma_pps |-> Frac(0, 1), window_packets |-> 0, window_start |-> start,
   cold_start |-> TRUE, last_update |-> start]

\* Mutant: a source that was silent for long keeps its old baseline.
refreshed_never(profile, now) == profile

\* A profile that has a baseline starts over after a long silence.
refreshed(profile, now) ==
  IF ~profile.cold_start /\ now - profile.last_update > StaleSec
    THEN EwmaProfile(now)
    ELSE profile

\* The profile with the packet in it, before its window is looked at.
observed(profile, now) ==
  [refreshed(profile, now) EXCEPT !.last_update = now, !.window_packets = @ + 1]

ewma_over(profile, now) == now - profile.window_start >= EwmaWindow

\* alpha * n / age + (1 - alpha) * old
averaged(old, n, age) ==
  Frac(AlphaNum * n * old.den + (AlphaDen - AlphaNum) * old.num * age,
       AlphaDen * age * old.den)

\* The first full window seeds the baseline.
baseline(profile, age) ==
  IF profile.cold_start THEN Frac(profile.window_packets, age)
  ELSE averaged(profile.ewma_pps, profile.window_packets, age)

\* The profile after update().
ewma_updated(profile, now) ==
  LET q == observed(profile, now)
  IN IF ~ewma_over(q, now) THEN q
     ELSE [q EXCEPT !.ewma_pps = baseline(q, now - q.window_start),
                    !.cold_start = FALSE,
                    !.window_packets = 0,
                    !.window_start = now]

\* inst_pps / max(prev_pps, pps_floor) >= m
exceeds(q, age, m) ==
  /\ q.window_packets * q.ewma_pps.den >= m * q.ewma_pps.num * age
  /\ Reaches(q.window_packets, age, m * PpsFloor)

\* The first window is not scored: there is nothing to score it against.
scored(q, now) == ewma_over(q, now) /\ ~q.cold_start

\* The severities update() returns: none or one.
volume_anomaly(profile, now) ==
  LET q == observed(profile, now)
      over(m) == scored(q, now) /\ exceeds(q, now - q.window_start, m)
  IN IF over(HighMultiplier) THEN {"HIGH"}
     ELSE IF over(MediumMultiplier) THEN {"MEDIUM"} ELSE {}
=============================================================================
