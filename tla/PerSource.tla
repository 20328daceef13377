------------------------------ MODULE PerSource ------------------------------
(***************************************************************************)
(* What the detectors share: the unit of their rates and the maps from a   *)
(* source address to its state.  A rate of r per second is r / Second per  *)
(* tick; rates are compared by multiplying out, never by dividing.         *)
(***************************************************************************)
EXTENDS Integers, FiniteSets

CONSTANT Second   \* ticks in one second

ASSUME SecondAssumption == Second \in Nat \ {0}

\* f[x] = v; operator[] and emplace() make the entry if it is not there.
Put(f, x, v) == [y \in DOMAIN f \cup {x} |-> IF y = x THEN v ELSE f[y]]
Lookup(f, x, default) == IF x \in DOMAIN f THEN f[x] ELSE default

\* n events in age ticks are at least r per second.
Reaches(n, age, r) == n * Second >= r * age
=============================================================================
