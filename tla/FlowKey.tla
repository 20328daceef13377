------------------------------- MODULE FlowKey -------------------------------
(***************************************************************************)
(* include/FlowKey.hpp: the key under which both directions of a           *)
(* conversation meet.  An address is a number: the lexicographic order of  *)
(* the sixteen bytes of an Addr128 is the order of the 128-bit value, and  *)
(* IPv4 addresses keep theirs inside ::ffff:0:0/96.                        *)
(***************************************************************************)
EXTENDS Naturals

Endpoint(addr, port) == [addr |-> addr, port |-> port]
Endpoints == [addr : Nat, port : Nat]

\* Mutant: the port does not break the tie between equal addresses.
src_is_lo_no_tiebreak(src, dst) == src.addr <= dst.addr

src_is_lo(src, dst) ==
  \/ src.addr < dst.addr
  \/ src.addr = dst.addr /\ src.port <= dst.port

\* FlowKey::make
make(src, dst, proto) ==
  IF src_is_lo(src, dst)
    THEN [lo |-> src, hi |-> dst, protocol |-> proto]
    ELSE [lo |-> dst, hi |-> src, protocol |-> proto]

\* Mutant: equal addresses fall to the other side.
direction_strict(src, dst) == IF src.addr < dst.addr THEN "LO_TO_HI" ELSE "HI_TO_LO"

\* FlowTracker::update computes the direction on its own, from the addresses.
direction(src, dst) == IF src.addr <= dst.addr THEN "LO_TO_HI" ELSE "HI_TO_LO"
=============================================================================
