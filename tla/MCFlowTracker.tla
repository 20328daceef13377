---------------------------- MODULE MCFlowTracker ----------------------------
(* A TCP conversation seen from both sides, a UDP one, one between two ports  *)
(* of a single address, and a packet that is not IP.                          *)
EXTENDS FlowTracker

A == Endpoint(1, 40)
B == Endpoint(2, 80)
B2 == Endpoint(2, 22)

Packet(s, d, proto, f) ==
  [ip |-> TRUE, src |-> s, dst |-> d, protocol |-> proto, flags |-> f]

MCPackets ==
  { Packet(A, B, "TCP", {"SYN"}), Packet(B, A, "TCP", {"RST"}),
    Packet(B, B2, "UDP", {}), Packet(B2, B, "UDP", {}),
    Packet(A, B, "UDP", {}),
    [Packet(A, B, "UDP", {}) EXCEPT !.ip = FALSE] }
=============================================================================
