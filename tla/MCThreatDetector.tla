-------------------------- MODULE MCThreatDetector --------------------------
(* Packets that reach one check each, and some that reach several. *)
EXTENDS ThreatDetector

Syn ==
  [src |-> "a", port |-> 1, kind |-> "syn", sensitive |-> FALSE, dns |-> {},
   payload |-> 0]
Udp == [Syn EXCEPT !.kind = "udp", !.port = 53]

\* A source that scans ports, one of them sensitive, answers, queries and sends;
\* a second source without ports (ICMP); and a packet without a source (ARP).
MCPackets ==
  { Syn, [Syn EXCEPT !.port = 2], [Syn EXCEPT !.port = 22, !.sensitive = TRUE],
    [Syn EXCEPT !.kind = "synack"],
    [Udp EXCEPT !.dns = {"long", "txt"}],
    [Udp EXCEPT !.dns = {"txt"}, !.payload = 4],
    [Udp EXCEPT !.src = "b", !.port = 0],
    [Udp EXCEPT !.src = None, !.port = 0] }

\* A source that floods or attacks a sensitive port, and its other TCP packets.
MCFlood ==
  { [Syn EXCEPT !.port = 22, !.sensitive = TRUE],
    [Syn EXCEPT !.kind = "synack", !.port = 80] }
=============================================================================
