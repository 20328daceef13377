------------------------------ MODULE MCTcpFlow ------------------------------
(* TcpFlow with the flag combinations of a real connection and two odd ones. *)
EXTENDS TcpFlow

MCSegments ==
  {{"SYN"}, {"SYN", "ACK"}, {"ACK"}, {"PSH", "ACK"}, {"FIN", "ACK"}, {"RST"},
   {"SYN", "FIN"}}

\* Only what a well-behaved connection sends, a FIN repeated included.
MCPlainSegments == {{"SYN"}, {"SYN", "ACK"}, {"ACK"}, {"FIN", "ACK"}}
=============================================================================
