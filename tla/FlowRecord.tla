------------------------------ MODULE FlowRecord ------------------------------
(***************************************************************************)
(* include/FlowRecord.hpp: the TCP part of a flow record and what one      *)
(* segment does to it.  A flags byte is the set of the flags in it.        *)
(***************************************************************************)
EXTENDS Naturals

TcpStates == {"INIT", "SYN_SENT", "SYN_RECEIVED", "ESTABLISHED", "FIN_WAIT",
              "CLOSED"}

SynOnly(f) == "SYN" \in f /\ "ACK" \notin f
SynAck(f)  == "SYN" \in f /\ "ACK" \in f
AckOnly(f) == "ACK" \in f /\ "SYN" \notin f

NewTcp ==
  [tcp_state |-> "INIT", syn_count |-> 0, syn_ack_count |-> 0, ack_count |-> 0,
   fin_count |-> 0, rst_count |-> 0, psh_count |-> 0, completed_handshakes |-> 0]

\* Mutant: the state machine jumps from the SYN to the first ACK.
next_state_skips(st, f) ==
  IF "RST" \in f THEN "CLOSED"
  ELSE CASE st \in {"INIT", "CLOSED"} /\ SynOnly(f) -> "SYN_SENT"
         [] st = "SYN_SENT" /\ SynAck(f) -> "SYN_RECEIVED"
         [] st \in {"SYN_SENT", "SYN_RECEIVED"} /\ AckOnly(f) -> "ESTABLISHED"
         [] st = "ESTABLISHED" /\ "FIN" \in f -> "FIN_WAIT"
         [] st = "FIN_WAIT" /\ {"FIN", "ACK"} \subseteq f -> "CLOSED"
         [] OTHER -> st

\* Mutant: the ACK of the first FIN closes the session.
next_state_one_fin(st, f) ==
  IF "RST" \in f THEN "CLOSED"
  ELSE CASE st \in {"INIT", "CLOSED"} /\ SynOnly(f) -> "SYN_SENT"
         [] st = "SYN_SENT" /\ SynAck(f) -> "SYN_RECEIVED"
         [] st = "SYN_RECEIVED" /\ AckOnly(f) -> "ESTABLISHED"
         [] st = "ESTABLISHED" /\ "FIN" \in f -> "FIN_WAIT"
         [] st = "FIN_WAIT" /\ "ACK" \in f -> "CLOSED"
         [] OTHER -> st

next_state(st, f) ==
  IF "RST" \in f THEN "CLOSED"
  ELSE CASE st \in {"INIT", "CLOSED"} /\ SynOnly(f) -> "SYN_SENT"
         [] st = "SYN_SENT" /\ SynAck(f) -> "SYN_RECEIVED"
         [] st = "SYN_RECEIVED" /\ AckOnly(f) -> "ESTABLISHED"
         [] st = "ESTABLISHED" /\ "FIN" \in f -> "FIN_WAIT"
         [] st = "FIN_WAIT" /\ {"FIN", "ACK"} \subseteq f -> "CLOSED"
         [] OTHER -> st

\* A SYN on a closed record starts a new session on it.
Reopens(st, f) == st = "CLOSED" /\ SynOnly(f) /\ "RST" \notin f

\* Mutant: a handshake is counted at its SYN+ACK.
completes_at_syn_ack(st, f) == st = "SYN_SENT" /\ next_state(st, f) = "SYN_RECEIVED"

completes(st, f) == st = "SYN_RECEIVED" /\ next_state(st, f) = "ESTABLISHED"

Bump(n, cond) == IF cond THEN n + 1 ELSE n

\* The counters and the state after one more segment.
counted(rec, f) ==
  [tcp_state |-> next_state(rec.tcp_state, f),
   syn_count |-> Bump(rec.syn_count, SynOnly(f)),
   syn_ack_count |-> Bump(rec.syn_ack_count, SynAck(f)),
   ack_count |-> Bump(rec.ack_count, AckOnly(f)),
   fin_count |-> Bump(rec.fin_count, "FIN" \in f),
   rst_count |-> Bump(rec.rst_count, "RST" \in f),
   psh_count |-> Bump(rec.psh_count, "PSH" \in f),
   completed_handshakes |->
     Bump(rec.completed_handshakes, completes(rec.tcp_state, f))]

\* Mutant: the counters of the old session are kept.
advance_tcp_state_no_reset(rec, f) == counted(rec, f)

\* FlowRecord::advance_tcp_state: on a re-opening SYN five of the counters, just
\* incremented, start again; psh_count goes on.
advance_tcp_state(rec, f) ==
  IF Reopens(rec.tcp_state, f)
    THEN [counted(rec, f) EXCEPT !.syn_count = 1, !.syn_ack_count = 0,
            !.ack_count = 0, !.fin_count = 0, !.rst_count = 0]
    ELSE counted(rec, f)
=============================================================================
