------------------------------- MODULE TcpFlow -------------------------------
(***************************************************************************)
(* One TCP flow record fed with segments of either side, in any order: the *)
(* capture may have begun in the middle of a connection, segments may be   *)
(* repeated or missing, and a port pair may be used again.                 *)
(***************************************************************************)
EXTENDS FlowRecord, Sequences, FiniteSets

CONSTANTS
  Segments,       \* the flag sets that occur
  MaxSegments,    \* bound: segments of one session
  MaxOpens        \* bound: sessions on one record

ASSUME SegmentAssumption ==
  /\ Segments \subseteq SUBSET {"SYN", "ACK", "FIN", "RST", "PSH"}
  /\ MaxSegments \in Nat
  /\ MaxOpens \in Nat

Sides == {"lo", "hi"}

VARIABLES
  rec,          \* the TCP part of the record
  log,          \* history: the segments since the record was made or re-opened
  opens,        \* history: how often the state machine went to SYN_SENT
  established,  \* history: which of these sessions reached ESTABLISHED
  reused,       \* history: whether the record was ever re-opened
  psh_before    \* history: the PSH segments before the last re-opening

vars == <<rec, log, opens, established, reused, psh_before>>

Fin(f) == "FIN" \in f
Rst(f) == "RST" \in f
Psh(f) == "PSH" \in f

\* How many segments of this session, from the one at place `first' on, satisfy P.
CountFrom(first, P(_)) == Cardinality({i \in first..Len(log) : P(log[i].flags)})
Count(P(_)) == CountFrom(1, P)

Init ==
  /\ rec = NewTcp
  /\ log = <<>>
  /\ opens = 0
  /\ established = {}
  /\ reused = FALSE
  /\ psh_before = 0

\* The record sees a segment with flags f from one side.
Segment(f, side) ==
  LET reopens == Reopens(rec.tcp_state, f)
      segment == [flags |-> f, side |-> side]
  IN /\ rec' = advance_tcp_state(rec, f)
     /\ log' = IF reopens THEN <<segment>> ELSE Append(log, segment)
     /\ opens' = Bump(opens, rec.tcp_state # "SYN_SENT" /\ rec'.tcp_state = "SYN_SENT")
     /\ established' = IF rec'.tcp_state = "ESTABLISHED" THEN established \cup {opens'}
                       ELSE established
     /\ reused' = (reused \/ reopens)
     /\ psh_before' = IF reopens THEN psh_before + Count(Psh) ELSE psh_before

Next ==
  /\ Len(log) < MaxSegments
  /\ opens < MaxOpens \/ rec.tcp_state # "CLOSED"
  /\ \E f \in Segments, side \in Sides : Segment(f, side)

Spec == Init /\ [][Next]_vars

-----------------------------------------------------------------------------

Counts == {"syn_count", "syn_ack_count", "ack_count", "fin_count", "rst_count",
           "psh_count", "completed_handshakes"}

\* The state is one of TcpState's and no counter of the record runs below zero.
TypeOK ==
  /\ rec.tcp_state \in TcpStates
  /\ \A c \in Counts : rec[c] \in Nat
  /\ opens \in Nat
  /\ log \in Seq([flags : SUBSET {"SYN", "ACK", "FIN", "RST", "PSH"}, side : Sides])
  /\ established \in SUBSET (1..opens)
  /\ reused \in BOOLEAN
  /\ psh_before \in Nat

\* A record is established only after a SYN, a SYN+ACK and an ACK came in that
\* order in this session: neither a capture that begins in mid-connection nor
\* a re-used port pair can fake a handshake.
EstablishedMeansHandshake ==
  rec.tcp_state \in {"ESTABLISHED", "FIN_WAIT"} =>
    \E i, j, k \in 1..Len(log) :
      i < j /\ j < k /\ SynOnly(log[i].flags) /\ SynAck(log[j].flags)
                     /\ AckOnly(log[k].flags)

\* completed_handshakes is the number of sessions of the record that reached
\* ESTABLISHED, each counted once however often its ACK is repeated, the present
\* one from the ACK of its handshake on and not before.
HandshakesCounted ==
  /\ rec.completed_handshakes = Cardinality(established)
  /\ rec.tcp_state \in {"SYN_SENT", "SYN_RECEIVED"} => opens \notin established
  /\ rec.tcp_state \in {"ESTABLISHED", "FIN_WAIT"} => opens \in established

\* What each per-flag counter counts.  SYN, SYN+ACK, ACK and RST: the segments of
\* this session.  FIN: those of this session too, except that a FIN in the very SYN
\* that re-opened the record is wiped out after it was counted.  PSH: all segments
\* the record ever saw, since no session starts it again.
CountersMatchSession ==
  /\ TypeOK
  /\ rec.syn_count = Count(SynOnly)
  /\ rec.syn_ack_count = Count(SynAck)
  /\ rec.ack_count = Count(AckOnly)
  /\ rec.fin_count = CountFrom(IF reused THEN 2 ELSE 1, Fin)
  /\ rec.rst_count = Count(Rst)
  /\ rec.psh_count = psh_before + Count(Psh)

\* The steps of a connection, each after the one before it, within the first n
\* segments of the log l.
SynBy(l, n) == \E i \in 1..n : SynOnly(l[i].flags)
SynAckBy(l, n) == \E i \in 1..n : SynAck(l[i].flags) /\ SynBy(l, i - 1)
HandshakeBy(l, n) == \E i \in 1..n : AckOnly(l[i].flags) /\ SynAckBy(l, i - 1)
FinBy(l, n) == \E i \in 1..n : Fin(l[i].flags) /\ HandshakeBy(l, i - 1)
FinAckBy(l, n) ==
  \E i \in 1..n : {"FIN", "ACK"} \subseteq l[i].flags /\ FinBy(l, i - 1)

\* A session is closed exactly when it saw a RST or, after its handshake, a FIN and
\* then a FIN+ACK: nothing less closes it and it does not stay open after these.
ClosedIffFinished ==
  rec.tcp_state = "CLOSED" <=>
    \/ \E i \in 1..Len(log) : Rst(log[i].flags)
    \/ FinAckBy(log, Len(log))

\* TcpState::CLOSED is documented as "RST observed, or both FINs exchanged": a
\* connection whose SYN+ACK answered the other side's SYN and that saw no RST is
\* closed only after each side has sent a FIN.
BothFinsExchanged ==
  (/\ rec.tcp_state = "CLOSED"
   /\ \A i \in 1..Len(log) : ~Rst(log[i].flags)
   /\ \E i, j \in 1..Len(log) :
        SynOnly(log[i].flags) /\ SynAck(log[j].flags) /\ log[i].side # log[j].side)
  => \A side \in Sides : \E i \in 1..Len(log) : log[i].side = side /\ Fin(log[i].flags)
=============================================================================
