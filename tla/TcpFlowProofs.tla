---------------------------- MODULE TcpFlowProofs ----------------------------
(***************************************************************************)
(* Proofs about TcpFlow for any number of segments and of sessions on one  *)
(* record.                                                                 *)
(***************************************************************************)
EXTENDS TcpFlow, Integers, FiniteSetTheorems, SequenceTheorems, TLAPS

Flags == SUBSET {"SYN", "ACK", "FIN", "RST", "PSH"}
Entries == [flags : Flags, side : Sides]
TcpRecords ==
  [tcp_state : TcpStates, syn_count : Nat, syn_ack_count : Nat, ack_count : Nat,
   fin_count : Nat, rst_count : Nat, psh_count : Nat, completed_handshakes : Nat]

(***************************************************************************)
(* The inductive invariant.  What the two properties about states say is   *)
(* the end of a story that has to be told from the first SYN on: Progress  *)
(* says for each state how far exactly the segments of this session have   *)
(* come.                                                                   *)
(***************************************************************************)
Types ==
  /\ rec \in TcpRecords
  /\ log \in Seq(Entries)
  /\ opens \in Nat
  /\ established \in SUBSET (1..opens)
  /\ reused \in BOOLEAN
  /\ psh_before \in Nat
  /\ reused => Len(log) > 0

FinAck(f) == {"FIN", "ACK"} \subseteq f
RstBy(l, n) == \E i \in 1..n : Rst(l[i].flags)

Progress(st, l, n) ==
  /\ st # "CLOSED" => ~RstBy(l, n)
  /\ st = "INIT" => ~SynBy(l, n)
  /\ st = "SYN_SENT" => SynBy(l, n) /\ ~SynAckBy(l, n)
  /\ st = "SYN_RECEIVED" => SynAckBy(l, n) /\ ~HandshakeBy(l, n)
  /\ st = "ESTABLISHED" => HandshakeBy(l, n) /\ ~FinBy(l, n)
  /\ st = "FIN_WAIT" => HandshakeBy(l, n) /\ FinBy(l, n) /\ ~FinAckBy(l, n)
  /\ st = "CLOSED" => RstBy(l, n) \/ FinAckBy(l, n)

Counters ==
  /\ rec.syn_count = Count(SynOnly)
  /\ rec.syn_ack_count = Count(SynAck)
  /\ rec.ack_count = Count(AckOnly)
  /\ rec.fin_count = CountFrom(IF reused THEN 2 ELSE 1, Fin)
  /\ rec.rst_count = Count(Rst)
  /\ rec.psh_count = psh_before + Count(Psh)

\* A session is counted among the openings before it can be established.
OpenedBefore ==
  rec.tcp_state \in {"SYN_SENT", "SYN_RECEIVED", "ESTABLISHED", "FIN_WAIT"} => opens > 0

IInv ==
  /\ Types
  /\ OpenedBefore
  /\ Progress(rec.tcp_state, log, Len(log))
  /\ HandshakesCounted
  /\ Counters

-----------------------------------------------------------------------------
(* The story grows with the log *)

\* Each step of the story comes after the one before it.
LEMMA StepsInOrder ==
  ASSUME NEW l \in Seq(Entries), NEW n \in Nat
  PROVE  /\ SynAckBy(l, n) => SynBy(l, n)
         /\ HandshakeBy(l, n) => SynAckBy(l, n)
         /\ FinBy(l, n) => HandshakeBy(l, n)
         /\ FinAckBy(l, n) => FinBy(l, n)
<1>1. \A i \in 1..n : i - 1 \in Nat /\ 1..(i - 1) \subseteq 1..n
    OBVIOUS
<1>2. SynAckBy(l, n) => SynBy(l, n)
    BY <1>1 DEF SynAckBy, SynBy
<1>3. HandshakeBy(l, n) => SynAckBy(l, n)
    BY <1>1 DEF SynAckBy, HandshakeBy
<1>4. FinBy(l, n) => HandshakeBy(l, n)
    BY <1>1 DEF FinBy, HandshakeBy
<1>5. FinAckBy(l, n) => FinBy(l, n)
    BY <1>1 DEF FinAckBy, FinBy
<1> QED
    BY <1>2, <1>3, <1>4, <1>5

\* One more segment keeps what was seen and adds exactly its own step to it.
LEMMA SeenGrows ==
  ASSUME NEW l \in Seq(Entries), NEW e \in Entries, NEW n, n = Len(l)
  PROVE  LET m == Append(l, e)
         IN /\ SynBy(m, n + 1) <=> SynBy(l, n) \/ SynOnly(e.flags)
            /\ SynAckBy(m, n + 1) <=>
                 SynAckBy(l, n) \/ (SynAck(e.flags) /\ SynBy(l, n))
            /\ HandshakeBy(m, n + 1) <=>
                 HandshakeBy(l, n) \/ (AckOnly(e.flags) /\ SynAckBy(l, n))
            /\ FinBy(m, n + 1) <=>
                 FinBy(l, n) \/ (Fin(e.flags) /\ HandshakeBy(l, n))
            /\ FinAckBy(m, n + 1) <=>
                 FinAckBy(l, n) \/ (FinAck(e.flags) /\ FinBy(l, n))
            /\ RstBy(m, n + 1) <=> RstBy(l, n) \/ Rst(e.flags)
<1> DEFINE m == Append(l, e)
<1>1. /\ n \in Nat /\ m[n + 1] = e
      /\ \A i \in 1..n : m[i] = l[i]
    BY AppendProperties
<1> HIDE DEF m
<1>2. /\ \A i : i \in 1..(n + 1) <=> i \in 1..n \/ i = n + 1
      /\ (n + 1) - 1 = n
      /\ \A i \in 0..n : 1..i \subseteq 1..n
      /\ \A i \in 1..n : i - 1 \in 0..n
      /\ n \in 0..n
    BY <1>1
<1>3. \A i \in 0..n : SynBy(m, i) <=> SynBy(l, i)
    BY <1>1, <1>2 DEF SynBy
<1>4. \A i \in 0..n : SynAckBy(m, i) <=> SynAckBy(l, i)
    BY <1>1, <1>2, <1>3 DEF SynAckBy
<1>5. \A i \in 0..n : HandshakeBy(m, i) <=> HandshakeBy(l, i)
    BY <1>1, <1>2, <1>4 DEF HandshakeBy
<1>6. \A i \in 0..n : FinBy(m, i) <=> FinBy(l, i)
    BY <1>1, <1>2, <1>5 DEF FinBy
<1>7. SynBy(m, n + 1) <=> SynBy(l, n) \/ SynOnly(e.flags)
    BY <1>1, <1>2 DEF SynBy
<1>8. SynAckBy(m, n + 1) <=> SynAckBy(l, n) \/ (SynAck(e.flags) /\ SynBy(l, n))
    BY <1>1, <1>2, <1>3 DEF SynAckBy
<1>9. HandshakeBy(m, n + 1) <=> HandshakeBy(l, n) \/ (AckOnly(e.flags) /\ SynAckBy(l, n))
    BY <1>1, <1>2, <1>4 DEF HandshakeBy
<1>10. FinBy(m, n + 1) <=> FinBy(l, n) \/ (Fin(e.flags) /\ HandshakeBy(l, n))
    BY <1>1, <1>2, <1>5 DEF FinBy
<1>11. FinAckBy(m, n + 1) <=> FinAckBy(l, n) \/ (FinAck(e.flags) /\ FinBy(l, n))
    BY <1>1, <1>2, <1>6 DEF FinAckBy, FinAck
<1>12. RstBy(m, n + 1) <=> RstBy(l, n) \/ Rst(e.flags)
    BY <1>1, <1>2 DEF RstBy
<1> QED
    BY <1>7, <1>8, <1>9, <1>10, <1>11, <1>12 DEF m

\* next_state() follows the story.
LEMMA ProgressGrows ==
  ASSUME NEW l \in Seq(Entries), NEW e \in Entries, NEW st \in TcpStates, NEW n, n = Len(l),
         Progress(st, l, n), ~Reopens(st, e.flags)
  PROVE  Progress(next_state(st, e.flags), Append(l, e), n + 1)
<1> DEFINE f == e.flags
           m == Append(l, e)
           nx == next_state(st, f)
<1>1. /\ SynBy(m, n + 1) <=> SynBy(l, n) \/ SynOnly(f)
      /\ SynAckBy(m, n + 1) <=> SynAckBy(l, n) \/ (SynAck(f) /\ SynBy(l, n))
      /\ HandshakeBy(m, n + 1) <=> HandshakeBy(l, n) \/ (AckOnly(f) /\ SynAckBy(l, n))
      /\ FinBy(m, n + 1) <=> FinBy(l, n) \/ (Fin(f) /\ HandshakeBy(l, n))
      /\ FinAckBy(m, n + 1) <=> FinAckBy(l, n) \/ (FinAck(f) /\ FinBy(l, n))
      /\ RstBy(m, n + 1) <=> RstBy(l, n) \/ Rst(f)
    BY SeenGrows
<1>2. /\ SynAckBy(l, n) => SynBy(l, n)
      /\ HandshakeBy(l, n) => SynAckBy(l, n)
      /\ FinBy(l, n) => HandshakeBy(l, n)
      /\ FinAckBy(l, n) => FinBy(l, n)
    BY StepsInOrder
<1> HIDE DEF m
<1>3. Progress(nx, m, n + 1)
    <2>1. CASE Rst(f)
        <3>1. nx = "CLOSED" /\ RstBy(m, n + 1)
            BY <1>1, <2>1 DEF next_state, Rst
        <3> QED
            BY <3>1 DEF Progress
    <2>2. CASE ~Rst(f)
        <3> USE <1>1, <1>2, <2>2 DEF Rst, next_state, Progress, SynOnly, SynAck, AckOnly
        <3>1. CASE st = "INIT"
            BY <3>1
        <3>2. CASE st = "CLOSED"
            BY <3>2 DEF Reopens
        <3>3. CASE st = "SYN_SENT"
            BY <3>3
        <3>4. CASE st = "SYN_RECEIVED"
            BY <3>4
        <3>5. CASE st = "ESTABLISHED"
            BY <3>5 DEF Fin
        <3>6. CASE st = "FIN_WAIT"
            BY <3>6 DEF FinAck
        <3> QED
            BY <3>1, <3>2, <3>3, <3>4, <3>5, <3>6 DEF TcpStates
    <2> QED
        BY <2>1, <2>2
<1> QED
    BY <1>3 DEF m

-----------------------------------------------------------------------------
(* Counting *)

\* The positions that count in a log of one more segment: the new one may be among
\* them.
LEMMA CountGrows ==
  ASSUME NEW n \in Nat, NEW S \in SUBSET (1..n), NEW T, NEW cond \in BOOLEAN,
         T = IF cond THEN S \cup {n + 1} ELSE S
  PROVE  Cardinality(S) \in Nat /\ Cardinality(T) = Bump(Cardinality(S), cond)
<1>1. IsFiniteSet(1..n)
    BY FS_Interval
<1>2. IsFiniteSet(S)
    BY <1>1, FS_Subset
<1>3. n + 1 \notin S
    OBVIOUS
<1>4. Cardinality(S) \in Nat /\ Cardinality(S \cup {n + 1}) = Cardinality(S) + 1
    BY <1>2, <1>3, FS_AddElement, FS_CardinalityType
<1> QED
    BY <1>4 DEF Bump

-----------------------------------------------------------------------------
(* The inductive invariant *)

\* A new record satisfies the invariant.
LEMMA InitIInv == Init => IInv
<1> SUFFICES ASSUME Init PROVE IInv
    OBVIOUS
<1>1. Types
    <2>1. rec \in TcpRecords
        BY DEF Init, NewTcp, TcpRecords, TcpStates
    <2>2. opens = 0 /\ reused = FALSE /\ psh_before = 0 /\ established = {}
        BY DEF Init
    <2>3. log \in Seq(Entries)
        BY DEF Init
    <2>4. established \in SUBSET (1..opens)
        BY <2>2
    <2>5. ~reused /\ reused \in BOOLEAN
        BY <2>2
    <2> QED
        BY <2>1, <2>2, <2>3, <2>4, <2>5 DEF Types
<1>2. Progress(rec.tcp_state, log, Len(log))
    BY DEF Init, NewTcp, Progress, RstBy, SynBy
<1>3. HandshakesCounted
    BY FS_EmptySet DEF Init, NewTcp, HandshakesCounted
<1>0. OpenedBefore
    BY DEF Init, NewTcp, OpenedBefore
<1>4. Counters
    <2>1. 1..Len(log) = {} /\ ~reused
        BY DEF Init
    <2> QED
        BY <2>1, FS_EmptySet DEF Init, NewTcp, Counters, Count, CountFrom
<1> QED
    BY <1>0, <1>1, <1>2, <1>3, <1>4 DEF IInv

\* What a segment does to the other histories.
Histories(f) ==
  /\ opens' = Bump(opens, rec.tcp_state # "SYN_SENT" /\ rec'.tcp_state = "SYN_SENT")
  /\ established' = IF rec'.tcp_state = "ESTABLISHED" THEN established \cup {opens'}
                    ELSE established
  /\ reused' = (reused \/ Reopens(rec.tcp_state, f))
  /\ psh_before' = IF Reopens(rec.tcp_state, f) THEN psh_before + Count(Psh)
                   ELSE psh_before

\* A step is one segment: the first of a new session or one more of this one.
LEMMA SegmentStep ==
  ASSUME IInv, Next
  PROVE  \E e \in Entries :
           /\ rec' = advance_tcp_state(rec, e.flags)
           /\ log' = IF Reopens(rec.tcp_state, e.flags) THEN <<e>> ELSE Append(log, e)
           /\ Histories(e.flags)
<1>1. PICK f \in Segments, side \in Sides : Segment(f, side)
    BY DEF Next
<1> DEFINE e == [flags |-> f, side |-> side]
<1>2. e \in Entries /\ e.flags = f
    BY SegmentAssumption DEF Entries, Flags
<1>3. /\ rec' = advance_tcp_state(rec, e.flags)
      /\ log' = IF Reopens(rec.tcp_state, e.flags) THEN <<e>> ELSE Append(log, e)
      /\ Histories(e.flags)
    BY <1>1 DEF Segment, Histories
<1> HIDE DEF e
<1> QED
    BY <1>2, <1>3

\* A finite set of sessions and one that is not in it yet.
LEMMA SessionAdded ==
  ASSUME NEW n \in Nat, NEW S \in SUBSET (1..n)
  PROVE  /\ Cardinality(S) \in Nat
         /\ \A k : k \notin S => Cardinality(S \cup {k}) = Cardinality(S) + 1
<1>1. IsFiniteSet(1..n)
    BY FS_Interval
<1>2. IsFiniteSet(S)
    BY <1>1, FS_Subset
<1> QED
    BY <1>2, FS_AddElement, FS_CardinalityType

\* One more segment of the session.
LEMMA AppendIInv ==
  ASSUME IInv, NEW e \in Entries, ~Reopens(rec.tcp_state, e.flags),
         rec' = counted(rec, e.flags), log' = Append(log, e), Histories(e.flags)
  PROVE  IInv'
<1> DEFINE f == e.flags
           n == Len(log)
<1>1. /\ rec \in TcpRecords /\ log \in Seq(Entries) /\ opens \in Nat /\ n \in Nat
      /\ established \in SUBSET (1..opens) /\ reused \in BOOLEAN /\ psh_before \in Nat
      /\ reused => n > 0
    BY DEF IInv, Types
<1>0. reused' = reused /\ psh_before' = psh_before
    BY <1>1 DEF Histories
<1>2. next_state(rec.tcp_state, f) \in TcpStates
    BY <1>1 DEF next_state, TcpStates, TcpRecords
<1>3. Types'
    <2>1. rec' \in TcpRecords
        <3>1. \A k \in Nat : \A c : Bump(k, c) \in Nat
            BY DEF Bump
        <3>2. /\ rec.syn_count \in Nat /\ rec.syn_ack_count \in Nat /\ rec.ack_count \in Nat
              /\ rec.fin_count \in Nat /\ rec.rst_count \in Nat /\ rec.psh_count \in Nat
              /\ rec.completed_handshakes \in Nat
            BY <1>1 DEF TcpRecords
        <3> QED
            BY <1>2, <3>1, <3>2 DEF counted, TcpRecords
    <2>2. log' \in Seq(Entries)
        BY <1>1
    <2>3. opens' \in Nat /\ opens <= opens'
        BY <1>1 DEF Histories, Bump
    <2>4. established' \in SUBSET (1..opens')
        <3>1. rec'.tcp_state = "ESTABLISHED" => opens > 0
            <4>1. opens = 0 => rec.tcp_state \notin {"SYN_RECEIVED", "ESTABLISHED"}
                BY <1>1 DEF IInv, OpenedBefore
            <4> QED
                BY <1>1, <4>1 DEF counted, next_state
        <3>2. 1..opens \subseteq 1..opens'
            BY <1>1, <2>3
        <3>3. rec'.tcp_state = "ESTABLISHED" => opens' \in 1..opens'
            BY <1>1, <2>3, <3>1
        <3> QED
            BY <1>1, <3>2, <3>3 DEF Histories
    <2> QED
        BY <1>0, <1>1, <2>1, <2>2, <2>3, <2>4 DEF Types
<1>4. Progress(rec.tcp_state, log, Len(log))'
    <2>1. Progress(next_state(rec.tcp_state, f), Append(log, e), n + 1)
        BY <1>1, ProgressGrows DEF IInv, TcpRecords
    <2>2. rec'.tcp_state = next_state(rec.tcp_state, f) /\ Len(log') = n + 1
        BY <1>1 DEF counted
    <2> QED
        BY <2>1, <2>2
<1>5. HandshakesCounted' /\ OpenedBefore'
    <2>1. /\ rec'.tcp_state = next_state(rec.tcp_state, f)
          /\ rec'.completed_handshakes =
               Bump(rec.completed_handshakes, completes(rec.tcp_state, f))
        BY DEF counted
    <2>2. /\ rec.tcp_state \in TcpStates /\ rec.completed_handshakes = Cardinality(established)
          /\ rec.completed_handshakes \in Nat
        BY <1>1 DEF IInv, TcpRecords, HandshakesCounted
    <2>3. CASE completes(rec.tcp_state, f)
        <3>1. /\ rec.tcp_state = "SYN_RECEIVED" /\ rec'.tcp_state = "ESTABLISHED"
              /\ opens' = opens /\ established' = established \cup {opens}
              /\ rec'.completed_handshakes = rec.completed_handshakes + 1
            BY <2>1, <2>3 DEF completes, Bump, Histories
        <3>2. opens \notin established
            BY <3>1 DEF IInv, HandshakesCounted
        <3>3. Cardinality(established') = Cardinality(established) + 1
            BY <1>1, <3>1, <3>2, SessionAdded
        <3> QED
            BY <2>2, <3>1, <3>3 DEF IInv, HandshakesCounted, OpenedBefore
    <2>4. CASE ~completes(rec.tcp_state, f)
        <3>1. established' = established
            <4>1. rec'.tcp_state = "ESTABLISHED" =>
                    rec.tcp_state = "ESTABLISHED" /\ opens \in established /\ opens' = opens
                BY <2>1, <2>2, <2>4
                DEF IInv, HandshakesCounted, completes, next_state, TcpStates, Histories, Bump
            <4> QED
                BY <4>1 DEF Histories
        <3>2. rec'.completed_handshakes = rec.completed_handshakes
            BY <2>1, <2>4 DEF Bump
        <3>3. opens + 1 \notin established
            BY <1>1
        <3>4. /\ rec'.tcp_state \in {"SYN_SENT", "SYN_RECEIVED"} => opens' \notin established
              /\ rec'.tcp_state \in {"ESTABLISHED", "FIN_WAIT"} => opens' \in established
            BY <2>1, <2>2, <2>4, <3>3
            DEF IInv, HandshakesCounted, completes, next_state, TcpStates, Histories, Bump
        <3>5. OpenedBefore'
            BY <1>1, <2>1, <2>2 DEF IInv, OpenedBefore, next_state, TcpStates, Histories, Bump
        <3> QED
            BY <2>2, <3>1, <3>2, <3>4, <3>5 DEF HandshakesCounted
    <2> QED
        BY <2>3, <2>4
<1>6. /\ Len(log') = n + 1 /\ log'[n + 1] = e
      /\ \A i \in 1..n : log'[i] = log[i]
    BY <1>1, AppendProperties
<1>7. 1..Len(log') = (1..n) \cup {n + 1}
    BY <1>1, <1>6
<1>8. Counters'
    <2> DEFINE first == IF reused THEN 2 ELSE 1
    <2>1. rec'.syn_count = Cardinality({i \in 1..Len(log') : SynOnly(log'[i].flags)})
        <3> DEFINE S == {i \in 1..n : SynOnly(log[i].flags)}
                   T == {i \in 1..Len(log') : SynOnly(log'[i].flags)}
        <3>1. T = IF SynOnly(f) THEN S \cup {n + 1} ELSE S
            BY <1>6, <1>7
        <3>2. Cardinality(T) = Bump(Cardinality(S), SynOnly(f))
            <4>1. S \in SUBSET (1..n) /\ SynOnly(f) \in BOOLEAN
                BY DEF SynOnly
            <4> HIDE DEF S, T
            <4> QED
                BY <1>1, <3>1, <4>1, CountGrows
        <3>3. rec.syn_count = Cardinality(S)
            BY DEF IInv, Counters, Count, CountFrom
        <3>4. rec'.syn_count = Bump(rec.syn_count, SynOnly(f))
            BY DEF counted, SynOnly
        <3> QED
            BY <3>2, <3>3, <3>4
    <2>2. rec'.syn_ack_count = Cardinality({i \in 1..Len(log') : SynAck(log'[i].flags)})
        <3> DEFINE S == {i \in 1..n : SynAck(log[i].flags)}
                   T == {i \in 1..Len(log') : SynAck(log'[i].flags)}
        <3>1. T = IF SynAck(f) THEN S \cup {n + 1} ELSE S
            BY <1>6, <1>7
        <3>2. Cardinality(T) = Bump(Cardinality(S), SynAck(f))
            <4>1. S \in SUBSET (1..n) /\ SynAck(f) \in BOOLEAN
                BY DEF SynAck
            <4> HIDE DEF S, T
            <4> QED
                BY <1>1, <3>1, <4>1, CountGrows
        <3>3. rec.syn_ack_count = Cardinality(S)
            BY DEF IInv, Counters, Count, CountFrom
        <3>4. rec'.syn_ack_count = Bump(rec.syn_ack_count, SynAck(f))
            BY DEF counted, SynAck
        <3> QED
            BY <3>2, <3>3, <3>4
    <2>3. rec'.ack_count = Cardinality({i \in 1..Len(log') : AckOnly(log'[i].flags)})
        <3> DEFINE S == {i \in 1..n : AckOnly(log[i].flags)}
                   T == {i \in 1..Len(log') : AckOnly(log'[i].flags)}
        <3>1. T = IF AckOnly(f) THEN S \cup {n + 1} ELSE S
            BY <1>6, <1>7
        <3>2. Cardinality(T) = Bump(Cardinality(S), AckOnly(f))
            <4>1. S \in SUBSET (1..n) /\ AckOnly(f) \in BOOLEAN
                BY DEF AckOnly
            <4> HIDE DEF S, T
            <4> QED
                BY <1>1, <3>1, <4>1, CountGrows
        <3>3. rec.ack_count = Cardinality(S)
            BY DEF IInv, Counters, Count, CountFrom
        <3>4. rec'.ack_count = Bump(rec.ack_count, AckOnly(f))
            BY DEF counted, AckOnly
        <3> QED
            BY <3>2, <3>3, <3>4
    <2>4. rec'.fin_count = Cardinality({i \in first..Len(log') : Fin(log'[i].flags)})
        <3> DEFINE S == {i \in first..n : Fin(log[i].flags)}
                   T == {i \in first..Len(log') : Fin(log'[i].flags)}
        <3>1. first..Len(log') = (first..n) \cup {n + 1} /\ first..n \subseteq 1..n
            BY <1>1, <1>6
        <3>2. T = IF Fin(f) THEN S \cup {n + 1} ELSE S
            BY <1>6, <3>1
        <3>3. Cardinality(T) = Bump(Cardinality(S), Fin(f))
            <4>1. S \in SUBSET (1..n) /\ Fin(f) \in BOOLEAN
                BY <3>1 DEF Fin
            <4> HIDE DEF S, T
            <4> QED
                BY <1>1, <3>2, <4>1, CountGrows
        <3>4. rec.fin_count = Cardinality(S)
            BY DEF IInv, Counters, CountFrom
        <3>5. rec'.fin_count = Bump(rec.fin_count, Fin(f))
            BY DEF counted, Fin
        <3> QED
            BY <3>3, <3>4, <3>5
    <2>5. rec'.rst_count = Cardinality({i \in 1..Len(log') : Rst(log'[i].flags)})
        <3> DEFINE S == {i \in 1..n : Rst(log[i].flags)}
                   T == {i \in 1..Len(log') : Rst(log'[i].flags)}
        <3>1. T = IF Rst(f) THEN S \cup {n + 1} ELSE S
            BY <1>6, <1>7
        <3>2. Cardinality(T) = Bump(Cardinality(S), Rst(f))
            <4>1. S \in SUBSET (1..n) /\ Rst(f) \in BOOLEAN
                BY DEF Rst
            <4> HIDE DEF S, T
            <4> QED
                BY <1>1, <3>1, <4>1, CountGrows
        <3>3. rec.rst_count = Cardinality(S)
            BY DEF IInv, Counters, Count, CountFrom
        <3>4. rec'.rst_count = Bump(rec.rst_count, Rst(f))
            BY DEF counted, Rst
        <3> QED
            BY <3>2, <3>3, <3>4
    <2>6. rec'.psh_count = psh_before + Cardinality({i \in 1..Len(log') : Psh(log'[i].flags)})
        <3> DEFINE S == {i \in 1..n : Psh(log[i].flags)}
                   T == {i \in 1..Len(log') : Psh(log'[i].flags)}
        <3>1. T = IF Psh(f) THEN S \cup {n + 1} ELSE S
            BY <1>6, <1>7
        <3>2. Cardinality(S) \in Nat /\ Cardinality(T) = Bump(Cardinality(S), Psh(f))
            <4>1. S \in SUBSET (1..n) /\ Psh(f) \in BOOLEAN
                BY DEF Psh
            <4> HIDE DEF S, T
            <4> QED
                BY <1>1, <3>1, <4>1, CountGrows
        <3>3. rec.psh_count = psh_before + Cardinality(S)
            BY DEF IInv, Counters, Count, CountFrom
        <3>4. rec'.psh_count = Bump(rec.psh_count, Psh(f))
            BY DEF counted, Psh
        <3> HIDE DEF S, T
        <3>5. Bump(psh_before + Cardinality(S), Psh(f)) = psh_before + Bump(Cardinality(S), Psh(f))
            BY <1>1, <3>2 DEF Bump
        <3>6. rec'.psh_count = psh_before + Cardinality(T)
            BY <3>2, <3>3, <3>4, <3>5
        <3> QED
            BY <3>6 DEF T
    <2> QED
        BY <1>0, <2>1, <2>2, <2>3, <2>4, <2>5, <2>6 DEF Counters, Count, CountFrom
<1> QED
    BY <1>3, <1>4, <1>5, <1>8 DEF IInv

\* The first segment of a new session on a closed record.
LEMMA ReopenIInv ==
  ASSUME IInv, NEW e \in Entries, Reopens(rec.tcp_state, e.flags),
         rec' = advance_tcp_state(rec, e.flags), log' = <<e>>, Histories(e.flags)
  PROVE  IInv'
<1> DEFINE f == e.flags
<1>1. /\ rec \in TcpRecords /\ log \in Seq(Entries) /\ opens \in Nat /\ psh_before \in Nat
      /\ established \in SUBSET (1..opens)
    BY DEF IInv, Types
<1>2. /\ rec.tcp_state = "CLOSED" /\ SynOnly(f) /\ "RST" \notin f
      /\ next_state(rec.tcp_state, f) = "SYN_SENT"
      /\ ~completes(rec.tcp_state, f)
    BY DEF Reopens, next_state, completes
<1>3. /\ rec'.tcp_state = "SYN_SENT"
      /\ rec'.syn_count = 1 /\ rec'.syn_ack_count = 0 /\ rec'.ack_count = 0
      /\ rec'.fin_count = 0 /\ rec'.rst_count = 0
      /\ rec'.psh_count = Bump(rec.psh_count, "PSH" \in f)
      /\ rec'.completed_handshakes = rec.completed_handshakes
    BY <1>2 DEF advance_tcp_state, counted, Bump
<1>4. /\ opens' = opens + 1 /\ established' = established /\ reused' = TRUE
      /\ psh_before' = psh_before + Count(Psh)
    BY <1>2, <1>3 DEF Bump, Histories
<1>5. ~SynAck(f) /\ ~AckOnly(f) /\ ~Rst(f)
    BY <1>2 DEF SynOnly, SynAck, AckOnly, Rst
<1>6. Len(log') = 1 /\ log'[1] = e /\ log' \in Seq(Entries)
    OBVIOUS
<1>7. Count(Psh) \in Nat /\ rec.psh_count = psh_before + Count(Psh) /\ rec.psh_count \in Nat
    <2> DEFINE S == {i \in 1..Len(log) : Psh(log[i].flags)}
    <2>1. IsFiniteSet(S)
        BY <1>1, FS_Interval, FS_Subset
    <2> QED
        BY <1>1, <2>1, FS_CardinalityType DEF IInv, Counters, Count, CountFrom, TcpRecords
<1>8. Types' /\ OpenedBefore'
    <2>1. rec.completed_handshakes \in Nat /\ Bump(rec.psh_count, "PSH" \in f) \in Nat
        BY <1>1, <1>7 DEF TcpRecords, Bump
    <2>2. rec' = [tcp_state |-> "SYN_SENT", syn_count |-> 1, syn_ack_count |-> 0,
                  ack_count |-> 0, fin_count |-> 0, rst_count |-> 0,
                  psh_count |-> Bump(rec.psh_count, "PSH" \in f),
                  completed_handshakes |-> rec.completed_handshakes]
        BY <1>2 DEF advance_tcp_state, counted, Bump
    <2>3. rec' \in TcpRecords
        BY <2>1, <2>2 DEF TcpRecords, TcpStates
    <2> QED
        BY <1>1, <1>4, <1>6, <1>7, <2>3 DEF Types, OpenedBefore
<1>9. Progress(rec.tcp_state, log, Len(log))'
    <2>1. SynBy(log', 1) /\ ~RstBy(log', 1)
        BY <1>2, <1>5, <1>6 DEF SynBy, RstBy
    <2>2. ~SynAckBy(log', 1)
        BY <1>5, <1>6 DEF SynAckBy
    <2> QED
        BY <1>3, <1>6, <2>1, <2>2 DEF Progress
<1>10. HandshakesCounted'
    BY <1>1, <1>3, <1>4 DEF IInv, HandshakesCounted
<1>11. Counters'
    <2>1. 1..Len(log') = {1} /\ 2..Len(log') = {}
        BY <1>6
    <2>2. /\ {i \in 1..Len(log') : SynOnly(log'[i].flags)} = {1}
          /\ {i \in 1..Len(log') : SynAck(log'[i].flags)} = {}
          /\ {i \in 1..Len(log') : AckOnly(log'[i].flags)} = {}
          /\ {i \in 2..Len(log') : Fin(log'[i].flags)} = {}
          /\ {i \in 1..Len(log') : Rst(log'[i].flags)} = {}
        BY <1>2, <1>5, <1>6, <2>1
    <2>3. {i \in 1..Len(log') : Psh(log'[i].flags)} = IF "PSH" \in f THEN {1} ELSE {}
        BY <1>6, <2>1 DEF Psh
    <2>4. Cardinality({1}) = 1 /\ Cardinality({}) = 0
        BY FS_EmptySet, FS_Singleton
    <2>5. rec'.psh_count = psh_before' + Cardinality({i \in 1..Len(log') : Psh(log'[i].flags)})
        <3> DEFINE T == {i \in 1..Len(log') : Psh(log'[i].flags)}
        <3>1. Cardinality(T) = Bump(0, "PSH" \in f)
            BY <2>3, <2>4 DEF Bump
        <3> HIDE DEF T
        <3>2. rec'.psh_count = psh_before' + Cardinality(T)
            BY <1>1, <1>3, <1>4, <1>7, <3>1 DEF Bump
        <3> QED
            BY <3>2 DEF T
    <2> QED
        BY <1>3, <1>4, <2>2, <2>4, <2>5 DEF Counters, Count, CountFrom
<1> QED
    BY <1>8, <1>9, <1>10, <1>11 DEF IInv

\* A step keeps the invariant.
LEMMA NextIInv == IInv /\ [Next]_vars => IInv'
<1> SUFFICES ASSUME IInv, [Next]_vars PROVE IInv'
    OBVIOUS
<1>1. CASE Next
    <2>1. PICK e \in Entries :
           /\ rec' = advance_tcp_state(rec, e.flags)
           /\ log' = IF Reopens(rec.tcp_state, e.flags) THEN <<e>> ELSE Append(log, e)
           /\ Histories(e.flags)
        BY <1>1, SegmentStep
    <2>2. CASE Reopens(rec.tcp_state, e.flags)
        BY <2>1, <2>2, ReopenIInv
    <2>3. CASE ~Reopens(rec.tcp_state, e.flags)
        <3>1. rec' = counted(rec, e.flags) /\ log' = Append(log, e)
            BY <2>1, <2>3 DEF advance_tcp_state
        <3> QED
            BY <2>1, <2>3, <3>1, AppendIInv
    <2> QED
        BY <2>2, <2>3
<1>2. CASE UNCHANGED vars
    BY <1>2 DEF vars, IInv, Types, OpenedBefore, HandshakesCounted, Counters, Count, CountFrom
<1> QED
    BY <1>1, <1>2

\* The invariant holds in every state of the record.
LEMMA Invariance == Spec => []IInv
<1> QED
    BY InitIInv, NextIInv, PTL DEF Spec

-----------------------------------------------------------------------------

\* However the segments of the two sides are mixed, repeated or missing, a record is
\* ESTABLISHED (or later) only when a SYN, a SYN+ACK and an ACK came in that order
\* in this session.
THEOREM NoFakedHandshake == Spec => []EstablishedMeansHandshake
<1>1. IInv => EstablishedMeansHandshake
    <2> SUFFICES ASSUME IInv, rec.tcp_state \in {"ESTABLISHED", "FIN_WAIT"}
                 PROVE  \E i, j, k \in 1..Len(log) :
                          i < j /\ j < k /\ SynOnly(log[i].flags) /\ SynAck(log[j].flags)
                                         /\ AckOnly(log[k].flags)
        BY DEF EstablishedMeansHandshake
    <2>0. Len(log) \in Nat
        BY DEF IInv, Types
    <2>1. HandshakeBy(log, Len(log))
        BY DEF IInv, Progress
    <2>2. PICK k \in 1..Len(log) : AckOnly(log[k].flags) /\ SynAckBy(log, k - 1)
        BY <2>1 DEF HandshakeBy
    <2>3. PICK j \in 1..(k - 1) : SynAck(log[j].flags) /\ SynBy(log, j - 1)
        BY <2>2 DEF SynAckBy
    <2>4. PICK i \in 1..(j - 1) : SynOnly(log[i].flags)
        BY <2>3 DEF SynBy
    <2>5. i \in 1..Len(log) /\ j \in 1..Len(log) /\ i < j /\ j < k
        BY <2>0, <2>2, <2>3, <2>4
    <2> QED
        BY <2>2, <2>3, <2>4, <2>5
<1> QED
    BY <1>1, Invariance, PTL

\* completed_handshakes is exactly the number of sessions of the record that reached
\* ESTABLISHED: none is missed, none is counted twice and none before its ACK.
THEOREM HandshakesMatchOpenings == Spec => []HandshakesCounted
<1>1. IInv => HandshakesCounted
    BY DEF IInv
<1> QED
    BY <1>1, Invariance, PTL

\* The per-flag counters are what CountersMatchSession says of each: the segments of
\* this session, without the FIN of a re-opening SYN, and for PSH of all sessions.
THEOREM CountersAreCounts == Spec => []CountersMatchSession
<1>1. IInv => TypeOK
    BY DEF IInv, Types, TypeOK, TcpRecords, Counts, Entries, Flags
<1>2. IInv => CountersMatchSession
    BY <1>1 DEF IInv, Counters, CountersMatchSession
<1> QED
    BY <1>2, Invariance, PTL

\* A record is CLOSED exactly when its session saw a RST or, after its handshake, a
\* FIN and then a FIN+ACK.
THEOREM ClosingIsEarned == Spec => []ClosedIffFinished
<1>1. IInv => ClosedIffFinished
    <2> SUFFICES ASSUME IInv PROVE ClosedIffFinished
        OBVIOUS
    <2> DEFINE n == Len(log)
    <2>1. log \in Seq(Entries) /\ n \in Nat /\ rec.tcp_state \in TcpStates
        BY DEF IInv, Types, TcpRecords
    <2>2. Progress(rec.tcp_state, log, n)
        BY DEF IInv
    <2>3. /\ SynAckBy(log, n) => SynBy(log, n)
          /\ HandshakeBy(log, n) => SynAckBy(log, n)
          /\ FinBy(log, n) => HandshakeBy(log, n)
          /\ FinAckBy(log, n) => FinBy(log, n)
        BY <2>1, StepsInOrder
    <2>4. RstBy(log, n) <=> \E i \in 1..n : Rst(log[i].flags)
        BY DEF RstBy
    <2>5. rec.tcp_state = "CLOSED" <=> RstBy(log, n) \/ FinAckBy(log, n)
        BY <2>1, <2>2, <2>3 DEF Progress, TcpStates
    <2> QED
        BY <2>4, <2>5 DEF ClosedIffFinished
<1> QED
    BY <1>1, Invariance, PTL
=============================================================================
