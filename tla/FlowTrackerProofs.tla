-------------------------- MODULE FlowTrackerProofs --------------------------
(***************************************************************************)
(* Proofs about FlowTracker for every table size, every choice of timeouts *)
(* and any number of packets: whatever the interleaving of update() and    *)
(* the reaper.                                                             *)
(***************************************************************************)
EXTENDS FlowTracker, Integers, FiniteSetTheorems, TLAPS

-----------------------------------------------------------------------------
(* FlowKey::make for all addresses and ports *)

\* Reading the packet from the other side gives the same key.
THEOREM MakeSymmetric ==
  ASSUME NEW src \in Endpoints, NEW dst \in Endpoints, NEW proto
  PROVE  make(src, dst, proto) = make(dst, src, proto)
<1>1. CASE src_is_lo(src, dst) /\ src_is_lo(dst, src)
    <2>1. src.addr = dst.addr /\ src.port = dst.port
        BY <1>1 DEF src_is_lo, Endpoints
    <2>2. src = dst
        BY <2>1 DEF Endpoints
    <2> QED
        BY <2>2
<1>2. CASE src_is_lo(src, dst) /\ ~src_is_lo(dst, src)
    BY <1>2 DEF make
<1>3. CASE ~src_is_lo(src, dst) /\ src_is_lo(dst, src)
    BY <1>3 DEF make
<1>4. src_is_lo(src, dst) \/ src_is_lo(dst, src)
    BY DEF src_is_lo, Endpoints
<1> QED
    BY <1>1, <1>2, <1>3, <1>4

\* Equal keys come from the same two endpoints and the same protocol.
THEOREM MakeInjective ==
  ASSUME NEW s1 \in Endpoints, NEW d1 \in Endpoints, NEW p1,
         NEW s2 \in Endpoints, NEW d2 \in Endpoints, NEW p2,
         make(s1, d1, p1) = make(s2, d2, p2)
  PROVE  {s1, d1} = {s2, d2} /\ p1 = p2
<1> DEFINE k1 == make(s1, d1, p1)
<1> DEFINE k2 == make(s2, d2, p2)
<1>1. {k1.lo, k1.hi} = {s1, d1} /\ k1.protocol = p1
    BY DEF make
<1>2. {k2.lo, k2.hi} = {s2, d2} /\ k2.protocol = p2
    BY DEF make
<1>3. k1 = k2
    OBVIOUS
<1> HIDE DEF k1, k2
<1> QED
    BY <1>1, <1>2, <1>3

-----------------------------------------------------------------------------
(* The flow table *)

Records ==
  [first_seen : 0..Old, last_seen : 0..Old, total_packets : Nat,
   lo_to_hi_packets : Nat, hi_to_lo_packets : Nat, tcp_state : TcpStates,
   by_lo : Nat, served : SUBSET Nat]

(***************************************************************************)
(* The inductive invariant.  CountersMatchTable and PacketsAccounted are   *)
(* about the ends of update(); what carries them across the two unlocked   *)
(* gaps is Hand: the packet in hand is the last one offered, and it is in  *)
(* no record yet.                                                          *)
(***************************************************************************)
Table ==
  /\ DOMAIN table \subseteq Keys
  /\ IsFiniteSet(DOMAIN table)
  /\ \A k \in DOMAIN table : table[k] \in Records

Counts ==
  /\ total_flows_created \in Nat
  /\ total_flows_evicted \in Nat
  /\ active_flow_count \in Nat
  /\ active_flow_count = Cardinality(DOMAIN table)
  /\ total_flows_created = total_flows_evicted + active_flow_count
  /\ active_flow_count <= MaxFlows

Hand ==
  /\ packet \in Packets \cup {None}
  /\ upc \in {"idle", "find", "insert"}
  /\ upc = "idle" <=> packet = None
  /\ packet # None => packet.ip /\ offered > 0

Threads ==
  /\ upd_now \in 0..MaxStall
  /\ rpr_now \in 0..MaxStall
  /\ running \in BOOLEAN
  /\ mpc \in {"up", "notify", "join", "stopped"}
  /\ rpc \in ReaperPlaces

Accounted ==
  /\ offered \in Nat
  /\ \A k \in DOMAIN table : table[k].served \subseteq 1..offered
  /\ retired \subseteq 1..offered
  /\ rejected \subseteq 1..offered
  /\ \A n \in 1..offered :
       \/ n \in InHand \/ n \in retired \/ n \in rejected
       \/ \E k \in DOMAIN table : n \in table[k].served
  /\ \A k, l \in DOMAIN table :
       \A n \in 1..offered : n \in table[k].served /\ n \in table[l].served => k = l
  /\ \A k \in DOMAIN table :
       \A n \in table[k].served : n \notin retired /\ n \notin rejected /\ n \notin InHand
  /\ \A n \in retired : n \notin rejected /\ n \notin InHand
  /\ \A n \in rejected : n \notin InHand

Totals ==
  \A k \in DOMAIN table :
    /\ table[k].total_packets = Cardinality(table[k].served)
    /\ table[k].total_packets = table[k].lo_to_hi_packets + table[k].hi_to_lo_packets

IInv == Table /\ Counts /\ Hand /\ Threads /\ Accounted /\ Totals

-----------------------------------------------------------------------------
(* The operators *)

\* The age at which a time point stops growing is beyond any stall.
LEMMA OldType == Old \in Nat /\ MaxStall \in Nat /\ MaxStall < Old
<1> DEFINE T == {TcpTimeout, UdpTimeout, ClosedTimeout}
<1>1. T \subseteq Nat /\ MaxStall \in Nat
    BY TrackerAssumption
<1>2. \E x \in T : \A y \in T : x >= y
    BY <1>1
<1>3. Max(T) \in T
    BY <1>2 DEF Max
<1> HIDE DEF T
<1>4. Max(T) \in Nat
    BY <1>1, <1>3
<1> QED
    BY <1>1, <1>4 DEF Old, T

\* A time point gets older within its range.
LEMMA OlderType == ASSUME NEW a \in 0..Old PROVE Older(a) \in 0..Old
BY OldType DEF Older

\* What update_record() does to every counter: one packet more, in exactly one
\* direction, and the state machine stays among its states.
LEMMA UpdateRecordCounts ==
  ASSUME NEW r \in Records, NEW p, upd_now \in 0..MaxStall, offered \in Nat
  PROVE  LET u == update_record(r, p)
         IN /\ u \in Records
            /\ u.total_packets = r.total_packets + 1
            /\ u.lo_to_hi_packets + u.hi_to_lo_packets
                 = r.lo_to_hi_packets + r.hi_to_lo_packets + 1
            /\ u.served = r.served \cup {offered}
            /\ u.lo_to_hi_packets =
                 Bump(r.lo_to_hi_packets, direction(p.src, p.dst) = "LO_TO_HI")
            /\ u.by_lo = Bump(r.by_lo, Key(p).lo = p.src)
<1> DEFINE u == update_record(r, p)
           up == direction(p.src, p.dst) = "LO_TO_HI"
           lo == Bump(r.lo_to_hi_packets, up)
           hi == Bump(r.hi_to_lo_packets, ~up)
           st == IF p.protocol = "TCP" THEN next_state(r.tcp_state, p.flags) ELSE r.tcp_state
           by == Bump(r.by_lo, Key(p).lo = p.src)
           all == r.served \cup {offered}
           n == r.total_packets + 1
<1>1. /\ r.total_packets \in Nat /\ r.lo_to_hi_packets \in Nat /\ r.hi_to_lo_packets \in Nat
      /\ r.tcp_state \in TcpStates /\ r.by_lo \in Nat /\ r.served \subseteq Nat
    BY DEF Records
<1>2. upd_now \in 0..Old
    BY OldType
<1>3. st \in TcpStates
    BY <1>1 DEF next_state, TcpStates
<1>4. lo \in Nat /\ hi \in Nat /\ by \in Nat /\ all \in SUBSET Nat /\ n \in Nat
    BY <1>1 DEF Bump
<1>5. lo + hi = r.lo_to_hi_packets + r.hi_to_lo_packets + 1
    BY <1>1 DEF Bump
<1>6. u = [r EXCEPT !.last_seen = upd_now, !.total_packets = n, !.lo_to_hi_packets = lo,
             !.hi_to_lo_packets = hi, !.tcp_state = st, !.by_lo = by, !.served = all]
    BY DEF update_record
<1>7. u.total_packets = n /\ u.lo_to_hi_packets = lo /\ u.hi_to_lo_packets = hi
      /\ u.served = all /\ u.by_lo = by
    <2> HIDE DEF u, up, lo, hi, st, by, all, n
    <2> QED
        BY <1>6 DEF Records
<1>8. u \in Records
    <2> HIDE DEF u, up, lo, hi, st, by, all, n
    <2> QED
        BY <1>2, <1>3, <1>4, <1>6 DEF Records
<1> QED
    BY <1>5, <1>7, <1>8

\* The part of it that the accounting of packets needs.
LEMMA UpdateRecordFacts ==
  ASSUME NEW r \in Records, NEW p, upd_now \in 0..MaxStall, offered \in Nat
  PROVE  LET u == update_record(r, p)
         IN /\ u \in Records
            /\ u.total_packets = r.total_packets + 1
            /\ u.lo_to_hi_packets + u.hi_to_lo_packets
                 = r.lo_to_hi_packets + r.hi_to_lo_packets + 1
            /\ u.served = r.served \cup {offered}
BY UpdateRecordCounts

\* A key that was made from a packet has its lower endpoint first.
LEMMA KeyOrdered ==
  ASSUME NEW k \in Keys
  PROVE  /\ k.lo \in Endpoints /\ k.hi \in Endpoints
         /\ k.protocol \in {"TCP", "UDP"}
         /\ src_is_lo(k.lo, k.hi)
         /\ k = [lo |-> k.lo, hi |-> k.hi, protocol |-> k.protocol]
<1>1. PICK p \in Packets : k = make(p.src, p.dst, p.protocol)
    BY DEF Keys, Key
<1>2. p.src \in Endpoints /\ p.dst \in Endpoints /\ p.protocol \in {"TCP", "UDP"}
    BY PacketAssumption
<1>3. src_is_lo(p.src, p.dst) \/ src_is_lo(p.dst, p.src)
    BY <1>2 DEF src_is_lo, Endpoints
<1> QED
    BY <1>1, <1>2, <1>3 DEF make

-----------------------------------------------------------------------------
(* The inductive invariant *)

\* The empty table satisfies the invariant.
LEMMA InitIInv == Init => IInv
<1> SUFFICES ASSUME Init PROVE IInv
    OBVIOUS
<1>1. DOMAIN table = {}
    BY DEF Init
<1>2. Table
    BY <1>1, FS_EmptySet DEF Table
<1>3. Counts
    BY <1>1, FS_EmptySet, TrackerAssumption DEF Init, Counts
<1>4. Hand
    BY TrackerAssumption DEF Init, Hand
<1>5. Threads
    BY OldType DEF Init, Threads, ReaperPlaces
<1>6. Accounted
    BY <1>1 DEF Init, Accounted, InHand
<1>7. Totals
    BY <1>1 DEF Totals
<1> QED
    BY <1>2, <1>3, <1>4, <1>5, <1>6, <1>7 DEF IInv

\* A step that touches neither the keys nor what the records have counted.
LEMMA QuietStep ==
  ASSUME IInv, DOMAIN table' = DOMAIN table,
         \A k \in DOMAIN table :
           /\ table'[k] \in Records
           /\ table'[k].served = table[k].served
           /\ table'[k].total_packets = table[k].total_packets
           /\ table'[k].lo_to_hi_packets = table[k].lo_to_hi_packets
           /\ table'[k].hi_to_lo_packets = table[k].hi_to_lo_packets,
         UNCHANGED <<countVars, packet, histVars>>, Hand', Threads'
  PROVE  IInv'
<1>1. Table'
    BY DEF IInv, Table
<1>2. Counts'
    BY DEF IInv, Counts, countVars
<1>3. Totals'
    BY DEF IInv, Totals
<1>4. Accounted'
    <2>1. InHand' = InHand /\ UNCHANGED <<offered, retired, rejected>>
        BY DEF InHand, histVars
    <2> QED
        BY <2>1 DEF IInv, Accounted
<1> QED
    BY <1>1, <1>2, <1>3, <1>4 DEF IInv

\* Time passes.
LEMMA TickIInv == IInv /\ Tick => IInv'
<1> SUFFICES ASSUME IInv, Tick PROVE IInv'
    OBVIOUS
<1> DEFINE aged(r) == [r EXCEPT !.first_seen = Older(@), !.last_seen = Older(@)]
<1>1. DOMAIN table' = DOMAIN table /\ \A k \in DOMAIN table : table'[k] = aged(table[k])
    BY DEF Tick
<1>2. ASSUME NEW r \in Records
      PROVE  /\ aged(r) \in Records
             /\ aged(r).served = r.served
             /\ aged(r).total_packets = r.total_packets
             /\ aged(r).lo_to_hi_packets = r.lo_to_hi_packets
             /\ aged(r).hi_to_lo_packets = r.hi_to_lo_packets
    <2>1. Older(r.first_seen) \in 0..Old /\ Older(r.last_seen) \in 0..Old
        BY OlderType DEF Records
    <2> QED
        BY <2>1 DEF Records
<1>3. \A k \in DOMAIN table : table[k] \in Records
    BY DEF IInv, Table
<1>4. Hand'
    <2>1. UNCHANGED <<packet, upc, offered>>
        BY DEF Tick, histVars
    <2> QED
        BY <2>1 DEF IInv, Hand
<1>5. Threads'
    <2>1. upd_now' \in 0..MaxStall /\ rpr_now' \in 0..MaxStall
        <3>1. upd_now \in 0..MaxStall /\ rpr_now \in 0..MaxStall
            BY DEF IInv, Threads
        <3>2. /\ upc # "idle" => upd_now < MaxStall
              /\ rpc = "evict" => rpr_now < MaxStall
              /\ upd_now' = IF upc = "idle" THEN upd_now ELSE upd_now + 1
              /\ rpr_now' = IF rpc = "evict" THEN rpr_now + 1 ELSE rpr_now
            BY DEF Tick
        <3> QED
            BY <3>1, <3>2, OldType
    <2>2. UNCHANGED <<running, mpc, rpc>>
        BY DEF Tick
    <2> QED
        BY <2>1, <2>2 DEF IInv, Threads
<1> HIDE DEF aged
<1> QED
    BY <1>1, <1>2, <1>3, <1>4, <1>5, QuietStep DEF Tick

\* The steps of the reaper and of stop_reaper() that only move on, and the look-up
\* of update() that finds nothing.
LEMMA MoveIInv ==
  ASSUME IInv, UNCHANGED <<table, countVars, packet, histVars>>, Hand', Threads'
  PROVE  IInv'
<1>1. \A k \in DOMAIN table : table[k] \in Records
    BY DEF IInv, Table
<1> QED
    BY <1>1, QuietStep

\* A packet that is not IP is rejected without a look at the table.
LEMMA IgnoreIInv ==
  ASSUME IInv, NEW p \in Packets, UpdateIgnore(p)
  PROVE  IInv'
<1>1. /\ packet = None /\ packet' = None /\ table' = table /\ retired' = retired
      /\ offered \in Nat /\ offered' = offered + 1 /\ rejected' = rejected \cup {offered + 1}
    BY DEF IInv, Hand, Accounted, UpdateIgnore, updVars
<1>2. Table' /\ Totals'
    BY <1>1 DEF IInv, Table, Totals
<1>3. Counts'
    BY <1>1 DEF IInv, Counts, UpdateIgnore, countVars
<1>4. Hand' /\ Threads'
    BY <1>1 DEF IInv, Hand, Threads, UpdateIgnore, updVars, rprVars
<1>5. Accounted'
    BY <1>1 DEF IInv, Accounted, InHand
<1> QED
    BY <1>2, <1>3, <1>4, <1>5 DEF IInv

\* An IP packet is taken in hand.
LEMMA BeginIInv ==
  ASSUME IInv, NEW p \in Packets, UpdateBegin(p)
  PROVE  IInv'
<1>1. /\ packet = None /\ packet' = p /\ p # None /\ table' = table
      /\ offered \in Nat /\ offered' = offered + 1 /\ UNCHANGED <<rejected, retired>>
    BY TrackerAssumption DEF IInv, Hand, Accounted, UpdateBegin, updVars
<1>2. Table' /\ Totals'
    BY <1>1 DEF IInv, Table, Totals
<1>3. Counts'
    BY <1>1 DEF IInv, Counts, UpdateBegin, countVars
<1>4. Hand'
    BY <1>1 DEF IInv, Hand, UpdateBegin
<1>5. Threads'
    BY OldType DEF IInv, Threads, UpdateBegin, rprVars
<1>6. Accounted'
    BY <1>1 DEF IInv, Accounted, InHand
<1> QED
    BY <1>2, <1>3, <1>4, <1>5, <1>6 DEF IInv

\* The packet in hand is in the record that was found or made for its key.
LEMMA ServedIInv ==
  ASSUME IInv, packet # None, Return,
         NEW K, NEW r \in Records, DOMAIN table' = DOMAIN table \cup {K},
         IF K \in DOMAIN table THEN r = table[K]
         ELSE r.total_packets = 0 /\ r.lo_to_hi_packets = 0 /\ r.hi_to_lo_packets = 0
              /\ r.served = {},
         table'[K] = update_record(r, packet),
         \A k \in DOMAIN table \ {K} : table'[k] = table[k],
         Table', Counts', UNCHANGED histVars, UNCHANGED <<running, mpc, rprVars>>
  PROVE  IInv'
<1>1. /\ offered \in Nat /\ offered > 0 /\ upd_now \in 0..MaxStall
      /\ InHand = {offered} /\ InHand' = {} /\ UNCHANGED <<offered, retired, rejected>>
    BY DEF IInv, Hand, Accounted, Threads, InHand, Return, histVars
<1>2. /\ table'[K].total_packets = r.total_packets + 1
      /\ table'[K].lo_to_hi_packets + table'[K].hi_to_lo_packets
           = r.lo_to_hi_packets + r.hi_to_lo_packets + 1
      /\ table'[K].served = r.served \cup {offered}
    BY <1>1, UpdateRecordFacts
<1>3. Hand'
    BY <1>1 DEF Hand, Return
<1>4. Threads'
    BY OldType DEF IInv, Threads, Return, rprVars
<1>5. /\ r.served \subseteq 1..offered /\ offered \notin r.served
      /\ r.total_packets = Cardinality(r.served)
      /\ r.total_packets = r.lo_to_hi_packets + r.hi_to_lo_packets
    <2>1. CASE K \in DOMAIN table
        <3>1. /\ r = table[K] /\ table[K].served \subseteq 1..offered
              /\ \A n \in table[K].served : n \notin InHand
            BY <2>1 DEF IInv, Accounted
        <3>2. /\ r.total_packets = Cardinality(r.served)
              /\ r.total_packets = r.lo_to_hi_packets + r.hi_to_lo_packets
            BY <2>1 DEF IInv, Totals
        <3> QED
            BY <1>1, <3>1, <3>2
    <2>2. CASE K \notin DOMAIN table
        <3>1. /\ r.total_packets = 0 /\ r.lo_to_hi_packets = 0 /\ r.hi_to_lo_packets = 0
              /\ r.served = {}
            BY <2>2
        <3> QED
            BY <3>1, FS_EmptySet
    <2> QED
        BY <2>1, <2>2
<1>6. Totals'
    <2>1. IsFiniteSet(r.served)
        BY <1>1, <1>5, FS_Interval, FS_Subset
    <2>2. Cardinality(r.served \cup {offered}) = Cardinality(r.served) + 1
        BY <1>5, <2>1, FS_AddElement
    <2>3. \A k \in DOMAIN table \ {K} :
            /\ table'[k].total_packets = Cardinality(table'[k].served)
            /\ table'[k].total_packets
                 = table'[k].lo_to_hi_packets + table'[k].hi_to_lo_packets
        BY DEF IInv, Totals
    <2>4. table'[K].total_packets = Cardinality(table'[K].served)
        BY <1>2, <1>5, <2>2
    <2>5. table'[K].total_packets
            = table'[K].lo_to_hi_packets + table'[K].hi_to_lo_packets
        BY <1>2, <1>5
    <2> QED
        BY <2>3, <2>4, <2>5 DEF Totals
<1>7. Accounted'
    <2>1. \A k \in DOMAIN table \ {K} : table'[k].served = table[k].served
        OBVIOUS
    <2>2. IF K \in DOMAIN table THEN r.served = table[K].served ELSE r.served = {}
        OBVIOUS
    <2> QED
        BY <1>1, <1>2, <1>5, <2>1, <2>2 DEF IInv, Accounted
<1> QED
    BY <1>3, <1>4, <1>6, <1>7 DEF IInv

\* The look-up under the shared lock succeeds.
LEMMA FoundIInv == IInv /\ UpdateFound => IInv'
<1> SUFFICES ASSUME IInv, UpdateFound PROVE IInv'
    OBVIOUS
<1> DEFINE K == Key(packet)
<1>1. /\ packet # None /\ K \in DOMAIN table /\ DOMAIN table' = DOMAIN table
      /\ table'[K] = update_record(table[K], packet)
      /\ \A k \in DOMAIN table \ {K} : table'[k] = table[k]
      /\ UNCHANGED <<countVars, running, mpc, rprVars, histVars>> /\ Return
    BY DEF IInv, Hand, UpdateFound
<1> HIDE DEF K
<1>2. table[K] \in Records /\ upd_now \in 0..MaxStall /\ offered \in Nat
    BY <1>1 DEF IInv, Table, Threads, Accounted
<1>3. table'[K] \in Records
    BY <1>1, <1>2, UpdateRecordFacts
<1>4. Table'
    BY <1>1, <1>3 DEF IInv, Table
<1>5. Counts'
    BY <1>1 DEF IInv, Counts, countVars
<1>6. DOMAIN table' = DOMAIN table \cup {K}
    BY <1>1
<1> QED
    BY <1>1, <1>2, <1>4, <1>5, <1>6, ServedIInv

\* The look-up under the exclusive lock fails as well and there is room.
LEMMA InsertIInv == IInv /\ UpdateInsert => IInv'
<1> SUFFICES ASSUME IInv, UpdateInsert PROVE IInv'
    OBVIOUS
<1> DEFINE K == Key(packet)
<1>1. /\ packet # None /\ K \notin DOMAIN table /\ DOMAIN table' = DOMAIN table \cup {K}
      /\ table'[K] = update_record(NewFlow, packet)
      /\ \A k \in DOMAIN table \ {K} : table'[k] = table[k]
      /\ UNCHANGED <<total_flows_evicted, running, mpc, rprVars, histVars>> /\ Return
      /\ count_new_flow /\ ~table_full
    BY DEF IInv, Hand, UpdateInsert
<1>2. K \in Keys
    BY <1>1 DEF IInv, Hand, Keys
<1> HIDE DEF K
<1>3. NewFlow \in Records /\ upd_now \in 0..MaxStall /\ offered \in Nat
    BY OldType DEF IInv, Threads, Accounted, NewFlow, Records, TcpStates
<1>4. table'[K] \in Records
    BY <1>1, <1>3, UpdateRecordFacts
<1>5. IsFiniteSet(DOMAIN table) /\ Cardinality(DOMAIN table) \in Nat
    BY FS_CardinalityType DEF IInv, Table
<1>6. /\ IsFiniteSet(DOMAIN table')
      /\ Cardinality(DOMAIN table') = Cardinality(DOMAIN table) + 1
    BY <1>1, <1>5, FS_AddElement
<1>7. Table'
    BY <1>1, <1>2, <1>4, <1>6 DEF IInv, Table
<1>8. Counts'
    BY <1>1, <1>5, <1>6, TrackerAssumption DEF IInv, Counts, count_new_flow, table_full
<1> QED
    BY <1>1, <1>3, <1>7, <1>8, ServedIInv DEF NewFlow

\* There is no room: the packet in hand is rejected.
LEMMA RejectIInv == IInv /\ UpdateReject => IInv'
<1> SUFFICES ASSUME IInv, UpdateReject PROVE IInv'
    OBVIOUS
<1>1. /\ packet # None /\ offered \in Nat /\ offered > 0 /\ table' = table
      /\ InHand = {offered} /\ InHand' = {} /\ UNCHANGED <<offered, retired>>
      /\ rejected' = rejected \cup {offered}
    BY DEF IInv, Hand, Accounted, InHand, UpdateReject, Return
<1>2. Table' /\ Totals'
    BY <1>1 DEF IInv, Table, Totals
<1>3. Counts'
    BY <1>1 DEF IInv, Counts, UpdateReject, countVars
<1>4. Hand'
    BY <1>1 DEF Hand, UpdateReject, Return
<1>5. Threads'
    BY OldType DEF IInv, Threads, UpdateReject, Return, rprVars
<1>6. Accounted'
    BY <1>1 DEF IInv, Accounted
<1> QED
    BY <1>2, <1>3, <1>4, <1>5, <1>6 DEF IInv

\* The reaper takes the expired flows out of the table, with all they had counted.
LEMMA EvictIInv == IInv /\ ReaperEvict => IInv'
<1> SUFFICES ASSUME IInv, ReaperEvict PROVE IInv'
    OBVIOUS
<1> DEFINE gone == {k \in DOMAIN table : expired(k)}
           D == DOMAIN table
<1>1. /\ DOMAIN table' = D \ gone /\ \A k \in D \ gone : table'[k] = table[k]
      /\ active_flow_count' = active_flow_count - Cardinality(gone)
      /\ total_flows_evicted' = total_flows_evicted + Cardinality(gone)
      /\ retired' = retired \cup UNION {table[k].served : k \in gone}
      /\ UNCHANGED <<total_flows_created, rpr_now, running, mpc, updVars, offered, rejected>>
      /\ rpc' = "head" /\ gone \subseteq D
    BY DEF ReaperEvict, ReaperStep, Restrict, Served
<1> HIDE DEF gone
<1>2. IsFiniteSet(D) /\ IsFiniteSet(gone) /\ IsFiniteSet(D \ gone)
    BY <1>1, FS_Subset DEF IInv, Table
<1>3. Cardinality(D) = Cardinality(gone) + Cardinality(D \ gone)
    <2>1. D = gone \cup (D \ gone) /\ gone \cap (D \ gone) = {}
        BY <1>1
    <2>2. Cardinality(gone \cup (D \ gone))
            = Cardinality(gone) + Cardinality(D \ gone) - Cardinality(gone \cap (D \ gone))
        BY <1>2, FS_Union
    <2>3. Cardinality(gone) \in Nat /\ Cardinality(D \ gone) \in Nat
        BY <1>2, FS_CardinalityType
    <2>4. Cardinality(gone \cap (D \ gone)) = 0
        BY <2>1, FS_EmptySet
    <2>5. Cardinality(D) = Cardinality(gone \cup (D \ gone))
        BY <2>1
    <2> HIDE DEF D
    <2> QED
        BY <2>2, <2>3, <2>4, <2>5
<1>4. Cardinality(gone) \in Nat /\ Cardinality(D \ gone) \in Nat
    BY <1>2, FS_CardinalityType
<1>5. Table'
    BY <1>1, <1>2 DEF IInv, Table
<1>6. Counts'
    BY <1>1, <1>3, <1>4, TrackerAssumption DEF IInv, Counts
<1>7. Totals'
    BY <1>1 DEF IInv, Totals
<1>8. Hand' /\ Threads'
    BY <1>1 DEF IInv, Hand, Threads, updVars, ReaperPlaces
<1>9. Accounted'
    <2>1. InHand' = InHand
        BY <1>1 DEF InHand, updVars
    <2>2. \A n : n \in retired' <=> n \in retired \/ \E k \in gone : n \in table[k].served
        BY <1>1
    <2>3. /\ offered \in Nat /\ UNCHANGED <<offered, rejected>>
          /\ \A k \in D : table[k].served \subseteq 1..offered
          /\ retired \subseteq 1..offered /\ rejected \subseteq 1..offered
        BY <1>1 DEF IInv, Accounted
    <2>4. \A k \in D \ gone : table'[k].served = table[k].served
        BY <1>1
    <2>5. \A k, l \in D :
            \A n \in 1..offered : n \in table[k].served /\ n \in table[l].served => k = l
        BY DEF IInv, Accounted
    <2>6. retired' \subseteq 1..offered
        BY <1>1, <2>2, <2>3
    <2>7. \A n \in 1..offered :
            \/ n \in InHand \/ n \in retired' \/ n \in rejected
            \/ \E k \in D \ gone : n \in table'[k].served
        BY <1>1, <2>2, <2>4 DEF IInv, Accounted
    <2>8. \A k \in D \ gone :
            \A n \in table'[k].served : n \notin retired' /\ n \notin rejected /\ n \notin InHand
        BY <1>1, <2>2, <2>3, <2>4, <2>5 DEF IInv, Accounted
    <2>9. /\ \A n \in retired' : n \notin rejected /\ n \notin InHand
          /\ \A n \in rejected : n \notin InHand
        BY <1>1, <2>2 DEF IInv, Accounted
    <2> QED
        BY <1>1, <2>1, <2>3, <2>4, <2>5, <2>6, <2>7, <2>8, <2>9 DEF Accounted
<1> QED
    BY <1>5, <1>6, <1>7, <1>8, <1>9 DEF IInv

\* A step of any thread keeps the invariant.
LEMMA NextIInv == IInv /\ [Next]_vars => IInv'
<1> SUFFICES ASSUME IInv, [Next]_vars PROVE IInv'
    OBVIOUS
<1>1. CASE Tick
    BY <1>1, TickIInv
<1>2. CASE \E p \in Packets : UpdateIgnore(p) \/ UpdateBegin(p)
    BY <1>2, IgnoreIInv, BeginIInv
<1>3. CASE Update
    <2>1. CASE UpdateMiss
        <3>1. Hand' /\ Threads'
            BY <2>1 DEF IInv, Hand, Threads, UpdateMiss, rprVars, histVars
        <3> QED
            BY <2>1, <3>1, MoveIInv DEF UpdateMiss
    <2> QED
        BY <1>3, <2>1, FoundIInv, InsertIInv, RejectIInv DEF Update
<1>4. CASE Reaper
    <2>1. ASSUME NEW from, NEW to \in ReaperPlaces, ReaperPass(from, to)
          PROVE  IInv'
        <3>1. Hand' /\ Threads'
            BY <2>1 DEF IInv, Hand, Threads, ReaperPass, ReaperStep, updVars
        <3> QED
            BY <2>1, <3>1, MoveIInv DEF ReaperPass, ReaperStep, updVars, histVars
    <2>2. CASE ReaperCheck
        <3>1. Hand'
            BY <2>2 DEF IInv, Hand, ReaperCheck, ReaperStep, updVars
        <3>2. Threads'
            BY <2>2, OldType DEF IInv, Threads, ReaperCheck, ReaperStep, updVars, ReaperPlaces
        <3> QED
            BY <2>2, <3>1, <3>2, MoveIInv DEF ReaperCheck, ReaperStep, updVars, histVars
    <2>3. CASE ReaperHead \/ ReaperTest \/ ReaperBlock \/ ReaperTimeout
        BY <2>1, <2>3 DEF ReaperHead, ReaperTest, ReaperBlock, ReaperTimeout, ReaperPlaces
    <2> QED
        BY <1>4, <2>2, <2>3, EvictIInv DEF Reaper
<1>5. CASE StopReaper \/ StopReaperNotify \/ StopReaperJoin
    <2>1. Hand'
        BY <1>5 DEF IInv, Hand, StopReaper, StopReaperNotify, StopReaperJoin, updVars, histVars
    <2>2. Threads'
        BY <1>5 DEF IInv, Threads, StopReaper, StopReaperNotify, StopReaperJoin, updVars,
                    rprVars, ReaperPlaces
    <2> QED
        BY <1>5, <2>1, <2>2, MoveIInv
        DEF StopReaper, StopReaperNotify, StopReaperJoin, updVars
<1>6. CASE UNCHANGED vars
    <2>1. Hand' /\ Threads'
        BY <1>6 DEF IInv, Hand, Threads, vars, updVars, rprVars, histVars
    <2> QED
        BY <1>6, <2>1, MoveIInv DEF vars, updVars
<1> QED
    BY <1>1, <1>2, <1>3, <1>4, <1>5, <1>6 DEF Next

\* The invariant holds in every state of the tracker.
LEMMA Invariance == Spec => []IInv
<1> QED
    BY InitIInv, NextIInv, PTL DEF Spec

-----------------------------------------------------------------------------

\* active_flow_count is the size of the table, every flow created is there or was
\* evicted, and the table never exceeds max_flows: for every table size, however
\* the insertions of update() and the evictions of the reaper interleave.
THEOREM CountersAgree == Spec => []CountersMatchTable
<1>1. IInv => TypeOK
    <2> SUFFICES ASSUME IInv PROVE TypeOK
        OBVIOUS
    <2>1. \A k \in DOMAIN table :
            /\ table[k].tcp_state \in TcpStates
            /\ {table[k].first_seen, table[k].last_seen} \subseteq 0..Old
            /\ {table[k].total_packets, table[k].lo_to_hi_packets,
                table[k].hi_to_lo_packets, table[k].by_lo} \subseteq Nat
        BY DEF IInv, Table, Records
    <2>2. {total_flows_created, total_flows_evicted, active_flow_count, offered} \subseteq Nat
        BY DEF IInv, Counts, Accounted
    <2>3. {upd_now, rpr_now} \subseteq 0..MaxStall
        BY DEF IInv, Threads
    <2>4. DOMAIN table \subseteq Keys
        BY DEF IInv, Table
    <2> QED
        BY <2>1, <2>2, <2>3, <2>4 DEF IInv, Hand, Threads, TypeOK
<1>2. IInv => CountersMatchTable
    BY <1>1 DEF IInv, Counts, CountersMatchTable
<1> QED
    BY <1>2, Invariance, PTL

\* Every packet given to update() is counted by exactly one record, present or
\* evicted, or was rejected, or is in hand; no interleaving with the reaper loses
\* one or counts it twice.
THEOREM NoPacketLost == Spec => []PacketsAccounted
<1>1. IInv => PacketsAccounted
    <2> SUFFICES ASSUME IInv PROVE PacketsAccounted
        OBVIOUS
    <2>1. \A n : n \in Served(DOMAIN table) <=> \E k \in DOMAIN table : n \in table[k].served
        BY DEF Served
    <2>2. InHand \subseteq 1..offered
        BY DEF IInv, Hand, Accounted, InHand
    <2>3. Served(DOMAIN table) \cup retired \cup rejected \cup InHand = 1..offered
        BY <2>1, <2>2 DEF IInv, Accounted
    <2>4. \A k, l \in DOMAIN table : k # l => table[k].served \cap table[l].served = {}
        BY DEF IInv, Accounted
    <2>5. Served(DOMAIN table) \cap (retired \cup rejected \cup InHand) = {}
        BY <2>1 DEF IInv, Accounted
    <2>6. retired \cap (rejected \cup InHand) = {} /\ rejected \cap InHand = {}
        BY DEF IInv, Accounted
    <2> QED
        BY <2>3, <2>4, <2>5, <2>6 DEF IInv, Totals, PacketsAccounted
<1> QED
    BY <1>1, Invariance, PTL

\* The two directions of a conversation never get two records, also when both
\* endpoints have the same address.
THEOREM OneRecord == Spec => []OneRecordPerConversation
<1>1. IInv => OneRecordPerConversation
    <2> SUFFICES ASSUME IInv, NEW k \in DOMAIN table, NEW l \in DOMAIN table,
                        k.protocol = l.protocol, {k.lo, k.hi} = {l.lo, l.hi}
                 PROVE  k = l
        BY DEF OneRecordPerConversation
    <2>1. k \in Keys /\ l \in Keys
        BY DEF IInv, Table
    <2>2. /\ k.lo \in Endpoints /\ k.hi \in Endpoints /\ src_is_lo(k.lo, k.hi)
          /\ l.lo \in Endpoints /\ l.hi \in Endpoints /\ src_is_lo(l.lo, l.hi)
          /\ k = [lo |-> k.lo, hi |-> k.hi, protocol |-> k.protocol]
          /\ l = [lo |-> l.lo, hi |-> l.hi, protocol |-> l.protocol]
        BY <2>1, KeyOrdered
    <2>3. CASE k.lo = l.lo /\ k.hi = l.hi
        BY <2>2, <2>3
    <2>4. CASE k.lo = l.hi /\ k.hi = l.lo
        <3>1. k.lo.addr = k.hi.addr /\ k.lo.port = k.hi.port
            BY <2>2, <2>4 DEF src_is_lo, Endpoints
        <3>2. k.lo = k.hi
            BY <2>2, <3>1 DEF Endpoints
        <3> QED
            BY <2>2, <2>4, <3>2
    <2> QED
        BY <2>3, <2>4
<1> QED
    BY <1>1, Invariance, PTL

\* A packet is counted as LO_TO_HI exactly if the lower endpoint of its key sent it, or
\* both endpoints have one address.
LEMMA DirectionOfKey ==
  ASSUME NEW p \in Packets
  PROVE  LET k == Key(p)
         IN direction(p.src, p.dst) = "LO_TO_HI" <=> k.lo.addr = k.hi.addr \/ k.lo = p.src
<1>1. p.src \in Endpoints /\ p.dst \in Endpoints
    BY PacketAssumption
<1>2. p.src.addr \in Nat /\ p.dst.addr \in Nat
    BY <1>1 DEF Endpoints
<1>3. CASE src_is_lo(p.src, p.dst)
    <2>1. Key(p).lo = p.src /\ Key(p).hi = p.dst
        BY <1>3 DEF Key, make
    <2> QED
        BY <1>2, <1>3, <2>1 DEF src_is_lo, direction
<1>4. CASE ~src_is_lo(p.src, p.dst)
    <2>1. Key(p).lo = p.dst /\ Key(p).hi = p.src
        BY <1>4 DEF Key, make
    <2>2. p.dst.addr <= p.src.addr /\ p.src # p.dst
        BY <1>1, <1>2, <1>4 DEF src_is_lo, Endpoints
    <2> QED
        BY <1>2, <2>1, <2>2 DEF direction
<1> QED
    BY <1>3, <1>4

\* A packet more leaves a record's directions right.
LEMMA DirectionKept ==
  ASSUME NEW p \in Packets, NEW r \in Records, upd_now \in 0..MaxStall, offered \in Nat,
         r.lo_to_hi_packets =
           IF Key(p).lo.addr = Key(p).hi.addr THEN r.total_packets ELSE r.by_lo
  PROVE  update_record(r, p).lo_to_hi_packets =
           IF Key(p).lo.addr = Key(p).hi.addr THEN update_record(r, p).total_packets
           ELSE update_record(r, p).by_lo
<1> DEFINE u == update_record(r, p)
           up == direction(p.src, p.dst) = "LO_TO_HI"
<1>1. /\ u.lo_to_hi_packets = Bump(r.lo_to_hi_packets, up)
      /\ u.total_packets = r.total_packets + 1
      /\ u.by_lo = Bump(r.by_lo, Key(p).lo = p.src)
    BY UpdateRecordCounts
<1>2. up <=> Key(p).lo.addr = Key(p).hi.addr \/ Key(p).lo = p.src
    BY DirectionOfKey
<1> HIDE DEF u, up
<1>3. CASE Key(p).lo.addr = Key(p).hi.addr
    BY <1>1, <1>2, <1>3 DEF Bump, u
<1>4. CASE Key(p).lo.addr # Key(p).hi.addr
    BY <1>1, <1>2, <1>4 DEF Bump, u
<1> QED
    BY <1>3, <1>4

\* For all addresses and ports: LO_TO_HI counts what the lower endpoint of a record's
\* key sent, unless both endpoints have one address; then it counts every packet.
THEOREM DirectionsFollowKey == Spec => []DirectionMatchesKey
<1>1. Init => DirectionMatchesKey
    BY DEF Init, DirectionMatchesKey
<1>2. IInv /\ DirectionMatchesKey /\ [Next]_vars => DirectionMatchesKey'
    <2> SUFFICES ASSUME IInv, DirectionMatchesKey, [Next]_vars PROVE DirectionMatchesKey'
        OBVIOUS
    <2>1. /\ \A k \in DOMAIN table : table[k] \in Records
          /\ upd_now \in 0..MaxStall /\ offered \in Nat
        BY DEF IInv, Table, Threads, Accounted
    <2>2. CASE Tick
        <3> DEFINE aged(r) == [r EXCEPT !.first_seen = Older(@), !.last_seen = Older(@)]
        <3>1. DOMAIN table' = DOMAIN table /\ \A k \in DOMAIN table : table'[k] = aged(table[k])
            BY <2>2 DEF Tick
        <3>2. ASSUME NEW r \in Records
              PROVE  /\ aged(r).total_packets = r.total_packets
                     /\ aged(r).lo_to_hi_packets = r.lo_to_hi_packets
                     /\ aged(r).by_lo = r.by_lo
            BY DEF Records
        <3> HIDE DEF aged
        <3> QED
            BY <2>1, <3>1, <3>2 DEF DirectionMatchesKey
    <2>3. CASE UpdateFound
        <3> DEFINE K == Key(packet)
        <3>1. /\ packet \in Packets /\ K \in DOMAIN table /\ DOMAIN table' = DOMAIN table
              /\ table'[K] = update_record(table[K], packet)
              /\ \A k \in DOMAIN table \ {K} : table'[k] = table[k]
            BY <2>3 DEF IInv, Hand, UpdateFound
        <3>2. table'[K].lo_to_hi_packets =
                IF K.lo.addr = K.hi.addr THEN table'[K].total_packets ELSE table'[K].by_lo
            BY <2>1, <3>1, DirectionKept DEF DirectionMatchesKey
        <3> HIDE DEF K
        <3> QED
            BY <3>1, <3>2 DEF DirectionMatchesKey
    <2>4. CASE UpdateInsert
        <3> DEFINE K == Key(packet)
        <3>1. /\ packet \in Packets /\ DOMAIN table' = DOMAIN table \cup {K}
              /\ table'[K] = update_record(NewFlow, packet)
              /\ \A k \in DOMAIN table \ {K} : table'[k] = table[k]
            BY <2>4 DEF IInv, Hand, UpdateInsert
        <3>2. /\ NewFlow \in Records /\ NewFlow.lo_to_hi_packets = 0
              /\ NewFlow.total_packets = 0 /\ NewFlow.by_lo = 0
            BY OldType DEF NewFlow, Records, TcpStates
        <3>3. table'[K].lo_to_hi_packets =
                IF K.lo.addr = K.hi.addr THEN table'[K].total_packets ELSE table'[K].by_lo
            BY <2>1, <3>1, <3>2, DirectionKept
        <3> HIDE DEF K
        <3> QED
            BY <3>1, <3>3 DEF DirectionMatchesKey
    <2>5. CASE ReaperEvict
        <3>1. /\ DOMAIN table' \subseteq DOMAIN table
              /\ \A k \in DOMAIN table' : table'[k] = table[k]
            BY <2>5 DEF ReaperEvict, Restrict
        <3> QED
            BY <3>1 DEF DirectionMatchesKey
    <2>6. CASE UNCHANGED table
        BY <2>6 DEF DirectionMatchesKey
    <2>7. Tick \/ UpdateFound \/ UpdateInsert \/ ReaperEvict \/ UNCHANGED table
        BY DEF Next, vars, Update, UpdateIgnore, UpdateBegin, UpdateMiss, UpdateReject, Reaper,
          ReaperHead, ReaperTest, ReaperBlock, ReaperTimeout, ReaperCheck, ReaperPass,
          ReaperStep, StopReaper, StopReaperNotify, StopReaperJoin
    <2> QED
        BY <2>2, <2>3, <2>4, <2>5, <2>6, <2>7
<1> QED
    BY <1>1, <1>2, Invariance, PTL DEF Spec

\* A flow leaves the table only when its last packet is older than a timeout of its
\* kind, although the reaper compares with a clock value read before it had the
\* lock: for every choice of the timeouts and of the stall.
THEOREM OnlyIdleEvicted == Spec => EvictOnlyIdle
<1> DEFINE Idle(k) ==
             \/ k.protocol = "UDP" /\ table[k].last_seen > UdpTimeout
             \/ k.protocol = "TCP" /\ table[k].last_seen > TcpTimeout
             \/ k.protocol = "TCP" /\ table[k].tcp_state = "CLOSED"
                /\ table[k].last_seen > ClosedTimeout
<1>1. IInv /\ [Next]_vars => [\A k \in DOMAIN table \ DOMAIN table' : Idle(k)]_vars
    <2> SUFFICES ASSUME IInv, Next, NEW k \in DOMAIN table, k \notin DOMAIN table'
                 PROVE  Idle(k)
        BY DEF vars
    <2>1. k \in Keys /\ table[k] \in Records /\ rpr_now \in 0..MaxStall
        BY DEF IInv, Table, Threads
    <2>2. k.protocol \in {"TCP", "UDP"} /\ table[k].last_seen \in Nat /\ rpr_now \in Nat
        BY <2>1, KeyOrdered, OldType DEF Records
    <2>3. CASE ReaperEvict
        <3>1. expired(k)
            BY <2>3 DEF ReaperEvict, Restrict
        <3> QED
            BY <2>2, <3>1, TrackerAssumption DEF expired
    <2>4. CASE ~ReaperEvict
        BY <2>4 DEF Next, Tick, UpdateIgnore, UpdateBegin, Update, UpdateFound, UpdateMiss,
             UpdateInsert, UpdateReject, Reaper, ReaperHead, ReaperTest, ReaperBlock,
             ReaperTimeout, ReaperCheck, ReaperPass, ReaperStep, StopReaper,
             StopReaperNotify, StopReaperJoin
    <2> QED
        BY <2>3, <2>4
<1>2. [\A k \in DOMAIN table \ DOMAIN table' : Idle(k)]_vars
        <=> [\A k \in DOMAIN table \ DOMAIN table' :
               LET idle == table[k].last_seen
               IN \/ k.protocol = "UDP" /\ idle > UdpTimeout
                  \/ k.protocol = "TCP" /\ idle > TcpTimeout
                  \/ k.protocol = "TCP" /\ table[k].tcp_state = "CLOSED"
                     /\ idle > ClosedTimeout]_vars
    OBVIOUS
<1> QED
    BY <1>1, <1>2, Invariance, PTL DEF Spec, EvictOnlyIdle
=============================================================================
