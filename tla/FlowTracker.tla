----------------------------- MODULE FlowTracker -----------------------------
(***************************************************************************)
(* src/FlowTracker.cpp: the flow table shared by the consumer, which       *)
(* calls update() for every packet, and the reaper thread, which evicts    *)
(* idle flows.                                                             *)
(*                                                                         *)
(* update() reads the clock, looks the key up under the shared lock and,   *)
(* if it is not there, comes back with the exclusive lock: three steps     *)
(* with the reaper free to run in between.  evict_expired_flows() reads    *)
(* the clock before it takes the exclusive lock: two steps.  Each critical *)
(* section is one step.                                                    *)
(*                                                                         *)
(* Time is kept as ages.  A time point is the number of ticks since it was *)
(* read, and stays at Old once nothing can tell it from older ones.  A     *)
(* clock value that was read but not yet used is at most MaxStall ticks    *)
(* old: no thread is suspended for longer inside update() or an eviction.  *)
(***************************************************************************)
EXTENDS FlowKey, FlowRecord, FiniteSetsExt, Functions

CONSTANTS
  Packets,        \* what the dissector hands over: see PacketAssumption
  MaxFlows,       \* config_.max_flows
  TcpTimeout,     \* config_.tcp_flow_timeout_sec
  UdpTimeout,     \* config_.udp_flow_timeout_sec
  ClosedTimeout,  \* the 5.0 s after which a closed TCP flow goes
  MaxStall,       \* bound: ticks between reading the clock and using it
  MaxPackets,     \* bound: packets in a run
  None            \* no packet in hand

ASSUME TrackerAssumption ==
  /\ {MaxFlows, TcpTimeout, UdpTimeout, ClosedTimeout, MaxStall, MaxPackets}
       \subseteq Nat
  /\ None \notin Packets

ASSUME PacketAssumption ==
  \A p \in Packets :
    /\ p.ip \in BOOLEAN   \* valid, and IPv4 or IPv6
    /\ p.protocol \in {"TCP", "UDP"}
    /\ {p.src, p.dst} \subseteq Endpoints

Old == Max({TcpTimeout, UdpTimeout, ClosedTimeout}) + MaxStall + 1

VARIABLES
  table,                \* table_: a function on the keys present
  total_flows_created,
  total_flows_evicted,
  active_flow_count,
  running,              \* running_
  mpc,                  \* main: "up", "notify" and "join" in stop_reaper(), "stopped"
  packet,               \* the packet update() is working on, or None
  upc,                  \* update(): "idle", "find", "insert"
  upd_now,              \* the age of the clock value update() read
  rpc,                  \* the reaper: see ReaperPlaces
  rpr_now,              \* the age of the clock value the reaper read
  offered,              \* history: packets given to update(), which numbers them
  rejected,             \* history: those update() returned nullptr for
  retired               \* history: those counted by records now evicted

ReaperPlaces == {"head", "test", "block", "waiting", "check", "evict", "done"}

countVars == <<total_flows_created, total_flows_evicted, active_flow_count>>
updVars   == <<packet, upc, upd_now>>
rprVars   == <<rpc, rpr_now>>
histVars  == <<offered, rejected, retired>>
vars == <<table, countVars, running, mpc, updVars, rprVars, histVars>>

\* The reaper has just been started.
Init ==
  /\ table = [k \in {} |-> {}]
  /\ total_flows_created = 0
  /\ total_flows_evicted = 0
  /\ active_flow_count = 0
  /\ running = TRUE
  /\ mpc = "up"
  /\ packet = None
  /\ upc = "idle"
  /\ upd_now = 0
  /\ rpc = "head"
  /\ rpr_now = 0
  /\ offered = 0
  /\ rejected = {}
  /\ retired = {}

Key(p) == make(p.src, p.dst, p.protocol)

-----------------------------------------------------------------------------
(* Time *)

Older(age) == IF age < Old THEN age + 1 ELSE Old

\* Another tick goes by, unless a clock value in hand would get too old.
Tick ==
  /\ upc # "idle" => upd_now < MaxStall
  /\ rpc = "evict" => rpr_now < MaxStall
  /\ upd_now' = IF upc = "idle" THEN upd_now ELSE upd_now + 1
  /\ rpr_now' = IF rpc = "evict" THEN rpr_now + 1 ELSE rpr_now
  /\ table' = [k \in DOMAIN table |->
                 [table[k] EXCEPT !.first_seen = Older(@), !.last_seen = Older(@)]]
  /\ UNCHANGED <<countVars, running, mpc, packet, upc, rpc, histVars>>

-----------------------------------------------------------------------------
(* update() *)

\* FlowRecord's constructor reads the clock once more.
NewFlow ==
  [first_seen |-> 0, last_seen |-> 0, total_packets |-> 0, lo_to_hi_packets |-> 0,
   hi_to_lo_packets |-> 0, tcp_state |-> "INIT", by_lo |-> 0, served |-> {}]

\* update_record(): the counters of the direction and the state machine.  What
\* else it stores (bytes, windows of ports and SYNs, the last names seen in DNS,
\* HTTP and TLS) is read nowhere in the program and left out.  by_lo and served are
\* history: how many packets the lower endpoint really sent, and the numbers of
\* the packets counted.
update_record(rec, p) ==
  LET up == direction(p.src, p.dst) = "LO_TO_HI"
  IN [rec EXCEPT
        !.last_seen = upd_now,
        !.total_packets = @ + 1,
        !.lo_to_hi_packets = Bump(@, up),
        !.hi_to_lo_packets = Bump(@, ~up),
        !.tcp_state = IF p.protocol = "TCP" THEN next_state(@, p.flags) ELSE @,
        !.by_lo = Bump(@, Key(p).lo = p.src),
        !.served = @ \cup {offered}]

\* Invalid packets and packets that are not IP leave at once.
UpdateIgnore(p) ==
  /\ mpc = "up"
  /\ upc = "idle"
  /\ offered < MaxPackets
  /\ ~p.ip
  /\ offered' = offered + 1
  /\ rejected' = rejected \cup {offered + 1}
  /\ UNCHANGED <<table, countVars, running, mpc, updVars, rprVars, retired>>

\* The key, the direction and the clock, before any lock.
UpdateBegin(p) ==
  /\ mpc = "up"
  /\ upc = "idle"
  /\ offered < MaxPackets
  /\ p.ip
  /\ offered' = offered + 1
  /\ packet' = p
  /\ upd_now' = 0
  /\ upc' = "find"
  /\ UNCHANGED <<table, countVars, running, mpc, rprVars, rejected, retired>>

\* Back to the caller, the packet done with.
Return ==
  /\ upc' = "idle"
  /\ packet' = None
  /\ upd_now' = 0

\* Under the shared lock: the flow is there.
UpdateFound ==
  /\ upc = "find"
  /\ Key(packet) \in DOMAIN table
  /\ table' = [table EXCEPT ![Key(packet)] = update_record(@, packet)]
  /\ Return
  /\ UNCHANGED <<countVars, running, mpc, rprVars, histVars>>

\* It is not: give the shared lock up and ask for the exclusive one.
UpdateMiss ==
  /\ upc = "find"
  /\ Key(packet) \notin DOMAIN table
  /\ upc' = "insert"
  /\ UNCHANGED <<table, countVars, running, mpc, packet, upd_now, rprVars, histVars>>

\* Mutant: the limit is passed by one.
table_full_off_by_one == Cardinality(DOMAIN table) > MaxFlows

table_full == Cardinality(DOMAIN table) >= MaxFlows

count_new_flow ==
  /\ total_flows_created' = total_flows_created + 1
  /\ active_flow_count' = active_flow_count + 1

\* Mutant: the new record is entered and its first packet forgotten.
UpdateInsertOnly ==
  /\ upc = "insert"
  /\ Key(packet) \notin DOMAIN table
  /\ ~table_full
  /\ table' = [k \in DOMAIN table \cup {Key(packet)} |->
                 IF k = Key(packet) THEN NewFlow ELSE table[k]]
  /\ count_new_flow
  /\ Return
  /\ UNCHANGED <<total_flows_evicted, running, mpc, rprVars, histVars>>

\* Under the exclusive lock, with the look-up made again.  (With the program's
\* one consumer nobody else inserts, and the second look-up cannot succeed.)
UpdateInsert ==
  /\ upc = "insert"
  /\ Key(packet) \notin DOMAIN table
  /\ ~table_full
  /\ table' = [k \in DOMAIN table \cup {Key(packet)} |->
                 IF k = Key(packet) THEN update_record(NewFlow, packet)
                 ELSE table[k]]
  /\ count_new_flow
  /\ Return
  /\ UNCHANGED <<total_flows_evicted, running, mpc, rprVars, histVars>>

\* The table is full: nullptr, and no counter anywhere.
UpdateReject ==
  /\ upc = "insert"
  /\ Key(packet) \notin DOMAIN table
  /\ table_full
  /\ rejected' = rejected \cup {offered}
  /\ Return
  /\ UNCHANGED <<table, countVars, running, mpc, rprVars, offered, retired>>

Update == UpdateFound \/ UpdateMiss \/ UpdateInsert \/ UpdateReject

-----------------------------------------------------------------------------
(* reaper_loop() and evict_expired_flows() *)

ReaperStep(from, to) ==
  /\ rpc = from
  /\ rpc' = to
  /\ UNCHANGED <<running, mpc, updVars, offered, rejected>>

ReaperPass(from, to) ==
  /\ ReaperStep(from, to)
  /\ UNCHANGED <<table, countVars, rpr_now, retired>>

ReaperHead == ReaperPass("head", IF running THEN "test" ELSE "done")

\* The predicate of wait_for(), then the blocking: stop_reaper()'s notification
\* can fall in between, since it does not take reaper_mutex_.
ReaperTest  == ReaperPass("test", IF running THEN "block" ELSE "check")
ReaperBlock == ReaperPass("block", "waiting")

\* Mutant: wait() in place of wait_for().
ReaperTimeoutNever == FALSE /\ ReaperPass("waiting", "check")

\* reaper_interval_sec is over.
ReaperTimeout == ReaperPass("waiting", "check")

\* Stop, or read the clock on the way to the exclusive lock.
ReaperCheck ==
  /\ ReaperStep("check", IF running THEN "evict" ELSE "done")
  /\ rpr_now' = 0
  /\ UNCHANGED <<table, countVars, retired>>

\* Mutant: the UDP timeout for every flow.
expired_udp_for_all(k) == table[k].last_seen > UdpTimeout + rpr_now

\* Idle as the reaper sees it, from its own reading of the clock to the last
\* packet; negative when the packet came after the reading.
expired(k) ==
  LET idleMoreThan(t) == table[k].last_seen > t + rpr_now
  IN IF k.protocol = "TCP"
       THEN \/ table[k].tcp_state = "CLOSED" /\ idleMoreThan(ClosedTimeout)
            \/ idleMoreThan(TcpTimeout)
       ELSE idleMoreThan(UdpTimeout)

Served(keys) == UNION {table[k].served : k \in keys}

ReaperEvict ==
  LET gone == {k \in DOMAIN table : expired(k)}
  IN /\ ReaperStep("evict", "head")
     /\ table' = Restrict(table, DOMAIN table \ gone)
     /\ active_flow_count' = active_flow_count - Cardinality(gone)
     /\ total_flows_evicted' = total_flows_evicted + Cardinality(gone)
     /\ retired' = retired \cup Served(gone)
     /\ UNCHANGED <<total_flows_created, rpr_now>>

Reaper == ReaperHead \/ ReaperTest \/ ReaperBlock \/ ReaperTimeout \/ ReaperCheck
          \/ ReaperEvict

-----------------------------------------------------------------------------
(* stop_reaper(), once the consumer is gone *)

StopReaper ==
  /\ mpc = "up"
  /\ upc = "idle"
  /\ mpc' = "notify"
  /\ running' = FALSE
  /\ UNCHANGED <<table, countVars, updVars, rprVars, histVars>>

StopReaperNotify ==
  /\ mpc = "notify"
  /\ mpc' = "join"
  /\ rpc' = IF rpc = "waiting" THEN "check" ELSE rpc
  /\ UNCHANGED <<table, countVars, running, updVars, rpr_now, histVars>>

StopReaperJoin ==
  /\ mpc = "join"
  /\ rpc = "done"
  /\ mpc' = "stopped"
  /\ UNCHANGED <<table, countVars, running, updVars, rprVars, histVars>>

Next ==
  \/ Tick
  \/ \E p \in Packets : UpdateIgnore(p) \/ UpdateBegin(p)
  \/ Update
  \/ Reaper
  \/ StopReaper \/ StopReaperNotify \/ StopReaperJoin

\* Time passes, update() and the reaper go on, and wait_for() times out.
Fairness ==
  /\ WF_vars(Tick)
  /\ WF_vars(Update)
  /\ WF_vars(Reaper)
  /\ WF_vars(StopReaperNotify) /\ WF_vars(StopReaperJoin)

Spec == Init /\ [][Next]_vars /\ Fairness

-----------------------------------------------------------------------------
(* Properties *)

Keys == {Key(p) : p \in {q \in Packets : q.ip}}

\* Only keys of IP packets are in the table, no counter runs below zero, and no
\* clock value is used that is older than the stall allowed.
TypeOK ==
  /\ DOMAIN table \subseteq Keys
  /\ \A k \in DOMAIN table :
       /\ table[k].tcp_state \in TcpStates
       /\ {table[k].first_seen, table[k].last_seen} \subseteq 0..Old
       /\ {table[k].total_packets, table[k].lo_to_hi_packets,
           table[k].hi_to_lo_packets, table[k].by_lo} \subseteq Nat
  /\ {total_flows_created, total_flows_evicted, active_flow_count, offered}
       \subseteq Nat
  /\ {upd_now, rpr_now} \subseteq 0..MaxStall
  /\ running \in BOOLEAN
  /\ mpc \in {"up", "notify", "join", "stopped"}
  /\ packet \in Packets \cup {None}
  /\ upc \in {"idle", "find", "insert"}
  /\ rpc \in ReaperPlaces

\* The counters the dashboard reads agree with the table, and the table respects
\* max_flows, however inserting and evicting interleave.
CountersMatchTable ==
  /\ TypeOK
  /\ active_flow_count = Cardinality(DOMAIN table)
  /\ total_flows_created = total_flows_evicted + active_flow_count
  /\ active_flow_count <= MaxFlows

InHand == IF packet = None THEN {} ELSE {offered}

\* No packet is lost or counted twice between the two look-ups: every packet
\* given to update() is in exactly one record, present or evicted, or was
\* rejected, or is still in hand; a record counts the packets that are in it, and
\* its two directions add up.
PacketsAccounted ==
  /\ Served(DOMAIN table) \cup retired \cup rejected \cup InHand = 1..offered
  /\ \A k, l \in DOMAIN table : k # l => table[k].served \cap table[l].served = {}
  /\ Served(DOMAIN table) \cap (retired \cup rejected \cup InHand) = {}
  /\ retired \cap (rejected \cup InHand) = {} /\ rejected \cap InHand = {}
  /\ \A k \in DOMAIN table :
       /\ table[k].total_packets = Cardinality(table[k].served)
       /\ table[k].total_packets = table[k].lo_to_hi_packets + table[k].hi_to_lo_packets

\* Both directions of a conversation meet in one record, flows between two ports
\* of one address included.
OneRecordPerConversation ==
  \A k, l \in DOMAIN table :
    k.protocol = l.protocol /\ {k.lo, k.hi} = {l.lo, l.hi} => k = l

\* A record's two directions are those of its key: the packets counted as LO_TO_HI are
\* the ones its lower endpoint sent, whichever packet made the record.  Between two
\* ports of one address, where update() does not look at the ports as the key does, all
\* are counted so.
DirectionMatchesKey ==
  \A k \in DOMAIN table :
    table[k].lo_to_hi_packets =
      IF k.lo.addr = k.hi.addr THEN table[k].total_packets ELSE table[k].by_lo

\* A flow leaves the table only if its last packet is older than a timeout of its
\* kind at the moment it leaves, although the reaper decides by a clock value
\* read before it waited for the lock.
EvictOnlyIdle ==
  [][\A k \in DOMAIN table \ DOMAIN table' :
       LET idle == table[k].last_seen
       IN \/ k.protocol = "UDP" /\ idle > UdpTimeout
          \/ k.protocol = "TCP" /\ idle > TcpTimeout
          \/ k.protocol = "TCP" /\ table[k].tcp_state = "CLOSED" /\ idle > ClosedTimeout]_vars

\* While the reaper runs a flow is evicted unless packets keep it alive.
IdleFlowsEvicted ==
  \A k \in Keys :
    []<>(k \notin DOMAIN table \/ table[k].last_seen <= MaxStall \/ ~running)

\* stop_reaper() returns: a notification that the reaper misses between its test
\* and its blocking is made good by the timeout of wait_for().
ReaperStops == mpc = "notify" ~> mpc = "stopped"
=============================================================================
