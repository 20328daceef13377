--------------------------- MODULE PacketRingBuffer ---------------------------
(***************************************************************************)
(* include/PacketRingBuffer.hpp: the bounded queue between the capture     *)
(* thread (push) and the consumer (pop), with its mutex, its condition     *)
(* variable cv_not_empty_ and its shutdown flag.                           *)
(*                                                                         *)
(* push() holds the mutex over its whole critical section, so that section *)
(* is one step; its notify_one() comes after the unlock and is another.    *)
(* pop() is cut where another thread can get in between: the test of the   *)
(* wait predicate, which ends with the mutex still held, and the blocking, *)
(* which releases it and joins the waiters in one step.  shutdown() takes  *)
(* no mutex at all: its store and its notify_all() are two steps that can  *)
(* fall between a consumer's test and its blocking.                        *)
(*                                                                         *)
(* A packet is its identity: the position at which it was offered.         *)
(***************************************************************************)
EXTENDS Naturals, Sequences, FiniteSets

CONSTANTS
  Producers,    \* threads that call push(); the program has one
  Consumers,    \* threads that call pop() until it returns false
  Closers,      \* callers of shutdown(): the signal handler, main's catch
  MaxCapacity,  \* max_capacity_
  MaxPackets,   \* bound: packets offered in a run
  Nil           \* no thread

ASSUME RingAssumption ==
  /\ MaxCapacity \in Nat
  /\ MaxPackets \in Nat
  /\ Nil \notin Consumers

VARIABLES
  queue,          \* queue_
  pushed_count,   \* pushed_count_
  popped_count,   \* popped_count_
  dropped_count,  \* dropped_count_
  shutdown_flag,  \* shutdown_flag_
  mutex,          \* the consumer that holds mutex_ between two steps, or Nil
  ppc,            \* producers: "idle", or "notify" between unlock and notify_one
  cpc,            \* consumers: see ConsumerPlaces
  spc,            \* closers: "idle", or "notify" between store and notify_all
  accepted,       \* history: the packets enqueued, in order
  delivered,      \* history: the packets popped, in order
  raced           \* history: consumers that a notify_all missed between their
                  \* test of the predicate and their blocking

counters == <<pushed_count, popped_count, dropped_count>>
history  == <<accepted, delivered, raced>>
vars == <<queue, counters, shutdown_flag, mutex, ppc, cpc, spc, history>>

(* "test":    about to lock and evaluate the wait predicate (a new call of
              pop(), or a wake-up inside one)
   "block":   predicate false, mutex_ held, not yet among the waiters
   "waiting": blocked in cv_not_empty_
   "closed":  pop() returned false; the consumer calls it no more          *)
ConsumerPlaces == {"test", "block", "waiting", "closed"}

Init ==
  /\ queue = <<>>
  /\ pushed_count = 0
  /\ popped_count = 0
  /\ dropped_count = 0
  /\ shutdown_flag = FALSE
  /\ mutex = Nil
  /\ ppc = [p \in Producers |-> "idle"]
  /\ cpc = [c \in Consumers |-> "test"]
  /\ spc = [s \in Closers |-> "idle"]
  /\ accepted = <<>>
  /\ delivered = <<>>
  /\ raced = {}

offered == pushed_count + dropped_count

waiters == {c \in Consumers : cpc[c] = "waiting"}

\* Mutant: the limit is passed by one.
full_off_by_one == Len(queue) > MaxCapacity

full == Len(queue) >= MaxCapacity

\* Mutant: the newest packet instead of the oldest.
front_newest == queue[Len(queue)]

front == Head(queue)

count_popped == popped_count' = popped_count + 1

\* Some waiter, if there is one, leaves the condition variable.
notify_one ==
  IF waiters = {}
    THEN UNCHANGED cpc
    ELSE \E c \in waiters : cpc' = [cpc EXCEPT ![c] = "test"]

\* Mutant: notify_one() where all must be told.
notify_all_only_one == notify_one

\* Every waiter leaves; a consumer still at "block" hears nothing.
notify_all ==
  cpc' = [c \in Consumers |-> IF c \in waiters THEN "test" ELSE cpc[c]]

\* Mutant: the predicate is evaluated without the mutex.
keep_lock_unlocked(c) == UNCHANGED mutex

\* The predicate was false: the lock is kept on the way into the wait.
keep_lock(c) == mutex' = c

-----------------------------------------------------------------------------
(* push() *)

\* Room left: enqueue and count, then unlock on the way to notify_one().
PushEnqueue(p) ==
  /\ ppc[p] = "idle"
  /\ mutex = Nil
  /\ offered < MaxPackets
  /\ ~full
  /\ queue' = Append(queue, offered + 1)
  /\ pushed_count' = pushed_count + 1
  /\ accepted' = Append(accepted, offered + 1)
  /\ ppc' = [ppc EXCEPT ![p] = "notify"]
  /\ UNCHANGED <<popped_count, dropped_count, shutdown_flag, mutex, cpc, spc,
                 delivered, raced>>

\* No room: count the drop and return false.
PushDrop(p) ==
  /\ ppc[p] = "idle"
  /\ mutex = Nil
  /\ offered < MaxPackets
  /\ full
  /\ dropped_count' = dropped_count + 1
  /\ UNCHANGED <<queue, pushed_count, popped_count, shutdown_flag, mutex,
                 ppc, cpc, spc, history>>

\* notify_one(), after the unlock.
PushNotify(p) ==
  /\ ppc[p] = "notify"
  /\ ppc' = [ppc EXCEPT ![p] = "idle"]
  /\ notify_one
  /\ UNCHANGED <<queue, counters, shutdown_flag, mutex, spc, history>>

-----------------------------------------------------------------------------
(* pop() *)

\* The predicate holds and there is a packet: move the front out.
PopTake(c) ==
  /\ cpc[c] = "test"
  /\ mutex = Nil
  /\ queue # <<>>
  /\ delivered' = Append(delivered, front)
  /\ queue' = Tail(queue)
  /\ count_popped
  /\ UNCHANGED <<pushed_count, dropped_count, shutdown_flag, mutex, ppc, cpc,
                 spc, accepted, raced>>

\* Mutant: the shutdown flag is looked at before the queue is.
PopClosedEagerly(c) ==
  /\ cpc[c] = "test"
  /\ mutex = Nil
  /\ shutdown_flag
  /\ cpc' = [cpc EXCEPT ![c] = "closed"]
  /\ UNCHANGED <<queue, counters, shutdown_flag, mutex, ppc, spc, history>>

\* The predicate holds through the flag alone: return false.
PopClosed(c) ==
  /\ cpc[c] = "test"
  /\ mutex = Nil
  /\ queue = <<>>
  /\ shutdown_flag
  /\ cpc' = [cpc EXCEPT ![c] = "closed"]
  /\ UNCHANGED <<queue, counters, shutdown_flag, mutex, ppc, spc, history>>

\* The predicate is false: the consumer is going to block, mutex_ in hand.
PopSleep(c) ==
  /\ cpc[c] = "test"
  /\ mutex = Nil
  /\ queue = <<>>
  /\ ~shutdown_flag
  /\ keep_lock(c)
  /\ cpc' = [cpc EXCEPT ![c] = "block"]
  /\ UNCHANGED <<queue, counters, shutdown_flag, ppc, spc, history>>

\* cv.wait releases the mutex and joins the waiters in one step.
PopBlock(c) ==
  /\ cpc[c] = "block"
  /\ mutex' = Nil
  /\ cpc' = [cpc EXCEPT ![c] = "waiting"]
  /\ UNCHANGED <<queue, counters, shutdown_flag, ppc, spc, history>>

\* A condition variable may wake a waiter for no reason.
SpuriousWakeup(c) ==
  /\ cpc[c] = "waiting"
  /\ cpc' = [cpc EXCEPT ![c] = "test"]
  /\ UNCHANGED <<queue, counters, shutdown_flag, mutex, ppc, spc, history>>

-----------------------------------------------------------------------------
(* shutdown() *)

\* The flag is stored without mutex_, so a consumer may be past its test.
ShutdownStore(s) ==
  /\ spc[s] = "idle"
  /\ shutdown_flag' = TRUE
  /\ spc' = [spc EXCEPT ![s] = "notify"]
  /\ UNCHANGED <<queue, counters, mutex, ppc, cpc, history>>

\* notify_all(), also without mutex_.
ShutdownNotify(s) ==
  /\ spc[s] = "notify"
  /\ spc' = [spc EXCEPT ![s] = "idle"]
  /\ notify_all
  /\ raced' = raced \cup {c \in Consumers : cpc[c] = "block"}
  /\ UNCHANGED <<queue, counters, shutdown_flag, mutex, ppc, accepted, delivered>>

-----------------------------------------------------------------------------

Push(p) == PushEnqueue(p) \/ PushDrop(p)
Pop(c)  == PopTake(c) \/ PopClosed(c) \/ PopSleep(c)

Next ==
  \/ \E p \in Producers : Push(p) \/ PushNotify(p)
  \/ \E c \in Consumers : Pop(c) \/ PopBlock(c) \/ SpuriousWakeup(c)
  \/ \E s \in Closers : ShutdownStore(s) \/ ShutdownNotify(s)

\* A thread that has started a call goes on with it; nothing makes a packet
\* arrive, a signal come in or a spurious wake-up happen.
Fairness ==
  /\ \A p \in Producers : WF_vars(PushNotify(p))
  /\ \A c \in Consumers : WF_vars(Pop(c)) /\ WF_vars(PopBlock(c))
  /\ \A s \in Closers : WF_vars(ShutdownNotify(s))

SafetySpec == Init /\ [][Next]_vars
Spec == SafetySpec /\ Fairness

-----------------------------------------------------------------------------
(* Properties *)

\* The members of PacketRingBuffer and the places of its callers stay in range.
TypeOK ==
  /\ queue \in Seq(Nat)
  /\ pushed_count \in Nat
  /\ popped_count \in Nat
  /\ dropped_count \in Nat
  /\ shutdown_flag \in BOOLEAN
  /\ mutex \in Consumers \cup {Nil}
  /\ ppc \in [Producers -> {"idle", "notify"}]
  /\ cpc \in [Consumers -> ConsumerPlaces]
  /\ spc \in [Closers -> {"idle", "notify"}]
  /\ accepted \in Seq(Nat)
  /\ delivered \in Seq(Nat)
  /\ raced \in SUBSET Consumers

\* The packets handed to consumers followed by those still queued are exactly
\* the packets push() accepted, in capture order, each once, and the three
\* counters agree with them: no interleaving of push() and pop() loses,
\* duplicates or reorders a packet.
FifoExactlyOnce ==
  /\ accepted = delivered \o queue
  /\ pushed_count = Len(accepted)
  /\ popped_count = Len(delivered)
  /\ \A i, j \in 1..Len(accepted) : i < j => accepted[i] < accepted[j]

WithinCapacity == Len(queue) <= MaxCapacity

\* The members of the buffer have their types and the memory bound the buffer exists
\* for is kept: never more than max_capacity_.
Bounded == TypeOK /\ WithinCapacity

\* No push is slept through: while a packet is queued, some consumer is on its
\* way to the predicate or some producer still owes its notify_one(), unless
\* every consumer has left.  notify_one() outside the lock does not break it.
NoLostPush ==
  queue # <<>> =>
    \/ \E c \in Consumers : cpc[c] = "test"
    \/ \E p \in Producers : ppc[p] = "notify"
    \/ \A c \in Consumers : cpc[c] = "closed"

\* A consumer between its test and its blocking owns the mutex and saw an
\* empty queue that is empty still; nobody else ever owns it.
BlockedOwnsEmpty ==
  \A c \in Consumers :
    /\ cpc[c] = "block" <=> mutex = c
    /\ cpc[c] = "block" => queue = <<>>

\* shutdown() gets every consumer out of pop(), except one whose blocking the
\* notify_all() fell in front of: that race is the only way to stay behind.
ShutdownUnblocksUnlessRaced ==
  shutdown_flag ~> \A c \in Consumers : cpc[c] = "closed" \/ c \in raced

\* What src/main.cpp relies on when it shuts down: shutdown() gets every
\* consumer out of pop().
ShutdownUnblocks == shutdown_flag ~> \A c \in Consumers : cpc[c] = "closed"

\* The buffer implements the lossy FIFO.
Fifo == INSTANCE LossyFifo WITH
  Users <- Consumers, Capacity <- MaxCapacity, Offers <- MaxPackets,
  items <- queue, taken <- delivered, offered <- offered,
  closed <- shutdown_flag, ended <- {c \in Consumers : cpc[c] = "closed"}

\* Every behaviour of the mutex, the condition variable and the flag is one of
\* the lossy FIFO: a packet is lost only when the buffer is full, consumers are
\* told the end only when it is empty, and every packet accepted is eventually
\* popped unless all of them have been told.
ImplementsLossyFifo == Fifo!Spec
=============================================================================
