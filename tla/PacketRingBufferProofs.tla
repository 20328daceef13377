----------------------- MODULE PacketRingBufferProofs -----------------------
(***************************************************************************)
(* Proofs about PacketRingBuffer for any number of threads, any capacity   *)
(* and any number of packets.                                              *)
(***************************************************************************)
EXTENDS PacketRingBuffer, SequenceTheorems, TLAPS

(***************************************************************************)
(* The inductive invariant.  FifoExactlyOnce is strengthened by the bound  *)
(* on accepted identities, without which a new packet could not be shown   *)
(* larger than the old ones; NoLostPush needs BlockedOwnsEmpty, because a  *)
(* notify_one() that finds no waiter is harmless only if no consumer is on *)
(* its way into the wait.                                                  *)
(***************************************************************************)
IdentitiesOffered ==
  \A i \in 1..Len(accepted) : accepted[i] <= pushed_count + dropped_count

IInv ==
  /\ TypeOK
  /\ FifoExactlyOnce
  /\ IdentitiesOffered
  /\ WithinCapacity
  /\ BlockedOwnsEmpty
  /\ NoLostPush

-----------------------------------------------------------------------------
(* Sequences *)

\* Enqueueing commutes with prefixing what has been delivered.
LEMMA AppendConcat ==
  ASSUME NEW S, NEW s \in Seq(S), NEW t \in Seq(S), NEW x \in S
  PROVE  s \o Append(t, x) = Append(s \o t, x)
PROOF OBVIOUS

\* Moving the head of the queue to the delivered packets changes nothing.
LEMMA MoveHead ==
  ASSUME NEW S, NEW s \in Seq(S), NEW t \in Seq(S), t # <<>>
  PROVE  Append(s, Head(t)) \o Tail(t) = s \o t
PROOF OBVIOUS

-----------------------------------------------------------------------------

\* A new buffer satisfies the inductive invariant.
LEMMA InitIInv == Init => IInv
<1> SUFFICES ASSUME Init PROVE IInv
    OBVIOUS
<1>1. TypeOK
    <2>1. queue \in Seq(Nat) /\ accepted \in Seq(Nat) /\ delivered \in Seq(Nat)
        BY EmptySeq DEF Init
    <2>2. /\ ppc \in [Producers -> {"idle", "notify"}]
          /\ cpc \in [Consumers -> ConsumerPlaces]
          /\ spc \in [Closers -> {"idle", "notify"}]
        BY DEF Init, ConsumerPlaces
    <2> QED
        BY <2>1, <2>2 DEF Init, TypeOK
<1>2. accepted = <<>> /\ delivered = <<>> /\ queue = <<>> /\ Len(accepted) = 0
    BY DEF Init
<1>3. FifoExactlyOnce /\ IdentitiesOffered
    <2>1. accepted = delivered \o queue
        BY <1>2
    <2>2. 1..Len(accepted) = {}
        BY <1>2
    <2> QED
        BY <1>2, <2>1, <2>2 DEF Init, FifoExactlyOnce, IdentitiesOffered
<1>4. WithinCapacity
    BY <1>2, RingAssumption DEF WithinCapacity
<1>5. BlockedOwnsEmpty
    BY RingAssumption DEF Init, BlockedOwnsEmpty
<1>6. NoLostPush
    BY <1>2 DEF NoLostPush
<1> QED
    BY <1>1, <1>3, <1>4, <1>5, <1>6 DEF IInv

-----------------------------------------------------------------------------
(* Types *)

\* Every step keeps the types.
LEMMA TypeStep == TypeOK /\ [Next]_vars => TypeOK'
<1> SUFFICES ASSUME TypeOK, [Next]_vars PROVE TypeOK'
    OBVIOUS
<1> USE DEF TypeOK, ConsumerPlaces, counters, history
<1>1. ASSUME NEW p \in Producers, PushEnqueue(p) PROVE TypeOK'
    BY <1>1 DEF PushEnqueue, offered
<1>2. ASSUME NEW p \in Producers, PushDrop(p) PROVE TypeOK'
    BY <1>2 DEF PushDrop
<1>3. ASSUME NEW p \in Producers, PushNotify(p) PROVE TypeOK'
    <2>1. cpc' \in [Consumers -> ConsumerPlaces]
        BY <1>3 DEF PushNotify, notify_one, waiters
    <2> QED
        BY <1>3, <2>1 DEF PushNotify
<1>4. ASSUME NEW c \in Consumers, PopTake(c) PROVE TypeOK'
    BY <1>4 DEF PopTake, count_popped, front
<1>5. ASSUME NEW c \in Consumers, PopClosed(c) PROVE TypeOK'
    BY <1>5 DEF PopClosed
<1>6. ASSUME NEW c \in Consumers, PopSleep(c) PROVE TypeOK'
    BY <1>6 DEF PopSleep, keep_lock
<1>7. ASSUME NEW c \in Consumers, PopBlock(c) PROVE TypeOK'
    BY <1>7 DEF PopBlock
<1>8. ASSUME NEW c \in Consumers, SpuriousWakeup(c) PROVE TypeOK'
    BY <1>8 DEF SpuriousWakeup
<1>9. ASSUME NEW s \in Closers, ShutdownStore(s) PROVE TypeOK'
    BY <1>9 DEF ShutdownStore
<1>10. ASSUME NEW s \in Closers, ShutdownNotify(s) PROVE TypeOK'
    BY <1>10 DEF ShutdownNotify, notify_all, waiters
<1>11. CASE UNCHANGED vars
    BY <1>11 DEF vars
<1> QED
    BY <1>1, <1>2, <1>3, <1>4, <1>5, <1>6, <1>7, <1>8, <1>9, <1>10, <1>11
    DEF Next, Push, Pop

-----------------------------------------------------------------------------
(* The mutex and the wait *)

\* The consumer on its way into the wait, and only it, holds mutex_, and the
\* queue it saw empty stays empty: push() needs the mutex.
LEMMA MutexStep ==
  TypeOK /\ BlockedOwnsEmpty /\ [Next]_vars => BlockedOwnsEmpty'
<1> SUFFICES ASSUME TypeOK, BlockedOwnsEmpty, [Next]_vars
             PROVE  BlockedOwnsEmpty'
    OBVIOUS
<1> USE RingAssumption DEF TypeOK, BlockedOwnsEmpty, counters, history
<1>1. ASSUME NEW p0 \in Producers, PushEnqueue(p0) PROVE BlockedOwnsEmpty'
    BY <1>1 DEF PushEnqueue, offered, full
<1>2. ASSUME NEW p0 \in Producers, PushDrop(p0) PROVE BlockedOwnsEmpty'
    BY <1>2 DEF PushDrop, full
<1>3. ASSUME NEW p0 \in Producers, PushNotify(p0) PROVE BlockedOwnsEmpty'
    BY <1>3 DEF PushNotify, notify_one, waiters
<1>4. ASSUME NEW c0 \in Consumers, PopTake(c0) PROVE BlockedOwnsEmpty'
    BY <1>4 DEF PopTake, count_popped, front
<1>5. ASSUME NEW c0 \in Consumers, PopClosed(c0) PROVE BlockedOwnsEmpty'
    BY <1>5 DEF PopClosed
<1>6. ASSUME NEW c0 \in Consumers, PopSleep(c0) PROVE BlockedOwnsEmpty'
    BY <1>6 DEF PopSleep, keep_lock
<1>7. ASSUME NEW c0 \in Consumers, PopBlock(c0) PROVE BlockedOwnsEmpty'
    BY <1>7 DEF PopBlock
<1>8. ASSUME NEW c0 \in Consumers, SpuriousWakeup(c0) PROVE BlockedOwnsEmpty'
    BY <1>8 DEF SpuriousWakeup
<1>9. ASSUME NEW s0 \in Closers, ShutdownStore(s0) PROVE BlockedOwnsEmpty'
    BY <1>9 DEF ShutdownStore
<1>10. ASSUME NEW s0 \in Closers, ShutdownNotify(s0) PROVE BlockedOwnsEmpty'
    BY <1>10 DEF ShutdownNotify, notify_all, waiters
<1>11. CASE UNCHANGED vars
    BY <1>11 DEF vars
<1> QED
    BY <1>1, <1>2, <1>3, <1>4, <1>5, <1>6, <1>7, <1>8, <1>9, <1>10, <1>11
    DEF Next, Push, Pop

\* Every step leaves somebody awake, or about to be told, for a queued packet.
LEMMA LostPushStep ==
  TypeOK /\ BlockedOwnsEmpty /\ NoLostPush /\ [Next]_vars => NoLostPush'
<1> SUFFICES ASSUME TypeOK, BlockedOwnsEmpty, NoLostPush, [Next]_vars
             PROVE  NoLostPush'
    OBVIOUS
<1> USE DEF TypeOK, NoLostPush, counters, history
<1>1. ASSUME NEW p0 \in Producers, PushEnqueue(p0) PROVE NoLostPush'
    BY <1>1 DEF PushEnqueue, offered, full
<1>2. ASSUME NEW p0 \in Producers, PushDrop(p0) PROVE NoLostPush'
    BY <1>2 DEF PushDrop, full
<1>3. ASSUME NEW p0 \in Producers, PushNotify(p0) PROVE NoLostPush'
    <2>1. CASE waiters = {}
        <3>1. SUFFICES ASSUME queue # <<>>, ~ \E c \in Consumers : cpc[c] = "test"
                       PROVE  \A c \in Consumers : cpc[c] = "closed"
            BY <1>3, <2>1 DEF PushNotify, notify_one
        <3> QED
            BY <2>1, <3>1 DEF waiters, BlockedOwnsEmpty, ConsumerPlaces
    <2>2. CASE waiters # {}
        <3>1. \E c \in Consumers : cpc'[c] = "test"
            BY <1>3, <2>2 DEF PushNotify, notify_one, waiters
        <3> QED
            BY <3>1
    <2> QED
        BY <2>1, <2>2
<1>4. ASSUME NEW c0 \in Consumers, PopTake(c0) PROVE NoLostPush'
    BY <1>4 DEF PopTake, count_popped, front
<1>5. ASSUME NEW c0 \in Consumers, PopClosed(c0) PROVE NoLostPush'
    BY <1>5 DEF PopClosed
<1>6. ASSUME NEW c0 \in Consumers, PopSleep(c0) PROVE NoLostPush'
    BY <1>6 DEF PopSleep, keep_lock
<1>7. ASSUME NEW c0 \in Consumers, PopBlock(c0) PROVE NoLostPush'
    BY <1>7 DEF PopBlock
<1>8. ASSUME NEW c0 \in Consumers, SpuriousWakeup(c0) PROVE NoLostPush'
    BY <1>8 DEF SpuriousWakeup
<1>9. ASSUME NEW s0 \in Closers, ShutdownStore(s0) PROVE NoLostPush'
    BY <1>9 DEF ShutdownStore
<1>10. ASSUME NEW s0 \in Closers, ShutdownNotify(s0) PROVE NoLostPush'
    BY <1>10 DEF ShutdownNotify, notify_all, waiters
<1>11. CASE UNCHANGED vars
    BY <1>11 DEF vars
<1> QED
    BY <1>1, <1>2, <1>3, <1>4, <1>5, <1>6, <1>7, <1>8, <1>9, <1>10, <1>11
    DEF Next, Push, Pop

-----------------------------------------------------------------------------
(* The contents *)

\* Every step keeps the queue, the history and the counters together.
LEMMA FifoStep ==
  TypeOK /\ FifoExactlyOnce /\ IdentitiesOffered /\ WithinCapacity /\ [Next]_vars
    => (FifoExactlyOnce /\ IdentitiesOffered /\ WithinCapacity)'
<1> SUFFICES ASSUME TypeOK, FifoExactlyOnce, IdentitiesOffered, WithinCapacity, [Next]_vars
             PROVE  (FifoExactlyOnce /\ IdentitiesOffered /\ WithinCapacity)'
    OBVIOUS
<1> DEFINE Good == FifoExactlyOnce /\ IdentitiesOffered /\ WithinCapacity
<1> USE DEF FifoExactlyOnce, IdentitiesOffered, WithinCapacity, counters, history
<1>1. ASSUME NEW p0 \in Producers, PushEnqueue(p0) PROVE Good'
    <2> DEFINE x == offered + 1
    <2>1. x \in Nat
        BY DEF TypeOK, offered
    <2>0. /\ accepted' = Append(accepted, x)
          /\ queue' = Append(queue, x)
          /\ delivered' = delivered
        BY <1>1 DEF PushEnqueue
    <2>8. accepted \in Seq(Nat) /\ queue \in Seq(Nat) /\ delivered \in Seq(Nat)
        BY DEF TypeOK
    <2>9. \A i \in 1..Len(accepted) : accepted[i] < x
        BY <2>8, ElementOfSeq DEF TypeOK, offered
    <2> HIDE DEF x
    <2>10. /\ Len(accepted') = Len(accepted) + 1
           /\ \A i \in 1..Len(accepted) : accepted'[i] = accepted[i]
           /\ accepted'[Len(accepted) + 1] = x
           /\ Len(accepted) \in Nat
        BY <2>0, <2>1, <2>8, AppendProperties, LenProperties
    <2>2. accepted' = delivered' \o queue'
        <3>1. delivered \o Append(queue, x) = Append(delivered \o queue, x)
            BY <2>1, <2>8, AppendConcat
        <3> QED
            BY <2>0, <3>1
    <2>3. pushed_count' = Len(accepted') /\ popped_count' = Len(delivered')
        BY <1>1, <2>10 DEF PushEnqueue, TypeOK
    <2>4. \A i \in 1..Len(accepted') : accepted'[i] <= x
        <3> SUFFICES ASSUME NEW i \in 1..Len(accepted') PROVE accepted'[i] <= x
            OBVIOUS
        <3>1. CASE i \in 1..Len(accepted)
            <4>1. accepted[i] <= x
                BY <2>1, <2>8, <2>9, <3>1
            <4>2. accepted'[i] = accepted[i]
                BY <2>10, <3>1
            <4> QED
                BY <4>1, <4>2
        <3>2. CASE i = Len(accepted) + 1
            BY <2>1, <2>10, <3>2
        <3> QED
            BY <2>10, <3>1, <3>2
    <2>5. x = pushed_count' + dropped_count'
        BY <1>1 DEF PushEnqueue, TypeOK, offered, x
    <2>6. \A i, j \in 1..Len(accepted') : i < j => accepted'[i] < accepted'[j]
        <3> SUFFICES ASSUME NEW i \in 1..Len(accepted'), NEW j \in 1..Len(accepted'), i < j
                     PROVE  accepted'[i] < accepted'[j]
            OBVIOUS
        <3>1. i \in 1..Len(accepted)
            BY <2>10
        <3>2. CASE j \in 1..Len(accepted)
            BY <2>10, <3>1, <3>2
        <3>3. CASE j = Len(accepted) + 1
            BY <2>9, <2>10, <3>1, <3>3
        <3> QED
            BY <2>10, <3>2, <3>3
    <2>7. WithinCapacity'
        BY <1>1, <2>1, RingAssumption DEF PushEnqueue, TypeOK, full
    <2> QED
        BY <2>2, <2>3, <2>4, <2>5, <2>6, <2>7
<1>2. ASSUME NEW p0 \in Producers, PushDrop(p0) PROVE Good'
    <2>1. \A i \in 1..Len(accepted) : accepted[i] \in Nat
        BY ElementOfSeq DEF TypeOK
    <2>2. IdentitiesOffered'
        BY <1>2, <2>1 DEF PushDrop, TypeOK
    <2> QED
        BY <1>2, <2>2 DEF PushDrop
<1>3. ASSUME NEW p0 \in Producers, PushNotify(p0) PROVE Good'
    BY <1>3 DEF PushNotify, notify_one, waiters
<1>4. ASSUME NEW c0 \in Consumers, PopTake(c0) PROVE Good'
    <2>1. delivered' \o queue' = delivered \o queue
        BY <1>4, MoveHead DEF PopTake, count_popped, TypeOK, front
    <2>2. Len(queue') <= MaxCapacity /\ popped_count' = Len(delivered')
        BY <1>4, RingAssumption DEF PopTake, count_popped, TypeOK, front
    <2> QED
        BY <1>4, <2>1, <2>2 DEF PopTake
<1>5. ASSUME NEW c0 \in Consumers, PopClosed(c0) PROVE Good'
    BY <1>5 DEF PopClosed
<1>6. ASSUME NEW c0 \in Consumers, PopSleep(c0) PROVE Good'
    BY <1>6 DEF PopSleep, keep_lock
<1>7. ASSUME NEW c0 \in Consumers, PopBlock(c0) PROVE Good'
    BY <1>7 DEF PopBlock
<1>8. ASSUME NEW c0 \in Consumers, SpuriousWakeup(c0) PROVE Good'
    BY <1>8 DEF SpuriousWakeup
<1>9. ASSUME NEW s0 \in Closers, ShutdownStore(s0) PROVE Good'
    BY <1>9 DEF ShutdownStore
<1>10. ASSUME NEW s0 \in Closers, ShutdownNotify(s0) PROVE Good'
    BY <1>10 DEF ShutdownNotify, notify_all, waiters
<1>11. CASE UNCHANGED vars
    BY <1>11 DEF vars
<1> QED
    BY <1>1, <1>2, <1>3, <1>4, <1>5, <1>6, <1>7, <1>8, <1>9, <1>10, <1>11
    DEF Next, Push, Pop

-----------------------------------------------------------------------------

\* The invariant is inductive.
LEMMA StepIInv == IInv /\ [Next]_vars => IInv'
BY TypeStep, MutexStep, LostPushStep, FifoStep DEF IInv

\* It holds in every behaviour.
LEMMA Invariance == SafetySpec => []IInv
<1>1. Init => IInv
    BY InitIInv
<1>2. IInv /\ [Next]_vars => IInv'
    BY StepIInv
<1> QED
    BY <1>1, <1>2, PTL DEF SafetySpec

\* Every variable of the buffer keeps its type, whatever the threads do.
THEOREM TypeCorrect == SafetySpec => []TypeOK
<1>1. IInv => TypeOK
    BY DEF IInv
<1> QED
    BY <1>1, Invariance, PTL

\* push() and pop() hand over every accepted packet once and in capture order,
\* and the counters say so, for any number of threads and any capacity.
THEOREM ExactlyOnce == SafetySpec => []FifoExactlyOnce
<1>1. IInv => FifoExactlyOnce
    BY DEF IInv
<1> QED
    BY <1>1, Invariance, PTL

\* The queue never outgrows max_capacity_, and every member keeps its type.
THEOREM NeverOverfull == SafetySpec => []Bounded
<1>1. IInv => Bounded
    BY DEF IInv, Bounded
<1> QED
    BY <1>1, Invariance, PTL

\* Notifying after the unlock never lets all consumers sleep on a packet.
THEOREM PushIsHeard == SafetySpec => []NoLostPush
<1>1. IInv => NoLostPush
    BY DEF IInv
<1> QED
    BY <1>1, Invariance, PTL

-----------------------------------------------------------------------------
(* Refinement *)

\* A step of the buffer is a step of the lossy FIFO or leaves it alone.
LEMMA RefineStep == IInv /\ [Next]_vars => [Fifo!Next]_(Fifo!vars)
<1> SUFFICES ASSUME IInv, [Next]_vars PROVE [Fifo!Next]_(Fifo!vars)
    OBVIOUS
<1> DEFINE Ended == {c \in Consumers : cpc[c] = "closed"}
<1> USE DEF IInv, counters, history, Fifo!vars
<1>1. ASSUME NEW p0 \in Producers, PushEnqueue(p0) PROVE Fifo!Accept
    BY <1>1, RingAssumption DEF PushEnqueue, full, offered, Fifo!Accept, TypeOK
<1>2. ASSUME NEW p0 \in Producers, PushDrop(p0) PROVE Fifo!Lose
    BY <1>2 DEF PushDrop, full, offered, Fifo!Lose, TypeOK
<1>3. ASSUME NEW p0 \in Producers, PushNotify(p0) PROVE UNCHANGED Fifo!vars
    <2>1. Ended' = Ended
        BY <1>3 DEF PushNotify, notify_one, waiters, TypeOK
    <2> QED
        BY <1>3, <2>1 DEF PushNotify, offered
<1>4. ASSUME NEW c0 \in Consumers, PopTake(c0) PROVE Fifo!Take
    <2>1. Ended # Consumers
        BY <1>4 DEF PopTake
    <2> QED
        BY <1>4, <2>1 DEF PopTake, count_popped, front, offered, Fifo!Take
<1>5. ASSUME NEW c0 \in Consumers, PopClosed(c0) PROVE Fifo!End(c0)
    <2>1. Ended' = Ended \cup {c0} /\ c0 \notin Ended
        BY <1>5 DEF PopClosed, TypeOK
    <2> QED
        BY <1>5, <2>1 DEF PopClosed, offered, Fifo!End
<1>6. ASSUME NEW c0 \in Consumers, PopSleep(c0) PROVE UNCHANGED Fifo!vars
    <2>1. Ended' = Ended
        BY <1>6 DEF PopSleep, TypeOK
    <2> QED
        BY <1>6, <2>1 DEF PopSleep, offered
<1>7. ASSUME NEW c0 \in Consumers, PopBlock(c0) PROVE UNCHANGED Fifo!vars
    <2>1. Ended' = Ended
        BY <1>7 DEF PopBlock, TypeOK
    <2> QED
        BY <1>7, <2>1 DEF PopBlock, offered
<1>8. ASSUME NEW c0 \in Consumers, SpuriousWakeup(c0) PROVE UNCHANGED Fifo!vars
    <2>1. Ended' = Ended
        BY <1>8 DEF SpuriousWakeup, TypeOK
    <2> QED
        BY <1>8, <2>1 DEF SpuriousWakeup, offered
<1>9. ASSUME NEW s0 \in Closers, ShutdownStore(s0) PROVE Fifo!Close
    BY <1>9 DEF ShutdownStore, offered, Fifo!Close
<1>10. ASSUME NEW s0 \in Closers, ShutdownNotify(s0) PROVE UNCHANGED Fifo!vars
    <2>1. Ended' = Ended
        BY <1>10 DEF ShutdownNotify, notify_all, waiters, TypeOK
    <2> QED
        BY <1>10, <2>1 DEF ShutdownNotify, offered
<1>11. CASE UNCHANGED vars
    BY <1>11 DEF vars, offered
<1> QED
    BY <1>1, <1>2, <1>3, <1>4, <1>5, <1>6, <1>7, <1>8, <1>9, <1>10, <1>11
    DEF Next, Push, Pop, Fifo!Next

\* The lock, the wait set and the flag implement the lossy FIFO (its safety
\* part): a packet is lost only when the buffer is full, and pop() returns
\* false only when the buffer is closed and empty.
THEOREM RingImplementsFifo == SafetySpec => Fifo!SafetySpec
<1>1. Init => Fifo!Init
    BY DEF Init, Fifo!Init, offered
<1>2. IInv /\ [Next]_vars => [Fifo!Next]_(Fifo!vars)
    BY RefineStep
<1> QED
    BY <1>1, <1>2, Invariance, PTL DEF SafetySpec, Fifo!SafetySpec

=============================================================================
