---------------------------- MODULE ReceivePathProofs ----------------------------
(***************************************************************************)
(* Proofs about ReceivePath and the two modules it is made of,             *)
(* FrameDecoder and ObservationSubscription: for every set of bytes,       *)
(* frames and damage, every stream of them and every way TCP cuts it, and  *)
(* for every capacity of the subscription.                                 *)
(*                                                                         *)
(* Decode is a recursive function, so what it returns is proved by its     *)
(* least counterexample: DecodeDefined says that it satisfies its          *)
(* equation, and every later lemma about it takes one iteration, from      *)
(* what holds of shorter buffers.                                          *)
(***************************************************************************)
EXTENDS ReceivePath, SequenceTheorems, FiniteSetTheorems, WellFoundedInduction, TLAPS

-----------------------------------------------------------------------------
(* The subscription, for every capacity and every number of observations   *)
(* a chunk brings.                                                         *)

subvars == <<sequence, subscription, subscribes>>

(* A closed subscription holds at most the wake-up of its consumer.        *)
ClosedHoldsNothing == ~active => queue = <<>> \/ queue = <<Closed>>

SubscriptionInv ==
    SubscriptionType /\ ClosedHoldsNothing /\ GapsExposed /\ ConsumerWoken

(* The queue a publication leaves: trimming a run of consecutive sequence  *)
(* numbers keeps the newest of them, at most Capacity (_publish_observation).*)
LEMMA KeptRun ==
    ASSUME NEW q \in Seq(Nat), NEW last \in Nat,
           \A i \in 1..Len(q) : q[i] = last - Len(q) + i
    PROVE  /\ Kept(q) \in Seq(Nat)
           /\ Excess(q) \in Nat
           /\ Len(Kept(q)) = Len(q) - Excess(q)
           /\ Len(Kept(q)) <= Capacity
           /\ \A i \in 1..Len(Kept(q)) : Kept(q)[i] = last - Len(Kept(q)) + i
  <1> DEFINE e == Excess(q)
  <1>1. e \in 0..Len(q) /\ Len(q) - e <= Capacity
    BY CapacityAssumption DEF Excess
  <1>2. Kept(q) = SubSeq(q, e + 1, Len(q))
    BY DEF Kept, Newest
  <1> HIDE DEF e
  <1>3. Kept(q) \in Seq(Nat) /\ Len(Kept(q)) = Len(q) - e
    BY <1>1, <1>2
  <1>4. \A i \in 1..Len(Kept(q)) : Kept(q)[i] = q[e + i]
    BY <1>1, <1>2, <1>3
  <1>5. \A i \in 1..Len(Kept(q)) : Kept(q)[i] = last - Len(Kept(q)) + i
    BY <1>1, <1>3, <1>4
  <1> QED
    BY <1>1, <1>3, <1>5 DEF e

(* Appending the next n observations to such a run extends it.             *)
LEMMA FilledRun ==
    ASSUME NEW q \in Seq(Nat), NEW last \in Nat, NEW n \in Nat,
           \A i \in 1..Len(q) : q[i] = last - Len(q) + i
    PROVE  LET filled == q \o [i \in 1..n |-> last + i] IN
           /\ filled \in Seq(Nat)
           /\ Len(filled) = Len(q) + n
           /\ \A i \in 1..Len(filled) : filled[i] = (last + n) - Len(filled) + i
  <1> DEFINE new == [i \in 1..n |-> last + i]
  <1>1. new \in Seq(Nat) /\ Len(new) = n /\ \A i \in 1..n : new[i] = last + i
    OBVIOUS
  <1> HIDE DEF new
  <1>2. q \o new \in Seq(Nat) /\ Len(q \o new) = Len(q) + n
    BY <1>1, ConcatProperties
  <1>3. \A i \in 1..(Len(q) + n) :
            (q \o new)[i] = IF i <= Len(q) THEN q[i] ELSE new[i - Len(q)]
    BY <1>1
  <1>4. ASSUME NEW i \in 1..Len(q \o new)
        PROVE  (q \o new)[i] = (last + n) - Len(q \o new) + i
    <2>1. CASE i <= Len(q)
      BY <1>2, <1>3, <2>1
    <2>2. CASE i > Len(q)
      <3>1. i - Len(q) \in 1..n
        BY <1>2, <2>2
      <3> QED
        BY <1>1, <1>2, <1>3, <2>2, <3>1
    <2> QED
      BY <2>1, <2>2
  <1> QED
    BY <1>2, <1>4 DEF new

(* What a publication adds and drops balances, and what is taken.          *)
LEMMA Balance ==
    ASSUME NEW r \in Int, NEW t \in Int, NEW d \in Int, NEW l \in Int, NEW n \in Int,
           NEW e \in Int, r = t + d + l
    PROVE  r + n = t + (d + e) + (l + n - e) /\ r = (t + 1) + d + (l - 1)
  OBVIOUS

(* A publication keeps the invariant of the subscription                   *)
(* (_publish_observation).                                                 *)
LEMMA PublishKeeps ==
    ASSUME SubscriptionInv, NEW n \in Nat, Publish(n)
    PROVE  SubscriptionInv'
  <1> DEFINE filled == queue \o [i \in 1..n |-> sequence + i]
  <1>1. CASE ~active
    <2>1. /\ sequence' = sequence + n
          /\ UNCHANGED <<active, queue, waiting, received, dropped, base, taken, latest,
                         subscribes>>
      BY <1>1 DEF Publish
    <2>2. SubscriptionType'
      BY <2>1 DEF SubscriptionInv, SubscriptionType, FlagsType, CountersType, QueueType
    <2>3. GapsExposed' /\ ClosedHoldsNothing' /\ ConsumerWoken'
      BY <1>1, <2>1
      DEF SubscriptionInv, GapsExposed, ClosedHoldsNothing, ConsumerWoken
    <2> QED
      BY <2>2, <2>3 DEF SubscriptionInv
  <1>2. CASE active
    <2>1. /\ queue \in Seq(Nat) /\ sequence \in Nat
          /\ \A i \in 1..Len(queue) : queue[i] = sequence - Len(queue) + i
      BY <1>2 DEF SubscriptionInv, SubscriptionType, CountersType, QueueType,
                  GapsExposed
    <2>2. /\ filled \in Seq(Nat) /\ Len(filled) = Len(queue) + n
          /\ \A i \in 1..Len(filled) :
                 filled[i] = (sequence + n) - Len(filled) + i
      BY <2>1, FilledRun
    <2>3. /\ sequence' = sequence + n /\ queue' = Kept(filled)
          /\ dropped' = dropped + Excess(filled) /\ received' = received + n
          /\ UNCHANGED <<active, waiting, base, taken, latest, subscribes>>
      BY <1>2 DEF Publish
    <2> HIDE DEF filled
    <2>4. /\ Kept(filled) \in Seq(Nat)
          /\ Excess(filled) \in Nat
          /\ Len(Kept(filled)) = Len(filled) - Excess(filled)
          /\ Len(Kept(filled)) <= Capacity
          /\ \A i \in 1..Len(Kept(filled)) :
                 Kept(filled)[i] = (sequence + n) - Len(Kept(filled)) + i
      BY <2>1, <2>2, KeptRun, sequence + n \in Nat
    <2>5. SubscriptionType'
      <3>1. QueueType'
        BY <2>3, <2>4 DEF QueueType
      <3>2. CountersType'
        BY <2>1, <2>3, <2>4 DEF SubscriptionInv, SubscriptionType, CountersType
      <3>3. FlagsType'
        BY <2>3 DEF SubscriptionInv, SubscriptionType, FlagsType
      <3> QED
        BY <3>1, <3>2, <3>3 DEF SubscriptionType
    <2>6. ClosedHoldsNothing' /\ ConsumerWoken'
      BY <1>2, <2>3 DEF ClosedHoldsNothing, ConsumerWoken
    <2>7. GapsExposed'
      <3>1. /\ received = sequence - base /\ received = taken + dropped + Len(queue)
            /\ latest <= sequence - Len(queue)
            /\ received \in Nat /\ dropped \in Nat /\ base \in Nat
            /\ taken \in Nat /\ latest \in Nat
        BY <1>2 DEF SubscriptionInv, SubscriptionType, CountersType, GapsExposed
      <3>2. received' = sequence' - base'
        BY <2>1, <2>3, <3>1
      <3>a. Len(queue') = Len(queue) + n - Excess(filled)
        BY <2>2, <2>3, <2>4
      <3>b. Len(queue) \in Nat /\ Excess(filled) \in Nat /\ sequence \in Nat
        BY <2>1, <2>4
      <3>3. received' = taken' + dropped' + Len(queue')
        <4>3. /\ received' = received + n /\ taken' = taken
              /\ dropped' = dropped + Excess(filled)
          BY <2>3
        <4>4. received + n = taken + (dropped + Excess(filled))
                             + (Len(queue) + n - Excess(filled))
          <5>1. /\ received \in Int /\ taken \in Int /\ dropped \in Int
                /\ Len(queue) \in Int /\ n \in Int /\ Excess(filled) \in Int
            BY <3>1, <3>b
          <5> QED
            BY <3>1, <5>1, Balance
        <4> QED
          BY <3>a, <4>3, <4>4
      <3>4. \A i \in 1..Len(queue') : queue'[i] = sequence' - Len(queue') + i
        BY <2>3, <2>4
      <3>5. latest' <= sequence' - Len(queue')
        <4>1. latest <= (sequence + n) - (Len(queue) + n - Excess(filled))
          BY <3>1, <3>b
        <4>2. latest' = latest /\ sequence' = sequence + n
          BY <2>3
        <4> QED
          BY <3>a, <4>1, <4>2, Zenon
      <3> QED
        BY <3>2, <3>3, <3>4, <3>5 DEF GapsExposed
    <2> QED
      BY <2>5, <2>6, <2>7 DEF SubscriptionInv
  <1> QED
    BY <1>1, <1>2

(* Taking the head, by a consumer that waited or not.                      *)
LEMMA TakeKeeps ==
    ASSUME SubscriptionInv, Take
    PROVE  SubscriptionInv'
  <1>1. /\ queue \in Seq(Nat) /\ queue # <<>> /\ queue' = Tail(queue)
        /\ waiting' = FALSE
        /\ UNCHANGED <<sequence, active, received, dropped, base, subscribes>>
    BY DEF SubscriptionInv, SubscriptionType, QueueType, Take
  <1>2. /\ Len(queue) \in Nat \ {0} /\ Len(queue') = Len(queue) - 1
        /\ queue' \in Seq(Nat) /\ Head(queue) = queue[1] /\ Head(queue) \in Nat
        /\ \A i \in 1..Len(queue') : queue'[i] = queue[i + 1]
    BY <1>1
  <1>3. SubscriptionType'
    <2>1. QueueType'
      BY <1>1, <1>2, CapacityAssumption
      DEF SubscriptionInv, SubscriptionType, QueueType
    <2>2. taken \in Nat /\ latest \in Nat => taken' \in Nat /\ latest' \in Nat
      BY <1>2 DEF Take
    <2>3. CountersType'
      BY <1>1, <2>2 DEF SubscriptionInv, SubscriptionType, CountersType
    <2>4. FlagsType'
      BY <1>1 DEF SubscriptionInv, SubscriptionType, FlagsType
    <2> QED
      BY <2>1, <2>3, <2>4 DEF SubscriptionType
  <1>4. ClosedHoldsNothing'
    BY <1>1, <1>2 DEF SubscriptionInv, ClosedHoldsNothing
  <1>5. ConsumerWoken'
    BY <1>1 DEF ConsumerWoken
  <1>6. ASSUME active PROVE GapsExposed'
    <2>1. /\ received = sequence - base /\ received = taken + dropped + Len(queue)
          /\ latest <= sequence - Len(queue)
          /\ \A i \in 1..Len(queue) : queue[i] = sequence - Len(queue) + i
          /\ sequence \in Nat /\ received \in Nat /\ dropped \in Nat /\ base \in Nat
          /\ taken \in Nat /\ latest \in Nat
      BY <1>6 DEF SubscriptionInv, SubscriptionType, CountersType, GapsExposed
    <2>2. Head(queue) = sequence - Len(queue) + 1
      BY <1>2, <2>1
    <2>3. Head(queue) # Closed
      BY <1>2, <2>1, <2>2 DEF Closed
    <2>4. taken' = taken + 1 /\ latest' = Head(queue)
      BY <2>3 DEF Take
    <2>5. \A i \in 1..Len(queue') : queue'[i] = sequence' - Len(queue') + i
      <3> SUFFICES ASSUME NEW i \in 1..Len(queue')
                   PROVE  queue'[i] = sequence' - Len(queue') + i
        OBVIOUS
      <3>1. i + 1 \in 1..Len(queue) /\ queue'[i] = queue[i + 1]
        BY <1>2
      <3>2. queue[i + 1] = sequence - Len(queue) + (i + 1)
        BY <2>1, <3>1
      <3> QED
        BY <1>1, <1>2, <2>1, <3>1, <3>2
    <2>6. received' = sequence' - base'
      BY <1>1, <2>1
    <2>7. received' = taken' + dropped' + Len(queue')
      <3>1. received = (taken + 1) + dropped + (Len(queue) - 1)
        <4>1. /\ received \in Int /\ taken \in Int /\ dropped \in Int
              /\ Len(queue) \in Int
          BY <1>2, <2>1
        <4> QED
          BY <2>1, <4>1, Balance
      <3>2. received' = received /\ dropped' = dropped
        BY <1>1
      <3> QED
        BY <1>2, <2>4, <3>1, <3>2
    <2>8. latest' <= sequence' - Len(queue')
      <3>1. sequence - Len(queue) + 1 <= sequence - (Len(queue) - 1)
        BY <1>2, <2>1
      <3>2. sequence' = sequence
        BY <1>1
      <3> QED
        BY <1>2, <2>2, <2>4, <3>1, <3>2
    <2> QED
      BY <2>5, <2>6, <2>7, <2>8 DEF GapsExposed
  <1>7. GapsExposed'
    BY <1>1, <1>6 DEF GapsExposed
  <1> QED
    BY <1>3, <1>4, <1>5, <1>7 DEF SubscriptionInv

(* So does drain(),                                                        *)
LEMMA DrainKeeps ==
    ASSUME SubscriptionInv, Drain
    PROVE  SubscriptionInv'
  <1>1. /\ queue \in Seq(Nat) /\ queue # <<>> /\ queue' = <<>> /\ waiting = FALSE
        /\ UNCHANGED <<sequence, active, waiting, received, dropped, base, subscribes>>
    BY DEF SubscriptionInv, SubscriptionType, QueueType, Drain
  <1>2. /\ Len(queue) \in Nat \ {0} /\ Head(queue) = queue[1]
        /\ queue[Len(queue)] \in Nat
    BY <1>1
  <1>3. SubscriptionType'
    <2>1. QueueType'
      BY <1>1, CapacityAssumption DEF QueueType
    <2>2. taken \in Nat /\ latest \in Nat => taken' \in Nat /\ latest' \in Nat
      BY <1>2 DEF Drain
    <2>3. CountersType'
      BY <1>1, <2>2 DEF SubscriptionInv, SubscriptionType, CountersType
    <2>4. FlagsType'
      BY <1>1 DEF SubscriptionInv, SubscriptionType, FlagsType
    <2> QED
      BY <2>1, <2>3, <2>4 DEF SubscriptionType
  <1>4. ClosedHoldsNothing' /\ ConsumerWoken'
    BY <1>1 DEF ClosedHoldsNothing, ConsumerWoken
  <1>5. ASSUME active PROVE GapsExposed'
    <2>1. /\ received = sequence - base /\ received = taken + dropped + Len(queue)
          /\ latest <= sequence - Len(queue)
          /\ \A i \in 1..Len(queue) : queue[i] = sequence - Len(queue) + i
          /\ sequence \in Nat /\ received \in Nat /\ dropped \in Nat /\ base \in Nat
          /\ taken \in Nat /\ latest \in Nat
      BY <1>5 DEF SubscriptionInv, SubscriptionType, CountersType, GapsExposed
    <2>2. Head(queue) # Closed /\ queue[Len(queue)] = sequence
      BY <1>2, <2>1 DEF Closed
    <2>3. taken' = taken + Len(queue) /\ latest' = sequence
      BY <2>2 DEF Drain
    <2> QED
      BY <1>1, <1>2, <2>1, <2>3 DEF GapsExposed
  <1>6. GapsExposed'
    BY <1>1, <1>5 DEF GapsExposed
  <1> QED
    BY <1>3, <1>4, <1>6 DEF SubscriptionInv

(* and each step of the consumer.                                          *)
LEMMA ConsumerKeeps ==
    ASSUME SubscriptionInv, ConsumerStep
    PROVE  SubscriptionInv'
  <1>1. CASE Subscribe
    <2>1. /\ ~waiting /\ subscribes < MaxSubscribes
          /\ active' = TRUE /\ queue' = <<>> /\ waiting' = waiting
          /\ received' = 0 /\ dropped' = 0 /\ base' = sequence
          /\ taken' = 0 /\ latest' = 0 /\ sequence' = sequence
          /\ subscribes' = subscribes + 1
      BY <1>1 DEF Subscribe
    <2>2. QueueType'
      BY <2>1, CapacityAssumption DEF QueueType
    <2>3. CountersType'
      BY <2>1, CapacityAssumption DEF SubscriptionInv, SubscriptionType, CountersType
    <2>4. FlagsType'
      BY <2>1 DEF SubscriptionInv, SubscriptionType, FlagsType
    <2>5. GapsExposed'
      BY <2>1 DEF SubscriptionInv, SubscriptionType, CountersType, GapsExposed
    <2>6. ClosedHoldsNothing' /\ ConsumerWoken'
      BY <2>1 DEF ClosedHoldsNothing, ConsumerWoken
    <2> QED
      BY <2>2, <2>3, <2>4, <2>5, <2>6 DEF SubscriptionInv, SubscriptionType
  <1>2. CASE NextAtOnce \/ NextResumes
    BY <1>2, TakeKeeps DEF NextAtOnce, NextResumes
  <1>3. CASE NextWaits \/ NextEnds
    <2>1. /\ waiting' \in BOOLEAN /\ (waiting' => active)
          /\ UNCHANGED <<sequence, active, queue, received, dropped, base, taken,
                         latest, subscribes>>
      BY <1>3 DEF NextWaits, NextEnds
    <2>2. QueueType' /\ CountersType'
      BY <2>1 DEF SubscriptionInv, SubscriptionType, QueueType, CountersType
    <2>3. FlagsType'
      BY <2>1 DEF SubscriptionInv, SubscriptionType, FlagsType
    <2>4. GapsExposed' /\ ClosedHoldsNothing' /\ ConsumerWoken'
      BY <2>1 DEF SubscriptionInv, GapsExposed, ClosedHoldsNothing, ConsumerWoken
    <2> QED
      BY <2>2, <2>3, <2>4 DEF SubscriptionInv, SubscriptionType
  <1>4. CASE Drain
    BY <1>4, DrainKeeps
  <1>5. CASE Unsubscribe
    <2>1. LastWords \in Seq(Nat) /\ Len(LastWords) <= Capacity
          /\ (waiting => LastWords # <<>>)
          /\ (LastWords = <<>> \/ LastWords = <<Closed>>)
      BY CapacityAssumption DEF LastWords, WakeUp, Closed
    <2>2. queue' = LastWords /\ active' = FALSE
          /\ UNCHANGED <<sequence, waiting, received, dropped, base, taken, latest,
                         subscribes>>
      BY <1>5 DEF Unsubscribe
    <2>3. QueueType' /\ CountersType'
      BY <2>1, <2>2 DEF SubscriptionInv, SubscriptionType, QueueType, CountersType
    <2>4. FlagsType'
      BY <2>2 DEF SubscriptionInv, SubscriptionType, FlagsType
    <2>5. GapsExposed' /\ ClosedHoldsNothing' /\ ConsumerWoken'
      BY <2>1, <2>2 DEF GapsExposed, ClosedHoldsNothing, ConsumerWoken
    <2> QED
      BY <2>3, <2>4, <2>5 DEF SubscriptionInv, SubscriptionType
  <1> QED
    BY <1>1, <1>2, <1>3, <1>4, <1>5 DEF ConsumerStep

(* The subscription's accounting: every observation accepted since it was  *)
(* opened has been taken, dropped or is queued, without a gap, and its     *)
(* consumer never waits on a closed one (publish, async_next, drain, close).*)
THEOREM SubscriptionCorrect ==
    SubscriptionSpec => [](SubscriptionType /\ GapsExposed /\ ConsumerWoken)
  <1>1. SubscriptionInit => SubscriptionInv
    <2> SUFFICES ASSUME SubscriptionInit PROVE SubscriptionInv
      OBVIOUS
    <2>1. QueueType /\ CountersType
      BY CapacityAssumption DEF SubscriptionInit, QueueType, CountersType
    <2>2. FlagsType /\ GapsExposed /\ ClosedHoldsNothing /\ ConsumerWoken
      BY DEF SubscriptionInit, FlagsType, GapsExposed, ClosedHoldsNothing, ConsumerWoken
    <2> QED
      BY <2>1, <2>2 DEF SubscriptionInv, SubscriptionType
  <1>2. SubscriptionInv /\ [SubscriptionNext]_subvars => SubscriptionInv'
    <2> SUFFICES ASSUME SubscriptionInv, [SubscriptionNext]_subvars
                 PROVE  SubscriptionInv'
      OBVIOUS
    <2>1. CASE ConsumerStep
      BY <2>1, ConsumerKeeps
    <2>2. ASSUME NEW n \in Nat, Publish(n) PROVE SubscriptionInv'
      BY <2>2, PublishKeeps
    <2>3. CASE UNCHANGED subvars
      <3>1. UNCHANGED <<sequence, active, queue, waiting, received, dropped, base,
                        taken, latest, subscribes>>
        BY <2>3 DEF subvars, subscription
      <3>2. QueueType' /\ CountersType'
        BY <3>1 DEF SubscriptionInv, SubscriptionType, QueueType, CountersType
      <3>3. FlagsType'
        BY <3>1 DEF SubscriptionInv, SubscriptionType, FlagsType
      <3>4. GapsExposed' /\ ClosedHoldsNothing' /\ ConsumerWoken'
        BY <3>1 DEF SubscriptionInv, GapsExposed, ClosedHoldsNothing, ConsumerWoken
      <3> QED
        BY <3>2, <3>3, <3>4 DEF SubscriptionInv, SubscriptionType
    <2> QED
      BY <2>1, <2>2, <2>3 DEF SubscriptionNext
  <1>3. SubscriptionInv => SubscriptionType /\ GapsExposed /\ ConsumerWoken
    BY DEF SubscriptionInv
  <1> QED
    BY <1>1, <1>2, <1>3, PTL DEF SubscriptionSpec, subvars

(* A consumer that waits on an empty queue finds the subscription open: no *)
(* close leaves it waiting for an observation that cannot come.            *)
THEOREM ConsumerAlwaysWoken == SubscriptionSpec => []ConsumerWoken
  BY SubscriptionCorrect, PTL

-----------------------------------------------------------------------------
(* Numbers.                                                                *)

(* A set of numbers has a least member: every induction below is on it,    *)
(* as the absence of a least counterexample.                               *)
LEMMA LeastNumber ==
    ASSUME NEW T \in SUBSET Nat, T # {}
    PROVE  \E x \in T : \A y \in T : x <= y
  <1>1. IsWellFoundedOn(OpToRel(<, Nat), Nat)
    BY NatLessThanWellFounded
  <1>2. \E x \in T : \A y \in T : <<y, x>> \notin OpToRel(<, Nat)
    BY <1>1, WFMin
  <1>3. \A x, y \in Nat : y < x => <<y, x>> \in OpToRel(<, Nat)
    BY DEF OpToRel
  <1>4. PICK x \in T : \A y \in T : <<y, x>> \notin OpToRel(<, Nat)
    BY <1>2
  <1>5. \A y \in T : ~(y < x)
    BY <1>3, <1>4
  <1>6. \A y \in T : x <= y
    BY <1>5
  <1> QED
    BY <1>6

(* Min of the community modules is that member.                            *)
LEMMA MinInSet ==
    ASSUME NEW T \in SUBSET Nat, T # {}
    PROVE  Min(T) \in T /\ \A y \in T : Min(T) <= y
  BY LeastNumber DEF Min

-----------------------------------------------------------------------------
(* Sequences of sequences.                                                 *)

(* What FlattenSeq makes of a sequence of frames, by its last one.         *)
Joins(g, s) ==
    g = [i \in 1..Len(s) |-> IF i = 1 THEN s[i] ELSE g[i - 1] \o s[i]]

(* Concatenation is associative, as a predicate that lemmas are cited for. *)
Regroups(s, t, u) == (s \o t) \o u = s \o (t \o u)

LEMMA Regroup ==
    ASSUME NEW S, NEW s \in Seq(S), NEW t \in Seq(S), NEW u \in Seq(S)
    PROVE  Regroups(s, t, u)
  BY ConcatAssociative, SMTT(20) DEF Regroups

(* A sequence in front does not change what is appended at the end.        *)
LEMMA ConcatOfAppend ==
    ASSUME NEW S, NEW s \in Seq(Seq(S)), NEW t \in Seq(Seq(S)), NEW f \in Seq(S)
    PROVE  s \o Append(t, f) = Append(s \o t, f) /\ s \o t \in Seq(Seq(S))
  <1> DEFINE o == <<f>>
  <1>1. Append(t, f) = t \o o /\ o \in Seq(Seq(S))
    BY AppendIsConcat
  <1>2. s \o t \in Seq(Seq(S))
    OBVIOUS
  <1>3. Append(s \o t, f) = (s \o t) \o o
    BY <1>2, AppendIsConcat
  <1> HIDE DEF o
  <1>4. Regroups(s, t, o)
    BY <1>1, Regroup
  <1>5. (s \o t) \o o = s \o (t \o o)
    BY <1>4 DEF Regroups
  <1> QED
    BY <1>1, <1>2, <1>3, <1>5

(* One element of such a function.                                         *)
LEMMA JoinsAt ==
    ASSUME NEW s, NEW g, Joins(g, s), NEW k \in 1..Len(s)
    PROVE  g[k] = IF k = 1 THEN s[k] ELSE g[k - 1] \o s[k]
  BY DEF Joins

(* It depends on the elements up to there only.                            *)
LEMMA JoinsAgree ==
    ASSUME NEW s, NEW t, NEW g, NEW h, Len(s) \in Nat, Len(t) \in Nat,
           Joins(g, s), Joins(h, t), Len(s) <= Len(t),
           \A i \in 1..Len(s) : s[i] = t[i]
    PROVE  Len(s) # 0 => g[Len(s)] = h[Len(s)]
  <1> DEFINE T == {i \in 1..Len(s) : g[i] # h[i]}
  <1> SUFFICES ASSUME Len(s) \in T PROVE FALSE
    OBVIOUS
  <1>1. PICK i \in T : \A j \in T : i <= j
    BY LeastNumber, T \in SUBSET Nat, T # {}
  <1>a. i \in 1..Len(s) /\ i \in 1..Len(t) /\ g[i] # h[i] /\ s[i] = t[i]
    BY <1>1
  <1>2. /\ g[i] = IF i = 1 THEN s[i] ELSE g[i - 1] \o s[i]
        /\ h[i] = IF i = 1 THEN t[i] ELSE h[i - 1] \o t[i]
    BY <1>a, JoinsAt
  <1>3. CASE i = 1
    BY <1>a, <1>2, <1>3
  <1>4. CASE i # 1
    <2>1. i - 1 \in 1..Len(s) /\ i - 1 \notin T
      BY <1>1, <1>4
    <2>2. g[i - 1] = h[i - 1]
      BY <2>1
    <2> QED
      BY <1>a, <1>2, <1>4, <2>2
  <1> QED
    BY <1>3, <1>4

(* There is one for every sequence of sequences.                           *)
LEMMA JoinsExists ==
    ASSUME NEW S, NEW s \in Seq(Seq(S))
    PROVE  \E g : Joins(g, s)
  <1> DEFINE T == {n \in Nat : \E t \in Seq(Seq(S)) : Len(t) = n /\ ~ \E g : Joins(g, t)}
  <1> SUFFICES ASSUME Len(s) \in T PROVE FALSE
    OBVIOUS
  <1>1. PICK n \in T : \A j \in T : n <= j
    BY LeastNumber, T \in SUBSET Nat, T # {}
  <1>2. PICK t \in Seq(Seq(S)) : Len(t) = n /\ ~ \E g : Joins(g, t)
    BY <1>1
  <1>3. n # 0
    <2> SUFFICES ASSUME n = 0 PROVE FALSE
      OBVIOUS
    <2>1. 1..Len(t) = {}
      BY <1>2
    <2>2. Joins([i \in 1..Len(t) |-> 0], t)
      BY <2>1 DEF Joins
    <2> QED
      BY <1>2, <2>2
  <1> DEFINE front == SubSeq(t, 1, n - 1)
  <1>4. /\ n - 1 \in Nat /\ front \in Seq(Seq(S)) /\ Len(front) = n - 1
        /\ \A i \in 1..(n - 1) : front[i] = t[i]
    BY <1>1, <1>2, <1>3
  <1>5. n - 1 \notin T
    BY <1>1
  <1> HIDE DEF front
  <1>6. PICK g : Joins(g, front)
    BY <1>4, <1>5
  <1> DEFINE h == [i \in 1..Len(t) |-> IF i = 1 THEN t[i] ELSE g[i - 1] \o t[i]]
  <1>7. ASSUME NEW i \in 1..(n - 1) PROVE h[i] = g[i]
    <2>0. i \in 1..Len(t)
      BY <1>2, <1>4
    <2>1. h[i] = IF i = 1 THEN t[i] ELSE g[i - 1] \o t[i]
      BY <2>0, Zenon
    <2>2. g[i] = IF i = 1 THEN front[i] ELSE g[i - 1] \o front[i]
      BY <1>4, <1>6 DEF Joins
    <2> QED
      BY <1>4, <2>1, <2>2
  <1>8. ASSUME NEW i \in 1..Len(t)
        PROVE  h[i] = IF i = 1 THEN t[i] ELSE h[i - 1] \o t[i]
    <2>1. h[i] = IF i = 1 THEN t[i] ELSE g[i - 1] \o t[i]
      OBVIOUS
    <2>2. i # 1 => i - 1 \in 1..(n - 1)
      BY <1>2, <1>4
    <2> HIDE DEF h
    <2> QED
      BY <1>7, <2>1, <2>2
  <1>9. h = [i \in 1..Len(t) |-> h[i]]
    OBVIOUS
  <1> HIDE DEF h
  <1>10. Joins(h, t)
    <2>1. [i \in 1..Len(t) |-> h[i]]
          = [i \in 1..Len(t) |-> IF i = 1 THEN t[i] ELSE h[i - 1] \o t[i]]
      BY <1>8
    <2> QED
      BY <1>9, <2>1 DEF Joins
  <1> QED
    BY <1>2, <1>10

(* FlattenSeq is its last element.                                         *)
LEMMA FlattenJoins ==
    ASSUME NEW S, NEW s \in Seq(Seq(S)), Len(s) # 0
    PROVE  \E g : Joins(g, s) /\ FlattenSeq(s) = g[Len(s)]
  <1> DEFINE g == CHOOSE g : Joins(g, s)
  <1>1. Joins(g, s)
    BY JoinsExists
  <1>2. FlattenSeq(s) = g[Len(s)]
    BY Zenon DEF FlattenSeq, Joins
  <1> QED
    BY <1>1, <1>2

(* So an appended sequence comes at the end of the flattened one.          *)
LEMMA FlattenAppend ==
    ASSUME NEW S, NEW s \in Seq(Seq(S)), NEW f \in Seq(S)
    PROVE  /\ FlattenSeq(<<>>) = <<>>
           /\ FlattenSeq(Append(s, f)) = FlattenSeq(s) \o f
  <1>1. FlattenSeq(<<>>) = <<>>
    BY Len(<<>>) = 0 DEF FlattenSeq
  <1> DEFINE t == Append(s, f)
  <1>2. /\ t \in Seq(Seq(S)) /\ Len(t) = Len(s) + 1 /\ Len(s) \in Nat
        /\ \A i \in 1..Len(s) : t[i] = s[i]
        /\ t[Len(s) + 1] = f
    BY AppendProperties
  <1> HIDE DEF t
  <1>a. Len(t) # 0 /\ Len(t) \in 1..Len(t)
    BY <1>2
  <1>3. PICK h : Joins(h, t) /\ FlattenSeq(t) = h[Len(t)]
    BY <1>2, <1>a, FlattenJoins
  <1>4. h[Len(t)] = IF Len(t) = 1 THEN t[Len(t)] ELSE h[Len(t) - 1] \o t[Len(t)]
    BY <1>a, <1>3, JoinsAt
  <1>5. CASE Len(s) = 0
    <2>1. s = <<>>
      BY <1>5, EmptySeq
    <2>2. <<>> \o f = f
      OBVIOUS
    <2> QED
      BY <1>1, <1>2, <1>3, <1>4, <1>5, <2>1, <2>2 DEF t
  <1>6. CASE Len(s) # 0
    <2>1. PICK g : Joins(g, s) /\ FlattenSeq(s) = g[Len(s)]
      BY <1>6, FlattenJoins
    <2>2. g[Len(s)] = h[Len(s)]
      <3>1. Len(s) \in 1..Len(s) /\ Len(s) <= Len(t)
        BY <1>2, <1>6
      <3>2. \A i \in 1..Len(s) : s[i] = t[i]
        BY <1>2
      <3>3. Joins(h, t) /\ t \in Seq(Seq(S))
        BY <1>2, <1>3
      <3>4. Len(s) \in Nat /\ Len(t) \in Nat
        BY <1>2
      <3> QED
        BY <1>6, <2>1, <3>1, <3>2, <3>3, <3>4, JoinsAgree
    <2>3. Len(t) - 1 = Len(s) /\ Len(t) # 1
      BY <1>2, <1>6
    <2> QED
      BY <1>1, <1>2, <1>3, <1>4, <2>1, <2>2, <2>3 DEF t
  <1> QED
    BY <1>5, <1>6

(* Flattening sequences of bytes gives bytes.                              *)
LEMMA FlattenType ==
    ASSUME NEW S, NEW s \in Seq(Seq(S))
    PROVE  FlattenSeq(s) \in Seq(S)
  <1> DEFINE T == {n \in Nat : \E t \in Seq(Seq(S)) :
                                   Len(t) = n /\ FlattenSeq(t) \notin Seq(S)}
  <1> SUFFICES ASSUME Len(s) \in T PROVE FALSE
    OBVIOUS
  <1>1. PICK n \in T : \A j \in T : n <= j
    BY LeastNumber, T \in SUBSET Nat, T # {}
  <1>2. PICK t \in Seq(Seq(S)) : Len(t) = n /\ FlattenSeq(t) \notin Seq(S)
    BY <1>1
  <1>3. t # <<>>
    BY <1>2, FlattenAppend, <<>> \in Seq(S)
  <1>4. PICK u \in Seq(Seq(S)), f \in Seq(S) : t = Append(u, f)
    BY <1>3, SequenceEmptyOrAppend
  <1>5. Len(u) \in Nat /\ Len(u) = n - 1
    BY <1>2, <1>4, AppendProperties
  <1>6. Len(u) \notin T
    BY <1>1, <1>5
  <1>7. FlattenSeq(u) \in Seq(S)
    BY <1>5, <1>6
  <1>8. FlattenSeq(t) = FlattenSeq(u) \o f
    BY <1>4, FlattenAppend
  <1> QED
    BY <1>2, <1>7, <1>8

(* The step of the next lemma.                                             *)
LEMMA FlattenConcatStep ==
    ASSUME NEW S, NEW s \in Seq(Seq(S)), NEW v \in Seq(Seq(S)), NEW f \in Seq(S),
           FlattenSeq(s \o v) = FlattenSeq(s) \o FlattenSeq(v)
    PROVE  FlattenSeq(s \o Append(v, f)) = FlattenSeq(s) \o FlattenSeq(Append(v, f))
  <1>1. s \o Append(v, f) = Append(s \o v, f) /\ s \o v \in Seq(Seq(S))
    BY ConcatOfAppend
  <1>2. FlattenSeq(Append(s \o v, f)) = FlattenSeq(s \o v) \o f
    BY <1>1, FlattenAppend
  <1>3. FlattenSeq(Append(v, f)) = FlattenSeq(v) \o f
    BY FlattenAppend
  <1> DEFINE a == FlattenSeq(s)
             c == FlattenSeq(v)
  <1>4. a \in Seq(S) /\ c \in Seq(S)
    BY FlattenType
  <1> HIDE DEF a, c
  <1>5. (a \o c) \o f = a \o (c \o f)
    <2>1. Regroups(a, c, f)
      BY <1>4, Regroup
    <2> QED
      BY <2>1 DEF Regroups
  <1> QED
    BY <1>1, <1>2, <1>3, <1>5 DEF a, c

(* Flattening distributes over concatenation: the bytes of the frames      *)
(* returned so far, and of those of the next feed.                         *)
LEMMA FlattenConcat ==
    ASSUME NEW S, NEW s \in Seq(Seq(S)), NEW t \in Seq(Seq(S))
    PROVE  FlattenSeq(s \o t) = FlattenSeq(s) \o FlattenSeq(t)
  <1> DEFINE T == {n \in Nat : \E u \in Seq(Seq(S)) :
                       Len(u) = n /\ FlattenSeq(s \o u) # FlattenSeq(s) \o FlattenSeq(u)}
  <1> SUFFICES ASSUME Len(t) \in T PROVE FALSE
    OBVIOUS
  <1>1. PICK n \in T : \A j \in T : n <= j
    BY LeastNumber, T \in SUBSET Nat, T # {}
  <1>2. PICK u \in Seq(Seq(S)) :
            Len(u) = n /\ FlattenSeq(s \o u) # FlattenSeq(s) \o FlattenSeq(u)
    BY <1>1
  <1>3. u # <<>>
    <2>1. s \o <<>> = s
      OBVIOUS
    <2>2. FlattenSeq(s) \o <<>> = FlattenSeq(s)
      BY FlattenType
    <2> QED
      BY <1>2, <2>1, <2>2, FlattenAppend, <<>> \in Seq(S)
  <1>4. PICK v \in Seq(Seq(S)), f \in Seq(S) : u = Append(v, f)
    BY <1>3, SequenceEmptyOrAppend
  <1>5. Len(v) \in Nat /\ Len(v) = n - 1
    BY <1>2, <1>4, AppendProperties
  <1>6. FlattenSeq(s \o v) = FlattenSeq(s) \o FlattenSeq(v)
    <2>1. Len(v) \notin T
      BY <1>1, <1>5
    <2> QED
      BY <1>5, <2>1
  <1>7. FlattenSeq(s \o Append(v, f)) = FlattenSeq(s) \o FlattenSeq(Append(v, f))
    BY <1>6, FlattenConcatStep
  <1> QED
    BY <1>2, <1>4, <1>7

-----------------------------------------------------------------------------
(* The decoder's loop: one iteration, and that the loop ends for every     *)
(* buffer.                                                                 *)

(* One iteration of feed()'s loop, with d for the iterations after it.     *)
Iteration(d, b) ==
    IF Starts(b) = {}
    THEN Skip(Len(b) - Len(Retained(b)), Stop(Retained(b)))
    ELSE LET start == Min(Starts(b)) IN
         IF start > 1 THEN Skip(start - 1, d[From(b, start)])
         ELSE IF ~Headed(b, 1) THEN Stop(b)
         ELSE IF ~Plausible(b, 1)
              THEN Malformed(BadLength(b), d[From(b, BadLength(b) + 1)])
         ELSE IF Complete(b, 1)
              THEN Emit(Frame(b, 1), d[From(b, Declared(b, 1) + 1)])
         ELSE IF Later(b) # {}
              THEN Malformed(Min(Later(b)) - 1, d[From(b, Min(Later(b)))])
         ELSE Stop(b)

(* Buffers of fewer than n bytes.                                          *)
Below(n) == {b \in Seq(Byte) : Len(b) < n}

(* Cutting the front off a buffer leaves a shorter one.                    *)
LEMMA FromShorter ==
    ASSUME NEW b \in Seq(Byte), NEW i \in 2..(Len(b) + 1)
    PROVE  /\ From(b, i) \in Seq(Byte)
           /\ Len(From(b, i)) = Len(b) - i + 1
           /\ Len(From(b, i)) < Len(b)
  <1>1. Len(b) \in Nat /\ \A j \in i..Len(b) : b[j] \in Byte
    BY ElementOfSeq
  <1> QED
    BY <1>1, SubSeqProperties DEF From

(* The first prefix in a buffer (feed: buffer.find of the prefix).         *)
LEMMA FirstStart ==
    ASSUME NEW b \in Seq(Byte), Starts(b) # {}
    PROVE  /\ Min(Starts(b)) \in Starts(b) /\ Min(Starts(b)) \in 1..(Len(b) - 1)
           /\ \A i \in Starts(b) : Min(Starts(b)) <= i
  <1>1. Starts(b) \in SUBSET Nat /\ Starts(b) \subseteq 1..(Len(b) - 1)
    BY DEF Starts
  <1> QED
    BY <1>1, MinInSet

(* The first whole frame behind a partial one (_find_valid_later_frame).   *)
LEMMA FirstLater ==
    ASSUME NEW b \in Seq(Byte), Later(b) # {}
    PROVE  /\ Min(Later(b)) \in LaterFrames(b) /\ Min(Later(b)) \in 3..(Len(b) - 1)
  <1>1. Later(b) = LaterFrames(b)
    BY DEF Later
  <1>2. LaterFrames(b) \in SUBSET Nat /\ LaterFrames(b) \subseteq 3..(Len(b) - 1)
    BY DEF LaterFrames, Starts
  <1> QED
    BY <1>1, <1>2, MinInSet

(* A plausible length is that of a frame with a header.                    *)
LEMMA DeclaredLength ==
    ASSUME NEW b \in Seq(Byte), Headed(b, 1), Plausible(b, 1)
    PROVE  Declared(b, 1) \in Nat /\ Declared(b, 1) >= 4 /\ Declared(b, 1) <= MaxFrame
  <1>1. 3 \in 1..Len(b)
    BY DEF Headed, Header
  <1>2. b[3] \in Nat
    BY <1>1, ElementOfSeq, ByteAssumption
  <1>3. b[1 + 2] = b[3]
    OBVIOUS
  <1> QED
    BY <1>2, <1>3, ByteAssumption DEF Declared, Plausible, MinFrame, Header

(* An iteration uses the later ones for shorter buffers only.              *)
LEMMA IterationLocal ==
    ASSUME NEW b \in Seq(Byte), NEW d, NEW e,
           \A c \in Seq(Byte) : Len(c) < Len(b) => d[c] = e[c]
    PROVE  Iteration(d, b) = Iteration(e, b)
  <1>1. CASE Starts(b) = {}
    BY <1>1 DEF Iteration
  <1>2. CASE Starts(b) # {} /\ Min(Starts(b)) > 1
    <2>1. Min(Starts(b)) \in 2..(Len(b) + 1)
      BY <1>2, FirstStart
    <2>2. d[From(b, Min(Starts(b)))] = e[From(b, Min(Starts(b)))]
      BY <2>1, FromShorter
    <2> QED
      BY <1>2, <2>2 DEF Iteration
  <1>3. CASE /\ Starts(b) # {} /\ ~(Min(Starts(b)) > 1)
             /\ Headed(b, 1) /\ ~Plausible(b, 1)
    <2>1. BadLength(b) + 1 \in 2..(Len(b) + 1)
      BY <1>3 DEF BadLength, OneByte, Headed, Header
    <2>2. d[From(b, BadLength(b) + 1)] = e[From(b, BadLength(b) + 1)]
      BY <2>1, FromShorter
    <2> QED
      BY <1>3, <2>2 DEF Iteration
  <1>4. CASE /\ Starts(b) # {} /\ ~(Min(Starts(b)) > 1)
             /\ Headed(b, 1) /\ Plausible(b, 1) /\ Complete(b, 1)
    <2>1. Declared(b, 1) + 1 \in 2..(Len(b) + 1)
      BY <1>4, DeclaredLength DEF Complete
    <2>2. d[From(b, Declared(b, 1) + 1)] = e[From(b, Declared(b, 1) + 1)]
      BY <2>1, FromShorter
    <2> QED
      BY <1>4, <2>2 DEF Iteration
  <1>5. CASE /\ Starts(b) # {} /\ ~(Min(Starts(b)) > 1)
             /\ Headed(b, 1) /\ Plausible(b, 1) /\ ~Complete(b, 1) /\ Later(b) # {}
    <2>1. Min(Later(b)) \in 2..(Len(b) + 1)
      BY <1>5, FirstLater
    <2>2. d[From(b, Min(Later(b)))] = e[From(b, Min(Later(b)))]
      BY <2>1, FromShorter
    <2> QED
      BY <1>5, <2>2 DEF Iteration
  <1>6. CASE \/ Starts(b) # {} /\ ~(Min(Starts(b)) > 1) /\ ~Headed(b, 1)
             \/ /\ Starts(b) # {} /\ ~(Min(Starts(b)) > 1) /\ Headed(b, 1)
                /\ Plausible(b, 1) /\ ~Complete(b, 1) /\ Later(b) = {}
    BY <1>6 DEF Iteration
  <1> QED
    BY <1>1, <1>2, <1>3, <1>4, <1>5, <1>6

(* Two solutions of the equation for bounded buffers agree where both are. *)
Solves(d, n) == d = [b \in Below(n) |-> Iteration(d, b)]

(* They agree, by the least buffer on which they would not.                *)
LEMMA SolutionsAgree ==
    ASSUME NEW m \in Nat, NEW n \in Nat, NEW d, NEW e, Solves(d, m), Solves(e, n),
           NEW b \in Below(m) \cap Below(n)
    PROVE  d[b] = e[b]
  <1> DEFINE T == {Len(c) : c \in {c \in Below(m) \cap Below(n) : d[c] # e[c]}}
  <1> SUFFICES ASSUME d[b] # e[b] PROVE FALSE
    OBVIOUS
  <1>1. T \in SUBSET Nat /\ T # {}
    <2>1. \A c \in Below(m) : Len(c) \in Nat
      BY DEF Below
    <2>2. Len(b) \in T
      OBVIOUS
    <2> QED
      BY <2>1, <2>2
  <1>2. PICK k \in T : \A j \in T : k <= j
    BY <1>1, LeastNumber
  <1>3. PICK c \in Below(m) \cap Below(n) : d[c] # e[c] /\ k = Len(c)
    BY <1>2
  <1>4. c \in Seq(Byte) /\ Len(c) \in Nat /\ Len(c) < m /\ Len(c) < n
    BY <1>3 DEF Below
  <1>5. ASSUME NEW s \in Seq(Byte), Len(s) < Len(c) PROVE d[s] = e[s]
    <2>1. s \in Below(m) \cap Below(n)
      BY <1>4, <1>5 DEF Below
    <2>2. Len(s) \in Nat /\ ~(k <= Len(s))
      BY <1>3, <1>4, <1>5
    <2> QED
      BY <1>2, <2>1, <2>2
  <1>6. Iteration(d, c) = Iteration(e, c)
    BY <1>4, <1>5, IterationLocal
  <1>7. d[c] = Iteration(d, c) /\ e[c] = Iteration(e, c)
    BY <1>3 DEF Solves
  <1> QED
    BY <1>3, <1>6, <1>7

(* There is one for every bound, the next from the one before.             *)
LEMMA SolutionExists ==
    ASSUME NEW n \in Nat
    PROVE  \E d : Solves(d, n)
  <1> DEFINE T == {m \in Nat : ~ \E d : Solves(d, m)}
  <1> SUFFICES ASSUME n \in T PROVE FALSE
    OBVIOUS
  <1>1. PICK m \in T : \A j \in T : m <= j
    BY LeastNumber, T \in SUBSET Nat, T # {}
  <1>2. m # 0
    <2>1. Below(0) = {}
      BY DEF Below
    <2>2. Solves([b \in Below(0) |-> 0], 0)
      BY <2>1 DEF Solves
    <2> QED
      BY <1>1, <2>2
  <1>3. m - 1 \in Nat /\ m - 1 \notin T
    BY <1>1, <1>2
  <1>4. PICK d : Solves(d, m - 1)
    BY <1>3
  <1> DEFINE e == [b \in Below(m) |-> Iteration(d, b)]
  <1>5. ASSUME NEW b \in Below(m) PROVE Iteration(d, b) = Iteration(e, b)
    <2>1. ASSUME NEW c \in Seq(Byte), Len(c) < Len(b) PROVE d[c] = e[c]
      <3>1. c \in Below(m) /\ c \in Below(m - 1)
        BY <1>3, <1>5, <2>1 DEF Below
      <3>2. e[c] = Iteration(d, c)
        BY <3>1
      <3>3. d[c] = Iteration(d, c)
        BY <1>4, <3>1 DEF Solves
      <3> QED
        BY <3>2, <3>3
    <2>2. b \in Seq(Byte)
      BY DEF Below
    <2> HIDE DEF e
    <2> QED
      BY <2>1, <2>2, IterationLocal
  <1>6. e = [b \in Below(m) |-> Iteration(e, b)]
    <2>1. \A b \in Below(m) : Iteration(d, b) = Iteration(e, b)
      BY <1>5
    <2>2. [b \in Below(m) |-> Iteration(d, b)] = [b \in Below(m) |-> Iteration(e, b)]
      BY <2>1
    <2> QED
      BY <2>2
  <1> HIDE DEF e
  <1>7. Solves(e, m)
    BY <1>6 DEF Solves
  <1> QED
    BY <1>1, <1>7

(* The recursive definition of Decode defines a function: feed()'s loop    *)
(* ends for every buffer, since each iteration leaves a shorter one.       *)
LEMMA DecodeDefined ==
    /\ DOMAIN Decode = Seq(Byte)
    /\ \A b \in Seq(Byte) : Decode[b] = Iteration(Decode, b)
  <1> DEFINE Solution(n) == CHOOSE d : Solves(d, n)
             g == [b \in Seq(Byte) |-> Solution(Len(b) + 1)[b]]
  <1>1. ASSUME NEW n \in Nat PROVE Solves(Solution(n), n)
    BY SolutionExists
  <1> HIDE DEF Solution
  <1>2. ASSUME NEW b \in Seq(Byte) PROVE g[b] = Iteration(g, b)
    <2> DEFINE d == Solution(Len(b) + 1)
    <2>1. Len(b) \in Nat /\ Len(b) + 1 \in Nat /\ b \in Below(Len(b) + 1)
      BY DEF Below
    <2>2. Solves(d, Len(b) + 1)
      BY <1>1, <2>1
    <2>3. g[b] = d[b]
      OBVIOUS
    <2>4. d[b] = Iteration(d, b)
      BY <2>1, <2>2 DEF Solves
    <2>5. ASSUME NEW c \in Seq(Byte), Len(c) < Len(b) PROVE g[c] = d[c]
      <3>1. Len(c) + 1 \in Nat /\ c \in Below(Len(c) + 1) /\ c \in Below(Len(b) + 1)
        BY <2>1, <2>5 DEF Below
      <3>2. Solves(Solution(Len(c) + 1), Len(c) + 1)
        BY <1>1, <3>1
      <3> HIDE DEF d
      <3>3. Solution(Len(c) + 1)[c] = d[c]
        BY <2>1, <2>2, <3>1, <3>2, SolutionsAgree
      <3> QED
        BY <3>3
    <2> HIDE DEF d, g
    <2>6. Iteration(g, b) = Iteration(d, b)
      BY <2>5, IterationLocal
    <2> QED
      BY <2>3, <2>4, <2>6
  <1>3. g = [b \in Seq(Byte) |-> Iteration(g, b)]
    <2>1. g = [b \in Seq(Byte) |-> g[b]]
      OBVIOUS
    <2> HIDE DEF g
    <2>2. [b \in Seq(Byte) |-> g[b]] = [b \in Seq(Byte) |-> Iteration(g, b)]
      BY <1>2
    <2> QED
      BY <2>1, <2>2
  <1> HIDE DEF g
  <1>4. Decode = CHOOSE d : d = [b \in Seq(Byte) |-> Iteration(d, b)]
    BY DEF Decode, Iteration
  <1>5. Decode = [b \in Seq(Byte) |-> Iteration(Decode, b)]
    BY <1>3, <1>4
  <1> QED
    BY <1>5

-----------------------------------------------------------------------------
(* What every feed() promises.                                             *)

(* What feed() promises of one buffer: it is returned in frames, dropped   *)
(* and counted, or kept, and what is kept hides no complete frame.         *)
Results == [frames : Seq(Seq(Byte)), rest : Seq(Byte), discarded : Nat, malformed : Nat]
Sound(b, r) ==
    /\ r \in Results
    /\ LaterFrames(r.rest) = {}
    /\ Len(b) = Len(FlattenSeq(r.frames)) + r.discarded + Len(r.rest)

(* The parts of a result, and a result with one of them changed.           *)
LEMMA ResultParts ==
    ASSUME NEW r \in Results
    PROVE  /\ r.frames \in Seq(Seq(Byte)) /\ r.rest \in Seq(Byte)
           /\ r.discarded \in Nat /\ r.malformed \in Nat
  BY DEF Results

(* ... the frames (Emit).                                                  *)
LEMMA ChangedFrames ==
    ASSUME NEW r \in Results, NEW x \in Seq(Seq(Byte)), NEW q,
           q = [r EXCEPT !.frames = x]
    PROVE  /\ q \in Results /\ q.frames = x
           /\ q.rest = r.rest /\ q.discarded = r.discarded
  BY DEF Results

(* ... the bytes dropped (Skip).                                           *)
LEMMA ChangedDiscarded ==
    ASSUME NEW r \in Results, NEW y \in Nat, NEW q, q = [r EXCEPT !.discarded = y]
    PROVE  /\ q \in Results /\ q.frames = r.frames
           /\ q.rest = r.rest /\ q.discarded = y
  BY DEF Results

(* ... the malformed lengths (Malformed).                                  *)
LEMMA ChangedMalformed ==
    ASSUME NEW r \in Results, NEW y \in Nat, NEW q, q = [r EXCEPT !.malformed = y]
    PROVE  /\ q \in Results /\ q.frames = r.frames
           /\ q.rest = r.rest /\ q.discarded = r.discarded
  BY DEF Results

(* An iteration that ends the loop keeps the promise.                      *)
LEMMA StopSound ==
    ASSUME NEW b \in Seq(Byte), LaterFrames(b) = {}
    PROVE  Sound(b, Stop(b))
  <1>1. FlattenSeq(<<>>) = <<>> /\ Len(<<>>) = 0
    BY FlattenAppend, <<>> \in Seq(Byte), <<>> \in Seq(Seq(Byte))
  <1>2. Stop(b) \in Results /\ Stop(b).rest = b /\ Stop(b).frames = <<>>
        /\ Stop(b).discarded = 0
    BY DEF Stop, Results
  <1> QED
    BY <1>1, <1>2 DEF Sound

(* So does one that drops n bytes, with or without a malformed length.     *)
LEMMA SkipSound ==
    ASSUME NEW b \in Seq(Byte), NEW c \in Seq(Byte), NEW r, Sound(c, r), NEW n \in Nat,
           Len(b) = n + Len(c)
    PROVE  Sound(b, Skip(n, r)) /\ Sound(b, Malformed(n, r))
  <1>0. r \in Results /\ r.discarded + n \in Nat
    BY ResultParts DEF Sound
  <1>1. /\ Skip(n, r) \in Results /\ Skip(n, r).rest = r.rest
        /\ Skip(n, r).frames = r.frames /\ Skip(n, r).discarded = r.discarded + n
    <2>1. Skip(n, r) = [r EXCEPT !.discarded = r.discarded + n]
      BY DEF Skip, Drop
    <2> QED
      BY <1>0, <2>1, ChangedDiscarded
  <1>2. /\ Malformed(n, r) \in Results /\ Malformed(n, r).rest = r.rest
        /\ Malformed(n, r).frames = r.frames
        /\ Malformed(n, r).discarded = r.discarded + n
    <2> DEFINE q == Skip(n, r)
    <2>1. Malformed(n, r) = [q EXCEPT !.malformed = q.malformed + 1]
      BY DEF Malformed
    <2> HIDE DEF q
    <2>2. q \in Results /\ q.malformed + 1 \in Nat
      BY <1>1, ResultParts DEF q
    <2>3. /\ Malformed(n, r) \in Results /\ Malformed(n, r).rest = q.rest
          /\ Malformed(n, r).frames = q.frames
          /\ Malformed(n, r).discarded = q.discarded
      BY <2>1, <2>2, ChangedMalformed
    <2> QED
      BY <1>1, <2>3 DEF q
  <1>3. Len(FlattenSeq(r.frames)) \in Nat /\ Len(r.rest) \in Nat /\ r.discarded \in Nat
    BY FlattenType DEF Sound, Results
  <1>4. Len(b) = Len(FlattenSeq(r.frames)) + (r.discarded + n) + Len(r.rest)
    BY <1>3 DEF Sound
  <1> QED
    BY <1>1, <1>2, <1>4 DEF Sound

(* So does one that returns a frame.                                       *)
LEMMA EmitSound ==
    ASSUME NEW b \in Seq(Byte), NEW c \in Seq(Byte), NEW r, Sound(c, r),
           NEW f \in Seq(Byte), Len(b) = Len(f) + Len(c)
    PROVE  Sound(b, Emit(f, r))
  <1>1. /\ Emit(f, r) \in Results /\ Emit(f, r).rest = r.rest
        /\ Emit(f, r).frames = <<f>> \o r.frames
        /\ Emit(f, r).discarded = r.discarded
    <2>1. r \in Results
      BY DEF Sound
    <2>2. <<f>> \o r.frames \in Seq(Seq(Byte))
      BY <2>1 DEF Results
    <2> DEFINE x == <<f>> \o r.frames
    <2>3. Emit(f, r) = [r EXCEPT !.frames = x]
      BY DEF Emit
    <2>4. x \in Seq(Seq(Byte))
      BY <2>2
    <2> HIDE DEF x
    <2>5. /\ Emit(f, r) \in Results /\ Emit(f, r).frames = x
          /\ Emit(f, r).rest = r.rest /\ Emit(f, r).discarded = r.discarded
      BY <2>1, <2>3, <2>4, ChangedFrames
    <2> QED
      BY <2>5 DEF x
  <1>2. FlattenSeq(<<f>>) = f
    <2>1. FlattenSeq(Append(<<>>, f)) = FlattenSeq(<<>>) \o f /\ FlattenSeq(<<>>) = <<>>
      BY FlattenAppend, <<>> \in Seq(Seq(Byte))
    <2> QED
      BY <2>1
  <1>3. FlattenSeq(<<f>> \o r.frames) = f \o FlattenSeq(r.frames)
    <2>1. r.frames \in Seq(Seq(Byte)) /\ <<f>> \in Seq(Seq(Byte))
      BY DEF Sound, Results
    <2>2. FlattenSeq(<<f>> \o r.frames) = FlattenSeq(<<f>>) \o FlattenSeq(r.frames)
      BY <2>1, FlattenConcat
    <2> QED
      BY <1>2, <2>2
  <1>4. Len(FlattenSeq(<<f>> \o r.frames)) = Len(f) + Len(FlattenSeq(r.frames))
    <2> DEFINE a == FlattenSeq(r.frames)
    <2>1. a \in Seq(Byte)
      BY FlattenType DEF Sound, Results
    <2> HIDE DEF a
    <2>2. Len(f \o a) = Len(f) + Len(a)
      BY <2>1, ConcatProperties
    <2> QED
      BY <1>3, <2>2 DEF a
  <1>5. /\ Len(FlattenSeq(r.frames)) \in Nat /\ Len(r.rest) \in Nat
        /\ r.discarded \in Nat /\ Len(f) \in Nat
    <2>1. r.frames \in Seq(Seq(Byte)) /\ r.rest \in Seq(Byte) /\ r.discarded \in Nat
      BY ResultParts DEF Sound
    <2>2. FlattenSeq(r.frames) \in Seq(Byte)
      BY <2>1, FlattenType
    <2> QED
      BY <2>1, <2>2
  <1>6. Len(b) = Len(FlattenSeq(<<f>> \o r.frames)) + r.discarded + Len(r.rest)
    <2> DEFINE d == r.discarded
               g == Len(FlattenSeq(r.frames))
               h == Len(FlattenSeq(<<f>> \o r.frames))
               e == Len(r.rest)
    <2>1. /\ Len(b) = Len(f) + Len(c) /\ Len(c) = g + d + e /\ h = Len(f) + g
          /\ g \in Nat /\ e \in Nat /\ d \in Nat /\ Len(f) \in Nat
      BY <1>4, <1>5 DEF Sound
    <2> HIDE DEF d, g, h, e
    <2>2. Len(b) = h + d + e
      BY <2>1
    <2> QED
      BY <2>2 DEF d, h, e
  <1> QED
    BY <1>1, <1>6 DEF Sound

(* One iteration keeps the promise if the iterations after it do.          *)
LEMMA IterationSound ==
    ASSUME NEW b \in Seq(Byte), NEW d,
           \A c \in Seq(Byte) : Len(c) < Len(b) => Sound(c, d[c])
    PROVE  Sound(b, Iteration(d, b))
  <1>1. ASSUME NEW i \in 2..(Len(b) + 1)
        PROVE  /\ Sound(From(b, i), d[From(b, i)]) /\ From(b, i) \in Seq(Byte)
               /\ i - 1 \in Nat /\ Len(b) = (i - 1) + Len(From(b, i))
    BY FromShorter
  <1>2. CASE Starts(b) = {}
    <2>1. Retained(b) \in Seq(Byte) /\ Len(Retained(b)) <= Len(b)
          /\ Len(Retained(b)) <= 1
      <3>1. CASE b # <<>> /\ Last(b) = First
        BY <3>1, ByteAssumption DEF Retained, SplitPrefix
      <3>2. CASE ~(b # <<>> /\ Last(b) = First)
        BY <3>2 DEF Retained, SplitPrefix
      <3> QED
        BY <3>1, <3>2
    <2>2. LaterFrames(Retained(b)) = {}
      BY <2>1 DEF LaterFrames, Starts
    <2>3. Sound(Retained(b), Stop(Retained(b)))
      BY <2>1, <2>2, StopSound
    <2>4. Len(b) - Len(Retained(b)) \in Nat
          /\ Len(b) = (Len(b) - Len(Retained(b))) + Len(Retained(b))
      BY <2>1
    <2>5. Sound(b, Skip(Len(b) - Len(Retained(b)), Stop(Retained(b))))
      BY <2>1, <2>3, <2>4, SkipSound
    <2> QED
      BY <1>2, <2>5 DEF Iteration
  <1>3. CASE Starts(b) # {} /\ Min(Starts(b)) > 1
    <2>1. Min(Starts(b)) \in 2..(Len(b) + 1)
      BY <1>3, FirstStart
    <2>2. Sound(b, Skip(Min(Starts(b)) - 1, d[From(b, Min(Starts(b)))]))
      BY <1>1, <2>1, SkipSound
    <2> QED
      BY <1>3, <2>2 DEF Iteration
  <1>4. CASE Starts(b) # {} /\ ~(Min(Starts(b)) > 1) /\ ~Headed(b, 1)
    <2>1. LaterFrames(b) = {}
      BY <1>4 DEF LaterFrames, Starts, Headed, Header
    <2> QED
      BY <1>4, <2>1, StopSound DEF Iteration
  <1>5. CASE /\ Starts(b) # {} /\ ~(Min(Starts(b)) > 1)
             /\ Headed(b, 1) /\ ~Plausible(b, 1)
    <2>1. BadLength(b) + 1 \in 2..(Len(b) + 1) /\ BadLength(b) = (BadLength(b) + 1) - 1
      BY <1>5 DEF BadLength, OneByte, Headed, Header
    <2>2. Sound(b, Malformed(BadLength(b), d[From(b, BadLength(b) + 1)]))
      BY <1>1, <2>1, SkipSound
    <2> QED
      BY <1>5, <2>2 DEF Iteration
  <1>6. CASE /\ Starts(b) # {} /\ ~(Min(Starts(b)) > 1)
             /\ Headed(b, 1) /\ Plausible(b, 1) /\ Complete(b, 1)
    <2>1. Declared(b, 1) + 1 \in 2..(Len(b) + 1) /\ Declared(b, 1) \in Nat
          /\ Declared(b, 1) <= Len(b)
      BY <1>6, DeclaredLength DEF Complete
    <2>2. Frame(b, 1) \in Seq(Byte) /\ Len(Frame(b, 1)) = Declared(b, 1)
      BY <2>1 DEF Frame
    <2>3. /\ Sound(From(b, Declared(b, 1) + 1), d[From(b, Declared(b, 1) + 1)])
          /\ From(b, Declared(b, 1) + 1) \in Seq(Byte)
          /\ Len(b) = Declared(b, 1) + Len(From(b, Declared(b, 1) + 1))
      BY <1>1, <2>1
    <2>4. Len(b) = Len(Frame(b, 1)) + Len(From(b, Declared(b, 1) + 1))
      BY <2>2, <2>3
    <2>5. Sound(b, Emit(Frame(b, 1), d[From(b, Declared(b, 1) + 1)]))
      BY <2>2, <2>3, <2>4, EmitSound
    <2> QED
      BY <1>6, <2>5 DEF Iteration
  <1>7. CASE /\ Starts(b) # {} /\ ~(Min(Starts(b)) > 1)
             /\ Headed(b, 1) /\ Plausible(b, 1) /\ ~Complete(b, 1) /\ Later(b) # {}
    <2>1. Min(Later(b)) \in 2..(Len(b) + 1)
      BY <1>7, FirstLater
    <2>2. Sound(b, Malformed(Min(Later(b)) - 1, d[From(b, Min(Later(b)))]))
      BY <1>1, <2>1, SkipSound
    <2> QED
      BY <1>7, <2>2 DEF Iteration
  <1>8. CASE /\ Starts(b) # {} /\ ~(Min(Starts(b)) > 1)
             /\ Headed(b, 1) /\ Plausible(b, 1) /\ ~Complete(b, 1) /\ Later(b) = {}
    BY <1>8, StopSound DEF Iteration, Later
  <1> QED
    BY <1>2, <1>3, <1>4, <1>5, <1>6, <1>7, <1>8

(* feed() keeps its promise for every buffer, however long.                *)
LEMMA DecodeSound ==
    ASSUME NEW b \in Seq(Byte)
    PROVE  Sound(b, Decode[b])
  <1> DEFINE T == {n \in Nat : \E c \in Seq(Byte) : Len(c) = n /\ ~Sound(c, Decode[c])}
  <1> SUFFICES ASSUME Len(b) \in T PROVE FALSE
    OBVIOUS
  <1>1. PICK n \in T : \A j \in T : n <= j
    BY LeastNumber, T \in SUBSET Nat, T # {}
  <1>2. PICK c \in Seq(Byte) : Len(c) = n /\ ~Sound(c, Decode[c])
    BY <1>1
  <1>3. ASSUME NEW s \in Seq(Byte), Len(s) < Len(c) PROVE Sound(s, Decode[s])
    <2>1. Len(s) \notin T /\ Len(s) \in Nat
      BY <1>1, <1>2, <1>3
    <2> QED
      BY <2>1
  <1>4. Sound(c, Iteration(Decode, c))
    BY <1>3, IterationSound
  <1> QED
    BY <1>2, <1>4, DecodeDefined

-----------------------------------------------------------------------------
(* Bytes that are cut at another place.                                    *)

(* The bytes of a concatenation.                                           *)
LEMMA ConcatAt ==
    ASSUME NEW p \in Seq(Byte), NEW x \in Seq(Byte)
    PROVE  /\ p \o x \in Seq(Byte) /\ Len(p \o x) = Len(p) + Len(x)
           /\ Len(p) \in Nat /\ Len(x) \in Nat
           /\ \A i \in 1..Len(p) : (p \o x)[i] = p[i]
           /\ \A i \in 1..Len(x) : (p \o x)[Len(p) + i] = x[i]
  <1>1. /\ p \o x \in Seq(Byte) /\ Len(p \o x) = Len(p) + Len(x)
        /\ Len(p) \in Nat /\ Len(x) \in Nat
        /\ \A i \in 1..(Len(p) + Len(x)) :
               (p \o x)[i] = IF i <= Len(p) THEN p[i] ELSE x[i - Len(p)]
    BY ConcatProperties
  <1>2. \A i \in 1..Len(x) : /\ Len(p) + i \in 1..(Len(p) + Len(x))
                             /\ ~(Len(p) + i <= Len(p)) /\ (Len(p) + i) - Len(p) = i
    BY <1>1
  <1>3. \A i \in 1..Len(x) : (p \o x)[Len(p) + i] = x[i]
    BY <1>1, <1>2
  <1> QED
    BY <1>1, <1>3

(* What follows the same bytes is the same.                                *)
LEMMA CancelLeft ==
    ASSUME NEW p \in Seq(Byte), NEW u \in Seq(Byte), NEW t \in Seq(Byte),
           p \o u = p \o t
    PROVE  u = t
  <1>1. Len(u) = Len(t)
    BY ConcatAt
  <1>2. \A i \in 1..Len(u) : (p \o u)[Len(p) + i] = u[i]
    BY ConcatAt
  <1>3. \A i \in 1..Len(u) : (p \o t)[Len(p) + i] = t[i]
    BY <1>1, ConcatAt
  <1> QED
    BY <1>1, <1>2, <1>3, SeqEqual

(* Cutting a concatenation at another place.                               *)
SameBytes(a, c, p, t) == a \o c = p \o t /\ Len(p) <= Len(a)
Cut(a, c, p, t, x) ==
    /\ x \in Seq(Byte) /\ Len(x) = Len(a) - Len(p)
    /\ a = p \o x /\ x \o c = t

(* What a concatenation has after p, when a reaches at least as far.       *)
LEMMA CutConcat ==
    ASSUME NEW a \in Seq(Byte), NEW c \in Seq(Byte), NEW p \in Seq(Byte), NEW t \in Seq(Byte),
           SameBytes(a, c, p, t)
    PROVE  Cut(a, c, p, t, From(a, Len(p) + 1))
  <1>0. a \o c = p \o t
    BY DEF SameBytes
  <1>l. Len(p) <= Len(a)
    BY DEF SameBytes
  <1> DEFINE x == From(a, Len(p) + 1)
  <1>1. /\ x \in Seq(Byte) /\ Len(x) = Len(a) - Len(p)
        /\ \A i \in 1..Len(x) : x[i] = a[Len(p) + i]
    <2>1. /\ Len(a) \in Nat /\ Len(p) \in Nat /\ Len(p) + 1 \in Int
          /\ \A i \in (Len(p) + 1)..Len(a) : a[i] \in Byte
      BY ElementOfSeq
    <2>2. /\ SubSeq(a, Len(p) + 1, Len(a)) \in Seq(Byte)
          /\ Len(SubSeq(a, Len(p) + 1, Len(a)))
             = IF Len(p) + 1 <= Len(a) THEN Len(a) - (Len(p) + 1) + 1 ELSE 0
          /\ \A i \in 1..(Len(a) - (Len(p) + 1) + 1) :
                 SubSeq(a, Len(p) + 1, Len(a))[i] = a[(Len(p) + 1) + i - 1]
      BY <2>1, SubSeqProperties
    <2>3. Len(x) = Len(a) - Len(p)
      BY <1>l, <2>1, <2>2 DEF From
    <2>4. \A i \in 1..Len(x) : x[i] = a[Len(p) + i]
      BY <2>1, <2>2, <2>3 DEF From
    <2> QED
      BY <2>2, <2>3, <2>4 DEF From
  <1> HIDE DEF x
  <1>2. \A i \in 1..Len(p) : a[i] = p[i]
    <2>1. \A i \in 1..Len(p) : (a \o c)[i] = a[i] /\ (p \o t)[i] = p[i]
      BY <1>l, ConcatProperties
    <2> QED
      BY <1>0, <2>1
  <1>3. a = p \o x
    <2>1. /\ p \o x \in Seq(Byte) /\ Len(p \o x) = Len(a)
          /\ \A i \in 1..Len(a) :
                 (p \o x)[i] = IF i <= Len(p) THEN p[i] ELSE x[i - Len(p)]
      BY <1>l, <1>1, ConcatProperties
    <2>2. \A i \in 1..Len(a) : i > Len(p) => i - Len(p) \in 1..Len(x)
      BY <1>l, <1>1
    <2>3. \A i \in 1..Len(a) : (p \o x)[i] = a[i]
      BY <1>l, <1>1, <1>2, <2>1, <2>2
    <2> QED
      BY <2>1, <2>3, SeqEqual
  <1>4. p \o (x \o c) = p \o t
    <2>1. (p \o x) \o c = p \o (x \o c)
      <3>1. Regroups(p, x, c)
        BY <1>1, Regroup
      <3> QED
        BY <3>1 DEF Regroups
    <2> QED
      BY <1>0, <1>3, <2>1
  <1>5. x \o c = t
    <2>1. x \o c \in Seq(Byte)
      BY <1>1
    <2> QED
      BY <1>4, <2>1, CancelLeft
  <1> QED
    BY <1>l, <1>1, <1>3, <1>5 DEF x, Cut

(* Where prefixes start in a concatenation.                                *)
LEMMA StartsOfConcat ==
    ASSUME NEW p \in Seq(Byte), NEW x \in Seq(Byte)
    PROVE  /\ Starts(p) \subseteq Starts(p \o x)
           /\ \A i \in Starts(x) : Len(p) + i \in Starts(p \o x)
           /\ \A i \in Starts(p \o x) : i < Len(p) => i \in Starts(p)
           /\ \A i \in Starts(p \o x) : i > Len(p) => i - Len(p) \in Starts(x)
           /\ Len(p) \in Starts(p \o x) => x # <<>> /\ x[1] = Second
  <1>1. /\ p \o x \in Seq(Byte) /\ Len(p \o x) = Len(p) + Len(x)
        /\ Len(p) \in Nat /\ Len(x) \in Nat
        /\ \A i \in 1..Len(p) : (p \o x)[i] = p[i]
        /\ \A i \in 1..Len(x) : (p \o x)[Len(p) + i] = x[i]
    BY ConcatAt
  <1>2. Starts(p) \subseteq Starts(p \o x)
    BY <1>1 DEF Starts
  <1>3. ASSUME NEW i \in Starts(x) PROVE Len(p) + i \in Starts(p \o x)
    <2>1. i \in 1..(Len(x) - 1) /\ i + 1 \in 1..Len(x) /\ i \in 1..Len(x)
          /\ x[i] = First /\ x[i + 1] = Second
      BY <1>1, <1>3 DEF Starts
    <2>2. (p \o x)[Len(p) + i] = First /\ (p \o x)[Len(p) + (i + 1)] = Second
      BY <1>1, <2>1
    <2>3. Len(p) + (i + 1) = (Len(p) + i) + 1
          /\ Len(p) + i \in 1..(Len(p) + Len(x) - 1)
      BY <1>1, <2>1
    <2> QED
      BY <1>1, <2>2, <2>3 DEF Starts
  <1>4. \A i \in Starts(p \o x) : i < Len(p) => i \in Starts(p)
    BY <1>1 DEF Starts
  <1>5. ASSUME NEW i \in Starts(p \o x), i > Len(p) PROVE i - Len(p) \in Starts(x)
    <2>1. i \in 1..(Len(p) + Len(x) - 1) /\ (p \o x)[i] = First
          /\ (p \o x)[i + 1] = Second
      BY <1>1 DEF Starts
    <2>2. /\ i - Len(p) \in 1..Len(x) /\ (i - Len(p)) + 1 \in 1..Len(x)
          /\ i - Len(p) \in 1..(Len(x) - 1)
          /\ Len(p) + (i - Len(p)) = i /\ Len(p) + ((i - Len(p)) + 1) = i + 1
      BY <1>1, <1>5, <2>1
    <2>3. x[i - Len(p)] = First /\ x[(i - Len(p)) + 1] = Second
      BY <1>1, <2>1, <2>2
    <2> QED
      BY <2>2, <2>3 DEF Starts
  <1>6. ASSUME Len(p) \in Starts(p \o x) PROVE x # <<>> /\ x[1] = Second
    <2>1. Len(p) \in 1..(Len(p) + Len(x) - 1) /\ (p \o x)[Len(p) + 1] = Second
      BY <1>1, <1>6 DEF Starts
    <2>2. 1 \in 1..Len(x)
      BY <1>1, <2>1
    <2> QED
      BY <1>1, <2>1, <2>2
  <1> QED
    BY <1>2, <1>3, <1>4, <1>5, <1>6

-----------------------------------------------------------------------------
(* The frames among packets.                                               *)

(* Each packet as a sequence: of itself if it is a frame.                  *)
Mark(s) == [i \in 1..Len(s) |-> IF s[i] \in Intact THEN <<s[i]>> ELSE <<>>]

(* The intact ones among packets are frames.                               *)
LEMMA MarkType ==
    ASSUME NEW s \in Seq(Seq(Byte))
    PROVE  /\ Mark(s) \in Seq(Seq(Intact)) /\ Len(Mark(s)) = Len(s)
           /\ IntactOf(s) = FlattenSeq(Mark(s)) /\ IntactOf(s) \in Seq(Intact)
  <1>1. Len(s) \in Nat /\ \A i \in 1..Len(s) :
            (IF s[i] \in Intact THEN <<s[i]>> ELSE <<>>) \in Seq(Intact)
    OBVIOUS
  <1>2. Mark(s) \in Seq(Seq(Intact)) /\ Len(Mark(s)) = Len(s)
    BY <1>1 DEF Mark
  <1>3. IntactOf(s) = FlattenSeq(Mark(s))
    BY DEF IntactOf, Mark
  <1> QED
    BY <1>2, <1>3, FlattenType

(* Packets are judged one by one.                                          *)
LEMMA MarkConcat ==
    ASSUME NEW s \in Seq(Seq(Byte)), NEW t \in Seq(Seq(Byte))
    PROVE  Mark(s \o t) = Mark(s) \o Mark(t)
  <1>1. /\ s \o t \in Seq(Seq(Byte)) /\ Len(s \o t) = Len(s) + Len(t)
        /\ Len(s) \in Nat /\ Len(t) \in Nat
        /\ \A i \in 1..(Len(s) + Len(t)) :
               (s \o t)[i] = IF i <= Len(s) THEN s[i] ELSE t[i - Len(s)]
    BY ConcatProperties
  <1>2. /\ Mark(s \o t) \in Seq(Seq(Intact)) /\ Len(Mark(s \o t)) = Len(s) + Len(t)
        /\ Mark(s) \in Seq(Seq(Intact)) /\ Len(Mark(s)) = Len(s)
        /\ Mark(t) \in Seq(Seq(Intact)) /\ Len(Mark(t)) = Len(t)
    BY <1>1, MarkType
  <1>3. /\ Mark(s) \o Mark(t) \in Seq(Seq(Intact))
        /\ Len(Mark(s) \o Mark(t)) = Len(s) + Len(t)
        /\ \A i \in 1..(Len(s) + Len(t)) :
               (Mark(s) \o Mark(t))[i]
               = IF i <= Len(s) THEN Mark(s)[i] ELSE Mark(t)[i - Len(s)]
    <2> DEFINE a == Mark(s)
               c == Mark(t)
    <2>1. /\ a \in Seq(Seq(Intact)) /\ Len(a) = Len(s)
          /\ c \in Seq(Seq(Intact)) /\ Len(c) = Len(t)
      BY <1>2
    <2> HIDE DEF a, c
    <2>2. /\ a \o c \in Seq(Seq(Intact)) /\ Len(a \o c) = Len(a) + Len(c)
          /\ \A i \in 1..(Len(a) + Len(c)) :
                 (a \o c)[i] = IF i <= Len(a) THEN a[i] ELSE c[i - Len(a)]
      BY <2>1, ConcatProperties
    <2> QED
      BY <2>1, <2>2 DEF a, c
  <1>4. ASSUME NEW i \in 1..(Len(s) + Len(t))
        PROVE  Mark(s \o t)[i] = (Mark(s) \o Mark(t))[i]
    <2>1. Mark(s \o t)[i] = IF (s \o t)[i] \in Intact THEN <<(s \o t)[i]>> ELSE <<>>
      BY <1>1 DEF Mark
    <2>2. CASE i <= Len(s)
      <3>1. Mark(s)[i] = IF s[i] \in Intact THEN <<s[i]>> ELSE <<>>
        BY <1>1, <2>2 DEF Mark
      <3> QED
        BY <1>1, <1>3, <2>1, <2>2, <3>1
    <2>3. CASE i > Len(s)
      <3>1. i - Len(s) \in 1..Len(t) /\ ~(i <= Len(s))
        BY <1>1, <2>3
      <3>2. Mark(t)[i - Len(s)]
            = IF t[i - Len(s)] \in Intact THEN <<t[i - Len(s)]>> ELSE <<>>
        BY <3>1 DEF Mark
      <3> QED
        <4>1. (s \o t)[i] = t[i - Len(s)]
          BY <1>1, <3>1
        <4>2. (Mark(s) \o Mark(t))[i] = Mark(t)[i - Len(s)]
          BY <1>3, <3>1
        <4> QED
          BY <2>1, <3>2, <4>1, <4>2
    <2>4. i <= Len(s) \/ i > Len(s)
      BY <1>1
    <2> QED
      BY <2>2, <2>3, <2>4, Zenon
  <1> QED
    BY <1>2, <1>3, <1>4, SeqEqual

(* The frames among packets that follow each other follow each other.      *)
LEMMA IntactOfConcat ==
    ASSUME NEW s \in Seq(Seq(Byte)), NEW t \in Seq(Seq(Byte))
    PROVE  IntactOf(s \o t) = IntactOf(s) \o IntactOf(t)
  <1>1. IntactOf(s \o t) = FlattenSeq(Mark(s) \o Mark(t))
    BY MarkType, MarkConcat, s \o t \in Seq(Seq(Byte))
  <1>2. Mark(s) \in Seq(Seq(Intact)) /\ Mark(t) \in Seq(Seq(Intact))
    BY MarkType
  <1>3. FlattenSeq(Mark(s) \o Mark(t)) = FlattenSeq(Mark(s)) \o FlattenSeq(Mark(t))
    BY <1>2, FlattenConcat
  <1> QED
    BY <1>1, <1>3, MarkType

(* The frames of no packet and of one.                                     *)
LEMMA IntactOfOne ==
    /\ IntactOf(<<>>) = <<>>
    /\ \A p \in Seq(Byte) :
           IntactOf(<<p>>) = IF p \in Intact THEN <<p>> ELSE <<>>
  <1>1. IntactOf(<<>>) = <<>>
    <2>1. Mark(<<>>) = <<>>
      BY DEF Mark
    <2>2. FlattenSeq(<<>>) = <<>>
      BY FlattenAppend, <<>> \in Seq(Byte), <<>> \in Seq(Seq(Byte))
    <2> QED
      BY <2>1, <2>2, MarkType, <<>> \in Seq(Seq(Byte))
  <1>2. ASSUME NEW p \in Seq(Byte)
        PROVE  IntactOf(<<p>>) = IF p \in Intact THEN <<p>> ELSE <<>>
    <2> DEFINE m == IF p \in Intact THEN <<p>> ELSE <<>>
    <2>1. m \in Seq(Intact)
      OBVIOUS
    <2>2. Mark(<<p>>) = <<m>>
      BY DEF Mark
    <2> HIDE DEF m
    <2>3. FlattenSeq(Append(<<>>, m)) = FlattenSeq(<<>>) \o m /\ FlattenSeq(<<>>) = <<>>
      BY <2>1, FlattenAppend, <<>> \in Seq(Seq(Intact))
    <2>4. FlattenSeq(<<m>>) = m
      BY <2>1, <2>3
    <2>5. IntactOf(<<p>>) = m
      BY <2>2, <2>4, MarkType, <<p>> \in Seq(Seq(Byte))
    <2> QED
      BY <2>5 DEF m
  <1> QED
    BY <1>1, <1>2

(* Packets with no bytes hold no frame; as many frames as packets means    *)
(* that every packet is one.                                               *)
LEMMA IntactOfLengths ==
    ASSUME NEW s \in Seq(Seq(Byte))
    PROVE  /\ Len(IntactOf(s)) <= Len(FlattenSeq(s))
           /\ Len(IntactOf(s)) <= Len(s)
           /\ Len(IntactOf(s)) = Len(s) => \A i \in 1..Len(s) : s[i] \in Intact
  <1> DEFINE Fits(t) == /\ Len(IntactOf(t)) <= Len(FlattenSeq(t))
                        /\ Len(IntactOf(t)) <= Len(t)
                        /\ Len(IntactOf(t)) = Len(t) => \A i \in 1..Len(t) : t[i] \in Intact
             T == {n \in Nat : \E t \in Seq(Seq(Byte)) : Len(t) = n /\ ~Fits(t)}
  <1> SUFFICES ASSUME Len(s) \in T PROVE FALSE
    OBVIOUS
  <1>1. PICK n \in T : \A j \in T : n <= j
    BY LeastNumber, T \in SUBSET Nat, T # {}
  <1>2. PICK t \in Seq(Seq(Byte)) : Len(t) = n /\ ~Fits(t)
    BY <1>1
  <1>3. t # <<>>
    <2>1. Fits(<<>>)
      <3>1. IntactOf(<<>>) = <<>> /\ FlattenSeq(<<>>) = <<>>
        BY IntactOfOne, FlattenAppend, <<>> \in Seq(Byte), <<>> \in Seq(Seq(Byte))
      <3> QED
        BY <3>1
    <2> HIDE DEF Fits
    <2> QED
      BY <1>2, <2>1
  <1>4. PICK u \in Seq(Seq(Byte)), p \in Seq(Byte) : t = Append(u, p)
    BY <1>3, SequenceEmptyOrAppend
  <1>5. /\ Len(u) \in Nat /\ Len(u) = n - 1 /\ Len(t) = Len(u) + 1
        /\ \A i \in 1..Len(u) : t[i] = u[i]
        /\ t[Len(u) + 1] = p
    BY <1>2, <1>4, AppendProperties
  <1>6. Fits(u)
    <2>1. Len(u) \notin T
      BY <1>1, <1>5
    <2> HIDE DEF Fits
    <2> QED
      BY <1>5, <2>1
  <1> DEFINE m == IF p \in Intact THEN <<p>> ELSE <<>>
  <1>7. IntactOf(t) = IntactOf(u) \o m
    <2>1. t = u \o <<p>> /\ <<p>> \in Seq(Seq(Byte))
      BY <1>4, AppendIsConcat
    <2>2. IntactOf(<<p>>) = m
      BY IntactOfOne
    <2> HIDE DEF m
    <2>3. IntactOf(u \o <<p>>) = IntactOf(u) \o IntactOf(<<p>>)
      BY <2>1, IntactOfConcat
    <2> QED
      BY <2>1, <2>2, <2>3
  <1>8. Len(IntactOf(t)) = Len(IntactOf(u)) + Len(m) /\ Len(IntactOf(u)) \in Nat
    <2> DEFINE a == IntactOf(u)
    <2>1. m \in Seq(Intact) /\ a \in Seq(Intact)
      BY MarkType
    <2> HIDE DEF m, a
    <2>2. Len(a \o m) = Len(a) + Len(m) /\ Len(a) \in Nat
      BY <2>1, ConcatProperties
    <2> QED
      BY <1>7, <2>2 DEF a
  <1>9. /\ Len(FlattenSeq(t)) = Len(FlattenSeq(u)) + Len(p)
        /\ Len(FlattenSeq(u)) \in Nat /\ Len(p) \in Nat
    <2> DEFINE a == FlattenSeq(u)
    <2>1. FlattenSeq(t) = a \o p /\ a \in Seq(Byte)
      BY <1>4, FlattenAppend, FlattenType
    <2> HIDE DEF a
    <2>2. Len(a \o p) = Len(a) + Len(p) /\ Len(a) \in Nat /\ Len(p) \in Nat
      BY <2>1, ConcatAt
    <2> QED
      BY <2>1, <2>2 DEF a
  <1>10. p \in Intact => Len(p) >= 1
    BY FrameAssumption DEF Starts
  <1>11. Len(m) = IF p \in Intact THEN 1 ELSE 0
    OBVIOUS
  <1> HIDE DEF m
  <1>12. Len(IntactOf(t)) <= Len(FlattenSeq(t)) /\ Len(IntactOf(t)) <= Len(t)
    BY <1>5, <1>6, <1>8, <1>9, <1>10, <1>11
  <1>13. ASSUME Len(IntactOf(t)) = Len(t), NEW i \in 1..Len(t) PROVE t[i] \in Intact
    <2>1. p \in Intact /\ Len(IntactOf(u)) = Len(u)
      BY <1>5, <1>6, <1>8, <1>11, <1>13
    <2>2. \A k \in 1..Len(u) : u[k] \in Intact
      <3>1. Fits(u) => (Len(IntactOf(u)) = Len(u) => \A k \in 1..Len(u) : u[k] \in Intact)
        BY Zenon
      <3> HIDE DEF Fits
      <3> QED
        BY <1>6, <2>1, <3>1
    <2>3. i \in 1..Len(u) \/ i = Len(u) + 1
      <3>1. \A k \in Nat : \A j \in 1..(k + 1) : j \in 1..k \/ j = k + 1
        OBVIOUS
      <3>2. Len(u) \in Nat /\ i \in 1..(Len(u) + 1)
        BY <1>5
      <3> HIDE DEF T, Fits
      <3> QED
        BY <3>1, <3>2
    <2> QED
      BY <1>5, <2>1, <2>2, <2>3
  <1> QED
    BY <1>2, <1>12, <1>13

-----------------------------------------------------------------------------
(* A stream of frames and recoverable damage, cut anywhere.                *)

(* What an iteration passes on of the iterations after it.                 *)
LEMMA PassedOn ==
    ASSUME NEW r \in Results, NEW n \in Nat
    PROVE  /\ Skip(n, r).frames = r.frames /\ Skip(n, r).rest = r.rest
           /\ Malformed(n, r).frames = r.frames /\ Malformed(n, r).rest = r.rest
           /\ \A f : /\ Emit(f, r).frames = <<f>> \o r.frames
                     /\ Emit(f, r).rest = r.rest
                     /\ Emit(f, r).discarded = r.discarded
                     /\ Emit(f, r).malformed = r.malformed
  BY DEF Skip, Drop, Malformed, Emit, Results

(* The result of an iteration that ends the loop.                          *)
LEMMA Stopped ==
    /\ \A b : /\ Stop(b).frames = <<>> /\ Stop(b).rest = b
              /\ Stop(b).discarded = 0 /\ Stop(b).malformed = 0
    /\ \A b, n : /\ Skip(n, Stop(b)).frames = <<>> /\ Skip(n, Stop(b)).rest = b
                 /\ Skip(n, Stop(b)).discarded = 0 + n /\ Skip(n, Stop(b)).malformed = 0
  BY DEF Stop, Skip, Drop

(* The packets that the decoder always gets over.                          *)
Good == Intact \cup {p \in Damage : Recoverable(p)}

(* A packet the decoder gets over: a frame, noise, or a wrong length.      *)
LEMMA Packet ==
    ASSUME NEW p \in Good
    PROVE  /\ p \in Seq(Byte)
           /\ \/ p \in Intact /\ 1 \in Starts(p) /\ Headed(p, 1) /\ Plausible(p, 1)
                 /\ Len(p) = Declared(p, 1)
              \/ p \notin Intact /\ p \in Damage /\ Starts(p) = {}
              \/ p \notin Intact /\ Starts(p) = {1} /\ Headed(p, 1) /\ ~Plausible(p, 1)
  <1>1. CASE p \in Intact
    BY <1>1, FrameAssumption
  <1>2. CASE p \notin Intact
    <2>1. p \in Damage /\ Recoverable(p)
      BY <1>2 DEF Good
    <2> QED
      BY <1>2, <2>1, StreamAssumption DEF Recoverable
  <1> QED
    BY <1>1, <1>2

(* One packet flattened is the packet.                                     *)
LEMMA FlattenOne ==
    ASSUME NEW S, NEW f \in Seq(S)
    PROVE  FlattenSeq(<<f>>) = f
  <1>1. FlattenSeq(Append(<<>>, f)) = FlattenSeq(<<>>) \o f /\ FlattenSeq(<<>>) = <<>>
    BY FlattenAppend, <<>> \in Seq(Seq(S))
  <1>2. Append(<<>>, f) = <<f>>
    OBVIOUS
  <1>3. <<>> \o f = f
    BY ConcatEmptySeq
  <1> QED
    BY <1>1, <1>2, <1>3, Zenon

(* The bytes of packets.                                                   *)
LEMMA Packets ==
    ASSUME NEW hs \in Seq(Good)
    PROVE  hs \in Seq(Seq(Byte)) /\ FlattenSeq(hs) \in Seq(Byte)
  <1>1. Good \subseteq Seq(Byte)
    BY Packet
  <1>2. hs \in Seq(Seq(Byte))
    BY <1>1, SeqMonotonic
  <1> QED
    BY <1>2, FlattenType

(* The first packet and the others.                                        *)
LEMMA FirstPacket ==
    ASSUME NEW hs \in Seq(Good), hs # <<>>
    PROVE  /\ Head(hs) \in Good /\ Tail(hs) \in Seq(Good)
           /\ hs = <<Head(hs)>> \o Tail(hs) /\ <<Head(hs)>> \in Seq(Good)
           /\ Len(hs) \in Nat /\ Len(hs) > 0 /\ Len(Tail(hs)) = Len(hs) - 1
           /\ FlattenSeq(hs) = Head(hs) \o FlattenSeq(Tail(hs))
           /\ hs[1] = Head(hs) /\ \A i \in 1..Len(Tail(hs)) : Tail(hs)[i] = hs[i + 1]
  <1> DEFINE p == Head(hs)
             t == Tail(hs)
  <1>1. /\ p \in Good /\ t \in Seq(Good) /\ Len(t) = Len(hs) - 1
        /\ \A i \in 1..Len(t) : t[i] = hs[i + 1]
        /\ hs[1] = p /\ Len(hs) \in Nat /\ Len(hs) > 0
    BY HeadTailProperties
  <1> HIDE DEF p, t
  <1>2. <<p>> \in Seq(Good)
    BY <1>1
  <1>3. hs = <<p>> \o t
    <2>1. /\ <<p>> \o t \in Seq(Good) /\ Len(<<p>>) = 1 /\ Len(<<p>> \o t) = 1 + Len(t)
          /\ \A i \in 1..(1 + Len(t)) :
                 (<<p>> \o t)[i] = IF i <= 1 THEN <<p>>[i] ELSE t[i - 1]
      BY <1>1, <1>2, ConcatProperties
    <2>2. ASSUME NEW i \in 1..Len(hs) PROVE (<<p>> \o t)[i] = hs[i]
      <3>1. CASE i = 1
        BY <1>1, <2>1, <3>1
      <3>2. CASE i # 1
        <4>1. i - 1 \in 1..Len(t) /\ (i - 1) + 1 = i /\ ~(i <= 1) /\ i \in 1..(1 + Len(t))
          BY <1>1, <3>2
        <4>2. t[i - 1] = hs[i]
          BY <1>1, <4>1
        <4> QED
          BY <2>1, <4>1, <4>2
      <3> QED
        BY <3>1, <3>2
    <2> DEFINE c == <<p>> \o t
    <2>3. c \in Seq(Good) /\ Len(c) = Len(hs) /\ \A i \in 1..Len(hs) : c[i] = hs[i]
      BY <1>1, <2>1, <2>2
    <2> HIDE DEF c
    <2>4. c = hs
      BY <2>3, SeqEqual
    <2> QED
      BY <2>4 DEF c
  <1>4. FlattenSeq(hs) = p \o FlattenSeq(t)
    <2>1. <<p>> \in Seq(Seq(Byte)) /\ t \in Seq(Seq(Byte))
      BY <1>1, <1>2, Packets
    <2>2. FlattenSeq(<<p>> \o t) = FlattenSeq(<<p>>) \o FlattenSeq(t)
      <3> DEFINE o == <<p>>
      <3>1. o \in Seq(Seq(Byte))
        BY <2>1
      <3> HIDE DEF o
      <3>2. FlattenSeq(o \o t) = FlattenSeq(o) \o FlattenSeq(t)
        BY <2>1, <3>1, FlattenConcat
      <3> QED
        BY <3>2 DEF o
    <2>3. FlattenSeq(<<p>>) = p
      BY <1>1, Packet, FlattenOne
    <2> QED
      BY <1>3, <2>2, <2>3
  <1> QED
    BY <1>1, <1>2, <1>3, <1>4 DEF p, t

(* b is buffered and w under way: the end of a damaged packet, j, with the *)
(* packets hs.                                                             *)
Pending(b, w, j, hs) ==
    /\ b \in Seq(Byte) /\ w \in Seq(Byte) /\ j \in Seq(Byte) /\ hs \in Seq(Good)
    /\ Starts(j) = {}
    /\ b \o w = j \o FlattenSeq(hs)
(* Frames only, from the start of one.                                     *)
Clean(j, hs) == j = <<>> /\ \A i \in 1..Len(hs) : hs[i] \in Intact

(* The result r passes packets gs of hs and returns their frames; the      *)
(* rest, with w, is the end of a damaged packet, l, and the packets ks.    *)
Resumes(w, j, hs, r) ==
    \E gs, ks \in Seq(Good), l \in Seq(Byte) :
        /\ hs = gs \o ks /\ r.frames = IntactOf(gs)
        /\ Pending(r.rest, w, l, ks)
        /\ w = <<>> => IntactOf(ks) = <<>>
        /\ Clean(j, hs) => r.discarded = 0 /\ r.malformed = 0 /\ l = <<>>

(* No packet is passed.                                                    *)
LEMMA NoneTaken ==
    ASSUME NEW hs \in Seq(Good)
    PROVE  <<>> \in Seq(Good) /\ hs = <<>> \o hs /\ IntactOf(<<>>) = <<>>
  BY IntactOfOne

(* Nothing is taken: the buffer waits.                                     *)
LEMMA Waits ==
    ASSUME NEW b, NEW w, NEW hs, NEW r, Pending(b, w, <<>>, hs),
           r.frames = <<>>, r.rest = b, r.discarded = 0, r.malformed = 0,
           w = <<>> => IntactOf(hs) = <<>>
    PROVE  Resumes(w, <<>>, hs, r)
  <1>1. hs \in Seq(Good)
    BY DEF Pending
  <1>2. /\ <<>> \in Seq(Good) /\ hs = <<>> \o hs /\ r.frames = IntactOf(<<>>)
        /\ <<>> \in Seq(Byte)
    BY <1>1, NoneTaken
  <1> QED
    BY <1>1, <1>2 DEF Resumes

(* The end of a buffer is the start of what follows it.                    *)
LEMMA SplitPrefixStarts ==
    ASSUME NEW b \in Seq(Byte), NEW x \in Seq(Byte), Starts(b \o x) = {}
    PROVE  /\ Starts(b) = {} /\ Starts(x) = {}
           /\ Retained(b) \in Seq(Byte) /\ Len(Retained(b)) <= Len(b)
           /\ Starts(Retained(b) \o x) = {}
           /\ \E y \in Seq(Byte) : b = y \o Retained(b)
  <1>1. Starts(b) = {} /\ Starts(x) = {}
    BY StartsOfConcat
  <1>2. CASE ~(b # <<>> /\ Last(b) = First)
    <2>1. Retained(b) = <<>>
      BY <1>2 DEF Retained, SplitPrefix
    <2> QED
      BY <1>1, <2>1
  <1>3. CASE b # <<>> /\ Last(b) = First
    <2>1. Retained(b) = <<First>> /\ Retained(b) \in Seq(Byte) /\ Len(b) >= 1
          /\ Len(Retained(b)) = 1
      BY <1>3, ByteAssumption DEF Retained, SplitPrefix
    <2> DEFINE y == SubSeq(b, 1, Len(b) - 1)
    <2>2. y \in Seq(Byte) /\ Len(y) = Len(b) - 1 /\ \A i \in 1..Len(y) : y[i] = b[i]
      BY <2>1
    <2>3. b[Len(b)] = First
      BY <1>3 DEF Last
    <2> HIDE DEF y
    <2>4. b = y \o <<First>>
      <3>1. /\ y \o <<First>> \in Seq(Byte) /\ Len(y \o <<First>>) = Len(b)
            /\ \A i \in 1..Len(b) : (y \o <<First>>)[i] = b[i]
        BY <2>1, <2>2, <2>3
      <3> QED
        BY <3>1, SeqEqual
    <2>5. b \o x = y \o (<<First>> \o x)
      BY <2>1, <2>2, <2>4, Regroup DEF Regroups
    <2>6. <<First>> \o x \in Seq(Byte)
      BY <2>1
    <2>7. Starts(<<First>> \o x) = {}
      <3> DEFINE z == <<First>> \o x
      <3>1. z \in Seq(Byte) /\ Starts(y \o z) = {}
        BY <2>5, <2>6
      <3> HIDE DEF z
      <3>2. Starts(z) = {}
        BY <2>2, <3>1, StartsOfConcat
      <3> QED
        BY <3>2 DEF z
    <2> QED
      BY <1>1, <2>1, <2>2, <2>4, <2>7
  <1> QED
    BY <1>2, <1>3

(* A buffer without a prefix is dropped, but for a split prefix.           *)
LEMMA NoStart ==
    ASSUME NEW b \in Seq(Byte), Starts(b) = {}
    PROVE  /\ Decode[b].frames = <<>> /\ Decode[b].rest = Retained(b)
           /\ Decode[b].discarded = Len(b) - Len(Retained(b)) /\ Decode[b].malformed = 0
  <1>1. Decode[b] = Skip(Len(b) - Len(Retained(b)), Stop(Retained(b)))
    BY DecodeDefined DEF Iteration
  <1>2. Len(b) \in Nat /\ Len(Retained(b)) \in Nat
    BY ByteAssumption DEF Retained, SplitPrefix
  <1> QED
    BY <1>1, <1>2, Stopped

(* x of j is under way, before the bytes t of the packets.                 *)
Within(b, w, j, t, x) ==
    /\ x \in Seq(Byte) /\ Len(x) = Len(j) - Len(b) /\ j = b \o x
    /\ \A d \in Seq(Byte) : d \o w = (d \o x) \o t
    /\ w = <<>> => t = <<>>

(* The buffer ends within the end of the damage, j.                        *)
LEMMA EndsWithin ==
    ASSUME NEW b \in Seq(Byte), NEW w \in Seq(Byte), NEW j \in Seq(Byte),
           NEW t \in Seq(Byte), SameBytes(j, t, b, w)
    PROVE  Within(b, w, j, t, From(j, Len(b) + 1))
  <1> DEFINE x == From(j, Len(b) + 1)
  <1>1. Cut(j, t, b, w, x)
    BY CutConcat
  <1> HIDE DEF x
  <1>2. x \in Seq(Byte) /\ Len(x) = Len(j) - Len(b) /\ j = b \o x /\ x \o t = w
    BY <1>1 DEF Cut
  <1>3. ASSUME NEW d \in Seq(Byte) PROVE d \o w = (d \o x) \o t
    <2>1. Regroups(d, x, t)
      BY <1>2, Regroup
    <2> QED
      BY <1>2, <2>1 DEF Regroups
  <1>4. w = <<>> => t = <<>>
    <2>1. x \o t = <<>> => t = <<>>
      BY <1>2, ConcatEqualIffEmpty
    <2> QED
      BY <1>2, <2>1
  <1> QED
    BY <1>2, <1>3, <1>4 DEF Within, x

(* The buffer ends within the damage.                                      *)
LEMMA WithinDamage ==
    ASSUME NEW b \in Seq(Byte), NEW w \in Seq(Byte), NEW j \in Seq(Byte),
           NEW hs \in Seq(Good), Pending(b, w, j, hs), Len(b) <= Len(j)
    PROVE  Resumes(w, j, hs, Decode[b])
  <1>1. /\ b \in Seq(Byte) /\ w \in Seq(Byte) /\ j \in Seq(Byte) /\ hs \in Seq(Good)
        /\ Starts(j) = {} /\ b \o w = j \o FlattenSeq(hs)
    BY DEF Pending
  <1> DEFINE t == FlattenSeq(hs)
             d == Retained(b)
  <1>2. t \in Seq(Byte)
    BY <1>1, Packets
  <1>a. SameBytes(j, t, b, w)
    BY <1>1 DEF SameBytes
  <1> DEFINE x == From(j, Len(b) + 1)
  <1> HIDE DEF t, d
  <1>b. Within(b, w, j, t, x)
    BY <1>2, <1>a, EndsWithin
  <1> HIDE DEF x
  <1>3. /\ x \in Seq(Byte) /\ Len(x) = Len(j) - Len(b) /\ j = b \o x
        /\ \A e \in Seq(Byte) : e \o w = (e \o x) \o t
        /\ w = <<>> => t = <<>>
    BY <1>b DEF Within
  <1>4. Starts(b) = {} /\ d \in Seq(Byte) /\ Len(d) <= Len(b) /\ Starts(d \o x) = {}
    BY <1>1, <1>3, SplitPrefixStarts DEF d
  <1>5. /\ Decode[b].frames = <<>> /\ Decode[b].rest = d
        /\ Decode[b].discarded = Len(b) - Len(d) /\ Decode[b].malformed = 0
    BY <1>4, NoStart DEF d
  <1>6. d \o x \in Seq(Byte) /\ d \o w = (d \o x) \o t
    <2>1. d \o w = (d \o x) \o t
      BY <1>3, <1>4, Zenon
    <2>2. d \o x \in Seq(Byte)
      BY <1>3, <1>4, ConcatProperties
    <2> QED
      BY <2>1, <2>2
  <1>7. Pending(Decode[b].rest, w, d \o x, hs)
    BY <1>1, <1>4, <1>5, <1>6 DEF Pending, t
  <1>8. w = <<>> => IntactOf(hs) = <<>>
    <2> SUFFICES ASSUME w = <<>> PROVE IntactOf(hs) = <<>>
      OBVIOUS
    <2>1. Len(t) = 0
      BY <1>3
    <2>2. Len(IntactOf(hs)) <= 0 /\ IntactOf(hs) \in Seq(Intact)
      BY <1>1, <2>1, Packets, IntactOfLengths, MarkType DEF t
    <2> QED
      BY <2>2, EmptySeq
  <1>9. Clean(j, hs) => /\ Decode[b].discarded = 0 /\ Decode[b].malformed = 0
                        /\ d \o x = <<>>
    <2> SUFFICES ASSUME j = <<>>
                 PROVE  Decode[b].discarded = 0 /\ d \o x = <<>>
      BY <1>5 DEF Clean
    <2>1. Len(j) = 0
      OBVIOUS
    <2>2. Len(b) = 0 /\ Len(x) = 0 /\ Len(d) = 0
      BY <1>1, <1>3, <1>4, <2>1
    <2>3. d = <<>> /\ x = <<>>
      BY <1>3, <1>4, <2>2, EmptySeq
    <2> QED
      BY <1>5, <2>2, <2>3
  <1>10. /\ <<>> \in Seq(Good) /\ hs = <<>> \o hs /\ Decode[b].frames = IntactOf(<<>>)
    BY <1>1, <1>5, NoneTaken
  <1> QED
    BY <1>1, <1>6, <1>7, <1>8, <1>9, <1>10 DEF Resumes

(* The packets after the first are gs and ks.                              *)
Taken(hs, gs, ks) == Tail(hs) = gs \o ks

(* The first packet is passed, and gs of the others.                       *)
LEMMA TakeFirst ==
    ASSUME NEW hs \in Seq(Good), hs # <<>>, NEW gs \in Seq(Good), NEW ks \in Seq(Good),
           Taken(hs, gs, ks)
    PROVE  LET fs == <<Head(hs)>> \o gs IN
           /\ fs \in Seq(Good) /\ hs = fs \o ks
           /\ IntactOf(fs) = IF Head(hs) \in Intact THEN <<Head(hs)>> \o IntactOf(gs)
                             ELSE IntactOf(gs)
  <1> DEFINE p == Head(hs)
             o == <<p>>
  <1>1. /\ p \in Good /\ o \in Seq(Good) /\ hs = o \o Tail(hs)
    BY FirstPacket
  <1>2. p \in Seq(Byte) /\ o \in Seq(Seq(Byte)) /\ gs \in Seq(Seq(Byte))
    BY <1>1, Packet, Packets
  <1>3. IntactOf(o) = IF p \in Intact THEN o ELSE <<>>
    BY <1>2, IntactOfOne
  <1> HIDE DEF o
  <1>4. o \o gs \in Seq(Good) /\ (o \o gs) \o ks = o \o (gs \o ks)
    <2>1. o \o gs \in Seq(Good)
      BY <1>1, ConcatProperties
    <2>2. Regroups(o, gs, ks)
      BY <1>1, Regroup
    <2> QED
      BY <2>1, <2>2 DEF Regroups
  <1>5. hs = (o \o gs) \o ks
    BY <1>1, <1>4 DEF Taken
  <1>6. IntactOf(o \o gs) = IntactOf(o) \o IntactOf(gs)
    BY <1>2, IntactOfConcat
  <1>7. IntactOf(gs) \in Seq(Intact) /\ <<>> \o IntactOf(gs) = IntactOf(gs)
    BY <1>2, MarkType, ConcatEmptySeq
  <1>8. IntactOf(o \o gs) = IF p \in Intact THEN o \o IntactOf(gs) ELSE IntactOf(gs)
    BY <1>3, <1>6, <1>7
  <1> QED
    BY <1>4, <1>5, <1>8 DEF o

(* Noise that another packet's noise continues.                            *)
LEMMA NoiseJoins ==
    ASSUME NEW b \in Seq(Byte), NEW w \in Seq(Byte), NEW j \in Seq(Byte),
           NEW hs \in Seq(Good), Pending(b, w, j, hs), hs # <<>>,
           Head(hs) \notin Intact, Head(hs) \in Damage, Starts(Head(hs)) = {}, NoSplitStart
    PROVE  Pending(b, w, j \o Head(hs), Tail(hs))
  <1> DEFINE p == Head(hs)
             t == FlattenSeq(Tail(hs))
  <1>1. /\ p \in Seq(Byte) /\ Tail(hs) \in Seq(Good) /\ FlattenSeq(hs) = p \o t
        /\ t \in Seq(Byte)
    BY FirstPacket, Packet, Packets
  <1>2. p \notin Intact /\ p \in Damage /\ Starts(p) = {}
    OBVIOUS
  <1> HIDE DEF p, t
  <1>3. Starts(j) = {} /\ b \o w = j \o (p \o t)
    BY <1>1 DEF Pending
  <1>4. Regroups(j, p, t)
    BY <1>1, Regroup
  <1>5. Starts(j \o p) = {}
    <2> SUFFICES ASSUME NEW i \in Starts(j \o p) PROVE FALSE
      OBVIOUS
    <2>1. i \in Nat /\ Len(j) \in Nat
      BY DEF Starts
    <2>2. ~(i < Len(j))
      BY <1>1, <1>3, StartsOfConcat
    <2>3. ~(i > Len(j))
      BY <1>1, <1>2, StartsOfConcat
    <2>4. i = Len(j)
      BY <2>1, <2>2, <2>3
    <2>5. p # <<>> /\ p[1] = Second
      BY <1>1, <2>4, StartsOfConcat
    <2> QED
      BY <1>2, <2>5 DEF NoSplitStart
  <1>6. j \o p \in Seq(Byte) /\ b \o w = (j \o p) \o t
    BY <1>1, <1>3, <1>4 DEF Regroups
  <1> QED
    BY <1>1, <1>5, <1>6 DEF Pending, p, t

(* Noise that is passed is a packet passed, and returns no frame.          *)
LEMMA NoiseResumes ==
    ASSUME NEW w \in Seq(Byte), NEW j \in Seq(Byte), NEW k,
           NEW hs \in Seq(Good), hs # <<>>, Head(hs) \notin Intact, NEW r,
           Resumes(w, k, Tail(hs), r)
    PROVE  Resumes(w, j, hs, r)
  <1>1. PICK gs, ks \in Seq(Good), l \in Seq(Byte) :
            /\ Tail(hs) = gs \o ks /\ r.frames = IntactOf(gs)
            /\ Pending(r.rest, w, l, ks)
            /\ w = <<>> => IntactOf(ks) = <<>>
    BY DEF Resumes
  <1>2. Taken(hs, gs, ks)
    BY <1>1 DEF Taken
  <1> DEFINE fs == <<Head(hs)>> \o gs
  <1>3. fs \in Seq(Good) /\ hs = fs \o ks /\ IntactOf(fs) = IntactOf(gs)
    BY <1>2, TakeFirst
  <1> HIDE DEF fs
  <1>4. ~Clean(j, hs)
    <2>1. hs[1] = Head(hs) /\ 1 \in 1..Len(hs)
      BY FirstPacket
    <2> QED
      BY <2>1 DEF Clean
  <1> QED
    BY <1>1, <1>3, <1>4 DEF Resumes

(* Only damage is skipped.                                                 *)
LEMMA SkippedResumes ==
    ASSUME NEW w, NEW j, NEW k, NEW hs, NEW q, NEW r, Resumes(w, k, hs, q),
           r.frames = q.frames, r.rest = q.rest, ~Clean(j, hs)
    PROVE  Resumes(w, j, hs, r)
  BY DEF Resumes

(* What follows the damage in the buffer.                                  *)
Follows(b, w, j, hs, x) ==
    /\ x \in Seq(Byte) /\ b = j \o x /\ Len(b) = Len(j) + Len(x) /\ Len(x) >= 1
    /\ Pending(x, w, <<>>, hs)
    /\ hs # <<>>

(* The buffer reaches beyond the end of the damage.                        *)
LEMMA Remaining ==
    ASSUME NEW b \in Seq(Byte), NEW w \in Seq(Byte), NEW j \in Seq(Byte),
           NEW hs \in Seq(Good), Pending(b, w, j, hs), Len(b) > Len(j)
    PROVE  Follows(b, w, j, hs, From(b, Len(j) + 1))
  <1> DEFINE t == FlattenSeq(hs)
             x == From(b, Len(j) + 1)
  <1>1. t \in Seq(Byte)
    BY Packets
  <1>2. Len(b) \in Nat /\ Len(j) \in Nat
    OBVIOUS
  <1>3. SameBytes(b, w, j, t)
    BY <1>2 DEF Pending, SameBytes
  <1> HIDE DEF t
  <1>4. Cut(b, w, j, t, x)
    BY <1>1, <1>3, CutConcat
  <1> HIDE DEF x
  <1>5. /\ x \in Seq(Byte) /\ Len(x) = Len(b) - Len(j) /\ b = j \o x /\ x \o w = t
    BY <1>4 DEF Cut
  <1>6. Len(b) = Len(j) + Len(x) /\ Len(x) >= 1
    BY <1>2, <1>5
  <1>7. hs # <<>>
    <2> SUFFICES ASSUME hs = <<>> PROVE FALSE
      OBVIOUS
    <2>1. t = <<>>
      BY FlattenAppend, <<>> \in Seq(Byte), <<>> \in Seq(Seq(Byte)) DEF t
    <2>2. x = <<>>
      <3>1. x \o w = <<>> => x = <<>>
        BY <1>5, ConcatEqualIffEmpty
      <3> QED
        BY <1>5, <2>1, <3>1
    <2> QED
      BY <1>6, <2>2
  <1>8. Pending(x, w, <<>>, hs)
    <2>1. Starts(<<>>) = {}
      BY DEF Starts
    <2>2. <<>> \o t = t /\ <<>> \in Seq(Byte)
      BY <1>1
    <2> QED
      BY <1>5, <2>1, <2>2 DEF Pending, t
  <1> QED
    BY <1>5, <1>6, <1>7, <1>8 DEF Follows, x

(* A buffer that starts with a packet's prefix.                            *)
AtPrefix(b, w, hs) ==
    /\ Pending(b, w, <<>>, hs) /\ hs # <<>> /\ Len(b) >= 1
    /\ 1 \in Starts(Head(hs)) /\ Headed(Head(hs), 1)

(* What the buffer has of the packet p, and what of it and the packets     *)
(* behind, t, is under way.                                                *)
BeginsWith(b, w, p, t) ==
    /\ p \in Seq(Byte) /\ Len(p) \in Nat /\ Len(p) >= 3 /\ Len(b) \in Nat
    /\ \A i \in 1..Len(b) : i <= Len(p) => b[i] = p[i]
    /\ p[1] = First /\ p[2] = Second /\ b[1] = First
    /\ Len(b) >= 2 => 1 \in Starts(b) /\ Starts(b) # {} /\ Min(Starts(b)) = 1
    /\ Len(b) < Len(p) => w # <<>>
    /\ t \in Seq(Byte)
    /\ b \o w = p \o t

(* A buffer at a prefix begins with the packet of that prefix.             *)
LEMMA FirstBytes ==
    ASSUME NEW b \in Seq(Byte), NEW w \in Seq(Byte), NEW hs \in Seq(Good),
           AtPrefix(b, w, hs)
    PROVE  BeginsWith(b, w, Head(hs), FlattenSeq(Tail(hs)))
  <1> DEFINE p == Head(hs)
             t == FlattenSeq(Tail(hs))
  <1>1. /\ p \in Seq(Byte) /\ t \in Seq(Byte) /\ FlattenSeq(hs) = p \o t
        /\ 1 \in Starts(p) /\ Headed(p, 1)
    BY FirstPacket, Packet, Packets DEF AtPrefix
  <1>2. b \o w = p \o t
    <2>1. b \o w = <<>> \o (p \o t)
      BY <1>1 DEF AtPrefix, Pending
    <2> DEFINE c == p \o t
    <2>2. c \in Seq(Byte) /\ b \o w = <<>> \o c
      BY <1>1, <2>1
    <2> HIDE DEF c
    <2>3. <<>> \o c = c
      BY <2>2, ConcatEmptySeq
    <2> QED
      BY <2>2, <2>3 DEF c
  <1>3. Len(b) >= 1
    BY DEF AtPrefix
  <1> HIDE DEF p, t
  <1>4. Len(p) \in Nat /\ Len(p) >= 3 /\ Len(b) \in Nat /\ p[1] = First /\ p[2] = Second
    BY <1>1 DEF Starts, Headed, Header
  <1>5. \A i \in 1..Len(b) : i <= Len(p) => b[i] = p[i]
    <2>1. \A i \in 1..Len(b) : (b \o w)[i] = b[i]
      BY ConcatAt
    <2>2. \A i \in 1..Len(p) : (p \o t)[i] = p[i]
      BY <1>1, ConcatAt
    <2>3. ASSUME NEW i \in 1..Len(b), i <= Len(p) PROVE b[i] = p[i]
      <3>1. i \in 1..Len(p)
        BY <1>4, <2>3
      <3> QED
        BY <1>2, <2>1, <2>2, <3>1
    <2> QED
      BY <2>3
  <1>6. b[1] = First
    BY <1>3, <1>4, <1>5
  <1>7. ASSUME Len(b) >= 2
        PROVE  1 \in Starts(b) /\ Starts(b) # {} /\ Min(Starts(b)) = 1
    <2>1. b[2] = Second
      BY <1>4, <1>5, <1>7
    <2>2. 1 \in Starts(b)
      BY <1>4, <1>6, <1>7, <2>1 DEF Starts
    <2>3. Min(Starts(b)) \in 1..(Len(b) - 1) /\ Min(Starts(b)) <= 1
      BY <2>2, FirstStart
    <2> QED
      BY <1>4, <2>2, <2>3
  <1>8. ASSUME Len(b) < Len(p), w = <<>> PROVE FALSE
    <2>1. Len(b \o w) = Len(b)
      BY <1>8
    <2>2. Len(p \o t) = Len(p) + Len(t) /\ Len(t) \in Nat
      BY <1>1, ConcatAt
    <2> QED
      BY <1>2, <1>4, <1>8, <2>1, <2>2
  <1> QED
    BY <1>1, <1>2, <1>4, <1>5, <1>6, <1>7, <1>8 DEF p, t, BeginsWith

(* Fewer bytes than a header wait.                                         *)
LEMMA NoHeader ==
    ASSUME NEW b \in Seq(Byte), NEW w \in Seq(Byte), NEW hs \in Seq(Good),
           AtPrefix(b, w, hs), Len(b) < 3
    PROVE  Resumes(w, <<>>, hs, Decode[b])
  <1>1. /\ Len(b) \in 1..2 /\ b[1] = First
        /\ Len(b) >= 2 => Starts(b) # {} /\ Min(Starts(b)) = 1
        /\ w # <<>>
    <2>1. /\ Len(Head(hs)) \in Nat /\ Len(Head(hs)) >= 3 /\ Len(b) \in Nat
          /\ b[1] = First
          /\ Len(b) >= 2 => Starts(b) # {} /\ Min(Starts(b)) = 1
          /\ Len(b) < Len(Head(hs)) => w # <<>>
      BY FirstBytes DEF BeginsWith
    <2>2. Len(b) >= 1 /\ Len(b) < 3
      BY DEF AtPrefix
    <2>3. Len(b) < Len(Head(hs)) /\ Len(b) \in 1..2
      <3> DEFINE m == Len(b)
                 n == Len(Head(hs))
      <3>1. m \in Nat /\ n \in Nat /\ n >= 3 /\ m >= 1 /\ m < 3
        BY <2>1, <2>2
      <3> HIDE DEF m, n
      <3>2. m < n /\ m \in 1..2
        BY <3>1
      <3> QED
        BY <3>2 DEF m, n
    <2> QED
      BY <2>1, <2>3, Zenon
  <1>2. /\ Decode[b].frames = <<>> /\ Decode[b].rest = b
        /\ Decode[b].discarded = 0 /\ Decode[b].malformed = 0
    <2>1. CASE Len(b) = 1
      <3>1. Starts(b) = {}
        BY <2>1 DEF Starts
      <3>2. b = <<First>>
        BY <1>1, <2>1
      <3>3. Retained(b) = b
        BY <1>1, <2>1, <3>2 DEF Retained, SplitPrefix, Last
      <3> QED
        BY <2>1, <3>1, <3>3, NoStart
    <2>2. CASE Len(b) = 2
      <3>1. ~Headed(b, 1)
        BY <2>2 DEF Headed, Header
      <3>2. Decode[b] = Stop(b)
        BY <1>1, <2>2, <3>1, DecodeDefined DEF Iteration
      <3> QED
        BY <3>2, Stopped
    <2> QED
      BY <1>1, <2>1, <2>2
  <1> QED
    BY <1>1, <1>2, Waits DEF AtPrefix

(* A part of a buffer.                                                     *)
LEMMA Part ==
    ASSUME NEW q \in Seq(Byte), NEW i \in Nat, i >= 1, NEW e \in Int, e <= Len(q)
    PROVE  /\ SubSeq(q, i, e) \in Seq(Byte)
           /\ Len(SubSeq(q, i, e)) = IF i <= e THEN e - i + 1 ELSE 0
           /\ \A k \in 1..(e - i + 1) : SubSeq(q, i, e)[k] = q[i + k - 1]
  <1>1. \A k \in i..e : k \in 1..Len(q)
    OBVIOUS
  <1>2. \A k \in i..e : q[k] \in Byte
    BY <1>1, ElementOfSeq
  <1> QED
    BY <1>2, SubSeqProperties

(* So does the start of a frame, which holds no other one.                 *)
LEMMA PartOfFrame ==
    ASSUME NoFrameInside, NEW b \in Seq(Byte), NEW w \in Seq(Byte), NEW hs \in Seq(Good),
           AtPrefix(b, w, hs), Head(hs) \in Intact, Len(b) >= 3, Len(b) < Len(Head(hs))
    PROVE  Resumes(w, <<>>, hs, Decode[b])
  <1> DEFINE p == Head(hs)
  <1>1. /\ p \in Seq(Byte) /\ Len(p) \in Nat /\ Len(b) \in Nat
        /\ \A i \in 1..Len(b) : b[i] = p[i]
        /\ Starts(b) # {} /\ Min(Starts(b)) = 1
        /\ w # <<>>
    BY FirstBytes DEF BeginsWith
  <1>2. /\ Headed(p, 1) /\ Plausible(p, 1) /\ Len(p) = Declared(p, 1)
        /\ LaterFrames(p) = {} /\ Len(b) >= 3 /\ Len(b) < Len(p)
    BY FrameAssumption DEF NoFrameInside
  <1> HIDE DEF p
  <1>3. Declared(b, 1) = Declared(p, 1)
    BY <1>1, <1>2 DEF Declared
  <1>4. Headed(b, 1) /\ Plausible(b, 1) /\ ~Complete(b, 1)
    BY <1>1, <1>2, <1>3 DEF Headed, Header, Plausible, Complete
  <1>5. Later(b) = {}
    <2> SUFFICES ASSUME NEW i \in LaterFrames(b) PROVE i \in LaterFrames(p)
      BY <1>2 DEF Later
    <2>1. /\ i \in 1..(Len(b) - 1) /\ b[i] = First /\ b[i + 1] = Second /\ i > 2
          /\ i + 2 <= Len(b) /\ Plausible(b, i) /\ Complete(b, i)
          /\ Frame(b, i) \in Accepted
      BY <1>1 DEF LaterFrames, Starts, Headed, Header
    <2>2. i \in 1..Len(b) /\ i + 1 \in 1..Len(b) /\ i + 2 \in 1..Len(b)
      BY <1>1, <2>1
    <2>3. Declared(p, i) = Declared(b, i)
      BY <1>1, <2>2 DEF Declared
    <2>4. Declared(b, i) \in Nat
      <3>1. b[i + 2] \in Nat
        BY <2>2, ElementOfSeq, ByteAssumption
      <3> QED
        BY <3>1 DEF Declared, Header
    <2>5. i + Declared(b, i) - 1 <= Len(b)
      BY <1>1, <2>1, <2>4 DEF Complete
    <2>6. Frame(p, i) = Frame(b, i)
      <3> DEFINE e == i + Declared(b, i) - 1
      <3>1. /\ e \in Int /\ e <= Len(b) /\ Frame(p, i) = SubSeq(p, i, e)
            /\ Frame(b, i) = SubSeq(b, i, e)
        BY <2>2, <2>3, <2>4, <2>5 DEF Frame
      <3> HIDE DEF e
      <3>2. \A k \in i..e : k \in 1..Len(b)
        BY <1>1, <2>2, <3>1
      <3>3. \A k \in i..e : b[k] = p[k] /\ b[k] \in Byte /\ p[k] \in Byte
        BY <1>1, <3>2, ElementOfSeq
      <3>4. /\ SubSeq(b, i, e) \in Seq(Byte)
            /\ Len(SubSeq(b, i, e)) = IF i <= e THEN e - i + 1 ELSE 0
            /\ \A k \in 1..(e - i + 1) : SubSeq(b, i, e)[k] = b[i + k - 1]
        <4>1. i \in Nat /\ i >= 1
          BY <2>2
        <4> QED
          BY <3>1, <4>1, Part
      <3>5. /\ SubSeq(p, i, e) \in Seq(Byte)
            /\ Len(SubSeq(p, i, e)) = IF i <= e THEN e - i + 1 ELSE 0
            /\ \A k \in 1..(e - i + 1) : SubSeq(p, i, e)[k] = p[i + k - 1]
        <4> DEFINE m == Len(b)
                   n == Len(p)
        <4>1. m \in Nat /\ n \in Nat /\ e \in Int /\ e <= m /\ m < n
          BY <1>1, <1>2, <3>1
        <4> HIDE DEF m, n
        <4>2. e <= n
          BY <4>1
        <4>3. i \in Nat /\ i >= 1 /\ e \in Int /\ p \in Seq(Byte)
          BY <1>1, <2>2, <3>1
        <4>4. e <= Len(p)
          BY <4>2 DEF n
        <4> QED
          BY <4>3, <4>4, Part
      <3> DEFINE x == SubSeq(b, i, e)
                 y == SubSeq(p, i, e)
      <3>6. /\ x \in Seq(Byte) /\ y \in Seq(Byte) /\ Len(x) = Len(y)
            /\ Len(x) = IF i <= e THEN e - i + 1 ELSE 0
            /\ \A k \in 1..(e - i + 1) : x[k] = b[i + k - 1] /\ y[k] = p[i + k - 1]
        BY <3>4, <3>5
      <3> HIDE DEF x, y
      <3>7. i \in Nat /\ e \in Int
        BY <2>2, <3>1
      <3>8. \A k \in 1..Len(x) : k \in 1..(e - i + 1) /\ i + k - 1 \in i..e
        <4> DEFINE m == Len(x)
        <4>1. m = IF i <= e THEN e - i + 1 ELSE 0
          BY <3>6
        <4> HIDE DEF m
        <4>2. \A k \in 1..m : k \in 1..(e - i + 1) /\ i + k - 1 \in i..e
          BY <3>7, <4>1
        <4> QED
          BY <4>2 DEF m
      <3>9. \A k \in 1..Len(x) : x[k] = y[k]
        BY <3>3, <3>6, <3>8
      <3>10. x = y
        BY <3>6, <3>9, SeqEqual
      <3> QED
        BY <3>1, <3>10 DEF x, y
    <2>7. i \in Starts(p)
      BY <1>1, <1>2, <2>1, <2>2 DEF Starts
    <2>8. Headed(p, i) /\ Plausible(p, i) /\ Complete(p, i)
      BY <1>1, <1>2, <2>1, <2>3, <2>4 DEF Headed, Header, Plausible, Complete
    <2> QED
      BY <2>1, <2>6, <2>7, <2>8 DEF LaterFrames
  <1>6. Decode[b] = Stop(b)
    BY <1>1, <1>4, <1>5, DecodeDefined DEF Iteration
  <1>7. /\ Decode[b].frames = <<>> /\ Decode[b].rest = b
        /\ Decode[b].discarded = 0 /\ Decode[b].malformed = 0
    BY <1>6, Stopped
  <1> QED
    BY <1>1, <1>7, Waits DEF AtPrefix

(* Buffers and packets that the result is known for.                       *)
Known(b, hs) ==
    \A c, v, j \in Seq(Byte), ks \in Seq(Good) :
        /\ Len(c) <= Len(b) /\ Len(ks) <= Len(hs) /\ Len(c) + Len(ks) < Len(b) + Len(hs)
        /\ Pending(c, v, j, ks)
        => Resumes(v, j, ks, Decode[c])

(* A whole frame is returned.                                              *)
LEMMA WholeFrame ==
    ASSUME NEW b \in Seq(Byte), NEW w \in Seq(Byte), NEW hs \in Seq(Good),
           AtPrefix(b, w, hs), Known(b, hs), Head(hs) \in Intact, Len(b) >= Len(Head(hs))
    PROVE  Resumes(w, <<>>, hs, Decode[b])
  <1> DEFINE p == Head(hs)
             t == FlattenSeq(Tail(hs))
             y == From(b, Len(p) + 1)
  <1>1. /\ p \in Seq(Byte) /\ Len(p) \in Nat /\ Len(p) >= 3 /\ Len(b) \in Nat
        /\ \A i \in 1..Len(b) : i <= Len(p) => b[i] = p[i]
        /\ Len(b) >= 2 => Starts(b) # {} /\ Min(Starts(b)) = 1
        /\ t \in Seq(Byte)
        /\ b \o w = p \o t
    BY FirstBytes DEF BeginsWith
  <1>2. /\ Plausible(p, 1) /\ Len(p) = Declared(p, 1) /\ p \in Intact
        /\ Len(b) >= Len(p)
    BY FrameAssumption
  <1>3. /\ Tail(hs) \in Seq(Good) /\ hs # <<>> /\ Len(hs) \in Nat
        /\ Len(Tail(hs)) = Len(hs) - 1 /\ hs[1] = p
        /\ \A i \in 1..Len(Tail(hs)) : Tail(hs)[i] = hs[i + 1]
    BY FirstPacket DEF AtPrefix
  <1> HIDE DEF p, t
  <1>4. SameBytes(b, w, p, t)
    BY <1>1, <1>2 DEF SameBytes
  <1>5. Cut(b, w, p, t, y)
    BY <1>1, <1>4, CutConcat
  <1>6. y \in Seq(Byte) /\ Len(y) = Len(b) - Len(p) /\ b = p \o y /\ y \o w = t
    BY <1>5 DEF Cut
  <1>7. Declared(b, 1) = Len(p)
    BY <1>1, <1>2 DEF Declared
  <1>8. Frame(b, 1) = p
    <2>1. Frame(b, 1) = SubSeq(b, 1, Len(p))
      BY <1>1, <1>7 DEF Frame
    <2>2. \A i \in 1..Len(p) : i \in 1..Len(b) /\ b[i] = p[i]
      BY <1>1, <1>2
    <2>3. /\ SubSeq(b, 1, Len(p)) \in Seq(Byte) /\ Len(SubSeq(b, 1, Len(p))) = Len(p)
          /\ \A i \in 1..Len(p) : SubSeq(b, 1, Len(p))[i] = b[i]
      BY <1>1, <1>2
    <2>4. SubSeq(b, 1, Len(p)) = p
      BY <1>1, <2>2, <2>3, SeqEqual
    <2> QED
      BY <2>1, <2>4
  <1>9. Decode[b] = Emit(p, Decode[y])
    <2>1. Headed(b, 1) /\ Plausible(b, 1) /\ Complete(b, 1)
      BY <1>1, <1>2, <1>7 DEF Headed, Header, Plausible, Complete
    <2>2. Starts(b) # {} /\ ~(Min(Starts(b)) > 1)
      BY <1>1, <1>2
    <2> QED
      BY <1>7, <1>8, <2>1, <2>2, DecodeDefined DEF Iteration
  <1> HIDE DEF y
  <1>10. Resumes(w, <<>>, Tail(hs), Decode[y])
    <2>1. Pending(y, w, <<>>, Tail(hs))
      <3>1. Starts(<<>>) = {} /\ <<>> \in Seq(Byte)
        BY DEF Starts
      <3>2. y \o w = <<>> \o t
        BY <1>1, <1>6
      <3> QED
        BY <1>3, <1>6, <3>1, <3>2 DEF Pending, t
    <2>2. Len(y) <= Len(b) /\ Len(Tail(hs)) <= Len(hs)
          /\ Len(y) + Len(Tail(hs)) < Len(b) + Len(hs)
      BY <1>1, <1>3, <1>6
    <2>3. <<>> \in Seq(Byte)
      OBVIOUS
    <2> QED
      BY <1>3, <1>6, <2>1, <2>2, <2>3 DEF Known
  <1>11. PICK gs, ks \in Seq(Good), l \in Seq(Byte) :
            /\ Tail(hs) = gs \o ks /\ Decode[y].frames = IntactOf(gs)
            /\ Pending(Decode[y].rest, w, l, ks)
            /\ w = <<>> => IntactOf(ks) = <<>>
            /\ Clean(<<>>, Tail(hs)) =>
                  Decode[y].discarded = 0 /\ Decode[y].malformed = 0 /\ l = <<>>
    BY <1>10 DEF Resumes
  <1>12. /\ Decode[b].frames = <<p>> \o Decode[y].frames
         /\ Decode[b].rest = Decode[y].rest
         /\ Decode[b].discarded = Decode[y].discarded
         /\ Decode[b].malformed = Decode[y].malformed
    <2> DEFINE r == Decode[y]
    <2>1. r \in Results /\ 0 \in Nat
      BY <1>6, DecodeSound DEF Sound
    <2>2. Decode[b] = Emit(p, r)
      BY <1>9
    <2> HIDE DEF r
    <2>3. /\ Emit(p, r).frames = <<p>> \o r.frames /\ Emit(p, r).rest = r.rest
          /\ Emit(p, r).discarded = r.discarded /\ Emit(p, r).malformed = r.malformed
      BY <2>1, PassedOn
    <2> QED
      BY <2>2, <2>3 DEF r
  <1> DEFINE fs == <<p>> \o gs
  <1>13. fs \in Seq(Good) /\ hs = fs \o ks /\ IntactOf(fs) = <<p>> \o IntactOf(gs)
    <2>1. Taken(hs, gs, ks)
      BY <1>11 DEF Taken
    <2> QED
      BY <1>2, <1>3, <2>1, TakeFirst DEF p
  <1>14. Clean(<<>>, hs) => Clean(<<>>, Tail(hs))
    <2>1. \A i \in 1..Len(Tail(hs)) : i + 1 \in 1..Len(hs)
      BY <1>3
    <2> QED
      BY <1>3, <2>1 DEF Clean
  <1> HIDE DEF fs
  <1> QED
    BY <1>11, <1>12, <1>13, <1>14 DEF Resumes

(* A buffer without its first byte.                                        *)
ByteFirst(b, c) == c \in Seq(Byte) /\ Len(c) = Len(b) - 1 /\ b = <<First>> \o c

(* The first byte and the others.                                          *)
LEMMA FirstByte ==
    ASSUME NEW b \in Seq(Byte), Len(b) >= 1, b[1] = First
    PROVE  ByteFirst(b, From(b, 2))
  <1> DEFINE c == From(b, 2)
             o == <<First>>
  <1>1. o \in Seq(Byte) /\ Len(o) = 1 /\ o[1] = First /\ Len(b) \in Nat
    BY ByteAssumption
  <1>2. c \in Seq(Byte) /\ Len(c) = Len(b) - 1 /\ Len(c) \in Nat
    BY <1>1, FromShorter
  <1>3. \A i \in 1..Len(c) : c[i] = b[i + 1]
    BY <1>1, <1>2 DEF From
  <1> HIDE DEF c, o
  <1>4. /\ o \o c \in Seq(Byte) /\ Len(o \o c) = Len(b)
        /\ (o \o c)[1] = First
        /\ \A i \in 1..Len(c) : (o \o c)[1 + i] = c[i]
    <2>1. /\ o \o c \in Seq(Byte) /\ Len(o \o c) = Len(o) + Len(c)
          /\ \A i \in 1..Len(o) : (o \o c)[i] = o[i]
          /\ \A i \in 1..Len(c) : (o \o c)[Len(o) + i] = c[i]
      BY <1>1, <1>2, ConcatAt
    <2>2. 1 \in 1..Len(o)
      BY <1>1
    <2> QED
      BY <1>1, <1>2, <2>1, <2>2
  <1>5. ASSUME NEW i \in 1..Len(b) PROVE (o \o c)[i] = b[i]
    <2>1. CASE i = 1
      BY <1>4, <2>1
    <2>2. CASE i # 1
      <3>1. i - 1 \in 1..Len(c) /\ 1 + (i - 1) = i /\ (i - 1) + 1 = i
        BY <1>1, <1>2, <2>2
      <3>2. (o \o c)[1 + (i - 1)] = c[i - 1] /\ c[i - 1] = b[(i - 1) + 1]
        BY <1>3, <1>4, <3>1
      <3> QED
        BY <3>1, <3>2
    <2> QED
      BY <2>1, <2>2
  <1>6. b = o \o c
    BY <1>4, <1>5, SeqEqual
  <1> QED
    BY <1>2, <1>6 DEF ByteFirst, c, o

(* A length that no frame has costs one byte, and the rest is damage.      *)
LEMMA WrongLength ==
    ASSUME NEW b \in Seq(Byte), NEW w \in Seq(Byte), NEW hs \in Seq(Good),
           AtPrefix(b, w, hs), Known(b, hs), Head(hs) \notin Intact,
           Starts(Head(hs)) = {1}, ~Plausible(Head(hs), 1), Len(b) >= 3
    PROVE  Resumes(w, <<>>, hs, Decode[b])
  <1> DEFINE p == Head(hs)
             t == FlattenSeq(Tail(hs))
  <1>1. /\ p \in Seq(Byte) /\ Len(p) \in Nat /\ Len(p) >= 3 /\ Len(b) \in Nat
        /\ \A i \in 1..Len(b) : i <= Len(p) => b[i] = p[i]
        /\ p[1] = First /\ b[1] = First
        /\ Len(b) >= 2 => Starts(b) # {} /\ Min(Starts(b)) = 1
        /\ t \in Seq(Byte)
        /\ b \o w = p \o t
    <2>1. BeginsWith(b, w, p, t)
      BY FirstBytes
    <2> HIDE DEF p, t
    <2> QED
      BY <2>1 DEF BeginsWith
  <1>2. Starts(p) = {1} /\ ~Plausible(p, 1) /\ p \notin Intact /\ Len(b) >= 3
    OBVIOUS
  <1> DEFINE c == From(b, 2)
             o == <<First>>
             j == From(p, 2)
  <1>3. /\ Tail(hs) \in Seq(Good) /\ hs # <<>> /\ Len(hs) \in Nat
        /\ Len(Tail(hs)) = Len(hs) - 1 /\ hs[1] = p /\ 1 \in 1..Len(hs)
    BY FirstPacket DEF AtPrefix
  <1> HIDE DEF p, t
  <1>4. Decode[b] = Malformed(1, Decode[c])
    <2>1. Declared(b, 1) = Declared(p, 1)
      BY <1>1, <1>2 DEF Declared
    <2>2. Headed(b, 1) /\ ~Plausible(b, 1)
      BY <1>1, <1>2, <2>1 DEF Headed, Header, Plausible
    <2>3. Starts(b) # {} /\ ~(Min(Starts(b)) > 1)
      BY <1>1, <1>2
    <2>4. BadLength(b) = 1 /\ 1 + 1 = 2
      BY DEF BadLength, OneByte
    <2> QED
      BY <2>2, <2>3, <2>4, DecodeDefined DEF Iteration
  <1>5. /\ c \in Seq(Byte) /\ Len(c) = Len(b) - 1 /\ b = o \o c
        /\ j \in Seq(Byte) /\ Len(j) = Len(p) - 1 /\ p = o \o j
        /\ o \in Seq(Byte) /\ Len(o) = 1
    <2>1. Len(b) >= 1 /\ Len(p) >= 1
      BY <1>1, <1>2
    <2>2. ByteFirst(b, c) /\ ByteFirst(p, j)
      BY <1>1, <2>1, FirstByte
    <2>3. o \in Seq(Byte) /\ Len(o) = 1
      BY ByteAssumption
    <2> HIDE DEF c, j
    <2> QED
      BY <2>2, <2>3 DEF ByteFirst, o
  <1> HIDE DEF c, j, o
  <1>6. c \o w = j \o t
    <2>1. b \o w = o \o (c \o w) /\ p \o t = o \o (j \o t)
      <3>1. Regroups(o, c, w) /\ Regroups(o, j, t)
        BY <1>1, <1>5, Regroup
      <3> QED
        BY <1>5, <3>1 DEF Regroups
    <2>2. c \o w \in Seq(Byte) /\ j \o t \in Seq(Byte)
      BY <1>1, <1>5
    <2>3. o \o (c \o w) = o \o (j \o t)
      BY <1>1, <2>1
    <2> QED
      BY <1>5, <2>2, <2>3, CancelLeft
  <1>7. Starts(j) = {}
    <2> SUFFICES ASSUME NEW i \in Starts(j) PROVE FALSE
      OBVIOUS
    <2>1. 1 + i \in Starts(p) /\ i \in Nat /\ i >= 1
      <3>1. \A k \in Starts(j) : Len(o) + k \in Starts(o \o j)
        BY <1>5, StartsOfConcat
      <3>2. i \in Nat /\ i >= 1
        BY <1>5 DEF Starts
      <3>3. Len(o) + i \in Starts(p)
        BY <1>5, <3>1
      <3> QED
        BY <1>5, <3>2, <3>3
    <2> QED
      BY <1>2, <2>1
  <1>8. Resumes(w, j, Tail(hs), Decode[c])
    <2>1. Pending(c, w, j, Tail(hs))
      BY <1>3, <1>5, <1>6, <1>7 DEF Pending, t
    <2>2. Len(c) <= Len(b) /\ Len(Tail(hs)) <= Len(hs)
          /\ Len(c) + Len(Tail(hs)) < Len(b) + Len(hs)
      BY <1>1, <1>3, <1>5
    <2> QED
      BY <1>3, <1>5, <2>1, <2>2 DEF Known
  <1>9. Resumes(w, <<>>, hs, Decode[c])
    <2>1. <<>> \in Seq(Byte)
      OBVIOUS
    <2> QED
      BY <1>2, <1>3, <1>8, <2>1, NoiseResumes DEF p
  <1>10. Decode[b].frames = Decode[c].frames /\ Decode[b].rest = Decode[c].rest
    <2>1. Decode[c] \in Results /\ 1 \in Nat
      BY <1>5, DecodeSound DEF Sound
    <2> QED
      BY <1>4, <2>1, PassedOn
  <1>11. ~Clean(<<>>, hs)
    BY <1>2, <1>3 DEF Clean
  <1> QED
    BY <1>9, <1>10, <1>11, SkippedResumes

(* A buffer that starts with a prefix, from what is known of smaller       *)
(* ones.                                                                   *)
LEMMA FromPrefix ==
    ASSUME NoFrameInside, NEW b \in Seq(Byte), NEW w \in Seq(Byte), NEW hs \in Seq(Good),
           AtPrefix(b, w, hs), Known(b, hs)
    PROVE  Resumes(w, <<>>, hs, Decode[b])
  <1>1. /\ Head(hs) \in Good /\ 1 \in Starts(Head(hs))
        /\ Len(b) \in Nat /\ Len(Head(hs)) \in Nat
    BY FirstPacket, FirstBytes DEF AtPrefix, BeginsWith
  <1>2. CASE Len(b) < 3
    BY <1>2, NoHeader
  <1>3. CASE Len(b) >= 3 /\ Head(hs) \in Intact
    <2>1. CASE Len(b) < Len(Head(hs))
      BY <1>3, <2>1, PartOfFrame
    <2>2. CASE Len(b) >= Len(Head(hs))
      BY <1>3, <2>2, WholeFrame
    <2> QED
      BY <1>1, <2>1, <2>2
  <1>4. CASE Len(b) >= 3 /\ Head(hs) \notin Intact
    <2>1. Starts(Head(hs)) = {1} /\ ~Plausible(Head(hs), 1)
      BY <1>1, <1>4, Packet
    <2> QED
      BY <1>4, <2>1, WrongLength
  <1> QED
    BY <1>1, <1>2, <1>3, <1>4

(* Damage before a prefix is skipped, but for a byte that may start it.    *)
LEMMA BeforePrefix ==
    ASSUME NEW b \in Seq(Byte), NEW w \in Seq(Byte), NEW j \in Seq(Byte),
           NEW hs \in Seq(Good), Pending(b, w, j, hs), Len(b) > Len(j), j # <<>>,
           1 \in Starts(Head(hs)), Headed(Head(hs), 1), Known(b, hs)
    PROVE  Resumes(w, j, hs, Decode[b])
  <1> DEFINE x == From(b, Len(j) + 1)
  <1>1. Follows(b, w, j, hs, x)
    BY Remaining
  <1>2. /\ x \in Seq(Byte) /\ b = j \o x /\ Len(b) = Len(j) + Len(x) /\ Len(x) >= 1
        /\ Len(x) \in Nat /\ Len(j) \in Nat /\ Len(j) >= 1
        /\ Pending(x, w, <<>>, hs) /\ hs # <<>> /\ Starts(j) = {}
    <2>1. Len(j) \in Nat /\ Len(j) >= 1
      BY EmptySeq
    <2> HIDE DEF x
    <2> QED
      BY <1>1, <2>1 DEF Follows, Pending
  <1>3. AtPrefix(x, w, hs)
    BY <1>2 DEF AtPrefix
  <1>x. x = From(b, Len(j) + 1)
    OBVIOUS
  <1> HIDE DEF x
  <1>4. /\ Len(Head(hs)) \in Nat /\ Len(Head(hs)) >= 3 /\ x[1] = First
        /\ Len(x) >= 2 => 1 \in Starts(x)
        /\ Len(x) < Len(Head(hs)) => w # <<>>
    BY <1>2, <1>3, FirstBytes DEF BeginsWith
  <1>5. ASSUME NEW i \in Starts(b) PROVE i > Len(j) /\ i - Len(j) \in Starts(x)
    <2>1. i \in Nat
      BY DEF Starts
    <2>2. ~(i < Len(j))
      BY <1>2, StartsOfConcat
    <2>3. i # Len(j)
      <3>1. Len(j) \in Starts(j \o x) => x[1] = Second
        BY <1>2, StartsOfConcat
      <3> QED
        BY <1>2, <1>4, <3>1, ByteAssumption
    <2>4. i > Len(j)
      BY <1>2, <2>1, <2>2, <2>3
    <2> QED
      BY <1>2, <2>4, StartsOfConcat
  <1>6. ~Clean(j, hs)
    BY DEF Clean
  <1>7. CASE Len(x) = 1
    <2>1. Starts(b) = {}
      <3>1. Starts(x) = {}
        BY <1>7 DEF Starts
      <3> QED
        BY <1>5, <3>1
    <2>2. x = <<First>>
      BY <1>2, <1>4, <1>7
    <2>3. Retained(b) = x
      <3>1. \A i \in 1..Len(x) : (j \o x)[Len(j) + i] = x[i]
        BY <1>2, ConcatAt
      <3>2. b[Len(j) + 1] = First /\ Len(b) = Len(j) + 1
        BY <1>2, <1>4, <1>7, <3>1
      <3>3. b # <<>> /\ Last(b) = First
        BY <1>2, <3>2 DEF Last
      <3> QED
        BY <2>2, <3>3 DEF Retained, SplitPrefix
    <2>4. Decode[b].frames = <<>> /\ Decode[b].rest = x
      BY <2>1, <2>3, NoStart
    <2>5. w # <<>>
      BY <1>4, <1>7
    <2>6. /\ <<>> \in Seq(Good) /\ hs = <<>> \o hs /\ IntactOf(<<>>) = <<>>
          /\ <<>> \in Seq(Byte)
      BY NoneTaken
    <2> QED
      BY <1>2, <1>6, <2>4, <2>5, <2>6 DEF Resumes
  <1>8. CASE Len(x) >= 2
    <2>1. Len(j) + 1 \in Starts(b)
      <3>1. \A i \in Starts(x) : Len(j) + i \in Starts(j \o x)
        BY <1>2, StartsOfConcat
      <3> QED
        BY <1>2, <1>4, <1>8, <3>1
    <2>2. Starts(b) # {} /\ Min(Starts(b)) = Len(j) + 1
      <3>1. Min(Starts(b)) \in Starts(b) /\ Min(Starts(b)) <= Len(j) + 1
            /\ Min(Starts(b)) \in Nat
        BY <2>1, FirstStart
      <3>2. Min(Starts(b)) > Len(j)
        BY <1>5, <3>1
      <3> QED
        BY <1>2, <2>1, <3>1, <3>2
    <2>3. Decode[b] = Skip(Len(j), Decode[x])
      <3>1. Decode[b] = Skip((Len(j) + 1) - 1, Decode[From(b, Len(j) + 1)])
        <4>1. Len(j) + 1 > 1
          BY <1>2
        <4> QED
          BY <2>2, <4>1, DecodeDefined DEF Iteration
      <3>2. (Len(j) + 1) - 1 = Len(j)
        BY <1>2
      <3> QED
        BY <1>x, <3>1, <3>2
    <2>4. Resumes(w, <<>>, hs, Decode[x])
      <3>1. Len(hs) \in Nat
        OBVIOUS
      <3>2. Len(x) <= Len(b) /\ Len(hs) <= Len(hs) /\ Len(x) + Len(hs) < Len(b) + Len(hs)
        BY <1>2, <3>1
      <3>3. <<>> \in Seq(Byte)
        OBVIOUS
      <3> QED
        BY <1>2, <3>2, <3>3 DEF Known
    <2>5. Decode[b].frames = Decode[x].frames /\ Decode[b].rest = Decode[x].rest
      <3> DEFINE r == Decode[x]
      <3>1. r \in Results
        BY <1>2, DecodeSound DEF Sound
      <3>2. Decode[b] = Skip(Len(j), r)
        BY <2>3
      <3> HIDE DEF r
      <3>3. Skip(Len(j), r).frames = r.frames /\ Skip(Len(j), r).rest = r.rest
        BY <1>2, <3>1, PassedOn
      <3> QED
        BY <3>2, <3>3 DEF r
    <2> QED
      BY <1>6, <2>4, <2>5, SkippedResumes
  <1>9. Len(x) \in Nat /\ Len(x) >= 1
    BY <1>2
  <1>10. \A n \in Nat : n >= 1 => n = 1 \/ n >= 2
    OBVIOUS
  <1> QED
    BY <1>7, <1>8, <1>9, <1>10

(* Every buffer, from what is known of smaller ones.                       *)
LEMMA KnownStep ==
    ASSUME NoFrameInside, NoSplitStart, NEW b \in Seq(Byte), NEW w \in Seq(Byte),
           NEW j \in Seq(Byte), NEW hs \in Seq(Good), Pending(b, w, j, hs), Known(b, hs)
    PROVE  Resumes(w, j, hs, Decode[b])
  <1>1. Len(b) \in Nat /\ Len(j) \in Nat
    OBVIOUS
  <1>2. CASE Len(b) <= Len(j)
    BY <1>2, WithinDamage
  <1>3. CASE Len(b) > Len(j)
    <2> DEFINE x == From(b, Len(j) + 1)
    <2>1. Follows(b, w, j, hs, x)
      BY <1>3, Remaining
    <2>2. /\ hs # <<>> /\ x \in Seq(Byte) /\ b = j \o x /\ Len(x) >= 1
          /\ Pending(x, w, <<>>, hs)
      BY <2>1 DEF Follows
    <2> HIDE DEF x
    <2>3. /\ Head(hs) \in Good /\ Head(hs) \in Seq(Byte) /\ Tail(hs) \in Seq(Good)
          /\ Len(Tail(hs)) = Len(hs) - 1 /\ Len(hs) \in Nat
      BY <2>2, FirstPacket, Packet
    <2>4. CASE Head(hs) \notin Intact /\ Head(hs) \in Damage /\ Starts(Head(hs)) = {}
      <3>1. Pending(b, w, j \o Head(hs), Tail(hs))
        BY <2>2, <2>4, NoiseJoins
      <3>2. Len(b) <= Len(b) /\ Len(Tail(hs)) <= Len(hs)
            /\ Len(b) + Len(Tail(hs)) < Len(b) + Len(hs)
        BY <1>1, <2>3
      <3>3. j \o Head(hs) \in Seq(Byte)
        BY <3>1 DEF Pending
      <3>4. Resumes(w, j \o Head(hs), Tail(hs), Decode[b])
        BY <2>3, <3>1, <3>2, <3>3 DEF Known
      <3> QED
        BY <2>2, <2>4, <3>4, NoiseResumes
    <2>5. CASE 1 \in Starts(Head(hs)) /\ Headed(Head(hs), 1)
      <3>1. CASE j # <<>>
        BY <1>3, <2>5, <3>1, BeforePrefix
      <3>2. CASE j = <<>>
        <4>1. b = x
          BY <2>2, <3>2, ConcatEmptySeq
        <4>2. AtPrefix(b, w, hs)
          BY <2>2, <2>5, <4>1 DEF AtPrefix
        <4> QED
          BY <3>2, <4>2, FromPrefix
      <3> QED
        BY <3>1, <3>2
    <2> QED
      BY <2>3, <2>4, <2>5, Packet
  <1> QED
    BY <1>1, <1>2, <1>3

(* However the stream is cut, the frames of the packets it has passed come *)
(* out, and the decoder waits for the rest of what is under way.           *)
LEMMA DecodeResumes ==
    ASSUME NoFrameInside, NoSplitStart, NEW b \in Seq(Byte), NEW w \in Seq(Byte),
           NEW j \in Seq(Byte), NEW hs \in Seq(Good), Pending(b, w, j, hs)
    PROVE  Resumes(w, j, hs, Decode[b])
  <1> DEFINE Fails(c, v, k, ks) == Pending(c, v, k, ks) /\ ~Resumes(v, k, ks, Decode[c])
             T == {n \in Nat : \E c, v, k \in Seq(Byte), ks \in Seq(Good) :
                                   Len(c) + Len(ks) = n /\ Fails(c, v, k, ks)}
  <1> SUFFICES ASSUME Fails(b, w, j, hs) PROVE FALSE
    OBVIOUS
  <1> HIDE DEF Fails
  <1>1. T \in SUBSET Nat /\ T # {}
    <2>1. Len(b) + Len(hs) \in T
      OBVIOUS
    <2> QED
      BY <2>1
  <1>2. PICK n \in T : \A m \in T : n <= m
    BY <1>1, LeastNumber
  <1>3. PICK c, v, k \in Seq(Byte), ks \in Seq(Good) :
            Len(c) + Len(ks) = n /\ Fails(c, v, k, ks)
    BY <1>2
  <1>4. Known(c, ks)
    <2> SUFFICES ASSUME NEW d \in Seq(Byte), NEW u \in Seq(Byte), NEW i \in Seq(Byte),
                        NEW ls \in Seq(Good),
                        Len(d) + Len(ls) < Len(c) + Len(ks), Pending(d, u, i, ls)
                 PROVE  Resumes(u, i, ls, Decode[d])
      BY DEF Known
    <2> DEFINE m == Len(d) + Len(ls)
    <2>1. m \in Nat /\ n \in Nat /\ m < n
      BY <1>3
    <2>2. m \notin T
      <3> HIDE DEF m, T
      <3> QED
        BY <1>2, <2>1
    <2>3. ~Fails(d, u, i, ls)
      BY <2>1, <2>2
    <2> QED
      BY <2>3 DEF Fails
  <1>5. Pending(c, v, k, ks) /\ ~Resumes(v, k, ks, Decode[c])
    BY <1>3 DEF Fails
  <1> QED
    BY <1>4, <1>5, KnownStep

-----------------------------------------------------------------------------
(* The receiving half.                                                     *)

(* The stream's part of the type invariant, with what a feed leaves.       *)
StreamType ==
    /\ sent \in Seq(Intact \cup Damage) /\ wire \in Seq(Byte) /\ buffer \in Seq(Byte)
    /\ emitted \in Seq(Seq(Byte)) /\ cut \in BOOLEAN
    /\ fed \in Nat /\ discarded \in Nat /\ invalid \in Nat
    /\ packets \in Nat /\ connections \in Nat
(* BytesAccounted without the types.                                       *)
Accounted == fed = Len(FlattenSeq(emitted)) + discarded + Len(buffer)
StreamInv == StreamType /\ Accounted /\ NoHostage

(* The observations and the rejected frames of a chunk are numbers.        *)
LEMMA FramesCounted ==
    ASSUME NEW frames \in Seq(Seq(Byte))
    PROVE  Observations(frames) \in Nat /\ Rejected(frames) \in Nat
  <1>1. IsFiniteSet(DOMAIN frames)
    <2>1. Len(frames) \in Nat /\ DOMAIN frames = 1..Len(frames)
      OBVIOUS
    <2> QED
      BY <2>1, FS_Interval
  <1>2. ASSUME NEW T \in SUBSET (DOMAIN frames) PROVE Cardinality(T) \in Nat
    BY <1>1, FS_Subset, FS_CardinalityType
  <1> QED
    BY <1>2 DEF Observations, Rejected

(* What is delivered and what is not.                                      *)
LEMMA WireSplit ==
    ASSUME NEW v \in Seq(Byte), NEW n \in 1..Len(v)
    PROVE  /\ SubSeq(v, 1, n) \in Seq(Byte) /\ Len(SubSeq(v, 1, n)) = n
           /\ SubSeq(v, n + 1, Len(v)) \in Seq(Byte)
           /\ v = SubSeq(v, 1, n) \o SubSeq(v, n + 1, Len(v))
  <1> DEFINE d == SubSeq(v, 1, n)
             x == SubSeq(v, n + 1, Len(v))
  <1>1. Len(v) \in Nat /\ n \in Nat /\ n >= 1 /\ n <= Len(v)
        /\ \A i \in 1..Len(v) : v[i] \in Byte
    BY ElementOfSeq
  <1>2. d \in Seq(Byte) /\ Len(d) = n /\ \A i \in 1..n : d[i] = v[i]
    BY <1>1, SubSeqProperties
  <1>3. x \in Seq(Byte) /\ Len(x) = Len(v) - n /\ \A i \in 1..Len(x) : x[i] = v[n + i]
    <2>1. \A i \in (n + 1)..Len(v) : v[i] \in Byte
      BY <1>1
    <2>2. /\ x \in Seq(Byte)
          /\ Len(x) = IF n + 1 <= Len(v) THEN Len(v) - (n + 1) + 1 ELSE 0
          /\ \A i \in 1..(Len(v) - (n + 1) + 1) : x[i] = v[(n + 1) + i - 1]
      BY <1>1, <2>1, SubSeqProperties
    <2> HIDE DEF x
    <2>3. Len(x) = Len(v) - n
      BY <1>1, <2>2
    <2>4. \A i \in 1..Len(x) : i \in 1..(Len(v) - (n + 1) + 1) /\ (n + 1) + i - 1 = n + i
      BY <1>1, <2>3
    <2> QED
      BY <2>2, <2>3, <2>4
  <1> HIDE DEF d, x
  <1>4. /\ d \o x \in Seq(Byte) /\ Len(d \o x) = Len(v)
        /\ \A i \in 1..n : (d \o x)[i] = d[i]
        /\ \A i \in 1..Len(x) : (d \o x)[n + i] = x[i]
    <2>1. /\ d \o x \in Seq(Byte) /\ Len(d \o x) = Len(d) + Len(x)
          /\ \A i \in 1..Len(d) : (d \o x)[i] = d[i]
          /\ \A i \in 1..Len(x) : (d \o x)[Len(d) + i] = x[i]
      BY <1>2, <1>3, ConcatAt
    <2>2. Len(d \o x) = Len(v)
      BY <1>1, <1>2, <1>3, <2>1
    <2> QED
      BY <1>2, <2>1, <2>2, Zenon
  <1>5. ASSUME NEW i \in 1..Len(v) PROVE (d \o x)[i] = v[i]
    <2>1. CASE i <= n
      BY <1>1, <1>2, <1>4, <2>1
    <2>2. CASE i > n
      <3>1. i - n \in 1..Len(x) /\ n + (i - n) = i
        BY <1>1, <1>3, <2>2
      <3>2. (d \o x)[n + (i - n)] = x[i - n] /\ x[i - n] = v[n + (i - n)]
        BY <1>3, <1>4, <3>1
      <3> QED
        BY <3>1, <3>2
    <2>3. i <= n \/ i > n
      BY <1>1
    <2> QED
      BY <2>1, <2>2, <2>3, Zenon
  <1>6. v = d \o x
    BY <1>4, <1>5, SeqEqual
  <1> QED
    BY <1>2, <1>3, <1>6 DEF d, x

(* A chunk is received: the decoder's result, with the parts the step uses.*)
Fed(n, r) ==
    /\ Sound(buffer \o SubSeq(wire, 1, n), r)
    /\ Len(buffer \o SubSeq(wire, 1, n)) = Len(buffer) + n
    /\ wire' = SubSeq(wire, n + 1, Len(wire)) /\ wire' \in Seq(Byte) /\ fed' = fed + n
    /\ buffer' = r.rest /\ emitted' = emitted \o r.frames
    /\ discarded' = discarded + r.discarded
    /\ invalid' = invalid + r.malformed + Rejected(r.frames)
    /\ Publish(Observations(r.frames))
    /\ UNCHANGED <<sent, cut, packets, connections>>

(* _reader_loop feeds what is buffered with what was read.                 *)
LEMMA ReceiveFeeds ==
    ASSUME StreamType, NEW n \in 1..Len(wire), Receive(n)
    PROVE  Fed(n, Decode[buffer \o SubSeq(wire, 1, n)])
  <1> DEFINE d == SubSeq(wire, 1, n)
             x == SubSeq(wire, n + 1, Len(wire))
             b == buffer \o d
  <1>1. d \in Seq(Byte) /\ Len(d) = n /\ x \in Seq(Byte) /\ buffer \in Seq(Byte)
    BY WireSplit DEF StreamType
  <1>2. b \in Seq(Byte) /\ Len(b) = Len(buffer) + n
    <2> HIDE DEF d
    <2> QED
      BY <1>1, ConcatAt
  <1>3. Sound(b, Decode[b])
    <2> HIDE DEF b
    <2> QED
      BY <1>2, DecodeSound
  <1> QED
    BY <1>1, <1>2, <1>3 DEF Receive, Feed, Fed

(* A chunk keeps the invariant, by the promise of feed().                  *)
LEMMA ReceiveKeeps ==
    ASSUME StreamInv, NEW n \in 1..Len(wire), Receive(n)
    PROVE  StreamInv'
  <1> DEFINE b == buffer \o SubSeq(wire, 1, n)
             r == Decode[b]
  <1>1. Fed(n, r)
    BY ReceiveFeeds DEF StreamInv
  <1> HIDE DEF r
  <1>2. /\ Sound(b, r) /\ Len(b) = Len(buffer) + n
        /\ wire' \in Seq(Byte) /\ fed' = fed + n
        /\ buffer' = r.rest /\ emitted' = emitted \o r.frames
        /\ discarded' = discarded + r.discarded
        /\ invalid' = invalid + r.malformed + Rejected(r.frames)
        /\ UNCHANGED <<sent, cut, packets, connections>>
    BY <1>1 DEF Fed
  <1> HIDE DEF b
  <1>3. /\ r.frames \in Seq(Seq(Byte)) /\ r.rest \in Seq(Byte)
        /\ r.discarded \in Nat /\ r.malformed \in Nat
        /\ LaterFrames(r.rest) = {}
        /\ Len(b) = Len(FlattenSeq(r.frames)) + r.discarded + Len(r.rest)
    BY <1>2, ResultParts DEF Sound
  <1>4. Rejected(r.frames) \in Nat /\ n \in Nat
    BY <1>3, FramesCounted
  <1>5. StreamType'
    <2>1. emitted' \in Seq(Seq(Byte))
      BY <1>2, <1>3, ConcatProperties DEF StreamInv, StreamType
    <2>2. fed' \in Nat /\ discarded' \in Nat /\ invalid' \in Nat
      <3> DEFINE m == Rejected(r.frames)
      <3>1. m \in Nat /\ fed \in Nat /\ discarded \in Nat /\ invalid \in Nat
        BY <1>4 DEF StreamInv, StreamType
      <3> DEFINE d == r.discarded
                 k == r.malformed
      <3>2. /\ invalid' = invalid + k + m /\ discarded' = discarded + d
            /\ fed' = fed + n /\ d \in Nat /\ k \in Nat /\ n \in Nat
        BY <1>2, <1>3, <1>4
      <3> HIDE DEF m, d, k
      <3> QED
        BY <3>1, <3>2
    <2>3. wire' \in Seq(Byte) /\ buffer' \in Seq(Byte)
      BY <1>2, <1>3
    <2>4. /\ sent' \in Seq(Intact \cup Damage) /\ cut' \in BOOLEAN
          /\ packets' \in Nat /\ connections' \in Nat
      BY <1>2 DEF StreamInv, StreamType
    <2> QED
      BY <2>1, <2>2, <2>3, <2>4 DEF StreamType
  <1>6. NoHostage'
    BY <1>2, <1>3 DEF NoHostage
  <1>7. Accounted'
    <2> DEFINE e == FlattenSeq(emitted)
               g == FlattenSeq(r.frames)
    <2>1. FlattenSeq(emitted') = e \o g /\ e \in Seq(Byte) /\ g \in Seq(Byte)
      <3> DEFINE f == r.frames
      <3>1. emitted \in Seq(Seq(Byte)) /\ f \in Seq(Seq(Byte)) /\ emitted' = emitted \o f
        BY <1>2, <1>3 DEF StreamInv, StreamType
      <3> HIDE DEF f
      <3>2. /\ FlattenSeq(emitted \o f) = FlattenSeq(emitted) \o FlattenSeq(f)
            /\ FlattenSeq(emitted) \in Seq(Byte) /\ FlattenSeq(f) \in Seq(Byte)
        BY <3>1, FlattenConcat, FlattenType
      <3> QED
        BY <3>1, <3>2 DEF f
    <2>2. fed = Len(e) + discarded + Len(buffer)
      BY DEF StreamInv, Accounted
    <2>3. fed \in Nat /\ discarded \in Nat /\ Len(buffer) \in Nat
      BY DEF StreamInv, StreamType
    <2>4. Len(b) = Len(g) + r.discarded + Len(r.rest)
      BY <1>3
    <2> HIDE DEF e, g
    <2>5. Len(e \o g) = Len(e) + Len(g) /\ Len(e) \in Nat /\ Len(g) \in Nat
      BY <2>1, ConcatAt
    <2>6. Len(r.rest) \in Nat
      BY <1>3
    <2>7. fed' = Len(e \o g) + discarded' + Len(buffer')
      <3> DEFINE lg == Len(g)
                 lb == Len(b)
                 le == Len(e)
                 lr == Len(r.rest)
                 dr == r.discarded
                 leg == Len(e \o g)
      <3>1. /\ lg \in Nat /\ le \in Nat /\ lr \in Nat /\ dr \in Nat /\ leg = le + lg
            /\ lb = lg + dr + lr /\ lb = Len(buffer) + n /\ n \in Nat
            /\ fed = le + discarded + Len(buffer) /\ fed' = fed + n
            /\ discarded' = discarded + dr /\ Len(buffer') = lr
        BY <1>2, <1>3, <1>4, <2>2, <2>4, <2>5, <2>6
      <3> HIDE DEF lg, lb, le, lr, dr, leg
      <3>2. fed' = leg + discarded' + Len(buffer')
        BY <2>3, <3>1
      <3> QED
        BY <3>2 DEF leg
    <2> QED
      BY <2>1, <2>7 DEF Accounted
  <1> QED
    BY <1>5, <1>6, <1>7 DEF StreamInv

(* An empty buffer.                                                        *)
LEMMA NothingBuffered ==
    LaterFrames(<<>>) = {} /\ FlattenSeq(<<>>) = <<>> /\ <<>> \in Seq(Byte) /\ Len(<<>>) = 0
    /\ <<>> \in Seq(Seq(Byte)) /\ <<>> \in Seq(Intact \cup Damage)
  <1>1. LaterFrames(<<>>) = {}
    BY DEF LaterFrames, Starts
  <1>2. FlattenSeq(<<>>) = <<>>
    BY FlattenAppend, <<>> \in Seq(Byte), <<>> \in Seq(Seq(Byte))
  <1>3. <<>> \in Seq(Byte) /\ Len(<<>>) = 0 /\ <<>> \in Seq(Seq(Byte))
        /\ <<>> \in Seq(Intact \cup Damage)
    OBVIOUS
  <1> QED
    BY <1>1, <1>2, <1>3

(* It holds on a first connection,                                         *)
LEMMA StreamStart == Init => StreamInv
  <1> SUFFICES ASSUME Init PROVE StreamInv
    OBVIOUS
  <1>1. StreamType
    BY NothingBuffered DEF Init, StreamType
  <1>2. NoHostage
    BY NothingBuffered DEF Init, NoHostage
  <1>3. Accounted
    BY NothingBuffered DEF Init, Accounted
  <1> QED
    BY <1>1, <1>2, <1>3 DEF StreamInv

(* and every step keeps it: a packet, a chunk, the timeout of a partial    *)
(* frame, a reconnect, the consumer.                                       *)
LEMMA StreamStep ==
    ASSUME StreamInv, [Next]_vars
    PROVE  StreamInv'
  <1>1. ASSUME NEW packet \in Intact \cup Damage, Send(packet) PROVE StreamInv'
    <2>1. packet \in Seq(Byte)
      BY FrameAssumption, StreamAssumption
    <2>2. StreamType'
      BY <1>1, <2>1, AppendProperties, ConcatProperties
      DEF Send, StreamInv, StreamType, decoder
    <2>3. Accounted' /\ NoHostage'
      BY <1>1 DEF Send, StreamInv, Accounted, NoHostage, decoder
    <2> QED
      BY <2>2, <2>3 DEF StreamInv
  <1>2. ASSUME NEW n \in 1..Len(wire), Receive(n) PROVE StreamInv'
    BY <1>2, ReceiveKeeps
  <1>3. CASE PartialTimeout
    <2>1. StreamType'
      BY <1>3, NothingBuffered DEF PartialTimeout, StreamInv, StreamType
    <2>2. NoHostage'
      BY <1>3, NothingBuffered DEF PartialTimeout, NoHostage
    <2>3. Accounted'
      <3>1. /\ fed = Len(FlattenSeq(emitted)) + discarded + Len(buffer)
            /\ discarded \in Nat /\ Len(buffer) \in Nat
            /\ Len(FlattenSeq(emitted)) \in Nat
        BY FlattenType DEF StreamInv, StreamType, Accounted
      <3> QED
        BY <1>3, <3>1, NothingBuffered DEF PartialTimeout, Accounted
    <2> QED
      BY <2>1, <2>2, <2>3 DEF StreamInv
  <1>4. CASE Reconnect
    <2>1. StreamType'
      <3>1. /\ connections \in Nat /\ packets \in Nat
            /\ connections' = connections + 1 /\ packets' = packets
        BY <1>4 DEF Reconnect, StreamInv, StreamType
      <3>2. /\ sent' = <<>> /\ wire' = <<>> /\ fed' = 0 /\ buffer' = <<>> /\ emitted' = <<>>
            /\ discarded' = 0 /\ cut' = FALSE /\ invalid' = 0
        BY <1>4 DEF Reconnect
      <3>3. sent' \in Seq(Intact \cup Damage)
        BY <3>2, NothingBuffered, Zenon
      <3>4. wire' \in Seq(Byte) /\ buffer' \in Seq(Byte) /\ emitted' \in Seq(Seq(Byte))
        BY <3>2, NothingBuffered, Zenon
      <3>5. fed' \in Nat /\ discarded' \in Nat /\ invalid' \in Nat
        BY <3>2
      <3>6. packets' \in Nat /\ connections' \in Nat
        BY <3>1
      <3>7. cut' \in BOOLEAN
        BY <3>2, Zenon
      <3> QED
        BY <3>3, <3>4, <3>5, <3>6, <3>7 DEF StreamType
    <2>2. NoHostage'
      BY <1>4, NothingBuffered DEF Reconnect, NoHostage
    <2>3. Accounted'
      BY <1>4, NothingBuffered DEF Reconnect, Accounted
    <2> QED
      BY <2>1, <2>2, <2>3 DEF StreamInv
  <1>5. CASE Consumer
    BY <1>5 DEF Consumer, StreamInv, StreamType, Accounted, NoHostage, decoder
  <1>6. CASE UNCHANGED vars
    BY <1>6 DEF vars, StreamInv, StreamType, Accounted, NoHostage, decoder
  <1> QED
    BY <1>1, <1>2, <1>3, <1>4, <1>5, <1>6 DEF Next, Stream

(* The decoder always holds bytes that account for what arrived, and no    *)
(* whole frame behind a partial one (feed, discard_partial).               *)
THEOREM StreamInvariant == Spec => []StreamInv
  BY StreamStart, StreamStep, PTL DEF Spec

(* The reader loop drives its subscription as ObservationSubscription      *)
(* allows: it publishes once per accepted frame (_route_frame) and does    *)
(* nothing else to it.                                                     *)
THEOREM UsesSubscription == Spec => SubscriptionSpec
  <1>1. Init => SubscriptionInit
    BY DEF Init
  <1>2. StreamInv /\ [Next]_vars => [SubscriptionNext]_subvars
    <2> SUFFICES ASSUME StreamInv, [Next]_vars
                 PROVE  SubscriptionNext \/ UNCHANGED subvars
      OBVIOUS
    <2>1. ASSUME NEW n \in 1..Len(wire), Receive(n) PROVE SubscriptionNext
      <3> DEFINE r == Decode[buffer \o SubSeq(wire, 1, n)]
      <3>1. Fed(n, r)
        BY <2>1, ReceiveFeeds DEF StreamInv
      <3> HIDE DEF r
      <3>2. Publish(Observations(r.frames)) /\ r.frames \in Seq(Seq(Byte))
        BY <3>1, ResultParts DEF Fed, Sound
      <3>3. Observations(r.frames) \in Nat
        BY <3>2, FramesCounted
      <3> QED
        BY <3>2, <3>3 DEF SubscriptionNext
    <2>2. CASE Consumer
      BY <2>2 DEF Consumer, SubscriptionNext
    <2>3. CASE \/ \E packet \in Intact \cup Damage : Send(packet)
               \/ PartialTimeout \/ Reconnect \/ UNCHANGED vars
      BY <2>3 DEF Send, PartialTimeout, Reconnect, vars, subvars
    <2> QED
      BY <2>1, <2>2, <2>3 DEF Next, Stream
  <1> QED
    BY <1>1, <1>2, StreamInvariant, PTL DEF Spec, SubscriptionSpec, subvars

(* The variables of the receiving half have their types.                   *)
THEOREM PathTyped == Spec => []TypeOK
  <1>1. StreamInv /\ SubscriptionType => TypeOK
    BY DEF StreamInv, StreamType, TypeOK
  <1> QED
    BY <1>1, StreamInvariant, UsesSubscription, SubscriptionCorrect, PTL

(* No byte is lost uncounted or counted twice by feed() and                *)
(* discard_partial(), whatever arrives and however it is cut into reads.   *)
THEOREM EveryByteAccounted == Spec => []BytesAccounted
  <1>1. StreamInv /\ TypeOK => BytesAccounted
    BY DEF StreamInv, Accounted, BytesAccounted
  <1> QED
    BY <1>1, StreamInvariant, PathTyped, PTL

(* No complete valid frame waits behind a partial one                      *)
(* (_find_valid_later_frame), whatever arrives and however it is cut into  *)
(* reads.                                                                  *)
THEOREM NoFrameHostage == Spec => []NoHostage
  <1>1. StreamInv => NoHostage
    BY DEF StreamInv
  <1> QED
    BY <1>1, StreamInvariant, PTL

(* The subscription's promises, with the reader loop as the publisher.     *)
THEOREM PathGapsExposed == Spec => [](GapsExposed /\ ConsumerWoken)
  BY UsesSubscription, SubscriptionCorrect, PTL

(* Packets gs have been passed, the end of the last one, l, and ks have not.*)
AllIntact(s) == \A i \in 1..Len(s) : s[i] \in Intact
DeliveredBy(gs, ks, l) ==
    /\ gs \in Seq(Good) /\ ks \in Seq(Good) /\ l \in Seq(Byte)
    /\ sent = gs \o ks /\ emitted = IntactOf(gs)
    /\ Pending(buffer, wire, l, ks)
    /\ wire = <<>> => IntactOf(ks) = <<>>
    /\ AllIntact(sent) => discarded = 0 /\ invalid = 0 /\ l = <<>>
(* FramesExact made inductive: a stream of frames and recoverable damage   *)
(* is split where the decoder has got to.                                  *)
Delivered == \E gs, ks \in Seq(Good), l \in Seq(Byte) : DeliveredBy(gs, ks, l)
DeliveredInv == ~cut /\ sent \in Seq(Good) => Delivered

(* What a connection starts with.                                          *)
Fresh ==
    /\ sent = <<>> /\ emitted = <<>> /\ buffer = <<>> /\ wire = <<>>
    /\ discarded = 0 /\ invalid = 0

(* A new connection has sent and delivered nothing.                        *)
LEMMA NothingSent == Fresh => Delivered
  <1> SUFFICES ASSUME Fresh PROVE Delivered
    OBVIOUS
  <1>1. /\ <<>> \in Seq(Good) /\ <<>> = <<>> \o <<>> /\ IntactOf(<<>>) = <<>>
        /\ <<>> \in Seq(Byte)
    BY IntactOfOne
  <1>2. Pending(<<>>, <<>>, <<>>, <<>>)
    <2>1. Starts(<<>>) = {}
      BY DEF Starts
    <2>2. FlattenSeq(<<>>) = <<>>
      BY NothingBuffered
    <2> QED
      BY <1>1, <2>1, <2>2 DEF Pending
  <1>3. DeliveredBy(<<>>, <<>>, <<>>)
    BY <1>1, <1>2 DEF DeliveredBy, Fresh
  <1> QED
    BY <1>1, <1>3 DEF Delivered

(* One more packet.                                                        *)
LEMMA AppendPacket ==
    ASSUME NEW ks \in Seq(Good), NEW p \in Good
    PROVE  /\ Append(ks, p) \in Seq(Good)
           /\ FlattenSeq(Append(ks, p)) = FlattenSeq(ks) \o p
           /\ IntactOf(Append(ks, p)) = IntactOf(ks) \o (IF p \in Intact THEN <<p>> ELSE <<>>)
           /\ \A gs \in Seq(Good) : Append(gs \o ks, p) = gs \o Append(ks, p)
  <1>1. p \in Seq(Byte) /\ ks \in Seq(Seq(Byte)) /\ <<p>> \in Seq(Good)
    BY Packet, Packets
  <1>2. Append(ks, p) = ks \o <<p>> /\ Append(ks, p) \in Seq(Good)
    BY AppendIsConcat
  <1>3. FlattenSeq(Append(ks, p)) = FlattenSeq(ks) \o p
    BY <1>1, FlattenAppend
  <1> DEFINE o == <<p>>
  <1>4. o \in Seq(Seq(Byte)) /\ o \in Seq(Good)
    BY <1>1
  <1>5. IntactOf(o) = IF p \in Intact THEN <<p>> ELSE <<>>
    BY <1>1, IntactOfOne
  <1>6. Append(ks, p) = ks \o o
    BY <1>2
  <1>7. ASSUME NEW gs \in Seq(Good) PROVE Append(gs \o ks, p) = gs \o Append(ks, p)
    <2> DEFINE c == gs \o ks
    <2>1. c \in Seq(Good)
      BY ConcatProperties
    <2>2. Append(c, p) = c \o o
      BY <2>1, AppendIsConcat
    <2> HIDE DEF o
    <2>r. Regroups(gs, ks, o)
      BY <1>4, Regroup
    <2>3. (gs \o ks) \o o = gs \o (ks \o o)
      BY <2>r DEF Regroups
    <2> QED
      BY <1>6, <2>2, <2>3
  <1> HIDE DEF o
  <1>8. IntactOf(ks \o o) = IntactOf(ks) \o IntactOf(o)
    BY <1>1, <1>4, IntactOfConcat
  <1> QED
    BY <1>2, <1>3, <1>5, <1>6, <1>7, <1>8

(* A packet that is sent is one more that has not been passed.             *)
LEMMA SendDelivers ==
    ASSUME StreamInv, DeliveredInv, NEW packet \in Intact \cup Damage, Send(packet)
    PROVE  DeliveredInv'
  <1> SUFFICES ASSUME ~cut', sent' \in Seq(Good)
               PROVE  Delivered'
    BY DEF DeliveredInv
  <1>1. /\ sent' = Append(sent, packet) /\ wire' = wire \o packet
        /\ buffer' = buffer /\ emitted' = emitted /\ discarded' = discarded
        /\ invalid' = invalid /\ cut' = cut
    BY DEF Send, decoder
  <1>2. /\ sent \in Seq(Intact \cup Damage) /\ wire \in Seq(Byte) /\ buffer \in Seq(Byte)
        /\ packet \in Seq(Byte)
    BY FrameAssumption, StreamAssumption DEF StreamInv, StreamType
  <1>3. /\ Len(sent') = Len(sent) + 1 /\ Len(sent) \in Nat
        /\ \A i \in 1..Len(sent) : sent'[i] = sent[i]
        /\ sent'[Len(sent) + 1] = packet
    BY <1>1, <1>2, AppendProperties
  <1>4. packet \in Good /\ \A i \in 1..Len(sent) : sent[i] \in Good
    <2>1. \A i \in 1..Len(sent') : sent'[i] \in Good
      BY ElementOfSeq
    <2>2. Len(sent) + 1 \in 1..Len(sent') /\ \A i \in 1..Len(sent) : i \in 1..Len(sent')
      BY <1>3
    <2> QED
      BY <1>3, <2>1, <2>2
  <1>5. sent \in Seq(Good)
    BY <1>2, <1>4, SeqDef
  <1>6. PICK gs, ks \in Seq(Good), l \in Seq(Byte) : DeliveredBy(gs, ks, l)
    BY <1>1, <1>5 DEF DeliveredInv, Delivered
  <1>7. /\ sent = gs \o ks /\ emitted = IntactOf(gs)
        /\ Pending(buffer, wire, l, ks)
        /\ wire = <<>> => IntactOf(ks) = <<>>
        /\ AllIntact(sent) => discarded = 0 /\ invalid = 0 /\ l = <<>>
    BY <1>6 DEF DeliveredBy
  <1> DEFINE t == FlattenSeq(ks)
             hs == Append(ks, packet)
  <1>8. /\ hs \in Seq(Good) /\ FlattenSeq(hs) = t \o packet /\ t \in Seq(Byte)
        /\ IntactOf(hs) = IntactOf(ks) \o (IF packet \in Intact THEN <<packet>> ELSE <<>>)
        /\ sent' = gs \o hs
    <2>1. /\ hs \in Seq(Good) /\ FlattenSeq(hs) = t \o packet
          /\ IntactOf(hs) = IntactOf(ks) \o (IF packet \in Intact THEN <<packet>> ELSE <<>>)
          /\ \A fs \in Seq(Good) : Append(fs \o ks, packet) = fs \o hs
      BY <1>4, AppendPacket
    <2>2. t \in Seq(Byte)
      BY Packets
    <2> HIDE DEF hs, t
    <2>3. Append(gs \o ks, packet) = gs \o hs
      BY <2>1
    <2> QED
      BY <1>1, <1>7, <2>1, <2>2, <2>3, Zenon
  <1> HIDE DEF hs, t
  <1>9. Pending(buffer', wire', l, hs)
    <2>1. buffer \o wire = l \o t /\ Starts(l) = {}
      BY <1>7 DEF Pending, t
    <2>2. Regroups(buffer, wire, packet) /\ Regroups(l, t, packet)
      BY <1>2, <1>8, Regroup
    <2>3. buffer \o (wire \o packet) = l \o (t \o packet)
      BY <2>1, <2>2 DEF Regroups
    <2>4. wire' \in Seq(Byte)
      BY <1>1, <1>2, ConcatProperties
    <2> QED
      BY <1>1, <1>2, <1>8, <2>1, <2>3, <2>4 DEF Pending
  <1>10. wire' = <<>> => IntactOf(hs) = <<>>
    <2> SUFFICES ASSUME wire' = <<>> PROVE IntactOf(hs) = <<>>
      OBVIOUS
    <2>1. wire = <<>> /\ packet = <<>>
      <3>1. wire \o packet = <<>> => wire = <<>> /\ packet = <<>>
        BY <1>2, ConcatEqualIffEmpty
      <3> QED
        BY <1>1, <3>1
    <2>2. packet \notin Intact
      BY <2>1, FrameAssumption DEF Starts
    <2>3. IntactOf(hs) = <<>> \o <<>>
      BY <1>7, <1>8, <2>1, <2>2
    <2> QED
      BY <2>3
  <1>11. AllIntact(sent') => AllIntact(sent)
    <2>1. \A i \in 1..Len(sent) : i \in 1..Len(sent')
      BY <1>3
    <2> QED
      BY <1>3, <2>1 DEF AllIntact
  <1>12. DeliveredBy(gs, hs, l)'
    BY <1>1, <1>7, <1>8, <1>9, <1>10, <1>11 DEF DeliveredBy
  <1> QED
    BY <1>8, <1>12 DEF Delivered

(* A chunk moves the border between what is buffered and what is under     *)
(* way.                                                                    *)
LEMMA ReceivePending ==
    ASSUME StreamType, NEW n \in 1..Len(wire), NEW ks \in Seq(Good), NEW l \in Seq(Byte),
           Pending(buffer, wire, l, ks), Fed(n, Decode[buffer \o SubSeq(wire, 1, n)])
    PROVE  Pending(buffer \o SubSeq(wire, 1, n), wire', l, ks)
  <1> DEFINE d == SubSeq(wire, 1, n)
             x == SubSeq(wire, n + 1, Len(wire))
  <1>1. wire \in Seq(Byte) /\ buffer \in Seq(Byte)
    BY DEF StreamType
  <1>2. d \in Seq(Byte) /\ x \in Seq(Byte) /\ wire = d \o x
    BY <1>1, WireSplit
  <1>3. wire' = x
    BY DEF Fed
  <1>4. l \in Seq(Byte) /\ ks \in Seq(Good) /\ Starts(l) = {}
        /\ buffer \o wire = l \o FlattenSeq(ks)
    BY DEF Pending
  <1> HIDE DEF d, x
  <1>5. Regroups(buffer, d, x)
    BY <1>1, <1>2, Regroup
  <1>6. (buffer \o d) \o x = l \o FlattenSeq(ks)
    BY <1>2, <1>4, <1>5 DEF Regroups
  <1>7. buffer \o d \in Seq(Byte)
    BY <1>1, <1>2, ConcatProperties
  <1>8. Pending(buffer \o d, x, l, ks)
    BY <1>2, <1>4, <1>6, <1>7 DEF Pending
  <1> QED
    BY <1>3, <1>8 DEF d

(* Frames alone are not counted as rejected.                               *)
LEMMA IntactNotRejected ==
    ASSUME NEW gs \in Seq(Good)
    PROVE  Rejected(IntactOf(gs)) = 0
  <1> DEFINE f == IntactOf(gs)
  <1>1. f \in Seq(Intact)
    BY Packets, MarkType
  <1> HIDE DEF f
  <1>2. {i \in DOMAIN f : f[i] \notin Intact} = {}
    BY <1>1
  <1>3. Rejected(f) = 0
    BY <1>2, FS_EmptySet DEF Rejected
  <1> QED
    BY <1>3 DEF f

(* The frames among packets that follow each other, for packets.           *)
LEMMA IntactPackets ==
    ASSUME NEW gs \in Seq(Good), NEW hs \in Seq(Good)
    PROVE  IntactOf(gs \o hs) = IntactOf(gs) \o IntactOf(hs)
  BY Packets, IntactOfConcat

(* A chunk passes more packets, and their frames are returned.             *)
LEMMA ReceiveDelivers ==
    ASSUME NoFrameInside, NoSplitStart, StreamInv, DeliveredInv,
           NEW n \in 1..Len(wire), Receive(n)
    PROVE  DeliveredInv'
  <1> SUFFICES ASSUME ~cut', sent' \in Seq(Good)
               PROVE  Delivered'
    BY DEF DeliveredInv
  <1> DEFINE b == buffer \o SubSeq(wire, 1, n)
             r == Decode[b]
  <1>1. Fed(n, r)
    BY ReceiveFeeds DEF StreamInv
  <1>2. /\ wire' \in Seq(Byte) /\ buffer' = r.rest /\ emitted' = emitted \o r.frames
        /\ discarded' = discarded + r.discarded
        /\ invalid' = invalid + r.malformed + Rejected(r.frames)
        /\ sent' = sent /\ cut' = cut
    BY <1>1 DEF Fed
  <1>3. PICK gs, ks \in Seq(Good), l \in Seq(Byte) : DeliveredBy(gs, ks, l)
    BY <1>2 DEF DeliveredInv, Delivered
  <1>4. /\ sent = gs \o ks /\ emitted = IntactOf(gs)
        /\ Pending(buffer, wire, l, ks)
        /\ wire = <<>> => IntactOf(ks) = <<>>
        /\ AllIntact(sent) => discarded = 0 /\ invalid = 0 /\ l = <<>>
    BY <1>3 DEF DeliveredBy
  <1>5. Pending(b, wire', l, ks)
    BY <1>1, <1>4, ReceivePending DEF StreamInv
  <1> HIDE DEF b
  <1>6. Resumes(wire', l, ks, r)
    <2>1. b \in Seq(Byte)
      BY <1>5 DEF Pending
    <2> QED
      BY <1>2, <1>5, <2>1, DecodeResumes
  <1> HIDE DEF r
  <1>7. PICK gs2, ks2 \in Seq(Good), l2 \in Seq(Byte) :
            /\ ks = gs2 \o ks2 /\ r.frames = IntactOf(gs2)
            /\ Pending(r.rest, wire', l2, ks2)
            /\ wire' = <<>> => IntactOf(ks2) = <<>>
            /\ Clean(l, ks) => r.discarded = 0 /\ r.malformed = 0 /\ l2 = <<>>
    BY <1>6 DEF Resumes
  <1> DEFINE fs == gs \o gs2
  <1>8. fs \in Seq(Good) /\ sent' = fs \o ks2
    <2>r. Regroups(gs, gs2, ks2)
      BY Regroup
    <2>1. (gs \o gs2) \o ks2 = gs \o (gs2 \o ks2)
      BY <2>r DEF Regroups
    <2>2. gs \o gs2 \in Seq(Good)
      BY ConcatProperties
    <2> QED
      BY <1>2, <1>4, <1>7, <2>1, <2>2
  <1>9. emitted' = IntactOf(fs)
    <2>1. IntactOf(gs \o gs2) = IntactOf(gs) \o IntactOf(gs2)
      BY IntactPackets
    <2>2. emitted' = IntactOf(gs) \o IntactOf(gs2)
      BY <1>2, <1>4, <1>7, Zenon
    <2> QED
      BY <2>1, <2>2
  <1>10. ASSUME AllIntact(sent') PROVE discarded' = 0 /\ invalid' = 0 /\ l2 = <<>>
    <2>1. AllIntact(sent)
      BY <1>2, <1>10
    <2>2. discarded = 0 /\ invalid = 0 /\ l = <<>>
      BY <1>4, <2>1
    <2>3. \A i \in 1..Len(ks) : ks[i] \in Intact
      <3> SUFFICES ASSUME NEW i \in 1..Len(ks) PROVE ks[i] \in Intact
        OBVIOUS
      <3>1. /\ Len(gs \o ks) = Len(gs) + Len(ks) /\ Len(gs) \in Nat /\ Len(ks) \in Nat
            /\ \A k \in 1..(Len(gs) + Len(ks)) :
                   (gs \o ks)[k] = IF k <= Len(gs) THEN gs[k] ELSE ks[k - Len(gs)]
        BY ConcatProperties
      <3>2. /\ Len(gs) + i \in 1..(Len(gs) + Len(ks)) /\ ~(Len(gs) + i <= Len(gs))
            /\ (Len(gs) + i) - Len(gs) = i
        BY <3>1
      <3>3. (gs \o ks)[Len(gs) + i] = ks[i]
        BY <3>1, <3>2
      <3>4. Len(gs) + i \in 1..Len(sent)
        BY <1>4, <3>1, <3>2
      <3>5. sent[Len(gs) + i] \in Intact
        BY <2>1, <3>4 DEF AllIntact
      <3> QED
        BY <1>4, <3>3, <3>5
    <2>4. r.discarded = 0 /\ r.malformed = 0 /\ l2 = <<>>
      BY <1>7, <2>2, <2>3 DEF Clean
    <2>5. Rejected(r.frames) = 0
      BY <1>7, IntactNotRejected
    <2> QED
      BY <1>2, <2>2, <2>4, <2>5
  <1> HIDE DEF fs
  <1>11. DeliveredBy(fs, ks2, l2)'
    BY <1>2, <1>7, <1>8, <1>9, <1>10 DEF DeliveredBy
  <1> QED
    BY <1>8, <1>11 DEF Delivered

(* Every step keeps the invariant.                                         *)
LEMMA DeliveredStep ==
    ASSUME NoFrameInside, NoSplitStart, StreamInv, DeliveredInv, [Next]_vars
    PROVE  DeliveredInv'
  <1>1. ASSUME NEW packet \in Intact \cup Damage, Send(packet) PROVE DeliveredInv'
    BY <1>1, SendDelivers
  <1>2. ASSUME NEW n \in 1..Len(wire), Receive(n) PROVE DeliveredInv'
    BY <1>2, ReceiveDelivers
  <1>3. CASE PartialTimeout
    BY <1>3 DEF PartialTimeout, DeliveredInv
  <1>4. CASE Reconnect
    <2>1. Fresh'
      BY <1>4 DEF Reconnect, Fresh
    <2>2. Delivered'
      BY <2>1, NothingSent, PTL
    <2> QED
      BY <2>2 DEF DeliveredInv
  <1>5. CASE Consumer \/ UNCHANGED vars
    <2>1. UNCHANGED <<sent, wire, buffer, emitted, discarded, cut, invalid>>
      BY <1>5 DEF Consumer, vars, decoder
    <2> QED
      BY <2>1 DEF DeliveredInv, Delivered, DeliveredBy
  <1> QED
    BY <1>1, <1>2, <1>3, <1>4, <1>5 DEF Next, Stream

(* The invariant says what comes out.                                      *)
LEMMA DeliveredExact ==
    ASSUME StreamInv, DeliveredInv
    PROVE  FramesExact
  <1> DEFINE frames == IntactOf(sent)
  <1> SUFFICES ASSUME ~cut, \A i \in 1..Len(sent) : sent[i] \in Intact \/ Recoverable(sent[i])
               PROVE  /\ IsPrefix(emitted, frames)
                      /\ wire = <<>> => emitted = frames
                      /\ Len(frames) = Len(sent) => discarded = 0 /\ invalid = 0
    BY DEF FramesExact
  <1>1. sent \in Seq(Good) /\ sent \in Seq(Seq(Byte))
    <2>1. sent \in Seq(Intact \cup Damage)
      BY DEF StreamInv, StreamType
    <2>2. \A i \in 1..Len(sent) : sent[i] \in Good
      BY <2>1, ElementOfSeq DEF Good
    <2>3. sent \in Seq(Good)
      BY <2>1, <2>2, SeqDef
    <2> QED
      BY <2>3, Packets
  <1>2. PICK gs, ks \in Seq(Good), l \in Seq(Byte) : DeliveredBy(gs, ks, l)
    BY <1>1 DEF DeliveredInv, Delivered
  <1>3. /\ sent = gs \o ks /\ emitted = IntactOf(gs)
        /\ wire = <<>> => IntactOf(ks) = <<>>
        /\ AllIntact(sent) => discarded = 0 /\ invalid = 0
    BY <1>2 DEF DeliveredBy
  <1> DEFINE g == IntactOf(gs)
             k == IntactOf(ks)
  <1>4. frames = g \o k /\ g \in Seq(Intact) /\ k \in Seq(Intact)
    BY <1>3, IntactPackets, Packets, MarkType
  <1>5. Len(frames) = Len(sent) => AllIntact(sent)
    BY <1>1, IntactOfLengths DEF AllIntact
  <1> HIDE DEF frames, g, k
  <1>6. IsPrefix(g, frames)
    BY <1>4, ConcatProperties DEF IsPrefix
  <1>7. k = <<>> => g = frames
    BY <1>4, ConcatEmptySeq
  <1> QED
    BY <1>3, <1>5, <1>6, <1>7 DEF g, k

(* "Assemble complete Lux frames across arbitrary TCP read boundaries":    *)
(* for every set of frames and of recoverable damage, every stream of      *)
(* them and every way to cut it, feed() returns exactly the frames sent,   *)
(* in order, all of them once their last byte has arrived. No frame may    *)
(* hold a whole other one, and noise after noise must not make a prefix:   *)
(* the decoder cannot tell either from a frame.                            *)
THEOREM FramesComeOut ==
    ASSUME NoFrameInside, NoSplitStart
    PROVE  Spec => []FramesExact
  <1>1. Init => DeliveredInv
    BY NothingSent DEF Init, Fresh, DeliveredInv
  <1>2. StreamInv /\ DeliveredInv /\ [Next]_vars => DeliveredInv'
    BY DeliveredStep
  <1>3. StreamInv /\ DeliveredInv => FramesExact
    BY DeliveredExact
  <1> QED
    BY <1>1, <1>2, <1>3, StreamInvariant, PTL DEF Spec
=============================================================================
