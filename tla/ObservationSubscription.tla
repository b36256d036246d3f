------------------------ MODULE ObservationSubscription ------------------------
(***************************************************************************)
(* LuxObservationSubscription (custom_components/lxp_modbus/classes/       *)
(* read_session.py): one bounded stream of accepted observations with one  *)
(* consumer.  An observation is its sequence number.  The subscription is  *)
(* opened, read, drained and closed by any task; a subscription opened     *)
(* after a close is a new one.                                             *)
(***************************************************************************)
EXTENDS Integers, Sequences

CONSTANTS
    Capacity,        \* max_queue_size
    MaxSubscribes    \* bound: subscriptions opened

ASSUME CapacityAssumption == Capacity \in Nat \ {0} /\ MaxSubscribes \in Nat

VARIABLES
    sequence,        \* the session's _observation_sequence
    active,          \* state.active
    queue,           \* state.queue
    waiting,         \* state.consumer_waiting, in queue.get()
    received,        \* state.observations_received
    dropped,         \* state.observations_dropped
    base,            \* the sequence number when the subscription was opened
    taken,           \* observations the consumer has got
    latest,          \* the last one of them
    subscribes       \* counter of the bound

subscription == <<active, queue, waiting, received, dropped, base, taken, latest>>

(* _OBSERVATION_SUBSCRIPTION_CLOSED, told apart from sequence numbers.     *)
Closed == 0

SubscriptionInit ==
    /\ sequence = 0 /\ active = FALSE /\ queue = <<>> /\ waiting = FALSE
    /\ received = 0 /\ dropped = 0 /\ base = 0 /\ taken = 0 /\ latest = 0
    /\ subscribes = 0

Subscribe ==
    /\ ~active /\ ~waiting /\ subscribes < MaxSubscribes
    /\ active' = TRUE /\ queue' = <<>>
    /\ received' = 0 /\ dropped' = 0 /\ base' = sequence
    /\ taken' = 0 /\ latest' = 0
    /\ subscribes' = subscribes + 1
    /\ UNCHANGED <<sequence, waiting>>

(* _publish_observation for the next n observations, one after the other:  *)
(* a full queue loses its oldest for each that is put.                     *)
Excess(q) == IF Len(q) > Capacity THEN Len(q) - Capacity ELSE 0
Newest(q) == SubSeq(q, Excess(q) + 1, Len(q))
Oldest(q) == SubSeq(q, 1, Len(q) - Excess(q))        \* mutant of Kept
Kept(q) == Newest(q)
Publish(n) ==
    LET filled == queue \o [i \in 1..n |-> sequence + i] IN
    /\ sequence' = sequence + n
    /\ IF active
       THEN queue' = Kept(filled) /\ dropped' = dropped + Excess(filled)
            /\ received' = received + n
       ELSE UNCHANGED <<queue, dropped, received>>
    /\ UNCHANGED <<active, waiting, base, taken, latest, subscribes>>

(* async_next: at once, or once something has been put.                    *)
Take ==
    /\ queue # <<>>
    /\ queue' = Tail(queue)
    /\ IF Head(queue) = Closed
       THEN UNCHANGED <<taken, latest>>
       ELSE taken' = taken + 1 /\ latest' = Head(queue)
    /\ waiting' = FALSE
    /\ UNCHANGED <<sequence, active, received, dropped, base, subscribes>>
NextAtOnce == active /\ ~waiting /\ Take
NextWaits ==
    /\ active /\ ~waiting /\ queue = <<>>
    /\ waiting' = TRUE
    /\ UNCHANGED <<sequence, active, queue, received, dropped, base, taken,
                   latest, subscribes>>
NextResumes == waiting /\ Take

(* The wait ends by its timeout or a cancellation.                         *)
NextEnds ==
    /\ waiting
    /\ waiting' = FALSE
    /\ UNCHANGED <<sequence, active, queue, received, dropped, base, taken,
                   latest, subscribes>>

(* drain(), by the one consumer, who then does not wait.                   *)
Drain ==
    /\ ~waiting /\ queue # <<>>
    /\ queue' = <<>>
    /\ IF Head(queue) = Closed
       THEN UNCHANGED <<taken, latest>>
       ELSE taken' = taken + Len(queue) /\ latest' = queue[Len(queue)]
    /\ UNCHANGED <<sequence, active, waiting, received, dropped, base, subscribes>>

(* close(): the queue is emptied and a consumer that waits is woken.       *)
WakeUp == IF waiting THEN <<Closed>> ELSE <<>>
WakeUpForgotten == <<>>                              \* mutant of LastWords
LastWords == WakeUp
Unsubscribe ==
    /\ active
    /\ active' = FALSE /\ queue' = LastWords
    /\ UNCHANGED <<sequence, waiting, received, dropped, base, taken, latest,
                   subscribes>>

ConsumerStep ==
    \/ Subscribe \/ NextAtOnce \/ NextWaits \/ NextResumes \/ NextEnds
    \/ Drain \/ Unsubscribe

SubscriptionNext == ConsumerStep \/ \E n \in Nat : Publish(n)
SubscriptionSpec ==
    SubscriptionInit /\ [][SubscriptionNext]_<<sequence, subscription, subscribes>>

-----------------------------------------------------------------------------
FlagsType == active \in BOOLEAN /\ waiting \in BOOLEAN
CountersType ==
    /\ sequence \in Nat /\ received \in Nat /\ dropped \in Nat /\ base \in Nat
    /\ taken \in Nat /\ latest \in Nat /\ subscribes \in 0..MaxSubscribes
QueueType == queue \in Seq(Nat) /\ Len(queue) <= Capacity
SubscriptionType == FlagsType /\ CountersType /\ QueueType

(* "Per-subscription counters and monotonically increasing observation     *)
(* sequence numbers expose delivery gaps": every observation accepted      *)
(* since the subscription was opened has been taken, dropped or is queued, *)
(* the queue is the run of the newest ones without a gap, and they are     *)
(* newer than what was taken.                                              *)
GapsExposed ==
    active =>
        /\ received = sequence - base
        /\ received = taken + dropped + Len(queue)
        /\ \A i \in 1..Len(queue) : queue[i] = sequence - Len(queue) + i
        /\ latest <= sequence - Len(queue)

(* "wake a pending consumer": a consumer never waits on a subscription     *)
(* that is closed, whatever was put or taken before the close.             *)
ConsumerWoken == waiting => active \/ queue # <<>>
=============================================================================
