------------------------------ MODULE ReadSession ------------------------------
(***************************************************************************)
(* LuxReadSession (custom_components/lxp_modbus/classes/read_session.py):  *)
(* one TCP connection at a time, one reader task that alone reads from it, *)
(* and coroutines that write FC4 reads and wait for the reader to complete *)
(* their future.  FC4 carries no transaction identifier, so the session    *)
(* tells connections apart by a generation number and gives up a whole     *)
(* connection whenever a request ends without a reply.                     *)
(*                                                                         *)
(* One step of the model is what one task does between two awaits.  A      *)
(* connection, its reader task and the reads written on it are named by    *)
(* the generation the connection was opened with.  Deadlines are choices:  *)
(* they may expire at any await they bound.  Frames are reduced to their   *)
(* range and to the read they answer, which the code cannot see and only   *)
(* the properties use.                                                     *)
(***************************************************************************)
EXTENDS Integers, Sequences, FiniteSets, SequencesExt

CONSTANTS
    Callers,          \* coroutines inside async_read_input
    Controllers,      \* coroutines that connect, close and reconnect
    Requested,        \* the register ranges [start, count] that are read
    Pushed,           \* the ranges the dongle also reports unasked
    None,             \* Python's None
    MaxRequests,      \* bound: reads submitted
    MaxCalls,         \* bound: lifecycle calls
    MaxPushes         \* bound: unsolicited frames

VARIABLES
    generation,       \* self._generation
    connection,       \* generation of the installed reader, writer and task
    refusal,          \* the error of a read without connection: _connection_lost
    sockets,          \* connections whose writer has not been closed
    reading,          \* connections whose reader task is in its loop
    failing,          \* connections whose reader task wants the lifecycle lock
    changes,          \* closes, losses and connections so far; read by properties only
    lifecycle,        \* self._lifecycle_lock: holder, then waiters in order
    requestLock,      \* self._request_lock: its holder
    pending,          \* self._pending: the caller whose read it is
    step,             \* where each caller is in async_read_input
    read,             \* each caller's current or latest read
    future,           \* the state of that read's future
    answer,           \* the read whose answer completed the future, or 0
    outcome,          \* how that read ended
    call,             \* where each controller is in its lifecycle call
    expected,         \* the generation a reconnect expects after its close
    noted,            \* `changes` when that call began; read by properties only
    unanswered,       \* reads the dongle received and may still answer
    observed,         \* sequence number of each range's latest observation
    sequence,         \* self._observation_sequence
    requests,         \* self._explicit_requests
    calls, pushes     \* counters of the bounds

Block == [start : Nat, count : Nat]
ASSUME RangeAssumption ==
    Requested # {} /\ Requested \subseteq Block /\ Pushed \subseteq Block
ASSUME TaskAssumption ==
    /\ Callers \cap Controllers = {} /\ (Callers \cup Controllers) \cap Nat = {}
    /\ None \notin Callers \cup Controllers \cup Nat

session == <<generation, connection, refusal, sockets, reading, failing, changes>>
result == <<future, answer, outcome>>
calling == <<call, expected, noted>>
cache == <<observed, sequence>>
bounds == <<calls, pushes>>
vars == <<session, lifecycle, requestLock, pending, step, read, result, calling,
          unanswered, cache, requests, bounds>>

Tasks == Callers \cup Controllers \cup Nat
Reports == Requested \cup Pushed
Critical == {"draining", "awaiting", "closeWait", "closing"}
Futures == {"waiting", "matched", "rejected", "lost", "closed", "cancelled"}
Outcomes == {"none", "success", "rejected", "lost", "closed", "timeout",
             "ambiguous", "cancelled"}
Calls == {"connect", "close", "reconnect"}

(* Stands for a caller's latest read before its first one.                 *)
NoRead == [id |-> 0, range |-> CHOOSE r \in Requested : TRUE, conn |-> 0,
              gen |-> 0, since |-> 0]

Init ==
    /\ generation = 0 /\ connection = None /\ refusal = "closed"
    /\ sockets = {} /\ reading = {} /\ failing = {} /\ changes = 0
    /\ lifecycle = <<>> /\ requestLock = None /\ pending = None
    /\ step = [p \in Callers |-> "idle"]
    /\ read = [p \in Callers |-> NoRead]
    /\ future = [p \in Callers |-> "cancelled"]
    /\ answer = [p \in Callers |-> 0]
    /\ outcome = [p \in Callers |-> "none"]
    /\ call = [c \in Controllers |-> "none"]
    /\ expected = [c \in Controllers |-> 0] /\ noted = [c \in Controllers |-> 0]
    /\ unanswered = {}
    /\ observed = [r \in Reports |-> 0] /\ sequence = 0 /\ requests = 0
    /\ calls = 0 /\ pushes = 0

-----------------------------------------------------------------------------
(* The property `connected`, and the effects several handlers share.       *)

Connected == connection # None /\ connection \in reading \cup failing

(* asyncio.Lock is taken without an await only when nobody holds it or     *)
(* waits for it; a released lock goes to the first waiter.                 *)
LockFree == lifecycle = <<>>
HasLock(t) == lifecycle # <<>> /\ Head(lifecycle) = t
Release(t) == HasLock(t) /\ lifecycle' = Tail(lifecycle)
StopWaiting(t) ==
    \E i \in 1..Len(lifecycle) :
        /\ lifecycle[i] = t
        /\ lifecycle' = RemoveAt(lifecycle, i)

(* Mutant of FailPending: the pending read stays installed.                *)
FailPendingKept(why) ==
    /\ pending' = pending
    /\ future' = [p \in Callers |->
                    IF p = pending /\ future[p] = "waiting" THEN why ELSE future[p]]
    /\ UNCHANGED <<answer, outcome>>

(* _fail_pending.                                                          *)
FailPending(why) ==
    /\ pending' = None
    /\ future' = [p \in Callers |->
                    IF p = pending /\ future[p] = "waiting" THEN why ELSE future[p]]
    /\ UNCHANGED <<answer, outcome>>

(* Mutant of Teardown: the generation survives the close.                  *)
TeardownSame(g) ==
    /\ generation' = g
    /\ connection' = None
    /\ refusal' = "closed"
    /\ sockets' = sockets \ {connection}
    /\ reading' = reading \ {connection}
    /\ failing' = failing \ {connection}
    /\ changes' = changes + 1

(* The synchronous part of async_close, before its first await, with the   *)
(* generation at g: the reader task is cancelled and the writer closed.    *)
Teardown(g) ==
    /\ generation' = g + 1
    /\ connection' = None
    /\ refusal' = "closed"
    /\ sockets' = sockets \ {connection}
    /\ reading' = reading \ {connection}
    /\ failing' = failing \ {connection}
    /\ changes' = changes + 1

TaintNothing == UNCHANGED session      \* mutant of Taint

(* _taint_current_generation, while the connection itself stays.           *)
Taint ==
    /\ generation' = generation + 1
    /\ UNCHANGED <<connection, refusal, sockets, reading, failing, changes>>

(* The synchronous part of _reader_failed once it holds the lock.          *)
Loss(g) ==
    /\ generation' = generation + 1
    /\ connection' = None
    /\ refusal' = "lost"
    /\ sockets' = sockets \ {connection}
    /\ reading' = reading \ {g}
    /\ failing' = failing \ {g}
    /\ changes' = changes + 1
    /\ FailPending("lost")

-----------------------------------------------------------------------------
(* async_read_input                                                        *)

(* A call arrives and waits for the request lock.                          *)
Arrive(p) ==
    /\ step[p] = "idle"
    /\ requests + Cardinality({q \in Callers : step[q] = "queued"}) < MaxRequests
    /\ step' = [step EXCEPT ![p] = "queued"]
    /\ UNCHANGED <<session, lifecycle, requestLock, pending, read, result,
                   calling, unanswered, cache, requests, bounds>>

(* With the lock and a live connection: the read becomes the pending one   *)
(* and its packet is written to the socket.                                *)
Submit(p, r) ==
    /\ step[p] = "queued" /\ requestLock = None
    /\ Connected /\ pending = None
    /\ requestLock' = p
    /\ requests' = requests + 1
    /\ pending' = p
    /\ read' = [read EXCEPT ![p] =
                  [id |-> requests + 1, range |-> r, conn |-> connection,
                   gen |-> generation, since |-> sequence]]
    /\ future' = [future EXCEPT ![p] = "waiting"]
    /\ answer' = [answer EXCEPT ![p] = 0]
    /\ outcome' = [outcome EXCEPT ![p] = "none"]
    /\ unanswered' = unanswered \cup
                       {[id |-> requests + 1, range |-> r, conn |-> connection]}
    /\ step' = [step EXCEPT ![p] = "draining"]
    /\ UNCHANGED <<session, lifecycle, calling, cache, bounds>>

(* With the lock and no connection: ConnectionLost or SessionClosed, as    *)
(* `refusal` says.                                                         *)
Refuse(p) ==
    /\ step[p] = "queued"
    /\ requestLock = None /\ ~Connected
    /\ step' = [step EXCEPT ![p] = "idle"]
    /\ UNCHANGED <<session, lifecycle, requestLock, pending, read, result,
                   calling, unanswered, cache, requests, bounds>>

(* The caller is cancelled before it has the lock.                         *)
CancelQueued(p) ==
    /\ step[p] = "queued"
    /\ step' = [step EXCEPT ![p] = "idle"]
    /\ UNCHANGED <<session, lifecycle, requestLock, pending, read, result,
                   calling, unanswered, cache, requests, bounds>>

DrainDone(p) ==
    /\ step[p] = "draining"
    /\ step' = [step EXCEPT ![p] = "awaiting"]
    /\ UNCHANGED <<session, lifecycle, requestLock, pending, read, result,
                   calling, unanswered, cache, requests, bounds>>

(* The caller resumes with its future's result or exception.               *)
Return(p) ==
    /\ step[p] = "awaiting"
    /\ future[p] \in {"matched", "rejected", "lost", "closed"}
    /\ outcome' = [outcome EXCEPT ![p] =
                      IF future[p] = "matched" THEN "success" ELSE future[p]]
    /\ step' = [step EXCEPT ![p] = "idle"]
    /\ requestLock' = None
    /\ UNCHANGED <<session, lifecycle, pending, read, future, answer, calling,
                   unanswered, cache, requests, bounds>>

(* The handlers of a deadline, of an I/O error in drain() and of a         *)
(* cancellation.  A deadline can expire although the future is done and    *)
(* the caller about to resume.  The handler drops its pending read, taints *)
(* the generation -- whichever is current by now -- and calls async_close, *)
(* which waits only if the lifecycle lock is taken.  No read but p's can   *)
(* be pending (PendingHasOwner), so async_close finds none to fail.        *)
Fail(p, why) ==
    /\ \/ step[p] = "draining" /\ why \in {"ambiguous", "cancelled"}
       \/ step[p] = "awaiting" /\ why \in {"timeout", "cancelled"}
    /\ pending' = IF pending = p THEN None ELSE pending
    /\ future' = [future EXCEPT ![p] = IF @ = "waiting" THEN "cancelled" ELSE @]
    /\ outcome' = [outcome EXCEPT ![p] = why]
    /\ IF LockFree
       THEN /\ Teardown(generation + 1)
            /\ lifecycle' = <<p>>
            /\ step' = [step EXCEPT ![p] = "closing"]
       ELSE /\ Taint
            /\ lifecycle' = Append(lifecycle, p)
            /\ step' = [step EXCEPT ![p] = "closeWait"]
    /\ UNCHANGED <<requestLock, read, answer, calling, unanswered, cache,
                   requests, bounds>>

CloseTurn(p) ==
    /\ step[p] = "closeWait" /\ HasLock(p)
    /\ Teardown(generation)
    /\ FailPending("closed")
    /\ step' = [step EXCEPT ![p] = "closing"]
    /\ UNCHANGED <<lifecycle, requestLock, read, calling, unanswered, cache,
                   requests, bounds>>

(* async_close has awaited the writer and the reader task, or was          *)
(* cancelled while it did: either way both locks are released.             *)
CloseEnd(p) ==
    /\ step[p] = "closing"
    /\ Release(p)
    /\ requestLock' = None
    /\ step' = [step EXCEPT ![p] = "idle"]
    /\ UNCHANGED <<session, pending, read, result, calling, unanswered, cache,
                   requests, bounds>>

(* The caller is cancelled while it waits for the lifecycle lock: the      *)
(* generation is tainted, and nothing is closed.                           *)
CancelCloseWait(p) ==
    /\ step[p] = "closeWait"
    /\ StopWaiting(p)
    /\ outcome' = [outcome EXCEPT ![p] = "cancelled"]
    /\ requestLock' = None
    /\ step' = [step EXCEPT ![p] = "idle"]
    /\ UNCHANGED <<session, pending, read, future, answer, calling, unanswered,
                   cache, requests, bounds>>

-----------------------------------------------------------------------------
(* _reader_loop and _route_frame.  A reader handles frames only while its  *)
(* connection's generation is current.                                     *)

Live(g) == g \in reading /\ g = generation

(* The pending read the router of connection g sees.                       *)
Sees(g) == pending # None /\ read[pending].gen = g

(* Mutant of Observe: stamped with the previous sequence number.           *)
ObserveEarly(r) ==
    /\ sequence' = sequence + 1
    /\ observed' = [observed EXCEPT ![r] = sequence]

(* A validated block is the newest observation of its range.               *)
Observe(r) ==
    /\ sequence' = sequence + 1
    /\ observed' = [observed EXCEPT ![r] = sequence + 1]

(* A validated FC4 block of range r, sent in answer to read id (0:         *)
(* unasked).  It always updates the cache; it completes the pending read   *)
(* when start and count agree.                                             *)
Accept(g, r, id) ==
    /\ Observe(r)
    /\ IF Sees(g) /\ read[pending].range = r
       THEN /\ pending' = None
            /\ future' = [p \in Callers |->
                            IF p = pending /\ future[p] = "waiting"
                            THEN "matched" ELSE future[p]]
            /\ answer' = [p \in Callers |->
                            IF p = pending /\ future[p] = "waiting"
                            THEN id ELSE answer[p]]
            /\ UNCHANGED outcome
       ELSE UNCHANGED <<pending, result>>

ReceiveAnswer(g, q) ==
    /\ Live(g) /\ q.conn = g
    /\ Accept(g, q.range, q.id)
    /\ unanswered' = unanswered \ {q}
    /\ UNCHANGED <<session, lifecycle, requestLock, step, read, calling,
                   requests, bounds>>

ReceivePush(g, r) ==
    /\ Live(g) /\ pushes < MaxPushes
    /\ Accept(g, r, 0)
    /\ pushes' = pushes + 1
    /\ UNCHANGED <<session, lifecycle, requestLock, step, read, calling,
                   unanswered, requests, calls>>

(* A Modbus exception answers q: it rejects the pending read when the      *)
(* start registers agree, and is an invalid frame otherwise.               *)
ReceiveRejection(g, q) ==
    /\ Live(g) /\ q.conn = g
    /\ IF Sees(g) /\ read[pending].range.start = q.range.start
       THEN FailPending("rejected")
       ELSE UNCHANGED <<pending, result>>
    /\ unanswered' = unanswered \ {q}
    /\ UNCHANGED <<session, lifecycle, requestLock, step, read, calling, cache,
                   requests, bounds>>

(* EOF, a reset or receive inactivity: _reader_failed takes the lifecycle  *)
(* lock, at once if it is free.                                            *)
ReaderError(g) ==
    /\ Live(g)
    /\ IF LockFree
       THEN Loss(g) /\ lifecycle' = <<g>>
       ELSE /\ reading' = reading \ {g}
            /\ failing' = failing \cup {g}
            /\ lifecycle' = Append(lifecycle, g)
            /\ UNCHANGED <<generation, connection, refusal, sockets, changes,
                           pending, result>>
    /\ UNCHANGED <<requestLock, step, read, calling, unanswered, cache, requests,
                   bounds>>

(* The lock reaches a reader that waited: its generation may have ended.   *)
LossTurn(g) ==
    /\ g \in failing /\ HasLock(g) /\ g = generation
    /\ Loss(g)
    /\ UNCHANGED <<lifecycle, requestLock, step, read, calling, unanswered, cache,
                   requests, bounds>>

(* _reader_failed is done, or returns at once for an ended generation.     *)
LossEnd(g) ==
    /\ Release(g) /\ (g \in failing => g # generation)
    /\ failing' = failing \ {g}
    /\ UNCHANGED <<generation, connection, refusal, sockets, reading, changes,
                   requestLock, pending, step, read, result, calling,
                   unanswered, cache, requests, bounds>>

(* A reader whose generation has ended drops what it read and exits.       *)
ReaderStale(g) ==
    /\ g \in reading /\ g # generation
    /\ reading' = reading \ {g}
    /\ UNCHANGED <<generation, connection, refusal, sockets, failing, changes,
                   lifecycle, requestLock, pending, step, read, result, calling,
                   unanswered, cache, requests, bounds>>

-----------------------------------------------------------------------------
(* async_connect, async_close and async_reconnect of a controller          *)

(* A reconnect notes the generation it expects once its own close is done. *)
Expect(op) == IF op = "reconnect" THEN generation + 1 ELSE 0

(* What a call notes when it begins.                                       *)
Begins(c, op) ==
    /\ expected' = [expected EXCEPT ![c] = Expect(op)]
    /\ noted' = [noted EXCEPT ![c] = changes]

(* c calls op and finds the lock taken.                                    *)
CallWait(c, op) ==
    /\ call[c] = "none" /\ calls < MaxCalls /\ ~LockFree
    /\ call' = [call EXCEPT ![c] = op]
    /\ Begins(c, op)
    /\ lifecycle' = Append(lifecycle, c)
    /\ calls' = calls + 1
    /\ UNCHANGED <<session, requestLock, pending, step, read, result,
                   unanswered, cache, requests, pushes>>

(* c enters op with the lock: either it calls and finds the lock free, or  *)
(* it has waited for it.                                                   *)
Enters(c, op) ==
    \/ /\ call[c] = "none" /\ calls < MaxCalls /\ LockFree
       /\ calls' = calls + 1
       /\ Begins(c, op)
    \/ /\ call[c] = op /\ HasLock(c)
       /\ UNCHANGED <<calls, expected, noted>>
WithLock(c) == IF LockFree THEN <<c>> ELSE lifecycle
WithoutLock == IF LockFree THEN lifecycle ELSE Tail(lifecycle)

Connect(c) ==
    /\ Enters(c, "connect")
    /\ IF Connected
       THEN lifecycle' = WithoutLock /\ call' = [call EXCEPT ![c] = "none"]
       ELSE lifecycle' = WithLock(c) /\ call' = [call EXCEPT ![c] = "dialing"]
    /\ UNCHANGED <<session, requestLock, pending, step, read, result,
                   unanswered, cache, requests, pushes>>

Close(c, op) ==
    /\ Enters(c, op)
    /\ Teardown(generation)
    /\ FailPending("closed")
    /\ lifecycle' = WithLock(c)
    /\ call' = [call EXCEPT ![c] = IF op = "close" THEN "closing" ELSE "reclosing"]
    /\ UNCHANGED <<requestLock, step, read, unanswered, cache, requests, pushes>>

(* The close is done, or was cancelled while it awaited the writer or the  *)
(* reader task, which ends a reconnect too.                                *)
CallCloseEnd(c) ==
    /\ call[c] \in {"closing", "reclosing"}
    /\ Release(c)
    /\ \/ call' = [call EXCEPT ![c] = "none"]
       \/ call[c] = "reclosing" /\ call' = [call EXCEPT ![c] = "delay"]
    /\ UNCHANGED <<session, requestLock, pending, step, read, result, expected,
                   noted, unanswered, cache, requests, bounds>>

(* async_reconnect after its delay: it waits for the lock if it must, and  *)
(* gives way if any other task changed the generation meanwhile.           *)
ReopenWait(c) ==
    /\ call[c] = "delay" /\ ~LockFree
    /\ call' = [call EXCEPT ![c] = "reopen"]
    /\ lifecycle' = Append(lifecycle, c)
    /\ UNCHANGED <<session, requestLock, pending, step, read, result, expected,
                   noted, unanswered, cache, requests, bounds>>

NeverOvertaken(c) == FALSE             \* mutant of Overtaken
Overtaken(c) == generation # expected[c]

Reopen(c) ==
    /\ \/ call[c] = "delay" /\ LockFree
       \/ call[c] = "reopen" /\ HasLock(c)
    /\ IF Overtaken(c) \/ Connected
       THEN lifecycle' = WithoutLock /\ call' = [call EXCEPT ![c] = "none"]
       ELSE lifecycle' = WithLock(c) /\ call' = [call EXCEPT ![c] = "dialing"]
    /\ UNCHANGED <<session, requestLock, pending, step, read, result, expected,
                   noted, unanswered, cache, requests, bounds>>

DialOk(c) ==
    /\ call[c] = "dialing"
    /\ generation' = generation + 1
    /\ connection' = generation + 1
    /\ refusal' = "closed"
    /\ sockets' = sockets \cup {generation + 1}
    /\ reading' = reading \cup {generation + 1}
    /\ Release(c)
    /\ changes' = changes + 1
    /\ call' = [call EXCEPT ![c] = "none"]
    /\ UNCHANGED <<failing, requestLock, pending, step, read, result, expected,
                   noted, unanswered, cache, requests, bounds>>

(* Refused, timed out or cancelled.                                        *)
DialFail(c) ==
    /\ call[c] = "dialing"
    /\ Release(c)
    /\ call' = [call EXCEPT ![c] = "none"]
    /\ UNCHANGED <<session, requestLock, pending, step, read, result, expected,
                   noted, unanswered, cache, requests, bounds>>

(* c is cancelled while it waits for the lock or sleeps.                   *)
CancelCall(c) ==
    /\ \/ call[c] \in Calls \cup {"reopen"} /\ StopWaiting(c)
       \/ call[c] = "delay" /\ UNCHANGED lifecycle
    /\ call' = [call EXCEPT ![c] = "none"]
    /\ UNCHANGED <<session, requestLock, pending, step, read, result, expected,
                   noted, unanswered, cache, requests, bounds>>

-----------------------------------------------------------------------------
CallerResumes(p) ==
    \/ \E r \in Requested : Submit(p, r)
    \/ Refuse(p) \/ DrainDone(p) \/ Return(p) \/ CloseTurn(p) \/ CloseEnd(p)
DrainDeadline(p) == Fail(p, "ambiguous")       \* mutant of Deadline
Deadline(p) == Fail(p, "ambiguous") \/ Fail(p, "timeout")
CallerStep(p) ==
    \/ Arrive(p) \/ CallerResumes(p) \/ Deadline(p)
    \/ Fail(p, "cancelled") \/ CancelQueued(p) \/ CancelCloseWait(p)

ReaderStep(g) ==
    \/ \E q \in unanswered : ReceiveAnswer(g, q) \/ ReceiveRejection(g, q)
    \/ \E r \in Pushed : ReceivePush(g, r)
    \/ ReaderError(g) \/ LossTurn(g) \/ LossEnd(g) \/ ReaderStale(g)

ControllerResumes(c) ==
    \/ Connect(c) \/ Close(c, "close") \/ Close(c, "reconnect")
    \/ CallCloseEnd(c) \/ ReopenWait(c) \/ Reopen(c) \/ DialOk(c) \/ DialFail(c)
ControllerStep(c) ==
    \/ \E op \in Calls : CallWait(c, op)
    \/ ControllerResumes(c) \/ CancelCall(c)

Next ==
    \/ \E p \in Callers : CallerStep(p)
    \/ \E g \in 1..generation : ReaderStep(g)
    \/ \E c \in Controllers : ControllerStep(c)

Spec == Init /\ [][Next]_vars

(* The event loop runs every task that can run; deadlines expire, because  *)
(* every await of a read and of the connector is bounded; a task waiting   *)
(* for the lifecycle lock gets it in turn.  The request lock is first come *)
(* first served too, which its holder abstracts: hence the strong fairness *)
(* of the waiters.  Nothing obliges the dongle to answer.                  *)
Fairness ==
    /\ \A p \in Callers :
         /\ WF_vars(Deadline(p) \/ Return(p))
         /\ WF_vars(CloseTurn(p) \/ CloseEnd(p))
         /\ SF_vars(Refuse(p) \/ \E r \in Requested : Submit(p, r))
    /\ \A c \in Controllers :
         WF_vars(call[c] # "none" /\ ControllerResumes(c))
    /\ WF_vars(\E g \in 1..generation : LossTurn(g) \/ LossEnd(g))

FairSpec == Spec /\ Fairness

-----------------------------------------------------------------------------
(* Properties                                                              *)

SessionType ==
    /\ generation \in Nat /\ connection \in Nat \cup {None}
    /\ refusal \in {"closed", "lost"}
    /\ sockets \subseteq Nat /\ reading \subseteq Nat /\ failing \subseteq Nat
    /\ changes \in Nat
FutureType ==
    /\ pending \in Callers \cup {None}
    /\ future \in [Callers -> Futures]
    /\ answer \in [Callers -> Nat]
    /\ outcome \in [Callers -> Outcomes]
CallerType ==
    /\ requestLock \in Callers \cup {None}
    /\ step \in [Callers -> {"idle", "queued"} \cup Critical]
    /\ read \in [Callers -> [id : Nat, range : Requested, conn : Nat,
                             gen : Nat, since : Nat]]
CallType ==
    /\ call \in [Controllers -> {"none", "closing", "reclosing", "delay",
                                 "reopen", "dialing"} \cup Calls]
    /\ expected \in [Controllers -> Nat] /\ noted \in [Controllers -> Nat]
CacheType ==
    /\ unanswered \subseteq [id : Nat, range : Requested, conn : Nat]
    /\ observed \in [Reports -> Nat] /\ sequence \in Nat
CounterType == requests \in Nat /\ calls \in Nat /\ pushes \in Nat
TypeOK ==
    /\ SessionType /\ lifecycle \in Seq(Tasks) /\ FutureType /\ CallerType
    /\ CallType /\ CacheType /\ CounterType

(* The pending read is exactly the one its caller still waits for: the     *)
(* request-lock holder in drain() or awaiting its future.  So no router or *)
(* teardown can complete a read nobody waits for, no caller waits for a    *)
(* read the session has forgotten, and the "already pending" RuntimeError  *)
(* of async_read_input cannot be raised.                                   *)
PendingHasOwner ==
    \A p \in Callers :
        pending = p <=> /\ step[p] \in {"draining", "awaiting"}
                        /\ future[p] = "waiting"

(* A caller between submit and return holds the request lock, and every    *)
(* task tearing down or opening a connection is at the head of the         *)
(* lifecycle lock: none of them shares the session with another.           *)
RequestLockHeld ==
    \A p \in Callers : step[p] \in Critical <=> requestLock = p
LifecycleHeld ==
    /\ \A p \in Callers : step[p] = "closing" => HasLock(p)
    /\ \A c \in Controllers : call[c] \in {"closing", "reclosing", "dialing"} => HasLock(c)
LocksHeld == RequestLockHeld /\ LifecycleHeld

(* A reply left over from a read that ended without one can never be read  *)
(* on the current generation: the only answer the live connection can      *)
(* still deliver is the pending read's (comment in async_read_input: "A    *)
(* late response on this generation could otherwise satisfy a later        *)
(* same-range request").                                                   *)
OnlyPendingAnswerable ==
    \A q \in unanswered :
        q.conn = generation => pending # None /\ read[pending].id = q.id

(* "await only its exactly correlated response": a read that completes     *)
(* with data was completed by the dongle's answer to that very read.       *)
OwnAnswer ==
    \A p \in Callers : future[p] = "matched" => answer[p] = read[p].id

(* Reads are correlated, though no frame names its request: the locks are  *)
(* held where the code relies on them, nothing but the pending read can be *)
(* answered, and what a read got is its own answer (and the variables have *)
(* their types).                                                           *)
Correlated == TypeOK /\ LocksHeld /\ OnlyPendingAnswerable /\ OwnAnswer

(* A read that ended in any way but a reply or a rejection has ended the   *)
(* generation it was written on, so no later read shares a connection with *)
(* a request that may still be answered.                                   *)
FailureFences ==
    \A p \in Callers :
        outcome[p] \in {"lost", "closed", "timeout", "ambiguous", "cancelled"}
            => read[p].conn # generation

(* A successful read returns no older data: the cache took its range after *)
(* the read was submitted.                                                 *)
FreshSuccess ==
    \A p \in Callers :
        outcome[p] = "success" => observed[read[p].range] > read[p].since

(* A reconnect gives way to everybody else: when it dials, its own close   *)
(* is the only close, loss or connection since it was called.  The code    *)
(* has only the generation to tell (comment in async_reconnect:            *)
(* "reconnect superseded by another lifecycle operation"), which other     *)
(* tasks also change without closing anything.                             *)
ReconnectAlone ==
    \A c \in Controllers :
        call[c] = "dialing" /\ expected[c] # 0 => changes = noted[c] + 1

(* No socket is left open behind the installed connection.                 *)
NoSocketLeft == sockets \subseteq {connection}

(* The session provides what its callers rely on (CorrelatedReads).        *)
Promise == INSTANCE CorrelatedReads WITH
    running <- requestLock,
    issued <- requests,
    delivered <- IF requestLock = None THEN 0 ELSE answer[requestLock]
KeepsPromise == Promise!Spec

(* Every read that is issued ends, and so does every lifecycle call.       *)
EveryCallEnds ==
    /\ \A p \in Callers : step[p] = "queued" ~> step[p] = "idle"
    /\ \A c \in Controllers : call[c] # "none" ~> call[c] = "none"

=============================================================================
