--------------------------- MODULE ReadSessionProofs ---------------------------
(***************************************************************************)
(* Proofs about ReadSession for any number of callers, controllers, ranges *)
(* and any bounds.                                                         *)
(***************************************************************************)
EXTENDS ReadSession, SequenceTheorems, TLAPS

(* What the operations of the lifecycle lock's queue return.               *)
LEMMA Enqueued ==
    ASSUME lifecycle \in Seq(Tasks), NEW t \in Tasks
    PROVE  Append(lifecycle, t) \in Seq(Tasks) /\ <<t>> \in Seq(Tasks)
OBVIOUS

LEMMA Released ==
    ASSUME lifecycle \in Seq(Tasks), lifecycle # <<>>
    PROVE  Tail(lifecycle) \in Seq(Tasks)
BY HeadTailProperties

LEMMA StoppedWaiting ==
    ASSUME lifecycle \in Seq(Tasks), NEW t, StopWaiting(t)
    PROVE  lifecycle' \in Seq(Tasks)
<1>1. ASSUME NEW i \in 1..Len(lifecycle)
      PROVE  RemoveAt(lifecycle, i) \in Seq(Tasks)
  <2>1. SubSeq(lifecycle, 1, i - 1) \in Seq(Tasks)
    OBVIOUS
  <2>2. SubSeq(lifecycle, i + 1, Len(lifecycle)) \in Seq(Tasks)
    OBVIOUS
  <2> QED BY <2>1, <2>2, ConcatProperties DEF RemoveAt
<1> QED BY <1>1 DEF StopWaiting

(* The shared effects keep what they write within its types.               *)
LEMMA TeardownTypes ==
    ASSUME SessionType, NEW g \in Nat, Teardown(g)
    PROVE  SessionType'
BY DEF SessionType, Teardown

LEMMA FailPendingTypes ==
    ASSUME FutureType, NEW why \in Futures, FailPending(why)
    PROVE  FutureType'
BY DEF FutureType, FailPending

LEMMA LossTypes ==
    ASSUME SessionType, FutureType, NEW g \in Nat, Loss(g)
    PROVE  SessionType' /\ FutureType'
<1>1. /\ generation' = generation + 1 /\ connection' = None /\ refusal' = "lost"
      /\ sockets' = sockets \ {connection}
      /\ reading' = reading \ {g} /\ failing' = failing \ {g} /\ changes' = changes + 1
  BY DEF Loss
<1>2. SessionType'
  BY <1>1 DEF SessionType
<1>3. FutureType'
  BY FailPendingTypes DEF Loss, Futures
<1> QED BY <1>2, <1>3

LEMMA AcceptTypes ==
    ASSUME FutureType, CacheType, NEW g, NEW r \in Reports, NEW id \in Nat,
           Accept(g, r, id)
    PROVE  FutureType' /\ observed' \in [Reports -> Nat] /\ sequence' \in Nat
<1> DEFINE match == Sees(g) /\ read[pending].range = r
<1>1. observed' \in [Reports -> Nat] /\ sequence' \in Nat
  BY DEF Accept, Observe, CacheType
<1>2. CASE match
  <2>1. pending' = None /\ outcome' = outcome
    BY <1>2 DEF Accept
  <2>2. future' \in [Callers -> Futures]
    BY <1>2 DEF Accept, FutureType, Futures
  <2>3. answer' \in [Callers -> Nat]
    BY <1>2 DEF Accept, FutureType
  <2> QED BY <1>1, <2>1, <2>2, <2>3 DEF FutureType
<1>3. CASE ~match
  BY <1>1, <1>3 DEF Accept, FutureType, result
<1> QED BY <1>2, <1>3

(* The parts of the type invariant keep when what they speak of does.      *)
LEMMA UnchangedTypes ==
    /\ SessionType /\ UNCHANGED session => SessionType'
    /\ FutureType /\ UNCHANGED <<pending, result>> => FutureType'
    /\ CallerType /\ UNCHANGED <<requestLock, step, read>> => CallerType'
    /\ CallType /\ UNCHANGED calling => CallType'
    /\ CacheType /\ UNCHANGED <<unanswered, cache>> => CacheType'
    /\ CounterType /\ UNCHANGED <<requests, bounds>> => CounterType'
BY DEF SessionType, FutureType, CallerType, CallType, CacheType, CounterType,
       session, result, calling, cache, bounds

(* Every step of a caller keeps the types.                                 *)
LEMMA CallerTypes ==
    ASSUME TypeOK, NEW p \in Callers, CallerStep(p)
    PROVE  TypeOK'
<1> USE UnchangedTypes DEF TypeOK
<1>t. p \in Tasks
  BY DEF Tasks
<1>1. CASE Arrive(p) \/ Refuse(p) \/ CancelQueued(p) \/ DrainDone(p)
  <2>1. step' \in [Callers -> {"idle", "queued"} \cup Critical]
    BY <1>1 DEF Arrive, Refuse, CancelQueued, DrainDone, CallerType, Critical
  <2>2. /\ UNCHANGED <<session, lifecycle, requestLock, pending, read, result>>
        /\ UNCHANGED <<calling, unanswered, cache, requests, bounds>>
    BY <1>1 DEF Arrive, Refuse, CancelQueued, DrainDone
  <2> QED BY <2>1, <2>2 DEF CallerType
<1>2. ASSUME NEW r \in Requested, Submit(p, r) PROVE TypeOK'
  <2>1. connection \in Nat
    BY <1>2 DEF Submit, Connected, SessionType
  <2>2. CallerType'
    BY <1>2, <2>1 DEF Submit, CallerType, SessionType, CacheType, CounterType, Critical
  <2>3. FutureType'
    BY <1>2 DEF Submit, FutureType, Futures, Outcomes
  <2>4. CacheType' /\ CounterType'
    BY <1>2, <2>1 DEF Submit, CacheType, CounterType, cache, bounds
  <2> QED BY <1>2, <2>2, <2>3, <2>4 DEF Submit
<1>3. CASE Return(p)
  <2>1. FutureType'
    BY <1>3 DEF Return, FutureType, Outcomes
  <2>2. CallerType'
    BY <1>3 DEF Return, CallerType
  <2> QED BY <1>3, <2>1, <2>2 DEF Return
<1>4. ASSUME NEW why, Fail(p, why) PROVE TypeOK'
  <2>1. why \in Outcomes
    BY <1>4 DEF Fail, Outcomes
  <2>2. FutureType'
    BY <1>4, <2>1 DEF Fail, FutureType, Futures
  <2>3. CallerType'
    BY <1>4 DEF Fail, CallerType, Critical
  <2>4. lifecycle' \in Seq(Tasks)
    BY <1>4, <1>t, Enqueued DEF Fail
  <2>5. SessionType'
    <3>1. CASE LockFree
      BY <1>4, <3>1, TeardownTypes DEF Fail, Taint, SessionType
    <3>2. CASE ~LockFree
      <4>1. /\ generation' = generation + 1
            /\ UNCHANGED <<connection, refusal, sockets, reading, failing, changes>>
        BY <1>4, <3>2 DEF Fail, Taint
      <4> QED BY <4>1 DEF SessionType
    <3> QED BY <3>1, <3>2
  <2> QED BY <1>4, <2>2, <2>3, <2>4, <2>5 DEF Fail
<1>5. CASE CloseTurn(p)
  <2>1. FutureType'
    BY <1>5, FailPendingTypes DEF CloseTurn, Futures
  <2>2. SessionType'
    BY <1>5, TeardownTypes DEF CloseTurn, SessionType
  <2>3. CallerType'
    BY <1>5 DEF CloseTurn, CallerType, Critical
  <2> QED BY <1>5, <2>1, <2>2, <2>3 DEF CloseTurn
<1>6. CASE CloseEnd(p)
  <2>1. CallerType'
    BY <1>6 DEF CloseEnd, CallerType
  <2>2. lifecycle' \in Seq(Tasks)
    BY <1>6, Released DEF CloseEnd, Release, HasLock
  <2> QED BY <1>6, <2>1, <2>2 DEF CloseEnd
<1>7. CASE CancelCloseWait(p)
  <2>1. CallerType'
    BY <1>7 DEF CancelCloseWait, CallerType
  <2>2. FutureType'
    BY <1>7 DEF CancelCloseWait, FutureType, Outcomes
  <2>3. lifecycle' \in Seq(Tasks)
    BY <1>7, StoppedWaiting DEF CancelCloseWait
  <2> QED BY <1>7, <2>1, <2>2, <2>3 DEF CancelCloseWait
<1> QED BY <1>1, <1>2, <1>3, <1>4, <1>5, <1>6, <1>7
        DEF CallerStep, CallerResumes, Deadline

(* Every step of a reader task keeps the types.                            *)
LEMMA ReaderTypes ==
    ASSUME TypeOK, NEW g \in 1..generation, ReaderStep(g)
    PROVE  TypeOK'
<1> USE UnchangedTypes DEF TypeOK
<1>t. g \in Nat /\ g \in Tasks
  BY DEF Tasks, SessionType
<1>1. ASSUME NEW q \in unanswered, ReceiveAnswer(g, q) PROVE TypeOK'
  <2>1. q.id \in Nat /\ q.range \in Reports
    BY DEF CacheType, Reports
  <2>2. FutureType' /\ observed' \in [Reports -> Nat] /\ sequence' \in Nat
    BY <1>1, <2>1, AcceptTypes DEF ReceiveAnswer
  <2>3. CacheType'
    BY <1>1, <2>2 DEF ReceiveAnswer, CacheType
  <2> QED BY <1>1, <2>2, <2>3 DEF ReceiveAnswer, bounds
<1>2. ASSUME NEW q \in unanswered, ReceiveRejection(g, q) PROVE TypeOK'
  <2>1. FutureType'
    <3>1. CASE Sees(g) /\ read[pending].range.start = q.range.start
      BY <1>2, <3>1, FailPendingTypes DEF ReceiveRejection, Futures
    <3>2. CASE ~(Sees(g) /\ read[pending].range.start = q.range.start)
      BY <1>2, <3>2 DEF ReceiveRejection
    <3> QED BY <3>1, <3>2
  <2>2. CacheType'
    BY <1>2 DEF ReceiveRejection, CacheType, cache
  <2> QED BY <1>2, <2>1, <2>2 DEF ReceiveRejection
<1>3. ASSUME NEW r \in Pushed, ReceivePush(g, r) PROVE TypeOK'
  <2>1. FutureType' /\ observed' \in [Reports -> Nat] /\ sequence' \in Nat
    BY <1>3, AcceptTypes DEF ReceivePush, Reports
  <2>2. CacheType'
    BY <1>3, <2>1 DEF ReceivePush, CacheType
  <2>3. CounterType'
    BY <1>3 DEF ReceivePush, CounterType
  <2> QED BY <1>3, <2>1, <2>2, <2>3 DEF ReceivePush
<1>4. CASE ReaderError(g)
  <2>1. lifecycle' \in Seq(Tasks)
    BY <1>4, <1>t, Enqueued DEF ReaderError
  <2>2. SessionType' /\ FutureType'
    <3>1. CASE LockFree
      BY <1>4, <1>t, <3>1, LossTypes DEF ReaderError
    <3>2. CASE ~LockFree
      <4>1. /\ reading' = reading \ {g} /\ failing' = failing \cup {g}
            /\ UNCHANGED <<generation, connection, refusal, sockets, changes>>
        BY <1>4, <3>2 DEF ReaderError
      <4>2. UNCHANGED <<pending, result>>
        BY <1>4, <3>2 DEF ReaderError
      <4> QED BY <4>1, <4>2 DEF SessionType
    <3> QED BY <3>1, <3>2
  <2> QED BY <1>4, <2>1, <2>2 DEF ReaderError
<1>5. CASE LossTurn(g)
  BY <1>5, <1>t, LossTypes DEF LossTurn
<1>6. CASE LossEnd(g)
  <2>1. lifecycle' \in Seq(Tasks)
    BY <1>6, Released DEF LossEnd, Release, HasLock
  <2>2. SessionType'
    BY <1>6 DEF LossEnd, SessionType
  <2> QED BY <1>6, <2>1, <2>2 DEF LossEnd
<1>7. CASE ReaderStale(g)
  <2>1. SessionType'
    BY <1>7 DEF ReaderStale, SessionType
  <2> QED BY <1>7, <2>1 DEF ReaderStale
<1> QED BY <1>1, <1>2, <1>3, <1>4, <1>5, <1>6, <1>7 DEF ReaderStep

(* Every step of a controller keeps the types.                             *)
LEMMA ControllerTypes ==
    ASSUME TypeOK, NEW c \in Controllers, ControllerStep(c)
    PROVE  TypeOK'
<1> USE UnchangedTypes DEF TypeOK
<1>t. c \in Tasks
  BY DEF Tasks
<1>e. ASSUME NEW op \in Calls, Enters(c, op)
      PROVE  /\ expected' \in [Controllers -> Nat] /\ calls' \in Nat
             /\ noted' \in [Controllers -> Nat]
  <2>1. CASE UNCHANGED <<calls, expected, noted>>
    BY <2>1 DEF CallType, CounterType
  <2>2. CASE calls' = calls + 1 /\ Begins(c, op)
    BY <2>2 DEF Begins, Expect, CallType, CounterType, SessionType
  <2> QED BY <1>e, <2>1, <2>2 DEF Enters
<1>1. ASSUME NEW op \in Calls, CallWait(c, op) PROVE TypeOK'
  <2>1. CallType' /\ CounterType'
    BY <1>1 DEF CallWait, Begins, Expect, CallType, CounterType, SessionType
  <2>2. lifecycle' \in Seq(Tasks)
    BY <1>1, <1>t, Enqueued DEF CallWait
  <2> QED BY <1>1, <2>1, <2>2 DEF CallWait
<1>2. CASE Connect(c)
  <2>1. expected' \in [Controllers -> Nat] /\ calls' \in Nat /\ noted' \in [Controllers -> Nat]
    BY <1>2, <1>e DEF Connect, Calls
  <2>2. CallType' /\ CounterType'
    BY <1>2, <2>1 DEF Connect, CallType, CounterType
  <2>3. lifecycle' \in Seq(Tasks)
    BY <1>2, <1>t, Enqueued, Released DEF Connect, WithLock, WithoutLock, LockFree
  <2> QED BY <1>2, <2>2, <2>3 DEF Connect
<1>3. ASSUME NEW op \in Calls, Close(c, op) PROVE TypeOK'
  <2>1. expected' \in [Controllers -> Nat] /\ calls' \in Nat /\ noted' \in [Controllers -> Nat]
    BY <1>3, <1>e DEF Close
  <2>2. CallType' /\ CounterType'
    BY <1>3, <2>1 DEF Close, CallType, CounterType
  <2>3. lifecycle' \in Seq(Tasks)
    BY <1>3, <1>t, Enqueued DEF Close, WithLock, LockFree
  <2>4. SessionType' /\ FutureType'
    BY <1>3, TeardownTypes, FailPendingTypes DEF Close, SessionType, Futures
  <2> QED BY <1>3, <2>2, <2>3, <2>4 DEF Close
<1>4. CASE ReopenWait(c)
  <2>1. CallType'
    BY <1>4 DEF ReopenWait, CallType
  <2>2. lifecycle' \in Seq(Tasks)
    BY <1>4, <1>t, Enqueued DEF ReopenWait
  <2> QED BY <1>4, <2>1, <2>2 DEF ReopenWait
<1>5. CASE Reopen(c)
  <2>1. CallType'
    BY <1>5 DEF Reopen, CallType
  <2>2. lifecycle' \in Seq(Tasks)
    BY <1>5, <1>t, Enqueued, Released DEF Reopen, WithLock, WithoutLock, LockFree
  <2> QED BY <1>5, <2>1, <2>2 DEF Reopen
<1>6. CASE DialOk(c)
  <2>1. CallType'
    BY <1>6 DEF DialOk, CallType
  <2>2. SessionType'
    BY <1>6 DEF DialOk, SessionType
  <2>3. lifecycle' \in Seq(Tasks)
    BY <1>6, Released DEF DialOk, Release, HasLock
  <2> QED BY <1>6, <2>1, <2>2, <2>3 DEF DialOk
<1>7. CASE CallCloseEnd(c) \/ DialFail(c)
  <2>1. CallType'
    BY <1>7 DEF CallCloseEnd, DialFail, CallType
  <2>2. lifecycle' \in Seq(Tasks)
    BY <1>7, Released DEF CallCloseEnd, DialFail, Release, HasLock
  <2> QED BY <1>7, <2>1, <2>2 DEF CallCloseEnd, DialFail
<1>8. CASE CancelCall(c)
  <2>1. CallType'
    BY <1>8 DEF CancelCall, CallType
  <2>2. lifecycle' \in Seq(Tasks)
    BY <1>8, StoppedWaiting DEF CancelCall
  <2> QED BY <1>8, <2>1, <2>2 DEF CancelCall
<1> QED BY <1>1, <1>2, <1>3, <1>4, <1>5, <1>6, <1>7, <1>8
        DEF ControllerStep, ControllerResumes, Calls

LEMMA InitTypes == Init => TypeOK
<1> SUFFICES ASSUME Init PROVE TypeOK
  OBVIOUS
<1>1. SessionType /\ lifecycle \in Seq(Tasks) /\ CounterType
  BY DEF Init, SessionType, CounterType
<1>2. FutureType /\ CallType /\ CacheType
  BY DEF Init, FutureType, CallType, CacheType, Futures, Outcomes
<1>3. CallerType
  <2>1. (CHOOSE r \in Requested : TRUE) \in Requested
    BY RangeAssumption
  <2>2. NoRead \in [id : Nat, range : Requested, conn : Nat, gen : Nat, since : Nat]
    BY <2>1 DEF NoRead
  <2> QED BY <2>2 DEF Init, CallerType
<1> QED BY <1>1, <1>2, <1>3 DEF TypeOK

LEMMA NextTypes == TypeOK /\ [Next]_vars => TypeOK'
<1>1. TypeOK /\ UNCHANGED vars => TypeOK'
  BY UnchangedTypes DEF TypeOK, vars
<1> QED BY <1>1, CallerTypes, ReaderTypes, ControllerTypes DEF Next

(* The state stays within its types whatever the tasks and the dongle do.  *)
THEOREM TypeInvariant == Spec => []TypeOK
BY InitTypes, NextTypes, PTL DEF Spec

-----------------------------------------------------------------------------
(* Generations only advance, and name every connection and read so far.    *)
Past ==
    /\ connection # None => connection <= generation
    /\ \A p \in Callers : read[p].conn <= generation

(* A read whose future or whose caller was failed has been fenced off.     *)
Failed(p) ==
    \/ future[p] \in {"lost", "closed"}
    \/ outcome[p] \in {"lost", "closed", "timeout", "ambiguous", "cancelled"}
    \/ step[p] \in {"closeWait", "closing"}
Fenced == \A p \in Callers : Failed(p) => read[p].conn < generation

(* The inductive invariant behind PendingHasOwner and FailureFences.       *)
FenceInv == TypeOK /\ RequestLockHeld /\ PendingHasOwner /\ Past /\ Fenced

(* A step that ends a generation fences off every read made so far.        *)
LEMMA PendingFails ==
    ASSUME TypeOK, PendingHasOwner, pending' = None,
           \A q \in Callers : step'[q] \in {"draining", "awaiting"}
                                 => step[q] \in {"draining", "awaiting"},
           NEW how, how # "waiting",
           \A q \in Callers : future'[q] = IF q = pending /\ future[q] = "waiting"
                                           THEN how ELSE future[q]
    PROVE  PendingHasOwner'
<1> SUFFICES ASSUME NEW p \in Callers
             PROVE  ~(step'[p] \in {"draining", "awaiting"} /\ future'[p] = "waiting")
  BY TaskAssumption DEF PendingHasOwner
<1>1. pending = p <=> step[p] \in {"draining", "awaiting"} /\ future[p] = "waiting"
  BY DEF PendingHasOwner
<1> QED BY <1>1

LEMMA NewGeneration ==
    ASSUME FenceInv, generation' \in Nat, generation' > generation,
           \/ connection' \in {None, connection}
           \/ connection' = generation',
           read' = read
    PROVE  (Past /\ Fenced)'
<1> USE DEF FenceInv, TypeOK, SessionType, CallerType
<1>1. connection' # None => connection' <= generation'
  BY DEF Past
<1>2. \A p \in Callers : read'[p].conn < generation' /\ read'[p].conn <= generation'
  BY DEF Past
<1> QED BY <1>1, <1>2 DEF Past, Fenced

(* Callers: a step that writes, fails, resumes or retires a read.          *)
LEMMA CallerFence ==
    ASSUME FenceInv, NEW p \in Callers, CallerStep(p)
    PROVE  (RequestLockHeld /\ PendingHasOwner /\ Past /\ Fenced)'
<1> USE DEF FenceInv, TypeOK, SessionType, FutureType, CallerType, Critical
<1>1. CASE Arrive(p) \/ Refuse(p) \/ CancelQueued(p) \/ DrainDone(p)
  <2>1. /\ \A q \in Callers : q # p => step'[q] = step[q]
        /\ \/ step[p] \in {"idle", "queued"} /\ step'[p] \in {"idle", "queued"}
           \/ step[p] = "draining" /\ step'[p] = "awaiting"
    BY <1>1 DEF Arrive, Refuse, CancelQueued, DrainDone
  <2>2. UNCHANGED <<generation, connection, requestLock, pending, read, future, outcome>>
    BY <1>1 DEF Arrive, Refuse, CancelQueued, DrainDone, session, result
  <2> QED BY <2>1, <2>2 DEF RequestLockHeld, PendingHasOwner, Past, Fenced, Failed
<1>2. ASSUME NEW r \in Requested, Submit(p, r)
      PROVE  (RequestLockHeld /\ PendingHasOwner /\ Past /\ Fenced)'
  <2>1. /\ connection \in Nat /\ connection <= generation
        /\ UNCHANGED <<generation, connection>>
    BY <1>2 DEF Submit, Connected, Past, session
  <2>2. /\ \A q \in Callers : q # p => /\ step'[q] = step[q] /\ read'[q] = read[q]
                                       /\ future'[q] = future[q] /\ outcome'[q] = outcome[q]
        /\ step'[p] = "draining" /\ read'[p].conn = connection
        /\ future'[p] = "waiting" /\ outcome'[p] = "none"
        /\ requestLock = None /\ requestLock' = p /\ pending = None /\ pending' = p
    BY <1>2 DEF Submit
  <2>3. (RequestLockHeld /\ PendingHasOwner)'
    BY <2>2, TaskAssumption DEF RequestLockHeld, PendingHasOwner
  <2>4. (Past /\ Fenced)'
    BY <2>1, <2>2 DEF Past, Fenced, Failed
  <2> QED BY <2>3, <2>4
<1>3. CASE Return(p)
  <2>1. /\ step[p] = "awaiting" /\ future[p] # "waiting"
        /\ outcome'[p] = IF future[p] = "matched" THEN "success" ELSE future[p]
        /\ future[p] \in {"matched", "rejected", "lost", "closed"}
        /\ \A q \in Callers : q # p => step'[q] = step[q] /\ outcome'[q] = outcome[q]
        /\ step'[p] = "idle" /\ requestLock' = None
        /\ UNCHANGED <<generation, connection, pending, read, future>>
    BY <1>3 DEF Return, session
  <2>2. RequestLockHeld'
    <3>1. requestLock = p
      BY <2>1 DEF RequestLockHeld
    <3>2. ASSUME NEW q \in Callers
          PROVE  step'[q] \notin Critical /\ requestLock' # q
      BY <2>1, <3>1, TaskAssumption DEF RequestLockHeld
    <3> QED BY <3>2 DEF RequestLockHeld
  <2>3. PendingHasOwner'
    BY <2>1 DEF PendingHasOwner
  <2>4. (Past /\ Fenced)'
    BY <2>1 DEF Past, Fenced, Failed
  <2> QED BY <2>2, <2>3, <2>4
<1>4. ASSUME NEW why, Fail(p, why)
      PROVE  (RequestLockHeld /\ PendingHasOwner /\ Past /\ Fenced)'
  <2>1. /\ step[p] \in {"draining", "awaiting"} /\ step'[p] \in {"closeWait", "closing"}
        /\ future'[p] # "waiting"
        /\ \A q \in Callers : q # p => /\ step'[q] = step[q]
                                       /\ future'[q] = future[q] /\ outcome'[q] = outcome[q]
        /\ pending' = IF pending = p THEN None ELSE pending
        /\ UNCHANGED <<requestLock, read>>
    BY <1>4 DEF Fail
  <2>2. generation' \in Nat /\ generation' > generation /\ connection' \in {None, connection}
    BY <1>4 DEF Fail, Taint, Teardown
  <2>3. RequestLockHeld'
    BY <2>1 DEF RequestLockHeld
  <2>4. PendingHasOwner'
    BY <2>1, TaskAssumption DEF PendingHasOwner
  <2>5. (Past /\ Fenced)'
    BY <2>1, <2>2, NewGeneration
  <2> QED BY <2>3, <2>4, <2>5
<1>5. CASE CloseTurn(p)
  <2>1. /\ step[p] = "closeWait" /\ step' = [step EXCEPT ![p] = "closing"]
        /\ UNCHANGED <<requestLock, read>> /\ outcome' = outcome
        /\ generation' = generation + 1 /\ connection' = None
        /\ pending' = None
        /\ \A q \in Callers : future'[q] = IF q = pending /\ future[q] = "waiting"
                                           THEN "closed" ELSE future[q]
    BY <1>5 DEF CloseTurn, Teardown, FailPending
  <2>2. RequestLockHeld'
    BY <2>1 DEF RequestLockHeld
  <2>3. PendingHasOwner'
    BY <2>1, PendingFails
  <2>4. (Past /\ Fenced)'
    BY <2>1, NewGeneration
  <2> QED BY <2>2, <2>3, <2>4
<1>6. CASE CloseEnd(p) \/ CancelCloseWait(p)
  <2>1. /\ step[p] \in {"closeWait", "closing"} /\ step' = [step EXCEPT ![p] = "idle"]
        /\ UNCHANGED <<generation, connection, pending, read, future>>
        /\ requestLock' = None
        /\ \A q \in Callers : q # p => outcome'[q] = outcome[q]
    BY <1>6 DEF CloseEnd, CancelCloseWait, session, result
  <2>2. RequestLockHeld'
    BY <2>1, TaskAssumption DEF RequestLockHeld
  <2>3. PendingHasOwner'
    BY <2>1 DEF PendingHasOwner
  <2>4. (Past /\ Fenced)'
    BY <2>1 DEF Past, Fenced, Failed
  <2> QED BY <2>2, <2>3, <2>4
<1> QED BY <1>1, <1>2, <1>3, <1>4, <1>5, <1>6
        DEF CallerStep, CallerResumes, Deadline

(* Readers: a frame completes or rejects the pending read of its own       *)
(* generation; a loss ends the generation.                                 *)
LEMMA ReaderFence ==
    ASSUME FenceInv, NEW g \in 1..generation, ReaderStep(g)
    PROVE  (RequestLockHeld /\ PendingHasOwner /\ Past /\ Fenced)'
<1> USE DEF FenceInv, TypeOK, SessionType, FutureType, CallerType
<1>1. CASE \/ \E q \in unanswered : ReceiveAnswer(g, q) \/ ReceiveRejection(g, q)
           \/ \E r \in Pushed : ReceivePush(g, r)
  <2>1. /\ UNCHANGED <<generation, connection, requestLock, step, read, outcome>>
        /\ \/ UNCHANGED <<pending, future>>
           \/ /\ pending' = None
              /\ \/ \A q \in Callers : future'[q] = IF q = pending /\ future[q] = "waiting"
                                                    THEN "matched" ELSE future[q]
                 \/ \A q \in Callers : future'[q] = IF q = pending /\ future[q] = "waiting"
                                                    THEN "rejected" ELSE future[q]
    BY <1>1 DEF ReceiveAnswer, ReceiveRejection, ReceivePush, Accept, FailPending,
                session, result
  <2>2. RequestLockHeld'
    BY <2>1 DEF RequestLockHeld
  <2>3. PendingHasOwner'
    <3>1. CASE UNCHANGED <<pending, future>>
      BY <2>1, <3>1 DEF PendingHasOwner
    <3>2. CASE \A q \in Callers : future'[q] = IF q = pending /\ future[q] = "waiting"
                                                THEN "matched" ELSE future[q]
      <4>1. CASE pending' = None
        BY <2>1, <3>2, <4>1, PendingFails
      <4> QED BY <2>1, <3>1, <4>1
    <3>3. CASE \A q \in Callers : future'[q] = IF q = pending /\ future[q] = "waiting"
                                                THEN "rejected" ELSE future[q]
      <4>1. CASE pending' = None
        BY <2>1, <3>3, <4>1, PendingFails
      <4> QED BY <2>1, <3>1, <4>1
    <3> QED BY <2>1, <3>1, <3>2, <3>3
  <2>4. (Past /\ Fenced)'
    BY <2>1 DEF Past, Fenced, Failed
  <2> QED BY <2>2, <2>3, <2>4
<1>2. CASE Loss(g) /\ UNCHANGED <<requestLock, step, read>>
  <2>1. /\ UNCHANGED <<requestLock, step, read>> /\ outcome' = outcome
        /\ generation' = generation + 1 /\ connection' = None /\ pending' = None
        /\ \A q \in Callers : future'[q] = IF q = pending /\ future[q] = "waiting"
                                           THEN "lost" ELSE future[q]
    BY <1>2 DEF Loss, FailPending
  <2>2. RequestLockHeld'
    BY <2>1 DEF RequestLockHeld
  <2>3. PendingHasOwner'
    BY <2>1, PendingFails
  <2>4. (Past /\ Fenced)'
    BY <2>1, NewGeneration
  <2> QED BY <2>2, <2>3, <2>4
<1>3. CASE UNCHANGED <<generation, connection, requestLock, pending, step, read,
                       future, outcome>>
  BY <1>3 DEF RequestLockHeld, PendingHasOwner, Past, Fenced, Failed
<1> QED BY <1>1, <1>2, <1>3 DEF ReaderStep, ReaderError, LossTurn, LossEnd,
                                ReaderStale, session, result

(* Controllers: a close ends the generation and fails the pending read; a  *)
(* new connection is a new generation.                                     *)
LEMMA ControllerFence ==
    ASSUME FenceInv, NEW c \in Controllers, ControllerStep(c)
    PROVE  (RequestLockHeld /\ PendingHasOwner /\ Past /\ Fenced)'
<1> USE DEF FenceInv, TypeOK, SessionType, FutureType, CallerType
<1>0. generation \in Nat /\ generation + 1 \in Nat /\ generation + 1 > generation
  OBVIOUS
<1>1. CASE Close(c, "close") \/ Close(c, "reconnect")
  <2>1. /\ UNCHANGED <<requestLock, step, read>> /\ outcome' = outcome
        /\ generation' = generation + 1 /\ connection' = None /\ pending' = None
        /\ \A q \in Callers : future'[q] = IF q = pending /\ future[q] = "waiting"
                                           THEN "closed" ELSE future[q]
    BY <1>1 DEF Close, Teardown, FailPending
  <2>2. RequestLockHeld'
    BY <2>1 DEF RequestLockHeld
  <2>3. PendingHasOwner'
    BY <2>1, PendingFails
  <2>4. (Past /\ Fenced)'
    BY <1>0, <2>1, NewGeneration
  <2> QED BY <2>2, <2>3, <2>4
<1>2. CASE DialOk(c)
  <2>1. /\ UNCHANGED <<requestLock, pending, step, read, future, outcome>>
        /\ generation' = generation + 1 /\ connection' = generation + 1
    BY <1>2 DEF DialOk, result
  <2>2. (RequestLockHeld /\ PendingHasOwner)'
    BY <2>1 DEF RequestLockHeld, PendingHasOwner
  <2>3. (Past /\ Fenced)'
    BY <1>0, <2>1, NewGeneration
  <2> QED BY <2>2, <2>3
<1>3. CASE UNCHANGED <<generation, connection, requestLock, pending, step, read,
                       future, outcome>>
  BY <1>3 DEF RequestLockHeld, PendingHasOwner, Past, Fenced, Failed
<1> QED BY <1>1, <1>2, <1>3 DEF ControllerStep, ControllerResumes, CallWait, Connect, CallCloseEnd,
        ReopenWait, Reopen, DialFail, CancelCall, session, result

LEMMA FenceInvariant == Spec => []FenceInv
<1>1. Init => FenceInv
  <2> SUFFICES ASSUME Init PROVE FenceInv
    OBVIOUS
  <2>1. TypeOK
    BY InitTypes
  <2>2. RequestLockHeld /\ PendingHasOwner
    BY TaskAssumption DEF Init, RequestLockHeld, PendingHasOwner, Critical
  <2>3. Past /\ Fenced
    BY DEF Init, Past, Fenced, Failed, NoRead
  <2> QED BY <2>1, <2>2, <2>3 DEF FenceInv
<1>2. FenceInv /\ [Next]_vars => FenceInv'
  <2>1. FenceInv /\ UNCHANGED vars => (RequestLockHeld /\ PendingHasOwner /\ Past /\ Fenced)'
    BY DEF FenceInv, RequestLockHeld, PendingHasOwner, Past, Fenced, Failed, vars,
           session, result
  <2> QED BY <2>1, NextTypes, CallerFence, ReaderFence, ControllerFence DEF Next, FenceInv
<1> QED BY <1>1, <1>2, PTL DEF Spec

(* At every moment the pending read is exactly the one its caller still    *)
(* waits for, whatever is cancelled, timed out, lost or closed meanwhile.  *)
THEOREM PendingOwned == Spec => []PendingHasOwner
<1>1. FenceInv => PendingHasOwner
  BY DEF FenceInv
<1> QED BY <1>1, FenceInvariant, PTL

(* A read that ends without a reply has ended its generation for good.     *)
THEOREM FailuresFenced == Spec => []FailureFences
<1>1. FenceInv => FailureFences
  BY DEF FenceInv, Fenced, Failed, FailureFences, TypeOK, SessionType, CallerType
<1> QED BY <1>1, FenceInvariant, PTL

-----------------------------------------------------------------------------
(* The lifecycle lock: a task that closes or dials is at the head of the   *)
(* queue, so only it can leave, and no task that waits behind it displaces *)
(* it.                                                                     *)
Holds(t) ==
    \/ t \in Callers /\ step[t] = "closing"
    \/ t \in Controllers /\ call[t] \in {"closing", "reclosing", "dialing"}

LEMMA HeldByHead == LifecycleHeld <=> \A t \in Tasks : Holds(t) => HasLock(t)
BY TaskAssumption DEF LifecycleHeld, Holds, Tasks

LEMMA JoinedHead ==
    ASSUME NEW S, NEW s \in Seq(S), NEW t \in Seq(S), s # <<>>
    PROVE  s \o t # <<>> /\ Head(s \o t) = Head(s)
<1>1. Len(s) \in Nat /\ Len(t) \in Nat /\ Len(s) > 0
  BY LenProperties, EmptySeq
<1>2. Len(s \o t) > 0 /\ (s \o t)[1] = s[1]
  BY <1>1, ConcatProperties
<1> QED BY <1>1, <1>2

(* What is done to the queue keeps its holder, unless the holder leaves.   *)
LEMMA QueueKept ==
    ASSUME lifecycle \in Seq(Tasks), NEW h \in Tasks, HasLock(h), NEW t \in Tasks
    PROVE  /\ lifecycle' = Append(lifecycle, t) => HasLock(h)'
           /\ UNCHANGED lifecycle => HasLock(h)'
           /\ t # h => (StopWaiting(t) => HasLock(h)') /\ ~HasLock(t)
           /\ ~LockFree
<1>1. lifecycle # <<>> /\ Head(lifecycle) = h /\ Len(lifecycle) \in Nat \ {0}
  BY HeadTailProperties, EmptySeq, LenProperties DEF HasLock
<1>2. ASSUME lifecycle' = Append(lifecycle, t) PROVE HasLock(h)'
  BY <1>1, <1>2, AppendProperties DEF HasLock
<1>3. ASSUME t # h, StopWaiting(t) PROVE HasLock(h)'
  <2>1. PICK i \in 1..Len(lifecycle) : lifecycle[i] = t /\ lifecycle' = RemoveAt(lifecycle, i)
    BY <1>3 DEF StopWaiting
  <2>2. i # 1
    BY <1>1, <1>3, <2>1
  <2> DEFINE front == SubSeq(lifecycle, 1, i - 1)
             back == SubSeq(lifecycle, i + 1, Len(lifecycle))
  <2>3. front \in Seq(Tasks) /\ Len(front) = i - 1 /\ front[1] = h
    BY <1>1, <2>2
  <2>4. back \in Seq(Tasks)
    OBVIOUS
  <2>5. lifecycle' = front \o back
    BY <2>1 DEF RemoveAt
  <2>6. front # <<>> /\ Head(front) = h
    BY <2>2, <2>3
  <2> HIDE DEF front, back
  <2> QED BY <2>3, <2>4, <2>5, <2>6, JoinedHead DEF HasLock
<1> QED BY <1>1, <1>2, <1>3 DEF HasLock, LockFree

(* A step of one task keeps the others where they are; it may itself hold  *)
(* the lock afterwards only if it is at the head then.                     *)
LEMMA OneTaskMoves ==
    ASSUME TypeOK, LifecycleHeld, NEW t \in Tasks,
           \A h \in Tasks : h # t => (Holds(h)' => Holds(h)),
           \/ UNCHANGED lifecycle
           \/ lifecycle' = Append(lifecycle, t)
           \/ StopWaiting(t)
           \/ HasLock(t)
           \/ LockFree,
           Holds(t)' => HasLock(t)'
    PROVE  LifecycleHeld'
<1>1. ASSUME NEW h \in Tasks, h # t, Holds(h) PROVE HasLock(h)'
  <2>1. HasLock(h)
    BY <1>1, HeldByHead
  <2> QED BY <1>1, <2>1, QueueKept DEF TypeOK
<1>2. \A h \in Tasks : Holds(h)' => HasLock(h)'
  BY <1>1
<1> QED BY <1>2, TaskAssumption DEF LifecycleHeld, Holds, Tasks

LEMMA CallerHolds ==
    ASSUME TypeOK, LifecycleHeld, NEW p \in Callers, CallerStep(p)
    PROVE  LifecycleHeld'
<1> USE TaskAssumption DEF Holds
<1>t. p \in Tasks
  BY DEF Tasks
<1>1. \A h \in Tasks : h # p => (Holds(h)' => Holds(h))
  <2>1. \A q \in Callers : q # p => step'[q] = step[q]
    BY DEF CallerStep, CallerResumes, Deadline, Arrive, Submit, Refuse, CancelQueued, DrainDone,
           Return, Fail, CloseTurn, CloseEnd, CancelCloseWait, TypeOK, CallerType
  <2>2. call' = call
    BY DEF CallerStep, CallerResumes, Deadline, Arrive, Submit, Refuse, CancelQueued, DrainDone,
           Return, Fail, CloseTurn, CloseEnd, CancelCloseWait, calling
  <2> QED BY <2>1, <2>2
<1>2. CASE Arrive(p) \/ Refuse(p) \/ CancelQueued(p) \/ DrainDone(p) \/ Return(p)
           \/ \E r \in Requested : Submit(p, r)
  <2>1. UNCHANGED lifecycle /\ ~Holds(p)'
    BY <1>2 DEF Arrive, Refuse, CancelQueued, DrainDone, Return, Submit, TypeOK, CallerType
  <2> QED BY <1>t, <1>1, <2>1, OneTaskMoves
<1>3. ASSUME NEW why, Fail(p, why) PROVE LifecycleHeld'
  <2>1. CASE LockFree
    <3>1. HasLock(p)'
      BY <1>3, <2>1 DEF Fail, HasLock
    <3> QED BY <1>t, <1>1, <2>1, <3>1, OneTaskMoves
  <2>2. CASE ~LockFree
    <3>1. lifecycle' = Append(lifecycle, p) /\ ~Holds(p)'
      BY <1>3, <2>2 DEF Fail, TypeOK, CallerType
    <3> QED BY <1>t, <1>1, <3>1, OneTaskMoves
  <2> QED BY <2>1, <2>2
<1>4. CASE CloseTurn(p)
  <2>1. UNCHANGED lifecycle /\ HasLock(p)'
    BY <1>4 DEF CloseTurn, HasLock
  <2> QED BY <1>t, <1>1, <2>1, OneTaskMoves
<1>5. CASE CloseEnd(p)
  <2>1. HasLock(p) /\ ~Holds(p)'
    BY <1>5 DEF CloseEnd, Release, TypeOK, CallerType
  <2> QED BY <1>t, <1>1, <2>1, OneTaskMoves
<1>6. CASE CancelCloseWait(p)
  <2>1. StopWaiting(p) /\ ~Holds(p)'
    BY <1>6 DEF CancelCloseWait, TypeOK, CallerType
  <2> QED BY <1>t, <1>1, <2>1, OneTaskMoves
<1> QED BY <1>2, <1>3, <1>4, <1>5, <1>6 DEF CallerStep, CallerResumes, Deadline

LEMMA ReaderHolds ==
    ASSUME TypeOK, LifecycleHeld, NEW g \in 1..generation, ReaderStep(g)
    PROVE  LifecycleHeld'
<1>t. g \in Tasks
  BY DEF Tasks, TypeOK, SessionType
<1>1. UNCHANGED <<step, call>>
  BY DEF ReaderStep, ReceiveAnswer, ReceiveRejection, ReceivePush, ReaderError, LossTurn,
         LossEnd, ReaderStale, calling
<1>2. (\A h \in Tasks : h # g => (Holds(h)' => Holds(h))) /\ ~Holds(g)'
  BY <1>1, TaskAssumption DEF Holds, TypeOK, SessionType
<1>3. UNCHANGED lifecycle \/ lifecycle' = Append(lifecycle, g) \/ HasLock(g) \/ LockFree
  BY DEF ReaderStep, ReceiveAnswer, ReceiveRejection, ReceivePush, ReaderError, LossTurn,
         LossEnd, ReaderStale, Release
<1> QED BY <1>t, <1>2, <1>3, OneTaskMoves

LEMMA ControllerHolds ==
    ASSUME TypeOK, LifecycleHeld, NEW c \in Controllers, ControllerStep(c)
    PROVE  LifecycleHeld'
<1> USE TaskAssumption DEF Holds
<1>t. c \in Tasks
  BY DEF Tasks
<1>1. \A h \in Tasks : h # c => (Holds(h)' => Holds(h))
  <2>1. \A d \in Controllers : d # c => call'[d] = call[d]
    BY DEF ControllerStep, ControllerResumes, CallWait, Connect, Close, CallCloseEnd,
           ReopenWait, Reopen, DialOk, DialFail, CancelCall, TypeOK, CallType
  <2>2. step' = step
    BY DEF ControllerStep, ControllerResumes, CallWait, Connect, Close, CallCloseEnd,
           ReopenWait, Reopen, DialOk, DialFail, CancelCall
  <2> QED BY <2>1, <2>2
<1>2. CASE (\E op \in Calls : CallWait(c, op)) \/ ReopenWait(c)
  <2>1. lifecycle' = Append(lifecycle, c) /\ ~Holds(c)'
    BY <1>2 DEF CallWait, ReopenWait, Calls, TypeOK, CallType
  <2> QED BY <1>t, <1>1, <2>1, OneTaskMoves
<1>3. CASE Connect(c) \/ Reopen(c)
  <2>1. LockFree \/ HasLock(c)
    BY <1>3 DEF Connect, Reopen, Enters
  <2>2. Holds(c)' => lifecycle' = WithLock(c)
    BY <1>3 DEF Connect, Reopen, TypeOK, CallType
  <2>3. lifecycle' = WithLock(c) => HasLock(c)'
    BY <2>1 DEF WithLock, HasLock, LockFree
  <2> QED BY <1>t, <1>1, <2>1, <2>2, <2>3, OneTaskMoves
<1>4. ASSUME NEW op, Close(c, op) PROVE LifecycleHeld'
  <2>1. LockFree \/ HasLock(c)
    BY <1>4 DEF Close, Enters
  <2>2. HasLock(c)'
    BY <1>4, <2>1 DEF Close, WithLock, HasLock, LockFree
  <2> QED BY <1>t, <1>1, <2>1, <2>2, OneTaskMoves
<1>5. CASE CallCloseEnd(c) \/ DialOk(c) \/ DialFail(c)
  <2>1. HasLock(c) /\ ~Holds(c)'
    BY <1>5 DEF CallCloseEnd, DialOk, DialFail, Release, TypeOK, CallType
  <2> QED BY <1>t, <1>1, <2>1, OneTaskMoves
<1>6. CASE CancelCall(c)
  <2>1. (UNCHANGED lifecycle \/ StopWaiting(c)) /\ ~Holds(c)'
    BY <1>6 DEF CancelCall, TypeOK, CallType
  <2> QED BY <1>t, <1>1, <2>1, OneTaskMoves
<1> QED BY <1>2, <1>3, <1>4, <1>5, <1>6 DEF ControllerStep, ControllerResumes

(* Whoever closes or dials holds the lifecycle lock, and a read between    *)
(* its submission and its return holds the request lock.                   *)
THEOREM LocksAlwaysHeld == Spec => []LocksHeld
<1>1. Init => TypeOK /\ LifecycleHeld
  BY InitTypes DEF Init, LifecycleHeld
<1>2. TypeOK /\ LifecycleHeld /\ [Next]_vars => (TypeOK /\ LifecycleHeld)'
  <2>1. TypeOK /\ LifecycleHeld /\ UNCHANGED vars => LifecycleHeld'
    BY DEF LifecycleHeld, HasLock, vars, calling
  <2> QED BY <2>1, NextTypes, CallerHolds, ReaderHolds, ControllerHolds DEF Next
<1>3. FenceInv => RequestLockHeld
  BY DEF FenceInv
<1> QED BY <1>1, <1>2, <1>3, FenceInvariant, PTL DEF Spec, LocksHeld

-----------------------------------------------------------------------------
(* What a reconnect relies on: the generation has outrun the count of      *)
(* closes, losses and connections by no less than when it was called, and  *)
(* its own close is among them once it is past it.                         *)
Outrun(c) == generation - changes >= (expected[c] - 1) - noted[c]
Overtakes(c) ==
    /\ call[c] = "reconnect" => expected[c] # 0 /\ Outrun(c) /\ changes >= noted[c]
    /\ call[c] \in {"reclosing", "delay", "reopen"} =>
          expected[c] # 0 /\ Outrun(c) /\ changes > noted[c]
    /\ call[c] = "connect" => expected[c] = 0
    /\ call[c] = "dialing" /\ expected[c] # 0 => changes = noted[c] + 1
AloneInv == \A c \in Controllers : Overtakes(c)

(* What a step does to the count: a taint only advances the generation,    *)
(* and everything else that advances it counts, and needs the lock.        *)
CountStep ==
    \/ UNCHANGED <<generation, changes>>
    \/ generation' = generation + 1 /\ changes' \in {changes, changes + 1}
    \/ generation' = generation + 2 /\ changes' = changes + 1

(* A task that is not in the step keeps its part of the invariant: while   *)
(* it dials, it holds the lock, and nobody else counts.                    *)
LEMMA OthersOvertake ==
    ASSUME TypeOK, CountStep, NEW c \in Controllers, Overtakes(c),
           call'[c] = call[c], expected'[c] = expected[c], noted'[c] = noted[c],
           call[c] = "dialing" => UNCHANGED changes
    PROVE  Overtakes(c)'
<1>1. /\ generation \in Nat /\ changes \in Nat /\ expected[c] \in Nat /\ noted[c] \in Nat
  BY DEF TypeOK, SessionType, CallType
<1>2. /\ generation' \in Nat /\ changes' \in Nat
      /\ generation' - changes' >= generation - changes /\ changes' >= changes
  BY <1>1 DEF CountStep
<1>3. Outrun(c) => Outrun(c)'
  <2> DEFINE own == (expected[c] - 1) - noted[c]
  <2>1. own' = own /\ own \in Int
    BY <1>1
  <2>2. \A m, n, k \in Int : n >= m /\ m >= k => n >= k
    OBVIOUS
  <2>3. generation - changes >= own => generation' - changes' >= own
    BY <1>1, <1>2, <2>1, <2>2
  <2> QED BY <2>1, <2>3 DEF Outrun
<1>4. changes > noted[c] => changes' > noted'[c]
  BY <1>1, <1>2
<1>5. changes >= noted[c] => changes' >= noted'[c]
  BY <1>1, <1>2
<1>6. /\ call'[c] = "reconnect" => expected'[c] # 0 /\ Outrun(c)' /\ changes' >= noted'[c]
      /\ call'[c] \in {"reclosing", "delay", "reopen"} =>
            expected'[c] # 0 /\ Outrun(c)' /\ changes' > noted'[c]
  BY <1>3, <1>4, <1>5 DEF Overtakes
<1>7. /\ call'[c] = "connect" => expected'[c] = 0
      /\ call'[c] = "dialing" /\ expected'[c] # 0 => changes' = noted'[c] + 1
  BY DEF Overtakes
<1> QED BY <1>6, <1>7 DEF Overtakes

(* Only the holder of the lifecycle lock counts.                           *)
LEMMA DialerExcludes ==
    ASSUME LifecycleHeld, NEW c \in Controllers, call[c] = "dialing"
    PROVE  ~LockFree /\ HasLock(c) /\ \A t : HasLock(t) => t = c
BY DEF LifecycleHeld, HasLock, LockFree

LEMMA CallerCounts ==
    ASSUME TypeOK, LifecycleHeld, AloneInv, NEW p \in Callers, CallerStep(p)
    PROVE  AloneInv'
<1>1. CountStep /\ (LockFree \/ HasLock(p) \/ UNCHANGED changes)
  <2>1. CASE Arrive(p) \/ Refuse(p) \/ CancelQueued(p) \/ DrainDone(p) \/ Return(p)
             \/ CloseEnd(p) \/ CancelCloseWait(p) \/ \E r \in Requested : Submit(p, r)
    BY <2>1 DEF Arrive, Refuse, CancelQueued, DrainDone, Return, CloseEnd, CancelCloseWait,
           Submit, session, CountStep
  <2>2. ASSUME NEW why, Fail(p, why)
        PROVE  CountStep /\ (LockFree \/ UNCHANGED changes)
    <3>1. generation + 1 + 1 = generation + 2
      BY DEF TypeOK, SessionType
    <3> QED BY <2>2, <3>1 DEF Fail, Teardown, Taint, CountStep
  <2>3. CASE CloseTurn(p)
    BY <2>3 DEF CloseTurn, Teardown, CountStep
  <2> QED BY <2>1, <2>2, <2>3 DEF CallerStep, CallerResumes, Deadline
<1>2. UNCHANGED <<call, expected, noted>>
  BY DEF CallerStep, CallerResumes, Deadline, Arrive, Submit, Refuse, CancelQueued, DrainDone,
         Return, Fail, CloseTurn, CloseEnd, CancelCloseWait, calling
<1>3. ASSUME NEW c \in Controllers PROVE Overtakes(c)'
  <2>1. call[c] = "dialing" => UNCHANGED changes
    BY <1>1, DialerExcludes, TaskAssumption
  <2> QED BY <1>1, <1>2, <2>1, OthersOvertake DEF AloneInv
<1> QED BY <1>3 DEF AloneInv

LEMMA ReaderCounts ==
    ASSUME TypeOK, LifecycleHeld, AloneInv, NEW g \in 1..generation, ReaderStep(g)
    PROVE  AloneInv'
<1>t. g \in Nat
  BY DEF TypeOK, SessionType
<1>1. CountStep /\ (LockFree \/ HasLock(g) \/ UNCHANGED changes)
  BY DEF ReaderStep, ReceiveAnswer, ReceiveRejection, ReceivePush, ReaderError, LossTurn,
         LossEnd, ReaderStale, Loss, session, CountStep
<1>2. UNCHANGED <<call, expected, noted>>
  BY DEF ReaderStep, ReceiveAnswer, ReceiveRejection, ReceivePush, ReaderError, LossTurn,
         LossEnd, ReaderStale, calling
<1>3. ASSUME NEW c \in Controllers PROVE Overtakes(c)'
  <2>1. call[c] = "dialing" => UNCHANGED changes
    BY <1>1, <1>t, DialerExcludes, TaskAssumption
  <2> QED BY <1>1, <1>2, <2>1, OthersOvertake DEF AloneInv
<1> QED BY <1>3 DEF AloneInv

LEMMA ControllerCounts ==
    ASSUME TypeOK, LifecycleHeld, AloneInv, NEW c \in Controllers, ControllerStep(c)
    PROVE  AloneInv'
<1>t. /\ generation \in Nat /\ changes \in Nat
      /\ call \in [Controllers -> {"none", "closing", "reclosing", "delay",
                                   "reopen", "dialing"} \cup Calls]
      /\ expected \in [Controllers -> Nat] /\ noted \in [Controllers -> Nat]
  BY DEF TypeOK, SessionType, CallType
<1>b. ASSUME NEW op, Enters(c, op)
      PROVE  /\ \A d \in Controllers \ {c} : expected'[d] = expected[d] /\ noted'[d] = noted[d]
             /\ \/ /\ LockFree /\ expected'[c] = IF op = "reconnect" THEN generation + 1 ELSE 0
                   /\ noted'[c] = changes
                \/ HasLock(c) /\ call[c] = op /\ UNCHANGED <<expected, noted>>
  BY <1>b, <1>t DEF Enters, Begins, Expect
<1>o. ASSUME CountStep, LockFree \/ HasLock(c) \/ UNCHANGED changes,
             \A d \in Controllers \ {c} : /\ call'[d] = call[d] /\ expected'[d] = expected[d]
                                          /\ noted'[d] = noted[d],
             Overtakes(c)'
      PROVE  AloneInv'
  <2>1. ASSUME NEW d \in Controllers, d # c PROVE Overtakes(d)'
    <3>1. call[d] = "dialing" => UNCHANGED changes
      BY <1>o, <2>1, DialerExcludes
    <3> QED BY <1>o, <2>1, <3>1, OthersOvertake DEF AloneInv
  <2> QED BY <1>o, <2>1 DEF AloneInv
<1>1. ASSUME NEW op \in Calls, CallWait(c, op) PROVE AloneInv'
  <2>1. /\ UNCHANGED <<generation, changes>>
        /\ call' = [call EXCEPT ![c] = op] /\ noted' = [noted EXCEPT ![c] = changes]
        /\ expected' = [expected EXCEPT ![c] = Expect(op)]
    BY <1>1 DEF CallWait, Begins, session
  <2>2. Overtakes(c)'
    BY <1>t, <2>1 DEF Overtakes, Outrun, Expect, Calls
  <2> QED BY <1>t, <1>o, <2>1, <2>2 DEF CountStep
<1>2. CASE Connect(c)
  <2>1. /\ UNCHANGED <<generation, changes>> /\ Enters(c, "connect")
        /\ \/ call' = [call EXCEPT ![c] = "none"]
           \/ call' = [call EXCEPT ![c] = "dialing"]
    BY <1>2 DEF Connect, session
  <2>2. call[c] = "connect" => expected[c] = 0
    BY DEF AloneInv, Overtakes
  <2>3. Overtakes(c)'
    BY <1>t, <1>b, <2>1, <2>2 DEF Overtakes
  <2> QED BY <1>t, <1>b, <1>o, <2>1, <2>3 DEF CountStep
<1>3. ASSUME NEW op \in {"close", "reconnect"}, Close(c, op) PROVE AloneInv'
  <2>1. /\ generation' = generation + 1 /\ changes' = changes + 1 /\ Enters(c, op)
        /\ call' = [call EXCEPT ![c] = IF op = "close" THEN "closing" ELSE "reclosing"]
    BY <1>3 DEF Close, Teardown
  <2>2. call[c] = "reconnect" => expected[c] # 0 /\ Outrun(c) /\ changes >= noted[c]
    BY DEF AloneInv, Overtakes
  <2>3. Overtakes(c)'
    <3>1. CASE op = "close"
      BY <1>t, <2>1, <3>1 DEF Overtakes
    <3>2. CASE op = "reconnect"
      <4>1. call'[c] = "reclosing"
        BY <1>t, <2>1, <3>2
      <4>2. expected'[c] # 0 /\ Outrun(c)' /\ changes' > noted'[c]
        <5>1. CASE UNCHANGED <<expected, noted>> /\ call[c] = op
          BY <1>t, <2>1, <2>2, <3>2, <5>1 DEF Outrun
        <5>2. CASE expected'[c] = generation + 1 /\ noted'[c] = changes
          BY <1>t, <2>1, <5>2 DEF Outrun
        <5> QED BY <1>b, <2>1, <3>2, <5>1, <5>2
      <4> QED BY <4>1, <4>2 DEF Overtakes
    <3> QED BY <3>1, <3>2
  <2> QED BY <1>t, <1>b, <1>o, <2>1, <2>3 DEF CountStep
<1>4. CASE CallCloseEnd(c) \/ ReopenWait(c) \/ DialFail(c) \/ CancelCall(c)
  <2>1. /\ UNCHANGED <<generation, changes, expected, noted>>
        /\ \A d \in Controllers \ {c} : call'[d] = call[d]
    BY <1>t, <1>4 DEF CallCloseEnd, ReopenWait, DialFail, CancelCall, session
  <2>2. \/ call'[c] = "none"
        \/ call[c] \in {"reclosing", "delay"} /\ call'[c] \in {"delay", "reopen"}
    BY <1>t, <1>4 DEF CallCloseEnd, ReopenWait, DialFail, CancelCall
  <2>3. Overtakes(c)'
    BY <2>1, <2>2 DEF AloneInv, Overtakes, Outrun
  <2> QED BY <1>o, <2>1, <2>3 DEF CountStep
<1>5. CASE Reopen(c)
  <2>1. /\ UNCHANGED <<generation, changes, expected, noted>> /\ call[c] \in {"delay", "reopen"}
        /\ \A d \in Controllers \ {c} : call'[d] = call[d]
        /\ \/ call'[c] = "none"
           \/ call'[c] = "dialing" /\ generation = expected[c]
    BY <1>t, <1>5 DEF Reopen, Overtaken, session
  <2>2. Outrun(c) /\ changes > noted[c]
    BY <2>1 DEF AloneInv, Overtakes
  <2>3. call'[c] = "dialing" => changes = noted[c] + 1
    BY <1>t, <2>1, <2>2 DEF Outrun
  <2>4. Overtakes(c)'
    BY <2>1, <2>3 DEF Overtakes
  <2> QED BY <1>o, <2>1, <2>4 DEF CountStep
<1>6. CASE DialOk(c)
  <2>1. /\ generation' = generation + 1 /\ changes' = changes + 1 /\ HasLock(c)
        /\ call' = [call EXCEPT ![c] = "none"] /\ UNCHANGED <<expected, noted>>
    BY <1>6 DEF DialOk, Release
  <2>2. Overtakes(c)'
    BY <1>t, <2>1 DEF Overtakes
  <2> QED BY <1>t, <1>o, <2>1, <2>2 DEF CountStep
<1> QED BY <1>1, <1>2, <1>3, <1>4, <1>5, <1>6 DEF ControllerStep, ControllerResumes

(* A reconnect dials only if nobody closed, lost or opened a connection    *)
(* since it was called, but itself.                                        *)
THEOREM ReconnectsAlone == Spec => []ReconnectAlone
<1>1. Init => AloneInv
  BY DEF Init, AloneInv, Overtakes
<1>2. TypeOK /\ LifecycleHeld /\ AloneInv /\ [Next]_vars => AloneInv'
  <2>1. AloneInv /\ UNCHANGED vars => AloneInv'
    BY DEF AloneInv, Overtakes, Outrun, vars, session, calling
  <2> QED BY <2>1, CallerCounts, ReaderCounts, ControllerCounts DEF Next
<1>3. AloneInv => ReconnectAlone
  BY DEF AloneInv, Overtakes, ReconnectAlone
<1>4. LocksHeld => LifecycleHeld
  BY DEF LocksHeld
<1> QED BY <1>1, <1>2, <1>3, <1>4, TypeInvariant, LocksAlwaysHeld, PTL DEF Spec

-----------------------------------------------------------------------------
(* What the cache holds for a range is never younger than the sequence,    *)
(* and a read that got a matching block, whether or not its caller has     *)
(* resumed, has a younger one than when it was submitted.                  *)
Served(p) == future[p] = "matched" \/ outcome[p] = "success"
Stamped ==
    /\ \A r \in Reports : observed[r] <= sequence
    /\ \A p \in Callers : read[p].since <= sequence
    /\ \A p \in Callers : Served(p) => observed[read[p].range] > read[p].since

LEMMA NextNumber ==
    ASSUME NEW a \in Nat, NEW b \in Nat, a <= b
    PROVE  a <= b + 1 /\ a >= a /\ b + 1 <= b + 1 /\ b + 1 >= a
OBVIOUS

(* Frames are what stamps the cache, and what completes a read.            *)
LEMMA AcceptStamps ==
    ASSUME TypeOK, Stamped, NEW g, NEW r \in Reports, NEW id, Accept(g, r, id), UNCHANGED read
    PROVE  Stamped'
<1> USE DEF TypeOK, CacheType, FutureType, CallerType, Reports
<1>1. /\ sequence' = sequence + 1 /\ observed' = [observed EXCEPT ![r] = sequence + 1]
      /\ outcome' = outcome
      /\ \A p \in Callers : future'[p] = "matched" =>
            \/ future[p] = "matched"
            \/ p = pending /\ read[p].range = r
  BY DEF Accept, Observe, result
<1>2. \A q \in Reports : observed'[q] <= sequence' /\ observed'[q] >= observed[q]
  <2> TAKE q \in Reports
  <2>1. observed[q] \in Nat /\ sequence \in Nat /\ observed[q] <= sequence
    BY DEF Stamped
  <2>2. CASE q = r
    <3>1. observed'[q] = sequence + 1 /\ sequence' = sequence + 1
      BY <1>1, <2>2
    <3>2. sequence + 1 <= sequence + 1 /\ sequence + 1 >= observed[q]
      BY <2>1, NextNumber
    <3> QED BY <3>1, <3>2, Zenon
  <2>3. CASE q # r
    <3>1. observed'[q] = observed[q] /\ sequence' = sequence + 1
      BY <1>1, <2>3
    <3>2. observed[q] <= sequence + 1 /\ observed[q] >= observed[q]
      BY <2>1, NextNumber
    <3> QED BY <3>1, <3>2, Zenon
  <2> QED BY <2>2, <2>3
<1>3. \A p \in Callers : read'[p].since <= sequence'
  BY <1>1 DEF Stamped
<1>4. ASSUME NEW p \in Callers, Served(p)' PROVE observed'[read'[p].range] > read'[p].since
  <2>a. read'[p] = read[p] /\ read[p].range \in Reports /\ read[p].since \in Nat
    <3>1. read[p].range \in Requested /\ read[p].since \in Nat
      OBVIOUS
    <3> QED BY <3>1
  <2>b. \A q \in Reports : observed[q] \in Nat /\ observed'[q] \in Nat
    BY <1>1
  <2>1. CASE Served(p)
    <3>1. observed[read[p].range] > read[p].since
      BY <2>1 DEF Stamped
    <3>2. observed'[read[p].range] >= observed[read[p].range]
      BY <1>2, <2>a
    <3> HIDE DEF TypeOK, CacheType, FutureType, CallerType, Reports
    <3> QED BY <2>a, <2>b, <3>1, <3>2
  <2>2. CASE ~Served(p)
    <3>1. read[p].range = r
      BY <1>1, <1>4, <2>2 DEF Served
    <3> QED BY <1>1, <2>a, <2>b, <3>1 DEF Stamped
  <2> QED BY <2>1, <2>2
<1> QED BY <1>2, <1>3, <1>4 DEF Stamped

(* Every other step leaves the cache alone and gives no read a result that *)
(* it did not have, and a submitted read starts from the sequence of now.  *)
LEMMA StampsKept ==
    ASSUME TypeOK, Stamped, UNCHANGED cache,
           \A p \in Callers : \/ read'[p] = read[p] /\ (Served(p)' => Served(p))
                              \/ read'[p].since = sequence /\ ~Served(p)'
    PROVE  Stamped'
<1>1. sequence' = sequence /\ observed' = observed /\ sequence \in Nat
  BY DEF cache, TypeOK, CacheType
<1>2. \A p \in Callers : read'[p].since <= sequence
  BY <1>1 DEF Stamped
<1>3. \A p \in Callers : Served(p)' => observed[read'[p].range] > read'[p].since
  BY DEF Stamped
<1> QED BY <1>1, <1>2, <1>3 DEF Stamped

LEMMA NextStamps == TypeOK /\ Stamped /\ [Next]_vars => Stamped'
<1> SUFFICES ASSUME TypeOK, Stamped, [Next]_vars PROVE Stamped'
  OBVIOUS
<1> USE DEF TypeOK, FutureType, CallerType
<1>1. ASSUME NEW p \in Callers, CallerStep(p) PROVE Stamped'
  <2>1. CASE \E r \in Requested : Submit(p, r)
    <3>1. UNCHANGED cache /\ read'[p].since = sequence /\ ~Served(p)'
      BY <2>1 DEF Submit, Served
    <3>2. \A q \in Callers : q # p => read'[q] = read[q] /\ (Served(q)' => Served(q))
      BY <2>1 DEF Submit, Served
    <3> QED BY <3>1, <3>2, StampsKept
  <2>2. CASE ~\E r \in Requested : Submit(p, r)
    <3>1. UNCHANGED <<cache, read>>
      BY <1>1, <2>2 DEF CallerStep, CallerResumes, Deadline, Arrive, Refuse, CancelQueued,
             DrainDone, Return, Fail, CloseTurn, CloseEnd, CancelCloseWait
    <3>2. \A q \in Callers : Served(q)' => Served(q)
      BY <1>1, <2>2 DEF CallerStep, CallerResumes, Deadline, Arrive, Refuse, CancelQueued,
             DrainDone, Return, Fail, CloseTurn, CloseEnd, CancelCloseWait, FailPending,
             result, Served
    <3> QED BY <3>1, <3>2, StampsKept
  <2> QED BY <2>1, <2>2
<1>2. ASSUME NEW g \in 1..generation, ReaderStep(g) PROVE Stamped'
  <2>1. ASSUME NEW q \in unanswered, ReceiveAnswer(g, q) PROVE Stamped'
    BY <2>1, AcceptStamps DEF ReceiveAnswer, CacheType, Reports
  <2>2. ASSUME NEW r \in Pushed, ReceivePush(g, r) PROVE Stamped'
    BY <2>2, AcceptStamps DEF ReceivePush, Reports
  <2>3. CASE \/ \E q \in unanswered : ReceiveRejection(g, q)
             \/ ReaderError(g) \/ LossTurn(g) \/ LossEnd(g) \/ ReaderStale(g)
    <3>1. UNCHANGED <<cache, read>>
      BY <2>3 DEF ReceiveRejection, ReaderError, LossTurn, LossEnd, ReaderStale
    <3>2. \A q \in Callers : Served(q)' => Served(q)
      BY <2>3 DEF ReceiveRejection, ReaderError, LossTurn, LossEnd, ReaderStale, Loss,
             FailPending, result, Served
    <3> QED BY <3>1, <3>2, StampsKept
  <2> QED BY <1>2, <2>1, <2>2, <2>3 DEF ReaderStep
<1>3. ASSUME NEW c \in Controllers, ControllerStep(c) PROVE Stamped'
  <2>1. UNCHANGED <<cache, read>>
    BY <1>3 DEF ControllerStep, ControllerResumes, CallWait, Connect, Close, CallCloseEnd,
           ReopenWait, Reopen, DialOk, DialFail, CancelCall
  <2>2. \A q \in Callers : Served(q)' => Served(q)
    BY <1>3 DEF ControllerStep, ControllerResumes, CallWait, Connect, Close, CallCloseEnd,
           ReopenWait, Reopen, DialOk, DialFail, CancelCall, FailPending, result, Served
  <2> QED BY <2>1, <2>2, StampsKept
<1>4. CASE UNCHANGED vars
  BY <1>4, StampsKept DEF vars, result, Served
<1> QED BY <1>1, <1>2, <1>3, <1>4 DEF Next

(* A read that succeeds leaves its range newer in the cache than it was    *)
(* when the read was submitted, whoever else reads or pushes meanwhile.    *)
THEOREM SuccessIsFresh == Spec => []FreshSuccess
<1>1. Init => Stamped
  <2> SUFFICES ASSUME Init PROVE Stamped
    OBVIOUS
  <2> QED BY DEF Init, Stamped, Served, NoRead
<1>2. Stamped => FreshSuccess
  BY DEF Stamped, Served, FreshSuccess
<1> QED BY <1>1, <1>2, NextStamps, TypeInvariant, PTL DEF Spec

-----------------------------------------------------------------------------
(* Answers are told apart only by the connection they come on and by the   *)
(* range they have, so what follows is for a dongle that pushes no range   *)
(* that is read: a pushed block of the pending range completes the read.   *)
PushedApart == Pushed \cap Requested = {}

(* Reads are numbered in order, and the one under the request lock is the  *)
(* last; none is answered twice or on a connection yet to come.            *)
Numbered ==
    /\ \A q \in unanswered : q.id <= requests /\ q.conn <= generation
    /\ \A q, o \in unanswered : q.id = o.id => q = o
    /\ \A p \in Callers : requestLock = p => read[p].id = requests
NoAnswerYet == \A p \in Callers : future[p] = "waiting" => answer[p] = 0
AnswerInv == Numbered /\ NoAnswerYet /\ OnlyPendingAnswerable /\ OwnAnswer

(* Steps that submit nothing: the generation ends, or the pending read     *)
(* stays, or nothing that could be answered on it is left.                 *)
LEMMA AnswersKept ==
    ASSUME TypeOK, AnswerInv, UNCHANGED <<read, requests>>,
           unanswered' \subseteq unanswered, generation' \in Nat,
           \/ generation' > generation
           \/ /\ generation' = generation
              /\ pending' = pending \/ \A q \in unanswered' : q.conn # generation,
           requestLock' \in {requestLock, None},
           \A p \in Callers : \/ future'[p] = future[p] /\ answer'[p] = answer[p]
                              \/ future'[p] \notin {"waiting", "matched"}
                              \/ future'[p] = "matched" /\ answer'[p] = read[p].id
    PROVE  AnswerInv'
<1>1. \A q \in unanswered : q.conn \in Nat /\ q.id \in Nat
  BY DEF TypeOK, CacheType
<1>2. generation \in Nat
  BY DEF TypeOK, SessionType
<1>3. Numbered'
  BY <1>1, <1>2, TaskAssumption DEF AnswerInv, Numbered
<1>4. OnlyPendingAnswerable'
  BY <1>1, <1>2 DEF AnswerInv, Numbered, OnlyPendingAnswerable
<1>5. NoAnswerYet' /\ OwnAnswer'
  BY DEF AnswerInv, NoAnswerYet, OwnAnswer
<1> QED BY <1>3, <1>4, <1>5 DEF AnswerInv

(* A submitted read is the only one that can be answered, since no read is *)
(* pending before it.                                                      *)
LEMMA SubmitAnswers ==
    ASSUME FenceInv, AnswerInv, NEW p \in Callers, NEW r \in Requested, Submit(p, r)
    PROVE  AnswerInv'
<1> DEFINE new == [id |-> requests + 1, range |-> r, conn |-> connection]
<1>1. /\ requestLock' = p /\ pending = None /\ pending' = p /\ requests' = requests + 1
      /\ generation' = generation /\ unanswered' = unanswered \cup {new}
      /\ read'[p].id = requests + 1 /\ future'[p] = "waiting" /\ answer'[p] = 0
      /\ \A q \in Callers : q # p => /\ read'[q] = read[q] /\ future'[q] = future[q]
                                     /\ answer'[q] = answer[q]
  BY DEF Submit, session, FenceInv, TypeOK, FutureType, CallerType
<1>2. /\ requests \in Nat /\ generation \in Nat /\ connection \in Nat /\ connection <= generation
      /\ \A q \in unanswered : q.id \in Nat /\ q.conn \in Nat
  BY DEF Submit, Connected, FenceInv, Past, TypeOK, SessionType, CounterType, CacheType
<1>3. \A q \in unanswered : q.id <= requests /\ q.conn < generation
  BY <1>1, <1>2 DEF AnswerInv, Numbered, OnlyPendingAnswerable
<1>4. new.id = requests + 1 /\ new.conn = connection
  OBVIOUS
<1> HIDE DEF new
<1>5. Numbered'
  <2>1. \A q \in unanswered' : q.id <= requests' /\ q.conn <= generation'
    BY <1>1, <1>2, <1>3, <1>4
  <2>2. \A q, o \in unanswered' : q.id = o.id => q = o
    BY <1>1, <1>2, <1>3, <1>4 DEF AnswerInv, Numbered
  <2>3. \A q \in Callers : requestLock' = q => read'[q].id = requests'
    BY <1>1
  <2> QED BY <2>1, <2>2, <2>3 DEF Numbered
<1>6. OnlyPendingAnswerable'
  <2>1. ASSUME NEW q \in unanswered', q.conn = generation'
        PROVE  pending' # None /\ read'[pending'].id = q.id
    BY <1>1, <1>2, <1>3, <1>4, <2>1, TaskAssumption
  <2> QED BY <2>1 DEF OnlyPendingAnswerable
<1>7. NoAnswerYet' /\ OwnAnswer'
  BY <1>1 DEF AnswerInv, NoAnswerYet, OwnAnswer
<1> QED BY <1>5, <1>6, <1>7 DEF AnswerInv

(* What a reader receives on the current generation answers the pending    *)
(* read or nothing, and nothing else can be answered then.                 *)
LEMMA ReceiveAnswers ==
    ASSUME PushedApart, FenceInv, AnswerInv, NEW g \in 1..generation,
           \/ \E q \in unanswered : ReceiveAnswer(g, q) \/ ReceiveRejection(g, q)
           \/ \E r \in Pushed : ReceivePush(g, r)
    PROVE  AnswerInv'
<1> USE DEF FenceInv, TypeOK, FutureType, CallerType
<1>1. ASSUME NEW q \in unanswered, ReceiveAnswer(g, q) \/ ReceiveRejection(g, q)
      PROVE  AnswerInv'
  <2>1. /\ UNCHANGED <<generation, read, requests, requestLock>>
        /\ unanswered' = unanswered \ {q} /\ q.conn = generation
    BY <1>1 DEF ReceiveAnswer, ReceiveRejection, Live, session
  <2>2. pending \in Callers /\ read[pending].id = q.id
    BY <2>1 DEF AnswerInv, OnlyPendingAnswerable
  <2>3. \A o \in unanswered' : o.conn # generation
    BY <2>1, <2>2 DEF AnswerInv, Numbered, OnlyPendingAnswerable
  <2>4. \A p \in Callers : \/ future'[p] = future[p] /\ answer'[p] = answer[p]
                           \/ future'[p] \notin {"waiting", "matched"}
                           \/ future'[p] = "matched" /\ answer'[p] = read[p].id
    BY <1>1, <2>2 DEF ReceiveAnswer, ReceiveRejection, Accept, FailPending, result
  <2>5. generation' \in Nat
    BY <2>1 DEF SessionType
  <2> QED BY <2>1, <2>3, <2>4, <2>5, AnswersKept
<1>2. ASSUME NEW r \in Pushed, ReceivePush(g, r) PROVE AnswerInv'
  <2>1. UNCHANGED <<generation, read, requests, requestLock, unanswered>>
    BY <1>2 DEF ReceivePush, session
  <2>2. ~(Sees(g) /\ read[pending].range = r)
    BY DEF PushedApart, Sees
  <2>3. UNCHANGED <<pending, future, answer>>
    BY <1>2, <2>2 DEF ReceivePush, Accept, result
  <2>4. generation' \in Nat
    BY <2>1 DEF SessionType
  <2> QED BY <2>1, <2>3, <2>4, AnswersKept
<1> QED BY <1>1, <1>2

(* Every other step of a caller, a reader or a controller.                 *)
LEMMA NextAnswers ==
    ASSUME PushedApart, FenceInv, AnswerInv, [Next]_vars
    PROVE  AnswerInv'
<1> USE DEF FenceInv, TypeOK, FutureType, CallerType
<1> DEFINE Keeps ==
      /\ UNCHANGED <<read, requests, unanswered>>
      /\ \/ generation' \in {generation + 1, generation + 2}
         \/ UNCHANGED <<generation, pending>>
      /\ requestLock' \in {requestLock, None}
      /\ \A p \in Callers : \/ future'[p] = future[p] /\ answer'[p] = answer[p]
                            \/ future'[p] \notin {"waiting", "matched"}
<1>1. Keeps => AnswerInv'
  <2>1. generation' \in {generation, generation + 1, generation + 2} => generation' \in Nat
    BY DEF SessionType
  <2>2. generation' \in {generation + 1, generation + 2} => generation' > generation
    BY DEF SessionType
  <2> QED BY <2>1, <2>2, AnswersKept
<1>2. ASSUME NEW p \in Callers, CallerStep(p) PROVE AnswerInv'
  <2>1. CASE \E r \in Requested : Submit(p, r)
    BY <2>1, SubmitAnswers
  <2>2. CASE Arrive(p) \/ Refuse(p) \/ CancelQueued(p) \/ DrainDone(p) \/ Return(p)
             \/ CloseTurn(p) \/ CloseEnd(p) \/ CancelCloseWait(p)
    <3>1. Keeps
      BY <2>2 DEF Arrive, Refuse, CancelQueued, DrainDone, Return, CloseTurn, CloseEnd,
             CancelCloseWait, Teardown, FailPending, session, result
    <3> QED BY <1>1, <3>1
  <2>3. ASSUME NEW why, Fail(p, why) PROVE AnswerInv'
    <3>1. generation' \in {generation + 1, generation + 2}
      BY <2>3 DEF Fail, Teardown, Taint, SessionType
    <3>2. Keeps
      BY <2>3, <3>1 DEF Fail
    <3> QED BY <1>1, <3>2
  <2> QED BY <1>2, <2>1, <2>2, <2>3 DEF CallerStep, CallerResumes, Deadline
<1>3. ASSUME NEW g \in 1..generation, ReaderStep(g) PROVE AnswerInv'
  <2>1. CASE ReaderError(g) \/ LossTurn(g) \/ LossEnd(g) \/ ReaderStale(g)
    <3>1. Keeps
      BY <2>1 DEF ReaderError, LossTurn, LossEnd, ReaderStale, Loss, FailPending, result
    <3> QED BY <1>1, <3>1
  <2> QED BY <1>3, <2>1, ReceiveAnswers DEF ReaderStep
<1>4. ASSUME NEW c \in Controllers, ControllerStep(c) PROVE AnswerInv'
  <2>1. Keeps
    BY <1>4 DEF ControllerStep, ControllerResumes, CallWait, Connect, Close, CallCloseEnd,
           ReopenWait, Reopen, DialOk, DialFail, CancelCall, Teardown, FailPending, session,
           result
  <2> QED BY <1>1, <2>1
<1>5. CASE UNCHANGED vars
  <2>1. Keeps
    BY <1>5 DEF vars, session, result
  <2> QED BY <1>1, <2>1
<1> QED BY <1>2, <1>3, <1>4, <1>5 DEF Next

LEMMA AnswerInvariant == ASSUME PushedApart PROVE Spec => []AnswerInv
<1>1. Init => AnswerInv
  <2> SUFFICES ASSUME Init PROVE AnswerInv
    OBVIOUS
  <2> QED BY TaskAssumption DEF Init, AnswerInv, Numbered, NoAnswerYet,
             OnlyPendingAnswerable, OwnAnswer
<1>2. FenceInv /\ AnswerInv /\ [Next]_vars => AnswerInv'
  BY NextAnswers
<1> QED BY <1>1, <1>2, FenceInvariant, PTL DEF Spec

(* Reads are correlated though no frame names its request: what a read got *)
(* is its own answer, and nothing that an earlier one left behind can      *)
(* still be answered on the current generation.                            *)
THEOREM ReadsCorrelated == ASSUME PushedApart PROVE Spec => []Correlated
<1>1. TypeOK /\ LocksHeld /\ AnswerInv => Correlated
  BY DEF AnswerInv, Correlated
<1> QED BY <1>1, TypeInvariant, LocksAlwaysHeld, AnswerInvariant, PTL

-----------------------------------------------------------------------------
(* What the abstract reads see: whose read is running and what it has got. *)
Got == IF requestLock = None THEN 0 ELSE answer[requestLock]

LEMMA PromiseVariables ==
    /\ Promise!vars = <<requestLock, requests, Got>>
    /\ Promise!Init <=> requestLock = None /\ requests = 0 /\ Got = 0
    /\ Promise!Deliver <=> /\ requestLock # None /\ Got = 0 /\ Got' = requests
                           /\ UNCHANGED <<requestLock, requests>>
    /\ \A p : Promise!Start(p) <=> /\ requestLock = None /\ requestLock' = p
                                   /\ requests' = requests + 1 /\ Got' = 0
    /\ \A p : Promise!Finish(p) <=> /\ requestLock = p /\ requestLock' = None
                                    /\ Got' = 0 /\ UNCHANGED requests
    /\ Promise!Next <=> \/ Promise!Deliver
                        \/ \E p \in Callers : Promise!Start(p) \/ Promise!Finish(p)
BY DEF Promise!vars, Promise!Init, Promise!Deliver, Promise!Start, Promise!Finish,
       Promise!Next, Got

(* A step that leaves the request lock and what its holder has got alone   *)
(* is a stutter, one that releases it ends the abstract read.              *)
LEMMA PromiseStutters ==
    ASSUME UNCHANGED <<requestLock, requests>>,
           requestLock # None => answer'[requestLock] = answer[requestLock]
    PROVE  UNCHANGED Promise!vars
BY DEF Promise!vars

LEMMA PromiseFinishes ==
    ASSUME NEW p \in Callers, requestLock = p, requestLock' = None, UNCHANGED requests
    PROVE  Promise!Next
BY PromiseVariables DEF Got

(* Each step of the session is a step of the abstract reads, or a stutter. *)
LEMMA PromiseStep ==
    ASSUME PushedApart, FenceInv, AnswerInv, AnswerInv', [Next]_vars
    PROVE  [Promise!Next]_(Promise!vars)
<1> USE DEF FenceInv, TypeOK, FutureType, CallerType
<1>1. ASSUME NEW p \in Callers, CallerStep(p) PROVE [Promise!Next]_(Promise!vars)
  <2>1. ASSUME NEW r \in Requested, Submit(p, r) PROVE Promise!Start(p)
    BY <2>1, TaskAssumption, PromiseVariables DEF Submit, Got
  <2>2. CASE Return(p) \/ CloseEnd(p) \/ CancelCloseWait(p)
    <3>1. requestLock = p
      BY <2>2 DEF Return, CloseEnd, CancelCloseWait, RequestLockHeld, Critical
    <3>2. requestLock' = None /\ UNCHANGED requests
      BY <2>2 DEF Return, CloseEnd, CancelCloseWait
    <3> QED BY <3>1, <3>2, PromiseFinishes
  <2>3. CASE Arrive(p) \/ Refuse(p) \/ CancelQueued(p) \/ DrainDone(p) \/ CloseTurn(p)
             \/ \E why \in Outcomes : Fail(p, why)
    <3>1. UNCHANGED <<requestLock, requests, answer>>
      BY <2>3 DEF Arrive, Refuse, CancelQueued, DrainDone, CloseTurn, Fail, FailPending, result
    <3> QED BY <3>1, PromiseStutters
  <2> QED BY <1>1, <2>1, <2>2, <2>3, PromiseVariables
          DEF CallerStep, CallerResumes, Deadline, Outcomes
<1>2. ASSUME NEW g \in 1..generation, ReaderStep(g) PROVE [Promise!Next]_(Promise!vars)
  <2>1. ASSUME NEW q \in unanswered, ReceiveAnswer(g, q) PROVE [Promise!Next]_(Promise!vars)
    <3>1. UNCHANGED <<requestLock, requests, read>>
      BY <2>1 DEF ReceiveAnswer
    <3>2. CASE Sees(g) /\ read[pending].range = q.range
      <4>1. pending \in Callers /\ future[pending] = "waiting" /\ requestLock = pending
        BY <3>2 DEF Sees, PendingHasOwner, RequestLockHeld, Critical
      <4>2. future'[pending] = "matched" /\ answer'[pending] = q.id
        BY <2>1, <3>2, <4>1 DEF ReceiveAnswer, Accept
      <4>3. answer[pending] = 0 /\ read[pending].id = requests
        BY <4>1 DEF AnswerInv, NoAnswerYet, Numbered
      <4>4. answer'[pending] = read'[pending].id
        BY <4>1, <4>2 DEF AnswerInv, OwnAnswer
      <4> QED BY <3>1, <4>1, <4>3, <4>4, TaskAssumption, PromiseVariables DEF Got
    <3>3. CASE ~(Sees(g) /\ read[pending].range = q.range)
      <4>1. answer' = answer
        BY <2>1, <3>3 DEF ReceiveAnswer, Accept, result
      <4> QED BY <3>1, <4>1, PromiseStutters
    <3> QED BY <3>2, <3>3
  <2>2. ASSUME NEW r \in Pushed, ReceivePush(g, r) PROVE [Promise!Next]_(Promise!vars)
    <3>1. ~(Sees(g) /\ read[pending].range = r)
      BY DEF PushedApart, Sees
    <3>2. UNCHANGED <<requestLock, requests, answer>>
      BY <2>2, <3>1 DEF ReceivePush, Accept, result
    <3> QED BY <3>2, PromiseStutters
  <2>3. CASE \/ \E q \in unanswered : ReceiveRejection(g, q)
             \/ ReaderError(g) \/ LossTurn(g) \/ LossEnd(g) \/ ReaderStale(g)
    <3>1. UNCHANGED <<requestLock, requests, answer>>
      BY <2>3 DEF ReceiveRejection, ReaderError, LossTurn, LossEnd, ReaderStale, Loss,
             FailPending, result
    <3> QED BY <3>1, PromiseStutters
  <2> QED BY <1>2, <2>1, <2>2, <2>3 DEF ReaderStep
<1>3. ASSUME NEW c \in Controllers, ControllerStep(c) PROVE [Promise!Next]_(Promise!vars)
  <2>1. UNCHANGED <<requestLock, requests, answer>>
    BY <1>3 DEF ControllerStep, ControllerResumes, CallWait, Connect, Close, CallCloseEnd,
           ReopenWait, Reopen, DialOk, DialFail, CancelCall, FailPending, result
  <2> QED BY <2>1, PromiseStutters
<1>4. CASE UNCHANGED vars
  <2>1. UNCHANGED <<requestLock, requests, answer>>
    BY <1>4 DEF vars, result
  <2> QED BY <2>1, PromiseStutters
<1> QED BY <1>1, <1>2, <1>3, <1>4 DEF Next

(* The session implements CorrelatedReads: reads run one at a time, and a  *)
(* run yields at most the answer to the read that is running.              *)
THEOREM PromiseKept == ASSUME PushedApart PROVE Spec => KeepsPromise
<1>1. Init => Promise!Init
  BY PromiseVariables DEF Init, Got
<1>2. FenceInv /\ AnswerInv /\ AnswerInv' /\ [Next]_vars => [Promise!Next]_(Promise!vars)
  BY PromiseStep
<1> QED BY <1>1, <1>2, FenceInvariant, AnswerInvariant, PTL
        DEF Spec, KeepsPromise, Promise!Spec

=============================================================================
