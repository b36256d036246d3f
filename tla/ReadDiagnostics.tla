-------------------------- MODULE ReadDiagnostics --------------------------
(***************************************************************************)
(* The diagnostic journal of the frame-aware read session: three rings of  *)
(* bounded length, of events, of the records that sum up one request each, *)
(* and of episodes, the events that led to a response timeout.  The task   *)
(* of the request, the reader and whoever opens or closes the session      *)
(* write to it, and the request is recorded only after its clean-up, which *)
(* waits for the lifecycle lock behind everybody who asked for it before.  *)
(* What the session does is in ReadSession; here it is reduced to the      *)
(* points at which it reports to the journal.                              *)
(***************************************************************************)
EXTENDS Integers, Sequences, SequencesExt, FiniteSets

CONSTANTS EventCapacity, RequestCapacity, FailureCapacity,  \* of the rings
          FailureEventContext,  \* events copied into an episode
          MaxRequests,          \* bound on requests
          MaxConnections,       \* bound on calls of async_connect
          MaxOthers             \* bound on refusals, frames that answer nothing
                                \* or come too late, closes by other tasks and
                                \* tasks cancelled at the lock, together

ASSUME Capacities ==
  /\ EventCapacity \in Nat \ {0} /\ RequestCapacity \in Nat \ {0}
  /\ FailureCapacity \in Nat \ {0} /\ FailureEventContext \in Nat \ {0}
ASSUME Bounds == {MaxRequests, MaxConnections, MaxOthers} \subseteq Nat

VARIABLES generation,  \* the session's generation
          active,      \* generation of the open socket, 0 without one
          readers,     \* generations whose reader task still runs
          queue,       \* who holds the lifecycle lock, and who waits for it
          closing,     \* generation its holder is closing, 0 before it began
          pending,     \* the request the next answer belongs to, or 0
          request,     \* the request that holds the request lock, or NoRequest
          begun,       \* requests begun
          total,       \* events recorded
          events,      \* ring of events
          requests,    \* ring of records of finished requests
          finished,    \* requests recorded
          episodes,    \* ring of timeout episodes
          timeouts,    \* episodes captured
          others, connections

session == <<generation, active, readers, queue, closing, pending, request,
             begun, others, connections>>
journal == <<total, events, requests, finished, episodes, timeouts>>
vars == <<session, journal>>

NoRequest == [phase |-> "none"]
GivenUp == {"ambiguous_drain_timeout", "response_timeout",
            "ambiguous_io_failure", "cancelled"}
Running == request # NoRequest

LastOf(n, s) == IF Len(s) <= n THEN s ELSE SubSeq(s, Len(s) - n + 1, Len(s))
Event(kind, g, r) ==
  [kind |-> kind, generation |-> g, request |-> r, sequence |-> 0]
Own(kind) == Event(kind, request.generation, request.number)
\* Mutant: whatever request runs.
SeenRunning(kind) ==
  Event(kind, generation, IF Running THEN request.number ELSE 0)
\* request=self._pending_diagnostic(generation), for the current generation
Seen(kind) ==
  Event(kind, generation,
        IF pending # 0 /\ request.generation = generation THEN pending ELSE 0)

Numbered(list) ==
  [i \in 1 .. Len(list) |-> [list[i] EXCEPT !.sequence = total + i]]
Ring(list) == LastOf(EventCapacity, events \o Numbered(list))
\* record_event, once for each event of the list.
Record(list) == events' = Ring(list) /\ total' = total + Len(list)
Report(list) ==
  Record(list) /\ UNCHANGED <<requests, finished, episodes, timeouts>>

(***************************************************************************)
(* finalize_request: the record of the request, and the episode when its   *)
(* answer did not come in time.                                            *)
(***************************************************************************)
RecordOf(outcome, last) ==
  [request EXCEPT !.phase = outcome, !.terminal = last]
Finalize(list, outcome) ==
  LET all == Append(list, Own("request_terminal"))
      record == RecordOf(outcome, total + Len(all))
  IN /\ Record(all)
     /\ requests' = LastOf(RequestCapacity, Append(requests, record))
     /\ finished' = finished + 1
     /\ IF outcome = "response_timeout"
        THEN /\ episodes' = LastOf(FailureCapacity, Append(episodes,
                  [request |-> record, recent |-> LastOf(FailureEventContext, events')]))
             /\ timeouts' = timeouts + 1
        ELSE UNCHANGED <<episodes, timeouts>>
     /\ request' = NoRequest

\* _fail_pending: the request is told, unless its future is done already.
FailPending(error) ==
  /\ pending' = 0
  /\ request' = IF pending # 0 THEN [request EXCEPT !.future = error] ELSE request
PendingFailed == IF pending # 0 THEN <<Own("pending_failed")>> ELSE <<>>
(***************************************************************************)
(* The lifecycle lock, an asyncio.Lock: the first of the queue holds it,   *)
(* the others have it in the order they asked for it.  Between the moment  *)
(* a task gets the lock and its step here any time may pass; the dial of a *)
(* connection and the wait for a lost writer are in that time.             *)
(***************************************************************************)
Task(does, g) == [does |-> does, generation |-> g]
Asks(does, g) == queue' = Append(queue, Task(does, g)) /\ UNCHANGED closing
Holds(does) == queue # <<>> /\ queue[1].does = does
\* The holder releases the lock, or a waiter is cancelled.
Leaves(i) ==
  /\ queue' = RemoveAt(queue, i) /\ closing' = IF i = 1 THEN 0 ELSE closing
\* A live reader task: one that reports its failure is not done yet.
Connected ==
  /\ active # 0
  /\ active \in readers \/ Task("lose", active) \in Range(queue)
Other == others < MaxOthers /\ others' = others + 1
-----------------------------------------------------------------------------
Init ==
  /\ generation = 0 /\ active = 0 /\ readers = {} /\ queue = <<>> /\ closing = 0
  /\ pending = 0 /\ request = NoRequest /\ begun = 0
  /\ total = 0 /\ events = <<>> /\ requests = <<>> /\ finished = 0
  /\ episodes = <<>> /\ timeouts = 0 /\ others = 0 /\ connections = 0

\* async_connect and async_close, as other tasks call them.
CallConnect ==
  /\ connections < MaxConnections /\ connections' = connections + 1
  /\ Asks("connect", 0)
  /\ UNCHANGED <<generation, active, readers, pending, request, begun, others, journal>>
CallClose ==
  /\ Other
  /\ Asks("close", 0)
  /\ UNCHANGED <<generation, active, readers, pending, request, begun, connections,
                 journal>>
\* A caller is cancelled: while it waits, dials or closes the writer.
CancelCaller(i) ==
  /\ queue[i].does \in {"connect", "close"} /\ Leaves(i)
  /\ Other
  /\ UNCHANGED <<generation, active, readers, pending, request, begun, connections,
                 journal>>

\* _connect_locked: connected already, opened, or not to be had.
Connect ==
  /\ Holds("connect") /\ Leaves(1)
  /\ \/ /\ ~Connected
        /\ generation' = generation + 1 /\ active' = generation'
        /\ readers' = readers \cup {generation'}
        /\ Report(<<Event("connection_opened", generation', 0)>>)
     \/ UNCHANGED <<generation, active, readers, journal>>
  /\ UNCHANGED <<pending, request, begun, others, connections>>

-----------------------------------------------------------------------------
\* The request: registered and written without a pause, then drained.
BeginRequest ==
  /\ ~Running /\ Connected /\ begun < MaxRequests
  /\ begun' = begun + 1 /\ pending' = begun + 1
  /\ request' = [phase |-> "drain", number |-> begun + 1, generation |-> generation,
                 future |-> "open", first |-> total + 1, drained |-> FALSE,
                 matched |-> FALSE, invalidated |-> FALSE, deadline |-> 0,
                 terminal |-> 0, ahead |-> 0, tailing |-> 0, dialed |-> FALSE]
  /\ Report(<<Event("request_registered", generation, begun + 1),
              Event("write_started", generation, begun + 1),
              Event("write_returned", generation, begun + 1)>>)
  /\ UNCHANGED <<generation, active, readers, queue, closing, others, connections>>

DrainCompleted ==
  /\ request.phase = "drain"
  /\ request' = [request EXCEPT !.phase = "reply", !.drained = TRUE]
  /\ Report(<<Own("drain_completed")>>)
  /\ UNCHANGED <<generation, active, readers, queue, closing, pending, begun, others,
                 connections>>

(***************************************************************************)
(* A handler that gives the connection up: the generation is invalidated   *)
(* at once, the session closed when the lock is free, and only then is the *)
(* request recorded.  Deadlines may expire while the future is done.       *)
(***************************************************************************)
StillValid(g) == g  \* Mutant: its reader goes on until the close.
Invalidated(g) == g + 1
GiveUp(outcome, list, noted) ==
  /\ pending' = 0
  /\ request' = [noted EXCEPT !.phase = outcome, !.invalidated = TRUE]
  /\ generation' = Invalidated(generation)
  /\ Asks("request", 0)
  /\ Report(Append(list, Own("generation_tainted")))
  /\ UNCHANGED <<active, readers, begun, others, connections>>

DrainTimeout ==
  /\ request.phase = "drain"
  /\ GiveUp("ambiguous_drain_timeout", <<Own("drain_deadline_expired")>>, request)
\* History: who is ahead of the request in the queue, and which readers run.
Noted == [request EXCEPT !.deadline = total + 1, !.ahead = Len(queue),
                         !.tailing = Cardinality(readers),
                         !.dialed = \E i \in 1 .. Len(queue) : queue[i].does = "connect"]
ReplyTimeout ==
  /\ request.phase = "reply"
  /\ GiveUp("response_timeout", <<Own("reply_deadline_expired")>>, Noted)
WriteFails ==
  /\ request.phase = "drain"
  /\ GiveUp("ambiguous_io_failure", <<>>, request)
CancelRequest ==
  /\ request.phase \in {"drain", "reply"}
  /\ GiveUp("cancelled", <<>>, request)

\* Mutant: a loss is taken for a result.
EndsSwallowed ==
  [value |-> "success", rejected |-> "modbus_rejected", lost |-> "success",
   closed |-> "session_closed"]
\* The future is done: its result, or the error it was given.
Ends ==
  [value |-> "success", rejected |-> "modbus_rejected", lost |-> "connection_lost",
   closed |-> "session_closed"]
AwaitReply ==
  /\ request.phase = "reply" /\ request.future # "open"
  /\ Finalize(<<>>, Ends[request.future])
  /\ UNCHANGED <<generation, active, readers, queue, closing, pending, begun, others,
                 connections>>
-----------------------------------------------------------------------------
\* async_close by another task.  Without a socket there is nothing to wait for.
CloseCalled ==
  /\ Holds("close") /\ closing = 0
  /\ generation' = generation + 1 /\ active' = 0
  /\ FailPending("closed")
  /\ IF active # 0
     THEN /\ closing' = active /\ UNCHANGED queue
          /\ Report(<<Event("close_started", active, 0)>> \o PendingFailed)
     ELSE Leaves(1) /\ Report(PendingFailed)
  /\ UNCHANGED <<readers, begun, others, connections>>

\* async_close by the request that gave up, which left nothing pending.
CloseStarted ==
  /\ Holds("request") /\ closing = 0
  /\ generation' = generation + 1 /\ active' = 0
  /\ IF active # 0
     THEN /\ closing' = active /\ UNCHANGED <<queue, request>>
          /\ Report(<<Event("close_started", active, 0)>>)
     ELSE Leaves(1) /\ Finalize(<<>>, request.phase)
  /\ UNCHANGED <<readers, pending, begun, others, connections>>

\* The reader was cancelled and waited for, but no longer than a second.
CloseCompleted ==
  /\ closing # 0 /\ Leaves(1)
  /\ LET done == <<Event("close_completed", closing, 0)>>
     IN IF queue[1].does = "request" THEN Finalize(done, request.phase)
        ELSE Report(done) /\ UNCHANGED request
  /\ UNCHANGED <<generation, active, readers, pending, begun, others, connections>>

\* The handler is cancelled again, in the queue or while it closes the writer:
\* the request is recorded with the outcome it had, the close is not completed.
CancelCleanUp(i) ==
  /\ queue[i].does = "request" /\ Leaves(i)
  /\ Finalize(<<>>, request.phase)
  /\ Other
  /\ UNCHANGED <<generation, active, readers, pending, begun, connections>>

-----------------------------------------------------------------------------
Reads(g) == g \in readers /\ g = generation
ReaderKeeps ==
  UNCHANGED <<generation, active, readers, queue, closing, begun, connections>>
Arrived == <<Seen("bytes_received"), Seen("frame_completed")>>

\* The answer to the pending request, or the inverter's refusal of it.
MatchedResponse(g) ==
  /\ Reads(g) /\ pending # 0 /\ request.generation = g
  /\ pending' = 0
  /\ \/ /\ request' = [request EXCEPT !.future = "value", !.matched = TRUE]
        /\ Report(Append(Arrived, Own("matched_fc4"))) /\ UNCHANGED others
     \/ /\ request' = [request EXCEPT !.future = "rejected"]
        /\ Report(Append(Arrived, Own("modbus_rejected"))) /\ Other
  /\ ReaderKeeps

\* A frame that answers nothing, UNMATCHED_FC4, FC193 or INVALID_FRAME.
OtherFrame(g) ==
  /\ Reads(g) /\ Other
  /\ Report(Append(Arrived, Seen("other_frame")))
  /\ ReaderKeeps /\ UNCHANGED <<pending, request>>

\* A reader of an old generation ends quietly.
ReaderExit(g) ==
  /\ g \in readers /\ g # generation /\ readers' = readers \ {g}
  /\ Report(<<Event("reader_exit", g, 0)>>)
  /\ UNCHANGED <<generation, active, queue, closing, pending, request, begun, others,
                 connections>>

\* The reader fails, or nothing came for too long: it asks to report the loss.
ReaderEnds(g) ==
  /\ Reads(g) /\ readers' = readers \ {g} /\ Asks("lose", g)
  /\ LET exit == <<Event("reader_exit", g, 0)>>
     IN Report(exit) \/ Report(<<Seen("receive_inactivity_timeout")>> \o exit)
  /\ UNCHANGED <<generation, active, pending, request, begun, others, connections>>

\* Bytes reach a reader that was not cancelled in time.
OldGenerationBytes(g) ==
  /\ g \in readers /\ g # generation /\ readers' = readers \ {g}
  /\ Other
  /\ Report(<<Event("old_generation_bytes", g, 0), Event("reader_exit", g, 0)>>)
  /\ UNCHANGED <<generation, active, queue, closing, pending, request, begun,
                 connections>>

\* Mutant: a loss that is out of date keeps the lock.
ReaderFailedKept ==
  /\ Holds("lose") /\ queue[1].generation = generation /\ Leaves(1)
  /\ generation' = generation + 1 /\ active' = 0
  /\ FailPending("lost")
  /\ Report(<<Seen("connection_lost")>> \o PendingFailed)
  /\ UNCHANGED <<readers, begun, others, connections>>
ReaderFailed ==
  /\ Holds("lose") /\ Leaves(1)
  /\ IF queue[1].generation = generation
     THEN /\ generation' = generation + 1 /\ active' = 0
          /\ FailPending("lost")
          /\ Report(<<Seen("connection_lost")>> \o PendingFailed)
     ELSE UNCHANGED <<generation, active, pending, request, journal>>
  /\ UNCHANGED <<readers, begun, others, connections>>

RequestStep == DrainCompleted \/ DrainTimeout \/ ReplyTimeout \/ AwaitReply
HolderStep == Connect \/ CloseCalled \/ CloseStarted \/ CloseCompleted \/ ReaderFailed
Next ==
  \/ CallConnect \/ CallClose \/ BeginRequest \/ WriteFails \/ CancelRequest
  \/ RequestStep \/ HolderStep
  \/ \E i \in 1 .. Len(queue) : CancelCaller(i) \/ CancelCleanUp(i)
  \/ \E g \in readers :
       \/ MatchedResponse(g) \/ OtherFrame(g) \/ ReaderExit(g) \/ ReaderEnds(g)
       \/ OldGenerationBytes(g)

(***************************************************************************)
(* The waits of a request have deadlines, and so have those of whoever     *)
(* holds the lifecycle lock: the dial, the writer, the reader.  Nobody     *)
(* passes the request in the queue.                                        *)
(***************************************************************************)
Fairness == WF_vars(RequestStep) /\ WF_vars(HolderStep)
Spec == Init /\ [][Next]_vars
LiveSpec == Spec /\ Fairness
-----------------------------------------------------------------------------
Tasks == [does : {"connect", "close", "request", "lose"}, generation : 0 .. generation]
TypeOK ==
  /\ Len(events) <= EventCapacity /\ Len(requests) <= RequestCapacity
  /\ Len(episodes) <= FailureCapacity
  /\ active \in 0 .. generation /\ readers \subseteq 1 .. generation
  /\ Range(queue) \subseteq Tasks /\ closing \in 0 .. generation
  /\ closing # 0 => Holds("close") \/ Holds("request")
  /\ pending \in {0, begun}
  /\ pending # 0 => Running /\ request.future = "open"

(***************************************************************************)
(* The events that name a request, whichever task recorded them, lie       *)
(* between its first event and its terminal one, in its own generation.    *)
(***************************************************************************)
RecordsAndRunning ==
  {requests[i] : i \in 1 .. Len(requests)}
  \cup (IF Running THEN {[request EXCEPT !.terminal = total]} ELSE {})
Attributed ==
  \A i \in 1 .. Len(events), r \in RecordsAndRunning :
    events[i].request = r.number =>
      /\ events[i].sequence \in r.first .. r.terminal
      /\ events[i].generation = r.generation

(***************************************************************************)
(* A record tells what happened: a success was drained, matched and keeps  *)
(* its connection; the deadline a timeout names is the one that expired;   *)
(* an answer that was matched but not returned cost the connection (and    *)
(* the variables have their types).                                        *)
(***************************************************************************)
RecordsConsistent ==
  TypeOK /\ \A i \in 1 .. Len(requests) :
    LET r == requests[i] IN
    /\ r.phase = "success" => r.drained /\ r.matched /\ ~r.invalidated
    /\ r.phase = "response_timeout" => r.drained
    /\ r.phase = "ambiguous_drain_timeout" => ~r.drained
    /\ r.invalidated = (r.phase \in GivenUp)
    /\ r.matched /\ ~r.invalidated => r.phase = "success"

(***************************************************************************)
(* The context copied into an episode can reach back to the deadline that  *)
(* expired, though other tasks go on recording while the clean-up waits    *)
(* for the lock: besides the five events of the request itself from its    *)
(* deadline on, whoever is ahead of it records two at most, and so does a  *)
(* reader of the old generation.  Only a connect ahead of it can fill the  *)
(* context, as its reader is current again.  (That these events are in the *)
(* episode when ring and context are so long is proved in                  *)
(* ReadDiagnosticsProofs, EpisodesHoldTheDeadline.)                        *)
(***************************************************************************)
Needed(r) == 5 + 2 * (r.ahead + r.tailing)
EpisodesReachBack ==
  \A i \in 1 .. Len(episodes) :
    LET e == episodes[i] r == e.request IN
    /\ e.recent[Len(e.recent)].sequence = r.terminal
    /\ ~r.dialed => r.terminal - r.deadline < Needed(r)

\* Every request that is begun gets its record, before another can begin.
EveryRequestRecorded == begun > finished ~> begun = finished
=============================================================================
