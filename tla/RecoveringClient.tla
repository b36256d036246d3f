---------------------------- MODULE RecoveringClient ----------------------------
(***************************************************************************)
(* QualifiedLuxReadClient (luxpower/qualified.py) over                     *)
(* LuxPowerHybridReadClient (luxpower/hybrid.py): owners start and close   *)
(* the client, acquirers refresh the profile's blocks one read at a time   *)
(* and, when a read fails, spend a budget of reconnects to carry on.       *)
(*                                                                         *)
(* The read session below appears by what it promises (ReadSession): a     *)
(* read that times out takes the connection with it, a close fails the     *)
(* pending read, and its lifecycle lock is held over dials and closes.     *)
(* The holder of the acquisition lock is the only task inside a refresh,   *)
(* so the locals of the refresh are variables without an index.  One step  *)
(* is what a task does between two awaits; a wait for a lock that is free  *)
(* is sometimes a step where the code has none.                            *)
(***************************************************************************)
EXTENDS Integers, Sequences

CONSTANTS
    Acquirers,         \* tasks that call async_acquire
    Owners,            \* tasks that call async_start and async_close
    None,              \* Python's None
    Cancels,           \* whether those tasks may be cancelled
    Blocks,            \* the number of read blocks of the profile
    MaxReconnects,     \* max_reconnects_per_acquisition
    MaxPerWindow,      \* max_reconnects_per_window
    MaxDials,          \* max_connection_attempts_per_reconnect
    Window,            \* rolling_window_seconds
    MaxTime,           \* bound: the monotonic clock
    MaxAcquisitions,   \* bound: calls of async_acquire
    MaxCalls           \* bound: calls of async_start and async_close

ASSUME TaskAssumption ==
    Acquirers \cap Owners = {} /\ None \notin Acquirers \cup Owners
ASSUME PolicyAssumption ==
    {Blocks, MaxReconnects, MaxPerWindow, MaxDials, Window} \subseteq Nat \ {0}
ASSUME BoundAssumption ==
    Cancels \in BOOLEAN /\ {MaxTime, MaxAcquisitions, MaxCalls} \subseteq Nat

VARIABLES
    now,               \* the monotonic clock
    fresh,             \* blocks whose required registers are fresh
    live,              \* whether the session is connected
    refusal,           \* the error of a read without connection
    sessionLock,       \* the session's lifecycle lock: its holder
    started, closed,   \* _started, _closed
    shutdown,          \* _shutdown
    lifecycle,         \* _lifecycle_lock: its holder
    owner,             \* where each owner is in its call
    acqLock,           \* _acquisition_lock: its holder
    waiting,           \* acquirers that wait for it
    stage,             \* where the acquirer that holds it is
    block,             \* the block it reads
    reply,             \* the state of that read's future
    cause,             \* why it closes the session
    reconnects,        \* its reconnects so far
    dials,             \* the dials of the current reconnect
    health,            \* _health
    active,            \* whether it works on a recovery (active_recovery)
    window,            \* _reconnect_attempt_times
    episodes,          \* the times of all reconnects
    unrecorded,        \* reconnects of which there is no recovery event
    epoch, entered,    \* starts so far, and at the start of the acquisition
    ended,             \* how the latest acquisition ended
    acquisitions, calls  \* counters of the bounds

world == <<now, fresh>>
session == <<live, refusal, sessionLock>>
facade == <<started, closed, shutdown, lifecycle, owner, epoch>>
place == <<stage, block, reply, cause>>
spent == <<reconnects, dials>>
holding == <<acqLock, ended>>
ledger == <<health, window, episodes, unrecorded>>
recovery == <<active, ledger>>
bounds == <<acquisitions, calls>>
vars == <<world, session, facade, place, spent, holding, recovery, waiting,
          entered, bounds>>

Init ==
    /\ now = 0 /\ fresh = {}
    /\ live = FALSE /\ refusal = "closed" /\ sessionLock = None
    /\ started = FALSE /\ closed = FALSE /\ shutdown = TRUE /\ lifecycle = None
    /\ owner = [o \in Owners |-> "idle"]
    /\ acqLock = None /\ waiting = {}
    /\ stage = "out" /\ block = 1 /\ reply = "none" /\ cause = "none"
    /\ reconnects = 0 /\ dials = 0
    /\ health = "degraded" /\ active = FALSE /\ window = <<>>
    /\ episodes = <<>> /\ unrecorded = 0
    /\ epoch = 0 /\ entered = 0 /\ ended = "none"
    /\ acquisitions = 0 /\ calls = 0

Put(o, at) == owner' = [owner EXCEPT ![o] = at]

-----------------------------------------------------------------------------
(* _async_refresh_profile_locked and _recover_transport: what the acquirer *)
(* inside does from one await to the next.                                 *)

(* The acquisition ends, and with it its locals.                           *)
Release == acqLock' = None
Leave(how) ==
    /\ Release /\ ended' = how
    /\ stage' = "out" /\ block' = 1 /\ reply' = "none" /\ cause' = "none"
    /\ reconnects' = 0 /\ dials' = 0 /\ active' = FALSE

(* _record_recovery of the recovery it works on, if there is one.          *)
Recorded == unrecorded' = unrecorded - 1
RecordedNever == UNCHANGED unrecorded     \* mutant of Record
Record == Recorded
Terminate ==
    /\ IF active THEN Record ELSE UNCHANGED unrecorded
    /\ UNCHANGED <<window, episodes>>

(* The end of the loop, and async_acquire's last _require_started.         *)
StillStarted == started
StillStartedIgnored == TRUE               \* mutant of StillRunning
StillRunning == StillStarted
Finish ==
    /\ health' = IF fresh = 1..Blocks THEN "healthy" ELSE "degraded"
    /\ Terminate
    /\ Leave(IF StillRunning THEN "ok" ELSE "closed")

(* A recovery that may still dial waits; after a shutdown it ends at once. *)
Episode ==
    /\ episodes' = Append(episodes, now)
    /\ health' = "recovering"
    /\ IF shutdown
       THEN UNCHANGED unrecorded /\ Leave("closed")
       ELSE /\ active' = TRUE /\ unrecorded' = unrecorded + 1
            /\ stage' = "cooldown" /\ reconnects' = reconnects + 1 /\ dials' = 0
            /\ cause' = "none" /\ UNCHANGED <<block, reply, holding>>

Older(t) == t < now - Window
OlderOrEqual(t) == t <= now - Window      \* mutant of Expired
Expired(t) == Older(t)
(* The attempts that have left the rolling window, oldest first.           *)
Dropped(n) ==
    /\ \A i \in 1..n : Expired(window[i])
    /\ n < Len(window) => ~Expired(window[n + 1])
Recover ==
    \E n \in 0..Len(window) :
        LET kept == SubSeq(window, n + 1, Len(window)) IN
        /\ Dropped(n)
        /\ \/ /\ Len(kept) >= MaxPerWindow
              /\ window' = kept /\ health' = "degraded"
              /\ Leave("exhausted")
              /\ UNCHANGED <<episodes, unrecorded>>
           \/ /\ Len(kept) < MaxPerWindow
              /\ window' = Append(kept, now)
              /\ Episode

(* The handler of a LuxPowerCommunicationError.                            *)
ReadFailed(kind) ==
    \/ /\ active /\ shutdown /\ kind = "closed"
       /\ health' = "degraded" /\ Terminate /\ Leave("closed")
    \/ /\ ~(active /\ shutdown /\ kind = "closed")
       /\ reconnects >= MaxReconnects
       /\ health' = "degraded" /\ Terminate /\ Leave("exhausted")
    \/ /\ ~(active /\ shutdown /\ kind = "closed")
       /\ reconnects < MaxReconnects
       /\ Recover

(* The loop over the blocks from the i-th on: the first that is stale is   *)
(* read, which fails at once without a connection.                         *)
Stale(i) == {b \in i..Blocks : b \notin fresh}
Continue(i) ==
    \/ Stale(i) = {} /\ Finish
    \/ /\ live
       /\ \E b \in Stale(i) :
            /\ \A c \in Stale(i) : b <= c
            /\ block' = b
       /\ stage' = "read" /\ reply' = "none" /\ cause' = "none"
       /\ UNCHANGED <<spent, holding, recovery>>
    \/ Stale(i) # {} /\ ~live /\ ReadFailed(refusal)

Acquire(p) ==
    /\ p \notin waiting /\ acqLock # p
    /\ started /\ acquisitions < MaxAcquisitions
    /\ waiting' = waiting \cup {p}
    /\ acquisitions' = acquisitions + 1
    /\ UNCHANGED <<world, session, facade, place, spent, holding, recovery,
                   entered, calls>>

Enter(p) ==
    /\ p \in waiting /\ acqLock = None
    /\ waiting' = waiting \ {p}
    /\ acqLock' = p /\ stage' = "begin"
    /\ UNCHANGED <<world, session, facade, block, reply, cause, spent, ended,
                   recovery, entered, bounds>>

Begin ==
    /\ stage = "begin"
    /\ entered' = epoch
    /\ IF started THEN Continue(1) ELSE Leave("closed") /\ UNCHANGED ledger
    /\ UNCHANGED <<world, session, facade, waiting, bounds>>

(* The acquirer resumes with the result of its read.                       *)
Resume ==
    /\ stage = "read"
    /\ \/ reply = "matched" /\ Continue(block + 1)
       \/ reply = "rejected" /\ health' = "degraded" /\ Terminate /\ Leave("rejected")
       \/ reply \in {"lost", "closed"} /\ ReadFailed(reply)
    /\ UNCHANGED <<world, session, facade, waiting, entered, bounds>>

(* async_close of the session, for the acquirer, which waits for its lock. *)
(* Before it can, the session's own handler has given up the read.         *)
Close(why) ==
    /\ cause' = why /\ reply' = "none"
    /\ IF sessionLock = None
       THEN /\ live' = FALSE /\ refusal' = "closed" /\ sessionLock' = acqLock
            /\ stage' = "closing"
       ELSE stage' = "close" /\ UNCHANGED session

(* Mutant of GiveUp: the connection outlives the read.                     *)
KeepOpen(why) ==
    /\ cause' = why /\ reply' = "none" /\ stage' = "closing"
    /\ sessionLock = None /\ sessionLock' = acqLock
    /\ UNCHANGED <<live, refusal>>
GiveUp(why) == Close(why)

DeadlineNever == FALSE                    \* mutant of Deadline
Deadline == stage = "read"
TimeOut ==
    /\ Deadline
    /\ GiveUp("failed")
    /\ UNCHANGED <<world, facade, block, spent, holding, recovery, waiting,
                   entered, bounds>>

CloseTurn ==
    /\ stage = "close" /\ sessionLock = None
    /\ Close(cause)
    /\ UNCHANGED <<world, facade, block, spent, holding, recovery, waiting,
                   entered, bounds>>

(* The close is done: what follows depends on why it was made.             *)
CloseDone ==
    /\ stage = "closing"
    /\ sessionLock' = None
    /\ \/ cause = "failed" /\ ReadFailed("timeout")
       \/ cause = "cancelled" /\ health' = "degraded" /\ Terminate /\ Leave("cancelled")
       \/ cause = "undo" /\ Terminate /\ Leave("closed") /\ UNCHANGED health
    /\ UNCHANGED <<world, live, refusal, facade, waiting, entered, bounds>>

(* The cooldown before a dial is interrupted by a shutdown, or over.       *)
CooldownStopped ==
    /\ stage = "cooldown" /\ shutdown
    /\ Terminate /\ Leave("closed")
    /\ UNCHANGED <<world, session, facade, health, waiting, entered, bounds>>

Dial ==
    /\ stage = "cooldown" /\ ~shutdown /\ sessionLock = None
    /\ sessionLock' = acqLock
    /\ stage' = "dialing" /\ dials' = dials + 1
    /\ UNCHANGED <<world, live, refusal, facade, block, reply, cause, reconnects,
                   holding, recovery, waiting, entered, bounds>>

(* Connected: a shutdown that came meanwhile closes the new connection,    *)
(* otherwise the blocks are selected from the first again.                 *)
Restart ==
    \/ Stale(1) = {} /\ Finish
    \/ /\ \E b \in Stale(1) : (\A c \in Stale(1) : b <= c) /\ block' = b
       /\ stage' = "read" /\ reply' = "none" /\ cause' = "none"
       /\ UNCHANGED <<spent, holding, recovery>>
DialOk ==
    /\ stage = "dialing"
    /\ live' = TRUE /\ sessionLock' = None
    /\ IF shutdown
       THEN stage' = "close" /\ cause' = "undo"
            /\ UNCHANGED <<block, reply, spent, holding, recovery>>
       ELSE Restart
    /\ UNCHANGED <<world, refusal, facade, waiting, entered, bounds>>

DialsLeft == dials < MaxDials
DialFail ==
    /\ stage = "dialing"
    /\ sessionLock' = None
    /\ IF DialsLeft
       THEN stage' = "cooldown"
            /\ UNCHANGED <<block, reply, cause, spent, holding, recovery>>
       ELSE health' = "degraded" /\ Terminate /\ Leave("failed")
    /\ UNCHANGED <<world, live, refusal, facade, waiting, entered, bounds>>

(* The acquirer is cancelled.  During a read the session still closes the  *)
(* connection; no handler covers the close of an undone dial.              *)
Cancelled ==
    /\ Leave("cancelled")
    /\ IF stage = "begin" \/ cause = "undo"
       THEN UNCHANGED ledger
       ELSE health' = "degraded" /\ Terminate

CancelAcquirer(p) ==
    /\ Cancels
    /\ \/ /\ p \in waiting
          /\ waiting' = waiting \ {p}
          /\ UNCHANGED <<session, place, spent, holding, recovery>>
       \/ /\ acqLock = p /\ stage = "read"
          /\ GiveUp("cancelled")
          /\ UNCHANGED <<block, spent, holding, recovery, waiting>>
       \/ /\ acqLock = p /\ stage \in {"begin", "cooldown", "close"}
          /\ Cancelled
          /\ UNCHANGED <<session, waiting>>
       \/ /\ acqLock = p /\ stage \in {"dialing", "closing"}
          /\ Cancelled
          /\ sessionLock' = None
          /\ UNCHANGED <<live, refusal, waiting>>
    /\ UNCHANGED <<world, facade, entered, bounds>>

-----------------------------------------------------------------------------
(* async_start and async_close of the facade                               *)

Call(o, what) ==
    /\ owner[o] = "idle" /\ calls < MaxCalls
    /\ Put(o, what)
    /\ calls' = calls + 1
    /\ UNCHANGED <<world, session, started, closed, shutdown, lifecycle, epoch,
                   place, spent, holding, recovery, waiting, entered, acquisitions>>

Inside == <<place, spent, recovery, waiting, entered, ended>>

StartTurn(o) ==
    /\ owner[o] = "start" /\ lifecycle = None
    /\ IF started
       THEN Put(o, "idle") /\ UNCHANGED <<closed, lifecycle>>
       ELSE Put(o, "startDrained") /\ closed' = FALSE /\ lifecycle' = o
    /\ UNCHANGED <<world, session, started, shutdown, epoch, acqLock, Inside, bounds>>

(* No acquisition is inside any more.                                      *)
DrainIgnored == TRUE                      \* mutant of Drained
Drained == acqLock = None
StartDrained(o) ==
    /\ owner[o] = "startDrained" /\ Drained
    /\ acqLock' = o /\ shutdown' = FALSE
    /\ Put(o, "startDial")
    /\ UNCHANGED <<world, session, started, closed, lifecycle, epoch, Inside, bounds>>

Running(o) ==
    /\ started' = TRUE /\ epoch' = epoch + 1 /\ health' = "degraded"
    /\ acqLock' = None /\ lifecycle' = None
    /\ Put(o, "idle")
    /\ UNCHANGED <<closed, shutdown, active, window, episodes, unrecorded>>

StartDial(o) ==
    /\ owner[o] = "startDial" /\ sessionLock = None
    /\ IF live
       THEN Running(o) /\ UNCHANGED sessionLock
       ELSE /\ sessionLock' = o /\ Put(o, "starting")
            /\ UNCHANGED <<started, closed, shutdown, lifecycle, epoch, acqLock, recovery>>
    /\ UNCHANGED <<world, live, refusal, place, spent, waiting, entered, ended, bounds>>

StartOk(o) ==
    /\ owner[o] = "starting"
    /\ live' = TRUE /\ sessionLock' = None
    /\ Running(o)
    /\ UNCHANGED <<world, refusal, place, spent, waiting, entered, ended, bounds>>

(* The dial failed, or the owner was cancelled while it dialed.            *)
StartFailed(o) ==
    /\ owner[o] = "starting"
    /\ sessionLock' = None /\ acqLock' = None /\ lifecycle' = None
    /\ health' = "degraded"
    /\ Put(o, "idle")
    /\ UNCHANGED <<world, live, refusal, started, closed, shutdown, epoch, place,
                   spent, active, window, episodes, unrecorded, waiting, entered,
                   ended, bounds>>

(* async_close of the session, for the owner.                              *)
Shut(o) ==
    /\ live' = FALSE /\ refusal' = "closed" /\ sessionLock' = o
    /\ reply' = IF stage = "read" /\ reply = "none" THEN "closed" ELSE reply
    /\ Put(o, "closing")

Stop(o) ==
    /\ owner[o] = "close" /\ lifecycle = None
    /\ IF closed
       THEN Put(o, "idle")
            /\ UNCHANGED <<started, shutdown, lifecycle, health, reply, session>>
       ELSE /\ started' = FALSE /\ shutdown' = TRUE /\ health' = "degraded"
            /\ lifecycle' = o
            /\ IF sessionLock = None
               THEN Shut(o)
               ELSE Put(o, "closeTurn") /\ UNCHANGED <<reply, session>>
    /\ UNCHANGED <<world, closed, epoch, stage, block, cause, spent, holding, active,
                   window, episodes, unrecorded, waiting, entered, bounds>>

StopTurn(o) ==
    /\ owner[o] = "closeTurn" /\ sessionLock = None
    /\ Shut(o)
    /\ UNCHANGED <<world, started, closed, shutdown, lifecycle, epoch, stage, block,
                   cause, spent, holding, recovery, waiting, entered, bounds>>

StopDone(o) ==
    /\ owner[o] = "closing"
    /\ sessionLock' = None
    /\ Put(o, "closeDrained")
    /\ UNCHANGED <<world, live, refusal, started, closed, shutdown, lifecycle, epoch,
                   acqLock, Inside, bounds>>

StopDrained(o) ==
    /\ owner[o] = "closeDrained" /\ Drained
    /\ closed' = TRUE /\ lifecycle' = None
    /\ Put(o, "idle")
    /\ UNCHANGED <<world, session, started, shutdown, epoch, acqLock, Inside, bounds>>

(* An owner is cancelled: what it holds is released, what it did stays.    *)
CancelOwner(o) ==
    /\ Cancels /\ owner[o] \notin {"idle", "starting"}
    /\ Put(o, "idle")
    /\ lifecycle' = IF lifecycle = o THEN None ELSE lifecycle
    /\ acqLock' = IF acqLock = o THEN None ELSE acqLock
    /\ sessionLock' = IF sessionLock = o THEN None ELSE sessionLock
    /\ health' = IF owner[o] = "startDial" THEN "degraded" ELSE health
    /\ UNCHANGED <<world, live, refusal, started, closed, shutdown, epoch, place, spent,
                   active, window, episodes, unrecorded, waiting, entered, ended, bounds>>

-----------------------------------------------------------------------------
(* The dongle and time                                                     *)

Same == UNCHANGED <<facade, spent, holding, recovery, waiting, entered, bounds>>

(* The reader routes the pending read's answer, or its rejection.          *)
Answer ==
    /\ live /\ stage = "read" /\ reply = "none"
    /\ \/ reply' = "matched" /\ fresh' = fresh \cup {block}
       \/ reply' = "rejected" /\ UNCHANGED fresh
    /\ UNCHANGED <<now, session, stage, block, cause>> /\ Same

(* The connection is lost, or its reader exits because it is stale.        *)
Lost ==
    /\ live /\ sessionLock = None
    /\ live' = FALSE /\ refusal' \in {"lost", "closed"}
    /\ reply' = IF stage = "read" /\ reply = "none" THEN "lost" ELSE reply
    /\ UNCHANGED <<world, sessionLock, stage, block, cause>> /\ Same

Push(b) ==
    /\ live /\ b \notin fresh
    /\ fresh' = fresh \cup {b}
    /\ UNCHANGED <<now, session, place>> /\ Same

Age(b) ==
    /\ b \in fresh
    /\ fresh' = fresh \ {b}
    /\ UNCHANGED <<now, session, place>> /\ Same

Tick ==
    /\ now < MaxTime
    /\ now' = now + 1
    /\ UNCHANGED <<fresh, session, place>> /\ Same

-----------------------------------------------------------------------------
AcquirerStep ==
    \/ Begin \/ Resume \/ CloseTurn \/ CloseDone \/ CooldownStopped
    \/ Dial \/ DialOk \/ DialFail
OwnerStep(o) ==
    \/ StartTurn(o) \/ StartDrained(o) \/ StartDial(o) \/ StartOk(o) \/ StartFailed(o)
    \/ Stop(o) \/ StopTurn(o) \/ StopDone(o) \/ StopDrained(o)

Next ==
    \/ AcquirerStep \/ TimeOut
    \/ \E p \in Acquirers : Acquire(p) \/ Enter(p) \/ CancelAcquirer(p)
    \/ \E o \in Owners : OwnerStep(o) \/ CancelOwner(o)
                         \/ \E what \in {"start", "close"} : Call(o, what)
    \/ Answer \/ Lost \/ Tick
    \/ \E b \in 1..Blocks : Push(b) \/ Age(b)

Spec == Init /\ [][Next]_vars

(* Deadlines bound every await of the session, cooldowns are finite, and   *)
(* the locks serve their waiters in turn.                                  *)
FairSpec ==
    /\ Spec /\ WF_vars(AcquirerStep) /\ SF_vars(Dial) /\ WF_vars(TimeOut)
    /\ SF_vars(CloseTurn)
    /\ \A p \in Acquirers : SF_vars(Enter(p))
    /\ \A o \in Owners : SF_vars(OwnerStep(o))

-----------------------------------------------------------------------------
(* Properties                                                              *)

Stages == {"out", "begin", "read", "close", "closing", "cooldown", "dialing"}
OwnerStages == {"idle", "start", "startDrained", "startDial", "starting",
                "close", "closeTurn", "closing", "closeDrained"}

TypeOK ==
    /\ now \in 0..MaxTime /\ fresh \subseteq 1..Blocks
    /\ live \in BOOLEAN /\ refusal \in {"lost", "closed"}
    /\ sessionLock \in Acquirers \cup Owners \cup {None}
    /\ {started, closed, shutdown, active} \subseteq BOOLEAN
    /\ lifecycle \in Owners \cup {None} /\ owner \in [Owners -> OwnerStages]
    /\ acqLock \in Acquirers \cup Owners \cup {None} /\ waiting \subseteq Acquirers
    /\ stage \in Stages /\ block \in 1..Blocks
    /\ reply \in {"none", "matched", "rejected", "lost", "closed"}
    /\ cause \in {"none", "failed", "cancelled", "undo"}
    /\ reconnects \in 0..MaxReconnects /\ dials \in 0..MaxDials
    /\ health \in {"healthy", "recovering", "degraded"}
    /\ window \in Seq(0..MaxTime) /\ Len(window) <= MaxPerWindow
    /\ episodes \in Seq(0..MaxTime) /\ unrecorded \in Nat
    /\ epoch \in Nat /\ entered \in Nat
    /\ ended \in {"none", "ok", "closed", "exhausted", "failed", "rejected", "cancelled"}
    /\ acquisitions \in 0..MaxAcquisitions /\ calls \in 0..MaxCalls

(* A close that has completed has left nothing behind: no connection, not  *)
(* even one that a recovery was dialing when the close came, and no        *)
(* acquisition that still runs ("Close interrupts and then drains an       *)
(* in-flight acquisition").                                                *)
ClosedQuiet == closed => ~live /\ stage \in {"out", "begin"}

(* A snapshot is returned only by the client run it was asked from: the    *)
(* client is started and was neither closed nor restarted since.           *)
OwnRun ==
    [][stage # "out" /\ stage' = "out" /\ ended' = "ok"
       => started /\ epoch = entered']_vars

(* "taints and closes the current frame-aware connection before a clean    *)
(* generation is opened": a recovery never dials over a connection (and the *)
(* variables have their types).                                            *)
CleanReconnect == TypeOK /\ (stage \in {"cooldown", "dialing"} => ~live)

(* The rolling budget: MaxPerWindow + 1 reconnects in a row always span    *)
(* more than the window, over acquisitions, closes and restarts.           *)
RecoveriesSpaced ==
    \A i \in 1..(Len(episodes) - MaxPerWindow) :
        episodes[i + MaxPerWindow] - episodes[i] > Window

(* "One sanitized recovery attempt and its measured outcome": whichever    *)
(* way an acquisition ends, it leaves exactly one event of the recovery it *)
(* worked on; only a cancellation that hits the close of a connection      *)
(* dialed during a shutdown leaves none.                                   *)
EpisodesRecorded ==
    [][stage # "out" /\ stage' = "out" /\ ~(ended' = "cancelled" /\ cause = "undo")
       => unrecorded' = unrecorded - (IF active THEN 1 ELSE 0)]_vars

(* "The resulting `degraded` state after close".                           *)
ClosedDegraded == closed => health = "degraded"

(* Every acquisition ends, whatever the dongle does, and so does every     *)
(* start and close.                                                        *)
NestedLocksComeFree ==
    /\ stage # "out" ~> stage = "out"
    /\ \A o \in Owners : owner[o] # "idle" ~> owner[o] = "idle"

=============================================================================
