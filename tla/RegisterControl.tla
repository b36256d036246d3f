---------------------------- MODULE RegisterControl ----------------------------
(***************************************************************************)
(* The Home Assistant path: LxpModbusApiClient polls the inverter and      *)
(* writes registers over short-lived connections, one at a time under one  *)
(* lock; the coordinator publishes what a poll returns; several entities   *)
(* change bits of one shared holding register by read-modify-write.        *)
(*                                                                         *)
(* The register's word is the set of the controls that are on.  The input  *)
(* registers are one block whose only content is its age in polls, the     *)
(* battery block one that is there or silent.  One step is what a task     *)
(* does between two awaits that another task could use; Faults are the     *)
(* ways an exchange with the dongle may go wrong.                          *)
(***************************************************************************)
EXTENDS Integers

CONSTANTS
    Controls,          \* entities that share the holding register
    None,              \* Python's None, or a register that is not cached
    Poller,            \* the coordinator's polling task
    Faults,            \* what may go wrong, of AllFaults
    RequestBattery,    \* request_battery_data
    SerialsConfigured, \* battery_serials_configured
    Retries,           \* connection_retries
    HoldEvery,         \* HOLD_REGISTER_POLL_EVERY
    MaxCached,         \* MAX_CACHED_DATA_FAILURES
    EmptyBefore,       \* BATTERY_EMPTY_POLLS_BEFORE_BACKOFF
    BackoffEvery,      \* BATTERY_BACKOFF_POLL_EVERY
    PollInterval,      \* the configured update interval, in seconds
    MaxPolls,          \* bound: polls
    MaxWrites          \* bound: writes

AllFaults == {"connect", "empty", "timeout", "error", "lost", "rejected", "stray"}

ASSUME NameAssumption ==
    /\ Poller \notin Controls /\ None \notin Controls \cup {Poller}
    /\ (\A s \in SUBSET Controls : s # None) /\ None \notin Nat
    /\ Faults \subseteq AllFaults
ASSUME NumberAssumption ==
    /\ {Retries, HoldEvery, EmptyBefore, BackoffEvery, PollInterval} \subseteq Nat \ {0}
    /\ {MaxCached, MaxPolls, MaxWrites} \subseteq Nat
ASSUME FlagAssumption == RequestBattery \in BOOLEAN /\ SerialsConfigured \in BOOLEAN

VARIABLES
    inverter,      \* the word in the inverter's register
    unsure,        \* whether a write of unknown effect followed the last read
    confirmed,     \* the bit of each control's last write, if it was confirmed
    holdCache,     \* _last_good_hold_regs: the cached word, or None
    age,           \* polls since an input block was read; None: never
    force,         \* _force_hold_poll
    sinceHold,     \* _polls_since_hold
    failures,      \* _connection_failure_count
    emptyPolls,    \* _battery_empty_polls
    backoff,       \* _battery_backoff_counter
    lock,          \* the lock of the connection: its holder
    poll,          \* where the polling task is
    attempt,       \* its connection attempt
    asked,         \* whether this pass reads the holding registers
    requested,     \* whether any pass has requested the holding registers
    got,           \* the blocks this pass has read
    newHold,       \* the word this pass has read
    status,        \* the entry: in setup, live, or unavailable
    shown,         \* the word in coordinator.data, or None
    failed,        \* _failed_updates
    recovering,    \* _is_recovering
    interval,      \* update_interval
    writeLock,     \* the write_lock of the entry: its holder
    write,         \* where each control is in its service call
    target,        \* the bit it is to write
    word,          \* the word it has composed
    tries,         \* its write attempt
    polls, writes  \* counters of the bounds

world == <<inverter, unsure, confirmed>>
client == <<holdCache, age, force, sinceHold, failures, emptyPolls, backoff>>
pass == <<poll, attempt, asked, requested, got, newHold>>
coordinator == <<status, shown, failed, recovering, interval>>
writing == <<writeLock, write, target, word, tries>>
vars == <<world, client, lock, pass, coordinator, writing, polls, writes>>

-----------------------------------------------------------------------------
Init ==
    /\ inverter \in SUBSET Controls /\ unsure = FALSE
    /\ confirmed = [c \in Controls |-> None]
    /\ holdCache = None /\ age = None /\ force = TRUE /\ sinceHold = 0
    /\ failures = 0 /\ emptyPolls = 0 /\ backoff = 0
    /\ lock = None
    /\ poll = "rest" /\ attempt = 0 /\ asked = FALSE /\ requested = FALSE
    /\ got = {} /\ newHold = None
    /\ status = "setup" /\ shown = None /\ failed = 0 /\ recovering = FALSE
    /\ interval = PollInterval
    /\ writeLock = None
    /\ write = [c \in Controls |-> "idle"]
    /\ target = [c \in Controls |-> FALSE]
    /\ word = [c \in Controls |-> {}]
    /\ tries = [c \in Controls |-> 0]
    /\ polls = 0 /\ writes = 0

Happens(r) == r \in Faults \cup {"data"}

-----------------------------------------------------------------------------
(* The coordinator, called back with the outcome of a poll.                *)

(* _async_update_data after async_get_data returned the word w.            *)
Updated(w) ==
    /\ status' = "live" /\ shown' = w
    /\ failed' = 0 /\ recovering' = FALSE
    /\ interval' = IF recovering THEN PollInterval ELSE interval

(* _register_failure.                                                      *)
RecoveryInterval(n) == IF n > 20 THEN 60 ELSE IF n > 10 THEN 30 ELSE 15
UpdateFailed ==
    /\ status' = "unavailable" /\ shown' = shown
    /\ failed' = failed + 1
    /\ recovering' = (recovering \/ failed + 1 >= 3)
    /\ interval' = IF failed + 1 >= 3 THEN RecoveryInterval(failed + 1) ELSE interval

-----------------------------------------------------------------------------
(* async_get_data and _async_poll_once                                     *)

DueWithin(n) == n >= HoldEvery

(* _should_poll_hold.                                                      *)
ShouldPollHold ==
    /\ asked' = (force \/ DueWithin(sinceHold + 1))
    /\ sinceHold' = IF asked' THEN 0 ELSE sinceHold + 1
    /\ force' = FALSE

(* An attempt begins: of a new poll, or after the back-off of a failed one.*)
PollBegin ==
    /\ \/ poll = "rest" /\ polls < MaxPolls /\ polls' = polls + 1 /\ attempt' = 1
       \/ poll = "retry" /\ attempt' = attempt + 1 /\ UNCHANGED polls
    /\ ShouldPollHold
    /\ poll' = "wait"
    /\ UNCHANGED <<world, holdCache, age, failures, emptyPolls, backoff,
                   lock, requested, got, newHold, coordinator, writing, writes>>

Tolerated(n) == n <= MaxCached

Older == IF age = None THEN None ELSE age + 1

(* What a pass has read is gone when it ends.                              *)
PassOver == asked' = FALSE /\ got' = {} /\ newHold' = None

(* The attempt raised.  After the last one _handle_poll_failure returns    *)
(* the cache for a while; a failure of the first refresh discards the      *)
(* entry, and Home Assistant sets it up anew.                              *)
AttemptFailed ==
    IF attempt < Retries
    THEN poll' = "retry" /\ UNCHANGED <<client, coordinator>>
    ELSE /\ poll' = "rest"
         /\ \/ /\ age # None /\ holdCache # None /\ Tolerated(failures + 1)
               /\ failures' = failures + 1 /\ age' = Older
               /\ Updated(holdCache)
               /\ UNCHANGED <<holdCache, force, sinceHold, emptyPolls, backoff>>
            \/ /\ ~(age # None /\ holdCache # None /\ Tolerated(failures + 1))
               /\ status # "setup"
               /\ failures' = failures + 1 /\ age' = Older
               /\ UpdateFailed
               /\ UNCHANGED <<holdCache, force, sinceHold, emptyPolls, backoff>>
            \/ /\ status = "setup"
               /\ holdCache' = None /\ age' = None /\ force' = TRUE /\ sinceHold' = 0
               /\ failures' = 0 /\ emptyPolls' = 0 /\ backoff' = 0
               /\ UNCHANGED coordinator

PollConnect ==
    /\ poll = "wait" /\ lock = None
    /\ lock' = Poller
    /\ poll' = "input" /\ got' = {} /\ newHold' = None
    /\ UNCHANGED <<world, client, attempt, asked, requested, coordinator, writing,
                   polls, writes>>

PollRefused ==
    /\ poll = "wait" /\ lock = None /\ "connect" \in Faults
    /\ PassOver /\ AttemptFailed
    /\ UNCHANGED <<world, lock, attempt, requested, writing, polls, writes>>

(* An OSError in the middle of a pass: what it has read is dropped.        *)
Unlock == lock' = None
UnlockNever == UNCHANGED lock       \* mutant of Release
Release == Unlock
PollBroken ==
    /\ poll \in {"input", "battery", "hold", "close"} /\ "error" \in Faults
    /\ Release
    /\ PassOver /\ AttemptFailed
    /\ UNCHANGED <<world, attempt, requested, writing, polls, writes>>

(* _should_poll_battery.                                                   *)
BatteryDue == SerialsConfigured \/ emptyPolls < EmptyBefore \/ backoff + 1 >= BackoffEvery
CountBackoff ==
    backoff' = IF SerialsConfigured \/ emptyPolls < EmptyBefore THEN backoff
               ELSE IF backoff + 1 >= BackoffEvery THEN 0 ELSE backoff + 1

AfterBattery == IF asked THEN "hold" ELSE "close"

(* The input block.  A timeout ends the pass, which still counts as a      *)
(* success; an unusable reply is ignored.                                  *)
PollInput(r) ==
    /\ poll = "input" /\ Happens(r) /\ r \in {"data", "empty", "timeout"}
    /\ got' = IF r = "data" THEN {"input"} ELSE {}
    /\ IF r = "data" /\ RequestBattery
       THEN /\ CountBackoff
            /\ poll' = IF BatteryDue THEN "battery" ELSE AfterBattery
       ELSE /\ poll' = IF r = "timeout" THEN "close" ELSE AfterBattery
            /\ UNCHANGED backoff
    /\ UNCHANGED <<world, holdCache, age, force, sinceHold, failures, emptyPolls,
                   lock, attempt, asked, requested, newHold, coordinator,
                   writing, polls, writes>>

(* The battery block and _record_battery_result, which a timeout skips.    *)
PollBattery(r) ==
    /\ poll = "battery" /\ Happens(r) /\ r \in {"data", "empty", "timeout"}
    /\ poll' = IF r = "timeout" THEN "close" ELSE AfterBattery
    /\ emptyPolls' = CASE r = "data" -> 0
                       [] r = "empty" -> emptyPolls + 1
                       [] r = "timeout" -> emptyPolls
    /\ backoff' = IF r = "data" THEN 0 ELSE backoff
    /\ UNCHANGED <<world, holdCache, age, force, sinceHold, failures, lock, attempt,
                   asked, requested, got, newHold, coordinator, writing, polls, writes>>

PollHold(r) ==
    /\ poll = "hold" /\ Happens(r) /\ r \in {"data", "empty", "timeout"}
    /\ poll' = "close"
    /\ requested' = TRUE
    /\ got' = IF r = "data" THEN got \cup {"hold"} ELSE got
    /\ newHold' = IF r = "data" THEN inverter ELSE None
    /\ UNCHANGED <<world, client, lock, attempt, asked, coordinator, writing,
                   polls, writes>>

(* Mutant of MergedHold: a pass without holding registers clears them.     *)
ReplacedHold == newHold
MergedHold == IF "hold" \in got THEN newHold ELSE holdCache

(* The connection is closed, the lock released, and with no further await  *)
(* what was read is merged into the cache and published.                   *)
PollEnd ==
    /\ poll = "close"
    /\ Release
    /\ poll' = "rest" /\ PassOver
    /\ holdCache' = MergedHold
    /\ unsure' = (unsure /\ "hold" \notin got)
    /\ age' = IF "input" \in got THEN 0 ELSE Older
    /\ failures' = 0
    /\ Updated(MergedHold)
    /\ UNCHANGED <<inverter, confirmed, force, sinceHold, emptyPolls, backoff,
                   attempt, requested, writing, polls, writes>>

-----------------------------------------------------------------------------
(* _async_write_register of an entity, async_write_register of the client  *)

(* A service call on an available entity.                                  *)
Call(c, bit) ==
    /\ write[c] = "idle" /\ status = "live" /\ writes < MaxWrites
    /\ write' = [write EXCEPT ![c] = "queued"]
    /\ target' = [target EXCEPT ![c] = bit]
    /\ writes' = writes + 1
    /\ UNCHANGED <<world, client, lock, pass, coordinator, writeLock, word, tries, polls>>

WriteLockIgnored == TRUE               \* mutant of WriteLockFree
WriteLockFree == writeLock = None

(* registers.get(register, 0), and the entity's compose on it.             *)
Current == IF shown = None THEN {} ELSE shown
Compose(c) == IF target[c] THEN Current \cup {c} ELSE Current \ {c}

WriteBegin(c) ==
    /\ write[c] = "queued" /\ WriteLockFree
    /\ writeLock' = c
    /\ word' = [word EXCEPT ![c] = Compose(c)]
    /\ tries' = [tries EXCEPT ![c] = 1]
    /\ write' = [write EXCEPT ![c] = "wait"]
    /\ confirmed' = [confirmed EXCEPT ![c] = None]
    /\ UNCHANGED <<inverter, unsure, client, lock, pass, coordinator, target,
                   polls, writes>>

(* The service call ends: the write lock is released, its locals are gone. *)
WriteRelease == writeLock' = None
WriteOver(c) ==
    /\ WriteRelease
    /\ write' = [write EXCEPT ![c] = "idle"]
    /\ tries' = [tries EXCEPT ![c] = 0]
    /\ target' = [target EXCEPT ![c] = FALSE]
    /\ word' = [word EXCEPT ![c] = {}]

(* async_write_register returned False: nothing is published.              *)
WriteFailed(c) == WriteOver(c)
TryFailed(c) ==
    IF tries[c] < Retries
    THEN /\ tries' = [tries EXCEPT ![c] = @ + 1]
         /\ write' = [write EXCEPT ![c] = "wait"]
         /\ UNCHANGED <<writeLock, target, word>>
    ELSE WriteFailed(c)

WriteConnect(c) ==
    /\ write[c] = "wait" /\ lock = None
    /\ lock' = c
    /\ write' = [write EXCEPT ![c] = "sent"]
    /\ UNCHANGED <<world, client, pass, coordinator, writeLock, target, word, tries,
                   polls, writes>>

WriteRefused(c) ==
    /\ write[c] = "wait" /\ lock = None /\ "connect" \in Faults
    /\ TryFailed(c)
    /\ UNCHANGED <<world, client, lock, pass, coordinator, polls, writes>>

(* No usable acknowledgement, whether or not the inverter took the word.   *)
WriteLost(c) ==
    /\ write[c] = "sent" /\ "lost" \in Faults
    /\ \/ inverter' = word[c] /\ unsure' = TRUE
       \/ UNCHANGED <<inverter, unsure>>
    /\ Release
    /\ TryFailed(c)
    /\ UNCHANGED <<confirmed, client, pass, coordinator, polls, writes>>

(* A Modbus exception is not retried.                                      *)
WriteRejected(c) ==
    /\ write[c] = "sent" /\ "rejected" \in Faults
    /\ Release
    /\ WriteFailed(c)
    /\ UNCHANGED <<world, client, pass, coordinator, polls, writes>>

(* The acknowledgement echoes the word, which the cache takes.             *)
Echoed(c) == word[c]
EchoIgnored(c) == holdCache                \* mutant of Acknowledged
Acknowledged(c) == Echoed(c)
WriteAcked(c) ==
    /\ write[c] = "sent"
    /\ inverter' = word[c] /\ unsure' = FALSE
    /\ holdCache' = Acknowledged(c)
    /\ write' = [write EXCEPT ![c] = "reread"]
    /\ UNCHANGED <<confirmed, age, force, sinceHold, failures, emptyPolls, backoff,
                   lock, pass, coordinator, writeLock, target, word, tries,
                   polls, writes>>

(* Any frame that carries the register with the word counts as the         *)
(* acknowledgement, also one sent for another reason: the inverter may     *)
(* have taken the word or not.                                             *)
WriteMistaken(c) ==
    /\ write[c] = "sent" /\ "stray" \in Faults
    /\ inverter' \in {inverter, word[c]} /\ unsure' = TRUE
    /\ holdCache' = Acknowledged(c)
    /\ write' = [write EXCEPT ![c] = "reread"]
    /\ UNCHANGED <<confirmed, age, force, sinceHold, failures, emptyPolls, backoff,
                   lock, pass, coordinator, writeLock, target, word, tries,
                   polls, writes>>

(* The block is read back on the same connection, or left to a forced      *)
(* poll; the cache is published, and both locks are released.              *)
WriteDone(c, r) ==
    /\ write[c] = "reread" /\ Happens(r) /\ r \in {"data", "empty", "timeout", "error"}
    /\ holdCache' = IF r = "data" THEN inverter ELSE holdCache
    /\ unsure' = (unsure /\ r # "data")
    /\ force' = (force \/ r # "data")
    /\ Release
    /\ WriteOver(c)
    /\ confirmed' = [confirmed EXCEPT ![c] = target[c]]
    /\ status' = "live" /\ shown' = holdCache'
    /\ UNCHANGED <<inverter, age, sinceHold, failures, emptyPolls, backoff,
                   pass, failed, recovering, interval, polls, writes>>

-----------------------------------------------------------------------------
Replies == {"data", "empty", "timeout", "error"}
PollStep ==
    \/ PollConnect \/ PollRefused \/ PollBroken \/ PollEnd
    \/ \E r \in Replies : PollInput(r) \/ PollBattery(r) \/ PollHold(r)
    \/ poll = "retry" /\ PollBegin
WriteStep(c) ==
    \/ WriteBegin(c) \/ WriteConnect(c) \/ WriteRefused(c) \/ WriteLost(c)
    \/ WriteRejected(c) \/ WriteAcked(c) \/ WriteMistaken(c)
    \/ \E r \in Replies : WriteDone(c, r)

Next ==
    \/ PollStep \/ (poll = "rest" /\ PollBegin)
    \/ \E c \in Controls : WriteStep(c) \/ \E bit \in BOOLEAN : Call(c, bit)

Spec == Init /\ [][Next]_vars

(* Every await of both tasks is bounded by a deadline and the two locks    *)
(* serve their waiters in turn.  What the dongle does is left open within  *)
(* Faults: with "lost" among them no acknowledgement is relied on.         *)
FairSpec ==
    /\ Spec /\ SF_vars(PollStep)
    /\ \A c \in Controls : SF_vars(WriteStep(c))

-----------------------------------------------------------------------------
(* Properties                                                              *)

TypeOK ==
    /\ inverter \in SUBSET Controls /\ unsure \in BOOLEAN
    /\ confirmed \in [Controls -> BOOLEAN \cup {None}]
    /\ holdCache \in {None} \cup SUBSET Controls /\ age \in Nat \cup {None}
    /\ force \in BOOLEAN /\ sinceHold \in 0..(HoldEvery - 1)
    /\ {failures, emptyPolls, backoff, failed} \subseteq Nat
    /\ lock \in Controls \cup {Poller, None}
    /\ poll \in {"rest", "wait", "retry", "input", "battery", "hold", "close"}
    /\ attempt \in 0..Retries /\ asked \in BOOLEAN /\ requested \in BOOLEAN
    /\ got \subseteq {"input", "hold"} /\ newHold \in {None} \cup SUBSET Controls
    /\ status \in {"setup", "live", "unavailable"}
    /\ shown \in {None} \cup SUBSET Controls
    /\ recovering \in BOOLEAN /\ interval \in {PollInterval, 15, 30, 60}
    /\ writeLock \in Controls \cup {None}
    /\ write \in [Controls -> {"idle", "queued", "wait", "sent", "reread"}]
    /\ target \in [Controls -> BOOLEAN] /\ word \in [Controls -> SUBSET Controls]
    /\ tries \in [Controls -> 0..Retries]
    /\ polls \in 0..MaxPolls /\ writes \in 0..MaxWrites

(* A confirmed write stays in force until its own control is written       *)
(* again: no other entity's read-modify-write of the shared register takes *)
(* it back, whatever polls, retries and lost acknowledgements come between *)
(* ("two writes started within one poll interval would both compose from   *)
(* the same pre-write snapshot and the second would undo the first").      *)
ConfirmedKept ==
    \A c \in Controls : confirmed[c] # None => (c \in inverter <=> confirmed[c])

(* What a confirmed write set is also what the entity shows: a poll that   *)
(* was running meanwhile does not bring the old value back.                *)
ConfirmedShown ==
    \A c \in Controls :
        confirmed[c] # None => shown # None /\ (c \in shown <=> confirmed[c])

(* The cache holds what the inverter holds, unless a write whose           *)
(* acknowledgement was lost may have taken effect since the last read (and *)
(* the variables have their types).                                        *)
CacheMatches == TypeOK /\ (holdCache # None /\ ~unsure => holdCache = inverter)

(* Entities show live values only while the input registers were read      *)
(* within the last MaxCached polls ("stale values are never presented as   *)
(* live for long").                                                        *)
StaleBounded == status = "live" => age # None /\ age <= MaxCached

(* "first poll must read settings": data is published only after the       *)
(* holding registers have been requested.                                  *)
FirstPollReadsSettings == status # "setup" => requested

(* "registers packing several controls keep their sibling bits": a write   *)
(* changes no bit but its own control's.                                   *)
KeepsSiblings ==
    [][\A c \in Controls : write[c] = "sent" /\ lock = c /\ inverter' # inverter
           => \A d \in Controls \ {c} : d \in inverter' <=> d \in inverter]_vars

(* Every poll and every service call ends, whichever of the Faults happen, *)
(* how often and wherever: no path keeps a lock.                           *)
LockComesFree ==
    /\ poll # "rest" ~> poll = "rest"
    /\ \A c \in Controls : write[c] # "idle" ~> write[c] = "idle"

=============================================================================
