# Formal models of the LuxPower integration

TLA+ modules, TLC configurations and TLAPS proofs for the two ways this
repository talks to a LuxPower inverter through its Wi-Fi dongle: the read-only
*frame-aware read core* (`luxpower/`, `classes/read_session.py`) and the
*Home Assistant path* that polls and writes registers (`classes/modbus_client.py`,
`coordinator.py`, the entities).

Paths below are relative to `custom_components/lxp_modbus/`, except those that
start with `luxpower/`.

## 1. The system

| Part | State it keeps | Operations | Hard behaviour |
|---|---|---|---|
| **Read session** `classes/read_session.py` | generation, socket and reader task, request lock, lifecycle lock, the pending request and its future, cache of registers, counters, subscriptions | connect, close, reconnect, read_input, route a frame, reader failure | replies carry no transaction identifier; timeouts, cancellation, loss, close and reconnect interleave at every await |
| **Subscriptions** (same file) | bounded queue per consumer, counts | subscribe, publish, next, close | drop-oldest, a waiting consumer at close |
| **Wire format** `classes/frame_decoder.py`, `lxp_response.py`, `lxp_request_builder.py`, `lxp_packet_utils.py`, `data_validator.py` | the decoder's buffer | feed, reset, discard_partial; parse; build | frames split over or glued in TCP reads, corrupt lengths |
| **Packet recovery** `classes/packet_recovery.py` | counters | attempt a recovery | a truncated answer on the legacy path |
| **Hybrid client** `luxpower/hybrid.py` | shutdown event, health, rolling window of reconnect times, active recovery, ring of recovery events, profile accounting | connect, close, refresh_profile, recover, forced reads and scans | budgets, cooldowns interrupted by a close, health written before and after awaits |
| **Qualified client** `luxpower/qualified.py` | started, closed, lifecycle lock, acquisition lock | start, acquire, snapshot, close | nested locks, a close during an acquisition, cancelled closes |
| **Recovery policy and events** `recovery.py` | none (immutable records) | | |
| **Read profiles, telemetry groups** `read_profiles.py`, `telemetry_groups.py`, `observation.py` | none | plan the blocks of a profile, make its values | words of one value that come in different frames, ages |
| **Lifecycle diagnostics** `timeout_diagnostics.py` | rings of events, requests, timeout episodes | record, begin, mark, finalize, snapshot | three tasks write; a request is recorded only after a clean-up that waits for a lock |
| **Legacy client** `classes/modbus_client.py` with `connection_manager.py`, `lxp_batteries.py` | last good registers and their ages, force flag, poll and failure counters, the connection lock | get_data, write_register | partial passes, lost acknowledgements, cache versus inverter |
| **Coordinator** `coordinator.py` | published data, failure count, interval | update | outages |
| **Writing entities** `entity.py`, `number.py`, `switch.py`, `select.py`, `time.py`, `button.py` | the write lock of the entry | read-modify-write of a field | several controls packed in one register, signed and packed words |
| **Showing entities** `sensor.py`, `binary_sensor.py`, `utils.py` | fingerprint of the last update | decide whether to update, compute the state | updates are suppressed; counters of two words |
| **Adapter, setup, config flow, diagnostics download, discovery, one-shot client** `ha_adapter.py`, `config_flow.py`, `diagnostics.py`, `classes/inverter_discovery.py`, `classes/read_client.py` | the objects above | build, validate, redact | |
| **Qualification tooling** `luxpower/profile_validation.py`, `benchmark.py`, `fc4_matrix.py` | reports | hours-long runs against a dongle | |
| **Descriptions and constants** `entity_descriptions/`, `constants/` | tables | | |

How they interact: the qualified client owns a hybrid client, which owns a read
session; an acquisition calls `async_read_input` for each stale block, and the
session's reader task, the only task that reads from the socket, decodes the
stream, fills the cache, publishes to subscriptions and completes the pending
future. The session never repeats a request; the hybrid client alone decides to
reconnect. On the Home Assistant path the coordinator calls `async_get_data`
periodically, entities call `async_write_register`; both open a connection of
their own under one lock, share the client's cache, and what a poll or a
confirmed write produced becomes `coordinator.data`, from which the next
read-modify-write is composed.

What makes each part correct:

* session: an answer reaches only the read it answers; a read that ends without
  an answer takes the connection with it; each pending read has exactly one
  waiting owner; every read and lifecycle call ends; no socket stays behind;
* profiles: a returned acquisition has every block within the freshness target,
  block 0 is evidence of its own cell of 20 seconds, a request counts as avoided
  only if the dongle made it unnecessary, no value is torn or older than it says;
* diagnostics: every request gets its record, events stand under the request and
  connection they belong to, and an episode reaches back to what it explains;
* hybrid and qualified client: a completed close leaves nothing running or
  connected; a snapshot belongs to the run of the client it was asked from;
  reconnects respect the rolling budget and are recorded once; the nested locks
  never block for ever;
* Home Assistant path: a confirmed write stays in force and is shown, the cache
  is not behind the inverter unnoticed, siblings of a written field and bits
  nobody owns survive, each control reads back what was chosen on it, a sensor
  shows what the data says, counters never fall, polls and writes end.

`PROJECT.json` lists the hazards behind these properties with their lines.

## 2. Modules

| Module | What it is |
|---|---|
| `ReadSession` | the frame-aware session, one action per stretch of code between two awaits |
| `CorrelatedReads` | what a caller of `async_read_input` may rely on; `ReadSession` implements it |
| `MCReadSession` | ranges and symmetry for TLC |
| `ReadSessionProofs` | theorems about `ReadSession` for TLAPS |
| `RecoveringClient` | qualified client over hybrid client, with the session as it promises |
| `MCRecoveringClient` | symmetry for TLC |
| `RecoveringClientProofs` | theorems about `RecoveringClient` for TLAPS |
| `RegisterControl` | legacy client, coordinator and writing entities |
| `MCRegisterControl` | fault sets and symmetry for TLC |
| `RegisterControlProofs` | theorems about `RegisterControl` for TLAPS |
| `FrameDecoder` | the decoder, as a recursive function of its buffer |
| `ObservationSubscription` | one bounded subscription and its consumer |
| `ReceivePath` | both under the reader task, fed by a TCP stream |
| `MCReceivePath` | frames and damage for TLC |
| `ReceivePathProofs` | theorems about `FrameDecoder`, `ObservationSubscription` and `ReceivePath` for TLAPS |
| `RegisterWords` | fields of a word, two's complement, times of day, the word on the wire, the sanity check of a block |
| `ControlTables` | every number, switch, select, time and button of `entity_descriptions/` |
| `Controls` | one register and the controls that share it, with exact words |
| `MCControls` | registers, voltage classes and first words for TLC |
| `ControlsProofs` | theorems about `Controls` for TLAPS |
| `SensorTables` | every sensor and binary sensor: what it reads and how |
| `EntityUpdates` | from the inverter through polls to the state of one sensor |
| `MCEntityUpdates` | the sensors and block sizes for TLC |
| `EntityUpdatesProofs` | theorems about `EntityUpdates` for TLAPS |
| `ReadDiagnostics` | the journal of the session and the tasks that write to it |
| `ReadDiagnosticsProofs` | theorems about `ReadDiagnostics` for TLAPS |
| `TelemetryGroups` | groups of input registers and the static read blocks |
| `ReadProfiles` | profiles, their plans and the quality of their values |
| `ProfileAcquisition` | the refresh of a profile: freshness, density, accounting |
| `MCProfileAcquisition` | the qualified plan and pushed ranges for TLC; checks of the tables |
| `ProfileAcquisitionProofs` | theorems about `ProfileAcquisition` for TLAPS |

The asyncio programs are modelled the same way throughout: tasks share one
thread, so a step is everything a task does from one await to the next; an await
that can fail, time out or be cancelled has an action for each of these; a lock
is its holder (and, for the session's lifecycle lock, the queue of waiters, since
the order in which a close and a connect get it matters).

### 2.1 ReadSession

* A connection, its reader task and the requests written on it are named by the
  generation it was opened with. `generation` is `_generation`; it grows on
  connect, close, loss and taint (`_taint_current_generation`), so a router
  compares the generation of its reader with it (`_route_frame`).
* `Submit` is `async_read_input` from the request lock up to the drain; it
  installs `pending`. `Deadline` is either `TimeoutError` handler, `Cancel` the
  `CancelledError` handler, `Return` the resumption with a completed future.
  A handler first taints the generation and drops the pending request in one
  step and then waits for the lifecycle lock in order to close
  (`CloseTurn`, `CloseEnd`).
* The reader routes a matching answer, an answer of a former read, a pushed
  frame or a Modbus rejection; a read error, the end of the stream or the
  inactivity deadline lets it leave its loop and ask for the lifecycle lock
  (`LossTurn`, `LossEnd` are `_reader_failed`).
* Controllers run `async_connect`, `async_close` and `async_reconnect` with its
  delay and the comparison with the generation it expects (`Overtaken`). `changes`
  counts closes, losses and connections, and `noted` what it was when a call began;
  only `ReconnectAlone` uses them: a reconnect that dials has seen no change but
  its own close. A reconnect whose close is cancelled while it waits for the
  writer never dials.
* A frame is reduced to its range and to the read it answers, which the code
  cannot see; only the properties use the latter. `Pushed` must be disjoint from
  `Requested` for `Correlated` (`PushedApart` in the proofs): a frame pushed for
  the requested range is indistinguishable from the answer
  (`read_session.py:1132`), and without it TLC finds a read answered by a push.

`CorrelatedReads` knows one running read, how many were issued and which of them
the running one was answered with; `KeepsPromise` is the refinement, with the
holder of the request lock as the running read.

### 2.2 RecoveringClient

The session appears by what it promises (`live`, `refusal`, `sessionLock`,
`reply`): a read that times out closes the connection, a close fails the
pending read, and dials and closes hold the session's lifecycle lock. The holder
of the acquisition lock is the only task inside a refresh, so the locals of
`_async_refresh_profile_locked` and `_recover_transport` are plain variables.
`Continue` is the loop over the blocks (skip the fresh, read the first stale
one), `ReadFailed` the handler of a `LuxPowerCommunicationError`, `Recover` the
rolling window and `Episode` the start of a recovery; `Dial`, `DialOk`,
`DialFail`, `CooldownStopped` are the rest of `_recover_transport`, `Restart` the
second pass over the blocks. `StartTurn` ... `StopDrained` are
`async_start` and `async_close` of the facade with their nested locks, and
`CancelAcquirer`, `CancelOwner` cancel a task at any await. `episodes`,
`unrecorded`, `epoch`, `entered` and `ended` exist for the properties.

### 2.3 RegisterControl

The word of a holding register is the set of the controls that are on. A poll
(`PollBegin`, `Opened`, `Input`, `Battery`, `Hold`, ...) is one pass of
`_async_poll_once` within `async_get_data`, with its retries; a write is
`_async_write_register` of an entity around `async_write_register` of the client
with its retries, the evaluation of the acknowledgement and the re-read of the
block. `Faults` are what may go wrong in an exchange: a refused connection, an
empty answer, a timeout, a socket error, a lost acknowledgement, a rejection, and a
frame that is no acknowledgement but carries the register with the written word,
which the client takes for one (`WriteMistaken`: `modbus_client.py:503` compares
neither the function code nor the serial number). With this last fault a
write can be confirmed that the inverter never took, so what is said of
confirmed writes holds only without it (`NoStray`); that the lock comes free holds
with it. `unsure` remembers a write whose effect is unknown, `confirmed` the last bit each
control was told is in force.

### 2.4 ReceivePath

`Decode[b]` is the loop of `feed`: each branch names the frames it returns and
the bytes it drops and goes on with what is left. Bytes are numbers, the header is
the prefix and one length byte, and a checksum is membership in `Accepted`.
`Receive(n)` is one turn of `_reader_loop` with the next n bytes of the stream:
`feed`, `_route_frame` for each frame and `_publish_observation` for each accepted
one, without an await between them. `PartialTimeout` is `discard_partial` after
`_PARTIAL_FRAME_TIMEOUT`, possible whenever something is buffered; `Reconnect`
replaces the decoder. Subscriptions do not interact, so there is one;
`NextWaits`, `NextResumes` and `NextEnds` split `async_next` at its await, and
publications, a close or a timeout come between. Its consumer is a single task, as
the subscription demands, so it does not drain while it waits.

### 2.5 Controls

`ControlTables` lists every control of the description tables: its register, its
part of the word as the weight and the size of a field, its limits and options
as the raw numbers the register holds. A behaviour of `Controls` is one register
with all controls that share it. `Write` is `_async_write_register` of an
entity: the word is composed from the word of the last poll (`Composed`), and
the client confirms it, finds another word echoed (`Mismatch`: the request
carries `value & 0xFFFF`), loses it on the way there or back (`Lose`), or is
refused. `Poll` reads the settings, unless the sanity check of the times of day
drops the block. `known` remembers what each control holds; a doubtful write
makes it unknown. What polls and writes do to each other is left to
`RegisterControl`, where a word is a set of bits.

### 2.6 EntityUpdates

A behaviour is one sensor of `SensorTables` with a configured block size. The
inverter goes on counting (`Tick`: a counter carries from its low into its high
word) while a poll asks for the sensor's registers block by block; an answer may
be empty, shorter than asked (a block the dongle sent on its own), or never come
(`Cut`), an attempt may be repeated and a poll may fail. `Update` is
`_handle_coordinator_update` with its fingerprint, `FailPoll` the cached data of
the first failures and then the failed update. A word counts to `Radix` instead
of 2^16, so that it carries within the bound. A total of the tables is one counter
of two registers, and no request of a poll separates them (`PairAssumption`, which
TLC evaluates on the tables for both block sizes); otherwise it would be torn.

### 2.7 ReadDiagnostics

The session is reduced to the points at which it reports to the journal: the
request from its registration to `finalize_request`, with the handlers that
invalidate the generation, wait for the lifecycle lock, close and only then
record; readers, which match, see other frames, end and report a loss; connects and
closes of other tasks. An event is its kind, generation, request and place in the
order; its time is that place. Rings keep the latest (`LastOf`).

`queue` is the lifecycle lock: its holder, and behind it whoever waits, in the order
in which they asked, as `asyncio.Lock` serves them. A request that gives up joins at
the end, so connects, closes and losses that were ahead of it record their events
between its deadline and its record. `closing` splits a close at its awaits. The
dial of a connection and the closing of a lost writer are part of the time their
task holds the lock, before its one step. A caller may be cancelled in the queue or
in its close (`CancelCaller`), and so may the handler of a request
(`CancelCleanUp`), whose record then comes without a `close_completed`.

`ReplyTimeout` notes for the properties where the deadline stands in the journal,
how many are ahead in the queue (`ahead`), how many readers still run (`tailing`)
and whether a connect is ahead (`dialed`). `Needed` is what can come from the
deadline to the record: five events of the request, two of each task ahead and
two of each reader. With a connect ahead there is no bound: the generation
that it opens is current until the request closes it, and its reader records
whatever arrives.

### 2.8 ProfileAcquisition

One step is what `_async_refresh_profile_locked` does between two awaits:
`Begin`, `Choose` (skip the block or ask for it), `Answer` and `Resume`,
`Account` (the cell of the density and the accounting of avoided requests),
`Finish`; `Recover` and `Reconnected` select anew, `GiveUp` ends. The clock may
advance between any two steps, frames come in only at an await: pushed ones, and
answers to others who use the session (a scan, a forced read, the refresh of the
operational blocks). The word of a register stands for the frame it came in,
which is what makes a torn value visible. `ReadProfiles` has the demand, the
plan and the values of both profiles as operators over such a snapshot;
Among the pushed ranges of the run is one that ends between the two words of the
grid pair, so that words of two frames of one instant meet and a block is due in
part. `MCProfileAcquisition` has TLC check the tables as well: groups are disjoint, the
static blocks cover them, every profile's plan covers it and no block of a plan
is idle. `published`, `unasked`, `begun` and `asked` exist for the properties.

## 3. Runs

| Run | Bounds | Question |
|---|---|---|
| `session` | 2 callers, 2 controllers, 2 reads, 2 lifecycle calls, 1 pushed frame, two ranges with one start | ownership of the pending read, correlation and both locks, fencing by failures, freshness of successes, reconnects that nobody overtook, and the refinement of `CorrelatedReads` |
| `session_live` | 2 callers, 1 controller | every read and every lifecycle call ends |
| `recovery` | 2 acquirers, 2 owners, every task may be cancelled, 2 blocks, 3 acquisitions, 3 calls, 2 ticks, one reconnect per acquisition and window | closes, runs, reconnects, budget, records |
| `recovery_live` | the same tasks, 1 block, 2 acquisitions, 2 calls | nested locks always come free |
| `receive` | 3 packets of 6 kinds on at most 2 connections, frames of 4 and 7 bytes, every chunking, queue of 2, 2 subscriptions | exact frames, accounting of bytes, no hostage, gaps exposed, consumer woken |
| `register` | 2 controls, every fault but a mistaken acknowledgement, batteries, 2 retries, 3 polls, 3 writes | confirmed writes, what is shown, the cache |
| `register_live` | 2 controls, every fault, 2 retries, 2 polls, 2 writes | polls and service calls end, whatever the dongle does, so the lock always comes free |
| `controls` | all registers of the tables, 3 voltage classes, 4 first words, 3 writes of edge values | each control reads back what was chosen on it and shows it, unowned bits survive, no control makes the block unreadable |
| `entities` | every calculated sensor and counter but the two sums of totals, a plain one of each source, block sizes 40 and 125, 2 changes in the inverter, words of 2 values | suppressed updates leave nothing old on display; counters are not torn and do not fall |
| `journal` | 2 requests, 2 connects, 1 other frame, close or cancellation at the lock, rings of 2, 1 and 1, a context of 1 event | attribution, records that do not contradict themselves, how far an episode reaches back; every request is recorded |
| `profile` | the qualified plan, 4 pushed ranges, target 1, cells of 2, times to 2, 2 acquisitions, 2 frames of others, 1 reconnect, with and without density | what a returned acquisition promises, avoided requests, needless reads, truth of the values |
| `entity_unavailable` | one sensor | finding, section 4 |

The runs' invariants include the type invariant of their module: it is the first
conjunct of `Correlated`, `CleanReconnect`, `BytesAccounted`, `CacheMatches`,
`UnownedKept`, `DisplayFresh`, `RecordsConsistent` and `AvoidedByPushes`.

Why the bounds suffice: the session keeps one pending read and one connection,
so two callers exhaust who can hold and who can wait for the request lock; two
reads are needed for a late answer of the first to meet the second; two
controllers give a close, a connect and a reader that all queue for one lock.
Three acquisitions and two ticks fit a full window, one more reconnect than it
allows and a reconnect after it has moved on; two blocks let the second become
the reason why the first is read again; three calls are start, close and start.
Two controls and three writes are an earlier write, a write that composes from
its result and a repeated one; three polls put one before, one across and one behind
them. Two retries are a failure, a failed repetition and the last attempt.
Three packets are a corrupt one, a frame that is skipped (a heartbeat) and the one
behind it; they fill the queue of a subscription and one more. One frame has a
payload that looks like the start of another, the heartbeat ends in the first byte
of a prefix, so does the noise; lengths are too large for any frame or too large
for their own. No frame of the instance contains an accepted frame: the decoder
gives up such a frame for the inner one when TCP cuts it behind it
(`frame_decoder.py:76`); TLC evaluates that, with the other hypothesis of the proof
(section 5), as `Unambiguous`. `FramesExact` says nothing after a partial frame was
discarded or behind a length that is wrong but plausible; `BytesAccounted` and
`NoHostage` hold there too.
Three writes are one to a control, one to its neighbour and one that shows what
the second did to the first; the values tried are all options, or both limits,
the middle and the edges of a byte and of a signed word. Two changes make a word
of two values carry, and a poll sees one, both or the half of them. Two requests
and two connects put another connection's events between the deadline of a request
and its record, or behind the record of the one before; how long rings and context
are plays no part in what the run's properties say, and the lengths are as small as
can be. Two acquisitions, two cells and three
times let a block come from the former acquisition, the former cell, or a push
in between; four pushed ranges are the whole block 0, the part of it that the
profile needs, the part that ends at register 26, and the other block.
Every counter named `Max...` is a bound of the model, not of the code, except
those that name a constant of the code in their declaration.
Deadlock checking is off where the bounds let every behaviour stop; it is on in
`controls` and `entities`, where polls go on for ever.

Fairness. `ReadSession`: each task that can run does, deadlines expire because
every await of a read and of a connect has one (`asyncio.wait_for`), a close
waits at most a bounded time for the socket and the reader, and asyncio locks
are first come first served. The lifecycle lock is a queue, so weak fairness is
enough; the request lock is only its holder, hence strong fairness of its
waiters. `RecoveringClient` and `RegisterControl` abstract all locks to their
holder and have strong fairness for the same reason. `ReadDiagnostics`: the
steps of a request have deadlines, and so have those of whoever holds the lifecycle
lock, the dial, the writer and the reader; the queue passes nobody over, so weak
fairness is enough. No answer, no acknowledgement, no push and no success of a
connection is ever assumed.

Every property of a passing run has a mutant in `PROJECT.json`: a change of
one definition that a slip of the code could make (a dropped guard, a missing
reset, an off-by-one), under which the property fails.

## 4. Findings

One run expects a violation: `entity_unavailable`. When polls fail for good, the
coordinator tells its listeners once, with the data unchanged; the fingerprint of
an entity's sources is then equal to the last one and suppresses the very update
that would have shown it as unavailable (`entity.py:114`), although
`modbus_client.py:397` says that Home Assistant then "marks the entities
unavailable instead of presenting stale values as live".

The other places where the code disagrees with what it, its documents or its
tests say have a configuration of their own; TLC ends each with a
counterexample (`tlc -config X.cfg M`):

| Configuration, module | What the code does |
|---|---|
| `ReadSessionSockets.cfg`, `MCReadSession` | A timed-out read taints its generation and then waits for the lifecycle lock; a connect ahead of it in the queue finds the session not connected and overwrites the writer (`read_session.py:542`), whose socket nobody closes. |
| `RecoveryClosed.cfg`, `MCRecoveringClient` | A close outside a recovery fails the pending read; the handler takes that for a loss, sets the health to `RECOVERING` and stops at the shutdown without setting it back (`luxpower/hybrid.py:632`). |
| `RegisterFirstPoll.cfg`, `MCRegisterControl` | The request to read the settings is used up by a connection attempt that fails (`modbus_client.py:177`). |
| `RegisterSiblings.cfg`, `MCRegisterControl` | A register that was never read counts as 0 in a read-modify-write and its siblings are cleared (`entity.py:86`). |
| `RegisterStale.cfg`, `MCRegisterControl` | A timeout inside a pass is swallowed and the pass counts as a success, so old values stay live for ever (`modbus_client.py:375`). |
| `ControlsEcho.cfg`, `MCControls` | The numbers on the registers 107, 108 and 109 go down to -40 without a composition of signed words, and 176 up to ten times a word: what is composed does not fit 16 bits, the request carries it cut (`lxp_request_builder.py:72`) and the echo never equals it, so the write is repeated and reported as failed though the inverter took it. |
| `ControlsReadOnly.cfg`, `MCControls` | In read-only mode a number that is part of a word, or signed, is shown as the whole word, and the sentinel of an unimplemented register as a value (`sensor.py:224`). |

Seen while modelling, without a run of their own: with
`max_reconnects_per_acquisition` above one a second reconnect replaces the first
recovery, which gets no event (`hybrid.py:497`), and a cancellation during the
close of a connection that was dialed while the client shut down leaves the
recovery without one (`hybrid.py:711`), which is why `EpisodesRecorded` excepts
that case and its run allows one reconnect; a close also takes an attempt of the
rolling budget; a battery request that times out skips the count of empty polls,
so the backoff never starts (`modbus_client.py:358`); the interval of the
coordinator's recovery, 15 seconds at least, can be longer than a configured
interval (`coordinator.py:91`); a confirmed write publishes the cache and makes
the entities live again although polls keep failing (`entity.py:101`); a
calculated total shows 0 while its block was never read; the combined
photovoltaic sensors decide from hold register 20 which strings count, but do not
have it in their fingerprint (`sensor_types.py:464`), which is why `DisplayFresh`
leaves them out; partial pushes keep a profile fresh, so that no block is asked
for, while the values that need one frame of the whole block stay incoherent
(they fail closed); the values of an energy-flow snapshot are not required to
come from one frame, unlike those of direct energy.

## 5. Proofs

Eight modules hold theorems, one per component. All are about `Spec` (or
`SubscriptionSpec`) without fairness, for every value of the constants that
satisfies the component's assumptions; the runs show the same properties on small
instances. Each follows one pattern: an inductive invariant whose conjuncts are
named, one lemma per group of actions that the group keeps it, and the properties as
consequences. Assumptions that a theorem has beyond those of its component stand
in its statement.

**`ReadSessionProofs`** (`RangeAssumption`, `TaskAssumption`: ranges are blocks;
tasks, generations and `None` are distinct):

* `TypeInvariant`, `LocksAlwaysHeld`, `PendingOwned` (`PendingHasOwner`),
  `FailuresFenced` (`FailureFences`);
* `ReconnectsAlone` (`ReconnectAlone`), `SuccessIsFresh` (`FreshSuccess`);
* `ReadsCorrelated` (`Correlated`) and `PromiseKept` (`KeepsPromise`, the refinement
  of `CorrelatedReads`), both under `PushedApart`: the dongle pushes no range that is
  requested. Without it they are false (section 2.1).

`FailureFences` is not inductive: that a handler's caller has a read of an ended
generation must hold from its first step on, while it still waits for the lock, and
that no later step reuses a generation needs every read and connection to be
bounded by `generation`. `FenceInv` adds these facts and who holds the request lock.
`LifecycleHeld` adds who holds the lifecycle lock, `AloneInv` that the generation has
outrun the count of changes by no less than when a reconnect was called: a taint
only moves it further ahead, so that a generation that is as expected leaves room for
no change but the reconnect's own close; `Stamped` that a completed but
not yet returned read has its range newer in the cache. `AnswerInv` says why
correlation holds although frames carry no identifier: an answer still to come to an
earlier read belongs to a generation that is over, so on the current one only the
pending read can be answered; reads are numbered and each has one answer. For the
refinement the initial states map to initial states, a submission and a return are
steps of `CorrelatedReads`, and everything else leaves its variables alone
(`PromiseStutters`).

**`RecoveringClientProofs`** (`TaskAssumption`, `PolicyAssumption`, `BoundAssumption`),
for any tasks, blocks, policy and bounds:

* `CloseDrains` (`ClosedQuiet`), `ReconnectsClean` (`CleanReconnect`), `BudgetKept`
  (`RecoveriesSpaced`), `SnapshotsOfOwnRun` (`OwnRun`);
* `RecoveriesRecorded` (`EpisodesRecorded`) under `MaxReconnects = 1`, the default of
  the policy (`recovery.py:33`): with more it is false (section 4).

`ClientInv`: who holds each of the three locks at each await (`Locks`); nothing is
connected where a recovery waits or dials (`Fenced`); what each step of a close has
achieved so far (`Closing`): the session closed does not yet mean that nobody dials,
only the drain of the acquisition does; an acquisition under way belongs to the
current run (`SameRun`); an active recovery was paid for and has no event yet
(`Working`); the window is the newest part of all reconnects and whatever fell
out is older than it (`Book`).

**`RegisterControlProofs`** (`NameAssumption`, `NumberAssumption`, `FlagAssumption`), for
any controls, retries, periods and bounds, and any faults without mistaken
acknowledgements (`AnswersOwn`, section 2.3): `WritesKept` (`ConfirmedKept`),
`WritesShown` (`ConfirmedShown`), `CacheFollows` (`CacheMatches`). `KeptInv`: the
inverter, the cache and the published data agree with every confirmed bit
(`Agrees`); only the entity that holds the write lock has a word on its way, and it
was composed from words that agree (`WriterAlone`, `Composed`); the connection
serves one poll or one write (`OneConnection`); what a poll has read but not yet
merged still stands, because no write comes in between (`ReadStands`).

**`ReceivePathProofs`** (`ByteAssumption`, `FrameAssumption`, `StreamAssumption`,
`CapacityAssumption`), for any bytes, prefix and largest frame, any frames and damage,
every stream of them, every cut into reads and any capacity:

* `EveryByteAccounted` (`BytesAccounted`), `NoFrameHostage` (`NoHostage`), `PathTyped`
  (`TypeOK`): nothing is assumed of the damage;
* `FramesComeOut` (`FramesExact`) under `NoFrameInside` and `NoSplitStart`;
* `UsesSubscription`: the receive path implements `SubscriptionSpec`, with
  `SubscriptionCorrect`, `ConsumerAlwaysWoken` (of one subscription, for any number of
  observations per chunk) and `PathGapsExposed` (of the path).

The loop of `feed` is the recursive function `Decode`. Each iteration leaves a shorter
buffer (`FromShorter`, `IterationLocal`), so that for every bound there is one
function that solves the equation up to it; `DecodeDefined` puts them together. This
and what follows argue by the least counterexample, as the provers do not
instantiate the induction theorems. `DecodeSound` is the promise of one `feed`,
whatever the buffer: it is returned, dropped and counted, or kept, and what is kept
hides no complete frame. `StreamInv` is this promise along a connection.

`Pending(b, w, j, hs)` is what exactness needs of a buffer b, the bytes w yet to
come and the packets hs that b reaches into: b and w together are a rest j of damage
that makes no prefix, followed by hs. `DecodeResumes`: whatever is pending, the
decoder returns frames of the next packets, exactly, and waits where the same holds
again (`Resumes`). One case is one branch of the loop: a rest of damage
(`NoiseJoins`, `NoStart`), a frame that is whole (`WholeFrame`) or in part
(`PartOfFrame`), a length that no frame has (`WrongLength`). `DeliveredInv` splits
what was sent where the decoder has got to; it implies `FramesExact` and every chunk
keeps it (`ReceiveDelivers`).

The hypotheses of `FramesComeOut` say what a decoder without escapes has to rely on;
the code guarantees neither, so they are not assumptions of the model.
`NoFrameInside`: no frame has a whole accepted one behind its start; the
decoder returns the inner one when the outer one is still partial.
`NoSplitStart`: noise does not begin with the second byte of a prefix, which, after
a packet that ends in the first one, makes a prefix that nobody sent. The stream of
the run satisfies both (`Unambiguous` of `MCReceivePath`) and holds what comes
closest: a payload that looks like a start, packets that end in the first byte.

For the subscription: the queue is the run of the newest sequence numbers; `FilledRun`
shows that appending extends such a run, `KeptRun` that trimming keeps its newest
part; that no sequence number is the wake-up follows from `latest`, which a queued
number always exceeds.

**`ControlsProofs`** (`TableAssumption`, `SharingAssumption`, `ClockAssumption`: fields
lie within the word, fields of one register are apart, a choice has options, the time
registers have only clocks; TLC evaluates them on the real tables), for any such
tables, registers, voltage classes, first words and number of writes:
`ControlsTypeOK`, `ControlsReadBack` (`ShowsWhatItHolds`), `BlockReadable`
(`BlockStaysReadable`), `UnownedSurvives` (`UnownedKept`), `ChosenDisplays`
(`ChosenIsShown`). `HeldInvariant`: every control whose value is known reads it back
from what is held and from what is cached, for a lost write leaves the cache
behind and a poll then takes over what the inverter holds. `UnownedInv` and
`ChosenInv` are about both words for the same reason. The arithmetic is in lemmas
about fields given by weight and size: `SetBitsParts` says what a word is made of
after `SetBits`, `FieldReadsBack`, `HigherFieldStays` and `LowerFieldStays` what that
means for the field and its neighbours; for bits nobody owns, weights are powers of
two, so that one divides the other.

**`EntityUpdatesProofs`** (`BoundsAssumption`, `PairAssumption`: a total is one pair of
registers that no request separates), for any sensors, block sizes, radix and number
of changes: `DisplayIsFresh` (`DisplayFresh`), `TotalsNotAhead` (`TotalNeverAhead`),
`TotalsRise` (`TotalsNeverFall`). `DisplayInv`: whatever data have the fingerprint of
the last update have the value on display, so it does not matter that an update is
dropped. `TotalInv`: the counter in the data is at most the one a poll has received,
and that at most the inverter's, each pair being there whole or not at all.

**`ReadDiagnosticsProofs`** (`Capacities`, `Bounds`), for rings of any size and any number
of requests, connections and other events: `EventsAttributed` (`Attributed`),
`RecordsTrue` (`RecordsConsistent`), and

* `EpisodesReach` (`EpisodesReachBack`): from a deadline to the record of its request
  there are fewer events than `Needed`, unless a connect was ahead;
* `EpisodesHoldTheDeadline`: if the ring of events and the context are at least that
  long, the first event of the episode is not later than the deadline it explains.

`DiagnosticsInv` has the session, the request under way, and the rings as the newest
part of what was recorded. Its part `WaitInv` is an account for the request that
waits: what it has recorded since its deadline, and what those still ahead of
it and the readers that still run may record, make up no more than `Needed`. Joining
the queue costs nothing (`WaitJoins`), as one joins behind; leaving it pays with
the place that is freed (`WaitLeaves`). No frame of a stranger counts, because no
reader of the current generation runs until a connect is served. The code's
512 and 32 (`timeout_diagnostics.py:250`, `:253`) are enough for 13 tasks and readers
together, of which there are hardly ever three.

**`ProfileAcquisitionProofs`** (`ProfileAssumption`, `NoneAssumption`, `TimeAssumption`,
`BoundAssumption`), for any profile, pushed ranges, target, cell and bounds:

* `ReturnsServed` (`EveryBlockServed`), `ReturnsCurrent` (`EvidenceCurrent`),
  `ReturnsLast` (`PublishedLast`). `AcquisitionInvariant` says of an acquisition
  on its way what the properties say of one that returns: the blocks already passed
  (`Done`) are served, block 0 no earlier than the fence, the fence covers the begin
  or its published cell and every later answer, and with density no block follows
  block 0;
* `AvoidedRequestsPushed` (`AvoidedByPushes`). `AccountsInv`: a block has been counted
  at most as often as it was pushed, and if as often, then every register the
  dongle pushed was already accounted for at its time; so the next count takes
  another push. That the account is of the block's oldest register needs the least of
  a finite set of times (`LeastTime`);
* `ReadsNeeded` (`NoNeedlessRead`), from when block 0 of a cell was published and the
  fence that an acquisition begins with;
* `ValuesAreTruthful` (`ValuesTruthful`), from what the session knows of each register
  (`Observations`: registers with one sequence number came in one frame of their
  range).

Only model-checked: the properties under fairness, because the prover has no liveness
under fairness and no ENABLED: `EveryCallEnds`, `NestedLocksComeFree`, `LockComesFree`,
`EveryRequestRecorded`. Every other property of a passing run is a theorem.

## 6. Not modelled

Building, parsing and checking packets beyond the word that is written; the
arithmetic, units and texts of values that are shown; latency statistics and
counters that nothing reads; keepalive; the layout of battery pages and the
creation of entities for new batteries. `set_freshness_target` (the target is
fixed in a behaviour) and the long-running `async_run_hybrid`,
`async_run_profile` and live validation of the hybrid client, with the
qualification tooling that drives them (`profile_validation.py`, `benchmark.py`,
`fc4_matrix.py`): command-line programs whose verdicts are statistics of
hours-long runs. Setup, forms, discovery and downloads: they validate input or
build the objects above. A cancellation that `async_close` suppresses while it
waits for the reader is a close that ends normally. A panel or second
application that changes the inverter's settings is left out of
`RegisterControl` and `Controls`.

## 7. Plan

Done: the session and what it promises, recovery and the facade, the receive
path, the Home Assistant path with exact words and sensors, diagnostics, profiles
and their acquisition. Left, in this order:

1. `ProfileAcquisition` under `RecoveringClient`, so that the freshness of a block
   and the recovery of the transport are in one behaviour.
2. The loops of the qualification tooling with their stop conditions.
