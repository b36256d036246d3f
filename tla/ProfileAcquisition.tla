-------------------------- MODULE ProfileAcquisition --------------------------
(***************************************************************************)
(* How the hybrid client keeps a read profile fresh (luxpower/hybrid.py):  *)
(* an acquisition goes through the blocks of the profile, skips those that *)
(* frames in passing have kept fresh and asks for the others.  With the    *)
(* evidence density it reads block 0 last and once per cell of the clock,  *)
(* unless it is already there, and the accounting tells the requests that  *)
(* unsolicited frames have made unnecessary.                               *)
(*                                                                         *)
(* One step is what a task does between two awaits; time may pass between  *)
(* the two looks at the clock within it.  Frames come in only at an await. *)
(* How the transport recovers is RecoveringClient; here it succeeds or not.*)
(***************************************************************************)
EXTENDS ReadProfiles

CONSTANTS
    Required,          \* the registers of the profile
    Pushed,            \* the ranges that the dongle sends unasked
    Target,            \* freshness_target
    Cell,              \* the 20 seconds of a cell of the evidence density
    MaxReconnects,     \* max_reconnects_per_acquisition
    MaxTime,           \* bound: the clock
    MaxAcquisitions,   \* bound: acquisitions
    MaxOthers          \* bound: frames that no acquisition asked for

ASSUME ProfileAssumption == Required # {} /\ Required \subseteq 0..(TotalRegisters - 1)
ASSUME TimeAssumption == Target \in Nat \ {0} /\ Cell \in Nat \ {0}
ASSUME BoundAssumption ==
    /\ MaxReconnects \in Nat /\ MaxTime \in Nat
    /\ MaxAcquisitions \in Nat /\ MaxOthers \in Nat

Blocks == ReadBlocks(Required)
Needs(b) == RequiredIn(Required, b)
Tracked == Required \cup DirectRegisters
Never == -1                               \* before every time
\* None is neither a time nor a table of times.
ASSUME NoneAssumption ==
    None \notin Int /\ \A b \in Blocks : None \notin [Needs(b) -> Int]
NotSeen == [word |-> 0, at |-> Never, sequence |-> 0, range |-> <<0, 0>>,
            source |-> "none"]

VARIABLES
    now,               \* the clock
    seen,              \* the session's latest observation of each register
    explicit,          \* _explicit_observed_at
    sequence,          \* _observation_sequence
    unasked,           \* unsolicited frames so far that had registers of a block
    density,           \* block0_evidence_density
    stage,             \* where the acquisition is
    todo,              \* the blocks it has still to look at
    block, skip,       \* the block it is at, and skip_read
    fence,             \* density_fence
    restarts,          \* reconnects
    completed,         \* _block0_density_completed_cell
    accounted,         \* _profile_accounted_observations
    avoided,           \* blocks of the requests in _profile_unsolicited_avoided
    health,            \* _health
    begun, asked,      \* when the acquisition began, when it was last answered
                       \* for a block other than 0
    published,         \* cells of which an acquisition has had block 0
    ended,             \* how the latest acquisition ended
    acquisitions, others   \* counters of the bounds

session == <<seen, explicit, sequence, others, unasked>>
local == <<todo, block, skip, fence, restarts, begun, asked>>
client == <<completed, accounted, avoided, health, published>>
vars == <<now, session, density, stage, local, client, ended, acquisitions>>

-----------------------------------------------------------------------------
(* What the session knows of a block: when its registers were last seen,   *)
(* and when they last came as an answer (explicit_observed_at).            *)
Times(b) == [r \in Needs(b) |-> seen[r].at]
ExplicitTimes(b) == [r \in Needs(b) |-> explicit[r]]
Snapshot == [r \in {q \in Tracked : seen[q].at # Never} |-> seen[r]]

Since(times, t) == \A r \in DOMAIN times : times[r] >= t
Known(times) == Since(times, 0)
CellOf(t) == (t \div Cell) * Cell
Newer(s, t) == IF s >= t THEN s ELSE t

(* _required_registers_are_fresh                                           *)
Fresh(b) == Known(Times(b)) /\ Since(Times(b), now - Target)

(* _route_frame: an accepted frame is the latest observation of what it    *)
(* has.  Its words stand for the frame that they came in.                  *)
Route(frame, source) ==
    /\ sequence' = sequence + 1
    /\ seen' = [r \in Tracked |->
          IF r \in Addresses(frame)
          THEN [word |-> sequence + 1, at |-> now, sequence |-> sequence + 1,
                range |-> frame, source |-> source]
          ELSE seen[r]]
    /\ explicit' = [r \in Tracked |->
          IF source = "explicit" /\ r \in Addresses(frame) THEN now ELSE explicit[r]]

(* The order of reading: ascending, but with the density block 0 is last.  *)
Before(b, c) ==
    IF density /\ 0 \in {b[1], c[1]} THEN c[1] = 0 ELSE b[1] <= c[1]

Init ==
    /\ now = 0 /\ sequence = 0 /\ others = 0
    /\ seen = [r \in Tracked |-> NotSeen] /\ explicit = [r \in Tracked |-> Never]
    /\ unasked = [b \in Blocks |-> 0]
    /\ density \in BOOLEAN
    /\ stage = "idle" /\ todo = {} /\ block = None /\ skip = FALSE
    /\ fence = 0 /\ restarts = 0
    /\ begun = 0 /\ asked = Never
    /\ completed = None /\ accounted = [b \in Blocks |-> None]
    /\ avoided = [b \in Blocks |-> 0] /\ health = "degraded" /\ published = {}
    /\ ended = "none" /\ acquisitions = 0

-----------------------------------------------------------------------------
(* _async_refresh_profile_locked                                           *)
FenceOfCell == IF completed = CellOf(now) THEN CellOf(now) ELSE now
FenceAlwaysCell == CellOf(now)            \* mutant of InitialFence
InitialFence == FenceOfCell
Begin ==
    /\ stage = "idle" /\ acquisitions < MaxAcquisitions
    /\ stage' = "choose" /\ todo' = Blocks /\ restarts' = 0
    /\ UNCHANGED <<block, skip>>
    /\ fence' = InitialFence
    /\ begun' = now /\ asked' = Never /\ acquisitions' = acquisitions + 1
    /\ UNCHANGED <<now, session, density, client, ended>>

(* A block is skipped when it is fresh and, if it is the one that density  *)
(* is about, no older than the cell and the fence.                         *)
SkipsBlock(b) ==
    /\ Fresh(b)
    /\ density /\ b[1] = 0 => Since(Times(b), Newer(CellOf(now), fence))
Choose ==
    /\ stage = "choose"
    /\ \E b \in todo :
          /\ \A c \in todo : Before(b, c)
          /\ block' = b /\ todo' = todo \ {b}
          /\ skip' = SkipsBlock(b)
          /\ stage' = IF SkipsBlock(b) THEN "account" ELSE "waiting"
    /\ UNCHANGED <<now, session, density, fence, restarts, begun, asked, client,
                   ended, acquisitions>>

(* The answer arrives, and then the task goes on.                          *)
Answer ==
    /\ stage = "waiting"
    /\ Route(block, "explicit")
    /\ stage' = "answered" /\ UNCHANGED <<others, unasked>>
    /\ asked' = IF block[1] # 0 THEN now ELSE asked
    /\ UNCHANGED <<now, density, todo, block, skip, fence, restarts, begun, client,
                   ended, acquisitions>>
FenceAfter(b) == IF density /\ b[1] # 0 THEN now ELSE fence
FenceKept(b) == fence                     \* mutant of FenceMoved
FenceMoved(b) == FenceAfter(b)
Resume ==
    /\ stage = "answered"
    /\ stage' = "account" /\ fence' = FenceMoved(block)
    /\ UNCHANGED <<now, session, density, todo, block, skip, restarts, begun, asked, client,
                   ended, acquisitions>>

(* The read fails: the acquisition gives up, or recovers the transport and *)
(* starts to select anew.                                                  *)
Leave(how) ==
    /\ stage' = "idle" /\ ended' = how
    /\ todo' = {} /\ block' = None /\ skip' = FALSE
    /\ fence' = 0 /\ restarts' = 0 /\ begun' = 0 /\ asked' = Never
GiveUp ==
    /\ stage \in {"waiting", "recovering"}
    /\ Leave("failed") /\ health' = "degraded"
    /\ UNCHANGED <<now, session, density, completed, accounted, avoided, published,
                   acquisitions>>
MayRecover == restarts < MaxReconnects
Recover ==
    /\ stage = "waiting" /\ MayRecover
    /\ stage' = "recovering" /\ restarts' = restarts + 1 /\ health' = "recovering"
    /\ UNCHANGED <<now, session, density, todo, block, skip, fence, begun, asked, completed,
                   accounted, avoided, published, ended, acquisitions>>
AllBlocks == Blocks
BlocksAfter == todo                       \* mutant of Reselected
Reselected == AllBlocks
Reconnected ==
    /\ stage = "recovering"
    /\ stage' = "choose" /\ todo' = Reselected /\ block' = None /\ skip' = FALSE
    /\ UNCHANGED <<now, session, density, fence, restarts, begun, asked, client, ended,
                   acquisitions>>

(* What a block was accounted with, or its explicit answer if it has none. *)
Accounted(b) ==
    IF accounted[b] = None /\ Known(ExplicitTimes(b)) THEN ExplicitTimes(b) ELSE accounted[b]
Due(b, r) == Accounted(b) = None \/ now - Accounted(b)[r] >= Target
DueIn(b) == {r \in Needs(b) : Due(b, r)}

(* A request was avoided: what had been due has come unsolicited since.    *)
CameUnsolicited(b) ==
    /\ DueIn(b) # {} /\ Times(b) # Accounted(b)
    /\ \A r \in DueIn(b) :
          /\ Accounted(b) = None \/ Times(b)[r] > Accounted(b)[r]
          /\ seen[r].source = "unsolicited"
CameAnyhow(b) ==                          \* mutant of Displaced
    /\ DueIn(b) # {} /\ Times(b) # Accounted(b)
    /\ \A r \in DueIn(b) : Accounted(b) = None \/ Times(b)[r] > Accounted(b)[r]
Displaced(b) == CameUnsolicited(b)

(* The cell is complete when the acquisition ends with block 0 of it.      *)
CompletesCell(b) == density /\ b[1] = 0 /\ Since(Times(b), Newer(CellOf(now), fence))
CellComplete == CellOf(now)
CellForgotten == completed                \* mutant of CompletedCell
CompletedCell == CellComplete
Account ==
    /\ stage = "account"
    /\ LET b == block IN
       /\ completed' = IF CompletesCell(b) THEN CompletedCell ELSE completed
       /\ published' = IF CompletesCell(b) THEN published \cup {CellOf(now)} ELSE published
       /\ avoided' = IF skip /\ Displaced(b)
                     THEN [avoided EXCEPT ![b] = @ + 1] ELSE avoided
       /\ accounted' = [accounted EXCEPT ![b] =
             IF skip /\ DueIn(b) = {} THEN Accounted(b) ELSE Times(b)]
    /\ stage' = "choose" /\ block' = None /\ skip' = FALSE
    /\ UNCHANGED <<now, session, density, todo, fence, restarts, begun, asked, health, ended,
                   acquisitions>>

Finish ==
    /\ stage = "choose" /\ todo = {}
    /\ health' = IF \A b \in Blocks : Fresh(b) THEN "healthy" ELSE "degraded"
    /\ Leave("ok")
    /\ UNCHANGED <<now, session, density, completed, accounted, avoided, published,
                   acquisitions>>

-----------------------------------------------------------------------------
(* Frames that the dongle sends unasked, reads of other callers of the     *)
(* session (scans, forced reads, the operational refresh), and time.       *)
AtAwait == stage \in {"idle", "waiting", "answered", "recovering"}
Other ==
    /\ AtAwait /\ others < MaxOthers
    /\ \/ \E frame \in Pushed :
             /\ Route(frame, "unsolicited")
             /\ unasked' = [b \in Blocks |-> unasked[b] +
                   IF Addresses(frame) \cap Needs(b) # {} THEN 1 ELSE 0]
       \/ \E b \in Blocks : Route(b, "explicit") /\ UNCHANGED unasked
    /\ others' = others + 1
    /\ UNCHANGED <<now, density, stage, local, client, ended, acquisitions>>
Tick ==
    /\ now < MaxTime /\ now' = now + 1
    /\ UNCHANGED <<session, density, stage, local, client, ended, acquisitions>>

Next ==
    \/ Begin \/ Choose \/ Answer \/ Resume \/ GiveUp \/ Recover \/ Reconnected
    \/ Account \/ Finish \/ Other \/ Tick

Spec == Init /\ [][Next]_vars

-----------------------------------------------------------------------------
(* The variables stay in their ranges; a block is accounted with times at  *)
(* which it has come (_profile_accounted_observations).                    *)
TypeOK ==
    /\ now \in 0..MaxTime /\ density \in BOOLEAN /\ skip \in BOOLEAN
    /\ \A r \in Tracked : seen[r] # NotSeen =>
          /\ seen[r].range \in Pushed \cup Blocks /\ seen[r].at \in 0..now
          /\ seen[r].source \in {"explicit", "unsolicited"}
          /\ seen[r].sequence \in 1..sequence
    /\ stage \in {"idle", "choose", "waiting", "answered", "account", "recovering"}
    /\ todo \subseteq Blocks /\ block \in Blocks \cup {None}
    /\ {fence, begun} \subseteq 0..now /\ asked \in Never..now /\ restarts \in 0..MaxReconnects
    /\ completed \in {None} \cup published /\ published \subseteq 0..now
    /\ \A b \in Blocks : accounted[b] # None =>
          \A r \in Needs(b) : accounted[b][r] \in 0..Times(b)[r]
    /\ \A b \in Blocks : avoided[b] \in Nat /\ unasked[b] \in Nat
    /\ health \in {"healthy", "degraded", "recovering"}
    /\ ended \in {"none", "ok", "failed"}
    /\ acquisitions \in 0..MaxAcquisitions /\ others \in 0..MaxOthers

(* An acquisition that returns has seen to every block: no register is     *)
(* older than the freshness target at the time it began, not even after a  *)
(* read failed and the selection was restarted.                            *)
Returns == stage = "choose" /\ todo = {}
EveryBlockServed ==
    Returns => \A b \in Blocks : Known(Times(b)) /\ Since(Times(b), begun - Target)

(* With the density, an acquisition that returns leaves block 0 as it came *)
(* after it began, unless an acquisition had already had it in the cell in *)
(* which this one began: an older cache never stands in for it.            *)
EvidenceCurrent ==
    Returns /\ density =>
        \A b \in Blocks : b[1] = 0 =>
            \/ Since(Times(b), begun)
            \/ CellOf(begun) \in published /\ Since(Times(b), CellOf(begun))

(* ... and never older than an answer it had for another block: block 0 is *)
(* published last.                                                         *)
PublishedLast ==
    Returns /\ density =>
        \A b \in Blocks : b[1] = 0 => Since(Times(b), asked)

(* A request is counted as avoided only on account of frames that the      *)
(* dongle sent unasked, and no frame is used for two of them: there are    *)
(* never more than such frames for the block (and the variables have their *)
(* types).                                                                 *)
AvoidedByPushes == TypeOK /\ \A b \in Blocks : avoided[b] <= unasked[b]

(* The grid pair is shown only as it came in one frame of the whole block, *)
(* and a coherent response is one frame that had all of its registers:     *)
(* frames in passing, even of the same instant, are never mixed.           *)
NeverTorn ==
    LET s == Snapshot
        coherent == CoherentResponse(s)
    IN /\ DirectEnergy(s).grid_signed_power_w.quality = "available" =>
             /\ s[I_PTOGRID].word = s[I_PTOUSER].word
             /\ s[I_PTOGRID].range = Block(0)
       /\ coherent # None => \A r \in DirectRegisters : s[r].word = coherent

(* The age of a value is that of its oldest word: once the values that are *)
(* too old are taken away, no word that is left in a field is older than   *)
(* the target, whichever frames the field was put together from.           *)
AgesAreTruthful ==
    LET s == Snapshot
        direct == DirectEnergy(s)
        flow == EnergyFlowSnapshot(EnergyFlow({1, 2, 3}, "twelve_k_single_phase"), s)
    IN \A v \in {direct[f] : f \in DOMAIN direct} \cup {flow[f] : f \in DOMAIN flow} :
          UnavailableIfStale(v, now, Target).quality = "available" =>
              \A r \in v.registers : s[r].at >= now - Target

(* What is computed from the frames received is neither torn nor younger   *)
(* than it says.                                                           *)
ValuesTruthful == NeverTorn /\ AgesAreTruthful

(* Once a cell has its block 0, no acquisition of that cell asks for it    *)
(* again while it is fresh, unless it has just asked for another block.    *)
NoNeedlessRead ==
    [][stage = "choose" /\ stage' = "waiting" =>
        ~(/\ density /\ block'[1] = 0 /\ Fresh(block')
          /\ CellOf(now) \in published /\ asked = Never)]_vars
=============================================================================
