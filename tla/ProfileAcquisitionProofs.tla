----------------------- MODULE ProfileAcquisitionProofs -----------------------
(***************************************************************************)
(* For every profile, freshness target and length of the cell: what an     *)
(* acquisition that returns has seen to (ProfileAcquisition).              *)
(*                                                                         *)
(* The invariant says of every block that the acquisition is done with how *)
(* recently it has come.  It is kept because observations only become more *)
(* recent, because an answer is as recent as the clock, and because with   *)
(* the density nothing is read after block 0: the fence cannot move away   *)
(* from under it.                                                          *)
(***************************************************************************)
EXTENDS ProfileAcquisition, FiniteSetTheorems, WellFoundedInduction, TLAPS

USE DEF Never

SeenSince(b, t) == \A r \in Needs(b) : seen[r].at >= t

(* The part of TypeOK that the argument uses.                              *)
Ranges ==
    /\ now \in Nat /\ density \in BOOLEAN
    /\ begun \in Nat /\ begun <= now
    /\ asked \in Int /\ asked >= Never /\ asked <= now
    /\ fence \in Nat /\ fence <= now
    /\ DOMAIN seen = Tracked
    /\ \A r \in Tracked : seen[r].at \in Int /\ seen[r].at <= now
    /\ stage \in {"idle", "choose", "waiting", "answered", "account", "recovering"}
    /\ todo \subseteq Blocks
    /\ stage \in {"waiting", "answered", "account"} => block \in Blocks
    /\ completed # None => completed \in published

(* Where the fence is: not before the acquisition began or, in a cell that *)
(* an acquisition has completed, not before that cell.                     *)
FenceStands ==
    stage # "idle" =>
        \/ fence >= begun
        \/ fence >= CellOf(begun) /\ CellOf(begun) \in published
FenceCovers ==
    density /\ (stage = "answered" => block[1] = 0) => asked <= fence

(* With the density, block 0 is still to be read while another one is, and *)
(* nothing is left once it was chosen.                                     *)
Zeros == {b \in Blocks : b[1] = 0}
PvLast ==
    density =>
        /\ stage \in {"choose", "waiting", "answered", "account"} =>
              (Zeros \subseteq todo \/ todo = {})
        /\ stage \in {"waiting", "answered", "account"} /\ block[1] # 0 =>
              Zeros \subseteq todo

Served(b) ==
    /\ SeenSince(b, 0) /\ SeenSince(b, begun - Target)
    /\ density /\ b[1] = 0 => SeenSince(b, fence)
Done ==
    IF stage \in {"choose", "account"} THEN Blocks \ todo
    ELSE IF stage \in {"waiting", "answered"} THEN (Blocks \ todo) \ {block} ELSE {}
DoneServed == \A b \in Done : Served(b)
AnswerRecent == stage = "answered" => Served(block)

IInv == Ranges /\ FenceStands /\ FenceCovers /\ PvLast /\ DoneServed /\ AnswerRecent

-----------------------------------------------------------------------------
LEMMA SinceTimes ==
    ASSUME NEW b, NEW t
    PROVE  Since(Times(b), t) <=> SeenSince(b, t)
BY DEF Since, Times, SeenSince

LEMMA NeedsTracked ==
    ASSUME NEW b
    PROVE  Needs(b) \subseteq Tracked /\ Needs(b) \subseteq Addresses(b)
BY DEF Needs, RequiredIn, Tracked

LEMMA CellBefore ==
    ASSUME NEW t \in Nat
    PROVE  CellOf(t) \in Nat /\ CellOf(t) <= t
<1>1. t = (t \div Cell) * Cell + (t % Cell) /\ (t % Cell) \in Nat /\ (t \div Cell) \in Nat
  BY TimeAssumption
<1>2. (t \div Cell) * Cell \in Nat
  BY <1>1, TimeAssumption
<1> QED BY <1>1, <1>2 DEF CellOf

(* A frame only makes what has been seen more recent, and what it has is   *)
(* as recent as the clock.                                                 *)
LEMMA RouteSeen ==
    ASSUME Ranges, NEW frame, NEW source, Route(frame, source)
    PROVE  /\ DOMAIN seen' = Tracked
           /\ \A r \in Tracked :
                 /\ seen'[r].at \in Int /\ seen'[r].at <= now
                 /\ seen'[r].at >= seen[r].at
                 /\ r \in Addresses(frame) => seen'[r].at = now
BY DEF Ranges, Route

LEMMA MonotoneSince ==
    ASSUME Ranges, NEW b, NEW t \in Int, SeenSince(b, t),
           \A r \in Tracked : seen'[r].at \in Int /\ seen'[r].at >= seen[r].at
    PROVE  \A r \in Needs(b) : seen'[r].at >= t
BY NeedsTracked DEF Ranges, SeenSince

-----------------------------------------------------------------------------
LEMMA InitIInv == Init => IInv
<1> SUFFICES ASSUME Init PROVE IInv
  OBVIOUS
<1>1. Ranges
  BY DEF Init, Ranges, NotSeen
<1>2. FenceStands /\ PvLast /\ DoneServed /\ AnswerRecent
  BY DEF Init, FenceStands, PvLast, DoneServed, Done, AnswerRecent
<1>3. FenceCovers
  BY DEF Init, FenceCovers
<1> QED BY <1>1, <1>2, <1>3 DEF IInv

LEMMA BeginKeeps == IInv /\ Begin => IInv'
<1> SUFFICES ASSUME IInv, Begin PROVE IInv'
  OBVIOUS
<1> USE DEF IInv
<1>1. CellOf(now) \in Nat /\ CellOf(now) <= now /\ CellOf(now) # None
  BY CellBefore, NoneAssumption DEF Ranges
<1>2. /\ stage' = "choose" /\ todo' = Blocks /\ begun' = now /\ asked' = Never
      /\ UNCHANGED <<now, seen, density, completed, published>>
  BY DEF Begin, session, client
<1>3. \/ fence' = now
      \/ fence' = CellOf(now) /\ CellOf(now) \in published
  BY <1>1 DEF Begin, InitialFence, FenceOfCell, Ranges
<1>4. Ranges'
  BY <1>1, <1>2, <1>3 DEF Ranges
<1>5. FenceStands' /\ FenceCovers'
  <2>1. CellOf(begun)' = CellOf(now)
    BY <1>2 DEF CellOf
  <2> QED BY <2>1, <1>1, <1>2, <1>3, <1>4 DEF FenceStands, FenceCovers, Ranges
<1>6. PvLast' /\ DoneServed' /\ AnswerRecent'
  BY <1>2 DEF PvLast, Zeros, DoneServed, Done, AnswerRecent
<1> QED BY <1>4, <1>5, <1>6

(* A block that is skipped is served: the freshness target counts from now *)
(* and now is not before the acquisition began.                            *)
LEMMA SkippedServed ==
    ASSUME Ranges, NEW b \in Blocks, SkipsBlock(b)
    PROVE  Served(b)
<1>1. SeenSince(b, 0) /\ SeenSince(b, now - Target)
  BY SinceTimes DEF SkipsBlock, Fresh, Known
<1>2. ASSUME density, b[1] = 0 PROVE SeenSince(b, fence)
  <2>1. SeenSince(b, Newer(CellOf(now), fence))
    BY <1>2, SinceTimes DEF SkipsBlock
  <2>2. Newer(CellOf(now), fence) >= fence /\ Newer(CellOf(now), fence) \in Nat
    BY CellBefore DEF Newer, Ranges
  <2> QED BY <2>1, <2>2, NeedsTracked DEF SeenSince, Ranges
<1>3. SeenSince(b, begun - Target)
  BY <1>1, NeedsTracked, TimeAssumption DEF SeenSince, Ranges
<1> QED BY <1>1, <1>2, <1>3 DEF Served

LEMMA ChooseKeeps == IInv /\ Choose => IInv'
<1> SUFFICES ASSUME IInv, Choose PROVE IInv'
  OBVIOUS
<1> USE DEF IInv
<1>1. /\ stage = "choose"
      /\ UNCHANGED <<now, seen, density, fence, begun, asked, completed, published>>
  BY DEF Choose, session, client
<1>2. PICK b \in todo :
          /\ \A c \in todo : Before(b, c)
          /\ block' = b /\ todo' = todo \ {b}
          /\ stage' = IF SkipsBlock(b) THEN "account" ELSE "waiting"
  BY DEF Choose
<1>3. b \in Blocks
  BY <1>2 DEF Ranges
<1>4. Ranges'
  BY <1>1, <1>2, <1>3 DEF Ranges
<1>5. FenceStands' /\ FenceCovers' /\ AnswerRecent'
  BY <1>1, <1>2 DEF FenceStands, FenceCovers, AnswerRecent, CellOf
<1>6. PvLast'
  <2> SUFFICES ASSUME density
               PROVE  /\ Zeros \subseteq todo' \/ todo' = {}
                      /\ b[1] # 0 => Zeros \subseteq todo'
    BY <1>1, <1>2 DEF PvLast, Zeros
  <2>1. Zeros \subseteq todo
    BY <1>1, <1>2 DEF PvLast
  <2>2. CASE b[1] # 0
    BY <2>1, <2>2, <1>2 DEF Zeros
  <2>3. CASE b[1] = 0
    <3>1. \A c \in todo : c[1] = 0
      BY <2>3, <1>2 DEF Before
    <3>2. \A c \in Blocks : c[1] = 0 => c = Block(0)
      BY DEF Blocks, ReadBlocks, PlanAlignedInputBlocks, Block
    <3>3. todo' = {}
      BY <3>1, <3>2, <2>3, <1>2, <1>3 DEF Ranges
    <3> QED BY <3>3, <2>3
  <2> QED BY <2>2, <2>3
<1>7. DoneServed'
  <2>1. \A c \in Blocks \ todo : Served(c)
    BY <1>1 DEF DoneServed, Done
  <2>2. \A c : Served(c)' <=> Served(c)
    BY <1>1 DEF Served, SeenSince
  <2>3. SkipsBlock(b) => Served(b)
    BY <1>3, SkippedServed
  <2>4. Done' \subseteq (Blocks \ todo) \cup (IF SkipsBlock(b) THEN {b} ELSE {})
    BY <1>2 DEF Done
  <2> QED BY <2>1, <2>2, <2>3, <2>4 DEF DoneServed
<1> QED BY <1>4, <1>5, <1>6, <1>7

(* A frame in passing keeps what holds of the blocks that are done.        *)
LEMMA ServedStays ==
    ASSUME Ranges, NEW b, Served(b),
           \A r \in Tracked : seen'[r].at \in Int /\ seen'[r].at >= seen[r].at,
           UNCHANGED <<density, begun, fence>>
    PROVE  Served(b)'
<1>1. begun - Target \in Int /\ fence \in Int /\ 0 \in Int
  BY TimeAssumption DEF Ranges
<1>2. SeenSince(b, 0)' /\ SeenSince(b, begun - Target)'
  BY <1>1, MonotoneSince DEF Served, SeenSince
<1>3. density /\ b[1] = 0 => SeenSince(b, fence)'
  BY <1>1, MonotoneSince DEF Served, SeenSince
<1> QED BY <1>2, <1>3 DEF Served

LEMMA AnswerKeeps == IInv /\ Answer => IInv'
<1> SUFFICES ASSUME IInv, Answer PROVE IInv'
  OBVIOUS
<1> USE DEF IInv
<1>1. /\ stage = "waiting" /\ stage' = "answered"
      /\ Route(block, "explicit")
      /\ asked' = IF block[1] # 0 THEN now ELSE asked
      /\ UNCHANGED <<now, density, todo, block, fence, begun, completed, published>>
  BY DEF Answer, client
<1>2. /\ DOMAIN seen' = Tracked
      /\ \A r \in Tracked :
            /\ seen'[r].at \in Int /\ seen'[r].at <= now /\ seen'[r].at >= seen[r].at
            /\ r \in Addresses(block) => seen'[r].at = now
  BY <1>1, RouteSeen
<1>3. Ranges'
  BY <1>1, <1>2 DEF Ranges
<1>4. FenceStands' /\ PvLast'
  BY <1>1 DEF FenceStands, PvLast, Zeros, CellOf
<1>5. FenceCovers'
  BY <1>1 DEF FenceCovers
<1>6. DoneServed'
  BY <1>1, <1>2, ServedStays DEF DoneServed, Done
<1>7. AnswerRecent'
  <2>1. \A r \in Needs(block) : seen'[r].at = now
    BY <1>2, NeedsTracked
  <2> QED BY <2>1, <1>1, TimeAssumption DEF AnswerRecent, Served, SeenSince, Ranges
<1> QED BY <1>3, <1>4, <1>5, <1>6, <1>7

LEMMA ResumeKeeps == IInv /\ Resume => IInv'
<1> SUFFICES ASSUME IInv, Resume PROVE IInv'
  OBVIOUS
<1> USE DEF IInv
<1>1. /\ stage = "answered" /\ stage' = "account"
      /\ fence' = IF density /\ block[1] # 0 THEN now ELSE fence
      /\ UNCHANGED <<now, seen, density, todo, block, begun, asked, completed, published>>
  BY DEF Resume, FenceMoved, FenceAfter, session, client
<1>2. Ranges'
  BY <1>1 DEF Ranges
<1>3. FenceStands' /\ FenceCovers' /\ PvLast' /\ AnswerRecent'
  <2>1. FenceStands'
    <3>1. CellOf(begun)' = CellOf(begun)
      BY <1>1 DEF CellOf
    <3> QED BY <3>1, <1>1 DEF FenceStands, Ranges
  <2>2. FenceCovers'
    BY <1>1 DEF FenceCovers, Ranges
  <2> QED BY <2>1, <2>2, <1>1 DEF PvLast, Zeros, AnswerRecent
<1>4. DoneServed'
  <2>1. \A b \in Blocks \ todo : Served(b)
    BY <1>1 DEF DoneServed, Done, AnswerRecent
  <2>2. ASSUME NEW b \in Blocks \ todo PROVE Served(b)'
    <3>1. density /\ b[1] = 0 => fence' = fence
      BY <2>2, <1>1 DEF PvLast, Zeros
    <3> QED BY <3>1, <2>1, <2>2, <1>1 DEF Served, SeenSince
  <2> QED BY <2>2, <1>1 DEF DoneServed, Done
<1> QED BY <1>2, <1>3, <1>4

LEMMA LeaveKeeps ==
    ASSUME IInv, NEW how, Leave(how),
           UNCHANGED <<now, seen, density, completed, published>>
    PROVE  IInv'
<1> USE DEF IInv, Leave
<1>1. Ranges'
  BY DEF Ranges
<1>2. FenceStands' /\ FenceCovers' /\ PvLast' /\ DoneServed' /\ AnswerRecent'
  BY DEF FenceStands, FenceCovers, PvLast, DoneServed, Done, AnswerRecent
<1> QED BY <1>1, <1>2

LEMMA RecoverKeeps == IInv /\ Recover => IInv'
<1> SUFFICES ASSUME IInv, Recover PROVE IInv'
  OBVIOUS
<1> USE DEF IInv
<1>1. /\ stage = "waiting" /\ stage' = "recovering"
      /\ UNCHANGED <<now, seen, density, todo, block, fence, begun, asked, completed,
                     published>>
  BY DEF Recover, session
<1>2. Ranges'
  BY <1>1 DEF Ranges
<1>3. FenceStands' /\ FenceCovers'
  BY <1>1 DEF FenceStands, FenceCovers, CellOf
<1>4. PvLast' /\ DoneServed' /\ AnswerRecent'
  BY <1>1 DEF PvLast, DoneServed, Done, AnswerRecent
<1> QED BY <1>2, <1>3, <1>4

LEMMA ReconnectedKeeps == IInv /\ Reconnected => IInv'
<1> SUFFICES ASSUME IInv, Reconnected PROVE IInv'
  OBVIOUS
<1> USE DEF IInv
<1>1. /\ stage = "recovering" /\ stage' = "choose" /\ todo' = Blocks
      /\ UNCHANGED <<now, seen, density, fence, begun, asked, completed, published>>
  BY DEF Reconnected, Reselected, AllBlocks, session, client
<1>2. Ranges'
  BY <1>1 DEF Ranges
<1>3. FenceStands' /\ FenceCovers'
  BY <1>1 DEF FenceStands, FenceCovers, CellOf
<1>4. PvLast' /\ DoneServed' /\ AnswerRecent'
  BY <1>1 DEF PvLast, Zeros, DoneServed, Done, AnswerRecent
<1> QED BY <1>2, <1>3, <1>4

LEMMA AccountKeeps == IInv /\ Account => IInv'
<1> SUFFICES ASSUME IInv, Account PROVE IInv'
  OBVIOUS
<1> USE DEF IInv
<1>1. /\ stage = "account" /\ stage' = "choose"
      /\ UNCHANGED <<now, seen, density, todo, fence, begun, asked>>
      /\ published \subseteq published'
      /\ completed' # None =>
            \/ completed' = completed /\ completed \in published
            \/ completed' \in published'
  BY DEF Account, session, CompletedCell, CellComplete, Ranges
<1>2. Ranges'
  BY <1>1 DEF Ranges
<1>3. FenceStands' /\ FenceCovers'
  BY <1>1 DEF FenceStands, FenceCovers, CellOf
<1>4. PvLast' /\ AnswerRecent'
  BY <1>1 DEF PvLast, Zeros, AnswerRecent
<1>5. DoneServed'
  BY <1>1 DEF DoneServed, Done, Served, SeenSince
<1> QED BY <1>2, <1>3, <1>4, <1>5

LEMMA OtherKeeps == IInv /\ Other => IInv'
<1> SUFFICES ASSUME IInv, Other PROVE IInv'
  OBVIOUS
<1> USE DEF IInv
<1>1. PICK frame, source : Route(frame, source)
  BY DEF Other
<1>2. UNCHANGED <<now, density, stage, todo, block, fence, begun, asked, completed,
                  published>>
  BY DEF Other, local, client
<1>3. /\ DOMAIN seen' = Tracked
      /\ \A r \in Tracked :
            seen'[r].at \in Int /\ seen'[r].at <= now /\ seen'[r].at >= seen[r].at
  BY <1>1, RouteSeen
<1>4. Ranges'
  BY <1>2, <1>3 DEF Ranges
<1>5. FenceStands' /\ FenceCovers' /\ PvLast'
  BY <1>2 DEF FenceStands, FenceCovers, PvLast, Zeros, CellOf
<1>6. DoneServed'
  BY <1>2, <1>3, ServedStays DEF DoneServed, Done
<1>7. AnswerRecent'
  BY <1>2, <1>3, ServedStays DEF AnswerRecent
<1> QED BY <1>4, <1>5, <1>6, <1>7

LEMMA TickKeeps == IInv /\ Tick => IInv'
<1> SUFFICES ASSUME IInv, Tick PROVE IInv'
  OBVIOUS
<1> USE DEF IInv
<1>1. /\ now' = now + 1
      /\ UNCHANGED <<seen, density, stage, todo, block, fence, begun, asked, completed,
                     published>>
  BY DEF Tick, session, local, client
<1>2. Ranges'
  BY <1>1 DEF Ranges
<1>3. FenceStands' /\ FenceCovers' /\ PvLast'
  BY <1>1 DEF FenceStands, FenceCovers, PvLast, Zeros, CellOf
<1>4. DoneServed' /\ AnswerRecent'
  BY <1>1 DEF DoneServed, Done, AnswerRecent, Served, SeenSince
<1> QED BY <1>2, <1>3, <1>4

LEMMA StutterKeeps == IInv /\ UNCHANGED vars => IInv'
BY DEF IInv, vars, session, local, client, Ranges, FenceStands, FenceCovers, PvLast,
       Zeros, DoneServed, Done, AnswerRecent, Served, SeenSince, CellOf

THEOREM AcquisitionInvariant == Spec => []IInv
<1>1. IInv /\ Next => IInv'
  <2> SUFFICES ASSUME IInv, Next PROVE IInv'
    OBVIOUS
  <2>1. CASE GiveUp
    BY <2>1, LeaveKeeps DEF GiveUp, session
  <2>2. CASE Finish
    BY <2>2, LeaveKeeps DEF Finish, session
  <2> QED
    BY <2>1, <2>2, BeginKeeps, ChooseKeeps, AnswerKeeps, ResumeKeeps, RecoverKeeps,
       ReconnectedKeeps, AccountKeeps, OtherKeeps, TickKeeps DEF Next
<1> QED BY <1>1, InitIInv, StutterKeeps, PTL DEF Spec

(* An acquisition that returns has seen to every block of its profile      *)
(* (EveryBlockServed): _async_refresh_profile_locked, its skips, its reads *)
(* and the selections that it restarts after a failure.                    *)
THEOREM ReturnsServed == Spec => []EveryBlockServed
<1>1. IInv => EveryBlockServed
  BY SinceTimes DEF IInv, EveryBlockServed, Returns, Known, DoneServed, Done, Served
<1> QED BY <1>1, AcquisitionInvariant, PTL

LEMMA EvidenceAtFence ==
    ASSUME IInv, Returns, density, NEW b \in Blocks, b[1] = 0
    PROVE  SeenSince(b, fence)
BY DEF IInv, Returns, DoneServed, Done, Served

(* The density fence at work (EvidenceCurrent): block 0 as it came after   *)
(* the acquisition began, or in a cell that was complete by then.          *)
THEOREM ReturnsCurrent == Spec => []EvidenceCurrent
<1>1. IInv => EvidenceCurrent
  <2> SUFFICES ASSUME IInv, Returns, density, NEW b \in Blocks, b[1] = 0
               PROVE  \/ SeenSince(b, begun)
                      \/ CellOf(begun) \in published /\ SeenSince(b, CellOf(begun))
    BY SinceTimes DEF EvidenceCurrent
  <2>1. SeenSince(b, fence)
    BY EvidenceAtFence
  <2>2. CellOf(begun) \in Nat
    BY CellBefore DEF IInv, Ranges
  <2>3. CASE fence >= begun
    BY <2>1, <2>3, NeedsTracked DEF IInv, Ranges, SeenSince
  <2>4. CASE fence >= CellOf(begun) /\ CellOf(begun) \in published
    BY <2>1, <2>2, <2>4, NeedsTracked DEF IInv, Ranges, SeenSince
  <2> QED BY <2>3, <2>4 DEF IInv, FenceStands, Returns
<1> QED BY <1>1, AcquisitionInvariant, PTL

(* Block 0 is published last (PublishedLast): no answer that the           *)
(* acquisition had for another block is more recent than block 0.          *)
THEOREM ReturnsLast == Spec => []PublishedLast
<1>1. IInv => PublishedLast
  <2> SUFFICES ASSUME IInv, Returns, density, NEW b \in Blocks, b[1] = 0
               PROVE  SeenSince(b, asked)
    BY SinceTimes DEF PublishedLast
  <2>1. SeenSince(b, fence) /\ asked <= fence
    BY EvidenceAtFence DEF IInv, FenceCovers, Returns
  <2> QED BY <2>1, NeedsTracked DEF IInv, Ranges, SeenSince
<1> QED BY <1>1, AcquisitionInvariant, PTL

-----------------------------------------------------------------------------
(* What is known of a register is one frame that came: its word stands for *)
(* that frame.                                                             *)
FrameSeen(o) ==
    /\ o.word = o.sequence /\ o.sequence \in 1..sequence /\ o.at \in 0..now
    /\ o.range \in Pushed \cup Blocks /\ o.source \in {"explicit", "unsolicited"}
Observations ==
    /\ sequence \in Nat /\ DOMAIN explicit = Tracked
    /\ \A r \in Tracked :
          /\ seen[r] = NotSeen \/ FrameSeen(seen[r])
          /\ explicit[r] \in Never..seen[r].at

(* A request counts as avoided on account of a frame of its own: once as   *)
(* many are counted as were pushed, whatever came unasked is accounted.    *)
Spent(b) ==
    /\ avoided[b] <= unasked[b]
    /\ avoided[b] = unasked[b] =>
          \A r \in Needs(b) : seen[r].source = "unsolicited" =>
              accounted[b] # None /\ accounted[b][r] = seen[r].at
AccountType(b) ==
    /\ avoided[b] \in Nat /\ unasked[b] \in Nat
    /\ accounted[b] # None =>
          /\ DOMAIN accounted[b] = Needs(b)
          /\ \A r \in Needs(b) : accounted[b][r] \in 0..seen[r].at
AccountsInv ==
    /\ DOMAIN accounted = Blocks /\ DOMAIN avoided = Blocks /\ DOMAIN unasked = Blocks
    /\ \A b \in Blocks : AccountType(b) /\ Spent(b)

(* The rest of TypeOK, and that the block at hand is not among those to do.*)
Counters ==
    /\ now \in 0..MaxTime /\ skip \in BOOLEAN /\ restarts \in 0..MaxReconnects
    /\ block \in Blocks \cup {None}
    /\ health \in {"healthy", "degraded", "recovering"}
    /\ ended \in {"none", "ok", "failed"}
    /\ acquisitions \in 0..MaxAcquisitions /\ others \in 0..MaxOthers
AtHand == stage \in {"waiting", "answered", "account"} => block \in Blocks \ todo

(* Cells are published in their order, the latest is the completed one, and*)
(* block 0 has come since.                                                 *)
Cells ==
    /\ published \subseteq Nat /\ completed \in published \cup {None}
    /\ \A c \in published :
          /\ completed # None /\ c <= completed /\ c <= CellOf(now)
          /\ \A b \in Zeros : SeenSince(b, c)

(* An acquisition that has asked for nothing yet stands at its cell if an  *)
(* acquisition had published that, and has not published itself.           *)
ZeroAhead == Zeros # {} /\ (stage = "choose" => Zeros \cap todo # {})
Untouched ==
    density /\ stage # "idle" /\ asked = Never /\ ZeroAhead =>
        /\ \A c \in published : c <= CellOf(begun)
        /\ CellOf(begun) \in published => fence = CellOf(begun)
AskedKnown == stage = "answered" /\ block[1] # 0 => asked # Never

BookInv == Observations /\ AccountsInv /\ Counters /\ AtHand /\ Cells /\ Untouched /\ AskedKnown

-----------------------------------------------------------------------------
LEMMA BookInit == Init => BookInv
<1> SUFFICES ASSUME Init PROVE BookInv
  OBVIOUS
<1>1. Observations
  BY DEF Init, Observations, NotSeen
<1>2. AccountsInv
  BY NeedsTracked DEF Init, AccountsInv, AccountType, Spent, NotSeen
<1>3. Counters
  <2>1. /\ 0 \in 0..MaxTime /\ 0 \in 0..MaxReconnects
        /\ 0 \in 0..MaxAcquisitions /\ 0 \in 0..MaxOthers
    BY BoundAssumption
  <2> QED BY <2>1 DEF Init, Counters
<1>4. Cells /\ Untouched /\ AskedKnown /\ AtHand
  BY DEF Init, Cells, Untouched, AskedKnown, AtHand
<1> QED BY <1>1, <1>2, <1>3, <1>4 DEF BookInv

LEMMA RouteObservations ==
    ASSUME Ranges, Observations, NEW frame \in Pushed \cup Blocks,
           NEW source \in {"explicit", "unsolicited"}, Route(frame, source), now' = now
    PROVE  Observations'
<1>1. sequence' = sequence + 1 /\ sequence \in Nat /\ sequence' \in Nat
  BY DEF Observations, Route
<1>2. DOMAIN explicit' = Tracked
  BY DEF Route
<1>3. ASSUME NEW r \in Tracked, r \in Addresses(frame)
      PROVE  FrameSeen(seen[r])' /\ explicit'[r] \in Never..seen'[r].at
  <2>1. seen'[r] = [word |-> sequence + 1, at |-> now, sequence |-> sequence + 1,
                    range |-> frame, source |-> source]
    BY <1>3 DEF Route
  <2>2. explicit'[r] = IF source = "explicit" THEN now ELSE explicit[r]
    BY <1>3 DEF Route
  <2>3. explicit[r] \in Never..seen[r].at /\ seen[r].at \in Int /\ seen[r].at <= now
    BY DEF Observations, Ranges
  <2> QED BY <1>1, <2>1, <2>2, <2>3 DEF FrameSeen, Ranges
<1>4. ASSUME NEW r \in Tracked, r \notin Addresses(frame)
      PROVE  /\ (seen[r] = NotSeen \/ FrameSeen(seen[r]))'
             /\ explicit'[r] \in Never..seen'[r].at
  <2>1. seen'[r] = seen[r] /\ explicit'[r] = explicit[r]
    BY <1>4 DEF Route
  <2>2. FrameSeen(seen[r]) => FrameSeen(seen[r])'
    BY <1>1, <2>1 DEF FrameSeen
  <2> QED BY <2>1, <2>2 DEF Observations, NotSeen
<1> QED BY <1>1, <1>2, <1>3, <1>4 DEF Observations

(* Frames come in with an answer or from others; else only time passes.    *)
LEMMA Quiet ==
    ASSUME Next
    PROVE  \/ Answer \/ Other \/ Tick
           \/ UNCHANGED <<now, session>>
BY DEF Next, Begin, Choose, Resume, GiveUp, Recover, Reconnected, Account, Finish

LEMMA ObservationsStep == IInv /\ BookInv /\ Next => Observations'
<1> SUFFICES ASSUME IInv, BookInv, Next PROVE Observations'
  OBVIOUS
<1>1. Ranges /\ Observations
  BY DEF IInv, BookInv
<1>2. CASE Answer
  <2>1. block \in Blocks /\ Route(block, "explicit") /\ now' = now
    BY <1>1, <1>2 DEF Answer, Ranges
  <2> QED BY <1>1, <2>1, RouteObservations
<1>3. CASE Other
  <2>1. now' = now /\ \E frame \in Pushed \cup Blocks, source \in {"explicit", "unsolicited"} :
                          Route(frame, source)
    BY <1>3 DEF Other
  <2> QED BY <1>1, <2>1, RouteObservations
<1>4. CASE Tick
  <2>1. now \in Nat /\ now' = now + 1 /\ UNCHANGED <<seen, explicit, sequence>>
    BY <1>1, <1>4 DEF Tick, session, Ranges
  <2>2. \A r \in Tracked : FrameSeen(seen[r]) => FrameSeen(seen[r])'
    BY <2>1 DEF FrameSeen
  <2> QED BY <1>1, <2>1, <2>2 DEF Observations, NotSeen
<1>5. CASE UNCHANGED <<now, session>>
  BY <1>1, <1>5 DEF Observations, FrameSeen, NotSeen, session
<1> QED BY <1>2, <1>3, <1>4, <1>5, Quiet

-----------------------------------------------------------------------------
LEMMA TimesOf ==
    ASSUME Ranges, NEW b \in Blocks
    PROVE  /\ Times(b) # None /\ DOMAIN Times(b) = Needs(b)
           /\ \A r \in Needs(b) : Times(b)[r] = seen[r].at
<1>1. Times(b) \in [Needs(b) -> Int]
  BY NeedsTracked DEF Times, Ranges
<1> QED BY <1>1, NoneAssumption DEF Times

(* A frame that the dongle did not push accounts for nothing.              *)
LEMMA RouteAccounts ==
    ASSUME Ranges, AccountsInv, NEW frame, NEW source, Route(frame, source),
           UNCHANGED <<accounted, avoided>>, DOMAIN unasked' = Blocks,
           \A b \in Blocks :
              \/ unasked'[b] = unasked[b] /\ source = "explicit"
              \/ unasked'[b] = unasked[b] /\ Addresses(frame) \cap Needs(b) = {}
              \/ unasked'[b] = unasked[b] + 1
    PROVE  AccountsInv'
<1>1. ASSUME NEW b \in Blocks, NEW r \in Needs(b)
      PROVE  /\ seen'[r].at \in Int /\ seen[r].at \in Int /\ seen'[r].at >= seen[r].at
             /\ r \in Addresses(frame) => seen'[r].source = source
             /\ r \notin Addresses(frame) => seen'[r] = seen[r]
  BY RouteSeen, NeedsTracked DEF Route, Ranges
<1>2. ASSUME NEW b \in Blocks PROVE AccountType(b)'
  <2>1. AccountType(b) /\ accounted'[b] = accounted[b] /\ avoided'[b] = avoided[b]
    BY DEF AccountsInv
  <2>2. unasked'[b] \in Nat
    BY <2>1 DEF AccountType
  <2> QED BY <1>1, <2>1, <2>2 DEF AccountType
<1>3. ASSUME NEW b \in Blocks PROVE Spent(b)'
  <2>1. Spent(b) /\ AccountType(b) /\ accounted'[b] = accounted[b] /\ avoided'[b] = avoided[b]
    BY DEF AccountsInv
  <2>2. CASE unasked'[b] = unasked[b] + 1
    BY <2>1, <2>2 DEF Spent, AccountType
  <2>3. CASE unasked'[b] = unasked[b]
    <3>1. ASSUME NEW r \in Needs(b), seen'[r].source = "unsolicited"
          PROVE  seen'[r] = seen[r] \/ unasked'[b] = unasked[b] + 1
      BY <1>1, <3>1
    <3> QED BY <2>1, <2>3, <3>1 DEF Spent, AccountType
  <2> QED BY <2>2, <2>3
<1>4. DOMAIN accounted' = Blocks /\ DOMAIN avoided' = Blocks
  BY DEF AccountsInv
<1> QED BY <1>2, <1>3, <1>4 DEF AccountsInv

(* What an acquisition accounts a block with.                              *)
LEMMA AccountedOf ==
    ASSUME Ranges, Observations, AccountsInv, NEW b \in Blocks
    PROVE  Accounted(b) # None =>
              /\ DOMAIN Accounted(b) = Needs(b)
              /\ \A r \in Needs(b) : Accounted(b)[r] \in 0..seen[r].at
<1>1. CASE accounted[b] = None /\ Known(ExplicitTimes(b))
  <2>1. \A r \in Needs(b) : explicit[r] >= 0
    BY <1>1 DEF Known, Since, ExplicitTimes
  <2>2. \A r \in Needs(b) : explicit[r] \in Never..seen[r].at /\ seen[r].at \in Int
    BY NeedsTracked DEF Observations, Ranges
  <2> QED BY <1>1, <2>1, <2>2 DEF Accounted, ExplicitTimes
<1>2. CASE ~(accounted[b] = None /\ Known(ExplicitTimes(b)))
  BY <1>2 DEF Accounted, AccountsInv, AccountType
<1> QED BY <1>1, <1>2

LEMMA AccountAccounts ==
    ASSUME IInv, BookInv, Account
    PROVE  AccountsInv'
<1>1. /\ Ranges /\ Observations /\ AccountsInv
      /\ stage = "account" /\ block \in Blocks \ todo
  BY DEF IInv, BookInv, AtHand, Account
<1>0. PICK b \in Blocks : b = block /\ b \notin todo
  BY <1>1
<1>2. /\ UNCHANGED <<seen, unasked, explicit>>
      /\ avoided' = IF skip /\ Displaced(b)
                     THEN [avoided EXCEPT ![b] = @ + 1] ELSE avoided
      /\ accounted' = [accounted EXCEPT ![b] =
             IF skip /\ DueIn(b) = {} THEN Accounted(b) ELSE Times(b)]
  BY <1>0 DEF Account, session
<1>3. SeenSince(b, 0)
  BY <1>0, <1>1 DEF IInv, DoneServed, Done, Served
<1>4. /\ Times(b) # None /\ DOMAIN Times(b) = Needs(b)
      /\ \A r \in Needs(b) : Times(b)[r] = seen[r].at /\ seen[r].at \in Nat
  BY <1>1, <1>3, TimesOf, NeedsTracked DEF SeenSince, Ranges
<1>5. /\ DOMAIN accounted' = Blocks /\ DOMAIN avoided' = Blocks /\ DOMAIN unasked' = Blocks
      /\ accounted'[b] = IF skip /\ DueIn(b) = {} THEN Accounted(b) ELSE Times(b)
      /\ avoided'[b] = IF skip /\ Displaced(b) THEN avoided[b] + 1 ELSE avoided[b]
      /\ \A c \in Blocks : c # b => accounted'[c] = accounted[c] /\ avoided'[c] = avoided[c]
  BY <1>1, <1>2 DEF AccountsInv
<1>6. ASSUME NEW c \in Blocks, c # b PROVE AccountType(c)' /\ Spent(c)'
  BY <1>1, <1>2, <1>5, <1>6 DEF AccountsInv, AccountType, Spent
<1>7. AccountType(b)'
  <2>1. avoided'[b] \in Nat /\ unasked'[b] \in Nat
    BY <1>1, <1>2, <1>5 DEF AccountsInv, AccountType
  <2> QED BY <1>1, <1>2, <1>4, <1>5, <2>1, AccountedOf DEF AccountType
<1>8. Spent(b) /\ AccountType(b)
  BY <1>1 DEF AccountsInv
<1>9. ASSUME skip, Displaced(b) PROVE Spent(b)'
  <2>1. PICK r \in DueIn(b) : /\ Accounted(b) = None \/ Times(b)[r] > Accounted(b)[r]
                              /\ seen[r].source = "unsolicited"
    BY <1>9 DEF Displaced, CameUnsolicited
  <2>2. r \in Needs(b) /\ DueIn(b) # {}
    BY <2>1 DEF DueIn
  <2>3. avoided[b] # unasked[b]
    <3> SUFFICES ASSUME avoided[b] = unasked[b] PROVE FALSE
      OBVIOUS
    <3>1. accounted[b] # None /\ accounted[b][r] = seen[r].at
      BY <1>8, <2>1, <2>2 DEF Spent
    <3>2. Accounted(b) = accounted[b]
      BY <3>1 DEF Accounted
    <3> QED BY <1>4, <2>1, <2>2, <3>1, <3>2
  <2>4. avoided'[b] = avoided[b] + 1 /\ accounted'[b] = Times(b)
    BY <1>5, <1>9, <2>2
  <2> QED BY <1>2, <1>4, <1>8, <2>3, <2>4 DEF Spent, AccountType
<1>10. ASSUME ~(skip /\ Displaced(b)) PROVE Spent(b)'
  <2>1. avoided'[b] = avoided[b]
    BY <1>5, <1>10
  <2>2. CASE skip /\ DueIn(b) = {}
    <3>1. accounted'[b] = Accounted(b)
      BY <1>5, <2>2
    <3>2. accounted[b] # None => Accounted(b) = accounted[b]
      BY DEF Accounted
    <3> QED BY <1>2, <1>8, <2>1, <3>1, <3>2 DEF Spent
  <2>3. CASE ~(skip /\ DueIn(b) = {})
    BY <1>2, <1>4, <1>5, <1>8, <2>1, <2>3 DEF Spent
  <2> QED BY <2>2, <2>3
<1> QED BY <1>5, <1>6, <1>7, <1>9, <1>10 DEF AccountsInv

LEMMA AccountsStep == IInv /\ BookInv /\ Next => AccountsInv'
<1> SUFFICES ASSUME IInv, BookInv, Next PROVE AccountsInv'
  OBVIOUS
<1>1. Ranges /\ AccountsInv
  BY DEF IInv, BookInv
<1>2. CASE Answer
  <2>1. Route(block, "explicit") /\ UNCHANGED <<accounted, avoided, unasked>>
    BY <1>2 DEF Answer, client
  <2> QED BY <1>1, <2>1, RouteAccounts DEF AccountsInv
<1>3. CASE Other
  <2>1. UNCHANGED <<accounted, avoided>>
    BY <1>3 DEF Other, client
  <2>2. CASE \E b \in Blocks : Route(b, "explicit") /\ UNCHANGED unasked
    BY <1>1, <2>1, <2>2, RouteAccounts DEF AccountsInv
  <2>3. ASSUME NEW frame \in Pushed, Route(frame, "unsolicited"),
               unasked' = [b \in Blocks |-> unasked[b] +
                             IF Addresses(frame) \cap Needs(b) # {} THEN 1 ELSE 0]
        PROVE  AccountsInv'
    <3>1. \A b \in Blocks : unasked[b] \in Nat
      BY <1>1 DEF AccountsInv, AccountType
    <3>2. DOMAIN unasked' = Blocks
      BY <2>3
    <3>3. ASSUME NEW b \in Blocks
          PROVE  \/ unasked'[b] = unasked[b] /\ Addresses(frame) \cap Needs(b) = {}
                 \/ unasked'[b] = unasked[b] + 1
      BY <2>3, <3>1
    <3> QED BY <1>1, <2>1, <2>3, <3>2, <3>3, RouteAccounts
  <2> QED BY <1>3, <2>2, <2>3 DEF Other
<1>4. CASE Account
  BY <1>4, AccountAccounts
<1>5. CASE UNCHANGED <<seen, accounted, avoided, unasked>>
  BY <1>1, <1>5 DEF AccountsInv, AccountType, Spent
<1>6. \/ Answer \/ Other \/ Account \/ UNCHANGED <<seen, accounted, avoided, unasked>>
  BY DEF Next, Begin, Choose, Resume, GiveUp, Recover, Reconnected, Finish, Tick, session,
         client
<1> QED BY <1>2, <1>3, <1>4, <1>5, <1>6

-----------------------------------------------------------------------------
LEMMA CountersStep == IInv /\ BookInv /\ Next => Counters' /\ AtHand'
<1> SUFFICES ASSUME IInv, BookInv, Next PROVE Counters' /\ AtHand'
  OBVIOUS
<1>1. Counters /\ AtHand /\ todo \subseteq Blocks
  BY DEF IInv, BookInv, Ranges
<1>2. ASSUME NEW how \in {"ok", "failed"}, Leave(how)
      PROVE  /\ skip' \in BOOLEAN /\ restarts' \in 0..MaxReconnects
             /\ block' \in Blocks \cup {None} /\ ended' \in {"none", "ok", "failed"} /\ AtHand'
  <2>1. 0 \in 0..MaxReconnects
    BY BoundAssumption
  <2> QED BY <1>2, <2>1 DEF Leave, AtHand
<1>3. CASE Begin
  <2>1. restarts' \in 0..MaxReconnects /\ acquisitions' \in 0..MaxAcquisitions
    BY <1>1, <1>3, BoundAssumption DEF Begin, Counters
  <2> QED BY <1>1, <1>3, <2>1 DEF Begin, Counters, AtHand, session, client
<1>4. CASE Choose
  <2>1. /\ block' \in Blocks \ todo' /\ skip' \in BOOLEAN
    BY <1>1, <1>4 DEF Choose, SkipsBlock, Fresh, Known, Since
  <2> QED BY <1>1, <1>4, <2>1 DEF Choose, Counters, AtHand, session, client
<1>5. CASE Answer
  BY <1>1, <1>5 DEF Answer, Counters, AtHand, client
<1>6. CASE Resume
  BY <1>1, <1>6 DEF Resume, Counters, AtHand, session, client
<1>7. CASE GiveUp
  BY <1>1, <1>2, <1>7 DEF GiveUp, Counters, session
<1>8. CASE Recover
  <2>1. restarts' \in 0..MaxReconnects
    BY <1>1, <1>8, BoundAssumption DEF Recover, MayRecover, Counters
  <2> QED BY <1>1, <1>8, <2>1 DEF Recover, Counters, AtHand, session
<1>9. CASE Reconnected
  BY <1>1, <1>9 DEF Reconnected, Counters, AtHand, session, client
<1>10. CASE Account
  BY <1>1, <1>10 DEF Account, Counters, AtHand, session
<1>11. CASE Finish
  <2>1. health' \in {"healthy", "degraded", "recovering"}
    BY <1>11 DEF Finish
  <2> QED BY <1>1, <1>2, <1>11, <2>1 DEF Finish, Counters, session
<1>12. CASE Other
  <2>1. others' \in 0..MaxOthers
    BY <1>1, <1>12, BoundAssumption DEF Other, Counters
  <2> QED BY <1>1, <1>12, <2>1 DEF Other, Counters, AtHand, local, client
<1>13. CASE Tick
  <2>1. now' \in 0..MaxTime
    BY <1>1, <1>13, BoundAssumption DEF Tick, Counters
  <2> QED BY <1>1, <1>13, <2>1 DEF Tick, Counters, AtHand, session, local, client
<1> QED BY <1>3, <1>4, <1>5, <1>6, <1>7, <1>8, <1>9, <1>10, <1>11, <1>12, <1>13 DEF Next

(* The cell of a later time is no earlier.                                 *)
LEMMA CellsOrdered ==
    ASSUME NEW t \in Nat, NEW u \in Nat, t <= u
    PROVE  CellOf(t) \in Nat /\ CellOf(u) \in Nat /\ CellOf(t) <= CellOf(u)
<1>1. PICK q \in Nat : q = t \div Cell
  BY TimeAssumption
<1>2. PICK p \in Nat : p = u \div Cell
  BY TimeAssumption
<1>3. PICK a \in Nat : a = q * Cell
  BY TimeAssumption
<1>4. PICK b \in Nat : b = p * Cell
  BY TimeAssumption
<1>5. a <= t /\ t < a + Cell
  BY <1>1, <1>3, TimeAssumption
<1>6. b <= u /\ u < b + Cell
  BY <1>2, <1>4, TimeAssumption
<1>7. CASE q <= p
  <2>1. PICK d \in Nat : p = q + d
    BY <1>7
  <2>2. d * Cell \in Nat
    BY TimeAssumption
  <2>3. p * Cell = q * Cell + d * Cell
    BY <2>1, TimeAssumption
  <2> QED BY <1>1, <1>2, <1>3, <1>4, <2>2, <2>3 DEF CellOf
<1>8. CASE q > p
  <2>1. PICK d \in Nat : q = p + 1 + d
    <3>1. q - p - 1 \in Nat /\ q = p + 1 + (q - p - 1)
      BY <1>8
    <3> QED BY <3>1
  <2>2. d * Cell \in Nat
    BY TimeAssumption
  <2>3. q * Cell = p * Cell + Cell + d * Cell
    BY <2>1, TimeAssumption
  <2>4. a >= b + Cell
    BY <1>3, <1>4, <2>2, <2>3, TimeAssumption
  <2> QED BY <1>5, <1>6, <2>4, TimeAssumption
<1> QED BY <1>7, <1>8

-----------------------------------------------------------------------------
LEMMA OneZero == \A b \in Zeros : b = Block(0)
BY DEF Zeros, Blocks, ReadBlocks, PlanAlignedInputBlocks, Block

(* Time goes on, and so does what has been seen.                           *)
LEMMA Later ==
    ASSUME IInv, Next
    PROVE  /\ now \in Nat /\ now' \in Nat /\ now <= now'
           /\ \A r \in Tracked : /\ seen[r].at \in Int /\ seen'[r].at \in Int
                                 /\ seen'[r].at >= seen[r].at
<1>1. Ranges
  BY DEF IInv
<1>2. CASE Answer
  <2>1. Route(block, "explicit") /\ now' = now
    BY <1>2 DEF Answer
  <2> QED BY <1>1, <2>1, RouteSeen DEF Ranges
<1>3. CASE Other
  <2>1. now' = now /\ \E frame, source : Route(frame, source)
    BY <1>3 DEF Other
  <2> QED BY <1>1, <2>1, RouteSeen DEF Ranges
<1>4. CASE Tick
  BY <1>1, <1>4 DEF Tick, session, Ranges
<1>5. CASE UNCHANGED <<now, session>>
  BY <1>1, <1>5 DEF session, Ranges
<1> QED BY <1>2, <1>3, <1>4, <1>5, Quiet

LEMMA CellsStep == IInv /\ BookInv /\ Next => Cells'
<1> SUFFICES ASSUME IInv, BookInv, Next PROVE Cells'
  OBVIOUS
<1>1. Cells /\ Ranges
  BY DEF IInv, BookInv
<1>2. CellOf(now) \in Nat /\ CellOf(now') \in Nat /\ CellOf(now) <= CellOf(now')
  BY Later, CellsOrdered
<1>3. ASSUME NEW b, NEW t \in Int, SeenSince(b, t) PROVE SeenSince(b, t)'
  BY <1>1, <1>3, Later, MonotoneSince DEF SeenSince
<1>4. ASSUME NEW c \in published, c \in published', completed' # None, c <= completed'
      PROVE  c <= CellOf(now)' /\ \A b \in Zeros : SeenSince(b, c)'
  <2>1. c \in Nat /\ c <= CellOf(now) /\ \A b \in Zeros : SeenSince(b, c)
    BY <1>1 DEF Cells
  <2> QED BY <1>2, <1>3, <2>1 DEF CellOf
<1>5. CASE Account /\ CompletesCell(block)
  <2>1. /\ completed' = CellOf(now) /\ published' = published \cup {CellOf(now)}
        /\ now' = now /\ seen' = seen
    BY <1>5 DEF Account, CompletedCell, CellComplete, session
  <2>2. CellOf(now) # None
    BY <1>2, NoneAssumption
  <2>3. ASSUME NEW b \in Zeros PROVE SeenSince(b, CellOf(now))
    <3>1. block \in Blocks /\ block[1] = 0
      BY <1>1, <1>5 DEF Account, CompletesCell, Ranges
    <3>2. b = block
      BY <3>1, OneZero DEF Zeros
    <3>3. SeenSince(b, Newer(CellOf(now), fence))
      BY <1>5, <3>2, SinceTimes DEF CompletesCell
    <3>4. Newer(CellOf(now), fence) >= CellOf(now) /\ Newer(CellOf(now), fence) \in Nat
      BY <1>1, <1>2 DEF Newer, Ranges
    <3> QED BY <1>1, <1>2, <3>3, <3>4, NeedsTracked DEF SeenSince, Ranges
  <2>4. CellOf(now)' = CellOf(now) /\ \A b, t : SeenSince(b, t)' <=> SeenSince(b, t)
    BY <2>1 DEF CellOf, SeenSince
  <2>5. \A c \in published : c \in Nat /\ c <= CellOf(now)
    BY <1>1 DEF Cells
  <2>6. Zeros' = Zeros
    BY DEF Zeros
  <2> QED BY <1>1, <1>2, <1>4, <2>1, <2>2, <2>3, <2>4, <2>5, <2>6 DEF Cells
<1>6. CASE UNCHANGED <<completed, published>>
  <2>1. Zeros' = Zeros
    BY DEF Zeros
  <2> QED BY <1>1, <1>4, <1>6, <2>1 DEF Cells
<1>7. \/ Account /\ CompletesCell(block)
      \/ UNCHANGED <<completed, published>>
  BY DEF Next, Begin, Choose, Answer, Resume, GiveUp, Recover, Reconnected, Account, Finish,
         Other, Tick, client
<1> QED BY <1>5, <1>6, <1>7

LEMMA UntouchedBegin ==
    ASSUME IInv, BookInv, Begin
    PROVE  Untouched'
<1>1. Cells /\ Ranges
  BY DEF IInv, BookInv
<1>2. /\ fence' = IF completed = CellOf(now) THEN CellOf(now) ELSE now
      /\ begun' = now /\ published' = published
  BY DEF Begin, InitialFence, FenceOfCell, client
<1>3. CellOf(begun)' = CellOf(now)
  BY <1>2 DEF CellOf
<1>4. CellOf(now) \in published => completed = CellOf(now)
  <2> SUFFICES ASSUME CellOf(now) \in published PROVE completed = CellOf(now)
    OBVIOUS
  <2>1. completed \in published /\ completed >= CellOf(now) /\ completed <= CellOf(now)
    BY <1>1 DEF Cells
  <2>2. completed \in Nat /\ CellOf(now) \in Nat
    BY <2>1, <1>1 DEF Cells
  <2> QED BY <2>1, <2>2
<1> QED BY <1>1, <1>2, <1>3, <1>4 DEF Cells, Untouched

LEMMA UntouchedStep == IInv /\ BookInv /\ Next => Untouched' /\ AskedKnown'
<1> SUFFICES ASSUME IInv, BookInv, Next PROVE Untouched' /\ AskedKnown'
  OBVIOUS
<1>1. Cells /\ Ranges /\ PvLast /\ AtHand /\ Untouched /\ AskedKnown /\ Zeros' = Zeros
  BY DEF IInv, BookInv, Zeros
<1>2. begun' = begun => CellOf(begun)' = CellOf(begun)
  BY DEF CellOf
<1>3. CASE Begin
  BY <1>3, UntouchedBegin DEF Begin, AskedKnown
<1>4. CASE Choose
  <2>1. /\ stage = "choose" /\ stage' \in {"account", "waiting"} /\ todo # {}
        /\ UNCHANGED <<density, fence, begun, asked, published>>
    BY <1>4 DEF Choose, client
  <2>2. density => Zeros \subseteq todo
    BY <1>1, <2>1 DEF PvLast
  <2> QED BY <1>1, <1>2, <2>1, <2>2 DEF Untouched, ZeroAhead, AskedKnown
<1>5. CASE Answer
  <2>1. /\ stage = "waiting" /\ stage' = "answered"
        /\ asked' = IF block[1] # 0 THEN now ELSE asked
        /\ UNCHANGED <<density, block, fence, begun, published>>
    BY <1>5 DEF Answer, client
  <2>2. now # Never
    BY <1>1 DEF Ranges
  <2> QED BY <1>1, <1>2, <2>1, <2>2 DEF Untouched, ZeroAhead, AskedKnown
<1>6. CASE Resume
  <2>1. /\ stage = "answered" /\ stage' = "account"
        /\ fence' = IF density /\ block[1] # 0 THEN now ELSE fence
        /\ UNCHANGED <<density, begun, asked, published>>
    BY <1>6 DEF Resume, FenceMoved, FenceAfter, client
  <2> QED BY <1>1, <1>2, <2>1 DEF Untouched, ZeroAhead, AskedKnown
<1>7. CASE Recover \/ Reconnected
  <2>1. /\ stage # "idle" /\ stage # "choose" /\ stage' # "answered"
        /\ UNCHANGED <<density, fence, begun, asked, published>>
    BY <1>7 DEF Recover, Reconnected, client
  <2> QED BY <1>1, <1>2, <2>1 DEF Untouched, ZeroAhead, AskedKnown
<1>8. CASE Account
  <2>1. /\ stage = "account" /\ stage' = "choose"
        /\ published' = IF CompletesCell(block) THEN published \cup {CellOf(now)} ELSE published
        /\ UNCHANGED <<density, todo, fence, begun, asked>>
    BY <1>8 DEF Account
  <2>2. ASSUME Zeros \cap todo # {} PROVE ~CompletesCell(block)
    <3>1. Block(0) \in todo
      BY <2>2, OneZero
    <3>2. block \in Blocks /\ block # Block(0)
      BY <1>1, <2>1, <3>1 DEF AtHand
    <3> QED BY <3>2, OneZero DEF Zeros, CompletesCell
  <2> QED BY <1>1, <1>2, <2>1, <2>2 DEF Untouched, ZeroAhead, AskedKnown
<1>9. CASE GiveUp \/ Finish
  BY <1>9 DEF GiveUp, Finish, Leave, Untouched, AskedKnown
<1>10. CASE Other \/ Tick
  <2>1. UNCHANGED <<density, stage, todo, block, fence, begun, asked, published>>
    BY <1>10 DEF Other, Tick, local, client
  <2> QED BY <1>1, <1>2, <2>1 DEF Untouched, ZeroAhead, AskedKnown
<1> QED BY <1>3, <1>4, <1>5, <1>6, <1>7, <1>8, <1>9, <1>10 DEF Next

LEMMA BookInvariant == Spec => [](IInv /\ BookInv)
<1>1. IInv /\ BookInv /\ Next => BookInv'
  BY ObservationsStep, AccountsStep, CountersStep, CellsStep, UntouchedStep DEF BookInv
<1>2. IInv /\ BookInv /\ UNCHANGED vars => BookInv'
  <2> SUFFICES ASSUME IInv, BookInv, UNCHANGED vars PROVE BookInv'
    OBVIOUS
  <2> USE DEF vars, session, local, client
  <2>1. Observations' /\ AccountsInv' /\ Counters'
    BY DEF BookInv, Observations, FrameSeen, NotSeen, AccountsInv, AccountType, Spent, Counters
  <2>2. AtHand' /\ Cells' /\ Untouched' /\ AskedKnown'
    BY DEF BookInv, AtHand, Cells, Zeros, SeenSince, CellOf, Untouched, ZeroAhead, AskedKnown
  <2> QED BY <2>1, <2>2 DEF BookInv
<1> QED BY <1>1, <1>2, BookInit, AcquisitionInvariant, PTL DEF Spec

(* Requests are counted as avoided only on account of pushed frames, each  *)
(* of one (AvoidedByPushes): _account_profile_block, whatever comes in     *)
(* between; and the variables have their types.                            *)
THEOREM AvoidedRequestsPushed == Spec => []AvoidedByPushes
<1>1. IInv /\ BookInv => AvoidedByPushes
  <2> SUFFICES ASSUME IInv, BookInv PROVE AvoidedByPushes
    OBVIOUS
  <2>1. Ranges /\ Observations /\ AccountsInv /\ Counters /\ Cells
    BY DEF IInv, BookInv
  <2>2. ASSUME NEW b \in Blocks, accounted[b] # None, NEW r \in Needs(b)
        PROVE  accounted[b][r] \in 0..Times(b)[r]
    BY <2>1, <2>2, TimesOf DEF AccountsInv, AccountType
  <2>3. published \subseteq 0..now
    BY <2>1, CellBefore DEF Cells, Ranges
  <2>4. TypeOK
    BY <2>1, <2>2, <2>3 DEF TypeOK, Ranges, Observations, FrameSeen, AccountsInv, AccountType,
       Counters, Cells
  <2> QED BY <2>1, <2>4 DEF AvoidedByPushes, AccountsInv, Spent
<1> QED BY <1>1, BookInvariant, PTL

(* No cell costs a second read of block 0 (NoNeedlessRead): the initial    *)
(* fence of an acquisition lets it stand on what another one had.          *)
THEOREM ReadsNeeded == Spec => NoNeedlessRead
<1>1. IInv /\ BookInv /\ [Next]_vars
      => [stage = "choose" /\ stage' = "waiting" =>
            ~(/\ density /\ block'[1] = 0 /\ Fresh(block')
              /\ CellOf(now) \in published /\ asked = Never)]_vars
  <2> SUFFICES ASSUME IInv, BookInv, Next, stage = "choose", stage' = "waiting",
                      density, block'[1] = 0, Fresh(block'),
                      CellOf(now) \in published, asked = Never
               PROVE  FALSE
    BY DEF vars
  <2>1. Choose
    BY DEF Next, Begin, Answer, Resume, GiveUp, Recover, Reconnected, Account, Finish, Leave,
           Other, Tick, local
  <2>2. PICK b \in todo : b = block' /\ ~SkipsBlock(b)
    BY <2>1 DEF Choose
  <2>3. b \in Zeros /\ Cells /\ Untouched /\ Ranges
    BY <2>2 DEF IInv, BookInv, Ranges, Zeros
  <2>4. CellOf(now) <= CellOf(begun) /\ (CellOf(begun) \in published => fence = CellOf(begun))
    BY <2>2, <2>3 DEF Untouched, ZeroAhead
  <2>5. /\ CellOf(begun) \in Nat /\ CellOf(now) \in Nat /\ CellOf(begun) <= CellOf(now)
    BY <2>3, CellsOrdered DEF Ranges
  <2>6. fence = CellOf(now)
    BY <2>4, <2>5
  <2>7. Since(Times(b), CellOf(now))
    BY <2>3, SinceTimes DEF Cells
  <2> QED BY <2>2, <2>6, <2>7 DEF SkipsBlock, Newer
<1> QED BY <1>1, BookInvariant, PTL DEF Spec, NoNeedlessRead

-----------------------------------------------------------------------------
LEMMA LeastTime ==
    ASSUME NEW S \in SUBSET Nat, NEW t \in S
    PROVE  Min(S) \in S /\ Min(S) <= t
<1>1. \E x \in S : \A y \in S : ~(<<y, x>> \in OpToRel(<, Nat))
  BY NatLessThanWellFounded, WFMin
<1>2. \A x, y \in Nat : y < x => <<y, x>> \in OpToRel(<, Nat)
  BY DEF OpToRel
<1>3. \E x \in S : \A y \in S : x <= y
  <2>1. PICK x \in S : \A y \in S : ~(<<y, x>> \in OpToRel(<, Nat))
    BY <1>1
  <2>2. \A y \in S : ~(y < x)
    BY <1>2, <2>1
  <2> QED BY <2>2
<1> QED BY <1>3 DEF Min

(* A value that is available is made of words that came, the oldest of     *)
(* which it is as old as.                                                  *)
Aged(v, s) ==
    /\ "quality" \in DOMAIN v
    /\ v.quality = "available" =>
          v.registers \subseteq DOMAIN s /\ v.observed = Min({s[r].at : r \in v.registers})

LEMMA AnyAged ==
    ASSUME NEW s, NEW registers
    PROVE  Aged(Observed(s, registers, AnyWord, FALSE, Block(0)), s)
BY DEF Aged, Observed, Quality

LEMMA FlowAged ==
    ASSUME NEW s, NEW p
    PROVE  LET flow == EnergyFlowSnapshot(p, s) IN \A f \in DOMAIN flow : Aged(flow[f], s)
BY AnyAged DEF EnergyFlowSnapshot

LEMMA DirectAged ==
    ASSUME NEW s
    PROVE  LET direct == DirectEnergy(s) IN \A f \in DOMAIN direct : Aged(direct[f], s)
<1>1. \A registers :
        /\ Aged(Observed(s, registers, PowerWord, TRUE, Block(0)), s)
        /\ Aged(Observed(s, registers, SocWord, TRUE, Block(0)), s)
  BY DEF Aged, Observed, Quality
<1>2. PICK pinv : pinv = Observed(s, {I_PINV}, PowerWord, TRUE, Block(0)) /\ Aged(pinv, s)
  BY <1>1
<1>3. PICK prec : prec = Observed(s, {I_PREC}, PowerWord, TRUE, Block(0)) /\ Aged(prec, s)
  BY <1>1
<1>4. PICK grid : /\ grid = Observed(s, {I_PTOGRID, I_PTOUSER}, PowerWord, TRUE, Block(0))
                  /\ Aged(grid, s)
  BY <1>1
<1>5. PICK soc : soc = Observed(s, {I_SOC_SOH}, SocWord, TRUE, Block(0)) /\ Aged(soc, s)
  BY <1>1
<1>6. DirectEnergy(s) = [pinv_w |-> pinv, prec_w |-> prec, grid_signed_power_w |-> grid,
                         soc_percent |-> soc]
  BY <1>2, <1>3, <1>4, <1>5, Zenon DEF DirectEnergy
<1>7. Aged(pinv, s) /\ Aged(prec, s) /\ Aged(grid, s) /\ Aged(soc, s)
  BY <1>2, <1>3, <1>4, <1>5
<1> QED BY <1>6, <1>7

LEMMA StaleTaken ==
    ASSUME Ranges, NEW s, \A r \in DOMAIN s : s[r].at \in Nat, NEW v, Aged(v, s),
           UnavailableIfStale(v, now, Target).quality = "available", NEW r \in v.registers
    PROVE  s[r].at >= now - Target
<1>1. v.quality = "available" /\ ~(now - v.observed > Target)
  <2> DEFINE old == v.quality = "available" /\ now - v.observed > Target
  <2>1. CASE old
    <3>1. UnavailableIfStale(v, now, Target) = [v EXCEPT !.quality = "stale"]
      BY <2>1 DEF UnavailableIfStale
    <3>2. "quality" \in DOMAIN v
      BY DEF Aged
    <3> QED BY <3>1, <3>2
  <2>2. CASE ~old
    BY <2>2 DEF UnavailableIfStale
  <2> QED BY <2>1, <2>2
<1>2. v.registers \subseteq DOMAIN s /\ v.observed = Min({s[q].at : q \in v.registers})
  BY <1>1 DEF Aged
<1>3. {s[q].at : q \in v.registers} \in SUBSET Nat
  BY <1>2
<1>4. v.observed \in Nat /\ v.observed <= s[r].at /\ s[r].at \in Nat
  BY <1>2, <1>3, LeastTime
<1> QED BY <1>1, <1>4, TimeAssumption DEF Ranges

(* Words of one response: one frame, hence one word in the model.          *)
LEMMA TogetherSame ==
    ASSUME NEW s, NEW registers \in SUBSET (0..TotalRegisters), Together(s, registers),
           NEW r \in registers, NEW q \in registers
    PROVE  s[r].sequence = s[q].sequence
<1>1. IsFiniteSet(registers)
  <2>1. TotalRegisters \in Int
    BY DEF TotalRegisters
  <2>2. IsFiniteSet(0..TotalRegisters)
    BY <2>1, FS_Interval
  <2> QED BY <2>2, FS_Subset
<1>2. IsFiniteSet(Frames(s, registers))
  <2> DEFINE frame == [p \in registers |-> <<s[p].sequence, s[p].at, s[p].source>>]
  <2>1. frame \in Surjection(registers, Frames(s, registers))
    BY DEF Surjection, Frames
  <2> QED BY <1>1, <2>1, FS_Surjection
<1>3. PICK x : Frames(s, registers) = {x}
  <2>1. Cardinality(Frames(s, registers)) = 1
    BY DEF Together
  <2> QED BY <1>2, <2>1, FS_Singleton
<1>4. <<s[r].sequence, s[r].at, s[r].source>> = <<s[q].sequence, s[q].at, s[q].source>>
  BY <1>3 DEF Frames
<1> QED BY <1>4

LEMMA SnapshotFrames ==
    ASSUME Observations
    PROVE  \A r \in DOMAIN Snapshot :
              Snapshot[r].word = Snapshot[r].sequence /\ Snapshot[r].at \in Nat
<1> SUFFICES ASSUME NEW r \in DOMAIN Snapshot
             PROVE  Snapshot[r].word = Snapshot[r].sequence /\ Snapshot[r].at \in Nat
  OBVIOUS
<1>1. r \in Tracked /\ seen[r].at # Never /\ Snapshot[r] = seen[r]
  BY DEF Snapshot
<1>2. FrameSeen(seen[r])
  BY <1>1 DEF Observations, NotSeen
<1> QED BY <1>1, <1>2 DEF FrameSeen

LEMMA StrictAvailable ==
    ASSUME NEW s, NEW registers,
           \/ Observed(s, registers, PowerWord, TRUE, Block(0)).quality = "available"
           \/ Observed(s, registers, SocWord, TRUE, Block(0)).quality = "available"
    PROVE  /\ registers \subseteq DOMAIN s /\ Together(s, registers)
           /\ \A r \in registers : s[r].range = Block(0)
BY DEF Observed, Quality, OneResponse, WholeBlock

LEMMA NotTorn ==
    ASSUME Observations
    PROVE  NeverTorn
<1> DEFINE s == Snapshot
           direct == DirectEnergy(s)
<1>1. \A r \in DOMAIN s : s[r].word = s[r].sequence
  BY SnapshotFrames
<1>2. ASSUME direct.grid_signed_power_w.quality = "available"
      PROVE  s[I_PTOGRID].word = s[I_PTOUSER].word /\ s[I_PTOGRID].range = Block(0)
  <2>1. Observed(s, {I_PTOGRID, I_PTOUSER}, PowerWord, TRUE, Block(0)).quality = "available"
    BY <1>2, Zenon DEF DirectEnergy
  <2>2. /\ {I_PTOGRID, I_PTOUSER} \subseteq DOMAIN s /\ Together(s, {I_PTOGRID, I_PTOUSER})
        /\ s[I_PTOGRID].range = Block(0)
    BY <2>1, StrictAvailable
  <2>3. {I_PTOGRID, I_PTOUSER} \in SUBSET (0..TotalRegisters)
    BY DEF I_PTOGRID, I_PTOUSER, TotalRegisters
  <2>4. s[I_PTOGRID].sequence = s[I_PTOUSER].sequence
    BY <2>2, <2>3, TogetherSame
  <2> QED BY <1>1, <2>2, <2>4
<1>3. ASSUME CoherentResponse(s) # None, NEW r \in DirectRegisters
      PROVE  s[r].word = CoherentResponse(s)
  <2>1. /\ \A f \in DOMAIN direct : direct[f].quality = "available"
        /\ Together(s, DirectRegisters)
        /\ CoherentResponse(s) = s[I_PINV].sequence
    BY <1>3 DEF CoherentResponse
  <2>2. /\ direct.pinv_w.quality = "available" /\ direct.prec_w.quality = "available"
        /\ direct.grid_signed_power_w.quality = "available"
        /\ direct.soc_percent.quality = "available"
    BY <2>1 DEF DirectEnergy
  <2>3. /\ Observed(s, {I_PINV}, PowerWord, TRUE, Block(0)).quality = "available"
        /\ Observed(s, {I_PREC}, PowerWord, TRUE, Block(0)).quality = "available"
        /\ Observed(s, {I_PTOGRID, I_PTOUSER}, PowerWord, TRUE, Block(0)).quality = "available"
        /\ Observed(s, {I_SOC_SOH}, SocWord, TRUE, Block(0)).quality = "available"
    BY <2>2, Zenon DEF DirectEnergy
  <2>4. /\ {I_PINV} \subseteq DOMAIN s /\ {I_PREC} \subseteq DOMAIN s
        /\ {I_PTOGRID, I_PTOUSER} \subseteq DOMAIN s /\ {I_SOC_SOH} \subseteq DOMAIN s
    BY <2>3, StrictAvailable
  <2>5. DirectRegisters \subseteq DOMAIN s
    BY <2>4 DEF DirectRegisters
  <2>6. DirectRegisters \in SUBSET (0..TotalRegisters) /\ I_PINV \in DirectRegisters
    BY DEF DirectRegisters, I_PINV, I_PREC, I_PTOGRID, I_PTOUSER, I_SOC_SOH, TotalRegisters
  <2>7. s[r].sequence = s[I_PINV].sequence
    BY <2>1, <2>6, TogetherSame
  <2> QED BY <1>1, <2>1, <2>5, <2>7
<1> QED BY <1>2, <1>3 DEF NeverTorn

(* What a profile makes of the frames (ValuesTruthful): a strict value is  *)
(* of one frame of the block, and a value that is not taken away as stale  *)
(* has no word older than the target.                                      *)
THEOREM ValuesAreTruthful == Spec => []ValuesTruthful
<1>1. IInv /\ BookInv => ValuesTruthful
  <2> SUFFICES ASSUME IInv, BookInv PROVE ValuesTruthful
    OBVIOUS
  <2> DEFINE s == Snapshot
             direct == DirectEnergy(s)
             flow == EnergyFlowSnapshot(EnergyFlow({1, 2, 3}, "twelve_k_single_phase"), s)
  <2>1. Ranges /\ Observations
    BY DEF IInv, BookInv
  <2>2. \A r \in DOMAIN s : s[r].at \in Nat
    BY <2>1, SnapshotFrames
  <2>3. \A v \in {direct[f] : f \in DOMAIN direct} \cup {flow[f] : f \in DOMAIN flow} : Aged(v, s)
    BY DirectAged, FlowAged
  <2>4. AgesAreTruthful
    <3> SUFFICES ASSUME NEW v \in {direct[f] : f \in DOMAIN direct} \cup
                                  {flow[f] : f \in DOMAIN flow},
                        UnavailableIfStale(v, now, Target).quality = "available",
                        NEW r \in v.registers
                 PROVE  s[r].at >= now - Target
      BY DEF AgesAreTruthful
    <3>1. Aged(v, s)
      BY <2>3
    <3> QED BY <2>1, <2>2, <3>1, StaleTaken
  <2> QED BY <2>1, <2>4, NotTorn DEF ValuesTruthful
<1> QED BY <1>1, BookInvariant, PTL

=============================================================================
