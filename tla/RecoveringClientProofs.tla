------------------------- MODULE RecoveringClientProofs -------------------------
(***************************************************************************)
(* Proofs about RecoveringClient for any owners, acquirers, profile and    *)
(* recovery policy: what a completed close leaves behind, over what a      *)
(* recovery dials, which run of the client an acquisition belongs to, and  *)
(* the budget of reconnects in the rolling window.                         *)
(***************************************************************************)
EXTENDS RecoveringClient, SequenceTheorems, TLAPS

Replies == {"none", "matched", "rejected", "lost", "closed"}
Causes == {"none", "failed", "cancelled", "undo"}
Healths == {"healthy", "recovering", "degraded"}
Ends == {"none", "ok", "closed", "exhausted", "failed", "rejected", "cancelled"}

-----------------------------------------------------------------------------
(* The types, by the groups of variables that steps leave alone.           *)
WorldType == now \in 0..MaxTime /\ fresh \subseteq 1..Blocks
SessionType ==
    /\ live \in BOOLEAN /\ refusal \in {"lost", "closed"}
    /\ sessionLock \in Acquirers \cup Owners \cup {None}
FacadeType ==
    /\ started \in BOOLEAN /\ closed \in BOOLEAN /\ shutdown \in BOOLEAN
    /\ lifecycle \in Owners \cup {None} /\ owner \in [Owners -> OwnerStages]
    /\ epoch \in Nat
PlaceType ==
    /\ stage \in Stages /\ block \in 1..Blocks /\ reply \in Replies /\ cause \in Causes
SpentType == reconnects \in 0..MaxReconnects /\ dials \in 0..MaxDials
HoldingType == acqLock \in Acquirers \cup Owners \cup {None} /\ ended \in Ends
RecoveryType == active \in BOOLEAN /\ health \in Healths /\ unrecorded \in Nat
RestType ==
    /\ waiting \subseteq Acquirers /\ entered \in Nat
    /\ acquisitions \in 0..MaxAcquisitions /\ calls \in 0..MaxCalls
BookType ==
    /\ window \in Seq(0..MaxTime) /\ Len(window) <= MaxPerWindow
    /\ episodes \in Seq(0..MaxTime)

TypeInv ==
    /\ WorldType /\ SessionType /\ FacadeType /\ PlaceType /\ SpentType
    /\ HoldingType /\ RecoveryType /\ RestType /\ BookType

(* The three locks, and where their holders are.                           *)
Locks ==
    /\ stage # "out" <=> acqLock \in Acquirers
    /\ sessionLock \in Acquirers <=> stage \in {"dialing", "closing"}
    /\ \A o \in Owners :
        /\ owner[o] \in {"startDial", "starting"} <=> acqLock = o
        /\ owner[o] \in {"starting", "closing"} <=> sessionLock = o
        /\ owner[o] \in {"startDrained", "startDial", "starting", "closeTurn",
                         "closing", "closeDrained"} <=> lifecycle = o

(* No connection is left where a recovery waits, dials or has closed, nor  *)
(* when a read was lost with it.                                           *)
Fenced ==
    /\ stage \in {"cooldown", "dialing", "closing"} => ~live
    /\ stage = "read" /\ reply \in {"lost", "closed"} => ~live

(* What a close has done by its steps.                                     *)
Closing ==
    /\ closed => /\ lifecycle = None /\ shutdown /\ ~started /\ ~live
                 /\ stage \in {"out", "begin"}
    /\ \A o \in Owners :
        /\ owner[o] \in {"closeTurn", "closing", "closeDrained"} => shutdown /\ ~started
        /\ owner[o] \in {"closing", "closeDrained"} => ~live /\ stage # "dialing"

SameRun == stage \notin {"out", "begin"} => entered = epoch

(* A recovery that is being worked on is spent, and has no event yet.      *)
Working ==
    /\ active => unrecorded >= 1 /\ reconnects >= 1 /\ stage \notin {"out", "begin"}
    /\ stage = "cooldown" => dials < MaxDials

(* w holds the latest of the reconnects e; all others are further back     *)
(* than the window.                                                        *)
Latest(w, e) ==
    /\ Len(w) <= Len(e)
    /\ \A i \in 1..Len(w) : w[i] = e[Len(e) - Len(w) + i]
    /\ \A i \in 1..(Len(e) - Len(w)) : now - e[i] > Window
Spaced(e) ==
    \A i \in 1..(Len(e) - MaxPerWindow) : e[i + MaxPerWindow] - e[i] > Window
Book == BookType /\ Latest(window, episodes) /\ Spaced(episodes)

ClientInv ==
    TypeInv /\ Locks /\ Fenced /\ Closing /\ SameRun /\ Working /\ Book

LEMMA TypeInvImplies == TypeInv => TypeOK
BY DEF TypeInv, WorldType, SessionType, FacadeType, PlaceType, SpentType, HoldingType,
       RecoveryType, RestType, BookType, TypeOK, Replies, Causes, Healths, Ends

-----------------------------------------------------------------------------
(* The book of reconnects                                                  *)

LEMMA Appended ==
    ASSUME NEW S, NEW s \in Seq(S), NEW x \in S, NEW r, r = Append(s, x)
    PROVE  /\ r \in Seq(S) /\ Len(r) = Len(s) + 1 /\ r[Len(s) + 1] = x
           /\ \A i \in 1..Len(s) : r[i] = s[i]
BY AppendProperties

LEMMA AppendedLatest ==
    ASSUME NEW kept, NEW old, NEW x, NEW y, Len(kept) \in Nat, Len(old) \in Nat,
           Latest(kept, old), Spaced(old), Len(kept) < MaxPerWindow,
           Len(x) = Len(kept) + 1, x[Len(kept) + 1] = now,
           \A i \in 1..Len(kept) : x[i] = kept[i],
           Len(y) = Len(old) + 1, y[Len(old) + 1] = now,
           \A i \in 1..Len(old) : y[i] = old[i]
    PROVE  Len(x) <= MaxPerWindow /\ Latest(x, y) /\ Spaced(y)
<1>0. /\ MaxPerWindow \in Nat /\ MaxPerWindow >= 1 /\ Len(kept) <= Len(old)
  BY PolicyAssumption DEF Latest
<1>1. \A i \in 1..Len(x) : x[i] = y[Len(y) - Len(x) + i]
  <2> TAKE i \in 1..Len(x)
  <2>0. i \in Int /\ Len(y) - Len(x) + i = Len(old) - Len(kept) + i
    OBVIOUS
  <2>1. CASE i = Len(kept) + 1
    <3>1. Len(old) - Len(kept) + i = Len(old) + 1
      BY <2>1
    <3> QED BY <2>0, <2>1, <3>1
  <2>2. CASE i # Len(kept) + 1
    <3>1. i \in 1..Len(kept) /\ Len(old) - Len(kept) + i \in 1..Len(old)
      BY <1>0, <2>0, <2>2
    <3>2. kept[i] = old[Len(old) - Len(kept) + i]
      BY <3>1 DEF Latest
    <3> QED BY <2>0, <3>1, <3>2
  <2> QED BY <2>1, <2>2
<1>2. \A i \in 1..(Len(y) - Len(x)) : now - y[i] > Window
  <2> TAKE i \in 1..(Len(y) - Len(x))
  <2>1. i \in 1..(Len(old) - Len(kept)) /\ i \in 1..Len(old)
    BY <1>0
  <2> QED BY <2>1 DEF Latest
<1>3. Spaced(y)
  <2> SUFFICES ASSUME NEW i \in 1..(Len(y) - MaxPerWindow)
               PROVE  y[i + MaxPerWindow] - y[i] > Window
    BY DEF Spaced
  <2>1. CASE i + MaxPerWindow = Len(old) + 1
    <3>1. i \in 1..(Len(old) - Len(kept)) /\ i \in 1..Len(old)
      BY <1>0, <2>1
    <3>2. now - old[i] > Window
      BY <3>1 DEF Latest
    <3> QED BY <3>1, <3>2, <2>1
  <2>2. CASE i + MaxPerWindow # Len(old) + 1
    <3>1. /\ i \in 1..(Len(old) - MaxPerWindow) /\ i \in 1..Len(old)
          /\ i + MaxPerWindow \in 1..Len(old)
      BY <1>0, <2>2
    <3>2. old[i + MaxPerWindow] - old[i] > Window
      BY <3>1 DEF Spaced
    <3> QED BY <3>1, <3>2
  <2> QED BY <2>1, <2>2
<1>4. Len(x) <= MaxPerWindow /\ Len(x) <= Len(y)
  BY <1>0
<1> QED BY <1>1, <1>2, <1>3, <1>4 DEF Latest

(* What is kept of the window still is the latest of the reconnects, and   *)
(* what was dropped has left it.                                           *)
LEMMA DropKeeps ==
    ASSUME Book, WorldType, NEW n \in 0..Len(window), Dropped(n),
           NEW kept \in Seq(0..MaxTime), Len(kept) = Len(window) - n,
           \A i \in 1..Len(kept) : kept[i] = window[n + i]
    PROVE  Latest(kept, episodes)
<1>c. Window \in Nat /\ MaxTime \in Nat
  BY PolicyAssumption, BoundAssumption
<1>0. /\ Len(window) \in Nat /\ Len(episodes) \in Nat /\ Len(kept) \in Nat /\ n \in Nat
      /\ n <= Len(window) /\ Len(window) <= Len(episodes) /\ now \in Int
  BY <1>c DEF Book, BookType, Latest, WorldType
<1>e. /\ \A i \in 1..Len(window) : window[i] \in Int
      /\ \A i \in 1..Len(episodes) : episodes[i] \in Int
  <2>1. window \in Seq(0..MaxTime) /\ episodes \in Seq(0..MaxTime)
    BY DEF Book, BookType
  <2>2. \A x \in 0..MaxTime : x \in Int
    BY <1>c
  <2>3. /\ \A i \in 1..Len(window) : window[i] \in 0..MaxTime
        /\ \A i \in 1..Len(episodes) : episodes[i] \in 0..MaxTime
    BY <2>1, ElementOfSeq
  <2> QED BY <2>2, <2>3
<1>1. \A i \in 1..Len(kept) : kept[i] = episodes[Len(episodes) - Len(kept) + i]
  <2> TAKE i \in 1..Len(kept)
  <2>1. /\ n + i \in 1..Len(window)
        /\ Len(episodes) - Len(kept) + i = Len(episodes) - Len(window) + (n + i)
    BY <1>0
  <2>2. window[n + i] = episodes[Len(episodes) - Len(window) + (n + i)]
    BY <2>1 DEF Book, Latest
  <2> QED BY <2>1, <2>2
<1>2. \A i \in 1..(Len(episodes) - Len(kept)) : now - episodes[i] > Window
  <2> TAKE i \in 1..(Len(episodes) - Len(kept))
  <2>1. CASE i <= Len(episodes) - Len(window)
    <3>1. i \in 1..(Len(episodes) - Len(window))
      BY <1>0, <2>1
    <3> QED BY <3>1 DEF Book, Latest
  <2>2. CASE i > Len(episodes) - Len(window)
    <3> DEFINE j == i - (Len(episodes) - Len(window))
    <3>1. /\ j \in 1..n /\ j \in 1..Len(window) /\ i \in 1..Len(episodes)
          /\ Len(episodes) - Len(window) + j = i
      BY <1>0, <2>2
    <3> HIDE DEF j
    <3>2. window[j] = episodes[i]
      BY <3>1 DEF Book, Latest
    <3>3. window[j] < now - Window
      BY <3>1 DEF Dropped, Expired, Older
    <3>4. episodes[i] \in Int /\ now \in Int /\ Window \in Int
      BY <3>1, <1>c, <1>0, <1>e
    <3>5. episodes[i] < now - Window
      BY <3>2, <3>3
    <3> QED BY <3>4, <3>5
  <2> QED BY <1>0, <2>1, <2>2
<1> QED BY <1>0, <1>1, <1>2 DEF Latest

(* A reconnect now is the latest of them, and further than the window from *)
(* the one that many places before it.                                     *)
LEMMA AppendKeeps ==
    ASSUME Book, WorldType, NEW kept \in Seq(0..MaxTime), Latest(kept, episodes),
           Len(kept) < MaxPerWindow, NEW w, NEW e,
           w = Append(kept, now), e = Append(episodes, now)
    PROVE  /\ w \in Seq(0..MaxTime) /\ e \in Seq(0..MaxTime)
           /\ Len(w) <= MaxPerWindow /\ Latest(w, e) /\ Spaced(e)
<1>c. /\ Window \in Nat /\ MaxTime \in Nat /\ MaxPerWindow \in Nat /\ MaxPerWindow >= 1
      /\ now \in 0..MaxTime /\ episodes \in Seq(0..MaxTime)
  BY PolicyAssumption, BoundAssumption DEF WorldType, Book, BookType
<1>1. /\ w \in Seq(0..MaxTime) /\ Len(w) = Len(kept) + 1 /\ w[Len(kept) + 1] = now
      /\ \A i \in 1..Len(kept) : w[i] = kept[i]
  BY <1>c, Appended
<1>2. /\ e \in Seq(0..MaxTime) /\ Len(e) = Len(episodes) + 1
      /\ e[Len(episodes) + 1] = now /\ \A i \in 1..Len(episodes) : e[i] = episodes[i]
  BY <1>c, Appended
<1>3. Len(kept) \in Nat /\ Len(episodes) \in Nat
  BY <1>c
<1>s. Spaced(episodes)
  BY DEF Book
<1>4. Len(w) <= MaxPerWindow /\ Latest(w, e) /\ Spaced(e)
  <2> HIDE DEF Book
  <2> QED BY <1>s, <1>1, <1>2, <1>3, AppendedLatest
<1> QED BY <1>1, <1>2, <1>4

LEMMA WindowKept ==
    ASSUME Book, NEW n \in 0..Len(window), NEW kept,
           kept = SubSeq(window, n + 1, Len(window))
    PROVE  /\ kept \in Seq(0..MaxTime) /\ Len(kept) = Len(window) - n
           /\ \A i \in 1..Len(kept) : kept[i] = window[n + i]
<1>0. Len(window) \in Nat /\ n \in Nat /\ n <= Len(window) /\ n + 1 \in Int
  BY DEF Book, BookType
<1>1. \A i \in (n + 1)..Len(window) : window[i] \in 0..MaxTime
  <2> TAKE i \in (n + 1)..Len(window)
  <2>1. i \in 1..Len(window)
    BY <1>0
  <2>2. window \in Seq(0..MaxTime)
    BY DEF Book, BookType
  <2> QED BY <2>1, <2>2, ElementOfSeq
<1>2. /\ kept \in Seq(0..MaxTime)
      /\ Len(kept) = IF n + 1 <= Len(window) THEN Len(window) - (n + 1) + 1 ELSE 0
      /\ \A i \in 1..(Len(window) - (n + 1) + 1) : kept[i] = window[(n + 1) + i - 1]
  BY <1>0, <1>1, SubSeqProperties
<1>3. Len(kept) = Len(window) - n
  BY <1>0, <1>2
<1>4. \A i \in 1..Len(kept) : kept[i] = window[n + i]
  <2> TAKE i \in 1..Len(kept)
  <2>1. i \in 1..(Len(window) - (n + 1) + 1) /\ (n + 1) + i - 1 = n + i
    BY <1>0, <1>3
  <2> QED BY <2>1, <1>2
<1> QED BY <1>2, <1>3, <1>4

-----------------------------------------------------------------------------
(* How a step of the acquirer inside may end: it leaves, it waits to dial, *)
(* or it reads a block.                                                    *)
Out ==
    /\ acqLock' = None /\ stage' = "out" /\ block' = 1 /\ reply' = "none"
    /\ cause' = "none" /\ reconnects' = 0 /\ dials' = 0 /\ active' = FALSE
    /\ ended' \in Ends /\ (ended' = "ok" => started) /\ health' \in Healths
    /\ unrecorded' \in IF active THEN {unrecorded, unrecorded - 1} ELSE {unrecorded}
Told == unrecorded' = unrecorded - (IF active THEN 1 ELSE 0)
Cooling ==
    /\ ~shutdown /\ stage' = "cooldown" /\ active' = TRUE /\ unrecorded' = unrecorded + 1
    /\ reconnects < MaxReconnects /\ reconnects' = reconnects + 1 /\ dials' = 0
    /\ cause' = "none" /\ health' = "recovering"
    /\ UNCHANGED <<block, reply, acqLock, ended>>
Reading ==
    /\ stage' = "read" /\ block' \in 1..Blocks /\ reply' = "none" /\ cause' = "none"
    /\ UNCHANGED <<reconnects, dials, acqLock, ended, active, health, unrecorded>>

LEMMA BookFrame ==
    ASSUME Book, UNCHANGED <<now, window, episodes>> PROVE Book'
BY DEF Book, BookType, Latest, Spaced

(* An end that records its recovery.                                       *)
LEMMA EndTold ==
    ASSUME ClientInv, NEW how \in Ends, how = "ok" => started, Leave(how), Terminate,
           health' \in Healths, UNCHANGED now
    PROVE  Book' /\ Out /\ Told
<1>1. Book'
  BY BookFrame DEF Terminate, ClientInv
<1> QED BY <1>1 DEF Leave, Release, Terminate, Record, Recorded, Out, Told, ClientInv,
                    TypeInv, RecoveryType

LEMMA FinishMoves ==
    ASSUME ClientInv, Finish, UNCHANGED now PROVE Book' /\ Out /\ Told
<1>1. health' \in Healths /\ Terminate
  BY DEF Finish, Healths
<1>2. CASE started
  BY <1>1, <1>2, EndTold DEF Finish, StillRunning, StillStarted, Ends
<1>3. CASE ~started
  BY <1>1, <1>3, EndTold DEF Finish, StillRunning, StillStarted, Ends
<1> QED BY <1>2, <1>3

LEMMA RecoverMoves ==
    ASSUME ClientInv, Recover, reconnects < MaxReconnects, UNCHANGED now
    PROVE  Book' /\ ((Out /\ UNCHANGED unrecorded) \/ Cooling)
<1>1. PICK n \in 0..Len(window) :
        /\ Dropped(n)
        /\ \/ /\ window' = SubSeq(window, n + 1, Len(window)) /\ health' = "degraded"
              /\ Leave("exhausted") /\ UNCHANGED <<episodes, unrecorded>>
           \/ /\ Len(SubSeq(window, n + 1, Len(window))) < MaxPerWindow
              /\ window' = Append(SubSeq(window, n + 1, Len(window)), now) /\ Episode
  BY DEF Recover
<1> DEFINE kept == SubSeq(window, n + 1, Len(window))
<1>k. kept = SubSeq(window, n + 1, Len(window))
  OBVIOUS
<1> HIDE DEF kept
<1>2. /\ kept \in Seq(0..MaxTime) /\ Len(kept) = Len(window) - n
      /\ \A i \in 1..Len(kept) : kept[i] = window[n + i]
  BY <1>k, WindowKept DEF ClientInv
<1>3. Book /\ WorldType
  BY DEF ClientInv, TypeInv
<1>4. Latest(kept, episodes)
  BY <1>1, <1>2, <1>3, DropKeeps
<1>5. CASE /\ window' = kept /\ health' = "degraded"
           /\ Leave("exhausted") /\ UNCHANGED <<episodes, unrecorded>>
  <2>1. Len(kept) <= MaxPerWindow
    BY <1>2, <1>3, PolicyAssumption DEF Book, BookType
  <2>2. Book'
    BY <1>2, <1>3, <1>4, <1>5, <2>1 DEF Book, BookType, Latest, Spaced
  <2>3. Out /\ UNCHANGED unrecorded
    BY <1>5 DEF Leave, Release, Out, Ends, Healths
  <2> QED BY <2>2, <2>3
<1>6. CASE Len(kept) < MaxPerWindow /\ window' = Append(kept, now) /\ Episode
  <2>1. episodes' = Append(episodes, now)
    BY <1>6 DEF Episode
  <2>2. /\ window' \in Seq(0..MaxTime) /\ episodes' \in Seq(0..MaxTime)
        /\ Len(window') <= MaxPerWindow /\ Latest(window', episodes') /\ Spaced(episodes')
    BY <1>2, <1>3, <1>4, <1>6, <2>1, AppendKeeps
  <2>3. Book'
    BY <2>2 DEF Book, BookType, Latest, Spaced
  <2>4. (Out /\ UNCHANGED unrecorded) \/ Cooling
    BY <1>6 DEF Episode, Leave, Release, Out, Cooling, Ends, Healths, holding
  <2> QED BY <2>3, <2>4
<1> QED BY <1>1, <1>k, <1>5, <1>6

LEMMA ReadFailedMoves ==
    ASSUME ClientInv, NEW kind, ReadFailed(kind), UNCHANGED now
    PROVE  /\ Book'
           /\ \/ Out /\ Told
              \/ Out /\ UNCHANGED unrecorded /\ reconnects < MaxReconnects
              \/ Cooling
<1>1. CASE health' = "degraded" /\ Terminate /\ (Leave("closed") \/ Leave("exhausted"))
  BY <1>1, EndTold DEF Ends, Healths
<1>2. CASE reconnects < MaxReconnects /\ Recover
  BY <1>2, RecoverMoves
<1> QED BY <1>1, <1>2 DEF ReadFailed

LEMMA ContinueMoves ==
    ASSUME ClientInv, NEW i \in Nat \ {0}, Continue(i), UNCHANGED now
    PROVE  /\ Book'
           /\ \/ Out /\ (Told \/ (UNCHANGED unrecorded /\ reconnects < MaxReconnects))
              \/ Cooling /\ ~live
              \/ Reading /\ live
<1>1. CASE Finish
  BY <1>1, FinishMoves
<1>2. CASE ~live /\ ReadFailed(refusal)
  BY <1>2, ReadFailedMoves
<1>3. CASE /\ live
           /\ \E b \in Stale(i) : (\A c \in Stale(i) : b <= c) /\ block' = b
           /\ stage' = "read" /\ reply' = "none" /\ cause' = "none"
           /\ UNCHANGED <<spent, holding, recovery>>
  <2>1. Book'
    BY <1>3, BookFrame DEF ClientInv, recovery, ledger
  <2>2. block' \in 1..Blocks
    BY <1>3, PolicyAssumption DEF Stale
  <2> QED BY <1>3, <2>1, <2>2 DEF Reading, spent, holding, recovery, ledger
<1> QED BY <1>1, <1>2, <1>3 DEF Continue

-----------------------------------------------------------------------------
(* The steps of the acquirer inside that end so                            *)
Ending ==
    /\ Out
    /\ \/ Told
       \/ UNCHANGED unrecorded /\ reconnects < MaxReconnects
       \/ ended' = "cancelled" /\ cause = "undo"
Moves ==
    /\ stage # "out" /\ Book' /\ UNCHANGED <<world, facade, bounds, waiting, refusal>>
    /\ \/ Ending
       \/ Cooling /\ ~live'
       \/ Reading
    /\ stage = "begin" => (started \/ Out)
    /\ \/ entered' = epoch
       \/ UNCHANGED entered /\ (stage # "begin" \/ (Out /\ ended' = "cancelled"))
    /\ sessionLock' = IF stage \in {"dialing", "closing"} THEN None ELSE sessionLock
    /\ live' = live \/ (stage = "dialing" /\ live' = TRUE)

LEMMA MovesTypes == ClientInv /\ Moves => TypeInv'
<1> SUFFICES ASSUME ClientInv, Moves PROVE TypeInv'
  OBVIOUS
<1>0. /\ MaxReconnects \in Nat /\ MaxDials \in Nat /\ MaxDials >= 1 /\ MaxReconnects >= 1
      /\ 1 \in 1..Blocks
  BY PolicyAssumption
<1>1. WorldType' /\ FacadeType' /\ SessionType'
  BY DEF Moves, ClientInv, TypeInv, WorldType, FacadeType, SessionType, world, facade
<1>2. RestType'
  BY DEF Moves, ClientInv, TypeInv, RestType, FacadeType, bounds
<1>3. BookType'
  BY DEF Moves, Book
<1>4. CASE Out
  <2>1. PlaceType' /\ SpentType' /\ HoldingType'
    BY <1>0, <1>4 DEF Out, PlaceType, SpentType, HoldingType, Stages, Replies, Causes
  <2>2. unrecorded' \in Nat
    <3>1. unrecorded \in Nat /\ (active => unrecorded >= 1)
      BY DEF ClientInv, TypeInv, RecoveryType, Working
    <3>2. CASE active
      <4>1. unrecorded' = unrecorded \/ unrecorded' = unrecorded - 1
        BY <1>4, <3>2 DEF Out
      <4> QED BY <4>1, <3>1, <3>2
    <3>3. CASE ~active
      BY <1>4, <3>1, <3>3 DEF Out
    <3> QED BY <3>2, <3>3
  <2>3. RecoveryType'
    BY <1>4, <2>2 DEF Out, RecoveryType
  <2> QED BY <1>1, <1>2, <1>3, <2>1, <2>3 DEF TypeInv
<1>5. CASE Cooling
  <2>1. PlaceType' /\ HoldingType' /\ RecoveryType'
    BY <1>5 DEF Cooling, ClientInv, TypeInv, PlaceType, HoldingType, RecoveryType,
                Stages, Causes, Healths
  <2>2. SpentType'
    BY <1>0, <1>5 DEF Cooling, ClientInv, TypeInv, SpentType
  <2> QED BY <1>1, <1>2, <1>3, <2>1, <2>2 DEF TypeInv
<1>6. CASE Reading
  <2>1. PlaceType' /\ HoldingType' /\ RecoveryType' /\ SpentType'
    BY <1>6 DEF Reading, ClientInv, TypeInv, PlaceType, HoldingType, RecoveryType,
                SpentType, Stages, Causes, Replies
  <2> QED BY <1>1, <1>2, <1>3, <2>1 DEF TypeInv
<1> QED BY <1>4, <1>5, <1>6 DEF Moves, Ending

LEMMA MovesKeep == ClientInv /\ Moves => ClientInv'
<1> SUFFICES ASSUME ClientInv, Moves PROVE ClientInv'
  OBVIOUS
<1>t. TypeInv'
  BY MovesTypes
<1>a. acqLock \in Acquirers /\ \A o \in Owners : acqLock # o
  BY TaskAssumption DEF Moves, ClientInv, Locks
<1>0. \/ /\ stage' = "out" /\ acqLock' = None /\ active' = FALSE
      \/ /\ stage' = "cooldown" /\ acqLock' = acqLock /\ dials' = 0 /\ ~shutdown /\ ~live'
         /\ unrecorded' = unrecorded + 1 /\ reconnects' = reconnects + 1
      \/ /\ stage' = "read" /\ acqLock' = acqLock /\ reply' = "none"
         /\ UNCHANGED <<active, unrecorded, reconnects>>
  BY DEF Moves, Ending, Out, Cooling, Reading
<1>f. UNCHANGED <<started, closed, shutdown, lifecycle, owner, epoch>>
  BY DEF Moves, facade
<1>1. Locks'
  <2>1. sessionLock' \notin Acquirers
    BY TaskAssumption DEF Moves, ClientInv, Locks
  <2>2. \A o \in Owners : sessionLock' = o <=> sessionLock = o
    <3>1. CASE stage \in {"dialing", "closing"}
      <4>1. sessionLock \in Acquirers /\ sessionLock' = None
        BY <3>1 DEF Moves, ClientInv, Locks
      <4> QED BY <4>1, TaskAssumption
    <3>2. CASE stage \notin {"dialing", "closing"}
      BY <3>2 DEF Moves
    <3> QED BY <3>1, <3>2
  <2> QED BY <1>0, <1>a, <1>f, <2>1, <2>2, TaskAssumption DEF Moves, ClientInv, Locks
<1>2. Fenced'
  BY <1>0 DEF Moves, ClientInv, Fenced
<1>3. Closing'
  <2>2. closed => stage' = "out" /\ ~live'
    BY <1>0 DEF Moves, ClientInv, Closing, Out
  <2>3. \A o \in Owners : owner[o] \in {"closing", "closeDrained"}
                            => ~live' /\ stage' # "dialing"
    BY <1>0 DEF Moves, ClientInv, Closing
  <2> QED BY <1>f, <2>2, <2>3 DEF ClientInv, Closing
<1>4. SameRun'
  BY <1>0, <1>f DEF Moves, ClientInv, SameRun, Out
<1>5. Working'
  <2>1. unrecorded \in Nat /\ reconnects \in Nat /\ 0 < MaxDials
    BY PolicyAssumption DEF ClientInv, TypeInv, RecoveryType, SpentType
  <2> QED BY <1>0, <2>1 DEF ClientInv, Working
<1> QED BY <1>t, <1>1, <1>2, <1>3, <1>4, <1>5 DEF Moves, ClientInv

(* Steps that end in a close of the session.                               *)
LEMMA CloseKeeps ==
    ASSUME ClientInv, NEW why \in Causes, stage \in {"read", "close"}, Close(why),
           UNCHANGED <<world, facade, block, spent, holding, recovery, waiting,
                       entered, bounds>>
    PROVE  ClientInv'
<1>a. acqLock \in Acquirers /\ \A o \in Owners : acqLock # o
  BY TaskAssumption DEF ClientInv, Locks
<1>f. /\ UNCHANGED <<started, closed, shutdown, lifecycle, owner, epoch, acqLock, entered>>
      /\ UNCHANGED <<active, unrecorded, reconnects>>
      /\ UNCHANGED <<now, window, episodes>>
  BY DEF facade, holding, recovery, ledger, spent, world
<1>0. \/ /\ sessionLock = None /\ stage' = "closing" /\ ~live' /\ sessionLock' = acqLock
      \/ /\ sessionLock # None /\ stage' = "close" /\ UNCHANGED <<live, sessionLock>>
  BY DEF Close, session
<1>t. TypeInv'
  <2>1. SessionType' /\ PlaceType'
    BY <1>a, <1>0 DEF Close, ClientInv, TypeInv, SessionType, PlaceType, Stages, Replies,
                      session
  <2>2. WorldType' /\ FacadeType' /\ SpentType' /\ HoldingType' /\ RecoveryType'
        /\ RestType' /\ BookType'
    BY DEF ClientInv, TypeInv, WorldType, FacadeType, SpentType, HoldingType,
           RecoveryType, RestType, BookType, world, facade, spent, holding, recovery,
           ledger, bounds
  <2> QED BY <2>1, <2>2 DEF TypeInv
<1>1. Locks'
  <2>1. \A o \in Owners : sessionLock' = o <=> sessionLock = o
    BY <1>0, <1>a, TaskAssumption
  <2>2. sessionLock' \in Acquirers <=> stage' \in {"dialing", "closing"}
    BY <1>0, <1>a DEF ClientInv, Locks
  <2> QED BY <1>0, <1>f, <2>1, <2>2 DEF ClientInv, Locks
<1>2. Fenced' /\ SameRun' /\ Working'
  BY <1>0, <1>f DEF ClientInv, Fenced, SameRun, Working
<1>3. Closing'
  BY <1>0, <1>f DEF ClientInv, Closing
<1>4. Book'
  BY <1>f, BookFrame DEF ClientInv
<1> QED BY <1>t, <1>1, <1>2, <1>3, <1>4 DEF ClientInv

LEMMA BeginMoves == ClientInv /\ Begin => Moves
<1> SUFFICES ASSUME ClientInv, Begin PROVE Moves
  OBVIOUS
<1>0. UNCHANGED now /\ stage = "begin" /\ entered' = epoch
  BY DEF Begin, world
<1>1. CASE started
  BY <1>0, <1>1, ContinueMoves DEF Begin, Moves, Ending, session, world
<1>2. CASE ~started
  <2>1. Leave("closed") /\ UNCHANGED ledger /\ ~active
    BY <1>0, <1>2 DEF Begin, ClientInv, Working
  <2>2. Out /\ Told
    BY <2>1 DEF Leave, Release, Out, Told, Ends, ledger, ClientInv, TypeInv, RecoveryType
  <2>3. Book'
    BY <1>0, <2>1, BookFrame DEF ledger, ClientInv
  <2> QED BY <1>0, <2>2, <2>3 DEF Begin, Moves, Ending, session, world
<1> QED BY <1>1, <1>2

LEMMA ResumeMoves == ClientInv /\ Resume => Moves
<1> SUFFICES ASSUME ClientInv, Resume PROVE Moves
  OBVIOUS
<1>0. UNCHANGED now /\ stage = "read" /\ UNCHANGED entered
  BY DEF Resume, world
<1>1. Book' /\ (Ending \/ (Cooling /\ ~live) \/ Reading)
  <2>1. CASE reply = "matched" /\ Continue(block + 1)
    <3>1. block + 1 \in Nat \ {0}
      BY PolicyAssumption DEF ClientInv, TypeInv, PlaceType
    <3> QED BY <1>0, <2>1, <3>1, ContinueMoves DEF Ending
  <2>2. CASE health' = "degraded" /\ Terminate /\ Leave("rejected")
    BY <1>0, <2>2, EndTold DEF Ending, Ends, Healths
  <2>3. CASE reply \in {"lost", "closed"} /\ ReadFailed(reply)
    <3>1. ~live
      BY <1>0, <2>3 DEF ClientInv, Fenced
    <3> QED BY <1>0, <2>3, <3>1, ReadFailedMoves DEF Ending
  <2> QED BY <2>1, <2>2, <2>3 DEF Resume
<1> QED BY <1>0, <1>1 DEF Resume, Moves, session, world

LEMMA CloseDoneMoves == ClientInv /\ CloseDone => Moves
<1> SUFFICES ASSUME ClientInv, CloseDone PROVE Moves
  OBVIOUS
<1>0. UNCHANGED now /\ stage = "closing" /\ ~live /\ UNCHANGED <<live, entered>>
  BY DEF CloseDone, world, ClientInv, Fenced
<1>1. Book' /\ (Ending \/ (Cooling /\ ~live))
  <2>1. CASE ReadFailed("timeout")
    BY <1>0, <2>1, ReadFailedMoves DEF Ending
  <2>2. CASE Terminate /\ Leave("cancelled") /\ health' = "degraded"
    BY <1>0, <2>2, EndTold DEF Ending, Ends, Healths
  <2>3. CASE Terminate /\ Leave("closed") /\ UNCHANGED health
    BY <1>0, <2>3, EndTold DEF Ending, Ends, ClientInv, TypeInv, RecoveryType
  <2> QED BY <2>1, <2>2, <2>3 DEF CloseDone
<1> QED BY <1>0, <1>1 DEF CloseDone, Moves

LEMMA CooldownStoppedMoves == ClientInv /\ CooldownStopped => Moves
<1> SUFFICES ASSUME ClientInv, CooldownStopped PROVE Moves
  OBVIOUS
<1>0. UNCHANGED now /\ stage = "cooldown" /\ UNCHANGED entered
  BY DEF CooldownStopped, world
<1>1. Book' /\ Ending
  BY <1>0, EndTold DEF CooldownStopped, Ending, Ends, ClientInv, TypeInv, RecoveryType
<1> QED BY <1>0, <1>1 DEF CooldownStopped, Moves, session

LEMMA DialFailMoves ==
    ASSUME ClientInv, DialFail, stage' # "cooldown" PROVE Moves
<1>0. UNCHANGED now /\ stage = "dialing" /\ UNCHANGED entered
  BY DEF DialFail, world
<1>1. Book' /\ Ending
  BY <1>0, EndTold DEF DialFail, Ending, Ends, Healths
<1> QED BY <1>0, <1>1 DEF DialFail, Moves

LEMMA DialOkMoves ==
    ASSUME ClientInv, DialOk, ~shutdown PROVE Moves
<1>0. /\ UNCHANGED now /\ stage = "dialing" /\ UNCHANGED entered /\ live' = TRUE
      /\ Restart
  BY DEF DialOk, world
<1>1. CASE Finish
  BY <1>0, <1>1, FinishMoves DEF DialOk, Moves, Ending
<1>2. CASE /\ \E b \in Stale(1) : (\A c \in Stale(1) : b <= c) /\ block' = b
           /\ stage' = "read" /\ reply' = "none" /\ cause' = "none"
           /\ UNCHANGED <<spent, holding, recovery>>
  <2>1. Book'
    BY <1>0, <1>2, BookFrame DEF ClientInv, recovery, ledger
  <2>2. block' \in 1..Blocks
    BY <1>2 DEF Stale
  <2>3. Reading
    BY <1>2, <2>2 DEF Reading, spent, holding, recovery, ledger
  <2> QED BY <1>0, <2>1, <2>3 DEF DialOk, Moves
<1> QED BY <1>0, <1>1, <1>2 DEF Restart

-----------------------------------------------------------------------------
(* The other steps of acquirers                                            *)

(* The groups a step leaves alone keep their types.                        *)
LEMMA TypeFrame ==
    /\ WorldType /\ UNCHANGED world => WorldType'
    /\ SessionType /\ UNCHANGED session => SessionType'
    /\ FacadeType /\ UNCHANGED facade => FacadeType'
    /\ PlaceType /\ UNCHANGED place => PlaceType'
    /\ SpentType /\ UNCHANGED spent => SpentType'
    /\ HoldingType /\ UNCHANGED holding => HoldingType'
    /\ RecoveryType /\ UNCHANGED recovery => RecoveryType'
    /\ RestType /\ UNCHANGED <<waiting, entered, bounds>> => RestType'
    /\ BookType /\ UNCHANGED recovery => BookType'
BY DEF WorldType, SessionType, FacadeType, PlaceType, SpentType, HoldingType,
       RecoveryType, RestType, BookType, world, session, facade, place, spent, holding,
       recovery, ledger, bounds

LEMMA EnterKeeps ==
    ASSUME ClientInv, NEW p \in Acquirers, Acquire(p) \/ Enter(p)
    PROVE  ClientInv'
<1>f. /\ UNCHANGED <<world, session, facade, spent, recovery, entered>>
      /\ UNCHANGED <<live, sessionLock, owner, lifecycle, closed, shutdown, started, epoch,
                     active, unrecorded, reconnects, dials, now, window, episodes, reply>>
  BY DEF Acquire, Enter, world, session, facade, spent, recovery, ledger, place
<1>0. \/ Acquire(p) /\ UNCHANGED <<stage, acqLock>>
      \/ acqLock = None /\ acqLock' = p /\ stage' = "begin"
  BY DEF Acquire, Enter, place, holding
<1>t. TypeInv'
  <2>1. CASE Acquire(p)
    <3>1. RestType'
      BY <2>1, BoundAssumption DEF Acquire, ClientInv, TypeInv, RestType, bounds
    <3> QED BY <2>1, <3>1, TypeFrame DEF Acquire, ClientInv, TypeInv
  <2>2. CASE Enter(p)
    <3>1. RestType' /\ HoldingType' /\ PlaceType'
      BY <2>2 DEF Enter, ClientInv, TypeInv, RestType, HoldingType, PlaceType, Stages, bounds
    <3> QED BY <2>2, <3>1, <1>f, TypeFrame DEF ClientInv, TypeInv
  <2> QED BY <2>1, <2>2
<1>s. {stage, stage'} \subseteq {"out", "begin"} \/ UNCHANGED stage
  BY <1>0, TaskAssumption DEF ClientInv, Locks
<1>1. Locks'
  BY <1>0, <1>f, TaskAssumption DEF ClientInv, Locks
<1>2. Fenced' /\ SameRun' /\ Working' /\ Closing'
  BY <1>s, <1>f DEF ClientInv, Fenced, SameRun, Working, Closing
<1>3. Book'
  BY <1>f, BookFrame DEF ClientInv
<1> QED BY <1>t, <1>1, <1>2, <1>3 DEF ClientInv

LEMMA DialKeeps == ClientInv /\ Dial => ClientInv'
<1> SUFFICES ASSUME ClientInv, Dial PROVE ClientInv'
  OBVIOUS
<1>f. /\ UNCHANGED <<live, facade, owner, lifecycle, closed, shutdown, started, epoch,
                     acqLock, entered, active, unrecorded, reconnects, now, window, episodes>>
      /\ UNCHANGED <<world, holding, recovery, waiting, bounds>>
      /\ stage = "cooldown" /\ stage' = "dialing" /\ ~shutdown /\ dials' = dials + 1
      /\ sessionLock = None /\ sessionLock' = acqLock
  BY DEF Dial, world, facade, holding, recovery, ledger
<1>a. acqLock \in Acquirers /\ \A o \in Owners : acqLock # o
  BY <1>f, TaskAssumption DEF ClientInv, Locks
<1>t. TypeInv'
  <2>1. SessionType' /\ PlaceType'
    BY <1>a, <1>f DEF Dial, ClientInv, TypeInv, SessionType, PlaceType, Stages
  <2>2. SpentType'
    BY <1>f, PolicyAssumption DEF Dial, ClientInv, TypeInv, SpentType, Working
  <2> QED BY <1>f, <2>1, <2>2, TypeFrame DEF ClientInv, TypeInv
<1>1. Locks'
  <2>1. \A o \in Owners : sessionLock' = o <=> sessionLock = o
    BY <1>f, <1>a, TaskAssumption
  <2> QED BY <1>f, <1>a, <2>1 DEF ClientInv, Locks
<1>2. Fenced' /\ SameRun' /\ Working' /\ Closing'
  BY <1>f DEF ClientInv, Fenced, SameRun, Working, Closing
<1>3. Book'
  BY <1>f, BookFrame DEF ClientInv
<1> QED BY <1>t, <1>1, <1>2, <1>3 DEF ClientInv

(* A dial that failed and is tried again, or succeeded after a shutdown.   *)
LEMMA DialedKeeps ==
    ASSUME ClientInv,
           \/ DialFail /\ stage' = "cooldown"
           \/ DialOk /\ shutdown
    PROVE  ClientInv'
<1>f. /\ UNCHANGED <<owner, lifecycle, closed, shutdown, started, epoch, dials,
                     acqLock, entered, active, unrecorded, reconnects, now, window, episodes>>
      /\ UNCHANGED <<world, facade, spent, holding, recovery, waiting, bounds, refusal,
                     block, reply>>
      /\ stage = "dialing" /\ sessionLock' = None /\ live' \in BOOLEAN
      /\ \/ stage' = "cooldown" /\ UNCHANGED live /\ dials < MaxDials /\ UNCHANGED cause
         \/ stage' = "close" /\ cause' = "undo"
  BY DEF DialFail, DialsLeft, DialOk, Leave, world, facade, holding, recovery, ledger,
         spent, ClientInv, TypeInv, SessionType
<1>a. sessionLock \in Acquirers /\ \A o \in Owners : sessionLock # o
  BY <1>f, TaskAssumption DEF ClientInv, Locks
<1>t. TypeInv'
  <2>1. SessionType' /\ PlaceType'
    BY <1>f DEF ClientInv, TypeInv, SessionType, PlaceType, Stages, Causes
  <2> QED BY <1>f, <2>1, TypeFrame DEF ClientInv, TypeInv
<1>1. Locks'
  <2>1. \A o \in Owners : sessionLock' # o
    BY <1>f, TaskAssumption
  <2>2. sessionLock' \notin Acquirers
    BY <1>f, TaskAssumption
  <2> QED BY <1>f, <1>a, <2>1, <2>2 DEF ClientInv, Locks
<1>2. Fenced' /\ SameRun' /\ Working'
  BY <1>f DEF ClientInv, Fenced, SameRun, Working
<1>3. Closing'
  BY <1>f DEF ClientInv, Closing
<1>4. Book'
  BY <1>f, BookFrame DEF ClientInv
<1> QED BY <1>t, <1>1, <1>2, <1>3, <1>4 DEF ClientInv

LEMMA CancelledMoves ==
    ASSUME ClientInv, Cancelled, stage \in {"begin", "cooldown", "close", "dialing", "closing"},
           UNCHANGED <<world, facade, entered, bounds, live, refusal, waiting>>,
           sessionLock' = IF stage \in {"dialing", "closing"} THEN None ELSE sessionLock
    PROVE  Moves
<1>0. UNCHANGED now /\ Leave("cancelled") /\ "cancelled" \in Ends /\ "cancelled" # "ok"
  BY DEF Cancelled, world, Ends
<1>1. Book' /\ Ending
  <2>1. CASE UNCHANGED ledger /\ (stage = "begin" \/ cause = "undo")
    <3>1. Book'
      BY <1>0, <2>1, BookFrame DEF ledger, ClientInv
    <3>2. Out /\ UNCHANGED unrecorded
      BY <1>0, <2>1 DEF Leave, Release, Out, ledger, ClientInv, TypeInv, RecoveryType
    <3>3. stage = "begin" => Told
      BY <3>2 DEF Told, ClientInv, TypeInv, RecoveryType, Working
    <3> QED BY <2>1, <1>0, <3>1, <3>2, <3>3 DEF Ending, Leave
  <2>2. CASE health' = "degraded" /\ Terminate
    BY <1>0, <2>2, EndTold DEF Ending, Healths
  <2> QED BY <2>1, <2>2 DEF Cancelled
<1>2. ended' = "cancelled"
  BY <1>0 DEF Leave
<1> QED BY <1>0, <1>1, <1>2 DEF Moves, Ending

LEMMA CancelAcquirerKeeps ==
    ASSUME ClientInv, NEW p \in Acquirers, CancelAcquirer(p)
    PROVE  ClientInv'
<1>1. CASE p \in waiting /\ waiting' = waiting \ {p}
           /\ UNCHANGED <<session, place, spent, holding, recovery>>
  <2>1. TypeInv'
    <3>1. RestType'
      BY <1>1 DEF CancelAcquirer, ClientInv, TypeInv, RestType, bounds
    <3> QED BY <1>1, <3>1, TypeFrame DEF CancelAcquirer, ClientInv, TypeInv
  <2>0. UNCHANGED <<live, sessionLock, stage, reply, reconnects, dials, acqLock, active,
                    unrecorded, owner, lifecycle, closed, shutdown, started, epoch, entered>>
    BY <1>1 DEF CancelAcquirer, session, place, spent, holding, recovery, ledger, facade
  <2>2. Locks' /\ Fenced' /\ Closing' /\ SameRun' /\ Working'
    BY <2>0 DEF ClientInv, Locks, Fenced, Closing, SameRun, Working
  <2>3. Book'
    BY <1>1, BookFrame DEF CancelAcquirer, ClientInv, recovery, ledger, world
  <2> QED BY <2>1, <2>2, <2>3 DEF ClientInv
<1>2. CASE stage = "read" /\ GiveUp("cancelled")
           /\ UNCHANGED <<block, spent, holding, recovery, waiting>>
  BY <1>2, CloseKeeps DEF CancelAcquirer, GiveUp, Causes
<1>3. CASE stage \in {"begin", "cooldown", "close"} /\ Cancelled
           /\ UNCHANGED <<session, waiting>>
  BY <1>3, CancelledMoves, MovesKeep DEF CancelAcquirer, session
<1>4. CASE stage \in {"dialing", "closing"} /\ Cancelled /\ sessionLock' = None
           /\ UNCHANGED <<live, refusal, waiting>>
  BY <1>4, CancelledMoves, MovesKeep DEF CancelAcquirer
<1> QED BY <1>1, <1>2, <1>3, <1>4 DEF CancelAcquirer

LEMMA AcquirerKeeps == ClientInv /\ (AcquirerStep \/ TimeOut) => ClientInv'
<1>1. ClientInv /\ (Begin \/ Resume \/ CloseDone \/ CooldownStopped) => ClientInv'
  BY BeginMoves, ResumeMoves, CloseDoneMoves, CooldownStoppedMoves, MovesKeep
<1>2. ClientInv /\ CloseTurn => ClientInv'
  BY CloseKeeps DEF CloseTurn, ClientInv, TypeInv, PlaceType
<1>3. ClientInv /\ TimeOut => ClientInv'
  BY CloseKeeps DEF TimeOut, Deadline, GiveUp, Causes
<1>4. ClientInv /\ (DialOk \/ DialFail) => ClientInv'
  BY DialOkMoves, DialFailMoves, DialedKeeps, MovesKeep
<1> QED BY <1>1, <1>2, <1>3, <1>4, DialKeeps DEF AcquirerStep

-----------------------------------------------------------------------------
(* The steps of owners                                                     *)

LEMMA Moved ==
    ASSUME ClientInv, NEW o \in Owners, NEW at, Put(o, at)
    PROVE  owner'[o] = at /\ \A q \in Owners \ {o} : owner'[q] = owner[q]
BY DEF ClientInv, TypeInv, FacadeType, Put

(* An owner's step never takes the acquirer from where it is.              *)
LEMMA OwnerFrame ==
    ASSUME ClientInv,
           UNCHANGED <<world, stage, cause, spent, active, window, episodes, unrecorded>>
    PROVE  Working' /\ Book'
<1>1. Book'
  BY BookFrame DEF ClientInv, world
<1> QED BY <1>1 DEF ClientInv, Working, spent

LEMMA CallKeeps ==
    ASSUME ClientInv, NEW o \in Owners, NEW what \in {"start", "close"}, Call(o, what) PROVE ClientInv'
<1>f. /\ owner'[o] = what /\ \A q \in Owners \ {o} : owner'[q] = owner[q]
      /\ owner[o] = "idle" /\ calls' = calls + 1 /\ calls < MaxCalls /\ Put(o, what)
      /\ UNCHANGED <<world, stage, cause, spent, active, window, episodes, unrecorded>>
      /\ UNCHANGED <<live, sessionLock, reply, acqLock, started, closed, shutdown, lifecycle,
                     epoch, entered, waiting, acquisitions>>
      /\ UNCHANGED <<session, place, holding, recovery>>
  BY Moved DEF Call, world, session, facade, place, spent, holding, recovery, ledger, bounds, Inside
<1>t. TypeInv'
  <2>1. FacadeType'
    BY <1>f DEF Put, ClientInv, TypeInv, FacadeType, OwnerStages
  <2>2. RestType'
    BY <1>f, BoundAssumption DEF ClientInv, TypeInv, RestType
  <2> QED BY <1>f, <2>1, <2>2, TypeFrame DEF ClientInv, TypeInv
<1>1. Locks'
  BY <1>f, TaskAssumption DEF ClientInv, Locks
<1>2. Fenced' /\ SameRun'
  BY <1>f, TaskAssumption DEF ClientInv, Fenced, SameRun, Locks
<1>3. Closing'
  BY <1>f DEF ClientInv, Closing, Locks
<1> QED BY <1>t, <1>1, <1>2, <1>3, <1>f, OwnerFrame DEF ClientInv

LEMMA StartTurnKeeps ==
    ASSUME ClientInv, NEW o \in Owners, StartTurn(o) PROVE ClientInv'
<1>f. /\ \A q \in Owners \ {o} : owner'[q] = owner[q]
      /\ \/ owner'[o] = "idle" /\ UNCHANGED <<closed, lifecycle>> /\ Put(o, "idle")
         \/ /\ owner'[o] = "startDrained" /\ ~closed' /\ lifecycle' = o
            /\ Put(o, "startDrained") /\ closed' = FALSE
      /\ owner[o] = "start" /\ lifecycle = None
      /\ UNCHANGED <<world, stage, cause, spent, active, window, episodes, unrecorded>>
      /\ UNCHANGED <<live, sessionLock, reply, acqLock, started, shutdown,
                     epoch, entered>>
      /\ UNCHANGED <<session, place, holding, recovery, waiting, entered, bounds>>
  BY Moved DEF StartTurn, world, session, facade, place, spent, holding, recovery, ledger, bounds, Inside
<1>t. TypeInv'
  <2>1. FacadeType'
    BY <1>f DEF Put, ClientInv, TypeInv, FacadeType, OwnerStages
  <2> QED BY <1>f, <2>1, TypeFrame DEF ClientInv, TypeInv
<1>1. Locks'
  BY <1>f, TaskAssumption DEF ClientInv, Locks
<1>2. Fenced' /\ SameRun'
  BY <1>f, TaskAssumption DEF ClientInv, Fenced, SameRun, Locks
<1>3. Closing'
  BY <1>f DEF ClientInv, Closing, Locks
<1> QED BY <1>t, <1>1, <1>2, <1>3, <1>f, OwnerFrame DEF ClientInv

LEMMA StartDrainedKeeps ==
    ASSUME ClientInv, NEW o \in Owners, StartDrained(o) PROVE ClientInv'
<1>f. /\ \A q \in Owners \ {o} : owner'[q] = owner[q]
      /\ owner'[o] = "startDial" /\ owner[o] = "startDrained" /\ Put(o, "startDial")
      /\ acqLock = None /\ acqLock' = o /\ shutdown' = FALSE
      /\ UNCHANGED <<world, stage, cause, spent, active, window, episodes, unrecorded>>
      /\ UNCHANGED <<live, sessionLock, reply, started, closed, lifecycle,
                     epoch, entered, ended>>
      /\ UNCHANGED <<session, place, recovery, waiting, bounds>>
  BY Moved DEF StartDrained, Drained, world, session, facade, place, spent, holding, recovery, ledger, bounds, Inside
<1>t. TypeInv'
  <2>1. FacadeType' /\ HoldingType'
    BY <1>f DEF Put, ClientInv, TypeInv, FacadeType, HoldingType, OwnerStages
  <2> QED BY <1>f, <2>1, TypeFrame DEF ClientInv, TypeInv
<1>1. Locks'
  BY <1>f, TaskAssumption DEF ClientInv, Locks
<1>2. Fenced' /\ SameRun'
  BY <1>f, TaskAssumption DEF ClientInv, Fenced, SameRun, Locks
<1>3. Closing'
  BY <1>f DEF ClientInv, Closing, Locks
<1> QED BY <1>t, <1>1, <1>2, <1>3, <1>f, OwnerFrame DEF ClientInv

LEMMA RunningKeeps ==
    ASSUME ClientInv, NEW o \in Owners, Running(o), live',
           \/ owner[o] = "startDial" /\ UNCHANGED <<live, sessionLock>>
           \/ owner[o] = "starting" /\ live' = TRUE /\ sessionLock' = None,
           UNCHANGED <<world, refusal, place, spent, waiting, entered, ended, bounds>> PROVE ClientInv'
<1>f. /\ \A q \in Owners \ {o} : owner'[q] = owner[q]
      /\ owner'[o] = "idle" /\ Put(o, "idle") /\ started' = TRUE /\ epoch' = epoch + 1
      /\ owner[o] \in {"startDial", "starting"} /\ acqLock' = None /\ lifecycle' = None
      /\ health' = "degraded"
      /\ UNCHANGED <<world, stage, cause, spent, active, window, episodes, unrecorded>>
      /\ UNCHANGED <<reply, closed, shutdown, entered>>
  BY Moved DEF Running, world, session, facade, place, spent, holding, recovery, ledger, bounds, Inside
<1>t. TypeInv'
  <2>1. FacadeType' /\ HoldingType' /\ RecoveryType'
    BY <1>f DEF Put, ClientInv, TypeInv, FacadeType, HoldingType, RecoveryType, Healths,
                OwnerStages
  <2>2. SessionType' /\ BookType' /\ SpentType' /\ WorldType'
    BY <1>f, TypeFrame
       DEF ClientInv, TypeInv, SessionType, BookType
  <2> QED BY <1>f, <2>1, <2>2, TypeFrame DEF ClientInv, TypeInv
<1>1. Locks'
  <2>1. lifecycle = o /\ acqLock = o
    BY <1>f DEF ClientInv, Locks
  <2>2. \A q \in Owners \ {o} : sessionLock' = q <=> sessionLock = q
    BY <1>f, TaskAssumption DEF ClientInv, Locks
  <2>3. sessionLock' # o /\ (sessionLock' \in Acquirers <=> sessionLock \in Acquirers)
    BY <1>f, TaskAssumption DEF ClientInv, Locks
  <2> QED BY <1>f, <2>1, <2>2, <2>3, TaskAssumption DEF ClientInv, Locks
<1>2. Fenced' /\ SameRun'
  <2>1. acqLock = o /\ stage = "out"
    BY <1>f, TaskAssumption DEF ClientInv, Locks
  <2> QED BY <1>f, <2>1 DEF Fenced, SameRun
<1>3. Closing'
  <2>1. lifecycle = o /\ \A q \in Owners \ {o} : lifecycle # q
    BY <1>f DEF ClientInv, Locks
  <2>2. ~closed
    BY <2>1, TaskAssumption DEF ClientInv, Closing
  <2>3. \A q \in Owners : owner'[q] \notin {"closeTurn", "closing", "closeDrained"}
    BY <1>f, <2>1 DEF ClientInv, Locks
  <2> QED BY <1>f, <2>2, <2>3 DEF Closing
<1> QED BY <1>t, <1>1, <1>2, <1>3, <1>f, OwnerFrame DEF ClientInv

LEMMA StartingKeeps ==
    ASSUME ClientInv, NEW o \in Owners, StartDial(o), ~live PROVE ClientInv'
<1>f. /\ \A q \in Owners \ {o} : owner'[q] = owner[q]
      /\ owner'[o] = "starting" /\ owner[o] = "startDial" /\ Put(o, "starting")
      /\ sessionLock = None /\ sessionLock' = o
      /\ UNCHANGED <<world, stage, cause, spent, active, window, episodes, unrecorded>>
      /\ UNCHANGED <<live, refusal, reply, acqLock, started, closed, shutdown, lifecycle,
                     epoch, entered, ended>>
      /\ UNCHANGED <<place, holding, recovery, waiting, bounds>>
  BY Moved DEF StartDial, world, session, facade, place, spent, holding, recovery, ledger, bounds, Inside
<1>t. TypeInv'
  <2>1. FacadeType' /\ SessionType'
    BY <1>f DEF Put, ClientInv, TypeInv, FacadeType, SessionType, OwnerStages
  <2> QED BY <1>f, <2>1, TypeFrame DEF ClientInv, TypeInv
<1>1. Locks'
  BY <1>f, TaskAssumption DEF ClientInv, Locks
<1>2. Fenced' /\ SameRun'
  BY <1>f, TaskAssumption DEF ClientInv, Fenced, SameRun, Locks
<1>3. Closing'
  BY <1>f DEF ClientInv, Closing, Locks
<1> QED BY <1>t, <1>1, <1>2, <1>3, <1>f, OwnerFrame DEF ClientInv

LEMMA StartDialKeeps ==
    ASSUME ClientInv, NEW o \in Owners, StartDial(o) \/ StartOk(o) PROVE ClientInv'
<1>1. CASE StartDial(o) /\ live
  BY <1>1, RunningKeeps DEF StartDial
<1>2. CASE StartOk(o)
  BY <1>2, RunningKeeps DEF StartOk
<1>3. CASE StartDial(o) /\ ~live
  BY <1>3, StartingKeeps
<1> QED BY <1>1, <1>2, <1>3

LEMMA StartFailedKeeps ==
    ASSUME ClientInv, NEW o \in Owners, StartFailed(o) PROVE ClientInv'
<1>f. /\ \A q \in Owners \ {o} : owner'[q] = owner[q]
      /\ owner'[o] = "idle" /\ owner[o] = "starting" /\ Put(o, "idle")
      /\ sessionLock' = None /\ acqLock' = None /\ lifecycle' = None /\ health' = "degraded"
      /\ UNCHANGED <<world, stage, cause, spent, active, window, episodes, unrecorded>>
      /\ UNCHANGED <<live, refusal, reply, started, closed, shutdown,
                     epoch, entered, ended>>
      /\ UNCHANGED <<place, waiting, bounds>>
  BY Moved DEF StartFailed, world, session, facade, place, spent, holding, recovery, ledger, bounds, Inside
<1>t. TypeInv'
  <2>1. FacadeType' /\ SessionType' /\ HoldingType' /\ RecoveryType' /\ BookType'
    BY <1>f DEF Put, ClientInv, TypeInv, FacadeType, SessionType, HoldingType,
                RecoveryType, BookType, Healths, OwnerStages
  <2> QED BY <1>f, <2>1, TypeFrame DEF ClientInv, TypeInv
<1>1. Locks'
  <2>1. lifecycle = o /\ acqLock = o /\ sessionLock = o
    BY <1>f DEF ClientInv, Locks
  <2> QED BY <1>f, <2>1, TaskAssumption DEF ClientInv, Locks
<1>2. Fenced' /\ SameRun'
  BY <1>f, TaskAssumption DEF ClientInv, Fenced, SameRun, Locks
<1>3. Closing'
  <2>1. lifecycle = o /\ \A q \in Owners \ {o} : lifecycle # q
    BY <1>f DEF ClientInv, Locks
  <2>2. ~closed
    BY <2>1, TaskAssumption DEF ClientInv, Closing
  <2>3. \A q \in Owners : owner'[q] \notin {"closeTurn", "closing", "closeDrained"}
    BY <1>f, <2>1 DEF ClientInv, Locks
  <2> QED BY <1>f, <2>2, <2>3 DEF Closing
<1> QED BY <1>t, <1>1, <1>2, <1>3, <1>f, OwnerFrame DEF ClientInv

LEMMA ShutKeeps ==
    ASSUME ClientInv, NEW o \in Owners, Shut(o),
           owner[o] \in {"close", "closeTurn"}, lifecycle' = o, lifecycle \in {None, o},
           sessionLock = None, started' = FALSE, shutdown' = TRUE,
           owner[o] = "closeTurn" \/ ~closed, health' \in Healths,
           UNCHANGED <<world, closed, epoch, stage, block, cause, spent, holding, active,
                       window, episodes, unrecorded, waiting, entered, bounds>> PROVE ClientInv'
<1>f. /\ \A q \in Owners \ {o} : owner'[q] = owner[q]
      /\ owner'[o] = "closing" /\ Put(o, "closing")
      /\ live' = FALSE /\ refusal' = "closed" /\ sessionLock' = o
      /\ reply' \in {"closed", reply}
      /\ UNCHANGED <<world, stage, cause, spent, active, window, episodes, unrecorded>>
      /\ UNCHANGED <<acqLock, ended>>
  BY Moved DEF Shut, world, session, facade, place, spent, holding, recovery, ledger, bounds, Inside
<1>t. TypeInv'
  <2>1. FacadeType' /\ SessionType' /\ PlaceType'
    BY <1>f DEF Put, ClientInv, TypeInv, FacadeType, SessionType, PlaceType, Replies,
                OwnerStages
  <2>2. RecoveryType' /\ BookType' /\ RestType' /\ HoldingType' /\ SpentType' /\ WorldType'
    BY <1>f, TypeFrame DEF ClientInv, TypeInv, RecoveryType, BookType
  <2> QED BY <2>1, <2>2 DEF TypeInv
<1>1. Locks'
  BY <1>f, TaskAssumption DEF ClientInv, Locks
<1>2. Fenced' /\ SameRun'
  BY <1>f, TaskAssumption DEF ClientInv, Fenced, SameRun, Locks
<1>3. Closing'
  <2>1. \A q \in Owners \ {o} : lifecycle # q
    BY TaskAssumption
  <2>2. ~closed
    BY <2>1, TaskAssumption DEF ClientInv, Closing, Locks
  <2>3. stage # "dialing"
    BY TaskAssumption DEF ClientInv, Locks
  <2> QED BY <1>f, <2>2, <2>3 DEF ClientInv, Closing
<1> QED BY <1>t, <1>1, <1>2, <1>3, <1>f, OwnerFrame DEF ClientInv

LEMMA StopKeeps ==
    ASSUME ClientInv, NEW o \in Owners, Stop(o), closed \/ sessionLock # None PROVE ClientInv'
<1>f. /\ \A q \in Owners \ {o} : owner'[q] = owner[q]
      /\ owner[o] = "close" /\ lifecycle = None
      /\ \/ /\ owner'[o] = "idle" /\ Put(o, "idle")
            /\ UNCHANGED <<started, shutdown, lifecycle, health>>
         \/ /\ owner'[o] = "closeTurn" /\ Put(o, "closeTurn") /\ ~closed
            /\ started' = FALSE /\ shutdown' = TRUE /\ health' = "degraded"
            /\ lifecycle' = o
      /\ UNCHANGED <<world, stage, cause, spent, active, window, episodes, unrecorded>>
      /\ UNCHANGED <<live, sessionLock, reply, acqLock, closed, epoch, entered>>
      /\ UNCHANGED <<session, place, holding, waiting, entered, bounds>>
  BY Moved DEF Stop, world, session, facade, place, spent, holding, recovery, ledger, bounds, Inside
<1>t. TypeInv'
  <2>1. FacadeType' /\ RecoveryType' /\ BookType'
    BY <1>f DEF Put, ClientInv, TypeInv, FacadeType, RecoveryType, BookType, Healths,
                OwnerStages
  <2> QED BY <1>f, <2>1, TypeFrame DEF ClientInv, TypeInv
<1>1. Locks'
  BY <1>f, TaskAssumption DEF ClientInv, Locks
<1>2. Fenced' /\ SameRun'
  BY <1>f, TaskAssumption DEF ClientInv, Fenced, SameRun, Locks
<1>3. Closing'
  BY <1>f DEF ClientInv, Closing, Locks
<1> QED BY <1>t, <1>1, <1>2, <1>3, <1>f, OwnerFrame DEF ClientInv

LEMMA CloseTurnKeeps ==
    ASSUME ClientInv, NEW o \in Owners, Stop(o) \/ StopTurn(o) PROVE ClientInv'
<1>1. CASE Stop(o) /\ (closed \/ sessionLock # None)
  BY <1>1, StopKeeps
<1>2. CASE Stop(o) /\ ~closed /\ sessionLock = None
  BY <1>2, ShutKeeps DEF Stop, Healths
<1>3. CASE StopTurn(o)
  <2>1. owner[o] = "closeTurn" /\ lifecycle = o /\ lifecycle' = o
    BY <1>3 DEF StopTurn, ClientInv, Locks
  <2>2. started' = FALSE /\ shutdown' = TRUE /\ health' \in Healths
    BY <1>3, <2>1
       DEF StopTurn, ClientInv, Closing, TypeInv, FacadeType, RecoveryType, recovery, ledger
  <2> QED BY <1>3, <2>1, <2>2, ShutKeeps DEF StopTurn, recovery, ledger
<1> QED BY <1>1, <1>2, <1>3

LEMMA StopDoneKeeps ==
    ASSUME ClientInv, NEW o \in Owners, StopDone(o) PROVE ClientInv'
<1>f. /\ \A q \in Owners \ {o} : owner'[q] = owner[q]
      /\ owner'[o] = "closeDrained" /\ owner[o] = "closing" /\ Put(o, "closeDrained")
      /\ sessionLock' = None
      /\ UNCHANGED <<world, stage, cause, spent, active, window, episodes, unrecorded>>
      /\ UNCHANGED <<live, refusal, reply, started, closed, shutdown, lifecycle, acqLock,
                     epoch, entered, ended>>
      /\ UNCHANGED <<place, holding, recovery, waiting, bounds>>
  BY Moved DEF StopDone, world, session, facade, place, spent, holding, recovery, ledger, bounds, Inside
<1>t. TypeInv'
  <2>1. FacadeType' /\ SessionType'
    BY <1>f DEF Put, ClientInv, TypeInv, FacadeType, SessionType, OwnerStages
  <2> QED BY <1>f, <2>1, TypeFrame DEF ClientInv, TypeInv
<1>1. Locks'
  <2>1. sessionLock = o
    BY <1>f DEF ClientInv, Locks
  <2> QED BY <1>f, <2>1, TaskAssumption DEF ClientInv, Locks
<1>2. Fenced' /\ SameRun'
  BY <1>f, TaskAssumption DEF ClientInv, Fenced, SameRun, Locks
<1>3. Closing'
  BY <1>f DEF ClientInv, Closing, Locks
<1> QED BY <1>t, <1>1, <1>2, <1>3, <1>f, OwnerFrame DEF ClientInv

LEMMA StopDrainedKeeps ==
    ASSUME ClientInv, NEW o \in Owners, StopDrained(o) PROVE ClientInv'
<1>f. /\ \A q \in Owners \ {o} : owner'[q] = owner[q]
      /\ owner'[o] = "idle" /\ owner[o] = "closeDrained" /\ Put(o, "idle")
      /\ acqLock = None /\ closed' = TRUE /\ lifecycle' = None
      /\ UNCHANGED <<world, stage, cause, spent, active, window, episodes, unrecorded>>
      /\ UNCHANGED <<live, sessionLock, reply, acqLock, started, shutdown,
                     epoch, entered, ended>>
      /\ UNCHANGED <<session, place, holding, recovery, waiting, bounds>>
  BY Moved DEF StopDrained, Drained, world, session, facade, place, spent, holding, recovery, ledger, bounds, Inside
<1>t. TypeInv'
  <2>1. FacadeType'
    BY <1>f DEF Put, ClientInv, TypeInv, FacadeType, OwnerStages
  <2> QED BY <1>f, <2>1, TypeFrame DEF ClientInv, TypeInv
<1>1. Locks'
  <2>1. lifecycle = o
    BY <1>f DEF ClientInv, Locks
  <2> QED BY <1>f, <2>1, TaskAssumption DEF ClientInv, Locks
<1>2. Fenced' /\ SameRun'
  BY <1>f, TaskAssumption DEF ClientInv, Fenced, SameRun, Locks
<1>3. Closing'
  <2>1. lifecycle = o /\ \A q \in Owners \ {o} : lifecycle # q
    BY <1>f DEF ClientInv, Locks
  <2>2. stage = "out" /\ shutdown /\ ~started /\ ~live
    BY <1>f, TaskAssumption DEF ClientInv, Locks, Closing
  <2>3. \A q \in Owners : owner'[q] \notin {"closeTurn", "closing", "closeDrained"}
    BY <1>f, <2>1 DEF ClientInv, Locks
  <2> QED BY <1>f, <2>2, <2>3 DEF Closing
<1> QED BY <1>t, <1>1, <1>2, <1>3, <1>f, OwnerFrame DEF ClientInv

LEMMA CancelOwnerKeeps ==
    ASSUME ClientInv, NEW o \in Owners, CancelOwner(o) PROVE ClientInv'
<1>f. /\ \A q \in Owners \ {o} : owner'[q] = owner[q]
      /\ owner'[o] = "idle" /\ owner[o] \notin {"idle", "starting"} /\ Put(o, "idle")
      /\ lifecycle' = IF lifecycle = o THEN None ELSE lifecycle
      /\ acqLock' = IF acqLock = o THEN None ELSE acqLock
      /\ sessionLock' = IF sessionLock = o THEN None ELSE sessionLock
      /\ health' \in {"degraded", health}
      /\ UNCHANGED <<world, stage, cause, spent, active, window, episodes, unrecorded>>
      /\ UNCHANGED <<live, refusal, reply, started, closed, shutdown, epoch, entered, ended>>
      /\ UNCHANGED <<place, waiting, bounds>>
  BY Moved DEF CancelOwner, world, session, facade, place, spent, holding, recovery, ledger, bounds, Inside
<1>t. TypeInv'
  <2>1. FacadeType' /\ SessionType' /\ HoldingType'
    BY <1>f DEF Put, ClientInv, TypeInv, FacadeType, SessionType, HoldingType, OwnerStages
  <2>2. RecoveryType' /\ BookType'
    BY <1>f DEF ClientInv, TypeInv, RecoveryType, BookType, Healths
  <2> QED BY <1>f, <2>1, <2>2, TypeFrame DEF ClientInv, TypeInv
<1>1. Locks'
  <2>1. /\ lifecycle' # o /\ acqLock' # o /\ sessionLock' # o
        /\ \A q \in Owners \ {o} : /\ lifecycle' = q <=> lifecycle = q
                                   /\ acqLock' = q <=> acqLock = q
                                   /\ sessionLock' = q <=> sessionLock = q
    BY <1>f, TaskAssumption
  <2>2. /\ acqLock' \in Acquirers <=> acqLock \in Acquirers
        /\ sessionLock' \in Acquirers <=> sessionLock \in Acquirers
    BY <1>f, TaskAssumption
  <2> QED BY <1>f, <2>1, <2>2 DEF ClientInv, Locks
<1>2. Fenced' /\ SameRun'
  BY <1>f, TaskAssumption DEF ClientInv, Fenced, SameRun, Locks
<1>3. Closing'
  BY <1>f DEF ClientInv, Closing
<1> QED BY <1>t, <1>1, <1>2, <1>3, <1>f, OwnerFrame DEF ClientInv

LEMMA OwnerKeeps ==
    ASSUME ClientInv, NEW o \in Owners,
           \/ OwnerStep(o) \/ CancelOwner(o)
           \/ \E what \in {"start", "close"} : Call(o, what)
    PROVE  ClientInv'
BY CallKeeps, StartTurnKeeps, StartDrainedKeeps, StartDialKeeps, StartFailedKeeps,
   CloseTurnKeeps, StopDoneKeeps, StopDrainedKeeps, CancelOwnerKeeps DEF OwnerStep

-----------------------------------------------------------------------------
(* The dongle and time; then every step                                    *)

LEMMA TickKeeps == ClientInv /\ Tick => ClientInv'
<1> SUFFICES ASSUME ClientInv, Tick PROVE ClientInv'
  OBVIOUS
<1>f. /\ now' = now + 1 /\ now < MaxTime
      /\ UNCHANGED <<live, sessionLock, stage, reply, reconnects, dials, acqLock, active,
                     unrecorded, owner, lifecycle, closed, shutdown, started, epoch, entered,
                     window, episodes, fresh>>
  BY DEF Tick, Same, session, place, spent, holding, recovery, ledger, facade
<1>t. TypeInv'
  <2>1. WorldType'
    BY <1>f, BoundAssumption DEF ClientInv, TypeInv, WorldType
  <2> QED BY <2>1, TypeFrame DEF Tick, Same, ClientInv, TypeInv
<1>1. Locks' /\ Fenced' /\ Closing' /\ SameRun' /\ Working'
  BY <1>f DEF ClientInv, Locks, Fenced, Closing, SameRun, Working
<1>2. Book'
  <2>1. \A i \in 1..(Len(episodes) - Len(window)) : now' - episodes[i] > Window
    <3> TAKE i \in 1..(Len(episodes) - Len(window))
    <3>1. Len(episodes) \in Nat /\ Len(window) \in Nat
      BY DEF ClientInv, Book, BookType
    <3>2. i \in 1..Len(episodes)
      BY <3>1
    <3>3. episodes \in Seq(0..MaxTime)
      BY DEF ClientInv, Book, BookType
    <3>4. episodes[i] \in 0..MaxTime
      BY <3>2, <3>3, ElementOfSeq
    <3>5. now - episodes[i] > Window
      BY DEF ClientInv, Book, Latest
    <3>6. Window \in Nat /\ MaxTime \in Nat /\ now \in Nat
      BY PolicyAssumption, BoundAssumption DEF ClientInv, TypeInv, WorldType
    <3> QED BY <1>f, <3>4, <3>5, <3>6
  <2> QED BY <1>f, <2>1 DEF ClientInv, Book, BookType, Latest, Spaced
<1> QED BY <1>t, <1>1, <1>2 DEF ClientInv

LEMMA DongleKeeps ==
    ASSUME ClientInv, Answer \/ Lost \/ \E b \in 1..Blocks : Push(b) \/ Age(b)
    PROVE  ClientInv'
<1>f. /\ UNCHANGED <<sessionLock, stage, reconnects, dials, acqLock, active, block, cause,
                     unrecorded, owner, lifecycle, closed, shutdown, started, epoch, entered,
                     now, window, episodes>>
      /\ UNCHANGED <<facade, spent, holding, recovery, waiting, bounds>>
      /\ refusal' \in {refusal, "lost", "closed"} /\ reply' \in Replies
      /\ fresh' \subseteq 1..Blocks
      /\ \/ live' = FALSE
         \/ UNCHANGED <<live, reply>>
         \/ UNCHANGED live /\ reply' \in {"matched", "rejected"}
  BY DEF Answer, Lost, Push, Age, Same, session, place, spent, holding, recovery, ledger,
         facade, world, ClientInv, TypeInv, WorldType, PlaceType, Replies
<1>t. TypeInv'
  <2>1. WorldType' /\ SessionType' /\ PlaceType'
    BY <1>f DEF ClientInv, TypeInv, WorldType, SessionType, PlaceType
  <2> QED BY <1>f, <2>1, TypeFrame DEF ClientInv, TypeInv
<1>1. Locks' /\ SameRun' /\ Working'
  BY <1>f DEF ClientInv, Locks, SameRun, Working
<1>2. Fenced' /\ Closing'
  BY <1>f DEF ClientInv, Fenced, Closing
<1>3. Book'
  BY <1>f, BookFrame DEF ClientInv
<1> QED BY <1>t, <1>1, <1>2, <1>3 DEF ClientInv

LEMMA InitClient == Init => ClientInv
<1> SUFFICES ASSUME Init PROVE ClientInv
  OBVIOUS
<1>c. /\ 0 \in 0..MaxTime /\ 1 \in 1..Blocks /\ 0 \in 0..MaxReconnects /\ 0 \in 0..MaxDials
      /\ 0 \in 0..MaxAcquisitions /\ 0 \in 0..MaxCalls /\ 0 \in Nat
  <2>1. {Blocks, MaxReconnects, MaxDials} \subseteq Nat \ {0}
    BY PolicyAssumption
  <2>2. {MaxTime, MaxAcquisitions, MaxCalls} \subseteq Nat
    BY BoundAssumption
  <2> QED BY <2>1, <2>2
<1>1. WorldType /\ SessionType /\ FacadeType /\ PlaceType
  <2>1. owner \in [Owners -> OwnerStages]
    BY DEF Init, OwnerStages
  <2>2. FacadeType
    BY <2>1, <1>c DEF Init, FacadeType
  <2> QED BY <1>c, <2>2 DEF Init, WorldType, SessionType, PlaceType, Stages, Replies, Causes
<1>2. SpentType /\ HoldingType /\ RecoveryType /\ RestType
  BY <1>c DEF Init, SpentType, HoldingType, RecoveryType, RestType, Ends, Healths
<1>3. BookType /\ Latest(window, episodes) /\ Spaced(episodes)
  <2>1. window = << >> /\ episodes = << >> /\ Len(window) = 0 /\ Len(episodes) = 0
        /\ MaxPerWindow \in Nat
    BY PolicyAssumption, EmptySeq DEF Init
  <2> QED BY <2>1, <1>c DEF BookType, Latest, Spaced
<1>4. Locks /\ Fenced /\ Closing /\ SameRun /\ Working
  BY TaskAssumption DEF Init, Locks, Fenced, Closing, SameRun, Working
<1> QED BY <1>1, <1>2, <1>3, <1>4 DEF ClientInv, TypeInv, Book

LEMMA NextClient == ClientInv /\ [Next]_vars => ClientInv'
<1> SUFFICES ASSUME ClientInv, [Next]_vars PROVE ClientInv'
  OBVIOUS
<1>1. CASE UNCHANGED vars
  <2>1. /\ UNCHANGED <<world, session, facade, place, spent, holding, recovery>>
        /\ UNCHANGED <<waiting, entered, bounds>>
    BY <1>1 DEF vars
  <2>2. TypeInv'
    BY <2>1, TypeFrame DEF ClientInv, TypeInv
  <2>3. UNCHANGED <<live, sessionLock, stage, reply, reconnects, dials, acqLock, active,
                    unrecorded, owner, lifecycle, closed, shutdown, started, epoch, entered,
                    now, window, episodes>>
    BY <2>1 DEF world, session, place, spent, holding, recovery, ledger, facade
  <2>4. Locks' /\ Fenced' /\ Closing' /\ SameRun' /\ Working'
    BY <2>3 DEF ClientInv, Locks, Fenced, Closing, SameRun, Working
  <2>5. Book'
    BY <2>3, BookFrame DEF ClientInv
  <2> QED BY <2>2, <2>4, <2>5 DEF ClientInv
<1>2. CASE AcquirerStep \/ TimeOut
  BY <1>2, AcquirerKeeps
<1>3. ASSUME NEW p \in Acquirers, Acquire(p) \/ Enter(p) \/ CancelAcquirer(p)
      PROVE  ClientInv'
  BY <1>3, EnterKeeps, CancelAcquirerKeeps
<1>4. ASSUME NEW o \in Owners,
             \/ OwnerStep(o) \/ CancelOwner(o)
             \/ \E what \in {"start", "close"} : Call(o, what)
      PROVE  ClientInv'
  BY <1>4, OwnerKeeps
<1>5. CASE Answer \/ Lost \/ Tick \/ \E b \in 1..Blocks : Push(b) \/ Age(b)
  BY <1>5, DongleKeeps, TickKeeps
<1> QED BY <1>1, <1>2, <1>3, <1>4, <1>5 DEF Next

LEMMA ClientInvariant == Spec => []ClientInv
<1> QED BY InitClient, NextClient, PTL DEF Spec

-----------------------------------------------------------------------------
(* What follows                                                            *)

(* A close that has completed leaves no connection, no recovery and no     *)
(* acquisition, for any number of owners and acquirers that overlap it and *)
(* whichever of them is cancelled.                                         *)
THEOREM CloseDrains == Spec => []ClosedQuiet
<1>1. ClientInv => ClosedQuiet
  BY DEF ClientInv, Closing, ClosedQuiet
<1> QED BY <1>1, ClientInvariant, PTL

(* A recovery waits and dials only after the connection it replaces is     *)
(* gone; and the variables have their types.                               *)
THEOREM ReconnectsClean == Spec => []CleanReconnect
<1>1. ClientInv => CleanReconnect
  BY TypeInvImplies DEF ClientInv, Fenced, CleanReconnect
<1> QED BY <1>1, ClientInvariant, PTL

(* The rolling budget holds for every policy: whatever ends acquisitions,  *)
(* however often the client is closed and started, any MaxPerWindow + 1    *)
(* reconnects in a row take longer than the window.                        *)
THEOREM BudgetKept == Spec => []RecoveriesSpaced
<1>1. ClientInv => RecoveriesSpaced
  BY DEF ClientInv, Book, Spaced, RecoveriesSpaced
<1> QED BY <1>1, ClientInvariant, PTL

(* The only steps with which an acquisition ends are those of the acquirer *)
(* inside that leave the loop, or its cancellation.                        *)
LEMMA Departures ==
    ASSUME ClientInv, [Next]_vars, stage # "out", stage' = "out"
    PROVE  Moves
<1>1. ASSUME UNCHANGED stage PROVE FALSE
  BY <1>1
<1>2. CASE UNCHANGED vars
  BY <1>1, <1>2 DEF vars, place
<1>3. CASE AcquirerStep \/ TimeOut
  <2>1. CASE Begin \/ Resume \/ CloseDone \/ CooldownStopped
    BY <2>1, BeginMoves, ResumeMoves, CloseDoneMoves, CooldownStoppedMoves
  <2>2. CASE CloseTurn \/ TimeOut
    BY <2>2 DEF CloseTurn, TimeOut, GiveUp, Close
  <2>3. CASE Dial
    BY <2>3 DEF Dial
  <2>4. CASE DialOk
    BY <2>4, DialOkMoves DEF DialOk
  <2>5. CASE DialFail
    BY <2>5, DialFailMoves
  <2> QED BY <1>3, <2>1, <2>2, <2>3, <2>4, <2>5 DEF AcquirerStep
<1>4. ASSUME NEW p \in Acquirers, Acquire(p) \/ Enter(p) PROVE Moves
  BY <1>4, <1>1 DEF Acquire, Enter, place
<1>5. ASSUME NEW p \in Acquirers, CancelAcquirer(p) PROVE Moves
  <2>1. CASE UNCHANGED place
    BY <2>1, <1>1 DEF place
  <2>2. CASE GiveUp("cancelled")
    BY <2>2 DEF GiveUp, Close
  <2>3. CASE stage \in {"begin", "cooldown", "close"} /\ Cancelled
             /\ UNCHANGED <<session, waiting>>
    BY <1>5, <2>3, CancelledMoves DEF CancelAcquirer, session
  <2>4. CASE stage \in {"dialing", "closing"} /\ Cancelled /\ sessionLock' = None
             /\ UNCHANGED <<live, refusal, waiting>>
    BY <1>5, <2>4, CancelledMoves DEF CancelAcquirer
  <2> QED BY <1>5, <2>1, <2>2, <2>3, <2>4 DEF CancelAcquirer
<1>6. ASSUME NEW o \in Owners,
             \/ OwnerStep(o) \/ CancelOwner(o)
             \/ \E what \in {"start", "close"} : Call(o, what)
      PROVE  UNCHANGED stage
  BY <1>6 DEF OwnerStep, CancelOwner, Call, StartTurn, StartDrained, StartDial, StartOk,
              StartFailed, Stop, StopTurn, StopDone, StopDrained, Inside, place
<1>7. CASE Answer \/ Lost \/ Tick \/ \E b \in 1..Blocks : Push(b) \/ Age(b)
  BY <1>7, <1>1 DEF Answer, Lost, Tick, Push, Age, place
<1> QED BY <1>1, <1>2, <1>3, <1>4, <1>5, <1>6, <1>7 DEF Next

(* A snapshot is returned only by the run of the client it was asked from: *)
(* a close or a restart of the client that comes between makes the         *)
(* acquisition fail, for any interleaving of any number of owners.         *)
THEOREM SnapshotsOfOwnRun == Spec => OwnRun
<1>1. ClientInv /\ [Next]_vars
      => [stage # "out" /\ stage' = "out" /\ ended' = "ok"
          => started /\ epoch = entered']_vars
  <2> SUFFICES ASSUME ClientInv, [Next]_vars, stage # "out", stage' = "out", ended' = "ok"
               PROVE  started /\ epoch = entered'
    OBVIOUS
  <2>1. Moves
    BY Departures
  <2>2. Out
    BY <2>1 DEF Moves, Ending, Cooling, Reading
  <2>3. started
    BY <2>2 DEF Out
  <2>4. epoch = entered'
    BY <2>1 DEF Moves, ClientInv, SameRun
  <2> QED BY <2>3, <2>4
<1> QED BY <1>1, ClientInvariant, PTL DEF Spec, OwnRun

(* Every recovery leaves one event when its acquisition ends.  Of an       *)
(* acquisition that may reconnect more than once this is false: the second *)
(* recovery takes the place of the first, which is never recorded.         *)
THEOREM RecoveriesRecorded ==
    ASSUME MaxReconnects = 1 PROVE Spec => EpisodesRecorded
<1>1. ClientInv /\ [Next]_vars
      => [stage # "out" /\ stage' = "out" /\ ~(ended' = "cancelled" /\ cause = "undo")
          => unrecorded' = unrecorded - (IF active THEN 1 ELSE 0)]_vars
  <2> SUFFICES ASSUME ClientInv, [Next]_vars, stage # "out", stage' = "out",
                      ~(ended' = "cancelled" /\ cause = "undo")
               PROVE  Told
    BY DEF Told
  <2>1. Moves /\ Ending
    BY Departures DEF Moves, Ending, Cooling, Reading
  <2>2. CASE UNCHANGED unrecorded /\ reconnects < MaxReconnects
    <3>1. reconnects \in Nat /\ unrecorded \in Nat
      BY DEF ClientInv, TypeInv, SpentType, RecoveryType
    <3>2. ~active
      BY <2>2, <3>1 DEF ClientInv, Working
    <3> QED BY <2>2, <3>1, <3>2 DEF Told
  <2> QED BY <2>1, <2>2 DEF Ending
<1> QED BY <1>1, ClientInvariant, PTL DEF Spec, EpisodesRecorded

=============================================================================
