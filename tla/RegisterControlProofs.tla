------------------------- MODULE RegisterControlProofs -------------------------
(***************************************************************************)
(* Proofs about RegisterControl for any controls, faults, retries and      *)
(* bounds: what a confirmed write set stays set, in the inverter, in the   *)
(* cache and on display.                                                   *)
(***************************************************************************)
EXTENDS RegisterControl, TLAPS

-----------------------------------------------------------------------------
(* The two locks: a control inside a write holds the write lock, and       *)
(* whoever has a connection open holds the lock of the connection.         *)
Writing(c) == write[c] \in {"wait", "sent", "reread"}
Polling == poll \in {"input", "battery", "hold", "close"}
WriterAlone == \A c \in Controls : Writing(c) <=> writeLock = c
OneConnection ==
    /\ Polling <=> lock = Poller
    /\ \A c \in Controls : write[c] \in {"sent", "reread"} <=> lock = c

(* A word agrees with every confirmed write; while there is one it is      *)
(* known.                                                                  *)
Agrees(w) ==
    \A c \in Controls : confirmed[c] # None => w # None /\ (c \in w <=> confirmed[c])

(* The word a control is writing has its own bit as asked for and all      *)
(* others as confirmed, while its own counts as unconfirmed.               *)
Composed ==
    \A c \in Controls : Writing(c) =>
        /\ confirmed[c] = None /\ Agrees(word[c])
        /\ c \in word[c] <=> target[c]
AckTaken ==
    \A c \in Controls : write[c] = "reread" => inverter = word[c] /\ holdCache = word[c]

(* What a poll has read is still so when it is merged.                     *)
ReadStands == "hold" \in got /\ Polling => poll = "close" /\ newHold = inverter

(* No entity can be called before the entry is set up.                     *)
SetupQuiet ==
    status = "setup" => \A c \in Controls : write[c] = "idle" /\ confirmed[c] = None

CacheTrue == holdCache # None /\ ~unsure => holdCache = inverter

-----------------------------------------------------------------------------
(* Types                                                                   *)
WorldType ==
    /\ inverter \in SUBSET Controls /\ unsure \in BOOLEAN
    /\ confirmed \in [Controls -> BOOLEAN \cup {None}]
ClientType ==
    /\ holdCache \in {None} \cup SUBSET Controls /\ age \in Nat \cup {None}
    /\ force \in BOOLEAN /\ sinceHold \in 0..(HoldEvery - 1)
    /\ failures \in Nat /\ emptyPolls \in Nat /\ backoff \in Nat
PassType ==
    /\ poll \in {"rest", "wait", "retry", "input", "battery", "hold", "close"}
    /\ attempt \in 0..Retries /\ asked \in BOOLEAN /\ requested \in BOOLEAN
    /\ got \subseteq {"input", "hold"} /\ newHold \in {None} \cup SUBSET Controls
    /\ poll = "retry" => attempt < Retries
CoordinatorType ==
    /\ status \in {"setup", "live", "unavailable"}
    /\ shown \in {None} \cup SUBSET Controls /\ failed \in Nat
    /\ recovering \in BOOLEAN /\ interval \in {PollInterval, 15, 30, 60}
WritingType ==
    /\ writeLock \in Controls \cup {None}
    /\ write \in [Controls -> {"idle", "queued", "wait", "sent", "reread"}]
    /\ target \in [Controls -> BOOLEAN] /\ word \in [Controls -> SUBSET Controls]
    /\ tries \in [Controls -> 0..Retries]
LockType == lock \in Controls \cup {Poller, None}
BoundType == polls \in 0..MaxPolls /\ writes \in 0..MaxWrites

(* TypeOK by parts; a retry is due only while attempts are left.           *)
TypeInv ==
    /\ WorldType /\ ClientType /\ PassType /\ CoordinatorType
    /\ WritingType /\ LockType /\ BoundType

LEMMA TypeInvImplies == TypeInv => TypeOK
BY DEF TypeInv, TypeOK, WorldType, ClientType, PassType, CoordinatorType, WritingType,
       LockType, BoundType

LEMMA UnchangedParts ==
    /\ WorldType /\ UNCHANGED world => WorldType'
    /\ ClientType /\ UNCHANGED client => ClientType'
    /\ PassType /\ UNCHANGED pass => PassType'
    /\ CoordinatorType /\ UNCHANGED coordinator => CoordinatorType'
    /\ WritingType /\ UNCHANGED writing => WritingType'
    /\ LockType /\ UNCHANGED lock => LockType'
    /\ BoundType /\ UNCHANGED <<polls, writes>> => BoundType'
BY DEF WorldType, ClientType, PassType, CoordinatorType, WritingType, LockType, BoundType,
       world, client, pass, coordinator, writing

(* What the coordinator makes of an outcome keeps its types.               *)
LEMMA UpdatedTypes ==
    ASSUME CoordinatorType, NEW w \in {None} \cup SUBSET Controls, Updated(w)
    PROVE  CoordinatorType'
BY DEF CoordinatorType, Updated

LEMMA AttemptFailedTypes ==
    ASSUME TypeInv, AttemptFailed, PassOver, UNCHANGED <<attempt, requested>>
    PROVE  ClientType' /\ PassType' /\ CoordinatorType'
<1> USE NumberAssumption DEF TypeInv
<1>p. PassType'
  BY DEF AttemptFailed, PassOver, PassType
<1>1. CASE attempt < Retries
  BY <1>p, <1>1, UnchangedParts DEF AttemptFailed
<1>2. CASE ~(attempt < Retries)
  <2>o. Older \in Nat \cup {None} /\ HoldEvery - 1 \in Nat
    BY DEF Older, ClientType
  <2>1. CASE failures' = failures + 1 /\ age' = Older /\ Updated(holdCache)
             /\ UNCHANGED <<holdCache, force, sinceHold, emptyPolls, backoff>>
    BY <1>p, <2>1, <2>o, UpdatedTypes DEF ClientType
  <2>2. CASE failures' = failures + 1 /\ age' = Older /\ UpdateFailed
             /\ UNCHANGED <<holdCache, force, sinceHold, emptyPolls, backoff>>
    <3>1. CoordinatorType'
      BY <2>2 DEF UpdateFailed, RecoveryInterval, CoordinatorType
    <3> QED BY <1>p, <2>2, <2>o, <3>1 DEF ClientType
  <2>3. CASE /\ holdCache' = None /\ age' = None /\ force' = TRUE /\ sinceHold' = 0
             /\ failures' = 0 /\ emptyPolls' = 0 /\ backoff' = 0 /\ UNCHANGED coordinator
    BY <1>p, <2>3, <2>o, UnchangedParts DEF ClientType
  <2> QED BY <1>2, <2>1, <2>2, <2>3 DEF AttemptFailed
<1> QED BY <1>1, <1>2

LEMMA PollTypes ==
    ASSUME TypeInv, PollStep \/ (poll = "rest" /\ PollBegin)
    PROVE  TypeInv'
<1> USE UnchangedParts, NumberAssumption DEF TypeInv
<1>1. CASE PollBegin
  <2>0. sinceHold' \in 0..(HoldEvery - 1)
    <3>1. CASE asked'
      BY <1>1, <3>1 DEF PollBegin, ShouldPollHold
    <3>2. CASE ~asked'
      <4>1. ~(sinceHold + 1 >= HoldEvery) /\ sinceHold' = sinceHold + 1
        BY <1>1, <3>2 DEF PollBegin, ShouldPollHold, DueWithin
      <4> QED BY <4>1 DEF ClientType
    <3> QED BY <3>1, <3>2
  <2>1. ClientType'
    BY <1>1, <2>0 DEF PollBegin, ShouldPollHold, ClientType
  <2>2. PassType' /\ BoundType'
    BY <1>1 DEF PollBegin, ShouldPollHold, DueWithin, PassType, ClientType, BoundType
  <2> QED BY <1>1, <2>1, <2>2 DEF PollBegin
<1>2. CASE PollConnect
  <2>1. PassType' /\ LockType'
    BY <1>2 DEF PollConnect, PassType, LockType
  <2> QED BY <1>2, <2>1 DEF PollConnect
<1>3. CASE PollRefused
  BY <1>3, AttemptFailedTypes DEF PollRefused
<1>4. CASE PollBroken
  <2>1. LockType'
    BY <1>4 DEF PollBroken, Release, Unlock, LockType
  <2> QED BY <1>4, <2>1, AttemptFailedTypes DEF PollBroken
<1>5. ASSUME NEW r \in Replies, PollInput(r) PROVE TypeInv'
  <2>1. ClientType'
    BY <1>5 DEF PollInput, CountBackoff, ClientType
  <2>2. PassType'
    BY <1>5 DEF PollInput, AfterBattery, PassType
  <2> QED BY <1>5, <2>1, <2>2 DEF PollInput
<1>6. ASSUME NEW r \in Replies, PollBattery(r) PROVE TypeInv'
  <2>1. ClientType'
    BY <1>6 DEF PollBattery, ClientType
  <2>2. PassType'
    BY <1>6 DEF PollBattery, AfterBattery, PassType
  <2> QED BY <1>6, <2>1, <2>2 DEF PollBattery
<1>7. ASSUME NEW r \in Replies, PollHold(r) PROVE TypeInv'
  <2>1. PassType'
    BY <1>7 DEF PollHold, PassType, WorldType
  <2> QED BY <1>7, <2>1 DEF PollHold
<1>8. CASE PollEnd
  <2>0. MergedHold \in {None} \cup SUBSET Controls
    BY DEF MergedHold, PassType, ClientType
  <2>1. ClientType'
    BY <1>8, <2>0 DEF PollEnd, Older, ClientType
  <2>2. PassType' /\ LockType' /\ WorldType'
    BY <1>8 DEF PollEnd, PassOver, Release, Unlock, PassType, LockType, WorldType
  <2>3. CoordinatorType'
    BY <1>8, <2>0, UpdatedTypes DEF PollEnd
  <2> QED BY <1>8, <2>1, <2>2, <2>3 DEF PollEnd
<1> QED BY <1>1, <1>2, <1>3, <1>4, <1>5, <1>6, <1>7, <1>8 DEF PollStep

LEMMA TryFailedTypes ==
    ASSUME TypeInv, NEW c \in Controls, TryFailed(c) \/ WriteFailed(c)
    PROVE  WritingType'
<1> USE NumberAssumption DEF TypeInv, WriteRelease, WritingType
<1>1. CASE WriteFailed(c)
  BY <1>1 DEF WriteFailed, WriteOver
<1>2. CASE TryFailed(c) /\ tries[c] < Retries
  BY <1>2 DEF TryFailed
<1> QED BY <1>1, <1>2 DEF TryFailed

LEMMA WriteTypes ==
    ASSUME TypeInv, NEW c \in Controls,
           WriteStep(c) \/ \E bit \in BOOLEAN : Call(c, bit)
    PROVE  TypeInv'
<1> USE UnchangedParts, NumberAssumption DEF TypeInv
<1>1. ASSUME NEW bit \in BOOLEAN, Call(c, bit) PROVE TypeInv'
  <2>1. WritingType' /\ BoundType'
    BY <1>1 DEF Call, WritingType, BoundType
  <2> QED BY <1>1, <2>1 DEF Call
<1>2. CASE WriteBegin(c)
  <2>0. Compose(c) \in SUBSET Controls
    BY DEF Compose, Current, CoordinatorType
  <2>1. WritingType' /\ WorldType'
    BY <1>2, <2>0 DEF WriteBegin, WritingType, WorldType
  <2> QED BY <1>2, <2>1 DEF WriteBegin
<1>3. CASE WriteConnect(c)
  <2>1. WritingType' /\ LockType'
    BY <1>3 DEF WriteConnect, WritingType, LockType
  <2> QED BY <1>3, <2>1 DEF WriteConnect
<1>4. CASE WriteRefused(c)
  BY <1>4, TryFailedTypes DEF WriteRefused
<1>5. CASE WriteLost(c) \/ WriteRejected(c)
  <2>1. WritingType' /\ LockType'
    BY <1>5, TryFailedTypes DEF WriteLost, WriteRejected, Release, Unlock, LockType
  <2>2. WorldType'
    BY <1>5 DEF WriteLost, WriteRejected, world, WorldType, WritingType
  <2> QED BY <1>5, <2>1, <2>2 DEF WriteLost, WriteRejected
<1>6. CASE WriteAcked(c) \/ WriteMistaken(c)
  <2>1. WorldType' /\ ClientType' /\ WritingType'
    BY <1>6 DEF WriteAcked, WriteMistaken, Acknowledged, Echoed, WorldType, ClientType,
                WritingType
  <2> QED BY <1>6, <2>1 DEF WriteAcked, WriteMistaken
<1>7. ASSUME NEW r \in Replies, WriteDone(c, r) PROVE TypeInv'
  <2>1. ClientType' /\ WorldType' /\ LockType'
    BY <1>7 DEF WriteDone, Release, Unlock, ClientType, WorldType, WritingType, LockType
  <2>2. CoordinatorType' /\ WritingType'
    BY <1>7, <2>1 DEF WriteDone, WriteOver, WriteRelease, CoordinatorType, WritingType, ClientType
  <2> QED BY <1>7, <2>1, <2>2 DEF WriteDone
<1> QED BY <1>1, <1>2, <1>3, <1>4, <1>5, <1>6, <1>7 DEF WriteStep

LEMMA NextTypes == TypeInv /\ [Next]_vars => TypeInv'
<1>1. TypeInv /\ UNCHANGED vars => TypeInv'
  BY UnchangedParts DEF TypeInv, vars
<1> QED BY <1>1, PollTypes, WriteTypes DEF Next

LEMMA InitTypes == Init => TypeInv
<1> SUFFICES ASSUME Init PROVE TypeInv
  OBVIOUS
<1>1. WorldType
  BY DEF Init, WorldType
<1>2. ClientType /\ PassType /\ CoordinatorType
  <2>1. 0 \in 0..(HoldEvery - 1) /\ 0 \in 0..Retries
    BY NumberAssumption
  <2> QED BY <2>1, NumberAssumption DEF Init, ClientType, PassType, CoordinatorType
<1>3. WritingType /\ LockType /\ BoundType
  BY NumberAssumption DEF Init, WritingType, LockType, BoundType
<1> QED BY <1>1, <1>2, <1>3 DEF TypeInv

-----------------------------------------------------------------------------
(* The invariant of the locks, the confirmed writes and the cache. *)
KeptInv ==
    /\ TypeInv /\ WriterAlone /\ OneConnection
    /\ Agrees(inverter) /\ Agrees(holdCache) /\ Agrees(shown)
    /\ Composed /\ AckTaken /\ ReadStands /\ SetupQuiet /\ CacheTrue

(* What a step of the polling task cannot disturb: it writes neither the   *)
(* inverter nor a control's word.                                          *)
LEMMA PollFrame ==
    ASSUME KeptInv, UNCHANGED <<inverter, confirmed, writing>>
    PROVE  WriterAlone' /\ Agrees(inverter)' /\ Composed'
BY DEF KeptInv, writing, WriterAlone, Writing, Agrees, Composed

(* A poll that keeps the cache, what is shown and the entry's status keeps *)
(* what is said of them.                                                   *)
LEMMA CacheFrame ==
    ASSUME KeptInv, UNCHANGED <<world, writing, holdCache, shown, status>>
    PROVE  /\ Agrees(holdCache)' /\ Agrees(shown)'
           /\ AckTaken' /\ SetupQuiet' /\ CacheTrue'
BY DEF KeptInv, world, writing, Agrees, AckTaken, SetupQuiet, CacheTrue

LEMMA AttemptFailedKept ==
    ASSUME KeptInv, AttemptFailed, UNCHANGED <<world, writing>>
    PROVE  /\ Agrees(holdCache)' /\ Agrees(shown)'
           /\ AckTaken' /\ SetupQuiet' /\ CacheTrue'
           /\ poll' \in {"rest", "retry"}
<1>p. poll' \in {"rest", "retry"}
  BY DEF AttemptFailed
<1>1. CASE UNCHANGED <<client, coordinator>>
  BY <1>p, <1>1, CacheFrame DEF client, coordinator
<1>2. CASE Updated(holdCache) /\ UNCHANGED holdCache
  BY <1>p, <1>2 DEF Updated, KeptInv, world, writing, Agrees, AckTaken, SetupQuiet, CacheTrue
<1>3. CASE UpdateFailed /\ UNCHANGED holdCache
  BY <1>p, <1>3
     DEF UpdateFailed, KeptInv, world, writing, Agrees, AckTaken, SetupQuiet, CacheTrue
<1>4. CASE status = "setup" /\ holdCache' = None /\ UNCHANGED coordinator
  <2>1. \A c \in Controls : confirmed'[c] = None /\ write'[c] = "idle"
    BY <1>4 DEF KeptInv, SetupQuiet, world, writing
  <2> QED BY <1>p, <1>4, <2>1
             DEF coordinator, Agrees, AckTaken, SetupQuiet, CacheTrue
<1> QED BY <1>1, <1>2, <1>3, <1>4 DEF AttemptFailed

(* Nobody who is not the poller holds its lock: while a pass runs, no      *)
(* control has a connection open.                                          *)
LEMMA PollerHolds ==
    ASSUME KeptInv, Polling
    PROVE  lock = Poller /\ \A c \in Controls : write[c] \notin {"sent", "reread"}
BY NameAssumption DEF KeptInv, OneConnection

LEMMA WriterHolds ==
    ASSUME KeptInv, NEW c \in Controls, write[c] \in {"sent", "reread"}
    PROVE  /\ lock = c /\ ~Polling /\ writeLock = c /\ Writing(c)
           /\ \A d \in Controls \ {c} : ~Writing(d)
BY NameAssumption DEF KeptInv, OneConnection, WriterAlone, Writing

LEMMA PollKeeps ==
    ASSUME KeptInv, PollStep \/ (poll = "rest" /\ PollBegin)
    PROVE  KeptInv'
<1>t. TypeInv'
  BY PollTypes DEF KeptInv
<1>1. CASE PollBegin
  <2>1. OneConnection' /\ ReadStands'
    BY <1>1 DEF PollBegin, KeptInv, OneConnection, Polling, ReadStands, writing
  <2> QED BY <1>1, <1>t, <2>1, PollFrame, CacheFrame DEF PollBegin, KeptInv, world, coordinator
<1>2. CASE PollConnect
  <2>1. OneConnection' /\ ReadStands'
    BY <1>2, NameAssumption
       DEF PollConnect, KeptInv, OneConnection, Polling, ReadStands, writing
  <2> QED BY <1>2, <1>t, <2>1, PollFrame, CacheFrame
             DEF PollConnect, KeptInv, world, client, coordinator
<1>3. CASE PollRefused
  <2>1. OneConnection' /\ ReadStands'
    BY <1>3, AttemptFailedKept
       DEF PollRefused, KeptInv, OneConnection, Polling, ReadStands, writing
  <2> QED BY <1>3, <1>t, <2>1, PollFrame, AttemptFailedKept DEF PollRefused, KeptInv, world
<1>4. CASE PollBroken
  <2>1. OneConnection' /\ ReadStands'
    BY <1>4, AttemptFailedKept, PollerHolds, NameAssumption
       DEF PollBroken, Release, Unlock, KeptInv, OneConnection, Polling, ReadStands, writing
  <2> QED BY <1>4, <1>t, <2>1, PollFrame, AttemptFailedKept DEF PollBroken, KeptInv, world
<1>5. ASSUME NEW r \in Replies, PollInput(r) \/ PollBattery(r) PROVE KeptInv'
  <2>1. OneConnection' /\ ReadStands'
    BY <1>5 DEF PollInput, PollBattery, AfterBattery, KeptInv, OneConnection, Polling,
                ReadStands, writing
  <2> QED BY <1>5, <1>t, <2>1, PollFrame, CacheFrame
             DEF PollInput, PollBattery, KeptInv, world, coordinator
<1>6. ASSUME NEW r \in Replies, PollHold(r) PROVE KeptInv'
  <2>1. OneConnection' /\ ReadStands'
    BY <1>6 DEF PollHold, KeptInv, OneConnection, Polling, ReadStands, writing, world
  <2> QED BY <1>6, <1>t, <2>1, PollFrame, CacheFrame
             DEF PollHold, KeptInv, world, client, coordinator
<1>7. CASE PollEnd
  <2>1. OneConnection' /\ ReadStands'
    BY <1>7, PollerHolds, NameAssumption
       DEF PollEnd, PassOver, Release, Unlock, KeptInv, OneConnection, Polling, ReadStands, writing
  <2>2. ("hold" \in got => MergedHold = inverter)
        /\ ("hold" \notin got => MergedHold = holdCache)
    BY <1>7 DEF PollEnd, MergedHold, KeptInv, ReadStands, Polling
  <2>3. Agrees(MergedHold)
    BY <2>2 DEF KeptInv
  <2>4. Agrees(holdCache)' /\ Agrees(shown)'
    BY <1>7, <2>3 DEF PollEnd, Updated, Agrees
  <2>5. AckTaken'
    BY <1>7, PollerHolds DEF PollEnd, AckTaken, Polling, writing
  <2>6. SetupQuiet'
    BY <1>7 DEF PollEnd, Updated, SetupQuiet
  <2>7. CacheTrue'
    BY <1>7, <2>2 DEF PollEnd, KeptInv, CacheTrue
  <2> QED BY <1>7, <1>t, <2>1, <2>4, <2>5, <2>6, <2>7, PollFrame DEF PollEnd, KeptInv
<1> QED BY <1>1, <1>2, <1>3, <1>4, <1>5, <1>6, <1>7 DEF PollStep

-----------------------------------------------------------------------------
(* Steps of the writers                                                    *)

(* A write step that leaves the polling task, the coordinator, the cache   *)
(* and the inverter alone keeps what is said of them.                      *)
LEMMA WriteFrame ==
    ASSUME KeptInv, UNCHANGED <<world, client, pass, coordinator>>
    PROVE  /\ Agrees(inverter)' /\ Agrees(holdCache)' /\ Agrees(shown)'
           /\ CacheTrue' /\ (Polling <=> Polling') /\ ReadStands'
BY DEF KeptInv, world, client, pass, coordinator, Agrees, CacheTrue, Polling, ReadStands

(* An attempt that failed: tried again or given up.                        *)
LEMMA TryFailedKept ==
    ASSUME KeptInv, NEW c \in Controls, TryFailed(c) \/ WriteFailed(c),
           Writing(c), UNCHANGED <<confirmed, status>>
    PROVE  /\ WriterAlone' /\ Composed' /\ SetupQuiet'
           /\ write'[c] \in {"wait", "idle"}
           /\ \A d \in Controls \ {c} : write'[d] = write[d] /\ word'[d] = word[d]
<1>1. /\ write'[c] \in {"wait", "idle"}
      /\ \A d \in Controls \ {c} : write'[d] = write[d]
      /\ writeLock' = IF write'[c] = "idle" THEN None ELSE writeLock
      /\ \A d \in Controls \ {c} : target'[d] = target[d] /\ word'[d] = word[d]
      /\ write'[c] = "wait" => target'[c] = target[c] /\ word'[c] = word[c]
  BY DEF TryFailed, WriteFailed, WriteOver, WriteRelease, KeptInv, TypeInv, WritingType
<1>2. writeLock = c /\ \A d \in Controls \ {c} : ~Writing(d)
  BY DEF KeptInv, WriterAlone
<1>3. WriterAlone'
  BY <1>1, <1>2, NameAssumption DEF WriterAlone, Writing
<1>4. Composed'
  BY <1>1, <1>2 DEF KeptInv, Composed, Writing, Agrees
<1>5. SetupQuiet'
  BY <1>1 DEF KeptInv, SetupQuiet, Writing
<1> QED BY <1>1, <1>3, <1>4, <1>5

LEMMA CallKeeps ==
    ASSUME KeptInv, NEW c \in Controls, NEW bit \in BOOLEAN, Call(c, bit)
    PROVE  KeptInv'
<1>t. TypeInv'
  BY WriteTypes DEF KeptInv
<1>1. /\ write[c] = "idle" /\ write'[c] = "queued"
      /\ \A d \in Controls \ {c} : write'[d] = write[d] /\ target'[d] = target[d]
      /\ UNCHANGED <<writeLock, word, lock>>
  BY DEF Call, KeptInv, TypeInv, WritingType
<1>2. WriterAlone'
  BY <1>1 DEF KeptInv, WriterAlone, Writing
<1>3. OneConnection'
  BY <1>1, WriteFrame DEF Call, KeptInv, OneConnection
<1>4. Composed'
  BY <1>1 DEF Call, KeptInv, Composed, Writing, Agrees, world
<1>5. AckTaken' /\ SetupQuiet'
  BY <1>1 DEF Call, KeptInv, AckTaken, SetupQuiet, world, client, coordinator
<1> QED BY <1>t, <1>2, <1>3, <1>4, <1>5, WriteFrame DEF Call, KeptInv

LEMMA WriteBeginKeeps ==
    ASSUME KeptInv, NEW c \in Controls, WriteBegin(c)
    PROVE  KeptInv'
<1>t. TypeInv'
  BY WriteTypes DEF KeptInv, WriteStep
<1>1. /\ write[c] = "queued" /\ write'[c] = "wait" /\ writeLock = None /\ writeLock' = c
      /\ \A d \in Controls \ {c} : write'[d] = write[d] /\ word'[d] = word[d]
      /\ word'[c] = Compose(c) /\ confirmed'[c] = None
      /\ \A d \in Controls \ {c} : confirmed'[d] = confirmed[d]
      /\ UNCHANGED <<inverter, unsure, client, lock, pass, coordinator, target>>
  BY DEF WriteBegin, WriteLockFree, KeptInv, TypeInv, WritingType, WorldType
<1>2. \A d \in Controls : ~Writing(d)
  BY <1>1, NameAssumption DEF KeptInv, WriterAlone
<1>3. WriterAlone'
  BY <1>1, <1>2, NameAssumption DEF WriterAlone, Writing
<1>4. OneConnection' /\ ReadStands'
  BY <1>1 DEF KeptInv, OneConnection, Polling, ReadStands, pass
<1>5. Agrees(inverter)' /\ Agrees(holdCache)' /\ Agrees(shown)'
  BY <1>1 DEF KeptInv, Agrees, client, coordinator
<1>6. Composed'
  <2>1. c \in Compose(c) <=> target[c]
    BY DEF Compose
  <2>2. \A d \in Controls \ {c} : confirmed[d] # None => (d \in Compose(c) <=> confirmed[d])
    BY DEF Compose, Current, KeptInv, Agrees
  <2>3. Compose(c) # None
    BY NameAssumption DEF Compose, Current, KeptInv, TypeInv, CoordinatorType
  <2> QED BY <1>1, <1>2, <2>1, <2>2, <2>3 DEF Composed, Writing, Agrees
<1>7. AckTaken' /\ SetupQuiet' /\ CacheTrue'
  BY <1>1 DEF KeptInv, AckTaken, SetupQuiet, CacheTrue, client, coordinator
<1> QED BY <1>t, <1>3, <1>4, <1>5, <1>6, <1>7 DEF KeptInv

LEMMA WriteConnectKeeps ==
    ASSUME KeptInv, NEW c \in Controls, WriteConnect(c) \/ WriteRefused(c)
    PROVE  KeptInv'
<1>t. TypeInv'
  BY WriteTypes DEF KeptInv, WriteStep
<1>f. /\ UNCHANGED <<world, client, pass, coordinator>>
      /\ UNCHANGED <<confirmed, inverter, holdCache, status>>
      /\ write[c] = "wait" /\ lock = None /\ Writing(c)
  BY DEF WriteConnect, WriteRefused, Writing, world, client, coordinator
<1>1. CASE WriteConnect(c)
  <2>1. /\ write'[c] = "sent" /\ lock' = c
        /\ \A d \in Controls \ {c} : write'[d] = write[d]
        /\ UNCHANGED <<writeLock, target, word>>
    BY <1>1 DEF WriteConnect, KeptInv, TypeInv, WritingType
  <2>w. \A d \in Controls : Writing(d)' <=> Writing(d)
    BY <2>1, <1>f DEF Writing
  <2>2. WriterAlone' /\ Composed'
    BY <2>1, <2>w, <1>f DEF KeptInv, WriterAlone, Composed, Agrees
  <2>3. OneConnection'
    BY <2>1, <1>f, WriteFrame, NameAssumption DEF KeptInv, OneConnection
  <2>4. AckTaken' /\ SetupQuiet'
    BY <2>1, <1>f DEF KeptInv, AckTaken, SetupQuiet, Writing
  <2> QED BY <1>t, <1>f, <2>2, <2>3, <2>4, WriteFrame DEF KeptInv
<1>2. CASE WriteRefused(c)
  <2>1. /\ WriterAlone' /\ Composed' /\ SetupQuiet'
        /\ write'[c] \in {"wait", "idle"}
        /\ \A d \in Controls \ {c} : write'[d] = write[d] /\ word'[d] = word[d]
    BY <1>2, <1>f, TryFailedKept DEF WriteRefused, world, coordinator
  <2>2. OneConnection'
    BY <1>2, <1>f, <2>1, WriteFrame, NameAssumption DEF WriteRefused, KeptInv, OneConnection
  <2>3. AckTaken'
    BY <1>f, <2>1 DEF KeptInv, AckTaken
  <2> QED BY <1>t, <1>f, <2>1, <2>2, <2>3, WriteFrame DEF KeptInv
<1> QED BY <1>1, <1>2

LEMMA WriteLostKeeps ==
    ASSUME KeptInv, NEW c \in Controls, WriteLost(c) \/ WriteRejected(c)
    PROVE  KeptInv'
<1>t. TypeInv'
  BY WriteTypes DEF KeptInv, WriteStep
<1>1. /\ inverter' \in {inverter, word[c]} /\ (inverter' # inverter => unsure')
      /\ (unsure => unsure') /\ lock' = None
      /\ UNCHANGED <<confirmed, client, pass, coordinator>>
      /\ write[c] = "sent" /\ (TryFailed(c) \/ WriteFailed(c))
  BY DEF WriteLost, WriteRejected, Release, Unlock, world
<1>2. /\ lock = c /\ ~Polling /\ writeLock = c /\ Writing(c)
      /\ \A d \in Controls \ {c} : ~Writing(d)
  BY <1>1, WriterHolds
<1>3. /\ WriterAlone' /\ Composed' /\ SetupQuiet'
      /\ write'[c] \in {"wait", "idle"}
      /\ \A d \in Controls \ {c} : write'[d] = write[d]
  BY <1>1, <1>2, TryFailedKept DEF coordinator
<1>4. OneConnection' /\ ReadStands' /\ AckTaken'
  BY <1>1, <1>2, <1>3, NameAssumption
     DEF OneConnection, ReadStands, AckTaken, Polling, Writing, pass
<1>5. Agrees(inverter)' /\ Agrees(holdCache)' /\ Agrees(shown)'
  BY <1>1, <1>2 DEF KeptInv, Composed, Agrees, client, coordinator
<1>6. CacheTrue'
  BY <1>1, <1>t DEF KeptInv, CacheTrue, client
<1> QED BY <1>t, <1>3, <1>4, <1>5, <1>6 DEF KeptInv

LEMMA WriteAckedKeeps ==
    ASSUME KeptInv, NEW c \in Controls, WriteAcked(c)
    PROVE  KeptInv'
<1>t. TypeInv'
  BY WriteTypes DEF KeptInv, WriteStep
<1>1. /\ inverter' = word[c] /\ holdCache' = word[c] /\ UNCHANGED <<confirmed, lock, pass>>
      /\ write[c] = "sent" /\ write'[c] = "reread" /\ UNCHANGED <<status, shown>>
      /\ \A d \in Controls \ {c} : write'[d] = write[d]
      /\ UNCHANGED <<writeLock, target, word>>
  BY DEF WriteAcked, Acknowledged, Echoed, KeptInv, TypeInv, WritingType, coordinator
<1>2. /\ lock = c /\ ~Polling /\ writeLock = c /\ Writing(c)
      /\ \A d \in Controls \ {c} : ~Writing(d)
  BY <1>1, WriterHolds
<1>3. WriterAlone' /\ Composed' /\ SetupQuiet'
  BY <1>1 DEF KeptInv, WriterAlone, Composed, SetupQuiet, Writing, Agrees
<1>4. OneConnection' /\ ReadStands' /\ AckTaken'
  BY <1>1, <1>2 DEF KeptInv, OneConnection, ReadStands, AckTaken, Polling, Writing, pass
<1>5. Agrees(inverter)' /\ Agrees(holdCache)' /\ Agrees(shown)'
  BY <1>1, <1>2 DEF KeptInv, Composed, Agrees
<1>6. CacheTrue'
  BY <1>1 DEF CacheTrue
<1> QED BY <1>t, <1>3, <1>4, <1>5, <1>6 DEF KeptInv

LEMMA WriteDoneKeeps ==
    ASSUME KeptInv, NEW c \in Controls, NEW r \in Replies, WriteDone(c, r)
    PROVE  KeptInv'
<1>t. TypeInv'
  BY WriteTypes DEF KeptInv, WriteStep
<1>1. /\ write[c] = "reread" /\ write'[c] = "idle"
      /\ \A d \in Controls \ {c} : write'[d] = write[d] /\ confirmed'[d] = confirmed[d]
      /\ confirmed'[c] = target[c] /\ holdCache' \in {inverter, holdCache}
      /\ shown' = holdCache' /\ status' = "live" /\ lock' = None /\ writeLock' = None
      /\ UNCHANGED <<inverter, pass>>
  BY DEF WriteDone, WriteOver, Release, Unlock, WriteRelease, KeptInv, TypeInv, WritingType, WorldType
<1>2. /\ lock = c /\ ~Polling /\ writeLock = c /\ Writing(c)
      /\ \A d \in Controls \ {c} : ~Writing(d)
  BY <1>1, WriterHolds
<1>3. inverter = word[c] /\ holdCache = word[c]
  BY <1>1 DEF KeptInv, AckTaken
<1>4. WriterAlone' /\ Composed' /\ SetupQuiet' /\ AckTaken'
  BY <1>1, <1>2, NameAssumption DEF WriterAlone, Composed, SetupQuiet, AckTaken, Writing
<1>5. OneConnection' /\ ReadStands'
  BY <1>1, <1>2, NameAssumption
     DEF KeptInv, OneConnection, ReadStands, Polling, Writing, pass
<1>6. Agrees(inverter)' /\ Agrees(holdCache)' /\ Agrees(shown)'
  <2>1. c \in word[c] <=> target[c]
    BY <1>2 DEF KeptInv, Composed
  <2>2. word[c] # None
    BY NameAssumption DEF KeptInv, TypeInv, WritingType
  <2>3. \A d \in Controls : confirmed'[d] # None => (d \in word[c] <=> confirmed'[d])
    BY <1>1, <1>2, <2>1 DEF KeptInv, Composed, Agrees
  <2> QED BY <1>1, <1>3, <2>2, <2>3 DEF Agrees
<1>7. CacheTrue'
  BY <1>1, <1>3 DEF CacheTrue
<1> QED BY <1>t, <1>4, <1>5, <1>6, <1>7 DEF KeptInv

LEMMA InitKeeps == Init => KeptInv
<1> SUFFICES ASSUME Init PROVE KeptInv
  OBVIOUS
<1>1. TypeInv
  BY InitTypes
<1>2. WriterAlone /\ OneConnection
  BY NameAssumption DEF Init, WriterAlone, OneConnection, Writing, Polling
<1>3. Agrees(inverter) /\ Agrees(holdCache) /\ Agrees(shown) /\ SetupQuiet
  BY DEF Init, Agrees, SetupQuiet
<1>4. Composed /\ AckTaken /\ ReadStands /\ CacheTrue
  BY DEF Init, Composed, AckTaken, ReadStands, CacheTrue, Writing
<1> QED BY <1>1, <1>2, <1>3, <1>4 DEF KeptInv

(* The inverter's answers on the connection of a write are to that write.  *)
AnswersOwn == "stray" \notin Faults

(* The invariant holds of every step of both tasks.                        *)
LEMMA NextKeeps ==
    ASSUME AnswersOwn
    PROVE  KeptInv /\ [Next]_vars => KeptInv'
<1>1. KeptInv /\ UNCHANGED vars => KeptInv'
  <2> SUFFICES ASSUME KeptInv, UNCHANGED vars PROVE KeptInv'
    OBVIOUS
  <2>1. TypeInv'
    BY NextTypes DEF KeptInv
  <2>2. UNCHANGED <<world, client, lock, pass, coordinator, writing>>
    BY DEF vars
  <2>3. WriterAlone' /\ Composed'
    BY <2>2, PollFrame DEF world
  <2>4. Agrees(inverter)' /\ Agrees(holdCache)' /\ Agrees(shown)' /\ CacheTrue' /\ ReadStands'
    BY <2>2, WriteFrame
  <2>5. OneConnection' /\ AckTaken' /\ SetupQuiet'
    BY <2>2, WriteFrame
       DEF KeptInv, OneConnection, AckTaken, SetupQuiet, world, client, coordinator, writing
  <2> QED BY <2>1, <2>3, <2>4, <2>5 DEF KeptInv
<1>2. ASSUME KeptInv, NEW c \in Controls, WriteStep(c) PROVE KeptInv'
  BY <1>2, WriteBeginKeeps, WriteConnectKeeps, WriteLostKeeps, WriteAckedKeeps,
     WriteDoneKeeps DEF WriteStep, WriteMistaken, AnswersOwn
<1> QED BY <1>1, <1>2, PollKeeps, CallKeeps DEF Next

LEMMA KeptInvariant ==
    ASSUME AnswersOwn
    PROVE  Spec => []KeptInv
<1>1. KeptInv /\ [Next]_vars => KeptInv'
  BY NextKeeps
<1> QED BY <1>1, InitKeeps, PTL DEF Spec

-----------------------------------------------------------------------------
(* What follows                                                            *)

(* The inverter keeps every confirmed write until the same control is      *)
(* written again, for any set of controls, faults, retries and poll        *)
(* periods: the read-modify-writes of one shared register by several       *)
(* entities, with a poll running, undo none of each other.                 *)
THEOREM WritesKept == ASSUME AnswersOwn PROVE Spec => []ConfirmedKept
<1>1. KeptInv => ConfirmedKept
  BY DEF KeptInv, Agrees, ConfirmedKept
<1>2. Spec => []KeptInv
  BY KeptInvariant
<1> QED BY <1>1, <1>2, PTL

(* The coordinator's data shows every confirmed write: neither a poll that *)
(* was waiting for the connection nor the cache a failed poll falls back   *)
(* on brings the old value back.                                           *)
THEOREM WritesShown == ASSUME AnswersOwn PROVE Spec => []ConfirmedShown
<1>1. KeptInv => ConfirmedShown
  BY DEF KeptInv, Agrees, ConfirmedShown
<1>2. Spec => []KeptInv
  BY KeptInvariant
<1> QED BY <1>1, <1>2, PTL

(* The cached word is the inverter's, but after a write of unknown effect; *)
(* and the variables have their types.                                     *)
THEOREM CacheFollows == ASSUME AnswersOwn PROVE Spec => []CacheMatches
<1>1. KeptInv => CacheMatches
  BY TypeInvImplies DEF KeptInv, CacheTrue, CacheMatches
<1>2. Spec => []KeptInv
  BY KeptInvariant
<1> QED BY <1>1, <1>2, PTL

=============================================================================
