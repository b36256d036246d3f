------------------------- MODULE ReadDiagnosticsProofs -------------------------
(***************************************************************************)
(* Proofs about ReadDiagnostics for rings of any length and any number of  *)
(* requests and connections: a request is recorded truly, the events are   *)
(* attributed to the request they belong to, and the context of an episode *)
(* reaches back to the deadline that expired when nobody was dialing.      *)
(***************************************************************************)
EXTENDS ReadDiagnostics, SequenceTheorems, FiniteSetTheorems, TLAPS

Kinds ==
  {"bytes_received", "close_completed", "close_started", "connection_lost",
   "connection_opened", "drain_completed", "drain_deadline_expired", "frame_completed",
   "generation_tainted", "matched_fc4", "modbus_rejected", "old_generation_bytes",
   "other_frame", "pending_failed", "reader_exit", "receive_inactivity_timeout",
   "reply_deadline_expired",
   "request_registered", "request_terminal", "write_returned", "write_started"}
EventSet == [kind : Kinds, generation : Nat, request : Nat, sequence : Nat]
Futures == {"open", "value", "rejected", "lost", "closed"}
Phases == {"drain", "reply", "success", "modbus_rejected", "connection_lost",
           "session_closed"} \cup GivenUp
RequestSet ==
  [phase : Phases, number : Nat, generation : Nat, future : Futures, first : Nat,
   drained : BOOLEAN, matched : BOOLEAN, invalidated : BOOLEAN, deadline : Nat,
   terminal : Nat, ahead : Nat, tailing : Nat, dialed : BOOLEAN]
EpisodeSet == [request : RequestSet, recent : Seq(EventSet)]

-----------------------------------------------------------------------------
(* The session, as the journal sees it                                     *)
TaskSet == [does : {"connect", "close", "request", "lose"}, generation : Nat]
SessionInv ==
  /\ generation \in Nat /\ begun \in Nat /\ others \in Nat /\ connections \in Nat
  /\ active \in 0 .. generation /\ readers \subseteq 1 .. generation
  /\ queue \in Seq(TaskSet) /\ closing \in 0 .. generation
  /\ \A i \in 1 .. Len(queue) : queue[i].generation <= generation
  /\ closing # 0 => /\ Len(queue) >= 1 /\ queue[1].does \in {"close", "request"}
                    /\ active = 0

(* The request that runs: what its phase says of it.                       *)
PhaseInv(q) ==
  /\ q.phase \in {"drain", "reply"} \cup GivenUp
  /\ q.phase \in {"drain", "ambiguous_drain_timeout"} => ~q.drained
  /\ q.phase \in {"reply", "response_timeout"} => q.drained
  /\ q.invalidated <=> q.phase \in GivenUp
  /\ q.matched <=> q.future = "value"
RunningInv ==
  /\ request = NoRequest \/ request \in RequestSet
  /\ Running =>
       /\ request.number = begun /\ begun >= 1 /\ PhaseInv(request)
       /\ request.generation \in 1 .. generation
  /\ pending \in {0, begun}
  /\ pending # 0 =>
       Running /\ request.future = "open" /\ request.phase \in {"drain", "reply"}

(* The queue holds the clean-up of the request that runs, if it gave up.   *)
OneWaits ==
  \A i \in 1 .. Len(queue) : queue[i].does = "request" =>
    /\ Running /\ request.phase \in GivenUp
    /\ \A j \in 1 .. Len(queue) : queue[j].does = "request" => j = i

(* While the request that timed out waits at place p, with no connect      *)
(* ahead of it: what those ahead of it and the readers may still record,   *)
(* two events each, fits into what is left of the events it needs.         *)
Waits(p) ==
  /\ p \in 1 .. Len(queue) /\ queue[p].does = "request"
  /\ \A i \in 1 .. p - 1 :
       /\ queue[i].does \in {"close", "lose"}
       /\ queue[i].does = "lose" => queue[i].generation # generation
Spares(p) ==
  total - request.deadline + 2 * (p - 1) + 2 * Cardinality(readers)
  <= Needed(request) - 4 + (IF closing # 0 THEN 1 ELSE 0)
WaitInv ==
  Running /\ request.phase = "response_timeout" =>
    /\ request.deadline \in 1 .. total
    /\ ~request.dialed => /\ generation \notin readers
                          /\ \E p \in 1 .. Len(queue) : Waits(p) /\ Spares(p)

(* The journal                                                             *)
Names(e, q) == e.request = q.number
Within(e, q, last) == e.sequence \in q.first .. last /\ e.generation = q.generation
EventsInv ==
  /\ total \in Nat /\ events \in Seq(EventSet)
  /\ Len(events) = IF total <= EventCapacity THEN total ELSE EventCapacity
  /\ \A i \in 1 .. Len(events) :
       /\ events[i].sequence = total - Len(events) + i
       /\ events[i].request <= begun
ConsistentRecord(r) ==
  /\ r.phase = "success" => r.drained /\ r.matched /\ ~r.invalidated
  /\ r.phase = "response_timeout" => r.drained
  /\ r.phase = "ambiguous_drain_timeout" => ~r.drained
  /\ r.invalidated = (r.phase \in GivenUp)
  /\ r.matched /\ ~r.invalidated => r.phase = "success"
RecordsInv ==
  /\ requests \in Seq(RequestSet) /\ finished \in Nat
  /\ begun = finished + (IF Running THEN 1 ELSE 0)
  /\ Len(requests) = IF finished <= RequestCapacity THEN finished ELSE RequestCapacity
  /\ \A k \in 1 .. Len(requests) :
       /\ requests[k].number = finished - Len(requests) + k
       /\ ConsistentRecord(requests[k])
(* The events that name r lie between its first and the last.              *)
Attr(list, r, last) ==
  \A i \in 1 .. Len(list) : Names(list[i], r) => Within(list[i], r, last)
AttributedInv ==
  /\ \A k \in 1 .. Len(requests) : Attr(events, requests[k], requests[k].terminal)
  /\ Running => request.first \in 1 .. total /\ Attr(events, request, total)

(* An episode ends with the terminal event of its request and, when the    *)
(* rings are long enough for what may come in between, it holds the        *)
(* deadline that expired.                                                  *)
ReachesBack(e) ==
  /\ e.recent # <<>> /\ e.recent[Len(e.recent)].sequence = e.request.terminal
  /\ ~e.request.dialed =>
       /\ e.request.terminal - e.request.deadline < Needed(e.request)
       /\ EventCapacity >= Needed(e.request) /\ FailureEventContext >= Needed(e.request)
          => e.recent[1].sequence <= e.request.deadline
EpisodesInv ==
  /\ episodes \in Seq(EpisodeSet) /\ timeouts \in Nat
  /\ Len(episodes) <= FailureCapacity
  /\ \A i \in 1 .. Len(episodes) : ReachesBack(episodes[i])

JournalInv == EventsInv /\ RecordsInv /\ AttributedInv /\ EpisodesInv
DiagnosticsInv == SessionInv /\ RunningInv /\ OneWaits /\ WaitInv /\ JournalInv

-----------------------------------------------------------------------------
(* Rings                                                                   *)

(* r is what a ring of n has of s, with elements of S.                     *)
IsLast(r, n, s, S) ==
  /\ r \in Seq(S) /\ Len(r) = (IF Len(s) <= n THEN Len(s) ELSE n)
  /\ \A i \in 1 .. Len(r) : r[i] = s[Len(s) - Len(r) + i]
(* a is s, with x behind it.                                               *)
IsAppended(a, s, x, S) ==
  /\ a \in Seq(S) /\ Len(a) = Len(s) + 1 /\ a[Len(s) + 1] = x
  /\ \A i \in 1 .. Len(s) : a[i] = s[i]
(* r is the ring s of n, with x put in.                                    *)
IsPut(r, n, s, x, S) ==
  /\ r \in Seq(S) /\ Len(r) >= 1 /\ r[Len(r)] = x
  /\ Len(r) = (IF Len(s) < n THEN Len(s) + 1 ELSE n)
  /\ \A i \in 1 .. Len(r) :
       \/ i = Len(r)
       \/ Len(s) + 1 - Len(r) + i \in 1 .. Len(s)
          /\ r[i] = s[Len(s) + 1 - Len(r) + i]

LEMMA LastOfFacts ==
  ASSUME NEW S, NEW s \in Seq(S), NEW n \in Nat \ {0}
  PROVE  IsLast(LastOf(n, s), n, s, S)
<1> DEFINE r == LastOf(n, s)
<1>r. r = LastOf(n, s)
  OBVIOUS
<1> HIDE DEF r
<1> SUFFICES IsLast(r, n, s, S)
  BY <1>r
<1>0. Len(s) \in Nat /\ n \in Nat /\ n >= 1
  BY LenProperties
<1>1. CASE Len(s) <= n
  <2>1. r = s
    BY <1>1, <1>r DEF LastOf
  <2> QED BY <1>0, <1>1, <2>1 DEF IsLast
<1>2. CASE Len(s) > n
  <2> DEFINE m == Len(s) - n + 1
  <2>1. r = SubSeq(s, m, Len(s))
    BY <1>0, <1>2, <1>r DEF LastOf
  <2>2. m \in 1 .. Len(s) /\ m \in Int /\ m <= Len(s) /\ Len(s) - m + 1 = n
    BY <1>0, <1>2
  <2> HIDE DEF m
  <2>3. \A i \in m .. Len(s) : s[i] \in S
    <3> TAKE i \in m .. Len(s)
    <3>1. i \in 1 .. Len(s)
      BY <1>0, <2>2
    <3> QED BY <3>1, ElementOfSeq
  <2>4. /\ r \in Seq(S)
        /\ Len(r) = (IF m <= Len(s) THEN Len(s) - m + 1 ELSE 0)
        /\ \A i \in 1 .. Len(s) - m + 1 : r[i] = s[m + i - 1]
    BY <1>0, <2>1, <2>2, <2>3, SubSeqProperties
  <2>5. Len(r) = n
    BY <2>2, <2>4
  <2>6. \A i \in 1 .. Len(r) : r[i] = s[Len(s) - Len(r) + i]
    <3> TAKE i \in 1 .. Len(r)
    <3>1. i \in 1 .. Len(s) - m + 1 /\ m + i - 1 = Len(s) - Len(r) + i
      BY <1>0, <2>2, <2>5 DEF m
    <3> QED BY <3>1, <2>4
  <2> QED BY <1>0, <1>2, <2>4, <2>5, <2>6 DEF IsLast
<1> QED BY <1>0, <1>1, <1>2

LEMMA LastOfLonger ==
  ASSUME NEW S, NEW s \in Seq(S), NEW x \in S, NEW n \in Nat \ {0}, NEW r, NEW a,
         IsAppended(a, s, x, S), IsLast(r, n, a, S)
  PROVE  IsPut(r, n, s, x, S)
<1>0. /\ Len(a) = Len(s) + 1 /\ a[Len(s) + 1] = x
      /\ \A i \in 1 .. Len(s) : a[i] = s[i]
      /\ Len(r) = (IF Len(a) <= n THEN Len(a) ELSE n)
      /\ \A i \in 1 .. Len(r) : r[i] = a[Len(a) - Len(r) + i]
  BY DEF IsAppended, IsLast
<1>1. Len(s) \in Nat
  BY LenProperties
<1>2. Len(r) = (IF Len(s) < n THEN Len(s) + 1 ELSE n) /\ Len(r) >= 1 /\ Len(r) \in Nat
      /\ Len(r) <= Len(s) + 1
  BY <1>0, <1>1
<1>3. r[Len(r)] = x
  <2>1. Len(r) \in 1 .. Len(r) /\ Len(a) - Len(r) + Len(r) = Len(s) + 1
    BY <1>0, <1>1, <1>2
  <2> QED BY <1>0, <2>1
<1>4. ASSUME NEW i \in 1 .. Len(r), i # Len(r)
      PROVE  /\ Len(s) + 1 - Len(r) + i \in 1 .. Len(s)
             /\ r[i] = s[Len(s) + 1 - Len(r) + i]
  <2>1. Len(s) + 1 - Len(r) + i \in 1 .. Len(s)
    BY <1>1, <1>2, <1>4
  <2>2. Len(a) - Len(r) + i = Len(s) + 1 - Len(r) + i
    BY <1>0
  <2>3. r[i] = a[Len(s) + 1 - Len(r) + i]
    BY <1>0, <2>2
  <2> QED BY <1>0, <2>1, <2>3
<1> QED BY <1>2, <1>3, <1>4 DEF IsPut, IsLast

LEMMA AppendFacts ==
  ASSUME NEW S, NEW s \in Seq(S), NEW x \in S
  PROVE  IsAppended(Append(s, x), s, x, S)
BY AppendProperties DEF IsAppended

LEMMA PutFacts ==
  ASSUME NEW S, NEW s \in Seq(S), NEW x \in S, NEW n \in Nat \ {0}
  PROVE  IsPut(LastOf(n, Append(s, x)), n, s, x, S)
<1>1. IsAppended(Append(s, x), s, x, S)
  BY AppendFacts
<1>2. Append(s, x) \in Seq(S)
  BY <1>1 DEF IsAppended
<1>3. IsLast(LastOf(n, Append(s, x)), n, Append(s, x), S)
  BY <1>2, LastOfFacts
<1> QED BY <1>1, <1>3, LastOfLonger

-----------------------------------------------------------------------------
(* What record_event does to the ring of events                            *)

IsEvent(e, g, n) == e \in EventSet /\ e.request = n /\ e.generation = g

LEMMA EventFacts ==
  ASSUME NEW kind \in Kinds, NEW g \in Nat, NEW n \in Nat
  PROVE  IsEvent(Event(kind, g, n), g, n)
BY DEF Event, EventSet, IsEvent

LEMMA EventFields ==
  ASSUME NEW e \in EventSet, NEW n \in Nat
  PROVE  /\ [e EXCEPT !.sequence = n] \in EventSet
         /\ [e EXCEPT !.sequence = n].sequence = n
         /\ [e EXCEPT !.sequence = n].request = e.request
         /\ [e EXCEPT !.sequence = n].generation = e.generation
BY DEF EventSet

(* m is the list of events, numbered behind those that were recorded.      *)
IsNumbered(m, list) ==
  /\ m \in Seq(EventSet) /\ Len(m) = Len(list)
  /\ \A j \in 1 .. Len(list) :
       /\ m[j].sequence = total + j /\ m[j].request = list[j].request
       /\ m[j].generation = list[j].generation

LEMMA NumberedFacts ==
  ASSUME NEW list \in Seq(EventSet), total \in Nat
  PROVE  IsNumbered(Numbered(list), list)
<1> DEFINE f == [i \in 1 .. Len(list) |-> [list[i] EXCEPT !.sequence = total + i]]
<1>1. Len(list) \in Nat
  BY LenProperties
<1>2. \A j \in 1 .. Len(list) : list[j] \in EventSet /\ total + j \in Nat
  BY ElementOfSeq
<1>3. \A j \in 1 .. Len(list) :
        /\ f[j] \in EventSet /\ f[j].sequence = total + j
        /\ f[j].request = list[j].request /\ f[j].generation = list[j].generation
  BY <1>2, EventFields
<1>4. f \in [1 .. Len(list) -> EventSet]
  BY <1>3
<1> HIDE DEF f
<1>5. f \in Seq(EventSet) /\ Len(f) = Len(list)
  BY <1>1, <1>4
<1>6. f = Numbered(list)
  BY DEF f, Numbered
<1> QED BY <1>3, <1>5, <1>6 DEF IsNumbered

(* What a step that records the list leaves in the ring.                   *)
Recorded(list) ==
  /\ total' = total + Len(list) /\ total' \in Nat /\ events' \in Seq(EventSet)
  /\ Len(events') = IF total' <= EventCapacity THEN total' ELSE EventCapacity
  /\ \A i \in 1 .. Len(events') : events'[i].sequence = total' - Len(events') + i
  /\ \A i \in 1 .. Len(events') :
       \/ \E j \in 1 .. Len(events) : events'[i] = events[j]
       \/ \E j \in 1 .. Len(list) :
            /\ events'[i].request = list[j].request
            /\ events'[i].generation = list[j].generation
            /\ events'[i].sequence = total + j

(* c is s followed by t.                                                   *)
IsConcat(c, s, t, S) ==
  /\ c \in Seq(S) /\ Len(c) = Len(s) + Len(t)
  /\ \A i \in 1 .. Len(s) + Len(t) : c[i] = IF i <= Len(s) THEN s[i] ELSE t[i - Len(s)]

LEMMA ConcatFacts ==
  ASSUME NEW S, NEW s \in Seq(S), NEW t \in Seq(S)
  PROVE  IsConcat(s \o t, s, t, S)
BY ConcatProperties DEF IsConcat

LEMMA RingFacts ==
  ASSUME EventsInv, NEW list \in Seq(EventSet), NEW m, IsNumbered(m, list), NEW c,
         IsConcat(c, events, m, EventSet), IsLast(events', EventCapacity, c, EventSet),
         total' = total + Len(list)
  PROVE  Recorded(list)
<1>n. Len(events) \in Nat /\ Len(list) \in Nat /\ Len(c) \in Nat /\ Len(events') \in Nat
  <2>1. events \in Seq(EventSet) /\ c \in Seq(EventSet) /\ events' \in Seq(EventSet)
    BY DEF EventsInv, IsConcat, IsLast
  <2> QED BY <2>1, LenProperties
<1>1. /\ total \in Nat /\ Len(events) \in Nat /\ Len(list) \in Nat
      /\ EventCapacity \in Nat /\ EventCapacity >= 1
      /\ Len(events) = IF total <= EventCapacity THEN total ELSE EventCapacity
  BY <1>n, Capacities DEF EventsInv
<1>2. Len(m) = Len(list) /\ Len(c) = Len(events) + Len(list)
  BY DEF IsNumbered, IsConcat
<1>3. /\ Len(events') = IF Len(c) <= EventCapacity THEN Len(c) ELSE EventCapacity
      /\ \A i \in 1 .. Len(events') : events'[i] = c[Len(c) - Len(events') + i]
      /\ events' \in Seq(EventSet)
  BY DEF IsLast
<1>4. Len(events') = IF total' <= EventCapacity THEN total' ELSE EventCapacity
  BY <1>1, <1>2, <1>3
<1>5. ASSUME NEW i \in 1 .. Len(events')
      PROVE  /\ events'[i].sequence = total' - Len(events') + i
             /\ \/ \E j \in 1 .. Len(events) : events'[i] = events[j]
                \/ \E j \in 1 .. Len(list) :
                     /\ events'[i].request = list[j].request
                     /\ events'[i].generation = list[j].generation
                     /\ events'[i].sequence = total + j
  <2> DEFINE d == Len(c) - Len(events')
  <2>d. d \in Int /\ i \in Int /\ d + i \in Int
    BY <1>n
  <2>0. PICK k \in Int : k = Len(c) - Len(events') + i
    BY <2>d
  <2>1. k \in 1 .. Len(c) /\ events'[i] = c[k]
    <3>1. Len(events') \in Nat /\ Len(c) \in Nat /\ Len(events') <= Len(c)
      BY <1>n, <1>1, <1>2, <1>3
    <3>2. i \in Int /\ i >= 1 /\ i <= Len(events')
      BY <3>1
    <3>3. k >= 1 /\ k <= Len(c)
      BY <2>0, <3>1, <3>2
    <3>4. k \in 1 .. Len(c)
      BY <3>1, <3>3
    <3> QED BY <1>3, <2>0, <3>4
  <2>2. total - Len(events) + k = total' - Len(events') + i
    <3>1. Len(c) = Len(events) + Len(list) /\ total' = total + Len(list)
      BY <1>2
    <3>2. total \in Int /\ i \in Int
      BY <1>1, <2>d
    <3> QED BY <1>n, <2>0, <3>1, <3>2
  <2>3. CASE k <= Len(events)
    <3>1. k \in 1 .. Len(events)
      BY <1>1, <1>2, <2>1, <2>3
    <3>2. c[k] = events[k]
      BY <1>1, <1>2, <2>1, <2>3 DEF IsConcat
    <3>3. events[k].sequence = total - Len(events) + k
      BY <3>1 DEF EventsInv
    <3> QED BY <2>1, <2>2, <3>1, <3>2, <3>3
  <2>4. CASE k > Len(events)
    <3>0. PICK j \in Int : j = k - Len(events)
      <4>1. k - Len(events) \in Int
        BY <1>n
      <4> QED BY <4>1
    <3>1. j \in 1 .. Len(list)
      <4>1. k <= Len(events) + Len(list) /\ k \in Int
        BY <1>2, <2>1
      <4> QED BY <1>n, <2>4, <3>0, <4>1
    <3>2. c[k] = m[j]
      BY <1>1, <1>2, <2>1, <2>4, <3>0 DEF IsConcat
    <3>3. total + j = total' - Len(events') + i
      <4>1. total + j = total - Len(events) + k
        BY <1>1, <2>0, <3>0
      <4> QED BY <2>2, <4>1
    <3>4. /\ m[j].sequence = total + j /\ m[j].request = list[j].request
          /\ m[j].generation = list[j].generation
      BY <3>1 DEF IsNumbered
    <3>5. /\ events'[i].sequence = total + j /\ events'[i].request = list[j].request
          /\ events'[i].generation = list[j].generation
      BY <2>1, <3>2, <3>4
    <3> QED BY <3>1, <3>3, <3>5
  <2> QED BY <1>1, <2>0, <2>3, <2>4
<1>6. total' \in Nat
  BY <1>1
<1> QED BY <1>3, <1>4, <1>5, <1>6 DEF Recorded

LEMMA RecordFacts ==
  ASSUME EventsInv, NEW list \in Seq(EventSet), Record(list)
  PROVE  Recorded(list)
<1>1. total \in Nat /\ events \in Seq(EventSet) /\ EventCapacity \in Nat \ {0}
  BY Capacities DEF EventsInv
<1>2. IsNumbered(Numbered(list), list) /\ Numbered(list) \in Seq(EventSet)
  BY <1>1, NumberedFacts DEF IsNumbered
<1>3. IsConcat(events \o Numbered(list), events, Numbered(list), EventSet)
  BY <1>1, <1>2, ConcatFacts
<1>4. events \o Numbered(list) \in Seq(EventSet)
  BY <1>3 DEF IsConcat
<1>5. IsLast(Ring(list), EventCapacity, events \o Numbered(list), EventSet)
  BY <1>1, <1>4, LastOfFacts DEF Ring
<1>6. events' = Ring(list) /\ total' = total + Len(list)
  BY DEF Record
<1> QED BY <1>2, <1>3, <1>5, <1>6, RingFacts

-----------------------------------------------------------------------------
(* What recording does to the journal                                      *)

LEMMA EventsKeep ==
  ASSUME EventsInv, NEW list \in Seq(EventSet), Recorded(list),
         begun \in Nat, begun' \in Nat, begun <= begun',
         \A j \in 1 .. Len(list) : list[j].request <= begun'
  PROVE  EventsInv'
<1>1. \A i \in 1 .. Len(events) : events[i].request <= begun /\ events[i].request \in Nat
  <2> TAKE i \in 1 .. Len(events)
  <2>1. events[i] \in EventSet
    BY ElementOfSeq DEF EventsInv
  <2> QED BY <2>1 DEF EventsInv, EventSet
<1>2. ASSUME NEW i \in 1 .. Len(events') PROVE events'[i].request <= begun'
  <2>1. CASE \E j \in 1 .. Len(events) : events'[i] = events[j]
    BY <1>1, <2>1
  <2>2. CASE \E j \in 1 .. Len(list) : events'[i].request = list[j].request
    BY <2>2
  <2> QED BY <2>1, <2>2 DEF Recorded
<1> QED BY <1>2 DEF EventsInv, Recorded

LEMMA RecordsAttr ==
  ASSUME EventsInv, NEW list \in Seq(EventSet), Recorded(list), NEW r, NEW last,
         Attr(events, r, last), \A j \in 1 .. Len(list) : list[j].request # r.number
  PROVE  Attr(events', r, last)
<1> SUFFICES ASSUME NEW i \in 1 .. Len(events'), Names(events'[i], r)
             PROVE  Within(events'[i], r, last)
  BY DEF Attr
<1>1. PICK j \in 1 .. Len(events) : events'[i] = events[j]
  BY DEF Recorded, Names
<1> QED BY <1>1 DEF Attr

LEMMA RunningAttr ==
  ASSUME EventsInv, NEW list \in Seq(EventSet), Recorded(list), NEW q \in RequestSet,
         q.first <= total + 1, Attr(events, q, total),
         \A j \in 1 .. Len(list) :
           list[j].request = q.number => list[j].generation = q.generation
  PROVE  Attr(events', q, total')
<1>0. /\ total \in Nat /\ Len(list) \in Nat /\ q.first \in Nat
      /\ total' = total + Len(list)
  BY LenProperties DEF EventsInv, RequestSet, Recorded
<1> SUFFICES ASSUME NEW i \in 1 .. Len(events'), Names(events'[i], q)
             PROVE  Within(events'[i], q, total')
  BY DEF Attr
<1>1. CASE \E j \in 1 .. Len(events) : events'[i] = events[j]
  <2>1. Within(events'[i], q, total)
    BY <1>1 DEF Attr
  <2> QED BY <1>0, <2>1 DEF Within
<1>2. CASE \E j \in 1 .. Len(list) :
             /\ events'[i].request = list[j].request
             /\ events'[i].generation = list[j].generation
             /\ events'[i].sequence = total + j
  <2>1. PICK j \in 1 .. Len(list) :
          /\ events'[i].request = list[j].request
          /\ events'[i].generation = list[j].generation
          /\ events'[i].sequence = total + j
    BY <1>2
  <2>2. events'[i].generation = q.generation
    BY <2>1 DEF Names
  <2>3. total + j \in q.first .. total'
    BY <1>0
  <2> QED BY <2>1, <2>2, <2>3 DEF Within
<1> QED BY <1>1, <1>2 DEF Recorded

(* The events of the list name no request, or the one that runs.           *)
Fits(list, q) ==
  /\ list \in Seq(EventSet)
  /\ \A j \in 1 .. Len(list) :
       \/ list[j].request = 0
       \/ q # NoRequest /\ list[j].request = q.number /\ list[j].generation = q.generation

LEMMA SomeRequest ==
  ASSUME NEW q \in RequestSet
  PROVE  /\ q # NoRequest /\ q.number \in Nat /\ q.first \in Nat /\ q.deadline \in Nat
         /\ q.generation \in Nat /\ q.terminal \in Nat
BY DEF RequestSet, NoRequest, Phases, GivenUp

(* The numbers of the records are those of requests before the one that    *)
(* runs.                                                                   *)
LEMMA RecordNumbers ==
  ASSUME RecordsInv, NEW k \in 1 .. Len(requests)
  PROVE  requests[k].number \in 1 .. finished /\ requests[k] \in RequestSet
<1>1. requests[k] \in RequestSet /\ finished \in Nat
  BY ElementOfSeq DEF RecordsInv
<1>2. Len(requests) \in Nat /\ Len(requests) <= finished
  BY <1>1, Capacities DEF RecordsInv
<1> QED BY <1>1, <1>2 DEF RecordsInv

(* The journal after a step that records events, for what request' says of *)
(* the request that runs then.                                             *)
LEMMA ReportStep ==
  ASSUME JournalInv, NEW list, Fits(list, request'), Report(list),
         begun \in Nat, begun' \in Nat, begun <= begun',
         request' = NoRequest \/ request' \in RequestSet,
         begun' = finished + (IF Running' THEN 1 ELSE 0),
         Running' => /\ request'.number = begun' /\ request'.first \in 1 .. total + Len(list)
                     /\ request'.first <= total + 1 /\ Attr(events, request', total)
  PROVE  JournalInv'
<1>r. Recorded(list) /\ UNCHANGED <<requests, finished, episodes, timeouts>>
  BY RecordFacts DEF Report, JournalInv, Fits
<1>e. EventsInv /\ RecordsInv /\ finished \in Nat /\ list \in Seq(EventSet)
  BY DEF JournalInv, RecordsInv, Fits
<1>n. \A j \in 1 .. Len(list) : list[j].request = 0 \/ list[j].request = begun'
  BY DEF Fits, Running
<1>1. EventsInv'
  BY <1>e, <1>r, <1>n, EventsKeep
<1>2. RecordsInv'
  BY <1>e, <1>r DEF RecordsInv
<1>3. \A k \in 1 .. Len(requests) : Attr(events', requests[k], requests[k].terminal)
  <2> TAKE k \in 1 .. Len(requests)
  <2>1. requests[k].number \in 1 .. finished
    BY <1>e, RecordNumbers
  <2>2. \A j \in 1 .. Len(list) : list[j].request # requests[k].number
    <3>1. CASE Running'
      BY <1>e, <1>n, <2>1, <3>1
    <3>2. CASE ~Running'
      BY <1>e, <2>1, <3>2 DEF Fits, Running
    <3> QED BY <3>1, <3>2
  <2>3. Attr(events, requests[k], requests[k].terminal)
    BY DEF JournalInv, AttributedInv
  <2> QED BY <1>e, <1>r, <2>2, <2>3, RecordsAttr
<1>4. ASSUME Running'
      PROVE  request'.first \in 1 .. total' /\ Attr(events', request', total')
  <2>1. request' \in RequestSet
    BY <1>4 DEF Running
  <2>2. \A j \in 1 .. Len(list) :
           list[j].request = request'.number => list[j].generation = request'.generation
    <3>1. begun' # 0
      BY <1>4, <1>e
    <3> QED BY <1>4, <3>1 DEF Fits
  <2>3. Attr(events', request', total')
    BY <1>4, <1>e, <1>r, <2>1, <2>2, RunningAttr
  <2> QED BY <1>4, <1>r, <2>3 DEF Recorded
<1>5. AttributedInv'
  BY <1>3, <1>4, <1>r DEF AttributedInv
<1>6. EpisodesInv'
  BY <1>r DEF JournalInv, EpisodesInv
<1> QED BY <1>1, <1>2, <1>5, <1>6 DEF JournalInv

(* The record of the request that runs                                     *)
IsRecordOf(r, q, outcome, n) ==
  /\ r \in RequestSet /\ r.phase = outcome /\ r.terminal = n
  /\ r.number = q.number /\ r.first = q.first /\ r.generation = q.generation
  /\ r.deadline = q.deadline /\ r.drained = q.drained /\ r.matched = q.matched
  /\ r.invalidated = q.invalidated
  /\ r.ahead = q.ahead /\ r.tailing = q.tailing /\ r.dialed = q.dialed

LEMMA RecordFields ==
  ASSUME NEW q \in RequestSet, NEW outcome \in Phases, NEW n \in Nat
  PROVE  IsRecordOf([q EXCEPT !.phase = outcome, !.terminal = n], q, outcome, n)
BY DEF RequestSet, IsRecordOf

(* What an end means to the request that it ends.                          *)
Justified(q, outcome) ==
  /\ outcome = "success" => q.drained /\ q.matched /\ ~q.invalidated
  /\ outcome = "response_timeout" => q.drained
  /\ outcome = "ambiguous_drain_timeout" => ~q.drained
  /\ q.invalidated = (outcome \in GivenUp)
  /\ q.matched /\ ~q.invalidated => outcome = "success"

(* A ring of the latest of n events.                                       *)
RingOf(list, n) ==
  /\ Len(list) = IF n <= EventCapacity THEN n ELSE EventCapacity
  /\ \A i \in 1 .. Len(list) : list[i].sequence = n - Len(list) + i

(* An episode with the latest events reaches back to the deadline.         *)
LEMMA EpisodeReaches ==
  ASSUME NEW n \in Nat, n >= 1, NEW list \in Seq(EventSet), RingOf(list, n),
         NEW r \in RequestSet, r.terminal = n,
         r.deadline \in 1 .. n, ~r.dialed => n - r.deadline < Needed(r), NEW recent,
         IsLast(recent, FailureEventContext, list, EventSet), NEW e,
         e = [request |-> r, recent |-> recent]
  PROVE  e \in EpisodeSet /\ ReachesBack(e)
<1>0. /\ n \in Nat /\ EventCapacity \in Nat /\ FailureEventContext \in Nat
      /\ EventCapacity >= 1 /\ FailureEventContext >= 1
  BY Capacities
<1>1. /\ Len(list) = IF n <= EventCapacity THEN n ELSE EventCapacity
      /\ Len(recent) = IF Len(list) <= FailureEventContext THEN Len(list)
                       ELSE FailureEventContext
      /\ recent \in Seq(EventSet)
  BY DEF RingOf, IsLast
<1>2. Len(recent) \in Nat /\ Len(recent) >= 1 /\ Len(list) \in Nat
      /\ Len(recent) <= Len(list)
  BY <1>0, <1>1
<1>3. \A i \in 1 .. Len(recent) : recent[i].sequence = n - Len(recent) + i
  <2> TAKE i \in 1 .. Len(recent)
  <2>1. PICK k \in Int : k = Len(list) - Len(recent) + i
    <3>1. Len(list) - Len(recent) + i \in Int
      BY <1>2
    <3> QED BY <3>1
  <2>2. k \in 1 .. Len(list) /\ n - Len(list) + k = n - Len(recent) + i
    BY <1>0, <1>2, <2>1
  <2>3. recent[i] = list[k]
    BY <2>1 DEF IsLast
  <2>4. list[k].sequence = n - Len(list) + k
    BY <2>2 DEF RingOf
  <2> QED BY <2>2, <2>3, <2>4
<1>4. recent # <<>> /\ recent[Len(recent)].sequence = n
  <2>1. Len(recent) \in 1 .. Len(recent) /\ n - Len(recent) + Len(recent) = n
    BY <1>0, <1>2
  <2>2. recent # <<>>
    BY <1>1, <1>2, EmptySeq
  <2> QED BY <1>3, <2>1, <2>2
<1>5. ASSUME ~r.dialed, EventCapacity >= Needed(r), FailureEventContext >= Needed(r)
      PROVE  recent[1].sequence <= r.deadline
  <2>1. PICK m \in Nat : m = Needed(r)
    BY DEF Needed, RequestSet
  <2>2. EventCapacity >= m /\ FailureEventContext >= m /\ n - r.deadline < m
    BY <1>5, <2>1
  <2>3. n - Len(recent) + 1 <= r.deadline
    <3>1. r.deadline \in Int /\ r.deadline >= 1
      BY <1>0
    <3>2. Len(recent) = n \/ Len(recent) >= m
      BY <1>0, <1>1, <2>1, <2>2
    <3> QED BY <1>0, <1>2, <2>1, <2>2, <3>1, <3>2
  <2>4. recent[1].sequence = n - Len(recent) + 1
    BY <1>2, <1>3
  <2> QED BY <2>3, <2>4
<1>6. e.request = r /\ e.recent = recent
  OBVIOUS
<1>7. e \in EpisodeSet
  BY <1>1 DEF EpisodeSet
<1> QED BY <1>4, <1>5, <1>6, <1>7 DEF ReachesBack

(* A ring of records that gets the record of the request that ran.         *)
LEMMA PutRecord ==
  ASSUME RecordsInv, Running, request' = NoRequest, begun' = begun, finished' = finished + 1,
         NEW r \in RequestSet, r.number = begun, ConsistentRecord(r),
         IsPut(requests', RequestCapacity, requests, r, RequestSet)
  PROVE  RecordsInv'
<1>0. /\ begun = finished + 1 /\ finished \in Nat /\ RequestCapacity \in Nat
      /\ RequestCapacity >= 1
      /\ Len(requests) = IF finished <= RequestCapacity THEN finished ELSE RequestCapacity
  BY Capacities DEF RecordsInv
<1>1. /\ Len(requests') = IF Len(requests) < RequestCapacity THEN Len(requests) + 1
                          ELSE RequestCapacity
      /\ requests' \in Seq(RequestSet) /\ requests'[Len(requests')] = r
  BY DEF IsPut
<1>2. Len(requests') = IF finished' <= RequestCapacity THEN finished' ELSE RequestCapacity
  BY <1>0, <1>1
<1>3. ASSUME NEW i \in 1 .. Len(requests')
      PROVE  /\ requests'[i].number = finished' - Len(requests') + i
             /\ ConsistentRecord(requests'[i])
  <2>1. CASE i = Len(requests')
    <3>1. finished' - Len(requests') + i = begun
      BY <1>0, <1>1, <2>1
    <3> QED BY <1>1, <2>1, <3>1
  <2>2. CASE i # Len(requests')
    <3>0. Len(requests) \in Nat /\ Len(requests') \in Nat
      BY <1>0, <1>1
    <3>1. PICK k \in Int : k = Len(requests) + 1 - Len(requests') + i
      <4>1. Len(requests) + 1 - Len(requests') + i \in Int
        BY <3>0
      <4> QED BY <4>1
    <3>2. k \in 1 .. Len(requests) /\ requests'[i] = requests[k]
      BY <2>2, <3>1 DEF IsPut
    <3>3. requests[k].number = finished - Len(requests) + k /\ ConsistentRecord(requests[k])
      BY <3>2 DEF RecordsInv
    <3>4. finished - Len(requests) + k = finished' - Len(requests') + i
      BY <1>0, <3>0, <3>1
    <3> QED BY <3>2, <3>3, <3>4
  <2> QED BY <2>1, <2>2
<1>4. ~Running'
  BY DEF Running
<1> QED BY <1>0, <1>1, <1>2, <1>3, <1>4 DEF RecordsInv

LEMMA FinalizeStep ==
  ASSUME JournalInv, Running, request \in RequestSet, request.number = begun,
         begun \in Nat, begun' = begun, NEW list, Fits(list, request),
         NEW outcome \in Phases, Finalize(list, outcome), Justified(request, outcome),
         outcome = "response_timeout" =>
           /\ request.deadline \in 1 .. total
           /\ ~request.dialed =>
                total + Len(list) + 1 - request.deadline < Needed(request)
  PROVE  JournalInv'
<1> DEFINE all == Append(list, Own("request_terminal"))
           record == RecordOf(outcome, total + Len(all))
<1>e. EventsInv /\ RecordsInv /\ list \in Seq(EventSet) /\ total \in Nat
  BY DEF JournalInv, Fits, EventsInv
<1>q. /\ request # NoRequest /\ request.number \in Nat /\ request.first \in Nat
      /\ request.deadline \in Nat /\ request.generation \in Nat
  BY SomeRequest
<1>o. PICK own : own = Own("request_terminal")
  OBVIOUS
<1>p. own \in EventSet /\ own.request = request.number /\ own.generation = request.generation
  <2>1. "request_terminal" \in Kinds
    BY DEF Kinds
  <2>2. IsEvent(own, request.generation, request.number)
    BY <1>o, <1>q, <2>1, EventFacts DEF Own
  <2> QED BY <2>2 DEF IsEvent
<1>a. IsAppended(all, list, own, EventSet)
  BY <1>e, <1>o, <1>p, AppendFacts
<1>f. /\ Record(all) /\ requests' = LastOf(RequestCapacity, Append(requests, record))
      /\ finished' = finished + 1 /\ request' = NoRequest
      /\ IF outcome = "response_timeout"
         THEN /\ episodes' = LastOf(FailureCapacity, Append(episodes,
                   [request |-> record, recent |-> LastOf(FailureEventContext, events')]))
              /\ timeouts' = timeouts + 1
         ELSE UNCHANGED <<episodes, timeouts>>
  BY DEF Finalize
<1>r. record = [request EXCEPT !.phase = outcome, !.terminal = total + Len(all)]
  BY DEF RecordOf
<1> HIDE DEF all, record
<1>1. /\ all \in Seq(EventSet) /\ Len(all) = Len(list) + 1 /\ Len(list) \in Nat
      /\ \A j \in 1 .. Len(all) : all[j].request \in {0, begun}
      /\ \A j \in 1 .. Len(all) :
           all[j].request = request.number => all[j].generation = request.generation
  <2>1. Len(list) \in Nat
    BY <1>e, LenProperties
  <2>2. request.number # 0
    <3>1. finished \in Nat /\ begun = finished + 1
      BY DEF JournalInv, RecordsInv
    <3> QED BY <3>1
  <2>3. ASSUME NEW j \in 1 .. Len(all)
        PROVE  /\ all[j].request \in {0, begun}
               /\ all[j].request = request.number => all[j].generation = request.generation
    <3>1. CASE j = Len(list) + 1
      BY <1>a, <1>p, <3>1 DEF IsAppended
    <3>2. CASE j # Len(list) + 1
      <4>1. j \in 1 .. Len(list)
        BY <1>a, <2>1, <3>2 DEF IsAppended
      <4> QED BY <1>a, <2>2, <4>1 DEF IsAppended, Fits
    <3> QED BY <3>1, <3>2
  <2> QED BY <1>a, <2>1, <2>3 DEF IsAppended
<1>2. Recorded(all)
  BY <1>e, <1>f, <1>1, RecordFacts
<1>3. total' = total + Len(all) /\ total' \in Nat /\ total' >= 1
  BY <1>e, <1>1, <1>2 DEF Recorded
<1>4. EventsInv'
  <2>1. \A j \in 1 .. Len(all) : all[j].request <= begun
    BY <1>1
  <2> QED BY <1>e, <1>1, <1>2, <2>1, EventsKeep
<1>5. /\ record \in RequestSet /\ record.phase = outcome /\ record.terminal = total'
      /\ record.number = begun /\ record.first = request.first
      /\ record.generation = request.generation /\ record.deadline = request.deadline
      /\ record.drained = request.drained /\ record.matched = request.matched
      /\ record.invalidated = request.invalidated
      /\ record.dialed = request.dialed /\ Needed(record) = Needed(request)
  <2>1. record = [request EXCEPT !.phase = outcome, !.terminal = total']
    BY <1>r, <1>3
  <2>2. total' \in Nat
    BY <1>3
  <2>3. IsRecordOf(record, request, outcome, total')
    BY <2>1, <2>2, RecordFields
  <2> QED BY <2>3 DEF IsRecordOf, Needed
<1>6. IsPut(requests', RequestCapacity, requests, record, RequestSet)
  BY <1>e, <1>f, <1>5, PutFacts, Capacities DEF RecordsInv
<1>7. RecordsInv'
  <2>1. ConsistentRecord(record)
    BY <1>5 DEF Justified, ConsistentRecord
  <2> QED BY <1>e, <1>f, <1>5, <1>6, <2>1, PutRecord
<1>8. Attr(events', record, total')
  <2>1. Attr(events, request, total) /\ request.first <= total + 1
    BY <1>e, <1>q DEF JournalInv, AttributedInv
  <2>2. Attr(events', request, total')
    BY <1>e, <1>1, <1>2, <2>1, RunningAttr
  <2> QED BY <1>5, <2>2 DEF Attr, Names, Within
<1>9. AttributedInv'
  <2>1. ASSUME NEW k \in 1 .. Len(requests)
        PROVE  Attr(events', requests[k], requests[k].terminal)
    <3>1. requests[k].number \in 1 .. finished /\ begun = finished + 1 /\ finished \in Nat
      BY <1>e, RecordNumbers DEF RecordsInv
    <3>2. \A j \in 1 .. Len(all) : all[j].request # requests[k].number
      BY <1>1, <3>1
    <3>3. Attr(events, requests[k], requests[k].terminal)
      BY DEF JournalInv, AttributedInv
    <3> QED BY <1>e, <1>1, <1>2, <3>2, <3>3, RecordsAttr
  <2>2. ASSUME NEW i \in 1 .. Len(requests')
        PROVE  Attr(events', requests'[i], requests'[i].terminal)
    <3>1. CASE i = Len(requests')
      BY <1>5, <1>6, <1>8, <3>1 DEF IsPut
    <3>2. CASE i # Len(requests')
      <4>1. \E k \in 1 .. Len(requests) : requests'[i] = requests[k]
        BY <1>6, <3>2 DEF IsPut
      <4> QED BY <2>1, <4>1
    <3> QED BY <3>1, <3>2
  <2>3. ~Running'
    BY <1>f DEF Running
  <2> QED BY <2>2, <2>3 DEF AttributedInv
<1>10. EpisodesInv'
  <2>1. CASE outcome = "response_timeout"
    <3> DEFINE recent == LastOf(FailureEventContext, events')
               e == [request |-> record, recent |-> recent]
    <3>1. IsLast(recent, FailureEventContext, events', EventSet)
      BY <1>4, LastOfFacts, Capacities DEF EventsInv
    <3>2. episodes' = LastOf(FailureCapacity, Append(episodes, e)) /\ timeouts' = timeouts + 1
      BY <1>f, <2>1
    <3>3. /\ ~record.dialed => total' - record.deadline < Needed(record)
          /\ record.deadline \in 1 .. total'
      BY <1>e, <1>1, <1>3, <1>5, <2>1
    <3> HIDE DEF recent
    <3>4. e \in EpisodeSet /\ ReachesBack(e)
      <4>1. events' \in Seq(EventSet) /\ RingOf(events', total')
        BY <1>4 DEF EventsInv, RingOf
      <4> HIDE DEF e
      <4>2. e = [request |-> record, recent |-> recent]
        BY DEF e
      <4> QED BY <1>3, <1>5, <3>1, <3>3, <4>1, <4>2, EpisodeReaches
    <3> HIDE DEF e
    <3>5. episodes \in Seq(EpisodeSet) /\ timeouts \in Nat /\ FailureCapacity \in Nat \ {0}
      BY Capacities DEF JournalInv, EpisodesInv
    <3>6. IsPut(episodes', FailureCapacity, episodes, e, EpisodeSet)
      BY <3>2, <3>4, <3>5, PutFacts
    <3>7. ASSUME NEW i \in 1 .. Len(episodes') PROVE ReachesBack(episodes'[i])
      <4>1. CASE i = Len(episodes')
        BY <3>4, <3>6, <4>1 DEF IsPut
      <4>2. CASE i # Len(episodes')
        <5>1. \E k \in 1 .. Len(episodes) : episodes'[i] = episodes[k]
          BY <3>6, <4>2 DEF IsPut
        <5> QED BY <5>1 DEF JournalInv, EpisodesInv
      <4> QED BY <4>1, <4>2
    <3>8. episodes' \in Seq(EpisodeSet) /\ Len(episodes') <= FailureCapacity
      <4>1. Len(episodes) \in Nat
        BY <3>5, LenProperties
      <4> QED BY <3>5, <3>6, <4>1 DEF IsPut
    <3> QED BY <3>2, <3>5, <3>7, <3>8 DEF EpisodesInv
  <2>2. CASE outcome # "response_timeout"
    BY <1>f, <2>2 DEF JournalInv, EpisodesInv
  <2> QED BY <2>1, <2>2
<1> QED BY <1>4, <1>7, <1>9, <1>10 DEF JournalInv

-----------------------------------------------------------------------------
(* The lists of events that steps report                                   *)
FitsOne(e, q) ==
  /\ e \in EventSet
  /\ \/ e.request = 0
     \/ q # NoRequest /\ e.request = q.number /\ e.generation = q.generation

LEMMA NothingFits == \A q : Fits(<<>>, q)
BY EmptySeq DEF Fits

LEMMA AppendFits ==
  ASSUME NEW list, NEW q, Fits(list, q), NEW e, FitsOne(e, q)
  PROVE  Fits(Append(list, e), q) /\ Len(Append(list, e)) = Len(list) + 1
<1>1. list \in Seq(EventSet) /\ e \in EventSet /\ Len(list) \in Nat
  BY LenProperties DEF Fits, FitsOne
<1>2. IsAppended(Append(list, e), list, e, EventSet)
  BY <1>1, AppendFacts
<1>3. PICK a : a = Append(list, e)
  OBVIOUS
<1>4. IsAppended(a, list, e, EventSet)
  BY <1>2, <1>3
<1>5. ASSUME NEW j \in 1 .. Len(a)
      PROVE  \/ a[j].request = 0
             \/ q # NoRequest /\ a[j].request = q.number /\ a[j].generation = q.generation
  <2>1. CASE j = Len(list) + 1
    BY <1>4, <2>1 DEF IsAppended, FitsOne
  <2>2. CASE j # Len(list) + 1
    <3>1. j \in 1 .. Len(list)
      BY <1>1, <1>4, <2>2 DEF IsAppended
    <3> QED BY <1>4, <3>1 DEF IsAppended, Fits
  <2> QED BY <2>1, <2>2
<1>6. Fits(a, q) /\ Len(a) = Len(list) + 1
  BY <1>4, <1>5 DEF IsAppended, Fits
<1> QED BY <1>3, <1>6

LEMMA OneFits ==
  ASSUME NEW q, NEW e, FitsOne(e, q)
  PROVE  Fits(<<e>>, q) /\ Len(<<e>>) = 1
<1>1. <<e>> \in Seq(EventSet) /\ Len(<<e>>) = 1 /\ <<e>>[1] = e
  BY DEF FitsOne
<1>2. \A j \in 1 .. Len(<<e>>) : <<e>>[j] = e
  OBVIOUS
<1> QED BY <1>1, <1>2 DEF Fits, FitsOne

LEMMA TwoFit ==
  ASSUME NEW q, NEW d, FitsOne(d, q), NEW e, FitsOne(e, q)
  PROVE  Fits(<<d, e>>, q) /\ Len(<<d, e>>) = 2
<1>1. <<d, e>> \in Seq(EventSet) /\ Len(<<d, e>>) = 2
  BY DEF FitsOne
<1>2. \A j \in 1 .. Len(<<d, e>>) : <<d, e>>[j] = d \/ <<d, e>>[j] = e
  OBVIOUS
<1> QED BY <1>1, <1>2 DEF Fits, FitsOne

LEMMA ConcatFits ==
  ASSUME NEW s, NEW t, NEW q, Fits(s, q), Fits(t, q)
  PROVE  Fits(s \o t, q) /\ Len(s \o t) = Len(s) + Len(t)
<1>1. s \in Seq(EventSet) /\ t \in Seq(EventSet) /\ Len(s) \in Nat /\ Len(t) \in Nat
  BY LenProperties DEF Fits
<1>2. PICK c : c = s \o t
  OBVIOUS
<1>3. IsConcat(c, s, t, EventSet)
  BY <1>1, <1>2, ConcatFacts
<1>4. ASSUME NEW j \in 1 .. Len(c)
      PROVE  \/ c[j].request = 0
             \/ q # NoRequest /\ c[j].request = q.number /\ c[j].generation = q.generation
  <2>1. CASE j <= Len(s)
    <3>1. j \in 1 .. Len(s) /\ c[j] = s[j]
      BY <1>1, <1>3, <2>1 DEF IsConcat
    <3> QED BY <3>1 DEF Fits
  <2>2. CASE j > Len(s)
    <3>1. j - Len(s) \in 1 .. Len(t) /\ c[j] = t[j - Len(s)]
      BY <1>1, <1>3, <2>2 DEF IsConcat
    <3> QED BY <3>1 DEF Fits
  <2> QED BY <1>1, <2>1, <2>2
<1>5. Fits(c, q) /\ Len(c) = Len(s) + Len(t)
  BY <1>3, <1>4 DEF IsConcat, Fits
<1> QED BY <1>2, <1>5

LEMMA AnonymousFits ==
  ASSUME NEW kind \in Kinds, NEW g \in Nat, NEW q
  PROVE  FitsOne(Event(kind, g, 0), q)
BY EventFacts DEF IsEvent, FitsOne

LEMMA OwnFits ==
  ASSUME NEW kind \in Kinds, request \in RequestSet
  PROVE  FitsOne(Own(kind), request)
<1>1. request # NoRequest /\ request.number \in Nat /\ request.generation \in Nat
  BY SomeRequest
<1>2. IsEvent(Own(kind), request.generation, request.number)
  BY <1>1, EventFacts DEF Own
<1> QED BY <1>1, <1>2 DEF IsEvent, FitsOne

LEMMA SeenFits ==
  ASSUME SessionInv, RunningInv, NEW kind \in Kinds
  PROVE  FitsOne(Seen(kind), request)
<1>1. CASE pending # 0 /\ request.generation = generation
  <2>1. request \in RequestSet /\ request # NoRequest /\ pending = request.number
        /\ pending \in Nat /\ generation \in Nat
    BY <1>1 DEF RunningInv, SessionInv, Running
  <2>2. IsEvent(Seen(kind), generation, pending)
    BY <1>1, <2>1, EventFacts DEF Seen
  <2> QED BY <1>1, <2>1, <2>2 DEF IsEvent, FitsOne
<1>2. CASE ~(pending # 0 /\ request.generation = generation)
  BY <1>2, AnonymousFits DEF Seen, SessionInv
<1> QED BY <1>1, <1>2

LEMMA FailedFits ==
  ASSUME SessionInv, RunningInv
  PROVE  Fits(PendingFailed, request) /\ (pending = 0 => Len(PendingFailed) = 0)
<1>1. CASE pending # 0
  <2>1. request \in RequestSet
    BY <1>1 DEF RunningInv, Running
  <2> QED BY <1>1, <2>1, OwnFits, OneFits DEF PendingFailed, Kinds
<1>2. CASE pending = 0
  BY <1>2, NothingFits, EmptySeq DEF PendingFailed
<1> QED BY <1>1, <1>2

(* Steps that leave the request what it is, but for what became of it.     *)
SameRequest ==
  \/ UNCHANGED request
  \/ /\ Running /\ request' \in RequestSet /\ request'.number = request.number
     /\ request'.first = request.first /\ request'.generation = request.generation

LEMMA SameStep ==
  ASSUME DiagnosticsInv, NEW list, Fits(list, request), Report(list), UNCHANGED begun,
         SameRequest
  PROVE  JournalInv' /\ total' = total + Len(list) /\ total' \in Nat /\ Len(list) \in Nat
<1>0. /\ begun \in Nat /\ total \in Nat /\ Len(list) \in Nat
      /\ request = NoRequest \/ request \in RequestSet
      /\ begun = finished + (IF Running THEN 1 ELSE 0)
      /\ JournalInv
  BY LenProperties DEF DiagnosticsInv, SessionInv, JournalInv, EventsInv, Fits, RunningInv,
                       RecordsInv
<1>1. total' = total + Len(list)
  BY DEF Report, Record
<1>2. Running' <=> Running
  <2>1. CASE UNCHANGED request
    BY <2>1 DEF Running
  <2>2. CASE Running /\ request' \in RequestSet
    <3>1. request' # NoRequest
      BY <2>2, SomeRequest
    <3> QED BY <2>2, <3>1 DEF Running
  <2> QED BY <2>1, <2>2 DEF SameRequest
<1>3. request' = NoRequest \/ request' \in RequestSet
  BY <1>0 DEF SameRequest
<1>4. Fits(list, request')
  BY <1>2 DEF SameRequest, Fits, Running
<1>5. Running' => /\ request'.number = begun'
                  /\ request'.first \in 1 .. total + Len(list)
                  /\ request'.first <= total + 1 /\ Attr(events, request', total)
  <2> SUFFICES ASSUME Running'
               PROVE  /\ request'.number = begun'
                      /\ request'.first \in 1 .. total + Len(list)
                      /\ request'.first <= total + 1 /\ Attr(events, request', total)
    OBVIOUS
  <2>1. /\ request.number = begun /\ request.first \in 1 .. total
        /\ Attr(events, request, total)
    BY <1>2 DEF DiagnosticsInv, RunningInv, JournalInv, AttributedInv
  <2>2. /\ request'.number = request.number /\ request'.first = request.first
        /\ request'.generation = request.generation
    BY DEF SameRequest
  <2>3. Attr(events, request', total)
    BY <2>1, <2>2 DEF Attr, Names, Within
  <2> QED BY <1>0, <2>1, <2>2, <2>3
<1>6. begun' = finished + (IF Running' THEN 1 ELSE 0)
  BY <1>0, <1>2
<1>7. JournalInv'
  BY <1>0, <1>3, <1>4, <1>5, <1>6, ReportStep
<1> QED BY <1>0, <1>1, <1>7

-----------------------------------------------------------------------------
(* How many readers there are                                              *)

LEMMA ReaderCount ==
  ASSUME SessionInv
  PROVE  IsFiniteSet(readers) /\ Cardinality(readers) \in Nat
<1>0. 1 \in Int /\ generation \in Int /\ readers \subseteq 1 .. generation
  BY DEF SessionInv
<1>1. IsFiniteSet(1 .. generation)
  BY <1>0, FS_Interval, Zenon
<1> QED BY <1>0, <1>1, FS_Subset, FS_CardinalityType

-----------------------------------------------------------------------------
(* The queue of the lifecycle lock                                         *)

(* q is s without its element i.                                           *)
IsRemoved(q, s, i) ==
  /\ q \in Seq(TaskSet) /\ Len(q) = Len(s) - 1
  /\ \A j \in 1 .. Len(s) - 1 : q[j] = IF j < i THEN s[j] ELSE s[j + 1]

LEMMA RemoveFacts ==
  ASSUME NEW s \in Seq(TaskSet), NEW i \in 1 .. Len(s)
  PROVE  IsRemoved(RemoveAt(s, i), s, i)
<1>0. Len(s) \in Nat /\ i \in Nat /\ i >= 1 /\ i <= Len(s)
  BY LenProperties
<1>1. PICK before, after : before = SubSeq(s, 1, i - 1) /\ after = SubSeq(s, i + 1, Len(s))
  OBVIOUS
<1>2. /\ before \in Seq(TaskSet) /\ Len(before) = i - 1
      /\ \A j \in 1 .. i - 1 : before[j] = s[j]
  <2>1. \A j \in 1 .. i - 1 : s[j] \in TaskSet
    <3> TAKE j \in 1 .. i - 1
    <3>1. j \in 1 .. Len(s)
      BY <1>0
    <3> QED BY <3>1, ElementOfSeq
  <2>2. /\ SubSeq(s, 1, i - 1) \in Seq(TaskSet)
        /\ Len(SubSeq(s, 1, i - 1)) = (IF 1 <= i - 1 THEN i - 1 - 1 + 1 ELSE 0)
        /\ \A j \in 1 .. i - 1 - 1 + 1 : SubSeq(s, 1, i - 1)[j] = s[1 + j - 1]
    BY <1>0, <2>1, SubSeqProperties
  <2>3. \A j \in 1 .. i - 1 : 1 + j - 1 = j
    BY <1>0
  <2> QED BY <1>0, <1>1, <2>2, <2>3
<1>3. /\ after \in Seq(TaskSet) /\ Len(after) = Len(s) - i
      /\ \A j \in 1 .. Len(s) - i : after[j] = s[i + j]
  <2>1. \A j \in i + 1 .. Len(s) : s[j] \in TaskSet
    <3> TAKE j \in i + 1 .. Len(s)
    <3>1. j \in 1 .. Len(s)
      BY <1>0
    <3> QED BY <3>1, ElementOfSeq
  <2>2. /\ SubSeq(s, i + 1, Len(s)) \in Seq(TaskSet)
        /\ Len(SubSeq(s, i + 1, Len(s)))
             = (IF i + 1 <= Len(s) THEN Len(s) - (i + 1) + 1 ELSE 0)
        /\ \A j \in 1 .. Len(s) - (i + 1) + 1 :
             SubSeq(s, i + 1, Len(s))[j] = s[i + 1 + j - 1]
    BY <1>0, <2>1, SubSeqProperties
  <2>3. Len(s) - (i + 1) + 1 = Len(s) - i
    BY <1>0
  <2>4. after \in Seq(TaskSet) /\ Len(after) = Len(s) - i
    <3>1. Len(after) = IF i + 1 <= Len(s) THEN Len(s) - i ELSE 0
      BY <1>1, <2>2, <2>3
    <3> QED BY <1>0, <1>1, <2>2, <3>1
  <2>5. ASSUME NEW j \in 1 .. Len(s) - i PROVE after[j] = s[i + j]
    <3>1. after[j] = s[i + 1 + j - 1]
      BY <1>1, <2>2, <2>3
    <3>2. i + 1 + j - 1 = i + j
      BY <1>0
    <3> QED BY <3>1, <3>2
  <2> QED BY <2>4, <2>5
<1>4. PICK q : q = before \o after
  OBVIOUS
<1>5. IsConcat(q, before, after, TaskSet)
  BY <1>2, <1>3, <1>4, ConcatFacts
<1>6. ASSUME NEW j \in 1 .. Len(s) - 1
      PROVE  q[j] = IF j < i THEN s[j] ELSE s[j + 1]
  <2>1. CASE j < i
    <3>1. j \in 1 .. i - 1 /\ j \in 1 .. Len(before) + Len(after) /\ j <= Len(before)
      BY <1>0, <1>2, <1>3, <2>1
    <3> QED BY <1>2, <1>5, <2>1, <3>1 DEF IsConcat
  <2>2. CASE ~(j < i)
    <3>1. /\ j - (i - 1) \in 1 .. Len(s) - i /\ i + (j - (i - 1)) = j + 1
          /\ j \in 1 .. Len(before) + Len(after) /\ ~(j <= Len(before))
      BY <1>0, <1>2, <1>3, <2>2
    <3>2. q[j] = after[j - (i - 1)]
      BY <1>2, <1>5, <3>1 DEF IsConcat
    <3>3. after[j - (i - 1)] = s[j + 1]
      BY <1>3, <3>1
    <3> QED BY <2>2, <3>2, <3>3
  <2> QED BY <2>1, <2>2
<1>7. IsRemoved(q, s, i)
  BY <1>0, <1>2, <1>3, <1>5, <1>6 DEF IsRemoved, IsConcat
<1> QED BY <1>1, <1>4, <1>7 DEF RemoveAt

(* The session after a task has left the queue, whoever it was.            *)
LEMMA LeavesKeeps ==
  ASSUME SessionInv, NEW i \in 1 .. Len(queue), Leaves(i), generation' \in Nat,
         generation <= generation', active' \in 0 .. generation',
         readers' \subseteq 1 .. generation', begun' \in Nat, others' \in Nat,
         connections' \in Nat, i = 1 \/ UNCHANGED active
  PROVE  SessionInv' /\ IsRemoved(queue', queue, i)
<1>0. /\ queue \in Seq(TaskSet) /\ generation \in Nat /\ closing \in 0 .. generation
      /\ Len(queue) \in Nat /\ closing' = (IF i = 1 THEN 0 ELSE closing)
  BY LenProperties DEF SessionInv, Leaves
<1>1. IsRemoved(queue', queue, i)
  BY <1>0, RemoveFacts DEF Leaves
<1>2. queue' \in Seq(TaskSet) /\ Len(queue') = Len(queue) - 1
  BY <1>1 DEF IsRemoved
<1>3. ASSUME NEW j \in 1 .. Len(queue') PROVE queue'[j].generation <= generation'
  <2>1. PICK k \in 1 .. Len(queue) : queue'[j] = queue[k]
    <3>1. j \in 1 .. Len(queue) /\ j + 1 \in 1 .. Len(queue)
      BY <1>0, <1>2
    <3> QED BY <1>1, <1>2, <3>1 DEF IsRemoved
  <2>2. queue[k].generation <= generation /\ queue[k].generation \in Nat
    <3>1. queue[k] \in TaskSet
      BY <1>0, ElementOfSeq
    <3> QED BY <3>1 DEF SessionInv, TaskSet
  <2> QED BY <1>0, <2>1, <2>2
<1>4. ASSUME closing' # 0
      PROVE  /\ Len(queue') >= 1 /\ queue'[1].does \in {"close", "request"} /\ active' = 0
  <2>1. i # 1 /\ closing # 0 /\ active' = active
    BY <1>0, <1>4
  <2>2. 1 \in 1 .. Len(queue) - 1 /\ 1 < i
    BY <1>0, <2>1
  <2>3. queue'[1] = queue[1]
    BY <1>1, <2>2 DEF IsRemoved
  <2> QED BY <1>2, <2>1, <2>2, <2>3 DEF SessionInv
<1>5. closing' \in 0 .. generation'
  BY <1>0
<1> QED BY <1>1, <1>2, <1>3, <1>4, <1>5 DEF SessionInv

(* The session after a task has joined the queue.                          *)
LEMMA AsksKeeps ==
  ASSUME SessionInv, NEW does \in {"connect", "close", "request", "lose"}, NEW g \in Nat,
         g <= generation', Asks(does, g), generation' \in Nat, generation <= generation',
         UNCHANGED active, readers' \subseteq 1 .. generation', begun' \in Nat,
         others' \in Nat, connections' \in Nat
  PROVE  SessionInv' /\ IsAppended(queue', queue, Task(does, g), TaskSet)
<1>0. /\ queue \in Seq(TaskSet) /\ generation \in Nat /\ UNCHANGED closing
      /\ Len(queue) \in Nat /\ closing \in 0 .. generation /\ active \in 0 .. generation
  BY LenProperties DEF SessionInv, Asks
<1>1. Task(does, g) \in TaskSet /\ Task(does, g).generation = g
  BY DEF Task, TaskSet
<1>2. IsAppended(queue', queue, Task(does, g), TaskSet)
  BY <1>0, <1>1, AppendFacts DEF Asks
<1>3. /\ queue' \in Seq(TaskSet) /\ Len(queue') = Len(queue) + 1
      /\ queue'[Len(queue) + 1] = Task(does, g)
      /\ \A i \in 1 .. Len(queue) : queue'[i] = queue[i]
  BY <1>2 DEF IsAppended
<1>4. ASSUME NEW j \in 1 .. Len(queue') PROVE queue'[j].generation <= generation'
  <2>1. CASE j = Len(queue) + 1
    BY <1>1, <1>3, <2>1
  <2>2. CASE j # Len(queue) + 1
    <3>1. j \in 1 .. Len(queue)
      BY <1>0, <1>3, <2>2
    <3>2. queue[j] \in TaskSet
      BY <1>0, <3>1, ElementOfSeq
    <3>3. queue[j].generation <= generation /\ queue[j].generation \in Nat
      BY <3>1, <3>2 DEF SessionInv, TaskSet
    <3> QED BY <1>0, <1>3, <3>1, <3>3
  <2> QED BY <2>1, <2>2
<1>5. closing' # 0 => /\ Len(queue') >= 1 /\ queue'[1].does \in {"close", "request"}
                      /\ active' = 0
  <2> HAVE closing' # 0
  <2>1. Len(queue) >= 1 /\ queue[1].does \in {"close", "request"} /\ active = 0
    BY <1>0 DEF SessionInv
  <2>2. 1 \in 1 .. Len(queue)
    BY <1>0, <2>1
  <2> QED BY <1>0, <1>3, <2>1, <2>2
<1>6. closing' \in 0 .. generation' /\ active' \in 0 .. generation'
  BY <1>0
<1> QED BY <1>2, <1>3, <1>4, <1>5, <1>6 DEF SessionInv

(* A step that leaves the request what it is, and the place it waits at.   *)
LEMMA WaitKeeps ==
  ASSUME WaitInv, total \in Nat, total' \in Nat, total <= total', UNCHANGED request,
         ASSUME NEW p \in 1 .. Len(queue), Running, request.phase = "response_timeout",
                generation \notin readers, Waits(p), Spares(p)
         PROVE  /\ generation' \notin readers'
                /\ \E q \in 1 .. Len(queue') : Waits(q)' /\ Spares(q)'
  PROVE  WaitInv'
<1> SUFFICES ASSUME Running', request'.phase = "response_timeout"
             PROVE  /\ request'.deadline \in 1 .. total'
                    /\ ~request'.dialed =>
                         /\ generation' \notin readers'
                         /\ \E p \in 1 .. Len(queue') : (Waits(p) /\ Spares(p))'
  BY DEF WaitInv
<1>1. Running /\ request.phase = "response_timeout" /\ request.deadline \in 1 .. total
  BY DEF WaitInv, Running
<1>2. request'.deadline \in 1 .. total'
  BY <1>1
<1>3. ASSUME ~request.dialed
      PROVE  /\ generation' \notin readers'
             /\ \E p \in 1 .. Len(queue') : Waits(p)' /\ Spares(p)'
  <2>1. PICK p \in 1 .. Len(queue) : Waits(p) /\ Spares(p)
    BY <1>1, <1>3 DEF WaitInv
  <2>2. generation \notin readers
    BY <1>1, <1>3 DEF WaitInv
  <2> QED BY <1>1, <2>1, <2>2
<1> QED BY <1>2, <1>3

(* What is spared, in numbers: n events have been recorded, and those      *)
(* ahead and the readers may record so much less.                          *)
LEMMA SparesKeeps ==
  ASSUME request \in RequestSet, UNCHANGED request, total \in Nat, NEW n \in Nat,
         total' = total + n, NEW p \in Nat, NEW q \in Nat, Spares(p),
         NEW c \in Nat, c = Cardinality(readers), NEW d \in Nat, d = Cardinality(readers'),
         NEW k \in {0, 1}, k = (IF closing # 0 THEN 1 ELSE 0),
         NEW l \in {0, 1}, l = (IF closing' # 0 THEN 1 ELSE 0),
         n + 2 * q + 2 * d + k <= 2 * p + 2 * c + l
  PROVE  Spares(q)'
<1>1. PICK m \in Nat, z \in Nat : m = Needed(request) /\ z = request.deadline
  BY DEF Needed, RequestSet
<1>2. total - z + 2 * (p - 1) + 2 * c <= m - 4 + k
  BY <1>1 DEF Spares
<1>3. total + n - z + 2 * (q - 1) + 2 * d <= m - 4 + l
  BY <1>2
<1>4. Needed(request') = m /\ request'.deadline = z
  BY <1>1
<1> QED BY <1>3, <1>4 DEF Spares, Needed

(* The place of the request when another task leaves the queue.            *)
LEMMA WaitsMoves ==
  ASSUME SessionInv, NEW i \in 1 .. Len(queue), IsRemoved(queue', queue, i),
         NEW p, Waits(p), i # p, generation' = generation \/ generation' = generation + 1,
         NEW q, q = IF i < p THEN p - 1 ELSE p
  PROVE  q \in 1 .. Len(queue') /\ Waits(q)'
<1>0. /\ Len(queue) \in Nat /\ p \in 1 .. Len(queue) /\ queue[p].does = "request"
      /\ generation \in Nat
      /\ \A j \in 1 .. p - 1 : /\ queue[j].does \in {"close", "lose"}
                               /\ queue[j].does = "lose" => queue[j].generation # generation
  BY LenProperties DEF SessionInv, Waits
<1>1. /\ Len(queue') = Len(queue) - 1
      /\ \A j \in 1 .. Len(queue) - 1 :
           queue'[j] = IF j < i THEN queue[j] ELSE queue[j + 1]
  BY DEF IsRemoved
<1>2. q \in 1 .. Len(queue')
  BY <1>0, <1>1
<1>3. queue'[q].does = "request"
  <2>1. q \in 1 .. Len(queue) - 1 /\ (IF q < i THEN q = p ELSE q + 1 = p)
    BY <1>0, <1>1, <1>2
  <2> QED BY <1>0, <1>1, <2>1
<1>4. ASSUME NEW j \in 1 .. q - 1
      PROVE  /\ queue'[j].does \in {"close", "lose"}
             /\ queue'[j].does = "lose" => queue'[j].generation # generation'
  <2>1. PICK m \in 1 .. p - 1 : queue'[j] = queue[m]
    <3>1. j \in 1 .. Len(queue) - 1 /\ (IF j < i THEN j \in 1 .. p - 1 ELSE j + 1 \in 1 .. p - 1)
      BY <1>0, <1>1, <1>2
    <3> QED BY <1>1, <3>1
  <2>2. m \in 1 .. Len(queue)
    BY <1>0
  <2>3. queue[m].generation <= generation /\ queue[m].generation \in Nat
    <3>1. queue[m] \in TaskSet
      BY <2>2, ElementOfSeq DEF SessionInv
    <3> QED BY <2>2, <3>1 DEF SessionInv, TaskSet
  <2> QED BY <1>0, <2>1, <2>3
<1> QED BY <1>2, <1>3, <1>4 DEF Waits

(* It keeps its place when another joins.                                  *)
LEMMA WaitsStays ==
  ASSUME SessionInv, NEW t \in TaskSet, IsAppended(queue', queue, t, TaskSet),
         UNCHANGED generation, NEW p, Waits(p)
  PROVE  p \in 1 .. Len(queue') /\ Waits(p)'
<1>0. /\ Len(queue) \in Nat /\ p \in 1 .. Len(queue) /\ Len(queue') = Len(queue) + 1
      /\ \A j \in 1 .. Len(queue) : queue'[j] = queue[j]
  BY LenProperties DEF SessionInv, Waits, IsAppended
<1>1. \A j \in 1 .. p - 1 : j \in 1 .. Len(queue)
  BY <1>0
<1> QED BY <1>0, <1>1 DEF Waits

(* Who is in the queue when i has left it: somebody who was.               *)
LEMMA OthersLeft ==
  ASSUME NEW i \in 1 .. Len(queue), IsRemoved(queue', queue, i), queue \in Seq(TaskSet),
         NEW j \in 1 .. Len(queue')
  PROVE  \E k \in 1 .. Len(queue) :
           queue'[j] = queue[k] /\ k # i /\ j = IF k < i THEN k ELSE k - 1
<1>1. /\ Len(queue) \in Nat /\ Len(queue') = Len(queue) - 1
      /\ queue'[j] = IF j < i THEN queue[j] ELSE queue[j + 1]
  BY LenProperties DEF IsRemoved
<1>2. j \in 1 .. Len(queue) /\ j + 1 \in 1 .. Len(queue)
  BY <1>1
<1>3. CASE j < i
  BY <1>1, <1>2, <1>3
<1>4. CASE ~(j < i)
  <2>1. j + 1 # i /\ ~(j + 1 < i) /\ j = j + 1 - 1
    BY <1>2, <1>4
  <2> QED BY <1>1, <1>2, <1>4, <2>1
<1> QED BY <1>3, <1>4

LEMMA OneLeaves ==
  ASSUME SessionInv, OneWaits, NEW i \in 1 .. Len(queue), IsRemoved(queue', queue, i),
         \/ queue[i].does = "request"
         \/ Running /\ request.phase \in GivenUp
            => Running' /\ request'.phase = request.phase
  PROVE  OneWaits'
<1>0. queue \in Seq(TaskSet)
  BY DEF SessionInv
<1> SUFFICES ASSUME NEW j \in 1 .. Len(queue'), queue'[j].does = "request"
             PROVE  /\ Running' /\ request'.phase \in GivenUp
                    /\ \A m \in 1 .. Len(queue') : queue'[m].does = "request" => m = j
  BY DEF OneWaits, GivenUp
<1>1. PICK k \in 1 .. Len(queue) :
        queue'[j] = queue[k] /\ k # i /\ j = IF k < i THEN k ELSE k - 1
  BY <1>0, OthersLeft
<1>2. /\ Running /\ request.phase \in GivenUp
      /\ \A m \in 1 .. Len(queue) : queue[m].does = "request" => m = k
  BY <1>1 DEF OneWaits
<1>3. Running' /\ request'.phase \in GivenUp
  BY <1>1, <1>2
<1>4. ASSUME NEW m \in 1 .. Len(queue'), queue'[m].does = "request" PROVE m = j
  <2>1. PICK n \in 1 .. Len(queue) :
          queue'[m] = queue[n] /\ n # i /\ m = IF n < i THEN n ELSE n - 1
    BY <1>0, OthersLeft
  <2> QED BY <1>1, <1>2, <1>4, <2>1
<1> QED BY <1>3, <1>4

LEMMA OneJoins ==
  ASSUME SessionInv, OneWaits, NEW t \in TaskSet, IsAppended(queue', queue, t, TaskSet),
         \/ /\ t.does # "request"
            /\ Running /\ request.phase \in GivenUp
               => Running' /\ request'.phase = request.phase
         \/ /\ ~(Running /\ request.phase \in GivenUp)
            /\ Running' /\ request'.phase \in GivenUp
  PROVE  OneWaits'
<1>0. /\ Len(queue) \in Nat /\ Len(queue') = Len(queue) + 1
      /\ queue'[Len(queue) + 1] = t
      /\ \A j \in 1 .. Len(queue) : queue'[j] = queue[j]
  BY LenProperties DEF SessionInv, IsAppended
<1>1. \A j \in 1 .. Len(queue') : j \in 1 .. Len(queue) \/ j = Len(queue) + 1
  BY <1>0
<1>2. CASE /\ t.does # "request"
           /\ Running /\ request.phase \in GivenUp
              => Running' /\ request'.phase = request.phase
  BY <1>0, <1>1, <1>2 DEF OneWaits
<1>3. CASE /\ ~(Running /\ request.phase \in GivenUp)
           /\ Running' /\ request'.phase \in GivenUp
  <2>1. \A j \in 1 .. Len(queue') : queue'[j].does = "request" => j = Len(queue) + 1
    BY <1>0, <1>1, <1>3 DEF OneWaits
  <2> QED BY <1>3, <2>1 DEF OneWaits
<1> QED BY <1>2, <1>3

LEMMA OneStays ==
  ASSUME OneWaits, UNCHANGED queue,
         Running /\ request.phase \in GivenUp => Running' /\ request'.phase = request.phase
  PROVE  OneWaits'
BY DEF OneWaits, GivenUp

LEMMA RunningKeeps ==
  ASSUME SessionInv, RunningInv, UNCHANGED <<request, begun, pending>>, generation' \in Nat,
         generation <= generation'
  PROVE  RunningInv'
BY DEF SessionInv, RunningInv, Running, PhaseInv

LEMMA JournalStays ==
  ASSUME JournalInv, UNCHANGED <<journal, begun, request>>
  PROVE  JournalInv' /\ UNCHANGED total /\ total \in Nat
BY DEF JournalInv, EventsInv, RecordsInv, AttributedInv, EpisodesInv, Running, journal

(* Counters: closing' as 0 or 1, and how many readers there are.           *)
LEMMA Counts ==
  ASSUME SessionInv
  PROVE  /\ \E c \in Nat : c = Cardinality(readers)
         /\ \E k \in {0, 1} : k = IF closing # 0 THEN 1 ELSE 0
         /\ \E l \in {0, 1} : l = IF closing' # 0 THEN 1 ELSE 0
<1>1. Cardinality(readers) \in Nat
  BY ReaderCount
<1> QED BY <1>1

(* What leaves with the holder is at most what its place allowed for.      *)
LEMMA PlaceFreed ==
  ASSUME NEW n \in {0, 1}, NEW k \in {0, 1}, NEW p \in Nat, NEW c \in Nat
  PROVE  n + 2 * (p - 1) + 2 * c + k <= 2 * p + 2 * c + 0
OBVIOUS

(* Somebody but the request leaves the queue and records n events on the   *)
(* way, one of them if it was closing, and none if it only waited.         *)
LEMMA WaitLeaves ==
  ASSUME SessionInv, RunningInv, WaitInv, NEW i \in 1 .. Len(queue),
         queue[i].does # "request", IsRemoved(queue', queue, i),
         closing' = (IF i = 1 THEN 0 ELSE closing),
         total \in Nat, NEW n \in {0, 1}, total' = total + n, UNCHANGED <<request, readers>>,
         n = 1 => i = 1, Running /\ request.phase = "response_timeout" =>
           \/ UNCHANGED generation \/ generation' = generation + 1
  PROVE  WaitInv'
<1> SUFFICES ASSUME NEW p \in 1 .. Len(queue), Running, request.phase = "response_timeout",
                    generation \notin readers, Waits(p), Spares(p)
             PROVE  /\ generation' \notin readers'
                    /\ \E q \in 1 .. Len(queue') : Waits(q)' /\ Spares(q)'
  <2>1. total' \in Nat /\ total <= total'
    OBVIOUS
  <2> QED BY <2>1, WaitKeeps
<1>0. /\ Len(queue) \in Nat /\ generation \in Nat /\ request \in RequestSet
      /\ readers \subseteq 1 .. generation
  BY LenProperties DEF SessionInv, RunningInv, Running
<1>1. i # p
  BY DEF Waits
<1>2. PICK q : q = IF i < p THEN p - 1 ELSE p
  OBVIOUS
<1>3. q \in 1 .. Len(queue') /\ Waits(q)'
  BY <1>1, <1>2, WaitsMoves
<1>4. generation' \notin readers'
  BY <1>0
<1>5. PICK c \in Nat : c = Cardinality(readers)
  BY Counts
<1>6. PICK k \in {0, 1}, l \in {0, 1} :
        k = (IF closing # 0 THEN 1 ELSE 0) /\ l = (IF closing' # 0 THEN 1 ELSE 0)
  BY Counts
<1>7. c = Cardinality(readers') /\ q \in Nat /\ p \in Nat /\ n \in Nat
  BY <1>0, <1>2, <1>5
<1>8. n + 2 * q + 2 * c + k <= 2 * p + 2 * c + l
  <2>1. CASE i = 1
    <3>1. q = p - 1 /\ l = 0
      BY <1>0, <1>1, <1>2, <1>6, <2>1
    <3>2. n + 2 * (p - 1) + 2 * c + k <= 2 * p + 2 * c + 0
      BY <1>7, PlaceFreed
    <3> QED BY <3>1, <3>2
  <2>2. CASE i # 1
    <3>1. n = 0 /\ k = l /\ q <= p
      BY <1>0, <1>2, <1>6, <2>2
    <3> QED BY <1>0, <1>7, <3>1
  <2> QED BY <2>1, <2>2
<1>9. Spares(q)'
  BY <1>0, <1>5, <1>6, <1>7, <1>8, SparesKeeps
<1> QED BY <1>3, <1>4, <1>9

(* Somebody joins behind it, and records nothing yet.                      *)
LEMMA WaitJoins ==
  ASSUME SessionInv, RunningInv, WaitInv, NEW t \in TaskSet,
         IsAppended(queue', queue, t, TaskSet), total \in Nat,
         UNCHANGED <<generation, readers, closing, request, total>>
  PROVE  WaitInv'
<1> SUFFICES ASSUME NEW p \in 1 .. Len(queue), Running, request.phase = "response_timeout",
                    generation \notin readers, Waits(p), Spares(p)
             PROVE  /\ generation' \notin readers'
                    /\ \E q \in 1 .. Len(queue') : Waits(q)' /\ Spares(q)'
  <2>1. total' \in Nat /\ total <= total'
    OBVIOUS
  <2> QED BY <2>1, WaitKeeps
<1>1. p \in 1 .. Len(queue') /\ Waits(p)'
  BY WaitsStays
<1>2. Spares(p)'
  BY DEF Spares, Needed
<1> QED BY <1>1, <1>2

LEMMA NobodyWaits ==
  ASSUME ~(Running' /\ request'.phase = "response_timeout")
  PROVE  WaitInv'
BY DEF WaitInv

-----------------------------------------------------------------------------
(* The callers                                                             *)

LEMMA CallsKeep == DiagnosticsInv /\ (CallConnect \/ CallClose) => DiagnosticsInv'
<1> SUFFICES ASSUME DiagnosticsInv, CallConnect \/ CallClose PROVE DiagnosticsInv'
  OBVIOUS
<1>s. SessionInv /\ RunningInv /\ OneWaits /\ WaitInv /\ JournalInv
  BY DEF DiagnosticsInv
<1>0. /\ UNCHANGED <<generation, active, readers, pending, request, begun, journal>>
      /\ generation \in Nat /\ begun' \in Nat /\ others' \in Nat /\ connections' \in Nat
      /\ readers' \subseteq 1 .. generation'
  <2>1. CASE CallConnect
    BY <1>s, <2>1 DEF SessionInv, CallConnect
  <2>2. CASE CallClose
    BY <1>s, <2>2 DEF SessionInv, CallClose, Other
  <2> QED BY <2>1, <2>2
<1>1. PICK does \in {"connect", "close"} : Asks(does, 0)
  <2>1. CASE CallConnect
    BY <2>1 DEF CallConnect
  <2>2. CASE CallClose
    BY <2>2 DEF CallClose
  <2> QED BY <2>1, <2>2
<1>2. SessionInv' /\ IsAppended(queue', queue, Task(does, 0), TaskSet)
  <2>1. /\ does \in {"connect", "close", "request", "lose"} /\ 0 \in Nat
        /\ 0 <= generation' /\ generation <= generation' /\ generation' \in Nat
        /\ UNCHANGED active
    BY <1>0, <1>1
  <2> QED BY <1>s, <1>0, <1>1, <2>1, AsksKeeps
<1>3. Task(does, 0) \in TaskSet /\ Task(does, 0).does # "request"
  BY <1>1 DEF Task, TaskSet
<1>4. OneWaits'
  <2>1. Running' <=> Running
    BY <1>0 DEF Running
  <2> QED BY <1>s, <1>0, <1>2, <1>3, <2>1, OneJoins
<1>5. JournalInv' /\ UNCHANGED total /\ total \in Nat
  BY <1>s, <1>0, JournalStays
<1>6. WaitInv'
  BY <1>s, <1>0, <1>1, <1>2, <1>3, <1>5, WaitJoins DEF Asks
<1>7. RunningInv'
  BY <1>s, <1>0, RunningKeeps
<1> QED BY <1>2, <1>4, <1>5, <1>6, <1>7 DEF DiagnosticsInv

(* Somebody but the request leaves, and nothing is recorded.               *)
LEMMA QuitKeeps ==
  ASSUME DiagnosticsInv, NEW i \in 1 .. Len(queue), queue[i].does # "request", Leaves(i),
         UNCHANGED <<generation, active, readers, pending, request, begun, connections,
                     journal>>, others' \in Nat
  PROVE  DiagnosticsInv'
<1>s. SessionInv /\ RunningInv /\ OneWaits /\ WaitInv /\ JournalInv
  BY DEF DiagnosticsInv
<1>0. /\ generation \in Nat /\ begun' \in Nat /\ connections' \in Nat
      /\ active' \in 0 .. generation' /\ readers' \subseteq 1 .. generation'
      /\ closing' = IF i = 1 THEN 0 ELSE closing
  BY <1>s DEF SessionInv, Leaves
<1>1. SessionInv' /\ IsRemoved(queue', queue, i)
  BY <1>s, <1>0, LeavesKeeps
<1>2. JournalInv' /\ UNCHANGED total /\ total \in Nat
  BY <1>s, JournalStays
<1>3. OneWaits'
  <2>1. Running' <=> Running
    BY DEF Running
  <2> QED BY <1>s, <1>1, <2>1, OneLeaves
<1>4. WaitInv'
  <2>1. total' = total + 0
    BY <1>2
  <2> QED BY <1>s, <1>0, <1>1, <1>2, <2>1, WaitLeaves
<1>5. RunningInv'
  BY <1>s, <1>0, RunningKeeps
<1> QED BY <1>1, <1>2, <1>3, <1>4, <1>5 DEF DiagnosticsInv

LEMMA CancelKeeps ==
  ASSUME DiagnosticsInv, NEW i \in 1 .. Len(queue), CancelCaller(i)
  PROVE  DiagnosticsInv'
<1>1. others' \in Nat /\ queue[i].does # "request"
  BY DEF CancelCaller, Other, DiagnosticsInv, SessionInv
<1> QED BY <1>1, QuitKeeps DEF CancelCaller

LEMMA HeadFacts ==
  ASSUME SessionInv, queue # <<>>
  PROVE  1 \in 1 .. Len(queue) /\ Len(queue) \in Nat /\ queue[1] \in TaskSet
<1>1. queue \in Seq(TaskSet) /\ Len(queue) \in Nat /\ Len(queue) # 0
  BY LenProperties, EmptySeq DEF SessionInv
<1>2. 1 \in 1 .. Len(queue)
  BY <1>1
<1> QED BY <1>1, <1>2, ElementOfSeq

LEMMA ConnectKeeps == DiagnosticsInv /\ Connect => DiagnosticsInv'
<1> SUFFICES ASSUME DiagnosticsInv, Connect PROVE DiagnosticsInv'
  OBVIOUS
<1>s. SessionInv /\ RunningInv /\ OneWaits /\ WaitInv /\ JournalInv
  BY DEF DiagnosticsInv
<1>0. /\ 1 \in 1 .. Len(queue) /\ queue[1].does = "connect" /\ Leaves(1)
      /\ UNCHANGED <<pending, request, begun, others, connections>>
      /\ generation \in Nat /\ begun' \in Nat /\ others' \in Nat /\ connections' \in Nat
      /\ readers \subseteq 1 .. generation
  BY <1>s, HeadFacts DEF Connect, Holds, SessionInv
<1>1. CASE UNCHANGED <<generation, active, readers, journal>>
  BY <1>0, <1>1, QuitKeeps
<1>2. CASE /\ generation' = generation + 1 /\ active' = generation'
           /\ readers' = readers \cup {generation'}
           /\ Report(<<Event("connection_opened", generation', 0)>>)
  <2>1. SessionInv' /\ IsRemoved(queue', queue, 1)
    <3>1. /\ generation' \in Nat /\ generation <= generation'
          /\ active' \in 0 .. generation' /\ readers' \subseteq 1 .. generation'
      BY <1>0, <1>2
    <3> QED BY <1>s, <1>0, <3>1, LeavesKeeps
  <2>2. Fits(<<Event("connection_opened", generation', 0)>>, request)
    <3>1. generation' \in Nat
      BY <1>0, <1>2
    <3> QED BY <3>1, AnonymousFits, OneFits DEF Kinds
  <2>3. JournalInv' /\ total' \in Nat /\ total \in Nat /\ total <= total'
    <3>1. total \in Nat
      BY <1>s DEF JournalInv, EventsInv
    <3> QED BY <1>0, <1>2, <2>2, <3>1, SameStep DEF SameRequest
  <2>4. OneWaits'
    <3>1. Running' <=> Running
      BY <1>0 DEF Running
    <3> QED BY <1>s, <1>0, <2>1, <3>1, OneLeaves
  <2>5. \A p \in 1 .. Len(queue) : ~Waits(p)
    <3> SUFFICES ASSUME NEW p \in 1 .. Len(queue), Waits(p) PROVE FALSE
      OBVIOUS
    <3>1. p # 1
      BY <1>0 DEF Waits
    <3>2. 1 \in 1 .. p - 1
      BY <1>0, <3>1
    <3> QED BY <1>0, <3>2 DEF Waits
  <2>6. WaitInv'
    BY <1>s, <1>0, <2>3, <2>5, WaitKeeps
  <2>7. RunningInv'
    BY <1>s, <1>0, <1>2, RunningKeeps
  <2> QED BY <2>1, <2>3, <2>4, <2>6, <2>7 DEF DiagnosticsInv
<1> QED BY <1>1, <1>2 DEF Connect

-----------------------------------------------------------------------------
(* The steps of the request                                                *)

LEMMA ThreeFit ==
  ASSUME NEW q, NEW c, FitsOne(c, q), NEW d, FitsOne(d, q), NEW e, FitsOne(e, q)
  PROVE  Fits(<<c, d, e>>, q) /\ Len(<<c, d, e>>) = 3
<1>1. <<c, d, e>> \in Seq(EventSet) /\ Len(<<c, d, e>>) = 3
  BY DEF FitsOne
<1>2. \A j \in 1 .. Len(<<c, d, e>>) :
        <<c, d, e>>[j] = c \/ <<c, d, e>>[j] = d \/ <<c, d, e>>[j] = e
  OBVIOUS
<1> QED BY <1>1, <1>2 DEF Fits, FitsOne

LEMMA SessionStays ==
  ASSUME SessionInv, UNCHANGED <<generation, active, readers, queue, closing, connections>>,
         begun' \in Nat, others' \in Nat
  PROVE  SessionInv'
BY DEF SessionInv

LEMMA BeginKeeps == DiagnosticsInv /\ BeginRequest => DiagnosticsInv'
<1> SUFFICES ASSUME DiagnosticsInv, BeginRequest PROVE DiagnosticsInv'
  OBVIOUS
<1>s. SessionInv /\ RunningInv /\ OneWaits /\ WaitInv /\ JournalInv /\ EventsInv /\ RecordsInv
  BY DEF DiagnosticsInv, JournalInv
<1>0. /\ begun' = begun + 1 /\ pending' = begun + 1 /\ begun \in Nat /\ total \in Nat
      /\ generation \in Nat /\ generation >= 1 /\ request = NoRequest /\ others' \in Nat
      /\ UNCHANGED <<generation, active, readers, queue, closing, others, connections>>
  BY <1>s DEF BeginRequest, SessionInv, EventsInv, Running, Connected
<1>1. /\ request' \in RequestSet /\ request'.phase = "drain" /\ request'.number = begun + 1
      /\ request'.generation = generation /\ request'.first = total + 1
      /\ request'.future = "open" /\ request'.drained = FALSE /\ request'.matched = FALSE
      /\ request'.invalidated = FALSE
  BY <1>0 DEF BeginRequest, RequestSet, Phases, Futures
<1>2. request' # NoRequest /\ Running'
  BY <1>1, SomeRequest DEF Running
<1> DEFINE list == <<Event("request_registered", generation, begun + 1),
                     Event("write_started", generation, begun + 1),
                     Event("write_returned", generation, begun + 1)>>
<1>3. Fits(list, request') /\ Len(list) = 3
  <2>1. ASSUME NEW kind \in Kinds
        PROVE  FitsOne(Event(kind, generation, begun + 1), request')
    <3>1. IsEvent(Event(kind, generation, begun + 1), generation, begun + 1)
      BY <1>0, EventFacts
    <3> QED BY <1>1, <1>2, <3>1 DEF IsEvent, FitsOne
  <2> QED BY <2>1, ThreeFit DEF Kinds
<1>4. Report(list)
  BY DEF BeginRequest
<1> HIDE DEF list
<1>5. Attr(events, request', total)
  <2> SUFFICES ASSUME NEW i \in 1 .. Len(events) PROVE ~Names(events[i], request')
    BY DEF Attr
  <2>1. events[i] \in EventSet /\ events[i].request <= begun
    BY <1>s, ElementOfSeq DEF EventsInv
  <2>2. events[i].request \in Nat
    BY <2>1 DEF EventSet
  <2> QED BY <1>0, <1>1, <2>1, <2>2 DEF Names
<1>6. begun' = finished + (IF Running' THEN 1 ELSE 0)
  <2>1. begun = finished /\ finished \in Nat
    BY <1>s, <1>0 DEF RecordsInv, Running
  <2> QED BY <1>0, <1>2, <2>1
<1>7. JournalInv'
  <2>1. Running' => /\ request'.number = begun'
                    /\ request'.first \in 1 .. total + Len(list)
                    /\ request'.first <= total + 1 /\ Attr(events, request', total)
    BY <1>0, <1>1, <1>3, <1>5
  <2>2. begun \in Nat /\ begun' \in Nat /\ begun <= begun'
    BY <1>0
  <2> QED BY <1>s, <1>1, <1>3, <1>4, <1>6, <2>1, <2>2, ReportStep
<1>8. SessionInv'
  BY <1>s, <1>0, SessionStays
<1>9. RunningInv'
  BY <1>0, <1>1, <1>2 DEF RunningInv, PhaseInv, GivenUp
<1>10. OneWaits' /\ WaitInv'
  BY <1>s, <1>0, <1>1, OneStays, NobodyWaits DEF Running
<1> QED BY <1>7, <1>8, <1>9, <1>10 DEF DiagnosticsInv

LEMMA DrainedKeeps == DiagnosticsInv /\ DrainCompleted => DiagnosticsInv'
<1> SUFFICES ASSUME DiagnosticsInv, DrainCompleted PROVE DiagnosticsInv'
  OBVIOUS
<1>s. SessionInv /\ RunningInv /\ OneWaits /\ WaitInv
  BY DEF DiagnosticsInv
<1>r. request \in RequestSet /\ Running /\ request # NoRequest /\ request.phase = "drain"
  <2>1. request # NoRequest
    BY DEF DrainCompleted, NoRequest
  <2> QED BY <1>s, <2>1 DEF DrainCompleted, RunningInv, Running
<1>0. /\ request' \in RequestSet /\ request'.phase = "reply" /\ request'.drained = TRUE
      /\ request'.number = request.number /\ request'.first = request.first
      /\ request'.generation = request.generation /\ request'.future = request.future
      /\ request'.matched = request.matched /\ request'.invalidated = request.invalidated
  BY <1>r DEF DrainCompleted, RequestSet, Phases
<1>1. Running'
  BY <1>0, SomeRequest DEF Running
<1>f. /\ UNCHANGED <<generation, active, readers, queue, closing, pending, begun, others,
                     connections>>
      /\ begun' \in Nat /\ others' \in Nat
  BY <1>s DEF DrainCompleted, SessionInv
<1>2. JournalInv'
  <2>1. Fits(<<Own("drain_completed")>>, request)
    BY <1>r, OwnFits, OneFits DEF Kinds
  <2> QED BY <1>r, <1>0, <1>f, <2>1, SameStep DEF DrainCompleted, SameRequest
<1>3. SessionInv'
  BY <1>s, <1>f, SessionStays
<1>4. RunningInv'
  BY <1>s, <1>r, <1>0, <1>1, <1>f DEF RunningInv, PhaseInv, GivenUp
<1>5. OneWaits' /\ WaitInv'
  BY <1>s, <1>r, <1>0, <1>f, OneStays, NobodyWaits DEF GivenUp
<1> QED BY <1>2, <1>3, <1>4, <1>5 DEF DiagnosticsInv

(* q is r, but for what giving up changes.                                 *)
SameOrigin(q, r) ==
  /\ q \in RequestSet /\ q.number = r.number /\ q.first = r.first
  /\ q.generation = r.generation /\ q.future = r.future
  /\ q.matched = r.matched /\ q.drained = r.drained

GaveUp(q, r, outcome) ==
  /\ SameOrigin(q, r) /\ q.phase = outcome /\ q.invalidated = TRUE
  /\ q.deadline = r.deadline /\ q.ahead = r.ahead /\ q.tailing = r.tailing
  /\ q.dialed = r.dialed

LEMMA GivenUpFields ==
  ASSUME NEW r \in RequestSet, NEW outcome \in Phases
  PROVE  GaveUp([r EXCEPT !.phase = outcome, !.invalidated = TRUE], r, outcome)
BY DEF RequestSet, SameOrigin, GaveUp

LEMMA NotedFields ==
  ASSUME SessionInv, request \in RequestSet, total \in Nat
  PROVE  /\ SameOrigin(Noted, request) /\ Noted.deadline = total + 1
         /\ Noted.ahead = Len(queue) /\ Noted.tailing = Cardinality(readers)
         /\ Noted.dialed <=> \E i \in 1 .. Len(queue) : queue[i].does = "connect"
<1>0. total + 1 \in Nat /\ Len(queue) \in Nat
  BY LenProperties DEF SessionInv
<1>1. PICK c \in Nat : c = Cardinality(readers)
  BY ReaderCount
<1>2. PICK b \in BOOLEAN : b <=> \E i \in 1 .. Len(queue) : queue[i].does = "connect"
  OBVIOUS
<1>3. Noted = [request EXCEPT !.deadline = total + 1, !.ahead = Len(queue),
                              !.tailing = c, !.dialed = b]
  BY <1>1, <1>2 DEF Noted
<1>4. /\ SameOrigin(Noted, request) /\ Noted.deadline = total + 1
      /\ Noted.ahead = Len(queue) /\ Noted.tailing = c /\ Noted.dialed = b
  BY <1>0, <1>3 DEF RequestSet, SameOrigin
<1> QED BY <1>1, <1>2, <1>4

LEMMA GiveUpKeeps ==
  ASSUME DiagnosticsInv, Running, NEW outcome \in GivenUp, NEW list, Fits(list, request),
         NEW noted, SameOrigin(noted, request),
         GiveUp(outcome, list, noted), request.phase \in {"drain", "reply"},
         outcome = "response_timeout" =>
           /\ Len(list) = 1 /\ request.phase = "reply" /\ noted.deadline = total + 1
           /\ noted.ahead = Len(queue) /\ noted.tailing = Cardinality(readers)
           /\ noted.dialed <=> \E i \in 1 .. Len(queue) : queue[i].does = "connect",
         outcome = "ambiguous_drain_timeout" => request.phase = "drain"
  PROVE  DiagnosticsInv'
<1>s. SessionInv /\ RunningInv /\ OneWaits /\ WaitInv
  BY DEF DiagnosticsInv
<1>r. request \in RequestSet /\ request # NoRequest /\ total \in Nat
      /\ outcome \in Phases
  BY <1>s DEF RunningInv, Running, DiagnosticsInv, JournalInv, EventsInv, Phases
<1>q. request' = [noted EXCEPT !.phase = outcome, !.invalidated = TRUE]
  BY DEF GiveUp
<1>0. /\ request' \in RequestSet /\ request'.phase = outcome
      /\ request'.number = request.number /\ request'.first = request.first
      /\ request'.generation = request.generation /\ request'.future = request.future
      /\ request'.matched = request.matched /\ request'.drained = request.drained
      /\ request'.invalidated = TRUE /\ request'.deadline = noted.deadline
      /\ request'.ahead = noted.ahead /\ request'.tailing = noted.tailing
      /\ request'.dialed = noted.dialed
  <2>1. noted \in RequestSet
    BY DEF SameOrigin
  <2>2. GaveUp(request', noted, outcome)
    BY <1>r, <1>q, <2>1, GivenUpFields
  <2> QED BY <2>2 DEF GaveUp, SameOrigin
<1>1. Running'
  BY <1>0, SomeRequest DEF Running
<1>f. /\ UNCHANGED <<active, readers, begun, others, connections>>
      /\ pending' = 0 /\ generation' = generation + 1 /\ Asks("request", 0)
      /\ generation \in Nat /\ generation' \in Nat /\ generation <= generation'
      /\ readers' \subseteq 1 .. generation' /\ begun' \in Nat /\ others' \in Nat
      /\ connections' \in Nat
  BY <1>s DEF GiveUp, Invalidated, SessionInv
<1> DEFINE all == Append(list, Own("generation_tainted"))
<1>a. Fits(all, request) /\ Len(all) = Len(list) + 1 /\ Report(all)
  BY <1>r, OwnFits, AppendFits DEF GiveUp, Kinds
<1> HIDE DEF all
<1>2. JournalInv' /\ total' = total + Len(list) + 1 /\ Len(list) \in Nat
  <2>1. Len(list) \in Nat
    BY LenProperties DEF Fits
  <2> QED BY <1>r, <1>0, <1>f, <1>a, <2>1, SameStep DEF SameRequest
<1>3. SessionInv' /\ IsAppended(queue', queue, Task("request", 0), TaskSet)
  <2>1. "request" \in {"connect", "close", "request", "lose"} /\ 0 \in Nat /\ 0 <= generation'
    BY <1>f
  <2> QED BY <1>s, <1>f, <2>1, AsksKeeps
<1>4. RunningInv'
  <2>1. PhaseInv(request')
    BY <1>s, <1>0 DEF RunningInv, PhaseInv, GivenUp
  <2>2. request'.generation \in 1 .. generation' /\ request'.number = begun'
    BY <1>s, <1>0, <1>f DEF RunningInv, SessionInv
  <2> QED BY <1>s, <1>0, <1>1, <1>f, <2>1, <2>2 DEF RunningInv
<1>5. OneWaits'
  <2>1. request.phase \notin GivenUp /\ Task("request", 0) \in TaskSet
    BY DEF GivenUp, Task, TaskSet
  <2> QED BY <1>s, <1>0, <1>1, <1>3, <2>1, OneJoins
<1>6. CASE outcome # "response_timeout"
  <2>1. WaitInv'
    BY <1>0, <1>6, NobodyWaits
  <2> QED BY <1>2, <1>3, <1>4, <1>5, <2>1 DEF DiagnosticsInv
<1>7. CASE outcome = "response_timeout"
  <2>1. /\ total' = total + 2 /\ request'.deadline = total + 1
        /\ request'.deadline \in 1 .. total'
    <3>1. Len(list) = 1 /\ noted.deadline = total + 1
      BY <1>7
    <3>2. total' = total + 1 + 1
      BY <1>2, <3>1
    <3> QED BY <1>r, <1>0, <3>1, <3>2
  <2>2. generation' \notin readers'
    BY <1>s, <1>f DEF SessionInv
  <2>3. ASSUME ~request'.dialed
        PROVE  \E p \in 1 .. Len(queue') : Waits(p)' /\ Spares(p)'
    <3>0. PICK p \in Nat : p = Len(queue) + 1
      BY <1>s, LenProperties DEF SessionInv
    <3>1. /\ Len(queue) \in Nat /\ p \in 1 .. Len(queue')
          /\ queue'[p].does = "request"
          /\ \A i \in 1 .. Len(queue) : queue'[i] = queue[i]
      <4>1. Len(queue) \in Nat
        BY <1>s, LenProperties DEF SessionInv
      <4> QED BY <1>3, <3>0, <4>1 DEF IsAppended, Task
    <3>2. ASSUME NEW i \in 1 .. p - 1
          PROVE  /\ queue'[i].does \in {"close", "lose"}
                 /\ queue'[i].does = "lose" => queue'[i].generation # generation'
      <4>1. i \in 1 .. Len(queue) /\ queue'[i] = queue[i]
        BY <3>0, <3>1
      <4>2. queue[i] \in TaskSet /\ queue[i].generation <= generation
        BY <1>s, <4>1, ElementOfSeq DEF SessionInv
      <4>3. queue[i].does # "connect"
        BY <1>0, <1>7, <2>3, <4>1
      <4>4. queue[i].does # "request"
        BY <1>s, <4>1 DEF OneWaits, GivenUp
      <4> QED BY <1>f, <4>1, <4>2, <4>3, <4>4 DEF TaskSet
    <3>3. Waits(p)'
      BY <3>1, <3>2 DEF Waits
    <3>4. Spares(p)'
      <4>1. PICK c \in Nat : c = Cardinality(readers')
        BY <1>s, <1>f, ReaderCount
      <4>2. PICK l \in {0, 1} : l = IF closing' # 0 THEN 1 ELSE 0
        BY <1>s, Counts
      <4>3. request'.ahead = Len(queue) /\ request'.tailing = c
        BY <1>0, <1>f, <1>7, <4>1
      <4>4. Needed(request') = 5 + 2 * (Len(queue) + c)
        BY <4>3 DEF Needed
      <4>5. total' - request'.deadline = 1
        BY <1>r, <2>1
      <4>6. total' - request'.deadline + 2 * (p - 1) + 2 * c <= Needed(request') - 4 + l
        BY <3>0, <3>1, <4>1, <4>2, <4>4, <4>5
      <4> QED BY <4>1, <4>2, <4>6 DEF Spares
    <3> QED BY <3>1, <3>3, <3>4
  <2>4. WaitInv'
    BY <2>1, <2>2, <2>3 DEF WaitInv
  <2> QED BY <1>2, <1>3, <1>4, <1>5, <2>4 DEF DiagnosticsInv
<1> QED BY <1>6, <1>7

LEMMA PhaseRuns ==
  ASSUME DiagnosticsInv, request.phase \in {"drain", "reply"} \cup GivenUp
  PROVE  Running /\ request \in RequestSet
BY DEF DiagnosticsInv, RunningInv, Running, NoRequest, GivenUp

LEMMA SameItself ==
  ASSUME request \in RequestSet
  PROVE  SameOrigin(request, request)
BY DEF SameOrigin

LEMMA GiveUpsKeep ==
  DiagnosticsInv /\ (DrainTimeout \/ ReplyTimeout \/ WriteFails \/ CancelRequest)
  => DiagnosticsInv'
<1>1. ASSUME DiagnosticsInv, DrainTimeout PROVE DiagnosticsInv'
  <2>1. Running /\ request \in RequestSet
    BY <1>1, PhaseRuns DEF DrainTimeout
  <2>2. Fits(<<Own("drain_deadline_expired")>>, request)
    BY <2>1, OwnFits, OneFits DEF Kinds
  <2> QED BY <1>1, <2>1, <2>2, SameItself, GiveUpKeeps DEF DrainTimeout, GivenUp
<1>2. ASSUME DiagnosticsInv, ReplyTimeout PROVE DiagnosticsInv'
  <2>1. Running /\ request \in RequestSet
    BY <1>2, PhaseRuns DEF ReplyTimeout
  <2>2. Fits(<<Own("reply_deadline_expired")>>, request)
        /\ Len(<<Own("reply_deadline_expired")>>) = 1
    BY <2>1, OwnFits, OneFits DEF Kinds
  <2>3. SessionInv /\ total \in Nat
    BY <1>2 DEF DiagnosticsInv, JournalInv, EventsInv
  <2>4. /\ SameOrigin(Noted, request) /\ Noted.deadline = total + 1
        /\ Noted.ahead = Len(queue) /\ Noted.tailing = Cardinality(readers)
        /\ Noted.dialed <=> \E i \in 1 .. Len(queue) : queue[i].does = "connect"
    BY <2>1, <2>3, NotedFields
  <2>5. /\ request.phase = "reply" /\ "response_timeout" \in GivenUp
        /\ GiveUp("response_timeout", <<Own("reply_deadline_expired")>>, Noted)
    BY <1>2 DEF ReplyTimeout, GivenUp
  <2> QED BY <1>2, <2>1, <2>2, <2>4, <2>5, GiveUpKeeps
<1>3. ASSUME DiagnosticsInv, WriteFails PROVE DiagnosticsInv'
  <2>1. Running /\ request \in RequestSet
    BY <1>3, PhaseRuns DEF WriteFails
  <2> QED BY <1>3, <2>1, NothingFits, SameItself, GiveUpKeeps DEF WriteFails, GivenUp
<1>4. ASSUME DiagnosticsInv, CancelRequest PROVE DiagnosticsInv'
  <2>1. Running /\ request \in RequestSet
    BY <1>4, PhaseRuns DEF CancelRequest
  <2> QED BY <1>4, <2>1, NothingFits, SameItself, GiveUpKeeps DEF CancelRequest, GivenUp
<1> QED BY <1>1, <1>2, <1>3, <1>4

(* The session and the request after the record of the request is written. *)
LEMMA FinalizedKeeps ==
  ASSUME SessionInv', OneWaits', JournalInv', request' = NoRequest, pending' = 0
  PROVE  DiagnosticsInv'
<1>1. ~Running'
  BY DEF Running
<1>2. RunningInv' /\ WaitInv'
  BY <1>1 DEF RunningInv, WaitInv
<1> QED BY <1>2 DEF DiagnosticsInv

LEMMA AwaitKeeps == DiagnosticsInv /\ AwaitReply => DiagnosticsInv'
<1> SUFFICES ASSUME DiagnosticsInv, AwaitReply PROVE DiagnosticsInv'
  OBVIOUS
<1>s. SessionInv /\ RunningInv /\ OneWaits /\ JournalInv
  BY DEF DiagnosticsInv
<1>r. Running /\ request \in RequestSet
  BY PhaseRuns DEF AwaitReply
<1>0. /\ request.phase = "reply" /\ request.future # "open" /\ request.number = begun
      /\ PhaseInv(request) /\ begun \in Nat /\ pending = 0
      /\ request.future \in {"value", "rejected", "lost", "closed"}
  BY <1>s, <1>r DEF AwaitReply, RunningInv, SessionInv, RequestSet, Futures
<1>f. /\ UNCHANGED <<generation, active, readers, queue, closing, pending, begun, others,
                     connections>>
      /\ Finalize(<<>>, Ends[request.future]) /\ begun' \in Nat /\ others' \in Nat
  BY <1>s DEF AwaitReply, SessionInv
<1>1. PICK outcome : outcome = Ends[request.future]
  OBVIOUS
<1>2. /\ outcome \in {"success", "modbus_rejected", "connection_lost", "session_closed"}
      /\ outcome = "success" <=> request.future = "value"
  <2>1. /\ Ends["value"] = "success" /\ Ends["rejected"] = "modbus_rejected"
        /\ Ends["lost"] = "connection_lost" /\ Ends["closed"] = "session_closed"
    BY DEF Ends
  <2>2. CASE request.future = "value"
    BY <1>1, <2>1, <2>2
  <2>3. CASE request.future = "rejected"
    BY <1>1, <2>1, <2>3
  <2>4. CASE request.future = "lost"
    BY <1>1, <2>1, <2>4
  <2>5. CASE request.future = "closed"
    BY <1>1, <2>1, <2>5
  <2> QED BY <1>0, <2>2, <2>3, <2>4, <2>5
<1>3. outcome \in Phases /\ Justified(request, outcome) /\ outcome # "response_timeout"
  <2>1. /\ request.drained /\ ~request.invalidated
        /\ request.matched <=> request.future = "value"
        /\ {request.invalidated, request.matched} \subseteq BOOLEAN
    BY <1>r, <1>0 DEF PhaseInv, GivenUp, RequestSet
  <2>2. outcome \notin GivenUp /\ outcome \in Phases
    BY <1>2 DEF GivenUp, Phases
  <2>3. outcome # "response_timeout" /\ outcome # "ambiguous_drain_timeout"
    BY <2>2 DEF GivenUp
  <2>4. /\ outcome = "success" => request.matched
        /\ request.matched => outcome = "success"
    BY <1>2, <2>1
  <2>5. request.invalidated = (outcome \in GivenUp)
    BY <2>1, <2>2
  <2> QED BY <2>1, <2>2, <2>3, <2>4, <2>5 DEF Justified
<1>4. JournalInv'
  BY <1>s, <1>r, <1>0, <1>f, <1>1, <1>3, NothingFits, FinalizeStep
<1>5. request' = NoRequest
  BY <1>f DEF Finalize
<1>6. SessionInv' /\ OneWaits'
  BY <1>s, <1>0, <1>f, SessionStays, OneStays DEF GivenUp
<1> QED BY <1>0, <1>f, <1>4, <1>5, <1>6, FinalizedKeeps

(* The request that gave up leaves the queue, and its record is written.   *)
LEMMA RecordKeeps ==
  ASSUME DiagnosticsInv, NEW i \in 1 .. Len(queue), queue[i].does = "request", Leaves(i),
         NEW list, Fits(list, request), Len(list) \in {0, 1}, Len(list) = 1 => closing # 0,
         Finalize(list, request.phase), UNCHANGED <<readers, pending, begun, connections>>,
         generation' \in Nat, generation <= generation', active' \in 0 .. generation',
         i = 1 \/ UNCHANGED active, others' \in Nat
  PROVE  DiagnosticsInv'
<1>s. SessionInv /\ RunningInv /\ OneWaits /\ WaitInv /\ JournalInv
  BY DEF DiagnosticsInv
<1>0. /\ Running /\ request.phase \in GivenUp /\ request \in RequestSet /\ PhaseInv(request)
      /\ pending = 0 /\ request.number = begun /\ begun \in Nat /\ connections' \in Nat
      /\ readers' \subseteq 1 .. generation' /\ total \in Nat
  BY <1>s DEF OneWaits, RunningInv, Running, GivenUp, SessionInv, JournalInv, EventsInv
<1>1. PICK outcome : outcome = request.phase
  OBVIOUS
<1>2. outcome \in Phases /\ outcome \in GivenUp /\ Finalize(list, outcome)
  BY <1>0, <1>1 DEF Phases
<1>3. Justified(request, outcome)
  <2>1. {request.invalidated, request.drained} \subseteq BOOLEAN
    BY <1>0 DEF RequestSet
  <2>2. outcome # "success" /\ request.invalidated
    BY <1>0, <1>1 DEF GivenUp, PhaseInv
  <2>3. /\ outcome = "response_timeout" => request.drained
        /\ outcome = "ambiguous_drain_timeout" => ~request.drained
    BY <1>0, <1>1 DEF PhaseInv
  <2>4. request.invalidated = (outcome \in GivenUp)
    BY <1>2, <2>1, <2>2
  <2> QED BY <2>2, <2>3, <2>4 DEF Justified
<1>4. ASSUME outcome = "response_timeout"
      PROVE  /\ request.deadline \in 1 .. total
             /\ ~request.dialed => total + Len(list) + 1 - request.deadline < Needed(request)
  <2>1. request.deadline \in 1 .. total
    BY <1>s, <1>0, <1>1, <1>4 DEF WaitInv
  <2>2. ASSUME ~request.dialed
        PROVE  total + Len(list) + 1 - request.deadline < Needed(request)
    <3>1. PICK p \in 1 .. Len(queue) : Spares(p)
      BY <1>s, <1>0, <1>1, <1>4, <2>2 DEF WaitInv
    <3>2. PICK m \in Nat : m = Needed(request)
      BY <1>0 DEF Needed, RequestSet
    <3>3. PICK c \in Nat, k \in {0, 1} :
            c = Cardinality(readers) /\ k = IF closing # 0 THEN 1 ELSE 0
      BY <1>s, Counts
    <3>4. /\ total - request.deadline + 2 * (p - 1) + 2 * c <= m - 4 + k
          /\ p \in Nat /\ p >= 1
      BY <3>1, <3>2, <3>3 DEF Spares
    <3>5. PICK n \in {0, 1} : n = Len(list)
      OBVIOUS
    <3>6. PICK z \in Nat : z = request.deadline
      BY <1>0 DEF RequestSet
    <3>7. total + n + 1 - z < m
      <4>1. PICK d \in Nat : d = 2 * (p - 1) + 2 * c
        BY <3>3, <3>4
      <4>2. total - z + d <= m - 4 + k
        <5>1. total - z + 2 * (p - 1) + 2 * c <= m - 4 + k
          BY <3>4, <3>6
        <5>2. PICK a \in Int, b \in Nat, e \in Nat : a = total - z /\ b = 2 * (p - 1) /\ e = 2 * c
          BY <1>0, <3>4
        <5>3. a + b + e <= m - 4 + k /\ d = b + e
          BY <4>1, <5>1, <5>2
        <5> QED BY <5>2, <5>3
      <4>3. total \in Nat /\ k <= 1 /\ n <= 1 /\ k \in Nat /\ n \in Nat
        BY <1>0
      <4> QED BY <4>1, <4>2, <4>3
    <3> QED BY <3>2, <3>5, <3>6, <3>7
  <2> QED BY <2>1, <2>2
<1>5. JournalInv'
  BY <1>s, <1>0, <1>2, <1>3, <1>4, FinalizeStep
<1>6. SessionInv' /\ IsRemoved(queue', queue, i)
  BY <1>s, <1>0, LeavesKeeps
<1>7. OneWaits'
  BY <1>s, <1>6, OneLeaves
<1>8. request' = NoRequest
  BY <1>2 DEF Finalize
<1> QED BY <1>0, <1>5, <1>6, <1>7, <1>8, FinalizedKeeps

LEMMA CleanUpKeeps ==
  ASSUME DiagnosticsInv, NEW i \in 1 .. Len(queue), CancelCleanUp(i)
  PROVE  DiagnosticsInv'
<1>1. SessionInv
  BY DEF DiagnosticsInv
<1>2. /\ generation' \in Nat /\ generation <= generation' /\ active' \in 0 .. generation'
      /\ others' \in Nat
  BY <1>1 DEF CancelCleanUp, SessionInv, Other
<1>3. Fits(<<>>, request) /\ Len(<<>>) \in {0, 1} /\ Len(<<>>) # 1
  BY NothingFits, EmptySeq
<1>4. /\ queue[i].does = "request" /\ Leaves(i) /\ Finalize(<<>>, request.phase)
      /\ UNCHANGED <<generation, active, readers, pending, begun, connections>>
  BY DEF CancelCleanUp
<1> QED BY <1>2, <1>3, <1>4, RecordKeeps

-----------------------------------------------------------------------------
(* Whoever closes the session                                              *)

LEMMA FailedRequest ==
  ASSUME RunningInv, NEW error \in {"lost", "closed"}, FailPending(error)
  PROVE  /\ SameRequest /\ pending' = 0 /\ (Running' <=> Running)
         /\ request = NoRequest => request' = NoRequest
         /\ Running => /\ request' \in RequestSet /\ request'.phase = request.phase
                       /\ request'.number = request.number /\ PhaseInv(request')
                       /\ request'.generation = request.generation
         /\ pending = 0 => UNCHANGED request
         /\ pending # 0 => request.phase \in {"drain", "reply"}
<1>1. CASE pending # 0
  <2>1. /\ Running /\ request \in RequestSet /\ request.future = "open" /\ PhaseInv(request)
        /\ request' = [request EXCEPT !.future = error] /\ pending' = 0
        /\ request.phase \in {"drain", "reply"}
    BY <1>1 DEF RunningInv, Running, FailPending
  <2>2. /\ request' \in RequestSet /\ request'.phase = request.phase
        /\ request'.number = request.number /\ request'.first = request.first
        /\ request'.generation = request.generation /\ request'.future = error
        /\ request'.drained = request.drained
        /\ request'.matched = request.matched /\ request'.invalidated = request.invalidated
    BY <2>1 DEF RequestSet, Futures
  <2>3. Running' /\ request # NoRequest
    BY <2>1, <2>2, SomeRequest DEF Running
  <2>4. PhaseInv(request')
    BY <2>1, <2>2 DEF PhaseInv
  <2> QED BY <1>1, <2>1, <2>2, <2>3, <2>4 DEF SameRequest
<1>2. CASE pending = 0
  <2>1. UNCHANGED request /\ pending' = 0
    BY <1>2 DEF FailPending
  <2>2. Running => request \in RequestSet /\ PhaseInv(request)
    BY DEF RunningInv, Running
  <2> QED BY <1>2, <2>1, <2>2 DEF SameRequest, Running, PhaseInv
<1> QED BY <1>1, <1>2

(* The request after somebody has failed the pending one and passed on to  *)
(* the next generation.                                                    *)
LEMMA FailedRuns ==
  ASSUME SessionInv, RunningInv, NEW error \in {"lost", "closed"}, FailPending(error),
         UNCHANGED begun, generation' = generation + 1
  PROVE  RunningInv'
<1>1. /\ pending' = 0 /\ (Running' <=> Running)
      /\ request = NoRequest => request' = NoRequest
      /\ Running => /\ request' \in RequestSet /\ request'.phase = request.phase
                    /\ request'.number = request.number /\ PhaseInv(request')
                    /\ request'.generation = request.generation
  BY FailedRequest
<1>2. Running => request'.generation \in 1 .. generation'
  BY <1>1 DEF RunningInv, SessionInv
<1> QED BY <1>1, <1>2 DEF RunningInv, Running

(* The close has begun, and has its second event left.                     *)
LEMMA WaitCloses ==
  ASSUME SessionInv, RunningInv, WaitInv, UNCHANGED <<queue, readers, request>>,
         closing = 0, closing' # 0, generation' = generation + 1, total \in Nat,
         total' = total + 1
  PROVE  WaitInv'
<1> SUFFICES ASSUME NEW p \in 1 .. Len(queue), Running, request.phase = "response_timeout",
                    generation \notin readers, Waits(p), Spares(p)
             PROVE  /\ generation' \notin readers'
                    /\ \E q \in 1 .. Len(queue') : Waits(q)' /\ Spares(q)'
  <2>1. total' \in Nat /\ total <= total'
    OBVIOUS
  <2> QED BY <2>1, WaitKeeps
<1>0. /\ Len(queue) \in Nat /\ generation \in Nat /\ request \in RequestSet
      /\ readers \subseteq 1 .. generation /\ p \in Nat
  BY LenProperties DEF SessionInv, RunningInv, Running
<1>1. generation' \notin readers'
  BY <1>0
<1>2. Waits(p)'
  <2>1. ASSUME NEW j \in 1 .. p - 1
        PROVE  /\ queue[j].does \in {"close", "lose"}
               /\ queue[j].does = "lose" => queue[j].generation # generation'
    <3>1. j \in 1 .. Len(queue) /\ queue[j].does \in {"close", "lose"}
      BY <1>0 DEF Waits
    <3>2. queue[j].generation <= generation /\ queue[j].generation \in Nat
      <4>1. queue[j] \in TaskSet
        BY <3>1, ElementOfSeq DEF SessionInv
      <4> QED BY <3>1, <4>1 DEF SessionInv, TaskSet
    <3> QED BY <1>0, <3>1, <3>2
  <2> QED BY <2>1 DEF Waits
<1>3. PICK c \in Nat : c = Cardinality(readers)
  BY Counts
<1>4. Spares(p)'
  <2>1. c = Cardinality(readers') /\ 1 + 2 * p + 2 * c + 0 <= 2 * p + 2 * c + 1
    BY <1>0, <1>3
  <2>2. /\ 0 \in {0, 1} /\ 1 \in {0, 1} /\ 1 \in Nat /\ 0 = (IF closing # 0 THEN 1 ELSE 0)
        /\ 1 = (IF closing' # 0 THEN 1 ELSE 0)
    OBVIOUS
  <2> QED BY <1>0, <1>3, <2>1, <2>2, SparesKeeps
<1> QED BY <1>1, <1>2, <1>4

(* The session when the close begins.                                      *)
LEMMA SessionCloses ==
  ASSUME SessionInv, queue # <<>>, queue[1].does \in {"close", "request"},
         generation' = generation + 1, active' = 0, closing' = active,
         UNCHANGED <<queue, readers, begun, connections>>, others' \in Nat
  PROVE  SessionInv'
<1>0. 1 \in 1 .. Len(queue) /\ Len(queue) \in Nat
  BY HeadFacts
<1>1. /\ generation \in Nat /\ generation' \in Nat /\ active \in 0 .. generation'
      /\ readers' \subseteq 1 .. generation'
  BY DEF SessionInv
<1>2. \A j \in 1 .. Len(queue) : queue[j].generation <= generation'
  <2> TAKE j \in 1 .. Len(queue)
  <2>1. queue[j] \in TaskSet
    BY ElementOfSeq DEF SessionInv
  <2> QED BY <1>1, <2>1 DEF SessionInv, TaskSet
<1> QED BY <1>0, <1>1, <1>2 DEF SessionInv

LEMMA CalledKeeps == DiagnosticsInv /\ CloseCalled => DiagnosticsInv'
<1> SUFFICES ASSUME DiagnosticsInv, CloseCalled PROVE DiagnosticsInv'
  OBVIOUS
<1>s. SessionInv /\ RunningInv /\ OneWaits /\ WaitInv /\ JournalInv
  BY DEF DiagnosticsInv
<1>0. /\ queue # <<>> /\ queue[1].does = "close" /\ closing = 0 /\ 1 \in 1 .. Len(queue)
      /\ generation' = generation + 1 /\ active' = 0 /\ FailPending("closed")
      /\ UNCHANGED <<readers, begun, others, connections>> /\ total \in Nat
      /\ generation \in Nat /\ active \in Nat /\ others' \in Nat /\ begun' \in Nat
      /\ connections' \in Nat
  BY <1>s, HeadFacts DEF CloseCalled, Holds, SessionInv, JournalInv, EventsInv
<1>1. /\ SameRequest /\ (Running' <=> Running)
      /\ Running => request'.phase = request.phase
      /\ pending = 0 => UNCHANGED request
      /\ pending # 0 => request.phase \in {"drain", "reply"}
      /\ pending # 0 => Running
  BY <1>s, <1>0, FailedRequest DEF RunningInv
<1>2. RunningInv'
  BY <1>s, <1>0, FailedRuns
<1>3. Fits(PendingFailed, request) /\ (pending = 0 => Len(PendingFailed) = 0)
  BY <1>s, FailedFits
<1>4. pending # 0 => WaitInv'
  <2> HAVE pending # 0
  <2>1. request'.phase # "response_timeout"
    BY <1>1
  <2> QED BY <2>1, NobodyWaits
<1>5. CASE active # 0
  <2> DEFINE list == <<Event("close_started", active, 0)>> \o PendingFailed
  <2>0. closing' = active /\ UNCHANGED queue /\ Report(list)
    BY <1>5 DEF CloseCalled
  <2>1. Fits(list, request) /\ (pending = 0 => Len(list) = 1)
    <3>1. /\ Fits(<<Event("close_started", active, 0)>>, request)
          /\ Len(<<Event("close_started", active, 0)>>) = 1
      BY <1>0, AnonymousFits, OneFits DEF Kinds
    <3>2. Fits(list, request)
          /\ Len(list) = Len(<<Event("close_started", active, 0)>>) + Len(PendingFailed)
      BY <1>3, <3>1, ConcatFits
    <3> QED BY <1>3, <3>1, <3>2
  <2> HIDE DEF list
  <2>2. JournalInv' /\ total' = total + Len(list)
    BY <1>0, <1>1, <2>0, <2>1, SameStep
  <2>3. SessionInv'
    BY <1>s, <1>0, <2>0, SessionCloses
  <2>4. OneWaits'
    BY <1>s, <1>1, <2>0, OneStays
  <2>5. WaitInv'
    <3>1. CASE pending # 0
      BY <1>4, <3>1
    <3>2. CASE pending = 0
      BY <1>s, <1>0, <1>1, <1>5, <2>0, <2>1, <2>2, <3>2, WaitCloses
    <3> QED BY <3>1, <3>2
  <2> QED BY <1>2, <2>2, <2>3, <2>4, <2>5 DEF DiagnosticsInv
<1>6. CASE active = 0
  <2>0. Leaves(1) /\ Report(PendingFailed)
    BY <1>6 DEF CloseCalled
  <2>1. JournalInv' /\ total' = total + Len(PendingFailed)
    BY <1>0, <1>1, <1>3, <2>0, SameStep
  <2>2. SessionInv' /\ IsRemoved(queue', queue, 1)
    <3>1. /\ generation' \in Nat /\ generation <= generation'
          /\ active' \in 0 .. generation' /\ readers' \subseteq 1 .. generation'
      BY <1>s, <1>0 DEF SessionInv
    <3> QED BY <1>s, <1>0, <2>0, <3>1, LeavesKeeps
  <2>3. OneWaits'
    BY <1>s, <1>0, <1>1, <2>2, OneLeaves
  <2>4. WaitInv'
    <3>1. CASE pending # 0
      BY <1>4, <3>1
    <3>2. CASE pending = 0
      <4>1. total' = total + 0 /\ UNCHANGED request
        BY <1>1, <1>3, <2>1, <3>2
      <4>2. closing' = (IF 1 = 1 THEN 0 ELSE closing) /\ queue[1].does # "request"
        BY <1>0, <2>0 DEF Leaves
      <4> QED BY <1>s, <1>0, <2>2, <4>1, <4>2, WaitLeaves
    <3> QED BY <3>1, <3>2
  <2> QED BY <1>2, <2>1, <2>2, <2>3, <2>4 DEF DiagnosticsInv
<1> QED BY <1>5, <1>6

LEMMA StartedKeeps == DiagnosticsInv /\ CloseStarted => DiagnosticsInv'
<1> SUFFICES ASSUME DiagnosticsInv, CloseStarted PROVE DiagnosticsInv'
  OBVIOUS
<1>s. SessionInv /\ RunningInv /\ OneWaits /\ WaitInv /\ JournalInv
  BY DEF DiagnosticsInv
<1>0. /\ queue # <<>> /\ queue[1].does = "request" /\ closing = 0 /\ 1 \in 1 .. Len(queue)
      /\ generation' = generation + 1 /\ active' = 0
      /\ UNCHANGED <<readers, pending, begun, others, connections>> /\ total \in Nat
      /\ generation \in Nat /\ active \in Nat /\ others' \in Nat
  BY <1>s, HeadFacts DEF CloseStarted, Holds, SessionInv, JournalInv, EventsInv
<1>1. CASE active # 0
  <2>0. /\ closing' = active /\ UNCHANGED <<queue, request>>
        /\ Report(<<Event("close_started", active, 0)>>)
    BY <1>1 DEF CloseStarted
  <2>1. /\ Fits(<<Event("close_started", active, 0)>>, request)
        /\ Len(<<Event("close_started", active, 0)>>) = 1
    BY <1>0, AnonymousFits, OneFits DEF Kinds
  <2>2. JournalInv' /\ total' = total + 1
    BY <1>0, <2>0, <2>1, SameStep DEF SameRequest
  <2>3. SessionInv'
    BY <1>s, <1>0, <2>0, SessionCloses
  <2>4. OneWaits'
    BY <1>s, <2>0, OneStays DEF Running
  <2>5. WaitInv'
    BY <1>s, <1>0, <1>1, <2>0, <2>2, WaitCloses
  <2>6. RunningInv'
    <3>1. generation' \in Nat /\ generation <= generation'
      BY <1>0
    <3> QED BY <1>s, <1>0, <2>0, <3>1, RunningKeeps
  <2> QED BY <2>2, <2>3, <2>4, <2>5, <2>6 DEF DiagnosticsInv
<1>2. CASE active = 0
  <2>0. Leaves(1) /\ Finalize(<<>>, request.phase)
    BY <1>2 DEF CloseStarted
  <2>1. Fits(<<>>, request) /\ Len(<<>>) \in {0, 1} /\ Len(<<>>) # 1
    BY NothingFits, EmptySeq
  <2>2. generation' \in Nat /\ generation <= generation' /\ active' \in 0 .. generation'
    BY <1>0
  <2> QED BY <1>0, <2>0, <2>1, <2>2, RecordKeeps
<1> QED BY <1>1, <1>2

LEMMA CompletedKeeps == DiagnosticsInv /\ CloseCompleted => DiagnosticsInv'
<1> SUFFICES ASSUME DiagnosticsInv, CloseCompleted PROVE DiagnosticsInv'
  OBVIOUS
<1>s. SessionInv /\ RunningInv /\ OneWaits /\ WaitInv /\ JournalInv
  BY DEF DiagnosticsInv
<1> DEFINE done == <<Event("close_completed", closing, 0)>>
<1>0. /\ closing # 0 /\ Leaves(1) /\ queue[1].does \in {"close", "request"}
      /\ closing \in Nat /\ total \in Nat /\ closing' = 0
      /\ UNCHANGED <<generation, active, readers, pending, begun, others, connections>>
      /\ generation' \in Nat /\ generation <= generation' /\ active' \in 0 .. generation'
      /\ readers' \subseteq 1 .. generation'
      /\ others' \in Nat /\ begun' \in Nat /\ connections' \in Nat
      /\ IF queue[1].does = "request" THEN Finalize(done, request.phase)
         ELSE Report(done) /\ UNCHANGED request
  BY <1>s DEF CloseCompleted, SessionInv, JournalInv, EventsInv, Leaves
<1>1. 1 \in 1 .. Len(queue)
  <2>1. Len(queue) \in Nat /\ Len(queue) >= 1
    BY <1>s, <1>0, LenProperties DEF SessionInv
  <2> QED BY <2>1
<1>2. Fits(done, request) /\ Len(done) = 1
  BY <1>0, AnonymousFits, OneFits DEF Kinds
<1> HIDE DEF done
<1>3. CASE queue[1].does = "request"
  BY <1>0, <1>1, <1>2, <1>3, RecordKeeps
<1>4. CASE queue[1].does # "request"
  <2>0. Report(done) /\ UNCHANGED request
    BY <1>0, <1>4
  <2>1. JournalInv' /\ total' = total + 1
    BY <1>0, <1>2, <2>0, SameStep DEF SameRequest
  <2>2. SessionInv' /\ IsRemoved(queue', queue, 1)
    BY <1>s, <1>0, <1>1, LeavesKeeps
  <2>3. OneWaits'
    <3>1. Running' <=> Running
      BY <2>0 DEF Running
    <3> QED BY <1>s, <1>1, <2>0, <2>2, <3>1, OneLeaves
  <2>4. WaitInv'
    BY <1>s, <1>0, <1>1, <1>4, <2>0, <2>1, <2>2, WaitLeaves
  <2>5. RunningInv'
    BY <1>s, <1>0, <2>0, RunningKeeps
  <2> QED BY <2>1, <2>2, <2>3, <2>4, <2>5 DEF DiagnosticsInv
<1> QED BY <1>3, <1>4

-----------------------------------------------------------------------------
(* The readers                                                             *)

LEMMA ArrivedFits ==
  ASSUME SessionInv, RunningInv, NEW e, FitsOne(e, request)
  PROVE  Fits(Append(Arrived, e), request)
<1>1. Fits(Arrived, request)
  BY SeenFits, TwoFit DEF Arrived, Kinds
<1> QED BY <1>1, AppendFits

(* While a reader is current, no request waits with nobody dialing ahead.  *)
LEMMA CurrentKeeps ==
  ASSUME WaitInv, generation \in readers, total \in Nat, total' \in Nat, total <= total',
         UNCHANGED request
  PROVE  WaitInv'
BY WaitKeeps

LEMMA MatchedKeeps ==
  ASSUME DiagnosticsInv, NEW g \in readers, MatchedResponse(g)
  PROVE  DiagnosticsInv'
<1>s. SessionInv /\ RunningInv /\ OneWaits /\ WaitInv
  BY DEF DiagnosticsInv
<1>0. /\ pending # 0 /\ pending' = 0 /\ Running /\ request.phase \in {"drain", "reply"}
      /\ request \in RequestSet /\ PhaseInv(request) /\ request.future = "open"
      /\ UNCHANGED <<generation, active, readers, queue, closing, begun, connections>>
      /\ begun' \in Nat /\ others' \in Nat
      /\ \/ /\ request' = [request EXCEPT !.future = "value", !.matched = TRUE]
            /\ Report(Append(Arrived, Own("matched_fc4")))
         \/ /\ request' = [request EXCEPT !.future = "rejected"]
            /\ Report(Append(Arrived, Own("modbus_rejected")))
  BY <1>s DEF MatchedResponse, RunningInv, Running, ReaderKeeps, SessionInv, Other
<1>1. /\ request' \in RequestSet /\ request'.phase = request.phase
      /\ request'.number = request.number /\ request'.first = request.first
      /\ request'.generation = request.generation
      /\ request'.drained = request.drained /\ request'.invalidated = request.invalidated
      /\ request'.matched <=> request'.future = "value"
  <2>1. ~request.matched /\ request.matched \in BOOLEAN
    BY <1>0 DEF PhaseInv, RequestSet
  <2>2. CASE request' = [request EXCEPT !.future = "value", !.matched = TRUE]
    BY <1>0, <2>2 DEF RequestSet, Futures
  <2>3. CASE request' = [request EXCEPT !.future = "rejected"]
    <3>1. request' \in RequestSet
      BY <1>0, <2>3 DEF RequestSet, Futures
    <3>2. request'.future = "rejected" /\ request'.matched = request.matched
      BY <1>0, <2>3 DEF RequestSet
    <3> QED BY <1>0, <2>1, <2>3, <3>1, <3>2 DEF RequestSet
  <2> QED BY <1>0, <2>2, <2>3
<1>2. Running'
  BY <1>1, SomeRequest DEF Running
<1>3. PICK kind \in {"matched_fc4", "modbus_rejected"} : Report(Append(Arrived, Own(kind)))
  BY <1>0
<1>4. Fits(Append(Arrived, Own(kind)), request)
  BY <1>s, <1>0, OwnFits, ArrivedFits DEF Kinds
<1>5. JournalInv'
  BY <1>0, <1>1, <1>3, <1>4, SameStep DEF SameRequest
<1>6. SessionInv'
  BY <1>s, <1>0, SessionStays
<1>7. RunningInv'
  <2>1. PhaseInv(request')
    BY <1>0, <1>1 DEF PhaseInv
  <2> QED BY <1>s, <1>0, <1>1, <1>2, <2>1 DEF RunningInv
<1>8. OneWaits' /\ WaitInv'
  BY <1>s, <1>0, <1>1, <1>2, OneStays, NobodyWaits
<1> QED BY <1>5, <1>6, <1>7, <1>8 DEF DiagnosticsInv

LEMMA OtherFrameKeeps ==
  ASSUME DiagnosticsInv, NEW g \in readers, OtherFrame(g)
  PROVE  DiagnosticsInv'
<1>s. SessionInv /\ RunningInv /\ OneWaits /\ WaitInv
  BY DEF DiagnosticsInv
<1>0. /\ UNCHANGED <<generation, active, readers, queue, closing, begun, connections,
                     pending, request>>
      /\ others' \in Nat /\ begun' \in Nat /\ generation \in Nat
      /\ Report(Append(Arrived, Seen("other_frame"))) /\ generation \in readers
  BY <1>s DEF OtherFrame, ReaderKeeps, SessionInv, Reads, Other
<1>1. JournalInv' /\ total \in Nat /\ total' \in Nat /\ total <= total'
  <2>1. Fits(Append(Arrived, Seen("other_frame")), request)
    BY <1>s, SeenFits, ArrivedFits DEF Kinds
  <2>2. total \in Nat
    BY DEF DiagnosticsInv, JournalInv, EventsInv
  <2> QED BY <1>0, <2>1, <2>2, SameStep DEF SameRequest
<1>2. SessionInv'
  BY <1>s, <1>0, SessionStays
<1>3. RunningInv'
  BY <1>s, <1>0, RunningKeeps
<1>4. OneWaits'
  BY <1>s, <1>0, OneStays DEF Running
<1>5. WaitInv'
  BY <1>s, <1>0, <1>1, CurrentKeeps
<1> QED BY <1>1, <1>2, <1>3, <1>4, <1>5 DEF DiagnosticsInv

(* A reader of an old generation ends, behind the bytes it throws away.    *)
LEMMA OldReaderKeeps ==
  ASSUME DiagnosticsInv, NEW g \in readers, readers' = readers \ {g},
         NEW list, Fits(list, request), Report(list), NEW n \in {1, 2}, Len(list) = n,
         UNCHANGED <<generation, active, queue, closing, pending, request, begun,
                     connections>>,
         others' \in Nat
  PROVE  DiagnosticsInv'
<1>s. SessionInv /\ RunningInv /\ OneWaits /\ WaitInv /\ generation \in Nat /\ begun' \in Nat
  BY DEF DiagnosticsInv, SessionInv
<1>1. JournalInv' /\ total' = total + n /\ total \in Nat /\ total' \in Nat /\ total <= total'
  <2>1. JournalInv' /\ total' = total + Len(list)
    BY SameStep DEF SameRequest
  <2>2. total \in Nat
    BY DEF DiagnosticsInv, JournalInv, EventsInv
  <2> QED BY <2>1, <2>2
<1>2. SessionInv'
  BY <1>s DEF SessionInv
<1>3. RunningInv' /\ OneWaits'
  BY <1>s, RunningKeeps, OneStays DEF Running
<1>4. WaitInv'
  <2> SUFFICES ASSUME NEW p \in 1 .. Len(queue), Running, request.phase = "response_timeout",
                      generation \notin readers, Waits(p), Spares(p)
               PROVE  /\ generation' \notin readers'
                      /\ \E q \in 1 .. Len(queue') : Waits(q)' /\ Spares(q)'
    BY <1>s, <1>1, WaitKeeps
  <2>1. generation' \notin readers' /\ p \in 1 .. Len(queue') /\ Waits(p)'
    BY DEF Waits
  <2>2. PICK c \in Nat : c = Cardinality(readers)
    BY <1>s, Counts
  <2>3. PICK d \in Nat : d = Cardinality(readers') /\ c = d + 1
    <3>1. IsFiniteSet(readers \ {g}) /\ Cardinality(readers \ {g}) = Cardinality(readers) - 1
      BY <1>s, ReaderCount, FS_RemoveElement
    <3>2. Cardinality(readers') \in Nat
      BY <3>1, FS_CardinalityType
    <3> QED BY <2>2, <3>1, <3>2
  <2>5. PICK k \in {0, 1} : k = IF closing # 0 THEN 1 ELSE 0
    BY <1>s, Counts
  <2>6. Spares(p)'
    <3>1. p \in Nat
      BY <1>s, LenProperties DEF SessionInv
    <3>2. n + 2 * p + 2 * d + k <= 2 * p + 2 * c + k
      <4>1. n <= 2 /\ n \in Nat /\ k \in Nat
        OBVIOUS
      <4>2. 2 * c = 2 * d + 2
        BY <2>3
      <4>3. PICK x \in Nat, y \in Nat, z \in Nat : x = 2 * p /\ y = 2 * d /\ z = 2 * c
        BY <3>1
      <4> QED BY <4>1, <4>2, <4>3
    <3>3. k = (IF closing' # 0 THEN 1 ELSE 0) /\ request \in RequestSet /\ n \in Nat
      BY <1>s, <2>5 DEF RunningInv, Running
    <3> QED BY <1>1, <2>2, <2>3, <2>5, <3>1, <3>2, <3>3, SparesKeeps
  <2> QED BY <2>1, <2>6
<1> QED BY <1>1, <1>2, <1>3, <1>4 DEF DiagnosticsInv

LEMMA OldReadersKeep ==
  ASSUME DiagnosticsInv, NEW g \in readers, ReaderExit(g) \/ OldGenerationBytes(g)
  PROVE  DiagnosticsInv'
<1>s. SessionInv /\ others \in Nat /\ g \in Nat
  BY DEF DiagnosticsInv, SessionInv
<1>1. CASE ReaderExit(g)
  <2> DEFINE list == <<Event("reader_exit", g, 0)>>
  <2>1. Fits(list, request) /\ Len(list) = 1
    BY <1>s, AnonymousFits, OneFits DEF Kinds
  <2>2. /\ readers' = readers \ {g} /\ Report(list) /\ others' \in Nat
        /\ UNCHANGED <<generation, active, queue, closing, pending, request, begun,
                       connections>>
    BY <1>s, <1>1 DEF ReaderExit
  <2> HIDE DEF list
  <2> QED BY <2>1, <2>2, OldReaderKeeps
<1>2. CASE OldGenerationBytes(g)
  <2> DEFINE list == <<Event("old_generation_bytes", g, 0), Event("reader_exit", g, 0)>>
  <2>1. Fits(list, request) /\ Len(list) = 2
    BY <1>s, AnonymousFits, TwoFit DEF Kinds
  <2>2. /\ readers' = readers \ {g} /\ Report(list) /\ others' \in Nat
        /\ UNCHANGED <<generation, active, queue, closing, pending, request, begun,
                       connections>>
    BY <1>s, <1>2 DEF OldGenerationBytes, Other
  <2> HIDE DEF list
  <2> QED BY <2>1, <2>2, OldReaderKeeps
<1> QED BY <1>1, <1>2

LEMMA ReaderEndsKeeps ==
  ASSUME DiagnosticsInv, NEW g \in readers, ReaderEnds(g)
  PROVE  DiagnosticsInv'
<1>s. SessionInv /\ RunningInv /\ OneWaits /\ WaitInv
  BY DEF DiagnosticsInv
<1>0. /\ g \in Nat /\ g <= generation' /\ generation \in Nat /\ generation' \in Nat
      /\ generation <= generation' /\ generation \in readers /\ Asks("lose", g)
      /\ readers' = readers \ {g} /\ readers' \subseteq 1 .. generation'
      /\ UNCHANGED <<generation, active, pending, request, begun, others, connections>>
      /\ begun' \in Nat /\ others' \in Nat /\ connections' \in Nat
  BY <1>s DEF ReaderEnds, Reads, SessionInv
<1>1. PICK list : Report(list) /\ Fits(list, request)
  <2> DEFINE exit == <<Event("reader_exit", g, 0)>>
             late == <<Seen("receive_inactivity_timeout")>>
  <2>1. Fits(exit, request)
    BY <1>0, AnonymousFits, OneFits DEF Kinds
  <2>2. Fits(late, request)
    BY <1>s, SeenFits, OneFits DEF Kinds
  <2>3. Fits(late \o exit, request)
    BY <2>1, <2>2, ConcatFits
  <2>4. Report(exit) \/ Report(late \o exit)
    BY DEF ReaderEnds
  <2> HIDE DEF exit, late
  <2> QED BY <2>1, <2>3, <2>4
<1>2. JournalInv' /\ total \in Nat /\ total' \in Nat /\ total <= total'
  <2>1. total \in Nat
    BY DEF DiagnosticsInv, JournalInv, EventsInv
  <2> QED BY <1>0, <1>1, <2>1, SameStep DEF SameRequest
<1>3. SessionInv' /\ IsAppended(queue', queue, Task("lose", g), TaskSet)
  <2>1. "lose" \in {"connect", "close", "request", "lose"} /\ UNCHANGED active
    BY <1>0
  <2> QED BY <1>s, <1>0, <2>1, AsksKeeps
<1>4. RunningInv'
  BY <1>s, <1>0, RunningKeeps
<1>5. OneWaits'
  <2>1. Task("lose", g) \in TaskSet /\ Task("lose", g).does # "request"
    BY <1>0 DEF Task, TaskSet
  <2>2. Running' <=> Running
    BY <1>0 DEF Running
  <2> QED BY <1>s, <1>0, <1>3, <2>1, <2>2, OneJoins
<1>6. WaitInv'
  BY <1>s, <1>0, <1>2, CurrentKeeps
<1> QED BY <1>2, <1>3, <1>4, <1>5, <1>6 DEF DiagnosticsInv

LEMMA FailedKeeps == DiagnosticsInv /\ ReaderFailed => DiagnosticsInv'
<1> SUFFICES ASSUME DiagnosticsInv, ReaderFailed PROVE DiagnosticsInv'
  OBVIOUS
<1>s. SessionInv /\ RunningInv /\ OneWaits /\ WaitInv /\ JournalInv
  BY DEF DiagnosticsInv
<1>0. /\ queue # <<>> /\ queue[1].does = "lose" /\ 1 \in 1 .. Len(queue) /\ Leaves(1)
      /\ UNCHANGED <<readers, begun, others, connections>> /\ total \in Nat
      /\ generation \in Nat /\ others' \in Nat /\ begun' \in Nat /\ connections' \in Nat
  BY <1>s, HeadFacts DEF ReaderFailed, Holds, SessionInv, JournalInv, EventsInv
<1>1. CASE queue[1].generation # generation
  <2>1. UNCHANGED <<generation, active, readers, pending, request, begun, connections,
                    journal>>
    BY <1>0, <1>1 DEF ReaderFailed
  <2> QED BY <1>0, <2>1, QuitKeeps
<1>2. CASE queue[1].generation = generation
  <2>0. /\ generation' = generation + 1 /\ active' = 0 /\ FailPending("lost")
        /\ Report(<<Seen("connection_lost")>> \o PendingFailed)
    BY <1>2 DEF ReaderFailed
  <2>1. /\ SameRequest /\ (Running' <=> Running)
        /\ Running => request'.phase = request.phase
        /\ pending = 0 => UNCHANGED request
        /\ pending # 0 => request.phase \in {"drain", "reply"}
        /\ pending # 0 => Running
    BY <1>s, <2>0, FailedRequest DEF RunningInv
  <2>2. Fits(<<Seen("connection_lost")>> \o PendingFailed, request)
    <3>1. Fits(<<Seen("connection_lost")>>, request)
      BY <1>s, SeenFits, OneFits DEF Kinds
    <3> QED BY <1>s, <3>1, FailedFits, ConcatFits
  <2>3. JournalInv' /\ total' \in Nat /\ total <= total'
    BY <1>0, <2>0, <2>1, <2>2, SameStep
  <2>4. SessionInv' /\ IsRemoved(queue', queue, 1)
    <3>1. /\ generation' \in Nat /\ generation <= generation'
          /\ active' \in 0 .. generation' /\ readers' \subseteq 1 .. generation'
      BY <1>s, <1>0, <2>0 DEF SessionInv
    <3> QED BY <1>s, <1>0, <3>1, LeavesKeeps
  <2>5. RunningInv'
    BY <1>s, <1>0, <2>0, FailedRuns
  <2>6. OneWaits'
    BY <1>s, <1>0, <2>1, <2>4, OneLeaves
  <2>7. WaitInv'
    <3>1. CASE pending # 0
      <4>1. request'.phase # "response_timeout"
        BY <2>1, <3>1
      <4> QED BY <4>1, NobodyWaits
    <3>2. CASE pending = 0
      <4>1. \A p \in 1 .. Len(queue) : ~Waits(p)
        <5> SUFFICES ASSUME NEW p \in 1 .. Len(queue), Waits(p) PROVE FALSE
          OBVIOUS
        <5>1. p # 1
          BY <1>0 DEF Waits
        <5>2. 1 \in 1 .. p - 1
          BY <1>0, <5>1
        <5> QED BY <1>0, <1>2, <5>2 DEF Waits
      <4> QED BY <1>s, <1>0, <2>1, <2>3, <3>2, <4>1, WaitKeeps
    <3> QED BY <3>1, <3>2
  <2> QED BY <2>3, <2>4, <2>5, <2>6, <2>7 DEF DiagnosticsInv
<1> QED BY <1>1, <1>2

-----------------------------------------------------------------------------
(* The invariant                                                           *)

LEMMA InitDiagnostics == Init => DiagnosticsInv
<1> SUFFICES ASSUME Init PROVE DiagnosticsInv
  OBVIOUS
<1>0. /\ generation = 0 /\ active = 0 /\ readers = {} /\ queue = <<>> /\ closing = 0
      /\ pending = 0 /\ request = NoRequest /\ begun = 0 /\ total = 0 /\ events = <<>>
      /\ requests = <<>> /\ finished = 0 /\ episodes = <<>> /\ timeouts = 0
      /\ others = 0 /\ connections = 0
  BY DEF Init
<1>1. ~Running
  BY <1>0 DEF Running
<1>e. /\ \A S : <<>> \in Seq(S)
      /\ Len(<<>>) = 0
  BY EmptySeq
<1>2. SessionInv
  BY <1>0, <1>e DEF SessionInv
<1>3. RunningInv
  BY <1>0, <1>1 DEF RunningInv
<1>4. OneWaits /\ WaitInv
  BY <1>0, <1>1, <1>e DEF OneWaits, WaitInv
<1>5. JournalInv
  <2>1. EventsInv
    BY <1>0, <1>e, Capacities DEF EventsInv
  <2>2. RecordsInv
    BY <1>0, <1>1, <1>e, Capacities DEF RecordsInv
  <2>3. AttributedInv
    BY <1>0, <1>1, <1>e DEF AttributedInv
  <2>4. EpisodesInv
    BY <1>0, <1>e, Capacities DEF EpisodesInv
  <2> QED BY <2>1, <2>2, <2>3, <2>4 DEF JournalInv
<1> QED BY <1>2, <1>3, <1>4, <1>5 DEF DiagnosticsInv

LEMMA StutterKeeps == DiagnosticsInv /\ UNCHANGED vars => DiagnosticsInv'
<1> SUFFICES ASSUME DiagnosticsInv, UNCHANGED vars PROVE DiagnosticsInv'
  OBVIOUS
<1>0. UNCHANGED <<generation, active, readers, queue, closing, pending, request, begun,
                  others, connections, journal>>
  BY DEF vars, session
<1>1. SessionInv' /\ RunningInv'
  BY <1>0 DEF DiagnosticsInv, SessionInv, RunningInv, Running, PhaseInv
<1>2. OneWaits'
  BY <1>0 DEF DiagnosticsInv, OneWaits, Running
<1>3. WaitInv'
  BY <1>0 DEF DiagnosticsInv, WaitInv, Waits, Spares, Needed, Running, journal
<1>4. JournalInv'
  BY <1>0, JournalStays DEF DiagnosticsInv
<1> QED BY <1>1, <1>2, <1>3, <1>4 DEF DiagnosticsInv

LEMMA NextDiagnostics == DiagnosticsInv /\ [Next]_vars => DiagnosticsInv'
<1> SUFFICES ASSUME DiagnosticsInv, [Next]_vars PROVE DiagnosticsInv'
  OBVIOUS
<1>1. CASE CallConnect \/ CallClose \/ BeginRequest \/ DrainCompleted \/ AwaitReply
  BY <1>1, CallsKeep, BeginKeeps, DrainedKeeps, AwaitKeeps
<1>2. CASE DrainTimeout \/ ReplyTimeout \/ WriteFails \/ CancelRequest
  BY <1>2, GiveUpsKeep
<1>3. CASE HolderStep
  BY <1>3, ConnectKeeps, CalledKeeps, StartedKeeps, CompletedKeeps, FailedKeeps DEF HolderStep
<1>4. ASSUME NEW i \in 1 .. Len(queue), CancelCaller(i) \/ CancelCleanUp(i)
      PROVE  DiagnosticsInv'
  BY <1>4, CancelKeeps, CleanUpKeeps
<1>5. ASSUME NEW g \in readers,
             \/ MatchedResponse(g) \/ OtherFrame(g) \/ ReaderExit(g) \/ ReaderEnds(g)
             \/ OldGenerationBytes(g)
      PROVE  DiagnosticsInv'
  BY <1>5, MatchedKeeps, OtherFrameKeeps, OldReadersKeep, ReaderEndsKeeps
<1>6. CASE UNCHANGED vars
  BY <1>6, StutterKeeps
<1> QED BY <1>1, <1>2, <1>3, <1>4, <1>5, <1>6 DEF Next, RequestStep

LEMMA DiagnosticsInvariant == Spec => []DiagnosticsInv
BY InitDiagnostics, NextDiagnostics, PTL DEF Spec

-----------------------------------------------------------------------------
(* What follows                                                            *)

(* Whichever task records an event that names a request, it is recorded    *)
(* between the first and the last event of the request, and in the         *)
(* generation the request was sent in.                                     *)
THEOREM EventsAttributed == Spec => []Attributed
<1>1. DiagnosticsInv => Attributed
  <2> SUFFICES ASSUME DiagnosticsInv, NEW i \in 1 .. Len(events), NEW r \in RecordsAndRunning,
                      events[i].request = r.number
               PROVE  /\ events[i].sequence \in r.first .. r.terminal
                      /\ events[i].generation = r.generation
    BY DEF Attributed
  <2>1. AttributedInv
    BY DEF DiagnosticsInv, JournalInv
  <2>2. CASE r \in {requests[k] : k \in 1 .. Len(requests)}
    <3>1. Attr(events, r, r.terminal)
      BY <2>1, <2>2 DEF AttributedInv
    <3> QED BY <3>1 DEF Attr, Names, Within
  <2>3. CASE Running /\ r = [request EXCEPT !.terminal = total]
    <3>1. request \in RequestSet /\ total \in Nat /\ Attr(events, request, total)
      BY <2>1, <2>3 DEF DiagnosticsInv, RunningInv, JournalInv, EventsInv, AttributedInv,
                        Running
    <3>2. /\ r.number = request.number /\ r.first = request.first
          /\ r.generation = request.generation /\ r.terminal = total
      BY <2>3, <3>1 DEF RequestSet
    <3> QED BY <3>1, <3>2 DEF Attr, Names, Within
  <2> QED BY <2>2, <2>3 DEF RecordsAndRunning
<1> QED BY <1>1, DiagnosticsInvariant, PTL

(* A record tells what happened to its request, and the variables have     *)
(* their types.                                                            *)
THEOREM RecordsTrue == Spec => []RecordsConsistent
<1>1. DiagnosticsInv => RecordsConsistent
  <2> SUFFICES ASSUME DiagnosticsInv PROVE RecordsConsistent
    OBVIOUS
  <2>1. SessionInv /\ RunningInv /\ EventsInv /\ RecordsInv /\ EpisodesInv
    BY DEF DiagnosticsInv, JournalInv
  <2>2. TypeOK
    <3>1. Len(events) <= EventCapacity /\ Len(requests) <= RequestCapacity
      BY <2>1, Capacities DEF EventsInv, RecordsInv
    <3>2. Range(queue) \subseteq Tasks
      <4> SUFFICES ASSUME NEW t \in Range(queue) PROVE t \in Tasks
        OBVIOUS
      <4>1. queue \in Seq(TaskSet) /\ DOMAIN queue = 1 .. Len(queue)
        BY <2>1, LenProperties DEF SessionInv
      <4>2. PICK i \in 1 .. Len(queue) : t = queue[i]
        BY <4>1 DEF Range
      <4>3. queue[i] \in TaskSet /\ queue[i].generation <= generation
        BY <2>1, <4>1, ElementOfSeq DEF SessionInv
      <4> QED BY <2>1, <4>2, <4>3 DEF Tasks, TaskSet, SessionInv
    <3>3. closing # 0 => Holds("close") \/ Holds("request")
      <4> HAVE closing # 0
      <4>1. Len(queue) >= 1 /\ queue[1].does \in {"close", "request"}
        BY <2>1 DEF SessionInv
      <4>2. queue # <<>>
        BY <4>1, EmptySeq
      <4> QED BY <4>1, <4>2 DEF Holds
    <3> QED BY <2>1, <3>1, <3>2, <3>3 DEF TypeOK, SessionInv, RunningInv, EpisodesInv
  <2> QED BY <2>1, <2>2 DEF RecordsConsistent, RecordsInv, ConsistentRecord
<1> QED BY <1>1, DiagnosticsInvariant, PTL

(* An episode ends with the terminal event of its request.  With nobody    *)
(* dialing ahead of the request when its deadline expired, there are fewer *)
(* than Needed events from the deadline on: its own five, two of each task *)
(* ahead of it in the queue of the lifecycle lock, and two of each reader. *)
THEOREM EpisodesReach == Spec => []EpisodesReachBack
<1>1. DiagnosticsInv => EpisodesReachBack
  BY DEF DiagnosticsInv, JournalInv, EpisodesInv, ReachesBack, EpisodesReachBack
<1> QED BY <1>1, DiagnosticsInvariant, PTL

(* When ring and context are so long, the episode really holds the         *)
(* deadline that expired: the ring has not dropped it while the clean-up   *)
(* waited for its turn.                                                    *)
THEOREM EpisodesHoldTheDeadline ==
  Spec => [](\A i \in 1 .. Len(episodes) :
               LET e == episodes[i] IN
               /\ ~e.request.dialed
               /\ EventCapacity >= Needed(e.request)
               /\ FailureEventContext >= Needed(e.request)
               => e.recent[1].sequence <= e.request.deadline)
<1>1. DiagnosticsInv => \A i \in 1 .. Len(episodes) :
                          LET e == episodes[i] IN
                          /\ ~e.request.dialed
                          /\ EventCapacity >= Needed(e.request)
                          /\ FailureEventContext >= Needed(e.request)
                          => e.recent[1].sequence <= e.request.deadline
  BY DEF DiagnosticsInv, JournalInv, EpisodesInv, ReachesBack
<1> QED BY <1>1, DiagnosticsInvariant, PTL

=============================================================================
