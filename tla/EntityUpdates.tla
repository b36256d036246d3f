--------------------------- MODULE EntityUpdates ---------------------------
(***************************************************************************)
(* From the registers of the inverter to the state of one sensor.  A poll  *)
(* asks for the registers block by block while the inverter goes on        *)
(* counting; what arrived is merged into the data of the coordinator, and  *)
(* the listeners run.  An entity hands its state to Home Assistant only    *)
(* when its fingerprint, the registers it declares as its sources, is not  *)
(* the one of the last time.                                               *)
(***************************************************************************)
EXTENDS SensorTables, FiniteSets

PushedCount == 40      \* registers in a block that the dongle sends on its own

CONSTANTS Watched,      \* the sensors that are looked at, one per behaviour
          BlockSizes,   \* register block sizes that may be configured
          Radix,        \* values of a word: 2^16 in the inverter
          MaxTicks      \* bound on what changes in the inverter

ASSUME BoundsAssumption == Radix \in Nat \ {0, 1} /\ MaxTicks \in Nat
\* A total is one counter, whose two words no request of a poll separates.
ASSUME PairAssumption ==
  \A s \in Watched : s.kind = "total" =>
    \E low \in s.lows :
      /\ low \in Nat
      /\ s.source = "input" /\ s.lows = {low} /\ s.reads = {low, low + 1}
      /\ \A size \in BlockSizes :
           /\ size \in Nat \ {0} /\ (low + 1) \div size = low \div size
           /\ low + 1 # (low \div size) * size + PushedCount

VARIABLES sensor,    \* the sensor of this behaviour
          block,     \* the configured block size
          inverter,  \* the registers the sensor reads, as they are now
          todo,      \* blocks this poll still asks for, Idle between polls
          fresh,     \* registers this poll has received
          data,      \* the last good registers, as the coordinator has them
          strings,   \* is the set of photovoltaic strings known or assumed
          cached,    \* some input and some hold registers were ever received
          failures,  \* consecutive failed polls
          success,   \* last_update_success of the coordinator
          print,     \* fingerprint of the last update that was passed on
          shown,     \* the state Home Assistant has: value and availability
          ticks      \* changes in the inverter so far

vars == <<sensor, block, inverter, todo, fresh, data, strings, cached,
          failures, success, print, shown, ticks>>

Idle == {-1}           \* no block has this number
Absent == -1           \* the register was never received
NoPrint == <<>>        \* None, or the sentinel of an entity that never updated
MAX_CACHED_DATA_FAILURES == 2

Reads == sensor.reads
IsTotal == sensor.kind = "total"
Low == CHOOSE low \in sensor.lows : TRUE    \* of a total
Combined == sensor.kind \in {"strings", "total_of_strings"}

\* Mutant: blocks too small for the pairs of words.
BlockOfEight(register) == register \div 8
\* A battery's registers come in one page, the others by aligned blocks.
BlockOf(register) == IF sensor.source = "battery" THEN 0 ELSE register \div block
Blocks == {BlockOf(r) : r \in Reads}
InBlock(b) == {r \in Reads : BlockOf(r) = b}

Known(d, register) == IF d[register] = Absent THEN 0 ELSE d[register]
\* Mutant: the words of a counter are swapped.
CounterSwapped(d, low) == Known(d, low) * Radix + Known(d, low + 1)
Counter(d, low) == Known(d, low + 1) * Radix + Known(d, low)

\* native_value: a number for a counter, else what its function is applied to.
Value(d, s) ==
  CASE IsTotal -> Counter(d, Low)
    [] Combined -> <<d, s>>
    [] sensor.kind = "calculated" -> [r \in Reads |-> Known(d, r)]
    [] OTHER -> d
Nothing == [r \in Reads |-> Absent]
Merge(new, old) == [r \in Reads |-> IF new[r] = Absent THEN old[r] ELSE new[r]]

\* Mutant: only one of the sources counts.
FingerprintOfOne(d) == <<d[CHOOSE r \in Reads : TRUE]>>
\* One register that is absent gives None, which forces the update.
Fingerprint(d) ==
  IF sensor.kind = "plain" /\ \E r \in Reads : d[r] = Absent THEN NoPrint ELSE <<d>>
State(d, s, ok) == [value |-> Value(d, s), available |-> ok]
-----------------------------------------------------------------------------
\* The first refresh has succeeded, whatever it received, and the entity was added.
Init ==
  /\ sensor \in Watched
  /\ block \in BlockSizes
  /\ inverter = [r \in Reads |-> 1]
  /\ data \in {d \in [Reads -> {Absent, 1}] :
                 \A r, q \in Reads : BlockOf(r) = BlockOf(q) => d[r] = d[q]}
  /\ strings \in IF Combined THEN {"assumed", "reported"} ELSE {"reported"}
  /\ cached \in BOOLEAN
  /\ todo = Idle /\ fresh = Nothing
  /\ failures = 0 /\ success = TRUE
  /\ print = NoPrint
  /\ shown = State(data, strings, TRUE)
  /\ ticks = 0

(***************************************************************************)
(* The inverter goes on: a counter carries into its high word, any other   *)
(* register takes the next value.                                          *)
(***************************************************************************)
Tick(r) ==
  /\ ticks < MaxTicks /\ ticks' = ticks + 1
  /\ IF sensor.lows = {} THEN inverter' = [inverter EXCEPT ![r] = @ + 1]
     ELSE /\ r \in sensor.lows
          /\ inverter' = IF inverter[r] = Radix - 1
                         THEN [inverter EXCEPT ![r] = 0, ![r + 1] = @ + 1]
                         ELSE [inverter EXCEPT ![r] = @ + 1]
  /\ UNCHANGED <<sensor, block, todo, fresh, data, strings, cached, failures,
                 success, print, shown>>

BeginPoll ==
  /\ todo = Idle
  /\ todo' = Blocks /\ fresh' = Nothing
  /\ UNCHANGED <<sensor, block, inverter, data, strings, cached, failures,
                 success, print, shown, ticks>>

(***************************************************************************)
(* One request of the poll.  An answer that fails a check leaves the block *)
(* as it was; one that carries fewer registers than were asked for counts  *)
(* (a block the dongle sent on its own, which begins where this one does). *)
(***************************************************************************)
Answered(b) ==
  {InBlock(b), {r \in InBlock(b) : r < b * block + PushedCount}, {}}
ReadBlock(b) ==
  /\ todo # Idle /\ b \in todo /\ \A other \in todo : b <= other
  /\ \E got \in Answered(b) :
       fresh' = [r \in Reads |-> IF r \in got THEN inverter[r] ELSE fresh[r]]
  /\ todo' = todo \ {b}
  /\ UNCHANGED <<sensor, block, inverter, data, strings, cached, failures,
                 success, print, shown, ticks>>

\* A timeout ends the requests of the poll; what came before it is kept.
Cut ==
  /\ todo \notin {Idle, {}}
  /\ todo' = {}
  /\ UNCHANGED <<sensor, block, inverter, fresh, data, strings, cached,
                 failures, success, print, shown, ticks>>

\* The connection fails: the next attempt begins anew.
Retry ==
  /\ todo # Idle
  /\ todo' = Blocks /\ fresh' = Nothing
  /\ UNCHANGED <<sensor, block, inverter, data, strings, cached, failures,
                 success, print, shown, ticks>>

\* _handle_coordinator_update of the entity, with the data and success of now.
Update(d, s, ok) ==
  IF Fingerprint(d) # NoPrint /\ Fingerprint(d) = print
  THEN UNCHANGED <<print, shown>>
  ELSE print' = Fingerprint(d) /\ shown' = State(d, s, ok)

EndPoll ==
  /\ todo = {}
  /\ todo' = Idle /\ fresh' = Nothing
  /\ data' = Merge(fresh, data)
  /\ strings' \in {strings, "reported"}
  /\ cached' \in {cached, TRUE}
  /\ failures' = 0 /\ success' = TRUE
  /\ Update(data', strings', TRUE)
  /\ UNCHANGED <<sensor, block, inverter, ticks>>

(***************************************************************************)
(* Every attempt failed.  The first failures in a row repeat the old data  *)
(* as a success; then the update fails, and the listeners are told when it *)
(* is the first that fails.                                                *)
(***************************************************************************)
FailPoll ==
  /\ todo # Idle
  /\ todo' = Idle /\ fresh' = Nothing
  /\ failures' = IF failures > MAX_CACHED_DATA_FAILURES THEN failures ELSE failures + 1
  /\ success' = (cached /\ failures' <= MAX_CACHED_DATA_FAILURES)
  /\ IF success \/ success' THEN Update(data, strings, success')
     ELSE UNCHANGED <<print, shown>>
  /\ UNCHANGED <<sensor, block, inverter, data, strings, cached, ticks>>

Next ==
  \/ \E r \in Reads : Tick(r)
  \/ BeginPoll \/ Cut \/ Retry \/ EndPoll \/ FailPoll
  \/ \E b \in Blocks : ReadBlock(b)

Spec == Init /\ [][Next]_vars
-----------------------------------------------------------------------------
TypeOK ==
  /\ sensor \in Watched /\ block \in BlockSizes
  /\ \A r \in Reads : /\ inverter[r] \in 0 .. MaxTicks + 1
                      /\ fresh[r] \in Absent .. MaxTicks + 1
                      /\ data[r] \in Absent .. MaxTicks + 1
  /\ todo = Idle \/ todo \subseteq Blocks
  /\ strings \in {"assumed", "reported"}
  /\ failures \in 0 .. MAX_CACHED_DATA_FAILURES + 1
  /\ cached \in BOOLEAN /\ success \in BOOLEAN /\ shown.available \in BOOLEAN
  /\ ticks \in 0 .. MaxTicks

(***************************************************************************)
(* The value displayed is the one that the data of the coordinator gives,  *)
(* though most updates are suppressed.  The combined photovoltaic sensors  *)
(* are left out: the strings they take are in a register that is not among *)
(* those of their fingerprint.  And the variables have their types.        *)
(***************************************************************************)
DisplayFresh == TypeOK /\ (Combined \/ shown.value = Value(data, strings))

(***************************************************************************)
(* A counter of two words is never displayed ahead of the inverter, as it  *)
(* would be if its words were read at different times.                     *)
(***************************************************************************)
TotalNeverAhead ==
  IsTotal => shown.value <= inverter[Low] + Radix * inverter[Low + 1]

\* And it never falls, whatever polls lose, repeat or cut short.
TotalsNeverFall ==
  [][IsTotal => shown'.value >= shown.value]_<<sensor, shown>>

(***************************************************************************)
(* The availability displayed is that of the coordinator: after the polls  *)
(* that are tolerated, "Home Assistant marks the entities unavailable      *)
(* instead of presenting stale values as live".                            *)
(***************************************************************************)
UnavailableShown == shown.available = success
=============================================================================
