------------------------- MODULE EntityUpdatesProofs -------------------------
(***************************************************************************)
(* For any sensors, block sizes and changes in the inverter: a suppressed  *)
(* update leaves nothing old on display, and a counter of two words is     *)
(* neither torn nor falls (EntityUpdates).                                 *)
(*                                                                         *)
(* Updates are suppressed soundly because a fingerprint determines the     *)
(* value.  A counter is not torn because its words come in one answer, so  *)
(* what a poll has received lies between what was displayed and what the   *)
(* inverter counts.                                                        *)
(***************************************************************************)
EXTENDS EntityUpdates, TLAPS

Registers ==
  /\ DOMAIN inverter = Reads /\ DOMAIN fresh = Reads /\ DOMAIN data = Reads
  /\ \A r \in Reads : /\ inverter[r] \in 0 .. ticks + 1
                      /\ fresh[r] \in Absent .. ticks + 1
                      /\ data[r] \in Absent .. ticks + 1
Status ==
  /\ sensor \in Watched /\ block \in BlockSizes
  /\ todo = Idle \/ todo \subseteq Blocks
  /\ strings \in {"assumed", "reported"}
  /\ failures \in 0 .. MAX_CACHED_DATA_FAILURES + 1
  /\ cached \in BOOLEAN /\ success \in BOOLEAN /\ shown.available \in BOOLEAN
  /\ ticks \in 0 .. MaxTicks

(* What was passed on last had the value on display.                       *)
Displays(d) == Combined \/ \A s : shown.value = Value(d, s)
Printed == \A d : print = <<d>> => Displays(d)
DisplayInv == Printed /\ Displays(data)

LEMMA InitRegisters == Init => Registers /\ Status
<1> SUFFICES ASSUME Init PROVE Registers /\ Status
  OBVIOUS
<1>1. Registers
  BY DEF Init, Registers, Nothing, Absent, Reads
<1>2. Status
  BY BoundsAssumption DEF Init, Status, State, MAX_CACHED_DATA_FAILURES
<1> QED BY <1>1, <1>2

LEMMA TickRegisters ==
  ASSUME Registers, Status, NEW r \in Reads, Tick(r)
  PROVE  Registers'
<1>1. ticks \in Nat /\ ticks' = ticks + 1 /\ UNCHANGED <<sensor, fresh, data>>
  BY DEF Tick, Status
<1>2. DOMAIN inverter' = Reads
  BY DEF Tick, Registers
<1>3. ASSUME NEW q \in Reads PROVE inverter'[q] \in 0 .. ticks + 2
  BY <1>1, <1>3 DEF Tick, Registers
<1>4. ASSUME NEW q \in Reads
      PROVE  fresh[q] \in Absent .. ticks + 2 /\ data[q] \in Absent .. ticks + 2
  BY <1>1 DEF Registers, Absent
<1> QED BY <1>1, <1>2, <1>3, <1>4 DEF Registers, Reads

LEMMA RegistersStep ==
  ASSUME Registers, Status, Next
  PROVE  Registers'
<1>1. ticks \in Nat /\ \A n \in 0 .. ticks + 1 : n \in Absent .. ticks + 1
  BY DEF Status, Absent
<1>2. Absent \in Absent .. ticks + 1
  BY <1>1 DEF Absent
<1>3. CASE \E r \in Reads : Tick(r)
  BY <1>3, TickRegisters
<1>4. CASE BeginPoll \/ Retry \/ FailPoll
  <2>1. UNCHANGED <<sensor, inverter, data, ticks>> /\ fresh' = [r \in Reads |-> Absent]
    BY <1>4 DEF BeginPoll, Retry, FailPoll, Nothing
  <2> QED BY <1>2, <2>1 DEF Registers, Reads
<1>5. ASSUME NEW b \in Blocks, ReadBlock(b) PROVE Registers'
  <2>1. PICK got : fresh' = [r \in Reads |-> IF r \in got THEN inverter[r] ELSE fresh[r]]
    BY <1>5 DEF ReadBlock
  <2>2. UNCHANGED <<sensor, inverter, data, ticks>>
    BY <1>5 DEF ReadBlock
  <2> QED BY <1>1, <2>1, <2>2 DEF Registers, Reads
<1>6. CASE Cut
  BY <1>6 DEF Cut, Registers, Reads
<1>7. CASE EndPoll
  <2>1. /\ UNCHANGED <<sensor, inverter, ticks>> /\ fresh' = [r \in Reads |-> Absent]
        /\ data' = [r \in Reads |-> IF fresh[r] = Absent THEN data[r] ELSE fresh[r]]
    BY <1>7 DEF EndPoll, Nothing, Merge
  <2> QED BY <1>2, <2>1 DEF Registers, Reads
<1> QED BY <1>3, <1>4, <1>5, <1>6, <1>7 DEF Next

LEMMA StatusStep ==
  ASSUME Status, Next
  PROVE  Status'
<1>1. ASSUME NEW d, NEW s, NEW ok \in BOOLEAN, Update(d, s, ok)
      PROVE  shown'.available \in BOOLEAN
  BY <1>1 DEF Update, State, Status
<1>2. sensor' = sensor /\ block' = block => Blocks' = Blocks
  BY DEF Blocks, BlockOf, Reads
<1>3. ASSUME NEW r \in Reads, Tick(r) PROVE Status'
  <2>1. ticks' \in 0 .. MaxTicks
    BY <1>3, BoundsAssumption DEF Tick, Status
  <2> QED BY <1>2, <1>3, <2>1 DEF Tick, Status
<1>4. CASE BeginPoll
  BY <1>2, <1>4 DEF BeginPoll, Status
<1>5. CASE Retry
  BY <1>2, <1>5 DEF Retry, Status
<1>6. CASE Cut
  BY <1>2, <1>6 DEF Cut, Status
<1>7. ASSUME NEW b \in Blocks, ReadBlock(b) PROVE Status'
  BY <1>2, <1>7 DEF ReadBlock, Status
<1>8. CASE EndPoll
  <2>1. shown'.available \in BOOLEAN
    BY <1>1, <1>8 DEF EndPoll
  <2>2. failures' = 0 /\ 0 \in 0 .. MAX_CACHED_DATA_FAILURES + 1
    BY <1>8 DEF EndPoll, MAX_CACHED_DATA_FAILURES
  <2> QED BY <1>2, <1>8, <2>1, <2>2 DEF EndPoll, Status
<1>9. CASE FailPoll
  <2>1. success' \in BOOLEAN
    BY <1>9 DEF FailPoll
  <2>2. shown'.available \in BOOLEAN
    BY <1>1, <1>9, <2>1 DEF FailPoll, Status
  <2>3. failures' \in 0 .. MAX_CACHED_DATA_FAILURES + 1
    BY <1>9 DEF FailPoll, Status, MAX_CACHED_DATA_FAILURES
  <2> QED BY <1>2, <1>9, <2>1, <2>2, <2>3 DEF FailPoll, Status
<1> QED BY <1>3, <1>4, <1>5, <1>6, <1>7, <1>8, <1>9 DEF Next

(***************************************************************************)
(* The display.                                                            *)
(***************************************************************************)
LEMMA UpdateDisplays ==
  ASSUME DisplayInv, NEW d, NEW s, NEW ok, Update(d, s, ok), sensor' = sensor
  PROVE  Printed' /\ Displays(d)'
<1>1. /\ Combined' <=> Combined
      /\ \A e, t : Value(e, t)' = Value(e, t)
  BY DEF Combined, Value, IsTotal, Low, Reads, Counter, Known
<1>2. ~Combined => \A t, u, e : Value(e, t) = Value(e, u)
  BY DEF Value, Combined, IsTotal
<1>3. CASE Fingerprint(d) # NoPrint /\ Fingerprint(d) = print
  <2>1. print' = print /\ shown' = shown
    BY <1>3 DEF Update
  <2>2. print = <<d>>
    BY <1>3 DEF Fingerprint
  <2> QED BY <1>1, <2>1, <2>2 DEF DisplayInv, Printed, Displays
<1>4. CASE ~(Fingerprint(d) # NoPrint /\ Fingerprint(d) = print)
  <2>1. print' = Fingerprint(d) /\ shown' = State(d, s, ok)
    BY <1>4 DEF Update
  <2>2. shown'.value = Value(d, s)
    BY <2>1 DEF State
  <2>3. Displays(d)'
    BY <1>1, <1>2, <2>2 DEF Displays
  <2>4. \A e : print' = <<e>> => e = d
    BY <2>1 DEF Fingerprint, NoPrint
  <2> QED BY <2>3, <2>4 DEF Printed
<1> QED BY <1>3, <1>4

LEMMA DisplayStep ==
  ASSUME DisplayInv, Next
  PROVE  DisplayInv'
<1>1. CASE EndPoll
  <2>1. Update(data', strings', TRUE) /\ sensor' = sensor
    BY <1>1 DEF EndPoll
  <2>2. PICK d : d = data'
    OBVIOUS
  <2>3. PICK s : s = strings'
    OBVIOUS
  <2>4. Update(d, s, TRUE)
    BY <2>1, <2>2, <2>3
  <2> QED BY <2>1, <2>2, <2>4, UpdateDisplays DEF DisplayInv, Displays
<1>2. CASE FailPoll /\ (success \/ success')
  <2>1. Update(data, strings, success') /\ sensor' = sensor /\ data' = data
    BY <1>2 DEF FailPoll
  <2>2. PICK d : d = data
    OBVIOUS
  <2>3. PICK s : s = strings
    OBVIOUS
  <2>4. PICK ok : ok = success'
    OBVIOUS
  <2>5. Update(d, s, ok)
    BY <2>1, <2>2, <2>3, <2>4
  <2> QED BY <2>1, <2>2, <2>5, UpdateDisplays DEF DisplayInv, Displays
<1>3. CASE UNCHANGED <<sensor, data, print, shown>>
  <2>1. /\ Combined' <=> Combined
        /\ \A e, t : Value(e, t)' = Value(e, t)
    BY <1>3 DEF Combined, Value, IsTotal, Low, Reads, Counter, Known
  <2> QED BY <1>3, <2>1 DEF DisplayInv, Printed, Displays
<1>4. \/ EndPoll
      \/ FailPoll /\ (success \/ success')
      \/ UNCHANGED <<sensor, data, print, shown>>
  BY DEF Next, Tick, BeginPoll, Cut, Retry, ReadBlock, FailPoll
<1> QED BY <1>1, <1>2, <1>3, <1>4

LEMMA DisplayInit == Init => DisplayInv
<1> SUFFICES ASSUME Init PROVE DisplayInv
  OBVIOUS
<1>1. ~Combined => \A t, u, e : Value(e, t) = Value(e, u)
  BY DEF Value, Combined, IsTotal
<1>2. Displays(data)
  BY <1>1 DEF Init, State, Displays
<1>3. Printed
  BY DEF Init, Printed, NoPrint
<1> QED BY <1>2, <1>3 DEF DisplayInv

LEMMA DisplayInvariant == Spec => [](Registers /\ Status /\ DisplayInv)
<1>1. Registers /\ Status /\ DisplayInv /\ UNCHANGED vars => (Registers /\ Status /\ DisplayInv)'
  <2> SUFFICES ASSUME Registers, Status, DisplayInv, UNCHANGED vars
               PROVE  (Registers /\ Status /\ DisplayInv)'
    OBVIOUS
  <2> USE DEF vars
  <2>1. Registers' /\ Status'
    BY DEF Registers, Status, Reads, Blocks, BlockOf
  <2>2. /\ Combined' <=> Combined
        /\ \A e, t : Value(e, t)' = Value(e, t)
    BY DEF Combined, Value, IsTotal, Low, Reads, Counter, Known
  <2> QED BY <2>1, <2>2 DEF DisplayInv, Printed, Displays
<1> QED BY <1>1, InitRegisters, DisplayInit, RegistersStep, StatusStep, DisplayStep, PTL DEF Spec

(* The value displayed is that of the coordinator's data (DisplayFresh),   *)
(* although _handle_coordinator_update of the entity drops most updates;   *)
(* and the variables have their types.                                     *)
THEOREM DisplayIsFresh == Spec => []DisplayFresh
<1>1. Registers /\ Status /\ DisplayInv => DisplayFresh
  <2> SUFFICES ASSUME Registers, Status, DisplayInv PROVE DisplayFresh
    OBVIOUS
  <2>1. ticks \in Nat /\ MaxTicks \in Nat /\ ticks <= MaxTicks
    BY BoundsAssumption DEF Status
  <2>2. \A r \in Reads : /\ inverter[r] \in 0 .. MaxTicks + 1
                         /\ fresh[r] \in Absent .. MaxTicks + 1
                         /\ data[r] \in Absent .. MaxTicks + 1
    BY <2>1 DEF Registers, Absent
  <2>3. TypeOK
    BY <2>2 DEF TypeOK, Status
  <2> QED BY <2>3 DEF DisplayFresh, DisplayInv, Displays
<1> QED BY <1>1, DisplayInvariant, PTL

(***************************************************************************)
(* Counters of two words.                                                  *)
(***************************************************************************)
TotalInv ==
  IsTotal =>
    /\ inverter[Low] < Radix
    /\ data[Low] = Absent <=> data[Low + 1] = Absent
    /\ fresh[Low] = Absent <=> fresh[Low + 1] = Absent
    /\ Counter(data, Low) <= Counter(inverter, Low)
    /\ fresh[Low] # Absent =>
         /\ Counter(data, Low) <= Counter(fresh, Low)
         /\ Counter(fresh, Low) <= Counter(inverter, Low)

LEMMA PairOf ==
  ASSUME Status, IsTotal
  PROVE  /\ Low \in Nat /\ Reads = {Low, Low + 1} /\ sensor.lows = {Low}
         /\ BlockOf(Low) = BlockOf(Low + 1)
         /\ \A b \in Blocks : \A got \in Answered(b) : Low \in got <=> Low + 1 \in got
<1>1. PICK low \in sensor.lows :
        /\ low \in Nat
        /\ sensor.source = "input" /\ sensor.lows = {low} /\ sensor.reads = {low, low + 1}
        /\ block \in Nat \ {0} /\ (low + 1) \div block = low \div block
        /\ low + 1 # (low \div block) * block + PushedCount
  BY PairAssumption DEF Status, IsTotal
<1>2. low = Low
  BY <1>1 DEF Low
<1>3. /\ Reads = {Low, Low + 1} /\ sensor.lows = {Low} /\ Low \in Nat
      /\ BlockOf(Low) = Low \div block /\ BlockOf(Low + 1) = Low \div block
  BY <1>1, <1>2 DEF Reads, BlockOf
<1>4. ASSUME NEW b \in Blocks, NEW got \in Answered(b) PROVE Low \in got <=> Low + 1 \in got
  <2>1. b = Low \div block /\ InBlock(b) = {Low, Low + 1}
    BY <1>3 DEF Blocks, InBlock
  <2>2. PICK first \in Int : first = b * block
    <3>1. Low \div block \in Int
      BY <1>1, <1>3
    <3> QED BY <1>1, <2>1, <3>1
  <2>3. Low + 1 # first + PushedCount
    BY <1>1, <1>2, <2>1, <2>2
  <2>4. Low < first + PushedCount <=> Low + 1 < first + PushedCount
    BY <1>3, <2>2, <2>3 DEF PushedCount
  <2>5. got \in {InBlock(b), {r \in InBlock(b) : r < first + PushedCount}, {}}
    BY <2>2 DEF Answered
  <2> QED BY <1>3, <2>1, <2>4, <2>5
<1> QED BY <1>3, <1>4

LEMMA Places ==
  ASSUME NEW h \in Nat
  PROVE  h * Radix \in Nat /\ (h + 1) * Radix = h * Radix + Radix
BY BoundsAssumption

LEMMA CounterType ==
  ASSUME Registers, Status, IsTotal
  PROVE  /\ Counter(data, Low) \in Nat /\ Counter(fresh, Low) \in Nat
         /\ Counter(inverter, Low) \in Nat
         /\ inverter[Low] \in Nat /\ inverter[Low + 1] \in Nat
         /\ Counter(inverter, Low) = inverter[Low + 1] * Radix + inverter[Low]
<1>1. Low \in Reads /\ Low + 1 \in Reads /\ ticks \in Nat
  BY PairOf DEF Status
<1>2. inverter[Low] \in Nat /\ inverter[Low + 1] \in Nat
  BY <1>1 DEF Registers
<1>3. /\ Known(data, Low) \in Nat /\ Known(data, Low + 1) \in Nat
      /\ Known(fresh, Low) \in Nat /\ Known(fresh, Low + 1) \in Nat
  BY <1>1 DEF Registers, Known, Absent
<1>4. Known(inverter, Low) = inverter[Low] /\ Known(inverter, Low + 1) = inverter[Low + 1]
  BY <1>2 DEF Known, Absent
<1> QED BY <1>2, <1>3, <1>4, Places DEF Counter

LEMMA TickTotal ==
  ASSUME Registers, Status, TotalInv, NEW r \in Reads, Tick(r), IsTotal, Registers', Status'
  PROVE  /\ inverter'[Low] < Radix
         /\ Counter(inverter', Low) >= Counter(inverter, Low)
         /\ Counter(inverter', Low) \in Nat
<1>1. /\ Low \in Nat /\ Reads = {Low, Low + 1} /\ sensor.lows = {Low} /\ sensor' = sensor
      /\ IsTotal' /\ Low' = Low
  BY PairOf DEF Tick, IsTotal, Low
<1>2. /\ r = Low
      /\ inverter' = IF inverter[Low] = Radix - 1
                     THEN [inverter EXCEPT ![Low] = 0, ![Low + 1] = @ + 1]
                     ELSE [inverter EXCEPT ![Low] = @ + 1]
  BY <1>1 DEF Tick
<1>3. PICK h \in Nat, l \in Nat : h = inverter[Low + 1] /\ l = inverter[Low]
  BY CounterType
<1>4. DOMAIN inverter = {Low, Low + 1} /\ Low # Low + 1
  BY <1>1 DEF Registers
<1>5. /\ Counter(inverter, Low) = h * Radix + l
      /\ Counter(inverter', Low) = inverter'[Low + 1] * Radix + inverter'[Low]
  <2>1. Counter(inverter, Low) = h * Radix + l
    BY <1>3, CounterType
  <2>2. inverter'[Low] # Absent /\ inverter'[Low + 1] # Absent
    BY <1>2, <1>3, <1>4 DEF Absent
  <2> QED BY <2>1, <2>2 DEF Counter, Known
<1>6. l < Radix /\ Radix \in Nat
  BY <1>3, BoundsAssumption DEF TotalInv
<1>7. CASE l = Radix - 1
  <2>1. inverter'[Low] = 0 /\ inverter'[Low + 1] = h + 1
    BY <1>2, <1>3, <1>4, <1>7
  <2>2. Counter(inverter', Low) = h * Radix + Radix
    BY <1>5, <2>1, Places
  <2> QED BY <1>5, <1>6, <1>7, <2>1, <2>2, Places, BoundsAssumption
<1>8. CASE l # Radix - 1
  <2>1. inverter'[Low] = l + 1 /\ inverter'[Low + 1] = h
    BY <1>2, <1>3, <1>4, <1>8
  <2>2. Counter(inverter', Low) = h * Radix + (l + 1)
    BY <1>5, <2>1
  <2> QED BY <1>5, <1>6, <1>8, <2>1, <2>2, Places
<1> QED BY <1>7, <1>8

LEMMA SensorStays == Next => sensor' = sensor
BY DEF Next, Tick, BeginPoll, Cut, Retry, EndPoll, FailPoll, ReadBlock

LEMMA TotalStep ==
  ASSUME Registers, Status, TotalInv, Next, Registers', Status'
  PROVE  /\ TotalInv'
         /\ IsTotal => Counter(data, Low)' >= Counter(data, Low)
<1> SUFFICES ASSUME IsTotal
             PROVE  TotalInv' /\ Counter(data, Low)' >= Counter(data, Low)
  BY SensorStays DEF IsTotal, TotalInv
<1>1. sensor' = sensor /\ Low' = Low /\ Reads' = Reads /\ IsTotal' /\ ticks \in Nat
  BY SensorStays DEF IsTotal, Low, Reads, Status
<1>2. Low \in Reads /\ Low + 1 \in Reads
  BY PairOf
<1>3. /\ Counter(data, Low) \in Nat /\ Counter(fresh, Low) \in Nat
      /\ Counter(inverter, Low) \in Nat
  BY CounterType
<1>4. ASSUME NEW r \in Reads, Tick(r)
      PROVE  TotalInv' /\ Counter(data, Low)' >= Counter(data, Low)
  <2>1. /\ inverter'[Low] < Radix
        /\ Counter(inverter', Low) >= Counter(inverter, Low)
        /\ Counter(inverter', Low) \in Nat
    BY <1>4, TickTotal
  <2>2. fresh' = fresh /\ data' = data
    BY <1>4 DEF Tick
  <2>3. /\ Counter(data, Low)' = Counter(data, Low)
        /\ Counter(fresh, Low)' = Counter(fresh, Low)
        /\ Counter(inverter, Low)' = Counter(inverter', Low)
    BY <1>1, <2>2 DEF Counter, Known
  <2> QED BY <1>1, <1>3, <2>1, <2>2, <2>3 DEF TotalInv
<1>5. CASE BeginPoll \/ Retry \/ FailPoll
  <2>1. inverter' = inverter /\ data' = data /\ fresh' = [r \in Reads |-> Absent]
    BY <1>5 DEF BeginPoll, Retry, FailPoll, Nothing
  <2>2. /\ Counter(data, Low)' = Counter(data, Low)
        /\ Counter(inverter, Low)' = Counter(inverter, Low)
    BY <1>1, <2>1 DEF Counter, Known
  <2>3. fresh'[Low] = Absent /\ fresh'[Low + 1] = Absent
    BY <1>2, <2>1
  <2> QED BY <1>1, <1>3, <2>1, <2>2, <2>3 DEF TotalInv
<1>6. ASSUME NEW b \in Blocks, ReadBlock(b)
      PROVE  TotalInv' /\ Counter(data, Low)' >= Counter(data, Low)
  <2>1. PICK got \in Answered(b) :
           fresh' = [r \in Reads |-> IF r \in got THEN inverter[r] ELSE fresh[r]]
    BY <1>6 DEF ReadBlock
  <2>2. inverter' = inverter /\ data' = data
    BY <1>6 DEF ReadBlock
  <2>3. /\ Counter(data, Low)' = Counter(data, Low)
        /\ Counter(inverter, Low)' = Counter(inverter, Low)
    BY <1>1, <2>2 DEF Counter, Known
  <2>4. Low \in got <=> Low + 1 \in got
    BY PairOf
  <2>5. CASE Low \in got
    <3>1. fresh'[Low] = inverter[Low] /\ fresh'[Low + 1] = inverter[Low + 1]
      BY <1>2, <2>1, <2>4, <2>5
    <3>2. Counter(fresh, Low)' = Counter(inverter, Low)
      BY <1>1, <3>1 DEF Counter, Known
    <3>3. fresh'[Low] # Absent /\ fresh'[Low + 1] # Absent
      BY <3>1, CounterType DEF Absent
    <3> QED BY <1>1, <1>3, <2>2, <2>3, <3>2, <3>3 DEF TotalInv
  <2>6. CASE Low \notin got
    <3>1. fresh'[Low] = fresh[Low] /\ fresh'[Low + 1] = fresh[Low + 1]
      BY <1>2, <2>1, <2>4, <2>6
    <3>2. Counter(fresh, Low)' = Counter(fresh, Low)
      BY <1>1, <3>1 DEF Counter, Known
    <3> QED BY <1>1, <1>3, <2>2, <2>3, <3>1, <3>2 DEF TotalInv
  <2> QED BY <2>5, <2>6
<1>7. CASE Cut
  <2>1. inverter' = inverter /\ data' = data /\ fresh' = fresh
    BY <1>7 DEF Cut
  <2>2. /\ Counter(data, Low)' = Counter(data, Low)
        /\ Counter(fresh, Low)' = Counter(fresh, Low)
        /\ Counter(inverter, Low)' = Counter(inverter, Low)
    BY <1>1, <2>1 DEF Counter, Known
  <2> QED BY <1>1, <1>3, <2>1, <2>2 DEF TotalInv
<1>8. CASE EndPoll
  <2>1. /\ inverter' = inverter /\ fresh' = [r \in Reads |-> Absent]
        /\ data' = [r \in Reads |-> IF fresh[r] = Absent THEN data[r] ELSE fresh[r]]
    BY <1>8 DEF EndPoll, Nothing, Merge
  <2>2. Counter(inverter, Low)' = Counter(inverter, Low)
    BY <1>1, <2>1 DEF Counter, Known
  <2>3. fresh'[Low] = Absent /\ fresh'[Low + 1] = Absent
    BY <1>2, <2>1
  <2>4. CASE fresh[Low] = Absent
    <3>1. data'[Low] = data[Low] /\ data'[Low + 1] = data[Low + 1]
      BY <1>2, <2>1, <2>4 DEF TotalInv
    <3>2. Counter(data, Low)' = Counter(data, Low)
      BY <1>1, <3>1 DEF Counter, Known
    <3> QED BY <1>1, <1>3, <2>1, <2>2, <2>3, <3>1, <3>2 DEF TotalInv
  <2>5. CASE fresh[Low] # Absent
    <3>1. data'[Low] = fresh[Low] /\ data'[Low + 1] = fresh[Low + 1]
      BY <1>2, <2>1, <2>5 DEF TotalInv
    <3>2. Counter(data, Low)' = Counter(fresh, Low)
      BY <1>1, <3>1 DEF Counter, Known
    <3> QED BY <1>1, <1>3, <2>1, <2>2, <2>3, <2>5, <3>1, <3>2 DEF TotalInv
  <2> QED BY <2>4, <2>5
<1> QED BY <1>4, <1>5, <1>6, <1>7, <1>8 DEF Next

LEMMA TotalInit == Init => TotalInv
<1> SUFFICES ASSUME Init, IsTotal PROVE TotalInv
  BY DEF TotalInv
<1>1. Registers /\ Status
  BY InitRegisters
<1>2. Low \in Reads /\ Low + 1 \in Reads /\ BlockOf(Low) = BlockOf(Low + 1)
  BY <1>1, PairOf
<1>3. /\ inverter[Low] = 1 /\ inverter[Low + 1] = 1
      /\ fresh[Low] = Absent /\ fresh[Low + 1] = Absent
      /\ data[Low] = data[Low + 1] /\ data[Low] \in {Absent, 1}
  BY <1>2 DEF Init, Nothing
<1>4. Counter(data, Low) <= Counter(inverter, Low)
  <2>1. Counter(inverter, Low) = Radix + 1
    BY <1>3, BoundsAssumption DEF Counter, Known, Absent
  <2>2. CASE data[Low] = 1
    BY <1>3, <2>1, <2>2, BoundsAssumption DEF Counter, Known, Absent
  <2>3. CASE data[Low] = Absent
    <3>1. Counter(data, Low) = 0
      BY <1>3, <2>3, BoundsAssumption DEF Counter, Known
    <3> QED BY <2>1, <3>1, BoundsAssumption
  <2> QED BY <1>3, <2>2, <2>3
<1> QED BY <1>3, <1>4, BoundsAssumption DEF TotalInv

LEMMA TotalInvariant == Spec => [](Registers /\ Status /\ DisplayInv /\ TotalInv)
<1>1. TotalInv /\ UNCHANGED vars => TotalInv'
  BY DEF TotalInv, vars, IsTotal, Low, Counter, Known
<1>2. Registers /\ Status /\ TotalInv /\ Next /\ Registers' /\ Status' => TotalInv'
  BY TotalStep
<1> QED BY <1>1, <1>2, TotalInit, DisplayInvariant, PTL DEF Spec

LEMMA TotalShown ==
  ASSUME DisplayInv, IsTotal
  PROVE  shown.value = Counter(data, Low)
BY DEF DisplayInv, Displays, Value, Combined, IsTotal

(* A total is never displayed ahead of the inverter (TotalNeverAhead), as  *)
(* it would be with words of different times: for any width of a word, and *)
(* for every block size that keeps the words of a pair together.           *)
THEOREM TotalsNotAhead == Spec => []TotalNeverAhead
<1>1. Registers /\ Status /\ DisplayInv /\ TotalInv => TotalNeverAhead
  <2> SUFFICES ASSUME Registers, Status, DisplayInv, TotalInv, IsTotal
               PROVE  shown.value <= inverter[Low] + Radix * inverter[Low + 1]
    BY DEF TotalNeverAhead
  <2>1. shown.value <= Counter(inverter, Low)
    BY TotalShown DEF TotalInv
  <2>2. PICK h \in Nat, l \in Nat : h = inverter[Low + 1] /\ l = inverter[Low]
    BY CounterType
  <2>3. Counter(inverter, Low) = h * Radix + l
    BY <2>2, CounterType
  <2>4. h * Radix + l = l + Radix * h
    BY BoundsAssumption
  <2> QED BY <2>1, <2>2, <2>3, <2>4
<1> QED BY <1>1, TotalInvariant, PTL

(* And it never falls (TotalsNeverFall), whatever polls lose, repeat or    *)
(* cut short.                                                              *)
THEOREM TotalsRise == Spec => TotalsNeverFall
<1>1. /\ Registers /\ Status /\ DisplayInv /\ TotalInv
      /\ (Registers /\ Status /\ DisplayInv /\ TotalInv)'
      /\ [Next]_vars
      => [IsTotal => shown'.value >= shown.value]_<<sensor, shown>>
  <2> SUFFICES ASSUME Registers, Status, DisplayInv, TotalInv,
                      (Registers /\ Status /\ DisplayInv /\ TotalInv)', Next, IsTotal
               PROVE  shown'.value >= shown.value
    BY DEF vars
  <2>1. IsTotal'
    BY SensorStays DEF IsTotal
  <2>2. shown.value = Counter(data, Low)
    BY TotalShown
  <2>3. (shown.value = Counter(data, Low))'
    BY <2>1 DEF DisplayInv, Displays, Value, Combined, IsTotal
  <2>4. Counter(data, Low)' >= Counter(data, Low)
    BY TotalStep
  <2> QED BY <2>2, <2>3, <2>4
<1> QED BY <1>1, TotalInvariant, PTL DEF Spec, TotalsNeverFall

=============================================================================
