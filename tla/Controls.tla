------------------------------ MODULE Controls ------------------------------
(***************************************************************************)
(* One register of the inverter and the controls that share it: numbers,   *)
(* switches, selects, times and buttons.  The user chooses values; each    *)
(* entity composes the whole word from the word of the last poll, writes   *)
(* it under the write lock, and believes it when the acknowledgement       *)
(* echoes what it composed.  Requests and acknowledgements get lost.  What *)
(* polls and writes do to each other is in RegisterControl; here the words *)
(* are exact, for every control in the tables.                             *)
(***************************************************************************)
EXTENDS ControlTables, FiniteSets

CONSTANTS Registers,       \* the registers that are looked at, one per behaviour
          VoltageClasses,  \* battery voltage classes that may be configured
          StartWords,      \* words the first poll may find
          MaxWrites        \* bound on writes and presses

ASSUME ClassAssumption == VoltageClasses \subseteq Nat
ASSUME BoundAssumption == MaxWrites \in Nat
ASSUME StartAssumption == Registers \subseteq Int /\ StartWords \subseteq Word

(***************************************************************************)
(* What the tables of descriptions must be like.  A field lies within the  *)
(* word and its values within the field; fields on one register do not     *)
(* overlap, and a setting that takes a whole word has the register alone.  *)
(***************************************************************************)
IsField(c) == c.kind \in {"byte", "switch", "choice", "press_bit"}
Fits(c) ==
  /\ c.weight \in Nat \ {0} /\ c.size \in Nat \ {0}
  /\ WordValues % (c.weight * c.size) = 0
  /\ \A v \in c.options : v \in 0 .. c.size - 1
  /\ c.options = {} => c.lo >= 0 /\ c.hi < c.size /\ c.lo <= c.hi
Apart(c, d) == d.weight % (c.weight * c.size) = 0
ASSUME TableAssumption ==
  \A c \in Catalogue :
    /\ c.register \in Int /\ c.lo \in Int /\ c.hi \in Int /\ c.options \subseteq Int
    /\ c.kind \in {"word", "volts", "signed", "byte", "switch", "choice",
                   "whole_choice", "clock", "press_bit", "press_word"}
    /\ IsField(c) => Fits(c)
    /\ c.kind \in {"press_bit", "press_word"} => c \in Buttons
    /\ c.kind = "signed" => c.options = {} /\ c.lo >= -32768 /\ c.hi <= 32767
                              /\ c.lo <= c.hi
    /\ c.kind = "whole_choice" => c.size \in Nat \ {0} /\ c.options \subseteq 0 .. c.size - 1
                                 /\ c.weight = 1 /\ c.options # {}
    /\ c.kind = "choice" => c.options # {}
ASSUME ClockAssumption ==
  \A c \in Catalogue : c.register \in HoldTimeRegisters => c.kind = "clock"
ASSUME SharingAssumption ==
  \A c, d \in Catalogue :
    c # d /\ c.register = d.register /\ c.kind # "press_word" /\ d \notin Buttons
      => IsField(c) /\ IsField(d) /\ (Apart(c, d) \/ Apart(d, c))

VARIABLES register,  \* the register of this behaviour
          class,     \* the configured battery voltage class
          first,     \* the word before anything was written
          held,      \* the word in the inverter
          cache,     \* the word the entities show and compose from
          known,     \* known[c]: what control c holds, {} after a doubtful write
          writes     \* writes made so far

vars == <<register, class, first, held, cache, known, writes>>

Settings == Catalogue \ Buttons
OnRegister(S, r) == {c \in S : c.register = r}
\* The controls of this behaviour's register: the settings, and the buttons.
Shared == DOMAIN known \cup OnRegister(Buttons, register)

ReferenceClass == 48
\* round(limit * class / 48, 1): to the nearest tenth of a volt, halves to even.
Rescaled(limit) ==
  LET q == (limit * class) \div ReferenceClass
      r == (limit * class) % ReferenceClass
  IN IF 2 * r > ReferenceClass \/ (2 * r = ReferenceClass /\ q % 2 = 1)
     THEN q + 1 ELSE q
MinOf(c) == IF c.kind = "volts" THEN Rescaled(c.lo) ELSE c.lo
MaxOf(c) == IF c.kind = "volts" THEN Rescaled(c.hi) ELSE c.hi

\* Times of day are minutes since midnight here.
MinuteOfDay(hour, minute) == 60 * hour + minute

(***************************************************************************)
(* The values tried on a control: its options, or the limits of its range, *)
(* the middle, and the edges of a byte and of a signed word inside it.     *)
(***************************************************************************)
Tried(c) ==
  IF c.kind = "clock"
  THEN {MinuteOfDay(0, 0), MinuteOfDay(12, 30), MinuteOfDay(23, 59)}
  ELSE IF c.options # {} THEN c.options
  ELSE {MinOf(c), (MinOf(c) + MaxOf(c)) \div 2, MaxOf(c)}
       \cup ({-1, 255, 32768} \cap (MinOf(c) .. MaxOf(c)))

\* The word an entity asks to be written, from the word it shows.
Composed(c, current, value) ==
  IF IsField(c) THEN SetBits(current, c.weight, c.size, value)
  ELSE IF c.kind = "signed" THEN AsUnsigned(value)
  ELSE IF c.kind = "clock" THEN PackTime(value \div 60, value % 60)
  ELSE value

\* The value an entity finds in a word.
Extracted(c, word) ==
  IF c.kind \in {"byte", "switch", "choice", "whole_choice"}
  THEN GetBits(word, c.weight, c.size)
  ELSE IF c.kind = "signed" THEN AsSigned(word)
  ELSE IF c.kind = "clock" THEN MinuteOfDay(Hour(word), Minute(word))
  ELSE word

(***************************************************************************)
(* What is displayed: {} is an unknown state.  A number is unknown while   *)
(* the whole word has all bits set, unless its minimum is negative; a      *)
(* select while its index is no option, a time while it is no time of day. *)
(***************************************************************************)
IsNumber(c) == c.kind \in {"word", "volts", "signed", "byte"}
Unimplemented(c, word) == IsNumber(c) /\ MinOf(c) >= 0 /\ word = 65535
Displayed(c, word) ==
  IF \/ Unimplemented(c, word)
     \/ c.kind \in {"choice", "whole_choice"} /\ Extracted(c, word) \notin c.options
     \/ c.kind = "clock" /\ ~ValidTime(word)
  THEN {} ELSE {Extracted(c, word)}

\* With the read-only option the same descriptions become sensors, and a
\* number is rendered from the whole word.
DisplayedReadOnly(c, word) ==
  IF IsNumber(c) THEN {word} ELSE Displayed(c, word)
-----------------------------------------------------------------------------
Init ==
  /\ register \in Registers
  /\ class \in IF \E c \in OnRegister(Settings, register) : c.kind = "volts"
               THEN VoltageClasses ELSE {ReferenceClass}
  /\ first \in {w \in StartWords : DataSane(register, w)}
  /\ held = first /\ cache = first
  /\ known = [c \in OnRegister(Settings, register) |-> {Extracted(c, first)}]
  /\ writes = 0

\* Bits that a press or a whole word takes from other controls are no longer known.
KnownAfter(c, value) ==
  [d \in DOMAIN known |->
     IF d = c THEN value
     ELSE IF c.kind = "press_word" THEN {} ELSE known[d]]

\* The acknowledgement echoes the composed word and the block is read again.
Confirm(c, value) ==
  LET word == Composed(c, cache, value) IN
  /\ OnWire(word) = word
  /\ held' = word /\ cache' = word
  /\ known' = KnownAfter(c, {value})

\* The echo is the word on the wire and differs: the write counts as failed.
Mismatch(c, value) ==
  LET word == Composed(c, cache, value) IN
  /\ OnWire(word) # word
  /\ held' = OnWire(word)
  /\ known' = KnownAfter(c, {})
  /\ UNCHANGED cache

\* Every attempt is lost, the request or only its acknowledgement.
Lose(c, value) ==
  /\ held' \in {held, OnWire(Composed(c, cache, value))}
  /\ known' = KnownAfter(c, {})
  /\ UNCHANGED cache

\* The inverter answers with an exception and keeps its word.
Refuse(c) == UNCHANGED <<held, cache, known>>

Write(c, value) ==
  /\ writes < MaxWrites
  /\ writes' = writes + 1
  /\ Confirm(c, value) \/ Mismatch(c, value) \/ Lose(c, value) \/ Refuse(c)
  /\ UNCHANGED <<register, class, first>>

\* A poll of the settings, dropped when its times of day are not sane.
Poll ==
  /\ cache' = IF DataSane(register, held) THEN held ELSE cache
  /\ UNCHANGED <<register, class, first, held, known, writes>>

Next ==
  \/ \E c \in Shared : \E value \in Tried(c) : Write(c, value)
  \/ Poll

Spec == Init /\ [][Next]_vars
-----------------------------------------------------------------------------
TypeOK ==
  /\ register \in Int
  /\ class \in VoltageClasses \cup {ReferenceClass}
  /\ first \in Word /\ held \in Word /\ cache \in Word
  /\ \A c \in DOMAIN known :
       c.register = register /\ known[c] \subseteq Int
  /\ writes \in 0 .. MaxWrites

(***************************************************************************)
(* Every control reads back, from the word the entities show, the value    *)
(* confirmed for it last, or the one it had before, whatever was written   *)
(* since to the controls that share its register, also when such a write   *)
(* was lost on its way.                                                    *)
(***************************************************************************)
ShowsWhatItHolds ==
  \A c \in DOMAIN known : known[c] = {} \/ known[c] = {Extracted(c, cache)}

(***************************************************************************)
(* And it displays it: a value the user chose is displayed as unknown only *)
(* when it makes the word the one with all bits set.  The value the first  *)
(* poll found may be one that no option and no time of day stands for.     *)
(***************************************************************************)
ChosenIsShown ==
  \A c \in DOMAIN known :
    \/ known[c] = {} \/ known[c] = {Extracted(c, first)}
    \/ Displayed(c, cache) = known[c] \/ Unimplemented(c, cache)

(***************************************************************************)
(* A bit that no control of the register owns keeps the state the inverter *)
(* gave it: flags without an entity survive every read-modify-write (and   *)
(* what is held is always a word).                                         *)
(***************************************************************************)
BitWeights == {1, 2, 4, 8, 16, 32, 64, 128, 256, 512, 1024, 2048, 4096, 8192, 16384,
               32768}
OwnsBit(c, bit) ==
  IF IsField(c) THEN c.weight <= bit /\ bit < c.weight * c.size ELSE TRUE
UnownedKept ==
  TypeOK /\ \A bit \in BitWeights :
    (\A c \in Shared : ~OwnsBit(c, bit)) => GetBits(held, bit, 2) = GetBits(first, bit, 2)

(***************************************************************************)
(* No value that the user may choose composes to a number that 16 bits do  *)
(* not hold: the echo of such a write never equals what was sent, so the   *)
(* write is repeated and reported as failed though the inverter took it.   *)
(***************************************************************************)
EchoCanMatch ==
  \A c \in Shared : \A v \in Tried(c) : Composed(c, cache, v) \in Word

(***************************************************************************)
(* No control writes a word for which every later poll would throw away    *)
(* the whole block of settings.                                            *)
(***************************************************************************)
BlockStaysReadable == DataSane(register, held)

(***************************************************************************)
(* The sensor that takes a control's place in read-only mode displays what *)
(* the control would: the state "formatted correctly for its original      *)
(* type".                                                                  *)
(***************************************************************************)
ReadOnlyAgrees ==
  \A c \in DOMAIN known : DisplayedReadOnly(c, cache) = Displayed(c, cache)
=============================================================================
