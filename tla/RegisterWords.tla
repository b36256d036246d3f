--------------------------- MODULE RegisterWords ---------------------------
(***************************************************************************)
(* The arithmetic on one register of the inverter, a word of 16 bits: bit  *)
(* fields, two's complement, packed clock times, and the word a write puts *)
(* on the wire.  A field is given by its weight 2^start and by the number  *)
(* of its values 2^count; Python's shifts and masks are \div and %.        *)
(***************************************************************************)
EXTENDS Integers

WordValues == 65536
Word == 0 .. WordValues - 1

GetBits(value, weight, size) == (value \div weight) % size

\* Mutants: the old bits are not cleared; one bit too many is cleared.
SetBitsUncleared(orig, weight, size, new) == orig + (new % size) * weight
SetBitsWide(orig, weight, size, new) ==
  orig - GetBits(orig, weight, 2 * size) * weight + (new % size) * weight
\* The masks keep the low bits of a new value that is too large for the field.
SetBits(orig, weight, size, new) ==
  orig - GetBits(orig, weight, size) * weight + (new % size) * weight

\* The signed registers: a word above 32767 stands for a negative number.
AsSigned(value) == IF value < 32768 THEN value ELSE value - WordValues
AsUnsigned(value) == IF value >= 0 THEN value ELSE value + WordValues

\* A time of day: the hour in the low byte, the minute in the high byte.
Hour(value) == value % 256
Minute(value) == (value \div 256) % 256
\* Mutant: the bytes are swapped.
PackTimeSwapped(hour, minute) == (minute % 256) + (hour % 256) * 256
PackTime(hour, minute) == (hour % 256) + (minute % 256) * 256
\* Mutant: midnight is no time.
ValidTimeNoMidnight(value) == Hour(value) \in 1 .. 23 /\ Minute(value) \in 0 .. 59
ValidTime(value) == Hour(value) \in 0 .. 23 /\ Minute(value) \in 0 .. 59

\* What the request of a write carries: value & 0xFFFF.
OnWire(value) == value % WordValues

(***************************************************************************)
(* The check that every block of settings must pass before it is kept: the *)
(* fourteen time registers it knows hold a time of day.                    *)
(***************************************************************************)
HoldTimeRegisters == (68 .. 73) \cup (152 .. 155) \cup (209 .. 212)
DataSane(register, value) == register \in HoldTimeRegisters => ValidTime(value)

(***************************************************************************)
(* Descriptions of controls: which word, which part of it, and the values  *)
(* the user may choose, as the raw numbers the register holds (the number  *)
(* times the multiplier of its description).                               *)
(***************************************************************************)
Control(kind, register, weight, size, lo, hi, options) ==
  [kind |-> kind, register |-> register, weight |-> weight, size |-> size,
   lo |-> lo, hi |-> hi, options |-> options]

Whole(register, lo, hi) == Control("word", register, 1, WordValues, lo, hi, {})
\* A whole word that holds a battery voltage: the limits follow the voltage class.
Volts(register, lo, hi) == Control("volts", register, 1, WordValues, lo, hi, {})
Signed(register, lo, hi) == Control("signed", register, 1, WordValues, lo, hi, {})
Low(register, lo, hi) == Control("byte", register, 1, 256, lo, hi, {})
High(register, lo, hi) == Control("byte", register, 256, 256, lo, hi, {})
Switch(register, bit) == Control("switch", register, 2^bit, 2, 0, 1, {0, 1})
Choice(register, start, count, options) ==
  Control("choice", register, 2^start, 2^count, 0, 0, options)
\* A choice that replaces the whole word, whatever part of it is shown.
WholeChoice(register, shown, options) ==
  Control("whole_choice", register, 1, shown, 0, 0, options)
Clock(register) == Control("clock", register, 1, WordValues, 0, 0, {})
\* A press sets one bit, or replaces the word by a constant.
PressBit(register, bit) == Control("press_bit", register, 2^bit, 2, 1, 1, {1})
PressWord(register, value) ==
  Control("press_word", register, 1, WordValues, value, value, {value})
=============================================================================
