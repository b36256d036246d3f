--------------------------- MODULE TelemetryGroups ---------------------------
(***************************************************************************)
(* The semantic groups of the input registers (telemetry_groups.py), and   *)
(* the blocks of 40 that the hybrid client reads for one of them.          *)
(***************************************************************************)
EXTENDS Integers

(* What the inverter does now. *)
OperationalInputRegisters ==
    (0..5) \cup (7..27) \cup (38..39) \cup (81..84) \cup (120..123) \cup
    (127..132) \cup (180..210) \cup (217..222) \cup {77, 95, 98, 107, 114,
    139, 153, 170, 232}

(* Faults, warnings, temperatures, states of parts. *)
DiagnosticInputRegisters ==
    (60..67) \cup (85..94) \cup (99..105) \cup (176..178) \cup (214..216) \cup
    {6, 71, 113, 174}

(* Energies of the day and in total. *)
EnergyCounterInputRegisters ==
    (28..37) \cup (40..59) \cup (69..70) \cup (124..126) \cup (133..138) \cup
    (171..173) \cup (223..231) \cup {106}

(* What the device is. *)
MetadataInputRegisters ==
    (72..75) \cup (96..97) \cup (115..118) \cup {80}

(* input_register_group; a register in no set is unclassified.  That no    *)
(* register is in two sets, which the code checks when it is loaded, is an *)
(* assumption of the instances that TLC evaluates.                         *)
InputRegisterGroup(r) ==
    CASE r \in OperationalInputRegisters   -> "operational"
      [] r \in DiagnosticInputRegisters    -> "diagnostic"
      [] r \in EnergyCounterInputRegisters -> "energy_counter"
      [] r \in MetadataInputRegisters      -> "metadata"
      [] OTHER                             -> "unclassified"

TotalRegisters == 750
HardwareReadBlockSize == 40

(* A block is its first register and its count.                            *)
Least(a, b) == IF a <= b THEN a ELSE b
Block(start) == <<start, Least(HardwareReadBlockSize, TotalRegisters - start)>>
Addresses(b) == b[1]..(b[1] + b[2] - 1)

OperationalReadBlocks == {Block(40 * i) : i \in 0..5}
FullInputReadBlocks == {Block(40 * i) : i \in 0..18}
=============================================================================
