----------------------------- MODULE ReadProfiles -----------------------------
(***************************************************************************)
(* The read profiles (read_profiles.py): which registers a consumer needs, *)
(* the blocks that cover them, and the values that a profile makes of what *)
(* the session has received.                                               *)
(*                                                                         *)
(* A snapshot maps each received register to its latest observation: the   *)
(* word, when it came (at), in which frame (sequence, range) and whether   *)
(* that frame answered a request (source).                                 *)
(***************************************************************************)
EXTENDS TelemetryGroups, Sequences, FiniteSets, FiniteSetsExt

CONSTANT None                             \* Python's None

(* The registers the profiles name (constants/input_registers.py).         *)
I_STATE == 0        I_SOC_SOH == 5      I_PCHARGE == 10
I_PDISCHARGE == 11  I_PINV == 16        I_PREC == 17
I_PEPS == 24        I_PTOGRID == 26     I_PTOUSER == 27
I_ONGRID_LOAD_POWER == 114              I_PLOAD == 170
PvPowerRegisters == <<7, 8, 9, 220, 221, 222>>
OffGridStates == {64, 96, 128, 136, 192}

PlanAlignedInputBlocks(registers) ==
    {Block((r \div HardwareReadBlockSize) * HardwareReadBlockSize) : r \in registers}

-----------------------------------------------------------------------------
(* EnergyFlowReadProfile: the strings that are connected and the layout of *)
(* the load registers; only single-phase grids are accepted.               *)
EnergyFlow(strings, layout) == [strings |-> strings, layout |-> layout]
EnergyFlowProfiles ==
    {EnergyFlow(s, l) : s \in SUBSET (1..6) \ {{}},
                        l \in {"standard", "twelve_k_single_phase"}}

OnGridLoadRegister(p) ==
    IF p.layout = "twelve_k_single_phase" THEN I_ONGRID_LOAD_POWER ELSE I_PLOAD
PvRegisters(p) == {PvPowerRegisters[n] : n \in p.strings}

Fields(p) ==
    [inverter_state            |-> {I_STATE},
     battery_soc_percent       |-> {I_SOC_SOH},
     pv_power_w                |-> PvRegisters(p),
     battery_charge_power_w    |-> {I_PCHARGE},
     battery_discharge_power_w |-> {I_PDISCHARGE},
     battery_power_w           |-> {I_PCHARGE, I_PDISCHARGE},
     grid_import_power_w       |-> {I_PTOUSER},
     grid_export_power_w       |-> {I_PTOGRID},
     grid_power_w              |-> {I_PTOUSER, I_PTOGRID},
     on_grid_load_power_w      |-> {OnGridLoadRegister(p)},
     eps_load_power_w          |-> {I_PEPS},
     load_power_w              |-> {I_STATE, OnGridLoadRegister(p), I_PEPS}]
RequiredRegisters(p) == UNION {Fields(p)[f] : f \in DOMAIN Fields(p)}

(* DiagnosticReadProfile                                                   *)
DiagnosticRegisters == {0, 5, 7, 8, 9, 10, 11, 24, 26, 27, 114}

ReadBlocks(required) == PlanAlignedInputBlocks(required)
RequiredIn(required, b) == required \cap Addresses(b)

-----------------------------------------------------------------------------
(* _observed: a value made of the words of some registers, its quality and *)
(* the time of the oldest word.  A strict value needs them from one frame  *)
(* of exactly the block.                                                   *)
AnyWord(w) == TRUE
PowerWord(w) == w # 65535
SocWord(w) == w # 65535 /\ w % 256 \in 0..100

Frames(s, registers) == {<<s[r].sequence, s[r].at, s[r].source>> : r \in registers}
Together(s, registers) == Cardinality(Frames(s, registers)) = 1
WholeBlock(s, registers, b) == \A r \in registers : s[r].range = b
\* Mutant: words of one instant are taken for words of one frame, whose range
\* is that of any of them.
OneInstant(s, registers, b) ==
    Cardinality({s[r].at : r \in registers}) = 1 /\ \E r \in registers : s[r].range = b
OneResponse(s, registers, b) == Together(s, registers) /\ WholeBlock(s, registers, b)

Quality(s, registers, Valid(_), strict, b) ==
    CASE ~(registers \subseteq DOMAIN s)                       -> "missing"
      [] \E r \in registers : ~Valid(s[r].word)                -> "invalid"
      [] strict /\ ~OneResponse(s, registers, b)               -> "incoherent"
      [] OTHER                                                 -> "available"

Observed(s, registers, Valid(_), strict, b) ==
    [quality  |-> Quality(s, registers, Valid, strict, b),
     observed |-> IF registers \subseteq DOMAIN s
                  THEN Min({s[r].at : r \in registers}) ELSE None,
     registers |-> registers]

(* unavailable_if_stale                                                    *)
UnavailableIfStale(v, inspected, target) ==
    IF v.quality = "available" /\ inspected - v.observed > target
    THEN [v EXCEPT !.quality = "stale"] ELSE v

(* EnergyFlowSnapshot: its fields are not strict; the load is the one that *)
(* counts in the state of the inverter.                                    *)
SelectedLoad(p, s) ==
    IF I_STATE \in DOMAIN s /\ s[I_STATE].word \in OffGridStates
    THEN {I_STATE, I_PEPS} ELSE {I_STATE, OnGridLoadRegister(p)}
EnergyFlowSnapshot(p, s) ==
    LET fields == [Fields(p) EXCEPT !.load_power_w = SelectedLoad(p, s)] IN
    [f \in DOMAIN fields |-> Observed(s, fields[f], AnyWord, FALSE, Block(0))]

(* _direct_energy_snapshot: values of the whole block 0..39, which shares  *)
(* one identity of a response with all four of them or with none.          *)
DirectEnergy(s) ==
    [pinv_w    |-> Observed(s, {I_PINV}, PowerWord, TRUE, Block(0)),
     prec_w    |-> Observed(s, {I_PREC}, PowerWord, TRUE, Block(0)),
     grid_signed_power_w |->
                   Observed(s, {I_PTOGRID, I_PTOUSER}, PowerWord, TRUE, Block(0)),
     soc_percent |-> Observed(s, {I_SOC_SOH}, SocWord, TRUE, Block(0))]
DirectRegisters == {I_PINV, I_PREC, I_PTOGRID, I_PTOUSER, I_SOC_SOH}
CoherentResponse(s) ==
    LET fields == DirectEnergy(s) IN
    IF /\ \A f \in DOMAIN fields : fields[f].quality = "available"
       /\ Together(s, DirectRegisters)
    THEN s[I_PINV].sequence ELSE None

(* DiagnosticSnapshot: every register of its blocks, strictly.             *)
DiagnosticSnapshot(s) ==
    [r \in UNION {Addresses(b) : b \in ReadBlocks(DiagnosticRegisters)} |->
        Observed(s, {r}, AnyWord, TRUE,
                 Block((r \div HardwareReadBlockSize) * HardwareReadBlockSize))]
=============================================================================
