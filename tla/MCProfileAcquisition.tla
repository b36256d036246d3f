------------------------- MODULE MCProfileAcquisition -------------------------
(* Instances of ProfileAcquisition for TLC, and what is checked of the     *)
(* tables of ReadProfiles and TelemetryGroups.                             *)
EXTENDS ProfileAcquisition

(* The registers of the qualified plan, and ranges that are pushed: block  *)
(* 0 whole, as much of it as the profile needs, the part that ends between*)
(* the two words of the grid pair, 26 and 27, and the other block.         *)
Qualified == DiagnosticRegisters
Unasked == {<<0, 40>>, <<0, 27>>, <<0, 28>>, <<80, 40>>}

(* The loader's check of the groups, and _validate_operational_blocks.     *)
ASSUME GroupsDisjoint ==
    LET groups == {OperationalInputRegisters, DiagnosticInputRegisters,
                   EnergyCounterInputRegisters, MetadataInputRegisters}
    IN \A g, h \in groups : g # h => g \cap h = {}
ASSUME OperationalCovered ==
    OperationalInputRegisters \subseteq UNION {Addresses(b) : b \in OperationalReadBlocks}
ASSUME FullCovered ==
    UNION {Addresses(b) : b \in FullInputReadBlocks} = 0..(TotalRegisters - 1)

(* The diagnostic profile asks for what the profile of the 12K with three  *)
(* strings asks for, as its comment says.                                  *)
ASSUME SameDemand ==
    DiagnosticRegisters = RequiredRegisters(EnergyFlow({1, 2, 3}, "twelve_k_single_phase"))

(* Every profile's plan covers it, in blocks that all serve it and that no *)
(* smaller number of aligned blocks replaces; what it requires is telemetry*)
(* of the operation, so the operational blocks keep it fresh too.          *)
ASSUME PlansAreMinimal ==
    \A r \in {RequiredRegisters(p) : p \in EnergyFlowProfiles} :
        /\ r \subseteq OperationalInputRegisters
        /\ ReadBlocks(r) = {b \in FullInputReadBlocks : RequiredIn(r, b) # {}}
        /\ r = UNION {RequiredIn(r, b) : b \in ReadBlocks(r)}

(* A diagnostic value of the sentinel, a state of charge above 100.        *)
ASSUME Validators ==
    LET words(w) == [r \in DirectRegisters |->
                      [word |-> w, at |-> 0, sequence |-> 1, range |-> Block(0),
                       source |-> "explicit"]]
    IN /\ DirectEnergy(words(65535)).pinv_w.quality = "invalid"
       /\ \A w \in {0, 100, 256 * 99 + 100} :
             DirectEnergy(words(w)).soc_percent.quality = "available"
       /\ \A w \in {101, 255, 65535} :
             DirectEnergy(words(w)).soc_percent.quality = "invalid"
       /\ CoherentResponse(words(7)) = 1 /\ CoherentResponse(words(65535)) = None
=============================================================================
