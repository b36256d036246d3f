---------------------------- MODULE SensorTables ----------------------------
(***************************************************************************)
(* The sensors of the integration, from its tables of descriptions: where  *)
(* each one reads, and how its state follows from what it reads.  The      *)
(* table gives the dependencies it declares for calculated sensors, which  *)
(* are the registers their functions read.  Scales, units, option texts    *)
(* and bit fields inside one word have no part in when a state changes.    *)
(***************************************************************************)
EXTENDS Integers

Sensor(kind, source, reads, lows) ==
  [kind |-> kind, source |-> source, reads |-> reads, lows |-> lows]

\* One register each.
Plain(source, registers) == {Sensor("plain", source, {r}, {}) : r \in registers}
\* Several registers at once.
Calculated(source, depends_on) == Sensor("calculated", source, depends_on, {})
\* A counter of 32 bits: its low word and the word behind it.
Total(lows) == Sensor("total", "input", lows \cup {l + 1 : l \in lows}, lows)
\* Sums over the photovoltaic strings that the inverter says it has.
OfStrings(depends_on) == Sensor("strings", "input", depends_on, {})
TotalOfStrings(lows) ==
  Sensor("total_of_strings", "input", lows \cup {l + 1 : l \in lows}, lows)

Flows ==
  {Calculated("input", {0, 24, 170}),
   Calculated("input", {7, 8, 9, 11, 27, 186, 187, 203, 204, 220, 221,
       222}),
   Calculated("input", {10, 11}),
   Calculated("input", {26, 27})}

States ==
  Plain("input", {0, 77})

CoreStatusA ==
  Plain("input", {1, 2, 3, 7, 8, 9})
  \cup {Calculated("input", {1, 7}),
        Calculated("input", {2, 8})}

CoreStatusB ==
  Plain("input", {217, 218, 219, 220, 221})
  \cup {Calculated("input", {3, 9}),
        Calculated("input", {217, 220}),
        Calculated("input", {218, 221})}

CoreStatusC ==
  Plain("input", {222})
  \cup {Calculated("input", {219, 222}),
        OfStrings({7, 8, 9, 220, 221, 222})}

BatteryInformation ==
  Plain("input", {4, 5, 10, 11, 67})
  \cup Plain("hold", {235, 244})

GridInformationA ==
  Plain("input", {12, 13, 14, 15, 16, 193, 194, 197, 198})

GridInformationB ==
  Plain("input", {17, 18, 19, 139, 153, 199, 200, 206, 207})

GridInformationC ==
  Plain("input", {26, 27, 114, 170, 201, 202, 203, 204, 232})

EpsInformationA ==
  Plain("input", {20, 21, 22, 23, 24, 127, 128, 129, 130})

EpsInformationB ==
  Plain("input", {25, 131, 132})

DailyEnergyA ==
  Plain("input", {28, 29, 30, 31, 32, 223, 226, 229})
  \cup {OfStrings({28, 29, 30, 223, 226, 229})}

DailyEnergyB ==
  Plain("input", {33, 34, 35, 36, 37, 124, 133, 134, 171})

SystemAndGeneratorA ==
  Plain("input", {64, 65, 66, 121, 195, 196, 214, 215, 216})

SystemAndGeneratorB ==
  Plain("input", {122, 123, 210})

BusVoltages ==
  Plain("input", {38, 39, 120})

BmsInformationA ==
  Plain("input", {81, 82, 83, 84, 96, 97, 98, 99, 100})

BmsInformationB ==
  Plain("input", {85, 86, 87, 88, 101, 102, 103, 104, 106})
  \cup {Calculated("input", {101, 102})}

BmsInformationC ==
  Plain("input", {89, 90, 91, 92, 93, 94, 95, 107})

FaultsAndWarnings ==
  Plain("input", {6})
  \cup {Calculated("input", {60, 61}),
        Calculated("input", {62, 63})}

ParallelStatus ==
  Plain("input", {113})

LifetimeTotalsA ==
  {Total({l}) : l \in {40, 42, 44, 69, 224, 227, 230}}
  \cup {TotalOfStrings({40, 42, 44, 224, 227, 230})}

LifetimeTotalsB ==
  {Total({l}) : l \in {46, 48, 50, 52, 54, 56, 58, 135, 137}}

LifetimeTotalsC ==
  Plain("input", {180, 181, 182, 183, 184, 185, 186})
  \cup {Total({l}) : l \in {125, 172}}

LifetimeTotalsD ==
  Plain("input", {187, 188, 189, 190, 191, 192, 205, 208, 209})

LifetimeTotalsE ==
  Plain("input", {71, 80, 105, 174, 176, 177, 178})

BatterySensorsA ==
  Plain("battery", {3, 5, 6, 8, 9, 10, 11, 12, 13})

BatterySensorsB ==
  Plain("battery", {14, 15, 16, 17, 18})
  \cup {Calculated("battery", {14, 15})}

BinarySensors ==
  Plain("input", {95})
  \cup {Calculated("input", {15})}

Sensors ==
  UNION {Flows, States, CoreStatusA, CoreStatusB, CoreStatusC,
         BatteryInformation, GridInformationA, GridInformationB,
         GridInformationC, EpsInformationA, EpsInformationB, DailyEnergyA,
         DailyEnergyB, SystemAndGeneratorA, SystemAndGeneratorB,
         BusVoltages, BmsInformationA, BmsInformationB, BmsInformationC,
         FaultsAndWarnings, ParallelStatus, LifetimeTotalsA,
         LifetimeTotalsB, LifetimeTotalsC, LifetimeTotalsD,
         LifetimeTotalsE, BatterySensorsA, BatterySensorsB, BinarySensors}
=============================================================================
