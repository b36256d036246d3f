--------------------------- MODULE ControlTables ---------------------------
(***************************************************************************)
(* The controls of the integration, from its tables of descriptions: for   *)
(* each one the register, the part of the word it owns and the range of    *)
(* raw values.  Names are comments; icons, units, steps and groups have no *)
(* part in what is written.                                                *)
(***************************************************************************)
EXTENDS RegisterWords

SystemAndGridA == {
  Whole(15, 0, 150),    \* Modbus Address
  Whole(23, 30, 600),   \* Grid Connect Time
  Whole(24, 0, 900),    \* Grid Reconnect Time
  Whole(25, 0, 65535),  \* Grid Voltage Low Limit
  Whole(26, 0, 65535)   \* Grid Voltage High Limit
}

SystemAndGridB == {
  Whole(27, 0, 65535),         \* Grid Frequency Low Limit
  Whole(28, 0, 65535),         \* Grid Frequency High Limit
  Whole(176, 0, 655350),       \* Max Grid Input Power
  Whole(116, 0, 65535),        \* Start Discharge P_import
  Signed(119, -32768, 32767)   \* External CT Power Offset
}

PowerControl == {
  Whole(60, 0, 100),   \* Active Power Percent
  Whole(63, 1, 4000),  \* Power Soft Start Slope
  Whole(103, 0, 100)   \* Max Backflow Power
}

ChargingA == {
  Whole(101, 0, 500),    \* Charge Current
  Whole(102, 0, 500),    \* Discharge Current
  Whole(66, 0, 100),     \* AC Charge Power
  Whole(67, 0, 100),     \* AC Charge SOC Limit
  Volts(158, 385, 520),  \* AC Charge Start Voltage
  Volts(159, 480, 590),  \* AC Charge End Voltage
  Whole(160, 0, 90)      \* AC Charge Start SOC
}

ChargingB == {
  Whole(161, 0, 100),    \* AC Charge End SOC
  Whole(168, 0, 140),    \* AC Charge Current from Grid
  Whole(105, 10, 100),   \* On-Grid Cut-Off SOC
  Volts(169, 400, 560),  \* On-Grid Cut-Off Voltage
  Whole(227, 10, 101),   \* Battery Stop Charging SOC
  Volts(228, 400, 595),  \* Battery Stop Charging Voltage
  Whole(234, 0, 65535)   \* Quick Charge Time
}

Eps == {
  Whole(125, 0, 100)   \* Off-Grid Cut-Off SOC
}

LeadAcidA == {
  Whole(147, 0, 10000),  \* Unmatched Battery Capacity
  Volts(148, 400, 590),  \* Unmatched Battery Nominal Voltage
  Volts(144, 500, 560),  \* Float Charge Voltage
  Whole(150, 0, 365),    \* Equalization Interval
  Whole(151, 0, 24)      \* Equalization Time
}

LeadAcidB == {
  Volts(162, 400, 500),  \* Battery Low Voltage Alarm
  Volts(163, 420, 520),  \* Battery Low Voltage Recovery
  Whole(164, 0, 90),     \* Battery Low SOC Alarm
  Whole(165, 0, 100),    \* Battery Low SOC Recovery
  High(235, 0, 255)      \* Battery Calibration Period
}

GeneratorLimits == {
  Whole(177, 0, 65535),  \* Generator Rated Power
  Volts(194, 384, 520),  \* Generator Charge Start Voltage
  Volts(195, 480, 590),  \* Generator Charge End Voltage
  Whole(196, 0, 90),     \* Generator Charge Start SOC
  Whole(197, 20, 100),   \* Generator Charge End SOC
  Whole(198, 0, 4000)    \* Max Generator Charge Current
}

PeakShavingLimits == {
  Whole(206, 0, 255),  \* Grid Peak Shaving Power
  Whole(207, 0, 100)   \* Grid Peak Shaving SOC
}

LcdPassword == {
  Whole(225, 0, 65535)   \* LCD Password
}

BatteryChange == {
  Whole(253, 0, 100),    \* Battery SOC Hysteresis
  Whole(254, 20, 100),   \* Battery Voltage Hysteresis
  Whole(260, 550, 595),  \* BUS Overvoltage Alarm Point
  Low(261, 5, 100),      \* Discharge Recovery SOC Threshold
  High(261, 10, 200),    \* Discharge Recovery Volt Threshold
  Whole(248, 0, 6000),   \* WattNode CT1 Amps
  Whole(249, 0, 6000),   \* WattNode CT2 Amps
  Whole(250, 0, 6000),   \* WattNode CT3 Amps
  Whole(252, 5, 80)      \* NEC 120% Bus Bar Limit
}

LowBattery == {
  Whole(242, 0, 65535),  \* NPE Threshold
  Whole(245, 0, 65535)   \* Flash Size
}

PowerRates == {
  Whole(64, 0, 100),    \* Charge Power Rate (Legacy)
  Whole(65, 0, 100),    \* Discharge Power Rate (Legacy)
  Whole(138, 0, 1000),  \* System Charge Power Rate
  Whole(139, 0, 1000),  \* System Discharge Power Rate
  Whole(140, 0, 1000),  \* AC Charge Power Rate (Precise)
  Whole(141, 0, 1000),  \* Charge First Power Rate (Precise)
  Whole(142, 0, 1000),  \* Forced Discharge Power Rate (Precise)
  Whole(143, 0, 1000)   \* Active Power Percent (Precise)
}

ReactivePower == {
  Whole(61, 0, 60),      \* Reactive Power Percent
  Whole(62, 800, 1000),  \* Power Factor Command
  Whole(74, 0, 100),     \* Charge First Power
  Low(75, 0, 101),       \* Charge First SOC Limit
  Volts(201, 480, 595),  \* Charge First End Voltage
  Whole(82, 0, 100),     \* Forced Discharge Power
  High(83, 0, 100),      \* Forced Discharge SOC Limit
  Volts(202, 400, 560)   \* Forced Discharge End Voltage
}

GridVoltageLevel1 == {
  Whole(29, 0, 65535),  \* Grid Voltage L1 Low
  Whole(30, 0, 65535),  \* Grid Voltage L1 High
  Whole(31, 0, 65535),  \* Grid Voltage L1 Low Time
  Whole(32, 0, 65535)   \* Grid Voltage L1 High Time
}

GridVoltageLevel2 == {
  Whole(33, 0, 65535),  \* Grid Voltage L2 Low
  Whole(34, 0, 65535),  \* Grid Voltage L2 High
  Whole(35, 0, 65535),  \* Grid Voltage L2 Low Time
  Whole(36, 0, 65535)   \* Grid Voltage L2 High Time
}

GridVoltageLevel3 == {
  Whole(37, 0, 65535),  \* Grid Voltage L3 Low
  Whole(38, 0, 65535),  \* Grid Voltage L3 High
  Whole(39, 0, 65535),  \* Grid Voltage L3 Low Time
  Whole(40, 0, 65535)   \* Grid Voltage L3 High Time
}

GridVoltageAverage == {
  Whole(41, 0, 65535)   \* Grid Voltage Moving Average High
}

GridFrequencyLevel1 == {
  Whole(42, 0, 65535),  \* Grid Frequency L1 Low
  Whole(43, 0, 65535),  \* Grid Frequency L1 High
  Whole(44, 0, 65535),  \* Grid Frequency L1 Low Time
  Whole(45, 0, 65535)   \* Grid Frequency L1 High Time
}

GridFrequencyLevel2 == {
  Whole(46, 0, 65535),  \* Grid Frequency L2 Low
  Whole(47, 0, 65535),  \* Grid Frequency L2 High
  Whole(48, 0, 65535),  \* Grid Frequency L2 Low Time
  Whole(49, 0, 65535)   \* Grid Frequency L2 High Time
}

FrequencyAndCurvesA == {
  Whole(50, 0, 65535),     \* Grid Frequency L3 Low
  Whole(51, 0, 65535),     \* Grid Frequency L3 High
  Whole(52, 0, 65535),     \* Grid Frequency L3 Low Time
  Whole(53, 0, 65535),     \* Grid Frequency L3 High Time
  Whole(115, 5000, 5200),  \* Over-Frequency Derate Start
  Whole(124, 5000, 5200),  \* Over-Frequency Derate End
  Whole(97, 0, 1000),      \* Over-Frequency Derate Delay
  Whole(136, 1, 100),      \* Over-Frequency Derate Ratio
  Whole(134, 4500, 5000)   \* Under-Frequency Derate Start
}

FrequencyAndCurvesB == {
  Whole(135, 4500, 5000),  \* Under-Frequency Derate End
  Whole(193, 1, 100),      \* Under-Frequency Increase Ratio
  Whole(54, 0, 100),       \* Max Q Percent for QV
  Whole(55, 0, 65535),     \* QV Curve V2 Low
  Whole(56, 0, 65535),     \* QV Curve V1 Low
  Whole(57, 0, 65535),     \* QV Curve V1 High
  Whole(58, 0, 65535),     \* QV Curve V2 High
  Whole(92, 2300, 3000),   \* PF Curve Lock-In Voltage
  Whole(93, 1500, 3000)    \* PF Curve Lock-Out Voltage
}

FrequencyAndCurvesC == {
  Whole(94, 0, 100),       \* QV Lock-In Power
  Whole(95, 0, 100),       \* QV Lock-Out Power
  Whole(96, 0, 2000),      \* QV Delay Time
  Whole(181, 0, 65535),    \* VoltWatt V1
  Whole(182, 0, 65535),    \* VoltWatt V2
  Whole(183, 500, 60000),  \* VoltWatt Delay Time
  Whole(184, 0, 100),      \* VoltWatt P2
  Whole(185, 0, 65535),    \* Vref for QV
  Whole(186, 0, 65535)     \* Vref Filter Time
}

FrequencyAndCurvesD == {
  Whole(187, 0, 100),    \* Q3 for QV Curve
  Whole(188, 0, 100),    \* Q4 for QV Curve
  Whole(189, 0, 100),    \* P1 for QP Curve
  Whole(190, 0, 100),    \* P2 for QP Curve
  Whole(191, 0, 100),    \* P3 for QP Curve
  Whole(192, 0, 100),    \* P4 for QP Curve
  Volts(99, 500, 590),   \* Lead-Acid Charge Voltage
  Volts(100, 400, 520)   \* Lead-Acid Discharge Cut-Off Voltage
}

FrequencyAndCurvesE == {
  Signed(106, -400, 1000),  \* Lead-Acid Discharge Temp Low Limit
  Whole(107, -400, 1000),   \* Lead-Acid Discharge Temp High Limit
  Whole(108, -400, 1000),   \* Lead-Acid Charge Temp Low Limit
  Whole(109, -400, 1000),   \* Lead-Acid Charge Temp High Limit
  Volts(118, 400, 560),     \* Battery Derating Start Voltage
  Whole(204, 50, 5000),     \* Lead-Acid Capacity
  Whole(236, 1, 255),       \* Float Charge Current Threshold
  Volts(166, 444, 514),     \* Battery Transfer to Grid Voltage
  Whole(167, 0, 100)        \* Battery Transfer to Grid SOC
}

SocCalibration == {
  Volts(171, 400, 600),  \* SOC Calibration Voltage 1
  Volts(172, 400, 600),  \* SOC Calibration Voltage 2
  Whole(173, 0, 100),    \* SOC Calibration SOC 1
  Whole(174, 0, 100),    \* SOC Calibration SOC 2
  Whole(175, 0, 100)     \* Battery Inner Resistance
}

CellConfigurationA == {
  Low(132, 0, 255),      \* Battery Cell Voltage Low Limit
  High(132, 0, 255),     \* Battery Cell Voltage High Limit
  Low(133, 0, 255),      \* Battery Cells in Series
  High(133, 0, 255),     \* Battery Cells in Parallel
  Volts(213, 480, 590),  \* Smart Load On Voltage
  Volts(214, 400, 520),  \* Smart Load Off Voltage
  Whole(215, 0, 100),    \* Smart Load On SOC
  Whole(216, 0, 100)     \* Smart Load Off SOC
}

CellConfigurationB == {
  Whole(220, 0, 100),    \* AC Couple Start SOC
  Whole(221, 0, 255),    \* AC Couple End SOC
  Volts(222, 400, 595),  \* AC Couple Start Voltage
  Volts(223, 420, 800),  \* AC Couple End Voltage
  Volts(208, 480, 590),  \* Grid Peak Shaving Voltage
  Whole(218, 0, 100),    \* Grid Peak Shaving SOC Period 1
  Volts(219, 480, 590),  \* Grid Peak Shaving Voltage Period 1
  Whole(232, 0, 255)     \* Grid Peak Shaving Power Period 1
}

CellConfigurationC == {
  Signed(117, -32768, 32767),  \* Start Charge P_import Threshold
  Whole(137, 0, 65535),        \* Specific Load Compensate
  Whole(22, 900, 5000),        \* Start PV Voltage
  Whole(217, 0, 120),          \* Start PV Power
  Whole(180, 0, 65535),        \* AFCI Arc Threshold
  Whole(237, 0, 255),          \* Generator Cool Down Time
  Whole(199, 600, 900),        \* Over-Temperature Derate Point
  Volts(149, 500, 590)         \* Equalization Voltage
}

(***************************************************************************)
(* The seven day schedules.  A day of a schedule takes eight registers,    *)
(* two periods of four: power and state of charge share the first word,    *)
(* the voltage limit has the second, start and end the other two.          *)
(***************************************************************************)
DayLimits(first) ==
  UNION {{Low(r, 0, 255), High(r, 0, 100), Volts(r + 1, 400, 590)} : r \in {first, first + 4}}

MondayAcCharge == DayLimits(500)
TuesdayAcCharge == DayLimits(508)
WednesdayAcCharge == DayLimits(516)
ThursdayAcCharge == DayLimits(524)
FridayAcCharge == DayLimits(532)
SaturdayAcCharge == DayLimits(540)
SundayAcCharge == DayLimits(548)
MondayForcedCharge == DayLimits(556)
TuesdayForcedCharge == DayLimits(564)
WednesdayForcedCharge == DayLimits(572)
ThursdayForcedCharge == DayLimits(580)
FridayForcedCharge == DayLimits(588)
SaturdayForcedCharge == DayLimits(596)
SundayForcedCharge == DayLimits(604)
MondayForcedDischarge == DayLimits(612)
TuesdayForcedDischarge == DayLimits(620)
WednesdayForcedDischarge == DayLimits(628)
ThursdayForcedDischarge == DayLimits(636)
FridayForcedDischarge == DayLimits(644)
SaturdayForcedDischarge == DayLimits(652)
SundayForcedDischarge == DayLimits(660)
MondayPeakShaving == DayLimits(668)
TuesdayPeakShaving == DayLimits(676)
WednesdayPeakShaving == DayLimits(684)
ThursdayPeakShaving == DayLimits(692)
FridayPeakShaving == DayLimits(700)
SaturdayPeakShaving == DayLimits(708)
SundayPeakShaving == DayLimits(716)

(* Times of day outside the schedules: charging, AC first, peak shaving, forced. *)
TimesA == {Clock(r) : r \in {68, 69, 70, 71, 72, 73, 152, 153, 154, 155, 209, 210}}
TimesB == {Clock(r) : r \in {211, 212, 256, 257, 258, 259, 84, 85, 86, 87, 88, 89}}
ChargeFirstTimes == {Clock(r) : r \in {76, 77, 78, 79, 80, 81}}
AcFirstTimes2 == {Clock(r) : r \in {156, 157}}

DayTimes(first, days) ==
  {Clock(first + 8 * day + k) : day \in 0 .. days - 1, k \in {2, 3, 6, 7}}

AcChargeTimesMonToWed == DayTimes(500, 3)
AcChargeTimesThuToSat == DayTimes(524, 3)
AcChargeTimesSun == DayTimes(548, 1)
ForcedChargeTimesMonToWed == DayTimes(556, 3)
ForcedChargeTimesThuToSat == DayTimes(580, 3)
ForcedChargeTimesSun == DayTimes(604, 1)
ForcedDischargeTimesMonToWed == DayTimes(612, 3)
ForcedDischargeTimesThuToSat == DayTimes(636, 3)
ForcedDischargeTimesSun == DayTimes(660, 1)
PeakShavingTimesMonToWed == DayTimes(668, 3)
PeakShavingTimesThuToSat == DayTimes(692, 3)
PeakShavingTimesSun == DayTimes(716, 1)

SwitchesA == {
  Switch(21, 0),   \* Power Backup
  Switch(21, 1),   \* Over-Frequency Load Reduction
  Switch(21, 2),   \* DRMS
  Switch(21, 7),   \* AC Charging
  Switch(21, 8),   \* Seamless EPS Switching
  Switch(21, 10),  \* Forced Discharge
  Switch(21, 11),  \* Charge First (PV)
  Switch(21, 15),  \* Grid Export
  Switch(110, 1)   \* Fast Zero Export
}

SwitchesB == {
  Switch(110, 2),   \* Micro-Grid
  Switch(110, 4),   \* Charge Last
  Switch(110, 7),   \* Buzzer
  Switch(110, 10),  \* Take Load Together
  Switch(110, 14),  \* Green Mode
  Switch(110, 15),  \* Eco Mode
  Switch(120, 0),   \* Half Hour AC Charge Start
  Switch(179, 4),   \* Volt-Watt Function
  Switch(179, 7),   \* Grid Peak Shaving
  Switch(179, 11)   \* AC Coupling
}

SwitchesC == {
  Switch(179, 12),  \* PV Arc Detection
  Switch(179, 15),  \* On-Grid Always On
  Switch(233, 0),   \* Quick Charge Start
  Switch(233, 1),   \* Battery Backup
  Switch(233, 2),   \* Battery Maintenance
  Switch(233, 3),   \* 7-Day Schedule Enable
  Switch(251, 0),   \* WattNode CT1 Direction
  Switch(251, 1),   \* WattNode CT2 Direction
  Switch(251, 2)    \* WattNode CT3 Direction
}

SelectsA == {
  Choice(120, 1, 3, 0 .. 5),        \* AC Charge Type
  Choice(120, 4, 2, 0 .. 2),        \* Discharge Control Type
  Choice(120, 6, 1, 0 .. 1),        \* On-Grid EOD Type
  Choice(120, 7, 1, 0 .. 1),        \* Generator Charge Type
  WholeChoice(112, 65536, 0 .. 4),  \* System Type
  WholeChoice(16, 65536, 0 .. 1)    \* Language
}

SelectsB == {
  WholeChoice(20, 65536, 0 .. 7),   \* PV Input Model
  WholeChoice(59, 65536, 0 .. 7),   \* Reactive Power Command Type
  WholeChoice(145, 65536, 0 .. 2),  \* Output Priority Config
  WholeChoice(146, 65536, 0 .. 2),  \* Line Mode
  WholeChoice(205, 65536, 0 .. 8)   \* Grid Type
}

SelectsC == {
  Choice(21, 9, 1, 0 .. 1),                           \* Working Mode
  Choice(179, 13, 1, 0 .. 1),                         \* Smart Load Enable
  Choice(224, 8, 1, 0 .. 1),                          \* LCD Screen Type
  WholeChoice(90, 65536, {208, 220, 230, 240, 277}),  \* EPS Voltage Set
  WholeChoice(91, 65536, {50, 60}),                   \* EPS Frequency Set
  WholeChoice(113, 256, 1 .. 3)                       \* Off-grid Composed Phase
}

Buttons == {
  PressBit(11, 7),    \* Reboot Inverter
  PressWord(113, 0),  \* Clear Detected Phases
  PressWord(114, 1),  \* Clear Parallel Alarm
  PressBit(231, 0)    \* Reset G100 Lockout
}

Numbers ==
  UNION {SystemAndGridA, SystemAndGridB, PowerControl, ChargingA,
         ChargingB, Eps, LeadAcidA, LeadAcidB, GeneratorLimits,
         PeakShavingLimits, LcdPassword, BatteryChange, LowBattery,
         PowerRates, ReactivePower, GridVoltageLevel1, GridVoltageLevel2,
         GridVoltageLevel3, GridVoltageAverage, GridFrequencyLevel1,
         GridFrequencyLevel2, FrequencyAndCurvesA, FrequencyAndCurvesB,
         FrequencyAndCurvesC, FrequencyAndCurvesD, FrequencyAndCurvesE,
         SocCalibration, CellConfigurationA, CellConfigurationB,
         CellConfigurationC, MondayAcCharge, TuesdayAcCharge,
         WednesdayAcCharge, ThursdayAcCharge, FridayAcCharge,
         SaturdayAcCharge, SundayAcCharge, MondayForcedCharge,
         TuesdayForcedCharge, WednesdayForcedCharge, ThursdayForcedCharge,
         FridayForcedCharge, SaturdayForcedCharge, SundayForcedCharge,
         MondayForcedDischarge, TuesdayForcedDischarge,
         WednesdayForcedDischarge, ThursdayForcedDischarge,
         FridayForcedDischarge, SaturdayForcedDischarge,
         SundayForcedDischarge, MondayPeakShaving, TuesdayPeakShaving,
         WednesdayPeakShaving, ThursdayPeakShaving, FridayPeakShaving,
         SaturdayPeakShaving, SundayPeakShaving}

TimesOfDay ==
  UNION {TimesA, TimesB, AcChargeTimesMonToWed, AcChargeTimesThuToSat,
         AcChargeTimesSun, ForcedChargeTimesMonToWed,
         ForcedChargeTimesThuToSat, ForcedChargeTimesSun,
         ForcedDischargeTimesMonToWed, ForcedDischargeTimesThuToSat,
         ForcedDischargeTimesSun, PeakShavingTimesMonToWed,
         PeakShavingTimesThuToSat, PeakShavingTimesSun, ChargeFirstTimes,
         AcFirstTimes2}

Switches ==
  UNION {SwitchesA, SwitchesB, SwitchesC}

Selects ==
  UNION {SelectsA, SelectsB, SelectsC}

Catalogue == Numbers \cup TimesOfDay \cup Switches \cup Selects \cup Buttons
=============================================================================
