---------------------------- MODULE SafetyPolicy ----------------------------
(***************************************************************************)
(* The rules that decide whether the vehicle may be started, cranked, left *)
(* running or handed to the driver (src/application/safety_policy.cpp).    *)
(*                                                                         *)
(* A snapshot v of the vehicle holds the last value of each signal and the *)
(* set v.fresh of the signals whose quality is Fresh: the code tells Stale *)
(* and Unavailable apart nowhere.  An assessment is the set of reasons to  *)
(* refuse; it is approved when empty.                                      *)
(***************************************************************************)
EXTENDS Integers

Signals == {"batteryMillivolts", "engineRpm", "hoodClosed", "doorsClosed",
            "trunkClosed", "brakePressed", "parkingBrakeApplied",
            "transmission", "gear", "criticalFaultPresent"}

Transmissions == {"Unknown", "Automatic", "Manual"}

Gears == {"Unknown", "Park", "Neutral", "Reverse", "Drive"}

VehicleState == [fresh                : SUBSET Signals,
                 batteryMillivolts    : Nat,
                 engineRpm            : Nat,
                 hoodClosed           : BOOLEAN,
                 doorsClosed          : BOOLEAN,
                 trunkClosed          : BOOLEAN,
                 brakePressed         : BOOLEAN,
                 parkingBrakeApplied  : BOOLEAN,
                 transmission         : Transmissions,
                 gear                 : Gears,
                 criticalFaultPresent : BOOLEAN]

SafetyPolicyConfig == [minimumBatteryMillivolts : Nat,
                       runningRpmThreshold      : Nat,
                       requireVehicleSecured    : BOOLEAN,
                       requireHoodClosed        : BOOLEAN,
                       allowManualTransmission  : BOOLEAN]

-----------------------------------------------------------------------------

\* Mutant: a signal that is not fresh is simply not checked.
RequireNothing(v, signals) == {}

RequireFresh(v, signals) ==
    IF signals \subseteq v.fresh THEN {} ELSE {"SignalUnavailable"}

\* A reason applies only to a signal that is fresh.
Reason(v, reason, signals, unsafe) ==
    IF signals \subseteq v.fresh /\ unsafe THEN {reason} ELSE {}

TransmissionIsSafe(c, v) ==
    \/ v.transmission = "Automatic" /\ v.gear = "Park"
    \/ v.transmission = "Manual" /\ c.allowManualTransmission /\ v.gear = "Neutral"

AssessCommon(c, v, requireDoorsClosed, requireTrunkClosed, prohibitBrake) ==
    RequireFresh(v, {"batteryMillivolts", "parkingBrakeApplied", "transmission",
                     "gear", "criticalFaultPresent"})
    \cup Reason(v, "BatteryTooLow", {"batteryMillivolts"},
                v.batteryMillivolts < c.minimumBatteryMillivolts)
    \cup Reason(v, "ParkingBrakeReleased", {"parkingBrakeApplied"},
                ~v.parkingBrakeApplied)
    \cup Reason(v, "CriticalVehicleFault", {"criticalFaultPresent"},
                v.criticalFaultPresent)
    \cup Reason(v, "TransmissionUnsafe", {"transmission", "gear"},
                ~TransmissionIsSafe(c, v))
    \cup (IF prohibitBrake
          THEN RequireFresh(v, {"brakePressed"})
               \cup Reason(v, "BrakePressed", {"brakePressed"}, v.brakePressed)
          ELSE {})
    \cup (IF c.requireHoodClosed
          THEN RequireFresh(v, {"hoodClosed"})
               \cup Reason(v, "HoodOpen", {"hoodClosed"}, ~v.hoodClosed)
          ELSE {})
    \cup (IF requireDoorsClosed
          THEN RequireFresh(v, {"doorsClosed"})
               \cup Reason(v, "DoorOpen", {"doorsClosed"}, ~v.doorsClosed)
          ELSE {})
    \cup (IF requireTrunkClosed
          THEN RequireFresh(v, {"trunkClosed"})
               \cup Reason(v, "TrunkOpen", {"trunkClosed"}, ~v.trunkClosed)
          ELSE {})

\* Mutant: the trunk is checked whatever the configuration says.
AssessStartTrunkAlways(c, v) ==
    AssessCommon(c, v, c.requireVehicleSecured, TRUE, TRUE)
    \cup RequireFresh(v, {"engineRpm"})
    \cup Reason(v, "EngineAlreadyRunning", {"engineRpm"},
                v.engineRpm >= c.runningRpmThreshold)

AssessStart(c, v) ==
    AssessCommon(c, v, c.requireVehicleSecured, c.requireVehicleSecured, TRUE)
    \cup RequireFresh(v, {"engineRpm"})
    \cup Reason(v, "EngineAlreadyRunning", {"engineRpm"},
                v.engineRpm >= c.runningRpmThreshold)

\* Mutant: the brake is tolerated while cranking.
AssessCrankingWithBrake(c, v) ==
    AssessCommon(c, v, c.requireVehicleSecured, c.requireVehicleSecured, FALSE)
    \cup RequireFresh(v, {"engineRpm"})

AssessCranking(c, v) ==
    AssessCommon(c, v, c.requireVehicleSecured, c.requireVehicleSecured, TRUE)
    \cup RequireFresh(v, {"engineRpm"})

AssessRemoteRun(c, v) ==
    AssessCommon(c, v, c.requireVehicleSecured, c.requireVehicleSecured, TRUE)
    \cup RequireFresh(v, {"engineRpm"})
    \cup Reason(v, "EngineNotRunning", {"engineRpm"},
                v.engineRpm < c.runningRpmThreshold)

\* Mutant: the doors must be closed for the driver to take over.
AssessTakeoverSecured(c, v) ==
    AssessCommon(c, v, c.requireVehicleSecured, c.requireVehicleSecured, FALSE)
    \cup RequireFresh(v, {"engineRpm"})
    \cup Reason(v, "EngineNotRunning", {"engineRpm"},
                v.engineRpm < c.runningRpmThreshold)

AssessDriverTakeover(c, v) ==
    AssessCommon(c, v, FALSE, c.requireVehicleSecured, FALSE)
    \cup RequireFresh(v, {"engineRpm"})
    \cup Reason(v, "EngineNotRunning", {"engineRpm"},
                v.engineRpm < c.runningRpmThreshold)

Approved(assessment) == assessment = {}
=============================================================================
