-------------------------------- MODULE UserSettings --------------------------------
(* From the settings of the user and the profile of the vehicle to the         *)
(* configurations of the controller, of the lock gesture and of the telemetry: *)
(* validateUserSettings(), makeUserConfiguration(), resolveFeature() and       *)
(* assessRemoteStartReadiness(), with the checks the consumers make of their   *)
(* own configuration.  Values are the numbers of the code; requested features  *)
(* are a set, a feature number outside the catalogue being a stray bit.        *)
EXTENDS SafetyPolicy

Features == {"cold_engine", "dpf", "transmission"}

DefaultSettings ==
    [remoteStartEnabled |-> TRUE, hoodMonitoring |-> "Required",
     driverEntryMode |-> "RequireTakeover",
     maximumRemoteRunTimeMs |-> 900000, driverTakeoverTimeoutMs |-> 60000,
     lockPressCount |-> 3, lockMinimumGapMs |-> 80, lockMaximumGapMs |-> 1500,
     lockMaximumSequenceMs |-> 3000, features |-> {}, coldEngineMaximumRpm |-> 2200,
     engineWarmTemperatureC |-> 75, transmissionOverheatTemperatureC |-> 110,
     temperatureAlertHysteresisC |-> 5]

\* UserSettingsLimits, which takes those of TelemetryMonitorLimits.
TelemetryLimits ==
    [coldEngineMaximumRpm             |-> 1000..4500,
     engineWarmTemperatureC           |-> 40..110,
     transmissionOverheatTemperatureC |-> 80..150,
     temperatureAlertHysteresisC      |-> 1..20]
MaximumRemoteRunTimeMs == 60 * 60 * 1000
MaximumTakeoverTimeoutMs == 5 * 60 * 1000
Limits ==
    [maximumRemoteRunTimeMs  |-> 60000..MaximumRemoteRunTimeMs,
     driverTakeoverTimeoutMs |-> 10000..MaximumTakeoverTimeoutMs,
     lockPressCount          |-> 2..5,
     lockMinimumGapMs        |-> 50..5000,
     lockMaximumGapMs        |-> 50..5000,
     lockMaximumSequenceMs   |-> 500..15000]

LockTimingIsConsistent(presses, minimumGap, maximumGap, maximumSequence) ==
    /\ minimumGap <= maximumGap
    /\ maximumGap <= maximumSequence
    /\ (IF presses = 0 THEN 0 ELSE presses - 1) * minimumGap <= maximumSequence

\* validateUserSettings(): the fields out of their range, and the relations
\* between fields that do not hold.
\* Mutant: a threshold of the telemetry is not checked.
OutOfRangeButHysteresis(settings) ==
    {f \in DOMAIN Limits : settings[f] \notin Limits[f]}
    \cup {f \in DOMAIN TelemetryLimits \ {"temperatureAlertHysteresisC"} :
            settings[f] \notin TelemetryLimits[f]}
OutOfRange(settings) ==
    {f \in DOMAIN Limits : settings[f] \notin Limits[f]}
    \cup {f \in DOMAIN TelemetryLimits : settings[f] \notin TelemetryLimits[f]}
ValidateSettings(settings) ==
    OutOfRange(settings)
    \cup {f \in {"hoodMonitoring"} : settings[f] \notin {"Required", "Disabled"}}
    \cup {f \in {"driverEntryMode"} :
            settings[f] \notin {"RequireTakeover", "StopImmediately"}}
    \cup {f \in {"features"} : ~(settings[f] \subseteq Features)}
    \cup {f \in {"lockTiming"} :
            ~LockTimingIsConsistent(settings.lockPressCount, settings.lockMinimumGapMs,
                 settings.lockMaximumGapMs, settings.lockMaximumSequenceMs)}
SettingsAreValid(settings) == ValidateSettings(settings) = {}

\* makeUserConfiguration(): settings that are not valid leave every default of
\* the configuration but the permission to start.  The temperatures are narrowed
\* to 16 bits, the hysteresis to 8.
Signed16(n) == IF n % 65536 < 32768 THEN n % 65536 ELSE (n % 65536) - 65536
MakeUserConfiguration(settings) ==
    LET valid == SettingsAreValid(settings)
        s == IF valid THEN settings ELSE DefaultSettings
    IN [valid |-> valid,
        controller |->
            [remoteStartEnabled |-> valid /\ settings.remoteStartEnabled,
             driverEntryMode |-> s.driverEntryMode,
             requireHoodClosed |-> s.hoodMonitoring = "Required",
             maximumRemoteRunTimeMs |-> s.maximumRemoteRunTimeMs,
             driverTakeoverTimeoutMs |-> s.driverTakeoverTimeoutMs],
        lockSequence |->
            [requiredPresses |-> s.lockPressCount, minimumGapMs |-> s.lockMinimumGapMs,
             maximumGapMs |-> s.lockMaximumGapMs,
             maximumSequenceMs |-> s.lockMaximumSequenceMs],
        telemetry |->
            [requestedFeatures |-> s.features,
             coldEngineMaximumRpm |-> s.coldEngineMaximumRpm,
             engineWarmTemperatureC |-> Signed16(s.engineWarmTemperatureC),
             transmissionOverheatTemperatureC |->
                 Signed16(s.transmissionOverheatTemperatureC),
             temperatureAlertHysteresisC |-> s.temperatureAlertHysteresisC % 256]]

\* What the consumers require: LockCommandGate::configIsValid() for a gate whose
\* other fields are the defaults, and validTelemetryMonitorConfig().
GateConfigIsValid(sequence) ==
    /\ sequence.requiredPresses # 0
    /\ LockTimingIsConsistent(sequence.requiredPresses, sequence.minimumGapMs,
                              sequence.maximumGapMs, sequence.maximumSequenceMs)
TelemetryConfigIsValid(telemetry) ==
    LET limits == TelemetryLimits
    IN /\ telemetry.requestedFeatures \subseteq Features
       /\ \A f \in DOMAIN limits : telemetry[f] \in limits[f]
-----------------------------------------------------------------------------
\* resolveFeature(): the three features of the catalogue all read the state of
\* the vehicle, inform only, and need qualified signals.
ResolveFeature(requested, feature, runtime) ==
    IF feature \notin requested THEN "disabled_by_user"
    ELSE IF feature \notin runtime.implemented THEN "not_implemented"
    ELSE IF "vehicle_state_read" \notin runtime.capabilities THEN "missing_capabilities"
    ELSE IF ~runtime.signalsQualified THEN "signals_unqualified"
    ELSE IF runtime.target = "simulation" THEN "simulated" ELSE "available"
Effective(resolution) == resolution \in {"simulated", "available"}
-----------------------------------------------------------------------------
\* assessRemoteStartReadiness() of a profile: how well each signal is supported,
\* the stage of its qualification, its transmission, the source of its hood
\* interlock.
Supports == {"Unavailable", "Candidate", "Verified"}
HoodSources == {"Unspecified", "NotAvailable", "VehicleSignal", "ExternalDiscreteInput",
                "Synthetic"}

\* ProfileReadinessPolicy and SafetyPolicyConfig, which nothing in the source
\* changes, hood excepted.
ProfilePolicy == [requireVehicleSecured |-> TRUE, allowManualTransmission |-> FALSE]
SafetyConfigOf(controller) ==
    [minimumBatteryMillivolts |-> 11800, runningRpmThreshold |-> 500,
     requireVehicleSecured |-> TRUE, requireHoodClosed |-> controller.requireHoodClosed,
     allowManualTransmission |-> FALSE]

\* Mutant: a signal of the safety policy is missing from the list.
CoreSignalsButBrake ==
    {"batteryMillivolts", "engineRpm", "parkingBrakeApplied", "transmission", "gear",
     "criticalFaultPresent"}
CoreRequiredSignals ==
    {"batteryMillivolts", "engineRpm", "brakePressed", "parkingBrakeApplied",
     "transmission", "gear", "criticalFaultPresent"}

AssessReadiness(profile, requireHood) ==
    LET required == CoreRequiredSignals
                    \cup (IF requireHood THEN {"hoodClosed"} ELSE {})
                    \cup (IF ProfilePolicy.requireVehicleSecured
                          THEN {"doorsClosed", "trunkClosed"} ELSE {})
        Add(reason, holds) == IF holds THEN {reason} ELSE {}
    IN Add("MissingRequiredSignal",
           \E s \in required : profile.support[s] = "Unavailable")
       \cup Add("UnverifiedRequiredSignal",
                \E s \in required : profile.support[s] = "Candidate")
       \cup Add("QualificationTooLow", profile.qualification < 1)
       \cup Add("HoodInterlockUnavailable",
                requireHood /\ profile.hoodSource \in {"Unspecified", "NotAvailable"})
       \cup Add("TransmissionUnknown", profile.transmission = "Unknown")
       \cup Add("ManualTransmissionNotAllowed",
                profile.transmission = "Manual" /\ ~ProfilePolicy.allowManualTransmission)
Ready(assessment) == assessment = {}
=============================================================================
