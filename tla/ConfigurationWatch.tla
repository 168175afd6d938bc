-------------------------------- MODULE ConfigurationWatch --------------------------------
(* Settings edited one field at a time, from the defaults, beside a profile of *)
(* the vehicle that changes one part at a time, from one that is ready: what   *)
(* makeUserConfiguration() and assessRemoteStartReadiness() make of them.      *)
EXTENDS UserSettings, FiniteSets

CONSTANTS SettingValues,   \* bound: field -> the values explored
          MaxDeviations    \* bound: fields and parts that differ at once

VARIABLES settings, profile
configurationVars == <<settings, profile>>

\* The profile of the simulator, which claims nothing about the real vehicle.
SyntheticProfile ==
    [support |-> [s \in Signals |-> "Verified"], qualification |-> 2,
     transmission |-> "Automatic", hoodSource |-> "Synthetic"]

Deviations(s, p) ==
    Cardinality({f \in DOMAIN s : s[f] # DefaultSettings[f]})
    + Cardinality({signal \in Signals : p.support[signal] # "Verified"})
    + Cardinality({part \in {"qualification", "transmission", "hoodSource"} :
                      p[part] # SyntheticProfile[part]})

SettingEdited(field, value) ==
    /\ settings' = [settings EXCEPT ![field] = value]
    /\ Deviations(settings', profile) <= MaxDeviations
    /\ UNCHANGED profile
ProfileEdited(new) ==
    /\ profile' = new
    /\ Deviations(settings, profile') <= MaxDeviations
    /\ UNCHANGED settings

ConfigurationInit == settings = DefaultSettings /\ profile = SyntheticProfile
SettingChanges ==
    \E field \in DOMAIN SettingValues :
        \E value \in SettingValues[field] : SettingEdited(field, value)
SupportChanges ==
    \E s \in Signals, support \in Supports :
        ProfileEdited([profile EXCEPT !.support[s] = support])
ProfileChanges ==
    \/ \E q \in 0..3 : ProfileEdited([profile EXCEPT !.qualification = q])
    \/ \E t \in Transmissions : ProfileEdited([profile EXCEPT !.transmission = t])
    \/ \E h \in HoodSources : ProfileEdited([profile EXCEPT !.hoodSource = h])
ConfigurationNext == SettingChanges \/ SupportChanges \/ ProfileChanges

ConfigurationSpec == ConfigurationInit /\ [][ConfigurationNext]_configurationVars
-----------------------------------------------------------------------------
Configuration == MakeUserConfiguration(settings)

\* Settings that are accepted are the settings that are used, whatever is
\* narrowed on the way; every part that uses them accepts them, so that neither
\* the gesture nor the alerts are silently dead; settings that are refused never
\* allow a remote start (user_settings.cpp, makeUserConfiguration;
\* lock_command_gate.cpp, configIsValid; telemetry_monitor.hpp,
\* validTelemetryMonitorConfig).
ValidSettingsAreUsed ==
    LET c == Configuration
    IN IF ~c.valid THEN ~c.controller.remoteStartEnabled /\ GateConfigIsValid(c.lockSequence)
       ELSE /\ c.controller.maximumRemoteRunTimeMs = settings.maximumRemoteRunTimeMs
            /\ c.controller.requireHoodClosed <=> settings.hoodMonitoring = "Required"
            /\ GateConfigIsValid(c.lockSequence)
            /\ TelemetryConfigIsValid(c.telemetry)
            /\ \A f \in DOMAIN TelemetryLimits : c.telemetry[f] = settings[f]

\* The gear the safety policy wants with that transmission, on a vehicle of which
\* only the verified signals are known and nothing else is wrong.
VehicleOf(p) ==
    [fresh |-> {s \in Signals : p.support[s] = "Verified"}, batteryMillivolts |-> 12500,
     engineRpm |-> 0, hoodClosed |-> TRUE, doorsClosed |-> TRUE, trunkClosed |-> TRUE,
     brakePressed |-> FALSE, parkingBrakeApplied |-> TRUE,
     transmission |-> p.transmission,
     gear |-> IF p.transmission = "Manual" THEN "Neutral" ELSE "Park",
     criticalFaultPresent |-> FALSE]

\* A profile is ready exactly when its verified signals are enough for the safety
\* policy to approve a start, and it was validated: the two lists of signals, kept
\* in two files, agree for each hood mode and transmission (profile_readiness.cpp,
\* CoreRequiredSignals; safety_policy.cpp, assessCommon; docs/vehicle-profiles.md).
ReadyMeansStartable ==
    LET hood == Configuration.controller.requireHoodClosed
    IN Ready(AssessReadiness(profile, hood))
         <=> /\ Approved(AssessStart(SafetyConfigOf(Configuration.controller),
                                     VehicleOf(profile)))
             /\ profile.qualification # 0
             /\ hood => profile.hoodSource \notin {"Unspecified", "NotAvailable"}
=============================================================================
