------------------------- MODULE UserSettingsProofs -------------------------
(* What the settings lead to, for every value of the fields and every profile: *)
(* the configurations the consumers use, and the readiness of the profile      *)
(* against the safety policy.  TLC explores a few values of each field, and a  *)
(* few fields at a time.                                                       *)
EXTENDS ConfigurationWatch, UserSettingsFile, Telemetry, TLAPS

\* int16_t and uint8_t of TelemetryMonitorConfig, int16_t of VehicleState.
TemperaturesAreNumbers ==
    /\ TransmissionOverheatTemperature \in Int /\ TemperatureHysteresis \in Nat
    /\ Readings["transmission"] \subseteq Int

\* The signals a start is assessed on, with or without the hood.
Assessed(hood) ==
    Signals \ (IF hood THEN {} ELSE {"hoodClosed"})

\* What the readiness of a profile comes to.
Qualified(p, hood) ==
    /\ \A s \in Assessed(hood) : p.support[s] = "Verified"
    /\ p.qualification # 0
    /\ hood => p.hoodSource \notin {"Unspecified", "NotAvailable"}
    /\ p.transmission = "Automatic"

ProfileTypeOK ==
    profile \in [support : [Signals -> Supports], qualification : Nat,
                 transmission : Transmissions, hoodSource : HoodSources]
-----------------------------------------------------------------------------
\* validateUserSettings() finds nothing only in settings whose fields are each in
\* their range, with a lock timing that is consistent.
LEMMA AcceptedFields ==
    ASSUME NEW s, SettingsAreValid(s)
    PROVE  /\ \A f \in DOMAIN Limits : s[f] \in Limits[f]
           /\ \A f \in DOMAIN TelemetryLimits : s[f] \in TelemetryLimits[f]
           /\ s["features"] \subseteq Features
           /\ LockTimingIsConsistent(s.lockPressCount, s.lockMinimumGapMs,
                                     s.lockMaximumGapMs, s.lockMaximumSequenceMs)
  BY DEF SettingsAreValid, ValidateSettings, OutOfRange

\* The thresholds that the settings allow fit the 16 bits they are narrowed to.
LEMMA Narrowing16 ==
    ASSUME NEW n \in Nat, n < 32768
    PROVE  Signed16(n) = n
  BY DEF Signed16

\* The hysteresis that the settings allow fits its 8 bits.
LEMMA Narrowing8 == \A n \in 1..20 : n % 256 = n
  OBVIOUS

\* The defaults pass the check of the lock gate.
LEMMA DefaultGesture ==
    GateConfigIsValid([requiredPresses |-> DefaultSettings.lockPressCount,
                       minimumGapMs |-> DefaultSettings.lockMinimumGapMs,
                       maximumGapMs |-> DefaultSettings.lockMaximumGapMs,
                       maximumSequenceMs |-> DefaultSettings.lockMaximumSequenceMs])
  BY DEF GateConfigIsValid, LockTimingIsConsistent, DefaultSettings

\* makeUserConfiguration() keeps the thresholds of settings that are accepted.
LEMMA TelemetryIsKept ==
    ASSUME NEW s, SettingsAreValid(s)
    PROVE  LET t == MakeUserConfiguration(s).telemetry
           IN /\ t.requestedFeatures = s["features"]
              /\ \A f \in DOMAIN TelemetryLimits : t[f] = s[f]
  <1>1. /\ s["coldEngineMaximumRpm"] \in 1000..4500
        /\ s["engineWarmTemperatureC"] \in 40..110
        /\ s["transmissionOverheatTemperatureC"] \in 80..150
        /\ s["temperatureAlertHysteresisC"] \in 1..20
    BY AcceptedFields DEF TelemetryLimits
  <1>2. /\ Signed16(s["engineWarmTemperatureC"]) = s["engineWarmTemperatureC"]
        /\ Signed16(s["transmissionOverheatTemperatureC"])
             = s["transmissionOverheatTemperatureC"]
        /\ s["temperatureAlertHysteresisC"] % 256 = s["temperatureAlertHysteresisC"]
    BY <1>1, Narrowing16, Narrowing8
  <1> QED  BY <1>2 DEF MakeUserConfiguration, TelemetryLimits

\* Whatever the settings, ValidSettingsAreUsed holds of them.
LEMMA AnySettings == ValidSettingsAreUsed
  <1>1. CASE ~SettingsAreValid(settings)
    BY <1>1, DefaultGesture DEF ValidSettingsAreUsed, Configuration, MakeUserConfiguration
  <1>2. CASE SettingsAreValid(settings)
    <2> DEFINE c == Configuration
    <2>1. c.valid
      BY <1>2 DEF Configuration, MakeUserConfiguration
    <2>2. /\ c.controller.maximumRemoteRunTimeMs = settings.maximumRemoteRunTimeMs
          /\ c.controller.requireHoodClosed <=> settings.hoodMonitoring = "Required"
      BY <1>2 DEF Configuration, MakeUserConfiguration
    <2>3. GateConfigIsValid(c.lockSequence)
      <3>1. settings["lockPressCount"] \in 2..5
        <4>1. "lockPressCount" \in DOMAIN Limits /\ Limits["lockPressCount"] = 2..5
          BY DEF Limits
        <4> QED  BY <1>2, <4>1, AcceptedFields
      <3>2. LockTimingIsConsistent(settings.lockPressCount, settings.lockMinimumGapMs,
                settings.lockMaximumGapMs, settings.lockMaximumSequenceMs)
        BY <1>2, AcceptedFields
      <3> QED  BY <1>2, <3>1, <3>2 DEF GateConfigIsValid, Configuration,
                                       MakeUserConfiguration
    <2>4. \A f \in DOMAIN TelemetryLimits : c.telemetry[f] = settings[f]
      BY <1>2, TelemetryIsKept DEF Configuration
    <2>5. TelemetryConfigIsValid(c.telemetry)
      BY <1>2, <2>4, AcceptedFields, TelemetryIsKept
         DEF TelemetryConfigIsValid, Configuration
    <2> QED  BY <2>1, <2>2, <2>3, <2>4, <2>5 DEF ValidSettingsAreUsed
  <1> QED  BY <1>1, <1>2

\* Settings that are accepted are used as they are, by consumers that accept them;
\* settings that are refused never allow a remote start (user_settings.cpp,
\* makeUserConfiguration).
THEOREM SettingsAreUsed == ConfigurationSpec => []ValidSettingsAreUsed
  <1>1. ValidSettingsAreUsed
    BY AnySettings
  <1> QED  BY <1>1, PTL
-----------------------------------------------------------------------------
\* assessRemoteStartReadiness() has nothing to say of a profile exactly when it is
\* qualified.
LEMMA ReadyIsQualified ==
    ASSUME ProfileTypeOK, NEW hood \in BOOLEAN
    PROVE  Ready(AssessReadiness(profile, hood)) <=> Qualified(profile, hood)
  <1> DEFINE required == CoreRequiredSignals
                         \cup (IF hood THEN {"hoodClosed"} ELSE {})
                         \cup {"doorsClosed", "trunkClosed"}
  <1>1. required = Assessed(hood)
    BY DEF CoreRequiredSignals, Assessed, Signals
  <1>2. \A s \in Assessed(hood) : profile.support[s] \in Supports
    BY DEF ProfileTypeOK, Assessed
  <1>3. (~\E s \in Assessed(hood) : profile.support[s] \in {"Unavailable", "Candidate"})
          <=> \A s \in Assessed(hood) : profile.support[s] = "Verified"
    BY <1>2 DEF Supports
  <1>4. profile.qualification < 1 <=> profile.qualification = 0
    BY DEF ProfileTypeOK
  <1>5. profile.transmission \notin {"Unknown", "Manual"}
          <=> profile.transmission = "Automatic"
    BY DEF ProfileTypeOK, Transmissions
  <1>6. Ready(AssessReadiness(profile, hood))
          <=> /\ ~\E s \in required : profile.support[s] \in {"Unavailable", "Candidate"}
              /\ ~(profile.qualification < 1)
              /\ ~(hood /\ profile.hoodSource \in {"Unspecified", "NotAvailable"})
              /\ profile.transmission \notin {"Unknown", "Manual"}
    BY DEF Ready, AssessReadiness, ProfilePolicy
  <1> QED  BY <1>1, <1>3, <1>4, <1>5, <1>6 DEF Qualified

\* The safety policy approves a start of the vehicle of a profile exactly when the
\* signals it reads are verified and the transmission is automatic.
LEMMA ApprovedIsVerified ==
    ASSUME ProfileTypeOK, NEW c, c.requireHoodClosed \in BOOLEAN
    PROVE  Approved(AssessStart(SafetyConfigOf(c), VehicleOf(profile)))
             <=> /\ \A s \in Assessed(c.requireHoodClosed) :
                        profile.support[s] = "Verified"
                 /\ profile.transmission = "Automatic"
  <1> DEFINE v == VehicleOf(profile)
             k == SafetyConfigOf(c)
             hood == c.requireHoodClosed
  <1>1. /\ k.minimumBatteryMillivolts = 11800 /\ k.runningRpmThreshold = 500
        /\ k.requireVehicleSecured = TRUE /\ k.requireHoodClosed = hood
        /\ k.allowManualTransmission = FALSE
    BY DEF SafetyConfigOf
  <1>2. /\ v.batteryMillivolts = 12500 /\ v.engineRpm = 0
        /\ v.hoodClosed = TRUE /\ v.doorsClosed = TRUE /\ v.trunkClosed = TRUE
        /\ v.brakePressed = FALSE /\ v.parkingBrakeApplied = TRUE
        /\ v.criticalFaultPresent = FALSE /\ v.transmission = profile.transmission
        /\ v.gear = IF profile.transmission = "Manual" THEN "Neutral" ELSE "Park"
    BY DEF VehicleOf
  <1>3. v.fresh = {s \in Signals : profile.support[s] = "Verified"}
    BY DEF VehicleOf
  <1>4. TransmissionIsSafe(k, v) <=> profile.transmission = "Automatic"
    BY <1>1, <1>2 DEF TransmissionIsSafe, ProfileTypeOK, Transmissions
  <1> HIDE DEF v, k
  <1>5. /\ ~(v.batteryMillivolts < k.minimumBatteryMillivolts)
        /\ ~(v.engineRpm >= k.runningRpmThreshold)
    BY <1>1, <1>2
  <1>6. Approved(AssessStart(k, v))
          <=> /\ Signals \ {"hoodClosed"} \subseteq v.fresh
              /\ hood => "hoodClosed" \in v.fresh
              /\ TransmissionIsSafe(k, v)
    <2>1. Approved(AssessCommon(k, v, TRUE, TRUE, TRUE))
            <=> /\ Signals \ {"hoodClosed", "engineRpm"} \subseteq v.fresh
                /\ hood => "hoodClosed" \in v.fresh
                /\ TransmissionIsSafe(k, v)
      BY <1>1, <1>2, <1>5 DEF Approved, AssessCommon, RequireFresh, Reason, Signals
    <2>2. Approved(AssessStart(k, v))
            <=> /\ Approved(AssessCommon(k, v, TRUE, TRUE, TRUE))
                /\ "engineRpm" \in v.fresh
      <3>1. AssessStart(k, v)
              = AssessCommon(k, v, TRUE, TRUE, TRUE) \cup RequireFresh(v, {"engineRpm"})
                \cup Reason(v, "EngineAlreadyRunning", {"engineRpm"}, FALSE)
        <4>1. AssessStart(k, v)
                = AssessCommon(k, v, k.requireVehicleSecured, k.requireVehicleSecured, TRUE)
                  \cup RequireFresh(v, {"engineRpm"})
                  \cup Reason(v, "EngineAlreadyRunning", {"engineRpm"},
                              v.engineRpm >= k.runningRpmThreshold)
          BY Zenon DEF AssessStart
        <4>2. Reason(v, "EngineAlreadyRunning", {"engineRpm"},
                     v.engineRpm >= k.runningRpmThreshold)
                = Reason(v, "EngineAlreadyRunning", {"engineRpm"}, FALSE)
          BY <1>5 DEF Reason
        <4>3. k.requireVehicleSecured = TRUE
          BY <1>1
        <4> QED  BY <4>1, <4>2, <4>3, Zenon
      <3>2. Reason(v, "EngineAlreadyRunning", {"engineRpm"}, FALSE) = {}
        BY DEF Reason
      <3>3. RequireFresh(v, {"engineRpm"}) = {} <=> "engineRpm" \in v.fresh
        BY DEF RequireFresh
      <3> QED  BY <3>1, <3>2, <3>3 DEF Approved
    <2> QED  BY <2>1, <2>2 DEF Signals
  <1>7. (Signals \ {"hoodClosed"} \subseteq v.fresh /\ (hood => "hoodClosed" \in v.fresh))
          <=> \A s \in Assessed(hood) : profile.support[s] = "Verified"
    BY <1>3 DEF Assessed, Signals
  <1> QED  BY <1>4, <1>6, <1>7 DEF v, k

\* A profile keeps its type, whatever part of it changes.
LEMMA ProfileStep == ProfileTypeOK /\ [ConfigurationNext]_configurationVars => ProfileTypeOK'
  <1> SUFFICES ASSUME ProfileTypeOK, [ConfigurationNext]_configurationVars
               PROVE  ProfileTypeOK'
    OBVIOUS
  <1>1. CASE UNCHANGED profile
    BY <1>1 DEF ProfileTypeOK
  <1>2. CASE SettingChanges
    BY <1>1, <1>2 DEF SettingChanges, SettingEdited
  <1>3. CASE SupportChanges
    BY <1>3 DEF SupportChanges, ProfileEdited, ProfileTypeOK
  <1>4. CASE ProfileChanges
    BY <1>4 DEF ProfileChanges, ProfileEdited, ProfileTypeOK
  <1> QED  BY <1>1, <1>2, <1>3, <1>4 DEF ConfigurationNext, configurationVars

\* A profile is ready for a remote start exactly when it is validated and the safety
\* policy approves a start on the signals it verified (profile_readiness.cpp,
\* assessRemoteStartReadiness; safety_policy.cpp, assessStart).
THEOREM ReadinessIsSafety == ConfigurationSpec => []ReadyMeansStartable
  <1>1. ConfigurationInit => ProfileTypeOK
    BY DEF ConfigurationInit, ProfileTypeOK, SyntheticProfile, Supports, Transmissions,
       HoodSources
  <1>2. ProfileTypeOK => ReadyMeansStartable
    <2> SUFFICES ASSUME ProfileTypeOK PROVE ReadyMeansStartable
      OBVIOUS
    <2> DEFINE c == Configuration.controller
    <2>1. c.requireHoodClosed \in BOOLEAN
      BY DEF Configuration, MakeUserConfiguration
    <2>2. Ready(AssessReadiness(profile, c.requireHoodClosed))
            <=> Qualified(profile, c.requireHoodClosed)
      BY <2>1, ReadyIsQualified
    <2>3. Approved(AssessStart(SafetyConfigOf(c), VehicleOf(profile)))
            <=> /\ \A s \in Assessed(c.requireHoodClosed) :
                       profile.support[s] = "Verified"
                /\ profile.transmission = "Automatic"
      BY <2>1, ApprovedIsVerified
    <2> QED  BY <2>2, <2>3 DEF ReadyMeansStartable, Qualified
  <1> QED  BY <1>1, <1>2, ProfileStep, PTL DEF ConfigurationSpec
-----------------------------------------------------------------------------
Conditions == {"Disabled", "Unavailable", "Normal", "Active"}
Announcements == {{}, {"activated"}, {"recovered"}}

MonitorTypeOK ==
    /\ "transmission" \in DOMAIN vehicle
    /\ vehicle.transmission \in Int \cup {Lost}
    /\ monitor \in [Features -> Conditions]
    /\ report \in [Features -> Announcements]
    /\ latest \in [Features -> Announcements]
    /\ over \in BOOLEAN

\* A feature that is not active although its last alert says so was interrupted,
\* which RecoveryWasAnnounced says of those that are normal.
LossesAreInterruptions ==
    \A f \in Features :
        monitor[f] # "Active" /\ latest[f] = {"activated"} => f \in interrupted

MonitorInv == MonitorTypeOK /\ AlertsAreTrue /\ LossesAreInterruptions

\* What evaluate() finds of a feature is one of the four conditions.
LEMMA ConditionType ==
    ASSUME NEW f \in Features, NEW v, NEW previous, NEW requested, NEW valid
    PROVE  Condition(f, v, previous, requested, valid) \in Conditions
  BY DEF Condition, ColdEngine, Dpf, Transmission, Effective, ResolveFeature, IsFresh,
         Conditions, Features

\* appendTransitionAlerts() announces each change between Normal and Active.
LEMMA AlertOfChange ==
    ASSUME NEW previous, NEW current
    PROVE  LET alert == Alert(previous, current)
           IN /\ alert \in Announcements
              /\ alert = {"recovered"} => current = "Normal"
              /\ current = "Normal" =>
                   alert = IF previous = "Active" THEN {"recovered"} ELSE {}
              /\ current = "Active" =>
                   alert = IF previous = "Active" THEN {} ELSE {"activated"}
  BY DEF Alert, Announcements

\* A feature that is not active is not announced as activated.
LEMMA AlertWithoutActivity ==
    ASSUME NEW previous, NEW current, current # "Active"
    PROVE  Alert(previous, current) # {"activated"}
  BY DEF Alert

\* An evaluation leaves the alerts true, whether it follows another one or starts
\* from a monitor that was just built.
LEMMA EvaluationAnnounces ==
    ASSUME NEW v, NEW previous \in [Features -> Conditions], NEW requested,
           NEW known \in [Features -> Announcements],
           NEW before,
           \A f \in Features : previous[f] = "Active" => known[f] = {"activated"},
           \A f \in Features :
               previous[f] # "Active" /\ known[f] = {"activated"} => f \in before,
           Evaluate(v, previous, requested, known),
           interrupted' = InterruptedAfter(before)
    PROVE  /\ monitor' \in [Features -> Conditions]
           /\ report' \in [Features -> Announcements]
           /\ latest' \in [Features -> Announcements]
           /\ ActiveWasAnnounced' /\ RecoveryWasAnnounced' /\ LossesAreInterruptions'
  <1> DEFINE Now(f) == Condition(f, v, previous[f], requested, ConfigIsValid)
             Raised(f) == Alert(previous[f], Now(f))
  <1>1. /\ monitor' = [f \in Features |-> Now(f)]
        /\ report' = [f \in Features |-> Raised(f)]
        /\ latest' = [f \in Features |-> IF Raised(f) = {} THEN known[f] ELSE Raised(f)]
    BY DEF Evaluate
  <1>2. \A f \in Features : Now(f) \in Conditions
    BY ConditionType
  <1>3. \A f \in Features :
            /\ Raised(f) \in Announcements
            /\ Raised(f) = {"recovered"} => Now(f) = "Normal"
            /\ Now(f) = "Normal" =>
                 Raised(f) = IF previous[f] = "Active" THEN {"recovered"} ELSE {}
            /\ Now(f) = "Active" =>
                 Raised(f) = IF previous[f] = "Active" THEN {} ELSE {"activated"}
    BY AlertOfChange
  <1> HIDE DEF Now, Raised
  <1>4. /\ monitor' \in [Features -> Conditions]
        /\ report' \in [Features -> Announcements]
        /\ latest' \in [Features -> Announcements]
    BY <1>1, <1>2, <1>3
  <1>5. ASSUME NEW f \in Features, monitor'[f] = "Active"
        PROVE  latest'[f] = {"activated"}
    <2>1. Now(f) = "Active"
      BY <1>1, <1>5
    <2>2. CASE previous[f] = "Active"
      BY <1>1, <1>3, <2>1, <2>2
    <2>3. CASE previous[f] # "Active"
      BY <1>1, <1>3, <2>1, <2>3
    <2> QED  BY <2>2, <2>3
  <1>6. ASSUME NEW f \in Features, report'[f] = {"recovered"}
        PROVE  monitor'[f] = "Normal"
    BY <1>1, <1>3, <1>6
  <1>7. ASSUME NEW f \in Features, monitor'[f] # "Active", latest'[f] = {"activated"}
        PROVE  f \in interrupted'
    <2>1. Now(f) # "Active" /\ Now(f) \in Conditions
      BY <1>1, <1>2, <1>7
    <2>2. Raised(f) # {"activated"}
      BY <2>1, AlertWithoutActivity DEF Raised
    <2>3. Raised(f) = {} /\ known[f] = {"activated"}
      BY <1>1, <1>7, <2>2
    <2>4. CASE Now(f) = "Normal"
      <3>1. previous[f] # "Active"
        BY <1>3, <2>3, <2>4
      <3> QED  BY <1>1, <2>3, <3>1 DEF InterruptedAfter
    <2>5. CASE Now(f) # "Normal"
      BY <1>1, <2>1, <2>3, <2>5 DEF InterruptedAfter
    <2> QED  BY <2>4, <2>5
  <1>8. RecoveryWasAnnounced' /\ LossesAreInterruptions'
    BY <1>6, <1>7 DEF RecoveryWasAnnounced, LossesAreInterruptions
  <1> QED  BY <1>4, <1>5, <1>8 DEF ActiveWasAnnounced

\* An evaluation earns the overheat alert, if the last one did.
LEMMA EvaluationEarns ==
    ASSUME TemperaturesAreNumbers,
           NEW v, v.transmission \in Int \cup {Lost},
           NEW previous \in [Features -> Conditions], NEW requested, NEW known,
           NEW before \in BOOLEAN, previous["transmission"] = "Active" => before,
           Evaluate(v, previous, requested, known),
           vehicle' = v, over' = OverAfter(v, requested, before)
    PROVE  over' \in BOOLEAN /\ OverheatIsEarned'
  <1> DEFINE t == v.transmission
             last == previous["transmission"]
             now == monitor'["transmission"]
             fresh == IsFresh(v, "transmission")
  <1>1. now = Condition("transmission", v, last, requested, ConfigIsValid)
    BY DEF Evaluate, Features
  <1>2. now \in {"Active", "Normal"} =>
            /\ "transmission" \in requested
            /\ now = Transmission(v, last)
    BY <1>1 DEF Condition, ResolveFeature
  <1>3. now \in {"Active", "Normal"} => fresh /\ t \in Int
    BY <1>2 DEF Transmission, IsFresh, TemperaturesAreNumbers
  <1>4. over' \in BOOLEAN
    BY DEF OverAfter
  <1>5. ASSUME now = "Active" PROVE over'
    <2>1. t >= Threshold(last)
      BY <1>2, <1>3, <1>5 DEF Transmission
    <2>2. CASE last = "Active"
      BY <1>2, <1>3, <1>5, <2>1, <2>2 DEF Threshold, OverAfter
    <2>3. CASE last # "Active"
      BY <1>2, <1>3, <1>5, <2>1, <2>3 DEF Threshold, OverAfter
    <2> QED  BY <2>2, <2>3
  <1>6. ASSUME now = "Normal" PROVE t < TransmissionOverheatTemperature
    <2>1. ~(t >= Threshold(last))
      BY <1>2, <1>3, <1>6 DEF Transmission
    <2> QED  BY <1>3, <1>6, <2>1 DEF Threshold, TemperaturesAreNumbers
  <1> QED  BY <1>3, <1>4, <1>5, <1>6 DEF OverheatIsEarned, IsFresh

\* Each step of the monitor's owner preserves its invariant.
LEMMA MonitorStep ==
    ASSUME TemperaturesAreNumbers, MonitorInv, [Next]_telemetryVars
    PROVE  MonitorInv'
  <1> USE DEF MonitorInv, AlertsAreTrue
  <1>1. ASSUME NEW s \in TelemetrySignals,
               NEW value \in Readings[s] \cup {Lost}, VehicleUpdated(s, value)
        PROVE  MonitorInv'
    <2> DEFINE v == [vehicle EXCEPT ![s] = value]
    <2>1. /\ vehicle' = v /\ DOMAIN v = DOMAIN vehicle
          /\ v.transmission \in Int \cup {Lost}
      BY <1>1 DEF VehicleUpdated, MonitorTypeOK, TelemetrySignals, TemperaturesAreNumbers
    <2>2. /\ Evaluate(v, monitor, features, latest)
          /\ over' = OverAfter(v, features, over)
      BY <1>1 DEF VehicleUpdated
    <2>3. /\ \A f \in Features : monitor[f] = "Active" => latest[f] = {"activated"}
          /\ \A f \in Features :
                monitor[f] # "Active" /\ latest[f] = {"activated"} => f \in interrupted
          /\ monitor["transmission"] = "Active" => over
      BY DEF ActiveWasAnnounced, LossesAreInterruptions, OverheatIsEarned
    <2>6. interrupted' = InterruptedAfter(interrupted)
      BY <1>1 DEF VehicleUpdated
    <2> HIDE DEF v
    <2>4. /\ monitor' \in [Features -> Conditions]
          /\ report' \in [Features -> Announcements]
          /\ latest' \in [Features -> Announcements]
          /\ ActiveWasAnnounced' /\ RecoveryWasAnnounced' /\ LossesAreInterruptions'
      BY <2>2, <2>3, <2>6, EvaluationAnnounces DEF MonitorTypeOK
    <2>5. over' \in BOOLEAN /\ OverheatIsEarned'
      BY <2>1, <2>2, <2>3, EvaluationEarns DEF MonitorTypeOK
    <2> QED  BY <2>1, <2>4, <2>5 DEF MonitorTypeOK
  <1>2. ASSUME NEW f \in Features, NEW enabled \in BOOLEAN,
               FeatureSet(f, enabled)
        PROVE  MonitorInv'
    <2> DEFINE requested == IF enabled THEN features \cup {f} ELSE features \ {f}
    <2>1. /\ vehicle' = vehicle
          /\ Evaluate(vehicle, Built, requested, NoAlert)
          /\ over' = OverAfter(vehicle, requested, FALSE)
          /\ interrupted' = InterruptedAfter({})
      BY <1>2 DEF FeatureSet
    <2>2. /\ Built \in [Features -> Conditions]
          /\ NoAlert \in [Features -> Announcements]
          /\ \A g \in Features : Built[g] # "Active" /\ NoAlert[g] # {"activated"}
      BY DEF Built, NoAlert, Conditions, Announcements
    <2>3. "transmission" \in Features
      BY DEF Features
    <2> HIDE DEF requested
    <2>4. /\ monitor' \in [Features -> Conditions]
          /\ report' \in [Features -> Announcements]
          /\ latest' \in [Features -> Announcements]
          /\ ActiveWasAnnounced' /\ RecoveryWasAnnounced' /\ LossesAreInterruptions'
      BY <2>1, <2>2, EvaluationAnnounces
    <2>5. over' \in BOOLEAN /\ OverheatIsEarned'
      BY <2>1, <2>2, <2>3, EvaluationEarns DEF MonitorTypeOK
    <2> QED  BY <2>1, <2>4, <2>5 DEF MonitorTypeOK
  <1>3. CASE Reset
    BY <1>3 DEF Reset, Built, NoAlert, MonitorTypeOK, ActiveWasAnnounced,
       RecoveryWasAnnounced, LossesAreInterruptions, OverheatIsEarned, Conditions, Announcements, Features
  <1>4. CASE UNCHANGED telemetryVars
    BY <1>4 DEF telemetryVars, MonitorTypeOK, ActiveWasAnnounced,
       RecoveryWasAnnounced, LossesAreInterruptions, OverheatIsEarned, IsFresh
  <1> QED  BY <1>1, <1>2, <1>3, <1>4 DEF Next, VehicleChanges, FeaturesChange

\* The last alert of a feature says whether it is active or normal as long as its
\* signals were not lost since, and says so of an active one even then; the overheat
\* alert is on only after its threshold was reached.  This for every threshold,
\* hysteresis and reading (telemetry_monitor.cpp, appendTransitionAlerts and
\* evaluateTransmission).
THEOREM AlertsTellTheVehicle ==
    ASSUME TemperaturesAreNumbers
    PROVE  Spec => []AlertsAreTrue
  <1>1. Init => MonitorInv
    <2> SUFFICES ASSUME Init PROVE MonitorInv
      OBVIOUS
    <2>1. /\ monitor = [f \in Features |-> "Disabled"]
          /\ report = [f \in Features |-> {}] /\ latest = [f \in Features |-> {}]
      BY DEF Init, Built, NoAlert, Features
    <2>2. MonitorTypeOK
      <3>1. /\ "transmission" \in DOMAIN vehicle
            /\ vehicle.transmission \in Int \cup {Lost} /\ over \in BOOLEAN
        <4>1. /\ vehicle = [rpm |-> 0, coolant |-> 20, oil |-> 20, transmission |-> 20,
                            dpf |-> FALSE]
              /\ over = FALSE
          BY DEF Init
        <4>2. "transmission" \in DOMAIN vehicle /\ vehicle.transmission = 20
          BY <4>1
        <4>3. over \in BOOLEAN
          BY <4>1
        <4> QED  BY <4>2, <4>3
      <3>2. /\ monitor \in [Features -> Conditions]
            /\ report \in [Features -> Announcements]
            /\ latest \in [Features -> Announcements]
        BY <2>1 DEF Conditions, Announcements
      <3> QED  BY <3>1, <3>2 DEF MonitorTypeOK
    <2>3. ActiveWasAnnounced /\ RecoveryWasAnnounced /\ LossesAreInterruptions
      BY <2>1 DEF ActiveWasAnnounced, RecoveryWasAnnounced, LossesAreInterruptions
    <2>4. OverheatIsEarned
      BY <2>1 DEF OverheatIsEarned, Features
    <2> QED  BY <2>4, <2>2, <2>3 DEF MonitorInv, AlertsAreTrue
  <1>2. MonitorInv /\ [Next]_telemetryVars => MonitorInv'
    BY MonitorStep
  <1>3. MonitorInv => AlertsAreTrue
    BY DEF MonitorInv
  <1> QED  BY <1>1, <1>2, <1>3, PTL DEF Spec
-----------------------------------------------------------------------------
\* The steps of saveUserSettingsFile() at which the temporary file was read back
\* and compared.
Checked == {"inspect", "preserve", "replace", "install"}
HoldsTheRequest(file) == Loads(file) /\ Parsed(file) = submitted

\* What each step of a save relies on: the one name under which the last settings
\* are, and that what it installs is what it was asked to save.
FileIInv ==
    /\ kept = Absent => target = Absent
    /\ kept # Absent =>
          \/ target = kept
          \/ target = Absent /\ backup = kept /\ (step = "replace" \/ stranded)
    /\ step \in Checked => HoldsTheRequest(temporary)
    /\ step = "preserve" => target # Absent
    /\ step = "replace" => target = Absent /\ kept # Absent
    /\ step = "install" => target = Absent
    /\ step = "discard" => HoldsTheRequest(target)
    /\ step = "idle" /\ saved => HoldsTheRequest(target)

\* The invariant says what the property promises.
LEMMA FileIInvSuffices == FileIInv => LastSettingsSurvive
  BY DEF FileIInv, HoldsTheRequest, LastSettingsSurvive

\* A file that loads is a file.
LEMMA LoadedIsNotAbsent == \A file : Loads(file) => file # Absent
  BY DEF Loads

\* It holds before the first save.
LEMMA FileInitHolds == FileInit => FileIInv
  BY DEF FileInit, FileIInv, Checked

\* It is kept by the beginning of a save, by its calls up to the check of the
\* temporary file, by its end and by a kill of the process.
LEMMA FileStepHolds ==
    ASSUME FileIInv, [FileNext]_fileVars
    PROVE  FileIInv'
<1> USE LoadedIsNotAbsent DEF FileIInv, HoldsTheRequest, Checked
<1>1. ASSUME NEW s, BeginSave(s) PROVE FileIInv'
  BY <1>1 DEF BeginSave, Parsed, Loads
<1>2. CASE Configure \/ WriteDefaults
  BY <1>1, <1>2 DEF Configure, WriteDefaults
<1>3. CASE CreateTemporary
  BY <1>3 DEF CreateTemporary, Goes, Ends
<1>4. CASE WriteTemporary
  BY <1>4 DEF WriteTemporary, Goes, Ends, GivesUp
<1>5. CASE VerifyTemporary
  BY <1>5 DEF VerifyTemporary, Verified, Goes, Ends, GivesUp, files
<1>6. CASE InspectTarget
  BY <1>6 DEF InspectTarget, Goes, Ends, GivesUp, files
<1>7. CASE PreserveTarget
  BY <1>7 DEF PreserveTarget, Goes
<1>8. CASE InstallsOver \/ InstallsNew
  BY <1>8 DEF InstallsOver, InstallsNew
<1>9. CASE NotInstalled
  BY <1>9 DEF NotInstalled
<1>10. CASE DiscardBackup
  BY <1>10 DEF DiscardBackup
<1>11. CASE Killed
  BY <1>11 DEF Killed
<1>12. CASE UserEdits
  BY <1>12 DEF UserEdits
<1>13. CASE UNCHANGED fileVars
  BY <1>13 DEF fileVars, Loads
<1>14. QED
  BY <1>2, <1>3, <1>4, <1>5, <1>6, <1>7, <1>8, <1>9, <1>10, <1>11, <1>12, <1>13
     DEF FileNext

\* saveUserSettingsFile(): wherever a call fails and wherever the process is
\* killed, whatever the settings, the answers of the user and what a partial
\* write leaves, the last settings are under one of two names, and a save that
\* succeeds has put what it was given in the file.
THEOREM SettingsSurviveASave == FileSpec => []LastSettingsSurvive
<1>1. FileInit => FileIInv
  BY FileInitHolds
<1>2. FileIInv /\ [FileNext]_fileVars => FileIInv'
  BY FileStepHolds
<1>3. FileIInv => LastSettingsSurvive
  BY FileIInvSuffices
<1>4. QED
  BY <1>1, <1>2, <1>3, PTL DEF FileSpec
=============================================================================
