-------------------------------- MODULE Telemetry --------------------------------
(* TelemetryMonitor, as its owner uses it: evaluated on each state of the      *)
(* vehicle, rebuilt when the requested features change, reset.                 *)
(*                                                                             *)
(*   vehicle   the telemetry signals; Lost when not fresh                      *)
(*   features  the features the user requested                                 *)
(*   monitor   the condition of each feature at the last evaluation (previous) *)
(*   report    the alerts of the last evaluation                               *)
(*   latest    the last alert of each feature since the monitor was built or   *)
(*             reset (history)                                                 *)
(*   interrupted  the features that were not known to be active or normal at   *)
(*             some evaluation since their last alert (history)                *)
(*   over      the transmission reached its threshold and was not seen below   *)
(*             the hysteresis since then (history)                             *)
EXTENDS UserSettings

CONSTANTS Runtime,        \* FeatureRuntimeContext
          ColdEngineMaximumRpm, EngineWarmTemperature,           \* TelemetryMonitorConfig
          TransmissionOverheatTemperature, TemperatureHysteresis,
          Readings,       \* bound: signal -> the values explored
          Lost

VARIABLES vehicle, features, monitor, report, latest, interrupted, over
telemetryVars == <<vehicle, features, monitor, report, latest, interrupted, over>>

\* setEnabled() requests no feature that is not in the catalogue.
ConfigIsValid ==
    TelemetryConfigIsValid(
        [requestedFeatures |-> Features, coldEngineMaximumRpm |-> ColdEngineMaximumRpm,
         engineWarmTemperatureC |-> EngineWarmTemperature,
         transmissionOverheatTemperatureC |-> TransmissionOverheatTemperature,
         temperatureAlertHysteresisC |-> TemperatureHysteresis])
TelemetrySignals == {"rpm", "coolant", "oil", "transmission", "dpf"}
IsFresh(v, s) == v[s] # Lost
-----------------------------------------------------------------------------
\* evaluateColdEngine(), evaluateDpf() and evaluateTransmission() once the
\* feature is effective.
ColdEngine(v) ==
    LET known == {s \in {"oil", "coolant"} : IsFresh(v, s)}
    IN IF ~IsFresh(v, "rpm") \/ known = {} THEN "Unavailable"
       ELSE IF /\ \E s \in known : v[s] < EngineWarmTemperature
               /\ v.rpm > ColdEngineMaximumRpm
            THEN "Active" ELSE "Normal"
Dpf(v) ==
    IF ~IsFresh(v, "dpf") THEN "Unavailable"
    ELSE IF v.dpf THEN "Active" ELSE "Normal"
Threshold(previous) ==
    IF previous = "Active"
    THEN TransmissionOverheatTemperature - TemperatureHysteresis
    ELSE TransmissionOverheatTemperature
Transmission(v, previous) ==
    IF ~IsFresh(v, "transmission") THEN "Unavailable"
    ELSE IF v.transmission >= Threshold(previous) THEN "Active" ELSE "Normal"

Condition(feature, v, previous, requested, valid) ==
    LET resolution == ResolveFeature(requested, feature, Runtime)
    IN IF resolution = "disabled_by_user" THEN "Disabled"
       ELSE IF ~valid \/ ~Effective(resolution) THEN "Unavailable"
       ELSE CASE feature = "cold_engine" -> ColdEngine(v)
              [] feature = "dpf" -> Dpf(v)
              [] feature = "transmission" -> Transmission(v, previous)

\* appendTransitionAlerts().
\* Mutant: the end of an active condition is not announced.
AlertOfActivation(previous, current) ==
    IF current = "Active" /\ previous # "Active" THEN {"activated"} ELSE {}
Alert(previous, current) ==
    IF current = "Active" /\ previous # "Active" THEN {"activated"}
    ELSE IF current = "Normal" /\ previous = "Active" THEN {"recovered"} ELSE {}
-----------------------------------------------------------------------------
NoAlert == [f \in Features |-> {}]
Built == [f \in Features |-> "Disabled"]

\* evaluate() on a state, the conditions of the previous one being known.
Evaluate(v, previous, requested, known) ==
    LET valid == ConfigIsValid
        now == [f \in Features |-> Condition(f, v, previous[f], requested, valid)]
        alerts == [f \in Features |-> Alert(previous[f], now[f])]
    IN /\ monitor' = now
       /\ report' = alerts
       /\ latest' = [f \in Features |-> IF alerts[f] = {} THEN known[f] ELSE alerts[f]]

InterruptedAfter(before) ==
    {f \in Features :
        /\ report'[f] = {}
        /\ f \in before \/ monitor'[f] \notin {"Active", "Normal"}}

OverAfter(v, requested, before) ==
    IF "transmission" \notin requested THEN FALSE
    ELSE IF ~IsFresh(v, "transmission") THEN before
    ELSE \/ v.transmission >= TransmissionOverheatTemperature
         \/ before /\ v.transmission
                        >= TransmissionOverheatTemperature
                             - TemperatureHysteresis

\* A new state of the vehicle, in which one signal changed or was lost.
VehicleUpdated(s, value) ==
    LET v == [vehicle EXCEPT ![s] = value]
    IN /\ vehicle' = v
       /\ Evaluate(v, monitor, features, latest)
       /\ interrupted' = InterruptedAfter(interrupted)
       /\ over' = OverAfter(v, features, over)
       /\ UNCHANGED features

\* SandboxSession::updateFeature(): the monitor is built again and evaluated.
FeatureSet(feature, enabled) ==
    LET requested == IF enabled THEN features \cup {feature} ELSE features \ {feature}
    IN /\ features' = requested
       /\ Evaluate(vehicle, Built, requested, NoAlert)
       /\ interrupted' = InterruptedAfter({})
       /\ over' = OverAfter(vehicle, requested, FALSE)
       /\ UNCHANGED vehicle

Reset ==
    /\ monitor' = Built /\ report' = NoAlert /\ latest' = NoAlert
    /\ interrupted' = {} /\ over' = FALSE
    /\ UNCHANGED <<vehicle, features>>

\* A cold vehicle at rest; no feature is requested.
Init ==
    /\ vehicle = [rpm |-> 0, coolant |-> 20, oil |-> 20, transmission |-> 20, dpf |-> FALSE]
    /\ features = {} /\ monitor = Built /\ report = NoAlert /\ latest = NoAlert
    /\ interrupted = {} /\ over = FALSE

VehicleChanges ==
    \E s \in TelemetrySignals : \E value \in Readings[s] \cup {Lost} :
        VehicleUpdated(s, value)
FeaturesChange == \E f \in Features, enabled \in BOOLEAN : FeatureSet(f, enabled)
Next == VehicleChanges \/ FeaturesChange \/ Reset

Spec == Init /\ [][Next]_telemetryVars
-----------------------------------------------------------------------------
\* The last alert of an active feature says so, through losses of its signals,
\* other features being toggled and resets.
ActiveWasAnnounced ==
    \A f \in Features : monitor[f] = "Active" => latest[f] = {"activated"}

\* The last alert of a feature that is back to normal says so, unless its signals
\* were lost since: nothing is announced of what returns from a loss to normal.  A
\* recovery means that the feature is normal.
RecoveryWasAnnounced ==
    \A f \in Features :
        /\ monitor[f] = "Normal" /\ latest[f] = {"activated"} => f \in interrupted
        /\ report[f] = {"recovered"} => monitor[f] = "Normal"

\* The overheat alert is on at its threshold, off below the hysteresis, and in
\* between only if the threshold was reached before.
OverheatIsEarned ==
    LET state == monitor["transmission"]
        t == vehicle.transmission
    IN /\ state = "Active" => IsFresh(vehicle, "transmission") /\ over
       /\ state = "Normal" => t < TransmissionOverheatTemperature

\* Whether a feature is active or normal can be told from its last alert as long as
\* its signals were not lost since, and an active one even then; no overheat alert
\* is raised without its cause (telemetry_monitor.cpp, appendTransitionAlerts and
\* evaluateTransmission).
AlertsAreTrue == ActiveWasAnnounced /\ RecoveryWasAnnounced /\ OverheatIsEarned

\* docs/telemetry-alerts.md: with a threshold of 110 and a hysteresis of 5, "the
\* alert activates at 110 and disappears only below 105"
\* (telemetry_monitor.cpp, evaluateTransmission).
OverheatLastsDownToHysteresis ==
    monitor["transmission"] = "Normal" => ~over
=============================================================================
