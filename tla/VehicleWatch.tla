---------------------------- MODULE VehicleWatch ----------------------------
(***************************************************************************)
(* A vehicle watched through its CAN signals: each step, one signal takes  *)
(* a newly received value or the last sample of one signal becomes too     *)
(* old (VehicleStateAssembler::applySignal and observe).  The properties   *)
(* say how the four assessments of SafetyPolicy move with the vehicle.     *)
(***************************************************************************)
EXTENDS SafetyPolicy, FiniteSets

CONSTANTS
    PolicyConfigs,    \* the policies a run starts from
    BatteryLevels, RpmLevels, GearPositions,
    MaxDeviations     \* bound: signals that differ at once from the safe vehicle

ASSUME WatchAssumption ==
    /\ PolicyConfigs \subseteq SafetyPolicyConfig
    /\ BatteryLevels \subseteq Nat
    /\ RpmLevels \subseteq Nat
    /\ GearPositions \subseteq Gears
    /\ MaxDeviations \in Nat

VARIABLES policy, vehicle

watchVars == <<policy, vehicle>>

SignalValues(signal) ==
    CASE signal = "batteryMillivolts" -> BatteryLevels
      [] signal = "engineRpm"         -> RpmLevels
      [] signal = "transmission"      -> Transmissions
      [] signal = "gear"              -> GearPositions
      [] OTHER                        -> BOOLEAN

\* The vehicle every check of the default policy accepts for a start.
SafeVehicle == [fresh |-> Signals, batteryMillivolts |-> 12500, engineRpm |-> 0,
                hoodClosed |-> TRUE, doorsClosed |-> TRUE, trunkClosed |-> TRUE,
                brakePressed |-> FALSE, parkingBrakeApplied |-> TRUE,
                transmission |-> "Automatic", gear |-> "Park",
                criticalFaultPresent |-> FALSE]

Deviations(v) ==
    {s \in Signals : s \notin v.fresh \/ v[s] # SafeVehicle[s]}

WatchInit == policy \in PolicyConfigs /\ vehicle = SafeVehicle

SignalReceived(signal, value) ==
    /\ vehicle' = [vehicle EXCEPT ![signal] = value, !.fresh = @ \cup {signal}]
    /\ UNCHANGED policy

SignalExpires(signal) ==
    /\ signal \in vehicle.fresh
    /\ vehicle' = [vehicle EXCEPT !.fresh = @ \ {signal}]
    /\ UNCHANGED policy

WatchNext ==
    /\ \E signal \in Signals :
          \/ \E value \in SignalValues(signal) : SignalReceived(signal, value)
          \/ SignalExpires(signal)
    /\ Cardinality(Deviations(vehicle')) <= MaxDeviations

WatchSpec == WatchInit /\ [][WatchNext]_watchVars

-----------------------------------------------------------------------------

Refuses(v) ==
    [start    |-> ~Approved(AssessStart(policy, v)),
     cranking |-> ~Approved(AssessCranking(policy, v)),
     run      |-> ~Approved(AssessRemoteRun(policy, v)),
     takeover |-> ~Approved(AssessDriverTakeover(policy, v))]

\* Losing a signal never turns a refusal into an approval, although every
\* value check of assessCommon() is skipped for a signal that is not fresh:
\* docs/safety.md invariant 8.
LostSignalNeverApproves ==
    [][ /\ vehicle'.fresh \subseteq vehicle.fresh
        /\ \A s \in Signals : vehicle'[s] = vehicle[s]
        => \A a \in DOMAIN Refuses(vehicle) :
               Refuses(vehicle)[a] => Refuses(vehicle')[a] ]_watchVars

\* The engine catching is not a reason to abort: a snapshot is acceptable while
\* cranking exactly when it is acceptable to start or to keep running, so a
\* session that was authorized never faults for the mere change of rpm; and the
\* authorizations to start and to keep running exclude each other.
CrankingBridgesStartAndRun ==
    /\ Refuses(vehicle).cranking
           <=> (Refuses(vehicle).start /\ Refuses(vehicle).run)
    /\ Refuses(vehicle).start \/ Refuses(vehicle).run

\* A driver who opens a door or presses the brake of a correctly running
\* vehicle is offered the takeover: these signals, changed or lost, cannot turn
\* the remote run into a safety fault of the takeover.
EntryKeepsTakeover ==
    [][ /\ ~Refuses(vehicle).run
        /\ \A s \in Signals \ {"doorsClosed", "brakePressed"} :
               /\ vehicle'[s] = vehicle[s]
               /\ s \in vehicle'.fresh <=> s \in vehicle.fresh
        => ~Refuses(vehicle').takeover ]_watchVars

\* docs/safety.md invariant 12: with the hood check disabled the hood signal is
\* entirely ignored, and with the vehicle-secured check disabled so are the
\* doors and the trunk.
DisabledChecksAreIgnored ==
    [][ \A ignored \in {{"hoodClosed"}, {"doorsClosed", "trunkClosed"}} :
            /\ ~(IF "hoodClosed" \in ignored THEN policy.requireHoodClosed
                                             ELSE policy.requireVehicleSecured)
            /\ \A s \in Signals \ ignored :
                   /\ vehicle'[s] = vehicle[s]
                   /\ s \in vehicle'.fresh <=> s \in vehicle.fresh
            => Refuses(vehicle') = Refuses(vehicle) ]_watchVars
=============================================================================
