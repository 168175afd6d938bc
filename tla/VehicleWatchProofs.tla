------------------------- MODULE VehicleWatchProofs -------------------------
(***************************************************************************)
(* The safety policy for every configuration, every limit and any vehicle: *)
(* the model checked has a few levels of each signal and a few deviations. *)
(*                                                                         *)
(* An assessment is a union of small sets of reasons.  Each lemma turns    *)
(* the emptiness of one union into the conjunction of the conditions that  *)
(* it checks; the theorems compare these conjunctions.                     *)
(*                                                                         *)
(* The last part is about the journal, which must tell of what happened    *)
(* to the session and not of every update of the vehicle.                  *)
(***************************************************************************)
EXTENDS VehicleWatch, DiagnosticJournal, SequenceTheorems, FiniteSetTheorems, TLAPS

WatchTypeOK == policy \in SafetyPolicyConfig /\ vehicle \in VehicleState

\* What assessCommon() accepts.
CommonConditions(c, v, requireDoorsClosed, requireTrunkClosed, prohibitBrake) ==
    /\ {"batteryMillivolts", "parkingBrakeApplied", "transmission", "gear",
        "criticalFaultPresent"} \subseteq v.fresh
    /\ ~(v.batteryMillivolts < c.minimumBatteryMillivolts)
    /\ v.parkingBrakeApplied
    /\ ~v.criticalFaultPresent
    /\ TransmissionIsSafe(c, v)
    /\ prohibitBrake => "brakePressed" \in v.fresh /\ ~v.brakePressed
    /\ c.requireHoodClosed => "hoodClosed" \in v.fresh /\ v.hoodClosed
    /\ requireDoorsClosed => "doorsClosed" \in v.fresh /\ v.doorsClosed
    /\ requireTrunkClosed => "trunkClosed" \in v.fresh /\ v.trunkClosed

-----------------------------------------------------------------------------
(* The assessments as conjunctions.                                        *)

\* A missing signal is a reason.
LEMMA RequireFreshEmpty ==
    ASSUME NEW v, NEW signals
    PROVE  RequireFresh(v, signals) = {} <=> signals \subseteq v.fresh
  BY DEF RequireFresh

\* The common checks as one conjunction.
LEMMA AssessCommonEmpty ==
    ASSUME NEW c, NEW v, NEW doors, NEW trunk, NEW brake
    PROVE  AssessCommon(c, v, doors, trunk, brake) = {}
               <=> CommonConditions(c, v, doors, trunk, brake)
  <1> DEFINE mandatory == {"batteryMillivolts", "parkingBrakeApplied",
                           "transmission", "gear", "criticalFaultPresent"}
  <1>1. Reason(v, "BatteryTooLow", {"batteryMillivolts"},
               v.batteryMillivolts < c.minimumBatteryMillivolts) = {}
        <=> ~({"batteryMillivolts"} \subseteq v.fresh
              /\ v.batteryMillivolts < c.minimumBatteryMillivolts)
    BY DEF Reason
  <1>2. Reason(v, "ParkingBrakeReleased", {"parkingBrakeApplied"},
               ~v.parkingBrakeApplied) = {}
        <=> ~({"parkingBrakeApplied"} \subseteq v.fresh /\ ~v.parkingBrakeApplied)
    BY DEF Reason
  <1>3. Reason(v, "CriticalVehicleFault", {"criticalFaultPresent"},
               v.criticalFaultPresent) = {}
        <=> ~({"criticalFaultPresent"} \subseteq v.fresh /\ v.criticalFaultPresent)
    BY DEF Reason
  <1>4. Reason(v, "TransmissionUnsafe", {"transmission", "gear"},
               ~TransmissionIsSafe(c, v)) = {}
        <=> ~({"transmission", "gear"} \subseteq v.fresh /\ ~TransmissionIsSafe(c, v))
    BY DEF Reason
  <1>5. RequireFresh(v, {"brakePressed"})
            \cup Reason(v, "BrakePressed", {"brakePressed"}, v.brakePressed) = {}
        <=> "brakePressed" \in v.fresh /\ ~v.brakePressed
    BY DEF RequireFresh, Reason
  <1>6. RequireFresh(v, {"hoodClosed"})
            \cup Reason(v, "HoodOpen", {"hoodClosed"}, ~v.hoodClosed) = {}
        <=> "hoodClosed" \in v.fresh /\ v.hoodClosed
    BY DEF RequireFresh, Reason
  <1>7. RequireFresh(v, {"doorsClosed"})
            \cup Reason(v, "DoorOpen", {"doorsClosed"}, ~v.doorsClosed) = {}
        <=> "doorsClosed" \in v.fresh /\ v.doorsClosed
    BY DEF RequireFresh, Reason
  <1>8. RequireFresh(v, {"trunkClosed"})
            \cup Reason(v, "TrunkOpen", {"trunkClosed"}, ~v.trunkClosed) = {}
        <=> "trunkClosed" \in v.fresh /\ v.trunkClosed
    BY DEF RequireFresh, Reason
  <1>9. RequireFresh(v, mandatory) = {} <=> mandatory \subseteq v.fresh
    BY RequireFreshEmpty
  <1> QED
    BY <1>1, <1>2, <1>3, <1>4, <1>5, <1>6, <1>7, <1>8, <1>9
       DEF AssessCommon, CommonConditions

\* A start needs a stopped engine.
LEMMA AssessStartEmpty ==
    ASSUME NEW c, NEW v
    PROVE  Approved(AssessStart(c, v)) <=>
               /\ CommonConditions(c, v, c.requireVehicleSecured,
                                   c.requireVehicleSecured, TRUE)
               /\ "engineRpm" \in v.fresh
               /\ ~(v.engineRpm >= c.runningRpmThreshold)
  BY AssessCommonEmpty DEF AssessStart, Approved, RequireFresh, Reason

\* While cranking the engine speed must be known, whatever it is.
LEMMA AssessCrankingEmpty ==
    ASSUME NEW c, NEW v
    PROVE  Approved(AssessCranking(c, v)) <=>
               /\ CommonConditions(c, v, c.requireVehicleSecured,
                                   c.requireVehicleSecured, TRUE)
               /\ "engineRpm" \in v.fresh
  BY AssessCommonEmpty DEF AssessCranking, Approved, RequireFresh

\* A remote run needs a running engine.
LEMMA AssessRemoteRunEmpty ==
    ASSUME NEW c, NEW v
    PROVE  Approved(AssessRemoteRun(c, v)) <=>
               /\ CommonConditions(c, v, c.requireVehicleSecured,
                                   c.requireVehicleSecured, TRUE)
               /\ "engineRpm" \in v.fresh
               /\ ~(v.engineRpm < c.runningRpmThreshold)
  BY AssessCommonEmpty DEF AssessRemoteRun, Approved, RequireFresh, Reason

\* A takeover ignores the doors and the brake.
LEMMA AssessDriverTakeoverEmpty ==
    ASSUME NEW c, NEW v
    PROVE  Approved(AssessDriverTakeover(c, v)) <=>
               /\ CommonConditions(c, v, FALSE, c.requireVehicleSecured, FALSE)
               /\ "engineRpm" \in v.fresh
               /\ ~(v.engineRpm < c.runningRpmThreshold)
  BY AssessCommonEmpty DEF AssessDriverTakeover, Approved, RequireFresh, Reason

-----------------------------------------------------------------------------
(* The vehicle keeps its type: a received value is one the signal can have.*)

\* The vehicle of the configuration is one, and any received or expired signal
\* leaves one.
LEMMA WatchTypeInvariant == WatchSpec => []WatchTypeOK
  <1>1. WatchInit => WatchTypeOK
    BY WatchAssumption DEF WatchInit, WatchTypeOK, SafeVehicle, VehicleState,
       Signals, Transmissions, Gears
  <1>2. WatchTypeOK /\ [WatchNext]_watchVars => WatchTypeOK'
    <2> SUFFICES ASSUME WatchTypeOK, [WatchNext]_watchVars PROVE WatchTypeOK'
      OBVIOUS
    <2>1. ASSUME NEW signal \in Signals, NEW value \in SignalValues(signal),
                 SignalReceived(signal, value)
          PROVE  WatchTypeOK'
      <3>1. vehicle.fresh \cup {signal} \subseteq Signals
        BY DEF WatchTypeOK, VehicleState
      <3>2. CASE signal = "batteryMillivolts"
        BY <2>1, <3>1, <3>2, WatchAssumption DEF SignalReceived, SignalValues,
           WatchTypeOK, VehicleState
      <3>3. CASE signal = "engineRpm"
        BY <2>1, <3>1, <3>3, WatchAssumption DEF SignalReceived, SignalValues,
           WatchTypeOK, VehicleState
      <3>4. CASE signal = "transmission"
        BY <2>1, <3>1, <3>4 DEF SignalReceived, SignalValues, WatchTypeOK,
           VehicleState
      <3>5. CASE signal = "gear"
        BY <2>1, <3>1, <3>5, WatchAssumption DEF SignalReceived, SignalValues,
           WatchTypeOK, VehicleState
      <3>6. CASE signal \in {"hoodClosed", "doorsClosed", "trunkClosed",
                             "brakePressed", "parkingBrakeApplied",
                             "criticalFaultPresent"}
        <4>1. value \in BOOLEAN
          BY <3>6 DEF SignalValues
        <4> QED
          BY <2>1, <3>1, <3>6, <4>1 DEF SignalReceived, WatchTypeOK, VehicleState
      <3> QED
        BY <3>2, <3>3, <3>4, <3>5, <3>6 DEF Signals
    <2>2. ASSUME NEW signal \in Signals, SignalExpires(signal)
          PROVE  WatchTypeOK'
      BY <2>2 DEF SignalExpires, WatchTypeOK, VehicleState
    <2>3. CASE UNCHANGED watchVars
      BY <2>3 DEF watchVars, WatchTypeOK
    <2> QED
      BY <2>1, <2>2, <2>3 DEF WatchNext
  <1> QED
    BY <1>1, <1>2, PTL DEF WatchSpec

-----------------------------------------------------------------------------
(* The theorems.                                                           *)

\* For any limits and any vehicle, cranking is acceptable exactly when starting
\* or running is, and starting and running exclude each other: the session that
\* was authorized is never aborted for the change of rpm it asked for.
THEOREM CrankingIsABridge == WatchSpec => []CrankingBridgesStartAndRun
  <1>1. WatchTypeOK => CrankingBridgesStartAndRun
    <2> SUFFICES ASSUME WatchTypeOK PROVE CrankingBridgesStartAndRun
      OBVIOUS
    <2>1. vehicle.engineRpm \in Nat /\ policy.runningRpmThreshold \in Nat
      BY DEF WatchTypeOK, VehicleState, SafetyPolicyConfig
    <2>2. ~(vehicle.engineRpm >= policy.runningRpmThreshold)
              <=> vehicle.engineRpm < policy.runningRpmThreshold
      BY <2>1
    <2> QED
      BY <2>2, AssessStartEmpty, AssessCrankingEmpty, AssessRemoteRunEmpty
         DEF CrankingBridgesStartAndRun, Refuses
  <1> QED
    BY <1>1, WatchTypeInvariant, PTL

\* What is accepted without some of the signals is accepted with them.
LEMMA CommonConditionsMonotone ==
    ASSUME NEW c, NEW v, NEW w, NEW doors, NEW trunk, NEW brake,
           w.fresh \subseteq v.fresh, \A s \in Signals : w[s] = v[s],
           CommonConditions(c, w, doors, trunk, brake)
    PROVE  CommonConditions(c, v, doors, trunk, brake)
  <1>1. /\ w.batteryMillivolts = v.batteryMillivolts
        /\ w.parkingBrakeApplied = v.parkingBrakeApplied
        /\ w.criticalFaultPresent = v.criticalFaultPresent
        /\ w.transmission = v.transmission /\ w.gear = v.gear
        /\ w.brakePressed = v.brakePressed /\ w.hoodClosed = v.hoodClosed
        /\ w.doorsClosed = v.doorsClosed /\ w.trunkClosed = v.trunkClosed
    BY DEF Signals
  <1>2. TransmissionIsSafe(c, w) <=> TransmissionIsSafe(c, v)
    BY <1>1 DEF TransmissionIsSafe
  <1> QED
    BY <1>1, <1>2 DEF CommonConditions

\* For any policy and any vehicle, a stale or unavailable signal never turns a
\* refusal into an approval.
THEOREM StaleNeverApproves == WatchSpec => LostSignalNeverApproves
  <1> DEFINE Lost == /\ vehicle'.fresh \subseteq vehicle.fresh
                     /\ \A s \in Signals : vehicle'[s] = vehicle[s]
             Kept == \A a \in DOMAIN Refuses(vehicle) :
                         Refuses(vehicle)[a] => Refuses(vehicle')[a]
  <1>1. Lost => Kept
    <2> SUFFICES ASSUME Lost PROVE Kept
      OBVIOUS
    <2>1. vehicle'.engineRpm = vehicle.engineRpm
      BY DEF Signals
    <2>2. \A doors, trunk, brake :
              CommonConditions(policy, vehicle', doors, trunk, brake)
                  => CommonConditions(policy, vehicle, doors, trunk, brake)
      BY CommonConditionsMonotone
    <2>3. Refuses(vehicle).start => Refuses(vehicle').start
      BY <2>1, <2>2, AssessStartEmpty DEF Refuses
    <2>4. Refuses(vehicle).cranking => Refuses(vehicle').cranking
      BY <2>1, <2>2, AssessCrankingEmpty DEF Refuses
    <2>5. Refuses(vehicle).run => Refuses(vehicle').run
      BY <2>1, <2>2, AssessRemoteRunEmpty DEF Refuses
    <2>6. Refuses(vehicle).takeover => Refuses(vehicle').takeover
      BY <2>1, <2>2, AssessDriverTakeoverEmpty DEF Refuses
    <2>7. DOMAIN Refuses(vehicle) = {"start", "cranking", "run", "takeover"}
      BY DEF Refuses
    <2> QED
      BY <2>3, <2>4, <2>5, <2>6, <2>7
  <1>2. [WatchNext]_watchVars => [Lost => Kept]_watchVars
    BY <1>1
  <1> QED
    BY <1>2, PTL DEF WatchSpec, LostSignalNeverApproves

\* For any policy, a driver who enters a correctly running vehicle or presses
\* its brake is offered the takeover.
THEOREM DriverMayTakeOver == WatchSpec => EntryKeepsTakeover
  <1> DEFINE Entry == /\ ~Refuses(vehicle).run
                      /\ \A s \in Signals \ {"doorsClosed", "brakePressed"} :
                             /\ vehicle'[s] = vehicle[s]
                             /\ s \in vehicle'.fresh <=> s \in vehicle.fresh
  <1>1. Entry => ~Refuses(vehicle').takeover
    <2> SUFFICES ASSUME Entry PROVE ~Refuses(vehicle').takeover
      OBVIOUS
    <2>1. /\ vehicle'.batteryMillivolts = vehicle.batteryMillivolts
          /\ vehicle'.parkingBrakeApplied = vehicle.parkingBrakeApplied
          /\ vehicle'.criticalFaultPresent = vehicle.criticalFaultPresent
          /\ vehicle'.transmission = vehicle.transmission
          /\ vehicle'.gear = vehicle.gear
          /\ vehicle'.hoodClosed = vehicle.hoodClosed
          /\ vehicle'.trunkClosed = vehicle.trunkClosed
          /\ vehicle'.engineRpm = vehicle.engineRpm
      BY DEF Signals
    <2>2. \A s \in {"batteryMillivolts", "parkingBrakeApplied", "transmission",
                    "gear", "criticalFaultPresent", "hoodClosed", "trunkClosed",
                    "engineRpm"} : s \in vehicle'.fresh <=> s \in vehicle.fresh
      BY DEF Signals
    <2>3. /\ CommonConditions(policy, vehicle, policy.requireVehicleSecured,
                              policy.requireVehicleSecured, TRUE)
          /\ "engineRpm" \in vehicle.fresh
          /\ ~(vehicle.engineRpm < policy.runningRpmThreshold)
      BY AssessRemoteRunEmpty DEF Refuses
    <2>4. TransmissionIsSafe(policy, vehicle')
      BY <2>1, <2>3 DEF TransmissionIsSafe, CommonConditions
    <2>5. CommonConditions(policy, vehicle', FALSE,
                           policy.requireVehicleSecured, FALSE)
      BY <2>1, <2>2, <2>3, <2>4 DEF CommonConditions
    <2> QED
      BY <2>1, <2>2, <2>3, <2>5, AssessDriverTakeoverEmpty DEF Refuses
  <1>2. [WatchNext]_watchVars => [Entry => ~Refuses(vehicle').takeover]_watchVars
    BY <1>1
  <1> QED
    BY <1>2, PTL DEF WatchSpec, EntryKeepsTakeover

\* The check of these signals is disabled; two vehicles agree on all the others.
Disabled(ignored) ==
    IF "hoodClosed" \in ignored THEN ~policy.requireHoodClosed
                                ELSE ~policy.requireVehicleSecured
AgreeBut(v, w, ignored) ==
    \A s \in Signals \ ignored :
        w[s] = v[s] /\ (s \in w.fresh <=> s \in v.fresh)

\* Two vehicles that differ only in signals of a disabled check meet the same common
\* conditions, whether the caller asks for the doors and the trunk or not.
LEMMA DisabledConditions ==
    ASSUME NEW ignored \in {{"hoodClosed"}, {"doorsClosed", "trunkClosed"}},
           NEW v, NEW w, Disabled(ignored), AgreeBut(v, w, ignored),
           NEW doors, doors => policy.requireVehicleSecured,
           NEW trunk, trunk => policy.requireVehicleSecured, NEW brake
    PROVE  CommonConditions(policy, w, doors, trunk, brake)
             <=> CommonConditions(policy, v, doors, trunk, brake)
  <1>1. /\ w.batteryMillivolts = v.batteryMillivolts
        /\ w.parkingBrakeApplied = v.parkingBrakeApplied
        /\ w.criticalFaultPresent = v.criticalFaultPresent
        /\ w.transmission = v.transmission /\ w.gear = v.gear
        /\ w.brakePressed = v.brakePressed
    BY DEF AgreeBut, Signals
  <1>2. \A s \in {"batteryMillivolts", "parkingBrakeApplied", "transmission", "gear",
                  "criticalFaultPresent", "brakePressed"} :
            s \in w.fresh <=> s \in v.fresh
    BY DEF AgreeBut, Signals
  <1>3. TransmissionIsSafe(policy, w) <=> TransmissionIsSafe(policy, v)
    BY <1>1 DEF TransmissionIsSafe
  <1>4. (policy.requireHoodClosed => "hoodClosed" \in w.fresh /\ w.hoodClosed)
          <=> (policy.requireHoodClosed => "hoodClosed" \in v.fresh /\ v.hoodClosed)
    BY DEF AgreeBut, Disabled, Signals
  <1>5. (doors => "doorsClosed" \in w.fresh /\ w.doorsClosed)
          <=> (doors => "doorsClosed" \in v.fresh /\ v.doorsClosed)
    BY DEF AgreeBut, Disabled, Signals
  <1>6. (trunk => "trunkClosed" \in w.fresh /\ w.trunkClosed)
          <=> (trunk => "trunkClosed" \in v.fresh /\ v.trunkClosed)
    BY DEF AgreeBut, Disabled, Signals
  <1> QED
    BY <1>1, <1>2, <1>3, <1>4, <1>5, <1>6 DEF CommonConditions

\* For any limits and any vehicle, the four assessments ignore the hood, or the doors
\* and the trunk, when their check is disabled (safety_policy.cpp, assessCommon).
THEOREM DisabledChecksHaveNoEffect == WatchSpec => DisabledChecksAreIgnored
  <1> DEFINE Unchecked(ignored) ==
                 /\ ~(IF "hoodClosed" \in ignored THEN policy.requireHoodClosed
                                                  ELSE policy.requireVehicleSecured)
                 /\ \A s \in Signals \ ignored :
                        /\ vehicle'[s] = vehicle[s]
                        /\ s \in vehicle'.fresh <=> s \in vehicle.fresh
             Same == Refuses(vehicle') = Refuses(vehicle)
  <1>1. ASSUME NEW ignored \in {{"hoodClosed"}, {"doorsClosed", "trunkClosed"}},
               Unchecked(ignored)
        PROVE  Same
    <2>1. Disabled(ignored) /\ AgreeBut(vehicle, vehicle', ignored)
      BY <1>1 DEF Disabled, AgreeBut
    <2>2. /\ vehicle'.engineRpm = vehicle.engineRpm
          /\ "engineRpm" \in vehicle'.fresh <=> "engineRpm" \in vehicle.fresh
      BY <2>1 DEF AgreeBut, Signals
    <2>3. \A brake :
              CommonConditions(policy, vehicle', policy.requireVehicleSecured,
                               policy.requireVehicleSecured, brake)
                <=> CommonConditions(policy, vehicle, policy.requireVehicleSecured,
                                     policy.requireVehicleSecured, brake)
      BY <2>1, DisabledConditions
    <2>4. CommonConditions(policy, vehicle', FALSE, policy.requireVehicleSecured, FALSE)
            <=> CommonConditions(policy, vehicle, FALSE, policy.requireVehicleSecured,
                                 FALSE)
      BY <2>1, DisabledConditions
    <2>5. Approved(AssessStart(policy, vehicle')) <=> Approved(AssessStart(policy, vehicle))
      BY <2>2, <2>3, AssessStartEmpty
    <2>6. Approved(AssessCranking(policy, vehicle'))
            <=> Approved(AssessCranking(policy, vehicle))
      BY <2>2, <2>3, AssessCrankingEmpty
    <2>7. Approved(AssessRemoteRun(policy, vehicle'))
            <=> Approved(AssessRemoteRun(policy, vehicle))
      BY <2>2, <2>3, AssessRemoteRunEmpty
    <2>8. Approved(AssessDriverTakeover(policy, vehicle'))
            <=> Approved(AssessDriverTakeover(policy, vehicle))
      BY <2>2, <2>4, AssessDriverTakeoverEmpty
    <2> QED
      BY <2>5, <2>6, <2>7, <2>8 DEF Refuses
  <1> DEFINE Ignored == \A ignored \in {{"hoodClosed"}, {"doorsClosed", "trunkClosed"}} :
                            Unchecked(ignored) => Same
  <1>2. [WatchNext]_watchVars => [Ignored]_watchVars
    BY <1>1
  <1> QED
    BY <1>2, PTL DEF WatchSpec, DisabledChecksAreIgnored
-----------------------------------------------------------------------------
(* The records that the updates of the vehicle add to the journal.  The      *)
(* bound alone is not inductive: it takes what the state, and the decision   *)
(* about to be executed, still let the updates add (Left).                   *)

\* How many records the updates of the vehicle may still add from a state, the failures
\* of the decisions they lead to included.
LeftFrom(s) ==
    CASE s = "Cranking" -> 9
      [] s \in {"Authorizing", "Running"} -> 8
      [] s \in {"Stopping", "DriverControl"} -> 7
      [] s \in {"Preparing", "AwaitingTakeover"} -> 6
      [] OTHER -> 0
LeftByFailure(s) == IF s = "Fault" THEN 4 ELSE 6
Left ==
    CASE stage = "ready" -> LeftFrom(state)
      [] stage = "execute" ->
            IF FailuresOf(actions) # {} /\ LeftByFailure(state) > LeftFrom(state)
            THEN LeftByFailure(state) ELSE LeftFrom(state)
      [] OTHER -> 3

JournalInv ==
    /\ state \in States
    /\ stage \in {"ready", "execute", "safing"}
    /\ stage = "safing" => state = "Fault"
    /\ periodic \in Nat
    /\ periodic + Left <= 9

LEMMA LeftIsSmall ==
    \A s : LeftFrom(s) \in 0..9 /\ LeftByFailure(s) \in {4, 6}
  BY DEF LeftFrom, LeftByFailure

LEMMA LeftIsNumber == Left \in 0..9
<1>1. LeftFrom(state) \in 0..9 /\ LeftByFailure(state) \in {4, 6}
  BY LeftIsSmall
<1> QED  BY <1>1 DEF Left

Counted(holds) == IF holds THEN 1 ELSE 0

\* The records of an event, by what it led to.
LEMMA WhenCounts ==
    ASSUME NEW S, NEW r \in S, NEW b
    PROVE  When(b, r) \in Seq(S) /\ Len(When(b, r)) = Counted(b)
  BY DEF When, Counted

LEMMA ObservedCounts ==
    ASSUME NEW event
    PROVE  /\ Len(Observed(event)) =
                 Counted(event \in Commands) + Counted(state # state')
                 + Counted(RejectionReason(actions') # "none")
                 + Counted(state # "Fault" /\ state' = "Fault")
           /\ \A r : Len(<<r>> \o Observed(event)) = 1 + Len(Observed(event))
<1> SUFFICES ASSUME NEW r
             PROVE  /\ Len(Observed(event)) =
                          Counted(event \in Commands) + Counted(state # state')
                          + Counted(RejectionReason(actions') # "none")
                          + Counted(state # "Fault" /\ state' = "Fault")
                    /\ Len(<<r>> \o Observed(event)) = 1 + Len(Observed(event))
  OBVIOUS
<1> DEFINE r1 == Record("command_received", state, state, fault, "none")
           r2 == Record("state_transition", state, state', fault', "none")
           r3 == Record("request_rejected", state, state', fault', RejectionReason(actions'))
           r4 == Record("fault_entered", state, state', fault',
                        IF fault' = "SafetyInterlock" THEN "safety_policy" ELSE "none")
           S == {r, r1, r2, r3, r4}
           w1 == When(event \in Commands, r1)
           w2 == When(state # state', r2)
           w3 == When(RejectionReason(actions') # "none", r3)
           w4 == When(state # "Fault" /\ state' = "Fault", r4)
<1>1. Observed(event) = ((w1 \o w2) \o w3) \o w4
  BY DEF Observed
<1>2. r \in S /\ r1 \in S /\ r2 \in S /\ r3 \in S /\ r4 \in S
  OBVIOUS
<1> HIDE DEF r1, r2, r3, r4, S
<1>3. /\ w1 \in Seq(S) /\ Len(w1) = Counted(event \in Commands)
      /\ w2 \in Seq(S) /\ Len(w2) = Counted(state # state')
      /\ w3 \in Seq(S) /\ Len(w3) = Counted(RejectionReason(actions') # "none")
      /\ w4 \in Seq(S) /\ Len(w4) = Counted(state # "Fault" /\ state' = "Fault")
  BY <1>2, WhenCounts
<1> HIDE DEF w1, w2, w3, w4
<1>4. w1 \o w2 \in Seq(S) /\ Len(w1 \o w2) = Len(w1) + Len(w2)
  BY <1>3, ConcatProperties
<1>5. (w1 \o w2) \o w3 \in Seq(S) /\ Len((w1 \o w2) \o w3) = Len(w1 \o w2) + Len(w3)
  BY <1>3, <1>4, ConcatProperties
<1>6. /\ ((w1 \o w2) \o w3) \o w4 \in Seq(S)
      /\ Len(((w1 \o w2) \o w3) \o w4) = Len((w1 \o w2) \o w3) + Len(w4)
  BY <1>3, <1>5, ConcatProperties
<1>7. Len(<<r>> \o Observed(event)) = 1 + Len(Observed(event))
  <2>1. <<r>> \in Seq(S) /\ Len(<<r>>) = 1
    BY <1>2
  <2> QED  BY <1>1, <1>6, <2>1, ConcatProperties
<1> QED  BY <1>1, <1>3, <1>4, <1>5, <1>6, <1>7

LEMMA CountedIsNumber == \A b : Counted(b) \in {0, 1}
  BY DEF Counted

\* The rejections that the decisions tell of.
Rejections == {"NotifyRemoteStartDisabled", "NotifyProfileRejected", "NotifyStartRejected",
               "NotifyResetRejected", "NotifyRequestIgnored"}
LEMMA NoRejection ==
    ASSUME NEW decided, \A n \in 1..Len(decided) : decided[n] \notin Rejections
    PROVE  RejectionReason(decided) = "none"
  BY DEF RejectionReason, Contains, Rejections

\* A decision of no action cannot fail.
LEMMA NothingFails == FailuresOf(<<>>) = {}
  BY DEF FailuresOf

\* What an update of the vehicle leads to.
UpdateLeadsTo(s, t) ==
    \/ s = "Authorizing" /\ t \in {"Preparing", "Idle"}
    \/ s = "Preparing" /\ t = "Fault"
    \/ s = "Cranking" /\ t \in {"Running", "Fault"}
    \/ s = "Running" /\ t \in {"AwaitingTakeover", "Stopping", "Fault"}
    \/ s = "AwaitingTakeover" /\ t = "Fault"
    \/ s = "DriverControl" /\ t = "Idle"
    \/ s = "Stopping" /\ t = "Idle"

LEMMA UpdateSteps ==
    ASSUME NEW v, HandleVehicleUpdate(v)
    PROVE  \/ state' = state /\ actions' = <<>>
           \/ /\ UpdateLeadsTo(state, state')
              /\ state # "Authorizing" \/ state' = "Preparing" =>
                    RejectionReason(actions') = "none"
<1> USE DEF Decide, Reply, UpdateLeadsTo
<1>1. ASSUME NEW code, EnterFault(code)
      PROVE  state' = "Fault" /\ RejectionReason(actions') = "none"
  <2>1. actions' = FaultActions /\ state' = "Fault"
    BY <1>1 DEF EnterFault
  <2>2. \A n \in 1..Len(FaultActions) : FaultActions[n] \notin Rejections
    BY DEF FaultActions, Rejections
  <2> QED  BY <2>1, <2>2, NoRejection
<1>2. CASE UpdateWhileAuthorizing(v)
  <2>1. CASE StartApproved(v)
    <3> DEFINE d == <<"CancelTimer", "EnableIgnition", "NotifyStartAccepted", "ArmTimer">>
    <3>1. state = "Authorizing" /\ state' = "Preparing" /\ actions' = d
      BY <1>2, <2>1 DEF UpdateWhileAuthorizing, BeginPreparing
    <3>2. \A n \in 1..Len(d) : d[n] \notin Rejections
      BY DEF Rejections
    <3> QED  BY <3>1, <3>2, NoRejection
  <2>2. CASE ~StartApproved(v)
    BY <1>2, <2>2 DEF UpdateWhileAuthorizing
  <2> QED  BY <2>1, <2>2
<1>3. CASE UpdateWhilePreparing(v)
  BY <1>1, <1>3 DEF UpdateWhilePreparing
<1>4. CASE UpdateWhileCranking(v)
  <2>1. CASE BeginRunning
    <3> DEFINE d == <<"CancelTimer", "DisengageStarter", "NotifyRunning", "ArmTimer">>
    <3>1. state = "Cranking" /\ state' = "Running" /\ actions' = d
      BY <1>4, <2>1 DEF UpdateWhileCranking, BeginRunning
    <3>2. \A n \in 1..Len(d) : d[n] \notin Rejections
      BY DEF Rejections
    <3> QED  BY <3>1, <3>2, NoRejection
  <2> QED  BY <1>1, <1>4, <2>1 DEF UpdateWhileCranking
<1>5. CASE UpdateWhileRunning(v)
  <2>1. CASE BeginAwaitingTakeover
    <3> DEFINE d == <<"CancelTimer", "NotifyTakeoverPending", "ArmTimer">>
    <3>1. state = "Running" /\ state' = "AwaitingTakeover" /\ actions' = d
      BY <1>5, <2>1 DEF UpdateWhileRunning, BeginAwaitingTakeover
    <3>2. \A n \in 1..Len(d) : d[n] \notin Rejections
      BY DEF Rejections
    <3> QED  BY <3>1, <3>2, NoRejection
  <2>2. CASE BeginStopping
    <3> DEFINE d == <<"CancelTimer", "DisengageStarter", "SecureOutputs",
                      "NotifyStopping", "ArmTimer">>
    <3>1. state = "Running" /\ state' = "Stopping" /\ actions' = d
      BY <1>5, <2>2 DEF UpdateWhileRunning, BeginStopping
    <3>2. \A n \in 1..Len(d) : d[n] \notin Rejections
      BY DEF Rejections
    <3> QED  BY <3>1, <3>2, NoRejection
  <2>3. CASE EnterFault("SafetyInterlock")
    BY <1>1, <1>5, <2>3 DEF UpdateWhileRunning
  <2>4. CASE Reply(<<>>)
    BY <2>4
  <2> QED  BY <1>5, <2>1, <2>2, <2>3, <2>4 DEF UpdateWhileRunning
<1>6. CASE UpdateWhileAwaitingTakeover(v)
  BY <1>1, <1>6 DEF UpdateWhileAwaitingTakeover
<1>7. CASE UpdateWhileDriverControl(v)
  <2> DEFINE d == <<"NotifyReady">>
  <2>1. \A n \in 1..Len(d) : d[n] \notin Rejections
    BY DEF Rejections
  <2>2. RejectionReason(d) = "none"
    BY <2>1, NoRejection
  <2> QED  BY <1>7, <2>2 DEF UpdateWhileDriverControl
<1>8. CASE UpdateWhileStopping(v)
  <2> DEFINE d == <<"CancelTimer", "DisengageStarter", "SecureOutputs", "NotifyStopped">>
  <2>1. \A n \in 1..Len(d) : d[n] \notin Rejections
    BY DEF Rejections
  <2>2. RejectionReason(d) = "none"
    BY <2>1, NoRejection
  <2> QED  BY <1>8, <2>2 DEF UpdateWhileStopping, CompleteStop
<1>9. CASE state \in {"Idle", "Fault"} /\ Reply(<<>>)
  BY <1>9
<1> QED
  BY <1>2, <1>3, <1>4, <1>5, <1>6, <1>7, <1>8, <1>9 DEF HandleVehicleUpdate

\* The same bound after the step.
LEMMA LeftIsNumberNext == Left' \in 0..9
<1>1. LeftFrom(state') \in 0..9 /\ LeftByFailure(state') \in {4, 6}
  BY LeftIsSmall
<1> QED  BY <1>1 DEF Left

\* Every handler leads to a state of the controller.
LEMMA HandlersStayInStates ==
    ASSUME state \in States
    PROVE  /\ HandleStartRequest => state' \in States
           /\ HandleStopRequest => state' \in States
           /\ \A v : HandleVehicleUpdate(v) => state' \in States
           /\ \A v : HandleDriverTakeover(v) => state' \in States
           /\ \A v : HandleReset(v) => state' \in States
           /\ \A v : HandleTimer(v) => state' \in States
           /\ \A code : HandleInfrastructureFailure(code) => state' \in States
<1> USE DEF States, Reply, Decide
<1>1. HandleStartRequest => state' \in States
  BY DEF HandleStartRequest
<1>2. HandleStopRequest => state' \in States
  BY DEF HandleStopRequest, CompleteStop, BeginStopping
<1>3. ASSUME NEW v, HandleVehicleUpdate(v) PROVE state' \in States
  BY <1>3, UpdateSteps DEF UpdateLeadsTo
<1>4. ASSUME NEW v, HandleDriverTakeover(v) PROVE state' \in States
  BY <1>4 DEF HandleDriverTakeover, CompleteDriverTakeover, EnterFault
<1>5. ASSUME NEW v, HandleReset(v) PROVE state' \in States
  BY <1>5 DEF HandleReset
<1>6. ASSUME NEW v, HandleTimer(v) PROVE state' \in States
  BY <1>6 DEF HandleTimer, EnterFault, BeginCranking, BeginStopping
<1>7. ASSUME NEW code, HandleInfrastructureFailure(code) PROVE state' \in States
  BY <1>7 DEF HandleInfrastructureFailure, EnterFault
<1> QED  BY <1>1, <1>2, <1>3, <1>4, <1>5, <1>6, <1>7

\* An event other than an update starts the count again.
LEMMA OtherEventsCountAgain ==
    ASSUME stage' = "execute", periodic' = 0, state' \in States
    PROVE  JournalInv'
<1>1. Left' \in 0..9
  BY LeftIsNumberNext
<1>2. (periodic + Left <= 9)'
  <2>1. \A n \in 0..9 : 0 + n <= 9
    OBVIOUS
  <2> QED  BY <1>1, <2>1
<1> QED  BY <1>2 DEF JournalInv

\* The records of an update and what may follow it come out of what was left.
LEMMA UpdateSpendsWhatIsLeft ==
    ASSUME NEW v, HandleVehicleUpdate(v), state \in States, stage' = "execute"
    PROVE  Len(Observed("VehicleStateUpdated")) + Left' <= LeftFrom(state)
<1> DEFINE n == Len(Observed("VehicleStateUpdated"))
           rejected == Counted(RejectionReason(actions') # "none")
<1>1. n = Counted("VehicleStateUpdated" \in Commands) + Counted(state # state')
              + rejected + Counted(state # "Fault" /\ state' = "Fault")
  BY ObservedCounts
<1>2. Counted("VehicleStateUpdated" \in Commands) = 0
  BY DEF Counted, Commands
<1>3. rejected \in {0, 1}
  BY CountedIsNumber
<1>4. Left' = IF FailuresOf(actions') # {} /\ LeftByFailure(state') > LeftFrom(state')
              THEN LeftByFailure(state') ELSE LeftFrom(state')
  BY DEF Left
<1>5. CASE state' = state /\ actions' = <<>>
  <2>1. RejectionReason(<<>>) = "none"
    <3>1. \A k \in 1..Len(<<>>) : <<>>[k] \notin Rejections
      OBVIOUS
    <3> QED  BY <3>1, NoRejection
  <2>2. n = 0
    BY <1>1, <1>2, <1>5, <2>1 DEF Counted
  <2>3. Left' = LeftFrom(state)
    BY <1>4, <1>5, NothingFails
  <2>4. LeftFrom(state) \in 0..9
    BY LeftIsSmall
  <2> QED  BY <2>2, <2>3, <2>4
<1>6. CASE /\ UpdateLeadsTo(state, state')
           /\ state # "Authorizing" \/ state' = "Preparing" =>
                 RejectionReason(actions') = "none"
  <2>1. state # "Authorizing" \/ state' = "Preparing" => rejected = 0
    BY <1>6 DEF Counted
  <2>2. state # state'
    BY <1>6 DEF UpdateLeadsTo
  <2>3. n = 1 + rejected + (IF state' = "Fault" THEN 1 ELSE 0)
    <3>1. Counted(state # state') = 1
      BY <2>2 DEF Counted
    <3>2. Counted(state # "Fault" /\ state' = "Fault") = IF state' = "Fault" THEN 1 ELSE 0
      BY <2>2 DEF Counted
    <3> HIDE DEF n, rejected
    <3> QED  BY <1>1, <1>2, <1>3, <3>1, <3>2
  <2>4. Left' \in 0..9
    BY LeftIsNumberNext
  <2>5. /\ state' = "Preparing" => Left' <= 6
        /\ state' = "Running" => Left' <= 8
        /\ state' = "Stopping" => Left' <= 7
        /\ state' \in {"Idle", "AwaitingTakeover"} => Left' <= 6
        /\ state' = "Fault" => Left' <= 4
    BY <1>4 DEF LeftFrom, LeftByFailure
  <2> HIDE DEF n, rejected
  <2>6. CASE state = "Authorizing"
    <3>1. LeftFrom(state) = 8 /\ state' \in {"Preparing", "Idle"}
      BY <1>6, <2>6 DEF UpdateLeadsTo, LeftFrom
    <3>2. n <= 2 /\ n \in Nat
      BY <1>3, <2>3, <3>1
    <3>3. Left' <= 6
      BY <2>5, <3>1
    <3>4. n + Left' <= 8
      <4>1. Left' \in 0..6
        BY <2>4, <3>3
      <4>2. \A k \in {0, 1, 2} : \A m \in 0..6 : k + m <= 8
        OBVIOUS
      <4>3. n \in {0, 1, 2}
        BY <3>2
      <4> QED  BY <4>1, <4>2, <4>3, Zenon
    <3> QED  BY <3>1, <3>4 DEF n
  <2>7. CASE state # "Authorizing"
    <3>1. n = 1 + (IF state' = "Fault" THEN 1 ELSE 0)
      BY <2>1, <2>3, <2>7
    <3>2. \/ state' = "Fault" /\ LeftFrom(state) >= 6
          \/ state' = "Running" /\ LeftFrom(state) = 9
          \/ state' = "AwaitingTakeover" /\ LeftFrom(state) = 8
          \/ state' = "Stopping" /\ LeftFrom(state) = 8
          \/ state' = "Idle" /\ LeftFrom(state) = 7
      BY <1>6, <2>7 DEF UpdateLeadsTo, LeftFrom
    <3>3. LeftFrom(state) \in 0..9
      BY LeftIsSmall
    <3>4. n + Left' <= LeftFrom(state)
      BY <2>4, <2>5, <3>1, <3>2, <3>3
    <3> QED  BY <3>4 DEF n
  <2> QED  BY <2>6, <2>7
<1> QED  BY <1>5, <1>6, UpdateSteps

\* The records of a failed execution, by whether it found the controller in the fault.
LEMMA FailureCounts ==
    ASSUME NEW code, NEW r, HandleInfrastructureFailure(code)
    PROVE  /\ state' = "Fault"
           /\ Len(<<r>> \o Observed("InfrastructureFailure")) =
                 IF state = "Fault" THEN 1 ELSE 3
<1>1. state' = "Fault" /\ actions' = FaultActions
  BY DEF HandleInfrastructureFailure, EnterFault, Decide
<1>2. RejectionReason(actions') = "none"
  <2>1. \A n \in 1..Len(FaultActions) : FaultActions[n] \notin Rejections
    BY DEF FaultActions, Rejections
  <2> QED  BY <1>1, <2>1, NoRejection
<1>3. Len(Observed("InfrastructureFailure")) = IF state = "Fault" THEN 0 ELSE 2
  <2>1. "InfrastructureFailure" \notin Commands
    BY DEF Commands
  <2> QED  BY <1>1, <1>2, <2>1, ObservedCounts DEF Counted
<1>4. Len(<<r>> \o Observed("InfrastructureFailure"))
         = 1 + Len(Observed("InfrastructureFailure"))
  BY ObservedCounts
<1>5. CASE state = "Fault"
  <2>1. Len(Observed("InfrastructureFailure")) = 0
    BY <1>3, <1>5
  <2>2. Len(<<r>> \o Observed("InfrastructureFailure")) = 1 + 0
    BY <1>4, <2>1
  <2> QED  BY <1>1, <1>5, <2>2
<1>6. CASE state # "Fault"
  <2>1. Len(Observed("InfrastructureFailure")) = 2
    BY <1>3, <1>6
  <2>2. Len(<<r>> \o Observed("InfrastructureFailure")) = 1 + 2
    BY <1>4, <2>1
  <2> QED  BY <1>1, <1>6, <2>2
<1> QED  BY <1>5, <1>6

\* At most the three actions of a safing fail.
LEMMA SafingFailsAtMostThrice ==
    ASSUME NEW failing \in SUBSET {"CancelTimer", "DisengageStarter", "SecureOutputs"}
    PROVE  Cardinality(failing) \in 0..3
<1> DEFINE all == {"CancelTimer", "DisengageStarter", "SecureOutputs"}
<1>1. IsFiniteSet({}) /\ Cardinality({}) = 0
  BY FS_EmptySet
<1>2. IsFiniteSet({"CancelTimer"}) /\ Cardinality({"CancelTimer"}) = 1
  BY FS_Singleton
<1>3. /\ IsFiniteSet({"CancelTimer"} \cup {"DisengageStarter"})
      /\ Cardinality({"CancelTimer"} \cup {"DisengageStarter"}) = 2
  BY <1>2, FS_AddElement
<1>4. /\ IsFiniteSet(({"CancelTimer"} \cup {"DisengageStarter"}) \cup {"SecureOutputs"})
      /\ Cardinality(({"CancelTimer"} \cup {"DisengageStarter"}) \cup {"SecureOutputs"}) = 3
  BY <1>3, FS_AddElement
<1>5. all = ({"CancelTimer"} \cup {"DisengageStarter"}) \cup {"SecureOutputs"}
  OBVIOUS
<1>6. IsFiniteSet(all) /\ Cardinality(all) = 3
  BY <1>4, <1>5
<1>7. IsFiniteSet(failing) /\ Cardinality(failing) <= Cardinality(all)
  BY <1>6, FS_Subset
<1>8. Cardinality(failing) \in Nat
  BY <1>7, FS_CardinalityType
<1> QED  BY <1>6, <1>7, <1>8

\* An update finds enough left for its records and for what may follow.
LEMMA UpdateKeepsJournalInv == JournalInv /\ VehicleStateUpdated => JournalInv'
<1> SUFFICES ASSUME JournalInv, VehicleStateUpdated PROVE JournalInv'
  OBVIOUS
<1> DEFINE n == Len(Observed("VehicleStateUpdated"))
<1>1. PICK v \in Snapshots : Dispatch("VehicleStateUpdated", HandleVehicleUpdate(v))
  BY DEF VehicleStateUpdated
<1>2. stage = "ready" /\ HandleVehicleUpdate(v) /\ stage' = "execute"
  BY <1>1 DEF Dispatch
<1>3. periodic' = periodic + n
  BY <1>1 DEF Dispatch, Journalled
<1>4. n + Left' <= LeftFrom(state)
  BY <1>2, UpdateSpendsWhatIsLeft DEF JournalInv
<1>5. Left = LeftFrom(state)
  BY <1>2 DEF Left
<1>6. state' \in States
  BY <1>2, HandlersStayInStates DEF JournalInv
<1>7. Left' \in 0..9 /\ LeftFrom(state) \in 0..9
  BY LeftIsNumberNext, LeftIsSmall
<1>8. n \in Nat
  <2>1. n = Counted("VehicleStateUpdated" \in Commands) + Counted(state # state')
               + Counted(RejectionReason(actions') # "none")
               + Counted(state # "Fault" /\ state' = "Fault")
    BY ObservedCounts
  <2>2. \A b : Counted(b) \in Nat
    BY CountedIsNumber
  <2> HIDE DEF n
  <2> QED  BY <2>1, <2>2
<1>9. periodic \in Nat /\ periodic + LeftFrom(state) <= 9
  BY <1>5 DEF JournalInv
<1> HIDE DEF n
<1>10. periodic' \in Nat /\ periodic' + Left' <= 9
  <2>1. \A p, k, m, l \in Nat : k + m <= l /\ p + l <= 9 => (p + k) + m <= 9
    OBVIOUS
  <2>2. Left' \in Nat /\ LeftFrom(state) \in Nat
    BY <1>7
  <2>3. (periodic + n) + Left' <= 9
    BY <1>4, <1>8, <1>9, <2>1, <2>2
  <2> QED  BY <1>3, <1>8, <1>9, <2>3
<1> QED  BY <1>2, <1>6, <1>10 DEF JournalInv

\* A failed execution spends one record or three, and leaves the three of the safing.
LEMMA FailureKeepsJournalInv == JournalInv /\ DecisionFails => JournalInv'
<1> SUFFICES ASSUME JournalInv, DecisionFails PROVE JournalInv'
  OBVIOUS
<1>1. PICK code \in FailuresOf(actions) :
         /\ HandleInfrastructureFailure(code)
         /\ Journalled(<<Record("infrastructure_failure", state, state, code, "none")>>
                           \o Observed("InfrastructureFailure"), InUpdate)
  BY DEF DecisionFails
<1> DEFINE n == Len(<<Record("infrastructure_failure", state, state, code, "none")>>
                        \o Observed("InfrastructureFailure"))
<1>2. stage = "execute" /\ stage' = "safing" /\ FailuresOf(actions) # {}
  BY <1>1 DEF DecisionFails
<1>3. periodic' = IF periodic > 0 THEN periodic + n ELSE 0
  BY <1>1 DEF Journalled, InUpdate
<1>4. state' = "Fault" /\ n = IF state = "Fault" THEN 1 ELSE 3
  BY <1>1, FailureCounts
<1>5. Left' = 3
  BY <1>2 DEF Left
<1>6. LeftFrom(state) \in 0..9 /\ LeftByFailure(state) = IF state = "Fault" THEN 4 ELSE 6
  BY LeftIsSmall DEF LeftByFailure
<1>7. Left = IF LeftByFailure(state) > LeftFrom(state) THEN LeftByFailure(state)
                                                       ELSE LeftFrom(state)
  BY <1>2 DEF Left
<1>8. n + 3 <= Left /\ Left \in 0..9
  <2> HIDE DEF n
  <2>1. CASE state = "Fault"
    BY <1>4, <1>6, <1>7, <2>1
  <2>2. CASE state # "Fault"
    BY <1>4, <1>6, <1>7, <2>2
  <2> QED  BY <2>1, <2>2
<1>9. periodic \in Nat /\ periodic + Left <= 9
  BY DEF JournalInv
<1>10. n \in {1, 3}
  BY <1>4
<1> HIDE DEF n
<1>11. periodic' \in Nat /\ periodic' + 3 <= 9
  BY <1>3, <1>8, <1>9, <1>10
<1> QED  BY <1>2, <1>4, <1>5, <1>11 DEF JournalInv, States

\* A safing spends at most what was kept for it.
LEMMA SafingKeepsJournalInv == JournalInv /\ SafingExecuted => JournalInv'
<1> SUFFICES ASSUME JournalInv, SafingExecuted PROVE JournalInv'
  OBVIOUS
<1> DEFINE Failed(failing) ==
             [k \in 1..Cardinality(failing) |->
                 Record("safing_failure", state, state,
                        IF k = 1 /\ "CancelTimer" \in failing
                        THEN "TimerFailure" ELSE "ActuatorFailure", "none")]
<1>1. PICK failing \in SUBSET {"CancelTimer", "DisengageStarter", "SecureOutputs"} :
         Journalled(Failed(failing), InUpdate)
  BY DEF SafingExecuted
<1>2. stage = "safing" /\ stage' = "ready" /\ state' = state
  BY DEF SafingExecuted, controllerVars
<1>3. Cardinality(failing) \in 0..3
  BY SafingFailsAtMostThrice
<1>4. Len(Failed(failing)) = Cardinality(failing)
  BY <1>3
<1>5. periodic' = IF periodic > 0 THEN periodic + Cardinality(failing) ELSE 0
  BY <1>1, <1>4 DEF Journalled, InUpdate
<1>6. state = "Fault" /\ Left = 3 /\ Left' = 0
  BY <1>2 DEF JournalInv, Left, LeftFrom
<1>7. periodic \in Nat /\ periodic + 3 <= 9
  BY <1>6 DEF JournalInv
<1>8. periodic' \in Nat /\ periodic' + 0 <= 9
  BY <1>3, <1>5, <1>7
<1> QED  BY <1>2, <1>6, <1>8 DEF JournalInv

\* What the updates may still add is enough after every step.
THEOREM JournalInvariant == JournalSpec => []JournalInv
<1>1. JournalInit => JournalInv
  <2> SUFFICES ASSUME JournalInit PROVE JournalInv
    OBVIOUS
  <2>1. state = "Idle" /\ stage = "ready" /\ periodic = 0
    BY DEF JournalInit, ControllerInit
  <2>2. Left = 0
    BY <2>1 DEF Left, LeftFrom
  <2> QED  BY <2>1, <2>2 DEF JournalInv, States
<1>2. JournalInv /\ [JournalNext]_journalVars => JournalInv'
  <2> SUFFICES ASSUME JournalInv, [JournalNext]_journalVars PROVE JournalInv'
    OBVIOUS
  <2> USE DEF Dispatch, Journalled
  <2>0. state \in States
    BY DEF JournalInv
  <2>1. CASE StartRequested
    <3>1. stage' = "execute" /\ periodic' = 0 /\ HandleStartRequest
      BY <2>1 DEF StartRequested
    <3> QED  BY <2>0, <3>1, HandlersStayInStates, OtherEventsCountAgain
  <2>2. CASE StopRequested
    <3>1. stage' = "execute" /\ periodic' = 0 /\ HandleStopRequest
      BY <2>2 DEF StopRequested
    <3> QED  BY <2>0, <3>1, HandlersStayInStates, OtherEventsCountAgain
  <2>3. CASE VehicleStateUpdated
    BY <2>3, UpdateKeepsJournalInv
  <2>4. CASE TakeoverConfirmed
    <3>1. stage' = "execute" /\ periodic' = 0 /\ \E v : HandleDriverTakeover(v)
      BY <2>4 DEF TakeoverConfirmed
    <3> QED  BY <2>0, <3>1, HandlersStayInStates, OtherEventsCountAgain
  <2>5. CASE ResetRequested
    <3>1. stage' = "execute" /\ periodic' = 0 /\ \E v : HandleReset(v)
      BY <2>5 DEF ResetRequested
    <3> QED  BY <2>0, <3>1, HandlersStayInStates, OtherEventsCountAgain
  <2>6. CASE TimerElapsed
    <3>1. stage' = "execute" /\ periodic' = 0 /\ \E v : HandleTimer(v)
      BY <2>6 DEF TimerElapsed
    <3> QED  BY <2>0, <3>1, HandlersStayInStates, OtherEventsCountAgain
  <2>7. CASE FailureReported
    <3>1. /\ stage' = "execute" /\ periodic' = 0
          /\ HandleInfrastructureFailure("ActuatorFailure")
      BY <2>7 DEF FailureReported
    <3> QED  BY <2>0, <3>1, HandlersStayInStates, OtherEventsCountAgain
  <2>8. CASE DecisionExecuted
    <3>1. /\ stage = "execute" /\ stage' = "ready" /\ state' = state
          /\ periodic' = periodic
      BY <2>8 DEF DecisionExecuted, controllerVars
    <3>2. Left' = LeftFrom(state)
      BY <3>1 DEF Left
    <3>3. LeftFrom(state) \in 0..9 /\ LeftByFailure(state) \in {4, 6}
      BY LeftIsSmall
    <3>4. Left \in 0..9 /\ LeftFrom(state) <= Left
      BY <3>1, <3>3 DEF Left
    <3>5. periodic \in Nat /\ periodic + Left <= 9
      BY DEF JournalInv
    <3>6. periodic + LeftFrom(state) <= 9
      BY <3>3, <3>4, <3>5
    <3> QED  BY <2>0, <3>1, <3>2, <3>5, <3>6 DEF JournalInv
  <2>9. CASE DecisionFails
    BY <2>9, FailureKeepsJournalInv
  <2>10. CASE SafingExecuted
    BY <2>10, SafingKeepsJournalInv
  <2>11. CASE Clear
    <3>1. stage = "ready" /\ stage' = "ready" /\ state' = state /\ periodic' = 0
      BY <2>11 DEF Clear, controllerVars
    <3>2. Left' \in 0..9
      BY LeftIsNumberNext
    <3>3. (periodic + Left <= 9)'
      <4>1. \A n \in 0..9 : 0 + n <= 9
        OBVIOUS
      <4> QED  BY <3>1, <3>2, <4>1
    <3> QED  BY <2>0, <3>1, <3>3 DEF JournalInv
  <2>12. CASE UNCHANGED journalVars
    BY <2>12 DEF journalVars, controllerVars, JournalInv, Left
  <2> QED
    BY <2>1, <2>2, <2>3, <2>4, <2>5, <2>6, <2>7, <2>8, <2>9, <2>10, <2>11, <2>12
    DEF JournalNext
<1> QED  BY <1>1, <1>2, PTL DEF JournalSpec

\* Between two other events the updates of the vehicle add at most nine records,
\* whatever the configuration, the snapshots and the failures (diagnostic_journal.cpp,
\* observe; runtime.cpp, dispatch).
THEOREM PeriodicUpdatesAddFewRecords == JournalSpec => []PeriodicUpdatesAreBounded
<1>1. JournalInv => PeriodicUpdatesAreBounded
  <2> SUFFICES ASSUME JournalInv PROVE PeriodicUpdatesAreBounded
    OBVIOUS
  <2>1. Left \in 0..9 /\ periodic \in Nat /\ periodic + Left <= 9
    BY LeftIsNumber DEF JournalInv
  <2> QED  BY <2>1 DEF PeriodicUpdatesAreBounded
<1> QED  BY <1>1, JournalInvariant, PTL
=============================================================================
