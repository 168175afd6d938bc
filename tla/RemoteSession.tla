--------------------------- MODULE RemoteSession ----------------------------
(***************************************************************************)
(* A remote start session: the Controller, the Runtime that executes its   *)
(* decisions one port call at a time, the actuator supervisor those calls  *)
(* go through, the timer, and the supervision task that beats and polls    *)
(* the supervisor between any two calls                                    *)
(* (src/infrastructure/runtime.cpp, tools/sandbox_session.cpp and the      *)
(* integration loop of docs/actuator-safety-supervisor.md).                *)
(***************************************************************************)
EXTENDS Controller, ActuatorSafetySupervisor

CONSTANT LateTimerEvents   \* may an expiry outlive cancel()? TimerPort does not say

ASSUME LateTimerAssumption == LateTimerEvents \in BOOLEAN

VARIABLES
    safing,         \* the Runtime is in executeSafing()
    timerArmed,     \* the timer behind TimerPort is running
    timerElapsed    \* its expiry is waiting to be dispatched

timerVars   == <<timerArmed, timerElapsed>>
sessionVars == <<controllerVars, supervisorVars, timerVars, safing>>

\* The Runtime has executed the whole decision: dispatch() has returned.
Ready == actions = <<>>

-----------------------------------------------------------------------------
(* dispatch(): the Controller decides, then the Runtime executes.          *)

Dispatch(handler) ==
    /\ Ready
    /\ handler
    /\ safing' = FALSE
    /\ UNCHANGED supervisorVars

RemoteStartRequested == Dispatch(HandleStartRequest) /\ UNCHANGED timerVars

RemoteStopRequested == Dispatch(HandleStopRequest) /\ UNCHANGED timerVars

VehicleStateUpdated ==
    /\ \E v \in Snapshots : Dispatch(HandleVehicleUpdate(v))
    /\ UNCHANGED timerVars

DriverTakeoverConfirmed ==
    /\ \E v \in Snapshots : Dispatch(HandleDriverTakeover(v))
    /\ UNCHANGED timerVars

ResetRequested ==
    /\ \E v \in Snapshots : Dispatch(HandleReset(v))
    /\ UNCHANGED timerVars

TimerDelivered ==
    /\ timerElapsed
    /\ \E v \in Snapshots : Dispatch(HandleTimer(v))
    /\ timerElapsed' = FALSE
    /\ UNCHANGED timerArmed

\* Mutant: the fault is looked at only while the engine is being started.
SupervisorFaultWhileCranking ==
    /\ supervisorFault # "None"
    /\ state = "Cranking"
    /\ Dispatch(HandleInfrastructureFailure("ActuatorFailure"))
    /\ UNCHANGED timerVars

\* propagateSupervisorFault()
SupervisorFaultPropagated ==
    /\ supervisorFault # "None"
    /\ state # "Fault"
    /\ Dispatch(HandleInfrastructureFailure("ActuatorFailure"))
    /\ UNCHANGED timerVars

-----------------------------------------------------------------------------
(* execute() and executeSafing(): one action of the decision per step.     *)

Executing(types) == ~Ready /\ Head(actions) \in types

Advance ==
    /\ actions' = Tail(actions)
    /\ safing' = (safing /\ Len(actions) > 1)
    /\ UNCHANGED <<config, state, fault>>

\* Mutant: the rest of the decision is executed before the fault is handled.
FailLate(code) ==
    IF safing THEN Advance
    ELSE Decide("Fault", code, Tail(actions) \o FaultActions) /\ safing' = TRUE

\* execute() stops at the first failure and hands it to the Controller, whose
\* new decision replaces the rest of the old one; executeSafing() goes on.
Fail(code) ==
    IF safing THEN Advance
    ELSE HandleInfrastructureFailure(code) /\ safing' = TRUE

Outcome(ok, code) == IF ok THEN Advance ELSE Fail(code)

Notify ==
    /\ Executing(Notifications)
    /\ Advance
    /\ UNCHANGED <<supervisorVars, timerVars>>

RequestVehicleState ==
    /\ Executing({"RequestVehicleState"})
    /\ \E ok \in BOOLEAN : Outcome(ok, "VehicleCommunication")
    /\ UNCHANGED <<supervisorVars, timerVars>>

ArmTimer ==
    /\ Executing({"ArmTimer"})
    /\ \E ok \in BOOLEAN :
          /\ timerArmed' \in (IF ok THEN {TRUE} ELSE {timerArmed, TRUE})
          /\ Outcome(ok, "TimerFailure")
    /\ UNCHANGED <<supervisorVars, timerElapsed>>

CancelTimer ==
    /\ Executing({"CancelTimer"})
    /\ \E ok \in BOOLEAN :
          /\ timerArmed' \in (IF ok THEN {FALSE} ELSE {timerArmed, FALSE})
          /\ timerElapsed' = (timerElapsed /\ (~ok \/ LateTimerEvents))
          /\ Outcome(ok, "TimerFailure")
    /\ UNCHANGED supervisorVars

ActuatorCall ==
    /\ \E ok \in BOOLEAN :
          /\ \/ Executing({"EnableIgnition"}) /\ EnableIgnition(ok)
             \/ Executing({"EngageStarter"}) /\ EngageStarter(ok)
             \/ Executing({"DisengageStarter"}) /\ DisengageStarter(ok)
             \/ Executing({"ReleaseRemoteControl"}) /\ ReleaseRemoteControl(ok)
             \/ Executing({"SecureOutputs"}) /\ SecureOutputs(ok)
          /\ Outcome(ok, "ActuatorFailure")
    /\ UNCHANGED timerVars

Execute == Notify \/ RequestVehicleState \/ ArmTimer \/ CancelTimer \/ ActuatorCall

-----------------------------------------------------------------------------
(* Everything else that runs meanwhile.                                    *)

\* The host clock stands still or advances between two readings.
Readings == {lastObservedMs, (lastObservedMs + 1) % ClockModulus}

\* Either no feedback (the default ActuatorFeedback) or any report.
Reports == {f \in ActuatorFeedback : ~f.available => ~OutputsReportedActive(f)}

ControlHeartbeat ==
    /\ \E now \in Readings, ok \in BOOLEAN : Heartbeat(now, ok)
    /\ UNCHANGED <<controllerVars, timerVars, safing>>

SupervisionPoll ==
    /\ \E now \in Readings, permitted \in BOOLEAN, report \in Reports :
          Poll(now, permitted, report)
    /\ UNCHANGED <<controllerVars, timerVars, safing>>

\* The host rearms the supervisor before it dispatches the reset request, once
\* the fault has reached the controller.
SupervisorRearmed ==
    /\ Ready
    /\ state = "Fault"
    /\ supervisorFault # "None"
    /\ \E now \in Readings, report \in Reports, ok \in BOOLEAN :
          ResetFault(now, report, ok)
    /\ UNCHANGED <<controllerVars, timerVars, safing>>

TimerExpires ==
    /\ timerArmed
    /\ timerArmed' = FALSE
    /\ timerElapsed' = TRUE
    /\ UNCHANGED <<controllerVars, supervisorVars, safing>>

-----------------------------------------------------------------------------

SessionInit ==
    /\ ControllerInit
    /\ SupervisorInit
    /\ safing = FALSE
    /\ timerArmed = FALSE
    /\ timerElapsed = FALSE

Request ==
    \/ RemoteStartRequested
    \/ RemoteStopRequested
    \/ VehicleStateUpdated
    \/ DriverTakeoverConfirmed
    \/ ResetRequested

SessionNext ==
    \/ Request
    \/ TimerDelivered
    \/ SupervisorFaultPropagated
    \/ Execute
    \/ ControlHeartbeat
    \/ SupervisionPoll
    \/ SupervisorRearmed
    \/ TimerExpires

SessionSpec == SessionInit /\ [][SessionNext]_sessionVars

\* dispatch() runs to its end once called and a running timer expires.  The
\* host dispatches synchronously, one event after the other, so an expiry or a
\* supervisor fault that waits is served although other events keep arriving.
SessionFairness ==
    /\ WF_sessionVars(Execute)
    /\ WF_sessionVars(TimerExpires)
    /\ SF_sessionVars(TimerDelivered)
    /\ SF_sessionVars(SupervisorFaultPropagated)

FairSessionSpec == SessionSpec /\ SessionFairness

-----------------------------------------------------------------------------
(* Correctness.                                                            *)

Pending(type) == \E i \in 1 .. Len(actions) : actions[i] = type

\* The starter turns only while the controller is cranking, or while the
\* decision that ends the cranking is being executed and its release is still
\* to come; a starter that stays live otherwise is one whose safing failed,
\* and the supervisor reports it.
StarterOnlyWhileCranking ==
    starterOutput =>
        \/ state = "Cranking"
        \/ Pending("DisengageStarter")
        \/ Pending("SecureOutputs")
        \/ safingFailed

\* Between two events, no output is live in a state that does not energize the
\* vehicle.  The only exceptions are a supervisor that could not safe the
\* outputs it found live at power-up, which refuses everything, and a
\* controller in Fault whose supervisor reports the failed safing: no session
\* ends in Idle, in Stopping or in the driver's hands with a live output.
RestIsSafe ==
    Ready /\ (ignitionOutput \/ starterOutput) =>
        \/ state \in {"Preparing", "Cranking", "Running", "AwaitingTakeover"}
        \/ state = "Fault" /\ safingFailed
        \/ safingFailed /\ supervisorFault \in {"InitializationFailure", "InvalidConfiguration"}

\* docs/safety.md invariant 3: every waiting state has a limit.  Between two
\* events a session in progress has a timer running or an expiry to dispatch.
EveryWaitIsTimed ==
    Ready /\ state \in {"Authorizing", "Preparing", "Cranking", "Running",
                        "AwaitingTakeover", "Stopping"}
        => timerArmed \/ timerElapsed

\* A timer never outlives the session it belongs to: at rest, idle or under
\* the driver's control, nothing is armed.
NoTimerAtRest == Ready /\ state \in {"Idle", "DriverControl"} => ~timerArmed

\* The ignition goes live only for a controller in Preparing and the starter only
\* for one in Cranking over a live ignition, both by a supervisor that is not
\* faulted and while the outputs have the hardware permission: no request, late
\* timer or supervision step in between reaches them in another order.
ActivationsInOrder ==
    [][ ~safingFailed'
            => /\ ~ignitionOutput /\ ignitionOutput'
                   => /\ state = "Preparing"
                      /\ supervisorFault = "None" /\ hardwareStartPermitted
               /\ ~starterOutput /\ starterOutput'
                   => /\ state = "Cranking" /\ ignitionOutput
                      /\ supervisorFault = "None" /\ hardwareStartPermitted
      ]_sessionVars

\* docs/safety.md invariants 4 and 5: from the failure of a port call or of the
\* supervisor to an explicit reset, nothing re-energizes the vehicle: while the
\* controller is in Fault no output goes live.
FaultNeverEnergizes ==
    [][ state = "Fault"
            => /\ ignitionOutput' => ignitionOutput
               /\ starterOutput' => starterOutput ]_sessionVars

\* docs/safety.md:17: rearming requires a zero engine speed: the controller
\* leaves Fault only on a snapshot that reports it.
ResetNeedsZeroRpm ==
    [][ state = "Fault" /\ state' = "Idle"
            => \E v \in Snapshots : HandleReset(v) /\ v.engineRpm = 0
      ]_sessionVars

\* docs/safety.md invariants 10 and 14: a session always ends, whatever the
\* vehicle reports and whichever port fails: in Idle, in Fault, or with the
\* driver in control.
SessionEnds ==
    state \in {"Authorizing", "Preparing", "Cranking", "Running",
              "AwaitingTakeover", "Stopping"}
        ~> state \in {"Idle", "DriverControl", "Fault"}

\* A supervisor fault always becomes a fault of the controller, unless the
\* supervisor has been rearmed meanwhile.
SupervisorFaultIsReported ==
    supervisorFault # "None" ~> (state = "Fault" \/ supervisorFault = "None")
=============================================================================
