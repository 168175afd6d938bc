----------------------------- MODULE Controller -----------------------------
(***************************************************************************)
(* The state machine of a remote start session                             *)
(* (src/application/controller.cpp).  One action per handler of handle();  *)
(* "actions" is the ordered list of the decision the handler returns,      *)
(* which the Runtime then executes.  A handler that changes nothing else   *)
(* still returns a decision, hence always sets "actions".                  *)
(***************************************************************************)
EXTENDS SafetyPolicy, Sequences

CONSTANTS
    ControllerConfigs,   \* the configurations a run starts from
    Snapshots            \* the vehicle snapshots an event may carry

States == {"Idle", "Authorizing", "Preparing", "Cranking", "Running",
           "AwaitingTakeover", "DriverControl", "Stopping", "Fault"}

FaultCodes == {"None", "SafetyInterlock", "VehicleCommunication",
               "AuthorizationTimeout", "CrankTimeout", "StopTimeout",
               "ActuatorFailure", "TimerFailure", "InternalError"}

Notifications == {"NotifyProfileRejected", "NotifyRemoteStartDisabled",
                  "NotifyStartAccepted", "NotifyStartRejected", "NotifyRunning",
                  "NotifyTakeoverPending", "NotifyTakeoverComplete",
                  "NotifyStopping", "NotifyStopped", "NotifyFault",
                  "NotifyReady", "NotifyRequestIgnored", "NotifyResetRejected"}

ActionTypes == {"RequestVehicleState", "EnableIgnition", "EngageStarter",
                "DisengageStarter", "ReleaseRemoteControl", "SecureOutputs",
                "ArmTimer", "CancelTimer"} \cup Notifications

\* profileReady is profileReadiness_.ready(), computed once by the constructor.
ControllerConfig == [safety             : SafetyPolicyConfig,
                     remoteStartEnabled : BOOLEAN,
                     profileReady       : BOOLEAN,
                     driverEntryMode    : {"RequireTakeover", "StopImmediately"}]

ASSUME ControllerAssumption ==
    /\ ControllerConfigs \subseteq ControllerConfig
    /\ Snapshots \subseteq VehicleState

VARIABLES config, state, fault, actions

controllerVars == <<config, state, fault, actions>>

-----------------------------------------------------------------------------
(* Decisions.                                                              *)

Decide(nextState, nextFault, nextActions) ==
    /\ state' = nextState
    /\ fault' = nextFault
    /\ actions' = nextActions
    /\ UNCHANGED config

\* A decision that leaves the state machine where it is.
Reply(nextActions) == Decide(state, fault, nextActions)

BeginPreparing ==
    Decide("Preparing", fault,
           <<"CancelTimer", "EnableIgnition", "NotifyStartAccepted", "ArmTimer">>)

BeginCranking ==
    Decide("Cranking", fault, <<"CancelTimer", "EngageStarter", "ArmTimer">>)

\* Mutant: the starter is left engaged once the engine runs.
BeginRunningEngaged ==
    Decide("Running", fault, <<"CancelTimer", "NotifyRunning", "ArmTimer">>)

BeginRunning ==
    Decide("Running", fault,
           <<"CancelTimer", "DisengageStarter", "NotifyRunning", "ArmTimer">>)

\* Mutant: the timer is armed before the previous one is cancelled.
BeginAwaitingArmedFirst ==
    Decide("AwaitingTakeover", fault,
           <<"ArmTimer", "CancelTimer", "NotifyTakeoverPending">>)

\* Mutant: the wait for the driver's takeover has no limit.
BeginAwaitingUntimed ==
    Decide("AwaitingTakeover", fault, <<"CancelTimer", "NotifyTakeoverPending">>)

BeginAwaitingTakeover ==
    Decide("AwaitingTakeover", fault,
           <<"CancelTimer", "NotifyTakeoverPending", "ArmTimer">>)

\* Mutant: the takeover timer keeps running.
CompleteTakeoverTimed ==
    Decide("DriverControl", fault,
           <<"DisengageStarter", "ReleaseRemoteControl", "NotifyTakeoverComplete">>)

CompleteDriverTakeover ==
    Decide("DriverControl", fault,
           <<"CancelTimer", "DisengageStarter", "ReleaseRemoteControl",
             "NotifyTakeoverComplete">>)

BeginStopping ==
    Decide("Stopping", fault,
           <<"CancelTimer", "DisengageStarter", "SecureOutputs",
             "NotifyStopping", "ArmTimer">>)

\* Mutant: only the starter is released.
CompleteStopUnsecured ==
    Decide("Idle", "None", <<"CancelTimer", "DisengageStarter", "NotifyStopped">>)

CompleteStop ==
    Decide("Idle", "None",
           <<"CancelTimer", "DisengageStarter", "SecureOutputs", "NotifyStopped">>)

FaultActions == <<"CancelTimer", "DisengageStarter", "SecureOutputs", "NotifyFault">>

EnterFault(code) == Decide("Fault", code, FaultActions)

EngineIsRunning(v) ==
    "engineRpm" \in v.fresh /\ v.engineRpm >= config.safety.runningRpmThreshold

EngineStopped(v) == "engineRpm" \in v.fresh /\ ~EngineIsRunning(v)

DriverEntryDetected(v) == "doorsClosed" \in v.fresh /\ ~v.doorsClosed

StartApproved(v)    == Approved(AssessStart(config.safety, v))
CrankingApproved(v) == Approved(AssessCranking(config.safety, v))
RunApproved(v)      == Approved(AssessRemoteRun(config.safety, v))
TakeoverApproved(v) == Approved(AssessDriverTakeover(config.safety, v))

-----------------------------------------------------------------------------
(* The handlers.                                                           *)

HandleStartRequest ==
    \/ /\ state # "Idle"
       /\ Reply(<<"NotifyRequestIgnored">>)
    \/ /\ state = "Idle"
       /\ ~config.remoteStartEnabled
       /\ Reply(<<"SecureOutputs", "NotifyRemoteStartDisabled">>)
    \/ /\ state = "Idle"
       /\ config.remoteStartEnabled
       /\ ~config.profileReady
       /\ Reply(<<"SecureOutputs", "NotifyProfileRejected">>)
    \/ /\ state = "Idle"
       /\ config.remoteStartEnabled
       /\ config.profileReady
       /\ Decide("Authorizing", fault, <<"RequestVehicleState", "ArmTimer">>)

HandleStopRequest ==
    \/ state \in {"Authorizing", "Preparing", "Cranking"} /\ CompleteStop
    \/ state \in {"Running", "AwaitingTakeover"} /\ BeginStopping
    \/ state \in {"DriverControl", "Stopping"} /\ Reply(<<"NotifyRequestIgnored">>)
    \/ state = "Fault" /\ Reply(<<"SecureOutputs", "NotifyRequestIgnored">>)
    \/ state = "Idle" /\ Reply(<<"NotifyStopped">>)

UpdateWhileAuthorizing(v) ==
    /\ state = "Authorizing"
    /\ IF StartApproved(v)
       THEN BeginPreparing
       ELSE Decide("Idle", "None",
                   <<"CancelTimer", "SecureOutputs", "NotifyStartRejected">>)

UpdateWhilePreparing(v) ==
    /\ state = "Preparing"
    /\ IF StartApproved(v) THEN Reply(<<>>) ELSE EnterFault("SafetyInterlock")

UpdateWhileCranking(v) ==
    /\ state = "Cranking"
    /\ IF ~CrankingApproved(v) THEN EnterFault("SafetyInterlock")
       ELSE IF EngineIsRunning(v) THEN BeginRunning
       ELSE Reply(<<>>)

UpdateWhileRunning(v) ==
    /\ state = "Running"
    /\ \/ /\ DriverEntryDetected(v)
          /\ config.driverEntryMode = "RequireTakeover"
          /\ IF TakeoverApproved(v) THEN BeginAwaitingTakeover
                                    ELSE EnterFault("SafetyInterlock")
       \/ /\ DriverEntryDetected(v)
          /\ config.driverEntryMode = "StopImmediately"
          /\ BeginStopping
       \/ /\ ~DriverEntryDetected(v)
          /\ IF RunApproved(v) THEN Reply(<<>>) ELSE EnterFault("SafetyInterlock")

UpdateWhileAwaitingTakeover(v) ==
    /\ state = "AwaitingTakeover"
    /\ IF TakeoverApproved(v) THEN Reply(<<>>) ELSE EnterFault("SafetyInterlock")

UpdateWhileDriverControl(v) ==
    /\ state = "DriverControl"
    /\ IF EngineStopped(v) THEN Decide("Idle", fault, <<"NotifyReady">>)
                           ELSE Reply(<<>>)

UpdateWhileStopping(v) ==
    /\ state = "Stopping"
    /\ IF EngineStopped(v) THEN CompleteStop ELSE Reply(<<>>)

HandleVehicleUpdate(v) ==
    \/ UpdateWhileAuthorizing(v)
    \/ UpdateWhilePreparing(v)
    \/ UpdateWhileCranking(v)
    \/ UpdateWhileRunning(v)
    \/ UpdateWhileAwaitingTakeover(v)
    \/ UpdateWhileDriverControl(v)
    \/ UpdateWhileStopping(v)
    \/ state \in {"Idle", "Fault"} /\ Reply(<<>>)

HandleTimer(v) ==
    \/ state = "Authorizing" /\ EnterFault("AuthorizationTimeout")
    \/ /\ state = "Preparing"
       /\ IF StartApproved(v) THEN BeginCranking ELSE EnterFault("SafetyInterlock")
    \/ state = "Cranking" /\ EnterFault("CrankTimeout")
    \/ state \in {"Running", "AwaitingTakeover"} /\ BeginStopping
    \/ state = "Stopping" /\ EnterFault("StopTimeout")
    \/ state \in {"DriverControl", "Idle", "Fault"} /\ Reply(<<>>)

HandleDriverTakeover(v) ==
    \/ state # "AwaitingTakeover" /\ Reply(<<"NotifyRequestIgnored">>)
    \/ /\ state = "AwaitingTakeover"
       /\ IF TakeoverApproved(v) THEN CompleteDriverTakeover
                                 ELSE EnterFault("SafetyInterlock")

HandleInfrastructureFailure(code) ==
    EnterFault(IF code = "None" THEN "InternalError" ELSE code)

HandleReset(v) ==
    \/ state # "Fault" /\ Reply(<<"NotifyRequestIgnored">>)
    \/ /\ state = "Fault"
       /\ IF /\ EngineStopped(v)
             /\ "criticalFaultPresent" \in v.fresh /\ ~v.criticalFaultPresent
          THEN Decide("Idle", "None", <<"CancelTimer", "SecureOutputs", "NotifyReady">>)
          ELSE Reply(<<"SecureOutputs", "NotifyResetRejected">>)

-----------------------------------------------------------------------------

ControllerInit ==
    /\ config \in ControllerConfigs
    /\ state = "Idle"
    /\ fault = "None"
    /\ actions = <<>>
=============================================================================
