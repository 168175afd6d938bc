--------------------------- MODULE MCVehicleInputs ---------------------------
(* What reaches the controller, and what is told of it: five parts that share   *)
(* no variable, explored one at a time.                                        *)
EXTENDS Telemetry, TwaiReceiver, DiagnosticJournal, LockGesture

\* Those of VehicleTrace that are not numbers.
CONSTANTS MaximumAge, Batches

VARIABLES
    part,
    trace, replay, stored, gateway, asked, call

traceVars == <<trace, replay, stored, gateway, asked, call>>
inputVars == <<part, gestureVars, receiverVars, traceVars, telemetryVars, journalVars>>
-----------------------------------------------------------------------------
Value(signal, ok) == [signal |-> signal, inRange |-> ok]
MaximumAges == [rpm |-> 0, hood |-> 1]
TraceBatches ==
    {<<>>, <<Value("rpm", TRUE)>>,
     <<Value("hood", TRUE), Value("rpm", TRUE)>>,
     <<Value("rpm", TRUE), Value("hood", FALSE)>>,
     <<Value("hood", TRUE), Value("hood", TRUE)>>}
Trace == INSTANCE VehicleTrace
    WITH UnitsPerMs <- 2, FrameTimes <- {1, 2}, MaxFrames <- 3, MaxElapsed <- 2

\* SandboxSession::rebuildTelemetryMonitor().
SandboxRuntime ==
    [target |-> "simulation", implemented |-> Features,
     capabilities |-> {"vehicle_state_read"}, signalsQualified |-> TRUE]
SensorReadings ==
    [rpm |-> {2200, 2201}, coolant |-> {20, 75}, oil |-> {20, 75},
     transmission |-> {108, 109, 110}, dpf |-> BOOLEAN]

Parked ==
    [fresh |-> Signals, batteryMillivolts |-> 12500, engineRpm |-> 0,
     hoodClosed |-> TRUE, doorsClosed |-> TRUE, trunkClosed |-> TRUE,
     brakePressed |-> FALSE, parkingBrakeApplied |-> TRUE,
     transmission |-> "Automatic", gear |-> "Park", criticalFaultPresent |-> FALSE]
Turning == [Parked EXCEPT !.engineRpm = 700]
ReportedStates ==
    {Parked, Turning, [Turning EXCEPT !.doorsClosed = FALSE],
     [Turning EXCEPT !.criticalFaultPresent = TRUE]}
\* The simulation's configurations: the entry of the driver either way.
JournalConfigs ==
    {[safety |-> SafetyConfigOf([requireHoodClosed |-> TRUE]),
      remoteStartEnabled |-> entry # "disabled", profileReady |-> TRUE,
      driverEntryMode |-> IF entry = "disabled" THEN "RequireTakeover" ELSE entry]
     : entry \in {"disabled", "RequireTakeover", "StopImmediately"}}
-----------------------------------------------------------------------------
InputsInit ==
    /\ part \in {"gesture", "receiver", "trace", "telemetry", "journal"}
    /\ GestureInit /\ ReceiverInit /\ Init
    /\ JournalInit
    /\ part # "journal" =>
          config.remoteStartEnabled /\ config.driverEntryMode = "RequireTakeover"
    /\ IF part = "trace" THEN Trace!Init ELSE trace = <<>> /\ Trace!Constructed

InGesture ==
    /\ part = "gesture"
    /\ UNCHANGED <<part, receiverVars, traceVars, telemetryVars, journalVars>>
InReceiver ==
    /\ part = "receiver"
    /\ UNCHANGED <<part, gestureVars, traceVars, telemetryVars, journalVars>>
InTrace ==
    /\ part = "trace"
    /\ UNCHANGED <<part, gestureVars, receiverVars, telemetryVars, journalVars>>
InTelemetry ==
    /\ part = "telemetry"
    /\ UNCHANGED <<part, gestureVars, receiverVars, traceVars, journalVars>>
InJournal ==
    /\ part = "journal"
    /\ UNCHANGED <<part, gestureVars, receiverVars, traceVars, telemetryVars>>

InputsNext ==
    \/ InGesture /\ Tick
    \/ InGesture /\ ResetPipeline
    \/ InGesture /\ \E frame \in CanFrames : Receive(frame)
    \/ InReceiver /\ StartAlreadyRunning
    \/ InReceiver /\ StartFails
    \/ InReceiver /\ DriverStartFails
    \/ InReceiver /\ TaskStartFails
    \/ InReceiver /\ StartCreatesTask
    \/ InReceiver /\ StartPublishesState
    \/ InReceiver /\ StopWithoutDriver
    \/ InReceiver /\ StopBegins
    \/ InReceiver /\ StopGivesUp
    \/ InReceiver /\ StopSeesExit
    \/ InReceiver /\ StopUninstalls
    \/ InReceiver /\ PopLoads
    \/ InReceiver /\ PopTakes
    \/ InReceiver /\ PopReleases
    \/ InReceiver /\ TaskLoops
    \/ InReceiver /\ TaskExits
    \/ InReceiver /\ TaskDeleted
    \/ InReceiver /\ ReceiveTimesOut
    \/ InReceiver /\ FrameReceived
    \/ InReceiver /\ PushRefused
    \/ InReceiver /\ PushFindsRoom
    \/ InReceiver /\ PushStores
    \/ InReceiver /\ PushPublishes
    \/ InReceiver /\ FrameCounted
    \/ InReceiver /\ UpdateAlerts
    \/ InReceiver /\ BusDegrades
    \/ InReceiver /\ BusImproves
    \/ InTrace /\ Trace!RequestRefused
    \/ InTrace /\ Trace!RequestOfInvalidTrace
    \/ InTrace /\ Trace!RequestState
    \/ InTrace /\ Trace!Reset
    \/ InTrace /\ \E elapsedMs \in 0..2 : Trace!TimeAdvances(elapsedMs)
    \/ InTrace /\ \E elapsedMs \in 0..2 : Trace!TimeRegresses(elapsedMs)
    \/ InTelemetry /\ VehicleChanges
    \/ InTelemetry /\ FeaturesChange
    \/ InTelemetry /\ Reset
    \/ InJournal /\ StartRequested
    \/ InJournal /\ StopRequested
    \/ InJournal /\ VehicleStateUpdated
    \/ InJournal /\ TakeoverConfirmed
    \/ InJournal /\ ResetRequested
    \/ InJournal /\ TimerElapsed
    \/ InJournal /\ FailureReported
    \/ InJournal /\ DecisionExecuted
    \/ InJournal /\ DecisionFails
    \/ InJournal /\ SafingExecuted
    \/ InJournal /\ Clear

InputsSpec ==
    /\ InputsInit /\ [][InputsNext]_inputVars
    /\ WF_receiverVars(part = "receiver" /\ TaskStep)

\* See each part.
SnapshotMatchesTrace == part = "trace" => Trace!SnapshotMatchesTrace
=============================================================================
