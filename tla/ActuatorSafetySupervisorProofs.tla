------------------- MODULE ActuatorSafetySupervisorProofs -------------------
(***************************************************************************)
(* The safety of the actuator supervisor, for every clock width, every     *)
(* limit and every configuration, valid or not.                            *)
(*                                                                         *)
(* None of the three safety invariants is inductive alone: what an output  *)
(* may be depends on what is commanded, a command on the absence of a      *)
(* fault, and the absence of a fault on safing having worked.  Their       *)
(* conjunction with the type invariant is.                                 *)
(***************************************************************************)
EXTENDS ActuatorSafetySupervisor, TLAPS

SupervisorInv ==
    /\ SupervisorTypeOK
    /\ LiveOutputsAreCommanded
    /\ CommandsAreOrdered
    /\ SafingFailureIsLatched

-----------------------------------------------------------------------------
(* The private steps.                                                      *)

\* After safeDownstream() nothing is commanded, and an output that is still
\* live is reported by safingFailed.
LEMMA SafeDownstreamSafes ==
    ASSUME NEW ok \in BOOLEAN, NEW at \in Time, NEW lit \in BOOLEAN,
           NEW cranking \in BOOLEAN, safingFailed \in BOOLEAN,
           SafeDownstream(ok, at, lit, cranking)
    PROVE  /\ ~ignitionCommanded' /\ ~starterCommanded'
           /\ ignitionCommanded' \in BOOLEAN /\ starterCommanded' \in BOOLEAN
           /\ ignitionFeedbackConfirmed' \in BOOLEAN
           /\ lastOutputChangeMs' \in Time
           /\ ignitionOutput' \in BOOLEAN /\ starterOutput' \in BOOLEAN
           /\ safingFailed' \in BOOLEAN
           /\ safingFailed' = (safingFailed \/ ~ok)
           /\ LiveOutputsAreCommanded'
  BY DEF SafeDownstream, DriverSafing, ReleaseCommands, LiveOutputsAreCommanded

\* trip() with a real fault leaves the supervisor faulted and safed.
LEMMA TripSafes ==
    ASSUME SupervisorInv, NEW code \in Faults \ {"None"}, NEW at \in Time,
           NEW lit \in BOOLEAN, NEW cranking \in BOOLEAN,
           Trip(code, at, lit, cranking)
    PROVE  /\ ~ignitionCommanded' /\ ~starterCommanded'
           /\ ignitionCommanded' \in BOOLEAN /\ starterCommanded' \in BOOLEAN
           /\ ignitionFeedbackConfirmed' \in BOOLEAN
           /\ lastOutputChangeMs' \in Time
           /\ ignitionOutput' \in BOOLEAN /\ starterOutput' \in BOOLEAN
           /\ safingFailed' \in BOOLEAN
           /\ supervisorFault' \in Faults \ {"None"}
           /\ LiveOutputsAreCommanded'
  <1>1. PICK ok \in BOOLEAN : SafeDownstream(ok, at, lit, cranking)
    BY DEF Trip
  <1>2. supervisorFault' \in Faults \ {"None"}
    BY DEF Trip, SupervisorInv, SupervisorTypeOK
  <1>3. safingFailed \in BOOLEAN
    BY DEF SupervisorInv, SupervisorTypeOK
  <1> QED
    BY <1>1, <1>2, <1>3, SafeDownstreamSafes

\* An operation that trips, observes or rejects a clock reading, and changes
\* only its inputs besides, keeps the invariant.
LEMMA TripStep ==
    ASSUME SupervisorInv, NEW code \in Faults \ {"None"}, NEW at \in Time,
           NEW lit \in BOOLEAN, NEW cranking \in BOOLEAN,
           Trip(code, at, lit, cranking),
           lastObservedMs' \in Time, clockInitialized' \in BOOLEAN,
           hardwareStartPermitted' \in BOOLEAN,
           UNCHANGED <<supervisorConfig, initialized, heartbeatInitialized,
                       lastHeartbeatMs, starterEngagedAtMs>>
    PROVE  SupervisorInv'
  <1>1. /\ ~ignitionCommanded' /\ ~starterCommanded'
        /\ ignitionCommanded' \in BOOLEAN /\ starterCommanded' \in BOOLEAN
        /\ ignitionFeedbackConfirmed' \in BOOLEAN
        /\ lastOutputChangeMs' \in Time
        /\ ignitionOutput' \in BOOLEAN /\ starterOutput' \in BOOLEAN
        /\ safingFailed' \in BOOLEAN
        /\ supervisorFault' \in Faults \ {"None"}
        /\ LiveOutputsAreCommanded'
    BY TripSafes
  <1>2. SupervisorTypeOK'
    BY <1>1 DEF SupervisorInv, SupervisorTypeOK
  <1>3. CommandsAreOrdered' /\ SafingFailureIsLatched'
    BY <1>1 DEF CommandsAreOrdered, SafingFailureIsLatched
  <1> QED
    BY <1>1, <1>2, <1>3 DEF SupervisorInv

\* A rejected clock reading keeps the invariant.
LEMMA RejectClockStep ==
    ASSUME SupervisorInv, NEW now \in Time, RejectClock(now)
    PROVE  SupervisorInv'
  <1>1. /\ lastObservedMs \in Time /\ ignitionOutput \in BOOLEAN
        /\ starterOutput \in BOOLEAN
        /\ clockInitialized \in BOOLEAN /\ hardwareStartPermitted \in BOOLEAN
    BY DEF SupervisorInv, SupervisorTypeOK
  <1>2. "ClockRegression" \in Faults \ {"None"}
    BY DEF Faults
  <1>3. /\ Trip("ClockRegression", lastObservedMs, ignitionOutput, starterOutput)
        /\ UNCHANGED <<supervisorConfig, initialized, heartbeatInitialized,
                       lastHeartbeatMs, starterEngagedAtMs, lastObservedMs,
                       clockInitialized, hardwareStartPermitted>>
    BY DEF RejectClock, inputVars, clockVars
  <1> QED
    BY <1>1, <1>2, <1>3, TripStep

\* A trip inside an actuator command keeps the invariant.
LEMMA TripCommandStep ==
    ASSUME SupervisorInv, NEW code \in Faults \ {"None"},
           NEW lit \in BOOLEAN, NEW cranking \in BOOLEAN,
           TripCommand(code, lit, cranking)
    PROVE  SupervisorInv'
  <1>1. /\ lastObservedMs \in Time /\ clockInitialized \in BOOLEAN
        /\ hardwareStartPermitted \in BOOLEAN
    BY DEF SupervisorInv, SupervisorTypeOK
  <1>2. /\ Trip(code, lastObservedMs, lit, cranking)
        /\ UNCHANGED <<supervisorConfig, initialized, heartbeatInitialized,
                       lastHeartbeatMs, starterEngagedAtMs, lastObservedMs,
                       clockInitialized, hardwareStartPermitted>>
    BY DEF TripCommand, inputVars, clockVars
  <1> QED
    BY <1>1, <1>2, TripStep

\* Only a supervisor without fault, initialized and permitted may energize.
LEMMA CanEnergizeMeans ==
    ASSUME CanEnergize, supervisorFault \in Faults
    PROVE  ~Faulted /\ supervisorFault = "None" /\ hardwareStartPermitted
  BY DEF CanEnergize, EnergizeRefusal, Faulted

\* A refused activation keeps the invariant.
LEMMA RefuseToEnergizeStep ==
    ASSUME SupervisorInv, RefuseToEnergize
    PROVE  SupervisorInv'
  <1>1. CASE initialized /\ supervisorFault # "None"
    <2>1. UNCHANGED supervisorVars
      BY <1>1 DEF RefuseToEnergize, supervisorVars
    <2> QED
      BY <2>1 DEF SupervisorInv, SupervisorTypeOK, LiveOutputsAreCommanded,
         CommandsAreOrdered, SafingFailureIsLatched, Faulted, supervisorVars,
         latchVars, commandVars, inputVars, clockVars, outputVars
  <1>2. CASE ~(initialized /\ supervisorFault # "None")
    <2>1. EnergizeRefusal \in Faults \ {"None"}
      BY DEF RefuseToEnergize, CanEnergize, EnergizeRefusal, Faults,
         SupervisorInv, SupervisorTypeOK
    <2>2. TripCommand(EnergizeRefusal, ignitionOutput, starterOutput)
      BY <1>2 DEF RefuseToEnergize, TripCommand
    <2>3. ignitionOutput \in BOOLEAN /\ starterOutput \in BOOLEAN
      BY DEF SupervisorInv, SupervisorTypeOK
    <2> QED
      BY <2>1, <2>2, <2>3, TripCommandStep
  <1> QED
    BY <1>1, <1>2

-----------------------------------------------------------------------------
(* Supervision.                                                            *)

\* heartbeat() keeps the invariant.
LEMMA HeartbeatStep ==
    ASSUME SupervisorInv, NEW now \in Time, NEW ok \in BOOLEAN, Heartbeat(now, ok)
    PROVE  SupervisorInv'
  <1>1. CASE RejectClock(now)
    BY <1>1, RejectClockStep
  <1>2. CASE /\ ObserveClock(now)
             /\ Trip("WatchdogExpired", now, ignitionOutput, starterOutput)
             /\ UNCHANGED <<supervisorConfig, initialized, inputVars,
                            starterEngagedAtMs>>
    <2>1. /\ lastObservedMs' \in Time /\ clockInitialized' \in BOOLEAN
          /\ hardwareStartPermitted' \in BOOLEAN
          /\ UNCHANGED <<supervisorConfig, initialized, heartbeatInitialized,
                         lastHeartbeatMs, starterEngagedAtMs>>
      BY <1>2 DEF ObserveClock, inputVars, SupervisorInv, SupervisorTypeOK
    <2>2. /\ ignitionOutput \in BOOLEAN /\ starterOutput \in BOOLEAN
          /\ "WatchdogExpired" \in Faults \ {"None"}
      BY DEF SupervisorInv, SupervisorTypeOK, Faults
    <2> QED
      BY <1>2, <2>1, <2>2, TripStep
  <1>3. CASE /\ ObserveClock(now)
             /\ heartbeatInitialized' \in BOOLEAN /\ lastHeartbeatMs' \in Time
             /\ UNCHANGED <<supervisorConfig, latchVars, commandVars,
                            hardwareStartPermitted, starterEngagedAtMs,
                            outputVars>>
    BY <1>3 DEF ObserveClock, SupervisorInv, SupervisorTypeOK,
       LiveOutputsAreCommanded, CommandsAreOrdered, SafingFailureIsLatched,
       Faulted, latchVars, commandVars, outputVars
  <1>4. heartbeatInitialized \in BOOLEAN /\ lastHeartbeatMs \in Time
    BY DEF SupervisorInv, SupervisorTypeOK
  <1> QED
    BY <1>1, <1>2, <1>3, <1>4 DEF Heartbeat, inputVars

\* poll() trips on a real fault.
LEMMA PollFaultInFaults ==
    ASSUME NEW now \in Time, NEW permitted \in BOOLEAN,
           NEW feedback \in ActuatorFeedback
    PROVE  PollFault(now, permitted, feedback) \in Faults
  BY DEF PollFault, Faults

\* poll() keeps the invariant.
LEMMA PollStep ==
    ASSUME SupervisorInv, NEW now \in Time, NEW permitted \in BOOLEAN,
           NEW feedback \in ActuatorFeedback, Poll(now, permitted, feedback)
    PROVE  SupervisorInv'
  <1>1. CASE RejectClock(now)
    BY <1>1, RejectClockStep
  <1>2. CASE /\ PollFault(now, permitted, feedback) # "None"
             /\ ObserveClock(now)
             /\ hardwareStartPermitted' = permitted
             /\ Trip(PollFault(now, permitted, feedback), now,
                     ignitionOutput, starterOutput)
             /\ UNCHANGED <<supervisorConfig, initialized, heartbeatInitialized,
                            lastHeartbeatMs, starterEngagedAtMs>>
    <2>1. /\ lastObservedMs' \in Time /\ clockInitialized' \in BOOLEAN
          /\ hardwareStartPermitted' \in BOOLEAN
      BY <1>2 DEF ObserveClock
    <2>2. ignitionOutput \in BOOLEAN /\ starterOutput \in BOOLEAN
      BY DEF SupervisorInv, SupervisorTypeOK
    <2>3. PollFault(now, permitted, feedback) \in Faults \ {"None"}
      BY <1>2, PollFaultInFaults
    <2> QED
      BY <1>2, <2>1, <2>2, <2>3, TripStep
  <1>3. CASE /\ ObserveClock(now)
             /\ hardwareStartPermitted' \in BOOLEAN
             /\ ignitionFeedbackConfirmed' \in BOOLEAN
             /\ UNCHANGED <<supervisorConfig, latchVars, ignitionCommanded,
                            starterCommanded, lastOutputChangeMs,
                            heartbeatInitialized, lastHeartbeatMs,
                            starterEngagedAtMs, outputVars>>
    BY <1>3 DEF ObserveClock, SupervisorInv, SupervisorTypeOK,
       LiveOutputsAreCommanded, CommandsAreOrdered, SafingFailureIsLatched,
       Faulted, latchVars, outputVars
  <1>4. /\ hardwareStartPermitted \in BOOLEAN
        /\ ignitionFeedbackConfirmed \in BOOLEAN
        /\ ignitionCommanded \in BOOLEAN
    BY DEF SupervisorInv, SupervisorTypeOK
  <1> QED
    BY <1>1, <1>2, <1>3, <1>4 DEF Poll, inputVars, commandVars

\* A reset that fails after safing the outputs keeps the invariant.
LEMMA FailedResetStep ==
    ASSUME SupervisorInv, NEW now \in Time, NEW safed \in BOOLEAN,
           ObserveClock(now), supervisorFault' \in Faults \ {"None"},
           SafeDownstream(safed, now, ignitionOutput, starterOutput),
           UNCHANGED <<supervisorConfig, initialized, inputVars,
                       starterEngagedAtMs>>
    PROVE  SupervisorInv'
  <1>1. /\ ignitionOutput \in BOOLEAN /\ starterOutput \in BOOLEAN
        /\ safingFailed \in BOOLEAN
    BY DEF SupervisorInv, SupervisorTypeOK
  <1>2. /\ ~ignitionCommanded' /\ ~starterCommanded'
        /\ ignitionCommanded' \in BOOLEAN /\ starterCommanded' \in BOOLEAN
        /\ ignitionFeedbackConfirmed' \in BOOLEAN
        /\ lastOutputChangeMs' \in Time
        /\ ignitionOutput' \in BOOLEAN /\ starterOutput' \in BOOLEAN
        /\ safingFailed' \in BOOLEAN
        /\ LiveOutputsAreCommanded'
    BY <1>1, SafeDownstreamSafes
  <1>3. SupervisorTypeOK'
    BY <1>2 DEF SupervisorInv, SupervisorTypeOK, ObserveClock, inputVars
  <1>4. CommandsAreOrdered' /\ SafingFailureIsLatched'
    BY <1>2 DEF CommandsAreOrdered, SafingFailureIsLatched
  <1> QED
    BY <1>2, <1>3, <1>4 DEF SupervisorInv

\* resetFault() keeps the invariant.
LEMMA ResetFaultStep ==
    ASSUME SupervisorInv, NEW now \in Time, NEW feedback \in ActuatorFeedback,
           NEW ok \in BOOLEAN, ResetFault(now, feedback, ok)
    PROVE  SupervisorInv'
  <1>1. CASE RejectClock(now)
    BY <1>1, RejectClockStep
  <1>2. CASE /\ ObserveClock(now)
             /\ supervisorFault' \in Faults \ {"None"}
             /\ \E safed \in BOOLEAN :
                   SafeDownstream(safed, now, ignitionOutput, starterOutput)
             /\ UNCHANGED <<supervisorConfig, initialized, inputVars,
                            starterEngagedAtMs>>
    BY <1>2, FailedResetStep
  <1>3. CASE ObserveClock(now) /\ Rearm(now)
             /\ UNCHANGED <<supervisorConfig, starterEngagedAtMs>>
             /\ ConfigIsValid(supervisorConfig)
    BY <1>3 DEF ObserveClock, Rearm, DriverSafing, ReleaseCommands, Faults,
       SupervisorInv, SupervisorTypeOK, LiveOutputsAreCommanded,
       CommandsAreOrdered, SafingFailureIsLatched, ConfigIsValid
  <1>4. /\ "InvalidConfiguration" \in Faults \ {"None"}
        /\ "SafingFailure" \in Faults \ {"None"}
        /\ "FeedbackMismatch" \in Faults \ {"None"}
        /\ "FeedbackUnavailable" \in Faults \ {"None"}
    BY DEF Faults
  <1> QED
    BY <1>1, <1>2, <1>3, <1>4 DEF ResetFault, ConfigPermitsReset

-----------------------------------------------------------------------------
(* The actuator port.                                                      *)

\* enableIgnition() keeps the invariant.
LEMMA EnableIgnitionStep ==
    ASSUME SupervisorInv, NEW ok \in BOOLEAN, EnableIgnition(ok)
    PROVE  SupervisorInv'
  <1>1. CASE RefuseToEnergize
    BY <1>1, RefuseToEnergizeStep
  <1>2. CASE \E lit \in {ignitionOutput, TRUE} :
                 TripCommand("DriverFailure", lit, starterOutput)
    <2>1. /\ ignitionOutput \in BOOLEAN /\ starterOutput \in BOOLEAN
          /\ "DriverFailure" \in Faults \ {"None"}
      BY DEF SupervisorInv, SupervisorTypeOK, Faults
    <2> QED
      BY <1>2, <2>1, TripCommandStep
  <1>3. CASE ok /\ CanEnergize /\ EnableIgnition(ok)
    <2>1. ~Faulted
      BY <1>3, CanEnergizeMeans DEF SupervisorInv, SupervisorTypeOK
    <2>2. /\ DriverEnableIgnition /\ ignitionCommanded' = TRUE
          /\ ignitionFeedbackConfirmed' = ~supervisorConfig.requireFeedback
          /\ lastOutputChangeMs' = lastObservedMs
          /\ UNCHANGED <<supervisorConfig, latchVars, starterCommanded,
                         inputVars, clockVars, starterEngagedAtMs>>
      BY <1>3 DEF EnableIgnition, RefuseToEnergize
    <2>3. Faulted' = Faulted
      BY <2>2 DEF Faulted, latchVars
    <2> QED
      BY <2>1, <2>2, <2>3 DEF DriverEnableIgnition, SupervisorInv,
         SupervisorTypeOK, LiveOutputsAreCommanded, CommandsAreOrdered,
         SafingFailureIsLatched, latchVars, inputVars, clockVars, Config
  <1> QED
    BY <1>1, <1>2, <1>3 DEF EnableIgnition

\* engageStarter() keeps the invariant: only the sequence check stands between
\* a request and a starter commanded over a dead ignition.
LEMMA EngageStarterStep ==
    ASSUME SupervisorInv, NEW ok \in BOOLEAN, EngageStarter(ok)
    PROVE  SupervisorInv'
  <1>1. /\ ignitionOutput \in BOOLEAN /\ starterOutput \in BOOLEAN
        /\ "DriverFailure" \in Faults \ {"None"}
        /\ "CommandSequence" \in Faults \ {"None"}
    BY DEF SupervisorInv, SupervisorTypeOK, Faults
  <1>2. CASE RefuseToEnergize
    BY <1>2, RefuseToEnergizeStep
  <1>3. CASE TripCommand("CommandSequence", ignitionOutput, starterOutput)
    BY <1>1, <1>3, TripCommandStep
  <1>4. CASE \E cranking \in {starterOutput, TRUE} :
                 TripCommand("DriverFailure", ignitionOutput, cranking)
    BY <1>1, <1>4, TripCommandStep
  <1>5. CASE /\ ~StarterOutOfSequence
             /\ DriverEngageStarter /\ starterCommanded' = TRUE
             /\ starterEngagedAtMs' = lastObservedMs
             /\ lastOutputChangeMs' = lastObservedMs
             /\ UNCHANGED <<supervisorConfig, latchVars, ignitionCommanded,
                            ignitionFeedbackConfirmed, inputVars, clockVars>>
    BY <1>5 DEF StarterOutOfSequence, DriverEngageStarter, Faulted,
       SupervisorInv, SupervisorTypeOK, LiveOutputsAreCommanded,
       CommandsAreOrdered, SafingFailureIsLatched, latchVars, inputVars,
       clockVars
  <1> QED
    BY <1>2, <1>3, <1>4, <1>5 DEF EngageStarter

\* disengageStarter() keeps the invariant.
LEMMA DisengageStarterStep ==
    ASSUME SupervisorInv, NEW ok \in BOOLEAN, DisengageStarter(ok)
    PROVE  SupervisorInv'
  <1>1. CASE \E cranking \in {starterOutput, FALSE} :
                 TripCommand("DriverFailure", ignitionOutput, cranking)
    <2>1. /\ ignitionOutput \in BOOLEAN /\ starterOutput \in BOOLEAN
          /\ "DriverFailure" \in Faults \ {"None"}
      BY DEF SupervisorInv, SupervisorTypeOK, Faults
    <2> QED
      BY <1>1, <2>1, TripCommandStep
  <1>2. CASE /\ DriverDisengageStarter /\ starterCommanded' = FALSE
             /\ lastOutputChangeMs' = lastObservedMs
             /\ UNCHANGED <<supervisorConfig, latchVars, ignitionCommanded,
                            ignitionFeedbackConfirmed, inputVars, clockVars,
                            starterEngagedAtMs>>
    BY <1>2 DEF DriverDisengageStarter, Faulted, SupervisorInv,
       SupervisorTypeOK, LiveOutputsAreCommanded, CommandsAreOrdered,
       SafingFailureIsLatched, latchVars, inputVars, clockVars
  <1> QED
    BY <1>1, <1>2 DEF DisengageStarter

\* releaseRemoteControl() keeps the invariant.
LEMMA ReleaseRemoteControlStep ==
    ASSUME SupervisorInv, NEW ok \in BOOLEAN, ReleaseRemoteControl(ok)
    PROVE  SupervisorInv'
  <1>1. /\ ignitionOutput \in BOOLEAN /\ starterOutput \in BOOLEAN
        /\ "DriverFailure" \in Faults \ {"None"}
        /\ "CommandSequence" \in Faults \ {"None"}
    BY DEF SupervisorInv, SupervisorTypeOK, Faults
  <1>2. CASE RefuseToEnergize
    BY <1>2, RefuseToEnergizeStep
  <1>3. CASE TripCommand("CommandSequence", ignitionOutput, starterOutput)
    BY <1>1, <1>3, TripCommandStep
  <1>4. CASE \E lit \in {ignitionOutput, FALSE}, cranking \in {starterOutput, FALSE} :
                 TripCommand("DriverFailure", lit, cranking)
    BY <1>1, <1>4, TripCommandStep
  <1>5. CASE /\ DriverReleaseRemoteControl
             /\ ReleaseCommands(lastObservedMs)
             /\ UNCHANGED <<supervisorConfig, latchVars, inputVars, clockVars,
                            starterEngagedAtMs>>
    BY <1>5 DEF DriverReleaseRemoteControl, ReleaseCommands, Faulted,
       SupervisorInv, SupervisorTypeOK, LiveOutputsAreCommanded,
       CommandsAreOrdered, SafingFailureIsLatched, latchVars, inputVars,
       clockVars
  <1> QED
    BY <1>2, <1>3, <1>4, <1>5 DEF ReleaseRemoteControl

\* secureOutputs() keeps the invariant.
LEMMA SecureOutputsStep ==
    ASSUME SupervisorInv, NEW ok \in BOOLEAN, SecureOutputs(ok)
    PROVE  SupervisorInv'
  <1>1. /\ lastObservedMs \in Time /\ safingFailed \in BOOLEAN
        /\ ignitionOutput \in BOOLEAN /\ starterOutput \in BOOLEAN
    BY DEF SupervisorInv, SupervisorTypeOK
  <1>2. SafeDownstream(ok, lastObservedMs, ignitionOutput, starterOutput)
    BY DEF SecureOutputs
  <1>3. /\ ~ignitionCommanded' /\ ~starterCommanded'
        /\ ignitionCommanded' \in BOOLEAN /\ starterCommanded' \in BOOLEAN
        /\ ignitionFeedbackConfirmed' \in BOOLEAN
        /\ lastOutputChangeMs' \in Time
        /\ ignitionOutput' \in BOOLEAN /\ starterOutput' \in BOOLEAN
        /\ safingFailed' \in BOOLEAN
        /\ safingFailed' = (safingFailed \/ ~ok)
        /\ LiveOutputsAreCommanded'
    BY <1>1, <1>2, SafeDownstreamSafes
  <1>4. supervisorFault' \in Faults /\ (safingFailed' => supervisorFault' # "None")
    BY <1>3 DEF SecureOutputs, Faults, SupervisorInv, SupervisorTypeOK,
       SafingFailureIsLatched
  <1>5. SupervisorTypeOK'
    BY <1>3, <1>4 DEF SecureOutputs, SupervisorInv, SupervisorTypeOK,
       inputVars, clockVars
  <1> QED
    BY <1>3, <1>4, <1>5 DEF SupervisorInv, CommandsAreOrdered,
       SafingFailureIsLatched

\* Any call of the Runtime keeps the invariant.
LEMMA ActuatorCommandStep ==
    ASSUME SupervisorInv, ActuatorCommand
    PROVE  SupervisorInv'
  BY EnableIgnitionStep, EngageStarterStep, DisengageStarterStep,
     ReleaseRemoteControlStep, SecureOutputsStep DEF ActuatorCommand

-----------------------------------------------------------------------------
(* The theorems.                                                           *)

\* The constructor establishes the invariant, even when its configuration is
\* invalid or the outputs cannot be safed.
LEMMA SupervisorInitInv == SupervisorInit => SupervisorInv
  <1> SUFFICES ASSUME SupervisorInit PROVE SupervisorInv
    OBVIOUS
  <1>1. supervisorConfig \in Config
    BY SupervisorConfigAssumption DEF SupervisorInit
  <1>2. 0 \in Time
    BY ClockAssumption DEF Time
  <1>3. initialized \in BOOLEAN /\ supervisorFault \in Faults
    BY DEF SupervisorInit, Faults
  <1>4. SupervisorTypeOK
    BY <1>1, <1>2, <1>3 DEF SupervisorInit, SupervisorTypeOK
  <1> QED
    BY <1>4 DEF SupervisorInit, SupervisorInv, LiveOutputsAreCommanded,
       CommandsAreOrdered, SafingFailureIsLatched

\* Nothing changes, nothing breaks.
LEMMA SupervisorStutter ==
    ASSUME SupervisorInv, UNCHANGED supervisorVars
    PROVE  SupervisorInv'
  BY DEF SupervisorInv, SupervisorTypeOK, LiveOutputsAreCommanded,
     CommandsAreOrdered, SafingFailureIsLatched, Faulted, supervisorVars,
     latchVars, commandVars, inputVars, clockVars, outputVars

\* The invariant is inductive.
LEMMA SupervisorInvInductive ==
    SupervisorInv /\ [SupervisorNext]_supervisorVars => SupervisorInv'
  <1> SUFFICES ASSUME SupervisorInv, [SupervisorNext]_supervisorVars
               PROVE  SupervisorInv'
    OBVIOUS
  <1>1. ASSUME NEW now \in Time, NEW ok \in BOOLEAN, Heartbeat(now, ok)
        PROVE  SupervisorInv'
    BY <1>1, HeartbeatStep
  <1>2. ASSUME NEW now \in Time, NEW permitted \in BOOLEAN,
               NEW feedback \in ActuatorFeedback, Poll(now, permitted, feedback)
        PROVE  SupervisorInv'
    BY <1>2, PollStep
  <1>3. ASSUME NEW now \in Time, NEW feedback \in ActuatorFeedback,
               NEW ok \in BOOLEAN, ResetFault(now, feedback, ok)
        PROVE  SupervisorInv'
    BY <1>3, ResetFaultStep
  <1>4. CASE ActuatorCommand
    BY <1>4, ActuatorCommandStep
  <1>5. CASE UNCHANGED supervisorVars
    BY <1>5, SupervisorStutter
  <1> QED
    BY <1>1, <1>2, <1>3, <1>4, <1>5 DEF SupervisorNext, Supervision

\* The invariant holds in every reachable state.
THEOREM SupervisorInvariant == SupervisorSpec => []SupervisorInv
  BY SupervisorInitInv, SupervisorInvInductive, PTL DEF SupervisorSpec

\* Every member keeps its type, and only a valid configuration is ever in
\* service, for every clock width and configuration.
THEOREM SupervisorTypeCorrect == SupervisorSpec => []SupervisorTypeOK
  <1>1. SupervisorInv => SupervisorTypeOK
    BY DEF SupervisorInv
  <1> QED
    BY <1>1, SupervisorInvariant, PTL

\* No sequence of calls, driver failures, trips and resets leaves an output
\* live that the supervisor believes off, unless it reports a failed safing.
THEOREM OutputsAreKnown == SupervisorSpec => []LiveOutputsAreCommanded
  <1>1. SupervisorInv => LiveOutputsAreCommanded
    BY DEF SupervisorInv
  <1> QED
    BY <1>1, SupervisorInvariant, PTL

\* The starter is never commanded without the ignition, nor anything by a
\* faulted supervisor.
THEOREM CommandOrder == SupervisorSpec => []CommandsAreOrdered
  <1>1. SupervisorInv => CommandsAreOrdered
    BY DEF SupervisorInv
  <1> QED
    BY <1>1, SupervisorInvariant, PTL

\* A supervisor that failed to safe its outputs is faulted.
THEOREM SafingFailureLatched == SupervisorSpec => []SafingFailureIsLatched
  <1>1. SupervisorInv => SafingFailureIsLatched
    BY DEF SupervisorInv
  <1> QED
    BY <1>1, SupervisorInvariant, PTL

-----------------------------------------------------------------------------
(* Leaving a fault.                                                        *)

\* trip() never clears a fault.
LEMMA TripKeepsFaulted ==
    ASSUME NEW code \in Faults \ {"None"}, NEW at, NEW lit, NEW cranking,
           Trip(code, at, lit, cranking)
    PROVE  supervisorFault' # "None"
  BY DEF Trip

\* Neither does any call of the Runtime, not even one that trips.
LEMMA CommandKeepsFaulted ==
    ASSUME supervisorFault # "None", NEW ok \in BOOLEAN,
           \/ EnableIgnition(ok) \/ EngageStarter(ok) \/ DisengageStarter(ok)
           \/ ReleaseRemoteControl(ok) \/ SecureOutputs(ok)
    PROVE  supervisorFault' # "None"
  <1>1. ~CanEnergize
    BY DEF CanEnergize, EnergizeRefusal
  <1>2. CASE RefuseToEnergize
    BY <1>2 DEF RefuseToEnergize, Trip, latchVars
  <1>3. ASSUME NEW lit, NEW cranking, TripCommand("DriverFailure", lit, cranking)
        PROVE  supervisorFault' # "None"
    BY <1>3 DEF TripCommand, Trip
  <1>4. CASE EnableIgnition(ok) \/ EngageStarter(ok) \/ ReleaseRemoteControl(ok)
    BY <1>1, <1>2, <1>4 DEF EnableIgnition, EngageStarter, ReleaseRemoteControl
  <1>5. CASE DisengageStarter(ok)
    BY <1>3, <1>5 DEF DisengageStarter, latchVars
  <1>6. CASE SecureOutputs(ok)
    BY <1>6 DEF SecureOutputs
  <1> QED
    BY <1>4, <1>5, <1>6

\* Nor a heartbeat, a poll or a clock reading.
LEMMA SupervisionKeepsFaulted ==
    ASSUME supervisorFault # "None", NEW now \in Time, NEW ok \in BOOLEAN,
           NEW permitted \in BOOLEAN, NEW feedback \in ActuatorFeedback,
           Heartbeat(now, ok) \/ Poll(now, permitted, feedback)
    PROVE  supervisorFault' # "None"
  BY DEF Heartbeat, Poll, RejectClock, Trip, Faulted, latchVars

\* A successful rearming leaves nothing live, commanded or remembered.
LEMMA RearmIsSafe ==
    ASSUME NEW now, Rearm(now)
    PROVE  /\ ~ignitionOutput' /\ ~starterOutput'
           /\ ~OutputsCommanded' /\ ~safingFailed'
           /\ ~heartbeatInitialized' /\ ~hardwareStartPermitted'
  BY DEF Rearm, DriverSafing, ReleaseCommands, OutputsCommanded

\* Of all operations only a reset that found the outputs off leaves a fault,
\* and it forgets every heartbeat and permission received before.
THEOREM FaultClearedSafely == SupervisorSpec => FaultClearedOnlySafe
  <1> DEFINE Safe == /\ ~ignitionOutput' /\ ~starterOutput'
                     /\ ~OutputsCommanded' /\ ~safingFailed'
                     /\ ~heartbeatInitialized' /\ ~hardwareStartPermitted'
             Cleared == supervisorFault # "None" /\ supervisorFault' = "None"
  <1>1. [SupervisorNext]_supervisorVars => [Cleared => Safe]_supervisorVars
    <2> SUFFICES ASSUME SupervisorNext, Cleared PROVE Safe
      OBVIOUS
    <2>1. ASSUME NEW now \in Time, NEW ok \in BOOLEAN, Heartbeat(now, ok)
          PROVE  FALSE
      <3>1. PICK feedback : feedback \in ActuatorFeedback
        <4>1. [available |-> FALSE, ignitionActive |-> FALSE,
               starterActive |-> FALSE] \in ActuatorFeedback
          BY DEF ActuatorFeedback
        <4> QED
          BY <4>1
      <3> QED
        BY <2>1, <3>1, SupervisionKeepsFaulted
    <2>2. ASSUME NEW now \in Time, NEW permitted \in BOOLEAN,
                 NEW feedback \in ActuatorFeedback, Poll(now, permitted, feedback)
          PROVE  FALSE
      BY <2>2, SupervisionKeepsFaulted
    <2>3. ASSUME NEW ok \in BOOLEAN,
                 \/ EnableIgnition(ok) \/ EngageStarter(ok) \/ DisengageStarter(ok)
                 \/ ReleaseRemoteControl(ok) \/ SecureOutputs(ok)
          PROVE  FALSE
      BY <2>3, CommandKeepsFaulted
    <2>4. ASSUME NEW now \in Time, NEW feedback \in ActuatorFeedback,
                 NEW ok \in BOOLEAN, ResetFault(now, feedback, ok)
          PROVE  Rearm(now)
      <3>1. ~RejectClock(now)
        BY TripKeepsFaulted DEF RejectClock, Faults
      <3> QED
        BY <2>4, <3>1 DEF ResetFault
    <2> QED
      BY <2>1, <2>2, <2>3, <2>4, RearmIsSafe
         DEF SupervisorNext, Supervision, ActuatorCommand
  <1> QED
    BY <1>1, PTL DEF SupervisorSpec, FaultClearedOnlySafe
=============================================================================
