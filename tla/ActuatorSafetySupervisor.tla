---------------------- MODULE ActuatorSafetySupervisor ----------------------
(***************************************************************************)
(* The software barrier between the Runtime and the concrete actuator      *)
(* driver (src/infrastructure/actuator_safety_supervisor.cpp).  Every      *)
(* member of the C++ class is a variable; every public operation is an     *)
(* action whose parameter "ok" is the bool the operation returns.          *)
(*                                                                         *)
(* Two more variables, ignitionOutput and starterOutput, are the physical  *)
(* outputs behind the driver, which the class never sees.  A driver call   *)
(* that fails may or may not have acted.                                   *)
(***************************************************************************)
EXTENDS Integers

CONSTANTS
    ClockModulus,             \* 2^32 in the code: uint32_t millisecond clock
    MaximumWatchdogTimeoutMs,
    MaximumStarterActiveMs,
    MaximumFeedbackGraceMs,
    SupervisorConfigs         \* the configurations a run starts from

Config == [watchdogTimeoutMs      : Nat,
           maximumStarterActiveMs : Nat,
           feedbackGraceMs        : Nat,
           requireFeedback        : BOOLEAN]

ASSUME ClockAssumption == ClockModulus \in Nat /\ ClockModulus >= 2

ASSUME LimitsAssumption ==
    /\ MaximumWatchdogTimeoutMs \in Nat
    /\ MaximumStarterActiveMs \in Nat
    /\ MaximumFeedbackGraceMs \in Nat

ASSUME SupervisorConfigAssumption == SupervisorConfigs \subseteq Config

Time == 0 .. ClockModulus - 1

Faults == {"None", "InvalidConfiguration", "InitializationFailure",
           "ClockRegression", "WatchdogExpired", "HardwareInterlockLost",
           "StarterTimeout", "CommandSequence", "DriverFailure",
           "FeedbackUnavailable", "FeedbackMismatch", "SafingFailure"}

ActuatorFeedback == [available : BOOLEAN, ignitionActive : BOOLEAN,
                     starterActive : BOOLEAN]

VARIABLES
    supervisorConfig, supervisorFault, initialized, safingFailed,
    ignitionCommanded, starterCommanded, ignitionFeedbackConfirmed,
    clockInitialized, heartbeatInitialized, hardwareStartPermitted,
    lastObservedMs, lastHeartbeatMs, starterEngagedAtMs, lastOutputChangeMs,
    ignitionOutput, starterOutput

outputVars  == <<ignitionOutput, starterOutput>>
commandVars == <<ignitionCommanded, starterCommanded,
                 ignitionFeedbackConfirmed, lastOutputChangeMs>>
latchVars   == <<supervisorFault, initialized, safingFailed>>
inputVars   == <<heartbeatInitialized, hardwareStartPermitted, lastHeartbeatMs>>
clockVars   == <<clockInitialized, lastObservedMs>>
supervisorVars == <<supervisorConfig, latchVars, commandVars, inputVars,
                    clockVars, starterEngagedAtMs, outputVars>>

-----------------------------------------------------------------------------
(* 32-bit clock arithmetic.                                                *)

Elapsed(now, since) == (now - since) % ClockModulus

StrictlyNewer(candidate, previous) ==
    /\ candidate # previous
    /\ 2 * Elapsed(candidate, previous) < ClockModulus

ConfigIsValid(c) ==
    /\ c.watchdogTimeoutMs \in 1 .. MaximumWatchdogTimeoutMs
    /\ c.maximumStarterActiveMs \in 1 .. MaximumStarterActiveMs
    /\ c.feedbackGraceMs <= MaximumFeedbackGraceMs
    /\ c.feedbackGraceMs <= c.watchdogTimeoutMs

-----------------------------------------------------------------------------
(* The concrete driver, known only through ActuatorPort: a call that       *)
(* succeeds has acted on the outputs it names; one that fails leaves each  *)
(* of them either as it was or as asked.  "lit" and "cranking" are the     *)
(* outputs left by a failing call that precedes safing in one operation.   *)

DriverEnableIgnition ==
    /\ ignitionOutput' = TRUE
    /\ UNCHANGED starterOutput

DriverEngageStarter ==
    /\ starterOutput' = TRUE
    /\ UNCHANGED ignitionOutput

DriverDisengageStarter ==
    /\ starterOutput' = FALSE
    /\ UNCHANGED ignitionOutput

DriverReleaseRemoteControl ==
    /\ ignitionOutput' = FALSE
    /\ starterOutput' = FALSE

\* disengageStarter() then secureOutputs(), both attempted whatever the first
\* returns; "ok" when both succeed.
DriverSafing(ok, lit, cranking) ==
    /\ ignitionOutput' \in (IF ok THEN {FALSE} ELSE {FALSE, lit})
    /\ starterOutput' \in (IF ok THEN {FALSE} ELSE {FALSE, cranking})

-----------------------------------------------------------------------------
(* The private steps the public operations are made of.                    *)

ReleaseCommands(at) ==
    /\ ignitionCommanded' = FALSE
    /\ starterCommanded' = FALSE
    /\ ignitionFeedbackConfirmed' = FALSE
    /\ lastOutputChangeMs' = at

\* Mutant: the failure of the driver is not remembered.
SafeDownstreamSilently(ok, at, lit, cranking) ==
    /\ DriverSafing(ok, lit, cranking)
    /\ ReleaseCommands(at)
    /\ UNCHANGED safingFailed

SafeDownstream(ok, at, lit, cranking) ==
    /\ DriverSafing(ok, lit, cranking)
    /\ ReleaseCommands(at)
    /\ safingFailed' = (safingFailed \/ ~ok)

\* Only the first fault is latched; the outputs are safed every time.
Trip(fault, at, lit, cranking) ==
    /\ supervisorFault' = IF supervisorFault = "None" THEN fault ELSE supervisorFault
    /\ \E safed \in BOOLEAN : SafeDownstream(safed, at, lit, cranking)

\* The clock may stand still or move forward by less than half its range.
ClockAccepts(now) ==
    clockInitialized /\ now # lastObservedMs => StrictlyNewer(now, lastObservedMs)

ObserveClock(now) ==
    /\ ClockAccepts(now)
    /\ lastObservedMs' = now
    /\ clockInitialized' = TRUE

RejectClock(now) ==
    /\ ~ClockAccepts(now)
    /\ Trip("ClockRegression", lastObservedMs, ignitionOutput, starterOutput)
    /\ UNCHANGED <<supervisorConfig, initialized, inputVars, clockVars,
                   starterEngagedAtMs>>

Faulted == ~initialized \/ supervisorFault # "None"

OutputsCommanded == ignitionCommanded \/ starterCommanded

\* Mutant: the age is taken from the last reading, not the last heartbeat.
ReadingOverdue(now) ==
    Elapsed(now, lastObservedMs) > supervisorConfig.watchdogTimeoutMs

HeartbeatOverdue(now) ==
    Elapsed(now, lastHeartbeatMs) > supervisorConfig.watchdogTimeoutMs

\* Mutant: the hardware permission is not checked.
RefusalWithoutInterlock ==
    IF ~initialized THEN "InitializationFailure"
    ELSE IF supervisorFault # "None" THEN supervisorFault
    ELSE IF ~clockInitialized \/ ~heartbeatInitialized THEN "WatchdogExpired"
    ELSE IF HeartbeatOverdue(lastObservedMs) THEN "WatchdogExpired"
    ELSE "None"

\* The refusal canEnergize() trips on, "None" when the outputs may be driven.
EnergizeRefusal ==
    IF ~initialized THEN "InitializationFailure"
    ELSE IF supervisorFault # "None" THEN supervisorFault
    ELSE IF ~clockInitialized \/ ~heartbeatInitialized THEN "WatchdogExpired"
    ELSE IF ~hardwareStartPermitted THEN "HardwareInterlockLost"
    ELSE IF HeartbeatOverdue(lastObservedMs) THEN "WatchdogExpired"
    ELSE "None"

CanEnergize == EnergizeRefusal = "None"

\* An initialized supervisor that is already faulted refuses without safing.
RefuseToEnergize ==
    /\ ~CanEnergize
    /\ IF initialized /\ supervisorFault # "None"
       THEN UNCHANGED <<latchVars, commandVars, outputVars>>
       ELSE /\ Trip(EnergizeRefusal, lastObservedMs, ignitionOutput, starterOutput)
            /\ UNCHANGED initialized
    /\ UNCHANGED <<supervisorConfig, inputVars, clockVars, starterEngagedAtMs>>

\* Trip inside an actuator command, after a driver call that left the
\* outputs at "lit" and "cranking".
TripCommand(fault, lit, cranking) ==
    /\ Trip(fault, lastObservedMs, lit, cranking)
    /\ UNCHANGED <<supervisorConfig, initialized, inputVars, clockVars,
                   starterEngagedAtMs>>

-----------------------------------------------------------------------------
(* Supervision: heartbeat of the control task, poll of the supervision     *)
(* task, explicit rearming.                                                *)

Heartbeat(now, ok) ==
    \/ /\ ~ok
       /\ RejectClock(now)
    \/ /\ ~ok
       /\ Faulted
       /\ ObserveClock(now)
       /\ UNCHANGED <<supervisorConfig, latchVars, commandVars, inputVars,
                      starterEngagedAtMs, outputVars>>
    \/ /\ ~ok
       /\ ~Faulted
       /\ heartbeatInitialized /\ OutputsCommanded /\ HeartbeatOverdue(now)
       /\ ObserveClock(now)
       /\ Trip("WatchdogExpired", now, ignitionOutput, starterOutput)
       /\ UNCHANGED <<supervisorConfig, initialized, inputVars, starterEngagedAtMs>>
    \/ /\ ok
       /\ ~Faulted
       /\ ~(heartbeatInitialized /\ OutputsCommanded /\ HeartbeatOverdue(now))
       /\ ObserveClock(now)
       /\ lastHeartbeatMs' = now
       /\ heartbeatInitialized' = TRUE
       /\ UNCHANGED <<supervisorConfig, latchVars, commandVars,
                      hardwareStartPermitted, starterEngagedAtMs, outputVars>>

FeedbackMatches(feedback) ==
    /\ feedback.ignitionActive = ignitionCommanded
    /\ feedback.starterActive = starterCommanded

\* Mutant: every heartbeat grants the starter its full duration again.
StarterOverdueSinceHeartbeat(now) ==
    /\ starterCommanded
    /\ Elapsed(now, lastHeartbeatMs) > supervisorConfig.maximumStarterActiveMs

StarterOverdue(now) ==
    /\ starterCommanded
    /\ Elapsed(now, starterEngagedAtMs) > supervisorConfig.maximumStarterActiveMs

\* The first check of poll() that fails, in the order of the code.
PollFault(now, permitted, feedback) ==
    LET graceElapsed ==
            Elapsed(now, lastOutputChangeMs) > supervisorConfig.feedbackGraceMs
    IN  IF OutputsCommanded /\ ~permitted
        THEN "HardwareInterlockLost"
        ELSE IF OutputsCommanded /\ (~heartbeatInitialized \/ HeartbeatOverdue(now))
        THEN "WatchdogExpired"
        ELSE IF StarterOverdue(now)
        THEN "StarterTimeout"
        ELSE IF graceElapsed /\ feedback.available /\ ~FeedbackMatches(feedback)
        THEN "FeedbackMismatch"
        ELSE IF /\ graceElapsed /\ supervisorConfig.requireFeedback
                /\ OutputsCommanded /\ ~feedback.available
        THEN "FeedbackUnavailable"
        ELSE "None"

Poll(now, permitted, feedback) ==
    \/ RejectClock(now)
    \/ /\ Faulted
       /\ ObserveClock(now)
       /\ UNCHANGED <<supervisorConfig, latchVars, commandVars, inputVars,
                      starterEngagedAtMs, outputVars>>
    \/ /\ ~Faulted
       /\ PollFault(now, permitted, feedback) # "None"
       /\ ObserveClock(now)
       /\ hardwareStartPermitted' = permitted
       /\ Trip(PollFault(now, permitted, feedback), now,
               ignitionOutput, starterOutput)
       /\ UNCHANGED <<supervisorConfig, initialized, heartbeatInitialized,
                      lastHeartbeatMs, starterEngagedAtMs>>
    \/ /\ ~Faulted
       /\ PollFault(now, permitted, feedback) = "None"
       /\ ObserveClock(now)
       /\ hardwareStartPermitted' = permitted
       /\ ignitionFeedbackConfirmed' =
              IF feedback.available /\ FeedbackMatches(feedback)
              THEN ignitionCommanded ELSE ignitionFeedbackConfirmed
       /\ UNCHANGED <<supervisorConfig, latchVars, ignitionCommanded,
                      starterCommanded, lastOutputChangeMs, heartbeatInitialized,
                      lastHeartbeatMs, starterEngagedAtMs, outputVars>>

OutputsReportedActive(feedback) ==
    feedback.ignitionActive \/ feedback.starterActive

FeedbackRefusesReset(feedback) ==
    \/ supervisorConfig.requireFeedback /\ ~feedback.available
    \/ feedback.available /\ OutputsReportedActive(feedback)

\* Mutant: what was reported before the fault still counts after it.
RearmKeepingInputs(now) ==
    /\ DriverSafing(TRUE, ignitionOutput, starterOutput)
    /\ ReleaseCommands(now)
    /\ supervisorFault' = "None"
    /\ safingFailed' = FALSE
    /\ initialized' = TRUE
    /\ UNCHANGED inputVars

\* The outputs are safe and reported off: start afresh.
Rearm(now) ==
    /\ DriverSafing(TRUE, ignitionOutput, starterOutput)
    /\ ReleaseCommands(now)
    /\ supervisorFault' = "None"
    /\ safingFailed' = FALSE
    /\ heartbeatInitialized' = FALSE
    /\ hardwareStartPermitted' = FALSE
    /\ initialized' = TRUE
    /\ UNCHANGED lastHeartbeatMs

\* Mutant: the configuration is not looked at again.
AnyConfigResets == TRUE

\* resetFault() checks the configuration the constructor may have refused.
ConfigPermitsReset == ConfigIsValid(supervisorConfig)

\* Rearming safes the outputs again before it looks at the feedback; each of
\* its failures overwrites the latched fault.
ResetFault(now, feedback, ok) ==
    \/ /\ ~ok
       /\ RejectClock(now)
    \/ /\ ~ok
       /\ ~ConfigPermitsReset
       /\ ObserveClock(now)
       /\ supervisorFault' = "InvalidConfiguration"
       /\ \E safed \in BOOLEAN :
              SafeDownstream(safed, now, ignitionOutput, starterOutput)
       /\ UNCHANGED <<supervisorConfig, initialized, inputVars, starterEngagedAtMs>>
    \/ /\ ~ok
       /\ ConfigPermitsReset
       /\ ObserveClock(now)
       /\ supervisorFault' = "SafingFailure"
       /\ SafeDownstream(FALSE, now, ignitionOutput, starterOutput)
       /\ UNCHANGED <<supervisorConfig, initialized, inputVars, starterEngagedAtMs>>
    \/ /\ ~ok
       /\ ConfigPermitsReset
       /\ FeedbackRefusesReset(feedback)
       /\ ObserveClock(now)
       /\ supervisorFault' = IF feedback.available THEN "FeedbackMismatch"
                                                   ELSE "FeedbackUnavailable"
       /\ SafeDownstream(TRUE, now, ignitionOutput, starterOutput)
       /\ UNCHANGED <<supervisorConfig, initialized, inputVars, starterEngagedAtMs>>
    \/ /\ ok
       /\ ConfigPermitsReset
       /\ ~FeedbackRefusesReset(feedback)
       /\ ObserveClock(now)
       /\ Rearm(now)
       /\ UNCHANGED <<supervisorConfig, starterEngagedAtMs>>

-----------------------------------------------------------------------------
(* The ActuatorPort the Runtime drives.                                    *)

EnableIgnition(ok) ==
    \/ /\ ~ok
       /\ RefuseToEnergize
    \/ /\ ~ok
       /\ CanEnergize
       /\ \E lit \in {ignitionOutput, TRUE} :
              TripCommand("DriverFailure", lit, starterOutput)
    \/ /\ ok
       /\ CanEnergize
       /\ DriverEnableIgnition
       /\ ignitionCommanded' = TRUE
       /\ ignitionFeedbackConfirmed' = ~supervisorConfig.requireFeedback
       /\ lastOutputChangeMs' = lastObservedMs
       /\ UNCHANGED <<supervisorConfig, latchVars, starterCommanded, inputVars,
                      clockVars, starterEngagedAtMs>>

\* Mutant: only a double engagement is out of sequence.
StarterAlreadyEngaged == starterCommanded

StarterOutOfSequence ==
    \/ starterCommanded
    \/ ~ignitionCommanded
    \/ supervisorConfig.requireFeedback /\ ~ignitionFeedbackConfirmed

EngageStarter(ok) ==
    \/ /\ ~ok
       /\ RefuseToEnergize
    \/ /\ ~ok
       /\ CanEnergize
       /\ StarterOutOfSequence
       /\ TripCommand("CommandSequence", ignitionOutput, starterOutput)
    \/ /\ ~ok
       /\ CanEnergize
       /\ ~StarterOutOfSequence
       /\ \E cranking \in {starterOutput, TRUE} :
              TripCommand("DriverFailure", ignitionOutput, cranking)
    \/ /\ ok
       /\ CanEnergize
       /\ ~StarterOutOfSequence
       /\ DriverEngageStarter
       /\ starterCommanded' = TRUE
       /\ starterEngagedAtMs' = lastObservedMs
       /\ lastOutputChangeMs' = lastObservedMs
       /\ UNCHANGED <<supervisorConfig, latchVars, ignitionCommanded,
                      ignitionFeedbackConfirmed, inputVars, clockVars>>

DisengageStarter(ok) ==
    \/ /\ ~ok
       /\ \E cranking \in {starterOutput, FALSE} :
              TripCommand("DriverFailure", ignitionOutput, cranking)
    \/ /\ ok
       /\ DriverDisengageStarter
       /\ starterCommanded' = FALSE
       /\ lastOutputChangeMs' = lastObservedMs
       /\ UNCHANGED <<supervisorConfig, latchVars, ignitionCommanded,
                      ignitionFeedbackConfirmed, inputVars, clockVars,
                      starterEngagedAtMs>>

ReleaseRemoteControl(ok) ==
    \/ /\ ~ok
       /\ RefuseToEnergize
    \/ /\ ~ok
       /\ CanEnergize
       /\ starterCommanded
       /\ TripCommand("CommandSequence", ignitionOutput, starterOutput)
    \/ /\ ~ok
       /\ CanEnergize
       /\ ~starterCommanded
       /\ \E lit \in {ignitionOutput, FALSE}, cranking \in {starterOutput, FALSE} :
              TripCommand("DriverFailure", lit, cranking)
    \/ /\ ok
       /\ CanEnergize
       /\ ~starterCommanded
       /\ DriverReleaseRemoteControl
       /\ ReleaseCommands(lastObservedMs)
       /\ UNCHANGED <<supervisorConfig, latchVars, inputVars, clockVars,
                      starterEngagedAtMs>>

\* Mutant: the failure is returned but not latched.
SecureOutputsUnlatched(ok) ==
    /\ SafeDownstream(ok, lastObservedMs, ignitionOutput, starterOutput)
    /\ UNCHANGED <<supervisorConfig, supervisorFault, initialized, inputVars,
                   clockVars, starterEngagedAtMs>>

\* A failure overwrites whatever fault was latched.
SecureOutputs(ok) ==
    /\ SafeDownstream(ok, lastObservedMs, ignitionOutput, starterOutput)
    /\ supervisorFault' = IF ok THEN supervisorFault ELSE "SafingFailure"
    /\ UNCHANGED <<supervisorConfig, initialized, inputVars, clockVars,
                   starterEngagedAtMs>>

-----------------------------------------------------------------------------
(* The constructor: the outputs are in any state at power-up and are safed *)
(* before anything else.                                                   *)

SupervisorInit ==
    /\ supervisorConfig \in SupervisorConfigs
    /\ safingFailed \in BOOLEAN
    /\ initialized = (ConfigIsValid(supervisorConfig) /\ ~safingFailed)
    /\ supervisorFault = IF ~ConfigIsValid(supervisorConfig) THEN "InvalidConfiguration"
                         ELSE IF safingFailed THEN "InitializationFailure" ELSE "None"
    /\ ignitionOutput \in (IF safingFailed THEN BOOLEAN ELSE {FALSE})
    /\ starterOutput \in (IF safingFailed THEN BOOLEAN ELSE {FALSE})
    /\ ignitionCommanded = FALSE
    /\ starterCommanded = FALSE
    /\ ignitionFeedbackConfirmed = FALSE
    /\ clockInitialized = FALSE
    /\ heartbeatInitialized = FALSE
    /\ hardwareStartPermitted = FALSE
    /\ lastObservedMs = 0
    /\ lastHeartbeatMs = 0
    /\ starterEngagedAtMs = 0
    /\ lastOutputChangeMs = 0

Supervision ==
    \/ \E now \in Time, ok \in BOOLEAN : Heartbeat(now, ok)
    \/ \E now \in Time, permitted \in BOOLEAN, feedback \in ActuatorFeedback :
          Poll(now, permitted, feedback)
    \/ \E now \in Time, feedback \in ActuatorFeedback, ok \in BOOLEAN :
          ResetFault(now, feedback, ok)

ActuatorCommand ==
    \E ok \in BOOLEAN :
        \/ EnableIgnition(ok)
        \/ EngageStarter(ok)
        \/ DisengageStarter(ok)
        \/ ReleaseRemoteControl(ok)
        \/ SecureOutputs(ok)

SupervisorNext == ActuatorCommand \/ Supervision

SupervisorSpec == SupervisorInit /\ [][SupervisorNext]_supervisorVars

-----------------------------------------------------------------------------
(* Correctness.                                                            *)

\* Every member has the type the class gives it, and the limits of a supervisor
\* in service are valid ones: neither the constructor nor resetFault(), which
\* can put a refused supervisor in service later, lets an invalid
\* configuration through.
SupervisorTypeOK ==
    /\ supervisorConfig \in Config
    /\ supervisorFault \in Faults
    /\ initialized \in BOOLEAN
    /\ safingFailed \in BOOLEAN
    /\ ignitionCommanded \in BOOLEAN
    /\ starterCommanded \in BOOLEAN
    /\ ignitionFeedbackConfirmed \in BOOLEAN
    /\ clockInitialized \in BOOLEAN
    /\ heartbeatInitialized \in BOOLEAN
    /\ hardwareStartPermitted \in BOOLEAN
    /\ lastObservedMs \in Time
    /\ lastHeartbeatMs \in Time
    /\ starterEngagedAtMs \in Time
    /\ lastOutputChangeMs \in Time
    /\ ignitionOutput \in BOOLEAN
    /\ starterOutput \in BOOLEAN
    /\ initialized => ConfigIsValid(supervisorConfig)

\* A physical output is live only while it is commanded, unless a safing
\* attempt failed and the supervisor says so (status().safingFailed): no
\* sequence of driver failures, trips, resets and commands leaves a live
\* output the supervisor believes to be off.
LiveOutputsAreCommanded ==
    ~safingFailed => /\ ignitionOutput => ignitionCommanded
                     /\ starterOutput => starterCommanded

\* Whatever the order of commands, the starter is commanded only on top of a
\* commanded ignition, and never by a faulted or uninitialized supervisor.
CommandsAreOrdered ==
    /\ starterCommanded => ignitionCommanded
    /\ Faulted => ~ignitionCommanded

\* A failed safing is never silent: the supervisor that could not safe its
\* outputs stays faulted, hence refuses every activation, until a reset whose
\* own safing succeeded.
SafingFailureIsLatched == safingFailed => supervisorFault # "None"

\* A latched fault is left only with every output dead and uncommanded and
\* nothing of the past left to rely on: neither a heartbeat nor a hardware
\* permission received before the reset can authorize an activation after it.
FaultClearedOnlySafe ==
    [][ supervisorFault # "None" /\ supervisorFault' = "None"
            => /\ ~ignitionOutput' /\ ~starterOutput'
               /\ ~OutputsCommanded' /\ ~safingFailed'
               /\ ~heartbeatInitialized' /\ ~hardwareStartPermitted'
      ]_supervisorVars

\* The faults docs/actuator-safety-supervisor.md:29-31 names: a loss of
\* permission, a stale heartbeat, a forbidden sequence, an inconsistent feedback.
DocumentedTrips == {"HardwareInterlockLost", "WatchdogExpired",
                    "CommandSequence", "FeedbackMismatch"}

\* docs/actuator-safety-supervisor.md:29-31: a loss of permission, a stale
\* heartbeat, a forbidden sequence or an inconsistent feedback latches the FIRST
\* fault.  What trips a supervisor in service is still its fault after any
\* further command of the Runtime.
FirstFaultIsKept ==
    [][ initialized /\ supervisorFault \in DocumentedTrips /\ ActuatorCommand
            => supervisorFault' = supervisorFault
      ]_supervisorVars
=============================================================================
