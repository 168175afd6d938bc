------------------------- MODULE RemoteSessionProofs -------------------------
(***************************************************************************)
(* The safety of a remote start session, for every set of snapshots, of    *)
(* configurations of the controller and of the supervisor, every clock     *)
(* width, and with late timer expiries or without.                         *)
(*                                                                         *)
(* What the runs check is about the moments between two events, or about   *)
(* outputs the supervisor knows.  It rests on what holds in the middle of  *)
(* a decision, while its actions are executed one by one and the           *)
(* supervision task trips between them: the actions still to come fit the  *)
(* state (PlanFitsState), and what the state no longer allows is about to  *)
(* be withdrawn (CommandsAreHeld, LiveOutputsAreHeld, WaitsAreTimed).      *)
(***************************************************************************)
EXTENDS RemoteSession, ActuatorSafetySupervisorProofs

Waiting == {"Authorizing", "Preparing", "Cranking", "Running", "AwaitingTakeover",
            "Stopping"}

Energizing == {"Preparing", "Cranking", "Running", "AwaitingTakeover"}

Unattended == {"Idle", "DriverControl"}

SessionTypeOK ==
    /\ state \in States
    /\ actions \in Seq(ActionTypes)
    /\ safing \in BOOLEAN
    /\ timerArmed \in BOOLEAN
    /\ timerElapsed \in BOOLEAN

ArmsLast ==
    \A n \in 1 .. Len(actions) : actions[n] = "ArmTimer" => n = Len(actions)

\* What is still to be executed is what the state allows; a timer is armed
\* last, once the previous one has been cancelled.
PlanFitsState ==
    /\ Pending("EnableIgnition") => state = "Preparing"
    /\ Pending("EngageStarter") => state = "Cranking"
    /\ Pending("ArmTimer") => state \in Waiting
    /\ ArmsLast

OutputsAboutToFall == Pending("SecureOutputs") \/ Pending("ReleaseRemoteControl")

\* What the supervisor has been told to drive is what the state drives, or the
\* call that withdraws it is still to come.
CommandsAreHeld ==
    /\ ignitionCommanded => ignitionOutput
    /\ ignitionCommanded => state \in Energizing \/ OutputsAboutToFall
    /\ starterCommanded =>
          state = "Cranking" \/ Pending("DisengageStarter") \/ Pending("SecureOutputs")

\* A supervisor that could not safe the outputs it found at power-up.
LiveAtPowerUp ==
    /\ safingFailed /\ ~initialized
    /\ supervisorFault \in {"InitializationFailure", "InvalidConfiguration"}

LiveOutputsAreHeld ==
    ignitionOutput \/ starterOutput =>
        state \in Energizing \cup {"Fault"} \/ OutputsAboutToFall \/ LiveAtPowerUp

WaitsAreTimed ==
    /\ state \in Waiting =>
          \/ Pending("ArmTimer")
          \/ (timerArmed \/ timerElapsed) /\ ~Pending("CancelTimer")
    /\ state \in Unattended /\ timerArmed => Pending("CancelTimer")

SessionInv ==
    /\ SupervisorInv
    /\ SessionTypeOK
    /\ PlanFitsState
    /\ safing => state = "Fault"
    /\ CommandsAreHeld
    /\ LiveOutputsAreHeld
    /\ WaitsAreTimed

-----------------------------------------------------------------------------
(* What is still to be executed of a decision.                             *)

\* The pending actions of the decisions of the controller, by their number.
LEMMA NothingPending ==
    ASSUME actions' = <<>>
    PROVE  ArmsLast' /\ \A x : ~Pending(x)'
  BY DEF Pending, ArmsLast

\* A decision of one action.
LEMMA OnePending ==
    ASSUME NEW a, actions' = <<a>>
    PROVE  ArmsLast' /\ \A x : Pending(x)' <=> x = a
  BY DEF Pending, ArmsLast

\* A decision of two actions: only the second may arm the timer.
LEMMA TwoPending ==
    ASSUME NEW a, NEW b, actions' = <<a, b>>, a # "ArmTimer"
    PROVE  ArmsLast' /\ \A x : Pending(x)' <=> x \in {a, b}
  BY DEF Pending, ArmsLast

\* A decision of three actions: only the third may arm the timer.
LEMMA ThreePending ==
    ASSUME NEW a, NEW b, NEW c, actions' = <<a, b, c>>, "ArmTimer" \notin {a, b}
    PROVE  ArmsLast' /\ \A x : Pending(x)' <=> x \in {a, b, c}
  BY DEF Pending, ArmsLast

\* A decision of four actions: only the fourth may arm the timer.
LEMMA FourPending ==
    ASSUME NEW a, NEW b, NEW c, NEW d, actions' = <<a, b, c, d>>,
           "ArmTimer" \notin {a, b, c}
    PROVE  ArmsLast' /\ \A x : Pending(x)' <=> x \in {a, b, c, d}
  BY DEF Pending, ArmsLast

\* A decision of five actions: only the fifth may arm the timer.
LEMMA FivePending ==
    ASSUME NEW a, NEW b, NEW c, NEW d, NEW e, actions' = <<a, b, c, d, e>>,
           "ArmTimer" \notin {a, b, c, d}
    PROVE  ArmsLast' /\ \A x : Pending(x)' <=> x \in {a, b, c, d, e}
  BY DEF Pending, ArmsLast

\* The Runtime executes the first action and keeps all the others.
LEMMA OthersStayPending ==
    ASSUME actions \in Seq(ActionTypes), actions # <<>>, actions' = Tail(actions),
           NEW x
    PROVE  /\ Pending(x)' => Pending(x)
           /\ Pending(x) /\ x # Head(actions) => Pending(x)'
  BY DEF Pending

\* The first action is pending, and the timer is armed by the last one.
LEMMA FirstIsPending ==
    ASSUME actions \in Seq(ActionTypes), actions # <<>>, ArmsLast
    PROVE  /\ Pending(Head(actions))
           /\ Head(actions) = "ArmTimer" => Tail(actions) = <<>>
           /\ Tail(actions) \in Seq(ActionTypes)
           /\ actions' = Tail(actions) => ArmsLast'
  BY DEF Pending, ArmsLast

-----------------------------------------------------------------------------
(* The decisions of the controller.                                        *)

\* What every decision owes to the state it leaves and to the one it enters.
SoundDecision ==
    /\ state' \in States
    /\ actions' \in Seq(ActionTypes)
    /\ PlanFitsState'
    /\ state \in Energizing \cup {"Fault"} =>
          state' \in Energizing \cup {state} \/ OutputsAboutToFall'
    /\ state \in Energizing /\ state' = "Fault" => Pending("SecureOutputs")'
    /\ state = "Cranking" /\ state' # "Cranking" => Pending("DisengageStarter")'
    /\ state' \in Waiting =>
          Pending("ArmTimer")' \/ (state' = state /\ ~Pending("CancelTimer")')
    /\ state' \in Unattended => Pending("CancelTimer")' \/ state \in Unattended

\* The decision to fault, from any state.
LEMMA EnterFaultIsSound ==
    ASSUME state \in States, NEW code, EnterFault(code)
    PROVE  SoundDecision /\ state' = "Fault" /\ Pending("SecureOutputs")'
  BY FourPending DEF EnterFault, FaultActions, Decide, SoundDecision, PlanFitsState,
     OutputsAboutToFall, States, ActionTypes, Notifications, Waiting, Energizing,
     Unattended

\* Answers that neither move the state machine nor touch the timer.
LEMMA SilentReplyIsSound ==
    ASSUME state \in States, Reply(<<>>)
    PROVE  SoundDecision
  BY NothingPending DEF Reply, Decide, SoundDecision, PlanFitsState, Waiting,
     Energizing, Unattended

\* A refusal that is only notified.
LEMMA NotifyingReplyIsSound ==
    ASSUME state \in States, NEW n \in Notifications, Reply(<<n>>)
    PROVE  SoundDecision
  BY OnePending DEF Reply, Decide, SoundDecision, PlanFitsState, ActionTypes,
     Notifications, Waiting, Energizing, Unattended

\* A refusal that also secures the outputs.
LEMMA SecuringReplyIsSound ==
    ASSUME state \in States, NEW n \in Notifications,
           Reply(<<"SecureOutputs", n>>)
    PROVE  SoundDecision
  BY TwoPending DEF Reply, Decide, SoundDecision, PlanFitsState, ActionTypes,
     Notifications, Waiting, Energizing, Unattended

\* The decisions that move the state machine, each from the states it is taken in.
LEMMA BeginPreparingIsSound ==
    ASSUME state = "Authorizing", BeginPreparing
    PROVE  SoundDecision
  BY FourPending DEF BeginPreparing, Decide, SoundDecision, PlanFitsState,
     OutputsAboutToFall, States, ActionTypes, Notifications, Waiting, Energizing, Unattended

\* The starter is engaged after the ignition: beginCranking().
LEMMA BeginCrankingIsSound ==
    ASSUME state = "Preparing", BeginCranking
    PROVE  SoundDecision /\ Pending("ArmTimer")'
  BY ThreePending DEF BeginCranking, Decide, SoundDecision, PlanFitsState,
     OutputsAboutToFall, States, ActionTypes, Notifications, Waiting, Energizing, Unattended

\* The engine started: beginRunning() disengages the starter first.
LEMMA BeginRunningIsSound ==
    ASSUME state = "Cranking", BeginRunning
    PROVE  SoundDecision
  BY FourPending DEF BeginRunning, Decide, SoundDecision, PlanFitsState,
     OutputsAboutToFall, States, ActionTypes, Notifications, Waiting, Energizing, Unattended

\* A driver is expected: beginAwaitingTakeover() replaces the timer of the run.
LEMMA BeginAwaitingTakeoverIsSound ==
    ASSUME state = "Running", BeginAwaitingTakeover
    PROVE  SoundDecision
  BY ThreePending DEF BeginAwaitingTakeover, Decide, SoundDecision, PlanFitsState,
     OutputsAboutToFall, States, ActionTypes, Notifications, Waiting, Energizing, Unattended

\* The driver takes over: completeDriverTakeover() releases the remote control.
LEMMA CompleteDriverTakeoverIsSound ==
    ASSUME state = "AwaitingTakeover", CompleteDriverTakeover
    PROVE  SoundDecision
  BY FourPending DEF CompleteDriverTakeover, Decide, SoundDecision, PlanFitsState,
     OutputsAboutToFall, States, ActionTypes, Notifications, Waiting, Energizing, Unattended

\* A session ends: beginStopping() secures the outputs and waits.
LEMMA BeginStoppingIsSound ==
    ASSUME state \in {"Running", "AwaitingTakeover"}, BeginStopping
    PROVE  SoundDecision /\ Pending("ArmTimer")'
  BY FivePending DEF BeginStopping, Decide, SoundDecision, PlanFitsState,
     OutputsAboutToFall, States, ActionTypes, Notifications, Waiting, Energizing, Unattended

\* The engine stopped, or never ran: completeStop() goes back to Idle.
LEMMA CompleteStopIsSound ==
    ASSUME state \in Waiting, CompleteStop
    PROVE  SoundDecision
  BY FourPending DEF CompleteStop, Decide, SoundDecision, PlanFitsState,
     OutputsAboutToFall, States, ActionTypes, Notifications, Waiting, Energizing, Unattended

\* The handlers of the requests, one after the other.
LEMMA StartRequestIsSound ==
    ASSUME state \in States, HandleStartRequest
    PROVE  SoundDecision
  <1>1. ASSUME NEW n \in Notifications, Reply(<<n>>) \/ Reply(<<"SecureOutputs", n>>)
        PROVE  SoundDecision
    BY <1>1, NotifyingReplyIsSound, SecuringReplyIsSound
  <1>2. CASE /\ state = "Idle"
             /\ Decide("Authorizing", fault, <<"RequestVehicleState", "ArmTimer">>)
    BY <1>2, TwoPending DEF Decide, SoundDecision, PlanFitsState, OutputsAboutToFall,
       States, ActionTypes, Notifications, Waiting, Energizing, Unattended
  <1> QED
    BY <1>1, <1>2 DEF HandleStartRequest, Notifications

\* A stop is requested, in any state (handleStopRequest).
LEMMA StopRequestIsSound ==
    ASSUME state \in States, HandleStopRequest
    PROVE  SoundDecision
  <1>1. CASE state \in {"Authorizing", "Preparing", "Cranking"} /\ CompleteStop
    BY <1>1, CompleteStopIsSound DEF Waiting
  <1>2. CASE state \in {"Running", "AwaitingTakeover"} /\ BeginStopping
    BY <1>2, BeginStoppingIsSound
  <1>3. ASSUME NEW n \in Notifications, Reply(<<n>>) \/ Reply(<<"SecureOutputs", n>>)
        PROVE  SoundDecision
    BY <1>3, NotifyingReplyIsSound, SecuringReplyIsSound
  <1> QED
    BY <1>1, <1>2, <1>3 DEF HandleStopRequest, Notifications

\* A state of the vehicle arrives, in any state (handleVehicleUpdate).
LEMMA VehicleUpdateIsSound ==
    ASSUME state \in States, NEW v, HandleVehicleUpdate(v)
    PROVE  SoundDecision
  <1>1. CASE UpdateWhileAuthorizing(v)
    <2>1. CASE Decide("Idle", "None",
                      <<"CancelTimer", "SecureOutputs", "NotifyStartRejected">>)
      BY <1>1, <2>1, ThreePending DEF UpdateWhileAuthorizing, Decide, SoundDecision,
         PlanFitsState, OutputsAboutToFall, States, ActionTypes, Notifications,
         Waiting, Energizing, Unattended
    <2> QED
      BY <1>1, <2>1, BeginPreparingIsSound DEF UpdateWhileAuthorizing
  <1>2. CASE UpdateWhilePreparing(v)
    BY <1>2, EnterFaultIsSound, SilentReplyIsSound DEF UpdateWhilePreparing
  <1>3. CASE UpdateWhileCranking(v)
    BY <1>3, EnterFaultIsSound, BeginRunningIsSound, SilentReplyIsSound
       DEF UpdateWhileCranking
  <1>4. CASE UpdateWhileRunning(v)
    BY <1>4, EnterFaultIsSound, BeginAwaitingTakeoverIsSound, BeginStoppingIsSound,
       SilentReplyIsSound DEF UpdateWhileRunning
  <1>5. CASE UpdateWhileAwaitingTakeover(v)
    BY <1>5, EnterFaultIsSound, SilentReplyIsSound DEF UpdateWhileAwaitingTakeover
  <1>6. CASE UpdateWhileDriverControl(v)
    <2>1. CASE Decide("Idle", fault, <<"NotifyReady">>)
      BY <1>6, <2>1, OnePending DEF UpdateWhileDriverControl, Decide, SoundDecision,
         PlanFitsState, OutputsAboutToFall, States, ActionTypes, Notifications,
         Waiting, Energizing, Unattended
    <2> QED
      BY <1>6, <2>1, SilentReplyIsSound DEF UpdateWhileDriverControl
  <1>7. CASE UpdateWhileStopping(v)
    BY <1>7, CompleteStopIsSound, SilentReplyIsSound DEF UpdateWhileStopping, Waiting
  <1> QED
    BY <1>1, <1>2, <1>3, <1>4, <1>5, <1>6, <1>7, SilentReplyIsSound
       DEF HandleVehicleUpdate

\* An expiry always leads to a state without a limit or to a new timer.
LEMMA TimerIsSound ==
    ASSUME state \in States, NEW v, HandleTimer(v)
    PROVE  SoundDecision /\ (state' \in Waiting => Pending("ArmTimer")')
  <1>1. ASSUME NEW code, EnterFault(code)
        PROVE  SoundDecision /\ state' \notin Waiting
    BY <1>1, EnterFaultIsSound DEF Waiting
  <1>2. CASE state = "Preparing" /\ BeginCranking
    BY <1>2, BeginCrankingIsSound
  <1>3. CASE state \in {"Running", "AwaitingTakeover"} /\ BeginStopping
    BY <1>3, BeginStoppingIsSound
  <1>4. CASE state \in {"DriverControl", "Idle", "Fault"} /\ Reply(<<>>)
    <2>1. state' \notin Waiting
      BY <1>4 DEF Reply, Decide, Waiting
    <2> QED
      BY <1>4, <2>1, SilentReplyIsSound
  <1> QED
    BY <1>1, <1>2, <1>3, <1>4 DEF HandleTimer

\* The takeover is confirmed, in any state (handleDriverTakeover).
LEMMA DriverTakeoverIsSound ==
    ASSUME state \in States, NEW v, HandleDriverTakeover(v)
    PROVE  SoundDecision
  <1>1. "NotifyRequestIgnored" \in Notifications
    BY DEF Notifications
  <1> QED
    BY <1>1, EnterFaultIsSound, CompleteDriverTakeoverIsSound, NotifyingReplyIsSound
       DEF HandleDriverTakeover

\* A reset is requested, in any state (handleResetRequest).
LEMMA ResetIsSound ==
    ASSUME state \in States, NEW v, HandleReset(v)
    PROVE  SoundDecision
  <1>1. CASE /\ state = "Fault"
             /\ Decide("Idle", "None",
                       <<"CancelTimer", "SecureOutputs", "NotifyReady">>)
    BY <1>1, ThreePending DEF Decide, SoundDecision, PlanFitsState, OutputsAboutToFall,
       States, ActionTypes, Notifications, Waiting, Energizing, Unattended
  <1>2. /\ "NotifyRequestIgnored" \in Notifications
        /\ "NotifyResetRejected" \in Notifications
    BY DEF Notifications
  <1> QED
    BY <1>1, <1>2, NotifyingReplyIsSound, SecuringReplyIsSound DEF HandleReset

-----------------------------------------------------------------------------
(* What a call of the supervisor may raise.                                *)

IgnitionFollowsCommand == ignitionCommanded => ignitionOutput

\* Nothing goes live and nothing new is commanded.
OnlyFalls ==
    /\ ignitionOutput' => ignitionOutput
    /\ starterOutput' => starterOutput
    /\ ignitionCommanded' => ignitionCommanded
    /\ starterCommanded' => starterCommanded
    /\ IgnitionFollowsCommand'

\* trip() withdraws every command; the driver call that failed before it is the
\* only way it can leave an output live that was not.
LEMMA TripFalls ==
    ASSUME NEW code, NEW at, NEW lit \in BOOLEAN, NEW cranking \in BOOLEAN,
           Trip(code, at, lit, cranking)
    PROVE  /\ ~ignitionCommanded' /\ ~starterCommanded'
           /\ ignitionOutput' => lit /\ safingFailed'
           /\ starterOutput' => cranking /\ safingFailed'
           /\ safingFailed => safingFailed'
           /\ supervisorFault # "None" => supervisorFault' = supervisorFault
  BY DEF Trip, SafeDownstream, DriverSafing, ReleaseCommands

\* The same for outputs that no driver call has touched.
LEMMA PlainTripFalls ==
    ASSUME SupervisorInv, NEW code, NEW at,
           Trip(code, at, ignitionOutput, starterOutput)
    PROVE  /\ OnlyFalls
           /\ ~ignitionCommanded' /\ ~starterCommanded'
           /\ safingFailed => safingFailed'
           /\ supervisorFault # "None" => supervisorFault' = supervisorFault
  <1>1. ignitionOutput \in BOOLEAN /\ starterOutput \in BOOLEAN
    BY DEF SupervisorInv, SupervisorTypeOK
  <1> QED
    BY <1>1, TripFalls DEF OnlyFalls, IgnitionFollowsCommand

\* A clock that went back trips the supervisor: outputs only fall.
LEMMA RejectClockFalls ==
    ASSUME SupervisorInv, NEW now, RejectClock(now)
    PROVE  OnlyFalls /\ (LiveAtPowerUp => LiveAtPowerUp')
  BY PlainTripFalls DEF RejectClock, LiveAtPowerUp

\* A heartbeat raises nothing.
LEMMA HeartbeatFalls ==
    ASSUME SupervisorInv, IgnitionFollowsCommand, NEW now, NEW ok, Heartbeat(now, ok)
    PROVE  OnlyFalls /\ (LiveAtPowerUp => LiveAtPowerUp')
  <1>1. CASE RejectClock(now)
    BY <1>1, RejectClockFalls
  <1>2. CASE Trip("WatchdogExpired", now, ignitionOutput, starterOutput)
             /\ UNCHANGED initialized
    BY <1>2, PlainTripFalls DEF LiveAtPowerUp
  <1>3. CASE UNCHANGED <<latchVars, commandVars, outputVars>>
    BY <1>3 DEF OnlyFalls, IgnitionFollowsCommand, LiveAtPowerUp, latchVars,
                  commandVars, outputVars
  <1> QED
    BY <1>1, <1>2, <1>3 DEF Heartbeat

\* A poll raises nothing.
LEMMA PollFalls ==
    ASSUME SupervisorInv, IgnitionFollowsCommand, NEW now, NEW permitted, NEW feedback,
           Poll(now, permitted, feedback)
    PROVE  OnlyFalls /\ (LiveAtPowerUp => LiveAtPowerUp')
  <1>1. CASE RejectClock(now)
    BY <1>1, RejectClockFalls
  <1>2. CASE Trip(PollFault(now, permitted, feedback), now, ignitionOutput, starterOutput)
             /\ UNCHANGED initialized
    BY <1>2, PlainTripFalls DEF LiveAtPowerUp
  <1>3. CASE UNCHANGED <<latchVars, ignitionCommanded, starterCommanded, outputVars>>
    BY <1>3 DEF OnlyFalls, IgnitionFollowsCommand, LiveAtPowerUp, latchVars, outputVars
  <1> QED
    BY <1>1, <1>2, <1>3 DEF Poll, commandVars

\* A rearming raises nothing.
LEMMA ResetFaultFalls ==
    ASSUME SupervisorInv, IgnitionFollowsCommand, NEW now, NEW feedback, NEW ok,
           ResetFault(now, feedback, ok)
    PROVE  OnlyFalls
  <1>1. ignitionOutput \in BOOLEAN /\ starterOutput \in BOOLEAN
    BY DEF SupervisorInv, SupervisorTypeOK
  <1>2. CASE RejectClock(now)
    BY <1>2, RejectClockFalls
  <1>3. ASSUME NEW safed, SafeDownstream(safed, now, ignitionOutput, starterOutput)
        PROVE  OnlyFalls
    BY <1>1, <1>3 DEF SafeDownstream, DriverSafing, ReleaseCommands, OnlyFalls,
       IgnitionFollowsCommand
  <1>4. CASE Rearm(now)
    BY <1>4 DEF Rearm, DriverSafing, ReleaseCommands, OnlyFalls, IgnitionFollowsCommand
  <1> QED
    BY <1>2, <1>3, <1>4 DEF ResetFault

\* A refused activation raises nothing and leaves nothing commanded.
LEMMA RefuseFalls ==
    ASSUME SupervisorInv, IgnitionFollowsCommand, RefuseToEnergize
    PROVE  OnlyFalls /\ ~ignitionCommanded' /\ ~starterCommanded'
  <1>1. CASE initialized /\ supervisorFault # "None"
    <2>1. ~ignitionCommanded /\ ~starterCommanded
      BY <1>1 DEF SupervisorInv, CommandsAreOrdered, Faulted
    <2> QED
      BY <1>1, <2>1 DEF RefuseToEnergize, OnlyFalls, IgnitionFollowsCommand,
                         commandVars, outputVars
  <1>2. CASE ~(initialized /\ supervisorFault # "None")
    BY <1>2, PlainTripFalls DEF RefuseToEnergize
  <1> QED
    BY <1>1, <1>2

\* Energizing is allowed only by an initialized supervisor without fault.
LEMMA EnergizingIsPermitted ==
    ASSUME CanEnergize, supervisorFault \in Faults
    PROVE  /\ supervisorFault = "None" /\ hardwareStartPermitted
           /\ ~LiveAtPowerUp
  BY CanEnergizeMeans DEF LiveAtPowerUp

\* enableIgnition() raises the ignition only, once initialized and without a fault.
LEMMA EnableIgnitionRaises ==
    ASSUME SupervisorInv, IgnitionFollowsCommand, NEW ok \in BOOLEAN, EnableIgnition(ok)
    PROVE  /\ starterOutput' => starterOutput
           /\ starterCommanded' => starterCommanded
           /\ IgnitionFollowsCommand'
           /\ ~ok => ~ignitionCommanded' /\ ~starterCommanded'
           /\ ignitionOutput' /\ ~ignitionOutput /\ ~safingFailed' =>
                  supervisorFault = "None" /\ hardwareStartPermitted
  <1>1. /\ ignitionOutput \in BOOLEAN /\ starterOutput \in BOOLEAN
        /\ supervisorFault \in Faults
    BY DEF SupervisorInv, SupervisorTypeOK
  <1>2. CASE RefuseToEnergize /\ ~ok
    BY <1>2, RefuseFalls DEF OnlyFalls
  <1>3. CASE ~ok /\ \E lit \in {ignitionOutput, TRUE} :
                        TripCommand("DriverFailure", lit, starterOutput)
    BY <1>1, <1>3, TripFalls DEF TripCommand, IgnitionFollowsCommand
  <1>4. CASE /\ ok /\ CanEnergize /\ DriverEnableIgnition
             /\ UNCHANGED starterCommanded
    BY <1>1, <1>4, EnergizingIsPermitted DEF DriverEnableIgnition, IgnitionFollowsCommand
  <1> QED
    BY <1>2, <1>3, <1>4 DEF EnableIgnition

\* engageStarter() raises the starter only, the ignition being commanded.
LEMMA EngageStarterRaises ==
    ASSUME SupervisorInv, IgnitionFollowsCommand, NEW ok \in BOOLEAN, EngageStarter(ok)
    PROVE  /\ ignitionOutput' => ignitionOutput
           /\ ignitionCommanded' => ignitionCommanded
           /\ IgnitionFollowsCommand'
           /\ ~ok => ~ignitionCommanded' /\ ~starterCommanded'
           /\ starterOutput' /\ ~starterOutput /\ ~safingFailed' =>
                  /\ ignitionOutput
                  /\ supervisorFault = "None" /\ hardwareStartPermitted
  <1>1. /\ ignitionOutput \in BOOLEAN /\ starterOutput \in BOOLEAN
        /\ supervisorFault \in Faults
    BY DEF SupervisorInv, SupervisorTypeOK
  <1>2. CASE RefuseToEnergize /\ ~ok
    BY <1>2, RefuseFalls DEF OnlyFalls
  <1>3. CASE ~ok /\ TripCommand("CommandSequence", ignitionOutput, starterOutput)
    BY <1>1, <1>3, TripFalls DEF TripCommand, IgnitionFollowsCommand
  <1>4. CASE ~ok /\ \E cranking \in {starterOutput, TRUE} :
                        TripCommand("DriverFailure", ignitionOutput, cranking)
    BY <1>1, <1>4, TripFalls DEF TripCommand, IgnitionFollowsCommand
  <1>5. CASE /\ ok /\ CanEnergize /\ ~StarterOutOfSequence /\ DriverEngageStarter
             /\ UNCHANGED ignitionCommanded
    BY <1>1, <1>5, EnergizingIsPermitted
       DEF DriverEngageStarter, IgnitionFollowsCommand, StarterOutOfSequence
  <1> QED
    BY <1>2, <1>3, <1>4, <1>5 DEF EngageStarter

\* disengageStarter() lets the starter fall, or trips.
LEMMA DisengageStarterFalls ==
    ASSUME SupervisorInv, IgnitionFollowsCommand, NEW ok \in BOOLEAN, DisengageStarter(ok)
    PROVE  /\ OnlyFalls
           /\ ~starterCommanded'
           /\ ~ok => ~ignitionCommanded'
           /\ ok => UNCHANGED <<ignitionOutput, latchVars>>
  <1>1. ignitionOutput \in BOOLEAN /\ starterOutput \in BOOLEAN
    BY DEF SupervisorInv, SupervisorTypeOK
  <1>2. CASE ~ok /\ \E cranking \in {starterOutput, FALSE} :
                        TripCommand("DriverFailure", ignitionOutput, cranking)
    BY <1>1, <1>2, TripFalls DEF TripCommand, OnlyFalls, IgnitionFollowsCommand
  <1>3. CASE /\ ok /\ DriverDisengageStarter /\ starterCommanded' = FALSE
             /\ UNCHANGED <<latchVars, ignitionCommanded>>
    BY <1>3 DEF DriverDisengageStarter, OnlyFalls, IgnitionFollowsCommand
  <1> QED
    BY <1>2, <1>3 DEF DisengageStarter

\* releaseRemoteControl() withdraws both commands, or trips.
LEMMA ReleaseRemoteControlFalls ==
    ASSUME SupervisorInv, IgnitionFollowsCommand, NEW ok \in BOOLEAN,
           ReleaseRemoteControl(ok)
    PROVE  /\ OnlyFalls
           /\ ~ignitionCommanded' /\ ~starterCommanded'
           /\ ok => ~ignitionOutput' /\ ~starterOutput'
  <1>1. ignitionOutput \in BOOLEAN /\ starterOutput \in BOOLEAN
    BY DEF SupervisorInv, SupervisorTypeOK
  <1>2. CASE RefuseToEnergize /\ ~ok
    BY <1>2, RefuseFalls
  <1>3. CASE ~ok /\ \E lit \in {ignitionOutput, FALSE}, cranking \in {starterOutput, FALSE},
                       code \in {"CommandSequence", "DriverFailure"} :
                        TripCommand(code, lit, cranking)
    BY <1>1, <1>3, TripFalls DEF TripCommand, OnlyFalls, IgnitionFollowsCommand
  <1>4. CASE ok /\ DriverReleaseRemoteControl /\ ReleaseCommands(lastObservedMs)
    BY <1>4 DEF DriverReleaseRemoteControl, ReleaseCommands, OnlyFalls, IgnitionFollowsCommand
  <1> QED
    BY <1>2, <1>3, <1>4 DEF ReleaseRemoteControl

\* secureOutputs() withdraws both commands, whatever the driver answers.
LEMMA SecureOutputsFalls ==
    ASSUME SupervisorInv, NEW ok \in BOOLEAN, SecureOutputs(ok)
    PROVE  /\ OnlyFalls
           /\ ~ignitionCommanded' /\ ~starterCommanded'
           /\ ok => ~ignitionOutput' /\ ~starterOutput'
  <1>1. ignitionOutput \in BOOLEAN /\ starterOutput \in BOOLEAN
    BY DEF SupervisorInv, SupervisorTypeOK
  <1> QED
    BY <1>1 DEF SecureOutputs, SafeDownstream, DriverSafing, ReleaseCommands, OnlyFalls,
       IgnitionFollowsCommand

-----------------------------------------------------------------------------
(* The session drives the supervisor only through its operations.          *)

\* The readings of the clock that the runtime takes are times.
LEMMA ReadingsAreTimes ==
    ASSUME lastObservedMs \in Time
    PROVE  Readings \subseteq Time
  BY ClockAssumption DEF Readings, Time

\* Every step of a session is a step of the supervisor, or leaves it alone.
LEMMA SessionStepsSupervisor ==
    ASSUME SupervisorInv, [SessionNext]_sessionVars
    PROVE  [SupervisorNext]_supervisorVars
  <1>1. Readings \subseteq Time /\ Reports \subseteq ActuatorFeedback
    BY ReadingsAreTimes DEF SupervisorInv, SupervisorTypeOK, Reports
  <1>2. CASE Request \/ TimerDelivered \/ SupervisorFaultPropagated \/ TimerExpires
    BY <1>2 DEF Request, RemoteStartRequested, RemoteStopRequested, VehicleStateUpdated,
       DriverTakeoverConfirmed, ResetRequested, TimerDelivered, SupervisorFaultPropagated,
       TimerExpires, Dispatch
  <1>3. CASE Execute
    <2>1. CASE ActuatorCall
      <3>1. ActuatorCommand
        BY <2>1 DEF ActuatorCall, ActuatorCommand
      <3> QED
        BY <3>1 DEF SupervisorNext
    <2> QED
      BY <1>3, <2>1 DEF Execute, Notify, RequestVehicleState, ArmTimer, CancelTimer
  <1>4. CASE ControlHeartbeat \/ SupervisionPoll \/ SupervisorRearmed
    <2>1. Supervision
      BY <1>1, <1>4 DEF ControlHeartbeat, SupervisionPoll, SupervisorRearmed, Supervision
    <2> QED
      BY <2>1 DEF SupervisorNext
  <1>5. CASE UNCHANGED sessionVars
    BY <1>5 DEF sessionVars
  <1> QED
    BY <1>2, <1>3, <1>4, <1>5 DEF SessionNext

-----------------------------------------------------------------------------
(* The steps of a session.                                                 *)

\* Dispatching a sound decision keeps the invariant; one that answers an
\* expiry must arm a new timer.
LEMMA DispatchStep ==
    ASSUME SessionInv, SupervisorInv', Ready, SoundDecision, safing' = FALSE,
           UNCHANGED supervisorVars, UNCHANGED timerArmed, timerElapsed' \in BOOLEAN,
           \/ UNCHANGED timerElapsed
           \/ state' \in Waiting => Pending("ArmTimer")'
    PROVE  SessionInv'
  <1>1. \A x : ~Pending(x)
    BY DEF Ready, Pending
  <1>2. UNCHANGED <<ignitionCommanded, starterCommanded, ignitionOutput, starterOutput,
                    supervisorFault, initialized, safingFailed>>
    BY DEF supervisorVars, latchVars, commandVars, outputVars
  <1>3. SessionTypeOK' /\ PlanFitsState'
    BY DEF SessionInv, SessionTypeOK, SoundDecision
  <1>4. CommandsAreHeld'
    BY <1>1, <1>2 DEF SessionInv, CommandsAreHeld, SoundDecision, OutputsAboutToFall,
       Energizing, States
  <1>5. LiveOutputsAreHeld'
    BY <1>1, <1>2 DEF SessionInv, LiveOutputsAreHeld, LiveAtPowerUp, SoundDecision,
       OutputsAboutToFall
  <1>6. WaitsAreTimed'
    BY <1>1 DEF SessionInv, WaitsAreTimed, SoundDecision
  <1> QED
    BY <1>3, <1>4, <1>5, <1>6 DEF SessionInv

\* A failed port call, unless it happened in executeSafing(), replaces what
\* was left of the decision by the actions of a fault.
LEMMA FailureMeans ==
    ASSUME SessionInv, NEW code, Fail(code), ~safing
    PROVE  /\ state' = "Fault" /\ safing' = TRUE
           /\ PlanFitsState' /\ actions' \in Seq(ActionTypes)
           /\ Pending("SecureOutputs")'
  BY EnterFaultIsSound DEF Fail, HandleInfrastructureFailure, SessionInv, SessionTypeOK,
     SoundDecision

\* Executing the first action keeps the invariant, provided that it raises no
\* other output than its own, and that the calls that withdraw outputs and the
\* timer do so when they succeed.
LEMMA ExecuteStep ==
    ASSUME SessionInv, SupervisorInv', ~Ready, NEW ok \in BOOLEAN, NEW code,
           Outcome(ok, code), timerArmed' \in BOOLEAN, timerElapsed' \in BOOLEAN,
           IgnitionFollowsCommand',
           ignitionCommanded' =>
               \/ ignitionCommanded
                  /\ Head(actions) \notin {"SecureOutputs", "ReleaseRemoteControl"}
               \/ Head(actions) = "EnableIgnition",
           starterCommanded' =>
               \/ starterCommanded
                  /\ Head(actions) \notin {"SecureOutputs", "DisengageStarter"}
               \/ Head(actions) = "EngageStarter",
           ok /\ (ignitionOutput' \/ starterOutput') =>
               \/ /\ ignitionOutput \/ starterOutput
                  /\ LiveAtPowerUp => LiveAtPowerUp'
                  /\ Head(actions) \notin {"SecureOutputs", "ReleaseRemoteControl"}
               \/ Head(actions) \in {"EnableIgnition", "EngageStarter"},
           Head(actions) \notin {"ArmTimer", "CancelTimer"} => UNCHANGED timerVars,
           ok /\ Head(actions) = "ArmTimer" => timerArmed',
           ok /\ Head(actions) = "CancelTimer" => ~timerArmed'
    PROVE  SessionInv'
  <1>1. CASE ~ok /\ ~safing
    <2>1. /\ state' = "Fault" /\ safing' = TRUE
          /\ PlanFitsState' /\ actions' \in Seq(ActionTypes)
          /\ Pending("SecureOutputs")'
      BY <1>1, FailureMeans DEF Outcome
    <2> QED
      BY <2>1 DEF SessionInv, SessionTypeOK, States, CommandsAreHeld, LiveOutputsAreHeld,
         WaitsAreTimed, OutputsAboutToFall, IgnitionFollowsCommand, Waiting, Unattended
  <1>2. CASE ok \/ safing
    <2>1. /\ actions \in Seq(ActionTypes) /\ actions # <<>> /\ ArmsLast
          /\ safing \in BOOLEAN /\ state \in States
          /\ safing => state = "Fault"
      BY DEF Ready, SessionInv, SessionTypeOK, PlanFitsState
    <2>2. /\ actions' = Tail(actions) /\ state' = state
          /\ safing' \in BOOLEAN
          /\ safing' => safing
      BY <1>2, <2>1 DEF Outcome, Fail, Advance
    <2>3. /\ Pending(Head(actions))
          /\ Head(actions) = "ArmTimer" => actions' = <<>>
          /\ actions' \in Seq(ActionTypes)
          /\ ArmsLast'
      BY <2>1, <2>2, FirstIsPending
    <2>4. \A x : /\ Pending(x)' => Pending(x)
                 /\ Pending(x) /\ x # Head(actions) => Pending(x)'
      BY <2>1, <2>2, OthersStayPending
    <2>5. /\ Head(actions) = "EnableIgnition" => state = "Preparing"
          /\ Head(actions) = "EngageStarter" => state = "Cranking"
          /\ Head(actions) = "ArmTimer" => state \in Waiting
      BY <2>3 DEF SessionInv, PlanFitsState
    <2>6. SessionTypeOK'
      BY <2>1, <2>2, <2>3 DEF SessionTypeOK
    <2>11. safing' => state' = "Fault"
      BY <2>1, <2>2
    <2>7. PlanFitsState'
      BY <2>2, <2>3, <2>4 DEF SessionInv, PlanFitsState
    <2>8. CommandsAreHeld'
      BY <2>2, <2>4, <2>5 DEF SessionInv, CommandsAreHeld, IgnitionFollowsCommand,
         OutputsAboutToFall, Energizing
    <2>9. LiveOutputsAreHeld'
      BY <1>2, <2>1, <2>2, <2>4, <2>5 DEF SessionInv, LiveOutputsAreHeld,
         OutputsAboutToFall, Energizing
    <2>10. WaitsAreTimed'
      <3>1. ASSUME state \in Waiting, Head(actions) = "ArmTimer"
            PROVE  timerArmed' /\ ~Pending("CancelTimer")'
        BY <1>2, <2>1, <2>3, <3>1, NothingPending DEF Waiting
      <3>2. ASSUME state \in Waiting, Head(actions) # "ArmTimer"
            PROVE  \/ Pending("ArmTimer")'
                   \/ (timerArmed' \/ timerElapsed') /\ ~Pending("CancelTimer")'
        BY <2>3, <2>4, <3>2 DEF SessionInv, WaitsAreTimed, timerVars
      <3>3. ASSUME state \in Unattended, timerArmed'
            PROVE  Pending("CancelTimer")'
        BY <1>2, <2>1, <2>4, <2>5, <3>3 DEF SessionInv, WaitsAreTimed, timerVars, Unattended,
           Waiting
      <3> QED
        BY <2>2, <3>1, <3>2, <3>3 DEF WaitsAreTimed
    <2> QED
      BY <2>6, <2>7, <2>8, <2>9, <2>10, <2>11 DEF SessionInv
  <1> QED
    BY <1>1, <1>2

\* A step of the supervision task between two port calls keeps the invariant.
LEMMA SupervisionStep ==
    ASSUME SessionInv, SupervisorInv', OnlyFalls,
           (LiveAtPowerUp => LiveAtPowerUp') \/ state = "Fault",
           UNCHANGED <<controllerVars, timerVars, safing>>
    PROVE  SessionInv'
  <1>1. /\ state' = state /\ actions' = actions /\ safing' = safing
        /\ timerArmed' = timerArmed /\ timerElapsed' = timerElapsed
    BY DEF controllerVars, timerVars
  <1>2. \A x : Pending(x)' <=> Pending(x)
    BY <1>1 DEF Pending
  <1>3. ArmsLast' <=> ArmsLast
    BY <1>1 DEF ArmsLast
  <1>4. SessionTypeOK' /\ PlanFitsState' /\ WaitsAreTimed'
    BY <1>1, <1>2, <1>3 DEF SessionInv, SessionTypeOK, PlanFitsState, WaitsAreTimed
  <1>5. CommandsAreHeld' /\ LiveOutputsAreHeld'
    BY <1>1, <1>2 DEF SessionInv, CommandsAreHeld, LiveOutputsAreHeld, OnlyFalls,
       IgnitionFollowsCommand, OutputsAboutToFall
  <1> QED
    BY <1>1, <1>4, <1>5 DEF SessionInv

\* A session begins with nothing decided and nothing commanded.
LEMMA SessionInitInv == SessionInit => SessionInv
  <1> SUFFICES ASSUME SessionInit PROVE SessionInv
    OBVIOUS
  <1>1. SupervisorInv
    BY SupervisorInitInv DEF SessionInit
  <1>2. state = "Idle" /\ actions = <<>> /\ safing = FALSE
        /\ timerArmed = FALSE /\ timerElapsed = FALSE
    BY DEF SessionInit, ControllerInit
  <1>3. \A x : ~Pending(x)
    BY <1>2 DEF Pending
  <1>4. SessionTypeOK
    <2>1. actions \in Seq(ActionTypes)
      BY <1>2
    <2>2. state \in States
      BY <1>2 DEF States
    <2> QED
      BY <1>2, <2>1, <2>2 DEF SessionTypeOK
  <1>5. PlanFitsState
    BY <1>2, <1>3 DEF PlanFitsState, ArmsLast
  <1>6. WaitsAreTimed
    BY <1>2 DEF WaitsAreTimed, Waiting
  <1>7. CommandsAreHeld
    BY DEF SessionInit, SupervisorInit, CommandsAreHeld
  <1>8. LiveOutputsAreHeld
    BY DEF SessionInit, SupervisorInit, LiveOutputsAreHeld, LiveAtPowerUp
  <1> QED
    BY <1>1, <1>2, <1>4, <1>5, <1>6, <1>7, <1>8 DEF SessionInv

\* Dispatching any event keeps the invariant.
LEMMA DispatchingStep ==
    ASSUME SessionInv, SupervisorInv',
           Request \/ TimerDelivered \/ SupervisorFaultPropagated
    PROVE  SessionInv'
  <1>1. state \in States /\ timerElapsed \in BOOLEAN
    BY DEF SessionInv, SessionTypeOK
  <1>2. ASSUME SoundDecision, Ready, safing' = FALSE, UNCHANGED supervisorVars,
               UNCHANGED timerVars
        PROVE  SessionInv'
    BY <1>1, <1>2, DispatchStep DEF timerVars
  <1>3. CASE RemoteStartRequested
    BY <1>1, <1>2, <1>3, StartRequestIsSound DEF RemoteStartRequested, Dispatch
  <1>4. CASE RemoteStopRequested
    BY <1>1, <1>2, <1>4, StopRequestIsSound DEF RemoteStopRequested, Dispatch
  <1>5. CASE VehicleStateUpdated
    BY <1>1, <1>2, <1>5, VehicleUpdateIsSound DEF VehicleStateUpdated, Dispatch
  <1>6. CASE DriverTakeoverConfirmed
    BY <1>1, <1>2, <1>6, DriverTakeoverIsSound DEF DriverTakeoverConfirmed, Dispatch
  <1>7. CASE ResetRequested
    BY <1>1, <1>2, <1>7, ResetIsSound DEF ResetRequested, Dispatch
  <1>8. CASE TimerDelivered
    BY <1>1, <1>8, TimerIsSound, DispatchStep DEF TimerDelivered, Dispatch
  <1>9. CASE SupervisorFaultPropagated
    BY <1>1, <1>2, <1>9, EnterFaultIsSound
       DEF SupervisorFaultPropagated, Dispatch, HandleInfrastructureFailure
  <1> QED
    BY <1>3, <1>4, <1>5, <1>6, <1>7, <1>8, <1>9 DEF Request

\* Executing any action keeps the invariant.
LEMMA ExecutingStep ==
    ASSUME SessionInv, SupervisorInv', Execute
    PROVE  SessionInv'
  <1>1. /\ SupervisorInv /\ IgnitionFollowsCommand
        /\ timerArmed \in BOOLEAN /\ timerElapsed \in BOOLEAN
    BY DEF SessionInv, SessionTypeOK, CommandsAreHeld, IgnitionFollowsCommand
  <1>2. ASSUME UNCHANGED supervisorVars
        PROVE  /\ IgnitionFollowsCommand'
               /\ UNCHANGED <<ignitionCommanded, starterCommanded, ignitionOutput,
                              starterOutput>>
               /\ LiveAtPowerUp => LiveAtPowerUp'
    BY <1>1, <1>2 DEF supervisorVars, latchVars, commandVars, outputVars, LiveAtPowerUp,
       IgnitionFollowsCommand
  <1>3. CASE Notify
    <2>1. /\ ~Ready /\ Head(actions) \in Notifications
          /\ UNCHANGED supervisorVars /\ UNCHANGED timerVars
      BY <1>3 DEF Notify, Executing
    <2>2. Outcome(TRUE, "None")
      BY <1>3 DEF Notify, Outcome
    <2>3. timerArmed' \in BOOLEAN /\ timerElapsed' \in BOOLEAN
      BY <1>1, <2>1 DEF timerVars
    <2>4. /\ Head(actions) \notin {"SecureOutputs", "ReleaseRemoteControl"}
          /\ Head(actions) \notin {"SecureOutputs", "DisengageStarter"}
          /\ Head(actions) # "ArmTimer" /\ Head(actions) # "CancelTimer"
      BY <2>1 DEF Notifications
    <2>5. PICK ok \in BOOLEAN : ok /\ Outcome(ok, "None")
      BY <2>2
    <2>6. /\ IgnitionFollowsCommand'
          /\ ignitionCommanded' => ignitionCommanded
          /\ starterCommanded' => starterCommanded
          /\ ignitionOutput' \/ starterOutput' => ignitionOutput \/ starterOutput
          /\ LiveAtPowerUp => LiveAtPowerUp'
      BY <1>2, <2>1
    <2> QED
      BY <1>1, <2>1, <2>3, <2>4, <2>5, <2>6, ExecuteStep
  <1>4. CASE RequestVehicleState
    <2>1. PICK ok \in BOOLEAN : Outcome(ok, "VehicleCommunication")
      BY <1>4 DEF RequestVehicleState
    <2>2. /\ ~Ready /\ Head(actions) = "RequestVehicleState"
          /\ UNCHANGED supervisorVars /\ UNCHANGED timerVars
      BY <1>4 DEF RequestVehicleState, Executing
    <2> QED
      BY <1>1, <1>2, <2>1, <2>2, ExecuteStep DEF timerVars
  <1>5. CASE ArmTimer
    <2>1. PICK ok \in BOOLEAN : /\ timerArmed' \in (IF ok THEN {TRUE} ELSE {timerArmed, TRUE})
                                /\ Outcome(ok, "TimerFailure")
      BY <1>5 DEF ArmTimer
    <2>2. /\ ~Ready /\ Head(actions) = "ArmTimer"
          /\ UNCHANGED supervisorVars /\ UNCHANGED timerElapsed
      BY <1>5 DEF ArmTimer, Executing
    <2>3. /\ timerArmed' \in BOOLEAN /\ timerElapsed' \in BOOLEAN
          /\ ok => timerArmed'
      BY <1>1, <2>1, <2>2
    <2> QED
      BY <1>1, <1>2, <2>1, <2>2, <2>3, ExecuteStep
  <1>6. CASE CancelTimer
    <2>1. PICK ok \in BOOLEAN :
              /\ timerArmed' \in (IF ok THEN {FALSE} ELSE {timerArmed, FALSE})
              /\ timerElapsed' = (timerElapsed /\ (~ok \/ LateTimerEvents))
              /\ Outcome(ok, "TimerFailure")
      BY <1>6 DEF CancelTimer
    <2>2. /\ ~Ready /\ Head(actions) = "CancelTimer" /\ UNCHANGED supervisorVars
      BY <1>6 DEF CancelTimer, Executing
    <2>3. /\ timerArmed' \in BOOLEAN /\ timerElapsed' \in BOOLEAN
          /\ ok => ~timerArmed'
      BY <1>1, <2>1
    <2> QED
      BY <1>1, <1>2, <2>1, <2>2, <2>3, ExecuteStep
  <1>7. CASE ActuatorCall
    <2>1. PICK ok \in BOOLEAN :
              /\ \/ Executing({"EnableIgnition"}) /\ EnableIgnition(ok)
                 \/ Executing({"EngageStarter"}) /\ EngageStarter(ok)
                 \/ Executing({"DisengageStarter"}) /\ DisengageStarter(ok)
                 \/ Executing({"ReleaseRemoteControl"}) /\ ReleaseRemoteControl(ok)
                 \/ Executing({"SecureOutputs"}) /\ SecureOutputs(ok)
              /\ Outcome(ok, "ActuatorFailure")
      BY <1>7 DEF ActuatorCall
    <2>2. UNCHANGED timerVars /\ timerArmed' \in BOOLEAN /\ timerElapsed' \in BOOLEAN
      BY <1>1, <1>7 DEF ActuatorCall, timerVars
    <2>3. CASE Executing({"EnableIgnition"}) /\ EnableIgnition(ok)
      BY <1>1, <2>1, <2>2, <2>3, EnableIgnitionRaises, ExecuteStep DEF Executing
    <2>4. CASE Executing({"EngageStarter"}) /\ EngageStarter(ok)
      BY <1>1, <2>1, <2>2, <2>4, EngageStarterRaises, ExecuteStep DEF Executing
    <2>5. CASE Executing({"DisengageStarter"}) /\ DisengageStarter(ok)
      <3>1. ok => (LiveAtPowerUp => LiveAtPowerUp')
        BY <1>1, <2>5, DisengageStarterFalls DEF LiveAtPowerUp, latchVars
      <3> QED
        BY <1>1, <2>1, <2>2, <2>5, <3>1, DisengageStarterFalls, ExecuteStep
           DEF Executing, OnlyFalls
    <2>6. CASE Executing({"ReleaseRemoteControl"}) /\ ReleaseRemoteControl(ok)
      BY <1>1, <2>1, <2>2, <2>6, ReleaseRemoteControlFalls, ExecuteStep
         DEF Executing, OnlyFalls
    <2>7. CASE Executing({"SecureOutputs"}) /\ SecureOutputs(ok)
      BY <1>1, <2>1, <2>2, <2>7, SecureOutputsFalls, ExecuteStep
         DEF Executing, OnlyFalls
    <2> QED
      BY <2>1, <2>3, <2>4, <2>5, <2>6, <2>7
  <1> QED
    BY <1>3, <1>4, <1>5, <1>6, <1>7 DEF Execute

\* The invariant is inductive.
LEMMA SessionInvInductive == SessionInv /\ [SessionNext]_sessionVars => SessionInv'
  <1> SUFFICES ASSUME SessionInv, [SessionNext]_sessionVars PROVE SessionInv'
    OBVIOUS
  <1>1. SupervisorInv /\ IgnitionFollowsCommand
    BY DEF SessionInv, CommandsAreHeld, IgnitionFollowsCommand
  <1>2. SupervisorInv'
    BY <1>1, SessionStepsSupervisor, SupervisorInvInductive
  <1>3. CASE Request \/ TimerDelivered \/ SupervisorFaultPropagated
    BY <1>2, <1>3, DispatchingStep
  <1>4. CASE Execute
    BY <1>2, <1>4, ExecutingStep
  <1>5. CASE ControlHeartbeat
    BY <1>1, <1>2, <1>5, HeartbeatFalls, SupervisionStep DEF ControlHeartbeat
  <1>6. CASE SupervisionPoll
    BY <1>1, <1>2, <1>6, PollFalls, SupervisionStep DEF SupervisionPoll
  <1>7. CASE SupervisorRearmed
    BY <1>1, <1>2, <1>7, ResetFaultFalls, SupervisionStep DEF SupervisorRearmed
  <1>8. CASE TimerExpires
    BY <1>2, <1>8 DEF TimerExpires, SessionInv, SessionTypeOK, PlanFitsState, ArmsLast,
       CommandsAreHeld, LiveOutputsAreHeld, LiveAtPowerUp, WaitsAreTimed, OutputsAboutToFall,
       Pending, controllerVars, supervisorVars, latchVars, commandVars, outputVars
  <1>9. CASE UNCHANGED sessionVars
    BY <1>1, <1>2, <1>9, SupervisionStep DEF sessionVars, supervisorVars, latchVars,
       commandVars, outputVars, OnlyFalls, IgnitionFollowsCommand, LiveAtPowerUp
  <1> QED
    BY <1>3, <1>4, <1>5, <1>6, <1>7, <1>8, <1>9 DEF SessionNext

-----------------------------------------------------------------------------
(* The theorems.                                                           *)

\* The invariant holds in every reachable state, also in the middle of a
\* decision.
THEOREM SessionInvariant == SessionSpec => []SessionInv
  BY SessionInitInv, SessionInvInductive, PTL DEF SessionSpec

\* Runtime, host and supervision task use the supervisor as its specification
\* demands: whatever is proved of the supervisor alone holds in a session.
THEOREM SessionImplementsSupervisor == SessionSpec => SupervisorSpec
  <1>1. SessionInit => SupervisorInit
    BY DEF SessionInit
  <1>2. SessionInv /\ [SessionNext]_sessionVars => [SupervisorNext]_supervisorVars
    BY SessionStepsSupervisor DEF SessionInv
  <1> QED
    BY <1>1, <1>2, SessionInvariant, PTL DEF SessionSpec, SupervisorSpec

\* The starter is live only while the controller is cranking, or while its
\* release is still to be executed, or with a safing reported as failed.
THEOREM StarterOnlyToCrank == SessionSpec => []StarterOnlyWhileCranking
  <1>1. SessionInv => StarterOnlyWhileCranking
    BY DEF SessionInv, SupervisorInv, LiveOutputsAreCommanded, CommandsAreHeld,
       StarterOnlyWhileCranking, SupervisorTypeOK
  <1> QED
    BY <1>1, SessionInvariant, PTL

\* Between two events only a state that energizes the vehicle has a live output,
\* or a fault whose safing failed, or the power-up that could not be safed.
THEOREM SafeAtRest == SessionSpec => []RestIsSafe
  <1>1. SessionInv => RestIsSafe
    <2> SUFFICES ASSUME SessionInv, Ready, ignitionOutput \/ starterOutput
                 PROVE  \/ state \in Energizing
                        \/ state = "Fault" /\ safingFailed
                        \/ LiveAtPowerUp
      BY DEF RestIsSafe, LiveAtPowerUp, Energizing
    <2>1. \A x : ~Pending(x)
      BY DEF Ready, Pending
    <2>2. CASE safingFailed
      BY <2>1, <2>2 DEF SessionInv, LiveOutputsAreHeld, OutputsAboutToFall
    <2>3. CASE ~safingFailed
      <3>1. ignitionCommanded \/ starterCommanded
        BY <2>3 DEF SessionInv, SupervisorInv, LiveOutputsAreCommanded
      <3>2. state \in Energizing
        BY <2>1, <3>1 DEF SessionInv, CommandsAreHeld, OutputsAboutToFall, Energizing
      <3> QED
        BY <3>2
    <2> QED
      BY <2>2, <2>3
  <1> QED
    BY <1>1, SessionInvariant, PTL

\* Between two events a session in progress has a timer running or an expiry
\* to be dispatched.
THEOREM WaitsHaveTimers == SessionSpec => []EveryWaitIsTimed
  <1>1. SessionInv => EveryWaitIsTimed
    <2> SUFFICES ASSUME SessionInv, Ready, state \in Waiting
                 PROVE  timerArmed \/ timerElapsed
      BY DEF EveryWaitIsTimed, Waiting
    <2>1. ~Pending("ArmTimer")
      BY DEF Ready, Pending
    <2> QED
      BY <2>1 DEF SessionInv, WaitsAreTimed
  <1> QED
    BY <1>1, SessionInvariant, PTL

\* No timer is left running in Idle or under the driver's control.
THEOREM RestHasNoTimer == SessionSpec => []NoTimerAtRest
  <1>1. SessionInv => NoTimerAtRest
    <2> SUFFICES ASSUME SessionInv, Ready, state \in Unattended
                 PROVE  ~timerArmed
      BY DEF NoTimerAtRest, Unattended
    <2>1. ~Pending("CancelTimer")
      BY DEF Ready, Pending
    <2> QED
      BY <2>1 DEF SessionInv, WaitsAreTimed
  <1> QED
    BY <1>1, SessionInvariant, PTL

\* Which steps make an output live: EnableIgnition in Preparing, EngageStarter
\* in Cranking, and no other.
LEMMA OnlyActivationsRaise ==
    ASSUME SessionInv, [SessionNext]_sessionVars
    PROVE  \/ OnlyFalls
           \/ \E ok \in BOOLEAN : state = "Preparing" /\ EnableIgnition(ok)
           \/ \E ok \in BOOLEAN : state = "Cranking" /\ EngageStarter(ok)
  <1>1. SupervisorInv /\ IgnitionFollowsCommand
    BY DEF SessionInv, CommandsAreHeld, IgnitionFollowsCommand
  <1>2. CASE UNCHANGED supervisorVars
    BY <1>1, <1>2 DEF supervisorVars, commandVars, outputVars, OnlyFalls,
       IgnitionFollowsCommand
  <1>3. CASE ActuatorCall
    <2>1. PICK ok \in BOOLEAN :
              \/ Executing({"EnableIgnition"}) /\ EnableIgnition(ok)
              \/ Executing({"EngageStarter"}) /\ EngageStarter(ok)
              \/ DisengageStarter(ok)
              \/ ReleaseRemoteControl(ok)
              \/ SecureOutputs(ok)
      BY <1>3 DEF ActuatorCall
    <2>2. ~Ready => Pending(Head(actions))
      BY FirstIsPending DEF Ready, SessionInv, SessionTypeOK, PlanFitsState
    <2>3. /\ Executing({"EnableIgnition"}) => state = "Preparing"
          /\ Executing({"EngageStarter"}) => state = "Cranking"
      BY <2>2 DEF Executing, SessionInv, PlanFitsState
    <2> QED
      BY <1>1, <2>1, <2>3, DisengageStarterFalls, ReleaseRemoteControlFalls,
         SecureOutputsFalls
  <1>4. CASE ControlHeartbeat \/ SupervisionPoll \/ SupervisorRearmed
    BY <1>1, <1>4, HeartbeatFalls, PollFalls, ResetFaultFalls
       DEF ControlHeartbeat, SupervisionPoll, SupervisorRearmed
  <1> QED
    BY <1>2, <1>3, <1>4 DEF SessionNext, Request, RemoteStartRequested,
       RemoteStopRequested, VehicleStateUpdated, DriverTakeoverConfirmed, ResetRequested,
       TimerDelivered, SupervisorFaultPropagated, TimerExpires, Dispatch, Execute, Notify,
       RequestVehicleState, ArmTimer, CancelTimer, sessionVars

\* The ignition goes live only in Preparing and the starter only in Cranking
\* over a live ignition, by a permitted supervisor without fault.
THEOREM ActivationOrder == SessionSpec => ActivationsInOrder
  <1> DEFINE InOrder ==
               ~safingFailed'
                   => /\ ~ignitionOutput /\ ignitionOutput'
                          => /\ state = "Preparing"
                             /\ supervisorFault = "None" /\ hardwareStartPermitted
                      /\ ~starterOutput /\ starterOutput'
                          => /\ state = "Cranking" /\ ignitionOutput
                             /\ supervisorFault = "None" /\ hardwareStartPermitted
  <1>1. SessionInv /\ [SessionNext]_sessionVars => [InOrder]_sessionVars
    <2> SUFFICES ASSUME SessionInv, [SessionNext]_sessionVars PROVE InOrder
      OBVIOUS
    <2>1. SupervisorInv /\ IgnitionFollowsCommand
      BY DEF SessionInv, CommandsAreHeld, IgnitionFollowsCommand
    <2>2. CASE OnlyFalls
      BY <2>2 DEF OnlyFalls
    <2>3. ASSUME NEW ok \in BOOLEAN, state = "Preparing", EnableIgnition(ok) PROVE InOrder
      BY <2>1, <2>3, EnableIgnitionRaises
    <2>4. ASSUME NEW ok \in BOOLEAN, state = "Cranking", EngageStarter(ok) PROVE InOrder
      BY <2>1, <2>4, EngageStarterRaises
    <2> QED
      BY <2>2, <2>3, <2>4, OnlyActivationsRaise
  <1> QED
    BY <1>1, SessionInvariant, PTL DEF SessionSpec, ActivationsInOrder

\* In Fault nothing goes live, whatever was still to be executed when the fault
\* came and whatever the supervisor does meanwhile.
THEOREM FaultStaysDead == SessionSpec => FaultNeverEnergizes
  <1> DEFINE Dead == state = "Fault" => /\ ignitionOutput' => ignitionOutput
                                        /\ starterOutput' => starterOutput
  <1>1. SessionInv /\ [SessionNext]_sessionVars => [Dead]_sessionVars
    BY OnlyActivationsRaise DEF OnlyFalls
  <1> QED
    BY <1>1, SessionInvariant, PTL DEF SessionSpec, FaultNeverEnergizes
=============================================================================
