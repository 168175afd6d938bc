----------------------- MODULE SupervisorTimingProofs -----------------------
(***************************************************************************)
(* The durations the actuator supervisor promises, measured against true   *)
(* time, for every clock width, every configuration and every service      *)
(* period.                                                                 *)
(*                                                                         *)
(* The supervisor reasons about differences of wrapping readings.  The     *)
(* invariant says what each difference is worth: the last reading is at    *)
(* most one service period old (ClockIsObserved), hence a limit checked    *)
(* by the last poll is exceeded by at most the time since that poll, and   *)
(* the differences that are compared with a limit have not wrapped.        *)
(***************************************************************************)
EXTENDS SupervisorTiming, ActuatorSafetySupervisorProofs

TimingTypeOK ==
    /\ clock \in Time
    /\ sincePoll \in 0 .. ServicePeriodMs
    /\ starterLive \in Nat
    /\ silence \in 0 .. MaxSilenceMs
    /\ reported \in [beat : BOOLEAN, permitted : BOOLEAN, ignition : BOOLEAN]

ClockIsObserved == Elapsed(clock, lastObservedMs) <= sincePoll

ConfigWasChecked == initialized => ConfigIsValid(supervisorConfig)

\* The time the starter has been live is at most what the supervisor sees
\* elapse since it engaged it, and that is at most what the last poll tolerated.
StarterIsMeasured ==
    /\ starterLive # 0 => starterOutput /\ ~safingFailed
    /\ starterCommanded =>
          /\ starterLive <= Elapsed(clock, starterEngagedAtMs)
          /\ Elapsed(clock, starterEngagedAtMs)
                <= supervisorConfig.maximumStarterActiveMs + sincePoll

\* The control task never stays silent for a whole turn of the clock.
SilenceNeverWraps == MaxSilenceMs < ClockModulus

\* The age of the heartbeat is its true age, unless the clock made a turn.
SilenceIsMeasured ==
    /\ OutputsCommanded =>
          /\ heartbeatInitialized
          /\ Elapsed(clock, lastHeartbeatMs)
                <= supervisorConfig.watchdogTimeoutMs + sincePoll
    /\ SilenceNeverWraps /\ heartbeatInitialized /\ ~Faulted =>
          silence = Elapsed(clock, lastHeartbeatMs)

\* What the supervisor relies on has been reported to it since the last reset.
ReportsAreRemembered ==
    /\ reported.beat = heartbeatInitialized
    /\ ~Faulted => reported.permitted = hardwareStartPermitted
    /\ ignitionFeedbackConfirmed =>
          /\ ignitionCommanded
          /\ supervisorConfig.requireFeedback => reported.ignition

TimingInv ==
    /\ SupervisorInv
    /\ TimingTypeOK
    /\ ClockIsObserved
    /\ ConfigWasChecked
    /\ StarterIsMeasured
    /\ SilenceIsMeasured
    /\ ReportsAreRemembered

-----------------------------------------------------------------------------
(* Arithmetic of the wrapping clock.                                       *)

\* What elapses between two readings is a reading.
LEMMA ElapsedIsTime ==
    ASSUME NEW now \in Time, NEW since \in Time
    PROVE  /\ Elapsed(now, since) \in Time
           /\ Elapsed(now, now) = 0
           /\ Elapsed(now, since) = IF since <= now THEN now - since
                                     ELSE now - since + ClockModulus
  BY ClockAssumption DEF Elapsed, Time

\* Ages add up, at most.
LEMMA ElapsedTriangle ==
    ASSUME NEW now \in Time, NEW between \in Time, NEW since \in Time
    PROVE  Elapsed(now, since) <= Elapsed(now, between) + Elapsed(between, since)
  <1>1. /\ Elapsed(now, since) = IF since <= now THEN now - since
                                ELSE now - since + ClockModulus
        /\ Elapsed(now, between) = IF between <= now THEN now - between
                                  ELSE now - between + ClockModulus
        /\ Elapsed(between, since) = IF since <= between THEN between - since
                                    ELSE between - since + ClockModulus
    BY ElapsedIsTime
  <1> QED
    BY <1>1, ClockAssumption DEF Time

\* One tick adds one to an age, unless that makes a whole turn of the clock.
LEMMA ElapsedAfterTick ==
    ASSUME NEW now \in Time, NEW since \in Time
    PROVE  /\ (now + 1) % ClockModulus \in Time
           /\ Elapsed((now + 1) % ClockModulus, since) <= Elapsed(now, since) + 1
           /\ Elapsed(now, since) + 1 < ClockModulus =>
                 Elapsed((now + 1) % ClockModulus, since) = Elapsed(now, since) + 1
  <1>1. (now + 1) % ClockModulus = IF now = ClockModulus - 1 THEN 0 ELSE now + 1
    BY ClockAssumption DEF Time
  <1>2. (now + 1) % ClockModulus \in Time
    BY <1>1, ClockAssumption DEF Time
  <1>3. /\ Elapsed(now, since) = IF since <= now THEN now - since
                                ELSE now - since + ClockModulus
        /\ Elapsed((now + 1) % ClockModulus, since)
              = IF since <= (now + 1) % ClockModulus
                THEN ((now + 1) % ClockModulus) - since
                ELSE ((now + 1) % ClockModulus) - since + ClockModulus
    BY <1>2, ElapsedIsTime
  <1> QED
    BY <1>1, <1>2, <1>3, ClockAssumption DEF Time

\* A clock read at every service period is never taken for one that regressed.
LEMMA ServicedClockIsAccepted ==
    ASSUME TimingInv
    PROVE  ClockAccepts(clock) /\ ~RejectClock(clock)
  <1>1. /\ clock \in Time /\ lastObservedMs \in Time /\ sincePoll \in 0 .. ServicePeriodMs
        /\ Elapsed(clock, lastObservedMs) <= sincePoll
    BY DEF TimingInv, TimingTypeOK, SupervisorInv, SupervisorTypeOK, ClockIsObserved
  <1>2. 2 * Elapsed(clock, lastObservedMs) < ClockModulus
    BY <1>1, ElapsedIsTime, ClockAssumption, TimingAssumption, ClockRangeAssumption DEF Time
  <1> QED
    BY <1>2 DEF ClockAccepts, StrictlyNewer, RejectClock

-----------------------------------------------------------------------------
(* The steps.                                                              *)

\* Every step under the host is a step of the supervisor, or leaves it alone.
LEMMA TimingStepsSupervisor ==
    ASSUME clock \in Time, [TimingNext]_timingVars
    PROVE  [SupervisorNext]_supervisorVars
  <1>1. CASE Tick \/ UNCHANGED timingVars
    BY <1>1 DEF Tick, timingVars
  <1>2. CASE HostHeartbeat \/ HostPoll \/ HostReset
    BY <1>2 DEF HostHeartbeat, HostPoll, HostReset, SupervisorNext, Supervision
  <1>3. CASE RuntimeCommand
    BY <1>3 DEF RuntimeCommand, SupervisorNext
  <1> QED
    BY <1>1, <1>2, <1>3 DEF TimingNext

\* The host clock starts with the supervisor's.
LEMMA TimingInitInv == TimingInit => TimingInv
  <1> SUFFICES ASSUME TimingInit PROVE TimingInv
    OBVIOUS
  <1>1. SupervisorInv
    BY SupervisorInitInv DEF TimingInit
  <1>2. 0 \in Time
    BY ClockAssumption DEF Time
  <1>3. TimingTypeOK
    BY <1>2, TimingAssumption DEF TimingInit, TimingTypeOK, NothingReported
  <1>4. ClockIsObserved
    BY <1>2, ElapsedIsTime DEF TimingInit, SupervisorInit, ClockIsObserved
  <1>5. ConfigWasChecked /\ StarterIsMeasured /\ SilenceIsMeasured /\ ReportsAreRemembered
    BY DEF TimingInit, SupervisorInit, ConfigWasChecked, StarterIsMeasured,
       SilenceIsMeasured, ReportsAreRemembered, OutputsCommanded, NothingReported, Faulted
  <1> QED
    BY <1>1, <1>3, <1>4, <1>5 DEF TimingInv

\* Time passes: every age that is compared with a limit grows by one and none
\* of them makes a whole turn.
LEMMA TickStep ==
    ASSUME TimingInv, Tick
    PROVE  TimingInv'
  <1>1. SupervisorInv' /\ UNCHANGED supervisorVars
    BY SupervisorStutter DEF TimingInv, Tick
  <1>2. UNCHANGED <<supervisorConfig, supervisorFault, initialized, safingFailed,
                    ignitionCommanded, starterCommanded, ignitionFeedbackConfirmed,
                    heartbeatInitialized, hardwareStartPermitted, lastObservedMs,
                    lastHeartbeatMs, starterEngagedAtMs, starterOutput, reported>>
    BY <1>1 DEF supervisorVars, latchVars, commandVars, inputVars, clockVars, outputVars, Tick
  <1>3. /\ clock \in Time /\ lastObservedMs \in Time /\ lastHeartbeatMs \in Time
        /\ starterEngagedAtMs \in Time
        /\ sincePoll \in 0 .. ServicePeriodMs /\ starterLive \in Nat
        /\ silence \in 0 .. MaxSilenceMs
        /\ supervisorConfig \in Config
    BY DEF TimingInv, TimingTypeOK, SupervisorInv, SupervisorTypeOK
  <1>4. /\ sincePoll < ServicePeriodMs /\ sincePoll' = sincePoll + 1
        /\ silence < MaxSilenceMs
        /\ clock' = (clock + 1) % ClockModulus
        /\ starterLive' = IF starterOutput /\ ~safingFailed THEN starterLive + 1 ELSE 0
        /\ silence' = IF reported.beat /\ ~Faulted THEN silence + 1 ELSE silence
    BY DEF Tick
  <1>5. TimingTypeOK'
    BY <1>2, <1>3, <1>4, ElapsedAfterTick, TimingAssumption DEF TimingInv, TimingTypeOK
  <1>6. ClockIsObserved'
    BY <1>2, <1>3, <1>4, ElapsedAfterTick, ElapsedIsTime DEF TimingInv, ClockIsObserved, Time
  <1>7. ConfigWasChecked' /\ ReportsAreRemembered'
    BY <1>2 DEF TimingInv, ConfigWasChecked, ConfigIsValid, ReportsAreRemembered, Faulted
  <1>8. StarterIsMeasured'
    <2>1. starterLive' # 0 => starterOutput' /\ ~safingFailed'
      BY <1>2, <1>4
    <2>2. CASE starterCommanded
      <3>1. ConfigIsValid(supervisorConfig)
        BY <2>2 DEF TimingInv, SupervisorInv, CommandsAreOrdered, Faulted, ConfigWasChecked
      <3>2. supervisorConfig.maximumStarterActiveMs \in Nat
            /\ supervisorConfig.maximumStarterActiveMs <= MaximumStarterActiveMs
        BY <1>3, <3>1, LimitsAssumption DEF ConfigIsValid, Config
      <3>3. /\ starterLive <= Elapsed(clock, starterEngagedAtMs)
            /\ Elapsed(clock, starterEngagedAtMs)
                  <= supervisorConfig.maximumStarterActiveMs + sincePoll
        BY <2>2 DEF TimingInv, StarterIsMeasured
      <3>4. Elapsed(clock, starterEngagedAtMs) \in Nat
        BY <1>3, ElapsedIsTime DEF Time
      <3>5. Elapsed(clock, starterEngagedAtMs) + 1 < ClockModulus
        BY <1>3, <1>4, <3>2, <3>3, <3>4, LimitsAssumption, TimingAssumption,
           ClockRangeAssumption, ClockAssumption
      <3>6. Elapsed(clock', starterEngagedAtMs) = Elapsed(clock, starterEngagedAtMs) + 1
        BY <1>3, <1>4, <3>5, ElapsedAfterTick
      <3>7. starterLive' <= starterLive + 1
        BY <1>3, <1>4
      <3> QED
        BY <1>2, <1>3, <1>4, <2>1, <3>2, <3>3, <3>4, <3>6, <3>7 DEF StarterIsMeasured
    <2>3. CASE ~starterCommanded
      BY <1>2, <2>1, <2>3 DEF StarterIsMeasured
    <2> QED
      BY <2>2, <2>3
  <1>9. SilenceIsMeasured'
    <2>1. /\ Elapsed(clock, lastHeartbeatMs) \in Nat
          /\ Elapsed(clock', lastHeartbeatMs) \in Nat
          /\ Elapsed(clock', lastHeartbeatMs) <= Elapsed(clock, lastHeartbeatMs) + 1
          /\ Elapsed(clock, lastHeartbeatMs) + 1 < ClockModulus =>
                Elapsed(clock', lastHeartbeatMs) = Elapsed(clock, lastHeartbeatMs) + 1
      BY <1>3, <1>4, ElapsedAfterTick, ElapsedIsTime DEF Time
    <2>2. supervisorConfig.watchdogTimeoutMs \in Nat
      BY <1>3 DEF Config
    <2>3. OutputsCommanded' => /\ heartbeatInitialized'
                               /\ Elapsed(clock', lastHeartbeatMs')
                                     <= supervisorConfig'.watchdogTimeoutMs + sincePoll'
      BY <1>2, <1>3, <1>4, <2>1, <2>2 DEF TimingInv, SilenceIsMeasured, OutputsCommanded
    <2>4. ASSUME SilenceNeverWraps, heartbeatInitialized, ~Faulted
          PROVE  silence' = Elapsed(clock', lastHeartbeatMs)
      <3>1. silence = Elapsed(clock, lastHeartbeatMs) /\ reported.beat
        BY <2>4 DEF TimingInv, SilenceIsMeasured, ReportsAreRemembered
      <3>2. silence + 1 < ClockModulus
        BY <1>3, <1>4, <2>4, TimingAssumption, ClockAssumption DEF SilenceNeverWraps
      <3> QED
        BY <1>4, <2>1, <2>4, <3>1, <3>2
    <2> QED
      BY <1>2, <2>3, <2>4 DEF SilenceIsMeasured, Faulted, SilenceNeverWraps
  <1> QED
    BY <1>1, <1>5, <1>6, <1>7, <1>8, <1>9 DEF TimingInv

\* The types that every host call keeps.
LEMMA HostTypes ==
    ASSUME TimingInv, MeasureStarter
    PROVE  /\ clock \in Time /\ lastObservedMs \in Time /\ lastHeartbeatMs \in Time
           /\ starterEngagedAtMs \in Time
           /\ sincePoll \in 0 .. ServicePeriodMs /\ 0 \in 0 .. ServicePeriodMs
           /\ silence \in 0 .. MaxSilenceMs /\ 0 \in 0 .. MaxSilenceMs
           /\ starterLive \in Nat /\ starterLive' \in Nat
           /\ reported \in [beat : BOOLEAN, permitted : BOOLEAN, ignition : BOOLEAN]
           /\ heartbeatInitialized \in BOOLEAN /\ hardwareStartPermitted \in BOOLEAN
           /\ ignitionCommanded \in BOOLEAN /\ starterCommanded \in BOOLEAN
           /\ supervisorConfig \in Config /\ supervisorFault \in Faults
           /\ ignitionOutput \in BOOLEAN /\ starterOutput \in BOOLEAN
  BY TimingAssumption DEF TimingInv, TimingTypeOK, SupervisorInv,
                          SupervisorTypeOK, MeasureStarter

\* A call that leaves nothing commanded and forgets no report keeps the
\* invariant, whether it faulted the supervisor or not.
LEMMA UncommandedStep ==
    ASSUME TimingInv, SupervisorInv',
           ~ignitionCommanded', ~starterCommanded', ~ignitionFeedbackConfirmed',
           UNCHANGED <<supervisorConfig, initialized, heartbeatInitialized, clock, silence>>,
           sincePoll' \in 0 .. ServicePeriodMs,
           Elapsed(clock, lastObservedMs') <= sincePoll',
           reported' \in [beat : BOOLEAN, permitted : BOOLEAN, ignition : BOOLEAN],
           reported'.beat = reported.beat,
           MeasureStarter,
           \/ Faulted'
           \/ /\ ~Faulted
              /\ UNCHANGED <<lastHeartbeatMs, hardwareStartPermitted>>
              /\ reported'.permitted = reported.permitted
    PROVE  TimingInv'
  <1>1. TimingTypeOK'
    BY HostTypes DEF TimingTypeOK
  <1>2. ClockIsObserved' /\ ConfigWasChecked'
    BY DEF TimingInv, ClockIsObserved, ConfigWasChecked, ConfigIsValid
  <1>3. StarterIsMeasured'
    BY DEF StarterIsMeasured, MeasureStarter, SupervisorInv, LiveOutputsAreCommanded
  <1>4. SilenceIsMeasured'
    BY DEF TimingInv, SilenceIsMeasured, OutputsCommanded, SilenceNeverWraps
  <1>5. ReportsAreRemembered'
    BY DEF TimingInv, ReportsAreRemembered
  <1> QED
    BY <1>1, <1>2, <1>3, <1>4, <1>5 DEF TimingInv

\* An operation that trips leaves the supervisor faulted, with nothing commanded.
LEMMA TripUncommands ==
    ASSUME SupervisorInv, NEW code \in Faults \ {"None"}, NEW at, NEW lit, NEW cranking,
           Trip(code, at, lit, cranking)
    PROVE  /\ ~ignitionCommanded' /\ ~starterCommanded' /\ ~ignitionFeedbackConfirmed'
           /\ Faulted'
  BY DEF Trip, SafeDownstream, ReleaseCommands, Faulted

\* Nothing is commanded by a faulted supervisor.
LEMMA FaultedIsUncommanded ==
    ASSUME TimingInv, Faulted
    PROVE  ~ignitionCommanded /\ ~starterCommanded /\ ~ignitionFeedbackConfirmed
  BY DEF TimingInv, SupervisorInv, CommandsAreOrdered, ReportsAreRemembered

\* heartbeat() keeps the invariant.
LEMMA HostHeartbeatStep ==
    ASSUME TimingInv, SupervisorInv', HostHeartbeat
    PROVE  TimingInv'
  <1>1. PICK ok \in BOOLEAN :
            /\ Heartbeat(clock, ok)
            /\ silence' = IF ok THEN 0 ELSE silence
            /\ reported' = [reported EXCEPT !.beat = @ \/ ok]
            /\ MeasureStarter
            /\ UNCHANGED hostVars
    BY DEF HostHeartbeat
  <1>2. /\ ~RejectClock(clock)
        /\ clock' = clock /\ sincePoll' = sincePoll
        /\ reported' \in [beat : BOOLEAN, permitted : BOOLEAN, ignition : BOOLEAN]
        /\ reported'.permitted = reported.permitted
        /\ reported'.ignition = reported.ignition
        /\ reported'.beat = (reported.beat \/ ok)
    BY <1>1, HostTypes, ServicedClockIsAccepted DEF hostVars
  <1>3. Elapsed(clock, clock) = 0 /\ Elapsed(clock, clock) <= sincePoll
    BY <1>1, HostTypes, ElapsedIsTime
  <1>4. CASE ~ok
    <2>1. /\ ~ignitionCommanded' /\ ~starterCommanded' /\ ~ignitionFeedbackConfirmed'
          /\ Faulted' /\ lastObservedMs' = clock
          /\ UNCHANGED <<supervisorConfig, initialized, heartbeatInitialized>>
      <3>1. CASE Faulted /\ ObserveClock(clock)
                 /\ UNCHANGED <<supervisorConfig, latchVars, commandVars, inputVars>>
        BY <3>1, FaultedIsUncommanded
           DEF ObserveClock, Faulted, latchVars, commandVars, inputVars
      <3>2. CASE /\ ObserveClock(clock)
                 /\ Trip("WatchdogExpired", clock, ignitionOutput, starterOutput)
                 /\ UNCHANGED <<supervisorConfig, initialized, inputVars>>
        BY <3>2, TripUncommands DEF ObserveClock, Faults, TimingInv, inputVars
      <3> QED
        BY <1>1, <1>2, <1>4, <3>1, <3>2 DEF Heartbeat
    <2>2. reported'.beat = reported.beat /\ silence' = silence
      BY <1>1, <1>2, <1>4, HostTypes
    <2> QED
      BY <1>1, <1>2, <1>3, <2>1, <2>2, HostTypes, UncommandedStep
  <1>5. CASE ok
    <2>1. /\ ~Faulted /\ ObserveClock(clock)
          /\ lastHeartbeatMs' = clock /\ heartbeatInitialized' = TRUE
          /\ UNCHANGED <<supervisorConfig, latchVars, commandVars, hardwareStartPermitted,
                         starterEngagedAtMs, outputVars>>
      BY <1>1, <1>2, <1>5 DEF Heartbeat
    <2>2. UNCHANGED <<supervisorFault, initialized, safingFailed, ignitionCommanded,
                      starterCommanded, ignitionFeedbackConfirmed, ignitionOutput,
                      starterOutput>>
      BY <2>1 DEF latchVars, commandVars, outputVars
    <2>3. TimingTypeOK'
      BY <1>1, <1>2, <1>5, HostTypes DEF TimingTypeOK
    <2>4. ClockIsObserved' /\ ConfigWasChecked'
      BY <1>2, <1>3, <2>1, <2>2
         DEF TimingInv, ClockIsObserved, ConfigWasChecked, ConfigIsValid, ObserveClock
    <2>5. StarterIsMeasured'
      BY <1>1, <1>2, <2>1, <2>2 DEF TimingInv, StarterIsMeasured, MeasureStarter
    <2>6. SilenceIsMeasured'
      <3>1. supervisorConfig.watchdogTimeoutMs \in Nat
        BY <1>1, HostTypes DEF Config
      <3> QED
        BY <1>1, <1>2, <1>3, <1>5, <2>1, <2>2, <3>1, HostTypes
           DEF SilenceIsMeasured, OutputsCommanded
    <2>7. ReportsAreRemembered'
      BY <1>2, <1>5, <2>1, <2>2 DEF TimingInv, ReportsAreRemembered, Faulted
    <2> QED
      BY <2>3, <2>4, <2>5, <2>6, <2>7 DEF TimingInv
  <1> QED
    BY <1>4, <1>5

\* poll() keeps the invariant: it is what bounds every duration.
LEMMA HostPollStep ==
    ASSUME TimingInv, SupervisorInv', HostPoll
    PROVE  TimingInv'
  <1>1. PICK permitted \in BOOLEAN, feedback \in ActuatorFeedback :
            /\ Poll(clock, permitted, feedback)
            /\ sincePoll' = 0
            /\ reported' = [reported EXCEPT
                  !.permitted = permitted,
                  !.ignition = @ \/ (/\ ignitionCommanded
                                     /\ feedback.available
                                     /\ feedback.ignitionActive)]
            /\ MeasureStarter
            /\ UNCHANGED <<clock, silence>>
    BY DEF HostPoll
  <1>2. /\ ~RejectClock(clock)
        /\ reported' \in [beat : BOOLEAN, permitted : BOOLEAN, ignition : BOOLEAN]
        /\ reported'.permitted = permitted
        /\ reported'.ignition = (reported.ignition
                                  \/ (/\ ignitionCommanded /\ feedback.available
                                      /\ feedback.ignitionActive))
        /\ reported'.beat = reported.beat
    <2>1. /\ feedback.available \in BOOLEAN /\ feedback.ignitionActive \in BOOLEAN
      BY DEF ActuatorFeedback
    <2> QED
      BY <1>1, <2>1, HostTypes, ServicedClockIsAccepted
  <1>3. Elapsed(clock, clock) = 0 /\ Elapsed(clock, clock) <= sincePoll'
    BY <1>1, HostTypes, ElapsedIsTime
  <1>4. CASE \/ Faulted
             \/ PollFault(clock, permitted, feedback) # "None"
    <2>1. /\ ~ignitionCommanded' /\ ~starterCommanded' /\ ~ignitionFeedbackConfirmed'
          /\ Faulted' /\ lastObservedMs' = clock
          /\ UNCHANGED <<supervisorConfig, initialized, heartbeatInitialized>>
      <3>1. CASE Faulted /\ ObserveClock(clock)
                 /\ UNCHANGED <<supervisorConfig, latchVars, commandVars, inputVars>>
        BY <3>1, FaultedIsUncommanded
           DEF ObserveClock, Faulted, latchVars, commandVars, inputVars
      <3>2. CASE /\ PollFault(clock, permitted, feedback) # "None"
                 /\ ObserveClock(clock)
                 /\ Trip(PollFault(clock, permitted, feedback), clock,
                         ignitionOutput, starterOutput)
                 /\ UNCHANGED <<supervisorConfig, initialized, heartbeatInitialized>>
        <4>1. PollFault(clock, permitted, feedback) \in Faults \ {"None"}
          BY <1>1, <3>2, HostTypes, PollFaultInFaults
        <4> QED
          BY <3>2, <4>1, TripUncommands DEF ObserveClock, TimingInv
      <3> QED
        BY <1>1, <1>2, <1>4, <3>1, <3>2 DEF Poll
    <2> QED
      BY <1>1, <1>2, <1>3, <2>1, HostTypes, UncommandedStep
  <1>5. CASE ~Faulted /\ PollFault(clock, permitted, feedback) = "None"
    <2>1. /\ ObserveClock(clock)
          /\ hardwareStartPermitted' = permitted
          /\ ignitionFeedbackConfirmed' =
                 IF feedback.available /\ FeedbackMatches(feedback)
                 THEN ignitionCommanded ELSE ignitionFeedbackConfirmed
          /\ UNCHANGED <<supervisorConfig, latchVars, ignitionCommanded,
                         starterCommanded, heartbeatInitialized,
                         lastHeartbeatMs, starterEngagedAtMs, outputVars>>
      BY <1>1, <1>2, <1>5 DEF Poll
    <2>2. UNCHANGED <<supervisorFault, initialized, safingFailed, ignitionOutput,
                      starterOutput>>
      BY <2>1 DEF latchVars, outputVars
    <2>3. /\ OutputsCommanded => heartbeatInitialized /\ ~HeartbeatOverdue(clock)
          /\ ~StarterOverdue(clock)
      BY <1>5 DEF PollFault
    <2>4. /\ Elapsed(clock, lastHeartbeatMs) \in Nat
          /\ Elapsed(clock, starterEngagedAtMs) \in Nat
          /\ supervisorConfig.watchdogTimeoutMs \in Nat
          /\ supervisorConfig.maximumStarterActiveMs \in Nat
      BY <1>1, HostTypes, ElapsedIsTime DEF Config, Time
    <2>5. TimingTypeOK'
      BY <1>1, <1>2, HostTypes DEF TimingTypeOK
    <2>6. ClockIsObserved' /\ ConfigWasChecked'
      BY <1>1, <1>3, <2>1, <2>2
         DEF TimingInv, ClockIsObserved, ConfigWasChecked, ConfigIsValid, ObserveClock
    <2>7. StarterIsMeasured'
      <3>1. starterLive' # 0 => starterOutput' /\ ~safingFailed'
        BY <1>1 DEF MeasureStarter
      <3>2. starterCommanded => starterLive' <= Elapsed(clock, starterEngagedAtMs)
        BY <1>1, <2>4 DEF MeasureStarter, TimingInv, StarterIsMeasured
      <3> QED
        BY <1>1, <2>1, <2>3, <2>4, <3>1, <3>2 DEF StarterIsMeasured, StarterOverdue
    <2>8. SilenceIsMeasured'
      <3>1. OutputsCommanded' <=> OutputsCommanded
        BY <2>1 DEF OutputsCommanded
      <3>2. Faulted' <=> Faulted
        BY <2>2 DEF Faulted
      <3> QED
        BY <1>1, <2>1, <2>3, <2>4, <3>1, <3>2
           DEF TimingInv, SilenceIsMeasured, HeartbeatOverdue, SilenceNeverWraps
    <2>9. ReportsAreRemembered'
      <3>1. ignitionFeedbackConfirmed' => ignitionCommanded'
        BY <2>1 DEF TimingInv, ReportsAreRemembered
      <3>2. ignitionFeedbackConfirmed' /\ supervisorConfig.requireFeedback
                => reported'.ignition
        <4>1. CASE feedback.available /\ FeedbackMatches(feedback)
          BY <1>2, <2>1, <4>1 DEF FeedbackMatches
        <4>2. CASE ~(feedback.available /\ FeedbackMatches(feedback))
          BY <1>2, <2>1, <4>2 DEF TimingInv, ReportsAreRemembered
        <4> QED
          BY <4>1, <4>2
      <3> QED
        BY <1>2, <2>1, <3>1, <3>2 DEF TimingInv, ReportsAreRemembered
    <2> QED
      BY <2>5, <2>6, <2>7, <2>8, <2>9 DEF TimingInv
  <1> QED
    BY <1>4, <1>5

\* resetFault() keeps the invariant: whatever was reported before is forgotten.
LEMMA HostResetStep ==
    ASSUME TimingInv, SupervisorInv', HostReset
    PROVE  TimingInv'
  <1>1. PICK feedback \in ActuatorFeedback, ok \in BOOLEAN :
            /\ supervisorFault # "None"
            /\ ResetFault(clock, feedback, ok)
            /\ reported' = IF ok THEN NothingReported ELSE reported
            /\ silence' = IF ok THEN 0 ELSE silence
            /\ MeasureStarter
            /\ UNCHANGED hostVars
    BY DEF HostReset
  <1>2. ~RejectClock(clock) /\ clock' = clock /\ sincePoll' = sincePoll
    BY <1>1, ServicedClockIsAccepted DEF hostVars
  <1>3. Elapsed(clock, clock) = 0 /\ Elapsed(clock, clock) <= sincePoll
    BY <1>1, HostTypes, ElapsedIsTime
  <1>4. CASE ~ok
    <2>1. /\ ObserveClock(clock) /\ supervisorFault' # "None"
          /\ \E safed \in BOOLEAN :
                 SafeDownstream(safed, clock, ignitionOutput, starterOutput)
          /\ UNCHANGED <<supervisorConfig, initialized, inputVars>>
      BY <1>1, <1>2, <1>4 DEF ResetFault, ConfigPermitsReset
    <2>2. /\ ~ignitionCommanded' /\ ~starterCommanded' /\ ~ignitionFeedbackConfirmed'
          /\ Faulted' /\ lastObservedMs' = clock
          /\ UNCHANGED <<supervisorConfig, initialized, heartbeatInitialized>>
      BY <2>1 DEF SafeDownstream, ReleaseCommands, Faulted, ObserveClock, inputVars
    <2>3. reported' = reported /\ silence' = silence
      BY <1>1, <1>4
    <2> QED
      BY <1>1, <1>2, <1>3, <2>2, <2>3, HostTypes, UncommandedStep
  <1>5. CASE ok
    <2>1. /\ ConfigIsValid(supervisorConfig) /\ ObserveClock(clock) /\ Rearm(clock)
          /\ UNCHANGED supervisorConfig
      BY <1>1, <1>2, <1>5 DEF ResetFault, ConfigPermitsReset
    <2>2. /\ ~ignitionCommanded' /\ ~starterCommanded' /\ ~ignitionFeedbackConfirmed'
          /\ ~heartbeatInitialized' /\ ~hardwareStartPermitted' /\ ~starterOutput'
          /\ heartbeatInitialized' = FALSE /\ hardwareStartPermitted' = FALSE
      BY <2>1 DEF Rearm, ReleaseCommands, DriverSafing
    <2>3. starterLive' = 0 /\ silence' = 0 /\ reported' = NothingReported
      BY <1>1, <1>5, <2>2 DEF MeasureStarter
    <2>4. TimingTypeOK'
      BY <1>1, <1>2, <2>3, HostTypes DEF TimingTypeOK, NothingReported
    <2>5. ClockIsObserved' /\ ConfigWasChecked'
      BY <1>2, <1>3, <2>1
         DEF ClockIsObserved, ConfigWasChecked, ConfigIsValid, ObserveClock
    <2>6. StarterIsMeasured' /\ SilenceIsMeasured' /\ ReportsAreRemembered'
      BY <2>2, <2>3 DEF StarterIsMeasured, SilenceIsMeasured, ReportsAreRemembered,
         OutputsCommanded, NothingReported
    <2> QED
      BY <2>4, <2>5, <2>6 DEF TimingInv
  <1> QED
    BY <1>4, <1>5

\* What the supervisor may energize on: a heartbeat and a permission reported
\* since the last reset, the heartbeat recent.
LEMMA EnergizingIsReported ==
    ASSUME TimingInv, CanEnergize
    PROVE  /\ reported.beat /\ reported.permitted /\ ~Faulted
           /\ heartbeatInitialized
           /\ Elapsed(clock, lastHeartbeatMs)
                 <= supervisorConfig.watchdogTimeoutMs + sincePoll
  <1>1. /\ ~Faulted /\ heartbeatInitialized /\ hardwareStartPermitted
        /\ ~HeartbeatOverdue(lastObservedMs)
    BY DEF CanEnergize, EnergizeRefusal, Faulted
  <1>2. /\ clock \in Time /\ lastObservedMs \in Time /\ lastHeartbeatMs \in Time
        /\ supervisorConfig \in Config /\ sincePoll \in Nat
    BY TimingAssumption DEF TimingInv, TimingTypeOK, SupervisorInv, SupervisorTypeOK
  <1>3. /\ Elapsed(clock, lastHeartbeatMs) \in Nat
        /\ Elapsed(clock, lastObservedMs) \in Nat
        /\ Elapsed(lastObservedMs, lastHeartbeatMs) \in Nat
        /\ supervisorConfig.watchdogTimeoutMs \in Nat
    BY <1>2, ElapsedIsTime DEF Time, Config
  <1>4. Elapsed(lastObservedMs, lastHeartbeatMs) <= supervisorConfig.watchdogTimeoutMs
    BY <1>1, <1>3 DEF HeartbeatOverdue
  <1>5. Elapsed(clock, lastObservedMs) <= sincePoll
    BY DEF TimingInv, ClockIsObserved
  <1>6. Elapsed(clock, lastHeartbeatMs)
           <= Elapsed(clock, lastObservedMs) + Elapsed(lastObservedMs, lastHeartbeatMs)
    BY <1>2, ElapsedTriangle
  <1>7. Elapsed(clock, lastHeartbeatMs) <= supervisorConfig.watchdogTimeoutMs + sincePoll
    BY <1>2, <1>3, <1>4, <1>5, <1>6
  <1> QED
    BY <1>1, <1>7 DEF TimingInv, ReportsAreRemembered

\* What every call of the Runtime does to the variables of the host.
RuntimeCalls ==
    /\ reported' = [reported EXCEPT !.ignition = @ /\ ignitionCommanded]
    /\ MeasureStarter
    /\ UNCHANGED <<hostVars, silence>>

\* A call keeps the report of a heartbeat and forgets one of an ignition that is no
\* longer commanded.
LEMMA RuntimeCallsMeans ==
    ASSUME TimingInv, RuntimeCalls
    PROVE  /\ clock' = clock /\ sincePoll' = sincePoll /\ silence' = silence
           /\ reported' \in [beat : BOOLEAN, permitted : BOOLEAN, ignition : BOOLEAN]
           /\ reported'.beat = reported.beat
           /\ reported'.permitted = reported.permitted
           /\ reported'.ignition = (reported.ignition /\ ignitionCommanded)
           /\ TimingTypeOK'
  <1>1. /\ reported \in [beat : BOOLEAN, permitted : BOOLEAN, ignition : BOOLEAN]
        /\ ignitionCommanded \in BOOLEAN
    BY DEF TimingInv, TimingTypeOK, SupervisorInv, SupervisorTypeOK
  <1>2. /\ reported' \in [beat : BOOLEAN, permitted : BOOLEAN, ignition : BOOLEAN]
        /\ reported'.beat = reported.beat
        /\ reported'.permitted = reported.permitted
        /\ reported'.ignition = (reported.ignition /\ ignitionCommanded)
    BY <1>1 DEF RuntimeCalls
  <1>3. starterLive' \in Nat
    BY DEF RuntimeCalls, MeasureStarter, TimingInv, TimingTypeOK
  <1> QED
    BY <1>2, <1>3 DEF RuntimeCalls, hostVars, TimingInv, TimingTypeOK

\* A call that the supervisor refuses, or whose driver call fails, keeps the
\* invariant.
LEMMA FailedCommandStep ==
    ASSUME TimingInv, SupervisorInv', RuntimeCalls,
           RefuseToEnergize
           \/ \E code \in Faults \ {"None"} : \E lit, cranking :
                  TripCommand(code, lit, cranking)
    PROVE  TimingInv'
  <1>1. /\ ~ignitionCommanded' /\ ~starterCommanded' /\ ~ignitionFeedbackConfirmed'
        /\ Faulted'
        /\ UNCHANGED <<supervisorConfig, initialized, heartbeatInitialized, lastObservedMs>>
    <2>1. ASSUME NEW code \in Faults \ {"None"}, NEW lit, NEW cranking,
                 TripCommand(code, lit, cranking)
          PROVE  <1>1
      BY <2>1, TripUncommands DEF TimingInv, TripCommand, inputVars, clockVars
    <2>2. CASE RefuseToEnergize
      <3>1. CASE initialized /\ supervisorFault # "None"
        BY <2>2, <3>1, FaultedIsUncommanded
           DEF RefuseToEnergize, Faulted, latchVars, commandVars, inputVars, clockVars
      <3>2. CASE ~(initialized /\ supervisorFault # "None")
        <4>1. EnergizeRefusal \in Faults \ {"None"}
          BY <2>2 DEF RefuseToEnergize, CanEnergize, EnergizeRefusal, Faults, TimingInv,
             SupervisorInv, SupervisorTypeOK
        <4>2. TripCommand(EnergizeRefusal, ignitionOutput, starterOutput)
          BY <2>2, <3>2 DEF RefuseToEnergize, TripCommand
        <4> QED
          BY <2>1, <4>1, <4>2
      <3> QED
        BY <3>1, <3>2
    <2> QED
      BY <2>1, <2>2
  <1>2. Elapsed(clock, lastObservedMs') <= sincePoll'
    BY <1>1, RuntimeCallsMeans DEF TimingInv, ClockIsObserved
  <1>3. sincePoll' \in 0 .. ServicePeriodMs
    BY RuntimeCallsMeans DEF TimingTypeOK
  <1> QED
    BY <1>1, <1>2, <1>3, RuntimeCallsMeans, UncommandedStep DEF RuntimeCalls

\* A call that drives or withdraws an output keeps the invariant.
LEMMA DrivenCommandStep ==
    ASSUME TimingInv, SupervisorInv', RuntimeCalls,
           UNCHANGED <<supervisorConfig, supervisorFault, initialized, heartbeatInitialized,
                       hardwareStartPermitted, lastHeartbeatMs, lastObservedMs>>,
           OutputsCommanded' => OutputsCommanded \/ CanEnergize,
           starterCommanded' =>
               \/ starterCommanded /\ UNCHANGED starterEngagedAtMs
               \/ ~starterCommanded /\ starterEngagedAtMs' = lastObservedMs,
           ignitionFeedbackConfirmed' =>
               /\ ignitionCommanded'
               /\ supervisorConfig.requireFeedback => ignitionFeedbackConfirmed
    PROVE  TimingInv'
  <1>1. ConfigWasChecked' /\ ClockIsObserved'
    BY RuntimeCallsMeans DEF TimingInv, ConfigWasChecked, ConfigIsValid, ClockIsObserved
  <1>2. StarterIsMeasured'
    <2>1. starterLive' # 0 => starterOutput' /\ ~safingFailed'
      BY DEF RuntimeCalls, MeasureStarter
    <2>2. starterLive' \in {0, starterLive} /\ starterLive \in Nat
      BY DEF RuntimeCalls, MeasureStarter, TimingInv, TimingTypeOK
    <2>3. CASE starterCommanded /\ UNCHANGED starterEngagedAtMs
      <3>1. /\ starterEngagedAtMs \in Time /\ clock \in Time
        BY DEF TimingInv, TimingTypeOK, SupervisorInv, SupervisorTypeOK
      <3>2. Elapsed(clock, starterEngagedAtMs) \in Nat
        BY <3>1, ElapsedIsTime DEF Time
      <3> QED
        BY <2>1, <2>2, <2>3, <3>2, RuntimeCallsMeans DEF TimingInv, StarterIsMeasured
    <2>4. CASE ~starterCommanded /\ starterEngagedAtMs' = lastObservedMs
      <3>1. starterLive = 0
        BY <2>4 DEF TimingInv, StarterIsMeasured, SupervisorInv, LiveOutputsAreCommanded
      <3>2. /\ lastObservedMs \in Time /\ clock \in Time
            /\ supervisorConfig.maximumStarterActiveMs \in Nat
            /\ sincePoll \in Nat
        BY TimingAssumption
           DEF TimingInv, TimingTypeOK, SupervisorInv, SupervisorTypeOK, Config
      <3>3. Elapsed(clock, lastObservedMs) \in Nat
        BY <3>2, ElapsedIsTime DEF Time
      <3>4. Elapsed(clock, lastObservedMs) <= sincePoll
        BY DEF TimingInv, ClockIsObserved
      <3> QED
        BY <2>1, <2>2, <2>4, <3>1, <3>2, <3>3, <3>4, RuntimeCallsMeans DEF StarterIsMeasured
    <2>5. CASE ~starterCommanded'
      BY <2>1, <2>5 DEF StarterIsMeasured
    <2> QED
      BY <2>3, <2>4, <2>5
  <1>3. SilenceIsMeasured'
    <2>1. Faulted' <=> Faulted
      BY DEF Faulted
    <2> QED
      BY <2>1, RuntimeCallsMeans, EnergizingIsReported
         DEF TimingInv, SilenceIsMeasured, SilenceNeverWraps
  <1>4. ReportsAreRemembered'
    <2>1. Faulted' <=> Faulted
      BY DEF Faulted
    <2> QED
      BY <2>1, RuntimeCallsMeans DEF TimingInv, ReportsAreRemembered
  <1> QED
    BY <1>1, <1>2, <1>3, <1>4, RuntimeCallsMeans DEF TimingInv

\* Any call of the Runtime keeps the invariant.
LEMMA RuntimeCommandStep ==
    ASSUME TimingInv, SupervisorInv', RuntimeCommand
    PROVE  TimingInv'
  <1>1. RuntimeCalls /\ ActuatorCommand
    BY DEF RuntimeCommand, RuntimeCalls
  <1>2. PICK ok \in BOOLEAN :
            \/ EnableIgnition(ok)
            \/ EngageStarter(ok)
            \/ DisengageStarter(ok)
            \/ ReleaseRemoteControl(ok)
            \/ SecureOutputs(ok)
    BY <1>1 DEF ActuatorCommand
  <1>3. "DriverFailure" \in Faults \ {"None"} /\ "CommandSequence" \in Faults \ {"None"}
    BY DEF Faults
  <1>4. ignitionFeedbackConfirmed => ignitionCommanded
    BY DEF TimingInv, ReportsAreRemembered
  <1>5. CASE EnableIgnition(ok)
    <2>1. CASE ok
      <3>1. /\ CanEnergize /\ ignitionCommanded' = TRUE
            /\ ignitionFeedbackConfirmed' = ~supervisorConfig.requireFeedback
            /\ UNCHANGED <<supervisorConfig, latchVars, starterCommanded, inputVars,
                           clockVars, starterEngagedAtMs>>
        BY <1>5, <2>1 DEF EnableIgnition
      <3> QED
        BY <1>1, <3>1, DrivenCommandStep DEF latchVars, inputVars, clockVars
    <2>2. CASE ~ok
      BY <1>1, <1>3, <1>5, <2>2, FailedCommandStep DEF EnableIgnition
    <2> QED
      BY <2>1, <2>2
  <1>6. CASE EngageStarter(ok)
    <2>1. CASE ok
      <3>1. /\ CanEnergize /\ ~StarterOutOfSequence /\ starterEngagedAtMs' = lastObservedMs
            /\ UNCHANGED <<supervisorConfig, latchVars, ignitionCommanded,
                           ignitionFeedbackConfirmed, inputVars, clockVars>>
        BY <1>6, <2>1 DEF EngageStarter
      <3>2. ~starterCommanded
        BY <3>1 DEF StarterOutOfSequence
      <3> QED
        BY <1>1, <1>4, <3>1, <3>2, DrivenCommandStep DEF latchVars, inputVars, clockVars
    <2>2. CASE ~ok
      BY <1>1, <1>3, <1>6, <2>2, FailedCommandStep DEF EngageStarter
    <2> QED
      BY <2>1, <2>2
  <1>7. CASE DisengageStarter(ok)
    <2>1. CASE ok
      <3>1. /\ starterCommanded' = FALSE
            /\ UNCHANGED <<supervisorConfig, latchVars, ignitionCommanded,
                           ignitionFeedbackConfirmed, inputVars, clockVars>>
        BY <1>7, <2>1 DEF DisengageStarter
      <3> QED
        BY <1>1, <1>4, <3>1, DrivenCommandStep
           DEF latchVars, inputVars, clockVars, OutputsCommanded
    <2>2. CASE ~ok
      BY <1>1, <1>3, <1>7, <2>2, FailedCommandStep DEF DisengageStarter
    <2> QED
      BY <2>1, <2>2
  <1>8. CASE ReleaseRemoteControl(ok)
    <2>1. CASE ok
      <3>1. /\ ReleaseCommands(lastObservedMs)
            /\ UNCHANGED <<supervisorConfig, latchVars, inputVars, clockVars>>
        BY <1>8, <2>1 DEF ReleaseRemoteControl
      <3> QED
        BY <1>1, <3>1, DrivenCommandStep
           DEF ReleaseCommands, latchVars, inputVars, clockVars, OutputsCommanded
    <2>2. CASE ~ok
      BY <1>1, <1>3, <1>8, <2>2, FailedCommandStep DEF ReleaseRemoteControl
    <2> QED
      BY <2>1, <2>2
  <1>9. CASE SecureOutputs(ok)
    <2>1. /\ ~ignitionCommanded' /\ ~starterCommanded' /\ ~ignitionFeedbackConfirmed'
          /\ UNCHANGED <<supervisorConfig, initialized, inputVars, clockVars>>
      BY <1>9 DEF SecureOutputs, SafeDownstream, ReleaseCommands
    <2>2. CASE ok
      <3>1. supervisorFault' = supervisorFault
        BY <1>9, <2>2 DEF SecureOutputs
      <3> QED
        BY <1>1, <2>1, <3>1, DrivenCommandStep DEF inputVars, clockVars, OutputsCommanded
    <2>3. CASE ~ok
      <3>1. Faulted'
        BY <1>9, <2>3 DEF SecureOutputs, Faulted
      <3>2. Elapsed(clock, lastObservedMs') <= sincePoll'
            /\ sincePoll' \in 0 .. ServicePeriodMs
        BY <1>1, <2>1, RuntimeCallsMeans
           DEF TimingInv, ClockIsObserved, TimingTypeOK, clockVars
      <3> QED
        BY <1>1, <2>1, <3>1, <3>2, RuntimeCallsMeans, UncommandedStep
           DEF RuntimeCalls, inputVars
    <2> QED
      BY <2>2, <2>3
  <1> QED
    BY <1>2, <1>5, <1>6, <1>7, <1>8, <1>9

\* The invariant is inductive.
LEMMA TimingInvInductive == TimingInv /\ [TimingNext]_timingVars => TimingInv'
  <1> SUFFICES ASSUME TimingInv, [TimingNext]_timingVars PROVE TimingInv'
    OBVIOUS
  <1>1. SupervisorInv'
    BY TimingStepsSupervisor, SupervisorInvInductive DEF TimingInv, TimingTypeOK
  <1>2. CASE UNCHANGED timingVars
    <2>1. UNCHANGED <<supervisorConfig, supervisorFault, initialized, safingFailed,
                      ignitionCommanded, starterCommanded, ignitionFeedbackConfirmed,
                      heartbeatInitialized, hardwareStartPermitted, lastObservedMs,
                      lastHeartbeatMs, starterEngagedAtMs, starterOutput,
                      clock, sincePoll, starterLive, silence, reported>>
      BY <1>2 DEF timingVars, supervisorVars, latchVars, commandVars, inputVars, clockVars,
         outputVars, hostVars, ghostVars
    <2> QED
      BY <1>1, <2>1 DEF TimingInv, TimingTypeOK, ClockIsObserved, ConfigWasChecked,
         ConfigIsValid, StarterIsMeasured, SilenceIsMeasured, SilenceNeverWraps,
         ReportsAreRemembered, OutputsCommanded, Faulted
  <1> QED
    BY <1>1, <1>2, TickStep, HostHeartbeatStep, HostPollStep, HostResetStep,
       RuntimeCommandStep DEF TimingNext

-----------------------------------------------------------------------------
(* The theorems.                                                           *)

\* Every difference of readings that the supervisor compares with a limit is
\* worth what the invariant says, in every reachable state.
THEOREM TimingInvariant == TimingSpec => []TimingInv
  BY TimingInitInv, TimingInvInductive, PTL DEF TimingSpec

\* The starter is never live for longer than its limit and one service period.
THEOREM StarterTimeBounded == TimingSpec => []StarterTimeIsBounded
  <1>1. TimingInv => StarterTimeIsBounded
    <2> SUFFICES ASSUME TimingInv PROVE StarterTimeIsBounded
      OBVIOUS
    <2>1. /\ supervisorConfig.maximumStarterActiveMs \in Nat
          /\ sincePoll \in 0 .. ServicePeriodMs /\ ServicePeriodMs \in Nat
          /\ starterLive \in Nat
          /\ clock \in Time /\ starterEngagedAtMs \in Time
      BY TimingAssumption
         DEF TimingInv, TimingTypeOK, SupervisorInv, SupervisorTypeOK, Config
    <2>2. Elapsed(clock, starterEngagedAtMs) \in Nat
      BY <2>1, ElapsedIsTime DEF Time
    <2>3. CASE starterLive = 0
      BY <2>1, <2>3 DEF StarterTimeIsBounded
    <2>4. CASE starterLive # 0
      <3>1. starterCommanded
        BY <2>4 DEF TimingInv, StarterIsMeasured, SupervisorInv, LiveOutputsAreCommanded
      <3> QED
        BY <2>1, <2>2, <3>1 DEF TimingInv, StarterIsMeasured, StarterTimeIsBounded
    <2> QED
      BY <2>3, <2>4
  <1> QED
    BY <1>1, TimingInvariant, PTL

\* Provided that the control task is never silent for a whole turn of the clock,
\* no output outlives its heartbeats by more than the watchdog and one service
\* period.  Without the proviso the code does not promise it.
THEOREM SilenceBounded ==
    ASSUME SilenceNeverWraps
    PROVE  TimingSpec => []SilenceCutsOutputs
  <1>1. TimingInv => SilenceCutsOutputs
    <2> SUFFICES ASSUME TimingInv, ignitionOutput \/ starterOutput, ~safingFailed
                 PROVE  silence <= supervisorConfig.watchdogTimeoutMs + ServicePeriodMs
      BY DEF SilenceCutsOutputs
    <2>1. OutputsCommanded /\ ~Faulted
      BY DEF TimingInv, SupervisorInv, LiveOutputsAreCommanded, CommandsAreOrdered,
         OutputsCommanded
    <2>2. /\ silence = Elapsed(clock, lastHeartbeatMs)
          /\ Elapsed(clock, lastHeartbeatMs)
                <= supervisorConfig.watchdogTimeoutMs + sincePoll
      BY <2>1 DEF TimingInv, SilenceIsMeasured
    <2>3. /\ supervisorConfig.watchdogTimeoutMs \in Nat
          /\ sincePoll \in 0 .. ServicePeriodMs /\ ServicePeriodMs \in Nat
          /\ silence \in Nat
      BY TimingAssumption
         DEF TimingInv, TimingTypeOK, SupervisorInv, SupervisorTypeOK, Config
    <2> QED
      BY <2>2, <2>3
  <1> QED
    BY <1>1, TimingInvariant, PTL

\* Which calls raise a command: an activation that the supervisor may energize,
\* the starter moreover in sequence.
LEMMA OnlyActivationsCommand ==
    ASSUME [SupervisorNext]_supervisorVars
    PROVE  /\ OutputsCommanded' => OutputsCommanded \/ CanEnergize
           /\ starterCommanded' =>
                 starterCommanded \/ (CanEnergize /\ ~StarterOutOfSequence)
  <1> DEFINE Falls == /\ ignitionCommanded' => ignitionCommanded
                      /\ starterCommanded' => starterCommanded
  <1>1. ASSUME NEW at, NEW lit, NEW cranking, NEW safed,
               SafeDownstream(safed, at, lit, cranking)
        PROVE  ~ignitionCommanded' /\ ~starterCommanded'
    BY <1>1 DEF SafeDownstream, ReleaseCommands
  <1>2. ASSUME NEW code, NEW at, NEW lit, NEW cranking, Trip(code, at, lit, cranking)
        PROVE  ~ignitionCommanded' /\ ~starterCommanded'
    BY <1>1, <1>2 DEF Trip
  <1>3. ASSUME NEW now, RejectClock(now) PROVE Falls
    BY <1>2, <1>3 DEF RejectClock
  <1>4. ASSUME NEW now, NEW ok, Heartbeat(now, ok) PROVE Falls
    BY <1>2, <1>3, <1>4 DEF Heartbeat, commandVars
  <1>5. ASSUME NEW now, NEW permitted, NEW feedback, Poll(now, permitted, feedback)
        PROVE  Falls
    BY <1>2, <1>3, <1>5 DEF Poll, commandVars
  <1>6. ASSUME NEW now, NEW feedback, NEW ok, ResetFault(now, feedback, ok)
        PROVE  Falls
    BY <1>1, <1>3, <1>6 DEF ResetFault, Rearm, ReleaseCommands
  <1>7. ASSUME RefuseToEnergize PROVE Falls
    BY <1>2, <1>7 DEF RefuseToEnergize, commandVars
  <1>8. ASSUME NEW code, NEW lit, NEW cranking, TripCommand(code, lit, cranking)
        PROVE  Falls
    BY <1>2, <1>8 DEF TripCommand
  <1>9. CASE Supervision
    <2>1. Falls
      BY <1>4, <1>5, <1>6, <1>9 DEF Supervision
    <2> QED
      BY <2>1 DEF OutputsCommanded
  <1>10. CASE \E ok \in BOOLEAN : EnableIgnition(ok)
    <2>1. Falls \/ (CanEnergize /\ (starterCommanded' => starterCommanded))
      BY <1>7, <1>8, <1>10 DEF EnableIgnition
    <2> QED
      BY <2>1 DEF OutputsCommanded
  <1>11. CASE \E ok \in BOOLEAN : EngageStarter(ok)
    <2>1. Falls \/ (CanEnergize /\ ~StarterOutOfSequence)
      BY <1>7, <1>8, <1>11 DEF EngageStarter
    <2> QED
      BY <2>1 DEF OutputsCommanded
  <1>12. CASE \E ok \in BOOLEAN : DisengageStarter(ok) \/ ReleaseRemoteControl(ok)
    <2>1. ASSUME NEW ok \in BOOLEAN, DisengageStarter(ok) PROVE Falls
      <3>1. CASE ok
        BY <2>1, <3>1 DEF DisengageStarter
      <3>2. CASE ~ok
        <4>1. PICK cranking \in {starterOutput, FALSE} :
                     TripCommand("DriverFailure", ignitionOutput, cranking)
          BY <2>1, <3>2 DEF DisengageStarter
        <4> QED
          BY <1>8, <4>1
      <3> QED
        BY <3>1, <3>2
    <2>2. ASSUME NEW ok \in BOOLEAN, ReleaseRemoteControl(ok) PROVE Falls
      BY <1>7, <1>8, <2>2 DEF ReleaseRemoteControl, ReleaseCommands
    <2>3. Falls
      BY <1>12, <2>1, <2>2
    <2> QED
      BY <2>3 DEF OutputsCommanded
  <1>13. CASE \E ok \in BOOLEAN : SecureOutputs(ok)
    <2>1. Falls
      BY <1>1, <1>13 DEF SecureOutputs
    <2> QED
      BY <2>1 DEF OutputsCommanded
  <1>14. CASE UNCHANGED supervisorVars
    BY <1>14 DEF supervisorVars, commandVars, OutputsCommanded
  <1> QED
    BY <1>9, <1>10, <1>11, <1>12, <1>13, <1>14 DEF SupervisorNext, ActuatorCommand

\* Every activation rests on a heartbeat and a permission reported since the last
\* reset, and the starter, when feedback is required, on an ignition reported
\* live since it was commanded.
THEOREM ActivationSupervised == TimingSpec => ActivationIsSupervised
  <1> DEFINE Supervised ==
               /\ OutputsCommanded' /\ ~OutputsCommanded
                   => reported.beat /\ reported.permitted
               /\ starterCommanded' /\ ~starterCommanded
                   => /\ reported.beat /\ reported.permitted
                      /\ supervisorConfig.requireFeedback => reported.ignition
  <1>1. TimingInv /\ [TimingNext]_timingVars => [Supervised]_timingVars
    <2> SUFFICES ASSUME TimingInv, [TimingNext]_timingVars PROVE Supervised
      OBVIOUS
    <2>1. [SupervisorNext]_supervisorVars
      BY TimingStepsSupervisor DEF TimingInv, TimingTypeOK
    <2>2. CASE CanEnergize
      BY <2>1, <2>2, EnergizingIsReported, OnlyActivationsCommand
         DEF TimingInv, ReportsAreRemembered, StarterOutOfSequence
    <2>3. CASE ~CanEnergize
      BY <2>1, <2>3, OnlyActivationsCommand
    <2> QED
      BY <2>2, <2>3
  <1> QED
    BY <1>1, TimingInvariant, PTL DEF TimingSpec, ActivationIsSupervised
=============================================================================
