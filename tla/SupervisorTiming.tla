-------------------------- MODULE SupervisorTiming --------------------------
(***************************************************************************)
(* The actuator supervisor under a host that polls it periodically with a  *)
(* monotone clock, as serviceSupervisor() does in tools/sandbox_session.   *)
(* The supervisor only sees readings of a clock that wraps at 2^32; the    *)
(* variables added here measure the true durations and what the host has   *)
(* really reported, to compare with what the supervisor concludes.         *)
(***************************************************************************)
EXTENDS ActuatorSafetySupervisor

CONSTANTS
    ServicePeriodMs,   \* SupervisorServicePeriodMs: poll() at least this often
    MaxSilenceMs       \* longest time the control task sends no heartbeat

ASSUME TimingAssumption == ServicePeriodMs \in Nat \ {0} /\ MaxSilenceMs \in Nat

\* The clock wraps after 49.7 days, the limits are seconds.
ASSUME ClockRangeAssumption ==
    /\ 2 * ServicePeriodMs < ClockModulus
    /\ MaximumStarterActiveMs + ServicePeriodMs < ClockModulus

VARIABLES
    clock,        \* the reading of the host clock
    sincePoll,    \* time since the last poll()
    starterLive,  \* how long the starter output has been live, while safing works
    silence,      \* time since the last accepted heartbeat(), while not faulted
    reported      \* what poll() was told since the last activation or reset

hostVars   == <<clock, sincePoll>>
ghostVars  == <<starterLive, silence, reported>>
timingVars == <<supervisorVars, hostVars, ghostVars>>

NothingReported == [beat |-> FALSE, permitted |-> FALSE, ignition |-> FALSE]

TimingInit ==
    /\ SupervisorInit
    /\ clock = 0
    /\ sincePoll = 0
    /\ starterLive = 0
    /\ silence = 0
    /\ reported = NothingReported

\* One unit of time passes; the host never lets a service period go by without
\* a poll(), and the control task is never silent for more than MaxSilenceMs.
Tick ==
    /\ sincePoll < ServicePeriodMs
    /\ silence < MaxSilenceMs
    /\ clock' = (clock + 1) % ClockModulus
    /\ sincePoll' = sincePoll + 1
    /\ starterLive' = IF starterOutput /\ ~safingFailed THEN starterLive + 1 ELSE 0
    /\ silence' = IF reported.beat /\ ~Faulted THEN silence + 1 ELSE silence
    /\ UNCHANGED <<supervisorVars, reported>>

\* A call takes no time; the measure restarts when the output goes dead.
MeasureStarter ==
    starterLive' = IF starterOutput' /\ ~safingFailed' THEN starterLive ELSE 0

HostHeartbeat ==
    \E ok \in BOOLEAN :
        /\ Heartbeat(clock, ok)
        /\ silence' = IF ok THEN 0 ELSE silence
        /\ reported' = [reported EXCEPT !.beat = @ \/ ok]
        /\ MeasureStarter
        /\ UNCHANGED hostVars

HostPoll ==
    \E permitted \in BOOLEAN, feedback \in ActuatorFeedback :
        /\ Poll(clock, permitted, feedback)
        /\ sincePoll' = 0
        /\ reported' = [reported EXCEPT
              !.permitted = permitted,
              !.ignition = @ \/ (/\ ignitionCommanded
                                 /\ feedback.available
                                 /\ feedback.ignitionActive)]
        /\ MeasureStarter
        /\ UNCHANGED <<clock, silence>>

HostReset ==
    \E feedback \in ActuatorFeedback, ok \in BOOLEAN :
        /\ supervisorFault # "None"
        /\ ResetFault(clock, feedback, ok)
        /\ reported' = IF ok THEN NothingReported ELSE reported
        /\ silence' = IF ok THEN 0 ELSE silence
        /\ MeasureStarter
        /\ UNCHANGED hostVars

RuntimeCommand ==
    /\ ActuatorCommand
    /\ reported' = [reported EXCEPT !.ignition = @ /\ ignitionCommanded]
    /\ MeasureStarter
    /\ UNCHANGED <<hostVars, silence>>

TimingNext == Tick \/ HostHeartbeat \/ HostPoll \/ HostReset \/ RuntimeCommand

TimingSpec == TimingInit /\ [][TimingNext]_timingVars

-----------------------------------------------------------------------------
\* The starter has a maximum duration of its own: while safing works, it is
\* never live for longer than maximumStarterActiveMs plus one service period,
\* whatever the Runtime commands and although the supervisor dates the
\* engagement with the last clock reading it saw, across clock wrap-around.
StarterTimeIsBounded ==
    starterLive <= supervisorConfig.maximumStarterActiveMs + ServicePeriodMs

\* No output outlives the control task: while safing works, an output is live
\* only if a heartbeat was accepted at most watchdogTimeoutMs plus one service
\* period ago.
SilenceCutsOutputs ==
    (ignitionOutput \/ starterOutput) /\ ~safingFailed =>
        silence <= supervisorConfig.watchdogTimeoutMs + ServicePeriodMs

\* An output becomes commanded only after, since the last reset, a heartbeat
\* was accepted and the last poll() reported the hardware permission; the
\* starter moreover, when feedback is required, after a poll() that saw the
\* ignition electrically live since it was commanded.
ActivationIsSupervised ==
    [][ /\ OutputsCommanded' /\ ~OutputsCommanded
            => reported.beat /\ reported.permitted
        /\ starterCommanded' /\ ~starterCommanded
            => /\ reported.beat /\ reported.permitted
               /\ supervisorConfig.requireFeedback => reported.ignition
      ]_timingVars

\* docs/safety.md, invariant 23: any activation requires a RECENT heartbeat.
ActivationNeedsRecentHeartbeat ==
    [][ OutputsCommanded' /\ ~OutputsCommanded
            => silence <= supervisorConfig.watchdogTimeoutMs + ServicePeriodMs
      ]_timingVars
=============================================================================
