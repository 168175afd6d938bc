-------------------------------- MODULE DiagnosticJournal --------------------------------
(* DiagnosticJournal beside the Controller: Runtime::dispatch() records what   *)
(* each decision did, then the failures of its execution and of the safing.    *)
(* A record keeps what the properties tell apart: its sequence, type, states,  *)
(* fault and reason; time, trigger and masks are left out.                     *)
(*                                                                             *)
(*   journal   records_, oldestIndex_, size_, nextSequence_, overwrittenCount_ *)
(*   stage     "ready", or what dispatch() is about to do after handle():      *)
(*             "execute" the decision, or the actions of a "safing"            *)
(*   log       the last MaximumRecords appended since the last clear, and how  *)
(*             many were appended, up to MaxAppended (history)                 *)
(*   periodic  records due to updates of the vehicle since the last other      *)
(*             event (history)                                                 *)
EXTENDS Controller, SequencesExt, FiniteSets

CONSTANTS MaximumRecords,      \* DiagnosticJournal::Capacity
          SequenceModulus,     \* 2^32 values of nextSequence_
          MaximumOverwritten   \* 2^32 - 1, where overwrittenCount_ stays

VARIABLES journal, stage, log, periodic
journalVars == <<controllerVars, journal, stage, log, periodic>>

Blank == [sequence |-> 0, type |-> "command_received", previousState |-> "Idle",
          state |-> "Idle", fault |-> "None", reason |-> "none"]
Record(type, before, after, code, reason) ==
    [Blank EXCEPT !.type = type, !.previousState = before, !.state = after,
                  !.fault = code, !.reason = reason]
ClearedJournal ==
    [records |-> [n \in 0..(MaximumRecords - 1) |-> Blank],
     oldest |-> 0, size |-> 0, next |-> 1, overwritten |-> 0]
-----------------------------------------------------------------------------
\* append().
\* Mutant: the oldest record is overwritten and still read first.
AppendedInPlace(j, record) ==
    LET full == j.size = MaximumRecords
        slot == (j.oldest + j.size) % MaximumRecords
    IN [j EXCEPT !.records[slot] = [record EXCEPT !.sequence = j.next],
                 !.next = (@ + 1) % SequenceModulus,
                 !.size = IF full THEN @ ELSE @ + 1,
                 !.overwritten = IF full /\ @ < MaximumOverwritten THEN @ + 1 ELSE @]
Appended(j, record) ==
    LET full == j.size = MaximumRecords
        slot == (j.oldest + j.size) % MaximumRecords
    IN [j EXCEPT !.records[slot] = [record EXCEPT !.sequence = j.next],
                 !.next = (@ + 1) % SequenceModulus,
                 !.size = IF full THEN @ ELSE @ + 1,
                 !.oldest = IF full THEN (@ + 1) % MaximumRecords ELSE @,
                 !.overwritten = IF full /\ @ < MaximumOverwritten THEN @ + 1 ELSE @]

\* read() of every index.
Read(j) == [n \in 1..j.size |-> j.records[(j.oldest + n - 1) % MaximumRecords]]

MaxAppended == MaximumRecords + MaximumOverwritten + 1
Newest(records) ==
    SubSeq(records, IF Len(records) > MaximumRecords
                    THEN Len(records) - MaximumRecords + 1 ELSE 1, Len(records))
Journalled(records, fromUpdate) ==
    /\ journal' = FoldLeft(Appended, journal, records)
    /\ log' = LET total == log.count + Len(records)
              IN [records |-> Newest(log.records \o records),
                  count |-> IF total < MaxAppended THEN total ELSE MaxAppended]
    /\ periodic' = IF fromUpdate THEN periodic + Len(records) ELSE 0
-----------------------------------------------------------------------------
Commands == {"RemoteStartRequested", "RemoteStopRequested", "DriverTakeoverConfirmed",
             "ResetRequested"}
RejectionReason(decided) ==
    LET Decided(type) == Contains(decided, type)
    IN IF Decided("NotifyRemoteStartDisabled") THEN "remote_start_disabled"
       ELSE IF Decided("NotifyProfileRejected") THEN "profile_not_ready"
       ELSE IF Decided("NotifyStartRejected") THEN "safety_policy"
       ELSE IF Decided("NotifyResetRejected") THEN "unsafe_reset"
       ELSE IF Decided("NotifyRequestIgnored") THEN "invalid_state"
       ELSE "none"

When(holds, record) == IF holds THEN <<record>> ELSE <<>>
\* observe(), of the decision the step takes.
\* Mutant: every update of the vehicle is recorded.
ObservedAlways(event) ==
    When(TRUE, Record("command_received", state, state, fault, "none"))
    \o When(state # state', Record("state_transition", state, state', fault', "none"))
    \o When(RejectionReason(actions') # "none",
            Record("request_rejected", state, state', fault', RejectionReason(actions')))
    \o When(state # "Fault" /\ state' = "Fault",
            Record("fault_entered", state, state', fault',
                   IF fault' = "SafetyInterlock" THEN "safety_policy" ELSE "none"))
Observed(event) ==
    When(event \in Commands, Record("command_received", state, state, fault, "none"))
    \o When(state # state', Record("state_transition", state, state', fault', "none"))
    \o When(RejectionReason(actions') # "none",
            Record("request_rejected", state, state', fault', RejectionReason(actions')))
    \o When(state # "Fault" /\ state' = "Fault",
            Record("fault_entered", state, state', fault',
                   IF fault' = "SafetyInterlock" THEN "safety_policy" ELSE "none"))

\* dispatch(), up to the execution of the decision.
Dispatch(event, handler) ==
    /\ stage = "ready"
    /\ handler
    /\ Journalled(Observed(event), event = "VehicleStateUpdated")
    /\ stage' = "execute"
\* The update goes on in the periodic count while its decision is executed.
InUpdate == periodic > 0

StartRequested == Dispatch("RemoteStartRequested", HandleStartRequest)
StopRequested == Dispatch("RemoteStopRequested", HandleStopRequest)
VehicleStateUpdated ==
    \E v \in Snapshots : Dispatch("VehicleStateUpdated", HandleVehicleUpdate(v))
TakeoverConfirmed ==
    \E v \in Snapshots : Dispatch("DriverTakeoverConfirmed", HandleDriverTakeover(v))
ResetRequested == \E v \in Snapshots : Dispatch("ResetRequested", HandleReset(v))
TimerElapsed == \E v \in Snapshots : Dispatch("TimerElapsed", HandleTimer(v))
\* The host reports a fault of the supervisor.
FailureReported ==
    Dispatch("InfrastructureFailure", HandleInfrastructureFailure("ActuatorFailure"))

DecisionExecuted ==
    /\ stage = "execute"
    /\ stage' = "ready"
    /\ UNCHANGED <<controllerVars, journal, log, periodic>>

\* The failures the actions of a decision may end in, in Runtime::executeAction().
FailuresOf(decided) ==
    {CASE decided[n] = "RequestVehicleState" -> "VehicleCommunication"
       [] decided[n] \in {"ArmTimer", "CancelTimer"} -> "TimerFailure"
       [] OTHER -> "ActuatorFailure"
     : n \in {k \in DOMAIN decided : decided[k] \notin Notifications}}

\* Its execution fails: recordInfrastructureFailure(), and the decision of the
\* failure is observed in turn.
DecisionFails ==
    /\ stage = "execute"
    /\ \E code \in FailuresOf(actions) :
          /\ HandleInfrastructureFailure(code)
          /\ Journalled(<<Record("infrastructure_failure", state, state, code, "none")>>
                            \o Observed("InfrastructureFailure"), InUpdate)
    /\ stage' = "safing"

\* executeSafing(): each action that fails is recorded.
SafingExecuted ==
    /\ stage = "safing"
    /\ \E failing \in SUBSET {"CancelTimer", "DisengageStarter", "SecureOutputs"} :
          Journalled([n \in 1..Cardinality(failing) |->
                         Record("safing_failure", state, state,
                                IF n = 1 /\ "CancelTimer" \in failing
                                THEN "TimerFailure" ELSE "ActuatorFailure", "none")],
                     InUpdate)
    /\ stage' = "ready"
    /\ UNCHANGED controllerVars

\* clear().
Clear ==
    /\ stage = "ready"
    /\ journal' = ClearedJournal /\ log' = [records |-> <<>>, count |-> 0] /\ periodic' = 0
    /\ UNCHANGED <<controllerVars, stage>>

JournalInit ==
    /\ ControllerInit
    /\ journal = ClearedJournal /\ stage = "ready" /\ periodic = 0
    /\ log = [records |-> <<>>, count |-> 0]

JournalNext ==
    \/ StartRequested \/ StopRequested \/ VehicleStateUpdated \/ TakeoverConfirmed
    \/ ResetRequested \/ TimerElapsed \/ FailureReported
    \/ DecisionExecuted \/ DecisionFails \/ SafingExecuted \/ Clear

JournalSpec == JournalInit /\ [][JournalNext]_journalVars
-----------------------------------------------------------------------------
\* What is read is the end of what was recorded, oldest first and numbered
\* without a gap; the overwritten records are counted; the transitions read
\* follow each other and lead to the state of the controller, so that none is
\* missing, those of failed executions included (diagnostic_journal.cpp, append
\* and read; runtime.cpp, dispatch; docs/diagnostic-journal.md).
JournalTellsTheSession ==
    LET read == Read(journal)
        transitions == SelectSeq(read, LAMBDA r : r.type = "state_transition")
    IN /\ [n \in DOMAIN read |-> [read[n] EXCEPT !.sequence = 0]] = log.records
       /\ \A n \in DOMAIN read :
             (journal.next - read[n].sequence) % SequenceModulus
                 = (Len(read) + 1 - n) % SequenceModulus
       /\ log.count < MaxAppended => journal.overwritten = log.count - journal.size
       /\ log.count = MaxAppended => journal.overwritten = MaximumOverwritten
       /\ \A n \in 2..Len(transitions) :
             transitions[n - 1].state = transitions[n].previousState
       /\ transitions # <<>> => Last(transitions).state = state

\* Updates of the vehicle, however many, add few records until something else
\* happens, even where their decisions and the safing fail: they cannot push the
\* rest out of a journal of 32 records (diagnostic_journal.cpp, observe;
\* docs/diagnostic-journal.md: periodic messages are kept from filling the
\* journal).  The most is a crank that succeeds, a driver who opens a door where
\* that stops the engine, and a stop whose outputs cannot be secured.
PeriodicUpdatesAreBounded == periodic <= 9
=============================================================================
