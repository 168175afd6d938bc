-------------------------------- MODULE LockGesture --------------------------------
(* CanLockCommandPipeline: CanLockCommandAdapter turns the frames of one CAN   *)
(* identifier into evidence of lock presses, LockCommandGate checks each       *)
(* evidence and LockSequenceDetector counts presses into a gesture.            *)
(*                                                                             *)
(* The code keeps timestamps on 32 bits and uses only their differences: the   *)
(* model keeps the age of each timestamp, modulo ClockPeriod.                  *)
(*                                                                             *)
(*   adapter   initialized_, age of lastTimestampMs_, lastCommandActive_       *)
(*   gate      clockInitialized_, age of lastNowMs_, evidenceInitialized_, age *)
(*             of lastEvidenceTimestampMs_, and how far expandedSequence_ of   *)
(*             the adapter is ahead of lastSourceSequence_                     *)
(*   detector  pressCount_ and the ages of its first and last press            *)
(*   outcome   what process() returned                                         *)
(*   presses   true ages, up to Horizon, of the sound presses since the last   *)
(*             refusal or request (history)                                    *)
(*   newest    true age of the last sound press, at most Horizon (history)     *)
EXTENDS Integers, Sequences, SequencesExt

CONSTANTS RequiredPresses, MinimumGap, MaximumGap, MaximumSequence, \* LockSequenceConfig
          MaximumEvidenceAge,  \* LockCommandGateConfig
          Trust,               \* CanLockCommandAdapterConfig
          CounterPeriod,       \* values of the rolling counter in the frame
          ClockPeriod,         \* 2^32 milliseconds
          SequencePeriod,      \* 2^32 values of expandedSequence_
          Distances,           \* bound: breaks of the rolling counter explored
          MaximumDelay,        \* bound: how long a frame waits before process()
          MaximumQuiet,        \* bound: time without a recognised frame or evidence
          MaximumLag,          \* bound: advance of the sequence between evidence
          Horizon              \* bound: how long the history remembers a press

\* The bounds keep every age in use within the clock, silences within half of it,
\* and a whole gesture within what is remembered.
ASSUME GestureAssumption ==
    /\ RequiredPresses \in Nat \ {0}
    /\ {MinimumGap, MaximumGap, MaximumSequence, MaximumEvidenceAge} \subseteq Nat
    /\ {CounterPeriod, ClockPeriod, SequencePeriod} \subseteq Nat \ {0}
    /\ Distances \subseteq Nat
    /\ {MaximumDelay, MaximumQuiet, MaximumLag, Horizon} \subseteq Nat
    /\ 2 * MaximumQuiet < ClockPeriod - 1 /\ MaximumDelay <= MaximumQuiet
    /\ MaximumQuiet + MaximumEvidenceAge + MinimumGap + MaximumSequence < ClockPeriod
    /\ 2 * MaximumLag + CounterPeriod <= SequencePeriod
    /\ MaximumSequence + MaximumEvidenceAge < Horizon /\ Horizon <= ClockPeriod

VARIABLES adapter, gate, detector, outcome, presses, newest
gestureVars == <<adapter, gate, detector, outcome, presses, newest>>
-----------------------------------------------------------------------------
\* strictlyNewer(), on the difference of two counters.
StrictlyNewer(difference, period) ==
    difference % period # 0 /\ difference % period < period \div 2
\* Ages of two timestamps: the candidate is strictly newer than the previous.
NewerAge(candidate, previous) == StrictlyNewer(previous - candidate, ClockPeriod)
\* Newer than the present.  No frame of the model is: none is processed before it
\* is received.
IsFuture(age) == NewerAge(age, 0)

\* One millisecond later, the age of a timestamp that is in use.
Grown(age, known) == IF known THEN (age + 1) % ClockPeriod ELSE age

AdapterReset == [initialized |-> FALSE, stamp |-> 0, active |-> FALSE]
DetectorReset == [count |-> 0, first |-> 0, last |-> 0]
GateReset == [clocked |-> FALSE, now |-> 0, evidenced |-> FALSE, seen |-> 0, lag |-> 0]

\* A frame: of another identifier, not valid (or of another length than the
\* binding), or of the binding.  A frame of the binding was received delay before
\* it is processed, its counter is distance ahead of the last one recognised; one
\* delay is enough for a counter that breaks, since nothing is kept of its frame.
CanFrames ==
    [kind : {"foreign", "invalid"}, delay : {0}, distance : {1},
     active : {FALSE}, secured : {FALSE}]
        \cup [kind : {"lock"}, delay : 0..MaximumDelay, distance : {1},
              active : {FALSE}, secured : {FALSE}]
        \cup [kind : {"lock"}, delay : 0..MaximumDelay, distance : {1},
              active : {TRUE}, secured : BOOLEAN]
        \cup [kind : {"lock"}, delay : {0}, distance : Distances,
              active : BOOLEAN, secured : {TRUE}]
-----------------------------------------------------------------------------
\* CanLockCommandAdapter::process(), on an enabled and valid configuration.
\* Mutant: a command held over several frames is a press in each of them.
DecodeLevel(a, frame) ==
    IF frame.kind = "invalid" THEN "rejected_invalid_frame"
    ELSE IF frame.kind = "foreign" THEN "ignored"
    ELSE IF a.initialized /\ a.stamp # frame.delay /\ ~NewerAge(frame.delay, a.stamp)
         THEN "rejected_timestamp_regression"
    ELSE IF ~a.initialized THEN "primed"
    ELSE IF frame.distance = 0 THEN "rejected_duplicate_counter"
    ELSE IF frame.distance >= CounterPeriod \div 2 THEN "rejected_out_of_order_counter"
    ELSE IF frame.active THEN "evidence_produced"
    ELSE "no_command"
Decode(a, frame) ==
    IF frame.kind = "invalid" THEN "rejected_invalid_frame"
    ELSE IF frame.kind = "foreign" THEN "ignored"
    ELSE IF a.initialized /\ a.stamp # frame.delay /\ ~NewerAge(frame.delay, a.stamp)
         THEN "rejected_timestamp_regression"
    ELSE IF ~a.initialized THEN "primed"
    ELSE IF frame.distance = 0 THEN "rejected_duplicate_counter"
    ELSE IF frame.distance >= CounterPeriod \div 2 THEN "rejected_out_of_order_counter"
    ELSE IF frame.active /\ ~a.active THEN "evidence_produced"
    ELSE "no_command"

RequiresGestureReset(status) ==
    status \in {"rejected_invalid_frame", "rejected_duplicate_counter",
                "rejected_out_of_order_counter", "rejected_timestamp_regression"}
Recognised(status) == status \in {"primed", "no_command", "evidence_produced"}

AdapterAfter(a, frame, status) ==
    IF RequiresGestureReset(status) THEN AdapterReset
    ELSE IF Recognised(status)
         THEN [initialized |-> TRUE, stamp |-> frame.delay, active |-> frame.active]
    ELSE a

\* expandedSequence_ advances with every recognised frame but the first.
LagAfter(g, frame, status) ==
    IF g.evidenced /\ status \in {"no_command", "evidence_produced"}
    THEN g.lag + frame.distance ELSE g.lag
-----------------------------------------------------------------------------
\* LockSequenceDetector::observe(): a press of that age.
Observe(d, age) ==
    LET sinceLast == (d.last - age) % ClockPeriod
        sinceFirst == (d.first - age) % ClockPeriod
        alone == [count |-> 1, first |-> age, last |-> age]
        grown == [d EXCEPT !.last = age, !.count = @ + 1]
        Counted(next, status) ==
            IF next.count < RequiredPresses THEN [state |-> next, status |-> status]
            ELSE [state |-> DetectorReset, status |-> "remote_start_requested"]
    IN IF d.count = 0 THEN Counted(alone, "press_accepted")
       ELSE IF sinceLast < MinimumGap
            THEN [state |-> d, status |-> "rejected_timing"]
       ELSE IF sinceLast > MaximumGap \/ sinceFirst > MaximumSequence
            THEN Counted(alone, "sequence_restarted")
       ELSE Counted(grown, "press_accepted")

\* LockCommandGate::process(): the first check that fails, in their order.
\* Mutant: an evidence is accepted whatever its age.
GateRefusalWithoutAge(g, age, secured) ==
    IF g.clocked /\ g.now # 0 /\ ~StrictlyNewer(g.now, ClockPeriod)
    THEN "rejected_clock_regression"
    ELSE IF Trust # "verified" THEN "rejected_untrusted_source"
    ELSE IF ~secured THEN "rejected_vehicle_not_secured"
    ELSE IF IsFuture(age) THEN "rejected_future_evidence"
    ELSE IF ~g.evidenced THEN "none"
    ELSE IF ~StrictlyNewer(g.lag, SequencePeriod) THEN "rejected_sequence"
    ELSE IF ~NewerAge(age, g.seen) THEN "rejected_non_monotonic_evidence"
    ELSE "none"
GateRefusal(g, age, secured) ==
    IF g.clocked /\ g.now # 0 /\ ~StrictlyNewer(g.now, ClockPeriod)
    THEN "rejected_clock_regression"
    ELSE IF Trust # "verified" THEN "rejected_untrusted_source"
    ELSE IF ~secured THEN "rejected_vehicle_not_secured"
    ELSE IF IsFuture(age) THEN "rejected_future_evidence"
    ELSE IF age > MaximumEvidenceAge THEN "rejected_stale_evidence"
    ELSE IF ~g.evidenced THEN "none"
    ELSE IF ~StrictlyNewer(g.lag, SequencePeriod) THEN "rejected_sequence"
    ELSE IF ~NewerAge(age, g.seen) THEN "rejected_non_monotonic_evidence"
    ELSE "none"

\* A refusal clears the presses counted so far and keeps what the gate remembers;
\* only a clock regression leaves lastNowMs_ as it was.
Refused(g, d, reason) ==
    [gate |-> IF reason = "rejected_clock_regression" THEN g
              ELSE [g EXCEPT !.clocked = TRUE, !.now = 0],
     detector |-> DetectorReset, status |-> reason]

Process(g, d, age, secured) ==
    LET reason == GateRefusal(g, age, secured)
        observed == Observe(d, age)
    IN IF reason # "none" THEN Refused(g, d, reason)
       ELSE [gate |-> [clocked |-> TRUE, now |-> 0, evidenced |-> TRUE,
                       seen |-> age, lag |-> 0],
             detector |-> observed.state, status |-> observed.status]
-----------------------------------------------------------------------------
\* CanLockCommandPipeline::process(): a structural anomaly resets all three.
Pipeline(frame) ==
    LET status == Decode(adapter, frame)
        lagging == [gate EXCEPT !.lag = LagAfter(gate, frame, status)]
        processed == Process(lagging, detector, frame.delay, frame.secured)
        reset == RequiresGestureReset(status)
    IN [decoded |-> status,
        adapter |-> AdapterAfter(adapter, frame, status),
        gate |-> IF reset THEN GateReset
                 ELSE IF status = "evidence_produced" THEN processed.gate
                 ELSE lagging,
        detector |-> IF reset THEN DetectorReset
                     ELSE IF status = "evidence_produced" THEN processed.detector
                     ELSE detector,
        outcome |-> IF status = "evidence_produced" THEN processed.status ELSE status]

\* History: the presses that are sound, whatever the gate thinks of them.
Remembered(elapsed) ==
    IF outcome = "remote_start_requested" THEN {}
    ELSE {age \in {press + elapsed : press \in presses} : age <= Horizon}
IsSound(frame) ==
    /\ Trust = "verified" /\ frame.secured
    /\ frame.delay <= MaximumEvidenceAge
    /\ newest > frame.delay
PressesAfter(frame, decoded) ==
    IF RequiresGestureReset(decoded) THEN {}
    ELSE IF decoded # "evidence_produced" THEN Remembered(0)
    ELSE IF IsSound(frame) THEN Remembered(0) \cup {frame.delay}
    ELSE {}

\* Bound: the sequence does not run further ahead than MaximumLag.
Receive(frame) ==
    /\ gate.evidenced => gate.lag <= MaximumLag
    /\ LET r == Pipeline(frame)
       IN /\ adapter' = r.adapter
          /\ gate' = r.gate
          /\ detector' = r.detector
          /\ outcome' = r.outcome
          /\ presses' = PressesAfter(frame, r.decoded)
          /\ newest' = IF RequiresGestureReset(r.decoded) THEN Horizon
                       ELSE IF r.decoded = "evidence_produced" /\ IsSound(frame)
                            THEN frame.delay ELSE newest

\* Bound: neither a recognised frame nor an evidence is further than MaximumQuiet
\* in the past.
Tick ==
    /\ adapter.stamp < MaximumQuiet /\ gate.now < MaximumQuiet
    /\ adapter' = [adapter EXCEPT !.stamp = Grown(@, adapter.initialized)]
    /\ gate' = [gate EXCEPT !.now = Grown(@, gate.clocked),
                            !.seen = Grown(@, gate.evidenced)]
    /\ detector' = [detector EXCEPT !.first = Grown(@, detector.count # 0),
                                    !.last = Grown(@, detector.count # 0)]
    /\ presses' = Remembered(1)
    /\ newest' = IF newest < Horizon THEN newest + 1 ELSE newest
    /\ outcome' = "waiting"

ResetPipeline ==
    /\ adapter' = AdapterReset /\ gate' = GateReset /\ detector' = DetectorReset
    /\ outcome' = "reset" /\ presses' = {} /\ newest' = Horizon

GestureInit ==
    /\ adapter = AdapterReset /\ gate = GateReset /\ detector = DetectorReset
    /\ outcome = "reset" /\ presses = {} /\ newest = Horizon

GestureNext == Tick \/ ResetPipeline \/ \E frame \in CanFrames : Receive(frame)

GestureSpec == GestureInit /\ [][GestureNext]_gestureVars
-----------------------------------------------------------------------------
\* The gesture, from its first press to its last: spaced as configured and within
\* the longest sequence, in true time.
IsGesture(press) ==
    /\ \A n \in 1..(RequiredPresses - 1) :
          /\ press[n] > press[n + 1]
          /\ press[n] - press[n + 1] \in MinimumGap..MaximumGap
    /\ press[1] - press[RequiredPresses] <= MaximumSequence

\* A start is requested only on as many presses as configured, each of them
\* verified, secured, fresh and new, spaced as configured in true time, since the
\* last refusal and never counted twice; the last of them completes the gesture
\* (lock_command_gate.cpp, process; docs/lock-command-security.md).
RequestNeedsGesture ==
    outcome = "remote_start_requested" =>
        \E press \in [1..RequiredPresses -> presses] :
            /\ IsGesture(press)
            /\ \A age \in presses : press[RequiredPresses] <= age

\* The presses left, oldest first, when those too close to the one kept before are
\* ignored.
Debounced ==
    FoldLeft(LAMBDA kept, age :
                 IF age \notin presses \/ (kept # <<>> /\ Last(kept) - age < MinimumGap)
                 THEN kept ELSE Append(kept, age),
             <<>>, [n \in 1..(Horizon + 1) |-> Horizon + 1 - n])

\* The gesture the driver makes after a pause is recognised at its last press,
\* whatever bounces, foreign frames or refusals came before
\* (lock_sequence_detector.cpp, observe; docs/lock-command-security.md: a bounce
\* is not counted but keeps the presses already observed).
GestureIsRecognised ==
    /\ outcome \notin {"waiting", "ignored", "no_command", "primed", "reset"}
    /\ \A age \in presses : age <= MaximumSequence
    /\ Len(Debounced) = RequiredPresses
    /\ \A age \in presses : Last(Debounced) <= age
    /\ \A n \in 1..(RequiredPresses - 1) : Debounced[n] - Debounced[n + 1] <= MaximumGap
    => outcome = "remote_start_requested"
=============================================================================
