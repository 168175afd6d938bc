-------------------------------- MODULE VehicleTrace --------------------------------
(* ReplayVehicleGateway: a recorded trace (CanTraceReplay) is replayed into a  *)
(* VehicleStateAssembler, and its owner moves the time, requests the state,    *)
(* reads the snapshot and resets.                                              *)
(*                                                                             *)
(*   trace    frames_, chosen once.  A frame has a time in units of which      *)
(*            UnitsPerMs make a millisecond, and what the decoder makes of it  *)
(*   replay   cursor_ of CanTraceReplay                                        *)
(*   stored   the StoredSignal of each signal; the statistics are left out     *)
(*   gateway  elapsedMs_, timeIsValid_, status of lastBatch_                   *)
(*   asked    latest time of a request since the reset, -1 if none (history)   *)
(*   call     the last operation, whether it returned true, and whether the    *)
(*            time ever went back since the reset (history)                    *)
EXTENDS Integers, Sequences, SequencesExt, FiniteSetsExt

CONSTANTS UnitsPerMs,     \* 1000 microseconds
          MaximumAge,     \* SignalFreshnessConfig: signal -> maximum age
          Batches,        \* bound: the sequences of <<signal, in range>> decoded
          FrameTimes,     \* bound: times of the frames, in units
          MaxFrames,      \* bound: length of a trace
          MaxElapsed      \* bound: largest elapsed time, in milliseconds

VARIABLES trace, replay, stored, gateway, asked, call
traceVars == <<trace, replay, stored, gateway, asked, call>>

Signals == DOMAIN MaximumAge
\* What CanFrameDecoder::decode() answers, and the batch that goes with it.
FrameKinds ==
    [result : {"ignored", "invalid"}, batch : {<<>>}]
        \cup [result : {"decoded"}, batch : Batches]
Frames == [time : FrameTimes, valid : BOOLEAN, decoded : FrameKinds]
TraceFrames ==
    {f \in Frames : f.valid \/ f.decoded.result = "ignored"}

NotObserved == [value |-> 0, at |-> 0, observed |-> FALSE]
\* A value is recognised by the place in the trace it comes from.
Observation(n, ms) == [value |-> n, at |-> ms, observed |-> TRUE]
-----------------------------------------------------------------------------
\* VehicleStateAssembler::validateBatch(): each value in its range, no signal
\* twice.
\* Mutant: the last signal of the batch escapes the check.
ValidateFrontOfBatch(batch) ==
    \A n \in DOMAIN batch :
        n < Len(batch) \/ n = 1 =>
            batch[n].inRange /\ \A k \in 1..(n - 1) : batch[k].signal # batch[n].signal
ValidateBatch(batch) ==
    \A n \in DOMAIN batch :
        batch[n].inRange /\ \A k \in 1..(n - 1) : batch[k].signal # batch[n].signal

\* consume(): whether the frame is accepted.
Accepted(frame) ==
    /\ frame.valid
    /\ \/ frame.decoded.result = "ignored"
       \/ /\ frame.decoded.result = "decoded" /\ frame.decoded.batch # <<>>
          /\ ValidateBatch(frame.decoded.batch)

Carried(frame) == {frame.decoded.batch[n].signal : n \in DOMAIN frame.decoded.batch}
\* applyBatch() of an accepted frame, the nth of the trace.
Apply(signals, frame, n) ==
    [s \in Signals |-> IF s \in Carried(frame)
                       THEN Observation(n, frame.time \div UnitsPerMs) ELSE signals[s]]

\* snapshot(): what observe() answers for each signal.
Quality(signal, s, nowMs) ==
    IF ~signal.observed THEN "unavailable"
    ELSE IF nowMs - signal.at <= MaximumAge[s] THEN "fresh" ELSE "stale"
Snapshot ==
    [s \in Signals |-> [value |-> stored[s].value,
                        quality |-> Quality(stored[s], s, gateway.elapsed)]]
-----------------------------------------------------------------------------
\* CanTraceReplay::validate().
TraceIsValid ==
    /\ \A n \in DOMAIN trace : trace[n].valid
    /\ \A n \in 2..Len(trace) : trace[n].time >= trace[n - 1].time

\* advanceTo(): the frames that are due, up to the first that is rejected.
FramesDue(elapsedMs) ==
    CHOOSE last \in replay..Len(trace) :
        /\ \A n \in (replay + 1)..last :
              trace[n].time <= elapsedMs * UnitsPerMs /\ Accepted(trace[n])
        /\ \/ last = Len(trace)
           \/ trace[last + 1].time > elapsedMs * UnitsPerMs
           \/ ~Accepted(trace[last + 1])
StatusAt(last, elapsedMs) ==
    IF last = Len(trace) THEN "complete"
    ELSE IF trace[last + 1].time > elapsedMs * UnitsPerMs THEN "ready"
    ELSE "consumer_rejected"

InitialStatus == IF TraceIsValid THEN "ready" ELSE "invalid_trace"
-----------------------------------------------------------------------------
Constructor == [name |-> "reset", answer |-> TRUE, regressed |-> FALSE]
Returns(name, answer) == call' = [call EXCEPT !.name = name, !.answer = answer]

RequestRefused ==
    /\ ~gateway.timeIsValid
    /\ gateway' = [gateway EXCEPT !.status = "non_monotonic_time"]
    /\ Returns("request", FALSE)
    /\ UNCHANGED <<trace, replay, stored, asked>>
RequestOfInvalidTrace ==
    /\ gateway.timeIsValid /\ ~TraceIsValid
    /\ gateway' = [gateway EXCEPT !.status = "invalid_trace"]
    /\ Returns("request", FALSE)
    /\ UNCHANGED <<trace, replay, stored, asked>>
RequestState ==
    /\ gateway.timeIsValid /\ TraceIsValid
    /\ LET last == FramesDue(gateway.elapsed)
           status == StatusAt(last, gateway.elapsed)
       IN /\ replay' = last
          /\ stored' = FoldLeft(LAMBDA signals, n : Apply(signals, trace[n], n),
                                stored, [k \in 1..(last - replay) |-> replay + k])
          /\ gateway' = [gateway EXCEPT !.status = status]
          /\ Returns("request", status # "consumer_rejected")
    /\ asked' = gateway.elapsed
    /\ UNCHANGED trace

\* setElapsedTime().
TimeAdvances(elapsedMs) ==
    /\ elapsedMs >= gateway.elapsed
    /\ gateway' = [gateway EXCEPT !.elapsed = elapsedMs]
    /\ Returns("time", TRUE)
    /\ UNCHANGED <<trace, replay, stored, asked>>
TimeRegresses(elapsedMs) ==
    /\ elapsedMs < gateway.elapsed
    /\ gateway' = [gateway EXCEPT !.timeIsValid = FALSE, !.status = "non_monotonic_time"]
    /\ call' = [name |-> "time", answer |-> FALSE, regressed |-> TRUE]
    /\ UNCHANGED <<trace, replay, stored, asked>>

Reset ==
    /\ replay' = 0
    /\ stored' = [s \in Signals |-> NotObserved]
    /\ gateway' = [elapsed |-> 0, timeIsValid |-> TRUE, status |-> InitialStatus]
    /\ asked' = -1
    /\ call' = Constructor
    /\ UNCHANGED trace

\* The gateway of a trace, as constructed.
Constructed ==
    /\ replay = 0
    /\ stored = [s \in Signals |-> NotObserved]
    /\ gateway = [elapsed |-> 0, timeIsValid |-> TRUE, status |-> InitialStatus]
    /\ asked = -1
    /\ call = Constructor
Init == trace \in BoundedSeq(TraceFrames, MaxFrames) /\ Constructed

Next ==
    \/ RequestRefused \/ RequestOfInvalidTrace \/ RequestState \/ Reset
    \/ \E elapsedMs \in 0..MaxElapsed : TimeAdvances(elapsedMs) \/ TimeRegresses(elapsedMs)

Spec == Init /\ [][Next]_traceVars
-----------------------------------------------------------------------------
\* The frames a single request at the latest time asked would have accepted: due
\* by then, and with every frame before them acceptable.
Sound(frame) ==
    \/ frame.decoded.result = "ignored"
    \/ /\ frame.decoded.result = "decoded" /\ frame.decoded.batch # <<>>
       /\ \A n \in DOMAIN frame.decoded.batch : frame.decoded.batch[n].inRange
       /\ IsInjective([n \in DOMAIN frame.decoded.batch |-> frame.decoded.batch[n].signal])
Seen ==
    IF TraceIsValid
    THEN {n \in DOMAIN trace : trace[n].time <= asked * UnitsPerMs
                               /\ \A k \in 1..n : Sound(trace[k])}
    ELSE {}

\* What the vehicle is said to be depends on the trace, on the latest time asked
\* and on the time of the snapshot, never on how many requests led there: for
\* each signal, the last frame that carries it, fresh up to its age to the
\* millisecond; a frame that is rejected, and those after it, leave no trace.  A
\* request that succeeds missed no frame that was due, and no time went back
\* before it (vehicle_state_assembler.cpp, consume and snapshot;
\* can_trace_replay.cpp, advanceTo; replay_vehicle_gateway.cpp, requestState;
\* docs/architecture.md: a batch is applied as a whole or not at all).
SnapshotMatchesTrace ==
    /\ \A s \in Signals :
         LET carriers == {n \in Seen : s \in Carried(trace[n])}
             latest == Max(carriers)
         IN Snapshot[s] =
              IF carriers = {} THEN [value |-> 0, quality |-> "unavailable"]
              ELSE [value |-> latest,
                    quality |-> IF gateway.elapsed
                                    <= trace[latest].time \div UnitsPerMs + MaximumAge[s]
                                THEN "fresh" ELSE "stale"]
    /\ call.name = "request" /\ call.answer =>
         /\ ~call.regressed
         /\ {n \in DOMAIN trace : trace[n].time <= gateway.elapsed * UnitsPerMs} = Seen
=============================================================================
