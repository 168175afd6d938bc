# A TLA+ model of the BMW E9x remote start controller

This directory holds TLA+ specifications of the core of the repository, the TLC
configurations that check them on small instances, and proofs checked by TLAPS
that hold for every value of the constants. Paths below are relative to the
root of the repository.

## 1. The system

The program decides whether a vehicle may be started remotely, runs the start
sequence, watches the running vehicle and hands it to its driver. It is a C++
core without threads or allocation of its own; a host (the sandbox of
`tools/sandbox_session.cpp` today, the firmware of `src/main.cpp` for settings
and CAN listening) feeds it events and time. A configurator on a computer edits
the settings in a file and writes them to the device over a serial line.

```
 CAN frames -> TWAI receiver -> assembler -> snapshot --+--> telemetry
 lock pulses -> CAN adapter -> gate -> detector         |
                                        | start request v
 timer, stop, takeover, reset ----> Controller -- decision --> Runtime
                                        ^                        |  ports
                 InfrastructureFailure  |                        v
                      +-----------------+---- actuator safety supervisor
                      |                              |            ^ heartbeat,
                   Runtime, host                actuator driver   | poll, reset
 file <- configurator -> client ~~ serial line ~~ stream -> endpoint -> service
                                                           -> settings store (two slots)
```

### Inventory

| Component | State it keeps | Operations | What is hard | What makes it correct |
|---|---|---|---|---|
| Actuator safety supervisor | latched fault, what is commanded, four clock readings, permission, feedback | `heartbeat`, `poll`, `resetFault`, five port calls | two tasks and the Runtime call it in any order; the clock wraps; every driver call may fail | outputs known or reported, starter over ignition, bounded durations, a fault left only when safe |
| Controller | `ControllerState`, `FaultCode` | one handler per event, returns an ordered list of actions | late expiries, entry of the driver, events in every state | every wait timed, fault code and state agree, the starter only while cranking |
| Runtime | none besides its ports | `dispatch`, `execute`, `executeSafing` | a port call fails in the middle of a decision | failure stops the decision, safing runs to its end |
| Safety policy | configuration only | four assessments of a snapshot | signals lost or stale, optional checks | losing a signal never approves; the four agree where the session passes from one to the next |
| Sandbox host loop | simulated time, timer, driver | service, propagation, rearming, verbs | the supervisor trips between two events | every fault reported |
| CAN acquisition (assembler, replay) | last sample of each signal | `consume`, `snapshot`, `reset` | batches, ages, order of frames | a batch is applied whole or not at all; fresh means recent |
| Diagnostic journal | ring of records | `observe`, `record*`, `read`, `clear` | overwriting, sequence, failures inside a decision | order and losses are exact; the records lead from state to state |
| Lock gesture (adapter, gate, detector) | clocks, sequence, press count | `process`, `observe`, `reset` | duplicated, delayed, reordered evidence; wrap | only a complete, fresh, ordered gesture requests a start |
| Settings storage | two slots with generation and CRC | `load`, `save` | crash during a write, generation wrap | a save is all or nothing |
| Settings link | partial frame, request identifiers | `consume`, `poll`, `handle`, client exchange | lost, late and damaged frames, restarts of either end | a verified write stays, a read is current, an intact frame is seen |
| Configurator and its file | three files, the step of a replacement | parse, write, replace, interactive edition | each call to the file system may fail, the process may be killed | the last accepted settings survive |
| TWAI receiver and queue | driver, task, queue, counters | `start`, `stop`, `tryReceive`, task | two tasks, stop that times out, full queue | counters account for every frame |
| Telemetry monitor | three previous conditions | `evaluate`, `reset` | hysteresis across lost signals, a monitor built again | an active condition was announced, and none without its cause |
| Profile readiness, feature catalogue, user settings | none | pure functions | combinations, narrowing, lists kept in two files | accepted settings are the settings used; ready means startable |
| Start observer | phase of the start observed | `observe` | gaps in the signals | passive |
| ESP-IDF adapters, tools, scripts | – | I/O, conversion | – | not modelled |

`PROJECT.json` gives, for each, its files and status, and lists the hazards by
line.

## 2. Modules

| Module | Models | Notes |
|---|---|---|
| `ActuatorSafetySupervisor` | `src/infrastructure/actuator_safety_supervisor.cpp` | one variable per member, one action per public operation; the parameter `ok` is the returned `bool` |
| `SupervisorTiming` | the same, under the periodic service of `tools/sandbox_session.cpp` | adds true durations to compare with what 32-bit arithmetic concludes |
| `SafetyPolicy` | `src/application/safety_policy.cpp` | operators; an assessment is the set of its reasons |
| `VehicleWatch` | a vehicle whose signals arrive and expire | extends `SafetyPolicy` |
| `Controller` | `src/application/controller.cpp` | one operator per handler and per private step; `actions` is the decision |
| `RemoteSession` | `src/infrastructure/runtime.cpp` with the controller, the supervisor, the timer and the host | composes `Controller` and `ActuatorSafetySupervisor` |
| `SettingsStore` | `src/infrastructure/settings_storage.cpp` over `esp_idf_settings.cpp` | two slots, one storage call per step, power cut between any two |
| `SettingsRegister` | what the store promises | abstract: a register; `SettingsStore` implements it (`ImplementsRegister`) |
| `SettingsLink` | `tools/settings_device_client.cpp`, `src/infrastructure/settings_protocol.cpp` | client and device over a line that loses, delays and damages frames; the store is the register |
| `SettingsStream` | `src/infrastructure/settings_stream.cpp` | bytes to frames, with silences |
| `UserSettingsFile` | `tools/user_settings_file.cpp`, interactive mode of `tools/settings_configurator.cpp` | extends `UserSettings` |
| `LockGesture` | `can_lock_command_adapter.cpp`, `lock_command_gate.cpp`, `lock_sequence_detector.cpp` | the three as the pipeline chains them; timestamps are ages |
| `TwaiReceiver` | `src/infrastructure/esp_idf_twai_receiver.cpp`, `bounded_spsc_queue.hpp` | owner and receive task interleaved at each access to what they share |
| `VehicleTrace` | `vehicle_state_assembler.cpp`, `can_trace_replay.cpp`, `replay_vehicle_gateway.cpp` | the decoder is an input |
| `UserSettings` | `user_settings.cpp`, `feature_catalog.cpp`, `profile_readiness.cpp` | operators, extends `SafetyPolicy` |
| `ConfigurationWatch` | settings and a profile being edited | state for the operators of `UserSettings` |
| `Telemetry` | `src/application/telemetry_monitor.cpp` and its owner in the sandbox | extends `UserSettings` |
| `DiagnosticJournal` | `src/infrastructure/diagnostic_journal.cpp`, fed by `runtime.cpp` | extends `Controller` |
| `ActuatorSafetySupervisorProofs`, `SupervisorTimingProofs`, `RemoteSessionProofs`, `VehicleWatchProofs`, `SettingsStoreProofs`, `SettingsLinkProofs`, `TwaiReceiverProofs` | – | theorems about the module of the same name; `VehicleWatchProofs` also about `DiagnosticJournal`, `SettingsLinkProofs` about `SettingsStream`, `TwaiReceiverProofs` about `LockGesture` |
| `UserSettingsProofs` | – | theorems about `ConfigurationWatch`, `UserSettingsFile` and `Telemetry` |
| `MC*` | – | values of the constants for TLC |

`MCSettings` and `MCVehicleInputs` put together several modules that share no
variable: they extend them, but for `VehicleTrace`, which no theorem is about and
which is instantiated. A constant variable `part` says which one moves, the others stay
in their initial state: the state space is the sum, not the product, of the
parts, and no behaviour of a part is lost, as nothing in the code couples them.

**Correspondence.** A C++ member function that succeeds or fails is one action,
with one disjunct per return path in the order of the code; a path's guard is
the negation of the earlier returns. `trip()`, `safeDownstream()` and
`observeClock()` are operators that the actions use, so that a trip is part of
the operation that trips. The Runtime is the exception: between two port calls
of one decision the supervision task may run, so `Execute` takes one action of
`actions` per step. `dispatch()` is guarded by `Ready`: the host dispatches one
event at a time. `safing` tells `executeSafing()`, which ignores failures, from
`execute()`, which stops at the first.

**Abstractions.** The vehicle's snapshot of an event is chosen among
`Snapshots`; the controller never remembers one. Stale and unavailable are both
"not fresh", as every use in the controller and the policy is `isFresh()`. The
profile's readiness, computed once in the constructor, is a Boolean of the
configuration. Durations of the controller's timer do not appear: any armed
timer may expire at any time. Notifications are one action without effect. The
journal written by the Runtime is left out of `RemoteSession` and modelled with
the controller alone in `DiagnosticJournal`, where a decision is executed, or
fails with a code that one of its actions can return, in one step.

Bytes, layouts and checksums appear as what they decide. A record of the store
is intact, torn or blank: a cut write leaves any of these in its slot. A frame of
the link is intact or damaged. `SettingsStream` keeps the bytes, with a magic of
two letters, since the search for it is what may lose a frame; its checksum
catches any damage. A line of the settings file is the field and the value it
gives.

**Environment.** `ignitionOutput` and `starterOutput` are the electrical outputs.
A driver call that returns `true` acted; one that returns `false` may have acted
or not, separately on each output. A port that fails may have acted too: a timer
whose `cancel()` failed may be stopped or running. With `LateTimerEvents`, an
expiry queued before `cancel()` is delivered all the same: `TimerPort` does not
exclude it. `taskExited_` is stored just before `vTaskDelete(nullptr)`, and `start()`
waits only for the former: a task created in between is given the stack and the
control block the old one is leaving. In `TwaiReceiver` it then runs, or the old task
has deleted it in its place and nothing receives any more; what else two tasks on
one stack may do is not modelled. The frames carry no copy of the warning flag:
`FlagFollowsController` speaks of the flag they are stamped with.

**Mutants.** An operator whose comment begins with "Mutant" is a plausible mistake
in the operator that follows it. It is used by no specification; each property
is shown to fail when the mutant takes the place of the real operator, which
is the evidence that the property depends on the code.

## 3. Runs

| Run | Bounds | What it shows |
|---|---|---|
| `supervisor` | clock of 4 readings, watchdog 1, starter 1, grace 0, feedback required or not, and an invalid configuration | `LiveOutputsAreCommanded`, `CommandsAreOrdered`, `SafingFailureIsLatched`, `FaultClearedOnlySafe` under any caller |
| `supervisor_timing` | clock of 4, watchdog 1, starter 2, grace 1, service period 1, silence up to 3 | `StarterTimeIsBounded`, `SilenceCutsOutputs`, `ActivationIsSupervised` |
| `vehicle_watch` | battery and rpm on both sides of each limit, 8 policies, at most 3 signals away from the safe vehicle | the four relations between the assessments |
| `remote_session` | clock of 3, six snapshots, takeover required, feedback required, late expiries, and an invalid configuration of the supervisor | four invariants and two action properties of a session |
| `session_liveness` | clock of 3, four snapshots, takeover required, feedback optional | `SessionEnds`, `SupervisorFaultIsReported` |
| `first_fault`, `heartbeat_wrap`, `reset_at_idle_speed` | as above; valid configurations only, silence up to 5, an engine at 300 rpm | the documented statements of section 5, which the code does not satisfy |
| `settings`, store | 3 settings, an invalid one, generations modulo 6 | `GenerationsAreAdjacent`, `SelectedRecordIsDurable`, `ImplementsRegister` with a cut, a failure or a decayed record at every step |
| `settings`, link | 2 settings, 4 request identifiers, 2 frames on their way in each direction | `VerifiedWriteStays`, `ReadIsCurrent` with losses, damage and restarts |
| `settings`, stream | payload of 0 or 1 byte, time-out of one tick, clock of 4 ticks | `FramesAreGenuine`, `IntactFrameIsDelivered`, `StreamTypeOK` |
| `settings`, file | three answers to the configurator, lines typed by hand, prefixes of 0, 8 and 15 lines | `LastSettingsSurvive` |
| `settings`, configuration | 3 fields or parts away from the defaults and the synthetic profile | `ValidSettingsAreUsed`, `ReadyMeansStartable` |
| `vehicle_inputs`, gesture | 3 presses, gaps 2 to 3, clock and sequence of 16, counter of 8, delays up to 2, presses remembered for 8 | `RequestNeedsGesture`, `GestureIsRecognised` |
| `vehicle_inputs`, receiver | queue of 2, 2 starts, 4 frames in the first session and 3 in the second | `ReceiverIsTrue`, `LossesAreVisible`, `StoppedTaskExits` |
| `vehicle_inputs`, trace | traces of up to 3 frames, 2 signals, half milliseconds | `SnapshotMatchesTrace` |
| `vehicle_inputs`, telemetry | readings on both sides of each limit, a hysteresis of 1, any signal lost | `AlertsAreTrue` |
| `vehicle_inputs`, journal | 3 records, sequences modulo 6, loss counter up to 2; the entry of the driver asks for a takeover, stops the engine, or remote starts are disabled | `JournalTellsTheSession`, `PeriodicUpdatesAreBounded` |
| `settings_file_failure`, `telemetry_hysteresis` | as above | the documented statements of section 5, which the code does not satisfy |

**Why the bounds are enough.** `StrictlyNewer` cuts the clock range in two, so 3
readings are the fewest with a forward step and 4 give a backward step, a
forward step and the half-range value at once. The timings are the shortest that
keep the limits apart. Service period 1 and watchdog 1 leave one unit in which the
watchdog is exactly reached and one in which it is passed. With silence up to 3
and a clock of 4, no heartbeat is aged by a full turn; `heartbeat_wrap` allows
it. An assessment's reasons are about one or two signals each, so three
deviations contain every interaction of two reasons with a third signal; the
theorems remove the bound. The controller compares rpm with one threshold and
looks at one signal per branch, so the six snapshots take every branch. The four of
`session_liveness` start, run, open the door, and refuse or stop the session, so
that every waiting state, the driver's takeover and his control are reached. With
`StopImmediately` the same door leads to `BeginStopping`, as a stop request does
here; `vehicle_inputs` takes that branch.

In the settings, generations modulo 6 contain a full turn with both signs of the
difference, and three settings tell the newest, the older and a third one
apart. Four identifiers and two frames per direction let a late frame meet every
exchange of a later call (a write and its verification are two); the bound
`IdsOnTheirWay` says that no frame stays on the line while 65535 other requests
are made. Two assumptions on the cable are part of the module: it powers the
device, so a restart of the device empties the line, and a client that
restarts opens the port again, which discards what it had not read; `clearInput()`
may find less than what was sent, as the code can only discard what has arrived.
The stream is polled once a tick after its bytes, as `serviceUsbSettings()` does;
without that, a fragment could outlive a silence of a whole clock period.

In the gesture, half a clock period is 8: the run keeps silences below it
(`MaximumQuiet`). Beyond it, 24.8 days, `strictlyNewer()` takes the new time
for a regression, refuses the evidence and does not refresh the time it
compares with, so that every press is refused until the other half has passed or
the pipeline is reset. The history of the presses keeps true ages up to `Horizon`,
longer than the longest sequence and the age of its last evidence; what is older
can be in no gesture. In the receiver, four frames fill the queue of two, overrun it
and get one through afterwards. The controller may cross its warning limit any number
of times between two reads of the alerts; two bits tell them all. A trace of three
frames has one before, one at and one after the time asked for, with one rejected. A
journal of three overwrites, wraps its sequence and
saturates its loss counter in a session of a few events. The updates of the vehicle
leave most records where the session goes furthest on them alone: a crank that
succeeds, an open door where that stops the engine, a stop, a decision that fails and
a safing that fails, nine in all, against 32 in the code.

**Fairness.** `FairSessionSpec` assumes that a dispatched decision is executed to
its end (`dispatch()` is a loop that calls nothing that blocks), that an armed
timer expires, and, with strong fairness, that an expiry or a supervisor fault
that keeps waiting is served: the sandbox propagates a fault before each event
it dispatches and a host delivers its timer although other events arrive.
Nothing is assumed of requests, of the vehicle, of heartbeats or of polls.
`SupervisorFaultIsReported` therefore allows the only other way out, a rearming.
The run uses a timer whose `cancel()` removes a queued expiry.
With one that does not, an expiry of `Authorizing` that arrives late in `Preparing`
cuts the preparation delay short: nothing in `handleTimer()` tells one expiry from
another. `ActivationsInOrder` holds all the same, as the order is kept, but no
property bounds that delay, since durations of the controller's timer are left out.

`TwaiReceiver` assumes weak fairness of the receive task only: the scheduler runs
it, and its wait for a frame ends after `receiveTimeoutMs`. The other modules need
no fairness, as they promise nothing that must eventually happen.

Deadlock is checked in all runs.

## 4. Proofs

`tlapm` proves, for every clock modulus of at least 2, every limit and every set of
configurations (`ClockAssumption`, `SupervisorConfigAssumption`):

- `SupervisorInvariant`: `SupervisorInv`, the conjunction of the type invariant,
  `LiveOutputsAreCommanded`, `CommandsAreOrdered` and `SafingFailureIsLatched`. None
  of the last three is inductive by itself: that a command is withdrawn when an
  output dies needs the other two. The argument follows the code:
  `SafeDownstreamSafes` says what `safeDownstream()` leaves, `TripStep` that an
  operation that trips and otherwise changes only its inputs keeps the invariant,
  then one lemma per public operation. `SupervisorTypeCorrect`, `OutputsAreKnown`,
  `CommandOrder` and `SafingFailureLatched` are its consequences.
- `FaultClearedSafely`: no operation but a successful `resetFault()` leaves a fault
  (`TripKeepsFaulted`, `CommandKeepsFaulted`, `SupervisionKeepsFaulted`), and that
  one leaves nothing live, commanded or remembered (`RearmIsSafe`).
- `CrankingIsABridge`, `StaleNeverApproves`, `DriverMayTakeOver`: the relations of
  `vehicle_watch` for any limits and any vehicle. Each assessment is first rewritten
  as the conjunction of what it checks (`AssessCommonEmpty` and the four lemmas
  after it); the theorems compare conjunctions. The type invariant of the vehicle
  serves only for the comparison of rpm with its threshold.
- `DisabledChecksHaveNoEffect`: a check that is disabled drops out of each
  conjunction (`DisabledConditions`).

These proofs never look inside `Elapsed`: the invariants hold whatever the clock
arithmetic concludes.

**Session** (`RemoteSessionProofs`), for any snapshots, configurations, clock and
late expiries or none. What the runs check is about the moments between two events;
it rests on what holds in the middle of a decision, while its actions are executed
one by one and the supervision task may trip between them.

- `SessionInvariant`: `SessionInv`. The actions still to come fit the state, the
  timer being armed last (`PlanFitsState`); what the state no longer allows to be
  commanded, or live, is about to be withdrawn (`CommandsAreHeld`,
  `LiveOutputsAreHeld`), the power-up that could not be safed excepted; a state that
  waits has its timer, or is about to arm it (`WaitsAreTimed`). The proof has three
  layers: one lemma per decision of the controller (`SoundDecision` says what a
  decision owes to the state it leaves and to the one it enters), one per operation
  of the supervisor (outputs only fall, but for the two that raise one of them), and
  `ExecuteStep`, which combines a pending action, its outcome and the supervisor.
- `SessionImplementsSupervisor`: every step of a session is one of `SupervisorSpec`
  or leaves the supervisor alone. Runtime, host and supervision task are thus among
  the callers that the supervisor's own theorems allow, and `SupervisorInv` is
  available inside `SessionInv`.
- `StarterOnlyToCrank`, `SafeAtRest`, `WaitsHaveTimers`, `RestHasNoTimer` follow
  from the invariant; `ActivationOrder` and `FaultStaysDead` need one more look at
  each step.

**Timing** (`SupervisorTimingProofs`), for any limits and service period, with a
clock whose range exceeds two service periods and the starter's limit plus one
(`ClockRangeAssumption`; the limits are seconds, the clock wraps after 49.7 days).

- `TimingInvariant`: `TimingInv` says what each difference of readings is worth. The
  last reading is at most one service period old (`ClockIsObserved`), so a limit
  checked by the last poll is exceeded by at most the time since that poll
  (`StarterIsMeasured`, `SilenceIsMeasured`), and no difference that is compared
  with a limit has wrapped. `ElapsedTriangle` and `ElapsedAfterTick` are the
  arithmetic.
- `StarterTimeBounded` and `ActivationSupervised` follow without further hypothesis.
  `SilenceBounded` assumes `SilenceNeverWraps`: the control task is never silent for
  a whole turn of the clock. The code does not promise the bound without it, as
  `heartbeat_wrap` shows.

**Receiver** (`TwaiReceiverProofs`), for a queue of any positive capacity
(`QueueHasStorage`, the `static_assert` of `bounded_spsc_queue.hpp:13`), any number
of sessions and of frames.

- `ReceiverInvariant`: `ReceiverInv` has two parts. `ControlInv` says which thread
  may do what: `running_` holds while the driver is started, `taskExited_` once the
  task is gone, and only then is its driver uninstalled. `FlowInv` says where each
  frame is: every counter tells what the others leave, each thread has made sure of
  the slot it is about to use, and the frame delivered as the n-th has a sequence of
  at least n and at most n plus the losses. The ring enters by two facts on `%`: an
  index selects a slot, and two waiting indexes select different ones.
- `ReceiverTellsTheTruth` and `LossesStayVisible` follow from it. The first states its
  two exceptions: a flag that is clear above the limit after a read that held both
  crossings, and a task that the one before it deleted.

**Link** (`SettingsLinkProofs`), for any settings, identifiers and length of the
line; no assumption on the constants.

- `LinkInvariant`: `LinkInv`. The module lets no identifier on the line be used
  again, from which a request that carries the identifier of the exchange is its own
  and the last one (`RequestIsLast`), and a response that does tells what became of
  it (`ResponseIsOwn`). Once a write is acknowledged no other write is on its way
  (`VerificationIsSettled`, `ResultIsSettled`): the line keeps its order, and what a
  restart of the device can bring back is what it holds.
- `VerifiedWriteRemains` and `ReadStaysCurrent` follow from it.

**Stream** (also in `SettingsLinkProofs`), for any time-out and any clock that
outlasts it (`ClockOutlastsTimeout`: the device waits 250 ms, its clock wraps after
49.7 days).

- `StreamInvariant`: `StreamInv`. `FramesAreGenuine` is not inductive, as it says
  nothing of a frame before its last byte. What the receiver holds is the beginning
  of a frame (`Partial`) and the end of what was heard in one piece (`EndsWith`); it
  was heard so lately that the wrapped clock measures the silence after it
  (`SilenceIsMeasured`). While an intact frame is being sent, what is held and what
  is still to come are the two parts of one frame (`Sent`): for that the search for
  the magic must reach its second letter whatever was held before.
- `StreamTypeCorrect`, `DeliveredFramesAreGenuine` and `IntactFramesAreDelivered`
  follow from it. The payload is of 0 or 1 byte and the magic of two letters, as in
  the module: these theorems do not speak of longer ones.

**Settings and telemetry** (`UserSettingsProofs`).

- `SettingsAreUsed`: no invariant is needed, `ValidSettingsAreUsed` holds of any
  value of any field. `Narrowing16` and `Narrowing8` say that the thresholds that
  are accepted fit the 16 and 8 bits they are narrowed to.
- `ReadinessIsSafety`: both readiness and the approval of the safety policy come to
  the same conjunction about the profile (`ReadyIsQualified`, `ApprovedIsVerified`),
  for every profile.
- `AlertsTellTheVehicle`: `MonitorInv`, for any threshold, hysteresis and readings
  (`TemperaturesAreNumbers`). What an alert tells is limited: an active feature was
  announced; one back to normal was too, unless its signals were lost in between,
  in which case its last alert still says that it is active. `MonitorInv` adds what a
  loss leaves behind (`LossesAreInterruptions`, `AlertWithoutActivity`). An evaluation
  preserves it whether it follows another one or a rebuild of the monitor
  (`EvaluationAnnounces`, `EvaluationEarns`).
- `SettingsSurviveASave`: `FileIInv`, for any answers, typed lines and points where a
  write is cut. To `LastSettingsSurvive` it adds what each step of a save relies on:
  after the comparison, that the temporary file holds the request until it is
  installed; between the two renames, that the last settings are in the backup.

**Gesture** (also in `TwaiReceiverProofs`), for any number of presses, gaps, ages,
counters and clock (`GestureAssumption`: every age in use is shorter than the clock,
silences than half of it, and the breaks of the sequence than half of its range).

- `GestureInvariant`: `GestureInv`. The detector compares wrapped ages: its invariant
  says that those it keeps are true ones (`GestureTypeOK`), and that there are sound
  presses, spaced in true time, of which it holds the number, the first and the last
  (`PressesAreCounted`). That no press is counted twice comes from adapter and gate
  (`LastPressIsKnown`): the adapter has heard a frame at least as recent as the last
  sound press, and the gate takes that press for no newer than the evidence it
  accepted last, even once the age of that evidence has wrapped.
- `StartNeedsGesture` follows from it. The presses of a gesture are a function from
  1 to their number, so no induction over them is needed.

**Journal** (also in `VehicleWatchProofs`), for any snapshots and configurations.

- `JournalInvariant`: `JournalInv`. Each state has a number of records that updates
  of the vehicle can still add from it (`LeftFrom`, `LeftByFailure` once a decision
  fails); with those already added they are at most nine. An update takes the session
  to a state from which fewer are left, by at least as many as it adds
  (`ObservedCounts` counts them).
- `PeriodicUpdatesAddFewRecords` follows from it. The bound comes from this proof:
  with a driver's entry that stops the engine, eight is not enough.

**Store.** For every set of settings and every width of the generation counter
(`StoreConstantsAssumption`, `HalfAssumption`), `SettingsStoreProofs` proves:

- `StoreInvariant`: `StoreInv`. `GenerationsAreAdjacent` alone is not inductive: a
  write keeps the generations next to each other only if it goes to the slot that is
  not selected, with the generation that follows the selected one, and a cut leaves
  in that slot at worst a torn record. `FlashAgrees` says so of the flash,
  `PendingIsNext` of the image to be stored, `StoredIsCurrent` of the verification
  that follows, `AsleepIsEmpty` of the time before `begin()`. The lemmas are about
  one image: `NextIsNewer` is the wrap, `TargetIsNotSelected`, `NextRecord` and
  `SavedRecord` what a save does to it, `InterruptedAgrees` what a cut leaves.
- `GenerationsStayAdjacent` and `SelectedRecordStays` follow from it.
- `JournalImplementsRegister`: with `current`, `held` and `fallback` defined from
  what `load()` would find in the image in memory, in the flash, and without one of
  their records, every step of the store is a step of `SettingsRegister` or a
  stutter (`JournalInit`, `JournalStep`).

**Only model-checked.** Liveness (`SessionEnds`, `SupervisorFaultIsReported`,
`StoppedTaskExits`) is out of the prover's reach. `JournalTellsTheSession`,
`SnapshotMatchesTrace` and `GestureIsRecognised` compare the code with a fold over
the records, the frames or the presses: what a fold computes for every input needs
an induction over data, which none of the provers can do.

## 5. Where the code and its documents disagree

1. `docs/actuator-safety-supervisor.md:29-31` says that a lost authorization, an old
   heartbeat, a forbidden sequence or an inconsistent feedback is remembered as the
   first fault; `secureOutputs()` and `resetFault()` overwrite it. In the run
   `first_fault`, an ignition asked for before any heartbeat trips `WatchdogExpired`,
   and a safing that fails replaces it with `SafingFailure`.
2. `docs/safety.md:50-51` requires a recent heartbeat before any activation;
   its age is taken modulo 2^32 and not watched while nothing is commanded, so
   after 49.7 days of a silent control task an old heartbeat counts as recent
   (run `heartbeat_wrap`).
3. `docs/safety.md:17` requires a zero engine speed to rearm; the code requires
   one below `runningRpmThreshold` (run `reset_at_idle_speed`).
4. `docs/configurator.md:90-92` says an existing configuration stays usable when
   its replacement fails; `saveUserSettingsFile()` stopped between its two renames,
   or unable to undo the first, leaves no file under the name that commands read
   (run `settings_file_failure`). Its content is never lost: it is in the `.bak`
   file (`LastSettingsSurvive`).
5. `docs/telemetry-alerts.md:43-44` keeps the overheat alert until 105 °C; an alert
   interrupted by a lost signal is forgotten, and a signal that comes back at 105
   to 109 °C is normal without a recovery alert (run `telemetry_hysteresis`). The
   sandbox never loses that signal, but the monitor accepts any snapshot, and those
   of the assembler become stale.
6. `docs/capture-format-v2.md:65` gives bit 2 of a frame's status as "controller above
   the warning threshold". `updateAlerts()` adds it for one alert, then removes it for
   the other, whichever crossing came last: a limit passed both ways before one read
   leaves the bit clear above it. No run is made of it: `FlagFollowsController`, a part
   of `ReceiverIsTrue`, says exactly that this is the one case in which the bit is
   wrong, and that it is never set below the limit.

## 6. Not modelled, and the plan

What could be added, in this order:

1. An abstract `StarterSafety` (granted, cranking, released) that `RemoteSession`
   implements, with the steps of the refinement proved from `SessionInv`.
2. `VehicleStartObserver`: the passive recognition of a start. It feeds no actuator
   and no decision, which is why it comes last.

Left out for good: the text verbs of the sandbox and the scripted scenarios of
`tools/vehicle_simulator.cpp`, which exercise components modelled here; the calls of the two
operating systems in `tools/serial_settings_channel.cpp`, beyond what they discard
and deliver; byte layouts and CRC arithmetic; the ESP-IDF wrappers of GPIO, time and
USB; the lookup of profiles and features by name and the tables of
`reference_profiles.cpp`, which are data; conversion of CAN traces between
formats; Python and KiCad tools.
