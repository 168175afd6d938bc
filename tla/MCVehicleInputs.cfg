SPECIFICATION InputsSpec
CONSTANTS
    RequiredPresses = 3
    MinimumGap = 2
    MaximumGap = 3
    MaximumSequence = 5
    MaximumEvidenceAge = 1
    Trust = "verified"
    CounterPeriod = 8
    ClockPeriod = 16
    SequencePeriod = 16
    Distances = {0, 4}
    MaximumDelay = 2
    MaximumQuiet = 7
    MaximumLag = 4
    Horizon = 8
    ColdEngineMaximumRpm = 2200
    EngineWarmTemperature = 75
    TransmissionOverheatTemperature = 110
    TemperatureHysteresis = 1
    Lost = Lost
    Runtime <- SandboxRuntime
    Readings <- SensorReadings
    MaximumAge <- MaximumAges
    Batches <- TraceBatches
    Capacity = 2
    MaxSessions = 2
    MaxSequence = 4
    MaximumRecords = 3
    SequenceModulus = 6
    MaximumOverwritten = 2
    Snapshots <- ReportedStates
    ControllerConfigs <- JournalConfigs
INVARIANTS
    RequestNeedsGesture
    GestureIsRecognised
    ReceiverIsTrue
    LossesAreVisible
    SnapshotMatchesTrace
    AlertsAreTrue
    JournalTellsTheSession
    PeriodicUpdatesAreBounded
PROPERTY
    StoppedTaskExits
