SPECIFICATION SessionSpec
CONSTANTS
    ClockModulus = 3
    MaximumWatchdogTimeoutMs = 2
    MaximumStarterActiveMs = 2
    MaximumFeedbackGraceMs = 1
    SupervisorConfigs <- MCAnySupervisorConfigs
    ControllerConfigs <- MCControllerConfigs
    Snapshots <- MCSnapshots
    DriverEntryModes = {"RequireTakeover"}
    RequireFeedback = TRUE
    LateTimerEvents = TRUE
INVARIANTS
    StarterOnlyWhileCranking
    RestIsSafe
    EveryWaitIsTimed
    NoTimerAtRest
PROPERTIES
    ActivationsInOrder
    FaultNeverEnergizes
