SPECIFICATION FairSessionSpec
CONSTANTS
    ClockModulus = 3
    MaximumWatchdogTimeoutMs = 2
    MaximumStarterActiveMs = 2
    MaximumFeedbackGraceMs = 1
    SupervisorConfigs <- MCSupervisorConfigs
    ControllerConfigs <- MCStartingConfigs
    Snapshots <- MCFewSnapshots
    DriverEntryModes = {"RequireTakeover"}
    RequireFeedback = FALSE
    LateTimerEvents = FALSE
PROPERTIES
    SessionEnds
    SupervisorFaultIsReported
