SPECIFICATION SessionSpec
CONSTANTS
    ClockModulus = 3
    MaximumWatchdogTimeoutMs = 2
    MaximumStarterActiveMs = 2
    MaximumFeedbackGraceMs = 1
    SupervisorConfigs <- MCSupervisorConfigs
    ControllerConfigs <- MCStartingConfigs
    Snapshots <- MCSlowSnapshots
    DriverEntryModes = {"RequireTakeover"}
    RequireFeedback = TRUE
    LateTimerEvents = TRUE
PROPERTIES
    ResetNeedsZeroRpm
