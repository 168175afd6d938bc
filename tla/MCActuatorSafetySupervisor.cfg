SPECIFICATION SupervisorSpec
CONSTANTS
    ClockModulus = 4
    MaximumWatchdogTimeoutMs = 2
    MaximumStarterActiveMs = 2
    MaximumFeedbackGraceMs = 1
    SupervisorConfigs <- MCSupervisorConfigs
INVARIANTS
    SupervisorTypeOK
    LiveOutputsAreCommanded
    CommandsAreOrdered
    SafingFailureIsLatched
PROPERTIES
    FaultClearedOnlySafe
