SPECIFICATION TimingSpec
CONSTANTS
    ClockModulus = 4
    MaximumWatchdogTimeoutMs = 2
    MaximumStarterActiveMs = 2
    MaximumFeedbackGraceMs = 1
    SupervisorConfigs <- MCSupervisorConfigs
    ServicePeriodMs = 1
    MaxSilenceMs = 3
INVARIANTS
    StarterTimeIsBounded
    SilenceCutsOutputs
PROPERTIES
    ActivationIsSupervised
