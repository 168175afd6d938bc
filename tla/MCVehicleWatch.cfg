SPECIFICATION WatchSpec
CONSTANTS
    PolicyConfigs <- MCPolicyConfigs
    BatteryLevels = {11799, 11800, 12500}
    RpmLevels = {0, 499, 500}
    GearPositions = {"Park", "Neutral", "Drive"}
    MaxDeviations = 3
INVARIANTS
    CrankingBridgesStartAndRun
PROPERTIES
    LostSignalNeverApproves
    EntryKeepsTakeover
    DisabledChecksAreIgnored
