SPECIFICATION Spec
CONSTANTS
    ColdEngineMaximumRpm = 2200
    EngineWarmTemperature = 75
    TransmissionOverheatTemperature = 110
    TemperatureHysteresis = 5
    Runtime <- MCRuntime
    Readings <- MCReadings
    Lost = Lost
INVARIANT OverheatLastsDownToHysteresis
