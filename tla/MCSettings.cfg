SPECIFICATION SettingsSpec
CONSTANTS
    Settings = {s1, s2, s3}
    InvalidSettings = {bad}
    NoSettings = none
    Blank = blank
    Half = 3
    NothingStored = none
    LinkSettings = {s1, s2}
    MaxRequestId = 4
    LineLength = 2
    Timeout = 1
    ClockPeriod = 4
    Answers <- UserAnswers
    TypedLines <- UserLines
    Truncations = {0, 8, 15}
    SettingValues <- EditedValues
    MaxDeviations = 3
INVARIANTS
    GenerationsAreAdjacent
    SelectedRecordIsDurable
    VerifiedWriteStays
    StreamTypeOK
    FramesAreGenuine
    LastSettingsSurvive
    ValidSettingsAreUsed
    ReadyMeansStartable
PROPERTIES
    ImplementsRegister
    ReadIsCurrent
    IntactFrameIsDelivered
