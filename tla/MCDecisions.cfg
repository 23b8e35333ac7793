SPECIFICATION Spec
CONSTANTS
    DayLength = 3
    WeekLength = 3
    SearchDays = 7
    Zones <- MCZones
    Intervals <- MCIntervals
    Weeklies <- MCWeeklies
    Starts <- MCStarts
    MaxCount = 4
    Days = {"mon", "sat"}
    WeekdayOf <- MCWeekdayOf
    Environments = {"prod", "test"}
    MaxConditions = 2
    Keys <- MCKeys
    Layers = {20, 40, 100}
    ProfileNames <- MCNames
    NoProfile = NoProfile
    RestingRequest <- AnyRequest
    RestingInquiry <- AnyInquiry
    RestingProfiles <- NoVariables
CHECK_DEADLOCK FALSE
INVARIANTS
    TypeOK
    PreviewIsComplete
    WallClockIsKept
    EligibleWhenAllPermit
    ResolutionIgnoresOrder
