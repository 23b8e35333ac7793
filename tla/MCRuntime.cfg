SPECIFICATION Spec
CONSTANTS
    Runners = {r1, r2}
    Keyed = {}
    Nobody = Nobody
    Results <- AllResults
    Policy <- TwoAttempts
    Lease = 1
    MaxClock = 2
    Mishaps <- Everything
SYMMETRY Symmetry
CHECK_DEADLOCK FALSE
INVARIANTS
    WorkUnderClaim
    OverlapExplained
    
    EveryLaunchIsRecorded
    SuccessIsEarned
    ReturnsWhatIsRecorded
PROPERTIES
    StateMovesLegally
