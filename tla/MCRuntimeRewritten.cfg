SPECIFICATION Spec
CONSTANTS
    Runners = {r1, r2}
    Keyed = {}
    Nobody = Nobody
    Results <- FewResults
    Policy <- OneAttempt
    Lease = 1
    MaxClock = 0
    Mishaps <- Lost
CHECK_DEADLOCK FALSE
PROPERTIES
    TerminalIsImmutable
