SPECIFICATION FairSpec
CONSTANTS
    Runners = {r1, r2, r3}
    Keyed = {r1, r2}
    Nobody = Nobody
    Results <- FewResults
    Policy <- OneAttempt
    Lease = 1
    MaxClock = 1
    Mishaps <- OneFault
CHECK_DEADLOCK FALSE
INVARIANTS
    TypeOK
    AtMostOneRunPerKey
PROPERTIES
    TerminalIsImmutable
    EveryExecutionFinishes
