SPECIFICATION EndingSpec
CONSTANTS
    Requests <- SomeRequests
    Programs <- SomePrograms
    PipeSize = 2
CHECK_DEADLOCK FALSE
INVARIANTS
    TypeOK
    ReportTellsWhatHappened
    OutputIsWholeOrMarked
PROPERTIES
    EveryRunIsReported
    TerminationReachesTheTree
