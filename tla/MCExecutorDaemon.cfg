SPECIFICATION FairSpec
CONSTANTS
    Requests <- SomeRequests
    Programs <- SomePrograms
    PipeSize = 2
CHECK_DEADLOCK FALSE
PROPERTIES
    AlwaysReports
