SPECIFICATION FairSpec
CONSTANTS
    Activations = {a1, a2, a3}
    Available = {a1, a2}
    Reconcilers = {q1, q2}
    Torn = Torn
    MaxMishaps = 2
CHECK_DEADLOCK FALSE
INVARIANTS
    TypeOK
    HistoryMatchesRuns
    
PROPERTIES
    
    JournalIsDrained
