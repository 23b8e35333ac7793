SPECIFICATION Spec
CONSTANTS
    TaskIds = {t1}
    RevisionIds = {r1, r2}
    Editors = {e1, e2}
    Slugs = {s1}
    Names = {n1}
    Contents = {c1, c2}
    None = None
    Begun <- Withdrawn
    MaxVersion = 3
    MaxStarts = 1
SYMMETRY Symmetry
CHECK_DEADLOCK FALSE
INVARIANTS
    TypeOK
    NumbersAreConsecutive
    HistoryKeepsItsMeaning
PROPERTIES
    EditsBuildOnTheLatest
