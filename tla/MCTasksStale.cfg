SPECIFICATION Spec
CONSTANTS
    TaskIds = {t1}
    RevisionIds = {r1, r2}
    Editors = {e1, e2}
    Slugs = {s1}
    Names = {n1, n2}
    Contents = {c1, c2}
    None = None
    Begun = {}
    MaxVersion = 4
    MaxStarts = 1
CHECK_DEADLOCK FALSE
PROPERTIES
    StaleWritesFail
