SPECIFICATION Spec
CONSTANTS
    Processes = {p1, p2, p3}
    Subjects = {s1}
    Leases = {2}
    Longest = 2
    NoOwner = NoOwner
    MaxClock = 4
    MaxToken = 3
SYMMETRY Symmetry
INVARIANTS
    TypeOK
    TokensAreUnique
    ClaimProtected
PROPERTIES
    OnlyCurrentClaimAdjusts
    ImplementsFencedLease
