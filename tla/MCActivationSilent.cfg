SPECIFICATION Spec
CONSTANTS
    Activations = {a1, a2}
    Available = {a1, a2}
    Reconcilers = {q1, q2}
    Torn = Torn
    MaxMishaps = 0
CHECK_DEADLOCK FALSE
INVARIANTS
    NoSilentUnrecordedRun
