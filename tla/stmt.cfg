SPECIFICATION Spec
CONSTANTS
    Query = {q1, q2}
    Value = {v1}
    Stmt = {s1, s2}
    MaxCalls = 4
    MaxFaults = 2
CHECK_DEADLOCK FALSE
SYMMETRY Symmetry
INVARIANTS TypeOK ClosedOnce StatementsFreed AppliedAsGiven ErrorsAreReal
PROPERTIES ConnectionKept
