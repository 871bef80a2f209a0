SPECIFICATION Spec
CONSTANTS
    Query = {q1}
    Value = {v1}
    Stmt = {s1}
    MaxCalls = 2
    MaxFaults = 1
CHECK_DEADLOCK FALSE
INVARIANT AllStatementsFreed
