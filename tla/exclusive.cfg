SPECIFICATION Spec
CONSTANTS
    Query = {q1}
    Value = {v1}
    Stmt = {s1}
    MaxCalls = 4
    MaxFaults = 0
CHECK_DEADLOCK FALSE
PROPERTY ConnectionExclusive
