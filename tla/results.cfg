SPECIFICATION Spec
CONSTANTS
    Query = {q1, q2}
    Tx = {t1}
    MaxData = 3
    MaxResults = 2
    MaxFailed = 1
SYMMETRY QuerySymmetry
CHECK_DEADLOCK FALSE
INVARIANTS NotWrittenWhileShown OwnResults NoStaleTable RunningIsOutstanding WaitIsAnswered
PROPERTIES ImplementsLifecycle
