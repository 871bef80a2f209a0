SPECIFICATION Spec
CONSTANTS
    Query = {q1}
    Ping = Ping
    MaxData = 1
    MaxPills = 1
    Api = {"start", "abortAll", "disconnect"}
    Faults = {}
INVARIANTS AbortAllReturns
