SPECIFICATION Spec
CONSTANTS
    Query = {q1, q2}
    Ping = Ping
    MaxData = 3
    MaxPills = 1
    Api = {"start", "abort", "abortAll", "connect", "disconnect"}
    Faults = {"connect", "init"}
SYMMETRY QuerySymmetry
INVARIANTS DisconnectDrains
PROPERTIES TakenInOrder
