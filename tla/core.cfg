SPECIFICATION Spec
CONSTANTS
    Query = {q1, q2}
    Ping = Ping
    MaxData = 2
    MaxPills = 2
    Api = {"start", "wait", "swapWait", "ping", "abort", "abortAll", "connect", "connectWait", "disconnect", "disconnectWait", "destroy"}
    Faults = {"connect"}
SYMMETRY QuerySymmetry
INVARIANTS TypeOK NoQueryForgotten WaiterIsKnown NoMutualWait
PROPERTIES ImplementsLifecycle WaitSeesConnection
