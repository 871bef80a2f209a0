SPECIFICATION FairSpec
CONSTANTS
    Query = {q1}
    Ping = Ping
    MaxData = 2
    MaxPills = 1
    Api = {"start", "swapWait", "ping", "abort", "abortAll", "connect", "connectWait", "disconnect", "disconnectWait", "destroy"}
    Faults = {"connect"}
INVARIANTS SwappedIsNext
PROPERTIES CallsReturn QueriesEnd
