SPECIFICATION FairSpec
CONSTANTS
    Query = {q1}
    MaxData = 1
    MaxPills = 1
    MaxDepth = 2
    Fields = {"onConnected", "onDisconnected"}
INVARIANT TypeOK
PROPERTIES ConnectionReportedInTheEnd DisconnectReported EverythingCollected
