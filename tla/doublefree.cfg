SPECIFICATION Spec
CONSTANTS
    Query = {}
    MaxData = 0
    MaxPills = 0
    MaxDepth = 1
    Fields = {"onDisconnected"}
INVARIANT ReferenceFreedOnce
