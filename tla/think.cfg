SPECIFICATION Spec
CONSTANTS
    Query = {q1}
    MaxData = 2
    MaxPills = 1
    MaxDepth = 3
    Fields = {"onConnected", "onDisconnected"}
INVARIANTS KeptAlive CallbackIsComing EndsOnce ReferencesSound
PROPERTY SecondCallbackIsNested
