SPECIFICATION FairSpec
CONSTANTS
    Tx = {t1, t2}
    Plain = {p1}
    Length = 2
    AutoReconnect = TRUE
    Faults = {"lost", "error", "answer", "reconnect", "exception"}
CHECK_DEADLOCK FALSE
INVARIANTS TypeInvariant SessionClean AllOrNothing EffectAsReported AtMostTwice MembersReported PlainResults
PROPERTIES RunEnds
