SPECIFICATION FairObjectsSpec
CONSTANTS
    Conn = {c1, c2}
    MaxMessages = 0
    ListenArgs <- Args
    ListenPorts <- Args
INVARIANTS
    ParamTypeOK
    WsTypes
    WsOutletCounts
PROPERTIES
    CountStaysExact
    DeletesAfterUnbind
    DeletionEnds
    ReachesAll
CHECK_DEADLOCK FALSE
