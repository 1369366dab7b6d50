SPECIFICATION FairParamSpec
CONSTANTS
    Conn = {c1, c2}
    MaxMessages = 0
    ListenArgs <- Args
INVARIANTS
    ParamTypeOK
PROPERTIES
    CountStaysExact
    DeletesAfterUnbind
    DeletionEnds
CHECK_DEADLOCK FALSE
