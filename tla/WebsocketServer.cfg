SPECIFICATION FairSpec
CONSTANTS
    Conn = {c1, c2}
    MaxMessages = 1
INVARIANTS
    TypeOK
    NoLostWakeup
    ChannelAgrees
    IInv
    CurrentWhenQuiet
PROPERTIES
    SessionSpec
    EveryPeerReported
    StartedStopReturns
CHECK_DEADLOCK FALSE
