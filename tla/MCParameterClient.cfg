SPECIFICATION FairClientSpec
CONSTANTS
    Conn = {c1, c2}
    nullptr = nullptr
INVARIANTS
    ClientTypeOK
    OneConnection
    OneMeansConnected
PROPERTIES
    OthersSilent
    ReportsInOrder
    DeletionEnds
    CloseIsShown
CHECK_DEADLOCK FALSE
