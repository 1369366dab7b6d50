SPECIFICATION ParamSpec
CONSTANTS
    Conn = {c1}
    MaxMessages = 0
    ListenArgs <- Args
INVARIANTS
    OutletShowsClients
CHECK_DEADLOCK FALSE
