SPECIFICATION FairParamSpec
CONSTANTS
    Conn = {c1}
    MaxMessages = 0
    ListenArgs <- Args
PROPERTIES
    ListenReturns
CHECK_DEADLOCK FALSE
