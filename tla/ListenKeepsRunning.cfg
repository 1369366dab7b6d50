SPECIFICATION ParamSpec
CONSTANTS
    Conn = {c1}
    MaxMessages = 0
    ListenArgs <- Args
PROPERTIES
    ListenKeepsRunning
CHECK_DEADLOCK FALSE
