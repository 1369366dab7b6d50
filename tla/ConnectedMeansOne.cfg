SPECIFICATION ClientSpec
CONSTANTS
    Conn = {c1, c2}
    nullptr = nullptr
SYMMETRY Symmetry
INVARIANTS
    ConnectedMeansOne
CHECK_DEADLOCK FALSE
