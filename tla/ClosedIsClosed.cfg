SPECIFICATION ClientSpec
CONSTANTS
    Conn = {c1, c2}
    nullptr = nullptr
SYMMETRY Symmetry
INVARIANTS
    ClosedIsClosed
CHECK_DEADLOCK FALSE
