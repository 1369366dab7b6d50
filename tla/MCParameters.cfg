SPECIFICATION Spec
CONSTANTS
    Id = {1, 2, 3}
    IdRange = 8
    Symbol = {a, b}
    Number = {1, 10}
    Numeral = Numeral
    Empty = Empty
    NULL = NULL
    Type = {"f", "b"}
    MaxDepth = 3
SYMMETRY Symmetry
INVARIANTS
    TypeOK
    TreeInv
    ClientsInformed
    PathsResolve
    ListsFit
    UpdateLeadsBack
CHECK_DEADLOCK FALSE
