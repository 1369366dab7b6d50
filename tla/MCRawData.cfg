SPECIFICATION PacketsSpec
CONSTANTS
    Base = 8
    CharIsSigned = FALSE
    END = 4
    ESC = 5
    ESC_END = 6
    ESC_ESC = 7
    Symbol = Symbol
    Packets <- MCPackets
    Lists <- MCLists
    MaxSent = 2
    MaxLine = 10
    Command <- MCCommand
    Option <- MCOption
    TypeId <- MCTypeId
    AnyLanguage <- MCAny
    to_string <- MCto_string
    IdArgs <- MCIdArgs
    Label <- MCLabel
    IntArg <- MCInt
    FloatArg <- MCFloat
    StringArg <- MCString
    Given <- MCGiven
    MaxGathered = 2
INVARIANTS
    TypeOK
    Intact
    Arrives
    PacketsTypeOK
    SaysWhatWasMeant
    ListFits
PROPERTY
    LineSpec
CHECK_DEADLOCK FALSE
