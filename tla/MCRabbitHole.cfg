SPECIFICATION FairRabbitSpec
CONSTANTS
    Conn = {c1, c2}
    nullptr = nullptr
    Intervals <- SomeIntervals
INVARIANTS
    RabbitTypeOK
    RetryPending
    OneTunnel
PROPERTIES
    NeverInterrupts
    ConnectsAgain
CHECK_DEADLOCK FALSE
