SPECIFICATION FairSpec
CONSTANTS
    e1 = e1
    e2 = e2
    e3 = e3
    Event <- MCEvent
    Size <- MCSize
    Invalid <- MCInvalid
    MaxSize = 2
    MaxRetries = 2
    MaxInserts = 3
    BatchSize = 3
    MaxBytes = 2
    PartialAcks = FALSE
    MaxFaults = 1
INVARIANTS
    NoFalseAck
    CapacityBound
    QuarantineHasCause
PROPERTIES
    ImplementsOutbox
    EventuallySettled
CHECK_DEADLOCK FALSE
