SPECIFICATION Spec
CONSTANTS
    BusCount = 1
    MailboxCount = 2
    Ids = {id1, id2, id3}
    StepTimeout = 1
    RetryTime = 1
    StableTime = 1
    CommandTtl = 2
    AbortTimeout = 1
    MaxGap = 2
    MaxLag = 0
    AbortMayFail = FALSE
    id1 = id1
    id2 = id2
    id3 = id3
INVARIANTS
    NoStaleCommand
    DisarmedIsSilent
PROPERTIES
    PortSpec
