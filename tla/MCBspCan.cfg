SPECIFICATION FairSpec
CONSTANTS
    BusCount = 2
    MailboxCount = 1
    Ids = {id1}
    StepTimeout = 1
    RetryTime = 1
    StableTime = 1
    CommandTtl = 0
    AbortTimeout = 1
    MaxGap = 1
    MaxLag = 0
    AbortMayFail = TRUE
    id1 = id1
    id2 = id2
    id3 = id3
INVARIANTS
    OnlineWhenArmed
    NoOldCommand
    NothingAcrossInit
PROPERTIES
    HealthyAgain
