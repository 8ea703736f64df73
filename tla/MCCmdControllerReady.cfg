SPECIFICATION CmdSpec
CONSTANTS
    BusCount = 1
    MailboxCount = 1
    Ids = {id1}
    StepTimeout = 1
    RetryTime = 1
    StableTime = 2
    CommandTtl = 1
    AbortTimeout = 1
    MaxGap = 2
    MaxLag = 1
    AbortMayFail = FALSE
    id1 = id1
    RemoteInputs <- MCRemoteInputs
    RemoteTimeout = 1
    NeutralTime = 2
    MaxHeard = 0
INVARIANTS
    ReadyMeansStable
