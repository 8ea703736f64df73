SPECIFICATION FairCmdSpec
CONSTANTS
    BusCount = 1
    MailboxCount = 1
    Ids = {id1}
    StepTimeout = 1
    RetryTime = 1
    StableTime = 1
    CommandTtl = 1
    AbortTimeout = 1
    MaxGap = 1
    MaxLag = 0
    AbortMayFail = FALSE
    id1 = id1
    RemoteInputs <- MCRemoteInputs
    RemoteTimeout = 1
    NeutralTime = 1
    MaxHeard = 0
PROPERTIES
    NeutralArms
