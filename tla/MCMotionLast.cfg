SPECIFICATION AllSpec
CONSTANTS
    Parts = {"calibration"}
    SentryConf <- Sentries
    OmniConf <- Omnis
    CalibrationConf <- Calibrations
    LineConf <- OneLine
    PassConf <- OnePass
    Omni = TRUE
    Count = 3
    Motors = {d1, d2, d3, g1}
    DriveMotors = {d1, d2, d3}
    Timeout = 2
    MaxGap = 1
    MaxDelay = 1
    d1 = d1
    d2 = d2
    d3 = d3
    g1 = g1
INVARIANTS
    LastAttemptIsWhole
CHECK_DEADLOCK FALSE
