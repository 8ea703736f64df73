SPECIFICATION AllSpec
CONSTANTS
    Parts = {"vendor"}
    SharingConf <- TwoMotors
    FaultyConf <- TwoBuses
    AlarmConf <- Alarms
    Dm = {dm1}
    Lk = {}
    Benmo = {}
    BenmoGroup <- OneGroup
    ControlMode <- Currents
    Overridden = {}
    Warmup = 2
    Cycles = 1
    dm1 = dm1
    lk1 = lk1
    bm1 = bm1
    bm2 = bm2
    NoMotor = NoMotor
INVARIANTS
    TorqueNeedsEnable
