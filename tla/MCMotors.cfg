SPECIFICATION AllSpec
CONSTANTS
    Parts = {"vendor", "sharing", "faulty", "alarm"}
    SharingConf <- TwoMotors
    FaultyConf <- TwoBuses
    AlarmConf <- Alarms
    Dm = {dm1}
    Lk = {lk1}
    Benmo = {bm1, bm2}
    BenmoGroup <- OneGroup
    ControlMode <- Loops
    Overridden = {dm1}
    Warmup = 2
    Cycles = 1
    dm1 = dm1
    lk1 = lk1
    bm1 = bm1
    bm2 = bm2
    NoMotor = NoMotor
INVARIANTS
    VendorInv
    ManagerInv
    AlarmInv
PROPERTIES
    ManagerUsesPort
