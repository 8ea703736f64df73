SPECIFICATION AllSpec
CONSTANTS
    Parts = {"feed", "yaw", "dial", "vision", "hold", "aim"}
    RouterConf <- Routers
    GimbalConf <- Gimbals
    Wheels = {wheel1, wheel2}
    Timeout = 2
    StallTime = 4
    ReverseTime = 2
    FeedSteps = 2
    WheelSteps = 2
    MaxGap = 3
    MaxDelay = 1
    wheel1 = wheel1
    wheel2 = wheel2
SYMMETRY WheelSymmetry
INVARIANTS
    FeedInv
    RouterInv
    GimbalInv
PROPERTIES
    FeedChanges
    RouterChanges
    GimbalChanges
