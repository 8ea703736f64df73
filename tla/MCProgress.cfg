SPECIFICATION AllSpec
CONSTANTS
    Parts = {"monitor", "feed", "hold", "manager", "alarm", "flood", "line"}
    LineErrors = 0
    Size = 4
    MaxPublished = 3
    wheel1 = wheel1
    NoMotor = NoMotor
CONSTRAINT Bounded
PROPERTIES
    RegisterSpec
    JamIsGivenUp
    AlignsAgain
    SilenceStops
    NamedAgain
    FloodServed
    KeepsUp
