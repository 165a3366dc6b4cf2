CONSTANTS
    Loops <- BothLoops
    Emeter = "emeter"
    ShutdownTimeout = 1
    DiscoveryInterval = 2
    CloseTime = 2
    MaxAge = 1
    Step = 2
    MaxSteps = 1
    MaxBoots = 1
    MaxStart = 2
SPECIFICATION Spec
INVARIANTS
    StoredOnlyWhenOpen
    WaitIsBounded
PROPERTIES
    HealthyIsHonest
    ShutdownEnds
