CONSTANTS
    d1 = d1  d2 = d2
    Devices <- OneDevice
    Interval = 5
    Budget = 4
    Tries = 3
    BaseDelay = 1
    MaxDelay = 3
    MetricsTime = 1
SPECIFICATION FairSpec
INVARIANT FloorIsEnough
