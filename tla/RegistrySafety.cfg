CONSTANTS
    a1 = a1  a2 = a2  n1 = n1  None = None
    Addrs <- TwoAddrs
    Listed <- SecondAddr
    Names <- OneName
    Meters <- OneAddr
    KeepMissing = FALSE
    Threshold = 2
    Grace = 1
    MaxEvents = 2
SPECIFICATION Spec
INVARIANTS
    TypeOK
    CollectedIsKnown
    RoutesAreDisjoint
PROPERTIES
    PrunedOnlyWhenQuiet
    ConfiguredStays
