CONSTANTS
    a1 = a1  a2 = a2  n1 = n1  None = None
    Addrs <- TwoAddrs
    Listed <- NoAddr
    Names <- OneName
    Meters <- NoAddr
    KeepMissing = FALSE
    Threshold = 2
    Grace = 1
    MaxEvents = 2
SPECIFICATION FairSpec
PROPERTIES
    RememberedIsReclaimed
    NameIsFollowed
