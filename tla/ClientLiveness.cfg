CONSTANTS
    k1 = k1  k2 = k2
    c1 = c1  c2 = c2  c3 = c3  c4 = c4
    n1 = n1  n2 = n2
    None = None
    Keys <- OneKey
    Clients <- TwoClients
    Entries <- NameEntry
SPECIFICATION FairSpec
PROPERTIES
    DroppedIsClosed
    ShutdownFinishes
