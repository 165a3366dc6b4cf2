CONSTANTS
    c1 = c1  c2 = c2  c3 = c3  auth = auth  poll = poll
    None = None
    Clients <- ThreeClients
    MaxTries = 2
    Callers <- TwoCallers
    Auth <- auth
    TTL = 2
SPECIFICATION Spec
INVARIANTS
    TypeOK
    ServedIsFresh
PROPERTIES
    ImplementsAttempt
    AttemptEnds
