SPECIFICATION Spec
CONSTANTS
    Clients = {c1, c2}
    Token = 3
    Capacity = 7
    Rate = 2
    TTL = 6
    MaxDelay = 2
    Outages = TRUE
    None = None
INVARIANT TypeOK
INVARIANT NeverOverdrawn
INVARIANT NeverShort
PROPERTY ImplementsIdeal
