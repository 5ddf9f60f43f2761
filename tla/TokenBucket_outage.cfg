SPECIFICATION Spec
CONSTANTS
    Clients = {c1}
    Token = 1
    Capacity = 2
    Rate = 1
    TTL = 2
    MaxDelay = 0
    Outages = TRUE
    None = None
INVARIANT OpenOnlyInOutage
