SPECIFICATION Spec
CONSTANTS
    Callers = {c1, c2}
    Limit = 2
    Window = 3
    MaxRetries = 2
    Quotes = {q1, q2}
    None = None
    MaxDelay = 2
    PacificaPause = 1
    MaxFails = 4
INVARIANTS
    TypeOK
    Overshoot
    SentBounded
    BackoffGrows
PROPERTIES
    Converges
    DelistedStops
