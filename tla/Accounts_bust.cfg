SPECIFICATION Spec
CONSTANTS
    Workers = {w1}
    Keys = {k1}
    CacheTTL = 1
    MaxSubs = 1
    None = None
    Reordered = FALSE
    Failures = FALSE
INVARIANT NewTierReflected
