SPECIFICATION Spec
CONSTANTS
    Workers = {w1, w2}
    Keys = {k1, k2}
    CacheTTL = 2
    MaxSubs = 2
    None = None
    Reordered = TRUE
    Failures = TRUE
SYMMETRY Symmetry
INVARIANT TypeOK
INVARIANT CacheSettles
INVARIANT EndedIsFree
