SPECIFICATION WritersSpec
CONSTANTS
    BTC = BTC
    kPEPE = kPEPE
    KPEPE = KPEPE
    hyperliquid = hyperliquid
    aster = aster
    j1 = j1
    j2 = j2
    Exchanges = {hyperliquid, aster}
    Spellings = {BTC, kPEPE, KPEPE}
    Upper <- MixedUpper
    MaxBatch = 3
    Faults = TRUE
    Writers = TRUE
    Start = 2
    End = 6
    Chunk = 2
    PageSize = 2
    Jobs = {j1, j2}
    Assignments <- Assigned
    Listed <- BothListed
    Settlements = {2, 4, 6}
    ListedAt <- Listings
    BatchSize = 3
INVARIANTS
    WritersTypeOK
    CanonicalPersisted
    Complete
    CachedRowsExist
PROPERTIES
    WritersEnd
    BackfillsAdvance
