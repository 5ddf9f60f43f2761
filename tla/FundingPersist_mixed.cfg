SPECIFICATION Spec
CONSTANTS
    BTC = BTC
    kPEPE = kPEPE
    KPEPE = KPEPE
    Exchanges = {hyperliquid, aster}
    Spellings = {BTC, kPEPE, KPEPE}
    Upper <- MixedUpper
    MaxBatch = 3
    Faults = FALSE
    Writers = FALSE
INVARIANT
    AllPersisted
