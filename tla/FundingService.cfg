\* The timers keep the order of the real ones (10 s, 120 s, 300 s): RecalcEvery
\* is at most StaleAfter and KeyTTL, and they at most PurgeInterval.
SPECIFICATION Spec
CONSTANTS
    Exchanges = {hyperliquid, aster}
    Tokens = {BTC}
    Aprs = {0}
    StaleAfter = 1
    AgeCap = 4
    Absent = Absent
    RecalcEveryN = 2
    RecalcEvery = 1
    PurgeInterval = 2
    KeyTTL = 2
    ReconnectDelay = 1
    MaxLatency = 1
    TakerFeePct = 0
    MinNetApr = 0
    MaxInbox = 1
    Malformed = Malformed
INVARIANTS
    TypeOK
    ViewsAgree
    AgeBounded
    RecalcGap
PROPERTIES
    SilentFeedWithdrawn
    OverwriteRepaired
