SPECIFICATION Spec
CONSTANTS
    Exchanges = {hyperliquid, aster, extended}
    Tokens = {BTC}
    Aprs = {0, 9}
    StaleAfter = 1
    AgeCap = 5
    Absent = Absent
    RecalcEveryN = 2
    RecalcEvery = 2
    PurgeInterval = 3
    KeyTTL = 2
    ReconnectDelay = 1
    MaxLatency = 1
    TakerFeePct = 1
    MinNetApr = 0
    MaxInbox = 1
    Malformed = Malformed
INVARIANT
    OnlyLiveLegs
