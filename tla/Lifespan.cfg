SPECIFICATION Spec
CONSTANTS
    Names = {hyperliquid, aster}
    Loading = {aster}
    Connections = {w1, w2}
    Channels = {funding}
    Absent = Absent
INVARIANTS
    TypeOK
    StoppedForGood
    RedisOutlivesUsers
    RegisteredServed
PROPERTIES
    Revived
    ShutdownEnds
    ShutdownAdvances
    GoneUnregistered
