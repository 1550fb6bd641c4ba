\* Every kind of message and everything that may happen to it; the instance with endless
\* traffic replaces some of these constants (MCWriters).
SPECIFICATION WritersSpec
CONSTANTS
    a = a
    b = b
    c = c
    d = d
    NoMsg = NoMsg
    Msgs = {a, b, c, d}
    Sync = {b, c}
    Request = {a, c}
    Idempotent = {d}
    Reusable = {}
    Size <- SizesEvents
    MaxMultiplex = 2
    MaxResponseWait = 1
    MaxContinuous = 2
    BufSize = 8
    HeaderSize = 1
    MinFree = 4
    UniqueMod = 0
    MayCancel = {a, b, c, d}
    CancelUnstarted = FALSE
    Compresses = FALSE
    SerializerFails = TRUE
    PollFails = TRUE
    MayStop = TRUE
INVARIANTS TypeOK ListsDisjoint SyncExclusive OnlyFrontContinues Accounted IdsNeverAlias PacketsFit
PROPERTIES NoneStarves StopCompletes
