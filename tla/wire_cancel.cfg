\* A long message may be cancelled while it is being sent.
SPECIFICATION WireSpec
CONSTANTS
    a = a
    b = b
    c = c
    NoMsg = NoMsg
    Msgs = {a, b, c}
    Sync = {c}
    Request = {a}
    Idempotent = {}
    Reusable = {}
    Size <- SizesShortAndLong
    MaxMultiplex = 2
    MaxResponseWait = 1
    MaxContinuous = 2
    BufSize = 7
    HeaderSize = 1
    MinFree = 4
    UniqueMod = 0
    MayCancel = {b}
    CancelUnstarted = FALSE
    Compresses = FALSE
    SerializerFails = FALSE
    PollFails = FALSE
    MayStop = FALSE
    PointerSize = 2
    MaxInFlight = 2
    MayKeepAlive = FALSE
INVARIANTS
    Intact
