\* Two long messages, keep-alives, and a short request that may be cancelled; the
\* failing connection replaces some of these constants (MCWires).
SPECIFICATION WiresSpec
CONSTANTS
    a = a
    b = b
    c = c
    NoMsg = NoMsg
    Msgs = {a, b, c}
    Sync = {c}
    Request = {b}
    Idempotent = {}
    Reusable = {}
    Size <- SizesShortAndLong
    MaxMultiplex = 2
    MaxResponseWait = 1
    MaxContinuous = 2
    BufSize = 7
    HeaderSize = 1
    MinFree = 4
    UniqueMod = 0
    MayCancel = {a}
    CancelUnstarted = FALSE
    Compresses = FALSE
    SerializerFails = FALSE
    PollFails = FALSE
    MayStop = FALSE
    PointerSize = 2
    MaxInFlight = 2
    MayKeepAlive = TRUE
INVARIANTS
    WorkingIntact
    WorkingInStep
    AstrayOnlyByLostNotice
PROPERTIES
    ImplementsChannel
