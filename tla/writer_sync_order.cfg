\* Three synchronous messages, one of them longer than a run of continuous packets.
SPECIFICATION Spec
CONSTANTS
    a = a
    b = b
    c = c
    NoMsg = NoMsg
    Msgs = {a, b, c}
    Sync = {a, b, c}
    Request = {}
    Idempotent = {}
    Reusable = {}
    Size <- SizesLong
    MaxMultiplex = 3
    MaxResponseWait = 1
    MaxContinuous = 1
    BufSize = 8
    HeaderSize = 1
    MinFree = 4
    UniqueMod = 0
    MayCancel = {}
    CancelUnstarted = FALSE
    Compresses = FALSE
    SerializerFails = FALSE
    PollFails = FALSE
    MayStop = FALSE
INVARIANT SynchronousInOrder
