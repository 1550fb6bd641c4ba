\* Nine components that share no state, one at a time.
CONSTANTS
    Messages <- MCMessages
    RegisteredTypes <- MCTypes
    BufLens = {1, 6}
    MinStream = 4
    MaxChunk = 4
    MaxMessages = 2
    MaxPipe = 1
    SerRaces = {}
    Nodes = {1, 2, 3}
    Lists = {l1, l2}
    RecvCapacity = 4
    StreamLength = 7
    BufferRaces = {}
    RecvBuf = 2
    SendBuf = 2
    RecvCap = 1
    SendLen = 3
    MaxRecord = 3
    MaxArrivals = 2
    MaxStreamCalls = 2
SPECIFICATION Spec
INVARIANTS EventsInOrder NoLostWakeup AnsweredOnce OneWriterOrReaders OpensItsPath BufferHolds RoomLeft RoundTrip StacksEmpty
PROPERTIES ImplementsSeqs IdleStays DatagramsTaken
CHECK_DEADLOCK FALSE
