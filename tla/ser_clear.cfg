SPECIFICATION SerializerSpec
CONSTANTS
    Messages <- MCMessages
    RegisteredTypes <- MCTypes
    BufLens = {1, 2, 4, 7}
    MinStream = 4
    MaxChunk = 4
    MaxMessages = 2
    MaxPipe = 2
    SerRaces = {"context"}
INVARIANTS StacksEmpty
CHECK_DEADLOCK FALSE
