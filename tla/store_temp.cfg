\* Temporary files asked for while pointers to other files are released.
CONSTANTS
  Clients = {k1, k2}
  Paths = {pa}
  NoFile = NoFile
  Temp = Temp
  MaxIndex = 3
  MaxRequests = 3
  Capacity = 4
  Sizes = {2}
  StoreCalls = {"open", "temp"}
  StoreRaces = {"again"}
INIT StoreInit
NEXT StoreNext
INVARIANT OneWriterOrReaders
CHECK_DEADLOCK FALSE
