SPECIFICATION Spec
CONSTANTS
  Msgs = {a, b}
  NoMsg = NoMsg
  Delay = Delay
  Force = Force
  Sync = {a, b}
  Request = {}
  Idempotent = {}
  OneShot = {}
  Direct = {}
  Cancelable = {}
  MaxConns = 2
  MaxActive = 1
  MaxPending = 1
  MaxQueue = 3
  MaxMultiplex = 2
  MaxResponseWait = 1
  MaxAddrs = 1
  MayClose = {}
  Roles = {"client"}
  Faults = {"break"}
  Races = {}
INVARIANT SyncOrder
CHECK_DEADLOCK FALSE
