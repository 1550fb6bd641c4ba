\* Three messages and two connections; the instance that stops replaces some of
\* these constants (MCPool).
SPECIFICATION PoolSpec
CONSTANTS
  a = a
  b = b
  d = d
  Msgs = {a, b, d}
  NoMsg = NoMsg
  Delay = Delay
  Force = Force
  Sync = {a}
  Request = {b}
  Idempotent = {b}
  OneShot = {b}
  Direct = {d}
  Cancelable = {a, d}
  MaxConns = 2
  MaxActive = 1
  MaxPending = 1
  MaxQueue = 3
  MaxMultiplex = 2
  MaxResponseWait = 1
  MaxAddrs = 1
  MayClose = {Force}
  Roles = {"client", "server"}
  Faults = {"resolve", "connect", "break", "kill", "stop", "receive"}
  Races = {}
INVARIANTS MessageInOnePlace ConnectionsCounted SlotsOnce ClientsWaitOrPoll BegunOnce NoAssertFails
PROPERTY StopEmpties
CHECK_DEADLOCK FALSE
