\* Five components that share no state, one at a time.  The constants are those of the work
\* pool, two workers that take two jobs at a time, and of the scheduler, two clients that stop
\* two reactors one of them starts while two threads start objects, and of the timers, armed up
\* to two ticks ahead.
CONSTANTS
    Jobs = {"j1", "j2"}
    Threads = {"w1", "w2"}
    MaxThr = 2
    PopMax = 2
    Controllers = {1, 2}
    MaxPoolStarts = 2
    Overlap = FALSE
    Reactors = {1, 2}
    Clients = {1, 2}
    Starters = {1}
    Users = {"u1", "u2"}
    MaxStarts = 2
    MaxStops = 3
    Timers = {1, 2, 3}
    MaxTime = 2
    MaxSleep = 1
    ArmsPast = FALSE
SPECIFICATION WaitingSpec
INVARIANTS NoLostWakeup NextIsEarliest UsedIsNotJoined StoppedQuiet
PROPERTY Served
CHECK_DEADLOCK FALSE
