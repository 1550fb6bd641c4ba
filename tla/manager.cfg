\* Two threads stop services and the manager; what is stopped may be started.
CONSTANTS
    Services = {s1, s2}
    Objects = {a, b}
    Threads = {t1, t2}
    None = None
    ChunkSize = 2
    MaxStops = 2
    StartAnytime = FALSE
    Reuse = {}
SPECIFICATION Spec
SYMMETRY Symmetry
INVARIANTS IdsAreUnique StoppedIsEmpty NoLostWakeup
CHECK_DEADLOCK FALSE
