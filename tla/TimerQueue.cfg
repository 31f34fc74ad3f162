SPECIFICATION Spec
CONSTANTS
    Threads = {t1, t2}
    Procs = {p1, p2}
    Sleepers = {p2}
    Alters = {p1}
    Nodes = {n1, n2}
    TimeRange = 10
    MaxDelay = 1
    MaxLate = 0
    NULL = NULL
INVARIANTS NodeNotReused QueueInOrder CountedOnce
PROPERTIES NotEarly LiveWakes
