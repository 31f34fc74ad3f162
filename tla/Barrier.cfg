SPECIFICATION FairSpec
CONSTANTS
    Threads = {t1, t2}
    Procs = {p1, p2, p3}
    NULL = NULL
INVARIANTS CountIsAbsent NobodyPassesEarly NobodyLost
PROPERTY EveryoneReleased
CHECK_DEADLOCK FALSE
