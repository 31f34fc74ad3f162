SPECIFICATION FairSpec
CONSTANTS
    Threads = {t1, t2}
    First = t1
    Procs = {p, q}
    Timed = {p}
    Callers = {q}
    Movers = {q}
    Closers = {p, q}
    NULL = NULL
INVARIANT DeadlockIsReal
PROPERTY ExitsWhenDone
CHECK_DEADLOCK FALSE
