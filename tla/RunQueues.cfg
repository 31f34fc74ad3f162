SPECIFICATION Spec
CONSTANTS
    t1 = t1
    Threads = {t1, t2}
    p3 = p3
    Procs = {p1, p2, p3}
    Home <- MCHome
    MWINDOW_SIZE = 1
    BATCH_PPD = 1
    BATCH_MD_MASK = 1
    MaxWaits = 1
    PoolSize = 3
    Start = t1
    NULL = NULL
INVARIANTS ProcessInOnePlace FreeBatchUnseen
PROPERTY LiveReadyRuns
