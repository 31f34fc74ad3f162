SPECIFICATION ReturningSpec
CONSTANTS
    Jobs = {a, k, l}
    Killable = {k, l}
    Batches = {m1, m2}
    Threads = {t1, t2}
    Limit = 2
    Shared = TRUE
    CreateMayFail = TRUE
    MaxWaiting = 2
    NULL = NULL
INVARIANTS   KillNamesLiveCall 
PROPERTY CallerResumes
CHECK_DEADLOCK FALSE
