SPECIFICATION FairSpec
CONSTANTS
    Jobs = {a, b}
    Killable = {}
    Batches = {}
    Threads = {t1, t2}
    Limit = 2
    Shared = TRUE
    CreateMayFail = FALSE
    MaxWaiting = 2
    NULL = NULL
PROPERTY CallStarts
