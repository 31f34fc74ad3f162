SPECIFICATION FairSpec
CONSTANTS
    Threads = {t1, t2}
    Claimants = {p1, p2, p3}
    NP = NP
INVARIANTS OneOwner BitTellsOwner NoStrandedWaiter
PROPERTIES IsFifoSemaphore EveryWaiterServed
CHECK_DEADLOCK TRUE
