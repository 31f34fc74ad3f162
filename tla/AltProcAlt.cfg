SPECIFICATION FairSpec
CONSTANTS
    c1 = c1
    c2 = c2
    Chans = {c1, c2}
    Reader = Reader
    Tagged = Tagged
    NP = NP
    TIMER = TIMER
    SKIP = SKIP
    Alts <- OnlyProcAlt
PROPERTY ProcAltCompletes
CHECK_DEADLOCK FALSE
