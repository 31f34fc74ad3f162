SPECIFICATION FairSpec
CONSTANTS
    c1 = c1
    c2 = c2
    Chans = {c1, c2}
    Reader = Reader
    Tagged = Tagged
    NP = NP
    TIMER = TIMER
    SKIP = SKIP
    Alts <- AllAlts
INVARIANTS NeverScheduledTwice TriggerFindsState ExactlyOnce SelectsReadyGuard PriAlt
PROPERTY AltCompletes
CHECK_DEADLOCK FALSE
