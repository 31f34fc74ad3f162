CONSTANTS
    NULL = NULL  TIMER = TIMER  SKIP = SKIP
    f = f  u1 = u1  u2 = u2  k = k  s = s  d = d
    Procs = {f, u1, u2}
    Chans = {k, s, d}
    TopLevel = {k, s}
    Ctx <- TheCtx
    Ops <- TheOps
    Writer <- TheWriter
    Reader <- TheReader
    Alts <- TheAlts
    Wrappers = {"posix", "srv1"}
    MaxDelay = 1
    MaxLate = 1
SPECIFICATION Spec
INVARIANTS NoErrors InOnePlace SelectedIsReady
PROPERTY TimersWake
CHECK_DEADLOCK FALSE
