SPECIFICATION MailFairSpec
CONSTANTS
    Senders = {s1, s2}
    Items = {p1, p2}
    NIL = NIL
    PipeSize = 1
INVARIANTS TakesOldest NoLostWakeup
PROPERTY MailArrives
