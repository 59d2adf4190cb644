SPECIFICATION LedgerSpec
CONSTANTS
    i1 = i1
    i2 = i2
    i3 = i3
    t1 = t1
    t2 = t2
    Interactor = {i1, i2}
    Topic = {t1}
    MaxCount = 1
INVARIANT
    BelievedIsWanted
