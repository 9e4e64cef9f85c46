SPECIFICATION LockSpec
CONSTANTS
    t1 = t1
    t2 = t2
    t3 = t3
    t4 = t4
    t5 = t5
    Threads = {t1, t2, t3, t4, t5}
    NoThread = NoThread
    Keys = {1, 2, 3}
    Claim <- MCClaim
    KeySets <- MCKeySets
    Timed = {t3}
    Signalled = {t2}
    Stalled = {t5}
INVARIANTS HolderIsExclusive NoLostWakeup
PROPERTIES GrantsFollowPrecedence CallsReturn
