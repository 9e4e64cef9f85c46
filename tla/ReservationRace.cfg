SPECIFICATION Spec
CONSTANTS
    t1 = t1
    t2 = t2
    r1 = r1
    r2 = r2
    r3 = r3
    Threads = {t1, t2}
    NoThread = NoThread
    NoRecord = NoRecord
    Keys = {1, 2}
    Claim <- MCClaim
    KeySets <- MCKeySets
    Timed = {}
    Signalled = {t2}
    Stalled = {}
    Ids = {r1, r2, r3}
    KeysOf <- SharedKeys
    Instants = {0, 1, 2}
    Windows <- OneWindow
    CondSets = {{}}
    MaxVersion = 3
    Seeds <- MCSeeds
    MaxBatch = 2
    MaxApplies = 1
INVARIANTS LiveKeyExclusivity StoredRecordsCoherent
PROPERTIES NoLostUpdate AppliesAtomically ApplyEnds
