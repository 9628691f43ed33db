\* Two storers, one deleter and one pruner, with a crash.
SPECIFICATION FairSpec
CONSTANTS
    Storers = {s1, s2}
    Deleters = {d1}
    Pruners = {p1}
    Locks = {l1, l2, l3, l4, l5}
    NoLock = NoLock
    NoThread = NoThread
    Missing = Missing
    MaxStores = 1
    MaxCrashes = 1
INVARIANTS
    TypeOK
    OverlapOnlyForgotten
    StoredUntilForgotten
PROPERTIES
    EveryoneGetsIn
