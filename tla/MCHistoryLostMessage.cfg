\* Two storers and a pruner: a forgotten lock lets a store overwrite another.
SPECIFICATION Spec
CONSTANTS
    Storers = {s1, s2}
    Deleters = {}
    Pruners = {p1}
    Locks = {l1, l2, l3, l4}
    NoLock = NoLock
    NoThread = NoThread
    Missing = Missing
    MaxStores = 1
    MaxCrashes = 0
SYMMETRY Symmetry
INVARIANTS
    NoLostMessage
