SPECIFICATION ArchivesSpec
CONSTANTS
    k1 = k1  k2 = k2  k3 = k3
    None = None
    Slot = {1, 2}
    Root = {1, 2}
    Default = 2
    Key = {k1, k2, k3}
    Locked = {k2}
    Retain = 1
    MaxOps = 5
    MaxDist = 2
    MaxTroubles = 1
INVARIANTS KeysAreInPlace
PROPERTIES RestoresDeliver PurgedKeyIsBackedUp
