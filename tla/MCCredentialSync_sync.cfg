CONSTANTS
    None = None
    k1 = k1
    k2 = k2
    Keys = {k1, k2}
    Workers = {w1}
    Tables <- MCTables
    Edits <- AllEdits
    QueueCap = 1
    Now = 1
    MaxClock = 3
SPECIFICATION FairSpec
INVARIANTS SkipIsSound SnapshotIsDelivered
PROPERTIES  DeliveredEditsStay
