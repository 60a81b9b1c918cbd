CONSTANTS
    None = None
    k1 = k1
    k2 = k2
    Keys = {k1}
    Workers = {w1}
    Tables <- MCTables
    Edits = {}
    QueueCap = 1
    Now = 1
    MaxClock = 4
SPECIFICATION Spec
PROPERTY SavedTokenStays
