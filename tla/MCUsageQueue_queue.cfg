\* Two requests, two contexts, retries, and a stop at any time.
CONSTANTS
    None = None
    r1 = r1
    r2 = r2
    u1 = u1
    u2 = u2
    Requests = {r1, r2}
    UserOf <- TwoUsers
    Groups = {}
    Contexts = {c1, c2}
    MaxAttempts = 2
SPECIFICATION FairSpec
INVARIANTS TypeOK ContextsAreOwned RowsInOrder NoLostWakeUp
PROPERTIES ImplementsLog RunningRequestsKeepTheirUser QueueIsServed
CHECK_DEADLOCK FALSE
