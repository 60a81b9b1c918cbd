\* Two requests mark results, go on to other credentials and wait for cooldowns.
CONSTANTS
    Requests = {r1, r2}
    Auths = {1, 2}
    RowId <- Reversed
    Period = 2
    UserGroups = {1, 2}
    h = h
    AuthGroups = {h}
    MemberSets <- RoundMembers
    Lists <- RoundLists
    RowGroups = {h, NoGroup}
    Mappings <- RoundMappings
    Providers = {"mixed"}
    CallProvider = "mixed"
    Faults = FALSE
    MaxEdits = 0
    None = None
    NoGroup = NoGroup
    NoRow = NoRow
    Everyone = Everyone
    Priority <- FirstIsBest
    MaxCredentials = 0
    RequestRetry = 1
    MaxWait = 1
    Failures = {"quota"}
    RetryAfters = {0, 1}
    Short = 1
    Long = 2
    Base = 1
    Ceiling = 2
SPECIFICATION RoundSpec
INVARIANTS PickedAreReady RoundIsThorough
PROPERTIES RequestsEnd
CHECK_DEADLOCK FALSE
