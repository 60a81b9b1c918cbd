\* A mapping that names user groups is not asked for: the SDK passes "mixed".
CONSTANTS
    Requests = {r1}
    Auths = {1, 2}
    RowId <- Reversed
    Period = 2
    UserGroups = {1, 2}
    h = h
    AuthGroups = {h}
    MemberSets <- RoundMembers
    Lists <- RoundLists
    RowGroups = {h, NoGroup}
    Mappings <- RestrictedMappings
    Providers = {"claude", "mixed"}
    CallProvider = "mixed"
    Faults = FALSE
    MaxEdits = 0
    None = None
    NoGroup = NoGroup
    NoRow = NoRow
    Everyone = Everyone
    Priority <- FirstIsBest
    MaxCredentials = 0
    RequestRetry = 1
    MaxWait = 1
    Failures = {"quota"}
    RetryAfters = {0, 1}
    Short = 1
    Long = 2
    Base = 1
    Ceiling = 2
SPECIFICATION MappingSpec
INVARIANTS MappingIsHonoured
CHECK_DEADLOCK FALSE
