\* Two requests of one user pick credentials while an administrator edits the tables.
CONSTANTS
    Requests = {r1, r2}
    Auths = {1, 2}
    RowId <- Reversed
    Period = 2
    UserGroups = {1, 2}
    h = h
    AuthGroups = {h}
    MemberSets <- PickMembers
    Lists <- PickLists
    RowGroups = {h, NoGroup, NoRow}
    Mappings <- PickMappings
    Providers = {"mixed"}
    CallProvider = "mixed"
    Faults = TRUE
    MaxEdits = 1
    None = None
    NoGroup = NoGroup
    NoRow = NoRow
    Everyone = Everyone
    Priority <- Flat
    MaxCredentials = 0
    RequestRetry = 0
    MaxWait = 1
    Failures = {"plain", "missing"}
    RetryAfters = {0}
    Short = 1
    Long = 2
    Base = 1
    Ceiling = 2
SPECIFICATION PickSpec
INVARIANTS TypeOK ServesEntitled BilledGroupIsGrounded RestrictedUseIsBilled BindingIsUsed
SYMMETRY Symmetry
CHECK_DEADLOCK FALSE
