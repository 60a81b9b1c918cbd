\* All levels, a limit or none, edits between any two queries; two rules of two pairs
\* of groups, one edit between the queries.
CONSTANTS
    Limits = {0, 1}
    LimitGroups = {1, 2}
    RuleIds = {1, 2}
    AuthGroupIds = {1, 2}
    UserGroupIds = {1, 2}
    Written <- Written12
    Imported <- Imported12
    MaxEdits = 1
SPECIFICATION MCSpec
INVARIANTS SteadyLevelIsRespected RuleIsBest DefaultRuleCounts
CHECK_DEADLOCK FALSE
