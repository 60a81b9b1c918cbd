---------------------------- MODULE RateResolve ----------------------------
(***************************************************************************)
(* ResolveLimit (internal/ratelimit/resolve.go): the limit of a request is *)
(* looked for at seven levels, with one query or one look at a snapshot    *)
(* for each, while admins edit the levels.  The queries share no           *)
(* transaction.                                                            *)
(***************************************************************************)
EXTENDS Integers, Sequences

CONSTANTS
    Limits,      \* values of a rate_limit column; up to zero they are "no limit here"
    LimitGroups  \* ids of user groups and of auth groups; the id 0 is none

ASSUME RateResolveAssumption ==
    /\ Limits \subseteq Int
    /\ LimitGroups \subseteq Nat \ {0}

GroupLevels == {"userGroup", "authGroup"}
OwnLevels == {"bill", "mapping", "user", "auth", "global"}
Levels == OwnLevels \cup GroupLevels

VARIABLES
    limit,      \* the limit of a level that has one; of the bills, their sum
    groupLimit, \* the limits of user groups and of auth groups
    primary,    \* the group that the user's or the auth's row names first
    step,       \* what ResolveLimit looks at next
    groupID,    \* the group that the row named when it was read
    decision,   \* the level that decided and its limit
    \* history
    steady,     \* levels that have had a limit since the call began
    named       \* groups that a row has named since then, while all of them have a limit

limits == <<limit, groupLimit, primary>>
history == <<steady, named>>
vars == <<limits, step, groupID, decision, history>>

Undecided == [level |-> "none", limit |-> 0]

\* A deleted group has no limit.
Limited(l, g) == g # 0 /\ groupLimit[l][g] > 0

Init ==
    /\ limit \in [OwnLevels -> Limits]
    /\ groupLimit \in [GroupLevels -> [LimitGroups -> Limits]]
    /\ primary \in [GroupLevels -> LimitGroups \cup {0}]
    /\ step = "bill" /\ groupID = 0 /\ decision = Undecided
    /\ steady = {l \in OwnLevels : limit[l] > 0}
    /\ named = [l \in GroupLevels |-> {g \in {primary[l]} : Limited(l, g)}]
-----------------------------------------------------------------------------
Deciding == step \in Levels

\* The level has the limit n: it decides, or the next one is looked at.
Answer(level, n, next) ==
    \/ n > 0 /\ step' = "done" /\ decision' = [level |-> level, limit |-> n]
    \/ n <= 0 /\ step' = next /\ UNCHANGED decision

\* Bills, model mapping, the global setting.
Look(level, next) ==
    /\ step = level
    /\ Answer(level, limit[level], next)
    /\ UNCHANGED <<limits, groupID, history>>

\* The row of the user or of the auth brings its limit and the id of its primary
\* group, which is looked up by a query of its own.
LookAtRow(level, groupLevel, next) ==
    /\ step = level
    /\ groupID' = primary[groupLevel]
    /\ Answer(level, limit[level], IF groupID' = 0 THEN next ELSE groupLevel)
    /\ UNCHANGED <<limits, history>>

\* The group is the one that was read with the row, wherever the row has moved.
LookAtGroup(level, next) ==
    /\ step = level
    /\ Answer(level, groupLimit[level][groupID], next)
    /\ UNCHANGED <<limits, groupID, history>>

AfterUserX == "global"
AfterUser == "auth"

ResolveLimit ==
    \/ Look("bill", "mapping")
    \/ Look("mapping", "user")
    \/ LookAtRow("user", "userGroup", AfterUser)
    \/ LookAtGroup("userGroup", AfterUser)
    \/ LookAtRow("auth", "authGroup", "global")
    \/ LookAtGroup("authGroup", "global")
    \/ Look("global", "done")

\* A query fails: the request goes on without a limit.
QueryFails ==
    /\ Deciding /\ step \notin {"mapping", "global"}
    /\ step' = "failed"
    /\ UNCHANGED <<limits, groupID, decision, history>>

-----------------------------------------------------------------------------
EditLevel ==
    /\ \E l \in OwnLevels, n \in Limits : limit' = [limit EXCEPT ![l] = n]
    /\ UNCHANGED <<groupLimit, primary>>

EditGroup ==
    /\ \E l \in GroupLevels, g \in LimitGroups, n \in Limits :
          groupLimit' = [groupLimit EXCEPT ![l][g] = n]
    /\ UNCHANGED <<limit, primary>>

\* One update of a user or an auth may change its limit and its groups.
EditRow(row, groupLevel) ==
    /\ \E n \in Limits, g \in LimitGroups \cup {0} :
          /\ limit' = [limit EXCEPT ![row] = n]
          /\ primary' = [primary EXCEPT ![groupLevel] = g]
    /\ UNCHANGED groupLimit

Edit ==
    /\ Deciding
    /\ EditLevel \/ EditGroup \/ EditRow("user", "userGroup") \/ EditRow("auth", "authGroup")
    /\ steady' = {l \in steady : limit'[l] > 0}
    /\ named' = [l \in GroupLevels |->
                    IF named[l] # {} /\ \A g \in named[l] \cup {primary'[l]} : Limited(l, g)'
                    THEN named[l] \cup {primary'[l]} ELSE {}]
    /\ UNCHANGED <<step, groupID, decision>>

Next == ResolveLimit \/ QueryFails \/ Edit

Spec == Init /\ [][Next]_vars
-----------------------------------------------------------------------------
TypeOK ==
    /\ limit \in [OwnLevels -> Limits]
    /\ groupLimit \in [GroupLevels -> [LimitGroups -> Limits]]
    /\ primary \in [GroupLevels -> LimitGroups \cup {0}]
    /\ step \in Levels \cup {"done", "failed"}
    /\ groupID \in LimitGroups \cup {0}
    /\ decision \in {Undecided} \cup [level : Levels, limit : Limits]
    /\ steady \subseteq OwnLevels
    /\ named \in [GroupLevels -> SUBSET LimitGroups]

Order == <<"bill", "mapping", "user", "userGroup", "auth", "authGroup", "global">>

Rank(l) == CHOOSE i \in DOMAIN Order : Order[i] = l

\* A level applies throughout the call when it always has a limit; the level of a
\* group, when the row may move from group to group but each group it has named
\* keeps a limit from then on.
AppliesThroughout(l) == IF l \in GroupLevels THEN named[l] # {} ELSE l \in steady

\* Such a level is respected: the call ends with its limit or with that of a level
\* before it, never with none.  A row that moves between the two queries is looked
\* up in the group it has left (resolve.go:37-52, 55-71); if that group loses its
\* limit in between, the call finds none although both groups had one in their time.
SteadyLevelIsRespected ==
    step = "done" => \A l \in Levels : AppliesThroughout(l) =>
        decision.level \in Levels /\ Rank(decision.level) <= Rank(l)
=============================================================================
