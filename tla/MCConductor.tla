---------------------------- MODULE MCConductor ----------------------------
(* Instances of Conductor for TLC. *)
EXTENDS Conductor, TLC

CONSTANTS h

Symmetry == Permutations(Requests)

\* The younger row has the smaller key.
Reversed == [a \in Auths |-> Cardinality(Auths) - a]
Flat == [a \in Auths |-> 0]
FirstIsBest == [a \in Auths |-> IF a = 1 THEN 1 ELSE 0]

M(strategy, groups) == [strategy |-> strategy, groups |-> groups]

\* Edits: the user moves to another group, credentials leave their group or lose
\* their row, the group opens to everyone, the mapping changes its strategy.
PickMembers == {{1}, {2}}
PickLists == {{1}}
PickMappings == {M("stick", {}), M("fillFirst", {1})}
PickInit ==
    /\ Init
    /\ member = {1}
    /\ \A a \in Auths : group[a] = IF a = 1 THEN h ELSE NoGroup
PickSpec == PickInit /\ [][Next]_vars /\ Fairness

RoundMembers == {{1}}
RoundLists == {{1}, {2}}
RoundMappings == {M("roundRobin", {})}
RoundInit == Init /\ group = [a \in Auths |-> IF a = 1 THEN h ELSE NoGroup]
RoundSpec == RoundInit /\ [][Next]_vars /\ Fairness

\* A mapping of the provider of the credentials is for the other group's users.
RestrictedMappings == {M("roundRobin", {}), M("roundRobin", {2})}
MappingInit == RoundInit /\ mapping["claude"] = M("roundRobin", {2}) /\ mapping["mixed"] = M("roundRobin", {})
MappingSpec == MappingInit /\ [][Next]_vars /\ Fairness

\* "Which User Groups can access this model. Empty = all": a user outside the groups
\* of the mapping is not served by a credential of the mapping's provider.
MappingIsHonoured ==
    \A r \in Requests : at[r] = "exec" /\ still[r] => Allowed(mapping["claude"].groups, member)
=============================================================================
