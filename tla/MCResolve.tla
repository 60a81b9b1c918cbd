----------------------------- MODULE MCResolve -----------------------------
(* Instances of RateResolve and BillingRules for TLC.  They share no table: a   *)
(* behaviour is the resolution of a limit or the calculation of a cost.         *)
EXTENDS RateResolve, BillingRules

Rule(a, u, scope) == [auth |-> a, user |-> u, scope |-> scope, enabled |-> TRUE]
Written12 == {Rule(1, 2, "exact"), Rule(1, 1, "exact")}
Imported12 == {Rule(1, 2, "all"), Rule(1, 1, "all")}

NothingToPrice ==
    /\ table = [i \in RuleIds |-> NoRule] /\ updated = [i \in RuleIds |-> 0]
    /\ authGroups = {} /\ userGroups = {} /\ authDefaults = {} /\ userDefaults = {}
    /\ home = 0 /\ member = 0 /\ billed = 0
    /\ stage = "done"
    /\ auth = 0 /\ user = 0 /\ base = [auth |-> 0, user |-> 0] /\ result = Nothing
    /\ changes = 0 /\ settled = TRUE /\ unmoved = TRUE /\ fault = FALSE

NothingToResolve ==
    /\ limit = [l \in OwnLevels |-> 0]
    /\ groupLimit = [l \in GroupLevels |-> [g \in LimitGroups |-> 0]]
    /\ primary = [l \in GroupLevels |-> 0]
    /\ step = "done" /\ groupID = 0 /\ decision = Undecided
    /\ steady = {} /\ named = [l \in GroupLevels |-> {}]

\* The two rules may be of one time, or the first is the younger one.
PriceInit ==
    /\ PricingInit
    /\ updated[2] = 0
    /\ authGroups = {1, 2} /\ userGroups = {1, 2}
    /\ authDefaults \in {{}, {2}, {1, 2}} /\ userDefaults = {1}
    /\ home \in {0, 1} /\ member \in {0, 2} /\ billed \in {0, 2}

MCInit == (Init /\ NothingToPrice) \/ (PriceInit /\ NothingToResolve)
MCNext == (Next /\ UNCHANGED pricingVars) \/ (PricingNext /\ UNCHANGED vars)
MCSpec == MCInit /\ [][MCNext]_<<vars, pricingVars>>
=============================================================================
