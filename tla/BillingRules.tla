---------------------------- MODULE BillingRules ----------------------------
(***************************************************************************)
(* The price of a request: calculateCost (internal/usage/usage.go) looks   *)
(* up the groups of the credential and of the user, looks for their        *)
(* billing rule, then for the default groups and for the rules of either.  *)
(* Every lookup is a query of its own, and administrators edit rules,      *)
(* groups and defaults in between.                                         *)
(*                                                                         *)
(* One successful record is modelled, with its provider and model.  A      *)
(* rule is for exactly these, for all providers and models, or for others. *)
(* The id 0 is none.                                                       *)
(***************************************************************************)
EXTENDS Integers, FiniteSets, SequencesExt

CONSTANTS
    RuleIds,        \* rows of billing_rules
    AuthGroupIds,
    UserGroupIds,
    Written,        \* what administrators write into a rule
    Imported,       \* what an import or a migration has brought besides
    MaxEdits        \* bound: edits of the tables

Scopes == {"exact", "all", "other"}
Contents == [auth : AuthGroupIds, user : UserGroupIds, scope : Scopes, enabled : BOOLEAN]

ASSUME BillingAssumption ==
    /\ RuleIds \subseteq Nat \ {0} /\ AuthGroupIds \subseteq Nat \ {0}
    /\ UserGroupIds \subseteq Nat \ {0}
    /\ IsFiniteSet(RuleIds) /\ IsFiniteSet(AuthGroupIds) /\ IsFiniteSet(UserGroupIds)
    /\ Written \cup Imported \subseteq Contents /\ MaxEdits \in Nat
    /\ \A w \in Written : w.scope # "all"       \* the API wants provider and model

VARIABLES
    table,          \* the rules: contents, or none
    updated,        \* their updated_at
    authGroups,     \* the auth groups there are
    userGroups,
    authDefaults,   \* those with is_default
    userDefaults,
    home,           \* primary auth group in the row of the credential
    member,         \* primary group in the row of the user
    billed,         \* the billing group of the record
    stage,          \* the query that comes next
    auth, user,     \* the groups that were found
    base,           \* the default groups that were found
    result,         \* the rule that was selected, and the priority it had
    changes,        \* how many edits there were
    \* history
    settled,        \* no edit of the groups and the defaults since the calculation began
    unmoved,        \* nor of the groups of the credential and of the user
    fault           \* a query failed

groups == <<authGroups, userGroups, authDefaults, userDefaults>>
calculation == <<stage, auth, user, base, result, billed, fault>>
pricingVars == <<table, updated, groups, home, member, changes, settled, unmoved, calculation>>

NoRule == [auth |-> 0, user |-> 0, scope |-> "other", enabled |-> FALSE]
Nothing == [id |-> 0, priority |-> -1]

\* Two rows of the same groups differ in provider or model: uq_billing_rules_group_provider_model.
\* The index tells cases apart and the lookup does not, so that two rows of the same
\* groups may be for the provider and model of the record.
Unique(rows) ==
    \A i, j \in RuleIds :
        /\ i # j /\ rows[i].scope = "all" /\ rows[j].scope = "all"
        => rows[i].auth # rows[j].auth \/ rows[i].user # rows[j].user

PricingInit ==
    /\ table \in {t \in [RuleIds -> Written \cup Imported \cup {NoRule}] : Unique(t)}
    /\ updated \in [RuleIds -> {0, 1}]
    /\ authGroups \in SUBSET AuthGroupIds /\ userGroups \in SUBSET UserGroupIds
    /\ authDefaults \in SUBSET authGroups /\ userDefaults \in SUBSET userGroups
    /\ home \in AuthGroupIds \cup {0}
    /\ member \in UserGroupIds \cup {0} /\ billed \in UserGroupIds \cup {0}
    /\ stage = "auth"
    /\ auth = 0 /\ user = 0 /\ base = [auth |-> 0, user |-> 0]
    /\ result = Nothing
    /\ changes = 0 /\ settled = TRUE /\ unmoved = TRUE /\ fault = FALSE
-----------------------------------------------------------------------------
\* SelectBillingRule: how well a rule fits.
Priority(rule, a, u, da, du) ==
    LET own == a # 0 /\ u # 0 /\ rule.auth = a /\ rule.user = u
        default == da # 0 /\ du # 0 /\ rule.auth = da /\ rule.user = du
    IN  IF ~rule.enabled \/ rule.scope = "other" \/ ~(own \/ default) THEN -1
        ELSE (IF own THEN 2 ELSE 0) + (IF rule.scope = "exact" THEN 1 ELSE 0)

\* consider: a rule replaces one of lower priority, an older one, or one of the same
\* time with a lower id.
ReplacesX(i, best) == updated[i] >= updated[best]
Replaces(i, best) == updated[i] > updated[best] \/ (updated[i] = updated[best] /\ i > best)

Consider(best, i, priority) ==
    IF \/ priority > best.priority
       \/ priority = best.priority /\ best.id # 0 /\ Replaces(i, best.id)
    THEN [id |-> i, priority |-> priority] ELSE best

\* The rows come in any order.
SelectBillingRule(rows, a, u, da, du) ==
    {FoldLeft(LAMBDA best, i : Consider(best, i, Priority(table[i], a, u, da, du)), Nothing, order) :
        order \in SetToSeqs(rows)}

\* loadCandidateRules: enabled rules of the groups, and of the default groups when
\* they are others, for the provider and model or for all.
LoadCandidateRulesX(a, u, da, du) ==
    {i \in RuleIds : table[i].enabled /\ table[i].scope # "other"
                     /\ table[i].auth = a /\ table[i].user = u}
LoadCandidateRules(a, u, da, du) ==
    {i \in RuleIds : table[i].enabled /\ table[i].scope # "other"
                     /\ \/ table[i].auth = a /\ table[i].user = u
                        \/ da # 0 /\ du # 0 /\ table[i].auth = da /\ table[i].user = du}
-----------------------------------------------------------------------------
Ask(next) ==
    /\ stage' = next
    /\ UNCHANGED <<table, updated, groups, home, member, billed, changes, settled, unmoved>>

\* A query that fails: the request is free.
Free == Ask("done") /\ result' = Nothing /\ fault' = TRUE /\ UNCHANGED <<auth, user, base>>

\* The auth group of the credential, which may be deleted; an error is none.
FindAuth ==
    /\ stage = "auth"
    /\ Ask("user")
    /\ \/ auth' = home /\ UNCHANGED fault
       \/ auth' = 0 /\ fault' = TRUE
    /\ UNCHANGED <<user, base, result>>

Onward(a, u) == IF a # 0 /\ u # 0 THEN "primary" ELSE "defaultAuth"

\* The group that was billed, or the group of the user: found by the API key, and
\* when that gives none looked up again by the id of the user.
FindUser ==
    /\ stage \in {"user", "again"}
    /\ \/ /\ stage = "user" /\ billed # 0
          /\ user' = billed /\ Ask(Onward(auth, billed)) /\ UNCHANGED fault
       \/ /\ stage = "again" \/ billed = 0
          /\ \/ user' = member /\ UNCHANGED fault
             \/ user' = 0 /\ fault' = TRUE
          /\ Ask(IF stage = "user" /\ user' = 0 THEN "again" ELSE Onward(auth, user'))
    /\ UNCHANGED <<auth, base, result>>

Charge(choice) == result' = choice /\ UNCHANGED <<auth, user, base, fault>>

\* The rules of the groups that were found; without one the defaults count as well.
FindPrimary ==
    /\ stage = "primary"
    /\ \/ \E choice \in SelectBillingRule(LoadCandidateRules(auth, user, 0, 0), auth, user, 0, 0) :
              /\ Ask(IF choice.id # 0 THEN "done" ELSE "defaultAuth")
              /\ Charge(choice)
       \/ Free

\* ResolveDefaultAuthGroupID and ResolveDefaultUserGroupID: the first default group,
\* or by another query the first group of all.
FindDefaultAuth ==
    /\ stage \in {"defaultAuth", "anyAuth"}
    /\ LET rows == IF stage = "anyAuth" THEN authGroups ELSE authDefaults IN
       \/ rows # {} /\ base' = [base EXCEPT !.auth = Min(rows)] /\ Ask("defaultUser")
       \/ rows = {} /\ UNCHANGED base /\ Ask(IF stage = "anyAuth" THEN "defaultUser" ELSE "anyAuth")
    /\ UNCHANGED <<auth, user, result, fault>>

FindDefaultUser ==
    /\ stage \in {"defaultUser", "anyUser"}
    /\ LET rows == IF stage = "anyUser" THEN userGroups ELSE userDefaults IN
       \/ rows # {} /\ base' = [base EXCEPT !.user = Min(rows)] /\ Ask("rules")
       \/ rows = {} /\ UNCHANGED base /\ Ask(IF stage = "anyUser" THEN "rules" ELSE "anyUser")
    /\ UNCHANGED <<auth, user, result, fault>>

DefaultFails == stage \in {"defaultAuth", "anyAuth", "defaultUser", "anyUser"} /\ Free

Or(id, default) == IF id # 0 THEN id ELSE default

FindRules ==
    /\ stage = "rules"
    /\ LET a == Or(auth, base.auth)
           u == Or(user, base.user)
       IN \/ 0 \in {a, u} /\ Ask("done") /\ Charge(Nothing)
          \/ /\ a # 0 /\ u # 0
             /\ \E choice \in SelectBillingRule(LoadCandidateRules(a, u, base.auth, base.user),
                                                a, u, base.auth, base.user) :
                    Ask("done") /\ Charge(choice)
          \/ a # 0 /\ u # 0 /\ Free

CalculateCost ==
    \/ FindAuth \/ FindUser \/ FindPrimary \/ FindDefaultAuth \/ FindDefaultUser
    \/ DefaultFails \/ FindRules
-----------------------------------------------------------------------------
\* The tables are edited until the calculation has ended.
Edited == stage # "done" /\ changes < MaxEdits /\ changes' = changes + 1 /\ UNCHANGED calculation

\* Create, Update, SetEnabled and every row of BatchImport.
WriteRule(i, contents) ==
    /\ Edited
    /\ contents # table[i] /\ table' = [table EXCEPT ![i] = contents]
    /\ updated' = [updated EXCEPT ![i] = 2 + changes]
    /\ UNCHANGED <<groups, home, member, settled, unmoved>>

DeleteRule(i) ==
    /\ Edited
    /\ table[i] # NoRule /\ table' = [table EXCEPT ![i] = NoRule]
    /\ UNCHANGED <<updated, groups, home, member, settled, unmoved>>

\* A group is created, deleted, or its is_default is set or cleared; SetDefault
\* does both in a transaction, and two at once may leave two defaults.
EditAuthGroups(all, defaults) ==
    /\ Edited
    /\ <<all, defaults>> # <<authGroups, authDefaults>>
    /\ authGroups' = all /\ authDefaults' = defaults
    /\ settled' = FALSE
    /\ UNCHANGED <<table, updated, userGroups, userDefaults, home, member, unmoved>>

EditUserGroups(all, defaults) ==
    /\ Edited
    /\ <<all, defaults>> # <<userGroups, userDefaults>>
    /\ userGroups' = all /\ userDefaults' = defaults
    /\ settled' = FALSE
    /\ UNCHANGED <<table, updated, authGroups, authDefaults, home, member, unmoved>>

\* The credential or the user moves to another group.
Move(g, u) ==
    /\ Edited
    /\ (g # home) # (u # member)
    /\ home' = g /\ member' = u
    /\ unmoved' = FALSE
    /\ UNCHANGED <<table, updated, groups, settled>>

Toggled(rule) == IF rule = NoRule THEN {} ELSE {[rule EXCEPT !.enabled = ~@]}

PricingEdit ==
    \/ \E i \in RuleIds : (\E w \in Written \cup Toggled(table[i]) : WriteRule(i, w)) \/ DeleteRule(i)
    \/ \E all \in SUBSET AuthGroupIds : \E d \in SUBSET all : EditAuthGroups(all, d)
    \/ \E all \in SUBSET UserGroupIds : \E d \in SUBSET all : EditUserGroups(all, d)
    \/ \E g \in AuthGroupIds \cup {0}, u \in UserGroupIds \cup {0} : Move(g, u)

PricingNext == CalculateCost \/ PricingEdit

PricingSpec == PricingInit /\ [][PricingNext]_pricingVars
-----------------------------------------------------------------------------
DefaultOf(defaults, all) ==
    IF defaults # {} THEN Min(defaults) ELSE IF all # {} THEN Min(all) ELSE 0

DefaultAuth == DefaultOf(authDefaults, authGroups)
DefaultUser == DefaultOf(userDefaults, userGroups)

\* What the tables say: the groups of the request, or the default where it has none,
\* with provider and model, then for all, then the default groups.
Tiers ==
    LET a == Or(home, DefaultAuth)
        u == Or(Or(billed, member), DefaultUser)
    IN  << <<a, u, "exact">>, <<a, u, "all">>,
           <<DefaultAuth, DefaultUser, "exact">>, <<DefaultAuth, DefaultUser, "all">> >>

InTier(i, k) ==
    table[i].enabled /\ <<table[i].auth, table[i].user, table[i].scope>> = Tiers[k]

\* Unless a query fails, or groups are edited, the request pays the latest rule of
\* the first tier that has one, and nothing only when none has: looking for the
\* groups of the request first, rows in whatever order, and rules that are edited
\* and moved from tier to tier between the queries make no difference.
RuleIsBest ==
    stage = "done" /\ settled /\ unmoved /\ ~fault =>
        IF result.id = 0 THEN \A i \in RuleIds, k \in 1..4 : ~InTier(i, k)
        ELSE \E k \in 1..4 :
               /\ InTier(result.id, k)
               /\ \A i \in RuleIds, l \in 1 .. k - 1 : ~InTier(i, l)
               /\ \A i \in RuleIds : InTier(i, k) =>
                    \/ updated[i] < updated[result.id]
                    \/ updated[i] = updated[result.id] /\ i <= result.id

\* While the groups and the defaults stay, a rule of the default groups makes every
\* request pay, wherever credential and user are moved during the calculation.
DefaultRuleCounts ==
    stage = "done" /\ settled /\ ~fault =>
        \A i \in RuleIds, k \in 3..4 : InTier(i, k) => result.id # 0
=============================================================================
