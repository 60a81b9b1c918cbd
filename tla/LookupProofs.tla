----------------------------- MODULE LookupProofs -----------------------------
(***************************************************************************)
(* Theorems about the two look-ups that query level after level while      *)
(* administrators edit: RateResolve, for any limits, and BillingRules, for *)
(* any rules, groups and edits.                                            *)
(***************************************************************************)
EXTENDS RateResolve, BillingRules, SetLemmas

USE RateResolveAssumption, BillingAssumption

Selections == [id : RuleIds \cup {0}, priority : -1 .. 3]

\* What a selection over rows gives, when p is the priority of every rule: nothing
\* when no rule fits, else the best one, and the latest of those that are as good.
BestOf(choice, rows, p) ==
    /\ choice.id = 0 => choice = Nothing /\ \A i \in rows : p[i] = -1
    /\ choice.id # 0 =>
         /\ choice.id \in rows /\ choice.priority = p[choice.id] /\ choice.priority >= 0
         /\ \A i \in rows : /\ p[i] <= choice.priority
                            /\ p[i] = choice.priority => i = choice.id \/ Replaces(choice.id, i)

\* The numbers up to n have no other greatest one.
LEMMA GreatestOf == ASSUME NEW n \in Nat, NEW s \in SUBSET (1..n), s # {}
                    PROVE  Max(s) \in s /\ \A m \in s : m <= Max(s)
  <1> DEFINE T == {n - m : m \in s}
  <1>1. T \in SUBSET Nat /\ T # {}
    OBVIOUS
  <1>2. PICK t \in T : \A m \in T : t <= m
    <2> HIDE DEF T
    <2> QED BY <1>1, Least
  <1>3. PICK x \in s : t = n - x
    BY <1>2
  <1>4. \A m \in s : n - x <= n - m
    BY <1>2, <1>3
  <1>5. \A m \in s : x >= m
    BY <1>4
  <1>6. \E y \in s : \A m \in s : y >= m
    BY <1>5
  <1> HIDE DEF T
  <1>7. Max(s) \in s /\ \A m \in s : Max(s) >= m
    BY <1>6 DEF Max
  <1> QED BY <1>7

LEMMA LeastOf == ASSUME NEW s \in SUBSET Nat, s # {} PROVE Min(s) \in s
  BY Least DEF Min

LEMMA ConsiderKeepsBest ==
    ASSUME updated \in [RuleIds -> Nat], NEW p \in [RuleIds -> -1 .. 3],
           NEW rows \in SUBSET RuleIds, NEW i \in RuleIds,
           NEW best \in Selections, BestOf(best, rows, p)
    PROVE  LET next == Consider(best, i, p[i])
           IN  next \in Selections /\ BestOf(next, rows \cup {i}, p)
  <1> DEFINE next == Consider(best, i, p[i])
  <1>1. i \in Nat /\ i # 0 /\ updated[i] \in Nat /\ p[i] \in -1 .. 3
    OBVIOUS
  <1>2. best.id \in RuleIds \cup {0} /\ best.priority \in -1 .. 3
    BY DEF Selections
  <1>3. next = best \/ next = [id |-> i, priority |-> p[i]]
    BY DEF Consider
  <1>4. next \in Selections
    BY <1>1, <1>3 DEF Selections
  <1>5. ASSUME NEW j \in RuleIds, NEW k \in RuleIds, NEW l \in RuleIds
        PROVE  /\ Replaces(j, k) /\ Replaces(k, l) => Replaces(j, l)
               /\ j = k \/ Replaces(j, k) \/ Replaces(k, j)
    BY DEF Replaces
  <1>6. BestOf(next, rows \cup {i}, p)
    <2>1. CASE best.id = 0
      <3>1. best = Nothing /\ (\A j \in rows : p[j] = -1) /\ best.priority = -1
        BY <2>1 DEF BestOf, Nothing
      <3>2. CASE p[i] > -1
        <4>1. next = [id |-> i, priority |-> p[i]]
          BY <3>1, <3>2 DEF Consider
        <4> QED BY <1>1, <3>1, <3>2, <4>1 DEF BestOf
      <3>3. CASE p[i] = -1
        <4>1. next = best
          BY <2>1, <3>1, <3>3 DEF Consider
        <4> QED BY <2>1, <3>1, <3>3, <4>1 DEF BestOf
      <3> QED BY <1>1, <3>2, <3>3
    <2>2. CASE best.id # 0
      <3>1. /\ best.id \in rows /\ best.id \in RuleIds
            /\ best.priority = p[best.id] /\ best.priority >= 0
        BY <2>2 DEF BestOf
      <3>2. \A j \in rows : /\ p[j] <= best.priority
                            /\ p[j] = best.priority => j = best.id \/ Replaces(best.id, j)
        BY <2>2 DEF BestOf
      <3>3. CASE p[i] > best.priority
        <4>1. next = [id |-> i, priority |-> p[i]]
          BY <3>3 DEF Consider
        <4>2. next.id = i /\ next.priority = p[i]
          BY <4>1
        <4>3. \A j \in rows : p[j] < p[i]
          BY <1>1, <1>2, <3>2, <3>3
        <4> QED BY <1>1, <1>2, <3>1, <3>3, <4>2, <4>3 DEF BestOf
      <3>4. CASE p[i] = best.priority /\ Replaces(i, best.id)
        <4>1. next = [id |-> i, priority |-> p[i]]
          BY <2>2, <3>4 DEF Consider
        <4>2. next.id = i /\ next.priority = p[i]
          BY <4>1
        <4>3. \A j \in rows : p[j] = p[i] => Replaces(i, j)
          BY <1>5, <3>1, <3>2, <3>4
        <4> QED BY <1>1, <3>1, <3>2, <3>4, <4>2, <4>3 DEF BestOf
      <3>5. CASE ~(p[i] > best.priority) /\ ~(p[i] = best.priority /\ Replaces(i, best.id))
        <4>1. next = best
          BY <3>5 DEF Consider
        <4>2. p[i] <= best.priority /\ (p[i] = best.priority => i = best.id \/ Replaces(best.id, i))
          <5>1. i = best.id \/ Replaces(i, best.id) \/ Replaces(best.id, i)
            BY <1>5, <3>1
          <5>2. p[i] <= best.priority
            BY <1>1, <1>2, <3>5
          <5> QED BY <3>5, <5>1, <5>2
        <4> QED BY <2>2, <3>1, <3>2, <4>1, <4>2 DEF BestOf
      <3> QED BY <3>3, <3>4, <3>5
    <2> QED BY <2>1, <2>2
  <1> QED BY <1>4, <1>6

\* The recursion of the fold over an order of rows, on sets of places in it.
Selecting(order, a, u, da, du, g) ==
    g = [s \in SUBSET DOMAIN order |->
            IF s = {} THEN Nothing
            ELSE Consider(g[s \ {Max(s)}], order[Max(s)],
                          Priority(table[order[Max(s)]], a, u, da, du))]

LEMMA SelectionDef ==
    ASSUME NEW rows, NEW a, NEW u, NEW da, NEW du,
           NEW choice \in SelectBillingRule(rows, a, u, da, du)
    PROVE  \E order \in SetToSeqs(rows) :
             choice = (CHOOSE g : Selecting(order, a, u, da, du, g))[DOMAIN order]
  BY DEF SelectBillingRule, FoldLeft, MapThenFoldSet, Selecting

\* Whatever the order of the rows, the selection is the best one.
LEMMA SelectedIsBest ==
    ASSUME updated \in [RuleIds -> Nat], NEW rows \in SUBSET RuleIds,
           NEW a, NEW u, NEW da, NEW du,
           NEW p \in [RuleIds -> -1 .. 3], \A i \in RuleIds : p[i] = Priority(table[i], a, u, da, du),
           NEW choice \in SelectBillingRule(rows, a, u, da, du)
    PROVE  choice \in Selections /\ BestOf(choice, rows, p)
  <1>1. IsFiniteSet(rows) /\ Cardinality(rows) \in Nat
    BY FS_Subset, FS_CardinalityType
  <1> DEFINE n == Cardinality(rows)
  <1>2. PICK order \in SetToSeqs(rows) :
          choice = (CHOOSE g : Selecting(order, a, u, da, du, g))[DOMAIN order]
    BY SelectionDef
  <1>3. order \in [1..n -> rows] /\ \A i, j \in 1..n : i # j => order[i] # order[j]
    BY <1>2 DEF SetToSeqs
  <1>4. \A i \in rows : \E k \in 1..n : order[k] = i
    <2>1. order \in Injection(1..n, rows)
      BY <1>3 DEF Injection, IsInjective
    <2>2. IsFiniteSet(1..n) /\ Cardinality(1..n) = n
      BY <1>1, FS_Interval
    <2>3. order \in Surjection(1..n, rows)
      BY <1>1, <2>1, <2>2, FS_Injection
    <2> QED BY <2>3 DEF Surjection
  <1>5. DOMAIN order = 1..n /\ 1..n \in SUBSET (1..n)
    BY <1>3
  <1> DEFINE c == [s \in SUBSET (1..n) |-> Max(s)]
             h == [x \in (1..n) \X Selections |-> Consider(x[2], order[x[1]], p[order[x[1]]])]
  <1>6. \A s \in SUBSET (1..n) : s # {} => c[s] \in s
    BY <1>1, GreatestOf
  <1>7. Nothing \in Selections
    BY DEF Nothing, Selections
  <1>8. h \in [(1..n) \X Selections -> Selections]
    <2>1. ASSUME NEW k \in 1..n, NEW best \in Selections
          PROVE  Consider(best, order[k], p[order[k]]) \in Selections
      BY <1>3 DEF Consider, Selections
    <2> QED BY <2>1
  <1>9. IsFiniteSet(1..n)
    BY <1>1, FS_Interval
  <1>10. PICK f \in [SUBSET (1..n) -> Selections] : IsFold(Nothing, c, h, 1..n, f)
    <2> HIDE DEF c, h, n
    <2> QED BY <1>6, <1>7, <1>8, <1>9, FoldExists, Zenon
  <1>11. Selecting(order, a, u, da, du, f)
    <2>1. ASSUME NEW s \in SUBSET (1..n), s # {}
          PROVE  f[s] = Consider(f[s \ {Max(s)}], order[Max(s)],
                                 Priority(table[order[Max(s)]], a, u, da, du))
      <3>1. Max(s) \in 1..n /\ s \ {Max(s)} \in SUBSET (1..n)
        BY <1>1, <2>1, GreatestOf
      <3>2. f[s] = h[<<c[s], f[s \ {c[s]}]>>]
        BY <1>10, <2>1 DEF IsFold, FoldStep
      <3>3. order[Max(s)] \in RuleIds
        BY <1>3, <3>1
      <3> QED BY <3>1, <3>2, <3>3
    <2>2. f[{}] = Nothing
      BY <1>10 DEF IsFold, FoldStep
    <2> QED BY <1>5, <1>10, <2>1, <2>2 DEF Selecting
  <1>12. PICK g : Selecting(order, a, u, da, du, g) /\ choice = g[1..n]
    BY <1>2, <1>5, <1>11
  <1> n \in Nat
    BY <1>1
  <1> HIDE DEF c, h, n
  <1> DEFINE First(k) == {order[j] : j \in 1..k}
             Fine(k) == g[1..k] \in Selections /\ BestOf(g[1..k], First(k), p)
             Bad == {k \in 0..n : ~Fine(k)}
  <1>13. Fine(0)
    <2>1. {} \in SUBSET DOMAIN order /\ 1..0 = {}
      OBVIOUS
    <2>2. g[{}] = Nothing
      BY <1>12, <2>1 DEF Selecting
    <2>3. First(0) = {}
      BY <2>1
    <2> QED BY <1>7, <2>1, <2>2, <2>3 DEF BestOf, Nothing
  <1>14. ASSUME NEW k \in 0..n, k + 1 \in 0..n, Fine(k) PROVE Fine(k + 1)
    <2>1. Max(1 .. k + 1) = k + 1
      <3>1. 1 .. k + 1 \in SUBSET (1 .. k + 1) /\ 1 .. k + 1 # {} /\ k + 1 \in Nat
        BY <1>1
      <3>2. Max(1 .. k + 1) \in 1 .. k + 1 /\ \A m \in 1 .. k + 1 : m <= Max(1 .. k + 1)
        BY <3>1, GreatestOf
      <3> QED BY <3>1, <3>2
    <2>2. (1 .. k + 1) \ {k + 1} = 1..k /\ 1 .. k + 1 \in SUBSET (1..n) /\ 1 .. k + 1 # {}
      BY <1>1, <1>14
    <2>3. g[1 .. k + 1] = Consider(g[1..k], order[k + 1], Priority(table[order[k + 1]], a, u, da, du))
      BY <1>5, <1>12, <2>1, <2>2 DEF Selecting
    <2>4. order[k + 1] \in RuleIds
      BY <1>1, <1>3, <1>14
    <2>5. First(k) \in SUBSET RuleIds /\ First(k + 1) = First(k) \cup {order[k + 1]}
      <3>1. 1 .. k + 1 = (1..k) \cup {k + 1} /\ 1..k \in SUBSET (1..n)
        BY <1>14
      <3>2. \A j \in 1..k : order[j] \in RuleIds
        BY <1>3, <3>1
      <3> QED BY <3>1, <3>2
    <2>6. p[order[k + 1]] = Priority(table[order[k + 1]], a, u, da, du)
      BY <2>4
    <2> DEFINE R == First(k)
               best == g[1..k]
               i == order[k + 1]
    <2>7. best \in Selections /\ BestOf(best, R, p) /\ R \in SUBSET RuleIds /\ i \in RuleIds
      BY <1>14, <2>4, <2>5
    <2>8. g[1 .. k + 1] = Consider(best, i, p[i]) /\ First(k + 1) = R \cup {i}
      BY <2>3, <2>5, <2>6
    <2> HIDE DEF R, best, i, First
    <2>9. Consider(best, i, p[i]) \in Selections /\ BestOf(Consider(best, i, p[i]), R \cup {i}, p)
      BY <2>7, ConsiderKeepsBest
    <2> QED BY <2>8, <2>9
  <1>15. \A k \in 0..n : Fine(k)
    <2> SUFFICES ASSUME Bad # {} PROVE FALSE
      OBVIOUS
    <2>1. Bad \in SUBSET Nat
      BY <1>1
    <2>2. PICK k \in Bad : \A m \in Bad : k <= m
      <3> HIDE DEF Bad
      <3> QED BY <2>1, Least
    <2>3. k \in 0..n /\ ~Fine(k)
      BY <2>2
    <2> HIDE DEF Fine
    <2>4. k # 0 /\ k - 1 \in 0..n /\ ~(k <= k - 1)
      BY <1>1, <1>13, <2>3
    <2>5. Fine(k - 1)
      BY <2>2, <2>4
    <2>6. k - 1 + 1 = k
      BY <1>1, <2>3
    <2> QED BY <1>14, <2>3, <2>4, <2>5, <2>6
  <1>16. First(n) = rows
    <2>1. \A j \in 1..n : order[j] \in rows
      BY <1>3
    <2>2. ASSUME NEW i \in rows PROVE i \in First(n)
      BY <1>4, <2>2
    <2>3. ASSUME NEW i \in First(n) PROVE i \in rows
      BY <2>1, <2>3
    <2> HIDE DEF First
    <2> QED BY <2>2, <2>3
  <1>17. Fine(n)
    <2> HIDE DEF Fine
    <2> QED BY <1>15
  <1> QED BY <1>12, <1>16, <1>17
-----------------------------------------------------------------------------
\* The calculation of a cost.
Stages == {"auth", "user", "again", "primary", "defaultAuth", "anyAuth", "defaultUser",
           "anyUser", "rules", "done"}

PricingTypeOK ==
    /\ table \in [RuleIds -> Contents \cup {NoRule}] /\ updated \in [RuleIds -> Nat]
    /\ authDefaults \subseteq authGroups /\ authGroups \subseteq AuthGroupIds
    /\ userDefaults \subseteq userGroups /\ userGroups \subseteq UserGroupIds
    /\ home \in AuthGroupIds \cup {0}
    /\ member \in UserGroupIds \cup {0} /\ billed \in UserGroupIds \cup {0}
    /\ stage \in Stages
    /\ auth \in AuthGroupIds \cup {0} /\ user \in UserGroupIds \cup {0}
    /\ base \in [auth : AuthGroupIds \cup {0}, user : UserGroupIds \cup {0}]
    /\ result \in Selections
    /\ changes \in Nat /\ settled \in BOOLEAN /\ unmoved \in BOOLEAN /\ fault \in BOOLEAN

\* What the queries have found so far, when nobody has moved credential and user.
FoundGroups ==
    /\ stage = "again" => billed = 0
    /\ stage = "primary" => auth # 0 /\ user # 0
    /\ unmoved /\ ~fault /\ stage \notin {"auth", "done"} =>
         /\ auth = home
         /\ stage \notin {"user", "again"} => user = Or(billed, member)

\* And when nobody has edited the groups and their defaults.
FoundDefaults ==
    settled /\ ~fault =>
        /\ stage = "anyAuth" => authDefaults = {}
        /\ stage = "anyUser" => userDefaults = {}
        /\ stage \in {"defaultUser", "anyUser", "rules"} => base.auth = DefaultAuth
        /\ stage = "rules" => base.user = DefaultUser
        /\ stage \notin {"defaultUser", "anyUser", "rules", "done"} => base.auth = 0
        /\ stage \notin {"rules", "done"} => base.user = 0

PricingInv == PricingTypeOK /\ FoundGroups /\ FoundDefaults

LEMMA DefaultsType ==
    ASSUME PricingTypeOK
    PROVE  DefaultAuth \in AuthGroupIds \cup {0} /\ DefaultUser \in UserGroupIds \cup {0}
  <1>1. ASSUME NEW s \in SUBSET Nat, s # {} PROVE Min(s) \in s
    BY <1>1, LeastOf
  <1>2. authGroups \in SUBSET Nat /\ authDefaults \in SUBSET Nat
        /\ userGroups \in SUBSET Nat /\ userDefaults \in SUBSET Nat
    BY DEF PricingTypeOK
  <1> QED BY <1>1, <1>2 DEF PricingTypeOK, DefaultAuth, DefaultUser, DefaultOf

\* A rule that counts is one of an auth group and of a user group.
LEMMA RuleType ==
    ASSUME PricingTypeOK, NEW i \in RuleIds, table[i].enabled
    PROVE  /\ table[i].auth \in AuthGroupIds /\ table[i].auth # 0
           /\ table[i].user \in UserGroupIds /\ table[i].user # 0
           /\ table[i].scope \in Scopes
  BY DEF PricingTypeOK, Contents, NoRule

LEMMA PriorityType ==
    ASSUME NEW rule, NEW a, NEW u, NEW da, NEW du
    PROVE  Priority(rule, a, u, da, du) \in -1 .. 3
  BY DEF Priority

LEMMA LookUp ==
    ASSUME PricingTypeOK, NEW a, NEW u, NEW da, NEW du,
           NEW choice \in SelectBillingRule(LoadCandidateRules(a, u, da, du), a, u, da, du)
    PROVE  /\ choice \in Selections
           /\ BestOf(choice, LoadCandidateRules(a, u, da, du),
                     [i \in RuleIds |-> Priority(table[i], a, u, da, du)])
  <1> DEFINE p == [i \in RuleIds |-> Priority(table[i], a, u, da, du)]
             rows == LoadCandidateRules(a, u, da, du)
  <1>1. p \in [RuleIds -> -1 .. 3] /\ \A i \in RuleIds : p[i] = Priority(table[i], a, u, da, du)
    BY PriorityType
  <1>2. rows \in SUBSET RuleIds /\ updated \in [RuleIds -> Nat]
    BY DEF LoadCandidateRules, PricingTypeOK
  <1>3. choice \in SelectBillingRule(rows, a, u, da, du)
    OBVIOUS
  <1> HIDE DEF p, rows
  <1>4. choice \in Selections /\ BestOf(choice, rows, p)
    BY <1>1, <1>2, <1>3, SelectedIsBest
  <1> QED BY <1>4 DEF p, rows

LEMMA InTierIs ==
    ASSUME NEW i \in RuleIds
    PROVE  LET Is(a, u, scope) == /\ table[i].enabled /\ table[i].scope = scope
                                  /\ table[i].auth = a /\ table[i].user = u
               a == Or(home, DefaultAuth)
               u == Or(Or(billed, member), DefaultUser)
           IN  /\ InTier(i, 1) <=> Is(a, u, "exact")
               /\ InTier(i, 2) <=> Is(a, u, "all")
               /\ InTier(i, 3) <=> Is(DefaultAuth, DefaultUser, "exact")
               /\ InTier(i, 4) <=> Is(DefaultAuth, DefaultUser, "all")
  BY DEF InTier, Tiers

\* A rule of the tier k is among the rows and has at least the priority 4 - k.
LEMMA TierHasPriority ==
    ASSUME PricingTypeOK, NEW i \in RuleIds, NEW k \in 1..4, InTier(i, k), NEW a, NEW u, NEW da, NEW du,
           \/ k \in 1..2 /\ a = Or(home, DefaultAuth) /\ u = Or(Or(billed, member), DefaultUser)
           \/ k \in 3..4 /\ da = DefaultAuth /\ du = DefaultUser
    PROVE  i \in LoadCandidateRules(a, u, da, du) /\ Priority(table[i], a, u, da, du) >= 4 - k
  <1>1. table[i].enabled
    BY DEF InTier
  <1>2. k \in {1, 2, 3, 4}
    OBVIOUS
  <1>3. CASE k = 1
    BY <1>1, <1>3, InTierIs, RuleType DEF LoadCandidateRules, Priority
  <1>4. CASE k = 2
    BY <1>1, <1>4, InTierIs, RuleType DEF LoadCandidateRules, Priority
  <1>5. CASE k = 3
    BY <1>1, <1>5, InTierIs, RuleType DEF LoadCandidateRules, Priority
  <1>6. CASE k = 4
    BY <1>1, <1>6, InTierIs, RuleType DEF LoadCandidateRules, Priority
  <1> QED BY <1>2, <1>3, <1>4, <1>5, <1>6

\* And a rule that has the priority n is one of the tier 4 - n.
LEMMA PriorityHasTier ==
    ASSUME PricingTypeOK, NEW i \in RuleIds, NEW a, NEW u, NEW da, NEW du,
           a = Or(home, DefaultAuth), u = Or(Or(billed, member), DefaultUser),
           NEW n \in 0..3, Priority(table[i], a, u, da, du) = n,
           <<da, du>> \in {<<DefaultAuth, DefaultUser>>, <<0, 0>>}
    PROVE  /\ 4 - n \in 1..4 /\ InTier(i, 4 - n)
           /\ da = 0 /\ du = 0 => 4 - n \in 1..2
  <1>1. n \in {0, 1, 2, 3}
    OBVIOUS
  <1>2. table[i].enabled /\ table[i].scope \in {"exact", "all"}
    <2>1. table[i].enabled
      BY DEF Priority
    <2> QED BY <2>1, RuleType DEF Priority, Scopes
  <1>3. CASE n = 0
    BY <1>2, <1>3, InTierIs DEF Priority
  <1>4. CASE n = 1
    BY <1>2, <1>4, InTierIs DEF Priority
  <1>5. CASE n = 2
    BY <1>2, <1>5, InTierIs DEF Priority
  <1>6. CASE n = 3
    BY <1>2, <1>6, InTierIs DEF Priority
  <1> QED BY <1>1, <1>3, <1>4, <1>5, <1>6
\* The choice that RuleIsBest demands.
BestChoice(choice) ==
    IF choice.id = 0 THEN \A i \in RuleIds, k \in 1..4 : ~InTier(i, k)
    ELSE \E k \in 1..4 :
           /\ InTier(choice.id, k)
           /\ \A i \in RuleIds, l \in 1 .. k - 1 : ~InTier(i, l)
           /\ \A i \in RuleIds : InTier(i, k) =>
                \/ updated[i] < updated[choice.id]
                \/ updated[i] = updated[choice.id] /\ i <= choice.id

\* A query for the rules gives it, when it finds one: the query for the groups of
\* the request alone, and the query that looks for the default groups as well.
LEMMA FoundIsBest ==
    ASSUME PricingTypeOK, NEW a, NEW u, NEW da, NEW du,
           a = Or(home, DefaultAuth), u = Or(Or(billed, member), DefaultUser),
           <<da, du>> \in {<<DefaultAuth, DefaultUser>>, <<0, 0>>},
           NEW choice \in SelectBillingRule(LoadCandidateRules(a, u, da, du), a, u, da, du),
           choice.id # 0
    PROVE  BestChoice(choice)
  <1> DEFINE p == [i \in RuleIds |-> Priority(table[i], a, u, da, du)]
             rows == LoadCandidateRules(a, u, da, du)
             n == choice.priority
             id == choice.id
  <1>1. choice \in Selections /\ BestOf(choice, rows, p)
    BY LookUp
  <1>2. /\ id \in RuleIds /\ n = p[id] /\ n \in 0..3
        /\ \A i \in rows : p[i] <= n /\ (p[i] = n => i = id \/ Replaces(id, i))
    <2>1. rows \subseteq RuleIds
      BY DEF LoadCandidateRules
    <2> HIDE DEF rows, p
    <2> QED BY <1>1, <2>1 DEF BestOf, Selections
  <1>3. /\ 4 - n \in 1..4 /\ InTier(id, 4 - n)
        /\ da = 0 /\ du = 0 => 4 - n \in 1..2
    <2>1. Priority(table[id], a, u, da, du) = n
      BY <1>2
    <2> HIDE DEF rows, p, n, id
    <2> QED BY <1>2, <2>1, PriorityHasTier
  \* No rule is of an earlier tier, and those of the same tier have the same priority.
  <1>4. ASSUME NEW i \in RuleIds, NEW k \in 1 .. 4 - n, InTier(i, k)
        PROVE  k = 4 - n /\ (i = id \/ Replaces(id, i))
    <2>1. k \in 1..4 /\ (k \in 1..2 \/ (da = DefaultAuth /\ du = DefaultUser))
      BY <1>2, <1>3
    <2>2. i \in LoadCandidateRules(a, u, da, du) /\ Priority(table[i], a, u, da, du) >= 4 - k
      <3>1. k \in 1..2 \/ k \in 3..4
        BY <2>1
      <3> QED BY <1>4, <2>1, <3>1, TierHasPriority
    <2>3. p[i] >= 4 - k /\ p[i] <= n /\ p[i] \in -1 .. 3
      BY <1>2, <2>2, PriorityType
    <2>4. k = 4 - n /\ p[i] = n
      <3> HIDE DEF p, n
      <3> QED BY <1>2, <1>4, <2>1, <2>3
    <2>5. i \in rows
      BY <2>2
    <2> HIDE DEF p, n, rows, id
    <2> QED BY <1>2, <2>4, <2>5
  <1>5. \A i \in RuleIds, l \in 1 .. (4 - n) - 1 : ~InTier(i, l)
    <2> SUFFICES ASSUME NEW i \in RuleIds, NEW l \in 1 .. (4 - n) - 1, InTier(i, l) PROVE FALSE
      OBVIOUS
    <2>1. l \in 1 .. 4 - n /\ l # 4 - n
      BY <1>2
    <2> QED BY <1>4, <2>1
  <1>6. \A i \in RuleIds : InTier(i, 4 - n) =>
           updated[i] < updated[id] \/ (updated[i] = updated[id] /\ i <= id)
    <2> SUFFICES ASSUME NEW i \in RuleIds, InTier(i, 4 - n)
                 PROVE  updated[i] < updated[id] \/ (updated[i] = updated[id] /\ i <= id)
      OBVIOUS
    <2>1. 4 - n \in 1 .. 4 - n
      BY <1>3
    <2>2. i = id \/ Replaces(id, i)
      BY <1>4, <2>1
    <2> HIDE DEF id, n
    <2>3. updated[i] \in Nat /\ updated[id] \in Nat /\ i \in Nat /\ id \in Nat
      BY <1>2 DEF PricingTypeOK
    <2> QED BY <2>2, <2>3 DEF Replaces
  <1> HIDE DEF p, rows, n
  <1> QED BY <1>3, <1>5, <1>6 DEF BestChoice

\* The query for all groups misses no rule of a tier that it covers.
LEMMA NoneIsMissed ==
    ASSUME PricingTypeOK, NEW a, NEW u, NEW i \in RuleIds, NEW k \in 1..4, InTier(i, k),
           k \in 3..4 \/ (a = Or(home, DefaultAuth) /\ u = Or(Or(billed, member), DefaultUser)),
           NEW choice \in SelectBillingRule(LoadCandidateRules(a, u, DefaultAuth, DefaultUser),
                                           a, u, DefaultAuth, DefaultUser)
    PROVE  choice.id # 0
  <1> DEFINE p == [j \in RuleIds |-> Priority(table[j], a, u, DefaultAuth, DefaultUser)]
             rows == LoadCandidateRules(a, u, DefaultAuth, DefaultUser)
  <1>1. BestOf(choice, rows, p)
    BY LookUp
  <1>2. i \in rows /\ Priority(table[i], a, u, DefaultAuth, DefaultUser) >= 4 - k
    <2>1. k \in 1..2 \/ k \in 3..4
      OBVIOUS
    <2> QED BY <2>1, TierHasPriority
  <1>3. p[i] >= 4 - k
    BY <1>2
  <1>4. p[i] # -1
    BY <1>3
  <1> HIDE DEF p, rows
  <1> QED BY <1>1, <1>2, <1>4 DEF BestOf
-----------------------------------------------------------------------------
LEMMA PricingStarts == PricingInit => PricingInv /\ RuleIsBest /\ DefaultRuleCounts
  <1> SUFFICES ASSUME PricingInit PROVE PricingInv /\ RuleIsBest /\ DefaultRuleCounts
    OBVIOUS
  <1>1. table \in [RuleIds -> Contents \cup {NoRule}]
    BY DEF PricingInit
  <1>2. PricingTypeOK
    <2>1. /\ updated \in [RuleIds -> Nat]
          /\ base \in [auth : AuthGroupIds \cup {0}, user : UserGroupIds \cup {0}]
      BY DEF PricingInit
    <2>2. result \in Selections
      BY DEF PricingInit, Selections, Nothing
    <2> QED BY <1>1, <2>1, <2>2 DEF PricingInit, PricingTypeOK, Stages
  <1>3. FoundGroups /\ FoundDefaults
    BY DEF PricingInit, FoundGroups, FoundDefaults
  <1> QED BY <1>2, <1>3 DEF PricingInv, PricingInit, RuleIsBest, DefaultRuleCounts

\* What a query leaves alone keeps its type, and the tables say what they said.
LEMMA AskTypes ==
    ASSUME PricingTypeOK, NEW next \in Stages, Ask(next),
           auth' \in AuthGroupIds \cup {0}, user' \in UserGroupIds \cup {0},
           base' \in [auth : AuthGroupIds \cup {0}, user : UserGroupIds \cup {0}],
           result' \in Selections, fault' \in BOOLEAN
    PROVE  PricingTypeOK'
  BY DEF PricingTypeOK, Ask, groups

LEMMA AskKeeps ==
    ASSUME NEW next, Ask(next)
    PROVE  /\ stage' = next /\ DefaultAuth' = DefaultAuth /\ DefaultUser' = DefaultUser
           /\ UNCHANGED <<authGroups, authDefaults, userGroups, userDefaults,
                          home, member, billed, settled, unmoved>>
  BY DEF Ask, groups, DefaultAuth, DefaultUser

LEMMA FreeKeepsInv == ASSUME PricingInv, Free PROVE PricingInv'
  <1>1. Ask("done") /\ "done" \in Stages /\ Nothing \in Selections
    BY DEF Free, Stages, Selections, Nothing
  <1>2. PricingTypeOK'
    BY <1>1, AskTypes DEF PricingInv, PricingTypeOK, Free
  <1>3. FoundGroups' /\ FoundDefaults'
    BY <1>1, AskKeeps DEF Free, FoundGroups, FoundDefaults
  <1> QED BY <1>2, <1>3 DEF PricingInv

\* The calculation ends with a rule that was selected.
LEMMA ChargeKeepsInv ==
    ASSUME PricingInv, NEW choice \in Selections, Ask("done"), Charge(choice)
    PROVE  PricingInv'
  <1>1. "done" \in Stages
    BY DEF Stages
  <1>2. PricingTypeOK'
    BY <1>1, AskTypes DEF PricingInv, PricingTypeOK, Charge
  <1>3. FoundGroups' /\ FoundDefaults'
    BY AskKeeps DEF FoundGroups, FoundDefaults
  <1> QED BY <1>2, <1>3 DEF PricingInv

LEMMA QueriesKeepInv == ASSUME PricingInv, CalculateCost PROVE PricingInv'
  <1> USE DEF PricingInv
  <1>1. CASE FindAuth
    <2>1. PricingTypeOK'
      BY <1>1, AskTypes DEF FindAuth, PricingTypeOK, Stages
    <2> QED BY <1>1, <2>1, AskKeeps DEF FindAuth, FoundGroups, FoundDefaults
  <1>2. CASE FindUser
    <2>1. PICK next : Ask(next)
      BY <1>2 DEF FindUser
    <2>2. stage' \in {"again", "primary", "defaultAuth"} /\ user' \in {member, billed, 0}
          /\ fault' \in BOOLEAN /\ UNCHANGED <<auth, base, result>>
      BY <1>2 DEF FindUser, Ask, Onward, PricingTypeOK
    <2>3. PricingTypeOK'
      BY <2>1, <2>2, AskKeeps, AskTypes DEF PricingTypeOK, Stages
    <2>4. stage' = "again" => billed' = 0
      BY <1>2 DEF FindUser, Ask, Onward
    <2>5. stage' = "primary" => auth' # 0 /\ user' # 0
      BY <1>2 DEF FindUser, Ask, Onward
    <2>6. unmoved' /\ ~fault' => auth' = home' /\ (stage' # "again" => user' = Or(billed, member)')
      <3>1. unmoved' = unmoved /\ home' = home /\ billed' = billed /\ member' = member
        BY <2>1 DEF Ask
      <3>2. unmoved /\ ~fault => auth = home
        BY <1>2 DEF FindUser, FoundGroups
      <3>3. ~fault' => ~fault
        BY <1>2 DEF FindUser, PricingTypeOK
      <3>4. ~fault' /\ stage' # "again" => user' = Or(billed, member)
        <4>1. CASE stage = "user" /\ billed # 0 /\ user' = billed
          BY <4>1 DEF Or
        <4>2. CASE (stage = "again" \/ billed = 0) /\ (user' = member \/ fault')
          <5>1. billed = 0
            BY <4>2 DEF FoundGroups
          <5> QED BY <4>2, <5>1 DEF Or
        <4> QED BY <1>2, <4>1, <4>2 DEF FindUser
      <3> QED BY <2>2, <3>1, <3>2, <3>3, <3>4 DEF Or
    <2>7. FoundGroups'
      BY <2>2, <2>4, <2>5, <2>6 DEF FoundGroups
    <2>8. FoundDefaults'
      <3>1. settled' = settled /\ (~fault' => ~fault) /\ stage \in {"user", "again"}
        BY <1>2, <2>1 DEF FindUser, Ask, PricingTypeOK
      <3> QED BY <2>2, <3>1 DEF FoundDefaults
    <2> QED BY <2>3, <2>7, <2>8
  <1>3. CASE FindPrimary
    <2>1. CASE Free
      BY <2>1, FreeKeepsInv
    <2>2. ASSUME NEW choice \in SelectBillingRule(LoadCandidateRules(auth, user, 0, 0), auth, user, 0, 0),
                 Ask(IF choice.id # 0 THEN "done" ELSE "defaultAuth"), Charge(choice),
                 stage = "primary"
          PROVE  PricingInv'
      <3>1. choice \in Selections
        BY LookUp
      <3>2. CASE choice.id # 0
        BY <2>2, <3>1, <3>2, ChargeKeepsInv
      <3>3. CASE choice.id = 0
        <4>1. Ask("defaultAuth") /\ "defaultAuth" \in Stages /\ stage' = "defaultAuth"
          BY <2>2, <3>3, AskKeeps DEF Stages
        <4>2. PricingTypeOK'
          BY <2>2, <3>1, <4>1, AskTypes DEF PricingTypeOK, Charge
        <4>3. FoundGroups' /\ FoundDefaults'
          BY <2>2, <4>1, AskKeeps DEF Charge, FoundGroups, FoundDefaults, Or
        <4> QED BY <4>2, <4>3
      <3> QED BY <3>2, <3>3
    <2> QED BY <1>3, <2>1, <2>2 DEF FindPrimary
  <1>4. CASE FindDefaultAuth
    <2>1. PICK next \in {"anyAuth", "defaultUser"} : Ask(next)
      BY <1>4 DEF FindDefaultAuth
    <2>2. stage' = next /\ UNCHANGED <<auth, user, result, fault>> /\ stage \in {"defaultAuth", "anyAuth"}
      BY <1>4, <2>1, AskKeeps DEF FindDefaultAuth
    <2>3. base' \in [auth : AuthGroupIds \cup {0}, user : UserGroupIds \cup {0}] /\ base'.user = base.user
      <3>1. authDefaults \in SUBSET Nat /\ authGroups \in SUBSET Nat
        BY DEF PricingTypeOK
      <3>2. ASSUME NEW rows \in {authDefaults, authGroups}, rows # {} PROVE Min(rows) \in AuthGroupIds
        BY <3>1, <3>2, LeastOf DEF PricingTypeOK
      <3>3. CASE base' = base
        BY <3>3 DEF PricingTypeOK
      <3>4. CASE \E rows \in {authDefaults, authGroups} :
                   rows # {} /\ base' = [base EXCEPT !.auth = Min(rows)]
        BY <3>2, <3>4 DEF PricingTypeOK
      <3>5. base' = base \/ \E rows \in {authDefaults, authGroups} :
                               rows # {} /\ base' = [base EXCEPT !.auth = Min(rows)]
        BY <1>4 DEF FindDefaultAuth
      <3> QED BY <3>3, <3>4, <3>5
    <2>4. settled /\ ~fault => /\ next = "anyAuth" => authDefaults = {} /\ base' = base
                               /\ next = "defaultUser" => base'.auth = DefaultAuth
      <3>1. base.auth \in AuthGroupIds \cup {0} /\ base = [auth |-> base.auth, user |-> base.user]
        BY DEF PricingTypeOK
      <3>2. settled /\ ~fault => base.auth = 0 /\ (stage = "anyAuth" => authDefaults = {})
        BY <2>2 DEF FoundDefaults
      <3>3. stage = "defaultAuth" /\ next = "defaultUser" => authDefaults # {} /\ base'.auth = Min(authDefaults)
        BY <1>4, <2>2, <3>1, AskKeeps DEF FindDefaultAuth
      <3>4. next = "anyAuth" => authDefaults = {} /\ base' = base
        BY <1>4, <2>2, AskKeeps DEF FindDefaultAuth
      <3>5. stage = "anyAuth" => base'.auth = IF authGroups # {} THEN Min(authGroups) ELSE base.auth
        BY <1>4, <3>1 DEF FindDefaultAuth
      <3> QED BY <2>2, <3>2, <3>3, <3>4, <3>5 DEF DefaultAuth, DefaultOf
    <2>5. PricingTypeOK'
      BY <2>1, <2>2, <2>3, AskTypes DEF PricingTypeOK, Stages
    <2>6. FoundGroups'
      BY <2>1, <2>2, AskKeeps DEF FoundGroups, Or
    <2>7. FoundDefaults'
      BY <2>1, <2>2, <2>3, <2>4, AskKeeps DEF FoundDefaults
    <2> QED BY <2>5, <2>6, <2>7
  <1>5. CASE FindDefaultUser
    <2>1. PICK next \in {"anyUser", "rules"} : Ask(next)
      BY <1>5 DEF FindDefaultUser
    <2>2. stage' = next /\ UNCHANGED <<auth, user, result, fault>> /\ stage \in {"defaultUser", "anyUser"}
      BY <1>5, <2>1, AskKeeps DEF FindDefaultUser
    <2>3. base' \in [auth : AuthGroupIds \cup {0}, user : UserGroupIds \cup {0}] /\ base'.auth = base.auth
      <3>1. userDefaults \in SUBSET Nat /\ userGroups \in SUBSET Nat
        BY DEF PricingTypeOK
      <3>2. ASSUME NEW rows \in {userDefaults, userGroups}, rows # {} PROVE Min(rows) \in UserGroupIds
        BY <3>1, <3>2, LeastOf DEF PricingTypeOK
      <3>3. CASE base' = base
        BY <3>3 DEF PricingTypeOK
      <3>4. CASE \E rows \in {userDefaults, userGroups} :
                   rows # {} /\ base' = [base EXCEPT !.user = Min(rows)]
        BY <3>2, <3>4 DEF PricingTypeOK
      <3>5. base' = base \/ \E rows \in {userDefaults, userGroups} :
                               rows # {} /\ base' = [base EXCEPT !.user = Min(rows)]
        BY <1>5 DEF FindDefaultUser
      <3> QED BY <3>3, <3>4, <3>5
    <2>4. settled /\ ~fault => /\ next = "anyUser" => userDefaults = {} /\ base' = base
                               /\ next = "rules" => base'.user = DefaultUser
      <3>1. base.user \in UserGroupIds \cup {0} /\ base = [auth |-> base.auth, user |-> base.user]
        BY DEF PricingTypeOK
      <3>2. settled /\ ~fault => base.user = 0 /\ (stage = "anyUser" => userDefaults = {})
        BY <2>2 DEF FoundDefaults
      <3>3. stage = "defaultUser" /\ next = "rules" => userDefaults # {} /\ base'.user = Min(userDefaults)
        BY <1>5, <2>2, <3>1, AskKeeps DEF FindDefaultUser
      <3>4. next = "anyUser" => userDefaults = {} /\ base' = base
        BY <1>5, <2>2, AskKeeps DEF FindDefaultUser
      <3>5. stage = "anyUser" => base'.user = IF userGroups # {} THEN Min(userGroups) ELSE base.user
        BY <1>5, <3>1 DEF FindDefaultUser
      <3> QED BY <2>2, <3>2, <3>3, <3>4, <3>5 DEF DefaultUser, DefaultOf
    <2>5. PricingTypeOK'
      BY <2>1, <2>2, <2>3, AskTypes DEF PricingTypeOK, Stages
    <2>6. FoundGroups'
      BY <2>1, <2>2, AskKeeps DEF FoundGroups, Or
    <2>7. FoundDefaults'
      BY <2>1, <2>2, <2>3, <2>4, AskKeeps DEF FoundDefaults
    <2> QED BY <2>5, <2>6, <2>7
  <1>6. CASE DefaultFails
    BY <1>6, FreeKeepsInv DEF DefaultFails
  <1>7. CASE FindRules
    <2> DEFINE a == Or(auth, base.auth)
               u == Or(user, base.user)
    <2>1. CASE Free
      BY <2>1, FreeKeepsInv
    <2>2. CASE Ask("done") /\ Charge(Nothing)
      <3>1. Nothing \in Selections
        BY DEF Nothing, Selections
      <3> QED BY <2>2, <3>1, ChargeKeepsInv
    <2>3. ASSUME NEW choice \in SelectBillingRule(LoadCandidateRules(a, u, base.auth, base.user),
                                                 a, u, base.auth, base.user),
                 Ask("done"), Charge(choice)
          PROVE  PricingInv'
      <3>1. choice \in Selections
        <4> HIDE DEF a, u
        <4> QED BY LookUp
      <3> QED BY <2>3, <3>1, ChargeKeepsInv
    <2> QED BY <1>7, <2>1, <2>2, <2>3 DEF FindRules
  <1> QED BY <1>1, <1>2, <1>3, <1>4, <1>5, <1>6, <1>7 DEF CalculateCost

\* An edit between the queries: what it touches is no longer claimed to be found.
LEMMA EditsKeepInv == ASSUME PricingInv, PricingEdit PROVE PricingInv'
  <1> USE DEF PricingInv
  <1>1. Edited
    BY DEF PricingEdit, WriteRule, DeleteRule, EditAuthGroups, EditUserGroups, Move
  <1>2. UNCHANGED <<stage, auth, user, base, result, billed, fault>> /\ changes' \in Nat
    BY <1>1 DEF Edited, calculation, PricingTypeOK
  <1>3. ASSUME NEW i \in RuleIds,
               (\E w \in Written \cup Toggled(table[i]) : WriteRule(i, w)) \/ DeleteRule(i)
        PROVE  PricingInv'
    <2>1. UNCHANGED <<authGroups, userGroups, authDefaults, userDefaults, home, member, settled, unmoved>>
      BY <1>3 DEF WriteRule, DeleteRule, groups
    <2>3. table' \in [RuleIds -> Contents \cup {NoRule}] /\ updated' \in [RuleIds -> Nat]
      <3>1. CASE DeleteRule(i)
        BY <3>1 DEF DeleteRule, PricingTypeOK
      <3>2. ASSUME NEW w \in Written \cup Toggled(table[i]), WriteRule(i, w)
            PROVE  table' \in [RuleIds -> Contents \cup {NoRule}] /\ updated' \in [RuleIds -> Nat]
        <4>1. w \in Contents
          <5>1. CASE w \in Written
            BY <5>1
          <5>2. CASE w \in Toggled(table[i])
            BY <5>2 DEF Toggled, PricingTypeOK, Contents
          <5> QED BY <5>1, <5>2
        <4>2. table' = [table EXCEPT ![i] = w] /\ updated' = [updated EXCEPT ![i] = 2 + changes]
          BY <3>2 DEF WriteRule
        <4>3. 2 + changes \in Nat /\ table \in [RuleIds -> Contents \cup {NoRule}]
              /\ updated \in [RuleIds -> Nat]
          BY DEF PricingTypeOK
        <4> HIDE DEF PricingInv
        <4> QED BY <4>1, <4>2, <4>3
      <3> QED BY <1>3, <3>1, <3>2
    <2>4. DefaultAuth' = DefaultAuth /\ DefaultUser' = DefaultUser
      BY <2>1 DEF DefaultAuth, DefaultUser
    <2>5. PricingTypeOK'
      BY <1>2, <2>1, <2>3 DEF PricingTypeOK
    <2> QED BY <1>2, <2>1, <2>4, <2>5 DEF FoundGroups, FoundDefaults, Or
  <1>4. ASSUME NEW all \in SUBSET AuthGroupIds, NEW d \in SUBSET all, EditAuthGroups(all, d)
        PROVE  PricingInv'
    <2>1. PricingTypeOK'
      BY <1>2, <1>4 DEF EditAuthGroups, PricingTypeOK
    <2>2. UNCHANGED <<home, member, unmoved>> /\ settled' = FALSE
      BY <1>4 DEF EditAuthGroups
    <2>3. FoundGroups' /\ FoundDefaults'
      BY <1>2, <2>2 DEF FoundGroups, FoundDefaults, Or
    <2> QED BY <2>1, <2>3
  <1>5. ASSUME NEW all \in SUBSET UserGroupIds, NEW d \in SUBSET all, EditUserGroups(all, d)
        PROVE  PricingInv'
    <2>1. PricingTypeOK'
      BY <1>2, <1>5 DEF EditUserGroups, PricingTypeOK
    <2>2. UNCHANGED <<home, member, unmoved>> /\ settled' = FALSE
      BY <1>5 DEF EditUserGroups
    <2>3. FoundGroups' /\ FoundDefaults'
      BY <1>2, <2>2 DEF FoundGroups, FoundDefaults, Or
    <2> QED BY <2>1, <2>3
  <1>6. ASSUME NEW g \in AuthGroupIds \cup {0}, NEW u \in UserGroupIds \cup {0}, Move(g, u)
        PROVE  PricingInv'
    <2>1. PricingTypeOK'
      BY <1>2, <1>6 DEF Move, groups, PricingTypeOK
    <2>2. DefaultAuth' = DefaultAuth /\ DefaultUser' = DefaultUser /\ unmoved' = FALSE
          /\ UNCHANGED <<settled, authDefaults, userDefaults>>
      BY <1>6 DEF Move, groups, DefaultAuth, DefaultUser
    <2>3. FoundGroups' /\ FoundDefaults'
      BY <1>2, <2>2 DEF FoundGroups, FoundDefaults
    <2> QED BY <2>1, <2>3
  <1> QED BY <1>3, <1>4, <1>5, <1>6 DEF PricingEdit

LEMMA StutterKeepsPricing ==
    ASSUME UNCHANGED pricingVars
    PROVE  /\ PricingInv => PricingInv'
           /\ RuleIsBest => RuleIsBest'
           /\ DefaultRuleCounts => DefaultRuleCounts'
  <1> USE DEF pricingVars, groups, calculation
  <1>1. DefaultAuth' = DefaultAuth /\ DefaultUser' = DefaultUser
    BY DEF DefaultAuth, DefaultUser
  <1>2. PricingInv => PricingInv'
    BY <1>1 DEF PricingInv, PricingTypeOK, FoundGroups, FoundDefaults, Or
  <1>3. \A i, k : InTier(i, k)' <=> InTier(i, k)
    BY <1>1 DEF InTier, Tiers, Or
  <1> QED BY <1>2, <1>3 DEF RuleIsBest, DefaultRuleCounts

LEMMA PricingStep == PricingInv /\ [PricingNext]_pricingVars => PricingInv'
  BY QueriesKeepInv, EditsKeepInv, StutterKeepsPricing DEF PricingNext

\* Only a query ends the calculation, and nothing is edited afterwards.
LEMMA Ends ==
    ASSUME PricingInv, PricingNext, stage' = "done", ~fault'
    PROVE  /\ FindPrimary \/ FindRules
           /\ UNCHANGED <<table, updated, authGroups, authDefaults, userGroups, userDefaults,
                          home, member, billed, settled, unmoved>>
           /\ ~fault
  <1>1. stage # "done"
    BY DEF PricingNext, CalculateCost, FindAuth, FindUser, FindPrimary, FindDefaultAuth, FindDefaultUser,
           DefaultFails, FindRules, PricingEdit, WriteRule, DeleteRule, EditAuthGroups, EditUserGroups, Move, Edited
  <1>2. ~PricingEdit
    BY <1>1 DEF PricingEdit, WriteRule, DeleteRule, EditAuthGroups, EditUserGroups, Move, Edited, calculation
  <1>3. ~FindAuth /\ ~FindUser /\ ~FindDefaultAuth /\ ~FindDefaultUser /\ ~DefaultFails
    BY DEF FindAuth, FindUser, FindDefaultAuth, FindDefaultUser, DefaultFails, Free, Ask, Onward
  <1>4. FindPrimary \/ FindRules
    BY <1>2, <1>3 DEF PricingNext, CalculateCost
  <1>5. \E next : Ask(next)
    BY <1>4 DEF FindPrimary, FindRules, Free
  <1>6. ~fault
    BY <1>4 DEF FindPrimary, FindRules, Free, Charge
  <1> QED BY <1>4, <1>5, <1>6 DEF Ask, groups

LEMMA BestStep == PricingInv /\ RuleIsBest /\ [PricingNext]_pricingVars => RuleIsBest'
  <1>1. CASE UNCHANGED pricingVars
    BY <1>1, StutterKeepsPricing
  <1> SUFFICES ASSUME PricingInv, PricingNext, (stage = "done" /\ settled /\ unmoved /\ ~fault)'
               PROVE  RuleIsBest'
    BY <1>1 DEF RuleIsBest
  <1>2. /\ FindPrimary \/ FindRules
        /\ UNCHANGED <<table, updated, authGroups, authDefaults, userGroups, userDefaults,
                       home, member, billed, settled, unmoved>>
        /\ ~fault /\ settled /\ unmoved
    BY Ends
  <1> DEFINE best == BestChoice(result')
  <1>3. ASSUME best PROVE RuleIsBest'
    <2>1. DefaultAuth' = DefaultAuth /\ DefaultUser' = DefaultUser
      BY <1>2 DEF DefaultAuth, DefaultUser
    <2>2. \A i, k : InTier(i, k)' <=> InTier(i, k)
      BY <1>2, <2>1 DEF InTier, Tiers, Or
    <2>3. updated' = updated
      BY <1>2
    <2>4. IF result'.id = 0 THEN \A i \in RuleIds, k \in 1..4 : ~InTier(i, k)
          ELSE \E k \in 1..4 :
               /\ InTier(result'.id, k)
               /\ \A i \in RuleIds, l \in 1 .. k - 1 : ~InTier(i, l)
               /\ \A i \in RuleIds : InTier(i, k) =>
                    \/ updated[i] < updated[result'.id]
                    \/ updated[i] = updated[result'.id] /\ i <= result'.id
      BY <1>3 DEF BestChoice
    <2> QED BY <2>2, <2>3, <2>4 DEF RuleIsBest
  <1>4. CASE FindPrimary
    <2>1. stage = "primary" /\ auth # 0 /\ user # 0 /\ auth = home /\ user = Or(billed, member)
      BY <1>2, <1>4 DEF FindPrimary, PricingInv, FoundGroups
    <2>2. PICK choice \in SelectBillingRule(LoadCandidateRules(auth, user, 0, 0), auth, user, 0, 0) :
            result' = choice /\ choice.id # 0
      BY <1>4 DEF FindPrimary, Free, Ask, Charge
    <2>3. auth = Or(home, DefaultAuth) /\ user = Or(Or(billed, member), DefaultUser)
      BY <2>1 DEF Or
    <2>4. BestChoice(choice)
      BY <2>2, <2>3, FoundIsBest DEF PricingInv
    <2> QED BY <1>3, <2>2, <2>4
  <1>5. CASE FindRules
    <2> DEFINE a == Or(auth, base.auth)
               u == Or(user, base.user)
    <2>1. /\ stage = "rules" /\ auth = home /\ user = Or(billed, member)
          /\ base.auth = DefaultAuth /\ base.user = DefaultUser
      BY <1>2, <1>5 DEF FindRules, PricingInv, FoundGroups, FoundDefaults
    <2>2. a = Or(home, DefaultAuth) /\ u = Or(Or(billed, member), DefaultUser)
      BY <2>1
    <2>3. CASE 0 \in {a, u} /\ result' = Nothing
      <3>1. ASSUME NEW i \in RuleIds, NEW k \in 1..4, InTier(i, k) PROVE FALSE
        <4>1. table[i].enabled
          BY <3>1 DEF InTier
        <4>2. table[i].auth # 0 /\ table[i].user # 0
          BY <4>1, RuleType DEF PricingInv
        <4>3. k \in {1, 2, 3, 4}
          OBVIOUS
        <4>4. <<table[i].auth, table[i].user>> \in {<<a, u>>, <<DefaultAuth, DefaultUser>>}
          <5> HIDE DEF a, u
          <5> QED BY <2>2, <3>1, <4>3, InTierIs
        <4>5. (DefaultAuth # 0 => a # 0) /\ (DefaultUser # 0 => u # 0)
          BY <2>2 DEF Or
        <4> HIDE DEF a, u
        <4> QED BY <2>3, <4>2, <4>4, <4>5
      <3>2. BestChoice(Nothing)
        BY <3>1 DEF BestChoice, Nothing
      <3> QED BY <1>3, <2>3, <3>2
    <2>4. ASSUME NEW choice \in SelectBillingRule(LoadCandidateRules(a, u, DefaultAuth, DefaultUser),
                                                 a, u, DefaultAuth, DefaultUser),
                 result' = choice
          PROVE  RuleIsBest'
      <3> HIDE DEF a, u
      <3>1. CASE choice.id # 0
        <4>1. BestChoice(choice)
          BY <2>2, <3>1, FoundIsBest DEF PricingInv
        <4> QED BY <1>3, <2>4, <4>1
      <3>2. CASE choice.id = 0
        <4>1. \A i \in RuleIds, k \in 1..4 : ~InTier(i, k)
          BY <2>2, <3>2, NoneIsMissed DEF PricingInv
        <4>2. BestChoice(choice)
          BY <3>2, <4>1 DEF BestChoice
        <4> QED BY <1>3, <2>4, <4>2
      <3> QED BY <3>1, <3>2
    <2>5. \/ 0 \in {a, u} /\ result' = Nothing
          \/ \E choice \in SelectBillingRule(LoadCandidateRules(a, u, DefaultAuth, DefaultUser),
                                             a, u, DefaultAuth, DefaultUser) : result' = choice
      BY <1>5, <2>1 DEF FindRules, Free, Charge
    <2> HIDE DEF a, u
    <2> QED BY <2>3, <2>4, <2>5
  <1> QED BY <1>2, <1>4, <1>5

LEMMA DefaultStep == PricingInv /\ DefaultRuleCounts /\ [PricingNext]_pricingVars => DefaultRuleCounts'
  <1>1. CASE UNCHANGED pricingVars
    BY <1>1, StutterKeepsPricing
  <1> SUFFICES ASSUME PricingInv, PricingNext, (stage = "done" /\ settled /\ ~fault)',
                      NEW i \in RuleIds, NEW k \in 3..4, InTier(i, k)'
               PROVE  result'.id # 0
    BY <1>1 DEF DefaultRuleCounts
  <1>2. /\ FindPrimary \/ FindRules
        /\ UNCHANGED <<table, updated, authGroups, authDefaults, userGroups, userDefaults,
                       home, member, billed, settled, unmoved>>
        /\ ~fault /\ settled
    BY Ends
  <1>3. InTier(i, k)
    <2>1. DefaultAuth' = DefaultAuth /\ DefaultUser' = DefaultUser
      BY <1>2 DEF DefaultAuth, DefaultUser
    <2> QED BY <1>2, <2>1 DEF InTier, Tiers, Or
  <1>4. CASE FindPrimary
    BY <1>4 DEF FindPrimary, Free, Ask, Charge
  <1>5. CASE FindRules
    <2> DEFINE a == Or(auth, base.auth)
               u == Or(user, base.user)
    <2>1. base.auth = DefaultAuth /\ base.user = DefaultUser
      BY <1>2, <1>5 DEF FindRules, PricingInv, FoundDefaults
    <2>2. DefaultAuth # 0 /\ DefaultUser # 0
      <3>1. table[i].enabled /\ table[i].auth # 0 /\ table[i].user # 0
        BY <1>3, RuleType DEF InTier, PricingInv
      <3>2. k \in {3, 4}
        OBVIOUS
      <3> QED BY <1>3, <3>1, <3>2, InTierIs
    <2>3. a # 0 /\ u # 0
      BY <2>1, <2>2 DEF Or
    <2>4. PICK choice \in SelectBillingRule(LoadCandidateRules(a, u, DefaultAuth, DefaultUser),
                                           a, u, DefaultAuth, DefaultUser) : result' = choice
      BY <1>5, <2>1, <2>3 DEF FindRules, Free, Charge
    <2> HIDE DEF a, u
    <2>5. k \in 1..4
      OBVIOUS
    <2> QED BY <1>3, <2>4, <2>5, NoneIsMissed DEF PricingInv
  <1> QED BY <1>2, <1>4, <1>5

\* The request pays the best rule of the tables, although its groups, the defaults
\* and the rules are read by queries of their own, rows come in any order, and rules
\* are edited in between: for any rules, groups and number of edits.
THEOREM BestRulePays == PricingSpec => []RuleIsBest
  BY PricingStarts, PricingStep, BestStep, PTL DEF PricingSpec

\* Nor is a request free when the default groups have a rule, while credential and
\* user move from group to group.
THEOREM DefaultRulePays == PricingSpec => []DefaultRuleCounts
  BY PricingStarts, PricingStep, DefaultStep, PTL DEF PricingSpec
-----------------------------------------------------------------------------
\* The resolution of a limit.
USE DEF Levels

LEMMA Ranks ==
    /\ Rank("bill") = 1 /\ Rank("mapping") = 2 /\ Rank("user") = 3
    /\ Rank("userGroup") = 4 /\ Rank("auth") = 5
    /\ Rank("authGroup") = 6 /\ Rank("global") = 7
  <1>1. DOMAIN Order = 1..7
    BY DEF Order
  <1> DEFINE At(l, n) == \A i \in DOMAIN Order : Order[i] = l <=> i = n
  <1>2. /\ At("bill", 1) /\ At("mapping", 2) /\ At("user", 3) /\ At("userGroup", 4)
        /\ At("auth", 5) /\ At("authGroup", 6) /\ At("global", 7)
    BY <1>1 DEF Order
  <1>3. ASSUME NEW l, NEW n \in 1..7, At(l, n) PROVE Rank(l) = n
    BY <1>1, <1>3 DEF Rank
  <1> QED BY <1>2, <1>3

\* What applies throughout comes no earlier than what is looked at next, and the
\* group that is looked at next is one that the row has named.
LimitInv ==
    /\ TypeOK
    /\ \A l \in steady : limit[l] > 0
    /\ \A l \in GroupLevels : \A g \in named[l] : Limited(l, g)
    /\ \A l \in GroupLevels : named[l] # {} => primary[l] \in named[l]
    /\ step \in GroupLevels => groupID # 0
    /\ step \in GroupLevels /\ named[step] # {} => groupID \in named[step]
    /\ step \in Levels => \A l \in Levels : AppliesThroughout(l) => Rank(step) <= Rank(l)
    /\ SteadyLevelIsRespected

LEMMA LimitInit == Init => LimitInv
  <1> SUFFICES ASSUME Init PROVE LimitInv
    OBVIOUS
  <1>1. TypeOK
    <2>1. step \in Levels
      BY DEF Init, Levels, OwnLevels
    <2>2. \A l \in GroupLevels : {g \in {primary[l]} : Limited(l, g)} \in SUBSET LimitGroups
      BY DEF Init, Limited
    <2> QED BY <2>1, <2>2 DEF Init, TypeOK
  <1>2. \A l \in Levels : Rank(step) <= Rank(l)
    BY Ranks DEF Init, Levels, OwnLevels, GroupLevels
  <1> QED BY <1>1, <1>2 DEF Init, LimitInv, SteadyLevelIsRespected, GroupLevels

\* An answer of a level: it decides, or what applies throughout comes later.
LEMMA AnswerKeepsInv ==
    ASSUME LimitInv, NEW level \in Levels, step = level, NEW n \in Limits,
           NEW next \in Levels \cup {"done"}, Answer(level, n, next),
           UNCHANGED <<limits, history>>, groupID' \in LimitGroups \cup {0},
           next \in GroupLevels => groupID' # 0 /\ (named[next] # {} => groupID' \in named[next]),
           n <= 0 => \A l \in Levels : AppliesThroughout(l) =>
                        next # "done" /\ Rank(next) <= Rank(l)
    PROVE  LimitInv'
  <1> USE DEF LimitInv, limits, history
  <1>1. n \in Int /\ step \in Levels
    BY RateResolveAssumption
  <1>2. \A l \in Levels : AppliesThroughout(l)' <=> AppliesThroughout(l)
    BY DEF AppliesThroughout
  <1>3. CASE n > 0 /\ step' = "done" /\ decision' = [level |-> level, limit |-> n]
    <2>1. TypeOK'
      BY <1>3 DEF TypeOK
    <2>2. SteadyLevelIsRespected'
      BY <1>2, <1>3 DEF SteadyLevelIsRespected
    <2>3. step' \notin Levels
      BY <1>3 DEF Levels, OwnLevels, GroupLevels
    <2> QED BY <2>1, <2>2, <2>3 DEF Limited, Levels
  <1>4. CASE n <= 0 /\ step' = next /\ UNCHANGED decision
    <2>1. TypeOK'
      BY <1>4 DEF TypeOK
    <2>2. SteadyLevelIsRespected'
      BY <1>2, <1>4 DEF SteadyLevelIsRespected
    <2> QED BY <1>2, <1>4, <2>1, <2>2 DEF Limited
  <1> QED BY <1>3, <1>4 DEF Answer

\* A level that answers with no limit does not apply throughout.
LEMMA OwnLevelEmpty ==
    ASSUME LimitInv, NEW l \in OwnLevels, limit[l] <= 0 PROVE ~AppliesThroughout(l)
  <1>1. limit[l] \in Limits
    BY DEF LimitInv, TypeOK
  <1>3. ~(limit[l] > 0)
    <2>1. limit[l] \in Int
      BY <1>1, RateResolveAssumption
    <2> DEFINE n == limit[l]
    <2>2. n \in Int /\ n <= 0
      BY <2>1
    <2> HIDE DEF n
    <2>3. ~(n > 0)
      BY <2>2
    <2> QED BY <2>3 DEF n
  <1>2. l \notin GroupLevels
    BY DEF OwnLevels, GroupLevels
  <1> QED BY <1>2, <1>3 DEF LimitInv, AppliesThroughout

LEMMA GroupLevelEmpty ==
    ASSUME LimitInv, NEW l \in GroupLevels, step = l, groupLimit[l][groupID] <= 0
    PROVE  ~AppliesThroughout(l)
  <1> SUFFICES ASSUME named[l] # {} PROVE FALSE
    BY DEF AppliesThroughout
  <1>1. groupID \in named[l] /\ Limited(l, groupID)
    BY DEF LimitInv
  <1>2. groupLimit[l][groupID] \in Int
    <2>1. groupID \in LimitGroups
      BY <1>1 DEF LimitInv, TypeOK
    <2>2. groupLimit[l][groupID] \in Limits
      BY <2>1 DEF LimitInv, TypeOK
    <2> QED BY <2>2, RateResolveAssumption
  <1> QED BY <1>1, <1>2 DEF Limited

LEMMA ResolveKeepsInv == ASSUME LimitInv, ResolveLimit PROVE LimitInv'
  <1> USE DEF LimitInv, TypeOK
  <1>1. \A l \in Levels : AppliesThroughout(l) => Rank(step) <= Rank(l)
    BY DEF ResolveLimit, Look, LookAtRow, LookAtGroup, Levels, OwnLevels, GroupLevels
  <1>2. ASSUME NEW l \in OwnLevels, NEW next \in Levels \cup {"done"}, Look(l, next),
               <<l, next>> \in {<<"bill", "mapping">>, <<"mapping", "user">>, <<"global", "done">>}
        PROVE  LimitInv'
    <2>1. limit[l] \in Limits /\ l \in Levels /\ next \notin GroupLevels
      BY <1>2 DEF Levels, GroupLevels
    <2>2. ASSUME limit[l] <= 0, NEW m \in Levels, AppliesThroughout(m)
          PROVE  next # "done" /\ Rank(next) <= Rank(m)
      <3>1. m # l
        BY <1>2, <2>2, OwnLevelEmpty
      <3> QED BY <1>1, <1>2, <2>2, <3>1, Ranks DEF Look, Levels, OwnLevels, GroupLevels
    <2> QED BY <1>2, <2>1, <2>2, AnswerKeepsInv DEF Look
  <1>3. ASSUME NEW l \in GroupLevels, NEW next \in OwnLevels, LookAtGroup(l, next),
               <<l, next>> \in {<<"userGroup", "auth">>, <<"authGroup", "global">>}
        PROVE  LimitInv'
    <2>1. groupID \in LimitGroups /\ groupLimit[l][groupID] \in Limits /\ l \in Levels
          /\ next \in Levels /\ next \notin GroupLevels
      BY <1>3 DEF LookAtGroup, Levels, GroupLevels
    <2>2. ASSUME groupLimit[l][groupID] <= 0, NEW m \in Levels, AppliesThroughout(m)
          PROVE  next # "done" /\ Rank(next) <= Rank(m)
      <3>1. m # l
        BY <1>3, <2>2, GroupLevelEmpty DEF LookAtGroup
      <3> QED BY <1>1, <1>3, <2>2, <3>1, Ranks DEF LookAtGroup, Levels, OwnLevels, GroupLevels
    <2> QED BY <1>3, <2>1, <2>2, AnswerKeepsInv DEF LookAtGroup
  <1>4. ASSUME NEW l \in OwnLevels, NEW g \in GroupLevels, NEW next \in OwnLevels,
               LookAtRow(l, g, next),
               <<l, g, next>> \in {<<"user", "userGroup", "auth">>, <<"auth", "authGroup", "global">>}
        PROVE  LimitInv'
    <2> DEFINE onward == IF groupID' = 0 THEN next ELSE g
    <2>1. limit[l] \in Limits /\ l \in Levels /\ onward \in Levels /\ groupID' = primary[g]
          /\ next \notin GroupLevels
      BY <1>4 DEF LookAtRow, Levels, GroupLevels
    <2>2. ASSUME limit[l] <= 0, NEW m \in Levels, AppliesThroughout(m)
          PROVE  onward # "done" /\ Rank(onward) <= Rank(m)
      <3>1. m # l
        BY <1>4, <2>2, OwnLevelEmpty
      <3>2. groupID' = 0 => m # g
        BY <2>1, <2>2 DEF AppliesThroughout, Limited
      <3> QED BY <1>1, <1>4, <2>2, <3>1, <3>2, Ranks DEF LookAtRow, Levels, OwnLevels, GroupLevels
    <2>3. onward \in GroupLevels => groupID' # 0 /\ (named[onward] # {} => groupID' \in named[onward])
      BY <2>1
    <2> QED BY <1>4, <2>1, <2>2, <2>3, AnswerKeepsInv DEF LookAtRow
  <1> QED BY <1>2, <1>3, <1>4 DEF ResolveLimit, AfterUser, Levels, OwnLevels, GroupLevels

\* An edit ends what has applied so far, or lets it go on.
LEMMA EditKeepsInv == ASSUME LimitInv, Edit PROVE LimitInv'
  <1> USE DEF LimitInv
  <1>1. UNCHANGED <<step, groupID, decision>> /\ step \in Levels
        /\ steady' = {l \in steady : limit'[l] > 0}
    BY DEF Edit, Deciding
  <1>2. limit' \in [OwnLevels -> Limits] /\ groupLimit' \in [GroupLevels -> [LimitGroups -> Limits]]
        /\ primary' \in [GroupLevels -> LimitGroups \cup {0}]
    <2> USE DEF TypeOK
    <2>1. CASE EditLevel
      BY <2>1 DEF EditLevel
    <2>2. CASE EditGroup
      <3>1. PICK l \in GroupLevels, g \in LimitGroups, n \in Limits :
               groupLimit' = [groupLimit EXCEPT ![l][g] = n]
        BY <2>2 DEF EditGroup
      <3>2. [groupLimit[l] EXCEPT ![g] = n] \in [LimitGroups -> Limits]
        OBVIOUS
      <3> QED BY <2>2, <3>1, <3>2 DEF EditGroup
    <2>3. ASSUME NEW row \in OwnLevels, NEW l \in GroupLevels, EditRow(row, l)
          PROVE  limit' \in [OwnLevels -> Limits] /\ primary' \in [GroupLevels -> LimitGroups \cup {0}]
                 /\ UNCHANGED groupLimit
      BY <2>3 DEF EditRow
    <2> QED BY <2>1, <2>2, <2>3 DEF Edit, OwnLevels, GroupLevels
  <1>3. ASSUME NEW l \in GroupLevels
        PROVE  /\ named'[l] \in SUBSET LimitGroups
               /\ \A g \in named'[l] : Limited(l, g)'
               /\ named'[l] # {} => primary'[l] \in named'[l] /\ named[l] # {} /\ named[l] \subseteq named'[l]
    <2>1. named'[l] = IF named[l] # {} /\ \A g \in named[l] \cup {primary'[l]} : Limited(l, g)'
                      THEN named[l] \cup {primary'[l]} ELSE {}
      BY DEF Edit
    <2>2. primary'[l] \in LimitGroups \cup {0} /\ ~Limited(l, 0)'
      BY <1>2 DEF Limited
    <2>3. named[l] \in SUBSET LimitGroups
      BY DEF TypeOK
    <2>4. CASE named'[l] = {}
      BY <2>4
    <2>5. CASE named'[l] # {}
      <3>1. named[l] # {} /\ named'[l] = named[l] \cup {primary'[l]}
            /\ \A g \in named[l] \cup {primary'[l]} : Limited(l, g)'
        BY <2>1, <2>5
      <3>2. primary'[l] # 0
        BY <2>2, <3>1
      <3> QED BY <2>2, <2>3, <3>1, <3>2
    <2> QED BY <2>4, <2>5
  <1>4. TypeOK'
    <2>1. named' \in [GroupLevels -> SUBSET LimitGroups]
      BY <1>3 DEF Edit
    <2> QED BY <1>1, <1>2, <2>1 DEF TypeOK
  <1>5. \A l \in Levels : AppliesThroughout(l)' => AppliesThroughout(l)
    BY <1>1, <1>3 DEF AppliesThroughout
  <1>6. SteadyLevelIsRespected'
    BY <1>1 DEF SteadyLevelIsRespected, Levels, OwnLevels, GroupLevels
  <1> QED BY <1>1, <1>3, <1>4, <1>5, <1>6

LEMMA LimitStep == LimitInv /\ [Next]_vars => LimitInv'
  <1> SUFFICES ASSUME LimitInv, [Next]_vars PROVE LimitInv'
    OBVIOUS
  <1>1. CASE QueryFails
    BY <1>1 DEF QueryFails, limits, history, LimitInv, TypeOK, SteadyLevelIsRespected, Limited,
                Levels, OwnLevels, GroupLevels
  <1>2. CASE UNCHANGED vars
    BY <1>2 DEF vars, limits, history, LimitInv, TypeOK, SteadyLevelIsRespected, Limited, AppliesThroughout
  <1> QED BY <1>1, <1>2, ResolveKeepsInv, EditKeepsInv DEF Next

\* A level that applies throughout is respected, although the levels are read by
\* queries of their own while admins edit them and move rows from group to group:
\* for any limits and groups.
THEOREM SteadyRespected == Spec => [](TypeOK /\ SteadyLevelIsRespected)
<1>1. LimitInv => TypeOK /\ SteadyLevelIsRespected
  BY DEF LimitInv
<1> QED
  BY <1>1, LimitInit, LimitStep, PTL DEF Spec
=============================================================================
