\* Concurrent charges of one user over midnight, an admin who disables or deletes a bill;
\* every request settles.
CONSTANTS
    None = None
    u1 = u1
    g1 = g1
    g2 = g2
    r1 = r1
    r2 = r2
    Users = {u1}
    Groups = {g1}
    Bills = {1, 2}
    Cards = {11}
    Requests = {r1, r2}
    Orders = {}
    Workers = 2
    Costs = {0, 2, 3}
    Plans <- NoPlans
    BillEps = 1
    CardEps = 1
    Month = 2
    MaxDay = 1
    ValidDays <- RaceValid
    Forever = 9
    Row0 <- RaceRows
    Funds0 <- RaceFunds
    AdminRows = {1}
SPECIFICATION FairSpec
INVARIANTS DailyQuotaHolds TypeOK NoOverdraft BillsBalanced MoneyIsTraceable PaidOnce EnoughAfterLock
PROPERTIES RequestsSettle ShortOnlyWhenEmpty
CHECK_DEADLOCK FALSE
