\* A purchase and a charge refresh the groups of one user.
CONSTANTS
    None = None
    u1 = u1
    g1 = g1
    g2 = g2
    r1 = r1
    r2 = r2
    Users = {u1}
    Groups = {g1, g2}
    Bills = {1, 2}
    Cards = {11, 12}
    Requests = {r1}
    Orders = {2}
    Workers = 1
    Costs = {2}
    Plans <- OnSale
    BillEps = 1
    CardEps = 1
    Month = 2
    MaxDay = 0
    ValidDays <- OrderValid
    Forever = 9
    Row0 <- GrantRows
    Funds0 <- GrantFunds
    AdminRows = {}
SPECIFICATION Spec
INVARIANTS PurchasedGroupsGranted
CHECK_DEADLOCK FALSE
