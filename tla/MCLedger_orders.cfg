\* Two purchases and a charge, a card redeemed in between.
CONSTANTS
    None = None
    u1 = u1
    g1 = g1
    g2 = g2
    r1 = r1
    r2 = r2
    Users = {u1}
    Groups = {g1, g2}
    Bills = {1, 2, 3}
    Cards = {11, 12}
    Requests = {r1}
    Orders = {2, 3}
    Workers = 1
    Costs = {2}
    Plans <- OnSale
    BillEps = 1
    CardEps = 1
    Month = 2
    MaxDay = 1
    ValidDays <- OrderValid
    Forever = 9
    Row0 <- OrderRows
    Funds0 <- OrderFunds
    AdminRows = {11}
SPECIFICATION Spec
INVARIANTS OrdersArePaid NoWaitCycle
PROPERTY ImplementsWallet
CHECK_DEADLOCK FALSE
