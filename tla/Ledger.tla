------------------------------- MODULE Ledger -------------------------------
(***************************************************************************)
(* The money of a deployment: bills (quota bought with a plan), prepaid    *)
(* cards and the usage table, with every database transaction that touches *)
(* them, at the grain of one SQL statement and one row lock                *)
(* (internal/usage/usage.go, http/api/front/handlers/bills.go,             *)
(* http/api/front/handlers/prepaid_cards.go, the balance gate of           *)
(* access/db_api_key_provider.go and the admin handlers).                  *)
(*                                                                         *)
(* The database is PostgreSQL in READ COMMITTED.  A plain SELECT sees what *)
(* is committed when it starts, and the transaction's own writes.  SELECT  *)
(* .. FOR UPDATE takes its candidates from that snapshot, locks them one   *)
(* by one in ORDER BY order, and checks the WHERE clause again on the      *)
(* version it locked.  A transaction's deductions are relative (left_quota *)
(* - ?), so they are kept here in take[t] until it commits.                *)
(*                                                                         *)
(* Amounts are integers, in a unit of which the two tolerances of the code *)
(* (billQuotaEpsilon, balanceEpsilon) are BillEps and CardEps.  Time is    *)
(* the local day.  None is SQL NULL.                                       *)
(***************************************************************************)
EXTENDS Integers, FiniteSets, FiniteSetsExt

CONSTANTS
    Users, Groups,   \* user accounts and user groups
    Bills, Cards,    \* ids of bill rows and of prepaid card rows
    Requests,        \* usage records, one per proxied request
    Orders,          \* purchases; the bill that order o inserts has the id o
    None,            \* SQL NULL, no lock holder
    Workers,         \* server processes, each with one usage worker
    Costs,           \* what a request may cost
    Plans,           \* the plans on sale
    BillEps, CardEps,
    Month, MaxDay,   \* days of a billing period, bound of the clock
    ValidDays,       \* validity of a card from its redemption, 0 for none
    Forever,         \* expires_at of a card that never expires
    Row0, Funds0,    \* the rows and their money at the start
    AdminRows        \* the rows an admin touches

Txs  == Requests \cup Orders
Rows == Bills \cup Cards

Row  == [owner : Users \cup {None}, groups : SUBSET Groups, from : Nat,
         until : Nat, daily : Nat, total : Nat, on : BOOLEAN]
Plan == [price : Nat, total : Nat, daily : Nat, groups : SUBSET Groups]

Absent == [owner |-> None, groups |-> {}, from |-> 0, until |-> 0,
           daily |-> 0, total |-> 0, on |-> FALSE]

ASSUME LedgerAssumption ==
    /\ Orders \subseteq Bills
    /\ Bills \cap Cards = {} /\ Rows \subseteq Nat
    /\ Requests \cap Rows = {} /\ Rows \cap Users = {}
    /\ None \notin Txs /\ None \notin Users /\ None \notin Groups
    /\ Costs \subseteq Nat /\ Plans \subseteq Plan
    /\ BillEps \in Nat /\ CardEps \in Nat
    /\ Month \in Nat /\ MaxDay \in Nat /\ Workers \in Nat
    /\ ValidDays \in [Cards -> Nat] /\ Forever \in Nat
    /\ AdminRows \subseteq Rows
    /\ Row0 \in [Rows -> Row] /\ Funds0 \in [Rows -> Nat]
    /\ \A o \in Orders : Row0[o] = Absent /\ Funds0[o] = 0
    /\ \A b \in Bills : Row0[b].total = Funds0[b]
    /\ IsFiniteSet(Rows) /\ IsFiniteSet(Txs)

VARIABLES
    day,         \* the clock
    row,         \* the bill and card rows
    funds,       \* left_quota of a bill, balance of a card
    used,        \* used_quota of a bill
    userGroups,  \* users.bill_user_group_id
    lock,        \* the transaction that holds a row
    pc,          \* where a transaction is
    ctx,         \* what it is about: user, billing group, amount, day, plan
    at,          \* `now` of the statement that chose its rows
    todo, got,   \* rows still to lock or to charge, rows locked and returned
    take,        \* what it has deducted from each row
    rem,         \* what is left to deduct
    merged       \* groups read by refreshBillUserGroupIDs

data   == <<row, funds, used, userGroups>>
vars   == <<day, data, lock, pc, ctx, at, todo, got, take, rem, merged>>

NoTake == [x \in Rows |-> 0]
NoPlan == [price |-> 0, total |-> 0, daily |-> 0, groups |-> {}]
NoCtx  == [user |-> None, group |-> None, amount |-> 0, day |-> 0, plan |-> NoPlan]

Selecting == {"bills", "cards"}
Charging  == {"payBills", "payCards"}
InTx      == Selecting \cup Charging \cup {"refresh", "user", "commit"}

Init ==
    /\ day = 0
    /\ row = Row0 /\ funds = Funds0
    /\ used = [b \in Bills |-> 0]
    /\ userGroups = [u \in Users |->
          UNION {Row0[b].groups : b \in {b \in Bills : Row0[b].owner = u}}]
    /\ lock = [x \in Rows \cup Users |-> None]
    /\ pc = [t \in Txs |-> "idle"]
    /\ ctx = [t \in Txs |-> NoCtx]
    /\ at = [t \in Txs |-> 0]
    /\ todo = [t \in Txs |-> {}] /\ got = [t \in Txs |-> {}]
    /\ take = [t \in Txs |-> NoTake]
    /\ rem = [t \in Txs |-> 0]
    /\ merged = [t \in Txs |-> {}]
-----------------------------------------------------------------------------
(* What the queries see.                                                   *)

\* The WHERE clause shared by every query for usable money: the row belongs
\* to u, is enabled (for a bill: and paid), has money left and its period
\* holds the day d.
Active(x, u, d) ==
    /\ row[x].owner = u /\ row[x].on
    /\ funds[x] > 0
    /\ row[x].from <= d /\ d <= row[x].until

\* The optional filter on the billing group of the request.
InGroup(x, g) == g = None \/ g \in row[x].groups

Usable(x, t, d) == Active(x, ctx[t].user, d) /\ InGroup(x, ctx[t].group)

\* ORDER BY period_end, period_start, id; and ORDER BY expires_at,
\* redeemed_at, id.
BeforeX(x, y) == TRUE
Before(x, y) ==
    \/ row[x].until < row[y].until
    \/ row[x].until = row[y].until /\ row[x].from < row[y].from
    \/ row[x].until = row[y].until /\ row[x].from = row[y].from /\ x < y

First(x, S) == x \in S /\ \A y \in S \ {x} : Before(x, y)

Money(S) == SumFunctionOnSet(funds, S)
Daily(S) == SumFunctionOnSet([x \in Rows |-> row[x].daily], S)
Spending(S) == SumFunctionOnSet([t \in Txs |-> ctx[t].amount], S)

Recorded == {r \in Requests : pc[r] = "done"}

\* loadTodayUsageAmount: all usage rows of the user requested since the start
\* of day d, whoever paid for them.
UsedSince(u, g, d) ==
    Spending({r \in Recorded : /\ ctx[r].user = u /\ ctx[r].day >= d
                               /\ g = None \/ ctx[r].group = g})

-----------------------------------------------------------------------------
(* The gate in front of a request.                                         *)

HasValidBillQuota(u) ==
    LET bills == {b \in Bills : Active(b, u, day)}
    IN  /\ bills # {}
        /\ \/ \E b \in bills : row[b].daily = 0
           \/ UsedSince(u, None, day) < Daily(bills)

HasValidPrepaidBalance(u) == \E c \in Cards : Active(c, u, day)

\* A request passes the gate and is served.  The group it will be billed to
\* is chosen by the selector, its cost is known when the upstream has
\* answered; its usage record then waits in the queue of a worker.
Authenticate(r) ==
    /\ pc[r] = "idle"
    /\ \E u \in Users, g \in Groups \cup {None}, c \in Costs :
          /\ HasValidBillQuota(u) \/ HasValidPrepaidBalance(u)
          /\ ctx' = [ctx EXCEPT ![r] = [NoCtx EXCEPT !.user = u, !.group = g,
                                                     !.amount = c, !.day = day]]
    /\ pc' = [pc EXCEPT ![r] = "sent"]
    /\ UNCHANGED <<day, data, lock, at, todo, got, take, rem, merged>>

-----------------------------------------------------------------------------
(* Statements of the transactions.  A definition whose name ends in a      *)
(* capital X is the one after it with a plausible bug: the runs show that  *)
(* the properties notice it.                                               *)

\* FOR UPDATE and UPDATE wait for the row lock.
LockFreeX(x, t) == TRUE
LockFree(x, t) == lock[x] \in {None, t}

\* SELECT .. FOR UPDATE begins: its candidates are read from the snapshot.
Select(t, S, next) ==
    /\ pc' = [pc EXCEPT ![t] = next]
    /\ at' = [at EXCEPT ![t] = day]
    /\ todo' = [todo EXCEPT ![t] = {x \in S : Usable(x, t, day)}]
    /\ got' = [got EXCEPT ![t] = {}]

\* HandleUsage takes the next record: it inserts the usage row, and a record
\* that costs something goes on to deductBillBalance.
HandleUsage(r) ==
    /\ pc[r] = "sent"
    /\ Cardinality({s \in Requests : pc[s] \in InTx}) < Workers
    /\ \/ /\ ctx[r].amount > 0
          /\ Select(r, Bills, "bills")
       \/ /\ ctx[r].amount = 0
          /\ pc' = [pc EXCEPT ![r] = "commit"]
          /\ UNCHANGED <<at, todo, got>>
    /\ UNCHANGED <<day, data, lock, ctx, take, rem, merged>>

\* SELECT .. FOR UPDATE locks its next candidate as soon as nobody else holds
\* it.  A row that no longer satisfies the WHERE clause is not returned, but
\* stays locked.
LockRow(t) ==
    /\ pc[t] \in Selecting
    /\ \E x \in Rows :
          /\ First(x, todo[t])
          /\ LockFree(x, t)
          /\ lock' = [lock EXCEPT ![x] = t]
          /\ todo' = [todo EXCEPT ![t] = @ \ {x}]
          /\ got' = [got EXCEPT ![t] = IF Usable(x, t, at[t]) THEN @ \cup {x} ELSE @]
    /\ UNCHANGED <<day, data, pc, ctx, at, take, rem, merged>>

\* The locked bills must cover the whole amount, and unless one of them has
\* no daily quota, today's usage before this request must be below the sum
\* of theirs.  usedBefore is the sum over the usage rows, this one included
\* if it was requested today, minus this one.
UsedBefore(t) ==
    LET own == IF ctx[t].day >= at[t] THEN ctx[t].amount ELSE 0
    IN  UsedSince(ctx[t].user, ctx[t].group, at[t]) + own - ctx[t].amount

DailyExhaustedX(t) ==
    /\ \A b \in got[t] : row[b].daily > 0
    /\ UsedBefore(t) > Daily(got[t])
DailyExhausted(t) ==
    /\ \A b \in got[t] : row[b].daily > 0
    /\ UsedBefore(t) >= Daily(got[t])

BillsCover(t) ==
    /\ got[t] # {}
    /\ Money(got[t]) + BillEps >= ctx[t].amount
    /\ ~DailyExhausted(t)

StartCharging(t, next) ==
    /\ pc' = [pc EXCEPT ![t] = next]
    /\ todo' = [todo EXCEPT ![t] = got[t]]
    /\ rem' = [rem EXCEPT ![t] = ctx[t].amount]

DeductBillBalance(r) ==
    /\ pc[r] = "bills" /\ todo[r] = {}
    /\ BillsCover(r)
    /\ StartCharging(r, "payBills")
    /\ UNCHANGED <<day, data, lock, ctx, at, got, take, merged>>

\* deductBillBalance returned false: deductPrepaidBalance selects the cards.
FallToPrepaid(r) ==
    /\ pc[r] = "bills" /\ todo[r] = {}
    /\ ~BillsCover(r)
    /\ Select(r, Cards, "cards")
    /\ UNCHANGED <<day, data, lock, ctx, take, rem, merged>>

\* A purchase selects all the cards of the user, whatever their group.
CreateOrder(o) ==
    /\ pc[o] = "idle"
    /\ \E u \in Users, p \in Plans :
          /\ ctx' = [ctx EXCEPT ![o] = [NoCtx EXCEPT !.user = u, !.day = day,
                                                     !.amount = p.price, !.plan = p]]
          /\ todo' = [todo EXCEPT ![o] = {c \in Cards : Active(c, u, day)}]
    /\ pc' = [pc EXCEPT ![o] = "cards"]
    /\ at' = [at EXCEPT ![o] = day]
    /\ UNCHANGED <<day, data, lock, got, take, rem, merged>>

\* deductPrepaidBalance charges whatever the cards hold; a purchase needs the
\* whole price.
PriceCoveredX(o) == TRUE
PriceCovered(o) == Money(got[o]) + CardEps >= ctx[o].amount

DeductPrepaidBalance(t) ==
    /\ pc[t] = "cards" /\ todo[t] = {}
    /\ t \in Orders => PriceCovered(t)
    /\ StartCharging(t, "payCards")
    /\ UNCHANGED <<day, data, lock, ctx, at, got, take, merged>>

Owing(t) == rem[t] > 0 /\ todo[t] # {}

\* One UPDATE .. SET left_quota = left_quota - deduct (balance - deduct).
DeductionX(t, x) == funds[x]
Deduction(t, x) == IF funds[x] > rem[t] THEN rem[t] ELSE funds[x]

ChargeRow(t) ==
    /\ pc[t] \in Charging /\ Owing(t)
    /\ \E x \in Rows :
          /\ First(x, todo[t])
          /\ todo' = [todo EXCEPT ![t] = @ \ {x}]
          /\ take' = [take EXCEPT ![t][x] = Deduction(t, x)]
          /\ rem' = [rem EXCEPT ![t] = @ - Deduction(t, x)]
    /\ UNCHANGED <<day, data, lock, pc, ctx, at, got, merged>>

\* A charge to prepaid cards is complete, a shortfall is forgotten.
PrepaidCharged(r) ==
    /\ r \in Requests
    /\ pc[r] = "payCards" /\ ~Owing(r)
    /\ pc' = [pc EXCEPT ![r] = "commit"]
    /\ UNCHANGED <<day, data, lock, ctx, at, todo, got, take, rem, merged>>

\* refreshBillUserGroupIDs reads the groups of the active bills: committed
\* ones, less what this transaction has deducted, and the bill it inserted.
OwnView(t, b) == funds[b] - take[t][b]

BillGroups(t) ==
    UNION {row[b].groups :
             b \in {b \in Bills : Active(b, ctx[t].user, day) /\ OwnView(t, b) > 0}}

OwnGroups(t) == IF t \in Orders /\ ctx[t].plan.total > 0 THEN ctx[t].plan.groups ELSE {}

ReadBillGroups(t) ==
    /\ \/ pc[t] = "payBills" /\ rem[t] <= BillEps
       \/ pc[t] = "payCards" /\ t \in Orders
    /\ ~Owing(t)
    /\ merged' = [merged EXCEPT ![t] = BillGroups(t) \cup OwnGroups(t)]
    /\ pc' = [pc EXCEPT ![t] = "refresh"]
    /\ UNCHANGED <<day, data, lock, ctx, at, todo, got, take, rem>>

\* .. and updates the user's row, which it has to lock.
WriteBillGroups(t) ==
    /\ pc[t] = "refresh"
    /\ LockFree(ctx[t].user, t)
    /\ lock' = [lock EXCEPT ![ctx[t].user] = t]
    /\ pc' = [pc EXCEPT ![t] = "commit"]
    /\ UNCHANGED <<day, data, ctx, at, todo, got, take, rem, merged>>

ReleaseX(t) ==
    lock' = [x \in Rows \cup Users |-> IF x \in Users /\ lock[x] = t THEN None ELSE lock[x]]
Release(t) ==
    lock' = [x \in Rows \cup Users |-> IF lock[x] = t THEN None ELSE lock[x]]

NewBill(o) ==
    [owner |-> ctx[o].user, groups |-> ctx[o].plan.groups, from |-> at[o],
     until |-> at[o] + Month, daily |-> ctx[o].plan.daily,
     total |-> ctx[o].plan.total, on |-> TRUE]

UsedAfterX(t, b) == used[b] + IF take[t][b] > 0 THEN ctx[t].amount ELSE 0
UsedAfter(t, b) == used[b] + take[t][b]

Commit(t) ==
    /\ pc[t] = "commit"
    /\ funds' = [x \in Rows |-> IF x = t THEN ctx[t].plan.total ELSE funds[x] - take[t][x]]
    /\ used' = [b \in Bills |-> UsedAfter(t, b)]
    /\ row' = [x \in Rows |-> IF x = t THEN NewBill(t) ELSE row[x]]
    /\ userGroups' = [u \in Users |-> IF lock[u] = t THEN merged[t] ELSE userGroups[u]]
    /\ Release(t)
    /\ pc' = [pc EXCEPT ![t] = "done"]
    /\ UNCHANGED <<day, ctx, at, todo, got, take, rem, merged>>

\* Any error rolls everything back: an insufficient balance, "bill quota not
\* enough after lock", the 5 second deadline, a cancelled HTTP request, a lost
\* connection, a crash.  HandleUsage only logs it: the usage row is gone too.
Rollback(t) ==
    /\ pc[t] \in InTx
    /\ Release(t)
    /\ pc' = [pc EXCEPT ![t] = "lost"]
    /\ take' = [take EXCEPT ![t] = NoTake]
    /\ todo' = [todo EXCEPT ![t] = {}] /\ got' = [got EXCEPT ![t] = {}]
    /\ UNCHANGED <<day, data, ctx, at, rem, merged>>
-----------------------------------------------------------------------------
(* Everybody else who writes these rows.                                   *)

\* Redeem: lock the card, check that it is enabled and nobody's, give it to
\* the user.  One row is locked and then written, so the transaction is one
\* step here.
Redeem(u, c) ==
    /\ lock[c] = None
    /\ row[c].on /\ row[c].owner = None
    /\ row' = [row EXCEPT ![c].owner = u, ![c].from = day,
                          ![c].until = IF ValidDays[c] = 0 THEN Forever
                                       ELSE day + ValidDays[c]]
    /\ UNCHANGED <<day, funds, used, userGroups, lock, pc, ctx, at, todo, got, take, rem, merged>>

\* The admin enables or disables a bill or a card: one UPDATE, which waits for
\* the row lock.  It does not refresh the user's groups.
SetEnabled(x, on) ==
    /\ lock[x] = None
    /\ x \in Bills => row[x].owner # None
    /\ row' = [row EXCEPT ![x].on = on]
    /\ UNCHANGED <<day, funds, used, userGroups, lock, pc, ctx, at, todo, got, take, rem, merged>>

\* The admin deletes a bill.
DeleteBill(b) ==
    /\ lock[b] = None
    /\ row[b].owner # None
    /\ row' = [row EXCEPT ![b].owner = None, ![b].on = FALSE]
    /\ UNCHANGED <<day, funds, used, userGroups, lock, pc, ctx, at, todo, got, take, rem, merged>>

Tick ==
    /\ day < MaxDay
    /\ day' = day + 1
    /\ UNCHANGED <<data, lock, pc, ctx, at, todo, got, take, rem, merged>>

TxStep(t) ==
    \/ LockRow(t)
    \/ DeductPrepaidBalance(t)
    \/ ChargeRow(t)
    \/ PrepaidCharged(t)
    \/ ReadBillGroups(t)
    \/ WriteBillGroups(t)
    \/ Commit(t)

RequestStep(r) ==
    \/ HandleUsage(r)
    \/ DeductBillBalance(r)
    \/ FallToPrepaid(r)

Admin ==
    \/ \E x \in AdminRows, on \in BOOLEAN : SetEnabled(x, on)
    \/ \E b \in AdminRows \cap Bills : DeleteBill(b)

Next ==
    \/ \E r \in Requests : Authenticate(r) \/ RequestStep(r)
    \/ \E o \in Orders : CreateOrder(o)
    \/ \E t \in Txs : TxStep(t) \/ Rollback(t)
    \/ \E u \in Users, c \in Cards : Redeem(u, c)
    \/ Admin
    \/ Tick

Spec == Init /\ [][Next]_vars

\* Goroutines and database sessions that can run do run; nothing has to fail,
\* no request has to arrive, no admin has to act.
FairSpec ==
    /\ Spec
    /\ \A r \in Requests : WF_vars(RequestStep(r))
    /\ \A t \in Txs : WF_vars(TxStep(t))

-----------------------------------------------------------------------------
(* Properties.                                                             *)

Ctx == [user : Users \cup {None}, group : Groups \cup {None}, amount : Nat,
        day : Nat, plan : Plan]

\* The variables have their types; what is left to deduct never goes below 0.
TypeOK ==
    /\ day \in Nat
    /\ row \in [Rows -> Row]
    /\ funds \in [Rows -> Int] /\ used \in [Bills -> Int]
    /\ userGroups \in [Users -> SUBSET Groups]
    /\ lock \in [Rows \cup Users -> Txs \cup {None}]
    /\ pc \in [Txs -> InTx \cup {"idle", "sent", "done", "lost"}]
    /\ ctx \in [Txs -> Ctx]
    /\ at \in [Txs -> Nat]
    /\ todo \in [Txs -> SUBSET Rows] /\ got \in [Txs -> SUBSET Rows]
    /\ take \in [Txs -> [Rows -> Int]]
    /\ rem \in [Txs -> Nat]
    /\ merged \in [Txs -> SUBSET Groups]

\* No interleaving of charges and purchases overdraws a bill or a card
\* (deductBillBalance, deductPrepaidBalance and Create read the balances they
\* split the amount over long before they commit).
NoOverdraft == \A x \in Rows : funds[x] >= 0

\* A transaction that has deducted from a row holds its lock, and the row
\* still has what was deducted.
ChargesAreCovered ==
    \A t \in Txs, x \in Rows :
        pc[t] \in InTx /\ take[t][x] # 0 =>
            lock[x] = t /\ take[t][x] \in 0..funds[x]

\* The inductive invariant behind NoOverdraft and BillsBalanced.
HoldsLocks  == \A t \in Txs : pc[t] \in InTx => \A x \in got[t] : lock[x] = t
NotStarted  == \A t \in Txs : pc[t] \in {"idle", "sent"} => todo[t] = {} /\ got[t] = {}
NothingYet  == \A t \in Txs :
    pc[t] \in Selecting \cup {"idle", "sent", "lost"} => take[t] = NoTake
ToCharge    == \A t \in Txs :
    pc[t] \in Charging => todo[t] \subseteq got[t] /\ \A x \in todo[t] : take[t][x] = 0
UserIsKnown == \A t \in Txs : pc[t] # "idle" => ctx[t].user \in Users
UnbornBills == \A o \in Orders :
    pc[o] # "done" => /\ row[o].owner = None /\ row[o].total = 0
                      /\ funds[o] = 0 /\ used[o] = 0
                      /\ lock[o] = None
                      /\ \A t \in Txs : o \notin todo[t] /\ o \notin got[t]

\* Every bill splits its total quota into used_quota and left_quota.
BillsBalanced == \A b \in Bills : used[b] + funds[b] = row[b].total

IndInv ==
    /\ HoldsLocks /\ NotStarted /\ NothingYet /\ ToCharge /\ UserIsKnown
    /\ UnbornBills /\ ChargesAreCovered /\ NoOverdraft /\ BillsBalanced

Taken(t, S) == SumFunctionOnSet(take[t], S)
TakenFrom(x, T) == SumFunctionOnSet([t \in Txs |-> take[t][x]], T)
Done == {t \in Txs : pc[t] = "done"}

\* Every amount that ever left a bill or a card belongs to a recorded request
\* or to a purchase: quotas, balances, usage rows and bills never drift apart.
MoneyIsTraceable ==
    /\ \A b \in Bills : used[b] = TakenFrom(b, Recorded)
    /\ \A c \in Cards : Funds0[c] - funds[c] = TakenFrom(c, Done)

\* A recorded request is paid by bills or by cards, never by both; bills pay
\* all of it (up to the tolerance), and nobody pays more than it cost.
PaidOnce ==
    \A r \in Recorded :
        LET bills == Taken(r, Bills)
            cards == Taken(r, Cards)
        IN  /\ bills # 0 => cards = 0 /\ bills >= ctx[r].amount - BillEps
            /\ bills + cards <= ctx[r].amount

\* A purchase that went through has paid its price from cards, and nothing
\* but cards.
OrdersArePaid ==
    \A o \in Orders \cap Done :
        /\ Taken(o, Bills) = 0
        /\ Taken(o, Cards) \in ctx[o].amount - CardEps .. ctx[o].amount

\* The error "bill quota not enough after lock" is unreachable: nobody can
\* spend what the locked bills held when they were found to cover the amount.
EnoughAfterLock ==
    \A r \in Requests : pc[r] = "payBills" /\ ~Owing(r) => rem[r] <= BillEps

\* The bills a user has had in a group from the start, and the requests that were
\* made and recorded on one day and for which nothing but such bills was locked.
Pool(u, g) == {b \in Bills : Row0[b].owner = u /\ InGroup(b, g)}
Spent(u, g, d) ==
    {r \in Recorded : /\ ctx[r].user = u /\ ctx[r].group = g /\ ctx[r].day = d /\ at[r] = d
                      /\ got[r] # {} /\ got[r] \subseteq Pool(u, g)}

\* The bills of a group, at most one of which is ever edited, never pay for the
\* requests of a day as much as their daily quotas and one more request: two requests
\* cannot both find the same remainder of the day.
DailyQuotaHolds ==
    \A u \in Users, g \in Groups \cup {None}, d \in 0..MaxDay :
        LET pool  == Pool(u, g)
            spent == Spent(u, g, d)
        IN  /\ \E a \in Bills : pool \cap AdminRows \subseteq {a}
            /\ \A b \in pool : row[b].daily > 0
            /\ spent # {}
            => \E r \in spent : Spending(spent \ {r}) < Daily(pool)

\* The row a transaction is about to lock is held by another one.
BlockedBy(t, s) ==
    /\ t # s
    /\ \/ pc[t] \in Selecting /\ \E x \in Rows : First(x, todo[t]) /\ lock[x] = s
       \/ pc[t] = "refresh" /\ lock[ctx[t].user] = s

\* No set of transactions waits in a circle: everybody locks bills, then
\* cards, then the user, each in the same order.
NoWaitCycle ==
    \A S \in (SUBSET Txs) \ {{}} : \E t \in S : \A s \in S : ~BlockedBy(t, s)

\* A charge may fall short of the cost only once every card it was taken from
\* is empty.
ShortOnlyWhenEmpty ==
    [][\A r \in Requests :
          pc[r] # "done" /\ pc'[r] = "done" /\ got[r] \subseteq Cards
             /\ Taken(r, Cards) < ctx[r].amount
          => \A x \in got[r] : funds'[x] = 0]_vars

\* A request that was let through is recorded or given up: no lock is ever
\* waited for forever.
RequestsSettle ==
    \A r \in Requests : pc[r] = "sent" ~> pc[r] \in {"done", "lost"}
-----------------------------------------------------------------------------
(* What the documentation says and the code does not do.                   *)

Quiet == \A t \in Txs : pc[t] \notin InTx

\* docs/admin-guide.md:433, "The User's BillUserGroupID is updated, granting
\* access": once no transaction is running, the owner of an active purchased
\* bill has its groups.
PurchasedGroupsGranted ==
    Quiet => \A o \in Orders \cap Done :
                 Active(o, ctx[o].user, day) =>
                     ctx[o].plan.groups \subseteq userGroups[ctx[o].user]
=============================================================================
