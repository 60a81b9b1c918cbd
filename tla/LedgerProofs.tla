---------------------------- MODULE LedgerProofs ----------------------------
(***************************************************************************)
(* Proofs about the money in Ledger, for any number of users, rows,        *)
(* requests, purchases and workers.  IndInv, inductive with TypeOK, gives  *)
(* that nothing is overdrawn and that bills balance; Accounts, inductive   *)
(* with both, that everybody pays once and that money can be traced: one   *)
(* lemma for each action or kind of statement.                             *)
(***************************************************************************)
EXTENDS Ledger, SetLemmas

USE DEF Txs, Rows

\* The row that a purchase inserts is well typed.
LEMMA NewBillType ==
    ASSUME TypeOK, NEW o \in Orders
    PROVE  NewBill(o) \in Row
  <1>1. ctx[o] \in Ctx
    BY DEF TypeOK
  <1>2. at[o] \in Nat /\ at[o] + Month \in Nat
    BY LedgerAssumption DEF TypeOK
  <1> QED BY <1>1, <1>2 DEF NewBill, Row, Ctx, Plan

LEMMA TypeInit == Init => TypeOK
  <1> SUFFICES ASSUME Init PROVE TypeOK
    OBVIOUS
  <1>1. NoCtx \in Ctx
    BY DEF NoCtx, NoPlan, Ctx, Plan
  <1>2. NoTake \in [Rows -> Int]
    BY DEF NoTake
  <1>3. userGroups \in [Users -> SUBSET Groups]
    <2>1. \A b \in Bills : Row0[b].groups \subseteq Groups
      BY LedgerAssumption DEF Row
    <2> QED BY <2>1 DEF Init
  <1>4. row \in [Rows -> Row] /\ funds \in [Rows -> Int]
    BY LedgerAssumption DEF Init
  <1> QED BY <1>1, <1>2, <1>3, <1>4 DEF Init, TypeOK, InTx, Selecting, Charging

LEMMA TypeStep ==
    ASSUME TypeOK, [Next]_vars
    PROVE  TypeOK'
  <1> USE DEF InTx, Selecting, Charging
  <1>1. ASSUME NEW r \in Requests, Authenticate(r) PROVE TypeOK'
    <2>1. PICK u \in Users, g \in Groups \cup {None}, c \in Costs :
             ctx' = [ctx EXCEPT ![r] = [NoCtx EXCEPT !.user = u, !.group = g,
                                                     !.amount = c, !.day = day]]
      BY <1>1 DEF Authenticate
    <2>2. [NoCtx EXCEPT !.user = u, !.group = g, !.amount = c, !.day = day] \in Ctx
      BY LedgerAssumption DEF NoCtx, NoPlan, Ctx, Plan, TypeOK
    <2> QED BY <1>1, <2>1, <2>2 DEF Authenticate, TypeOK, data
  <1>2. ASSUME NEW r \in Requests, RequestStep(r) PROVE TypeOK'
    <2>1. CASE HandleUsage(r)
      <3>1. CASE Select(r, Bills, "bills")
        BY <2>1, <3>1 DEF HandleUsage, Select, TypeOK, data
      <3>2. CASE pc' = [pc EXCEPT ![r] = "commit"] /\ UNCHANGED <<at, todo, got>>
        BY <2>1, <3>2 DEF HandleUsage, TypeOK, data
      <3> QED BY <2>1, <3>1, <3>2 DEF HandleUsage
    <2>2. CASE DeductBillBalance(r)
      <3>1. ctx[r].amount \in Nat
        BY DEF TypeOK, Ctx
      <3> QED BY <2>2, <3>1 DEF DeductBillBalance, StartCharging, TypeOK, data
    <2>3. CASE FallToPrepaid(r)
      BY <2>3 DEF FallToPrepaid, Select, TypeOK, data
    <2> QED BY <1>2, <2>1, <2>2, <2>3 DEF RequestStep
  <1>3. ASSUME NEW o \in Orders, CreateOrder(o) PROVE TypeOK'
    <2>1. PICK u \in Users, p \in Plans :
             /\ ctx' = [ctx EXCEPT ![o] = [NoCtx EXCEPT !.user = u, !.day = day,
                                                        !.amount = p.price, !.plan = p]]
             /\ todo' = [todo EXCEPT ![o] = {c \in Cards : Active(c, u, day)}]
      BY <1>3 DEF CreateOrder
    <2>2. [NoCtx EXCEPT !.user = u, !.day = day, !.amount = p.price, !.plan = p] \in Ctx
      BY LedgerAssumption DEF NoCtx, NoPlan, Ctx, Plan, TypeOK
    <2> QED BY <1>3, <2>1, <2>2 DEF CreateOrder, TypeOK, data
  <1>4. ASSUME NEW t \in Txs, TxStep(t) PROVE TypeOK'
    <2>1. CASE LockRow(t)
      BY <2>1 DEF LockRow, TypeOK, data
    <2>2. CASE DeductPrepaidBalance(t)
      <3>1. ctx[t].amount \in Nat
        BY DEF TypeOK, Ctx
      <3> QED BY <2>2, <3>1 DEF DeductPrepaidBalance, StartCharging, TypeOK, data
    <2>3. CASE ChargeRow(t)
      <3>1. PICK x \in Rows : /\ todo' = [todo EXCEPT ![t] = @ \ {x}]
                              /\ take' = [take EXCEPT ![t][x] = Deduction(t, x)]
                              /\ rem' = [rem EXCEPT ![t] = @ - Deduction(t, x)]
        BY <2>3 DEF ChargeRow
      <3>2. Deduction(t, x) \in Int /\ rem[t] - Deduction(t, x) \in Nat
        BY DEF Deduction, TypeOK
      <3> QED BY <2>3, <3>1, <3>2 DEF ChargeRow, TypeOK, data
    <2>4. CASE PrepaidCharged(t)
      BY <2>4 DEF PrepaidCharged, TypeOK, data
    <2>5. CASE ReadBillGroups(t)
      <3>1. OwnGroups(t) \subseteq Groups
        BY DEF OwnGroups, TypeOK, Ctx, Plan
      <3>2. BillGroups(t) \subseteq Groups
        BY DEF BillGroups, TypeOK, Row
      <3> QED BY <2>5, <3>1, <3>2 DEF ReadBillGroups, TypeOK, data
    <2>6. CASE WriteBillGroups(t)
      BY <2>6 DEF WriteBillGroups, TypeOK, data
    <2>7. CASE Commit(t)
      <3>1. row' \in [Rows -> Row]
        <4>1. ASSUME NEW x \in Rows PROVE row'[x] \in Row
          <5>1. CASE x = t
            <6>1. t \in Orders
              BY <5>1, LedgerAssumption
            <6> QED BY <2>7, <5>1, <6>1, NewBillType DEF Commit
          <5>2. CASE x # t
            BY <2>7, <5>2 DEF Commit, TypeOK
          <5> QED BY <5>1, <5>2
        <4>2. row' = [x \in Rows |-> row'[x]]
          BY <2>7 DEF Commit
        <4> QED BY <4>1, <4>2
      <3>2. funds' \in [Rows -> Int]
        <4>1. ctx[t].plan.total \in Nat
          BY DEF TypeOK, Ctx, Plan
        <4> QED BY <2>7, <4>1 DEF Commit, TypeOK
      <3>3. used' \in [Bills -> Int]
        BY <2>7 DEF Commit, UsedAfter, TypeOK
      <3>4. lock' \in [Rows \cup Users -> Txs \cup {None}]
        BY <2>7 DEF Commit, Release, TypeOK
      <3>5. userGroups' \in [Users -> SUBSET Groups]
        BY <2>7 DEF Commit, TypeOK
      <3> QED BY <2>7, <3>1, <3>2, <3>3, <3>4, <3>5 DEF Commit, TypeOK
    <2> QED BY <1>4, <2>1, <2>2, <2>3, <2>4, <2>5, <2>6, <2>7 DEF TxStep
  <1>5. ASSUME NEW t \in Txs, Rollback(t) PROVE TypeOK'
    <2>1. NoTake \in [Rows -> Int]
      BY DEF NoTake
    <2> QED BY <1>5, <2>1 DEF Rollback, Release, TypeOK, data
  <1>6. ASSUME NEW u \in Users, NEW c \in Cards, Redeem(u, c) PROVE TypeOK'
    <2>1. row[c] \in Row /\ day \in Nat
      BY DEF TypeOK
    <2>2. PICK n \in Nat : row' = [row EXCEPT ![c].owner = u, ![c].from = day, ![c].until = n]
      <3>1. ValidDays[c] \in Nat /\ day + ValidDays[c] \in Nat /\ Forever \in Nat
        BY <2>1, LedgerAssumption
      <3> QED BY <1>6, <3>1 DEF Redeem
    <2>3. row' = [row EXCEPT ![c] = [row[c] EXCEPT !.owner = u, !.from = day, !.until = n]]
      BY <2>2 DEF TypeOK
    <2>4. [row[c] EXCEPT !.owner = u, !.from = day, !.until = n] \in Row
      BY <2>1 DEF Row
    <2>5. row' \in [Rows -> Row]
      BY <2>3, <2>4 DEF TypeOK
    <2> QED BY <1>6, <2>5 DEF Redeem, TypeOK
  <1>7. ASSUME Admin PROVE TypeOK'
    <2>1. ASSUME NEW x \in AdminRows, NEW on \in BOOLEAN, SetEnabled(x, on) PROVE TypeOK'
      <3>1. x \in Rows /\ row' = [row EXCEPT ![x].on = on]
        BY <2>1, LedgerAssumption DEF SetEnabled
      <3>2. [row[x] EXCEPT !.on = on] \in Row
        <4>1. row[x] \in Row
          BY <3>1 DEF TypeOK
        <4>2. /\ [row[x] EXCEPT !.on = TRUE] \in Row
              /\ [row[x] EXCEPT !.on = FALSE] \in Row
          BY <4>1 DEF Row
        <4>3. on = TRUE \/ on = FALSE
          OBVIOUS
        <4> QED BY <4>2, <4>3, Zenon
      <3>3. row' \in [Rows -> Row]
        BY <3>1, <3>2 DEF TypeOK
      <3> QED BY <2>1, <3>3 DEF SetEnabled, TypeOK
    <2>2. ASSUME NEW b \in Bills, DeleteBill(b) PROVE TypeOK'
      <3>0. row[b] \in Row
        BY DEF TypeOK
      <3>1. [row[b] EXCEPT !.owner = None, !.on = FALSE] \in Row
        BY <3>0 DEF Row
      <3>2. row' = [row EXCEPT ![b] = [row[b] EXCEPT !.owner = None, !.on = FALSE]]
        BY <2>2 DEF DeleteBill, TypeOK
      <3>3. row' \in [Rows -> Row]
        BY <3>1, <3>2 DEF TypeOK
      <3> QED BY <2>2, <3>3 DEF DeleteBill, TypeOK
    <2> QED BY <1>7, <2>1, <2>2 DEF Admin
  <1>8. CASE Tick
    BY <1>8 DEF Tick, TypeOK, data
  <1>9. CASE UNCHANGED vars
    BY <1>9 DEF vars, data, TypeOK
  <1> QED BY <1>1, <1>2, <1>3, <1>4, <1>5, <1>6, <1>7, <1>8, <1>9 DEF Next

\* Every variable keeps its type; in particular no transaction ever deducts
\* more than it was asked for.
THEOREM TypeCorrect == Spec => []TypeOK
  BY TypeInit, TypeStep, PTL DEF Spec
-----------------------------------------------------------------------------
\* A request is let through.
LEMMA AuthenticateInv ==
    ASSUME TypeOK, IndInv, NEW r \in Requests, Authenticate(r)
    PROVE  IndInv'
  <1> USE LedgerAssumption DEF TypeOK, InTx, Selecting, Charging, data
  <1>1. HoldsLocks'
    BY DEF IndInv, Authenticate, HoldsLocks
  <1>2. NotStarted'
    BY DEF IndInv, Authenticate, NotStarted
  <1>3. NothingYet'
    BY DEF IndInv, Authenticate, NothingYet
  <1>4. ToCharge'
    BY DEF IndInv, Authenticate, ToCharge
  <1>5. UserIsKnown'
    BY DEF IndInv, Authenticate, UserIsKnown
  <1>6. UnbornBills'
    BY DEF IndInv, Authenticate, UnbornBills
  <1>7. ChargesAreCovered'
    BY DEF IndInv, Authenticate, ChargesAreCovered
  <1>8. NoOverdraft' /\ BillsBalanced'
    BY DEF IndInv, Authenticate, NoOverdraft, BillsBalanced
  <1> QED BY <1>1, <1>2, <1>3, <1>4, <1>5, <1>6, <1>7, <1>8 DEF IndInv

\* The first statement of a usage transaction: it holds nothing yet, and the
\* bills it selects belong to somebody.
LEMMA HandleUsageInv ==
    ASSUME TypeOK, IndInv, NEW r \in Requests, HandleUsage(r)
    PROVE  IndInv'
  <1> USE LedgerAssumption DEF TypeOK, InTx, Selecting, Charging, data
  <1>1. HoldsLocks'
    BY DEF IndInv, HandleUsage, Select, NotStarted, HoldsLocks
  <1>2. NotStarted'
    BY DEF IndInv, HandleUsage, Select, NotStarted
  <1>3. NothingYet'
    BY DEF IndInv, HandleUsage, Select, NothingYet
  <1>4. ToCharge'
    <2>1. ASSUME NEW t \in Txs, pc'[t] \in Charging
          PROVE  todo'[t] = todo[t] /\ got'[t] = got[t] /\ pc[t] = pc'[t]
      <3>1. t # r
        BY <2>1 DEF HandleUsage, Select
      <3> QED BY <2>1, <3>1 DEF HandleUsage, Select
    <2>2. take' = take
      BY DEF HandleUsage
    <2> QED BY <2>1, <2>2 DEF IndInv, ToCharge
  <1>5. UserIsKnown'
    BY DEF IndInv, HandleUsage, Select, UserIsKnown
  <1>6. UnbornBills'
    <2>1. ASSUME NEW o \in Orders, row[o].owner = None
          PROVE  ~Usable(o, r, day)
      <3>1. ctx[r].user \in Users
        BY DEF IndInv, UserIsKnown, HandleUsage
      <3> QED BY <2>1, <3>1 DEF Usable, Active
    <2>2. ASSUME NEW o \in Orders, pc'[o] # "done"
          PROVE  pc[o] # "done"
      BY <2>2 DEF HandleUsage, Select
    <2>3. ASSUME NEW o \in Orders, row[o].owner = None, NEW t \in Txs,
                 o \notin todo[t], o \notin got[t]
          PROVE  o \notin todo'[t] /\ o \notin got'[t]
      <3>1. CASE Select(r, Bills, "bills")
        BY <2>1, <2>3, <3>1 DEF HandleUsage, Select
      <3>2. CASE UNCHANGED <<at, todo, got>>
        BY <2>3, <3>2
      <3> QED BY <3>1, <3>2 DEF HandleUsage
    <2>4. row' = row /\ funds' = funds /\ used' = used /\ lock' = lock
      BY DEF HandleUsage
    <2> QED BY <2>2, <2>3, <2>4 DEF IndInv, UnbornBills
  <1>7. ChargesAreCovered'
    BY DEF IndInv, HandleUsage, Select, NothingYet, NoTake, ChargesAreCovered
  <1>8. NoOverdraft' /\ BillsBalanced'
    BY DEF IndInv, HandleUsage, NoOverdraft, BillsBalanced
  <1> QED BY <1>1, <1>2, <1>3, <1>4, <1>5, <1>6, <1>7, <1>8 DEF IndInv

\* The locked bills cover the amount: they become the rows to charge.
LEMMA DeductBillBalanceInv ==
    ASSUME TypeOK, IndInv, NEW r \in Requests, DeductBillBalance(r)
    PROVE  IndInv'
  <1> USE LedgerAssumption DEF TypeOK, InTx, Selecting, Charging, data
  <1>1. HoldsLocks'
    BY DEF IndInv, DeductBillBalance, StartCharging, HoldsLocks
  <1>2. NotStarted'
    BY DEF IndInv, DeductBillBalance, StartCharging, NotStarted
  <1>3. NothingYet'
    BY DEF IndInv, DeductBillBalance, StartCharging, NothingYet
  <1>4. ToCharge'
    BY DEF IndInv, DeductBillBalance, StartCharging, NothingYet, NoTake, ToCharge
  <1>5. UserIsKnown'
    BY DEF IndInv, DeductBillBalance, StartCharging, UserIsKnown
  <1>6. UnbornBills'
    BY DEF IndInv, DeductBillBalance, StartCharging, UnbornBills
  <1>7. ChargesAreCovered'
    BY DEF IndInv, DeductBillBalance, StartCharging, ChargesAreCovered
  <1>8. NoOverdraft' /\ BillsBalanced'
    BY DEF IndInv, DeductBillBalance, StartCharging, NoOverdraft, BillsBalanced
  <1> QED BY <1>1, <1>2, <1>3, <1>4, <1>5, <1>6, <1>7, <1>8 DEF IndInv

\* The bills do not cover it: the cards are selected.
LEMMA FallToPrepaidInv ==
    ASSUME TypeOK, IndInv, NEW r \in Requests, FallToPrepaid(r)
    PROVE  IndInv'
  <1> USE LedgerAssumption DEF TypeOK, InTx, Selecting, Charging, data
  <1>1. HoldsLocks'
    BY DEF IndInv, FallToPrepaid, Select, HoldsLocks
  <1>2. NotStarted'
    BY DEF IndInv, FallToPrepaid, Select, NotStarted
  <1>3. NothingYet'
    BY DEF IndInv, FallToPrepaid, Select, NothingYet
  <1>4. ToCharge'
    BY DEF IndInv, FallToPrepaid, Select, ToCharge
  <1>5. UserIsKnown'
    BY DEF IndInv, FallToPrepaid, Select, UserIsKnown
  <1>6. UnbornBills'
    BY DEF IndInv, FallToPrepaid, Select, UnbornBills
  <1>7. ChargesAreCovered'
    BY DEF IndInv, FallToPrepaid, Select, ChargesAreCovered
  <1>8. NoOverdraft' /\ BillsBalanced'
    BY DEF IndInv, FallToPrepaid, Select, NoOverdraft, BillsBalanced
  <1> QED BY <1>1, <1>2, <1>3, <1>4, <1>5, <1>6, <1>7, <1>8 DEF IndInv

\* A purchase selects the cards of its user.
LEMMA CreateOrderInv ==
    ASSUME TypeOK, IndInv, NEW o \in Orders, CreateOrder(o)
    PROVE  IndInv'
  <1> USE LedgerAssumption DEF TypeOK, InTx, Selecting, Charging, data
  <1>1. HoldsLocks'
    BY DEF IndInv, CreateOrder, NotStarted, HoldsLocks
  <1>2. NotStarted'
    BY DEF IndInv, CreateOrder, NotStarted
  <1>3. NothingYet'
    BY DEF IndInv, CreateOrder, NothingYet
  <1>4. ToCharge'
    BY DEF IndInv, CreateOrder, ToCharge
  <1>5. UserIsKnown'
    BY DEF IndInv, CreateOrder, UserIsKnown
  <1>6. UnbornBills'
    BY DEF IndInv, CreateOrder, UnbornBills
  <1>7. ChargesAreCovered'
    BY DEF IndInv, CreateOrder, NothingYet, NoTake, ChargesAreCovered
  <1>8. NoOverdraft' /\ BillsBalanced'
    BY DEF IndInv, CreateOrder, NoOverdraft, BillsBalanced
  <1> QED BY <1>1, <1>2, <1>3, <1>4, <1>5, <1>6, <1>7, <1>8 DEF IndInv

\* A lock that was free, or its own, is taken on a row that exists.
LEMMA LockRowInv ==
    ASSUME TypeOK, IndInv, NEW t \in Txs, LockRow(t)
    PROVE  IndInv'
  <1> USE LedgerAssumption DEF TypeOK, InTx, Selecting, Charging, data
  <1>1. HoldsLocks'
    BY DEF IndInv, LockRow, LockFree, First, HoldsLocks
  <1>2. NotStarted'
    BY DEF IndInv, LockRow, LockFree, First, NotStarted
  <1>3. NothingYet'
    BY DEF IndInv, LockRow, LockFree, First, NothingYet
  <1>4. ToCharge'
    BY DEF IndInv, LockRow, LockFree, First, ToCharge
  <1>5. UserIsKnown'
    BY DEF IndInv, LockRow, LockFree, First, UserIsKnown
  <1>6. UnbornBills'
    BY DEF IndInv, LockRow, LockFree, First, UnbornBills
  <1>7. ChargesAreCovered'
    BY DEF IndInv, LockRow, LockFree, First, ChargesAreCovered
  <1>8. NoOverdraft' /\ BillsBalanced'
    BY DEF IndInv, LockRow, LockFree, First, NoOverdraft, BillsBalanced
  <1> QED BY <1>1, <1>2, <1>3, <1>4, <1>5, <1>6, <1>7, <1>8 DEF IndInv

\* The locked cards become the rows to charge.
LEMMA DeductPrepaidBalanceInv ==
    ASSUME TypeOK, IndInv, NEW t \in Txs, DeductPrepaidBalance(t)
    PROVE  IndInv'
  <1> USE LedgerAssumption DEF TypeOK, InTx, Selecting, Charging, data
  <1>1. HoldsLocks'
    BY DEF IndInv, DeductPrepaidBalance, StartCharging, HoldsLocks
  <1>2. NotStarted'
    BY DEF IndInv, DeductPrepaidBalance, StartCharging, NotStarted
  <1>3. NothingYet'
    BY DEF IndInv, DeductPrepaidBalance, StartCharging, NothingYet
  <1>4. ToCharge'
    BY DEF IndInv, DeductPrepaidBalance, StartCharging, NothingYet, NoTake, ToCharge
  <1>5. UserIsKnown'
    BY DEF IndInv, DeductPrepaidBalance, StartCharging, UserIsKnown
  <1>6. UnbornBills'
    BY DEF IndInv, DeductPrepaidBalance, StartCharging, UnbornBills
  <1>7. ChargesAreCovered'
    BY DEF IndInv, DeductPrepaidBalance, StartCharging, ChargesAreCovered
  <1>8. NoOverdraft' /\ BillsBalanced'
    BY DEF IndInv, DeductPrepaidBalance, StartCharging, NoOverdraft, BillsBalanced
  <1> QED BY <1>1, <1>2, <1>3, <1>4, <1>5, <1>6, <1>7, <1>8 DEF IndInv

\* The deduction is at most what the row, which is locked, holds.
LEMMA ChargeRowInv ==
    ASSUME TypeOK, IndInv, NEW t \in Txs, ChargeRow(t)
    PROVE  IndInv'
  <1> USE LedgerAssumption DEF TypeOK, InTx, Selecting, Charging, data
  <1>1. HoldsLocks'
    BY DEF IndInv, ChargeRow, Deduction, First, HoldsLocks
  <1>2. NotStarted'
    BY DEF IndInv, ChargeRow, Deduction, First, NotStarted
  <1>3. NothingYet'
    BY DEF IndInv, ChargeRow, Deduction, First, NothingYet
  <1>4. ToCharge'
    BY DEF IndInv, ChargeRow, Deduction, First, ToCharge
  <1>5. UserIsKnown'
    BY DEF IndInv, ChargeRow, Deduction, First, UserIsKnown
  <1>6. UnbornBills'
    BY DEF IndInv, ChargeRow, Deduction, First, UnbornBills
  <1>7. ChargesAreCovered'
    BY DEF IndInv, ChargeRow, Deduction, First, ToCharge, HoldsLocks, NoOverdraft, ChargesAreCovered
  <1>8. NoOverdraft' /\ BillsBalanced'
    BY DEF IndInv, ChargeRow, Deduction, First, NoOverdraft, BillsBalanced
  <1> QED BY <1>1, <1>2, <1>3, <1>4, <1>5, <1>6, <1>7, <1>8 DEF IndInv

\* Nothing but pc changes.
LEMMA PrepaidChargedInv ==
    ASSUME TypeOK, IndInv, NEW t \in Txs, PrepaidCharged(t)
    PROVE  IndInv'
  <1> USE LedgerAssumption DEF TypeOK, InTx, Selecting, Charging, data
  <1>1. HoldsLocks'
    BY DEF IndInv, PrepaidCharged, HoldsLocks
  <1>2. NotStarted'
    BY DEF IndInv, PrepaidCharged, NotStarted
  <1>3. NothingYet'
    BY DEF IndInv, PrepaidCharged, NothingYet
  <1>4. ToCharge'
    BY DEF IndInv, PrepaidCharged, ToCharge
  <1>5. UserIsKnown'
    BY DEF IndInv, PrepaidCharged, UserIsKnown
  <1>6. UnbornBills'
    BY DEF IndInv, PrepaidCharged, UnbornBills
  <1>7. ChargesAreCovered'
    BY DEF IndInv, PrepaidCharged, ChargesAreCovered
  <1>8. NoOverdraft' /\ BillsBalanced'
    BY DEF IndInv, PrepaidCharged, NoOverdraft, BillsBalanced
  <1> QED BY <1>1, <1>2, <1>3, <1>4, <1>5, <1>6, <1>7, <1>8 DEF IndInv

\* Nothing but pc and merged changes.
LEMMA ReadBillGroupsInv ==
    ASSUME TypeOK, IndInv, NEW t \in Txs, ReadBillGroups(t)
    PROVE  IndInv'
  <1> USE LedgerAssumption DEF TypeOK, InTx, Selecting, Charging, data
  <1>1. HoldsLocks'
    BY DEF IndInv, ReadBillGroups, HoldsLocks
  <1>2. NotStarted'
    BY DEF IndInv, ReadBillGroups, NotStarted
  <1>3. NothingYet'
    BY DEF IndInv, ReadBillGroups, NothingYet
  <1>4. ToCharge'
    BY DEF IndInv, ReadBillGroups, ToCharge
  <1>5. UserIsKnown'
    BY DEF IndInv, ReadBillGroups, UserIsKnown
  <1>6. UnbornBills'
    BY DEF IndInv, ReadBillGroups, UnbornBills
  <1>7. ChargesAreCovered'
    BY DEF IndInv, ReadBillGroups, ChargesAreCovered
  <1>8. NoOverdraft' /\ BillsBalanced'
    BY DEF IndInv, ReadBillGroups, NoOverdraft, BillsBalanced
  <1> QED BY <1>1, <1>2, <1>3, <1>4, <1>5, <1>6, <1>7, <1>8 DEF IndInv

\* The lock of a user's row is taken.
LEMMA WriteBillGroupsInv ==
    ASSUME TypeOK, IndInv, NEW t \in Txs, WriteBillGroups(t)
    PROVE  IndInv'
  <1> USE LedgerAssumption DEF TypeOK, InTx, Selecting, Charging, data
  <1>1. HoldsLocks'
    BY DEF IndInv, WriteBillGroups, LockFree, HoldsLocks
  <1>2. NotStarted'
    BY DEF IndInv, WriteBillGroups, LockFree, NotStarted
  <1>3. NothingYet'
    BY DEF IndInv, WriteBillGroups, LockFree, NothingYet
  <1>4. ToCharge'
    BY DEF IndInv, WriteBillGroups, LockFree, ToCharge
  <1>5. UserIsKnown'
    BY DEF IndInv, WriteBillGroups, LockFree, UserIsKnown
  <1>6. UnbornBills'
    BY DEF IndInv, WriteBillGroups, LockFree, UserIsKnown, UnbornBills
  <1>7. ChargesAreCovered'
    BY DEF IndInv, WriteBillGroups, LockFree, ChargesAreCovered
  <1>8. NoOverdraft' /\ BillsBalanced'
    BY DEF IndInv, WriteBillGroups, LockFree, NoOverdraft, BillsBalanced
  <1> QED BY <1>1, <1>2, <1>3, <1>4, <1>5, <1>6, <1>7, <1>8 DEF IndInv

\* A commit applies deductions that the locked rows cover, to funds and to
\* used_quota alike, and no other transaction has deducted from these rows.
LEMMA CommitInv ==
    ASSUME TypeOK, IndInv, NEW t \in Txs, Commit(t)
    PROVE  IndInv'
  <1> USE LedgerAssumption DEF TypeOK, InTx, Selecting, Charging, data
  <1>0. \A x \in Rows : take[t][x] \in Int /\ take[t][x] >= 0
                        /\ (take[t][x] # 0 => take[t][x] <= funds[x])
    BY DEF Commit, IndInv, ChargesAreCovered
  <1>a. ASSUME t \in Rows
        PROVE  /\ t \in Orders /\ funds[t] = 0 /\ used[t] = 0 /\ take[t][t] = 0
               /\ ctx[t].plan.total \in Nat
    <2>1. t \in Orders /\ pc[t] = "commit"
      BY <1>a DEF Commit
    <2>2. funds[t] = 0 /\ used[t] = 0 /\ lock[t] = None
      BY <2>1 DEF IndInv, UnbornBills
    <2>3. take[t][t] = 0
      BY <1>a, <2>1, <2>2 DEF IndInv, ChargesAreCovered
    <2>4. ctx[t].plan.total \in Nat
      BY DEF Ctx, Plan
    <2> QED BY <2>1, <2>2, <2>3, <2>4
  <1>1. HoldsLocks'
    BY DEF IndInv, Commit, Release, HoldsLocks
  <1>2. NotStarted'
    BY DEF IndInv, Commit, NotStarted
  <1>3. NothingYet'
    BY DEF IndInv, Commit, NothingYet
  <1>4. ToCharge'
    BY DEF IndInv, Commit, ToCharge
  <1>5. UserIsKnown'
    BY DEF IndInv, Commit, UserIsKnown
  <1>6. UnbornBills'
    BY DEF IndInv, Commit, UsedAfter, Release, ChargesAreCovered, UnbornBills
  <1>7. ChargesAreCovered'
    BY DEF IndInv, Commit, UsedAfter, Release, UnbornBills, ChargesAreCovered
  <1>8. NoOverdraft'
    <2>1. ASSUME NEW x \in Rows PROVE funds'[x] >= 0
      <3>1. CASE x = t
        <4>1. funds'[x] = ctx[t].plan.total
          BY <3>1 DEF Commit
        <4> QED BY <1>a, <3>1, <4>1
      <3>2. CASE x # t
        <4>1. funds'[x] = funds[x] - take[t][x]
          BY <3>2 DEF Commit
        <4>2. funds[x] >= 0 /\ funds[x] \in Int
          BY DEF IndInv, NoOverdraft
        <4> QED BY <1>0, <4>1, <4>2
      <3> QED BY <3>1, <3>2
    <2> QED BY <2>1 DEF NoOverdraft
  <1>9. BillsBalanced'
    <2>1. ASSUME NEW b \in Bills PROVE used'[b] + funds'[b] = row'[b].total
      <3>1. CASE b = t
        <4>1. /\ funds'[b] = ctx[t].plan.total
              /\ used'[b] = used[b] + take[t][b]
              /\ row'[b].total = ctx[t].plan.total
          BY <3>1 DEF Commit, UsedAfter, NewBill
        <4> QED BY <1>a, <3>1, <4>1
      <3>2. CASE b # t
        <4>1. /\ funds'[b] = funds[b] - take[t][b]
              /\ used'[b] = used[b] + take[t][b]
              /\ row'[b] = row[b]
          BY <3>2 DEF Commit, UsedAfter
        <4>2. used[b] + funds[b] = row[b].total /\ used[b] \in Int /\ funds[b] \in Int
          BY DEF IndInv, BillsBalanced
        <4> QED BY <1>0, <4>1, <4>2
      <3> QED BY <3>1, <3>2
    <2> QED BY <2>1 DEF BillsBalanced
  <1> QED BY <1>1, <1>2, <1>3, <1>4, <1>5, <1>6, <1>7, <1>8, <1>9 DEF IndInv

\* Locks and deductions go together.
LEMMA RollbackInv ==
    ASSUME TypeOK, IndInv, NEW t \in Txs, Rollback(t)
    PROVE  IndInv'
  <1> USE LedgerAssumption DEF TypeOK, InTx, Selecting, Charging, data
  <1>1. HoldsLocks'
    BY DEF IndInv, Rollback, Release, HoldsLocks
  <1>2. NotStarted'
    BY DEF IndInv, Rollback, Release, NotStarted
  <1>3. NothingYet'
    BY DEF IndInv, Rollback, Release, NothingYet
  <1>4. ToCharge'
    BY DEF IndInv, Rollback, Release, ToCharge
  <1>5. UserIsKnown'
    BY DEF IndInv, Rollback, Release, UserIsKnown
  <1>6. UnbornBills'
    BY DEF IndInv, Rollback, Release, UnbornBills
  <1>7. ChargesAreCovered'
    BY DEF IndInv, Rollback, Release, ChargesAreCovered
  <1>8. NoOverdraft' /\ BillsBalanced'
    BY DEF IndInv, Rollback, Release, NoOverdraft, BillsBalanced
  <1> QED BY <1>1, <1>2, <1>3, <1>4, <1>5, <1>6, <1>7, <1>8 DEF IndInv

\* Whoever else writes a row waits for its lock and leaves the money alone;
\* an unborn bill belongs to nobody and cannot be reached.
LEMMA OthersInv ==
    ASSUME TypeOK, IndInv,
           UNCHANGED <<funds, used, userGroups, lock, pc, ctx, at, todo, got, take, rem, merged>>,
           NEW x \in Rows, row' \in [Rows -> Row],
           \A y \in Rows : row'[y].total = row[y].total,
           \A o \in Orders : pc[o] # "done" => row'[o].owner = None
    PROVE  IndInv'
  <1> USE DEF TypeOK, InTx, Selecting, Charging
  <1>1. HoldsLocks' /\ NotStarted' /\ NothingYet' /\ ToCharge' /\ UserIsKnown'
    BY DEF IndInv, HoldsLocks, NotStarted, NothingYet, ToCharge, UserIsKnown
  <1>2. UnbornBills'
    BY LedgerAssumption DEF IndInv, UnbornBills
  <1>3. ChargesAreCovered' /\ NoOverdraft'
    BY DEF IndInv, ChargesAreCovered, NoOverdraft
  <1>4. BillsBalanced'
    BY DEF IndInv, BillsBalanced
  <1> QED BY <1>1, <1>2, <1>3, <1>4 DEF IndInv

LEMMA RedeemInv ==
    ASSUME TypeOK, IndInv, TypeOK', NEW u \in Users, NEW c \in Cards, Redeem(u, c)
    PROVE  IndInv'
  <1>1. \A y \in Rows : row'[y].total = row[y].total
    BY DEF Redeem, TypeOK, Row
  <1>2. \A o \in Orders : o # c
    BY LedgerAssumption
  <1>3. \A o \in Orders : row'[o] = row[o]
    BY <1>2, LedgerAssumption DEF Redeem, TypeOK
  <1>4. \A o \in Orders : pc[o] # "done" => row'[o].owner = None
    BY <1>3 DEF IndInv, UnbornBills
  <1> QED BY <1>1, <1>4, OthersInv DEF Redeem, TypeOK

LEMMA AdminInv ==
    ASSUME TypeOK, IndInv, TypeOK', Admin
    PROVE  IndInv'
  <1>1. ASSUME NEW x \in AdminRows, NEW on \in BOOLEAN, SetEnabled(x, on) PROVE IndInv'
    <2>1. x \in Rows /\ row' = [row EXCEPT ![x].on = on]
      BY <1>1, LedgerAssumption DEF SetEnabled
    <2>2. \A y \in Rows : row'[y].total = row[y].total /\ row'[y].owner = row[y].owner
      BY <2>1 DEF TypeOK, Row
    <2>3. \A o \in Orders : pc[o] # "done" => row'[o].owner = None
      BY <2>2, LedgerAssumption DEF IndInv, UnbornBills
    <2> QED BY <1>1, <2>1, <2>2, <2>3, OthersInv DEF SetEnabled, TypeOK
  <1>2. ASSUME NEW b \in Bills, DeleteBill(b) PROVE IndInv'
    <2>1. \A y \in Rows : row'[y].total = row[y].total
      BY <1>2 DEF DeleteBill, TypeOK, Row
    <2>2. \A y \in Rows : row[y].owner = None => row'[y].owner = None
      BY <1>2 DEF DeleteBill, TypeOK, Row
    <2>3. \A o \in Orders : pc[o] # "done" => row'[o].owner = None
      BY <2>2, LedgerAssumption DEF IndInv, UnbornBills
    <2> QED BY <1>2, <2>1, <2>3, OthersInv DEF DeleteBill, TypeOK
  <1> QED BY <1>1, <1>2 DEF Admin

LEMMA IdleInv ==
    ASSUME TypeOK, IndInv, Tick \/ UNCHANGED vars
    PROVE  IndInv'
  BY DEF Tick, vars, data, IndInv, HoldsLocks, NotStarted, NothingYet, ToCharge,
         UserIsKnown, UnbornBills, ChargesAreCovered, NoOverdraft, BillsBalanced

LEMMA InvInit == Init => IndInv
  <1> SUFFICES ASSUME Init PROVE IndInv
    OBVIOUS
  <1> USE LedgerAssumption DEF Init, InTx, Selecting, Charging
  <1>1. HoldsLocks /\ NotStarted /\ NothingYet /\ ToCharge /\ UserIsKnown
    BY DEF HoldsLocks, NotStarted, NothingYet, ToCharge, UserIsKnown
  <1>2. UnbornBills
    BY DEF UnbornBills, Absent
  <1>3. ChargesAreCovered /\ NoOverdraft
    BY DEF ChargesAreCovered, NoOverdraft
  <1>4. BillsBalanced
    BY DEF BillsBalanced, Row
  <1> QED BY <1>1, <1>2, <1>3, <1>4 DEF IndInv

LEMMA InvStep ==
    ASSUME TypeOK, IndInv, TypeOK', [Next]_vars
    PROVE  IndInv'
  <1>1. ASSUME NEW r \in Requests, Authenticate(r) \/ RequestStep(r) PROVE IndInv'
    BY <1>1, AuthenticateInv, HandleUsageInv, DeductBillBalanceInv, FallToPrepaidInv
       DEF RequestStep
  <1>2. ASSUME NEW o \in Orders, CreateOrder(o) PROVE IndInv'
    BY <1>2, CreateOrderInv
  <1>3. ASSUME NEW t \in Txs, TxStep(t) \/ Rollback(t) PROVE IndInv'
    BY <1>3, LockRowInv, DeductPrepaidBalanceInv, ChargeRowInv, PrepaidChargedInv,
       ReadBillGroupsInv, WriteBillGroupsInv, CommitInv, RollbackInv DEF TxStep
  <1>4. ASSUME NEW u \in Users, NEW c \in Cards, Redeem(u, c) PROVE IndInv'
    BY <1>4, RedeemInv
  <1> QED BY <1>1, <1>2, <1>3, <1>4, AdminInv, IdleInv DEF Next

\* The strengthened invariant holds in every reachable state: deductions are
\* only ever made from rows that their transaction has locked.
THEOREM LedgerInvariant == Spec => [](TypeOK /\ IndInv)
  <1>1. Init => TypeOK /\ IndInv
    BY TypeInit, InvInit
  <1>2. TypeOK /\ IndInv /\ [Next]_vars => (TypeOK /\ IndInv)'
    BY TypeStep, InvStep
  <1> QED BY <1>1, <1>2, PTL DEF Spec

\* No interleaving of charges, purchases, failures and admins overdraws a bill
\* or a card.
THEOREM NeverOverdrawn == Spec => []NoOverdraft
  <1>1. TypeOK /\ IndInv => NoOverdraft
    BY DEF IndInv
  <1> QED BY <1>1, LedgerInvariant, PTL

\* used_quota and left_quota of every bill always add up to its total quota.
THEOREM BillsAlwaysBalanced == Spec => []BillsBalanced
  <1>1. TypeOK /\ IndInv => BillsBalanced
    BY DEF IndInv
  <1> QED BY <1>1, LedgerInvariant, PTL
-----------------------------------------------------------------------------
\* The accounts of a transaction, from statement to statement.
OnlyFrom(t, S) == \A x \in Rows \ S : take[t][x] = 0
Paid(t, S) == OnlyFrom(t, S) /\ Taken(t, S) + rem[t] = ctx[t].amount

Unasked(t) == pc[t] \in {"idle", "sent"} => rem[t] = 0
Picked(t) ==
    /\ pc[t] = "bills" => t \in Requests /\ todo[t] \subseteq Bills /\ got[t] \subseteq Bills
    /\ pc[t] = "cards" => todo[t] \subseteq Cards /\ got[t] \subseteq Cards

\* What is left to pay is covered by the rows that are left to charge.
PaysBills(t) == pc[t] = "payBills" =>
    /\ t \in Requests /\ got[t] # {} /\ got[t] \subseteq Bills
    /\ Paid(t, Bills)
    /\ rem[t] <= Money(todo[t]) + BillEps

\* A request takes what the cards have: more is left to pay only when the cards that
\* were charged are empty.
Drained(t, S) == t \in Requests /\ rem[t] > 0 => \A x \in S : take[t][x] = funds[x]
PaysCards(t) == pc[t] = "payCards" =>
    /\ got[t] \subseteq Cards
    /\ Paid(t, Cards)
    /\ t \in Orders => rem[t] <= Money(todo[t]) + CardEps
    /\ Drained(t, got[t] \ todo[t])

PaidByBills(t) ==
    t \in Requests /\ got[t] # {} /\ got[t] \subseteq Bills /\ Paid(t, Bills) /\ rem[t] <= BillEps
PaidByCards(t) ==
    /\ got[t] \subseteq Cards /\ Paid(t, Cards)
    /\ t \in Orders => rem[t] <= CardEps
    /\ pc[t] # "done" => Drained(t, got[t])
Concluded(t) == pc[t] \in {"refresh", "commit", "done"} => PaidByBills(t) \/ PaidByCards(t)

Account(t) == Unasked(t) /\ Picked(t) /\ PaysBills(t) /\ PaysCards(t) /\ Concluded(t)
Accounts == \A t \in Txs : Account(t)

LEMMA FiniteParts == ASSUME NEW S, S \subseteq Rows \/ S \subseteq Txs PROVE IsFiniteSet(S)
  BY LedgerAssumption, FS_Subset

LEMMA RowTypes == ASSUME TypeOK
                  PROVE  /\ funds \in [Rows -> Int]
                         /\ \A t \in Txs : /\ take[t] \in [Rows -> Int] /\ rem[t] \in Nat
                                           /\ ctx[t].amount \in Nat
                                           /\ todo[t] \subseteq Rows /\ got[t] \subseteq Rows
  BY DEF TypeOK, Ctx

\* A transaction that does not move keeps its account while the rows it has locked
\* keep their money.
LEMMA Untouched ==
    ASSUME TypeOK, IndInv, Accounts, TypeOK', NEW t \in Txs,
           pc'[t] = pc[t], ctx'[t] = ctx[t], todo'[t] = todo[t], got'[t] = got[t],
           take'[t] = take[t], rem'[t] = rem[t],
           pc[t] \in InTx => \A x \in got[t] : funds'[x] = funds[x]
    PROVE  Account(t)'
  <1> USE DEF InTx, Selecting, Charging
  <1>0. Account(t)
    BY DEF Accounts
  <1>1. \A S : (Paid(t, S)' <=> Paid(t, S))
    BY DEF Paid, OnlyFrom, Taken
  <1>2. pc[t] \in Charging => Money(todo[t])' = Money(todo[t])
    <2> SUFFICES ASSUME pc[t] \in Charging PROVE Money(todo[t])' = Money(todo[t])
      OBVIOUS
    <2>1. todo[t] \subseteq got[t] /\ got[t] \subseteq Rows
      BY RowTypes DEF IndInv, ToCharge
    <2>2. funds \in [Rows -> Int] /\ funds' \in [Rows -> Int]
      BY DEF TypeOK
    <2>3. \A x \in todo[t] : funds[x] = funds'[x]
      BY <2>1
    <2>4. IsFiniteSet(todo[t])
      BY <2>1, FiniteParts
    <2>5. SumFunctionOnSet(funds, todo[t]) = SumFunctionOnSet(funds', todo[t])
      BY <2>1, <2>2, <2>3, <2>4, SumSame
    <2> QED BY <2>5 DEF Money
  <1>3. Unasked(t)' /\ Picked(t)'
    BY <1>0 DEF Account, Unasked, Picked
  <1>4. PaysBills(t)'
    BY <1>0, <1>1, <1>2 DEF Account, PaysBills
  <1>5. PaysCards(t)'
    BY <1>0, <1>1, <1>2 DEF Account, PaysCards, Drained
  <1>6. Concluded(t)'
    BY <1>0, <1>1 DEF Account, Concluded, PaidByBills, PaidByCards, Drained
  <1> QED BY <1>3, <1>4, <1>5, <1>6 DEF Account

\* A commit changes no row that another transaction has locked.
LEMMA LockedRowsStay ==
    ASSUME TypeOK, IndInv, NEW s \in Txs, Commit(s), NEW x \in Rows, lock[x] # None, lock[x] # s
    PROVE  funds'[x] = funds[x]
  <1>1. x # s
    <2>1. x = s => s \in Orders /\ pc[s] # "done"
      BY LedgerAssumption DEF Commit
    <2> QED BY <2>1 DEF IndInv, UnbornBills
  <1>2. take[s][x] = 0
    BY DEF IndInv, ChargesAreCovered, Commit, InTx
  <1>3. funds[x] \in Int
    BY DEF TypeOK
  <1> QED BY <1>1, <1>2, <1>3 DEF Commit

\* Before it charges anything a transaction has taken nothing.
LEMMA NothingTaken ==
    ASSUME TypeOK, NEW t \in Txs, take[t] = NoTake, NEW S, S \subseteq Rows
    PROVE  OnlyFrom(t, S) /\ Taken(t, S) = 0
  <1>1. \A x \in Rows : take[t][x] = 0
    BY DEF NoTake
  <1>2. SumFunctionOnSet(take[t], S) = 0
    BY <1>1, RowTypes, FiniteParts, SumZero
  <1> QED BY <1>1, <1>2 DEF OnlyFrom, Taken

\* What is charged to a row is no longer left to pay, and the row no longer counts
\* among those that may have to pay it.
LEMMA ChargeAddsUp ==
    ASSUME TypeOK, IndInv, TypeOK', NEW t \in Txs, ChargeRow(t),
           NEW S, S \subseteq Rows, got[t] \subseteq S, Paid(t, S)
    PROVE  /\ Paid(t, S)'
           /\ \A eps \in Nat : rem[t] <= Money(todo[t]) + eps => rem'[t] <= Money(todo[t])' + eps
           /\ Drained(t, got[t] \ todo[t]) => Drained(t, got[t] \ todo[t])'
  <1>1. PICK x \in Rows : /\ x \in todo[t]
                          /\ todo' = [todo EXCEPT ![t] = @ \ {x}]
                          /\ take' = [take EXCEPT ![t][x] = Deduction(t, x)]
                          /\ rem' = [rem EXCEPT ![t] = @ - Deduction(t, x)]
    BY DEF ChargeRow, First
  <1> DEFINE d == Deduction(t, x)
  <1>2. /\ funds' = funds /\ got' = got /\ ctx' = ctx /\ pc[t] \in Charging
        /\ todo[t] \subseteq got[t] /\ take[t][x] = 0 /\ x \in S
    BY <1>1 DEF ChargeRow, data, IndInv, ToCharge
  <1>3. /\ funds[x] \in Int /\ funds[x] >= 0 /\ rem[t] \in Nat /\ ctx[t].amount \in Nat
        /\ take[t] \in [Rows -> Int] /\ funds \in [Rows -> Int] /\ todo[t] \subseteq Rows
    BY RowTypes DEF IndInv, NoOverdraft
  <1>4. d \in Int /\ d >= 0 /\ d <= rem[t] /\ d <= funds[x] /\ (d = rem[t] \/ d = funds[x])
    BY <1>3 DEF Deduction
  <1>5. /\ todo'[t] = todo[t] \ {x} /\ rem'[t] = rem[t] - d
        /\ take'[t] = [take[t] EXCEPT ![x] = d]
    BY <1>1 DEF TypeOK
  <1> HIDE DEF d
  <1>6. Paid(t, S)'
    <2>1. SumFunctionOnSet(take'[t], S) = SumFunctionOnSet(take[t], S) + d /\ SumFunctionOnSet(take[t], S) \in Int
      <3>1. IsFiniteSet(S)
        BY FiniteParts
      <3>2. SumFunctionOnSet(take[t], S) \in Int
        BY <1>3, <3>1, SumType
      <3>3. SumFunctionOnSet([take[t] EXCEPT ![x] = d], S) = SumFunctionOnSet(take[t], S) - take[t][x] + d
        BY <1>2, <1>3, <1>4, <3>1, SumUpdate
      <3> QED BY <1>2, <1>4, <1>5, <3>2, <3>3
    <2>2. \A y \in Rows \ S : take'[t][y] = 0
      BY <1>2, <1>3, <1>5 DEF Paid, OnlyFrom
    <2>3. SumFunctionOnSet(take[t], S) + rem[t] = ctx[t].amount
      BY DEF Paid, Taken
    <2>4. SumFunctionOnSet(take'[t], S) + rem'[t] = ctx'[t].amount
      BY <1>2, <1>3, <1>4, <1>5, <2>1, <2>3
    <2> QED BY <2>2, <2>4 DEF Paid, OnlyFrom, Taken
  <1>7. ASSUME NEW eps \in Nat, rem[t] <= Money(todo[t]) + eps
        PROVE  rem'[t] <= Money(todo[t])' + eps
    <2> DEFINE rest == SumFunctionOnSet(funds, todo[t] \ {x})
    <2>1. IsFiniteSet(todo[t]) /\ IsFiniteSet(todo[t] \ {x}) /\ todo[t] \ {x} \subseteq Rows
      BY <1>3, FiniteParts
    <2>2. SumFunctionOnSet(funds, todo[t]) = funds[x] + rest
      BY <1>1, <1>3, <2>1, SumRemove
    <2>3. \A y \in todo[t] \ {x} : funds[y] >= 0
      BY <2>1 DEF IndInv, NoOverdraft
    <2>4. rest \in Int /\ rest >= 0
      BY <1>3, <2>1, <2>3, SumType, SumNat
    <2>5. Money(todo[t])' = rest
      BY <1>2, <1>5 DEF Money
    <2> HIDE DEF rest
    <2>6. rem[t] <= funds[x] + rest + eps
      BY <1>7, <2>2 DEF Money
    <2> QED BY <1>3, <1>4, <1>5, <2>4, <2>5, <2>6
  <1>8. ASSUME Drained(t, got[t] \ todo[t]) PROVE Drained(t, got[t] \ todo[t])'
    <2> SUFFICES ASSUME t \in Requests, rem'[t] > 0,
                        NEW y \in got'[t] \ todo'[t]
                 PROVE  take'[t][y] = funds'[y]
      BY DEF Drained
    <2>1. rem[t] > 0 /\ d = funds[x]
      BY <1>3, <1>4, <1>5
    <2>2. CASE y = x
      BY <1>2, <1>3, <1>5, <2>1, <2>2
    <2>3. CASE y # x
      <3>1. y \in got[t] \ todo[t] /\ y \in Rows
        BY <1>2, <1>5, <2>3, RowTypes
      <3>2. take[t][y] = funds[y]
        BY <1>8, <2>1, <3>1 DEF Drained
      <3> QED BY <1>2, <1>3, <1>5, <2>3, <3>1, <3>2
    <2> QED BY <2>2, <2>3
  <1> QED BY <1>6, <1>7, <1>8

\* The transaction that moves keeps its account.
LEMMA StartAccount ==
    ASSUME TypeOK, IndInv, Accounts, TypeOK', NEW t \in Txs,
           \/ t \in Requests /\ (Authenticate(t) \/ HandleUsage(t) \/ DeductBillBalance(t) \/ FallToPrepaid(t))
           \/ t \in Orders /\ CreateOrder(t)
           \/ LockRow(t) \/ DeductPrepaidBalance(t)
    PROVE  Account(t)'
  <1> USE LedgerAssumption DEF InTx, Selecting, Charging
  <1>0. Account(t)
    BY DEF Accounts
  <1>1. t \in Requests <=> t \notin Orders
    BY DEF Rows
  <1>2. CASE t \in Requests /\ Authenticate(t)
    BY <1>0, <1>2 DEF Authenticate, Account, Unasked, Picked, PaysBills, PaysCards, Concluded, TypeOK
  <1>3. CASE t \in Requests /\ HandleUsage(t)
    <2>1. rem' = rem /\ take' = take /\ ctx' = ctx /\ funds' = funds /\ pc[t] = "sent" /\ rem[t] = 0
      BY <1>0, <1>3 DEF HandleUsage, data, Account, Unasked
    <2>2. CASE Select(t, Bills, "bills")
      <3>1. pc'[t] = "bills" /\ todo'[t] \subseteq Bills /\ got'[t] = {}
        BY <2>2 DEF Select, TypeOK
      <3> QED BY <1>3, <3>1 DEF Account, Unasked, Picked, PaysBills, PaysCards, Concluded
    <2>3. CASE ctx[t].amount = 0 /\ pc' = [pc EXCEPT ![t] = "commit"] /\ UNCHANGED <<at, todo, got>>
      <3>1. pc'[t] = "commit" /\ got'[t] = {} /\ take[t] = NoTake
        BY <2>1, <2>3 DEF TypeOK, IndInv, NotStarted, NothingYet
      <3>2. OnlyFrom(t, Cards) /\ Taken(t, Cards) = 0
        BY <3>1, NothingTaken
      <3>3. Paid(t, Cards)'
        BY <2>1, <2>3, <3>2 DEF Paid, OnlyFrom, Taken
      <3> QED BY <1>1, <1>3, <2>1, <3>1, <3>3
              DEF Account, Unasked, Picked, PaysBills, PaysCards, Concluded, PaidByCards, Drained
    <2> QED BY <1>3, <2>2, <2>3 DEF HandleUsage
  <1>4. CASE t \in Requests /\ DeductBillBalance(t)
    <2>1. /\ pc[t] = "bills" /\ pc'[t] = "payBills" /\ got'[t] = got[t] /\ todo'[t] = got[t]
          /\ rem'[t] = ctx[t].amount /\ take' = take /\ ctx' = ctx /\ funds' = funds
      BY <1>4 DEF DeductBillBalance, StartCharging, data, TypeOK
    <2>2. got[t] # {} /\ got[t] \subseteq Bills /\ Money(got[t]) + BillEps >= ctx[t].amount
      BY <1>0, <1>4, <2>1 DEF DeductBillBalance, BillsCover, Account, Picked
    <2>3. OnlyFrom(t, Bills) /\ Taken(t, Bills) = 0
      <3>1. take[t] = NoTake
        BY <2>1 DEF IndInv, NothingYet
      <3> QED BY <3>1, NothingTaken
    <2>4. Paid(t, Bills)'
      BY <2>1, <2>3, RowTypes DEF Paid, OnlyFrom, Taken
    <2>5. Money(todo[t])' = Money(got[t]) /\ Money(got[t]) \in Int
      <3>1. IsFiniteSet(got[t]) /\ got[t] \subseteq Rows
        BY RowTypes, FiniteParts
      <3>2. SumFunctionOnSet(funds, got[t]) \in Int
        BY <3>1, RowTypes, SumType
      <3> QED BY <2>1, <3>2 DEF Money
    <2>6. rem'[t] <= Money(todo[t])' + BillEps
      BY <2>1, <2>2, <2>5, RowTypes
    <2>7. PaysBills(t)'
      BY <1>4, <2>1, <2>2, <2>4, <2>6 DEF PaysBills
    <2> QED BY <2>1, <2>7 DEF Account, Unasked, Picked, PaysCards, Concluded
  <1>5. CASE t \in Requests /\ FallToPrepaid(t)
    <2>1. pc'[t] = "cards" /\ todo'[t] \subseteq Cards /\ got'[t] = {}
      BY <1>5 DEF FallToPrepaid, Select, TypeOK
    <2> QED BY <2>1 DEF Account, Unasked, Picked, PaysBills, PaysCards, Concluded
  <1>6. CASE t \in Orders /\ CreateOrder(t)
    <2>1. pc'[t] = "cards" /\ todo'[t] \subseteq Cards /\ got'[t] = {}
      <3>1. PICK u \in Users : todo' = [todo EXCEPT ![t] = {c \in Cards : Active(c, u, day)}]
        BY <1>6 DEF CreateOrder
      <3>2. pc[t] = "idle" /\ pc' = [pc EXCEPT ![t] = "cards"] /\ got' = got
        BY <1>6 DEF CreateOrder
      <3>3. got[t] = {}
        BY <3>2 DEF IndInv, NotStarted
      <3> QED BY <3>1, <3>2, <3>3 DEF TypeOK
    <2> QED BY <2>1 DEF Account, Unasked, Picked, PaysBills, PaysCards, Concluded
  <1>7. CASE LockRow(t)
    BY <1>0, <1>7 DEF LockRow, First, TypeOK, Account, Unasked, Picked, PaysBills, PaysCards, Concluded
  <1>8. CASE DeductPrepaidBalance(t)
    <2>1. /\ pc[t] = "cards" /\ pc'[t] = "payCards" /\ got'[t] = got[t] /\ todo'[t] = got[t]
          /\ rem'[t] = ctx[t].amount /\ take' = take /\ ctx' = ctx /\ funds' = funds
      BY <1>8 DEF DeductPrepaidBalance, StartCharging, data, TypeOK
    <2>2. got[t] \subseteq Cards
      BY <1>0, <2>1 DEF Account, Picked
    <2>3. OnlyFrom(t, Cards) /\ Taken(t, Cards) = 0
      <3>1. take[t] = NoTake
        BY <2>1 DEF IndInv, NothingYet
      <3> QED BY <3>1, NothingTaken
    <2>4. Paid(t, Cards)'
      BY <2>1, <2>3, RowTypes DEF Paid, OnlyFrom, Taken
    <2>5. Money(todo[t])' = Money(got[t]) /\ Money(got[t]) \in Int
      <3>1. IsFiniteSet(got[t]) /\ got[t] \subseteq Rows
        BY RowTypes, FiniteParts
      <3>2. SumFunctionOnSet(funds, got[t]) \in Int
        BY <3>1, RowTypes, SumType
      <3> QED BY <2>1, <3>2 DEF Money
    <2>6. t \in Orders => rem'[t] <= Money(todo[t])' + CardEps
      BY <1>8, <2>1, <2>5, RowTypes DEF DeductPrepaidBalance, PriceCovered
    <2>7. PaysCards(t)'
      BY <2>1, <2>2, <2>4, <2>6 DEF PaysCards, Drained
    <2> QED BY <2>1, <2>7 DEF Account, Unasked, Picked, PaysBills, Concluded
  <1> QED BY <1>2, <1>3, <1>4, <1>5, <1>6, <1>7, <1>8

LEMMA ChargeAccount ==
    ASSUME TypeOK, IndInv, Accounts, TypeOK', NEW t \in Txs, ChargeRow(t)
    PROVE  Account(t)'
  <1> USE LedgerAssumption DEF InTx, Selecting, Charging
  <1>0. Account(t) /\ pc[t] \in Charging /\ pc' = pc /\ got' = got
    BY DEF Accounts, ChargeRow
  <1>1. CASE pc[t] = "payBills"
    <2>1. PaysBills(t)'
      BY <1>0, <1>1, ChargeAddsUp DEF Account, PaysBills
    <2> QED BY <1>0, <1>1, <2>1 DEF Account, Unasked, Picked, PaysCards, Concluded
  <1>2. CASE pc[t] = "payCards"
    <2>1. PaysCards(t)'
      BY <1>0, <1>2, ChargeAddsUp DEF Account, PaysCards
    <2> QED BY <1>0, <1>2, <2>1 DEF Account, Unasked, Picked, PaysBills, Concluded
  <1> QED BY <1>0, <1>1, <1>2

\* With nothing left to charge, what is left to pay is the tolerance at most.
LEMMA NothingOwed ==
    ASSUME TypeOK, NEW t \in Txs, ~Owing(t), NEW eps \in Nat, rem[t] <= Money(todo[t]) + eps
    PROVE  rem[t] <= eps
  <1>1. rem[t] \in Nat /\ SumFunctionOnSet(funds, {}) = 0
    BY RowTypes, SumEmpty
  <1>2. CASE todo[t] = {}
    BY <1>1, <1>2 DEF Money
  <1>3. CASE rem[t] = 0
    BY <1>3
  <1> QED BY <1>1, <1>2, <1>3 DEF Owing

LEMMA EndAccount ==
    ASSUME TypeOK, IndInv, Accounts, TypeOK', NEW t \in Txs,
           \/ PrepaidCharged(t) \/ ReadBillGroups(t) \/ WriteBillGroups(t) \/ Commit(t) \/ Rollback(t)
    PROVE  Account(t)'
  <1> USE LedgerAssumption DEF InTx, Selecting, Charging
  <1>0. Account(t)
    BY DEF Accounts
  <1>a. t \in Requests <=> t \notin Orders
    BY DEF Rows
  <1>b. ASSUME take'[t] = take[t], rem'[t] = rem[t], ctx'[t] = ctx[t], NEW S, Paid(t, S)
        PROVE  Paid(t, S)'
    BY <1>b DEF Paid, OnlyFrom, Taken
  <1>1. CASE PrepaidCharged(t)
    <2>1. /\ t \in Requests /\ pc[t] = "payCards" /\ pc'[t] = "commit" /\ ~Owing(t)
          /\ got' = got /\ take' = take /\ rem' = rem /\ ctx' = ctx /\ funds' = funds
      BY <1>1 DEF PrepaidCharged, data, TypeOK
    <2>2. rem[t] > 0 => todo[t] = {}
      BY <2>1 DEF Owing
    <2>3. PaidByCards(t)'
      BY <1>0, <1>a, <1>b, <2>1, <2>2 DEF Account, PaysCards, PaidByCards, Drained
    <2> QED BY <2>1, <2>3 DEF Account, Unasked, Picked, PaysBills, PaysCards, Concluded
  <1>2. CASE ReadBillGroups(t)
    <2>1. /\ pc'[t] = "refresh" /\ ~Owing(t)
          /\ got' = got /\ take' = take /\ rem' = rem /\ ctx' = ctx /\ funds' = funds
      BY <1>2 DEF ReadBillGroups, data, TypeOK
    <2>2. CASE pc[t] = "payBills" /\ rem[t] <= BillEps
      <3>1. PaidByBills(t)'
        BY <1>0, <1>b, <2>1, <2>2 DEF Account, PaysBills, PaidByBills
      <3> QED BY <2>1, <3>1 DEF Account, Unasked, Picked, PaysBills, PaysCards, Concluded
    <2>3. CASE pc[t] = "payCards" /\ t \in Orders
      <3>1. rem[t] <= CardEps
        BY <1>0, <2>1, <2>3, NothingOwed DEF Account, PaysCards
      <3>2. PaidByCards(t)'
        BY <1>0, <1>a, <1>b, <2>1, <2>3, <3>1 DEF Account, PaysCards, PaidByCards, Drained
      <3> QED BY <2>1, <3>2 DEF Account, Unasked, Picked, PaysBills, PaysCards, Concluded
    <2> QED BY <1>2, <2>2, <2>3 DEF ReadBillGroups
  <1>3. CASE WriteBillGroups(t)
    <2>1. /\ pc[t] = "refresh" /\ pc'[t] = "commit"
          /\ got' = got /\ take' = take /\ rem' = rem /\ ctx' = ctx /\ funds' = funds
      BY <1>3 DEF WriteBillGroups, data, TypeOK
    <2>2. PaidByBills(t)' \/ PaidByCards(t)'
      BY <1>0, <1>b, <2>1 DEF Account, Concluded, PaidByBills, PaidByCards, Drained
    <2> QED BY <2>1, <2>2 DEF Account, Unasked, Picked, PaysBills, PaysCards, Concluded
  <1>4. CASE Commit(t)
    <2>1. /\ pc[t] = "commit" /\ pc'[t] = "done"
          /\ got' = got /\ take' = take /\ rem' = rem /\ ctx' = ctx
      BY <1>4 DEF Commit, TypeOK
    <2>2. PaidByBills(t)' \/ PaidByCards(t)'
      BY <1>0, <1>b, <2>1 DEF Account, Concluded, PaidByBills, PaidByCards
    <2> QED BY <2>1, <2>2 DEF Account, Unasked, Picked, PaysBills, PaysCards, Concluded
  <1>5. CASE Rollback(t)
    <2>1. pc'[t] = "lost"
      BY <1>5 DEF Rollback, TypeOK
    <2> QED BY <2>1 DEF Account, Unasked, Picked, PaysBills, PaysCards, Concluded
  <1> QED BY <1>1, <1>2, <1>3, <1>4, <1>5

LEMMA AccountsStep ==
    ASSUME TypeOK, IndInv, Accounts, TypeOK', IndInv', [Next]_vars
    PROVE  Accounts'
  <1> USE DEF Accounts
  <1>1. ASSUME NEW t \in Txs, Account(t)',
               \A s \in Txs \ {t} : /\ pc'[s] = pc[s] /\ ctx'[s] = ctx[s] /\ todo'[s] = todo[s]
                                    /\ got'[s] = got[s] /\ take'[s] = take[s] /\ rem'[s] = rem[s],
               UNCHANGED funds \/ Commit(t)
        PROVE  Accounts'
    <2>1. ASSUME NEW s \in Txs \ {t}, pc[s] \in InTx, NEW x \in got[s] PROVE funds'[x] = funds[x]
      <3>1. x \in Rows /\ lock[x] = s /\ s # None
        BY <2>1, RowTypes, LedgerAssumption DEF IndInv, HoldsLocks
      <3> QED BY <1>1, <3>1, LockedRowsStay
    <2>2. ASSUME NEW s \in Txs \ {t} PROVE Account(s)'
      BY <1>1, <2>1, Untouched
    <2> QED BY <1>1, <2>2
  <1>2. ASSUME NEW t \in Txs,
               \/ t \in Requests /\ (Authenticate(t) \/ HandleUsage(t) \/ DeductBillBalance(t) \/ FallToPrepaid(t))
               \/ t \in Orders /\ CreateOrder(t)
               \/ LockRow(t) \/ DeductPrepaidBalance(t)
        PROVE  Accounts'
    <2>1. Account(t)'
      BY <1>2, StartAccount
    <2>2. \A s \in Txs \ {t} : /\ pc'[s] = pc[s] /\ ctx'[s] = ctx[s] /\ todo'[s] = todo[s]
                                /\ got'[s] = got[s] /\ take'[s] = take[s] /\ rem'[s] = rem[s]
      BY <1>2 DEF TypeOK, Authenticate, HandleUsage, Select, DeductBillBalance, FallToPrepaid,
                  StartCharging, CreateOrder, LockRow, DeductPrepaidBalance
    <2>3. UNCHANGED funds
      BY <1>2 DEF data, Authenticate, HandleUsage, DeductBillBalance, FallToPrepaid,
                  CreateOrder, LockRow, DeductPrepaidBalance
    <2> QED BY <1>1, <2>1, <2>2, <2>3
  <1>3. ASSUME NEW t \in Txs, ChargeRow(t) PROVE Accounts'
    <2>1. Account(t)'
      BY <1>3, ChargeAccount
    <2>2. \A s \in Txs \ {t} : /\ pc'[s] = pc[s] /\ ctx'[s] = ctx[s] /\ todo'[s] = todo[s]
                                /\ got'[s] = got[s] /\ take'[s] = take[s] /\ rem'[s] = rem[s]
      BY <1>3 DEF TypeOK, ChargeRow
    <2> QED BY <1>1, <1>3, <2>1, <2>2 DEF ChargeRow, data
  <1>4. ASSUME NEW t \in Txs,
               \/ PrepaidCharged(t) \/ ReadBillGroups(t) \/ WriteBillGroups(t) \/ Commit(t) \/ Rollback(t)
        PROVE  Accounts'
    <2>1. Account(t)'
      BY <1>4, EndAccount
    <2>2. \A s \in Txs \ {t} : /\ pc'[s] = pc[s] /\ ctx'[s] = ctx[s] /\ todo'[s] = todo[s]
                                /\ got'[s] = got[s] /\ take'[s] = take[s] /\ rem'[s] = rem[s]
      BY <1>4 DEF TypeOK, PrepaidCharged, ReadBillGroups, WriteBillGroups, Commit, Rollback
    <2>3. UNCHANGED funds \/ Commit(t)
      BY <1>4 DEF data, PrepaidCharged, ReadBillGroups, WriteBillGroups, Rollback
    <2> QED BY <1>1, <2>1, <2>2, <2>3
  <1>5. CASE \/ \E u \in Users, c \in Cards : Redeem(u, c)
             \/ Admin \/ Tick \/ UNCHANGED vars
    <2>1. UNCHANGED <<funds, pc, ctx, todo, got, take, rem>>
      BY <1>5 DEF Redeem, Admin, SetEnabled, DeleteBill, Tick, vars, data
    <2>2. ASSUME NEW s \in Txs PROVE Account(s)'
      BY <2>1, Untouched
    <2> QED BY <2>2
  <1> QED BY <1>2, <1>3, <1>4, <1>5 DEF Next, TxStep, RequestStep

LEMMA AccountsInit == ASSUME Init PROVE Accounts
  BY DEF Init, Accounts, Account, Unasked, Picked, PaysBills, PaysCards, Concluded

\* In every reachable state what a transaction has taken and what is left to pay add
\* up to what was asked for.
THEOREM AccountsAgree == Spec => [](TypeOK /\ IndInv /\ Accounts)
  <1>1. Init => TypeOK /\ IndInv /\ Accounts
    BY TypeInit, InvInit, AccountsInit
  <1>2. TypeOK /\ IndInv /\ Accounts /\ [Next]_vars => (TypeOK /\ IndInv /\ Accounts)'
    BY TypeStep, InvStep, AccountsStep
  <1> QED BY <1>1, <1>2, PTL DEF Spec

\* The error "bill quota not enough after lock" is unreachable, in any deployment.
THEOREM NeverShortAfterLock == Spec => []EnoughAfterLock
  <1>1. ASSUME TypeOK, Accounts, NEW r \in Requests, pc[r] = "payBills", ~Owing(r)
        PROVE  rem[r] <= BillEps
    BY <1>1, NothingOwed, LedgerAssumption DEF Accounts, Account, PaysBills
  <1>2. TypeOK /\ Accounts => EnoughAfterLock
    BY <1>1 DEF EnoughAfterLock
  <1> QED BY <1>2, AccountsAgree, PTL

\* Nobody pays twice, by bills and by cards, or more than the request cost.
THEOREM EverybodyPaysOnce == Spec => []PaidOnce
  <1>1. ASSUME TypeOK, Accounts, NEW r \in Recorded
        PROVE  LET bills == Taken(r, Bills)
                   cards == Taken(r, Cards)
               IN  /\ bills # 0 => cards = 0 /\ bills >= ctx[r].amount - BillEps
                   /\ bills + cards <= ctx[r].amount
    <2>1. r \in Txs /\ (PaidByBills(r) \/ PaidByCards(r))
      BY <1>1 DEF Recorded, Accounts, Account, Concluded
    <2>2. /\ rem[r] \in Nat /\ ctx[r].amount \in Nat /\ take[r] \in [Rows -> Int] /\ BillEps \in Nat
      BY <1>1, <2>1, RowTypes, LedgerAssumption
    <2>3. IsFiniteSet(Bills) /\ IsFiniteSet(Cards)
      BY FiniteParts
    <2>4. Taken(r, Bills) \in Int /\ Taken(r, Cards) \in Int
      BY <2>2, <2>3, SumType DEF Taken
    <2>5. CASE PaidByBills(r)
      <3>1. Taken(r, Cards) = 0
        <4>1. \A x \in Cards : take[r][x] = 0
          BY <2>5, LedgerAssumption DEF PaidByBills, Paid, OnlyFrom
        <4> QED BY <2>2, <2>3, <4>1, SumZero DEF Taken
      <3>2. Taken(r, Bills) + rem[r] = ctx[r].amount /\ rem[r] <= BillEps
        BY <2>5 DEF PaidByBills, Paid
      <3> QED BY <2>2, <2>4, <3>1, <3>2
    <2>6. CASE PaidByCards(r)
      <3>1. Taken(r, Bills) = 0
        <4>1. \A x \in Bills : take[r][x] = 0
          BY <2>6, LedgerAssumption DEF PaidByCards, Paid, OnlyFrom
        <4> QED BY <2>2, <2>3, <4>1, SumZero DEF Taken
      <3>2. Taken(r, Cards) + rem[r] = ctx[r].amount
        BY <2>6 DEF PaidByCards, Paid
      <3> QED BY <2>2, <2>4, <3>1, <3>2
    <2> QED BY <2>1, <2>5, <2>6
  <1>2. TypeOK /\ Accounts => PaidOnce
    BY <1>1 DEF PaidOnce
  <1> QED BY <1>2, AccountsAgree, PTL

\* A purchase that went through has paid its price, from cards only.
THEOREM PurchasesArePaid == Spec => []OrdersArePaid
  <1>1. ASSUME TypeOK, Accounts, NEW o \in Orders \cap Done
        PROVE  /\ Taken(o, Bills) = 0
               /\ Taken(o, Cards) \in ctx[o].amount - CardEps .. ctx[o].amount
    <2>1. PaidByCards(o)
      BY <1>1, LedgerAssumption DEF Done, Accounts, Account, Concluded, PaidByBills
    <2>2. /\ rem[o] \in Nat /\ ctx[o].amount \in Nat /\ take[o] \in [Rows -> Int] /\ CardEps \in Nat
      BY <1>1, RowTypes, LedgerAssumption
    <2>3. IsFiniteSet(Bills) /\ IsFiniteSet(Cards)
      BY FiniteParts
    <2>4. Taken(o, Cards) \in Int
      BY <2>2, <2>3, SumType DEF Taken
    <2>5. \A x \in Bills : take[o][x] = 0
      BY <2>1, LedgerAssumption DEF PaidByCards, Paid, OnlyFrom
    <2>6. Taken(o, Bills) = 0
      BY <2>2, <2>3, <2>5, SumZero DEF Taken
    <2>7. Taken(o, Cards) + rem[o] = ctx[o].amount /\ rem[o] <= CardEps
      BY <2>1 DEF PaidByCards, Paid
    <2> QED BY <2>2, <2>4, <2>6, <2>7
  <1>2. TypeOK /\ Accounts => OrdersArePaid
    BY <1>1 DEF OrdersArePaid
  <1> QED BY <1>2, AccountsAgree, PTL

\* Only a commit ends a transaction and changes the money; deductions of the others stay.
LEMMA OnlyCommit ==
    ASSUME TypeOK, TypeOK', [Next]_vars, ~(\E t \in Txs : Commit(t))
    PROVE  /\ UNCHANGED <<funds, used>> /\ Done' = Done /\ Recorded' = Recorded
           /\ \A t \in Done : take'[t] = take[t]
  <1> USE LedgerAssumption DEF InTx, Selecting, Charging
  <1>1. ASSUME NEW t \in Txs,
               \/ t \in Requests /\ (Authenticate(t) \/ HandleUsage(t) \/ DeductBillBalance(t) \/ FallToPrepaid(t))
               \/ t \in Orders /\ CreateOrder(t)
               \/ LockRow(t) \/ DeductPrepaidBalance(t) \/ ChargeRow(t)
               \/ PrepaidCharged(t) \/ ReadBillGroups(t) \/ WriteBillGroups(t) \/ Rollback(t)
        PROVE  /\ UNCHANGED <<funds, used>>
               /\ pc[t] # "done" /\ pc'[t] # "done"
               /\ \A s \in Txs \ {t} : pc'[s] = pc[s] /\ take'[s] = take[s]
    <2>1. UNCHANGED <<funds, used>>
      BY <1>1 DEF data, Authenticate, HandleUsage, DeductBillBalance, FallToPrepaid, CreateOrder, LockRow,
                  DeductPrepaidBalance, ChargeRow, PrepaidCharged, ReadBillGroups, WriteBillGroups, Rollback
    <2>2. pc[t] # "done" /\ pc'[t] # "done"
      BY <1>1 DEF TypeOK, Authenticate, HandleUsage, Select, StartCharging, DeductBillBalance, FallToPrepaid,
                  CreateOrder, LockRow, DeductPrepaidBalance, ChargeRow, PrepaidCharged, ReadBillGroups,
                  WriteBillGroups, Rollback
    <2>3. \A s \in Txs \ {t} : pc'[s] = pc[s] /\ take'[s] = take[s]
      BY <1>1 DEF TypeOK, Authenticate, HandleUsage, Select, StartCharging, DeductBillBalance, FallToPrepaid,
                  CreateOrder, LockRow, DeductPrepaidBalance, ChargeRow, PrepaidCharged, ReadBillGroups,
                  WriteBillGroups, Rollback
    <2> QED BY <2>1, <2>2, <2>3
  <1>2. CASE \/ \E u \in Users, c \in Cards : Redeem(u, c)
             \/ Admin \/ Tick \/ UNCHANGED vars
    <2>1. UNCHANGED <<funds, used, pc, take>>
      BY <1>2 DEF Redeem, Admin, SetEnabled, DeleteBill, Tick, vars, data
    <2> QED BY <2>1 DEF Done, Recorded
  <1>3. ASSUME NEW t \in Txs,
               UNCHANGED <<funds, used>>, pc[t] # "done", pc'[t] # "done",
               \A s \in Txs \ {t} : pc'[s] = pc[s] /\ take'[s] = take[s]
        PROVE  /\ UNCHANGED <<funds, used>> /\ Done' = Done /\ Recorded' = Recorded
               /\ \A s \in Done : take'[s] = take[s]
    <2>1. \A s \in Txs : pc'[s] = "done" <=> pc[s] = "done"
      BY <1>3
    <2> QED BY <1>3, <2>1 DEF Done, Recorded
  <1> QED BY <1>1, <1>2, <1>3 DEF Next, TxStep, RequestStep

\* What is taken from a row is the sum of what transactions take.
LEMMA TakenFromTypes ==
    ASSUME TypeOK, NEW x \in Rows, NEW T, T \subseteq Txs
    PROVE  [t \in Txs |-> take[t][x]] \in [Txs -> Int] /\ IsFiniteSet(T) /\ TakenFrom(x, T) \in Int
  <1>1. [t \in Txs |-> take[t][x]] \in [Txs -> Int] /\ IsFiniteSet(T)
    BY RowTypes, FiniteParts
  <1>2. SumFunctionOnSet([t \in Txs |-> take[t][x]], T) \in Int
    BY <1>1, SumType
  <1> QED BY <1>1, <1>2 DEF TakenFrom

LEMMA TracedStep ==
    ASSUME TypeOK, IndInv, Accounts, TypeOK', MoneyIsTraceable, [Next]_vars
    PROVE  MoneyIsTraceable'
  <1> USE LedgerAssumption DEF InTx, Selecting, Charging
  <1>0. Recorded \subseteq Txs /\ Done \subseteq Txs /\ Recorded \subseteq Done
    BY DEF Recorded, Done
  <1>a. ASSUME NEW x \in Rows, NEW T, T \subseteq Txs, \A t \in T : take'[t] = take[t]
        PROVE  SumFunctionOnSet([t \in Txs |-> take'[t][x]], T) = TakenFrom(x, T)
    <2> DEFINE f == [t \in Txs |-> take[t][x]]
               e == [t \in Txs |-> take'[t][x]]
    <2>1. f \in [Txs -> Int] /\ e \in [Txs -> Int] /\ IsFiniteSet(T)
      BY <1>a, FiniteParts DEF TypeOK
    <2>2. \A t \in T : e[t] = f[t]
      BY <1>a
    <2> HIDE DEF e, f
    <2>3. SumFunctionOnSet(e, T) = SumFunctionOnSet(f, T)
      BY <1>a, <2>1, <2>2, SumSame
    <2> QED BY <2>3 DEF e, f, TakenFrom
  <1>1. CASE ~(\E t \in Txs : Commit(t))
    <2>1. /\ UNCHANGED <<funds, used>> /\ Done' = Done /\ Recorded' = Recorded
          /\ \A t \in Done : take'[t] = take[t]
      BY <1>1, OnlyCommit
    <2>2. \A x \in Rows : TakenFrom(x, Done)' = TakenFrom(x, Done)
      BY <1>0, <1>a, <2>1 DEF TakenFrom
    <2>3. \A x \in Rows : TakenFrom(x, Recorded)' = TakenFrom(x, Recorded)
      BY <1>0, <1>a, <2>1 DEF TakenFrom
    <2> QED BY <2>1, <2>2, <2>3 DEF MoneyIsTraceable
  <1>2. ASSUME NEW t \in Txs, Commit(t) PROVE MoneyIsTraceable'
    <2>1. pc[t] = "commit" /\ take' = take /\ pc' = [pc EXCEPT ![t] = "done"]
      BY <1>2 DEF Commit
    <2>2. t \notin Done /\ Done' = Done \cup {t}
          /\ Recorded' = IF t \in Requests THEN Recorded \cup {t} ELSE Recorded
      BY <2>1 DEF Done, Recorded, TypeOK
    <2>3. ASSUME NEW x \in Rows, NEW T, T \subseteq Done
          PROVE  TakenFrom(x, T \cup {t}) = take[t][x] + TakenFrom(x, T)
      <3>1. T \subseteq Txs /\ t \notin T
        BY <1>0, <2>2, <2>3
      <3>2. SumFunctionOnSet([s \in Txs |-> take[s][x]], T \cup {t}) =
               [s \in Txs |-> take[s][x]][t] + SumFunctionOnSet([s \in Txs |-> take[s][x]], T)
        BY <3>1, TakenFromTypes, SumAdd
      <3> QED BY <3>2 DEF TakenFrom
    <2>4. ASSUME NEW b \in Bills PROVE used'[b] = TakenFrom(b, Recorded)'
      <3>1. used[b] = TakenFrom(b, Recorded) /\ used'[b] = used[b] + take[t][b]
        BY <1>2 DEF MoneyIsTraceable, Commit, UsedAfter
      <3>2. take[t][b] \in Int /\ TakenFrom(b, Recorded) \in Int
        BY <1>0, RowTypes, TakenFromTypes
      <3>3. CASE t \in Requests
        <4>1. TakenFrom(b, Recorded)' = TakenFrom(b, Recorded \cup {t})
          BY <2>1, <2>2, <3>3 DEF TakenFrom
        <4> QED BY <1>0, <2>3, <3>1, <3>2, <4>1
      <3>4. CASE t \notin Requests
        <4>1. take[t][b] = 0
          <5>1. PaidByCards(t)
            BY <2>1, <3>4 DEF Accounts, Account, Concluded, PaidByBills
          <5> QED BY <5>1 DEF PaidByCards, Paid, OnlyFrom
        <4>2. TakenFrom(b, Recorded)' = TakenFrom(b, Recorded)
          BY <2>1, <2>2, <3>4 DEF TakenFrom
        <4> QED BY <3>1, <3>2, <4>1, <4>2
      <3> QED BY <3>3, <3>4
    <2>5. ASSUME NEW c \in Cards PROVE Funds0[c] - funds'[c] = TakenFrom(c, Done)'
      <3>1. c # t
        BY DEF Rows
      <3>2. Funds0[c] - funds[c] = TakenFrom(c, Done) /\ funds'[c] = funds[c] - take[t][c]
        BY <1>2, <3>1 DEF MoneyIsTraceable, Commit
      <3>3. take[t][c] \in Int /\ TakenFrom(c, Done) \in Int /\ funds[c] \in Int /\ Funds0[c] \in Int
        BY <1>0, RowTypes, TakenFromTypes
      <3>4. TakenFrom(c, Done)' = take[t][c] + TakenFrom(c, Done)
        <4>1. TakenFrom(c, Done)' = TakenFrom(c, Done \cup {t})
          BY <2>1, <2>2 DEF TakenFrom
        <4> QED BY <1>0, <2>3, <4>1
      <3> QED BY <3>2, <3>3, <3>4
    <2> QED BY <2>4, <2>5 DEF MoneyIsTraceable
  <1> QED BY <1>1, <1>2

LEMMA TracedInit == ASSUME Init PROVE MoneyIsTraceable
  <1>1. Recorded = {} /\ Done = {}
    BY DEF Init, Recorded, Done
  <1>2. \A x \in Rows : TakenFrom(x, {}) = 0
    <2>1. ASSUME NEW x \in Rows PROVE [t \in Txs |-> take[t][x]] \in [Txs -> Int]
      BY TypeInit DEF TypeOK
    <2> QED BY <2>1, SumEmpty DEF TakenFrom
  <1> QED BY <1>1, <1>2, LedgerAssumption DEF Init, MoneyIsTraceable

\* Every amount that ever left a row belongs to a recorded request or a purchase.
THEOREM MoneyTraced == Spec => []MoneyIsTraceable
  <1>1. Init => MoneyIsTraceable
    BY TracedInit
  <1>2. /\ TypeOK /\ IndInv /\ Accounts /\ (TypeOK /\ IndInv /\ Accounts)'
        /\ MoneyIsTraceable /\ [Next]_vars
        => MoneyIsTraceable'
    BY TracedStep
  <1> QED BY <1>1, <1>2, AccountsAgree, PTL DEF Spec

\* A charge falls short of the cost only when it has emptied the cards it was given.
THEOREM ShortWhenEmpty == Spec => ShortOnlyWhenEmpty
  <1>1. ASSUME TypeOK, IndInv, Accounts, TypeOK', [Next]_vars, NEW r \in Requests,
               pc[r] # "done", pc'[r] = "done", got[r] \subseteq Cards,
               Taken(r, Cards) < ctx[r].amount, NEW x \in got[r]
        PROVE  funds'[x] = 0
    <2>1. Commit(r)
      <3>1. r \in Done' \ Done
        BY <1>1 DEF Done
      <3>2. PICK t \in Txs : Commit(t)
        BY <1>1, <3>1, OnlyCommit
      <3>3. t = r
        BY <1>1, <3>2 DEF Commit, TypeOK
      <3> QED BY <3>2, <3>3
    <2>2. /\ x \in Rows /\ x # r
          /\ rem[r] \in Nat /\ ctx[r].amount \in Nat /\ take[r] \in [Rows -> Int] /\ funds[x] \in Int
      BY <1>1, RowTypes, LedgerAssumption
    <2>3. PaidByBills(r) \/ PaidByCards(r)
      BY <1>1, <2>1 DEF Commit, Accounts, Account, Concluded
    <2>4. PaidByCards(r)
      BY <1>1, <2>3, LedgerAssumption DEF PaidByBills
    <2>5. Taken(r, Cards) \in Int
      <3>1. IsFiniteSet(Cards)
        BY FiniteParts
      <3> QED BY <2>2, <3>1, SumType DEF Taken
    <2>6. rem[r] > 0
      BY <1>1, <2>2, <2>4, <2>5 DEF PaidByCards, Paid
    <2>7. take[r][x] = funds[x]
      BY <1>1, <2>4, <2>6 DEF PaidByCards, Drained
    <2> QED BY <2>1, <2>2, <2>7 DEF Commit
  <1>2. TypeOK /\ IndInv /\ Accounts /\ TypeOK' /\ [Next]_vars =>
          [\A r \in Requests :
             pc[r] # "done" /\ pc'[r] = "done" /\ got[r] \subseteq Cards
                /\ Taken(r, Cards) < ctx[r].amount
             => \A x \in got[r] : funds'[x] = 0]_vars
    BY <1>1
  <1> QED BY <1>2, AccountsAgree, PTL DEF Spec, ShortOnlyWhenEmpty
=============================================================================
