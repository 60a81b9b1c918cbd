-------------------------- MODULE LedgerAtomicity --------------------------
(***************************************************************************)
(* Proofs that the transactions of Ledger do not disturb each other, for   *)
(* any instance: they lock rows in one order; Ledger implements Wallet, as *)
(* the commit of a transaction settles it and all it did before is         *)
(* invisible; and charges of one pool of bills follow one another, so that *)
(* the daily quotas are exceeded by one request at most.                   *)
(***************************************************************************)
EXTENDS LedgerProofs, LedgerWallet

USE DEF Txs, Rows, W!Txs, W!Rows

\* Rows are locked in one order: bills, cards, then the user.
Ahead(x, y) ==
    \/ x \in Bills /\ y \in Cards
    \/ (x \in Bills <=> y \in Bills) /\ Before(x, y)

Holds(t) == {x \in Rows \cup Users : lock[x] = t}

Orderly(t) ==
    /\ Holds(t) # {} => pc[t] \in InTx
    /\ pc[t] # "commit" => Holds(t) \subseteq Rows
    /\ pc[t] = "bills" => Holds(t) \subseteq Bills
    /\ pc[t] \in Selecting => \A x \in Holds(t), y \in todo[t] : Ahead(x, y)
    /\ pc[t] \in Selecting => \A c \in todo[t] \cap Cards : row[c].owner # None
InOrder == \A t \in Txs : Orderly(t)

LEMMA AheadIsOrder ==
    ASSUME TypeOK
    PROVE  /\ \A x \in Rows : ~Ahead(x, x)
           /\ \A x, y, z \in Rows : Ahead(x, y) /\ Ahead(y, z) => Ahead(x, z)
  <1>1. \A x \in Rows : x \in Nat /\ row[x].until \in Nat /\ row[x].from \in Nat
                        /\ (x \in Bills <=> x \notin Cards)
    BY LedgerAssumption DEF TypeOK, Row
  <1>2. \A x \in Rows : ~Before(x, x)
    BY <1>1 DEF Before
  <1>3. \A x, y, z \in Rows : Before(x, y) /\ Before(y, z) => Before(x, z)
    BY <1>1 DEF Before
  <1> QED BY <1>1, <1>2, <1>3 DEF Ahead

\* What others do to rows that are neither locked nor about to be does not matter.
LEMMA StaysOrderly ==
    ASSUME TypeOK, InOrder, NEW t \in Txs, pc'[t] = pc[t], todo'[t] = todo[t], Holds(t)' = Holds(t),
           pc[t] \in Selecting =>
              \A x \in Rows : x \in Holds(t) \cup todo[t] =>
                  /\ row'[x].until = row[x].until /\ row'[x].from = row[x].from
                  /\ x \in Cards /\ row[x].owner # None => row'[x].owner # None
    PROVE  Orderly(t)'
  <1> USE DEF InTx, Selecting, Charging
  <1>1. Orderly(t)
    BY DEF InOrder
  <1>2. ASSUME pc[t] \in Selecting, NEW x \in Holds(t), NEW y \in todo[t] PROVE Ahead(x, y)'
    <2>1. x \in Rows /\ y \in Rows /\ Ahead(x, y)
      BY <1>1, <1>2, RowTypes DEF Orderly
    <2> QED BY <1>2, <2>1 DEF Ahead, Before
  <1>3. ASSUME pc[t] \in Selecting, NEW c \in todo[t] \cap Cards PROVE row'[c].owner # None
    BY <1>1, <1>3 DEF Orderly
  <1> QED BY <1>1, <1>2, <1>3 DEF Orderly

LEMMA OthersHold ==
    ASSUME TypeOK, NEW t \in Txs, Commit(t) \/ Rollback(t)
    PROVE  Holds(t)' = {} /\ \A s \in Txs \ {t} : Holds(s)' = Holds(s)
  <1>1. Release(t)
    BY DEF Commit, Rollback
  <1> QED BY <1>1, LedgerAssumption DEF Release, Holds

\* The transaction that moves still locks in order.
LEMMA MoverIsOrderly ==
    ASSUME TypeOK, IndInv, Accounts, InOrder, NEW t \in Txs,
           \/ t \in Requests /\ (Authenticate(t) \/ HandleUsage(t) \/ DeductBillBalance(t) \/ FallToPrepaid(t))
           \/ t \in Orders /\ CreateOrder(t)
           \/ LockRow(t) \/ DeductPrepaidBalance(t) \/ ChargeRow(t)
           \/ PrepaidCharged(t) \/ ReadBillGroups(t) \/ WriteBillGroups(t)
    PROVE  /\ Orderly(t)'
           /\ \A s \in Txs \ {t} : pc'[s] = pc[s] /\ todo'[s] = todo[s] /\ Holds(s)' = Holds(s)
           /\ row' = row
  <1> USE LedgerAssumption DEF InTx, Selecting, Charging
  <1>0. Orderly(t)
    BY DEF InOrder
  <1>1. CASE t \in Requests /\ Authenticate(t)
    BY <1>0, <1>1 DEF Authenticate, data, Orderly, Holds, TypeOK
  <1>2. CASE t \in Requests /\ HandleUsage(t)
    <2>1. lock' = lock /\ row' = row /\ Holds(t) = {} /\ pc[t] = "sent"
      BY <1>0, <1>2 DEF HandleUsage, data, Orderly
    <2>2. Holds(t)' = {} /\ \A s \in Txs : Holds(s)' = Holds(s)
      BY <2>1 DEF Holds
    <2>3. CASE Select(t, Bills, "bills")
      <3>1. /\ pc' = [pc EXCEPT ![t] = "bills"]
            /\ todo' = [todo EXCEPT ![t] = {x \in Bills : Usable(x, t, day)}]
        BY <2>3 DEF Select
      <3>2. todo'[t] \cap Cards = {} /\ pc'[t] = "bills" /\ \A s \in Txs \ {t} : pc'[s] = pc[s] /\ todo'[s] = todo[s]
        BY <3>1 DEF TypeOK
      <3> QED BY <2>1, <2>2, <3>2 DEF Orderly
    <2>4. CASE pc' = [pc EXCEPT ![t] = "commit"] /\ UNCHANGED <<at, todo, got>>
      BY <2>1, <2>2, <2>4 DEF Orderly, TypeOK
    <2> QED BY <1>2, <2>3, <2>4 DEF HandleUsage
  <1>3. CASE t \in Requests /\ FallToPrepaid(t)
    <2>1. lock' = lock /\ row' = row /\ pc[t] = "bills" /\ Holds(t) \subseteq Bills
      BY <1>0, <1>3 DEF FallToPrepaid, data, Orderly
    <2>2. \A s \in Txs : Holds(s)' = Holds(s)
      BY <2>1 DEF Holds
    <2>3. /\ pc' = [pc EXCEPT ![t] = "cards"]
          /\ todo' = [todo EXCEPT ![t] = {x \in Cards : Usable(x, t, day)}]
      BY <1>3 DEF FallToPrepaid, Select
    <2>4. /\ pc'[t] = "cards" /\ todo'[t] = {x \in Cards : Usable(x, t, day)}
          /\ \A s \in Txs \ {t} : pc'[s] = pc[s] /\ todo'[s] = todo[s]
      BY <2>3 DEF TypeOK
    <2>5. \A c \in todo'[t] : row'[c].owner # None
      BY <2>1, <2>4 DEF Usable, Active, IndInv, UserIsKnown
    <2>6. \A x \in Holds(t), y \in todo'[t] : Ahead(x, y)'
      BY <2>1, <2>4 DEF Ahead
    <2> QED BY <2>1, <2>2, <2>4, <2>5, <2>6 DEF Orderly
  <1>4. CASE t \in Orders /\ CreateOrder(t)
    <2>1. PICK u \in Users : todo' = [todo EXCEPT ![t] = {c \in Cards : Active(c, u, day)}]
      BY <1>4 DEF CreateOrder
    <2>2. lock' = lock /\ row' = row /\ Holds(t) = {} /\ pc' = [pc EXCEPT ![t] = "cards"]
      BY <1>0, <1>4 DEF CreateOrder, data, Orderly
    <2>3. \A s \in Txs : Holds(s)' = Holds(s)
      BY <2>2 DEF Holds
    <2>4. /\ pc'[t] = "cards" /\ todo'[t] = {c \in Cards : Active(c, u, day)}
          /\ \A s \in Txs \ {t} : pc'[s] = pc[s] /\ todo'[s] = todo[s]
      BY <2>1, <2>2 DEF TypeOK
    <2>5. \A c \in todo'[t] : row'[c].owner # None
      BY <2>2, <2>4 DEF Active
    <2> QED BY <2>2, <2>3, <2>4, <2>5 DEF Orderly
  <1>5. CASE LockRow(t)
    <2>1. PICK x \in Rows : /\ First(x, todo[t]) /\ LockFree(x, t)
                            /\ lock' = [lock EXCEPT ![x] = t]
                            /\ todo' = [todo EXCEPT ![t] = @ \ {x}]
      BY <1>5 DEF LockRow
    <2>2. row' = row /\ pc' = pc /\ pc[t] \in Selecting
      BY <1>5 DEF LockRow, data
    <2>3. Holds(t)' = Holds(t) \cup {x} /\ \A s \in Txs \ {t} : Holds(s)' = Holds(s)
      BY <2>1 DEF Holds, LockFree, TypeOK
    <2>4. todo'[t] = todo[t] \ {x} /\ \A s \in Txs \ {t} : todo'[s] = todo[s]
      BY <2>1 DEF TypeOK
    <2>5. (pc[t] = "bills" => todo[t] \subseteq Bills) /\ (pc[t] = "cards" => todo[t] \subseteq Cards) /\ x \in todo[t]
      BY <2>1 DEF Accounts, Account, Picked, First
    <2>6. ASSUME NEW y \in todo[t] \ {x} PROVE Ahead(x, y)
      BY <2>1, <2>2, <2>5, <2>6 DEF First, Ahead
    <2>7. \A z \in Holds(t), y \in todo[t] : Ahead(z, y)
      BY <1>0, <2>2 DEF Orderly
    <2>8. \A z \in Holds(t)', y \in todo'[t] : Ahead(z, y)'
      BY <2>2, <2>3, <2>4, <2>6, <2>7 DEF Ahead, Before
    <2> QED BY <1>0, <2>2, <2>3, <2>4, <2>5, <2>8 DEF Orderly
  <1>6. CASE \/ t \in Requests /\ DeductBillBalance(t)
             \/ DeductPrepaidBalance(t) \/ ChargeRow(t) \/ PrepaidCharged(t) \/ ReadBillGroups(t)
    <2>1. lock' = lock /\ row' = row
      BY <1>6 DEF DeductBillBalance, DeductPrepaidBalance, ChargeRow, PrepaidCharged, ReadBillGroups, data
    <2>2. \A s \in Txs : Holds(s)' = Holds(s)
      BY <2>1 DEF Holds
    <2>3. pc[t] \in InTx /\ pc[t] # "commit" /\ pc'[t] \in InTx \ Selecting
      BY <1>6 DEF DeductBillBalance, StartCharging, DeductPrepaidBalance, ChargeRow, PrepaidCharged, ReadBillGroups, TypeOK
    <2>4. \A s \in Txs \ {t} : pc'[s] = pc[s] /\ todo'[s] = todo[s]
      BY <1>6 DEF DeductBillBalance, StartCharging, DeductPrepaidBalance, ChargeRow, PrepaidCharged, ReadBillGroups, TypeOK
    <2> QED BY <1>0, <2>1, <2>2, <2>3, <2>4 DEF Orderly
  <1>7. CASE WriteBillGroups(t)
    <2>1. /\ lock' = [lock EXCEPT ![ctx[t].user] = t] /\ LockFree(ctx[t].user, t)
          /\ row' = row /\ todo' = todo /\ pc' = [pc EXCEPT ![t] = "commit"]
      BY <1>7 DEF WriteBillGroups, data
    <2>2. \A s \in Txs \ {t} : Holds(s)' = Holds(s)
      BY <2>1 DEF Holds, LockFree, TypeOK
    <2>3. pc'[t] = "commit" /\ \A s \in Txs \ {t} : pc'[s] = pc[s]
      BY <2>1 DEF TypeOK
    <2> QED BY <2>1, <2>2, <2>3 DEF Orderly
  <1> QED BY <1>1, <1>2, <1>3, <1>4, <1>5, <1>6, <1>7

LEMMA InOrderStep ==
    ASSUME TypeOK, IndInv, Accounts, InOrder, [Next]_vars
    PROVE  InOrder'
  <1> USE LedgerAssumption DEF InTx, Selecting, Charging
  <1>1. ASSUME NEW t \in Txs,
               \/ t \in Requests /\ (Authenticate(t) \/ HandleUsage(t) \/ DeductBillBalance(t) \/ FallToPrepaid(t))
               \/ t \in Orders /\ CreateOrder(t)
               \/ LockRow(t) \/ DeductPrepaidBalance(t) \/ ChargeRow(t)
               \/ PrepaidCharged(t) \/ ReadBillGroups(t) \/ WriteBillGroups(t)
        PROVE  InOrder'
    <2>1. /\ Orderly(t)' /\ row' = row
          /\ \A s \in Txs \ {t} : pc'[s] = pc[s] /\ todo'[s] = todo[s] /\ Holds(s)' = Holds(s)
      BY <1>1, MoverIsOrderly
    <2>2. ASSUME NEW s \in Txs \ {t} PROVE Orderly(s)'
      BY <2>1, StaysOrderly
    <2> QED BY <2>1, <2>2 DEF InOrder
  <1>2. ASSUME NEW t \in Txs, Commit(t) \/ Rollback(t) PROVE InOrder'
    <2>1. Holds(t)' = {} /\ \A s \in Txs \ {t} : Holds(s)' = Holds(s)
      BY <1>2, OthersHold
    <2>2. pc'[t] \in {"done", "lost"} /\ \A s \in Txs \ {t} : pc'[s] = pc[s] /\ todo'[s] = todo[s]
      BY <1>2 DEF Commit, Rollback, TypeOK
    <2>3. Orderly(t)'
      BY <2>1, <2>2 DEF Orderly
    <2>4. ASSUME NEW s \in Txs \ {t}, NEW x \in Rows, x \in Holds(s) \cup todo[s] PROVE row'[x] = row[x]
      <3>1. CASE Rollback(t)
        BY <3>1 DEF Rollback, data
      <3>2. CASE Commit(t)
        <4>1. x = t => t \in Orders /\ pc[t] # "done"
          BY <3>2 DEF Commit
        <4>2. x # t
          BY <2>4, <4>1 DEF IndInv, UnbornBills, Holds
        <4> QED BY <3>2, <4>2 DEF Commit
      <3> QED BY <1>2, <3>1, <3>2
    <2>5. ASSUME NEW s \in Txs \ {t} PROVE Orderly(s)'
      BY <2>1, <2>2, <2>4, StaysOrderly
    <2> QED BY <2>3, <2>5 DEF InOrder
  <1>3. ASSUME NEW u \in Users, NEW c \in Cards, Redeem(u, c) PROVE InOrder'
    <2>1. /\ lock' = lock /\ pc' = pc /\ todo' = todo /\ lock[c] = None /\ row[c].owner = None
          /\ \A x \in Rows \ {c} : row'[x] = row[x]
      BY <1>3 DEF Redeem, TypeOK
    <2>2. ASSUME NEW s \in Txs PROVE Orderly(s)'
      <3>1. Holds(s)' = Holds(s)
        BY <2>1 DEF Holds
      <3>2. pc[s] \in Selecting => c \notin Holds(s) \cup todo[s]
        BY <2>1 DEF InOrder, Orderly, Holds
      <3> QED BY <2>1, <3>1, <3>2, StaysOrderly
    <2> QED BY <2>2 DEF InOrder
  <1>4. CASE Admin \/ Tick \/ UNCHANGED vars
    <2>1. lock' = lock /\ pc' = pc /\ todo' = todo
      BY <1>4 DEF Admin, SetEnabled, DeleteBill, Tick, vars, data
    <2>2. \A x \in Rows : /\ row'[x].until = row[x].until /\ row'[x].from = row[x].from
                          /\ x \in Cards => row'[x].owner = row[x].owner
      <3>1. ASSUME NEW y \in AdminRows, NEW on \in BOOLEAN, SetEnabled(y, on)
            PROVE  \A x \in Rows : /\ row'[x].until = row[x].until /\ row'[x].from = row[x].from
                                   /\ row'[x].owner = row[x].owner
        BY <3>1 DEF SetEnabled, TypeOK, Row
      <3>2. ASSUME NEW b \in Bills, DeleteBill(b)
            PROVE  \A x \in Rows : /\ row'[x].until = row[x].until /\ row'[x].from = row[x].from
                                   /\ x # b => row'[x].owner = row[x].owner
        BY <3>2 DEF DeleteBill, TypeOK, Row
      <3>3. CASE Tick \/ UNCHANGED vars
        BY <3>3 DEF Tick, vars, data
      <3> QED BY <1>4, <3>1, <3>2, <3>3 DEF Admin
    <2>3. ASSUME NEW s \in Txs PROVE Orderly(s)'
      <3>1. Holds(s)' = Holds(s)
        BY <2>1 DEF Holds
      <3> QED BY <2>1, <2>2, <3>1, StaysOrderly
    <2> QED BY <2>3 DEF InOrder
  <1> QED BY <1>1, <1>2, <1>3, <1>4 DEF Next, TxStep, RequestStep

\* Locking in order leaves no circle: of the rows a circle waits for, take one with
\* the fewest after it; its holder waits for one of these.
LEMMA OrderBreaksCircles ==
    ASSUME TypeOK, IndInv, InOrder, NEW S \in (SUBSET Txs) \ {{}}
    PROVE  \E t \in S : \A s \in S : ~BlockedBy(t, s)
  <1> SUFFICES ASSUME \A t \in S : \E s \in S : BlockedBy(t, s) PROVE FALSE
    OBVIOUS
  <1> USE LedgerAssumption DEF InTx, Selecting, Charging
  <1>0. ASSUME NEW t \in S PROVE pc[t] \in Selecting
    <2>1. PICK s \in S : BlockedBy(t, s)
      BY <1>0
    <2>2. PICK r \in S : BlockedBy(s, r)
      OBVIOUS
    <2>3. pc[s] # "commit"
      BY <2>2 DEF BlockedBy
    <2> SUFFICES ASSUME pc[t] = "refresh", lock[ctx[t].user] = s PROVE FALSE
      BY <2>1 DEF BlockedBy
    <2>4. ctx[t].user \in Users
      BY DEF IndInv, UserIsKnown
    <2>5. ctx[t].user \in Holds(s)
      BY <2>4 DEF Holds
    <2> QED BY <2>3, <2>4, <2>5 DEF InOrder, Orderly
  <1>1. ASSUME NEW t \in S PROVE \E s \in S, x \in Rows : x \in todo[t] /\ x \in Holds(s)
    <2>1. PICK s \in S : BlockedBy(t, s)
      BY <1>1
    <2>2. PICK x \in Rows : First(x, todo[t]) /\ lock[x] = s
      BY <1>0, <1>1, <2>1 DEF BlockedBy
    <2> QED BY <2>2 DEF First, Holds
  <1> DEFINE Held == {x \in Rows : \E s \in S : x \in Holds(s)}
             After(x) == {w \in Held : Ahead(x, w)}
             T == {After(x) : x \in Held}
  <1>2. IsFiniteSet(Held) /\ T \in SUBSET SUBSET Held
    BY FiniteParts
  <1>3. T # {}
    <2>1. PICK t \in S : TRUE
      OBVIOUS
    <2>2. PICK x \in Rows : x \in Held
      BY <1>1, <2>1
    <2>3. After(x) \in T
      BY <2>2
    <2> HIDE DEF T
    <2> QED BY <2>3
  <1>4. PICK x \in Held : \A y \in Held : After(y) \subseteq After(x) => After(y) = After(x)
    <2>1. PICK least \in T : \A other \in T : other \subseteq least => other = least
      <3> HIDE DEF Held, T
      <3> QED BY <1>2, <1>3, SmallestSet
    <2>2. PICK x \in Held : least = After(x)
      OBVIOUS
    <2>3. \A y \in Held : After(y) \in T
      OBVIOUS
    <2> HIDE DEF T, After
    <2> QED BY <2>1, <2>2, <2>3
  <1>5. PICK s \in S : x \in Holds(s)
    OBVIOUS
  <1>6. PICK y \in Held : y \in todo[s]
    BY <1>1
  <1>7. Ahead(x, y)
    BY <1>0, <1>5, <1>6 DEF InOrder, Orderly
  <1>8. After(y) \subseteq After(x)
    BY <1>7, AheadIsOrder
  <1>9. y \in After(x) /\ y \notin After(y)
    BY <1>7, AheadIsOrder
  <1> QED BY <1>4, <1>8, <1>9

LEMMA InOrderInit == ASSUME Init PROVE InOrder
  BY LedgerAssumption DEF Init, InOrder, Orderly, Holds, InTx, Selecting, Charging

\* No set of transactions waits for each other in a circle (selectUsageBillWithConn
\* and deductPrepaidBalance lock in the order of their queries, RefreshUserBillGroups last).
THEOREM NobodyWaitsInACircle == Spec => []NoWaitCycle
  <1>1. Init => InOrder
    BY InOrderInit
  <1>2. TypeOK /\ IndInv /\ Accounts /\ InOrder /\ [Next]_vars => InOrder'
    BY InOrderStep
  <1>3. TypeOK /\ IndInv /\ InOrder => NoWaitCycle
    BY OrderBreaksCircles DEF NoWaitCycle
  <1> QED BY <1>1, <1>2, <1>3, AccountsAgree, PTL DEF Spec
-----------------------------------------------------------------------------
\* A transaction takes money only from rows it was given, and a row it was given
\* stays as it was: nobody else can drain, disable or delete it or give it away.
OwnRows(t) == pc[t] \in InTx =>
    /\ \A x \in got[t] : Active(x, ctx[t].user, at[t])
    /\ \A x \in Rows : take[t][x] # 0 => x \in got[t]
TakesOwnRows == \A t \in Txs : OwnRows(t)

\* A transaction that does not move keeps its rows while nobody writes to them.
LEMMA KeepsRows ==
    ASSUME TypeOK, TakesOwnRows, NEW t \in Txs,
           pc'[t] = pc[t], got'[t] = got[t], take'[t] = take[t], ctx'[t] = ctx[t], at'[t] = at[t],
           pc[t] \in InTx => \A x \in got[t] : row'[x] = row[x] /\ funds'[x] = funds[x]
    PROVE  OwnRows(t)'
  BY DEF TakesOwnRows, OwnRows, Active, InTx, Selecting, Charging

\* The transaction that moves.
LEMMA MoverOwnsRows ==
    ASSUME TypeOK, IndInv, TakesOwnRows, NEW t \in Txs,
           \/ t \in Requests /\ (Authenticate(t) \/ HandleUsage(t) \/ DeductBillBalance(t) \/ FallToPrepaid(t))
           \/ t \in Orders /\ CreateOrder(t)
           \/ LockRow(t) \/ DeductPrepaidBalance(t) \/ ChargeRow(t)
           \/ PrepaidCharged(t) \/ ReadBillGroups(t) \/ WriteBillGroups(t) \/ Rollback(t)
    PROVE  /\ OwnRows(t)'
           /\ row' = row /\ funds' = funds
           /\ \A s \in Txs \ {t} : /\ pc'[s] = pc[s] /\ got'[s] = got[s] /\ take'[s] = take[s]
                                   /\ ctx'[s] = ctx[s] /\ at'[s] = at[s]
  <1> USE DEF InTx, Selecting, Charging
  <1>0. OwnRows(t)
    BY DEF TakesOwnRows
  <1>1. row' = row /\ funds' = funds
    BY DEF data, Authenticate, HandleUsage, DeductBillBalance, FallToPrepaid, CreateOrder, LockRow,
           DeductPrepaidBalance, ChargeRow, PrepaidCharged, ReadBillGroups, WriteBillGroups, Rollback
  <1>2. \A s \in Txs \ {t} : /\ pc'[s] = pc[s] /\ got'[s] = got[s] /\ take'[s] = take[s]
                              /\ ctx'[s] = ctx[s] /\ at'[s] = at[s]
    BY DEF TypeOK, Authenticate, HandleUsage, Select, StartCharging, DeductBillBalance, FallToPrepaid,
           CreateOrder, LockRow, DeductPrepaidBalance, ChargeRow, PrepaidCharged, ReadBillGroups,
           WriteBillGroups, Rollback
  <1> SUFFICES OwnRows(t)'
    BY <1>1, <1>2
  <1>3. CASE (t \in Requests /\ Authenticate(t)) \/ Rollback(t)
    BY <1>3 DEF Authenticate, Rollback, OwnRows, TypeOK
  <1>4. CASE t \in Requests /\ HandleUsage(t)
    <2>1. pc[t] = "sent" /\ take'[t] = NoTake /\ got[t] = {}
      BY <1>4 DEF HandleUsage, IndInv, NothingYet, NotStarted
    <2>2. got'[t] = {}
      BY <1>4, <2>1 DEF HandleUsage, Select, TypeOK
    <2> QED BY <2>1, <2>2 DEF OwnRows, NoTake
  <1>5. CASE t \in Orders /\ CreateOrder(t)
    <2>1. take'[t] = NoTake /\ got'[t] = {}
      BY <1>5 DEF CreateOrder, IndInv, NothingYet, NotStarted
    <2> QED BY <2>1 DEF OwnRows, NoTake
  <1>6. CASE t \in Requests /\ FallToPrepaid(t)
    <2>1. take'[t] = NoTake /\ got'[t] = {}
      BY <1>6 DEF FallToPrepaid, Select, IndInv, NothingYet, TypeOK
    <2> QED BY <2>1 DEF OwnRows, NoTake
  <1>7. CASE LockRow(t)
    <2>1. PICK x \in Rows : got' = [got EXCEPT ![t] = IF Usable(x, t, at[t]) THEN @ \cup {x} ELSE @]
      BY <1>7 DEF LockRow
    <2>2. take' = take /\ ctx' = ctx /\ at' = at /\ pc' = pc /\ pc[t] \in InTx
      BY <1>7 DEF LockRow
    <2>3. \A y \in got'[t] : y \in got[t] \/ Active(y, ctx[t].user, at[t])
      BY <2>1 DEF TypeOK, Usable
    <2>4. got[t] \subseteq got'[t]
      BY <2>1 DEF TypeOK
    <2> QED BY <1>0, <1>1, <2>2, <2>3, <2>4 DEF OwnRows, Active
  <1>8. CASE ChargeRow(t)
    <2>1. PICK x \in Rows : /\ First(x, todo[t])
                            /\ take' = [take EXCEPT ![t][x] = Deduction(t, x)]
      BY <1>8 DEF ChargeRow
    <2>2. got' = got /\ ctx' = ctx /\ at' = at /\ pc' = pc /\ pc[t] \in Charging
      BY <1>8 DEF ChargeRow
    <2>3. x \in got[t]
      BY <2>1, <2>2 DEF First, IndInv, ToCharge
    <2>4. \A y \in Rows \ {x} : take'[t][y] = take[t][y]
      BY <2>1 DEF TypeOK
    <2> QED BY <1>0, <1>1, <2>2, <2>3, <2>4 DEF OwnRows, Active
  <1>9. CASE \/ t \in Requests /\ DeductBillBalance(t)
             \/ DeductPrepaidBalance(t) \/ PrepaidCharged(t) \/ ReadBillGroups(t) \/ WriteBillGroups(t)
    <2>1. got' = got /\ ctx' = ctx /\ at' = at /\ take' = take /\ pc[t] \in InTx
      BY <1>9 DEF DeductBillBalance, StartCharging, DeductPrepaidBalance, PrepaidCharged, ReadBillGroups, WriteBillGroups
    <2> QED BY <1>0, <1>1, <2>1 DEF OwnRows, Active
  <1> QED BY <1>3, <1>4, <1>5, <1>6, <1>7, <1>8, <1>9

LEMMA OwnRowsStep ==
    ASSUME TypeOK, IndInv, TakesOwnRows, [Next]_vars
    PROVE  TakesOwnRows'
  <1> USE LedgerAssumption DEF InTx, Selecting, Charging
  <1>1. ASSUME NEW t \in Txs,
               \/ t \in Requests /\ (Authenticate(t) \/ HandleUsage(t) \/ DeductBillBalance(t) \/ FallToPrepaid(t))
               \/ t \in Orders /\ CreateOrder(t)
               \/ LockRow(t) \/ DeductPrepaidBalance(t) \/ ChargeRow(t)
               \/ PrepaidCharged(t) \/ ReadBillGroups(t) \/ WriteBillGroups(t) \/ Rollback(t)
        PROVE  TakesOwnRows'
    <2>1. /\ OwnRows(t)' /\ row' = row /\ funds' = funds
          /\ \A s \in Txs \ {t} : /\ pc'[s] = pc[s] /\ got'[s] = got[s] /\ take'[s] = take[s]
                                  /\ ctx'[s] = ctx[s] /\ at'[s] = at[s]
      BY <1>1, MoverOwnsRows
    <2>2. ASSUME NEW s \in Txs \ {t} PROVE OwnRows(s)'
      BY <2>1, KeepsRows
    <2> QED BY <2>1, <2>2 DEF TakesOwnRows
  <1>2. ASSUME NEW t \in Txs, Commit(t) PROVE TakesOwnRows'
    <2>1. OwnRows(t)'
      BY <1>2 DEF Commit, OwnRows, TypeOK
    <2>2. ASSUME NEW s \in Txs \ {t} PROVE OwnRows(s)'
      <3>1. ASSUME pc[s] \in InTx, NEW x \in got[s] PROVE row'[x] = row[x] /\ funds'[x] = funds[x]
        <4>1. x \in Rows /\ lock[x] = s
          BY <3>1, RowTypes DEF IndInv, HoldsLocks
        <4>2. t \in Orders => t \notin got[s]
          BY <1>2, <2>2 DEF Commit, IndInv, UnbornBills
        <4>3. t \in Rows => t \in Orders
          BY <1>2
        <4>4. x # t
          BY <3>1, <4>1, <4>2, <4>3
        <4>5. funds'[x] = funds[x]
          BY <1>2, <2>2, <4>1, LockedRowsStay
        <4> QED BY <1>2, <4>1, <4>4, <4>5 DEF Commit
      <3>2. pc'[s] = pc[s] /\ got'[s] = got[s] /\ take'[s] = take[s] /\ ctx'[s] = ctx[s] /\ at'[s] = at[s]
        BY <1>2, <2>2 DEF Commit, TypeOK
      <3> QED BY <3>1, <3>2, KeepsRows
    <2> QED BY <2>1, <2>2 DEF TakesOwnRows
  <1>3. ASSUME UNCHANGED <<funds, pc, got, take, ctx, at>>,
               \A x \in Rows : lock[x] # None => row'[x] = row[x]
        PROVE  TakesOwnRows'
    <2>1. ASSUME NEW s \in Txs, pc[s] \in InTx, NEW x \in got[s] PROVE row'[x] = row[x]
      BY <1>3, <2>1, RowTypes DEF IndInv, HoldsLocks
    <2>2. ASSUME NEW s \in Txs PROVE OwnRows(s)'
      BY <1>3, <2>1, KeepsRows
    <2> QED BY <2>2 DEF TakesOwnRows
  <1>4. ASSUME NEW u \in Users, NEW c \in Cards, Redeem(u, c) PROVE TakesOwnRows'
    BY <1>3, <1>4 DEF Redeem, TypeOK
  <1>5. ASSUME NEW x \in AdminRows, NEW on \in BOOLEAN, SetEnabled(x, on) PROVE TakesOwnRows'
    BY <1>3, <1>5 DEF SetEnabled, TypeOK
  <1>6. ASSUME NEW b \in Bills, DeleteBill(b) PROVE TakesOwnRows'
    <2>1. UNCHANGED <<funds, pc, got, take, ctx, at>> /\ \A x \in Rows \ {b} : row'[x] = row[x]
      BY <1>6 DEF DeleteBill, TypeOK
    <2>2. lock[b] = None
      BY <1>6 DEF DeleteBill
    <2> QED BY <1>3, <2>1, <2>2
  <1>7. CASE Tick \/ UNCHANGED vars
    BY <1>3, <1>7 DEF Tick, vars, data
  <1>8. CASE Admin
    BY <1>5, <1>6, <1>8 DEF Admin
  <1> QED BY <1>1, <1>2, <1>4, <1>7, <1>8 DEF Next, TxStep, RequestStep

\* Statements before the commit are invisible; a rollback drops the transaction.
LEMMA OthersUnseen ==
    ASSUME TypeOK, NEW t \in Txs, pc[t] # "done", pc'[t] # "done",
           UNCHANGED <<row, funds>>,
           \A s \in Txs \ {t} : pc'[s] = pc[s] /\ take'[s] = take[s]
    PROVE  /\ owner' = owner /\ charge' = charge
           /\ \A s \in Txs \ {t} : state'[s] = state[s]
  <1>1. owner' = owner
    BY DEF owner
  <1>2. \A s \in Txs : (IF Settled(s) THEN take[s] ELSE NoTake)' = IF Settled(s) THEN take[s] ELSE NoTake
    BY DEF Settled, NoTake
  <1>3. \A s \in Txs \ {t} : state'[s] = state[s]
    BY DEF state
  <1> QED BY <1>1, <1>2, <1>3 DEF charge

LEMMA StatementStep ==
    ASSUME TypeOK, NEW t \in Txs,
           \/ t \in Requests /\ (Authenticate(t) \/ HandleUsage(t) \/ DeductBillBalance(t) \/ FallToPrepaid(t))
           \/ t \in Orders /\ CreateOrder(t)
           \/ LockRow(t) \/ DeductPrepaidBalance(t) \/ ChargeRow(t)
           \/ PrepaidCharged(t) \/ ReadBillGroups(t) \/ WriteBillGroups(t)
    PROVE  UNCHANGED W!vars
  <1> USE DEF InTx, Selecting, Charging
  <1>1. UNCHANGED <<row, funds>>
    BY DEF data, Authenticate, HandleUsage, DeductBillBalance, FallToPrepaid, CreateOrder, LockRow,
           DeductPrepaidBalance, ChargeRow, PrepaidCharged, ReadBillGroups, WriteBillGroups
  <1>2. /\ pc[t] \notin {"done", "lost"} /\ pc'[t] \notin {"done", "lost"}
        /\ \A s \in Txs \ {t} : pc'[s] = pc[s] /\ take'[s] = take[s]
    BY DEF TypeOK, Authenticate, HandleUsage, Select, StartCharging, DeductBillBalance, FallToPrepaid,
           CreateOrder, LockRow, DeductPrepaidBalance, ChargeRow, PrepaidCharged, ReadBillGroups, WriteBillGroups
  <1>3. state'[t] = state[t]
    BY <1>2 DEF state
  <1>4. owner' = owner /\ charge' = charge /\ \A s \in Txs \ {t} : state'[s] = state[s]
    BY <1>1, <1>2, OthersUnseen
  <1>5. state' = state
    BY <1>3, <1>4 DEF state
  <1> QED BY <1>1, <1>4, <1>5 DEF W!vars

LEMMA RollbackStep ==
    ASSUME TypeOK, NEW t \in Txs, Rollback(t)
    PROVE  W!Drop(t)
  <1> USE DEF InTx, Selecting, Charging
  <1>1. /\ UNCHANGED <<row, funds>> /\ pc[t] \notin {"done", "lost"} /\ pc'[t] = "lost"
        /\ \A s \in Txs \ {t} : pc'[s] = pc[s] /\ take'[s] = take[s]
    BY DEF Rollback, data, TypeOK
  <1>2. state[t] = "open" /\ state'[t] = "dropped"
    BY <1>1 DEF state
  <1>3. owner' = owner /\ charge' = charge /\ \A s \in Txs \ {t} : state'[s] = state[s]
    BY <1>1, OthersUnseen
  <1>4. state' = [state EXCEPT ![t] = "dropped"]
    BY <1>2, <1>3 DEF state
  <1> QED BY <1>1, <1>2, <1>3, <1>4 DEF W!Drop

\* What a transaction about to commit has taken is lawful.
LEMMA TakesLawfully ==
    ASSUME TypeOK, IndInv, Accounts, TakesOwnRows, NEW t \in Txs, pc[t] = "commit"
    PROVE  W!Lawful(t, take[t], ctx[t].user)
  <1> USE LedgerAssumption DEF InTx
  <1>1. ASSUME NEW x \in Rows PROVE take[t][x] \in 0..funds[x]
    <2>1. funds[x] \in Int /\ funds[x] >= 0
      BY DEF TypeOK, IndInv, NoOverdraft
    <2>2. take[t][x] # 0 => take[t][x] \in 0..funds[x]
      BY DEF IndInv, ChargesAreCovered
    <2> QED BY <2>1, <2>2
  <1>2. ASSUME NEW x \in Rows, take[t][x] > 0 PROVE owner[x] = ctx[t].user
    <2>1. x \in got[t]
      BY <1>2 DEF TakesOwnRows, OwnRows
    <2> QED BY <2>1 DEF TakesOwnRows, OwnRows, Active, owner
  <1>3. PaidByBills(t) \/ PaidByCards(t)
    BY DEF Accounts, Account, Concluded
  <1>4. \/ \A b \in Bills : take[t][b] = 0
        \/ t \in Requests /\ \A d \in Cards : take[t][d] = 0
    BY <1>3 DEF PaidByBills, PaidByCards, Paid, OnlyFrom
  <1> QED BY <1>1, <1>2, <1>4 DEF W!Lawful

LEMMA CommitStep ==
    ASSUME TypeOK, IndInv, Accounts, TakesOwnRows, NEW t \in Txs, Commit(t)
    PROVE  (t \in Requests /\ W!SettleRequest(t)) \/ (t \in Orders /\ W!SettleOrder(t))
  <1> USE LedgerAssumption
  <1>1. /\ pc[t] = "commit" /\ pc'[t] = "done" /\ take' = take
        /\ \A s \in Txs \ {t} : pc'[s] = pc[s]
    BY DEF Commit, TypeOK
  <1>2. W!Lawful(t, take[t], ctx[t].user)
    BY <1>1, TakesLawfully
  <1>3. charge'[t] = take[t]
    BY <1>1 DEF charge, Settled
  <1>4. charge' = [charge EXCEPT ![t] = charge'[t]]
    <2>1. \A s \in Txs \ {t} : charge'[s] = charge[s]
      BY <1>1 DEF charge, Settled, NoTake
    <2> QED BY <2>1 DEF charge
  <1>5. state[t] = "open" /\ state' = [state EXCEPT ![t] = "settled"]
    <2>1. state[t] = "open" /\ state'[t] = "settled"
      BY <1>1 DEF state
    <2>2. \A s \in Txs \ {t} : state'[s] = state[s]
      BY <1>1 DEF state
    <2>3. state = [s \in Txs |-> state[s]] /\ state' = [s \in Txs |-> state'[s]]
      BY DEF state
    <2> QED BY <2>1, <2>2, <2>3
  <1>6. ctx[t].user \in Users
    BY <1>1 DEF IndInv, UserIsKnown
  <1>7. \A x \in Rows \ {t} : funds'[x] = funds[x] - charge'[t][x] /\ row'[x] = row[x]
    BY <1>3 DEF Commit
  <1>8. CASE t \in Requests
    <2>1. t \notin Rows
      BY <1>8
    <2>2. funds' = [x \in Rows |-> funds[x] - charge'[t][x]]
      BY <1>7, <2>1 DEF Commit
    <2>3. owner' = owner
      BY <1>7, <2>1 DEF owner
    <2> QED BY <1>2, <1>3, <1>4, <1>5, <1>6, <1>8, <2>2, <2>3 DEF W!SettleRequest
  <1>9. CASE t \in Orders
    <2>1. t \in Rows /\ owner[t] = None
      BY <1>1, <1>9 DEF IndInv, UnbornBills, owner
    <2>2. row'[t].owner = ctx[t].user
      BY <2>1 DEF Commit, NewBill
    <2>3. owner' = [owner EXCEPT ![t] = ctx[t].user]
      BY <1>7, <2>1, <2>2 DEF owner
    <2> QED BY <1>2, <1>3, <1>4, <1>5, <1>6, <1>7, <1>9, <2>1, <2>3 DEF W!SettleOrder
  <1> QED BY <1>8, <1>9

\* The other writers are invisible or hand a row over.
LEMMA WriterStep ==
    ASSUME TypeOK, \/ \E u \in Users, c \in Cards : Redeem(u, c)
                   \/ Admin \/ Tick \/ UNCHANGED vars
    PROVE  [W!Next]_(W!vars)
  <1> USE LedgerAssumption
  <1>1. ASSUME UNCHANGED <<funds, pc, take>> PROVE UNCHANGED <<funds, state, charge>>
    BY <1>1 DEF state, charge, Settled
  <1>2. ASSUME NEW u \in Users, NEW c \in Cards, Redeem(u, c) PROVE W!Assign(c)
    <2>1. UNCHANGED <<funds, pc, take>>
      BY <1>2 DEF Redeem
    <2>2. owner[c] = None
      BY <1>2 DEF Redeem, owner
    <2>3. row'[c].owner = u /\ \A x \in Rows \ {c} : row'[x] = row[x]
      <3>1. row[c] \in Row /\ c \in Rows
        BY DEF TypeOK
      <3>2. DOMAIN row = Rows /\ \E until : row' = [row EXCEPT ![c].owner = u, ![c].from = day, ![c].until = until]
        BY <1>2 DEF Redeem, TypeOK
      <3> QED BY <3>1, <3>2 DEF Row
    <2>4. owner' = [owner EXCEPT ![c] = u]
      BY <2>3 DEF owner
    <2> QED BY <1>1, <1>2, <2>1, <2>2, <2>4 DEF W!Assign
  <1>3. ASSUME NEW x \in AdminRows, NEW on \in BOOLEAN, SetEnabled(x, on) PROVE UNCHANGED W!vars
    <2>1. UNCHANGED <<funds, pc, take>>
      BY <1>3 DEF SetEnabled
    <2>2. \A y \in Rows : row'[y].owner = row[y].owner
      BY <1>3 DEF SetEnabled, TypeOK, Row
    <2>3. owner' = owner
      BY <2>2 DEF owner
    <2> QED BY <1>1, <2>1, <2>3 DEF W!vars
  <1>4. ASSUME NEW b \in Bills, DeleteBill(b) PROVE W!Withdraw(b)
    <2>1. UNCHANGED <<funds, pc, take>>
      BY <1>4 DEF DeleteBill
    <2>2. owner[b] # None
      BY <1>4 DEF DeleteBill, owner
    <2>3. row'[b].owner = None /\ \A x \in Rows \ {b} : row'[x] = row[x]
      BY <1>4 DEF DeleteBill, TypeOK, Row
    <2>4. owner' = [owner EXCEPT ![b] = None]
      BY <2>3 DEF owner
    <2> QED BY <1>1, <2>1, <2>2, <2>4 DEF W!Withdraw
  <1>5. CASE Tick \/ UNCHANGED vars
    <2>1. UNCHANGED <<row, funds, pc, take>>
      BY <1>5 DEF Tick, vars, data
    <2> QED BY <1>1, <2>1 DEF W!vars, owner
  <1>6. CASE Admin
    BY <1>3, <1>4, <1>6 DEF Admin, W!Next
  <1>7. CASE \E u \in Users, c \in Cards : Redeem(u, c)
    BY <1>2, <1>7 DEF W!Next
  <1> QED BY <1>5, <1>6, <1>7

LEMMA WalletInit == ASSUME Init PROVE W!Init
  BY DEF Init, W!Init, W!Nothing, owner, state, charge, Settled, NoTake

LEMMA WalletStep ==
    ASSUME TypeOK, IndInv, Accounts, TakesOwnRows, [Next]_vars
    PROVE  [W!Next]_(W!vars)
  <1>1. ASSUME NEW t \in Txs,
               \/ t \in Requests /\ (Authenticate(t) \/ HandleUsage(t) \/ DeductBillBalance(t) \/ FallToPrepaid(t))
               \/ t \in Orders /\ CreateOrder(t)
               \/ LockRow(t) \/ DeductPrepaidBalance(t) \/ ChargeRow(t)
               \/ PrepaidCharged(t) \/ ReadBillGroups(t) \/ WriteBillGroups(t)
        PROVE  [W!Next]_(W!vars)
    BY <1>1, StatementStep
  <1>2. ASSUME NEW t \in Txs, Commit(t) PROVE W!Next
    BY <1>2, CommitStep DEF W!Next
  <1>3. ASSUME NEW t \in Txs, Rollback(t) PROVE W!Next
    BY <1>3, RollbackStep DEF W!Next
  <1>4. CASE \/ \E u \in Users, c \in Cards : Redeem(u, c)
             \/ Admin \/ Tick \/ UNCHANGED vars
    BY <1>4, WriterStep
  <1> QED BY <1>1, <1>2, <1>3, <1>4 DEF Next, TxStep, RequestStep

\* Row locks and two phases of row locking make usage transactions and purchases
\* atomic (HandleUsage, BillFrontHandler.Create): the ledger implements the wallet.
THEOREM LedgerIsWallet == Spec => ImplementsWallet
  <1>1. Init => TakesOwnRows /\ W!Init
    <2>1. Init => TakesOwnRows
      BY DEF Init, TakesOwnRows, OwnRows, InTx, Selecting, Charging
    <2> QED BY <2>1, WalletInit
  <1>2. TypeOK /\ IndInv /\ TakesOwnRows /\ [Next]_vars => TakesOwnRows'
    BY OwnRowsStep
  <1>3. TypeOK /\ IndInv /\ Accounts /\ TakesOwnRows /\ [Next]_vars => [W!Next]_(W!vars)
    BY WalletStep
  <1> QED BY <1>1, <1>2, <1>3, AccountsAgree, PTL DEF Spec, ImplementsWallet, W!Spec
-----------------------------------------------------------------------------
\* The bills that are there from the start and that nobody edits, and what a charge
\* knows of them: those that could pay it are the ones it has locked or will lock.
Steady == Bills \ (AdminRows \cup Orders)

Locks(t) ==
    /\ pc[t] = "bills" => \A b \in Steady : Usable(b, t, at[t]) => b \in todo[t] \/ lock[b] = t
    /\ pc[t] \in {"payBills", "refresh", "commit"} /\ got[t] # {} /\ got[t] \subseteq Bills =>
          \A b \in Steady : Usable(b, t, at[t]) => lock[b] = t
LocksAllUsable == \A t \in Txs : Locks(t)

\* A charge of user and group to bills of the pool, of a request made on the day.
Charges(t, u, g, d) ==
    /\ pc[t] \in {"payBills", "refresh", "commit"}
    /\ ctx[t].user = u /\ ctx[t].group = g /\ ctx[t].day = d /\ at[t] = d
    /\ got[t] # {} /\ got[t] \subseteq Pool(u, g)

\* The hypotheses of DailyQuotaHolds.
HasQuota(u, g) ==
    /\ \E a \in Bills : Pool(u, g) \cap AdminRows \subseteq {a}
    /\ \A b \in Pool(u, g) : row[b].daily > 0

\* While one request is charged, the others of its day have left something.
LeftForOne ==
    \A u \in Users, g \in Groups \cup {None}, d \in 0..MaxDay, t \in Txs :
        HasQuota(u, g) /\ Charges(t, u, g, d) => Spending(Spent(u, g, d)) < Daily(Pool(u, g))

LEMMA KeepsLocks ==
    ASSUME LocksAllUsable, NEW t \in Txs,
           pc'[t] = pc[t], todo'[t] = todo[t], got'[t] = got[t], ctx'[t] = ctx[t], at'[t] = at[t],
           \A b \in Steady : /\ row'[b] = row[b] /\ (funds'[b] > 0 => funds[b] > 0)
                             /\ lock[b] = t => lock'[b] = t
    PROVE  Locks(t)'
  <1>1. Locks(t)
    BY DEF LocksAllUsable
  <1>2. \A b \in Steady : Usable(b, t, at[t])' => Usable(b, t, at[t])
    BY DEF Usable, Active, InGroup
  <1> QED BY <1>1, <1>2 DEF Locks

\* The transaction that moves.
LEMMA MoverLocks ==
    ASSUME TypeOK, IndInv, Accounts, LocksAllUsable, NEW t \in Txs,
           \/ t \in Requests /\ (Authenticate(t) \/ HandleUsage(t) \/ DeductBillBalance(t) \/ FallToPrepaid(t))
           \/ t \in Orders /\ CreateOrder(t)
           \/ LockRow(t) \/ DeductPrepaidBalance(t) \/ ChargeRow(t)
           \/ PrepaidCharged(t) \/ ReadBillGroups(t) \/ WriteBillGroups(t)
    PROVE  /\ Locks(t)'
           /\ row' = row /\ funds' = funds
           /\ \A s \in Txs \ {t} : /\ pc'[s] = pc[s] /\ todo'[s] = todo[s] /\ got'[s] = got[s]
                                   /\ ctx'[s] = ctx[s] /\ at'[s] = at[s]
                                   /\ \A b \in Steady : lock[b] = s => lock'[b] = s
  <1> USE LedgerAssumption DEF InTx, Selecting, Charging
  <1>0. Locks(t) /\ Account(t)
    BY DEF LocksAllUsable, Accounts
  <1>1. row' = row /\ funds' = funds
    BY DEF data, Authenticate, HandleUsage, DeductBillBalance, FallToPrepaid, CreateOrder, LockRow,
           DeductPrepaidBalance, ChargeRow, PrepaidCharged, ReadBillGroups, WriteBillGroups
  <1>2. \A s \in Txs \ {t} : /\ pc'[s] = pc[s] /\ todo'[s] = todo[s] /\ got'[s] = got[s]
                              /\ ctx'[s] = ctx[s] /\ at'[s] = at[s]
    BY DEF TypeOK, Authenticate, HandleUsage, Select, StartCharging, DeductBillBalance, FallToPrepaid,
           CreateOrder, LockRow, DeductPrepaidBalance, ChargeRow, PrepaidCharged, ReadBillGroups, WriteBillGroups
  <1>3. \A b \in Steady : b \in Rows /\ \A s \in Txs : s # t /\ lock[b] = s => lock'[b] = s
    <2>1. CASE LockRow(t)
      <3>1. PICK x \in Rows : LockFree(x, t) /\ lock' = [lock EXCEPT ![x] = t]
        BY <2>1 DEF LockRow
      <3> QED BY <3>1 DEF LockFree, TypeOK, Steady
    <2>2. CASE WriteBillGroups(t)
      <3>1. lock' = [lock EXCEPT ![ctx[t].user] = t] /\ ctx[t].user \in Users
        BY <2>2 DEF WriteBillGroups, IndInv, UserIsKnown
      <3> QED BY <3>1 DEF TypeOK, Steady
    <2>3. CASE lock' = lock
      BY <2>3 DEF Steady
    <2> QED BY <2>1, <2>2, <2>3 DEF Authenticate, HandleUsage, DeductBillBalance, FallToPrepaid, CreateOrder,
               DeductPrepaidBalance, ChargeRow, PrepaidCharged, ReadBillGroups
  <1> SUFFICES Locks(t)'
    BY <1>1, <1>2, <1>3
  <1>4. CASE t \in Requests /\ HandleUsage(t)
    <2>1. got[t] = {} /\ pc[t] = "sent" /\ ctx' = ctx
      BY <1>4 DEF HandleUsage, IndInv, NotStarted
    <2>2. CASE Select(t, Bills, "bills")
      <3>1. /\ pc'[t] = "bills" /\ at'[t] = day
            /\ todo'[t] = {x \in Bills : Usable(x, t, day)}
        BY <2>2 DEF Select, TypeOK
      <3>2. \A b \in Steady : Usable(b, t, at[t])' => Usable(b, t, day)
        BY <1>1, <2>1, <3>1 DEF Usable, Active, InGroup
      <3> QED BY <3>1, <3>2 DEF Locks, Steady
    <2>3. CASE pc' = [pc EXCEPT ![t] = "commit"] /\ UNCHANGED <<at, todo, got>>
      BY <2>1, <2>3 DEF Locks, TypeOK
    <2> QED BY <1>4, <2>2, <2>3 DEF HandleUsage
  <1>5. CASE t \in Requests /\ DeductBillBalance(t)
    <2>1. /\ pc[t] = "bills" /\ todo[t] = {} /\ pc'[t] = "payBills"
          /\ got' = got /\ at' = at /\ ctx' = ctx /\ lock' = lock
      BY <1>5 DEF DeductBillBalance, StartCharging, TypeOK
    <2>2. \A b \in Steady : Usable(b, t, at[t])' => Usable(b, t, at[t])
      BY <1>1, <2>1 DEF Usable, Active, InGroup
    <2> QED BY <1>0, <2>1, <2>2 DEF Locks
  <1>6. CASE LockRow(t)
    <2>1. PICK x \in Rows : /\ lock' = [lock EXCEPT ![x] = t]
                            /\ todo' = [todo EXCEPT ![t] = @ \ {x}]
      BY <1>6 DEF LockRow
    <2>2. lock'[x] = t /\ (\A b \in Rows \ {x} : lock'[b] = lock[b]) /\ todo'[t] = todo[t] \ {x}
      BY <2>1 DEF TypeOK
    <2>3. pc' = pc /\ at' = at /\ ctx' = ctx /\ pc[t] \in Selecting
      BY <1>6 DEF LockRow
    <2>4. \A b \in Steady : Usable(b, t, at[t])' => Usable(b, t, at[t])
      BY <1>1, <2>3 DEF Usable, Active, InGroup
    <2> QED BY <1>0, <1>3, <2>2, <2>3, <2>4 DEF Locks
  <1>7. CASE ReadBillGroups(t) \/ WriteBillGroups(t) \/ ChargeRow(t)
    <2>1. got' = got /\ at' = at /\ ctx' = ctx
      BY <1>7 DEF ReadBillGroups, WriteBillGroups, ChargeRow
    <2>2. \A b \in Steady : Usable(b, t, at[t])' => Usable(b, t, at[t])
      BY <1>1, <2>1 DEF Usable, Active, InGroup
    <2>3. \A b \in Steady : lock[b] = t => lock'[b] = t
      <3>1. CASE lock' = lock
        BY <3>1
      <3>2. CASE WriteBillGroups(t)
        BY <3>2 DEF WriteBillGroups, IndInv, UserIsKnown, TypeOK, Steady
      <3> QED BY <1>7, <3>1, <3>2 DEF ReadBillGroups, ChargeRow
    <2>4. pc'[t] # "bills"
      BY <1>7 DEF ReadBillGroups, WriteBillGroups, ChargeRow, TypeOK
    <2>5. CASE pc[t] = "payCards" /\ got[t] # {} /\ got[t] \subseteq Bills
      BY <1>0, <2>5 DEF Account, PaysCards
    <2>6. CASE pc[t] # "payCards" \/ got[t] = {} \/ ~(got[t] \subseteq Bills)
      <3>1. pc[t] \in {"payBills", "payCards", "refresh", "commit"}
        BY <1>7 DEF ReadBillGroups, WriteBillGroups, ChargeRow
      <3>2. ChargeRow(t) => pc' = pc
        BY DEF ChargeRow
      <3> QED BY <1>0, <2>1, <2>2, <2>3, <2>4, <2>6, <3>1, <3>2, <1>7 DEF Locks
    <2> QED BY <2>5, <2>6
  <1>8. CASE PrepaidCharged(t)
    <2>1. pc[t] = "payCards" /\ pc'[t] = "commit" /\ got' = got
      BY <1>8 DEF PrepaidCharged, TypeOK
    <2>2. got[t] \subseteq Cards
      BY <1>0, <2>1 DEF Account, PaysCards
    <2> QED BY <2>1, <2>2 DEF Locks
  <1>9. CASE \/ t \in Requests /\ (Authenticate(t) \/ FallToPrepaid(t))
             \/ t \in Orders /\ CreateOrder(t)
             \/ DeductPrepaidBalance(t)
    <2>1. pc'[t] \in {"sent", "cards", "payCards"}
      BY <1>9 DEF Authenticate, FallToPrepaid, Select, CreateOrder, DeductPrepaidBalance, StartCharging, TypeOK
    <2> QED BY <2>1 DEF Locks
  <1> QED BY <1>4, <1>5, <1>6, <1>7, <1>8, <1>9

LEMMA LocksStep ==
    ASSUME TypeOK, IndInv, Accounts, LocksAllUsable, [Next]_vars
    PROVE  LocksAllUsable'
  <1> USE LedgerAssumption DEF InTx, Selecting, Charging
  <1>1. ASSUME NEW t \in Txs,
               \/ t \in Requests /\ (Authenticate(t) \/ HandleUsage(t) \/ DeductBillBalance(t) \/ FallToPrepaid(t))
               \/ t \in Orders /\ CreateOrder(t)
               \/ LockRow(t) \/ DeductPrepaidBalance(t) \/ ChargeRow(t)
               \/ PrepaidCharged(t) \/ ReadBillGroups(t) \/ WriteBillGroups(t)
        PROVE  LocksAllUsable'
    <2>1. /\ Locks(t)' /\ row' = row /\ funds' = funds
          /\ \A s \in Txs \ {t} : /\ pc'[s] = pc[s] /\ todo'[s] = todo[s] /\ got'[s] = got[s]
                                  /\ ctx'[s] = ctx[s] /\ at'[s] = at[s]
                                  /\ \A b \in Steady : lock[b] = s => lock'[b] = s
      BY <1>1, MoverLocks
    <2>2. ASSUME NEW s \in Txs \ {t} PROVE Locks(s)'
      BY <2>1, KeepsLocks
    <2> QED BY <2>1, <2>2 DEF LocksAllUsable
  <1>2. ASSUME NEW t \in Txs, Commit(t) \/ Rollback(t) PROVE LocksAllUsable'
    <2>1. Locks(t)'
      BY <1>2 DEF Commit, Rollback, Locks, TypeOK
    <2>2. ASSUME NEW b \in Steady PROVE row'[b] = row[b] /\ (funds'[b] > 0 => funds[b] > 0)
      <3>1. b \in Rows /\ b # t
        BY DEF Steady
      <3>2. CASE Commit(t)
        <4>1. take[t][b] >= 0
          <5>1. take[t][b] # 0 => take[t][b] \in 0..funds[b]
            BY <3>1, <3>2 DEF Commit, IndInv, ChargesAreCovered
          <5> QED BY <3>1, <5>1 DEF TypeOK
        <4>2. funds[b] \in Int /\ take[t][b] \in Int
          BY <3>1 DEF TypeOK
        <4> QED BY <3>1, <3>2, <4>1, <4>2 DEF Commit
      <3> QED BY <1>2, <3>2 DEF Rollback, data
    <2>3. ASSUME NEW s \in Txs \ {t} PROVE Locks(s)'
      <3>1. \A b \in Steady : lock[b] = s => lock'[b] = s
        BY <1>2 DEF Commit, Rollback, Release, Steady
      <3>2. pc'[s] = pc[s] /\ todo'[s] = todo[s] /\ got'[s] = got[s] /\ ctx'[s] = ctx[s] /\ at'[s] = at[s]
        BY <1>2 DEF Commit, Rollback, TypeOK
      <3> QED BY <2>2, <3>1, <3>2, KeepsLocks
    <2> QED BY <2>1, <2>3 DEF LocksAllUsable
  <1>3. ASSUME UNCHANGED <<funds, lock, pc, todo, got, ctx, at>>, \A b \in Steady : row'[b] = row[b]
        PROVE  LocksAllUsable'
    BY <1>3, KeepsLocks DEF LocksAllUsable
  <1>4. ASSUME NEW u \in Users, NEW c \in Cards, Redeem(u, c) PROVE LocksAllUsable'
    BY <1>3, <1>4 DEF Redeem, TypeOK, Steady
  <1>5. ASSUME NEW x \in AdminRows, NEW on \in BOOLEAN, SetEnabled(x, on) PROVE LocksAllUsable'
    BY <1>3, <1>5 DEF SetEnabled, TypeOK, Steady
  <1>6. ASSUME NEW b \in AdminRows \cap Bills, DeleteBill(b) PROVE LocksAllUsable'
    BY <1>3, <1>6 DEF DeleteBill, TypeOK, Steady
  <1>7. CASE Tick \/ UNCHANGED vars
    BY <1>3, <1>7 DEF Tick, vars, data
  <1>8. CASE Admin
    BY <1>5, <1>6, <1>8 DEF Admin
  <1> QED BY <1>1, <1>2, <1>4, <1>7, <1>8 DEF Next, TxStep, RequestStep

\* One request at a time is charged to the pool: what it has locked still could pay
\* the other one, which then has locked it, too.
LEMMA OneAtATime ==
    ASSUME TypeOK, IndInv, TakesOwnRows, LocksAllUsable,
           NEW u \in Users, NEW g \in Groups \cup {None}, NEW d, HasQuota(u, g),
           NEW s \in Txs, NEW t \in Txs, Charges(s, u, g, d), Charges(t, u, g, d)
    PROVE  s = t
  <1> USE LedgerAssumption DEF InTx, Selecting, Charging
  <1>1. ASSUME NEW x \in Txs, NEW y \in Txs, Charges(x, u, g, d), Charges(y, u, g, d),
               NEW b \in got[x], b \notin AdminRows
        PROVE  x = y
    <2>1. b \in Bills /\ Row0[b].owner = u /\ InGroup(b, g)
      BY <1>1 DEF Charges, Pool
    <2>2. b \notin Orders
      BY <2>1 DEF Absent
    <2>3. Active(b, u, d)
      BY <1>1 DEF TakesOwnRows, OwnRows, Charges
    <2>4. Usable(b, y, at[y])
      BY <1>1, <2>1, <2>3 DEF Usable, Charges
    <2>5. got[y] # {} /\ got[y] \subseteq Bills /\ pc[y] \in {"payBills", "refresh", "commit"}
      BY <1>1 DEF Charges, Pool
    <2>6. b \in Steady
      BY <1>1, <2>1, <2>2 DEF Steady
    <2>7. lock[b] = y
      BY <2>4, <2>5, <2>6 DEF LocksAllUsable, Locks
    <2>8. lock[b] = x
      BY <1>1 DEF IndInv, HoldsLocks, Charges
    <2> QED BY <2>7, <2>8
  <1>2. CASE (\E b \in got[s] : b \notin AdminRows) \/ (\E b \in got[t] : b \notin AdminRows)
    BY <1>1, <1>2
  <1>3. CASE got[s] \subseteq AdminRows /\ got[t] \subseteq AdminRows
    <2>1. PICK a \in Bills : Pool(u, g) \cap AdminRows \subseteq {a}
      BY DEF HasQuota
    <2>2. a \in got[s] /\ a \in got[t]
      BY <1>3, <2>1 DEF Charges
    <2>3. lock[a] = s /\ lock[a] = t
      BY <2>2 DEF IndInv, HoldsLocks, Charges
    <2> QED BY <2>3
  <1> QED BY <1>2, <1>3

\* The terms of the two sums.
LEMMA QuotaTypes ==
    ASSUME TypeOK
    PROVE  /\ [x \in Rows |-> row[x].daily] \in [Rows -> Int]
           /\ \A x \in Rows : row[x].daily >= 0
           /\ [t \in Txs |-> ctx[t].amount] \in [Txs -> Int]
           /\ \A t \in Txs : ctx[t].amount >= 0
           /\ \A S : S \subseteq Rows => Daily(S) \in Int
           /\ \A S : S \subseteq Txs => Spending(S) \in Int
  <1>1. /\ [x \in Rows |-> row[x].daily] \in [Rows -> Int]
        /\ \A x \in Rows : row[x].daily >= 0
    BY DEF TypeOK, Row
  <1>2. /\ [t \in Txs |-> ctx[t].amount] \in [Txs -> Int]
        /\ \A t \in Txs : ctx[t].amount >= 0
    BY RowTypes
  <1>3. ASSUME NEW S, S \subseteq Rows PROVE Daily(S) \in Int
    <2>1. IsFiniteSet(S)
      BY <1>3, FiniteParts
    <2> QED BY <1>1, <1>3, <2>1, SumType DEF Daily
  <1>4. ASSUME NEW S, S \subseteq Txs PROVE Spending(S) \in Int
    <2>1. IsFiniteSet(S)
      BY <1>4, FiniteParts
    <2> QED BY <1>2, <1>4, <2>1, SumType DEF Spending
  <1> QED BY <1>1, <1>2, <1>3, <1>4

\* A request starts to be charged to the pool only when the usage of the day is below
\* the daily quotas of what it has locked.
LEMMA StartLeaves ==
    ASSUME TypeOK, IndInv, Accounts, NEW u \in Users, NEW g \in Groups \cup {None}, NEW d,
           HasQuota(u, g), NEW r \in Requests, DeductBillBalance(r), Charges(r, u, g, d)'
    PROVE  Spending(Spent(u, g, d)) < Daily(Pool(u, g))
  <1> DEFINE today == {s \in Recorded : /\ ctx[s].user = u /\ ctx[s].day >= d
                                        /\ g = None \/ ctx[s].group = g}
  <1>1. /\ ctx' = ctx /\ at' = at /\ got' = got /\ row' = row /\ BillsCover(r)
    BY DEF DeductBillBalance, StartCharging, data
  <1>2. Pool(u, g)' = Pool(u, g)
    BY <1>1 DEF Pool, InGroup
  <1>3. /\ ctx[r].user = u /\ ctx[r].group = g /\ ctx[r].day = d /\ at[r] = d /\ d \in Nat
        /\ got[r] \subseteq Pool(u, g) /\ ctx[r].amount \in Nat
    <2>1. ctx[r].day \in Nat /\ ctx[r].amount \in Nat
      BY DEF TypeOK, Ctx
    <2> QED BY <1>1, <1>2, <2>1 DEF Charges
  <1>4. UsedBefore(r) = Spending(today)
    <2>1. UsedBefore(r) = Spending(today) + ctx[r].amount - ctx[r].amount
      BY <1>3 DEF UsedBefore, UsedSince
    <2>2. Spending(today) \in Int
      BY QuotaTypes DEF Recorded
    <2> HIDE DEF today
    <2> QED BY <1>3, <2>1, <2>2
  <1>5. UsedBefore(r) < Daily(got[r])
    <2>1. \A b \in got[r] : row[b].daily > 0
      BY <1>3 DEF HasQuota
    <2>2. ~(UsedBefore(r) >= Daily(got[r]))
      BY <1>1, <2>1 DEF BillsCover, DailyExhausted
    <2>3. Spending(today) \in Int /\ Daily(got[r]) \in Int
      BY <1>3, QuotaTypes DEF Recorded, Pool
    <2> HIDE DEF today
    <2> QED BY <1>4, <2>2, <2>3
  <1>6. Spending(Spent(u, g, d)) <= Spending(today)
    <2>1. today \subseteq Txs /\ IsFiniteSet(today)
      <3>1. today \subseteq Txs
        BY DEF Recorded
      <3> HIDE DEF today
      <3> QED BY <3>1, FiniteParts
    <2>2. Spent(u, g, d) \subseteq today
      BY <1>3 DEF Spent
    <2> HIDE DEF today
    <2> QED BY <2>1, <2>2, QuotaTypes, SumMonotone DEF Spending
  <1>7. Daily(got[r]) <= Daily(Pool(u, g))
    <2>1. Pool(u, g) \subseteq Rows /\ IsFiniteSet(Pool(u, g))
      <3>1. Pool(u, g) \subseteq Rows
        BY DEF Pool
      <3> QED BY <3>1, FiniteParts
    <2> QED BY <1>3, <2>1, QuotaTypes, SumMonotone DEF Daily
  <1>8. /\ Spending(Spent(u, g, d)) \in Int /\ Spending(today) \in Int
        /\ Daily(got[r]) \in Int /\ Daily(Pool(u, g)) \in Int
    BY <1>3, QuotaTypes DEF Spent, Recorded, Pool
  <1> HIDE DEF today
  <1> QED BY <1>4, <1>5, <1>6, <1>7, <1>8

\* The pool and its quotas do not change: only a purchase writes them, to a new bill.
LEMMA PoolStays ==
    ASSUME TypeOK, TypeOK', [Next]_vars, NEW u \in Users, NEW g \in Groups \cup {None}
    PROVE  /\ Pool(u, g)' = Pool(u, g)
           /\ Daily(Pool(u, g))' = Daily(Pool(u, g))
           /\ HasQuota(u, g)' <=> HasQuota(u, g)
  <1> USE LedgerAssumption
  <1>1. \A b \in Bills \ Orders : row'[b].groups = row[b].groups /\ row'[b].daily = row[b].daily
    <2>1. ASSUME NEW t \in Txs, Commit(t)
          PROVE  \A b \in Bills \ Orders : row'[b].groups = row[b].groups /\ row'[b].daily = row[b].daily
      BY <2>1 DEF Commit
    <2>2. ASSUME NEW t \in Txs,
                 \/ Authenticate(t) \/ RequestStep(t) \/ CreateOrder(t) \/ Rollback(t)
                 \/ LockRow(t) \/ DeductPrepaidBalance(t) \/ ChargeRow(t)
                 \/ PrepaidCharged(t) \/ ReadBillGroups(t) \/ WriteBillGroups(t)
          PROVE  row' = row
      BY <2>2 DEF data, Authenticate, RequestStep, HandleUsage, DeductBillBalance, FallToPrepaid, CreateOrder,
                  Rollback, LockRow, DeductPrepaidBalance, ChargeRow, PrepaidCharged, ReadBillGroups, WriteBillGroups
    <2>3. ASSUME NEW u_1 \in Users, NEW c \in Cards, Redeem(u_1, c)
          PROVE  \A b \in Bills \ Orders : row'[b] = row[b]
      BY <2>3 DEF Redeem, TypeOK
    <2>4. CASE Admin
      <3>1. ASSUME NEW x \in AdminRows, NEW on \in BOOLEAN, SetEnabled(x, on)
            PROVE  \A b \in Bills \ Orders : row'[b].groups = row[b].groups /\ row'[b].daily = row[b].daily
        BY <3>1 DEF SetEnabled, TypeOK, Row
      <3>2. ASSUME NEW x \in Bills, DeleteBill(x)
            PROVE  \A b \in Bills \ Orders : row'[b].groups = row[b].groups /\ row'[b].daily = row[b].daily
        BY <3>2 DEF DeleteBill, TypeOK, Row
      <3> QED BY <2>4, <3>1, <3>2 DEF Admin
    <2>5. CASE Tick \/ UNCHANGED vars
      BY <2>5 DEF Tick, vars, data
    <2> QED BY <2>1, <2>2, <2>3, <2>4, <2>5 DEF Next, TxStep
  <1>2. \A b \in Bills : Row0[b].owner = u => b \notin Orders
    BY DEF Absent
  <1>3. Pool(u, g)' = Pool(u, g) /\ Pool(u, g) \subseteq Bills \ Orders
    BY <1>1, <1>2 DEF Pool, InGroup
  <1>4. Daily(Pool(u, g))' = Daily(Pool(u, g))
    <2> DEFINE f == [x \in Rows |-> row[x].daily]
               e == [x \in Rows |-> row'[x].daily]
    <2>1. f \in [Rows -> Int] /\ e \in [Rows -> Int]
      BY DEF TypeOK, Row
    <2>2. /\ Pool(u, g) \subseteq Rows /\ IsFiniteSet(Pool(u, g))
          /\ \A x \in Pool(u, g) : f[x] = e[x]
      BY <1>1, <1>3, FiniteParts
    <2>3. SumFunctionOnSet(f, Pool(u, g)) = SumFunctionOnSet(e, Pool(u, g))
      <3> HIDE DEF f, e
      <3> QED BY <2>1, <2>2, SumSame
    <2> QED BY <1>3, <2>3 DEF Daily
  <1>5. HasQuota(u, g)' <=> HasQuota(u, g)
    BY <1>1, <1>3 DEF HasQuota
  <1> QED BY <1>3, <1>4, <1>5

\* A transaction stands still unless the step is its own.
LEMMA OwnStep ==
    ASSUME TypeOK, IndInv, TakesOwnRows, [Next]_vars, NEW s \in Txs
    PROVE  \/ pc'[s] = pc[s] /\ ctx'[s] = ctx[s] /\ at'[s] = at[s] /\ got'[s] = got[s]
           \/ s \in Requests /\ (Authenticate(s) \/ HandleUsage(s) \/ DeductBillBalance(s) \/ FallToPrepaid(s))
           \/ s \in Orders /\ CreateOrder(s)
           \/ LockRow(s) \/ DeductPrepaidBalance(s) \/ ChargeRow(s)
           \/ PrepaidCharged(s) \/ ReadBillGroups(s) \/ WriteBillGroups(s) \/ Rollback(s) \/ Commit(s)
  <1>1. ASSUME NEW t \in Txs, t # s,
               \/ t \in Requests /\ (Authenticate(t) \/ HandleUsage(t) \/ DeductBillBalance(t) \/ FallToPrepaid(t))
               \/ t \in Orders /\ CreateOrder(t)
               \/ LockRow(t) \/ DeductPrepaidBalance(t) \/ ChargeRow(t)
               \/ PrepaidCharged(t) \/ ReadBillGroups(t) \/ WriteBillGroups(t) \/ Rollback(t)
        PROVE  pc'[s] = pc[s] /\ ctx'[s] = ctx[s] /\ at'[s] = at[s] /\ got'[s] = got[s]
    BY <1>1, MoverOwnsRows
  <1>2. ASSUME NEW t \in Txs, t # s, Commit(t)
        PROVE  pc'[s] = pc[s] /\ ctx'[s] = ctx[s] /\ at'[s] = at[s] /\ got'[s] = got[s]
    BY <1>2 DEF Commit, TypeOK
  <1>3. CASE \/ \E u \in Users, c \in Cards : Redeem(u, c)
             \/ Admin \/ Tick \/ UNCHANGED vars
    BY <1>3 DEF Redeem, Admin, SetEnabled, DeleteBill, Tick, vars
  <1> QED BY <1>1, <1>2, <1>3 DEF Next, TxStep, RequestStep

\* Nothing but the check of the quota makes a charge to the pool out of a request, and
\* nothing but the commit ends one, save a rollback.
LEMMA ChargeBegins ==
    ASSUME TypeOK, IndInv, Accounts, TakesOwnRows, TypeOK', [Next]_vars, NEW t \in Txs,
           NEW u \in Users, NEW g \in Groups \cup {None}, NEW d, Charges(t, u, g, d)'
    PROVE  Charges(t, u, g, d) \/ (t \in Requests /\ DeductBillBalance(t))
  <1> USE LedgerAssumption DEF InTx, Selecting, Charging
  <1>1. Pool(u, g)' = Pool(u, g) /\ Pool(u, g) \subseteq Bills
    BY PoolStays DEF Pool
  <1>2. CASE /\ pc[t] \in {"payBills", "refresh", "commit"}
             /\ ctx'[t] = ctx[t] /\ at'[t] = at[t] /\ got'[t] = got[t]
    BY <1>1, <1>2 DEF Charges
  <1>3. CASE pc[t] = "payCards" /\ got'[t] = got[t]
    <2>1. got[t] \subseteq Cards
      BY <1>3 DEF Accounts, Account, PaysCards
    <2> QED BY <1>1, <1>3, <2>1 DEF Charges
  <1>4. CASE pc'[t] = pc[t] /\ ctx'[t] = ctx[t] /\ at'[t] = at[t] /\ got'[t] = got[t]
    BY <1>1, <1>4 DEF Charges
  <1>5. CASE LockRow(t) \/ ChargeRow(t) \/ PrepaidCharged(t) \/ ReadBillGroups(t) \/ WriteBillGroups(t)
    <2>1. CASE LockRow(t)
      BY <2>1 DEF LockRow, Charges
    <2>2. CASE ChargeRow(t) \/ PrepaidCharged(t) \/ ReadBillGroups(t) \/ WriteBillGroups(t)
      <3>1. /\ pc[t] \in {"payBills", "payCards", "refresh"}
            /\ ctx' = ctx /\ at' = at /\ got' = got
        BY <2>2 DEF ChargeRow, PrepaidCharged, ReadBillGroups, WriteBillGroups
      <3> QED BY <1>2, <1>3, <3>1
    <2> QED BY <1>5, <2>1, <2>2
  <1>6. CASE \/ t \in Requests /\ (Authenticate(t) \/ FallToPrepaid(t))
             \/ t \in Orders /\ CreateOrder(t)
             \/ DeductPrepaidBalance(t) \/ Rollback(t) \/ Commit(t)
    <2>1. pc'[t] \in {"sent", "cards", "payCards", "lost", "done"}
      BY <1>6 DEF Authenticate, FallToPrepaid, Select, CreateOrder, DeductPrepaidBalance, StartCharging,
                  Rollback, Commit, TypeOK
    <2> QED BY <2>1 DEF Charges
  <1>7. CASE t \in Requests /\ HandleUsage(t)
    <2>1. got[t] = {}
      BY <1>7 DEF HandleUsage, IndInv, NotStarted
    <2>2. pc'[t] = "bills" \/ got'[t] = {}
      BY <1>7, <2>1 DEF HandleUsage, Select, TypeOK
    <2> QED BY <2>2 DEF Charges
  <1> QED BY <1>4, <1>5, <1>6, <1>7, OwnStep

LEMMA SpentStays ==
    ASSUME TypeOK, IndInv, TakesOwnRows, TypeOK', [Next]_vars,
           NEW u \in Users, NEW g \in Groups \cup {None}, NEW d
    PROVE  /\ \A r \in Recorded : r \in Recorded' /\ (r \in Spent(u, g, d)' <=> r \in Spent(u, g, d))
           /\ \A S : S \subseteq Recorded => Spending(S)' = Spending(S)
  <1> USE LedgerAssumption DEF InTx, Selecting, Charging
  <1>1. ASSUME NEW r \in Recorded
        PROVE  pc'[r] = "done" /\ ctx'[r] = ctx[r] /\ at'[r] = at[r] /\ got'[r] = got[r]
    <2>1. r \in Txs /\ pc[r] = "done"
      BY DEF Recorded
    <2> QED BY <2>1, OwnStep DEF Authenticate, HandleUsage, DeductBillBalance, FallToPrepaid, CreateOrder, LockRow,
               DeductPrepaidBalance, ChargeRow, PrepaidCharged, ReadBillGroups, WriteBillGroups, Rollback, Commit
  <1>2. Pool(u, g)' = Pool(u, g)
    BY PoolStays
  <1>3. \A r \in Recorded : r \in Recorded' /\ (r \in Spent(u, g, d)' <=> r \in Spent(u, g, d))
    BY <1>1, <1>2 DEF Recorded, Spent
  <1>4. ASSUME NEW S, S \subseteq Recorded PROVE Spending(S)' = Spending(S)
    <2> DEFINE f == [t \in Txs |-> ctx[t].amount]
               e == [t \in Txs |-> ctx'[t].amount]
    <2>1. f \in [Txs -> Int] /\ e \in [Txs -> Int]
      BY DEF TypeOK, Ctx
    <2>2. S \subseteq Txs /\ IsFiniteSet(S) /\ \A x \in S : f[x] = e[x]
      <3>1. S \subseteq Txs
        BY <1>4 DEF Recorded
      <3>2. \A x \in S : f[x] = e[x]
        BY <1>1, <1>4, <3>1
      <3> QED BY <3>1, <3>2, FiniteParts
    <2>3. SumFunctionOnSet(f, S) = SumFunctionOnSet(e, S)
      <3> HIDE DEF f, e
      <3> QED BY <2>1, <2>2, SumSame
    <2> QED BY <2>3 DEF Spending
  <1> QED BY <1>3, <1>4

\* One more request of the day is recorded only by the commit of its charge.
LEMMA SpentGrows ==
    ASSUME TypeOK, IndInv, TakesOwnRows, TypeOK', [Next]_vars,
           NEW u \in Users, NEW g \in Groups \cup {None}, NEW d
    PROVE  \/ Spent(u, g, d)' = Spent(u, g, d)
           \/ \E t \in Txs : /\ Commit(t) /\ Charges(t, u, g, d)
                             /\ t \notin Spent(u, g, d) /\ Spent(u, g, d)' = Spent(u, g, d) \cup {t}
  <1>1. \A r \in Recorded : r \in Recorded' /\ (r \in Spent(u, g, d)' <=> r \in Spent(u, g, d))
    BY SpentStays
  <1>2. CASE ~(\E t \in Txs : Commit(t))
    <2>1. Recorded' = Recorded
      BY <1>2, OnlyCommit
    <2> QED BY <1>1, <2>1 DEF Spent
  <1>3. ASSUME NEW t \in Txs, Commit(t)
        PROVE  \/ Spent(u, g, d)' = Spent(u, g, d)
               \/ /\ Charges(t, u, g, d) /\ t \notin Spent(u, g, d)
                  /\ Spent(u, g, d)' = Spent(u, g, d) \cup {t}
    <2>1. pc[t] = "commit" /\ ctx' = ctx /\ at' = at /\ got' = got
      BY <1>3 DEF Commit
    <2>2. Recorded' \subseteq Recorded \cup {t} /\ t \notin Recorded
      BY <1>3, <2>1 DEF Commit, Recorded, TypeOK
    <2>3. Spent(u, g, d) \subseteq Recorded /\ Spent(u, g, d)' \subseteq Recorded'
      BY DEF Spent
    <2>4. CASE t \notin Spent(u, g, d)'
      BY <1>1, <2>2, <2>3, <2>4
    <2>5. CASE t \in Spent(u, g, d)'
      <3>1. Pool(u, g)' = Pool(u, g)
        BY PoolStays
      <3>2. Charges(t, u, g, d)
        BY <2>1, <2>5, <3>1 DEF Spent, Charges
      <3> QED BY <1>1, <2>2, <2>3, <2>5, <3>2
    <2> QED BY <2>4, <2>5
  <1> QED BY <1>2, <1>3

LEMMA QuotaStep ==
    ASSUME TypeOK, IndInv, Accounts, TakesOwnRows, LocksAllUsable, LeftForOne, DailyQuotaHolds,
           TypeOK', [Next]_vars
    PROVE  LeftForOne' /\ DailyQuotaHolds'
  <1> SUFFICES ASSUME NEW u \in Users, NEW g \in Groups \cup {None}, NEW d \in 0..MaxDay, HasQuota(u, g)
               PROVE  /\ \A t \in Txs : Charges(t, u, g, d)' => Spending(Spent(u, g, d))' < Daily(Pool(u, g))'
                      /\ Spent(u, g, d)' # {} =>
                            \E r \in Spent(u, g, d)' : Spending(Spent(u, g, d) \ {r})' < Daily(Pool(u, g))'
    <2>1. \A u_1 \in Users, g_1 \in Groups \cup {None} : HasQuota(u_1, g_1)' <=> HasQuota(u_1, g_1)
      BY PoolStays
    <2> QED BY <2>1 DEF LeftForOne, DailyQuotaHolds, HasQuota
  <1>1. Daily(Pool(u, g))' = Daily(Pool(u, g))
    BY PoolStays
  <1>2. Spent(u, g, d) \subseteq Recorded
    BY DEF Spent
  <1>3. \A S : S \subseteq Recorded => Spending(S)' = Spending(S)
    BY SpentStays
  <1>4. \A t \in Txs : Charges(t, u, g, d) => Spending(Spent(u, g, d)) < Daily(Pool(u, g))
    BY DEF LeftForOne
  <1>5. Spent(u, g, d) # {} => \E r \in Spent(u, g, d) : Spending(Spent(u, g, d) \ {r}) < Daily(Pool(u, g))
    BY DEF DailyQuotaHolds, HasQuota
  <1>6. CASE Spent(u, g, d)' = Spent(u, g, d)
    <2>1. ASSUME NEW S, S \subseteq Recorded PROVE Spending(S)' = Spending(S)
      BY <1>3, <2>1
    <2>2. Spending(Spent(u, g, d))' = Spending(Spent(u, g, d))
      <3>1. SumFunctionOnSet([t \in Txs |-> ctx[t].amount]', Spent(u, g, d)) = Spending(Spent(u, g, d))
        BY <1>2, <2>1 DEF Spending
      <3> QED BY <1>6, <3>1 DEF Spending
    <2>3. ASSUME NEW t \in Txs, Charges(t, u, g, d)' PROVE Spending(Spent(u, g, d)) < Daily(Pool(u, g))
      BY <1>4, <2>3, ChargeBegins, StartLeaves
    <2>4. ASSUME NEW r \in Spent(u, g, d) PROVE Spending(Spent(u, g, d) \ {r})' = Spending(Spent(u, g, d) \ {r})
      <3>1. SumFunctionOnSet([t \in Txs |-> ctx[t].amount]', Spent(u, g, d) \ {r}) = Spending(Spent(u, g, d) \ {r})
        BY <1>2, <2>1 DEF Spending
      <3> QED BY <1>6, <3>1 DEF Spending
    <2> QED BY <1>1, <1>5, <1>6, <2>2, <2>3, <2>4
  <1>7. ASSUME NEW t \in Txs, Commit(t), Charges(t, u, g, d), t \notin Spent(u, g, d),
               Spent(u, g, d)' = Spent(u, g, d) \cup {t}
        PROVE  /\ \A s \in Txs : ~Charges(s, u, g, d)'
               /\ \E r \in Spent(u, g, d)' : Spending(Spent(u, g, d) \ {r})' < Daily(Pool(u, g))'
    <2>1. ASSUME NEW s \in Txs, Charges(s, u, g, d)' PROVE FALSE
      <3>1. pc'[t] = "done" /\ \A x \in Txs \ {t} : pc'[x] = pc[x]
        BY <1>7 DEF Commit, TypeOK
      <3>2. s # t
        BY <2>1, <3>1 DEF Charges
      <3>3. ~DeductBillBalance(s)
        BY <3>1, <3>2 DEF DeductBillBalance, StartCharging, TypeOK
      <3>4. Charges(s, u, g, d)
        BY <2>1, <3>3, ChargeBegins
      <3> QED BY <1>7, <3>2, <3>4, OneAtATime
    <2>2. (Spent(u, g, d) \ {t})' = Spent(u, g, d)
      BY <1>7
    <2>3. SumFunctionOnSet([x \in Txs |-> ctx[x].amount]', Spent(u, g, d)) = Spending(Spent(u, g, d))
      BY <1>2, <1>3 DEF Spending
    <2>4. Spending(Spent(u, g, d) \ {t})' = Spending(Spent(u, g, d))
      BY <2>2, <2>3 DEF Spending
    <2>5. Spending(Spent(u, g, d)) < Daily(Pool(u, g))
      BY <1>4, <1>7
    <2> QED BY <1>1, <1>7, <2>1, <2>4, <2>5
  <1> QED BY <1>6, <1>7, SpentGrows

\* Requests that are charged at the same time cannot both find the same remainder of
\* a daily quota (deductBillBalance reads the usage of the day after it has locked the
\* bills).  Of the requests of a user and a group that are made and charged on one day,
\* all but one stay below the daily quotas together: the quotas are exceeded by the cost
\* of one request at most.  For any users, bills, purchases and workers, as long as one
\* bill of the pool at most is edited.
THEOREM DailyQuotaOvershotByOne == Spec => []DailyQuotaHolds
  <1>1. Init => TakesOwnRows /\ LocksAllUsable /\ LeftForOne /\ DailyQuotaHolds
    <2>1. Init => TakesOwnRows /\ LocksAllUsable
      BY DEF Init, TakesOwnRows, OwnRows, LocksAllUsable, Locks, InTx, Selecting, Charging
    <2>2. Init => \A t \in Txs : pc[t] = "idle"
      BY DEF Init
    <2> QED BY <2>1, <2>2 DEF LeftForOne, Charges, DailyQuotaHolds, Spent, Recorded
  <1>2. TypeOK /\ IndInv /\ TakesOwnRows /\ [Next]_vars => TakesOwnRows'
    BY OwnRowsStep
  <1>3. TypeOK /\ IndInv /\ Accounts /\ LocksAllUsable /\ [Next]_vars => LocksAllUsable'
    BY LocksStep
  <1>4. TypeOK /\ IndInv /\ Accounts /\ TakesOwnRows /\ LocksAllUsable /\ LeftForOne /\ DailyQuotaHolds
        /\ TypeOK' /\ [Next]_vars => (LeftForOne /\ DailyQuotaHolds)'
    BY QuotaStep
  <1> QED BY <1>1, <1>2, <1>3, <1>4, AccountsAgree, PTL DEF Spec
=============================================================================
