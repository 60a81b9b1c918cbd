-------------------------- MODULE ConductorProofs --------------------------
(***************************************************************************)
(* Theorems about Conductor, for any requests, credentials and tables.     *)
(* After the types come the safety properties.  Each has an invariant      *)
(* about one request at a time: an action of the request moves it on, an   *)
(* action of another one leaves alone what it speaks about, an edit adds   *)
(* to the history.                                                         *)
(***************************************************************************)
EXTENDS Conductor, FiniteSetTheorems, WellFoundedInduction, TLAPS

USE SelectorAssumption, ConductorAssumption

\* TypeOK in parts.
TablesOK ==
    /\ member \in MemberSets
    /\ group \in [Auths -> RowGroups]
    /\ opened \in [AuthGroups -> Lists \cup {{}}]
    /\ mapping \in [Providers -> Mappings]
    /\ edits \in 0 .. MaxEdits
LocalsOK ==
    /\ binding \in Auths \cup {None}
    /\ cursor \in 0 .. Period - 1
    /\ avail \in [Requests -> SUBSET Auths]
    /\ mine \in [Requests -> SUBSET UserGroups]
    /\ chosen \in [Requests -> UserGroups \cup {None}]
    /\ rows \in [Requests -> [Auths -> RowGroups]]
    /\ may \in [Requests -> [Auths -> SUBSET UserGroups]]
    /\ bill \in [Requests -> UserGroups \cup {None}]
HistoryOK ==
    /\ seen \in [Requests -> SUBSET (UserGroups \cup {Everyone})]
    /\ had \in [Requests -> [Auths -> SUBSET RowValues]]
    /\ open \in [Requests -> [RowValues -> SUBSET (UserGroups \cup {Everyone})]]
    /\ asked \in [Requests -> SUBSET UserGroups]
    /\ bound \in [Requests -> Auths \cup {None}]
    /\ still \in [Requests -> BOOLEAN] /\ failed \in [Requests -> BOOLEAN]
PoolsOK ==
    /\ enabled \subseteq Auths
    /\ left \in [Auths -> Nat] /\ recover \in [Auths -> Nat] /\ factor \in [Auths -> Nat]
    /\ tried \in [Requests -> SUBSET Auths]
    /\ err \in [Requests -> {"none", "failed", "invalid"}]
    /\ hint \in [Requests -> Nat] /\ attempt \in [Requests -> Nat] /\ timer \in [Requests -> Nat]
    /\ ready \in [Requests -> SUBSET Auths]
PlacesOK ==
    /\ at \in [Requests -> Places]
    /\ sel \in [Requests -> Auths \cup {None}]
    /\ \A r \in Requests : at[r] \in {"limit", "bill", "exec"} => sel[r] \in Auths

LEMMA TypeParts == TypeOK <=> TablesOK /\ LocalsOK /\ HistoryOK /\ PoolsOK /\ PlacesOK
  BY DEF TypeOK, SelectorTypeOK, TablesOK, LocalsOK, HistoryOK, PoolsOK, PlacesOK

LEMMA TypePartsNext == TypeOK' <=> TablesOK' /\ LocalsOK' /\ HistoryOK' /\ PoolsOK' /\ PlacesOK'
  BY TypeParts, PTL

LEMMA TypeInit == Init => TypeOK
  BY DEF Init, SelectorInit, TypeOK, SelectorTypeOK, Places

LEMMA ListIsList == ASSUME TypeOK, NEW g PROVE ListOf(g) \in SUBSET UserGroups
  BY DEF TypeOK, SelectorTypeOK, ListOf

LEMMA OpenToType == ASSUME TypeOK, NEW g PROVE OpenTo(ListOf(g)) \subseteq UserGroups \cup {Everyone}
  BY ListIsList DEF OpenTo

LEMMA RoundType == ASSUME TypeOK, NEW r \in Requests, Round(r), UNCHANGED timer PROVE TypeOK'
  <1> USE TypeParts DEF Round
  <1>1. TablesOK'
    BY DEF TablesOK, tables
  <1>2. LocalsOK'
    BY DEF LocalsOK, local
  <1>3. HistoryOK'
    BY DEF HistoryOK
  <1>4. PoolsOK'
    BY DEF PoolsOK, pools, Ready
  <1>5. PlacesOK'
    BY DEF PlacesOK, Goto, Places
  <1> QED BY <1>1, <1>2, <1>3, <1>4, <1>5, TypePartsNext

LEMMA PickNextType == ASSUME TypeOK, NEW r \in Requests, PickNext(r) PROVE TypeOK'
  <1> USE TypeParts DEF PickNext, Begin, Goto, picks
  <1>1. TablesOK'
    BY DEF TablesOK, tables
  <1>2. LocalsOK'
    <2>1. Best(Candidates(r)) \subseteq Auths
      BY DEF Best, Candidates, Ready, PoolsOK
    <2>2. \/ avail' = [avail EXCEPT ![r] = Best(Candidates(r))]
          \/ avail' = avail
      OBVIOUS
    <2>3. UNCHANGED <<binding, cursor, mine, chosen, rows, may, bill>>
      BY DEF local
    <2> HIDE DEF PickNext, picks
    <2> QED BY <2>1, <2>2, <2>3 DEF LocalsOK
  <1>3. HistoryOK'
    <2>1. \A a \in Auths : group[a] \in RowValues
      BY DEF TablesOK, RowValues
    <2>2. member \subseteq UserGroups /\ mapping[CallProvider].groups \subseteq UserGroups
      BY DEF TablesOK
    <2>3. CASE UNCHANGED <<history, failed>>
      BY <2>3 DEF HistoryOK, history
    <2>4. CASE Begin(r, Best(Candidates(r))) /\ UNCHANGED <<still, failed>>
      <3>1. [a \in Auths |-> {group[a]}] \in [Auths -> SUBSET RowValues]
        BY <2>1
      <3>2. [g \in RowValues |-> OpenTo(ListOf(g))] \in [RowValues -> SUBSET (UserGroups \cup {Everyone})]
        BY OpenToType
      <3>3. binding \in Auths \cup {None}
        BY DEF LocalsOK
      <3> QED BY <2>2, <2>4, <3>1, <3>2, <3>3 DEF HistoryOK
    <2> QED BY <2>3, <2>4
  <1>4. PoolsOK'
    BY DEF PoolsOK, pools, rounds
  <1>5. PlacesOK'
    BY DEF PlacesOK, Places
  <1> QED BY <1>1, <1>2, <1>3, <1>4, <1>5, TypePartsNext

LEMMA SelectType == ASSUME TypeOK, NEW r \in Requests, NEW a \in avail[r], Select(r, a)
                    PROVE  PlacesOK' /\ a \in Auths
  BY TypeParts DEF Select, Goto, PlacesOK, Places, LocalsOK

LEMMA RefuseType == ASSUME TypeOK, NEW r \in Requests, Refuse(r), UNCHANGED <<binding, cursor>>
                    PROVE  LocalsOK' /\ PlacesOK'
  BY TypeParts DEF Refuse, Goto, PlacesOK, Places, LocalsOK

LEMMA RoundRobinType == ASSUME TypeOK, NEW r \in Requests, PickRoundRobin(r), UNCHANGED binding
                        PROVE  LocalsOK' /\ PlacesOK'
  <1>1. PICK a \in avail[r] : Select(r, a)
    BY DEF PickRoundRobin, Nth
  <1>2. cursor' \in 0 .. Period - 1
    BY TypeParts DEF PickRoundRobin, NextCursor, LocalsOK
  <1> QED BY <1>1, <1>2, SelectType, TypeParts DEF Select, LocalsOK, local

LEMMA PickingType == ASSUME TypeOK, NEW r \in Requests, Picking(r) PROVE TypeOK'
  <1> USE TypeParts
  <1>1. TablesOK' /\ PoolsOK'
    BY DEF TablesOK, PoolsOK, tables, pools, rounds, Picking, PickStep, LoadGroups, LoadRows, LoadLists,
           PickStrategy, PickStick, SelectLeastUsed, ApplyRateLimit, ApplyBilling
  <1>2. HistoryOK'
    <2>1. UNCHANGED <<seen, had, open, asked, still>>
      BY DEF history, Picking, PickStep, LoadGroups, LoadRows, LoadLists,
             PickStrategy, PickStick, SelectLeastUsed, ApplyRateLimit, ApplyBilling
    <2>2. failed' = failed \/ failed' = [failed EXCEPT ![r] = TRUE]
      BY DEF Fails, Picking, PickStep, LoadGroups, LoadRows, LoadLists,
             PickStrategy, PickFillFirst, PickStick, SelectLeastUsed, ApplyRateLimit, ApplyBilling
    <2>3. bound' = bound \/ bound' = [q \in Requests |-> IF q = r THEN bound[q] ELSE None]
      BY DEF history, Picking, PickStep, LoadGroups, LoadRows, LoadLists,
             PickStrategy, PickStick, SelectLeastUsed, ApplyRateLimit, ApplyBilling
    <2> QED BY <2>1, <2>2, <2>3 DEF HistoryOK
  <1>3. LocalsOK' /\ PlacesOK'
    <2>0. member \subseteq UserGroups
      BY DEF TablesOK
    <2>1. CASE LoadGroups(r)
      <3>1. CASE Refuse(r)
        BY <2>1, <3>1, RefuseType DEF LoadGroups
      <3>2. ASSUME NEW g \in UserGroups \cup {None}, Goto(r, "rows"), mine' = [mine EXCEPT ![r] = member],
                   chosen' \in {chosen, [chosen EXCEPT ![r] = g]}, UNCHANGED <<avail, rows, may, sel, bill>>
            PROVE  LocalsOK' /\ PlacesOK'
        BY <2>0, <2>1, <3>2 DEF LoadGroups, Goto, LocalsOK, PlacesOK, Places
      <3> QED BY <2>0, <2>1, <3>1, <3>2 DEF LoadGroups
    <2>2. CASE LoadRows(r)
      <3>1. CASE Refuse(r)
        BY <2>2, <3>1, RefuseType DEF LoadRows
      <3>2. CASE ~Refuse(r)
        <4> DEFINE loaded == [a \in Auths |-> IF a \in avail[r] /\ group[a] \in AuthGroups
                                             THEN group[a] ELSE NoGroup]
        <4>1. loaded \in [Auths -> RowGroups]
          BY DEF TablesOK
        <4>2. /\ Goto(r, "allow") /\ UNCHANGED <<avail, mine, chosen, may, sel, bill, binding, cursor>>
              /\ rows' = [rows EXCEPT ![r] = loaded]
          BY <2>2, <3>2 DEF LoadRows
        <4> HIDE DEF loaded
        <4> QED BY <4>1, <4>2 DEF Goto, LocalsOK, PlacesOK, Places
      <3> QED BY <3>1, <3>2
    <2>3. CASE LoadLists(r)
      <3>1. CASE Refuse(r)
        BY <2>3, <3>1, RefuseType DEF LoadLists
      <3>2. CASE ~Refuse(r)
        <4> DEFINE lists == [a \in Auths |-> ListOf(rows[r][a])]
                   kept == {a \in avail[r] : Allowed(lists[a], mine[r])}
        <4>1. lists \in [Auths -> SUBSET UserGroups]
          BY ListIsList
        <4>2. [a \in Auths |-> NoGroup] \in [Auths -> RowGroups]
          OBVIOUS
        <4>3. kept \subseteq Auths
          BY DEF LocalsOK
        <4>4. /\ Goto(r, "strategy") /\ UNCHANGED <<mine, chosen, sel, bill, binding, cursor>>
              /\ avail' = [avail EXCEPT ![r] = kept]
              /\ may' = [may EXCEPT ![r] = lists]
              /\ rows' = [rows EXCEPT ![r] = [a \in Auths |-> NoGroup]]
          BY <2>3, <3>2 DEF LoadLists
        <4> HIDE DEF lists, kept
        <4> QED BY <4>1, <4>2, <4>3, <4>4 DEF Goto, LocalsOK, PlacesOK, Places
      <3> QED BY <3>1, <3>2
    <2>4. CASE PickStrategy(r)
      <3>1. CASE PickRoundRobin(r)
        BY <2>4, <3>1, RoundRobinType DEF PickStrategy
      <3>2. CASE PickFillFirst(r)
        <4>1. PICK a \in avail[r] : Select(r, a)
          BY <3>2 DEF PickFillFirst, Oldest, Nth
        <4> QED BY <2>4, <3>2, <4>1, SelectType DEF PickStrategy, PickFillFirst, Select, LocalsOK, local
      <3>3. CASE Goto(r, "stick") /\ UNCHANGED <<cursor, avail, local, sel, bill, failed>>
        BY <2>4, <3>3 DEF PickStrategy, Goto, LocalsOK, local, PlacesOK, Places
      <3> QED BY <2>4, <3>1, <3>2, <3>3 DEF PickStrategy
    <2>5. CASE PickStick(r)
      <3>1. CASE PickRoundRobin(r)
        BY <2>5, <3>1, RoundRobinType DEF PickStick
      <3>2. CASE MayStick(r) /\ Select(r, binding) /\ UNCHANGED cursor
        BY <2>5, <3>2, SelectType DEF PickStick, MayStick, Select, LocalsOK, local
      <3>3. CASE Goto(r, "least") /\ UNCHANGED <<cursor, avail, local, sel, bill, failed>>
        BY <2>5, <3>3 DEF PickStick, Goto, LocalsOK, local, PlacesOK, Places
      <3> QED BY <2>5, <3>1, <3>2, <3>3 DEF PickStick
    <2>6. CASE SelectLeastUsed(r)
      <3>1. CASE PickRoundRobin(r) /\ UNCHANGED binding
        BY <3>1, RoundRobinType
      <3>2. ASSUME NEW a \in avail[r], Select(r, a), binding' \in {a, binding}, UNCHANGED cursor
            PROVE  LocalsOK' /\ PlacesOK'
        <4>1. a \in Auths /\ PlacesOK'
          BY <3>2, SelectType
        <4>2. UNCHANGED <<avail, mine, chosen, rows, may, bill, cursor>>
          BY <3>2 DEF Select, local
        <4> QED BY <3>2, <4>1, <4>2 DEF LocalsOK
      <3> QED BY <2>6, <3>1, <3>2 DEF SelectLeastUsed
    <2>7. CASE ApplyRateLimit(r)
      BY <2>7, RefuseType DEF ApplyRateLimit, Goto, LocalsOK, local, PlacesOK, Places
    <2>8. CASE ApplyBilling(r)
      <3>1. PICK g \in UserGroups \cup {None} : bill' = [bill EXCEPT ![r] = g]
        BY <2>0, <2>8 DEF ApplyBilling, Billed, Unbilled, LocalsOK
      <3>2. at[r] = "bill" /\ Goto(r, "exec") /\ UNCHANGED <<binding, cursor, rows, sel>>
        BY <2>8 DEF ApplyBilling
      <3>3. /\ avail' = [avail EXCEPT ![r] = {}]
            /\ mine' = [mine EXCEPT ![r] = {}]
            /\ chosen' = [chosen EXCEPT ![r] = None]
            /\ may' = [may EXCEPT ![r] = [a \in Auths |-> {}]]
        BY <2>8 DEF ApplyBilling
      <3>4. LocalsOK'
        BY <3>1, <3>2, <3>3 DEF LocalsOK
      <3>5. PlacesOK'
        BY <3>2 DEF Goto, PlacesOK, Places
      <3> QED BY <3>4, <3>5
    <2> QED BY <2>1, <2>2, <2>3, <2>4, <2>5, <2>6, <2>7, <2>8 DEF Picking, PickStep
  <1> QED BY <1>1, <1>2, <1>3, TypePartsNext

\* What the end of an attempt does to the history of its pick.
LEMMA ForgetType == ASSUME TypeOK, NEW r \in Requests, Forget(r)
                    PROVE  /\ seen' \in [Requests -> SUBSET (UserGroups \cup {Everyone})]
                           /\ had' \in [Requests -> [Auths -> SUBSET RowValues]]
                           /\ open' \in [Requests -> [RowValues -> SUBSET (UserGroups \cup {Everyone})]]
                           /\ asked' \in [Requests -> SUBSET UserGroups]
                           /\ bound' \in [Requests -> Auths \cup {None}]
                           /\ sel' = [sel EXCEPT ![r] = None]
                           /\ TablesOK'
                           /\ UNCHANGED <<binding, cursor, avail, mine, chosen, rows, may>>
  <1>1. TablesOK'
    BY TypeParts DEF Forget, TablesOK, tables
  <1>2. UNCHANGED <<binding, cursor, avail, mine, chosen, rows, may>>
    BY DEF Forget, local
  <1> QED BY <1>1, <1>2, TypeParts DEF Forget, HistoryOK

LEMMA LeaveType == ASSUME TypeOK, NEW r \in Requests, NEW next \in {"done", "wait"}, Leave(r, next)
                   PROVE  /\ TablesOK' /\ LocalsOK' /\ HistoryOK' /\ PlacesOK'
                          /\ tried' \in [Requests -> SUBSET Auths]
                          /\ err' \in [Requests -> {"none", "failed", "invalid"}]
                          /\ hint' \in [Requests -> Nat] /\ attempt' \in [Requests -> Nat]
  <1> USE TypeParts
  <1>1. Forget(r)
    BY DEF Leave
  <1>2. LocalsOK'
    BY <1>1, ForgetType DEF Leave, LocalsOK
  <1>3. still' \in [Requests -> BOOLEAN] /\ failed' \in [Requests -> BOOLEAN]
    BY DEF Leave, HistoryOK
  <1>4. PlacesOK'
    <2>1. at' = [at EXCEPT ![r] = next] /\ sel' = [sel EXCEPT ![r] = None]
      BY <1>1, ForgetType DEF Leave, Goto
    <2> QED BY <2>1 DEF PlacesOK, Places
  <1>5. /\ tried' \in [Requests -> SUBSET Auths]
        /\ err' \in [Requests -> {"none", "failed", "invalid"}]
        /\ hint' \in [Requests -> Nat] /\ attempt' \in [Requests -> Nat]
    BY DEF Leave, PoolsOK
  <1> QED BY <1>1, <1>2, <1>3, <1>4, <1>5, ForgetType DEF HistoryOK

LEMMA MarkType == ASSUME TypeOK, NEW a \in Auths, NEW outcome, NEW wait \in Nat, MarkResult(a, outcome, wait)
                  PROVE  left' \in [Auths -> Nat] /\ recover' \in [Auths -> Nat] /\ factor' \in [Auths -> Nat]
  <1> USE TypeParts DEF PoolsOK
  <1>1. PICK cooling \in BOOLEAN :
          \/ left' = [left EXCEPT ![a] = 0] /\ recover' = [recover EXCEPT ![a] = 0]
             /\ factor' = [factor EXCEPT ![a] = 1]
          \/ MarkQuota(a, wait, cooling)
          \/ left' = [left EXCEPT ![a] = CooldownOf(outcome, cooling)] /\ UNCHANGED <<recover, factor>>
          \/ UNCHANGED <<left, recover, factor>>
    BY DEF MarkResult
  <1>2. CASE MarkQuota(a, wait, cooling)
    <2> DEFINE next == IF ~cooling THEN 0 ELSE IF wait > 0 THEN wait ELSE Cooldown(factor[a])
               up == NextFactor(factor[a])
    <2>1. next \in Nat
      BY DEF Cooldown, Smaller
    <2>2. up \in Nat
      BY DEF NextFactor
    <2>3. /\ left' = [left EXCEPT ![a] = next] /\ recover' = [recover EXCEPT ![a] = next]
          /\ factor' = [factor EXCEPT ![a] = up] \/ factor' = factor
      BY <1>2 DEF MarkQuota
    <2> HIDE DEF next, up
    <2> QED BY <2>1, <2>2, <2>3
  <1>3. CooldownOf(outcome, cooling) \in Nat
    BY DEF CooldownOf
  <1> HIDE DEF CooldownOf
  <1> QED BY <1>1, <1>2, <1>3

LEMMA StillReadyType == ASSUME TypeOK, NEW r \in Requests, NEW a, StillReady(r, a)
                        PROVE  ready' \in [Requests -> SUBSET Auths]
  BY TypeParts DEF StillReady, PoolsOK

LEMMA SucceedType == ASSUME TypeOK, NEW r \in Requests, Succeed(r) PROVE TypeOK'
  <1> USE TypeParts
  <1>1. sel[r] \in Auths
    BY DEF Succeed, PlacesOK
  <1>2. left' \in [Auths -> Nat] /\ recover' \in [Auths -> Nat] /\ factor' \in [Auths -> Nat]
    BY <1>1, MarkType DEF Succeed
  <1>3. ready' \in [Requests -> SUBSET Auths]
    BY StillReadyType DEF Succeed
  <1>4. Leave(r, "done") /\ UNCHANGED <<enabled, timer>>
    BY DEF Succeed
  <1> QED BY <1>2, <1>3, <1>4, LeaveType, TypePartsNext DEF PoolsOK

LEMMA FailType == ASSUME TypeOK, NEW r \in Requests, NEW outcome \in Failures, NEW wait \in RetryAfters,
                         FailAttempt(r, outcome, wait)
                  PROVE  TypeOK'
  <1> USE TypeParts
  <1>1. sel[r] \in Auths
    BY DEF FailAttempt, PlacesOK
  <1>2. left' \in [Auths -> Nat] /\ recover' \in [Auths -> Nat] /\ factor' \in [Auths -> Nat]
    BY <1>1, MarkType DEF FailAttempt
  <1>3. ready' \in [Requests -> SUBSET Auths]
    BY StillReadyType DEF FailAttempt
  <1>4. Forget(r)
    BY DEF FailAttempt
  <1>5. PoolsOK'
    <2>1. Used(r) \subseteq Auths
      BY <1>1 DEF Used, PoolsOK
    <2>2. tried' = [tried EXCEPT ![r] = Used(r)] /\ hint' = [hint EXCEPT ![r] = wait]
          /\ UNCHANGED <<enabled, attempt, timer>>
      BY DEF FailAttempt
    <2>3. err' \in [Requests -> {"none", "failed", "invalid"}]
      BY DEF FailAttempt, PoolsOK
    <2> QED BY <1>2, <1>3, <2>1, <2>2, <2>3 DEF PoolsOK
  <1>6. PlacesOK'
    <2>1. at' = [at EXCEPT ![r] = AfterFailure(outcome)] /\ sel' = [sel EXCEPT ![r] = None]
      BY <1>4, ForgetType DEF FailAttempt, Goto
    <2>2. AfterFailure(outcome) \in {"next", "over"}
      BY DEF AfterFailure
    <2> QED BY <2>1, <2>2 DEF PlacesOK, Places
  <1>7. LocalsOK' /\ HistoryOK' /\ TablesOK'
    <2>1. UNCHANGED <<bill, still, failed>>
      BY DEF FailAttempt
    <2> QED BY <1>4, <2>1, ForgetType DEF LocalsOK, HistoryOK
  <1> QED BY <1>5, <1>6, <1>7, TypePartsNext

LEMMA CancelType == ASSUME TypeOK, NEW r \in Requests, Cancel(r) PROVE TypeOK'
  <1>1. /\ Leave(r, "done") /\ timer' = [timer EXCEPT ![r] = 0]
        /\ ready' = [ready EXCEPT ![r] = {}] /\ UNCHANGED <<enabled, left, recover, factor>>
    BY DEF Cancel, pools
  <1> QED BY <1>1, LeaveType, TypeParts, TypePartsNext DEF PoolsOK

LEMMA RetryType == ASSUME TypeOK, NEW r \in Requests, RetryAfterError(r) PROVE TypeOK'
  <1>1. Leave(r, "done") \/ Leave(r, "wait")
    BY DEF RetryAfterError
  <1>2. \A w \in Waits(r) : w \in Nat
    <2>1. \A a \in Blocked : WaitOf(a) \in Nat
      BY TypeParts DEF WaitOf, Blocked, PoolsOK
    <2> HIDE DEF WaitOf, Blocked
    <2> QED BY <2>1 DEF Waits
  <1>3. timer' \in [Requests -> Nat]
    <2>1. timer' = timer \/ \E w \in Waits(r) : timer' = [timer EXCEPT ![r] = w]
      BY DEF RetryAfterError
    <2> QED BY <1>2, <2>1, TypeParts DEF PoolsOK
  <1>4. ready' = [ready EXCEPT ![r] = {}] /\ UNCHANGED <<enabled, left, recover, factor>>
    BY DEF RetryAfterError, pools
  <1>5. PoolsOK'
    <2>1. /\ tried' \in [Requests -> SUBSET Auths]
          /\ err' \in [Requests -> {"none", "failed", "invalid"}]
          /\ hint' \in [Requests -> Nat] /\ attempt' \in [Requests -> Nat]
      BY <1>1, LeaveType
    <2> QED BY <1>3, <1>4, <2>1, TypeParts DEF PoolsOK
  <1> QED BY <1>1, <1>5, LeaveType, TypePartsNext

LEMMA UpdateType == ASSUME TypeOK, NEW a \in Auths, NEW on \in BOOLEAN, ApplyUpdate(a, on) PROVE TypeOK'
  <1> USE TypeParts
  <1>1. TablesOK'
    BY DEF ApplyUpdate, TablesOK, tables
  <1>2. LocalsOK'
    BY DEF ApplyUpdate, LocalsOK, local
  <1>3. HistoryOK'
    BY DEF ApplyUpdate, HistoryOK, history
  <1>4. PoolsOK'
    BY DEF ApplyUpdate, PoolsOK, rounds
  <1>5. PlacesOK'
    BY DEF ApplyUpdate, PlacesOK
  <1> QED BY <1>1, <1>2, <1>3, <1>4, <1>5, TypePartsNext

LEMMA TickType == ASSUME TypeOK, Tick PROVE TypeOK'
  <1> USE TypeParts DEF Tick, picks
  <1>1. TablesOK'
    BY DEF TablesOK, tables
  <1>2. LocalsOK'
    BY DEF LocalsOK, local
  <1>3. HistoryOK'
    BY DEF HistoryOK, history
  <1>4. PoolsOK'
    BY DEF PoolsOK, Down
  <1>5. PlacesOK'
    BY DEF PlacesOK
  <1> QED BY <1>1, <1>2, <1>3, <1>4, <1>5, TypePartsNext

LEMMA NotedType == ASSUME TypeOK, Noted, UNCHANGED <<pools, rounds, ready>>,
                          member' \in MemberSets, group' \in [Auths -> RowGroups],
                          opened' \in [AuthGroups -> Lists \cup {{}}], mapping' \in [Providers -> Mappings]
                   PROVE  TypeOK'
  <1> USE TypeParts
  <1>1. TablesOK'
    BY DEF Noted, TablesOK
  <1>2. LocalsOK'
    BY DEF Noted, LocalsOK, local
  <1>3. HistoryOK'
    <2>1. seen' \in [Requests -> SUBSET (UserGroups \cup {Everyone})]
      BY DEF Noted, HistoryOK
    <2>2. had' \in [Requests -> [Auths -> SUBSET RowValues]]
      <3>1. \A a \in Auths : group'[a] \in RowValues
        BY DEF RowValues
      <3> QED BY <3>1 DEF Noted, HistoryOK
    <2>3. open' \in [Requests -> [RowValues -> SUBSET (UserGroups \cup {Everyone})]]
      <3>1. \A g : ListOf(g)' \subseteq UserGroups
        BY DEF ListOf
      <3>2. \A g : OpenTo(ListOf(g))' \subseteq UserGroups \cup {Everyone}
        BY <3>1 DEF OpenTo
      <3>3. open' = [r \in Requests |-> [g \in RowValues |->
                 IF InPick(r) THEN open[r][g] \cup OpenTo(ListOf(g))' ELSE open[r][g]]]
        BY DEF Noted
      <3> QED BY <3>2, <3>3 DEF HistoryOK
    <2>4. asked' \in [Requests -> SUBSET UserGroups]
      <3>1. mapping'[CallProvider].groups \subseteq UserGroups
        OBVIOUS
      <3> QED BY <3>1 DEF Noted, HistoryOK
    <2>5. /\ bound' \in [Requests -> Auths \cup {None}]
          /\ still' \in [Requests -> BOOLEAN] /\ failed' \in [Requests -> BOOLEAN]
      BY DEF Noted, HistoryOK
    <2> QED BY <2>1, <2>2, <2>3, <2>4, <2>5 DEF HistoryOK
  <1>4. PoolsOK'
    BY DEF PoolsOK, pools, rounds
  <1>5. PlacesOK'
    BY DEF Noted, PlacesOK
  <1> QED BY <1>1, <1>2, <1>3, <1>4, <1>5, TypePartsNext

LEMMA EditType == ASSUME TypeOK, EditTables PROVE TypeOK'
  <1>1. Noted /\ UNCHANGED <<pools, rounds, ready>>
    BY DEF EditTables, Edit, EditUser, EditAuth, EditGroup, EditMapping
  <1>2. /\ member' \in MemberSets /\ group' \in [Auths -> RowGroups]
        /\ opened' \in [AuthGroups -> Lists \cup {{}}] /\ mapping' \in [Providers -> Mappings]
    BY TypeParts DEF TablesOK, EditTables, Edit, EditUser, EditAuth, EditGroup, EditMapping
  <1> QED BY <1>1, <1>2, NotedType

LEMMA StutterType == ASSUME TypeOK, UNCHANGED vars PROVE TypeOK'
  <1> USE TypeParts DEF vars, picks
  <1>1. TablesOK' /\ LocalsOK'
    BY DEF TablesOK, tables, LocalsOK, local
  <1>2. HistoryOK'
    BY DEF HistoryOK, history
  <1>3. PoolsOK' /\ PlacesOK'
    BY DEF PoolsOK, pools, rounds, PlacesOK
  <1> QED BY <1>1, <1>2, <1>3, TypePartsNext

\* Every variable keeps its type, and a request that executes has a credential, for
\* any requests, credentials, groups, tables and bounds.
THEOREM TypeCorrect == Spec => []TypeOK
  <1>1. TypeOK /\ [Next]_vars => TypeOK'
    <2> SUFFICES ASSUME TypeOK, [Next]_vars PROVE TypeOK'
      OBVIOUS
    <2>1. ASSUME NEW r \in Requests, Execute(r) \/ WakeUp(r) PROVE TypeOK'
      BY <2>1, RoundType DEF Execute, WakeUp
    <2>2. ASSUME NEW r \in Requests, PickNext(r) \/ Picking(r) PROVE TypeOK'
      BY <2>2, PickNextType, PickingType
    <2>3. ASSUME NEW r \in Requests, Succeed(r) \/ Cancel(r) \/ RetryAfterError(r) PROVE TypeOK'
      BY <2>3, SucceedType, CancelType, RetryType
    <2>4. ASSUME NEW r \in Requests, NEW outcome \in Failures, NEW wait \in RetryAfters,
                 FailAttempt(r, outcome, wait)
          PROVE  TypeOK'
      BY <2>4, FailType
    <2>5. ASSUME NEW a \in Auths, NEW on \in BOOLEAN, ApplyUpdate(a, on) PROVE TypeOK'
      BY <2>5, UpdateType
    <2>6. CASE EditTables \/ Tick \/ UNCHANGED vars
      BY <2>6, EditType, TickType, StutterType
    <2> QED BY <2>1, <2>2, <2>3, <2>4, <2>5, <2>6 DEF Next, Step
  <1> QED BY <1>1, TypeInit, PTL DEF Spec
-----------------------------------------------------------------------------
Act(r) == Execute(r) \/ Step(r) \/ Cancel(r)

\* What no action of another request changes.
Same(q) ==
    /\ at'[q] = at[q] /\ avail'[q] = avail[q] /\ mine'[q] = mine[q] /\ chosen'[q] = chosen[q]
    /\ rows'[q] = rows[q] /\ may'[q] = may[q] /\ sel'[q] = sel[q] /\ bill'[q] = bill[q]
SameHistory(q) ==
    /\ seen'[q] = seen[q] /\ had'[q] = had[q] /\ open'[q] = open[q] /\ asked'[q] = asked[q]
    /\ still'[q] = still[q] /\ failed'[q] = failed[q]
SameRound(q) == tried'[q] = tried[q] /\ err'[q] = err[q]

LEMMA RefuseSame == ASSUME TypeOK, NEW r \in Requests, NEW q \in Requests \ {r}, Refuse(r) PROVE Same(q)
  BY TypeParts DEF Refuse, Goto, Same, LocalsOK, PlacesOK

LEMMA SelectSame == ASSUME TypeOK, NEW r \in Requests, NEW a, NEW q \in Requests \ {r}, Select(r, a) PROVE Same(q)
  BY TypeParts DEF Select, Goto, Same, LocalsOK, PlacesOK, local

LEMMA RoundRobinSame == ASSUME TypeOK, NEW r \in Requests, NEW q \in Requests \ {r}, PickRoundRobin(r) PROVE Same(q)
  BY SelectSame DEF PickRoundRobin

LEMMA ForgetSame == ASSUME TypeOK, NEW r \in Requests, NEW q \in Requests \ {r}, NEW next,
                           Forget(r), Goto(r, next), bill'[q] = bill[q], still'[q] = still[q], failed'[q] = failed[q]
                    PROVE  Same(q) /\ SameHistory(q) /\ UNCHANGED tables
  BY TypeParts DEF Forget, Goto, Same, SameHistory, LocalsOK, PlacesOK, HistoryOK, local

LEMMA LeaveSame == ASSUME TypeOK, NEW r \in Requests, NEW q \in Requests \ {r}, NEW next, Leave(r, next)
                   PROVE  Same(q) /\ SameHistory(q) /\ SameRound(q) /\ UNCHANGED tables
  <1>1. bill'[q] = bill[q] /\ still'[q] = still[q] /\ failed'[q] = failed[q]
    BY TypeParts DEF Leave, LocalsOK, HistoryOK
  <1>2. SameRound(q)
    BY TypeParts DEF Leave, PoolsOK, SameRound
  <1> QED BY <1>1, <1>2, ForgetSame DEF Leave

LEMMA PickingSame == ASSUME TypeOK, NEW r \in Requests, NEW q \in Requests \ {r}, Picking(r)
                     PROVE  Same(q) /\ SameHistory(q) /\ SameRound(q) /\ UNCHANGED tables
  <1> USE TypeParts
  <1>1. SameRound(q) /\ UNCHANGED tables
    BY DEF SameRound, rounds, Picking, PickStep, LoadGroups, LoadRows, LoadLists,
           PickStrategy, PickStick, SelectLeastUsed, ApplyRateLimit, ApplyBilling
  <1>2. SameHistory(q)
    <2>1. UNCHANGED <<seen, had, open, asked, still>>
      BY DEF history, Picking, PickStep, LoadGroups, LoadRows, LoadLists,
             PickStrategy, PickStick, SelectLeastUsed, ApplyRateLimit, ApplyBilling
    <2>2. failed' = failed \/ failed' = [failed EXCEPT ![r] = TRUE]
      BY DEF Fails, Picking, PickStep, LoadGroups, LoadRows, LoadLists,
             PickStrategy, PickFillFirst, PickStick, SelectLeastUsed, ApplyRateLimit, ApplyBilling
    <2> QED BY <2>1, <2>2 DEF SameHistory, HistoryOK
  <1>3. Same(q)
    <2> USE DEF Goto, Same, LocalsOK, PlacesOK
    <2>1. CASE LoadGroups(r)
      BY <2>1, RefuseSame DEF LoadGroups
    <2>2. CASE LoadRows(r)
      BY <2>2, RefuseSame DEF LoadRows
    <2>3. CASE LoadLists(r)
      BY <2>3, RefuseSame DEF LoadLists
    <2>4. CASE PickStrategy(r)
      BY <2>4, RoundRobinSame, SelectSame DEF PickStrategy, PickFillFirst, local
    <2>5. CASE PickStick(r)
      BY <2>5, RoundRobinSame, SelectSame DEF PickStick, local
    <2>6. CASE SelectLeastUsed(r)
      BY <2>6, RoundRobinSame, SelectSame DEF SelectLeastUsed
    <2>7. CASE ApplyRateLimit(r)
      BY <2>7, RefuseSame DEF ApplyRateLimit, local
    <2>8. CASE ApplyBilling(r)
      BY <2>8 DEF ApplyBilling, Billed, Unbilled
    <2> QED BY <2>1, <2>2, <2>3, <2>4, <2>5, <2>6, <2>7, <2>8 DEF Picking, PickStep
  <1> QED BY <1>1, <1>2, <1>3

\* An action of one request leaves alone where the others are and what they hold.
LEMMA OthersStay == ASSUME TypeOK, NEW r \in Requests, NEW q \in Requests \ {r}, Act(r)
                    PROVE  Same(q) /\ SameHistory(q) /\ SameRound(q) /\ UNCHANGED tables
  <1> USE TypeParts
  <1>1. CASE Execute(r) \/ WakeUp(r)
    <2>1. Round(r)
      BY <1>1 DEF Execute, WakeUp
    <2> QED BY <2>1 DEF Round, Goto, Same, SameHistory, SameRound, LocalsOK, PlacesOK, HistoryOK, PoolsOK, local
  <1>2. CASE PickNext(r)
    <2>1. SameRound(q)
      BY <1>2 DEF PickNext, SameRound, rounds
    <2>2. CASE UNCHANGED picks /\ Goto(r, "over")
      <3>1. UNCHANGED <<tables, avail, mine, chosen, rows, may, sel, bill, seen, had, open, asked, still, failed>>
        BY <2>2 DEF picks, local, history
      <3> QED BY <2>1, <2>2, <3>1 DEF Same, SameHistory, Goto, PlacesOK
    <2>3. CASE Begin(r, Best(Candidates(r))) /\ UNCHANGED <<still, failed>>
      BY <2>1, <2>3 DEF Begin, Same, SameHistory, local, PlacesOK, LocalsOK, HistoryOK
    <2> QED BY <1>2, <2>1, <2>2, <2>3 DEF PickNext
  <1>3. CASE Picking(r)
    BY <1>3, PickingSame
  <1>4. CASE Succeed(r) \/ Cancel(r) \/ RetryAfterError(r)
    BY <1>4, LeaveSame DEF Succeed, Cancel, RetryAfterError
  <1>5. ASSUME NEW outcome \in Failures, NEW wait \in RetryAfters, FailAttempt(r, outcome, wait)
        PROVE  Same(q) /\ SameHistory(q) /\ SameRound(q) /\ UNCHANGED tables
    <2>1. SameRound(q)
      BY <1>5 DEF FailAttempt, PoolsOK, SameRound
    <2>2. UNCHANGED <<bill, still, failed>> /\ Forget(r) /\ Goto(r, AfterFailure(outcome))
      BY <1>5 DEF FailAttempt
    <2> QED BY <2>1, <2>2, ForgetSame
  <1> QED BY <1>1, <1>2, <1>3, <1>4, <1>5 DEF Act, Step

\* Updates, time and stuttering leave all picks alone.
LEMMA PicksStay == ASSUME TypeOK,
                          Tick \/ UNCHANGED vars \/ \E a \in Auths, on \in BOOLEAN : ApplyUpdate(a, on)
                   PROVE  UNCHANGED <<at, tables, binding, avail, local, sel, bill, history, failed, tried, err>>
  BY DEF Tick, vars, picks, ApplyUpdate, rounds

\* Where an action of a request other than a step of its pick leads.
LEMMA OutOfPick == ASSUME TypeOK, NEW r \in Requests,
                          \/ Execute(r) \/ WakeUp(r) \/ Succeed(r) \/ Cancel(r) \/ RetryAfterError(r)
                          \/ \E outcome \in Failures, wait \in RetryAfters : FailAttempt(r, outcome, wait)
                   PROVE  at'[r] \in {"next", "over", "wait", "done"}
  BY TypeParts DEF Execute, WakeUp, Round, Succeed, Cancel, RetryAfterError, FailAttempt, AfterFailure,
                   Leave, Goto, PlacesOK

\* The three ways to choose a credential take a candidate or hand over to the next way.
LEMMA Choosing == ASSUME TypeOK, NEW r \in Requests, PickStrategy(r) \/ PickStick(r) \/ SelectLeastUsed(r)
                  PROVE  /\ at[r] \in {"strategy", "stick", "least"}
                         /\ \/ \E a \in avail[r] : Select(r, a)
                            \/ \E next \in {"stick", "least"} : Goto(r, next) /\ UNCHANGED <<avail, local, sel, bill>>
                         /\ UNCHANGED <<tables, seen, had, open, asked, still>>
                         /\ failed' = failed \/ failed' = [failed EXCEPT ![r] = TRUE]
  <1>1. CASE PickStrategy(r)
    BY <1>1 DEF PickStrategy, PickFillFirst, PickRoundRobin, Oldest, Nth, Fails, history
  <1>2. CASE PickStick(r)
    BY <1>2 DEF PickStick, MayStick, PickRoundRobin, Nth, Fails, history
  <1>3. CASE SelectLeastUsed(r)
    BY <1>3 DEF SelectLeastUsed, PickRoundRobin, Nth, Fails
  <1> QED BY <1>1, <1>2, <1>3

LEMMA ChosenCandidate == ASSUME TypeOK, NEW r \in Requests, NEW a \in avail[r], Select(r, a)
                         PROVE  sel'[r] = a /\ at'[r] = "limit" /\ avail' = avail /\ local' = local /\ bill' = bill
  BY TypeParts DEF Select, Goto, PlacesOK
-----------------------------------------------------------------------------
\* The candidates of a pick are ready: the list is made of ready ones and only gets
\* shorter, nothing is marked or disabled while there is a pick, and time helps.
LEMMA CandidatesShrink == ASSUME TypeOK, NEW r \in Requests, Picking(r)
                          PROVE  InPick(r) /\ avail'[r] \subseteq avail[r]
  <1> USE TypeParts DEF LocalsOK
  <1>1. CASE LoadGroups(r) \/ LoadRows(r) \/ ApplyRateLimit(r) \/ ApplyBilling(r)
    BY <1>1 DEF LoadGroups, LoadRows, ApplyRateLimit, ApplyBilling, Refuse, InPick
  <1>2. CASE LoadLists(r)
    <2>1. InPick(r)
      BY <1>2 DEF LoadLists, InPick
    <2>2. \/ avail' = [avail EXCEPT ![r] = {}]
          \/ \E kept \in SUBSET avail[r] : avail' = [avail EXCEPT ![r] = kept]
      BY <1>2 DEF LoadLists, Refuse
    <2> QED BY <2>1, <2>2
  <1>3. CASE PickStrategy(r) \/ PickStick(r) \/ SelectLeastUsed(r)
    BY <1>3, Choosing, ChosenCandidate DEF InPick
  <1> QED BY <1>1, <1>2, <1>3 DEF Picking, PickStep

LEMMA ReadyStays == ASSUME UNCHANGED pools PROVE Ready' = Ready
  BY DEF pools, Ready

LEMMA PickedStep == ASSUME TypeOK, PickedAreReady, [Next]_vars PROVE PickedAreReady'
  <1>1. ASSUME NEW r \in Requests, Act(r) PROVE PickedAreReady'
    <2>0. ASSUME NEW q \in Requests \ {r}, InPick(q)' PROVE InPick(q) /\ avail'[q] = avail[q]
      BY <1>1, <2>0, OthersStay DEF Same, InPick
    <2>1. CASE PickNext(r)
      <3>1. Ready' = Ready
        BY <2>1, ReadyStays DEF PickNext
      <3>2. InPick(r)' => avail'[r] \subseteq Ready
        <4>1. CASE Begin(r, Best(Candidates(r)))
          BY <4>1, TypeParts DEF Begin, Best, Candidates, LocalsOK
        <4>2. CASE Goto(r, "over")
          BY <4>2, TypeParts DEF Goto, InPick, PlacesOK
        <4> QED BY <2>1, <4>1, <4>2 DEF PickNext
      <3> QED BY <2>0, <3>1, <3>2 DEF PickedAreReady
    <2>2. CASE Picking(r)
      <3>1. Ready' = Ready
        BY <2>2, ReadyStays DEF Picking
      <3> QED BY <2>0, <2>2, <3>1, CandidatesShrink DEF PickedAreReady
    <2>3. CASE Execute(r) \/ WakeUp(r) \/ Cancel(r) \/ RetryAfterError(r)
      <3>1. Ready' = Ready
        BY <2>3, ReadyStays DEF Execute, WakeUp, Round, Cancel, RetryAfterError
      <3>2. ~InPick(r)'
        BY <2>3, OutOfPick DEF InPick
      <3> QED BY <2>0, <3>1, <3>2 DEF PickedAreReady
    <2>4. CASE Succeed(r) \/ \E outcome \in Failures, wait \in RetryAfters : FailAttempt(r, outcome, wait)
      <3>1. WriteLockFree
        BY <2>4 DEF Succeed, FailAttempt
      <3>2. ~InPick(r)'
        BY <2>4, OutOfPick DEF InPick
      <3> QED BY <2>0, <3>1, <3>2 DEF PickedAreReady, WriteLockFree
    <2> QED BY <1>1, <2>1, <2>2, <2>3, <2>4 DEF Act, Step
  <1>2. ASSUME NEW a \in Auths, NEW on \in BOOLEAN, ApplyUpdate(a, on) PROVE PickedAreReady'
    BY <1>2 DEF ApplyUpdate, WriteLockFree, PickedAreReady, InPick
  <1>3. CASE EditTables
    <2>1. UNCHANGED <<at, avail>>
      BY <1>3 DEF EditTables, Edit, EditUser, EditAuth, EditGroup, EditMapping, Noted
    <2>2. Ready' = Ready
      BY <1>3, ReadyStays DEF EditTables
    <2> QED BY <2>1, <2>2 DEF PickedAreReady, InPick
  <1>4. CASE Tick
    <2>1. UNCHANGED <<at, avail, enabled>>
      BY <1>4 DEF Tick, picks
    <2>2. Ready \subseteq Ready'
      BY <1>4, <2>1, TypeParts DEF Tick, Ready, Down, PoolsOK
    <2> QED BY <2>1, <2>2 DEF PickedAreReady, InPick
  <1>5. CASE UNCHANGED vars
    BY <1>5 DEF vars, picks, pools, PickedAreReady, InPick, Ready
  <1> QED BY <1>1, <1>2, <1>3, <1>4, <1>5 DEF Next, Act

\* The candidates of a pick stay ready while its queries run, for any number of
\* requests: pickNextMixed holds the read lock during Pick.
THEOREM PickedStayReady == Spec => []PickedAreReady
  <1>1. Init => PickedAreReady
    BY DEF Init, PickedAreReady, InPick
  <1> QED BY <1>1, PickedStep, TypeCorrect, PTL DEF Spec
-----------------------------------------------------------------------------
\* Whom a credential may serve, and whom the use is billed to.  What a pick has
\* loaded held at some time of the pick.
Loaded == {"rows", "allow", "strategy", "stick", "least", "limit", "bill"}
Filtered == {"strategy", "stick", "least", "limit", "bill"}

Noticed(r) ==
    /\ member \cup {Everyone} \subseteq seen[r]
    /\ mapping[CallProvider].groups \subseteq asked[r]
    /\ \A a \in Auths : group[a] \in had[r][a]
    /\ \A g \in RowValues : OpenTo(ListOf(g)) \subseteq open[r][g]
UserWas(r) == mine[r] \subseteq seen[r] /\ (chosen[r] # None => chosen[r] \in seen[r] \cap asked[r])
RowWas(r, a) == IF rows[r][a] \in AuthGroups THEN rows[r][a] \in had[r][a]
                ELSE \E g \in had[r][a] : Everyone \in open[r][g]
ListWas(r, a) == /\ Allowed(may[r][a], mine[r])
                 /\ \E g \in had[r][a] : OpenTo(may[r][a]) \subseteq open[r][g]
Serves(r) == \E g \in had[r][sel[r]] : open[r][g] \cap seen[r] # {}
Bills(r) == bill[r] # None =>
    /\ bill[r] \in seen[r]
    /\ bill[r] \in asked[r] \/ \E g \in had[r][sel[r]] : bill[r] \in open[r][g]

Entitled(r) ==
    /\ InPick(r) => Noticed(r)
    /\ IF at[r] \in Loaded THEN UserWas(r) ELSE chosen[r] = None
    /\ at[r] = "allow" => \A a \in avail[r] : RowWas(r, a)
    /\ at[r] \in Filtered => \A a \in avail[r] : ListWas(r, a)
    /\ at[r] \in {"limit", "bill"} => sel[r] \in avail[r]
    /\ at[r] = "exec" => Serves(r) /\ Bills(r)

LEMMA NoticedStays == ASSUME NEW r, Noticed(r), UNCHANGED <<tables, seen, had, open, asked>> PROVE Noticed(r)'
  BY DEF Noticed, tables, ListOf, OpenTo

LEMMA EntitledFrame == ASSUME NEW q \in Requests, Entitled(q), Same(q), SameHistory(q), UNCHANGED tables
                       PROVE  Entitled(q)'
  <1>1. Noticed(q) => Noticed(q)'
    BY DEF Noticed, SameHistory, tables, ListOf, OpenTo
  <1>2. UserWas(q) => UserWas(q)'
    BY DEF UserWas, Same, SameHistory
  <1>3. \A a : RowWas(q, a) => RowWas(q, a)'
    BY DEF RowWas, Same, SameHistory
  <1>4. \A a : ListWas(q, a) => ListWas(q, a)'
    BY DEF ListWas, Same, SameHistory
  <1>5. Serves(q) /\ Bills(q) => (Serves(q) /\ Bills(q))'
    BY DEF Serves, Bills, Same, SameHistory
  <1>6. at'[q] = at[q] /\ avail'[q] = avail[q] /\ sel'[q] = sel[q] /\ chosen'[q] = chosen[q]
    BY DEF Same
  <1> QED BY <1>1, <1>2, <1>3, <1>4, <1>5, <1>6 DEF Entitled, InPick

LEMMA EntitledBegins == ASSUME TypeOK, NEW r \in Requests, Entitled(r), PickNext(r) PROVE Entitled(r)'
  <1> USE TypeParts
  <1>0. chosen[r] = None /\ UNCHANGED chosen
    BY DEF PickNext, Begin, picks, local, Entitled, Loaded
  <1>1. CASE Goto(r, "over")
    <2>1. at'[r] = "over"
      BY <1>1 DEF Goto, PlacesOK
    <2> QED BY <1>0, <2>1 DEF Entitled, InPick, Loaded, Filtered
  <1>2. CASE Begin(r, Best(Candidates(r)))
    <2>1. at'[r] = "user"
      BY <1>2 DEF Begin, PlacesOK
    <2>2. Noticed(r)'
      <3>1. UNCHANGED tables
        BY <1>2 DEF Begin
      <3>2. /\ seen'[r] = member \cup {Everyone} /\ asked'[r] = mapping[CallProvider].groups
            /\ had'[r] = [a \in Auths |-> {group[a]}]
            /\ open'[r] = [g \in RowValues |-> OpenTo(ListOf(g))]
        BY <1>2 DEF Begin, HistoryOK
      <3> QED BY <3>1, <3>2 DEF Noticed, tables, ListOf, OpenTo
    <2> QED BY <1>0, <2>1, <2>2 DEF Entitled, Loaded, Filtered
  <1> QED BY <1>1, <1>2 DEF PickNext

LEMMA EntitledRows == ASSUME TypeOK, NEW r \in Requests, Entitled(r), LoadGroups(r) \/ LoadRows(r)
                      PROVE  Entitled(r)'
  <1> USE TypeParts
  <1>0. UNCHANGED <<tables, seen, had, open, asked>> /\ Noticed(r)
    BY DEF LoadGroups, LoadRows, history, Entitled, InPick
  <1>1. Noticed(r)'
    BY <1>0, NoticedStays
  <1>2. CASE Refuse(r)
    <2>1. at'[r] = "over" /\ chosen'[r] = None
      BY <1>2 DEF Refuse, Goto, PlacesOK, LocalsOK
    <2> QED BY <2>1 DEF Entitled, InPick, Loaded, Filtered
  <1>3. CASE LoadGroups(r) /\ ~Refuse(r)
    <2>1. at'[r] = "rows" /\ mine'[r] = member
      BY <1>3 DEF LoadGroups, Goto, PlacesOK, LocalsOK
    <2>2. chosen[r] = None
      BY <1>3 DEF LoadGroups, Entitled, Loaded
    <2>4. chosen'[r] = None \/ chosen'[r] \in member \cap mapping[CallProvider].groups
      BY <1>3, <2>2 DEF LoadGroups, LocalsOK
    <2>3. UserWas(r)'
      BY <1>0, <2>1, <2>4 DEF UserWas, Noticed
    <2> QED BY <1>1, <2>1, <2>3 DEF Entitled, Loaded, Filtered
  <1>4. CASE LoadRows(r) /\ ~Refuse(r)
    <2>1. at[r] = "rows" /\ at'[r] = "allow" /\ UNCHANGED <<avail, mine, chosen>>
      BY <1>4 DEF LoadRows, Goto, PlacesOK
    <2>2. rows'[r] = [a \in Auths |-> IF a \in avail[r] /\ group[a] \in AuthGroups THEN group[a] ELSE NoGroup]
      BY <1>4 DEF LoadRows, LocalsOK
    <2>3. UserWas(r)'
      BY <1>0, <2>1 DEF UserWas, Entitled, Loaded
    <2>4. ASSUME NEW a \in avail'[r] PROVE RowWas(r, a)'
      <3>1. a \in Auths /\ a \in avail[r] /\ group[a] \in had[r][a] /\ group[a] \in RowValues
        BY <2>1, <1>0 DEF Noticed, LocalsOK, TablesOK, RowValues
      <3>2. CASE group[a] \in AuthGroups
        BY <1>0, <2>2, <3>1, <3>2 DEF RowWas
      <3>3. CASE group[a] \notin AuthGroups
        <4>1. Everyone \in open[r][group[a]]
          BY <1>0, <3>1, <3>3 DEF Noticed, ListOf, OpenTo
        <4> QED BY <1>0, <2>2, <3>1, <3>3, <4>1 DEF RowWas
      <3> QED BY <3>2, <3>3
    <2> QED BY <1>1, <2>1, <2>3, <2>4 DEF Entitled, Loaded, Filtered
  <1> QED BY <1>2, <1>3, <1>4

LEMMA EntitledLists == ASSUME TypeOK, NEW r \in Requests, Entitled(r), LoadLists(r) PROVE Entitled(r)'
  <1> USE TypeParts
  <1>0. UNCHANGED <<tables, seen, had, open, asked>> /\ Noticed(r) /\ at[r] = "allow"
    BY DEF LoadLists, history, Entitled, InPick
  <1>1. Noticed(r)'
    BY <1>0, NoticedStays
  <1>2. CASE Refuse(r)
    <2>1. at'[r] = "over" /\ chosen'[r] = None
      BY <1>2 DEF Refuse, Goto, PlacesOK, LocalsOK
    <2> QED BY <2>1 DEF Entitled, InPick, Loaded, Filtered
  <1>3. CASE ~Refuse(r)
    <2> DEFINE lists == [a \in Auths |-> ListOf(rows[r][a])]
    <2>1. /\ at'[r] = "strategy" /\ UNCHANGED <<mine, chosen>> /\ may'[r] = lists
          /\ avail'[r] = {a \in avail[r] : Allowed(lists[a], mine[r])}
      BY <1>3 DEF LoadLists, Goto, PlacesOK, LocalsOK
    <2>2. UserWas(r)'
      BY <1>0, <2>1 DEF UserWas, Entitled, Loaded
    <2>3. ASSUME NEW a \in avail'[r] PROVE ListWas(r, a)'
      <3>1. a \in Auths /\ a \in avail[r] /\ Allowed(may'[r][a], mine'[r])
            /\ may'[r][a] = ListOf(rows[r][a]) /\ RowWas(r, a)
        BY <1>0, <2>1 DEF LocalsOK, Entitled
      <3>2. \E g \in had[r][a] : OpenTo(ListOf(rows[r][a])) \subseteq open[r][g]
        <4>1. CASE rows[r][a] \in AuthGroups
          BY <1>0, <3>1, <4>1 DEF RowWas, Noticed, RowValues
        <4>2. CASE rows[r][a] \notin AuthGroups
          BY <3>1, <4>2 DEF RowWas, ListOf, OpenTo
        <4> QED BY <4>1, <4>2
      <3> QED BY <1>0, <3>1, <3>2 DEF ListWas, OpenTo
    <2> QED BY <1>1, <2>1, <2>2, <2>3 DEF Entitled, Loaded, Filtered
  <1> QED BY <1>2, <1>3

LEMMA EntitledChoice == ASSUME TypeOK, NEW r \in Requests, Entitled(r),
                               PickStrategy(r) \/ PickStick(r) \/ SelectLeastUsed(r) \/ ApplyRateLimit(r)
                        PROVE  Entitled(r)'
  <1> USE TypeParts
  <1>1. CASE Refuse(r)
    <2>1. at'[r] = "over" /\ chosen'[r] = None
      BY <1>1 DEF Refuse, Goto, PlacesOK, LocalsOK
    <2> QED BY <2>1 DEF Entitled, InPick, Loaded, Filtered
  <1>2. CASE ~Refuse(r)
    <2>1. /\ at[r] \in {"strategy", "stick", "least", "limit"}
          /\ at'[r] \in {"stick", "least", "limit", "bill"}
          /\ UNCHANGED <<tables, avail, mine, chosen, may, seen, had, open, asked>>
          /\ at'[r] \in {"limit", "bill"} => sel'[r] \in avail[r]
      <3>1. CASE ApplyRateLimit(r)
        BY <1>2, <3>1 DEF ApplyRateLimit, Goto, PlacesOK, local, history, Entitled
      <3>2. CASE PickStrategy(r) \/ PickStick(r) \/ SelectLeastUsed(r)
        BY <3>2, Choosing, ChosenCandidate DEF Goto, PlacesOK, local
      <3> QED BY <3>1, <3>2
    <2>2. Noticed(r) /\ UserWas(r) /\ \A a \in avail[r] : ListWas(r, a)
      BY <2>1 DEF Entitled, InPick, Loaded, Filtered
    <2>3. Noticed(r)'
      BY <2>1, <2>2, NoticedStays
    <2>4. UserWas(r)' /\ (\A a \in avail[r] : ListWas(r, a))'
      BY <2>1, <2>2 DEF UserWas, ListWas
    <2> QED BY <2>1, <2>3, <2>4 DEF Entitled, Loaded, Filtered
  <1> QED BY <1>1, <1>2

LEMMA EntitledBill == ASSUME TypeOK, NEW r \in Requests, Entitled(r), ApplyBilling(r) PROVE Entitled(r)'
  <1> USE TypeParts
  <1>1. /\ at[r] = "bill" /\ at'[r] = "exec" /\ chosen'[r] = None
        /\ UNCHANGED <<tables, sel, seen, had, open, asked>>
    BY DEF ApplyBilling, Goto, PlacesOK, LocalsOK, history
  <1>2. Noticed(r) /\ UserWas(r) /\ ListWas(r, sel[r]) /\ sel[r] \in Auths
    BY <1>1 DEF Entitled, InPick, Loaded, Filtered, LocalsOK
  <1>3. PICK g \in had[r][sel[r]] : OpenTo(may[r][sel[r]]) \subseteq open[r][g]
    BY <1>2 DEF ListWas
  <1>4. Serves(r)'
    <2>1. open[r][g] \cap seen[r] # {}
      BY <1>2, <1>3 DEF ListWas, Allowed, OpenTo, Noticed, UserWas
    <2> QED BY <1>1, <2>1, <1>3 DEF Serves
  <1>5. Bills(r)'
    <2>1. \/ bill'[r] = chosen[r] /\ chosen[r] # None
          \/ bill'[r] = None
          \/ bill'[r] \in may[r][sel[r]] \cap member
      BY DEF ApplyBilling, Billed, Unbilled, LocalsOK
    <2> QED BY <1>1, <1>2, <1>3, <2>1 DEF Bills, UserWas, Noticed, OpenTo
  <1> QED BY <1>1, <1>4, <1>5 DEF Entitled, InPick, Loaded, Filtered

\* An edit is noticed by every pick that is under way.
LEMMA EntitledEdit == ASSUME TypeOK, NEW r \in Requests, Entitled(r), EditTables PROVE Entitled(r)'
  <1>1. Noted
    BY DEF EditTables, Edit, EditUser, EditAuth, EditGroup, EditMapping
  <1>2. UNCHANGED <<at, avail, mine, chosen, rows, may, sel, bill>>
    BY <1>1 DEF Noted, local
  <1>3. CASE InPick(r)
    <2>1. /\ seen'[r] = seen[r] \cup member'
          /\ had'[r] = [a \in Auths |-> had[r][a] \cup {group'[a]}]
          /\ open'[r] = [g \in RowValues |-> open[r][g] \cup OpenTo(ListOf(g))']
          /\ asked'[r] = asked[r] \cup mapping'[CallProvider].groups
      BY <1>1, <1>3 DEF Noted
    <2>2. Noticed(r)'
      BY <1>3, <2>1 DEF Entitled, Noticed
    <2>3. UserWas(r) => UserWas(r)'
      BY <1>2, <2>1 DEF UserWas
    <2>4. \A a \in Auths : \A g \in had[r][a] : g \in had'[r][a] /\ open[r][g] \subseteq open'[r][g]
      <3> SUFFICES ASSUME NEW a \in Auths, NEW g \in had[r][a]
                   PROVE  g \in had'[r][a] /\ open[r][g] \subseteq open'[r][g]
        OBVIOUS
      <3>1. g \in RowValues
        BY TypeParts DEF HistoryOK
      <3> QED BY <2>1, <3>1
    <2>5. \A a \in avail[r] : (RowWas(r, a) => RowWas(r, a)') /\ (ListWas(r, a) => ListWas(r, a)')
      BY <1>2, <2>4, TypeParts DEF RowWas, ListWas, LocalsOK
    <2>6. at[r] # "exec"
      BY <1>3 DEF InPick
    <2> QED BY <1>2, <1>3, <2>2, <2>3, <2>5, <2>6 DEF Entitled, InPick
  <1>4. CASE ~InPick(r)
    <2>1. UNCHANGED <<seen[r], had[r], open[r], asked[r]>>
      BY <1>1, <1>4, TypeParts DEF Noted, HistoryOK
    <2>2. Serves(r) /\ Bills(r) => (Serves(r) /\ Bills(r))'
      BY <1>2, <2>1 DEF Serves, Bills
    <2> QED BY <1>2, <1>4, <2>2 DEF Entitled, InPick, Loaded, Filtered
  <1> QED BY <1>3, <1>4

LEMMA EntitledAct == ASSUME TypeOK, NEW r \in Requests, Entitled(r), Act(r) PROVE Entitled(r)'
  <1>1. CASE PickNext(r)
    BY <1>1, EntitledBegins
  <1>2. CASE Picking(r)
    BY <1>2, EntitledRows, EntitledLists, EntitledChoice, EntitledBill DEF Picking, PickStep
  <1>3. CASE \/ Execute(r) \/ WakeUp(r) \/ Succeed(r) \/ Cancel(r) \/ RetryAfterError(r)
             \/ \E outcome \in Failures, wait \in RetryAfters : FailAttempt(r, outcome, wait)
    <2>1. at'[r] \in {"next", "over", "wait", "done"}
      BY <1>3, OutOfPick
    <2>2. chosen[r] = None /\ UNCHANGED chosen
      BY <1>3 DEF Entitled, Loaded, Execute, WakeUp, Round, Succeed, Cancel, RetryAfterError, FailAttempt,
                  Leave, Forget, local
    <2> QED BY <2>1, <2>2 DEF Entitled, InPick, Loaded, Filtered
  <1> QED BY <1>1, <1>2, <1>3 DEF Act, Step

LEMMA EntitledStep == ASSUME TypeOK, \A r \in Requests : Entitled(r), [Next]_vars
                      PROVE  \A r \in Requests : Entitled(r)'
  <1> SUFFICES ASSUME NEW q \in Requests PROVE Entitled(q)'
    OBVIOUS
  <1>1. ASSUME NEW r \in Requests, Act(r) PROVE Entitled(q)'
    BY <1>1, OthersStay, EntitledFrame, EntitledAct
  <1>2. CASE EditTables
    BY <1>2, EntitledEdit
  <1>3. CASE Tick \/ UNCHANGED vars \/ \E a \in Auths, on \in BOOLEAN : ApplyUpdate(a, on)
    <2>1. Same(q) /\ SameHistory(q) /\ UNCHANGED tables
      BY <1>3, PicksStay DEF Same, SameHistory, local, history
    <2> QED BY <2>1, EntitledFrame
  <1> QED BY <1>1, <1>2, <1>3 DEF Next, Act

EntitledInv == \A r \in Requests : Entitled(r)

LEMMA EntitledAlways == Spec => []EntitledInv
  <1>1. Init => EntitledInv
    BY DEF Init, SelectorInit, EntitledInv, Entitled, InPick, Loaded, Filtered
  <1>2. TypeOK /\ EntitledInv /\ [Next]_vars => EntitledInv'
    BY EntitledStep DEF EntitledInv
  <1> QED BY <1>1, <1>2, TypeCorrect, PTL DEF Spec

\* A credential serves a request only if its row named, at some time of the pick, an
\* auth group that was open, at some time of it, to a group the user then had (or to
\* everyone): whatever administrators edit between the queries of filterAllowedAuths.
THEOREM EntitlementRespected == Spec => []ServesEntitled
  <1>1. EntitledInv => ServesEntitled
    BY DEF EntitledInv, Entitled, Serves, ServesEntitled
  <1> QED BY <1>1, EntitledAlways, PTL

\* What applyBillingUserGroupMetadata leaves in the metadata is nothing, or a group
\* the user had during this pick that the mapping or the credential's group named.
THEOREM BillingIsGrounded == Spec => []BilledGroupIsGrounded
  <1>1. EntitledInv => BilledGroupIsGrounded
    BY DEF EntitledInv, Entitled, Bills, BilledGroupIsGrounded
  <1> QED BY <1>1, EntitledAlways, PTL
-----------------------------------------------------------------------------
\* The binding of a user who sticks to a credential.  A pick knows it until another
\* pick of the user writes one.
Quiet(r) == still[r] /\ ~failed[r]
Looking == {"user", "rows", "allow", "strategy", "stick", "least"}

Sticks(r) ==
    /\ at[r] \in Looking => bound[r] \in {None, binding}
    /\ at[r] = "least" => bound[r] \notin avail[r]
    /\ at[r] = "limit" /\ Quiet(r) /\ mapping[CallProvider].strategy = "stick" /\ bound[r] \in avail[r]
         => sel[r] = bound[r]

LEMMA BindingKept == ASSUME TypeOK, NEW r \in Requests, NEW q \in Requests \ {r}, Act(r)
                     PROVE  UNCHANGED <<binding, bound[q]>> \/ bound'[q] = None
  <1> USE TypeParts DEF HistoryOK
  <1>1. CASE Picking(r)
    BY <1>1 DEF history, Picking, PickStep, LoadGroups, LoadRows, LoadLists,
           PickStrategy, PickStick, SelectLeastUsed, ApplyRateLimit, ApplyBilling
  <1>2. CASE PickNext(r)
    BY <1>2 DEF PickNext, Begin, picks, history
  <1>3. CASE \/ Execute(r) \/ WakeUp(r) \/ Succeed(r) \/ Cancel(r) \/ RetryAfterError(r)
             \/ \E outcome \in Failures, wait \in RetryAfters : FailAttempt(r, outcome, wait)
    BY <1>3 DEF Execute, WakeUp, Round, Succeed, Cancel, RetryAfterError, FailAttempt, Leave, Forget
  <1> QED BY <1>1, <1>2, <1>3 DEF Act, Step

LEMMA SticksFrame == ASSUME TypeOK, NEW q \in Requests, Sticks(q), Same(q), SameHistory(q), UNCHANGED tables,
                            UNCHANGED <<binding, bound[q]>> \/ bound'[q] = None
                     PROVE  Sticks(q)'
  <1>1. None \notin avail[q]
    BY TypeParts DEF LocalsOK
  <1> QED BY <1>1 DEF Sticks, Same, SameHistory, tables, Quiet

LEMMA SticksPicking == ASSUME TypeOK, NEW r \in Requests, Sticks(r), Picking(r) PROVE Sticks(r)'
  <1> USE TypeParts
  <1>1. CASE LoadGroups(r) \/ LoadRows(r) \/ LoadLists(r)
    <2>1. at[r] \in Looking /\ UNCHANGED <<binding, bound>>
      BY <1>1 DEF LoadGroups, LoadRows, LoadLists, history, Looking
    <2>2. at'[r] \in {"rows", "allow", "strategy", "over"}
      BY <1>1 DEF LoadGroups, LoadRows, LoadLists, Refuse, Goto, PlacesOK
    <2> QED BY <2>1, <2>2 DEF Sticks, Looking
  <1>2. CASE ApplyRateLimit(r) \/ ApplyBilling(r)
    <2>1. at'[r] \in {"bill", "over", "exec"}
      BY <1>2 DEF ApplyRateLimit, ApplyBilling, Refuse, Goto, PlacesOK
    <2> QED BY <2>1 DEF Sticks, Looking
  <1>3. CASE PickStrategy(r) /\ mapping[CallProvider].strategy = "stick"
    <2>1. at[r] \in Looking /\ at'[r] = "stick" /\ UNCHANGED <<binding, bound>>
      BY <1>3 DEF PickStrategy, Goto, PlacesOK, history, Looking
    <2> QED BY <2>1 DEF Sticks, Looking
  <1>4. CASE PickStrategy(r) /\ mapping[CallProvider].strategy # "stick"
    <2>1. PICK a \in avail[r] : Select(r, a)
      BY <1>4 DEF PickStrategy, PickFillFirst, PickRoundRobin, Oldest, Nth
    <2>2. at'[r] = "limit" /\ mapping' = mapping
      BY <1>4, <2>1, ChosenCandidate DEF PickStrategy, tables
    <2> QED BY <1>4, <2>2 DEF Sticks, Looking
  <1>5. CASE PickStick(r)
    <2>1. at[r] \in Looking /\ UNCHANGED <<binding, bound>>
      BY <1>5 DEF PickStick, history, Looking
    <2>2. CASE MayStick(r) /\ Select(r, binding)
      <3>1. at'[r] = "limit" /\ sel'[r] = binding
        BY <2>2, ChosenCandidate DEF MayStick
      <3>2. bound[r] \in {None, binding} /\ None \notin avail'[r]
        BY <2>1, <2>2, ChosenCandidate DEF Sticks, MayStick, LocalsOK
      <3> QED BY <2>1, <3>1, <3>2 DEF Sticks, Looking
    <2>3. CASE ~MayStick(r) /\ Goto(r, "least") /\ UNCHANGED avail
      <3>1. at'[r] = "least" /\ bound[r] \in {None, binding} /\ bound[r] \notin avail[r]
        BY <2>1, <2>3 DEF Sticks, MayStick, Goto, PlacesOK, LocalsOK
      <3> QED BY <2>1, <2>3, <3>1 DEF Sticks, Looking
    <2>4. CASE PickRoundRobin(r) /\ Fails(r)
      <3>1. PICK a \in avail[r] : Select(r, a)
        BY <2>4 DEF PickRoundRobin, Nth
      <3>2. at'[r] = "limit" /\ failed'[r]
        BY <2>4, <3>1, ChosenCandidate DEF Fails, HistoryOK
      <3> QED BY <3>2 DEF Sticks, Looking, Quiet
    <2> QED BY <1>5, <2>2, <2>3, <2>4 DEF PickStick
  <1>6. CASE SelectLeastUsed(r)
    <2>1. PICK a \in avail[r] : Select(r, a)
      BY <1>6 DEF SelectLeastUsed, PickRoundRobin, Nth
    <2>2. at'[r] = "limit" /\ avail' = avail
      BY <2>1, ChosenCandidate
    <2>3. bound'[r] = bound[r] /\ at[r] = "least"
      BY <1>6 DEF SelectLeastUsed, HistoryOK
    <2> QED BY <2>2, <2>3 DEF Sticks, Looking
  <1> QED BY <1>1, <1>2, <1>3, <1>4, <1>5, <1>6 DEF Picking, PickStep

LEMMA SticksAct == ASSUME TypeOK, NEW r \in Requests, Sticks(r), Act(r) PROVE Sticks(r)'
  <1>1. CASE PickNext(r)
    <2>1. CASE Begin(r, Best(Candidates(r)))
      <3>1. at'[r] = "user" /\ bound'[r] = binding /\ binding' = binding
        BY <2>1, TypeParts DEF Begin, PlacesOK, HistoryOK
      <3> QED BY <3>1 DEF Sticks
    <2>2. CASE Goto(r, "over")
      <3>1. at'[r] = "over"
        BY <2>2, TypeParts DEF Goto, PlacesOK
      <3> QED BY <3>1 DEF Sticks, Looking
    <2> QED BY <1>1, <2>1, <2>2 DEF PickNext
  <1>2. CASE Picking(r)
    BY <1>2, SticksPicking
  <1>3. CASE at'[r] \in {"next", "over", "wait", "done"}
    BY <1>3 DEF Sticks, Looking
  <1> QED BY <1>1, <1>2, <1>3, OutOfPick DEF Act, Step

LEMMA SticksEdit == ASSUME TypeOK, NEW r \in Requests, Sticks(r), EditTables PROVE Sticks(r)'
  <1>1. Noted
    BY DEF EditTables, Edit, EditUser, EditAuth, EditGroup, EditMapping
  <1>2. UNCHANGED <<at, avail, sel, bound, binding>> /\ ~still'[r]
    BY <1>1 DEF Noted
  <1> QED BY <1>2 DEF Sticks, Quiet

StickInv == \A r \in Requests : Sticks(r)

\* A user who sticks to a credential that is a candidate gets it: of two requests of
\* the user that look for the least used one at once, the second write of the binding
\* counts, and a pick that began after it finds it.
THEOREM BindingRespected == Spec => []BindingIsUsed
  <1>1. Init => StickInv
    BY DEF Init, StickInv, Sticks, Looking
  <1>2. TypeOK /\ StickInv /\ [Next]_vars => StickInv'
    <2> SUFFICES ASSUME TypeOK, StickInv, [Next]_vars, NEW q \in Requests PROVE Sticks(q)'
      BY DEF StickInv
    <2>1. ASSUME NEW r \in Requests, Act(r) PROVE Sticks(q)'
      BY <2>1, OthersStay, BindingKept, SticksFrame, SticksAct DEF StickInv
    <2>2. CASE EditTables
      BY <2>2, SticksEdit DEF StickInv
    <2>3. CASE Tick \/ UNCHANGED vars \/ \E a \in Auths, on \in BOOLEAN : ApplyUpdate(a, on)
      <3>1. Same(q) /\ SameHistory(q) /\ UNCHANGED <<tables, binding, bound[q]>>
        BY <2>3, PicksStay DEF Same, SameHistory, local, history
      <3> QED BY <3>1, SticksFrame DEF StickInv
    <2> QED BY <2>1, <2>2, <2>3 DEF Next, Act
  <1>3. StickInv => BindingIsUsed
    BY DEF StickInv, Sticks, Quiet, BindingIsUsed
  <1> QED BY <1>1, <1>2, <1>3, TypeCorrect, PTL DEF Spec
-----------------------------------------------------------------------------
\* When nothing is edited and no query fails, what a pick has loaded is what the
\* tables hold.
Exact(r) == Quiet(r) =>
    /\ at[r] \in Loaded => mine[r] = member /\ (chosen[r] = None <=> mapping[CallProvider].groups = {})
    /\ at[r] = "allow" => \A a \in avail[r] : ListOf(rows[r][a]) = ListOf(group[a])
    /\ at[r] \in Filtered => \A a \in avail[r] : may[r][a] = ListOf(group[a])
    /\ at[r] = "exec" => (bill[r] # None <=> mapping[CallProvider].groups \cup ListOf(group[sel[r]]) # {})

LEMMA ExactFrame == ASSUME NEW q \in Requests, Exact(q), Same(q), SameHistory(q), UNCHANGED tables
                    PROVE  Exact(q)'
  <1>1. Quiet(q)' <=> Quiet(q)
    BY DEF Quiet, SameHistory
  <1>2. /\ UNCHANGED <<member, group, opened, mapping>>
        /\ \A g : ListOf(g)' = ListOf(g)
    BY DEF tables, ListOf
  <1> HIDE DEF ListOf
  <1> QED BY <1>1, <1>2 DEF Exact, Same

LEMMA ExactPicking == ASSUME TypeOK, NEW r \in Requests, Entitled(r), Exact(r), Picking(r), Quiet(r)'
                      PROVE  Exact(r)'
  <1> USE TypeParts
  <1>0. Quiet(r) /\ failed'[r] = failed[r] /\ ~(Fails(r)) /\ UNCHANGED <<member, group, opened, mapping>>
    <2>1. /\ failed' = failed \/ failed' = [failed EXCEPT ![r] = TRUE]
          /\ UNCHANGED <<still, tables>>
      BY DEF Fails, history, Picking, PickStep, LoadGroups, LoadRows, LoadLists,
             PickStrategy, PickFillFirst, PickStick, SelectLeastUsed, ApplyRateLimit, ApplyBilling
    <2> QED BY <2>1 DEF Quiet, Fails, HistoryOK, tables
  <1>1. \A g : ListOf(g)' = ListOf(g)
    BY <1>0 DEF ListOf
  <1>2. CASE Refuse(r)
    <2>1. at'[r] = "over"
      BY <1>2 DEF Refuse, Goto, PlacesOK
    <2> QED BY <2>1 DEF Exact, Loaded, Filtered
  <1>3. CASE LoadGroups(r) /\ ~Refuse(r)
    <2>1. at'[r] = "rows" /\ mine'[r] = member
      BY <1>3 DEF LoadGroups, Goto, PlacesOK, LocalsOK
    <2>2. chosen[r] = None
      BY <1>3 DEF LoadGroups, Entitled, Loaded
    <2>3. \/ chosen' = chosen /\ mapping[CallProvider].groups = {}
          \/ \E g \in member \cap mapping[CallProvider].groups : chosen' = [chosen EXCEPT ![r] = g]
      BY <1>0, <1>3 DEF LoadGroups
    <2>5. \/ chosen'[r] = None /\ mapping[CallProvider].groups = {}
          \/ chosen'[r] \in member \cap mapping[CallProvider].groups
      BY <2>2, <2>3 DEF LocalsOK
    <2>4. None \notin member
      BY DEF TablesOK
    <2> QED BY <1>0, <2>1, <2>4, <2>5 DEF Exact, Loaded, Filtered
  <1>4. CASE LoadRows(r) /\ ~Refuse(r)
    <2>1. at[r] = "rows" /\ at'[r] = "allow" /\ UNCHANGED <<avail, mine, chosen>>
      BY <1>4 DEF LoadRows, Goto, PlacesOK
    <2>2. rows'[r] = [a \in Auths |-> IF a \in avail[r] /\ group[a] \in AuthGroups THEN group[a] ELSE NoGroup]
      BY <1>4 DEF LoadRows, LocalsOK
    <2>3. \A a \in avail[r] : ListOf(rows'[r][a]) = ListOf(group[a])
      BY <2>2 DEF ListOf, LocalsOK
    <2> QED BY <1>0, <1>1, <2>1, <2>3 DEF Exact, Loaded, Filtered
  <1>5. CASE LoadLists(r) /\ ~Refuse(r)
    <2>3. /\ at[r] = "allow" /\ Goto(r, "strategy") /\ UNCHANGED <<mine, chosen>>
          /\ may' = [may EXCEPT ![r] = [a \in Auths |-> ListOf(rows[r][a])]]
          /\ \E kept \in SUBSET avail[r] : avail' = [avail EXCEPT ![r] = kept]
      BY <1>5 DEF LoadLists
    <2>1. /\ at'[r] = "strategy" /\ avail'[r] \subseteq avail[r]
          /\ may'[r] = [a \in Auths |-> ListOf(rows[r][a])]
      BY <2>3 DEF Goto, PlacesOK, LocalsOK
    <2>2. \A a \in avail'[r] : may'[r][a] = ListOf(group[a])
      BY <1>0, <2>1, <2>3 DEF Exact, LocalsOK
    <2> QED BY <1>0, <1>1, <2>1, <2>2, <2>3 DEF Exact, Loaded, Filtered
  <1>6. CASE PickStrategy(r) \/ PickStick(r) \/ SelectLeastUsed(r) \/ (ApplyRateLimit(r) /\ ~Refuse(r))
    <2>1. /\ at[r] \in {"strategy", "stick", "least", "limit"}
          /\ at'[r] \in {"stick", "least", "limit", "bill"}
          /\ UNCHANGED <<avail, mine, chosen, may>>
      <3>1. CASE ApplyRateLimit(r) /\ ~Refuse(r)
        BY <3>1 DEF ApplyRateLimit, Goto, PlacesOK, local
      <3>2. CASE PickStrategy(r) \/ PickStick(r) \/ SelectLeastUsed(r)
        BY <3>2, Choosing, ChosenCandidate DEF Goto, PlacesOK, local
      <3> QED BY <1>6, <3>1, <3>2
    <2> QED BY <1>0, <1>1, <2>1 DEF Exact, Loaded, Filtered
  <1>7. CASE ApplyBilling(r)
    <2> DEFINE list == ListOf(group[sel[r]])
    <2>1. at[r] = "bill" /\ at'[r] = "exec" /\ sel' = sel
      BY <1>7 DEF ApplyBilling, Goto, PlacesOK
    <2>2. /\ sel[r] \in avail[r] /\ may[r][sel[r]] = list /\ Allowed(list, member)
          /\ (chosen[r] = None <=> mapping[CallProvider].groups = {})
      BY <1>0, <2>1 DEF Entitled, Exact, ListWas, Loaded, Filtered
    <2>3. \/ chosen[r] # None /\ bill'[r] = chosen[r]
          \/ chosen[r] = None /\ list = {} /\ bill'[r] = None
          \/ chosen[r] = None /\ bill'[r] \in list \cap member
      BY <1>0, <1>7, <2>2 DEF ApplyBilling, Billed, Unbilled, LocalsOK, Allowed
    <2>4. None \notin member
      BY DEF TablesOK
    <2>5. bill'[r] # None <=> mapping[CallProvider].groups \cup list # {}
      BY <2>2, <2>3, <2>4
    <2> QED BY <1>0, <1>1, <2>1, <2>5 DEF Exact, Loaded, Filtered
  <1> QED BY <1>2, <1>3, <1>4, <1>5, <1>6, <1>7 DEF Picking, PickStep

LEMMA ExactAct == ASSUME TypeOK, NEW r \in Requests, Entitled(r), Exact(r), Act(r) PROVE Exact(r)'
  <1>1. CASE Picking(r)
    BY <1>1, ExactPicking DEF Exact
  <1>2. CASE at'[r] \in {"user", "next", "over", "wait", "done"}
    BY <1>2 DEF Exact, Loaded, Filtered
  <1>3. CASE PickNext(r)
    BY <1>2, <1>3, TypeParts DEF PickNext, Begin, Goto, PlacesOK
  <1> QED BY <1>1, <1>2, <1>3, OutOfPick DEF Act, Step

LEMMA EditIsNoted == ASSUME TypeOK, NEW r \in Requests, EditTables PROVE ~Quiet(r)' /\ at'[r] = at[r]
  BY DEF EditTables, Edit, EditUser, EditAuth, EditGroup, EditMapping, Noted, Quiet

ExactInv == \A r \in Requests : Exact(r)

LEMMA ExactStep == ASSUME TypeOK, EntitledInv, ExactInv, [Next]_vars PROVE ExactInv'
  <1> SUFFICES ASSUME NEW q \in Requests PROVE Exact(q)'
    BY DEF ExactInv
  <1>1. ASSUME NEW r \in Requests, Act(r) PROVE Exact(q)'
    BY <1>1, OthersStay, ExactFrame, ExactAct DEF ExactInv, EntitledInv
  <1>2. CASE EditTables
    BY <1>2, EditIsNoted DEF Exact
  <1>3. CASE Tick \/ UNCHANGED vars \/ \E a \in Auths, on \in BOOLEAN : ApplyUpdate(a, on)
    <2>1. Same(q) /\ SameHistory(q) /\ UNCHANGED tables
      BY <1>3, PicksStay DEF Same, SameHistory, local, history
    <2> QED BY <2>1, ExactFrame DEF ExactInv
  <1> QED BY <1>1, <1>2, <1>3 DEF Next, Act

LEMMA ExactAlways == Spec => []ExactInv
  <1>1. Init => ExactInv
    BY DEF Init, SelectorInit, ExactInv, Exact, Quiet
  <1>2. TypeOK /\ EntitledInv /\ ExactInv /\ [Next]_vars => ExactInv'
    BY ExactStep
  <1> QED BY <1>1, <1>2, TypeCorrect, EntitledAlways, PTL DEF Spec

\* When nothing is edited and no query fails, the use of a restricted model or
\* credential is billed to a group of the user and other use to none, also when an
\* earlier attempt of the request was billed to one.
THEOREM RestrictedIsBilled == Spec => []RestrictedUseIsBilled
  <1>1. ExactInv => RestrictedUseIsBilled
    BY DEF ExactInv, Exact, Quiet, RestrictedUseIsBilled
  <1> QED BY <1>1, ExactAlways, PTL
-----------------------------------------------------------------------------
\* A set of credentials has one of the highest priority: otherwise take a smallest
\* set that has none and leave one element out.
LEMMA BestExists == ASSUME NEW S \in SUBSET Auths, S # {} PROVE Best(S) # {}
  <1> DEFINE T == {U \in FiniteSubsetsOf(Auths) : U # {} /\ Best(U) = {}}
  <1>1. IsWellFoundedOn(StrictSubsetOrdering(Auths), FiniteSubsetsOf(Auths))
    BY FS_StrictSubsetOrderingWellFounded
  <1>2. S \in FiniteSubsetsOf(Auths)
    BY FS_FiniteSubsetsOfFinite
  <1>3. ASSUME T # {} PROVE FALSE
    <2>1. PICK U \in T : \A V \in T : ~ (<<V, U>> \in StrictSubsetOrdering(Auths))
      <3> HIDE DEF T
      <3>1. T \subseteq FiniteSubsetsOf(Auths)
        BY DEF T
      <3> QED BY <1>1, <1>3, <3>1, WFMin
    <2>2. PICK x \in U : TRUE
      OBVIOUS
    <2> DEFINE V == U \ {x}
    <2>3. U \in SUBSET Auths /\ V \in SUBSET Auths /\ V # U
      BY <2>2 DEF FiniteSubsetsOf
    <2>4. <<V, U>> \in StrictSubsetOrdering(Auths)
      BY <2>3 DEF StrictSubsetOrdering
    <2>5. V \in FiniteSubsetsOf(Auths) /\ V \notin T
      BY <2>1, <2>3, <2>4, FS_FiniteSubsetsOfFinite
    <2>6. Best(U) = {} /\ (V = {} \/ Best(V) # {})
      BY <2>5
    <2>7. CASE V = {}
      <3>1. U = {x}
        BY <2>2, <2>7
      <3>2. x \in Best(U)
        BY <2>3, <3>1 DEF Best
      <3> QED BY <2>6, <3>2
    <2>8. CASE Best(V) # {}
      <3>1. PICK y \in V : \A b \in V : Priority[b] <= Priority[y]
        BY <2>8 DEF Best
      <3>2. Priority[x] \in Int /\ Priority[y] \in Int
        BY <2>2, <2>3, <3>1
      <3>3. CASE Priority[x] <= Priority[y]
        BY <2>3, <2>6, <3>1, <3>3 DEF Best
      <3>4. CASE Priority[y] <= Priority[x]
        <4>1. \A b \in V : Priority[b] <= Priority[x]
          BY <2>3, <3>1, <3>2, <3>4
        <4> QED BY <2>2, <2>3, <2>6, <3>2, <4>1 DEF Best
      <3> QED BY <3>2, <3>3, <3>4
    <2> QED BY <2>6, <2>7, <2>8
  <1> QED BY <1>2, <1>3

LEMMA BestOrShadowed == ASSUME NEW S \in SUBSET Auths, NEW a \in S
                        PROVE  a \in Best(S) \/ \E b \in Best(S) : Priority[b] > Priority[a]
  <1>1. PICK b \in Best(S) : TRUE
    BY BestExists
  <1>2. \A c \in S : Priority[c] \in Int
    OBVIOUS
  <1> QED BY <1>1, <1>2 DEF Best

\* What has been ready since the round began is ready.
ReadySince == \A r \in Requests : ready[r] \subseteq Ready

LEMMA MarkOthers == ASSUME TypeOK, NEW a \in Auths, NEW outcome, NEW wait, MarkResult(a, outcome, wait)
                    PROVE  \A b \in Auths \ {a} : left'[b] = left[b]
  BY TypeParts DEF MarkResult, MarkQuota, PoolsOK

LEMMA ReadySinceStep == ASSUME TypeOK, ReadySince, [Next]_vars PROVE ReadySince'
  <1> USE TypeParts DEF PoolsOK
  <1>1. ASSUME NEW r \in Requests, Execute(r) \/ WakeUp(r) PROVE ReadySince'
    <2>1. Ready' = Ready /\ ready' = [ready EXCEPT ![r] = Ready]
      BY <1>1, ReadyStays DEF Execute, WakeUp, Round
    <2> QED BY <2>1 DEF ReadySince
  <1>2. ASSUME NEW r \in Requests, PickNext(r) \/ Picking(r) PROVE ReadySince'
    <2>1. Ready' = Ready /\ ready' = ready
      BY <1>2, ReadyStays DEF PickNext, Picking
    <2> QED BY <2>1 DEF ReadySince
  <1>3. ASSUME NEW r \in Requests, Cancel(r) \/ RetryAfterError(r) PROVE ReadySince'
    <2>1. Ready' = Ready /\ ready' = [ready EXCEPT ![r] = {}]
      BY <1>3, ReadyStays DEF Cancel, RetryAfterError
    <2> QED BY <2>1 DEF ReadySince
  <1>4. ASSUME NEW r \in Requests,
               Succeed(r) \/ \E outcome \in Failures, wait \in RetryAfters : FailAttempt(r, outcome, wait)
        PROVE  ReadySince'
    <2> DEFINE s == sel[r]
    <2>1. s \in Auths
      BY <1>4 DEF Succeed, FailAttempt, PlacesOK
    <2>2. enabled' = enabled /\ StillReady(r, s) /\ \E outcome, wait : MarkResult(s, outcome, wait)
      BY <1>4 DEF Succeed, FailAttempt
    <2>3. \A b \in Auths \ {s} : left'[b] = left[b]
      BY <2>1, <2>2, MarkOthers
    <2>4. \A q \in Requests : ready'[q] \subseteq ready[q] /\ (left'[s] # 0 => s \notin ready'[q])
      BY <2>2 DEF StillReady
    <2> HIDE DEF s
    <2>5. ASSUME NEW q \in Requests, NEW a \in ready'[q] PROVE a \in Ready'
      <3>1. a \in Auths /\ a \in enabled /\ left[a] = 0
        BY <2>4 DEF ReadySince, Ready
      <3> QED BY <2>2, <2>3, <2>4, <3>1 DEF Ready
    <2> QED BY <2>5 DEF ReadySince
  <1>5. ASSUME NEW a \in Auths, NEW on \in BOOLEAN, ApplyUpdate(a, on) PROVE ReadySince'
    <2>1. /\ left' = [left EXCEPT ![a] = 0]
          /\ enabled' = IF on THEN enabled \cup {a} ELSE enabled \ {a}
          /\ ready' = [r \in Requests |-> IF on THEN ready[r] ELSE ready[r] \ {a}]
      BY <1>5 DEF ApplyUpdate
    <2> QED BY <2>1 DEF ReadySince, Ready
  <1>6. CASE EditTables
    <2>1. Ready' = Ready /\ ready' = ready
      BY <1>6, ReadyStays DEF EditTables
    <2> QED BY <2>1 DEF ReadySince
  <1>7. CASE Tick
    <2>1. ready' = ready /\ enabled' = enabled /\ left' = [a \in Auths |-> Down(left[a])]
      BY <1>7 DEF Tick
    <2> QED BY <2>1 DEF ReadySince, Ready, Down
  <1>8. CASE UNCHANGED vars
    BY <1>8 DEF vars, pools, ReadySince, Ready
  <1> QED BY <1>1, <1>2, <1>3, <1>4, <1>5, <1>6, <1>7, <1>8 DEF Next, Step

\* In a quiet round the candidates are those that are left of the ready ones, but for
\* those of less than the highest priority.
Outranked(r, a) == \E b \in avail[r] : Priority[b] > Priority[a]
TriedAll(r) ==
    /\ err[r] # "invalid" /\ ~Exhausted(r) /\ Allowed(mapping[CallProvider].groups, member)
    => \A a \in ready[r] : Allowed(ListOf(group[a]), member) => a \in tried[r] \/ Shadowed(a, r)
Thorough(r) == Quiet(r) =>
    /\ at[r] \in {"user", "rows", "allow"} =>
         /\ avail[r] \cap tried[r] = {}
         /\ \A a \in ready[r] \ tried[r] : a \in avail[r] \/ Outranked(r, a)
    /\ at[r] = "over" => TriedAll(r)

\* What the others of a request may do to it.
LEMMA ThoroughFrame == ASSUME TypeOK, NEW q \in Requests, Thorough(q), Same(q), SameHistory(q), SameRound(q),
                              UNCHANGED tables, ready'[q] \subseteq ready[q]
                       PROVE  Thorough(q)'
  <1>1. UNCHANGED <<at[q], avail[q], tried[q], err[q], still[q], failed[q]>>
    BY DEF Same, SameHistory, SameRound
  <1>2. \A a \in Auths : (Shadowed(a, q)' <=> Shadowed(a, q)) /\ ListOf(group[a])' = ListOf(group[a])
    BY <1>1 DEF Shadowed, ListOf, tables
  <1>3. UNCHANGED <<member, mapping>>
    BY DEF tables
  <1>4. TriedAll(q) => TriedAll(q)'
    <2>1. Exhausted(q)' <=> Exhausted(q)
      BY <1>1 DEF Exhausted
    <2> HIDE DEF Exhausted, Shadowed, ListOf
    <2> QED BY <1>1, <1>2, <1>3, <2>1, TypeParts DEF TriedAll, PoolsOK
  <1> QED BY <1>1, <1>4 DEF Thorough, Quiet, Outranked

LEMMA ReadyShrinks == ASSUME TypeOK, NEW r \in Requests, NEW q \in Requests \ {r}, Act(r)
                      PROVE  ready'[q] \subseteq ready[q]
  BY TypeParts DEF Act, Step, Execute, WakeUp, Round, PickNext, Picking, Succeed, FailAttempt, StillReady,
                   Cancel, RetryAfterError, PoolsOK

\* A round that ends because no candidate is left has tried all that were ready.
LEMMA ThoroughBegins == ASSUME TypeOK, NEW r \in Requests, ReadySince, PickNext(r) PROVE Thorough(r)'
  <1> USE TypeParts
  <1>0. UNCHANGED <<tried, err, ready, enabled, left>>
    BY DEF PickNext, rounds, pools
  <1>1. ready[r] \ tried[r] \subseteq Candidates(r) /\ Candidates(r) \in SUBSET Auths
    BY DEF ReadySince, Candidates, Ready, PoolsOK
  <1>2. CASE Begin(r, Best(Candidates(r)))
    <2>1. at'[r] = "user" /\ avail'[r] = Best(Candidates(r))
      BY <1>2 DEF Begin, PlacesOK, LocalsOK
    <2>2. avail'[r] \cap tried'[r] = {}
      BY <1>0, <2>1 DEF Best, Candidates
    <2>3. \A a \in ready[r] \ tried[r] : a \in avail'[r] \/ \E b \in avail'[r] : Priority[b] > Priority[a]
      <3> SUFFICES ASSUME NEW a \in Candidates(r)
                   PROVE  a \in Best(Candidates(r)) \/ \E b \in Best(Candidates(r)) : Priority[b] > Priority[a]
        BY <1>1, <2>1
      <3> HIDE DEF Candidates
      <3> QED BY <1>1, BestOrShadowed
    <2> QED BY <1>0, <2>1, <2>2, <2>3 DEF Thorough, Outranked
  <1>3. CASE Goto(r, "over") /\ (Exhausted(r) \/ Candidates(r) = {})
    <2>1. at'[r] = "over" /\ (Exhausted(r)' <=> Exhausted(r))
      BY <1>0, <1>3 DEF Goto, PlacesOK, Exhausted
    <2>2. TriedAll(r)'
      BY <1>0, <1>1, <1>3, <2>1 DEF TriedAll
    <2> QED BY <2>1, <2>2 DEF Thorough
  <1> QED BY <1>2, <1>3 DEF PickNext

\* A pick that is refused without a failure found its user shut out: of the model, or
\* of every candidate.
LEMMA ThoroughPicking == ASSUME TypeOK, NEW r \in Requests, Exact(r), Thorough(r), Picking(r), Quiet(r)'
                         PROVE  Thorough(r)'
  <1> USE TypeParts
  <1>0. /\ Quiet(r) /\ ~Fails(r)
        /\ UNCHANGED <<tables, member, group, opened, mapping, tried, err, ready>>
    <2>1. /\ failed' = failed \/ failed' = [failed EXCEPT ![r] = TRUE]
          /\ UNCHANGED <<still, tables, tried, err, ready>>
      BY DEF Fails, history, rounds, Picking, PickStep, LoadGroups, LoadRows, LoadLists,
             PickStrategy, PickFillFirst, PickStick, SelectLeastUsed, ApplyRateLimit, ApplyBilling
    <2> QED BY <2>1 DEF Quiet, Fails, HistoryOK, tables
  <1>1. CASE (LoadGroups(r) \/ LoadRows(r)) /\ ~Refuse(r)
    <2>1. at[r] \in {"user", "rows"} /\ at'[r] \in {"rows", "allow"} /\ avail' = avail
      BY <1>1 DEF LoadGroups, LoadRows, Goto, PlacesOK
    <2> QED BY <1>0, <2>1 DEF Thorough, Outranked
  <1>2. CASE LoadGroups(r) /\ Refuse(r)
    <2>1. at'[r] = "over" /\ mapping[CallProvider].groups # {} /\ mapping[CallProvider].groups \cap member = {}
      BY <1>0, <1>2 DEF LoadGroups, Refuse, Goto, PlacesOK
    <2> QED BY <1>0, <2>1 DEF Thorough, TriedAll, Allowed
  <1>3. CASE LoadLists(r) /\ Refuse(r)
    <2>1. at[r] = "allow" /\ at'[r] = "over"
      BY <1>3 DEF LoadLists, Refuse, Goto, PlacesOK
    <2>0. ~Goto(r, "strategy")
      BY <2>1 DEF Goto, PlacesOK
    <2>2. \A a \in avail[r] : ~Allowed(ListOf(rows[r][a]), mine[r])
      <3> DEFINE lists == [a \in Auths |-> ListOf(rows[r][a])]
      <3>1. {a \in avail[r] : Allowed(lists[a], mine[r])} = {}
        BY <1>0, <1>3, <2>0 DEF LoadLists
      <3> QED BY <3>1 DEF LocalsOK
    <2>3. \A a \in avail[r] : a \in Auths \ tried[r] /\ ~Allowed(ListOf(group[a]), member)
      BY <1>0, <2>1, <2>2 DEF Exact, Thorough, Loaded, LocalsOK
    <2>4. ASSUME NEW a \in ready[r], Allowed(ListOf(group[a]), member) PROVE a \in tried[r] \/ Shadowed(a, r)
      <3>1. a \in tried[r] \/ a \in avail[r] \/ Outranked(r, a)
        BY <1>0, <2>1 DEF Thorough
      <3> QED BY <2>3, <2>4, <3>1 DEF Outranked, Shadowed
    <2>5. \A a \in ready[r] : Shadowed(a, r)' <=> Shadowed(a, r)
      BY <1>0 DEF Shadowed, ListOf
    <2>6. \A g : ListOf(g)' = ListOf(g)
      BY <1>0 DEF ListOf
    <2>7. TriedAll(r)'
      <3> HIDE DEF Shadowed, ListOf
      <3> QED BY <1>0, <2>4, <2>5, <2>6 DEF TriedAll
    <2> QED BY <2>1, <2>7 DEF Thorough
  <1>4. CASE at'[r] \in {"strategy", "stick", "least", "limit", "bill", "exec"}
    BY <1>4 DEF Thorough
  <1>5. CASE LoadLists(r) /\ ~Refuse(r)
    BY <1>4, <1>5 DEF LoadLists, Goto, PlacesOK
  <1>6. CASE PickStrategy(r) \/ PickStick(r) \/ SelectLeastUsed(r)
    BY <1>4, <1>6, Choosing, ChosenCandidate DEF Goto, PlacesOK
  <1>7. CASE ApplyRateLimit(r) \/ ApplyBilling(r)
    BY <1>0, <1>4, <1>7 DEF ApplyRateLimit, ApplyBilling, Goto, PlacesOK
  <1>8. ~(LoadRows(r) /\ Refuse(r))
    BY <1>0 DEF LoadRows, Refuse, Goto, PlacesOK
  <1> QED BY <1>1, <1>2, <1>3, <1>5, <1>6, <1>7, <1>8 DEF Picking, PickStep

LEMMA ThoroughAct == ASSUME TypeOK, NEW r \in Requests, ReadySince, Exact(r), Thorough(r), Act(r) PROVE Thorough(r)'
  <1>1. CASE PickNext(r)
    BY <1>1, ThoroughBegins
  <1>2. CASE Picking(r)
    BY <1>2, ThoroughPicking DEF Thorough
  <1>3. CASE at'[r] \in {"next", "wait", "done"}
    BY <1>3 DEF Thorough
  <1>4. CASE Execute(r) \/ WakeUp(r) \/ Succeed(r) \/ Cancel(r) \/ RetryAfterError(r)
    BY <1>3, <1>4, TypeParts DEF Execute, WakeUp, Round, Succeed, Cancel, RetryAfterError, Leave, Goto, PlacesOK
  <1>5. ASSUME NEW outcome \in Failures, NEW wait \in RetryAfters, FailAttempt(r, outcome, wait)
        PROVE  Thorough(r)'
    <2>1. CASE IsRequestInvalid(outcome)
      <3>1. err'[r] = "invalid" /\ at'[r] = "over"
        BY <1>5, <2>1, TypeParts DEF FailAttempt, AfterFailure, Goto, PlacesOK, PoolsOK
      <3> QED BY <3>1 DEF Thorough, TriedAll
    <2>2. CASE ~IsRequestInvalid(outcome)
      BY <1>3, <1>5, <2>2, TypeParts DEF FailAttempt, AfterFailure, Goto, PlacesOK
    <2> QED BY <2>1, <2>2
  <1> QED BY <1>1, <1>2, <1>4, <1>5 DEF Act, Step

ThoroughInv == \A r \in Requests : Thorough(r)

LEMMA ThoroughStep == ASSUME TypeOK, ReadySince, ExactInv, ThoroughInv, [Next]_vars PROVE ThoroughInv'
  <1> SUFFICES ASSUME NEW q \in Requests PROVE Thorough(q)'
    BY DEF ThoroughInv
  <1>1. ASSUME NEW r \in Requests, Act(r) PROVE Thorough(q)'
    BY <1>1, OthersStay, ReadyShrinks, ThoroughFrame, ThoroughAct DEF ThoroughInv, ExactInv
  <1>2. CASE EditTables
    BY <1>2, EditIsNoted DEF Thorough
  <1>3. CASE Tick \/ UNCHANGED vars \/ \E a \in Auths, on \in BOOLEAN : ApplyUpdate(a, on)
    <2>1. Same(q) /\ SameHistory(q) /\ SameRound(q) /\ UNCHANGED tables
      BY <1>3, PicksStay DEF Same, SameHistory, SameRound, local, history
    <2>2. ready'[q] \subseteq ready[q]
      BY <1>3, TypeParts DEF Tick, vars, ApplyUpdate, PoolsOK
    <2> QED BY <2>1, <2>2, ThoroughFrame DEF ThoroughInv
  <1> QED BY <1>1, <1>2, <1>3 DEF Next, Act

\* A request that fails with a round of its own has tried every credential that was
\* ready and open to its user all the time, or one of a higher priority was closed to
\* the user: a pick never reports that there is nothing while there is something.
THEOREM RoundsAreThorough == Spec => []RoundIsThorough
  <1>1. Init => ReadySince /\ ThoroughInv
    BY DEF Init, SelectorInit, ReadySince, ThoroughInv, Thorough, Quiet
  <1>2. TypeOK /\ ReadySince /\ [Next]_vars => ReadySince'
    BY ReadySinceStep
  <1>3. TypeOK /\ ReadySince /\ ExactInv /\ ThoroughInv /\ [Next]_vars => ThoroughInv'
    BY ThoroughStep
  <1>4. ThoroughInv => RoundIsThorough
    BY DEF ThoroughInv, Thorough, Quiet, TriedAll, RoundIsThorough
  <1> QED BY <1>1, <1>2, <1>3, <1>4, TypeCorrect, ExactAlways, PTL DEF Spec
=============================================================================
