------------------------------ MODULE Selector ------------------------------
(***************************************************************************)
(* Selector.Pick (internal/auth/selector.go): which of the credentials     *)
(* that are ready serves a request of a user, and which of the user's      *)
(* groups is billed.  A pick is a chain of queries without a transaction;  *)
(* administrators, plans and other requests change the rows in between.    *)
(*                                                                         *)
(* One user and one model are modelled.  Lists of groups are sets, and the *)
(* first allowed group of a list is any of them.                           *)
(***************************************************************************)
EXTENDS Integers, FiniteSets

CONSTANTS
    Requests,       \* requests of the user for the model
    Auths,          \* credentials: numbers, in the order of their keys
    RowId,          \* the id of a credential's row
    Period,         \* the cursor is counted modulo this; 2^64 in the code
    UserGroups,
    AuthGroups,
    MemberSets,     \* values of users.user_group_id with bill_user_group_id
    Lists,          \* values of auth_groups.user_group_id
    RowGroups,      \* values of auths.auth_group_id, NoGroup and NoRow
    Mappings,       \* values of a model mapping: its strategy and user groups
    Providers,      \* providers that mappings are written for
    CallProvider,   \* the provider that the SDK passes to Pick: "mixed"
    Faults,         \* whether queries fail and limits are reached
    MaxEdits,       \* bound: edits of the tables
    None, NoGroup, NoRow, Everyone

ASSUME SelectorAssumption ==
    /\ Auths \subseteq Nat /\ IsFiniteSet(Auths) /\ RowId \in [Auths -> Nat]
    /\ Period \in Nat \ {0} /\ MaxEdits \in Nat /\ Faults \in BOOLEAN
    /\ MemberSets \subseteq SUBSET UserGroups /\ Lists \subseteq SUBSET UserGroups
    /\ RowGroups \subseteq AuthGroups \cup {NoGroup, NoRow} /\ NoGroup \in RowGroups
    /\ {NoGroup, NoRow} \cap AuthGroups = {}
    /\ {None, Everyone} \cap UserGroups = {} /\ None # Everyone
    /\ None \notin Auths
    /\ Mappings \subseteq [strategy : {"roundRobin", "fillFirst", "stick"},
                           groups : SUBSET UserGroups]
    /\ CallProvider \in Providers

VARIABLES
    member,     \* the groups of the user
    group,      \* the primary auth group in the row of a credential
    opened,     \* the user groups an auth group is open to; {} is everyone
    mapping,    \* the snapshot of model mappings, by provider
    binding,    \* user_model_auth_bindings: the credential the user sticks to
    cursor,     \* the round-robin cursor of the process
    edits,      \* how many edits there were
    at,         \* where a request is
    avail,      \* the candidates that are left
    mine,       \* the groups of the user, as loaded by the pick
    chosen,     \* the group that the mapping bills, if any
    rows,       \* the auth groups of the candidates, as loaded
    may,        \* the user groups a candidate is open to, as loaded
    sel,        \* the credential that was selected
    bill,       \* billing_user_group_id in the metadata of the request
    \* history
    seen,       \* the groups the user has had during the pick
    had,        \* the auth groups a credential has had during it
    open,       \* the groups that an auth group has been open to during it
    asked,      \* the groups that the mapping has named during it
    bound,      \* the binding when it began, None once another pick changed it
    still,      \* no row or mapping was edited since the round began
    failed      \* a query failed or a limit refused since then

tables == <<member, group, opened, mapping>>
local == <<mine, chosen, rows, may>>
history == <<seen, had, open, asked, bound, still>>

RowValues == AuthGroups \cup {NoGroup, NoRow}

SelectorTypeOK ==
    /\ member \in MemberSets
    /\ group \in [Auths -> RowGroups]
    /\ opened \in [AuthGroups -> Lists \cup {{}}]
    /\ mapping \in [Providers -> Mappings]
    /\ binding \in Auths \cup {None}
    /\ cursor \in 0 .. Period - 1 /\ edits \in 0 .. MaxEdits
    /\ avail \in [Requests -> SUBSET Auths]
    /\ mine \in [Requests -> SUBSET UserGroups]
    /\ chosen \in [Requests -> UserGroups \cup {None}]
    /\ rows \in [Requests -> [Auths -> RowGroups]]
    /\ may \in [Requests -> [Auths -> SUBSET UserGroups]]
    /\ sel \in [Requests -> Auths \cup {None}]
    /\ bill \in [Requests -> UserGroups \cup {None}]
    /\ seen \in [Requests -> SUBSET (UserGroups \cup {Everyone})]
    /\ had \in [Requests -> [Auths -> SUBSET RowValues]]
    /\ open \in [Requests -> [RowValues -> SUBSET (UserGroups \cup {Everyone})]]
    /\ asked \in [Requests -> SUBSET UserGroups]
    /\ bound \in [Requests -> Auths \cup {None}]
    /\ still \in [Requests -> BOOLEAN] /\ failed \in [Requests -> BOOLEAN]

\* Whom a list of user groups lets in.
OpenTo(list) == IF list = {} THEN {Everyone} ELSE list

\* A credential without a row, without a group or with a group that is gone is
\* open to everyone.
ListOf(g) == IF g \in AuthGroups THEN opened[g] ELSE {}

InPick(r) == at[r] \in {"user", "rows", "allow", "strategy", "stick", "least", "limit", "bill"}

SelectorInit ==
    /\ member \in MemberSets
    /\ group \in [Auths -> RowGroups]
    /\ opened \in [AuthGroups -> Lists]
    /\ mapping \in [Providers -> Mappings]
    /\ binding = None /\ cursor = 0 /\ edits = 0
    /\ avail = [r \in Requests |-> {}]
    /\ mine = [r \in Requests |-> {}]
    /\ chosen = [r \in Requests |-> None]
    /\ rows = [r \in Requests |-> [a \in Auths |-> NoGroup]]
    /\ may = [r \in Requests |-> [a \in Auths |-> {}]]
    /\ sel = [r \in Requests |-> None]
    /\ bill = [r \in Requests |-> None]
    /\ seen = [r \in Requests |-> {}]
    /\ had = [r \in Requests |-> [a \in Auths |-> {}]]
    /\ open = [r \in Requests |-> [g \in RowValues |-> {}]]
    /\ asked = [r \in Requests |-> {}]
    /\ bound = [r \in Requests |-> None]
    /\ still = [r \in Requests |-> FALSE]
    /\ failed = [r \in Requests |-> FALSE]
-----------------------------------------------------------------------------
\* Pick is called with the candidates `list`.
Begin(r, list) ==
    /\ at' = [at EXCEPT ![r] = "user"]
    /\ avail' = [avail EXCEPT ![r] = list]
    /\ seen' = [seen EXCEPT ![r] = member \cup {Everyone}]
    /\ had' = [had EXCEPT ![r] = [a \in Auths |-> {group[a]}]]
    /\ open' = [open EXCEPT ![r] = [g \in RowValues |-> OpenTo(ListOf(g))]]
    /\ asked' = [asked EXCEPT ![r] = mapping[CallProvider].groups]
    /\ bound' = [bound EXCEPT ![r] = binding]
    /\ UNCHANGED <<tables, binding, cursor, edits, local, sel, bill>>

Goto(r, next) == at' = [at EXCEPT ![r] = next]

\* Pick returns an error: the user's groups could not be loaded, none of them
\* may use the model or one of the candidates, or the rate limit is reached.
Refuse(r) ==
    /\ Goto(r, "over")
    /\ avail' = [avail EXCEPT ![r] = {}]
    /\ mine' = [mine EXCEPT ![r] = {}]
    /\ chosen' = [chosen EXCEPT ![r] = None]
    /\ rows' = [rows EXCEPT ![r] = [a \in Auths |-> NoGroup]]
    /\ may' = [may EXCEPT ![r] = [a \in Auths |-> {}]]
    /\ UNCHANGED <<sel, bill>>

Fails(r) == Faults /\ failed' = [failed EXCEPT ![r] = TRUE]

\* The first list of groups: the user's, and the mapping's.
LoadGroups(r) ==
    /\ at[r] = "user"
    /\ LET want == mapping[CallProvider].groups IN
       \/ /\ want = {}
          /\ Goto(r, "rows")
          /\ mine' = [mine EXCEPT ![r] = member]
          /\ UNCHANGED <<avail, chosen, rows, may, sel, bill, failed>>
       \/ \E g \in want \cap member :
          /\ Goto(r, "rows")
          /\ mine' = [mine EXCEPT ![r] = member]
          /\ chosen' = [chosen EXCEPT ![r] = g]
          /\ UNCHANGED <<avail, rows, may, sel, bill, failed>>
       \/ want # {} /\ want \cap member = {} /\ Refuse(r) /\ UNCHANGED failed
       \/ Refuse(r) /\ Fails(r)     \* the query fails
    /\ UNCHANGED <<tables, binding, cursor, edits, history>>

LoadRows(r) ==
    /\ at[r] = "rows"
    /\ \/ /\ Goto(r, "allow")
          /\ rows' = [rows EXCEPT ![r] = [a \in Auths |->
                        IF a \in avail[r] /\ group[a] \in AuthGroups THEN group[a] ELSE NoGroup]]
          /\ UNCHANGED <<avail, mine, chosen, may, sel, bill, failed>>
       \/ Refuse(r) /\ Fails(r)
    /\ UNCHANGED <<tables, binding, cursor, edits, history>>

\* A candidate is open to one of the groups that were loaded.
Allowed(list, groups) == list = {} \/ list \cap groups # {}

LoadLists(r) ==
    /\ at[r] = "allow"
    /\ LET lists == [a \in Auths |-> ListOf(rows[r][a])]
           left == {a \in avail[r] : Allowed(lists[a], mine[r])}
       IN  \/ /\ left # {}
              /\ Goto(r, "strategy")
              /\ avail' = [avail EXCEPT ![r] = left]
              /\ may' = [may EXCEPT ![r] = lists]
              /\ rows' = [rows EXCEPT ![r] = [a \in Auths |-> NoGroup]]
              /\ UNCHANGED <<mine, chosen, sel, bill, failed>>
           \/ left = {} /\ Refuse(r) /\ UNCHANGED failed
           \/ (\E a \in Auths : rows[r][a] \in AuthGroups) /\ Refuse(r) /\ Fails(r)
    /\ UNCHANGED <<tables, binding, cursor, edits, history>>
-----------------------------------------------------------------------------
\* The candidate at an index of the list, which is sorted by key: a set of one.
Nth(S, n) == {a \in S : Cardinality({b \in S : b < a}) = n}

Select(r, a) ==
    /\ sel' = [sel EXCEPT ![r] = a]
    /\ Goto(r, "limit")
    /\ UNCHANGED <<avail, local, bill>>

NextCursorX == cursor + 1
NextCursor == (cursor + 1) % Period

\* A list of one does not move the cursor.
PickRoundRobin(r) ==
    LET n == Cardinality(avail[r]) IN
    /\ \E a \in Nth(avail[r], IF n = 1 THEN 0 ELSE cursor % n) : Select(r, a)
    /\ cursor' = IF n = 1 THEN cursor ELSE NextCursor

\* The candidate with the least id of those that still have a row.
Oldest(S) ==
    LET known == {a \in S : group[a] # NoRow} IN
    IF known = {} THEN Nth(S, 0)
    ELSE {a \in known : \A b \in known : RowId[a] <= RowId[b]}

PickFillFirst(r) ==
    /\ \/ (\E a \in Oldest(avail[r]) : Select(r, a)) /\ UNCHANGED failed
       \/ /\ Cardinality(avail[r]) > 1 /\ Fails(r)
          /\ \E a \in Nth(avail[r], 0) : Select(r, a)
    /\ UNCHANGED cursor

PickStrategy(r) ==
    /\ at[r] = "strategy"
    /\ LET strategy == mapping[CallProvider].strategy IN
       \/ strategy = "roundRobin" /\ PickRoundRobin(r) /\ UNCHANGED failed
       \/ strategy = "fillFirst" /\ PickFillFirst(r)
       \/ /\ strategy = "stick" /\ Goto(r, "stick")
          /\ UNCHANGED <<cursor, avail, local, sel, bill, failed>>
    /\ UNCHANGED <<tables, binding, edits, history>>

\* The bound credential is used when it is one of the candidates.
MayStickX(r) == binding # None
MayStickY(r) == binding \in Nth(avail[r], 0)
MayStick(r) == binding \in avail[r]

PickStick(r) ==
    /\ at[r] = "stick"
    /\ \/ MayStick(r) /\ Select(r, binding) /\ UNCHANGED <<cursor, failed>>
       \/ /\ ~MayStick(r) /\ Goto(r, "least")
          /\ UNCHANGED <<cursor, avail, local, sel, bill, failed>>
       \/ PickRoundRobin(r) /\ Fails(r)
    /\ UNCHANGED <<tables, binding, edits, history>>

\* The least used candidate, which may be any, is bound; when the write of the
\* binding fails, it is used all the same.
SelectLeastUsed(r) ==
    /\ at[r] = "least"
    /\ \/ \E a \in avail[r] :
          /\ Select(r, a)
          /\ \/ /\ binding' = a
                /\ bound' = [q \in Requests |-> IF q = r THEN bound[q] ELSE None]
             \/ UNCHANGED <<binding, bound>>
          /\ UNCHANGED <<cursor, failed>>
       \/ PickRoundRobin(r) /\ Fails(r) /\ UNCHANGED <<binding, bound>>
    /\ UNCHANGED <<tables, edits, seen, had, open, asked, still>>

\* A limit that cannot be resolved or checked lets the request pass.
ApplyRateLimit(r) ==
    /\ at[r] = "limit"
    /\ \/ Goto(r, "bill") /\ UNCHANGED <<avail, local, sel, bill, failed>>
       \/ Refuse(r) /\ Fails(r)
    /\ UNCHANGED <<tables, binding, cursor, edits, history>>
-----------------------------------------------------------------------------
Billed(r, g) == bill' = [bill EXCEPT ![r] = g]

\* Without a group the metadata loses the group of an earlier attempt.
UnbilledX(r) == bill' = bill
Unbilled(r) == bill' = [bill EXCEPT ![r] = None]

\* The group of the mapping, or the first group of the user that the list of the
\* selected credential names; the user's groups are loaded again for it.
ApplyBilling(r) ==
    /\ at[r] = "bill"
    /\ Goto(r, "exec")
    /\ LET list == may[r][sel[r]] IN
       \/ chosen[r] # None /\ Billed(r, chosen[r]) /\ UNCHANGED failed
       \/ chosen[r] = None /\ list = {} /\ Unbilled(r) /\ UNCHANGED failed
       \/ /\ chosen[r] = None /\ UNCHANGED failed
          /\ \E g \in list \cap member : Billed(r, g)
       \/ /\ chosen[r] = None /\ UNCHANGED failed
          /\ list # {} /\ list \cap member = {} /\ Unbilled(r)
       \/ chosen[r] = None /\ list # {} /\ Unbilled(r) /\ Fails(r)
    /\ avail' = [avail EXCEPT ![r] = {}]
    /\ mine' = [mine EXCEPT ![r] = {}]
    /\ chosen' = [chosen EXCEPT ![r] = None]
    /\ may' = [may EXCEPT ![r] = [a \in Auths |-> {}]]
    /\ UNCHANGED <<tables, binding, cursor, edits, rows, sel, history>>

PickStep(r) ==
    \/ LoadGroups(r) \/ LoadRows(r) \/ LoadLists(r) \/ PickStrategy(r)
    \/ PickStick(r) \/ SelectLeastUsed(r) \/ ApplyRateLimit(r) \/ ApplyBilling(r)
-----------------------------------------------------------------------------
\* The history of the picks that are under way takes note of an edit.
Noted ==
    /\ edits < MaxEdits /\ edits' = edits + 1
    /\ seen' = [r \in Requests |-> IF InPick(r) THEN seen[r] \cup member' ELSE seen[r]]
    /\ had' = [r \in Requests |-> [a \in Auths |->
                IF InPick(r) THEN had[r][a] \cup {group'[a]} ELSE had[r][a]]]
    /\ open' = [r \in Requests |-> [g \in RowValues |->
                 IF InPick(r) THEN open[r][g] \cup OpenTo(ListOf(g))' ELSE open[r][g]]]
    /\ asked' = [r \in Requests |->
                  IF InPick(r) THEN asked[r] \cup mapping'[CallProvider].groups ELSE asked[r]]
    /\ still' = [r \in Requests |-> FALSE]
    /\ UNCHANGED <<binding, bound, cursor, at, avail, local, sel, bill, failed>>

\* Plans, charges and administrators change the groups of the user.
EditUser(groups) ==
    /\ groups # member /\ member' = groups
    /\ UNCHANGED <<group, opened, mapping>> /\ Noted

\* An administrator moves a credential or deletes its row.
EditAuth(a, g) ==
    /\ g # group[a] /\ group' = [group EXCEPT ![a] = g]
    /\ UNCHANGED <<member, opened, mapping>> /\ Noted

\* An administrator changes whom a group is open to, or deletes it.
EditGroup(h, list) ==
    /\ list # opened[h] /\ opened' = [opened EXCEPT ![h] = list]
    /\ UNCHANGED <<member, group, mapping>> /\ Noted

EditMapping(p, m) ==
    /\ m # mapping[p] /\ mapping' = [mapping EXCEPT ![p] = m]
    /\ UNCHANGED <<member, group, opened>> /\ Noted

Edit ==
    \/ \E groups \in MemberSets : EditUser(groups)
    \/ \E a \in Auths, g \in RowGroups : EditAuth(a, g)
    \/ \E h \in AuthGroups, list \in Lists \cup {{}} : EditGroup(h, list)
    \/ \E p \in Providers, m \in Mappings : EditMapping(p, m)
=============================================================================
