----------------------------- MODULE Conductor ------------------------------
(***************************************************************************)
(* The credential manager of the SDK as CPAB drives it                     *)
(* (CORE/auth/conductor.go): a request picks a credential, executes, marks *)
(* the result, goes on to the next credential, and starts another round    *)
(* after the shortest cooldown.  The picks are those of Selector; a pick   *)
(* holds the read lock of the manager from its list of candidates to the   *)
(* selected credential.                                                    *)
(*                                                                         *)
(* Times are what is left of them, counted down by Tick.                   *)
(***************************************************************************)
EXTENDS Selector

CONSTANTS
    Priority,           \* of a credential
    MaxCredentials,     \* max-retry-credentials; zero is unlimited
    RequestRetry,       \* request-retry
    MaxWait,            \* max-retry-interval
    Failures,           \* the classes of errors that occur
    RetryAfters,        \* what a provider asks to wait with a 429, zero is nothing
    Short, Long,        \* cooldowns: 1 minute; 30 minutes and 12 hours
    Base, Ceiling       \* the first and the longest cooldown of a quota error

\* Errors of the model (400 and 422 that say so), of the credential (401 to 404), of
\* the provider (408, 5xx), of a quota (429), of any other kind, and of the request
\* itself: malformed, about an item that is not there, or a 500 of status UNKNOWN.
Classes == {"unsupported", "refused", "busy", "quota", "plain", "invalid", "missing",
            "unknown"}

ASSUME ConductorAssumption ==
    /\ Failures \subseteq Classes
    /\ Priority \in [Auths -> Int]
    /\ MaxCredentials \in Nat /\ RequestRetry \in Nat /\ MaxWait \in Nat
    /\ RetryAfters \subseteq Nat /\ 0 \in RetryAfters /\ IsFiniteSet(RetryAfters)
    /\ Short \in Nat /\ Long \in Nat /\ Base \in Nat \ {0} /\ Ceiling \in Nat

VARIABLES
    enabled,    \* credentials that are not disabled
    left,       \* until NextRetryAfter of a credential; zero is ready
    recover,    \* until NextRecoverAt of its quota
    factor,     \* 2 to the power of BackoffLevel of its quota
    tried,      \* credentials the round has used
    err,        \* the last error of the round: none, failed, invalid
    hint,       \* the wait that came with that error
    attempt,    \* rounds that have failed
    timer,      \* until a waiting request goes on
    ready       \* history: credentials that have been ready since the round began

pools == <<enabled, left, recover, factor>>
rounds == <<tried, err, hint, attempt, timer>>
picks == <<tables, binding, cursor, edits, avail, local, sel, bill, history, failed>>
vars == <<picks, at, pools, rounds, ready>>

Places == {"idle", "next", "user", "rows", "allow", "strategy", "stick", "least",
           "limit", "bill", "exec", "over", "wait", "done"}

TypeOK ==
    /\ SelectorTypeOK
    /\ at \in [Requests -> Places]
    /\ enabled \subseteq Auths
    /\ left \in [Auths -> Nat] /\ recover \in [Auths -> Nat] /\ factor \in [Auths -> Nat]
    /\ tried \in [Requests -> SUBSET Auths]
    /\ err \in [Requests -> {"none", "failed", "invalid"}]
    /\ hint \in [Requests -> Nat] /\ attempt \in [Requests -> Nat] /\ timer \in [Requests -> Nat]
    /\ ready \in [Requests -> SUBSET Auths]
    /\ \A r \in Requests : at[r] \in {"limit", "bill", "exec"} => sel[r] \in Auths

Ready == {a \in enabled : left[a] = 0}

Init ==
    /\ SelectorInit
    /\ at = [r \in Requests |-> "idle"]
    /\ enabled = Auths
    /\ left = [a \in Auths |-> 0]
    /\ recover = [a \in Auths |-> 0]
    /\ factor = [a \in Auths |-> 1]
    /\ tried = [r \in Requests |-> {}]
    /\ err = [r \in Requests |-> "none"]
    /\ hint = [r \in Requests |-> 0]
    /\ attempt = [r \in Requests |-> 0]
    /\ timer = [r \in Requests |-> 0]
    /\ ready = [r \in Requests |-> {}]
-----------------------------------------------------------------------------
\* A round of attempts begins: executeMixedOnce.
Round(r) ==
    /\ Goto(r, "next")
    /\ tried' = [tried EXCEPT ![r] = {}]
    /\ err' = [err EXCEPT ![r] = "none"]
    /\ hint' = [hint EXCEPT ![r] = 0]
    /\ still' = [still EXCEPT ![r] = TRUE]
    /\ failed' = [failed EXCEPT ![r] = FALSE]
    /\ ready' = [ready EXCEPT ![r] = Ready]
    /\ UNCHANGED <<tables, binding, cursor, edits, avail, local, sel, bill, seen, had, open,
                   asked, bound, pools, attempt>>

Execute(r) == at[r] = "idle" /\ Round(r) /\ UNCHANGED timer

\* The best credentials of a set: those with the highest priority.
Best(S) == {a \in S : \A b \in S : Priority[b] <= Priority[a]}

\* pickNextMixed: the candidates are listed, and the selector is called or the
\* round is over.
Candidates(r) == Ready \ tried[r]

Exhausted(r) == MaxCredentials > 0 /\ Cardinality(tried[r]) >= MaxCredentials

PickNext(r) ==
    /\ at[r] = "next"
    /\ \/ /\ ~Exhausted(r) /\ Candidates(r) # {}
          /\ Begin(r, Best(Candidates(r)))
          /\ UNCHANGED <<still, failed>>
       \/ /\ Exhausted(r) \/ Candidates(r) = {}
          /\ Goto(r, "over") /\ UNCHANGED picks
    /\ UNCHANGED <<pools, rounds, ready>>

\* The selector runs with the read lock held.
Picking(r) == PickStep(r) /\ UNCHANGED <<pools, rounds, ready>>

\* Results and changes of credentials need the write lock.
WriteLockFreeX == TRUE
WriteLockFree == \A r \in Requests : ~InPick(r)
-----------------------------------------------------------------------------
Smaller(m, n) == IF m <= n THEN m ELSE n

\* nextQuotaCooldown
Cooldown(n) == Smaller(Base * n, Ceiling)
NextFactor(n) == IF Base * n >= Ceiling THEN n ELSE 2 * n

\* The cooldown after a failure.  One without a class of its own (a connection
\* error, a bad request) ends the cooldown that was there.
CooldownOf(outcome, cooling) ==
    IF outcome = "unsupported" THEN Long
    ELSE IF ~cooling \/ outcome \in {"plain", "invalid"} THEN 0
    ELSE IF outcome \in {"busy", "unknown"} THEN Short ELSE Long

MarkQuota(a, wait, cooling) ==
    LET next == IF ~cooling THEN 0 ELSE IF wait > 0 THEN wait ELSE Cooldown(factor[a])
    IN  /\ left' = [left EXCEPT ![a] = next]
        /\ recover' = [recover EXCEPT ![a] = next]
        /\ factor' = IF cooling /\ wait = 0 THEN [factor EXCEPT ![a] = NextFactor(@)] ELSE factor

\* disable-cooling may be on or off: main sets it, a reload of the configuration
\* clears it.
MarkResult(a, outcome, wait) ==
    \E cooling \in BOOLEAN :
    \/ /\ outcome = "ok"
       /\ left' = [left EXCEPT ![a] = 0]
       /\ recover' = [recover EXCEPT ![a] = 0]
       /\ factor' = [factor EXCEPT ![a] = 1]
    \/ outcome = "quota" /\ MarkQuota(a, wait, cooling)
    \/ /\ outcome \notin {"ok", "quota", "missing"}
       /\ left' = [left EXCEPT ![a] = CooldownOf(outcome, cooling)]
       /\ UNCHANGED <<recover, factor>>
    \/ outcome = "missing" /\ UNCHANGED <<left, recover, factor>>

\* The history of a pick is of no use after it.
Forget(r) ==
    /\ sel' = [sel EXCEPT ![r] = None]
    /\ seen' = [seen EXCEPT ![r] = {}]
    /\ had' = [had EXCEPT ![r] = [a \in Auths |-> {}]]
    /\ open' = [open EXCEPT ![r] = [g \in RowValues |-> {}]]
    /\ asked' = [asked EXCEPT ![r] = {}]
    /\ bound' = [bound EXCEPT ![r] = None]
    /\ UNCHANGED <<tables, binding, cursor, edits, avail, local>>

\* A round ends, and the variables of executeMixedOnce with it; the metadata lives
\* as long as the request.
Leave(r, next) ==
    /\ Goto(r, next)
    /\ tried' = [tried EXCEPT ![r] = {}]
    /\ err' = [err EXCEPT ![r] = "none"]
    /\ hint' = [hint EXCEPT ![r] = 0]
    /\ bill' = IF next = "done" THEN [bill EXCEPT ![r] = None] ELSE bill
    /\ attempt' = [attempt EXCEPT ![r] = IF next = "done" THEN 0 ELSE @ + 1]
    /\ still' = [still EXCEPT ![r] = FALSE]
    /\ failed' = [failed EXCEPT ![r] = FALSE]
    /\ Forget(r)

\* The credentials that have been ready all along lose one that is blocked now.
StillReady(r, a) ==
    ready' = [q \in Requests |-> IF q = r /\ at'[q] \in {"done", "wait"} THEN {}
                                 ELSE IF left'[a] = 0 THEN ready[q] ELSE ready[q] \ {a}]

Succeed(r) ==
    /\ at[r] = "exec" /\ WriteLockFree
    /\ MarkResult(sel[r], "ok", 0)
    /\ Leave(r, "done")
    /\ StillReady(r, sel[r])
    /\ UNCHANGED <<enabled, timer>>

\* Errors of the request itself: no other credential is tried.
IsRequestInvalid(outcome) == outcome \in {"invalid", "missing", "unknown"}

\* A failed attempt leads to the next credential.
AfterFailureX(outcome) == "over"
AfterFailure(outcome) == IF IsRequestInvalid(outcome) THEN "over" ELSE "next"

\* A credential is used once in a round.
UsedX(r) == tried[r]
Used(r) == tried[r] \cup {sel[r]}

FailAttempt(r, outcome, wait) ==
    /\ at[r] = "exec" /\ WriteLockFree
    /\ outcome = "quota" \/ wait = 0
    /\ MarkResult(sel[r], outcome, wait)
    /\ Goto(r, AfterFailure(outcome))
    /\ tried' = [tried EXCEPT ![r] = Used(r)]
    /\ err' = [err EXCEPT ![r] = IF IsRequestInvalid(outcome) THEN "invalid" ELSE "failed"]
    /\ hint' = [hint EXCEPT ![r] = wait]
    /\ StillReady(r, sel[r])
    /\ Forget(r)
    /\ UNCHANGED <<bill, still, failed, enabled, attempt, timer>>

\* The client goes away while its request is executed or waits: no result is marked.
Cancel(r) ==
    /\ at[r] \in {"exec", "wait"}
    /\ Leave(r, "done")
    /\ timer' = [timer EXCEPT ![r] = 0]
    /\ ready' = [ready EXCEPT ![r] = {}]
    /\ UNCHANGED pools
-----------------------------------------------------------------------------
\* closestCooldownWait: the recovery of the quota counts when it is still to come.
WaitOf(a) == IF recover[a] > 0 THEN recover[a] ELSE left[a]

Blocked == {a \in enabled : left[a] > 0}

MayRetry(r) == err[r] # "invalid" /\ MaxWait > 0 /\ attempt[r] < RequestRetry

\* The wait before another round, if there is one: the shortest cooldown, or what
\* a 429 asked for when no credential cools down.
Waits(r) ==
    IF ~MayRetry(r) THEN {}
    ELSE IF Blocked # {}
    THEN {w \in {WaitOf(a) : a \in Blocked} : w <= MaxWait /\ \A b \in Blocked : w <= WaitOf(b)}
    ELSE {hint[r]} \cap 1 .. MaxWait

RetryAfterError(r) ==
    /\ at[r] = "over"
    /\ \/ Waits(r) = {} /\ Leave(r, "done") /\ UNCHANGED timer
       \/ \E w \in Waits(r) : Leave(r, "wait") /\ timer' = [timer EXCEPT ![r] = w]
    /\ ready' = [ready EXCEPT ![r] = {}]
    /\ UNCHANGED pools

\* waitForCooldown returns, and Execute starts the next round.
WakeUp(r) == at[r] = "wait" /\ timer[r] = 0 /\ Round(r) /\ UNCHANGED timer

\* An update of the watcher, which may disable or enable the credential, ends its
\* cooldowns: its model states are dropped or reset.
ApplyUpdate(a, on) ==
    /\ WriteLockFree /\ edits < MaxEdits /\ edits' = edits + 1
    /\ (a \in enabled) # on \/ left[a] + recover[a] > 0 \/ factor[a] > 1
    /\ enabled' = IF on THEN enabled \cup {a} ELSE enabled \ {a}
    /\ left' = [left EXCEPT ![a] = 0]
    /\ recover' = [recover EXCEPT ![a] = 0]
    /\ factor' = [factor EXCEPT ![a] = 1]
    /\ ready' = [r \in Requests |-> IF on THEN ready[r] ELSE ready[r] \ {a}]
    /\ UNCHANGED <<tables, binding, cursor, avail, local, sel, bill, history, failed, at, rounds>>

Down(n) == IF n = 0 THEN 0 ELSE n - 1

Tick ==
    /\ \/ \E a \in Auths : left[a] + recover[a] > 0
       \/ \E r \in Requests : timer[r] > 0
    /\ left' = [a \in Auths |-> Down(left[a])]
    /\ recover' = [a \in Auths |-> Down(recover[a])]
    /\ timer' = [r \in Requests |-> Down(timer[r])]
    /\ UNCHANGED <<picks, at, enabled, factor, tried, err, hint, attempt, ready>>

EditTables == Edit /\ UNCHANGED <<pools, rounds, ready>>

Step(r) ==
    \/ PickNext(r) \/ Picking(r) \/ RetryAfterError(r) \/ WakeUp(r)
    \/ Succeed(r)
    \/ \E outcome \in Failures, wait \in RetryAfters : FailAttempt(r, outcome, wait)

Next ==
    \/ \E r \in Requests : Execute(r) \/ Step(r) \/ Cancel(r)
    \/ \E a \in Auths, on \in BOOLEAN : ApplyUpdate(a, on)
    \/ EditTables
    \/ Tick

\* Queries and providers answer in the end, timers fire and time passes: as long as
\* somebody can go on, somebody does.
Progress == Tick \/ \E r \in Requests : Step(r)

Fairness == WF_vars(Progress)

Spec == Init /\ [][Next]_vars /\ Fairness
-----------------------------------------------------------------------------
\* The candidates of a pick stay ready until the pick has ended: results and
\* updates wait for the lock that a pick holds during its queries.
PickedAreReady ==
    \A r \in Requests : InPick(r) => avail[r] \subseteq Ready

\* A credential serves a request only if at some time of the pick its row named an
\* auth group (or none) that at some time of the pick was open to everyone or to a
\* group that the user had at some time of the pick.
ServesEntitled ==
    \A r \in Requests : at[r] = "exec" =>
        \E g \in had[r][sel[r]] : open[r][g] \cap seen[r] # {}

\* The group a request is billed to is one the user had during this pick, and one
\* that the mapping or the auth group of the serving credential named during it,
\* whatever an earlier attempt of the request was billed to.
BilledGroupIsGrounded ==
    \A r \in Requests : at[r] = "exec" /\ bill[r] # None =>
        /\ bill[r] \in seen[r]
        /\ bill[r] \in asked[r] \/ \E g \in had[r][sel[r]] : bill[r] \in open[r][g]

\* Use of a restricted credential or model is billed to a group, and other use to
\* none, when nothing was edited and no query failed.
RestrictedUseIsBilled ==
    \A r \in Requests : at[r] = "exec" /\ still[r] /\ ~failed[r] =>
        (bill[r] # None <=> mapping[CallProvider].groups \cup ListOf(group[sel[r]]) # {})

\* A request fails only after it has tried every credential that was ready and open
\* to its user all the time, unless one with a higher priority was closed to the
\* user: only the highest priority reaches the selector.
Shadowed(a, r) ==
    \E b \in Auths \ tried[r] :
        Priority[b] > Priority[a] /\ ~Allowed(ListOf(group[b]), member)

RoundIsThorough ==
    \A r \in Requests :
        /\ at[r] = "over" /\ still[r] /\ ~failed[r] /\ err[r] # "invalid"
        /\ ~Exhausted(r) /\ Allowed(mapping[CallProvider].groups, member)
        => \A a \in ready[r] :
             Allowed(ListOf(group[a]), member) => a \in tried[r] \/ Shadowed(a, r)

\* A user who sticks to a credential that is a candidate gets it, also when another
\* request of the user looks for one at the same time.
BindingIsUsed ==
    \A r \in Requests :
        /\ at[r] = "limit" /\ still[r] /\ ~failed[r]
        /\ mapping[CallProvider].strategy = "stick" /\ bound[r] \in avail[r]
        => sel[r] = bound[r]

\* Rounds and retries end: every request is answered.
RequestsEnd == \A r \in Requests : at[r] = "next" ~> at[r] = "done"
=============================================================================
