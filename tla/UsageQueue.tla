----------------------------- MODULE UsageQueue -----------------------------
(***************************************************************************)
(* From an HTTP request to its usage rows: the gin context of the request, *)
(* the billing metadata that middleware and selector keep in it, the queue *)
(* of usage records (CLIProxyAPI/sdk/cliproxy/usage/manager.go) and the    *)
(* plugin that turns a record into a row (internal/usage/usage.go).        *)
(*                                                                         *)
(* A queued record carries a pointer to the gin context, and the plugin    *)
(* reads the user and the billing group from that context when the record  *)
(* has its turn.  gin takes contexts from a pool, clears them for every    *)
(* request and puts them back when the handler returns.                    *)
(***************************************************************************)
EXTENDS Integers, Sequences, SequencesExt

CONSTANTS
    Requests,
    UserOf,       \* the user whose API key a request carries
    Groups, None,
    Contexts,     \* gin.Context objects
    MaxAttempts   \* how often a request tries a credential

Users == {UserOf[r] : r \in Requests}

ASSUME UsageQueueAssumption ==
    /\ None \notin Users /\ None \notin Groups
    /\ MaxAttempts \in Nat \ {0}

VARIABLES
    pool,      \* contexts that no request uses
    keys,      \* accessMetadata of a context: user and billing group
    stage,     \* where the handler of a request is
    ginCtx,    \* the context of a request
    picked,    \* the billing group picked for each attempt of a request
    sending,   \* attempts that will still publish their record
    queue, closed,   \* Manager.queue, Manager.closed
    signals,   \* wake-ups on their way: cond.Signal comes after the unlock
    worker,    \* Manager.run: looking, waiting, busy, returned
    item,      \* the record that the worker has in hand
    rows,      \* usage rows
    up         \* the process runs

http  == <<pool, keys, stage, ginCtx, picked>>
vars  == <<http, sending, queue, closed, signals, worker, item, rows, up>>

NoKeys == [user |-> None, group |-> None]
Attempts == [request : Requests, n : 1..MaxAttempts]
NoItem == [ctx |-> None, of |-> None]

Init ==
    /\ pool = Contexts /\ keys = [c \in Contexts |-> NoKeys]
    /\ stage = [r \in Requests |-> "new"]
    /\ ginCtx = [r \in Requests |-> None]
    /\ picked = [r \in Requests |-> <<>>]
    /\ sending = {}
    /\ queue = <<>> /\ closed = FALSE /\ signals = 0
    /\ worker = "looking" /\ item = NoItem
    /\ rows = <<>> /\ up = TRUE
-----------------------------------------------------------------------------
(* The request.                                                            *)

\* gin.Engine.ServeHTTP takes a context from the pool and resets it.
ServeHTTP(r) ==
    /\ up /\ stage[r] = "new"
    /\ \E c \in pool :
          /\ pool' = pool \ {c}
          /\ keys' = [keys EXCEPT ![c] = NoKeys]
          /\ ginCtx' = [ginCtx EXCEPT ![r] = c]
    /\ stage' = [stage EXCEPT ![r] = "arrived"]
    /\ UNCHANGED <<picked, sending, queue, closed, signals, worker, item, rows, up>>

\* The API key is valid: its user goes into the context.
AuthMiddleware(r) ==
    /\ up /\ stage[r] = "arrived"
    /\ keys' = [keys EXCEPT ![ginCtx[r]].user = UserOf[r]]
    /\ stage' = [stage EXCEPT ![r] = "running"]
    /\ UNCHANGED <<pool, ginCtx, picked, sending, queue, closed, signals, worker, item, rows, up>>

WithGroupX(c, g) == [keys EXCEPT ![c] = [NoKeys EXCEPT !.group = g]]
WithGroup(c, g) == [keys EXCEPT ![c].group = g]

MayTryX(r) == Len(picked[r]) <= MaxAttempts
MayTry(r) == Len(picked[r]) < MaxAttempts

\* The next attempt starts when the record of the failed one has been published.
Picking(r) ==
    /\ up /\ stage[r] = "running"
    /\ \A a \in sending : a.request # r
    /\ MayTry(r)

\* An attempt: the selector picks a credential and leaves the billing group in
\* the context, or removes the one that is there.
Pick(r) ==
    /\ Picking(r)
    /\ \E g \in Groups \cup {None} :
          /\ keys' = WithGroup(ginCtx[r], g)
          /\ picked' = [picked EXCEPT ![r] = Append(@, g)]
    /\ sending' = sending \cup {[request |-> r, n |-> Len(picked[r]) + 1]}
    /\ UNCHANGED <<pool, stage, ginCtx, queue, closed, signals, worker, item, rows, up>>

\* The metadata is a plain map.  When the selector writes to it while the worker
\* ranges over it, the Go runtime may notice and end the process.
MapRace(r) ==
    /\ Picking(r)
    /\ worker = "busy" /\ item.ctx = ginCtx[r]
    /\ up' = FALSE
    /\ UNCHANGED <<http, sending, queue, closed, signals, worker, item, rows>>

\* The handler returns, and gin puts the context back.  A stream that is read
\* by its own goroutine may publish later than that.
Finish(r) ==
    /\ up /\ stage[r] = "running" /\ picked[r] # <<>>
    /\ stage' = [stage EXCEPT ![r] = "over"]
    /\ pool' = pool \cup {ginCtx[r]}
    /\ UNCHANGED <<keys, ginCtx, picked, sending, queue, closed, signals, worker, item, rows, up>>

\* One record for each attempt, as UsageReporter guards it with a sync.Once.
EnqueuedX(a, c) == <<[ctx |-> c, of |-> a]>> \o queue
Enqueued(a, c) == Append(queue, [ctx |-> c, of |-> a])

WokenX == signals
Woken == signals + 1

Publish(a) ==
    /\ up /\ a \in sending
    /\ sending' = sending \ {a}
    /\ \/ /\ ~closed
          /\ queue' = Enqueued(a, ginCtx[a.request])
          /\ signals' = Woken
       \/ /\ closed
          /\ UNCHANGED <<queue, signals>>
    /\ UNCHANGED <<http, closed, worker, item, rows, up>>
-----------------------------------------------------------------------------
(* The worker: one goroutine of the process.                               *)

\* cond.Wait gives up the mutex and sleeps; it is asleep from this step on.
Wait ==
    /\ up /\ worker = "looking"
    /\ queue = <<>> /\ ~closed
    /\ worker' = "waiting"
    /\ UNCHANGED <<http, sending, queue, closed, signals, item, rows, up>>

\* cond.Signal of a Publish, cond.Broadcast of Stop.
Signal ==
    /\ up /\ signals > 0
    /\ signals' = signals - 1
    /\ worker' = IF worker = "waiting" THEN "looking" ELSE worker
    /\ UNCHANGED <<http, sending, queue, closed, item, rows, up>>

RestX == queue
Rest == Tail(queue)

Take ==
    /\ up /\ worker = "looking" /\ queue # <<>>
    /\ item' = Head(queue) /\ queue' = Rest
    /\ worker' = "busy"
    /\ UNCHANGED <<http, sending, closed, signals, rows, up>>

\* dispatch: the plugin reads the metadata of the record's context as it is
\* now.  The transaction may fail, then there is no row (module Ledger).
HandleUsage ==
    /\ up /\ worker = "busy"
    /\ \/ rows' = Append(rows, [of |-> item.of, user |-> keys[item.ctx].user,
                                group |-> keys[item.ctx].group])
       \/ UNCHANGED rows
    /\ worker' = "looking" /\ item' = NoItem
    /\ UNCHANGED <<http, sending, queue, closed, signals, up>>

MayReturnX == closed
MayReturn == closed /\ queue = <<>>

Return ==
    /\ up /\ worker = "looking" /\ MayReturn
    /\ worker' = "returned"
    /\ UNCHANGED <<http, sending, queue, closed, signals, item, rows, up>>

\* Stop sets closed and wakes the worker; it does not wait for it.
Stop ==
    /\ up /\ ~closed
    /\ closed' = TRUE
    /\ signals' = Woken
    /\ UNCHANGED <<http, sending, queue, worker, item, rows, up>>

\* Service.Shutdown has called Stop and returned, main returns.
Exit ==
    /\ up /\ closed /\ signals = 0
    /\ up' = FALSE
    /\ UNCHANGED <<http, sending, queue, closed, signals, worker, item, rows>>

Worker == Wait \/ Take \/ HandleUsage \/ Return

Next ==
    \/ \E r \in Requests : ServeHTTP(r) \/ AuthMiddleware(r) \/ Pick(r) \/ MapRace(r) \/ Finish(r)
    \/ \E a \in sending : Publish(a)
    \/ Signal \/ Worker
    \/ Stop \/ Exit

Spec == Init /\ [][Next]_vars

\* The worker goroutine runs whenever it can, and a wake-up arrives.
FairSpec == Spec /\ WF_vars(Worker) /\ WF_vars(Signal)
-----------------------------------------------------------------------------
Metadata == [user : Users \cup {None}, group : Groups \cup {None}]
Row == [of : Attempts, user : Users \cup {None}, group : Groups \cup {None}]
Item == [ctx : Contexts \cup {None}, of : Attempts \cup {None}]

TypeOK ==
    /\ pool \subseteq Contexts
    /\ keys \in [Contexts -> Metadata]
    /\ stage \in [Requests -> {"new", "arrived", "running", "over"}]
    /\ ginCtx \in [Requests -> Contexts \cup {None}]
    /\ picked \in [Requests -> Seq(Groups \cup {None})]
    /\ sending \subseteq Attempts
    /\ queue \in Seq(Item) /\ item \in Item
    /\ closed \in BOOLEAN /\ up \in BOOLEAN /\ signals \in Nat
    /\ worker \in {"looking", "waiting", "busy", "returned"}
    /\ rows \in Seq(Row)

\* A context serves one request at a time and holds the user of that request,
\* and a record points to the context its request had.
InUse(r) == stage[r] \in {"arrived", "running"}
FromRequest(q) ==
    /\ q.of \in Attempts /\ q.ctx = ginCtx[q.of.request]
    /\ stage[q.of.request] \in {"running", "over"}
ContextsAreOwned ==
    /\ \A r \in Requests : stage[r] # "new" => ginCtx[r] \in Contexts
    /\ \A r \in Requests : InUse(r) => ginCtx[r] \notin pool
    /\ \A r, s \in Requests : InUse(r) /\ InUse(s) /\ ginCtx[r] = ginCtx[s] => r = s
    /\ \A r \in Requests : stage[r] = "running" => keys[ginCtx[r]].user = UserOf[r]
    /\ \A a \in sending : stage[a.request] \in {"running", "over"}
    /\ \A i \in DOMAIN queue : FromRequest(queue[i])
    /\ worker = "busy" => FromRequest(item)

\* Records of one request become rows in the order of its attempts, each at
\* most once, however the handlers, the queue and the worker interleave.
RowsInOrder ==
    \A i, j \in DOMAIN rows :
        i < j /\ rows[i].of.request = rows[j].of.request => rows[i].of.n < rows[j].of.n

\* A worker that sleeps has been asleep since the queue was empty, or a wake-up
\* is on its way: nothing is left in the queue behind its back.
NoLostWakeUp == worker = "waiting" /\ (queue # <<>> \/ closed) => signals > 0

\* No record is in the queue twice, or both in the queue and in hand or done.
Unhandled == {queue[i].of : i \in DOMAIN queue} \cup ({item.of} \ {None})
HandledOnce ==
    /\ IsInjective(queue)
    /\ \A i \in DOMAIN rows : rows[i].of \notin Unhandled

\* A record that is handled while its request still runs finds the user of that
\* request: nobody else writes to a context that is in use.
RunningRequestsKeepTheirUser ==
    [][\A r \in Requests :
          Len(rows') > Len(rows) /\ item.of.request = r /\ stage[r] = "running"
          => Last(rows').user = UserOf[r]]_vars

\* Every queued record is handled, also those in the queue when Stop is called,
\* unless the process is gone first.
QueueIsServed ==
    \A a \in Attempts : a \in Unhandled ~> (a \notin Unhandled \/ ~up)
-----------------------------------------------------------------------------
(* What the source says and the code does not do.                          *)

\* models/usage.go:18, "Related user ID": the row of a request names its user.
RowsNameTheirUser == \A i \in DOMAIN rows : rows[i].user = UserOf[rows[i].of.request]
=============================================================================
