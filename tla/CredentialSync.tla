--------------------------- MODULE CredentialSync ---------------------------
(***************************************************************************)
(* How the credential rows reach the proxy, and how the proxy writes them  *)
(* back.  The administrator edits the rows (auth_files.go).  The database  *)
(* watcher polls them every two seconds, compares what it reads with its   *)
(* own snapshot and marks an update per credential (watcher.go); a second  *)
(* goroutine passes the marked updates to the service through a channel,   *)
(* and the service changes the credential manager and the model registry   *)
(* (service.go).  The manager refreshes tokens and saves credentials after *)
(* requests, with its own copy of the content (conductor.go, store.go).    *)
(*                                                                         *)
(* Time is a counter that every stamp of a row (its updated_at), every new *)
(* token, every change of the configuration and every restart takes one    *)
(* further.  Contents are numbered by the time they were made.  A row is   *)
(* known by its key, and one administrator at a time is at work.           *)
(***************************************************************************)
EXTENDS Integers, Sequences, FiniteSets

CONSTANTS Keys,      \* credentials: the key column of their rows
          None,
          Workers,   \* token refreshes that may run at the same time
          Tables,    \* the tables a run may start with
          Edits,     \* the handlers that the administrator uses
          QueueCap,  \* capacity of the channel to the service
          Now,       \* the time at the start
          MaxClock   \* bound on time: later nothing new is started

\* The content of a row that names no provider: the watcher makes no
\* credential of it and nothing refreshes it.
Untyped == 0

Row == [c : Nat, on : BOOLEAN, at : Nat]
Table == [Keys -> Row \cup {None}]
Seen == [c : Nat, at : Nat]
Update == [id : Keys, do : {"put", "delete"}, c : Nat]
Entry == [c : Nat, off : BOOLEAN]
NoWork == [st |-> "idle", k |-> None, c |-> Untyped, off |-> FALSE]
Work == {NoWork} \cup [st : {"net", "save"}, k : Keys, c : Nat, off : BOOLEAN]

ASSUME SyncAssumption ==
    /\ None \notin Keys \cup Nat \cup BOOLEAN \cup Row \cup Seen \cup Update \cup Entry
    /\ IsFiniteSet(Keys) /\ QueueCap \in Nat /\ MaxClock \in Nat /\ Now \in Nat
    /\ Tables \subseteq Table
    /\ \A t \in Tables : \A k \in Keys : t[k] # None => t[k].at \in 1..Now
    /\ Edits \subseteq {"create", "import", "update", "switch", "delete"}

VARIABLES
    row,      \* table auths: content, is_available, updated_at
    late,     \* rows that were written after a younger stamp was given, and not
              \* read since
    clock,
    stamp,    \* updated_at of the edit that the administrator is about to write
    prev,     \* dbWatcher.authStates
    max,      \* dbWatcher.maxUpdatedAt
    first,    \* the poll at the start, before the ticker runs, is still to come
    force,    \* dbWatcher.forceAuth
    poll,     \* pollAuth between its queries: was it forced, what stamp it read
    pending,  \* dbWatcher.pending
    queue,    \* the batch being sent, and the channel Service.authUpdates
    auths,    \* Manager.auths
    models,   \* credentials with registered models
    renewed,  \* history: credentials that a refresh has put in memory, and no update since
    work      \* token refreshes

database == <<row, late, clock>>
watcher == <<prev, max, first, force, poll>>
channel == <<pending, queue>>
service == <<auths, models, renewed, work>>
vars == <<database, stamp, watcher, channel, service>>

TypeOK ==
    /\ row \in Table /\ late \subseteq Keys /\ clock \in Nat
    /\ stamp \in Nat \cup {None}
    /\ prev \in [Keys -> Seen \cup {None}] /\ max \in Nat /\ {first, force} \subseteq BOOLEAN
    /\ poll \in [force : BOOLEAN, at : Nat] \cup {None}
    /\ pending \in [Keys -> Update \cup {None}] /\ queue \in Seq(Update)
    /\ auths \in [Keys -> Entry \cup {None}]
    /\ models \subseteq Keys /\ renewed \subseteq Keys
    /\ work \in [Workers -> Work]

Nothing == [k \in Keys |-> None]

Idle == [w \in Workers |-> NoWork]

\* Manager.Load at the start takes every row, the unavailable ones too.
Loaded == [k \in Keys |-> IF row[k] = None THEN None ELSE [c |-> row[k].c, off |-> FALSE]]

\* No credential has models yet.  Reading the configuration for the first
\* time asks for a forced poll.
Init ==
    /\ row \in Tables /\ late = {} /\ clock = Now /\ stamp = None
    /\ auths = Loaded /\ models = {} /\ renewed = {} /\ work = Idle
    /\ prev = Nothing /\ max = 0 /\ first = TRUE /\ force = TRUE /\ poll = None
    /\ pending = Nothing /\ queue = <<>>

-----------------------------------------------------------------------------
(***************************************************************************)
(* The administrator (auth_files.go).  A handler takes a stamp and         *)
(* writes the row afterwards; the quota poller, which switches a           *)
(* credential whose login has expired, does the same.  No handler reads    *)
(* the row.                                                                *)
(***************************************************************************)
Stamp ==
    /\ stamp = None /\ clock < MaxClock
    /\ clock' = clock + 1
    /\ stamp' = clock'
    /\ UNCHANGED <<row, late, watcher, channel, service>>

\* The row of k becomes r with the stamp the handler took.
Write(k, c, on) ==
    /\ row' = [row EXCEPT ![k] = [c |-> c, on |-> on, at |-> stamp]]
    /\ late' = IF clock > stamp THEN late \cup {k} ELSE late \ {k}

Edit(op, k) ==
    /\ op \in Edits /\ stamp # None /\ stamp' = None
    /\ UNCHANGED <<clock, watcher, channel, service>>

Refused == UNCHANGED <<row, late>>

\* A new row is always available: the column's default replaces a false.
Create(k) ==
    /\ Edit("create", k)
    /\ IF row[k] = None THEN \E c \in {Untyped, stamp} : Write(k, c, TRUE) ELSE Refused

Import(k) ==
    /\ Edit("import", k)
    /\ \E c \in {Untyped, stamp} :
          IF row[k] = None THEN Write(k, c, TRUE) ELSE \E on \in BOOLEAN : Write(k, c, on)

\* Update writes the columns it is given.
Change(k) ==
    /\ Edit("update", k)
    /\ IF row[k] = None THEN Refused
       ELSE \E c \in {Untyped, stamp, row[k].c}, on \in BOOLEAN : Write(k, c, on)

\* SetAvailable and SetUnavailable.
Switch(k) ==
    /\ Edit("switch", k)
    /\ IF row[k] = None THEN Refused ELSE \E on \in BOOLEAN : Write(k, row[k].c, on)

\* Delete and BatchDelete.
Delete(ks) ==
    /\ "delete" \in Edits /\ stamp = None
    /\ ks # {} /\ \A k \in ks : row[k] # None
    /\ row' = [k \in Keys |-> IF k \in ks THEN None ELSE row[k]]
    /\ late' = late \ ks
    /\ UNCHANGED <<clock, stamp, watcher, channel, service>>

-----------------------------------------------------------------------------
(***************************************************************************)
(* The watcher.                                                            *)
(***************************************************************************)
Stamps == {row[k].at : k \in {j \in Keys : row[j] # None}}

\* ORDER BY updated_at DESC LIMIT 1; 0 stands for no row.
IsNewest(t) == IF Stamps = {} THEN t = 0 ELSE t \in Stamps /\ \A u \in Stamps : u <= t

\* The poll at the start is forced and leaves the flag alone; a later one
\* takes it.
Forced == first \/ force

TakeForce == first' = FALSE /\ force' = (first /\ force)

\* pollAuth reads the newest stamp of any row.  Unless it is forced it goes on
\* only when that stamp is newer than the last one, or when there are no rows
\* and the last poll has seen some.
PollNewest ==
    /\ poll = None
    /\ TakeForce
    /\ \E t \in Stamps \cup {0} :
          /\ IsNewest(t)
          /\ LET changed == IF Stamps = {} THEN \E k \in Keys : prev[k] # None ELSE t > max
             IN  poll' = IF Forced \/ changed THEN [force |-> Forced, at |-> t] ELSE None
    /\ UNCHANGED <<database, stamp, prev, max, channel, service>>

\* What the snapshot has of a row: nothing when it is not available.
Shown(r) == IF r = None THEN None ELSE IF r.on THEN [c |-> r.c, at |-> r.at] ELSE None

\* Variant for the mutation check: an update that is still waiting is kept.
MarkedX(k, old, new, u) ==
    IF u # None THEN u
    ELSE IF new = None
         THEN IF old = None THEN u ELSE [id |-> k, do |-> "delete", c |-> Untyped]
         ELSE IF new.c # Untyped /\ (poll.force \/ new # old)
              THEN [id |-> k, do |-> "put", c |-> new.c]
              ELSE u

\* The update for credential k when the snapshot goes from old to new;
\* u is what was marked before.
Marked(k, old, new, u) ==
    IF new = None
    THEN IF old = None THEN u ELSE [id |-> k, do |-> "delete", c |-> Untyped]
    ELSE IF new.c # Untyped /\ (poll.force \/ new # old)
         THEN [id |-> k, do |-> "put", c |-> new.c]
         ELSE u

\* pollAuth reads the available rows, marks an update per change and replaces
\* the snapshot.
PollRows ==
    /\ poll # None
    /\ prev' = [k \in Keys |-> Shown(row[k])]
    /\ pending' = [k \in Keys |-> Marked(k, prev[k], prev'[k], pending[k])]
    /\ max' = poll.at
    /\ poll' = None
    /\ late' = {}
    /\ UNCHANGED <<row, clock, stamp, first, force, queue, service>>

\* One of the two queries fails; a flag that was taken is lost.
PollFails ==
    /\ IF poll = None THEN TakeForce ELSE UNCHANGED <<first, force>>
    /\ poll' = None
    /\ UNCHANGED <<database, stamp, prev, max, channel, service>>

\* A change of the configuration, which the same goroutine polls before, asks
\* for a forced poll.
MarkForce ==
    /\ poll = None /\ ~first /\ clock < MaxClock
    /\ clock' = clock + 1
    /\ force' = TRUE
    /\ UNCHANGED <<row, late, stamp, prev, max, first, poll, channel, service>>

Waiting == {k \in Keys : pending[k] # None}

\* nextBatch takes everything that is marked, in any order, once the batch
\* before fits in the channel.
TakeBatch ==
    /\ Waiting # {} /\ Len(queue) <= QueueCap
    /\ \E order \in [1..Cardinality(Waiting) -> Waiting] :
          /\ \A k \in Waiting : \E i \in DOMAIN order : order[i] = k
          /\ queue' = queue \o [i \in DOMAIN order |-> pending[order[i]]]
    /\ pending' = Nothing
    /\ UNCHANGED <<database, stamp, watcher, service>>

-----------------------------------------------------------------------------
(***************************************************************************)
(* The service and the credential manager.                                 *)
(***************************************************************************)

Replaced(k, c) == [c |-> c, off |-> FALSE]

\* handleAuthUpdate: an added or changed credential replaces the one in
\* memory and gets its models; a deleted one loses them and is disabled.
\* Neither is written to the database.
Apply ==
    /\ queue # <<>>
    /\ queue' = Tail(queue)
    /\ LET u == Head(queue) k == Head(queue).id
       IN  IF u.do = "put"
           THEN /\ auths' = [auths EXCEPT ![k] = Replaced(k, u.c)]
                /\ models' = models \cup {k}
                /\ renewed' = renewed \ {k}
           ELSE /\ auths' = [auths EXCEPT ![k] = IF @ = None THEN None ELSE [@ EXCEPT !.off = TRUE]]
                /\ models' = models \ {k}
                /\ UNCHANGED renewed
    /\ UNCHANGED <<database, stamp, watcher, pending, work>>

\* Variant for the mutation check: the upsert leaves updated_at alone.
SaveX(k, c, off) ==
    IF off \/ (row[k] # None /\ row[k].c = c)
    THEN UNCHANGED database
    ELSE /\ clock' = clock + 1
         /\ row' = [row EXCEPT ![k] = IF @ = None THEN [c |-> c, on |-> TRUE, at |-> clock']
                                                ELSE [@ EXCEPT !.c = c]]
         /\ late' = late \ {k}

\* GormAuthStore.Save: a disabled credential is not saved, an equal content
\* is not written; otherwise the row gets the content, or is inserted.
Save(k, c, off) ==
    IF off \/ (row[k] # None /\ row[k].c = c)
    THEN UNCHANGED database
    ELSE /\ clock' = clock + 1
         /\ row' = [row EXCEPT ![k] = [c |-> c, on |-> IF @ = None THEN TRUE ELSE @.on, at |-> clock']]
         /\ late' = late \ {k}

Selectable(k) == k \in models /\ auths[k] # None /\ ~auths[k].off

\* MarkResult at the end of a request persists the credential as it is in
\* memory by then.  A result for a credential that can no longer be selected
\* is left out: a disabled one is not saved.
MarkResult(k) ==
    /\ Selectable(k) /\ clock < MaxClock
    /\ Save(k, auths[k].c, FALSE)
    /\ UNCHANGED <<stamp, watcher, channel, service>>

\* refreshAuth copies the credential and calls the provider; nothing asks
\* whether it is disabled.
StartRefresh(w, k) ==
    /\ work[w].st = "idle" /\ auths[k] # None /\ auths[k].c # Untyped
    /\ work' = [work EXCEPT ![w] = [NoWork EXCEPT !.st = "net", !.k = k, !.off = auths[k].off]]
    /\ UNCHANGED <<database, stamp, watcher, channel, auths, models, renewed>>

\* The provider answers with new tokens, and Update puts the copy in memory.
FinishRefresh(w) ==
    /\ work[w].st = "net" /\ clock < MaxClock
    /\ clock' = clock + 1
    /\ work' = [work EXCEPT ![w].st = "save", ![w].c = clock']
    /\ auths' = [auths EXCEPT ![work[w].k] = [c |-> clock', off |-> work[w].off]]
    /\ renewed' = renewed \cup {work[w].k}
    /\ UNCHANGED <<row, late, stamp, watcher, channel, models>>

\* Update persists the copy.
SaveRefresh(w) ==
    /\ work[w].st = "save"
    /\ Save(work[w].k, work[w].c, work[w].off)
    /\ work' = [work EXCEPT ![w] = NoWork]
    /\ UNCHANGED <<stamp, watcher, channel, auths, models, renewed>>

\* The provider or the database does not answer; the error of the save is
\* dropped.
FailRefresh(w) ==
    /\ work[w].st # "idle"
    /\ work' = [work EXCEPT ![w] = NoWork]
    /\ UNCHANGED <<database, stamp, watcher, channel, auths, models, renewed>>

\* The program stops and starts again.
Restart ==
    /\ clock < MaxClock
    /\ clock' = clock + 1
    /\ auths' = Loaded /\ models' = {} /\ renewed' = {} /\ work' = Idle
    /\ prev' = Nothing /\ max' = 0 /\ first' = TRUE /\ force' = TRUE /\ poll' = None
    /\ pending' = Nothing /\ queue' = <<>> /\ stamp' = None
    /\ late' = {} /\ UNCHANGED row

-----------------------------------------------------------------------------
Watch == PollNewest \/ PollRows \/ PollFails \/ MarkForce \/ TakeBatch \/ Apply

Next ==
    \/ Stamp
    \/ \E k \in Keys : Create(k) \/ Import(k) \/ Change(k) \/ Switch(k)
    \/ \E ks \in SUBSET Keys : Delete(ks)
    \/ Watch
    \/ \E k \in Keys : MarkResult(k)
    \/ \E w \in Workers : \/ \E k \in Keys : StartRefresh(w, k)
                          \/ FinishRefresh(w) \/ SaveRefresh(w) \/ FailRefresh(w)
    \/ Restart

Spec == Init /\ [][Next]_vars

\* The two goroutines of the watcher and the consumer of the channel run, and
\* the database does not fail every poll.
FairSpec ==
    /\ Spec
    /\ WF_vars(PollNewest) /\ SF_vars(PollRows) /\ WF_vars(TakeBatch) /\ WF_vars(Apply)

-----------------------------------------------------------------------------
\* Skipping a poll is sound: a row whose stamp is not newer than the last one
\* the watcher has seen is in the snapshot as it is (watcher.go: the early
\* return of pollAuth).  Rows committed after a younger stamp are the
\* exception.
SkipIsSound ==
    \A k \in Keys : row[k] # None /\ k \notin late /\ row[k].at <= max => prev[k] = Shown(row[k])

Typed(k) == prev[k] = None \/ prev[k].c # Untyped

\* What update u leaves agrees with the snapshot.
Agrees(u, k) == IF prev[k] = None THEN u.do = "delete" ELSE u.do = "put" /\ u.c = prev[k].c

LastOf(i, k) == queue[i].id = k /\ \A j \in (i + 1)..Len(queue) : queue[j].id # k

Settled(k) == pending[k] = None /\ \A i \in 1..Len(queue) : queue[i].id # k

\* The proxy has what the snapshot says: models exactly for the credentials in
\* it, with their content, unless a refresh has put another one there since.
Served(k) ==
    IF prev[k] = None THEN k \notin models
    ELSE k \in models /\ (k \in renewed \/ auths[k] = [c |-> prev[k].c, off |-> FALSE])

\* The last update under way for a credential leads to what the snapshot
\* says, and with none under way the proxy has what the snapshot says:
\* coalescing, batches and the channel lose or reorder no update (watcher.go:
\* enqueueUpdate, nextBatch, dispatchLoop; service.go: handleAuthUpdate).
SnapshotIsDelivered ==
    \A k \in Keys : Typed(k) =>
        /\ pending[k] # None => Agrees(pending[k], k)
        /\ pending[k] = None => \A i \in 1..Len(queue) : LastOf(i, k) => Agrees(queue[i], k)
        /\ Settled(k) => Served(k)

Arrived(k) ==
    row[k] # None /\ k \notin late /\ row[k].c # Untyped
        => prev[k] = Shown(row[k]) /\ Served(k)


\* Results overwrite no edit that has been delivered: from then on, until a
\* refresh, the copy in memory is the edit, and a result that saves it changes no
\* row and no stamp, whatever updates, polls and restarts there were before
\* (conductor.go: MarkResult; store.go: the comparison in Save).
DeliveredEditsStay ==
    [][\A k \in Keys :
          MarkResult(k) /\ Settled(k) /\ k \notin renewed
             /\ prev[k] # None /\ prev[k] = Shown(row[k]) /\ Typed(k)
          => UNCHANGED database]_vars

\* A rotated token that has been saved is not overwritten by an older one
\* (conductor.go: persist; docs/admin-guide.md, Kiro credentials).
SavedTokenStays ==
    [][\A k \in Keys : row[k] # None /\ row'[k] # None => row'[k].c >= row[k].c]_vars
=============================================================================
