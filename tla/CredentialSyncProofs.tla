------------------------ MODULE CredentialSyncProofs ------------------------
(* Theorems about CredentialSync, for any credentials, tables and workers. *)
EXTENDS CredentialSync, FiniteSetTheorems, SequenceTheorems, TLAPS

USE SyncAssumption

LEMMA NoWorkType == NoWork \in Work
  BY DEF NoWork, Work, Untyped

LEMMA LoadedType ==
    ASSUME row \in Table
    PROVE  Loaded \in [Keys -> Entry \cup {None}]
  BY DEF Loaded, Table, Row, Entry

LEMMA ShownType ==
    ASSUME NEW r \in Row \cup {None}
    PROVE  Shown(r) \in Seen \cup {None}
  BY DEF Shown, Row, Seen

LEMMA StampType ==
    ASSUME row \in Table
    PROVE  Stamps \subseteq Nat
  BY DEF Stamps, Table, Row

LEMMA MarkedType ==
    ASSUME NEW k \in Keys, NEW old \in Seen \cup {None}, NEW new \in Seen \cup {None},
           NEW u \in Update \cup {None}
    PROVE  Marked(k, old, new, u) \in Update \cup {None}
  BY DEF Marked, Update, Seen, Untyped

\* What nextBatch appends are the marked updates.
LEMMA BatchType ==
    ASSUME pending \in [Keys -> Update \cup {None}],
           NEW order \in [1..Cardinality(Waiting) -> Waiting]
    PROVE  /\ [i \in DOMAIN order |-> pending[order[i]]] \in Seq(Update)
           /\ DOMAIN order = 1..Cardinality(Waiting) /\ Cardinality(Waiting) \in Nat
  <1>1. IsFiniteSet(Waiting)
    BY FS_Subset DEF Waiting
  <1>2. Cardinality(Waiting) \in Nat
    BY <1>1, FS_CardinalityType
  <1>3. \A i \in DOMAIN order : pending[order[i]] \in Update
    BY DEF Waiting
  <1> QED BY <1>2, <1>3

LEMMA TypeInit == Init => TypeOK
  <1> SUFFICES ASSUME Init PROVE TypeOK
    OBVIOUS
  <1>1. row \in Table
    BY DEF Init
  <1>2. auths \in [Keys -> Entry \cup {None}]
    BY <1>1, LoadedType DEF Init
  <1>3. work \in [Workers -> Work]
    BY NoWorkType DEF Init, Idle
  <1> QED BY <1>1, <1>2, <1>3 DEF Init, TypeOK, Nothing

\* The writes of the administrator keep the type of the table.
LEMMA WriteType ==
    ASSUME TypeOK, stamp # None, NEW k \in Keys, NEW c \in Nat, NEW on \in BOOLEAN, Write(k, c, on)
    PROVE  row' \in Table /\ late' \subseteq Keys
  <1>1. [c |-> c, on |-> on, at |-> stamp] \in Row
    BY DEF TypeOK, Row
  <1> QED BY <1>1 DEF Write, TypeOK, Table

\* A save writes nothing, or a row with the youngest stamp.
LEMMA SaveWrites ==
    ASSUME TypeOK, NEW k \in Keys, NEW c \in Nat, NEW off, Save(k, c, off)
    PROVE  \/ UNCHANGED database
           \/ /\ clock' = clock + 1 /\ late' = late \ {k}
              /\ \E r \in Row : row' = [row EXCEPT ![k] = r] /\ r.at = clock + 1
  <1>1. ASSUME ~UNCHANGED database
        PROVE  /\ clock' = clock + 1 /\ late' = late \ {k}
               /\ row' = [row EXCEPT ![k] = [c |-> c, on |-> IF @ = None THEN TRUE ELSE @.on, at |-> clock']]
    BY <1>1 DEF Save
  <1>2. row[k] # None => row[k].on \in BOOLEAN
    BY DEF TypeOK, Table, Row
  <1>3. [c |-> c, on |-> IF row[k] = None THEN TRUE ELSE row[k].on, at |-> clock + 1] \in Row
    <2>1. CASE row[k] = None
      BY <2>1 DEF TypeOK, Row
    <2>2. CASE row[k] # None
      BY <1>2, <2>2 DEF TypeOK, Row
    <2> QED BY <2>1, <2>2
  <1> QED BY <1>1, <1>3

LEMMA SaveType ==
    ASSUME TypeOK, NEW k \in Keys, NEW c \in Nat, NEW off, Save(k, c, off)
    PROVE  row' \in Table /\ late' \subseteq Keys /\ clock' \in Nat
  BY SaveWrites DEF TypeOK, Table, database

\* What a handler of the administrator does to the table.
LEMMA AdminWrites ==
    ASSUME TypeOK, NEW k \in Keys, Create(k) \/ Import(k) \/ Change(k) \/ Switch(k)
    PROVE  UNCHANGED <<row, late>> \/ \E c \in Nat, on \in BOOLEAN : Write(k, c, on)
  <1>1. stamp \in Nat
    BY DEF Create, Import, Change, Switch, Edit, TypeOK
  <1>2. row[k] # None => row[k].c \in Nat
    BY DEF TypeOK, Table, Row
  <1>3. CASE Create(k)
    BY <1>1, <1>3 DEF Create, Refused, Untyped
  <1>4. CASE Import(k)
    BY <1>1, <1>4 DEF Import, Untyped
  <1>5. CASE Change(k)
    BY <1>1, <1>2, <1>5 DEF Change, Refused, Untyped
  <1>6. CASE Switch(k)
    BY <1>2, <1>6 DEF Switch, Refused
  <1> QED BY <1>3, <1>4, <1>5, <1>6

LEMMA AdminType ==
    ASSUME TypeOK, NEW k \in Keys, Create(k) \/ Import(k) \/ Change(k) \/ Switch(k)
    PROVE  /\ row' \in Table /\ late' \subseteq Keys /\ stamp' = None
           /\ UNCHANGED <<clock, watcher, channel, service>>
  <1>1. stamp # None /\ stamp' = None /\ UNCHANGED <<clock, watcher, channel, service>>
    BY DEF Create, Import, Change, Switch, Edit
  <1>2. CASE UNCHANGED <<row, late>>
    BY <1>1, <1>2 DEF TypeOK
  <1>3. CASE \E c \in Nat, on \in BOOLEAN : Write(k, c, on)
    BY <1>1, <1>3, WriteType
  <1> QED BY <1>2, <1>3, AdminWrites

LEMMA TypeStep ==
    ASSUME TypeOK, [Next]_vars
    PROVE  TypeOK'
  <1> USE DEF watcher, channel, service
  <1>1. ASSUME Stamp PROVE TypeOK'
    BY <1>1 DEF Stamp, TypeOK
  <1>2. ASSUME NEW k \in Keys, Create(k) \/ Import(k) \/ Change(k) \/ Switch(k) PROVE TypeOK'
    BY <1>2, AdminType DEF TypeOK
  <1>3. ASSUME NEW ks \in SUBSET Keys, Delete(ks) PROVE TypeOK'
    BY <1>3 DEF Delete, TypeOK, Table
  <1>4. ASSUME PollNewest PROVE TypeOK'
    <2>1. PICK t \in Stamps \cup {0} : poll' \in {[force |-> Forced, at |-> t], None}
      BY <1>4 DEF PollNewest
    <2>2. t \in Nat /\ Forced \in BOOLEAN
      BY StampType DEF TypeOK, Forced
    <2>3. first' \in BOOLEAN /\ force' \in BOOLEAN
      BY <1>4 DEF PollNewest, TakeForce, TypeOK
    <2> QED BY <1>4, <2>1, <2>2, <2>3 DEF PollNewest, TypeOK, database
  <1>5. ASSUME PollRows PROVE TypeOK'
    <2>1. prev' \in [Keys -> Seen \cup {None}]
      <3>1. \A k \in Keys : Shown(row[k]) \in Seen \cup {None}
        BY ShownType DEF TypeOK, Table
      <3> QED BY <1>5, <3>1 DEF PollRows
    <2>2. pending' \in [Keys -> Update \cup {None}]
      <3>1. \A k \in Keys : Marked(k, prev[k], prev'[k], pending[k]) \in Update \cup {None}
        BY <2>1, MarkedType DEF TypeOK
      <3> QED BY <1>5, <3>1 DEF PollRows
    <2>3. max' \in Nat
      BY <1>5 DEF PollRows, TypeOK
    <2> QED BY <1>5, <2>1, <2>2, <2>3 DEF PollRows, TypeOK
  <1>6. ASSUME PollFails PROVE TypeOK'
    BY <1>6 DEF PollFails, TakeForce, TypeOK, database
  <1>7. ASSUME MarkForce PROVE TypeOK'
    BY <1>7 DEF MarkForce, TypeOK
  <1>8. ASSUME TakeBatch PROVE TypeOK'
    <2>1. PICK order \in [1..Cardinality(Waiting) -> Waiting] :
             queue' = queue \o [i \in DOMAIN order |-> pending[order[i]]]
      BY <1>8 DEF TakeBatch
    <2>2. queue' \in Seq(Update)
      BY <2>1, BatchType, ConcatProperties DEF TypeOK
    <2> QED BY <1>8, <2>2 DEF TakeBatch, TypeOK, database, Nothing
  <1>9. ASSUME Apply PROVE TypeOK'
    <2>1. Head(queue) \in Update /\ queue' \in Seq(Update)
      BY <1>9 DEF Apply, TypeOK
    <2>2. auths' \in [Keys -> Entry \cup {None}]
      <3> DEFINE u == Head(queue)
      <3>1. u.id \in Keys /\ [c |-> u.c, off |-> FALSE] \in Entry
        BY <2>1 DEF Update, Entry
      <3>2. auths[u.id] # None => [auths[u.id] EXCEPT !.off = TRUE] \in Entry
        BY <3>1 DEF TypeOK, Entry
      <3>3. \/ auths' = [auths EXCEPT ![u.id] = [c |-> u.c, off |-> FALSE]]
            \/ auths' = [auths EXCEPT ![u.id] = IF @ = None THEN None ELSE [@ EXCEPT !.off = TRUE]]
        BY <1>9 DEF Apply, Replaced
      <3> HIDE DEF u
      <3> QED BY <3>1, <3>2, <3>3 DEF TypeOK
    <2>3. models' \subseteq Keys /\ renewed' \subseteq Keys
      BY <1>9, <2>1 DEF Apply, TypeOK, Update
    <2> QED BY <1>9, <2>1, <2>2, <2>3 DEF Apply, TypeOK, database
  <1>10. ASSUME NEW k \in Keys, MarkResult(k) PROVE TypeOK'
    <2>1. auths[k].c \in Nat
      BY <1>10 DEF MarkResult, Selectable, TypeOK, Entry
    <2> QED BY <1>10, <2>1, SaveType DEF MarkResult, TypeOK
  <1>11. ASSUME NEW w \in Workers, NEW k \in Keys, StartRefresh(w, k) PROVE TypeOK'
    <2>1. [NoWork EXCEPT !.st = "net", !.k = k, !.off = auths[k].off] \in Work
      BY <1>11 DEF StartRefresh, TypeOK, Entry, NoWork, Work, Untyped
    <2> QED BY <1>11, <2>1 DEF StartRefresh, TypeOK, database
  <1>12. ASSUME NEW w \in Workers, FinishRefresh(w) PROVE TypeOK'
    <2>1. clock' \in Nat /\ work[w] \in Work
      BY <1>12 DEF FinishRefresh, TypeOK
    <2>2. work[w] \in [st : {"net", "save"}, k : Keys, c : Nat, off : BOOLEAN]
      BY <1>12, <2>1 DEF FinishRefresh, Work, NoWork
    <2>3. [c |-> clock', off |-> work[w].off] \in Entry
      BY <2>1, <2>2 DEF Entry
    <2>4. work' \in [Workers -> Work]
      <3>1. [work[w] EXCEPT !.st = "save", !.c = clock'] \in Work
        BY <2>1, <2>2 DEF Work
      <3> QED BY <1>12, <3>1 DEF FinishRefresh, TypeOK
    <2>5. renewed' \subseteq Keys
      BY <1>12, <2>2 DEF FinishRefresh, TypeOK
    <2> QED BY <1>12, <2>1, <2>3, <2>4, <2>5 DEF FinishRefresh, TypeOK
  <1>13. ASSUME NEW w \in Workers, SaveRefresh(w) PROVE TypeOK'
    <2>1. work' \in [Workers -> Work]
      BY <1>13, NoWorkType DEF SaveRefresh, TypeOK
    <2>2. work[w].k \in Keys /\ work[w].c \in Nat
      BY <1>13 DEF SaveRefresh, TypeOK, Work, NoWork
    <2>3. row' \in Table /\ late' \subseteq Keys /\ clock' \in Nat
      BY <1>13, <2>2, SaveType DEF SaveRefresh
    <2> QED BY <1>13, <2>1, <2>3 DEF SaveRefresh, TypeOK
  <1>14. ASSUME NEW w \in Workers, FailRefresh(w) PROVE TypeOK'
    BY <1>14, NoWorkType DEF FailRefresh, TypeOK, database
  <1>15. ASSUME Restart PROVE TypeOK'
    BY <1>15, LoadedType, NoWorkType DEF Restart, TypeOK, Nothing, Idle
  <1>16. ASSUME UNCHANGED vars PROVE TypeOK'
    BY <1>16 DEF vars, database, TypeOK
  <1> QED
    BY <1>1, <1>2, <1>3, <1>4, <1>5, <1>6, <1>7, <1>8, <1>9, <1>10, <1>11, <1>12, <1>13, <1>14,
       <1>15, <1>16 DEF Next, Watch

\* Type correctness: every variable keeps its type.
THEOREM TypeCorrect == Spec => []TypeOK
  <1> QED BY TypeInit, TypeStep, PTL DEF Spec

-----------------------------------------------------------------------------
\* Stamps are unique as far as SkipIsSound needs it: nothing carries a stamp
\* from the future, and the one an administrator holds is on no row and has
\* not been seen by the watcher.
StampInv ==
    /\ max <= clock /\ (poll # None => poll.at <= clock)
    /\ \A k \in Keys : row[k] # None => row[k].at <= clock /\ 0 < row[k].at
    /\ stamp # None =>
          /\ stamp <= clock /\ 0 < stamp /\ max # stamp /\ (poll # None => poll.at # stamp)
          /\ \A k \in Keys : row[k] # None => row[k].at # stamp

SkipInv == TypeOK /\ StampInv /\ SkipIsSound

LEMMA SkipInit == Init => SkipInv
  <1> SUFFICES ASSUME Init PROVE SkipInv
    OBVIOUS
  <1>1. \A k \in Keys : row[k] # None => row[k].at \in 1..Now
    BY DEF Init
  <1> QED BY <1>1, TypeInit DEF Init, SkipInv, StampInv, SkipIsSound

\* A save that writes gives the row the youngest stamp.
LEMMA SaveKeepsSkip ==
    ASSUME SkipInv, NEW k \in Keys, NEW c \in Nat, NEW off, Save(k, c, off),
           UNCHANGED <<stamp, prev, max, poll>>
    PROVE  StampInv' /\ SkipIsSound'
  <1> USE DEF SkipInv
  <1>1. CASE UNCHANGED database
    BY <1>1 DEF database, StampInv, SkipIsSound
  <1>2. CASE ~UNCHANGED database
    <2>1. PICK r \in Row : row' = [row EXCEPT ![k] = r] /\ r.at = clock + 1
      BY <1>2, SaveWrites
    <2>2. clock' = clock + 1 /\ late' = late \ {k}
      BY <1>2, SaveWrites
    <2>3. /\ row'[k] # None /\ row'[k].at = clock + 1
          /\ \A j \in Keys : j # k => row'[j] = row[j]
      BY <2>1 DEF TypeOK, Table
    <2>4. clock \in Nat /\ max \in Nat /\ (stamp # None => stamp \in Nat)
          /\ (poll # None => poll.at \in Nat)
          /\ \A j \in Keys : row[j] # None => row[j].at \in Nat
      BY DEF TypeOK, Table, Row
    <2>5. StampInv'
      BY <2>2, <2>3, <2>4 DEF StampInv
    <2>6. SkipIsSound'
      BY <2>2, <2>3, <2>4 DEF StampInv, SkipIsSound
    <2> QED BY <2>5, <2>6
  <1> QED BY <1>1, <1>2

\* An administrator's write gives the row the stamp; when it is not the
\* youngest the row is late.
LEMMA WriteKeepsSkip ==
    ASSUME SkipInv, stamp # None, stamp' = None, NEW k \in Keys, NEW c \in Nat, NEW on \in BOOLEAN,
           Write(k, c, on), UNCHANGED <<clock, prev, max, poll>>
    PROVE  StampInv' /\ SkipIsSound'
  <1> USE DEF SkipInv
  <1>1. \A j \in Keys : j # k => row'[j] = row[j] /\ (j \in late' <=> j \in late)
    BY DEF Write, TypeOK, Table
  <1>2. row'[k] # None /\ row'[k].at = stamp /\ (clock > stamp => k \in late')
    BY DEF Write, TypeOK, Table, Row
  <1>3. clock \in Nat /\ max \in Nat /\ stamp \in Nat
        /\ \A j \in Keys : row[j] # None => row[j].at \in Nat
    BY DEF TypeOK, Table, Row
  <1>4. StampInv'
    BY <1>1, <1>2, <1>3 DEF StampInv
  <1>5. k \notin late' => max < stamp
    BY <1>2, <1>3 DEF StampInv
  <1>6. SkipIsSound'
    BY <1>1, <1>2, <1>3, <1>5 DEF SkipIsSound
  <1> QED BY <1>4, <1>6

LEMMA SkipStep ==
    ASSUME SkipInv, [Next]_vars
    PROVE  SkipInv'
  <1> USE DEF SkipInv, watcher, channel, service
  <1>t. TypeOK' /\ clock \in Nat /\ max \in Nat /\ (stamp # None => stamp \in Nat)
        /\ \A j \in Keys : row[j] # None => row[j].at \in Nat
    BY TypeStep DEF TypeOK, Table, Row
  <1>1. ASSUME Stamp PROVE SkipInv'
    <2>1. StampInv'
      BY <1>1, <1>t DEF Stamp, StampInv, TypeOK
    <2> QED BY <1>1, <1>t, <2>1 DEF Stamp, SkipIsSound
  <1>2. ASSUME NEW k \in Keys, Create(k) \/ Import(k) \/ Change(k) \/ Switch(k) PROVE SkipInv'
    <2>1. stamp # None /\ stamp' = None /\ UNCHANGED <<clock, prev, max, poll>>
      BY <1>2 DEF Create, Import, Change, Switch, Edit
    <2>2. UNCHANGED <<row, late>> \/ \E c \in Nat, on \in BOOLEAN : Write(k, c, on)
      BY <1>2, AdminWrites
    <2>3. CASE UNCHANGED <<row, late>>
      BY <1>t, <2>1, <2>3 DEF StampInv, SkipIsSound
    <2> QED BY <1>t, <2>1, <2>2, <2>3, WriteKeepsSkip
  <1>3. ASSUME NEW ks \in SUBSET Keys, Delete(ks) PROVE SkipInv'
    <2>1. \A j \in Keys : row'[j] # None => row'[j] = row[j] /\ (j \in late' <=> j \in late)
      BY <1>3 DEF Delete
    <2>2. UNCHANGED <<clock, stamp, prev, max, poll>>
      BY <1>3 DEF Delete
    <2>3. StampInv'
      BY <2>1, <2>2 DEF StampInv
    <2> QED BY <1>t, <2>1, <2>2, <2>3 DEF SkipIsSound
  <1>4. ASSUME PollNewest PROVE SkipInv'
    <2>1. PICK t \in Stamps \cup {0} : poll' \in {[force |-> Forced, at |-> t], None}
      BY <1>4 DEF PollNewest
    <2>2. t <= clock /\ (stamp # None => t # stamp)
      BY <1>t DEF Stamps, StampInv
    <2>3. poll' # None => poll'.at = t
      BY <2>1
    <2>4. StampInv'
      BY <1>4, <2>2, <2>3 DEF PollNewest, StampInv, database
    <2> QED BY <1>4, <1>t, <2>4 DEF PollNewest, SkipIsSound, database
  <1>5. ASSUME PollRows PROVE SkipInv'
    <2>1. StampInv'
      BY <1>5 DEF PollRows, StampInv
    <2>2. SkipIsSound'
      BY <1>5 DEF PollRows, SkipIsSound, Shown
    <2> QED BY <1>t, <2>1, <2>2
  <1>6. ASSUME PollFails PROVE SkipInv'
    BY <1>6, <1>t DEF PollFails, StampInv, SkipIsSound, database
  <1>7. ASSUME MarkForce PROVE SkipInv'
    BY <1>7, <1>t DEF MarkForce, StampInv, SkipIsSound
  <1>8. ASSUME TakeBatch \/ Apply PROVE SkipInv'
    BY <1>8, <1>t DEF TakeBatch, Apply, StampInv, SkipIsSound, database
  <1>9. ASSUME NEW k \in Keys, MarkResult(k) PROVE SkipInv'
    <2>1. auths[k].c \in Nat
      BY <1>9 DEF MarkResult, Selectable, TypeOK, Entry
    <2> QED BY <1>9, <1>t, <2>1, SaveKeepsSkip DEF MarkResult
  <1>10. ASSUME NEW w \in Workers, FinishRefresh(w) PROVE SkipInv'
    <2>1. StampInv'
      BY <1>10, <1>t DEF FinishRefresh, StampInv, TypeOK
    <2> QED BY <1>10, <1>t, <2>1 DEF FinishRefresh, SkipIsSound
  <1>11. ASSUME NEW w \in Workers, SaveRefresh(w) PROVE SkipInv'
    <2>1. work[w].k \in Keys /\ work[w].c \in Nat
      BY <1>11 DEF SaveRefresh, TypeOK, Work, NoWork
    <2> QED BY <1>11, <1>t, <2>1, SaveKeepsSkip DEF SaveRefresh
  <1>12. ASSUME NEW w \in Workers, FailRefresh(w) \/ \E k \in Keys : StartRefresh(w, k) PROVE SkipInv'
    BY <1>12, <1>t DEF FailRefresh, StartRefresh, StampInv, SkipIsSound, database
  <1>13. ASSUME Restart PROVE SkipInv'
    <2>1. StampInv'
      BY <1>13, <1>t DEF Restart, StampInv
    <2> QED BY <1>13, <1>t, <2>1 DEF Restart, StampInv, SkipIsSound
  <1>14. ASSUME UNCHANGED vars PROVE SkipInv'
    BY <1>14, <1>t DEF vars, database, StampInv, SkipIsSound
  <1> QED
    BY <1>1, <1>2, <1>3, <1>4, <1>5, <1>6, <1>7, <1>8, <1>9, <1>10, <1>11, <1>12, <1>13, <1>14
    DEF Next, Watch

\* A poll that skips misses nothing but rows that were committed after a
\* younger stamp was given.
THEOREM SkippedIsSeen == Spec => []SkipIsSound
  <1>1. SkipInv => SkipIsSound
    BY DEF SkipInv
  <1> QED BY <1>1, SkipInit, SkipStep, PTL DEF Spec

-----------------------------------------------------------------------------
\* SnapshotIsDelivered for one credential.
Delivered(k) ==
    Typed(k) =>
        /\ pending[k] # None => Agrees(pending[k], k)
        /\ pending[k] = None => \A i \in 1..Len(queue) : LastOf(i, k) => Agrees(queue[i], k)
        /\ Settled(k) => Served(k)

\* A marked update is filed under its own credential.
OwnIds == \A k \in Keys : pending[k] # None => pending[k].id = k

DeliverInv == TypeOK /\ OwnIds /\ \A k \in Keys : Delivered(k)

\* Steps that touch neither the snapshot nor the way of the updates, nor a
\* credential in memory but to renew it.
LEMMA OthersDeliver ==
    ASSUME DeliverInv, UNCHANGED <<prev, pending, queue, models>>,
           \A k \in Keys : k \in renewed' \/ (k \notin renewed /\ auths'[k] = auths[k])
    PROVE  OwnIds' /\ \A k \in Keys : Delivered(k)'
  BY DEF DeliverInv, OwnIds, Delivered, Typed, LastOf, Agrees, Settled, Served

LEMMA PollDelivers ==
    ASSUME DeliverInv, PollRows
    PROVE  OwnIds' /\ \A k \in Keys : Delivered(k)'
  <1> USE DEF DeliverInv
  <1>1. \A k \in Keys : pending'[k] = Marked(k, prev[k], prev'[k], pending[k])
    BY DEF PollRows
  <1>2. UNCHANGED <<queue, auths, models, renewed>>
    BY DEF PollRows, service
  <1>3. prev' \in [Keys -> Seen \cup {None}]
    <2>1. \A k \in Keys : Shown(row[k]) \in Seen \cup {None}
      BY ShownType DEF TypeOK, Table
    <2> QED BY <2>1 DEF PollRows
  <1>4. OwnIds'
    <2>1. ASSUME NEW k \in Keys, pending'[k] # None PROVE pending'[k].id = k
      <3>1. pending'[k] = Marked(k, prev[k], prev'[k], pending[k])
        BY <1>1
      <3>2. CASE pending'[k] = pending[k]
        BY <2>1, <3>2 DEF OwnIds
      <3>3. CASE pending'[k] = [id |-> k, do |-> "delete", c |-> Untyped]
        BY <3>3
      <3>4. CASE pending'[k] = [id |-> k, do |-> "put", c |-> prev'[k].c]
        BY <3>4
      <3> QED BY <3>1, <3>2, <3>3, <3>4 DEF Marked
    <2> QED BY <2>1 DEF OwnIds
  <1>5. ASSUME NEW k \in Keys PROVE Delivered(k)'
    <2>1. CASE prev'[k] = prev[k] /\ pending'[k] = pending[k]
      BY <1>2, <2>1 DEF Delivered, Typed, LastOf, Agrees, Settled, Served
    <2>2. CASE prev'[k] = None /\ prev[k] # None
      <3>1. pending'[k] = [id |-> k, do |-> "delete", c |-> Untyped]
        BY <1>1, <2>2 DEF Marked
      <3>2. pending'[k] # None
        BY <3>1 DEF Update, Untyped
      <3> QED BY <2>2, <3>1, <3>2 DEF Delivered, Agrees, Settled
    <2>3. CASE prev'[k] # None /\ prev'[k].c # Untyped /\ (poll.force \/ prev'[k] # prev[k])
      <3>1. pending'[k] = [id |-> k, do |-> "put", c |-> prev'[k].c]
        BY <1>1, <2>3 DEF Marked
      <3>2. prev'[k].c \in Nat
        BY <1>3, <2>3 DEF Seen
      <3>3. pending'[k] # None
        BY <3>1, <3>2 DEF Update
      <3> QED BY <2>3, <3>1, <3>3 DEF Delivered, Agrees, Settled
    <2>4. CASE prev'[k] # None /\ prev'[k].c = Untyped
      BY <2>4 DEF Delivered, Typed
    <2>5. CASE prev'[k] = None /\ prev[k] = None
      <3>1. pending'[k] = pending[k]
        BY <1>1, <2>5 DEF Marked
      <3> QED BY <2>1, <2>5, <3>1
    <2>6. CASE prev'[k] # None /\ prev'[k].c # Untyped /\ ~poll.force /\ prev'[k] = prev[k]
      <3>1. pending'[k] = pending[k]
        BY <1>1, <2>6 DEF Marked
      <3> QED BY <2>1, <2>6, <3>1
    <2> QED BY <2>2, <2>3, <2>4, <2>5, <2>6
  <1> QED BY <1>4, <1>5

\* Entries that are appended to a sequence.
LEMMA Appended ==
    ASSUME NEW S, NEW q \in Seq(S), NEW b \in Seq(S)
    PROVE  /\ q \o b \in Seq(S) /\ Len(q) \in Nat /\ Len(b) \in Nat
           /\ Len(q \o b) = Len(q) + Len(b)
           /\ \A i \in 1..Len(q) : (q \o b)[i] = q[i] /\ i \in 1..Len(q \o b)
           /\ \A i \in 1..Len(b) : (q \o b)[Len(q) + i] = b[i] /\ Len(q) + i \in 1..Len(q \o b)
           /\ \A i \in 1..Len(q \o b) : i \notin 1..Len(q) =>
                 i - Len(q) \in 1..Len(b) /\ (q \o b)[i] = b[i - Len(q)] /\ i > Len(q)
  <1>1. Len(q) \in Nat /\ Len(b) \in Nat /\ Len(q \o b) = Len(q) + Len(b) /\ q \o b \in Seq(S)
    OBVIOUS
  <1>2. \A i \in 1..Len(q) : (q \o b)[i] = q[i] /\ i \in 1..Len(q \o b)
    BY <1>1
  <1>3. \A i \in 1..Len(b) : (q \o b)[Len(q) + i] = b[i] /\ Len(q) + i \in 1..Len(q \o b)
    BY <1>1
  <1>4. ASSUME NEW i \in 1..Len(q \o b), i \notin 1..Len(q)
        PROVE  i - Len(q) \in 1..Len(b) /\ (q \o b)[i] = b[i - Len(q)] /\ i > Len(q)
    <2>1. i - Len(q) \in 1..Len(b) /\ Len(q) + (i - Len(q)) = i /\ i > Len(q)
      BY <1>1, <1>4
    <2> QED BY <1>3, <2>1
  <1> QED BY <1>1, <1>2, <1>3, <1>4

LEMMA BatchDelivers ==
    ASSUME DeliverInv, TakeBatch
    PROVE  OwnIds' /\ \A k \in Keys : Delivered(k)'
  <1> USE DEF DeliverInv
  <1>1. PICK order \in [1..Cardinality(Waiting) -> Waiting] :
           /\ \A k \in Waiting : \E i \in DOMAIN order : order[i] = k
           /\ queue' = queue \o [i \in DOMAIN order |-> pending[order[i]]]
    BY DEF TakeBatch
  <1>2. PICK batch \in Seq(Update) :
           /\ queue' = queue \o batch
           /\ \A i \in 1..Len(batch) : order[i] \in Waiting /\ batch[i] = pending[order[i]]
           /\ \A k \in Waiting : \E i \in 1..Len(batch) : order[i] = k
    <2>1. [i \in DOMAIN order |-> pending[order[i]]] \in Seq(Update)
          /\ DOMAIN order = 1..Cardinality(Waiting) /\ Cardinality(Waiting) \in Nat
      BY BatchType DEF TypeOK
    <2>2. Len([i \in DOMAIN order |-> pending[order[i]]]) = Cardinality(Waiting)
      BY <2>1
    <2> QED BY <1>1, <2>1, <2>2
  <1>3. queue \in Seq(Update)
    BY DEF TypeOK
  <1>4. \A i \in 1..Len(batch) : batch[i].id = order[i]
    BY <1>2 DEF OwnIds, Waiting
  <1>5. UNCHANGED <<prev, auths, models, renewed>> /\ \A k \in Keys : pending'[k] = None
    BY DEF TakeBatch, watcher, service, Nothing
  <1>6. OwnIds'
    BY <1>5 DEF OwnIds
  <1>7. ASSUME NEW k \in Keys, Typed(k)' PROVE Delivered(k)'
    <2>0. Typed(k)
      BY <1>5, <1>7 DEF Typed
    <2>1. CASE k \in Waiting
      <3>1. Agrees(pending[k], k)
        BY <1>7, <2>0, <2>1 DEF Delivered, Waiting
      <3>2. PICK j \in 1..Len(batch) : order[j] = k
        BY <1>2, <2>1
      <3>3. Len(queue) + j \in 1..Len(queue') /\ queue'[Len(queue) + j].id = k
        BY <1>2, <1>3, <1>4, <3>2, Appended
      <3>4. ASSUME NEW i \in 1..Len(queue'), LastOf(i, k)' PROVE Agrees(queue[i], k)'
        <4>1. queue'[i].id = k /\ \A m \in (i + 1)..Len(queue') : queue'[m].id # k
          BY <3>4 DEF LastOf
        <4>2. i >= Len(queue) + j
          <5>1. Len(queue) \in Nat /\ Len(batch) \in Nat /\ Len(queue') \in Nat
            BY <1>2, <1>3, Appended
          <5>2. Len(queue) + j \notin (i + 1)..Len(queue')
            BY <3>3, <4>1
          <5> QED BY <3>3, <5>1, <5>2
        <4>3. i \notin 1..Len(queue)
          BY <4>2, <1>3
        <4>4. i - Len(queue) \in 1..Len(batch) /\ queue'[i] = batch[i - Len(queue)]
          BY <1>2, <1>3, <4>3, Appended
        <4>5. queue'[i] = pending[k]
          BY <1>2, <1>4, <4>1, <4>4
        <4> QED BY <1>5, <3>1, <4>5 DEF Agrees
      <3> QED BY <1>5, <3>3, <3>4 DEF Delivered, Settled
    <2>2. CASE k \notin Waiting
      <3>1. pending[k] = None
        BY <2>2 DEF Waiting
      <3>2. \A i \in 1..Len(batch) : batch[i].id # k
        BY <1>2, <1>4, <2>2
      <3>3. ASSUME NEW i \in 1..Len(queue'), LastOf(i, k)' PROVE Agrees(queue[i], k)'
        <4>1. queue'[i].id = k /\ \A m \in (i + 1)..Len(queue') : queue'[m].id # k
          BY <3>3 DEF LastOf
        <4>2. i \in 1..Len(queue)
          BY <1>2, <1>3, <3>2, <4>1, Appended
        <4>3. queue'[i] = queue[i]
          BY <1>2, <1>3, <4>2, Appended
        <4>4. ASSUME NEW m \in (i + 1)..Len(queue) PROVE queue[m].id # k
          <5>1. m \in 1..Len(queue) /\ Len(queue) <= Len(queue') /\ Len(queue') \in Nat
            BY <1>2, <1>3, <4>2, Appended
          <5>2. m \in (i + 1)..Len(queue')
            BY <5>1, <1>3, <4>2
          <5>3. queue'[m] = queue[m]
            BY <1>2, <1>3, <5>1, Appended
          <5> QED BY <4>1, <5>2, <5>3
        <4>5. LastOf(i, k)
          BY <4>1, <4>3, <4>4 DEF LastOf
        <4>6. Agrees(queue[i], k)
          BY <2>0, <3>1, <4>2, <4>5 DEF Delivered
        <4> QED BY <1>5, <4>3, <4>6 DEF Agrees
      <3>4. ASSUME \A i \in 1..Len(queue') : queue'[i].id # k
            PROVE  \A i \in 1..Len(queue) : queue[i].id # k
        BY <1>2, <1>3, <3>4, Appended
      <3>5. (\A i \in 1..Len(queue') : queue'[i].id # k) => Served(k)'
        BY <1>5, <2>0, <3>1, <3>4 DEF Delivered, Settled, Served
      <3> QED BY <1>5, <3>3, <3>5 DEF Delivered, Settled
    <2> QED BY <2>1, <2>2
  <1>8. ASSUME NEW k \in Keys PROVE Delivered(k)'
    BY <1>7 DEF Delivered
  <1> QED BY <1>6, <1>8

LEMMA ApplyDelivers ==
    ASSUME DeliverInv, Apply
    PROVE  OwnIds' /\ \A k \in Keys : Delivered(k)'
  <1> USE DEF DeliverInv
  <1>1. /\ queue \in Seq(Update) /\ queue # <<>> /\ queue' = Tail(queue)
        /\ UNCHANGED <<prev, pending>>
    BY DEF Apply, TypeOK, watcher
  <1>2. /\ Len(queue) \in Nat /\ Len(queue) >= 1 /\ Len(queue') = Len(queue) - 1
        /\ \A i \in 1..Len(queue') : i + 1 \in 1..Len(queue) /\ queue'[i] = queue[i + 1]
    BY <1>1
  <1>3. OwnIds'
    BY <1>1 DEF OwnIds
  <1>4. ASSUME NEW k \in Keys, Typed(k)' PROVE Delivered(k)'
    <2>0. Typed(k)
      BY <1>1, <1>4 DEF Typed
    <2>1. ASSUME pending'[k] # None PROVE Agrees(pending[k], k)'
      <3>1. Agrees(pending[k], k)
        BY <1>1, <2>0, <2>1 DEF Delivered
      <3> QED BY <1>1, <3>1 DEF Agrees
    <2>2. ASSUME pending'[k] = None, NEW i \in 1..Len(queue'), LastOf(i, k)'
          PROVE  Agrees(queue[i], k)'
      <3>1. queue'[i].id = k /\ \A m \in (i + 1)..Len(queue') : queue'[m].id # k
        BY <2>2 DEF LastOf
      <3>2. ASSUME NEW m \in (i + 1 + 1)..Len(queue) PROVE queue[m].id # k
        <4>1. m - 1 \in (i + 1)..Len(queue') /\ m - 1 \in 1..Len(queue') /\ (m - 1) + 1 = m
          BY <1>2
        <4> QED BY <1>2, <3>1, <4>1
      <3>3. LastOf(i + 1, k)
        BY <1>2, <3>1, <3>2 DEF LastOf
      <3>4. Agrees(queue[i + 1], k)
        BY <1>1, <1>2, <2>0, <2>2, <3>3 DEF Delivered
      <3> QED BY <1>1, <1>2, <3>4 DEF Agrees
    <2>3. ASSUME pending'[k] = None, \A i \in 1..Len(queue') : queue'[i].id # k
          PROVE  Served(k)'
      <3>1. ASSUME NEW m \in 2..Len(queue) PROVE queue[m].id # k
        <4>1. m - 1 \in 1..Len(queue') /\ (m - 1) + 1 = m
          BY <1>2
        <4> QED BY <1>2, <2>3, <4>1
      <3>2. Head(queue) = queue[1] /\ 1 \in 1..Len(queue) /\ queue[1] \in Update
        BY <1>1, <1>2
      <3>3. CASE queue[1].id = k
        <4>1. LastOf(1, k)
          BY <3>1, <3>3 DEF LastOf
        <4>2. Agrees(queue[1], k)
          BY <1>1, <2>0, <2>3, <3>2, <4>1 DEF Delivered
        <4>3. CASE prev[k] = None
          <5>1. queue[1].do = "delete"
            BY <4>2, <4>3 DEF Agrees
          <5>2. k \notin models'
            BY <3>2, <3>3, <5>1 DEF Apply
          <5> QED BY <1>1, <4>3, <5>2 DEF Served
        <4>4. CASE prev[k] # None
          <5>1. queue[1].do = "put" /\ queue[1].c = prev[k].c
            BY <4>2, <4>4 DEF Agrees
          <5>2. k \in models' /\ auths' = [auths EXCEPT ![k] = Replaced(k, prev[k].c)]
            BY <3>2, <3>3, <5>1 DEF Apply
          <5> QED BY <1>1, <4>4, <5>2 DEF Served, Replaced, TypeOK
        <4> QED BY <4>3, <4>4
      <3>4. CASE queue[1].id # k
        <4>1. \A m \in 1..Len(queue) : queue[m].id # k
          BY <1>2, <3>1, <3>4
        <4>2. Served(k)
          BY <1>1, <2>0, <2>3, <4>1 DEF Delivered, Settled
        <4>3. (k \in models' <=> k \in models) /\ (k \in renewed' <=> k \in renewed) /\ auths'[k] = auths[k]
          BY <3>2, <3>4 DEF Apply, TypeOK
        <4> QED BY <1>1, <4>2, <4>3 DEF Served
      <3> QED BY <3>3, <3>4
    <2> QED BY <2>1, <2>2, <2>3 DEF Delivered, Settled
  <1>5. ASSUME NEW k \in Keys PROVE Delivered(k)'
    BY <1>4 DEF Delivered
  <1> QED BY <1>3, <1>5

\* A fresh start: no snapshot, no updates, no models.
LEMMA FreshDelivers ==
    ASSUME NEW k \in Keys, prev[k] = None, pending[k] = None, queue = <<>>, models = {}
    PROVE  Delivered(k)
  BY DEF Delivered, Served

LEMMA DeliverInit == Init => DeliverInv
  <1> SUFFICES ASSUME Init PROVE DeliverInv
    OBVIOUS
  <1>1. \A k \in Keys : prev[k] = None /\ pending[k] = None
    BY DEF Init, Nothing
  <1>2. \A k \in Keys : Delivered(k)
    BY <1>1, FreshDelivers DEF Init
  <1> QED BY <1>1, <1>2, TypeInit DEF DeliverInv, OwnIds

LEMMA DeliverStep == DeliverInv /\ [Next]_vars => DeliverInv'
  <1> SUFFICES ASSUME DeliverInv, [Next]_vars PROVE DeliverInv'
    OBVIOUS
  <1>t. TypeOK'
    BY TypeStep DEF DeliverInv
  <1>1. CASE UNCHANGED <<prev, pending, queue, auths, models, renewed>>
    BY <1>1, <1>t, OthersDeliver DEF DeliverInv
  <1>2. CASE PollRows
    BY <1>2, <1>t, PollDelivers DEF DeliverInv
  <1>3. CASE TakeBatch
    BY <1>3, <1>t, BatchDelivers DEF DeliverInv
  <1>4. CASE Apply
    BY <1>4, <1>t, ApplyDelivers DEF DeliverInv
  <1>5. CASE Restart
    <2>1. \A k \in Keys : prev'[k] = None /\ pending'[k] = None
      BY <1>5 DEF Restart, Nothing
    <2>2. queue' = <<>> /\ models' = {}
      BY <1>5 DEF Restart
    <2>3. \A k \in Keys : Delivered(k)'
      BY <2>1, <2>2 DEF Delivered, Served
    <2> QED BY <1>t, <2>1, <2>3 DEF DeliverInv, OwnIds
  <1>6. CASE Stamp \/ PollNewest \/ PollFails \/ MarkForce
    BY <1>1, <1>6 DEF Stamp, PollNewest, PollFails, MarkForce, watcher, channel, service
  <1>7. CASE \E k \in Keys : Create(k) \/ Import(k) \/ Change(k) \/ Switch(k)
    BY <1>1, <1>7 DEF Create, Import, Change, Switch, Edit, watcher, channel, service
  <1>8. CASE \E ks \in SUBSET Keys : Delete(ks)
    BY <1>1, <1>8 DEF Delete, watcher, channel, service
  <1>9. CASE \E k \in Keys : MarkResult(k)
    BY <1>1, <1>9 DEF MarkResult, watcher, channel, service
  <1>10. CASE \E w \in Workers : (\E k \in Keys : StartRefresh(w, k)) \/ SaveRefresh(w) \/ FailRefresh(w)
    BY <1>1, <1>10 DEF StartRefresh, SaveRefresh, FailRefresh, watcher, channel
  <1>12. ASSUME NEW w \in Workers, FinishRefresh(w) PROVE DeliverInv'
    <2>1. UNCHANGED <<prev, pending, queue, models>>
      BY <1>12 DEF FinishRefresh, watcher, channel
    <2>2. \A k \in Keys : k \in renewed' \/ (k \notin renewed /\ auths'[k] = auths[k])
      BY <1>12 DEF FinishRefresh, DeliverInv, TypeOK
    <2> QED BY <1>t, <2>1, <2>2, OthersDeliver DEF DeliverInv
  <1>11. CASE UNCHANGED vars
    BY <1>1, <1>11 DEF vars, watcher, channel, service
  <1> QED
    BY <1>2, <1>3, <1>4, <1>5, <1>6, <1>7, <1>8, <1>9, <1>10, <1>11, <1>12 DEF Next, Watch

\* Coalescing the updates of a credential and sending them in batches, in any
\* order within a batch, never leaves the proxy with an older state or content.
THEOREM SnapshotDelivered == Spec => []SnapshotIsDelivered
  <1>1. DeliverInv => SnapshotIsDelivered
    BY DEF DeliverInv, Delivered, SnapshotIsDelivered
  <1> QED BY <1>1, DeliverInit, DeliverStep, PTL DEF Spec

\* The copy in memory of a delivered edit is the edit, so a result saves nothing.
THEOREM ResultsKeepEdits == Spec => DeliveredEditsStay
  <1>1. ASSUME DeliverInv, NEW k \in Keys, MarkResult(k), Settled(k), k \notin renewed,
               prev[k] # None, prev[k] = Shown(row[k]), Typed(k)
        PROVE  UNCHANGED database
    <2>1. auths[k] = [c |-> prev[k].c, off |-> FALSE]
      BY <1>1 DEF DeliverInv, Delivered, Served
    <2>2. row[k] # None /\ prev[k].c = row[k].c
      BY <1>1 DEF Shown
    <2> QED BY <1>1, <2>1, <2>2 DEF MarkResult, Save
  <1>2. DeliverInv /\ [Next]_vars =>
          [\A k \in Keys :
              MarkResult(k) /\ Settled(k) /\ k \notin renewed
                 /\ prev[k] # None /\ prev[k] = Shown(row[k]) /\ Typed(k)
              => UNCHANGED database]_vars
    BY <1>1
  <1> QED BY <1>2, DeliverInit, DeliverStep, PTL DEF Spec, DeliveredEditsStay
=============================================================================
