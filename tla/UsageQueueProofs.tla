-------------------------- MODULE UsageQueueProofs --------------------------
(* Theorems about UsageQueue, for any requests, contexts and attempts.     *)
EXTENDS UsageQueueLog, SequenceTheorems, TLAPS

USE UsageQueueAssumption

IInv == TypeOK /\ ContextsAreOwned

LEMMA NoKeysType == NoKeys \in Metadata
  BY DEF NoKeys, Metadata

LEMMA GroupReplaced ==
    ASSUME NEW k \in Metadata, NEW g \in Groups \cup {None}
    PROVE  [k EXCEPT !.group = g] \in Metadata /\ [k EXCEPT !.group = g].user = k.user
  BY DEF Metadata

LEMMA IInvInit == Init => IInv
  <1> SUFFICES ASSUME Init PROVE IInv
    OBVIOUS
  <1>1. keys \in [Contexts -> Metadata]
    BY NoKeysType DEF Init
  <1>2. picked \in [Requests -> Seq(Groups \cup {None})] /\ queue \in Seq(Item) /\ rows \in Seq(Row)
    BY DEF Init
  <1>3. item \in Item /\ signals \in Nat /\ sending \subseteq Attempts
    BY DEF Init, Item, NoItem
  <1>4. TypeOK
    BY <1>1, <1>2, <1>3 DEF Init, TypeOK
  <1>5. \A r \in Requests : stage[r] = "new"
    BY DEF Init
  <1>6. DOMAIN queue = {} /\ sending = {} /\ worker = "looking"
    BY DEF Init
  <1>7. ContextsAreOwned
    BY <1>5, <1>6 DEF ContextsAreOwned, InUse
  <1> QED BY <1>4, <1>7 DEF IInv

\* The steps of a request keep the invariant.
LEMMA RequestKeepsIInv ==
    ASSUME IInv, NEW r \in Requests,
           ServeHTTP(r) \/ AuthMiddleware(r) \/ Pick(r) \/ MapRace(r) \/ Finish(r)
    PROVE  IInv'
  <1> USE DEF IInv, TypeOK, ContextsAreOwned, InUse
  <1>1. \A q : FromRequest(q) => FromRequest(q)'
    <2>1. \A s \in Requests : stage[s] \in {"running", "over"} =>
             ginCtx'[s] = ginCtx[s] /\ stage'[s] \in {"running", "over"}
      BY DEF ServeHTTP, AuthMiddleware, Pick, MapRace, Finish, Picking, http
    <2> QED BY <2>1 DEF FromRequest, Attempts
  <1>2. CASE ServeHTTP(r)
    <2>1. PICK c \in pool : /\ pool' = pool \ {c}
                            /\ keys' = [keys EXCEPT ![c] = NoKeys]
                            /\ ginCtx' = [ginCtx EXCEPT ![r] = c]
      BY <1>2 DEF ServeHTTP
    <2>2. TypeOK'
      BY <1>2, <2>1, NoKeysType DEF ServeHTTP
    <2>3. \A s \in Requests : (s # r => ginCtx'[s] = ginCtx[s] /\ stage'[s] = stage[s])
      BY <1>2, <2>1 DEF ServeHTTP
    <2>4. ginCtx'[r] = c /\ stage'[r] = "arrived" /\ stage[r] = "new"
      BY <1>2, <2>1 DEF ServeHTTP
    <2>5. \A d \in Contexts : d # c => keys'[d] = keys[d]
      BY <2>1
    <2>6. ContextsAreOwned'
      BY <1>1, <1>2, <2>1, <2>3, <2>4, <2>5 DEF ServeHTTP, Attempts
    <2> QED BY <2>2, <2>6
  <1>3. CASE AuthMiddleware(r)
    <2>1. ginCtx[r] \in Contexts /\ InUse(r) /\ UserOf[r] \in Users
      BY <1>3 DEF AuthMiddleware, Users
    <2>2. keys' \in [Contexts -> Metadata]
      BY <1>3, <2>1 DEF AuthMiddleware, Metadata
    <2>3. TypeOK'
      BY <1>3, <2>2 DEF AuthMiddleware
    <2>4. keys'[ginCtx[r]].user = UserOf[r]
      BY <1>3, <2>1 DEF AuthMiddleware, Metadata
    <2>5. \A d \in Contexts : d # ginCtx[r] => keys'[d] = keys[d]
      BY <1>3 DEF AuthMiddleware
    <2>6. ContextsAreOwned'
      BY <1>1, <1>3, <2>1, <2>4, <2>5 DEF AuthMiddleware, Attempts
    <2> QED BY <2>3, <2>6
  <1>4. CASE Pick(r)
    <2>1. PICK g \in Groups \cup {None} :
             /\ keys' = WithGroup(ginCtx[r], g)
             /\ picked' = [picked EXCEPT ![r] = Append(@, g)]
      BY <1>4 DEF Pick
    <2>2. ginCtx[r] \in Contexts
      BY <1>4 DEF Pick, Picking
    <2> DEFINE new == [keys[ginCtx[r]] EXCEPT !.group = g]
    <2>0. new \in Metadata /\ new.user = keys[ginCtx[r]].user
      <3>1. keys[ginCtx[r]] \in Metadata
        BY <2>2
      <3> QED BY <3>1, GroupReplaced
    <2>1a. keys' = [keys EXCEPT ![ginCtx[r]] = new]
      BY <2>1 DEF WithGroup
    <2> HIDE DEF new
    <2>3. keys' \in [Contexts -> Metadata]
      BY <2>0, <2>1a, <2>2
    <2>4. \A d \in Contexts : keys'[d].user = keys[d].user
      BY <2>0, <2>1a, <2>2
    <2>5. picked[r] \in Seq(Groups \cup {None}) /\ Len(picked[r]) \in Nat
      OBVIOUS
    <2>6. Len(picked[r]) + 1 \in 1..MaxAttempts
      BY <1>4, <2>5 DEF Pick, Picking, MayTry
    <2>7. [request |-> r, n |-> Len(picked[r]) + 1] \in Attempts
      BY <2>6 DEF Attempts
    <2>8. Append(picked[r], g) \in Seq(Groups \cup {None})
      BY <2>5
    <2>9. TypeOK'
      BY <1>4, <2>1, <2>3, <2>7, <2>8 DEF Pick
    <2>10. ContextsAreOwned'
      BY <1>1, <1>4, <2>4 DEF Pick, Picking
    <2> QED BY <2>9, <2>10
  <1>5. CASE MapRace(r)
    BY <1>1, <1>5 DEF MapRace, http
  <1>6. CASE Finish(r)
    <2>1. ginCtx[r] \in Contexts
      BY <1>6 DEF Finish
    <2>2. TypeOK'
      BY <1>6, <2>1 DEF Finish
    <2>3. \A s \in Requests : InUse(s)' => InUse(s) /\ s # r
      BY <1>6 DEF Finish
    <2>4. ContextsAreOwned'
      BY <1>1, <1>6, <2>1, <2>3 DEF Finish, Attempts
    <2> QED BY <2>2, <2>4
  <1> QED BY <1>2, <1>3, <1>4, <1>5, <1>6

\* So do the steps of the queue, its worker and the end of the process.
LEMMA QueueKeepsIInv ==
    ASSUME IInv,
           (\E a \in sending : Publish(a)) \/ Signal \/ Worker \/ Stop \/ Exit
    PROVE  IInv'
  <1> USE DEF IInv, TypeOK, ContextsAreOwned, InUse
  <1>1. UNCHANGED http
    BY DEF Publish, Signal, Worker, Wait, Take, HandleUsage, Return, Stop, Exit
  <1>2. \A q : FromRequest(q) => FromRequest(q)'
    BY <1>1 DEF FromRequest, http
  <1>3. ASSUME NEW a \in sending, Publish(a) PROVE IInv'
    <2>1. a \in Attempts /\ a.request \in Requests
      BY DEF Attempts
    <2>2. CASE ~closed
      <3> DEFINE q == [ctx |-> ginCtx[a.request], of |-> a]
      <3>1. q \in Item /\ FromRequest(q)
        BY <2>1 DEF Item, FromRequest
      <3>2. queue' = Append(queue, q)
        BY <1>3, <2>2 DEF Publish, Enqueued
      <3>3. queue' \in Seq(Item)
        BY <3>1, <3>2
      <3>4. (\A i \in DOMAIN queue : FromRequest(queue[i]))'
        <4> SUFFICES ASSUME NEW i \in DOMAIN queue' PROVE FromRequest(queue[i])'
          OBVIOUS
        <4>1. queue'[i] = q \/ (i \in DOMAIN queue /\ queue'[i] = queue[i])
          BY <3>2, <3>1
        <4>2. FromRequest(q) /\ (i \in DOMAIN queue => FromRequest(queue[i]))
          BY <3>1
        <4> HIDE DEF q
        <4> QED BY <1>1, <4>1, <4>2 DEF FromRequest, http
      <3>5. /\ sending' = sending \ {a} /\ signals' = signals + 1
            /\ UNCHANGED <<closed, worker, item, rows, up>>
        BY <1>3, <2>2 DEF Publish, Woken
      <3> QED BY <1>1, <1>2, <3>3, <3>4, <3>5 DEF http
    <2>3. CASE closed
      BY <1>1, <1>2, <1>3, <2>3 DEF Publish, http
    <2> QED BY <2>2, <2>3
  <1>4. CASE Signal
    BY <1>1, <1>2, <1>4 DEF Signal, http
  <1>5. CASE Wait
    BY <1>1, <1>2, <1>5 DEF Wait, http
  <1>6. CASE Take
    <2>1. queue # <<>> /\ item' = Head(queue) /\ queue' = Tail(queue)
      BY <1>6 DEF Take, Rest
    <2>2. 1 \in DOMAIN queue /\ item' = queue[1] /\ item' \in Item
      BY <2>1
    <2>3. FromRequest(item)'
      <3>1. FromRequest(queue[1])
        BY <2>2
      <3> QED BY <1>1, <2>2, <3>1 DEF FromRequest, http
    <2>4. queue' \in Seq(Item)
      BY <2>1
    <2>5. \A i \in DOMAIN queue' : i + 1 \in DOMAIN queue /\ queue'[i] = queue[i + 1]
      BY <2>1
    <2>6. (\A i \in DOMAIN queue : FromRequest(queue[i]))'
      <3> SUFFICES ASSUME NEW i \in DOMAIN queue' PROVE FromRequest(queue[i])'
        OBVIOUS
      <3>1. FromRequest(queue[i + 1])
        BY <2>5
      <3> QED BY <1>1, <2>5, <3>1 DEF FromRequest, http
    <2>7. worker' = "busy" /\ UNCHANGED <<sending, closed, signals, rows, up>>
      BY <1>6 DEF Take
    <2> QED BY <1>1, <2>2, <2>3, <2>4, <2>6, <2>7 DEF http
  <1>7. CASE HandleUsage
    <2>1. FromRequest(item)
      BY <1>7 DEF HandleUsage
    <2>2. item.ctx \in Contexts /\ item.of \in Attempts
      BY <2>1 DEF FromRequest, Attempts
    <2> DEFINE row == [of |-> item.of, user |-> keys[item.ctx].user, group |-> keys[item.ctx].group]
    <2>3. row \in Row
      BY <2>2 DEF Row, Metadata
    <2>4. rows' \in Seq(Row)
      <3>1. rows' = Append(rows, row) \/ rows' = rows
        BY <1>7 DEF HandleUsage
      <3>2. rows \in Seq(Row)
        OBVIOUS
      <3>3. Append(rows, row) \in Seq(Row)
        BY <2>3, <3>2, AppendProperties
      <3> QED BY <3>1, <3>2, <3>3
    <2>5. item' \in Item
      BY <1>7 DEF HandleUsage, NoItem, Item
    <2>6. worker' = "looking" /\ UNCHANGED <<sending, queue, closed, signals, up>>
      BY <1>7 DEF HandleUsage
    <2> QED BY <1>1, <1>2, <2>4, <2>5, <2>6 DEF http
  <1>8. CASE Return
    BY <1>1, <1>2, <1>8 DEF Return, http
  <1>9. CASE Stop
    BY <1>1, <1>2, <1>9 DEF Stop, Woken, http
  <1>10. CASE Exit
    BY <1>1, <1>2, <1>10 DEF Exit, http
  <1> QED BY <1>3, <1>4, <1>5, <1>6, <1>7, <1>8, <1>9, <1>10 DEF Worker

LEMMA IInvStep == IInv /\ [Next]_vars => IInv'
  <1> SUFFICES ASSUME IInv, [Next]_vars PROVE IInv'
    OBVIOUS
  <1>1. CASE UNCHANGED vars
    BY <1>1 DEF vars, http, IInv, TypeOK, ContextsAreOwned, InUse, FromRequest
  <1>2. CASE Next
    BY <1>2, RequestKeepsIInv, QueueKeepsIInv DEF Next
  <1> QED BY <1>1, <1>2

\* Every variable keeps its type, every context in use belongs to one request.
THEOREM QueueInvariant == Spec => [](TypeOK /\ ContextsAreOwned)
  BY IInvInit, IInvStep, PTL DEF Spec, IInv

\* The variables of the handlers, of the queue and of the worker keep their types:
\* among them, the wake-ups that are counted are never fewer than none, and only
\* attempts of requests are being published.
THEOREM TypeCorrect == Spec => []TypeOK
<1>1. TypeOK /\ ContextsAreOwned => TypeOK
  OBVIOUS
<1> QED BY <1>1, QueueInvariant, PTL

\* The worker never sleeps with work to do unless a wake-up is on its way: the
\* mutex is released before cond.Signal, and that is early enough.
THEOREM NeverSleepsOverWork == Spec => []NoLostWakeUp
<1>1. Init => NoLostWakeUp
  BY DEF Init, NoLostWakeUp
<1>2. IInv /\ NoLostWakeUp /\ [Next]_vars => NoLostWakeUp'
  <2> SUFFICES ASSUME signals \in Nat, NoLostWakeUp, [Next]_vars PROVE NoLostWakeUp'
    BY DEF IInv, TypeOK
  <2> USE DEF NoLostWakeUp
  <2>1. ASSUME NEW r \in Requests,
               ServeHTTP(r) \/ AuthMiddleware(r) \/ Pick(r) \/ MapRace(r) \/ Finish(r)
        PROVE  NoLostWakeUp'
    BY <2>1 DEF ServeHTTP, AuthMiddleware, Pick, MapRace, Finish
  <2>2. ASSUME NEW a \in sending, Publish(a) PROVE NoLostWakeUp'
    BY <2>2 DEF Publish, Woken
  <2>3. CASE Signal
    BY <2>3 DEF Signal
  <2>4. CASE Worker
    BY <2>4 DEF Worker, Wait, Take, HandleUsage, Return
  <2>5. CASE Stop
    BY <2>5 DEF Stop, Woken
  <2>6. CASE Exit
    BY <2>6 DEF Exit
  <2>7. CASE UNCHANGED vars
    BY <2>7 DEF vars
  <2> QED BY <2>1, <2>2, <2>3, <2>4, <2>5, <2>6, <2>7 DEF Next
<1> QED
  BY <1>1, <1>2, IInvInit, IInvStep, PTL DEF Spec

\* A record handled while its request runs is charged to the user of that
\* request, whatever the other requests do with their contexts.
THEOREM RunningKeepTheirUser == Spec => RunningRequestsKeepTheirUser
<1> DEFINE Kept == \A r \in Requests :
       Len(rows') > Len(rows) /\ item.of.request = r /\ stage[r] = "running"
       => Last(rows').user = UserOf[r]
<1>1. IInv /\ [Next]_vars => Kept
  <2> SUFFICES ASSUME IInv, [Next]_vars, NEW r \in Requests,
                      Len(rows') > Len(rows), item.of.request = r, stage[r] = "running"
               PROVE  Last(rows').user = UserOf[r]
    OBVIOUS
  <2>1. Len(rows) \in Nat /\ rows \in Seq(Row)
    BY DEF IInv, TypeOK
  <2>2. rows' # rows
    BY <2>1
  <2>3. HandleUsage
    BY <2>2 DEF Next, vars, ServeHTTP, AuthMiddleware, Pick, MapRace, Finish, Publish,
                Signal, Worker, Wait, Take, Return, Stop, Exit
  <2>4. FromRequest(item)
    BY <2>3 DEF IInv, ContextsAreOwned, HandleUsage
  <2> DEFINE row == [of |-> item.of, user |-> keys[item.ctx].user, group |-> keys[item.ctx].group]
  <2>5. rows' = Append(rows, row)
    BY <2>2, <2>3 DEF HandleUsage
  <2>6. Last(rows') = row
    BY <2>1, <2>5 DEF Last
  <2>7. keys[item.ctx].user = UserOf[r]
    BY <2>4 DEF FromRequest, IInv, ContextsAreOwned
  <2> QED BY <2>6, <2>7
<1>2. IInv /\ [Next]_vars => [Kept]_vars
  BY <1>1
<1> QED
  BY <1>2, IInvInit, IInvStep, PTL DEF Spec, RunningRequestsKeepTheirUser
-----------------------------------------------------------------------------
\* The records of a request form a line: rows, the record in hand, the queue, and
\* the attempt that will still publish.  In it the numbers of the attempts grow.
Before(a, b) == a.request = b.request => a.n < b.n
Hand == IF worker = "busy" THEN {item.of} ELSE {}

InLine ==
    /\ \A i, j \in DOMAIN rows : i < j => Before(rows[i].of, rows[j].of)
    /\ \A i, j \in DOMAIN queue : i < j => Before(queue[i].of, queue[j].of)
    /\ \A i \in DOMAIN rows, j \in DOMAIN queue : Before(rows[i].of, queue[j].of)
    /\ \A i \in DOMAIN rows, h \in Hand : Before(rows[i].of, h)
    /\ \A h \in Hand, j \in DOMAIN queue : Before(h, queue[j].of)
SendersLast ==
    /\ \A a \in sending :
          /\ \A i \in DOMAIN rows : Before(rows[i].of, a)
          /\ \A j \in DOMAIN queue : Before(queue[j].of, a)
          /\ \A h \in Hand : Before(h, a)
    /\ \A a, b \in sending : a.request = b.request => a = b
Counted ==
    /\ \A i \in DOMAIN rows : rows[i].of.n <= Len(picked[rows[i].of.request])
    /\ \A j \in DOMAIN queue : queue[j].of.n <= Len(picked[queue[j].of.request])
    /\ \A h \in Hand : h.n <= Len(picked[h.request])
    /\ \A a \in sending : a.n = Len(picked[a.request])
    /\ worker # "busy" => item = NoItem
LineInv == InLine /\ SendersLast /\ Counted

LEMMA LineTypes == ASSUME IInv
                   PROVE  /\ \A i \in DOMAIN rows : rows[i].of \in Attempts
                          /\ \A j \in DOMAIN queue : queue[j].of \in Attempts
                          /\ \A h \in Hand : h \in Attempts
                          /\ \A a \in sending : a \in Attempts
                          /\ \A r \in Requests : Len(picked[r]) \in Nat
  <1>1. \A i \in DOMAIN rows : rows[i] \in Row
    BY DEF IInv, TypeOK
  <1>2. \A j \in DOMAIN queue : queue[j].of \in Attempts
    BY DEF IInv, ContextsAreOwned, FromRequest
  <1>3. \A h \in Hand : h \in Attempts
    BY DEF IInv, ContextsAreOwned, FromRequest, Hand
  <1>4. (\A a \in sending : a \in Attempts) /\ \A r \in Requests : Len(picked[r]) \in Nat
    BY DEF IInv, TypeOK
  <1> QED BY <1>1, <1>2, <1>3, <1>4 DEF Row

LEMMA PickKeepsLine == ASSUME IInv, LineInv, NEW r \in Requests, Pick(r) PROVE LineInv'
  <1> DEFINE new == [request |-> r, n |-> Len(picked[r]) + 1]
  <1>1. UNCHANGED <<rows, queue, worker, item, Hand>> /\ sending' = sending \cup {new}
    BY DEF Pick, Hand
  <1>2. Len(picked'[r]) = Len(picked[r]) + 1 /\ \A q \in Requests \ {r} : picked'[q] = picked[q]
    <2>1. PICK g \in Groups \cup {None} : picked' = [picked EXCEPT ![r] = Append(@, g)]
      BY DEF Pick
    <2>2. picked \in [Requests -> Seq(Groups \cup {None})]
      BY DEF IInv, TypeOK
    <2> QED BY <2>1, <2>2, AppendProperties
  <1>3. \A a \in sending : a.request # r
    BY DEF Pick, Picking
  <1>4. \A a \in Attempts : a.n \in Nat /\ a.request \in Requests
    BY DEF Attempts
  <1>5. \A a \in Attempts : a.n <= Len(picked[a.request]) => Before(a, new) /\ a.n <= Len(picked'[a.request])
    BY <1>2, <1>4, LineTypes DEF Before
  <1>6. new.n = Len(picked'[new.request]) /\ \A a \in sending : picked'[a.request] = picked[a.request]
    BY <1>2, <1>3, <1>4, LineTypes
  <1>7. Counted'
    BY <1>1, <1>5, <1>6, LineTypes DEF LineInv, Counted
  <1>8. SendersLast'
    <2>1. ASSUME NEW a \in sending'
          PROVE  /\ \A i \in DOMAIN rows : Before(rows[i].of, a)
                 /\ \A j \in DOMAIN queue : Before(queue[j].of, a)
                 /\ \A h \in Hand : Before(h, a)
      <3> HIDE DEF new
      <3> QED BY <1>1, <1>5, LineTypes DEF LineInv, Counted, SendersLast
    <2>2. \A a, b \in sending' : a.request = b.request => a = b
      BY <1>1, <1>3 DEF LineInv, SendersLast
    <2> QED BY <1>1, <2>1, <2>2 DEF SendersLast
  <1>9. InLine'
    BY <1>1 DEF LineInv, InLine
  <1> QED BY <1>7, <1>8, <1>9 DEF LineInv

LEMMA PublishKeepsLine == ASSUME IInv, LineInv, NEW a \in sending, Publish(a) PROVE LineInv'
  <1> USE DEF LineInv
  <1>1. UNCHANGED <<rows, picked, worker, item, Hand>> /\ sending' = sending \ {a}
    BY DEF Publish, Hand, http
  <1>2. CASE queue' = queue
    BY <1>1, <1>2 DEF InLine, SendersLast, Counted
  <1>3. CASE queue' = Enqueued(a, ginCtx[a.request])
    <2> DEFINE q == [ctx |-> ginCtx[a.request], of |-> a]
    <2>1. \A j \in DOMAIN queue' : (j = Len(queue) + 1 /\ queue'[j] = q)
                                   \/ (j \in DOMAIN queue /\ j < Len(queue) + 1 /\ queue'[j] = queue[j])
      <3>1. queue \in Seq(Item) /\ queue' = Append(queue, q)
        BY <1>3 DEF Enqueued, IInv, TypeOK
      <3> QED BY <3>1
    <2>2. \A j \in DOMAIN queue' : queue'[j].of = a \/ (j \in DOMAIN queue /\ queue'[j].of = queue[j].of)
      BY <2>1
    <2>3. \A b \in sending' : b \in sending /\ b.request # a.request
      BY <1>1 DEF SendersLast
    <2>4. DOMAIN queue \in SUBSET Nat /\ Len(queue) \in Nat
      BY DEF IInv, TypeOK
    <2>5. \A i, j \in DOMAIN queue' : i < j => Before(queue'[i].of, queue'[j].of)
      <3> SUFFICES ASSUME NEW i \in DOMAIN queue', NEW j \in DOMAIN queue', i < j
                   PROVE  Before(queue'[i].of, queue'[j].of)
        OBVIOUS
      <3>1. i \in DOMAIN queue /\ queue'[i] = queue[i]
        BY <2>1, <2>4
      <3>2. CASE queue'[j] = q
        BY <3>1, <3>2 DEF SendersLast
      <3>3. CASE j \in DOMAIN queue /\ queue'[j] = queue[j]
        BY <3>1, <3>3 DEF InLine
      <3> QED BY <2>1, <3>2, <3>3
    <2>6. InLine'
      BY <1>1, <2>2, <2>5 DEF InLine, SendersLast
    <2>7. SendersLast'
      BY <1>1, <2>2, <2>3 DEF SendersLast, Before
    <2>8. Counted'
      BY <1>1, <2>2 DEF Counted
    <2> QED BY <2>6, <2>7, <2>8
  <1> QED BY <1>2, <1>3 DEF Publish

LEMMA TakeKeepsLine == ASSUME IInv, LineInv, Take PROVE LineInv'
  <1> USE DEF LineInv
  <1>1. queue \in Seq(Item) /\ queue # <<>>
    BY DEF Take, IInv, TypeOK
  <1>2. UNCHANGED <<rows, picked, sending>> /\ item' = queue[1] /\ queue' = Tail(queue) /\ Hand' = {queue[1].of}
    BY DEF Take, Rest, Hand, http
  <1>3. 1 \in DOMAIN queue /\ \A j \in DOMAIN queue' : j + 1 \in DOMAIN queue /\ queue'[j] = queue[j + 1] /\ j \in Nat /\ 1 < j + 1
    BY <1>1, <1>2
  <1>4. InLine'
    <2>1. \A i, j \in DOMAIN queue' : i < j => Before(queue'[i].of, queue'[j].of)
      BY <1>3 DEF InLine
    <2>2. \A j \in DOMAIN queue' : Before(queue[1].of, queue'[j].of)
      BY <1>3 DEF InLine
    <2> QED BY <1>2, <1>3, <2>1, <2>2 DEF InLine
  <1>5. SendersLast'
    BY <1>2, <1>3 DEF SendersLast
  <1>6. Counted'
    BY <1>2, <1>3 DEF Counted, Take
  <1> QED BY <1>4, <1>5, <1>6

LEMMA HandleKeepsLine == ASSUME IInv, LineInv, HandleUsage PROVE LineInv'
  <1> USE DEF LineInv
  <1>1. UNCHANGED <<queue, picked, sending>> /\ Hand' = {} /\ Hand = {item.of} /\ item' = NoItem
    BY DEF HandleUsage, Hand, http
  <1>2. CASE rows' = rows
    BY <1>1, <1>2 DEF InLine, SendersLast, Counted
  <1>3. CASE rows' # rows
    <2> DEFINE row == [of |-> item.of, user |-> keys[item.ctx].user, group |-> keys[item.ctx].group]
    <2>1. \A i \in DOMAIN rows' : (i = Len(rows) + 1 /\ rows'[i] = row)
                                  \/ (i \in DOMAIN rows /\ i < Len(rows) + 1 /\ rows'[i] = rows[i])
      <3>1. rows \in Seq(Row) /\ rows' = Append(rows, row)
        BY <1>3 DEF HandleUsage, IInv, TypeOK
      <3> HIDE DEF row
      <3> QED BY <3>1
    <2>2. \A i \in DOMAIN rows' : rows'[i].of = item.of \/ (i \in DOMAIN rows /\ rows'[i].of = rows[i].of)
      BY <2>1
    <2>3. DOMAIN rows \in SUBSET Nat /\ Len(rows) \in Nat
      BY DEF IInv, TypeOK
    <2>4. \A i, j \in DOMAIN rows' : i < j => Before(rows'[i].of, rows'[j].of)
      <3> SUFFICES ASSUME NEW i \in DOMAIN rows', NEW j \in DOMAIN rows', i < j
                   PROVE  Before(rows'[i].of, rows'[j].of)
        OBVIOUS
      <3>1. i \in DOMAIN rows /\ rows'[i] = rows[i]
        BY <2>1, <2>3
      <3>2. CASE rows'[j] = row
        BY <1>1, <3>1, <3>2 DEF InLine
      <3>3. CASE j \in DOMAIN rows /\ rows'[j] = rows[j]
        BY <3>1, <3>3 DEF InLine
      <3> QED BY <2>1, <3>2, <3>3
    <2>5. InLine'
      BY <1>1, <2>2, <2>4 DEF InLine
    <2>6. SendersLast' /\ Counted'
      BY <1>1, <2>2 DEF SendersLast, Counted
    <2> QED BY <2>5, <2>6
  <1> QED BY <1>2, <1>3

LEMMA LineStep == ASSUME IInv, LineInv, [Next]_vars PROVE LineInv'
  <1>1. ASSUME UNCHANGED <<rows, queue, sending, picked, item>>, worker' = worker \/ ("busy" \notin {worker, worker'})
        PROVE  LineInv'
    <2>1. Hand' = Hand
      BY <1>1 DEF Hand
    <2>2. InLine' /\ SendersLast'
      BY <1>1, <2>1 DEF LineInv, InLine, SendersLast
    <2>3. Counted'
      BY <1>1, <2>1 DEF LineInv, Counted
    <2> QED BY <2>2, <2>3 DEF LineInv
  <1>2. ASSUME NEW r \in Requests, ServeHTTP(r) \/ AuthMiddleware(r) \/ MapRace(r) \/ Finish(r)
        PROVE  LineInv'
    BY <1>1, <1>2 DEF ServeHTTP, AuthMiddleware, MapRace, Finish, http
  <1>3. ASSUME NEW r \in Requests, Pick(r) PROVE LineInv'
    BY <1>3, PickKeepsLine
  <1>4. CASE Signal \/ Wait \/ Return \/ Stop \/ Exit \/ UNCHANGED vars
    BY <1>1, <1>4 DEF Signal, Wait, Return, Stop, Exit, vars, http
  <1> QED BY <1>2, <1>3, <1>4, PublishKeepsLine, TakeKeepsLine, HandleKeepsLine DEF Next, Worker

LEMMA LineAlways == Spec => [](IInv /\ LineInv)
  <1>1. Init => LineInv
    BY DEF Init, LineInv, InLine, SendersLast, Counted, Hand
  <1>2. IInv /\ LineInv /\ [Next]_vars => LineInv'
    BY LineStep
  <1> QED BY <1>1, <1>2, IInvInit, IInvStep, PTL DEF Spec

\* The rows of a request are in the order of its attempts, however handlers, queue
\* and worker interleave, for any number of requests and attempts.
THEOREM RowsKeepOrder == Spec => []RowsInOrder
  <1>1. IInv /\ LineInv => RowsInOrder
    BY DEF LineInv, InLine, Before, RowsInOrder
  <1> QED BY <1>1, LineAlways, PTL

\* No record is queued twice, and none that became a row is handled again.
THEOREM RecordsHandledOnce == Spec => []HandledOnce
  <1>1. ASSUME IInv, LineInv PROVE HandledOnce
    <2>1. \A a \in Attempts : ~Before(a, a)
      BY DEF Before, Attempts
    <2>2. IsInjective(queue)
      <3> SUFFICES ASSUME NEW i \in DOMAIN queue, NEW j \in DOMAIN queue, queue[i] = queue[j], i # j
                   PROVE  FALSE
        BY DEF IsInjective
      <3>0. queue \in Seq(Item)
        BY <1>1 DEF IInv, TypeOK
      <3>1. i \in Nat /\ j \in Nat
        BY <3>0
      <3>2. Before(queue[i].of, queue[j].of) \/ Before(queue[j].of, queue[i].of)
        BY <3>1, <1>1 DEF LineInv, InLine
      <3> QED BY <1>1, <2>1, <3>2, LineTypes
    <2>3. ASSUME NEW i \in DOMAIN rows PROVE rows[i].of \notin Unhandled
      <3>1. rows[i].of \in Attempts /\ \A j \in DOMAIN queue : rows[i].of # queue[j].of
        BY <1>1, <2>1, LineTypes DEF LineInv, InLine
      <3>2. \A h \in Hand : rows[i].of # h
        BY <1>1, <2>1, LineTypes DEF LineInv, InLine
      <3>3. {item.of} \ {None} \subseteq Hand
        BY <1>1 DEF LineInv, Counted, Hand, NoItem
      <3> QED BY <3>1, <3>2, <3>3 DEF Unhandled
    <2> QED BY <2>2, <2>3 DEF HandledOnce
  <1> QED BY <1>1, LineAlways, PTL
-----------------------------------------------------------------------------
\* Of maps a sequence of records one by one, also when one is added.
LEMMA OfProperties ==
    ASSUME NEW S, NEW T, \A x \in S : x.of \in T, NEW s \in Seq(S)
    PROVE  Of(s) \in Seq(T) /\ Len(Of(s)) = Len(s) /\ \A i \in 1 .. Len(s) : Of(s)[i] = s[i].of
  <1>1. DOMAIN s = 1 .. Len(s) /\ Len(s) \in Nat /\ \A i \in 1 .. Len(s) : s[i] \in S
    OBVIOUS
  <1>2. Of(s) = [i \in 1 .. Len(s) |-> s[i].of]
    BY <1>1 DEF Of
  <1>3. Of(s) \in [1 .. Len(s) -> T]
    BY <1>1, <1>2
  <1>4. Of(s) \in Seq(T) /\ Len(Of(s)) = Len(s)
    BY <1>1, <1>3
  <1> QED BY <1>2, <1>4

LEMMA OfAppend ==
    ASSUME NEW S, NEW T, \A x \in S : x.of \in T, NEW s \in Seq(S), NEW e \in S
    PROVE  Of(Append(s, e)) = Append(Of(s), e.of)
  <1> DEFINE longer == Append(s, e)
             f == Of(longer)
             g == Of(s)
  <1>1. longer \in Seq(S) /\ Len(longer) = Len(s) + 1 /\ longer[Len(s) + 1] = e
        /\ Len(s) \in Nat /\ \A i \in 1 .. Len(s) : longer[i] = s[i]
    BY AppendProperties
  <1>2. f \in Seq(T) /\ Len(f) = Len(longer) /\ \A i \in 1 .. Len(longer) : f[i] = longer[i].of
    <2> HIDE DEF longer
    <2> QED BY <1>1, OfProperties
  <1>3. g \in Seq(T) /\ Len(g) = Len(s) /\ \A i \in 1 .. Len(s) : g[i] = s[i].of
    BY OfProperties
  <1>4. e.of \in T
    OBVIOUS
  <1>5. \A i \in 1 .. Len(s) + 1 : f[i] = IF i = Len(s) + 1 THEN e.of ELSE g[i]
    <2> HIDE DEF longer, f, g
    <2> QED BY <1>1, <1>2, <1>3
  <1>6. f = Append(g, e.of)
    <2> HIDE DEF longer, f, g
    <2> QED BY <1>1, <1>2, <1>3, <1>4, <1>5
  <1> QED BY <1>6

\* The queue implements the log.
LEMMA QueueTypes == ASSUME IInv
                    PROVE  /\ queue \in Seq(Item) /\ rows \in Seq(Row)
                           /\ Of(queue) \in Seq(Attempts \cup {None}) /\ Of(rows) \in Seq(Attempts)
  <1>1. queue \in Seq(Item) /\ rows \in Seq(Row)
    BY DEF IInv, TypeOK
  <1>2. (\A x \in Item : x.of \in Attempts \cup {None}) /\ \A x \in Row : x.of \in Attempts
    BY DEF Item, Row
  <1> QED BY <1>1, <1>2, OfProperties

LEMMA LogInit == Init => L!Init
  BY DEF Init, L!Init, line, log, past, Of

\* What changes neither records nor attempts is not seen.
LEMMA Unseen ==
    ASSUME UNCHANGED <<rows, queue, sending, picked, item, closed>>,
           worker' = worker \/ "busy" \notin {worker, worker'}
    PROVE  UNCHANGED L!vars
  BY DEF L!vars, line, log, past, Of

LEMMA PickUnseen == ASSUME IInv, LineInv, NEW r \in Requests, Pick(r) PROVE UNCHANGED L!vars
  <1>1. UNCHANGED <<rows, queue, item, worker, closed>>
        /\ sending' = sending \cup {[request |-> r, n |-> Len(picked[r]) + 1]}
    BY DEF Pick
  <1>2. Len(picked'[r]) = Len(picked[r]) + 1 /\ \A q \in Requests \ {r} : picked'[q] = picked[q]
    <2>1. PICK g \in Groups \cup {None} : picked' = [picked EXCEPT ![r] = Append(@, g)]
      BY DEF Pick
    <2>2. picked \in [Requests -> Seq(Groups \cup {None})]
      BY DEF IInv, TypeOK
    <2> QED BY <2>1, <2>2, AppendProperties
  <1>3. \A a \in sending : a.request # r
    BY DEF Pick, Picking
  <1>4. Len(picked[r]) \in Nat
    BY LineTypes
  <1>5. past' = past
    <2>1. past'[r] = past[r]
      <3>1. past[r] = Len(picked[r])
        BY <1>3 DEF past
      <3>2. \E a \in sending' : a.request = r
        <4> DEFINE new == [request |-> r, n |-> Len(picked[r]) + 1]
        <4>1. new \in sending' /\ new.request = r
          BY <1>1
        <4> HIDE DEF new
        <4> QED BY <4>1
      <3>3. past'[r] = Len(picked'[r]) - 1
        BY <3>2 DEF past
      <3> QED BY <1>2, <1>4, <3>1, <3>3
    <2>2. \A q \in Requests \ {r} : past'[q] = past[q]
      BY <1>1, <1>2 DEF past
    <2> QED BY <2>1, <2>2 DEF past
  <1> QED BY <1>1, <1>5 DEF L!vars, line, log, Of

\* A record joins the line in the turn of its attempt, or comes too late.
LEMMA PublishJoins ==
    ASSUME IInv, LineInv, NEW a \in sending, Publish(a)
    PROVE  L!Join(a.request) \/ L!ComeTooLate(a.request)
  <1> DEFINE r == a.request
  <1>1. a \in Attempts /\ r \in Requests /\ a.n \in 1 .. MaxAttempts /\ a = [request |-> r, n |-> a.n]
    BY LineTypes DEF Attempts
  <1>2. a.n = Len(picked[r]) /\ \A b \in sending : b.request = r => b = a
    BY DEF LineInv, Counted, SendersLast
  <1>3. UNCHANGED <<rows, picked, item, worker, closed, log>> /\ sending' = sending \ {a}
    BY DEF Publish, http, log, Of
  <1>4. past[r] = a.n - 1 /\ past'[r] = a.n
    BY <1>1, <1>2, <1>3 DEF past
  <1>5. \A q \in Requests \ {r} : past'[q] = past[q]
    BY <1>3 DEF past
  <1>6. L!Bring(r)
    <2>1. past[r] < MaxAttempts
      BY <1>1, <1>4
    <2>2. past' = [past EXCEPT ![r] = past[r] + 1]
      <3>1. past = [q \in Requests |-> past[q]] /\ past' = [q \in Requests |-> past'[q]]
        BY DEF past
      <3>2. past'[r] = past[r] + 1
        BY <1>1, <1>4
      <3> HIDE DEF r
      <3> QED BY <1>1, <1>5, <3>1, <3>2
    <2> QED BY <2>1, <2>2 DEF L!Bring
  <1>7. CASE closed /\ queue' = queue
    <2>1. line' = line
      BY <1>3, <1>7 DEF line, Of
    <2> QED BY <1>3, <1>6, <1>7, <2>1 DEF L!ComeTooLate
  <1>8. CASE ~closed /\ queue' = Enqueued(a, ginCtx[r])
    <2> DEFINE q == [ctx |-> ginCtx[r], of |-> a]
    <2>5. ginCtx[r] \in Contexts \cup {None}
      BY <1>1 DEF IInv, TypeOK
    <2>1. queue \in Seq(Item) /\ queue' = Append(queue, q) /\ q.of = a
      BY <1>8, QueueTypes DEF Enqueued
    <2>2. Of(queue') = Append(Of(queue), a)
      <3>1. (\A x \in Item : x.of \in Attempts \cup {None}) /\ q \in Item
        BY <1>1, <2>5 DEF Item
      <3> HIDE DEF q
      <3> QED BY <2>1, <3>1, OfAppend
    <2>3. line' = Append(line, a)
      <3>1. CASE worker # "busy"
        BY <1>3, <2>2, <3>1 DEF line, Of
      <3>2. CASE worker = "busy"
        <4>1. Of(queue) \in Seq(Attempts \cup {None}) /\ <<item.of>> \in Seq(Attempts \cup {None})
          BY QueueTypes DEF IInv, TypeOK, Item
        <4> DEFINE s == Of(queue)
        <4>2. <<item.of>> \o Append(s, a) = Append(<<item.of>> \o s, a)
          <5> HIDE DEF s
          <5> QED BY <1>1, <4>1
        <4>3. line = <<item.of>> \o s /\ line' = <<item.of>> \o Append(s, a)
          BY <1>3, <2>2, <3>2 DEF line, Of
        <4> QED BY <4>2, <4>3
      <3> QED BY <3>1, <3>2
    <2>4. a = [request |-> r, n |-> past[r] + 1]
      BY <1>1, <1>4
    <2> QED BY <1>3, <1>6, <1>8, <2>3, <2>4 DEF L!Join
  <1> QED BY <1>7, <1>8 DEF Publish

LEMMA TakeUnseen == ASSUME IInv, LineInv, Take PROVE UNCHANGED L!vars
  <1>1. queue \in Seq(Item) /\ queue # <<>> /\ worker = "looking" /\ worker' = "busy"
        /\ item' = queue[1] /\ queue' = Tail(queue)
    BY QueueTypes DEF Take, Rest
  <1>2. /\ Len(queue) \in Nat \ {0} /\ DOMAIN queue = 1 .. Len(queue)
        /\ Len(queue') = Len(queue) - 1 /\ DOMAIN queue' = 1 .. Len(queue) - 1
        /\ \A i \in DOMAIN queue' : queue'[i] = queue[i + 1]
    BY <1>1
  <1>3. line' = line
    <2> DEFINE s == Of(queue')
               t == Of(queue)
    <2>1. line' = <<queue[1].of>> \o s /\ line = t
      BY <1>1 DEF line, Of
    <2>2. s \in Seq(Attempts \cup {None}) /\ Len(s) = Len(queue) - 1
          /\ t \in Seq(Attempts \cup {None}) /\ Len(t) = Len(queue) /\ queue[1].of = t[1]
          /\ \A i \in 1 .. Len(queue) - 1 : s[i] = t[i + 1]
      <3>1. t \in Seq(Attempts \cup {None}) /\ Len(t) = Len(queue)
        BY <1>2, QueueTypes DEF Of
      <3>2. \A i \in 1 .. Len(queue) - 1 : s[i] = t[i + 1] /\ t[i + 1] \in Attempts \cup {None}
        BY <1>2, <3>1 DEF Of
      <3>3. s = [i \in 1 .. Len(queue) - 1 |-> queue'[i].of]
        BY <1>2 DEF Of
      <3> QED BY <1>2, <3>1, <3>2, <3>3 DEF Of
    <2>3. <<t[1]>> \o s = t
      <3> HIDE DEF s, t
      <3> QED BY <1>2, <2>2
    <2> QED BY <2>1, <2>2, <2>3
  <1>4. UNCHANGED <<rows, sending, picked, closed>>
    BY DEF Take, http
  <1> QED BY <1>3, <1>4 DEF L!vars, log, past, Of

LEMMA HandleSettles == ASSUME IInv, LineInv, HandleUsage PROVE L!Settle
  <1>1. UNCHANGED <<queue, sending, picked, closed>> /\ worker = "busy" /\ worker' = "looking"
    BY DEF HandleUsage, http
  <1> DEFINE s == Of(queue)
  <1>2. line = <<item.of>> \o s /\ line' = s /\ s \in Seq(Attempts \cup {None})
    BY <1>1, QueueTypes DEF line, Of
  <1>3. item.of \in Attempts
    BY <1>1, LineTypes DEF Hand
  <1>4. line # <<>> /\ Head(line) = item.of /\ Tail(line) = s
    <2> HIDE DEF s
    <2> QED BY <1>2, <1>3
  <1>5. log' = Append(log, item.of) \/ log' = log
    <2>1. CASE rows' = rows
      BY <2>1 DEF log, Of
    <2>2. CASE rows' # rows
      <3> DEFINE row == [of |-> item.of, user |-> keys[item.ctx].user, group |-> keys[item.ctx].group]
      <3>1. rows' = Append(rows, row) /\ rows \in Seq(Row) /\ row.of = item.of
        BY <2>2, QueueTypes DEF HandleUsage
      <3>2. row \in Row /\ \A x \in Row : x.of \in Attempts
        <4>1. item.ctx \in Contexts
          BY <1>1, <1>3 DEF IInv, ContextsAreOwned, FromRequest, Attempts
        <4> QED BY <1>3, <4>1 DEF Row, IInv, TypeOK, Metadata
      <3> HIDE DEF row
      <3>3. Of(rows') = Append(Of(rows), item.of)
        BY <3>1, <3>2, OfAppend
      <3> QED BY <3>3 DEF log
    <2> QED BY <2>1, <2>2
  <1>6. past' = past
    BY <1>1 DEF past
  <1> QED BY <1>1, <1>2, <1>4, <1>5, <1>6 DEF L!Settle

LEMMA LogStep == IInv /\ LineInv /\ [Next]_vars => [L!Next]_L!vars
  <1> SUFFICES ASSUME IInv, LineInv, [Next]_vars PROVE [L!Next]_L!vars
    OBVIOUS
  <1>1. ASSUME NEW r \in Requests, ServeHTTP(r) \/ AuthMiddleware(r) \/ MapRace(r) \/ Finish(r)
        PROVE  UNCHANGED L!vars
    BY <1>1, Unseen DEF ServeHTTP, AuthMiddleware, MapRace, Finish, http
  <1>2. CASE Signal \/ Wait \/ Return \/ Exit \/ UNCHANGED vars
    BY <1>2, Unseen DEF Signal, Wait, Return, Exit, vars, http
  <1>3. CASE Stop
    <2>1. UNCHANGED <<line, log, past>>
      BY <1>3 DEF Stop, http, line, log, past, Of
    <2> QED BY <1>3, <2>1 DEF Stop, L!Next, L!Close
  <1>4. ASSUME NEW r \in Requests, Pick(r) PROVE UNCHANGED L!vars
    BY <1>4, PickUnseen
  <1>5. ASSUME NEW a \in sending, Publish(a) PROVE L!Next
    BY <1>5, PublishJoins, LineTypes DEF L!Next, Attempts
  <1>6. CASE Take
    BY <1>6, TakeUnseen
  <1>7. CASE HandleUsage
    BY <1>7, HandleSettles DEF L!Next
  <1> QED BY <1>1, <1>2, <1>3, <1>4, <1>5, <1>6, <1>7 DEF Next, Worker

\* The queue implements the log, for any requests, attempts and contexts: no record
\* is lost while it waits, passed by another one or handled twice, however
\* handlers, worker, wake-ups and Stop interleave.
THEOREM QueueIsLog == Spec => ImplementsLog
  BY LineAlways, LogInit, LogStep, PTL DEF Spec, ImplementsLog, L!Spec
=============================================================================
