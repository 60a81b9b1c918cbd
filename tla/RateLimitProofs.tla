-------------------------- MODULE RateLimitProofs --------------------------
(* Theorems about RateLimit: its types, its connections and the windows of a *)
(* server, for any calls, instances, servers, limits and delays.             *)
EXTENDS RateLimit, FiniteSetTheorems, TLAPS

USE RateLimitAssumption DEF I

Connections ==
    /\ client \in [Instances -> Servers \cup {None}]
    /\ open \in [Instances -> Int]
    /\ holder \in [Instances -> Calls \cup {None}]
    /\ pc \in [Calls -> {"new", "breaker", "ensure", "ping", "eval", "failed", "memory", "done"}]
    /\ settings \in [Instances -> Choices]
    /\ cfg \in [Calls -> Choices \cup {Off}]
    /\ limiter \in [Calls -> Servers \cup {None, Closed}]

\* A call that talks to Redis has a server in its settings; while a call pings,
\* the instance has no limiter to hand out.
IInv ==
    /\ Connections /\ RightCounter /\ PingIsExclusive
    /\ \A c \in Calls : pc[c] \in {"breaker", "ensure"} => cfg[c] # Off
    /\ \A c \in Calls : pc[c] \in {"ping", "eval"} => cfg[c] \in Servers
    /\ \A i \in Instances : client[i] = None \/ holder[i] = None
    /\ \A i \in Instances : open[i] = IF client[i] = None /\ holder[i] = None THEN 0 ELSE 1

LEMMA IInvInit == Init => IInv
  BY DEF Init, IInv, Connections, RightCounter, PingIsExclusive

LEMMA IInvStep == IInv /\ [Next]_vars => IInv'
  <1> SUFFICES ASSUME IInv, [Next]_vars PROVE IInv'
    OBVIOUS
  <1> USE DEF IInv, Connections, RightCounter, PingIsExclusive, Goto
  <1>1. ASSUME NEW c \in Calls, AllowWindow(c) PROVE IInv'
    BY <1>1 DEF AllowWindow, local, world
  <1>2. ASSUME NEW c \in Calls, IsBreakerActive(c) PROVE IInv'
    BY <1>2 DEF IsBreakerActive, world
  <1>3. ASSUME NEW c \in Calls, EnsureRedis(c) PROVE IInv'
    <2>1. pc[c] = "ensure" /\ cfg[c] \in Servers \cup {NoAddress}
      BY <1>3 DEF EnsureRedis
    <2>2. UNCHANGED <<settings, cfg>>
      BY <1>3 DEF EnsureRedis, world
    <2>3. CASE cfg[c] = NoAddress
      <3>1. pc' = [pc EXCEPT ![c] = "failed"] /\ UNCHANGED <<client, open, holder, limiter>>
        BY <1>3, <2>3 DEF EnsureRedis
      <3> QED BY <2>1, <2>2, <3>1
    <2>4. CASE cfg[c] # NoAddress /\ SameClient(c)
      <3>1. /\ limiter' = [limiter EXCEPT ![c] = client[InstanceOf[c]]]
            /\ pc' = [pc EXCEPT ![c] = "eval"]
            /\ UNCHANGED <<client, open, holder>>
        BY <1>3, <2>4 DEF EnsureRedis
      <3>2. client[InstanceOf[c]] = cfg[c] /\ cfg[c] \in Servers
        BY <2>1, <2>4 DEF SameClient
      <3> QED BY <2>1, <2>2, <3>1, <3>2
    <2>5. CASE cfg[c] # NoAddress /\ ~SameClient(c)
      <3> DEFINE i == InstanceOf[c]
      <3>1. /\ limiter' = ClosedFor(i) /\ holder[i] = None
            /\ open' = [open EXCEPT ![i] = IF client[i] = None THEN open[i] + 1 ELSE open[i]]
            /\ client' = [client EXCEPT ![i] = None]
            /\ holder' = [holder EXCEPT ![i] = c]
            /\ pc' = [pc EXCEPT ![c] = "ping"]
        BY <1>3, <2>5 DEF EnsureRedis, Unlocked
      <3>2. \A d \in Calls : limiter'[d] \in {limiter[d], Closed}
        BY <3>1 DEF ClosedFor
      <3>3. limiter' \in [Calls -> Servers \cup {None, Closed}]
        BY <3>1 DEF ClosedFor
      <3>4. i \in Instances /\ open'[i] = 1 /\ \A j \in Instances \ {i} : open'[j] = open[j]
        BY <3>1
      <3>5. open' \in [Instances -> Int]
        BY <3>1
      <3>6. RightCounter'
        BY <2>2, <3>1, <3>2
      <3>7. PingIsExclusive'
        BY <2>2, <3>1, <3>4
      <3>8. \A j \in Instances :
               /\ client'[j] = None \/ holder'[j] = None
               /\ open'[j] = IF client'[j] = None /\ holder'[j] = None THEN 0 ELSE 1
        BY <3>1, <3>4
      <3> QED BY <2>1, <2>2, <2>5, <3>1, <3>3, <3>5, <3>6, <3>7, <3>8
    <2> QED BY <2>3, <2>4, <2>5
  <1>4. ASSUME NEW c \in Calls, Ping(c) PROVE IInv'
    <2> DEFINE i == InstanceOf[c]
    <2>1. /\ pc[c] = "ping" /\ cfg[c] \in Servers /\ holder[i] = c
          /\ client[i] = None /\ open[i] = 1 /\ i \in Instances
      BY <1>4 DEF Ping
    <2>2. UNCHANGED <<settings, cfg>> /\ holder' = [holder EXCEPT ![i] = None]
      BY <1>4 DEF Ping, world, Released
    <2>3. CASE /\ client' = [client EXCEPT ![i] = cfg[c]]
               /\ limiter' = [limiter EXCEPT ![c] = cfg[c]]
               /\ pc' = [pc EXCEPT ![c] = "eval"]
               /\ UNCHANGED open
      BY <2>1, <2>2, <2>3
    <2>4. CASE /\ open' = StillOpen(i)
               /\ pc' = [pc EXCEPT ![c] = "failed"]
               /\ UNCHANGED <<client, limiter>>
      BY <2>1, <2>2, <2>4 DEF StillOpen
    <2> QED BY <1>4, <2>3, <2>4 DEF Ping
  <1>5. ASSUME NEW c \in Calls, RedisAllowWindow(c) PROVE IInv'
    <2>1. /\ pc[c] = "eval" /\ limiter' = [limiter EXCEPT ![c] = None]
          /\ UNCHANGED <<client, open, holder, settings, cfg>>
      BY <1>5 DEF RedisAllowWindow, local, world
    <2>2. pc' = [pc EXCEPT ![c] = "done"] \/ pc' = [pc EXCEPT ![c] = "failed"]
      BY <1>5 DEF RedisAllowWindow
    <2> QED BY <2>1, <2>2
  <1>6. ASSUME NEW c \in Calls, TripBreaker(c) PROVE IInv'
    BY <1>6 DEF TripBreaker, world
  <1>7. ASSUME NEW c \in Calls, MemoryAllowWindow(c) PROVE IInv'
    <2>1. /\ pc[c] = "memory" /\ pc' = [pc EXCEPT ![c] = "done"]
          /\ UNCHANGED <<client, open, holder, settings, cfg, limiter>>
      BY <1>7 DEF MemoryAllowWindow, world
    <2> QED BY <2>1
  <1>8. ASSUME NEW i \in Instances, Reconfigure(i) PROVE IInv'
    BY <1>8 DEF Reconfigure, local
  <1>9. CASE Tick \/ UNCHANGED vars
    BY <1>9 DEF Tick, vars, local, world
  <1> QED
    BY <1>1, <1>2, <1>3, <1>4, <1>5, <1>6, <1>7, <1>8, <1>9 DEF Next, Step

\* The inductive invariant behind the theorems below.
THEOREM IInvHolds == Spec => []IInv
  BY IInvInit, IInvStep, PTL DEF Spec

\* A call is counted by the server its settings name, also while other calls of
\* the instance reconnect it elsewhere.
THEOREM CountedByRightServer == Spec => []RightCounter
<1>1. IInv => RightCounter
  BY DEF IInv
<1> QED
  BY <1>1, IInvHolds, PTL

LEMMA OneOrNone ==
    ASSUME NEW a, NEW h, a = None \/ h = None
    PROVE  Cardinality({x \in {a, h} : x # None}) = IF a = None /\ h = None THEN 0 ELSE 1
  <1>1. CASE a = None /\ h = None
    <2>1. {x \in {a, h} : x # None} = {}
      BY <1>1
    <2> QED BY <1>1, <2>1, FS_EmptySet
  <1>2. CASE ~(a = None /\ h = None)
    <2>1. PICK x : {y \in {a, h} : y # None} = {x}
      BY <1>2
    <2> QED BY <1>2, <2>1, FS_Singleton
  <1> QED BY <1>1, <1>2

\* No client is left open: whatever the settings and the pings do, an instance
\* has its current client or the one that is being tried, and no other.
THEOREM ClientsAreClosed == Spec => []NoLeak
<1>1. ASSUME IInv, NEW i \in Instances
      PROVE  open[i] = Cardinality({x \in {client[i], holder[i]} : x # None})
  <2>1. client[i] = None \/ holder[i] = None
    BY <1>1 DEF IInv
  <2>2. open[i] = IF client[i] = None /\ holder[i] = None THEN 0 ELSE 1
    BY <1>1 DEF IInv
  <2> QED BY <2>1, <2>2, OneOrNone
<1>2. IInv => NoLeak
  BY <1>1 DEF NoLeak
<1> QED
  BY <1>2, IInvHolds, PTL
-----------------------------------------------------------------------------
\* A limiter that has not been closed is the current one of its instance.
Current == \A c \in Calls :
    pc[c] = "eval" /\ limiter[c] # Closed => limiter[c] = client[I(c)]

LEMMA CurrentStep == ASSUME IInv, IInv', Current, [Next]_vars PROVE Current'
  <1> USE DEF IInv, Connections, RightCounter, PingIsExclusive, Current, Goto
  <1>1. ASSUME NEW c \in Calls, AllowWindow(c) \/ IsBreakerActive(c) PROVE Current'
    BY <1>1 DEF AllowWindow, IsBreakerActive, local, world
  <1>2. ASSUME NEW c \in Calls, EnsureRedis(c) PROVE Current'
    <2>1. CASE UNCHANGED <<client, limiter>> /\ pc' = [pc EXCEPT ![c] = "failed"]
      BY <2>1
    <2>2. CASE limiter' = [limiter EXCEPT ![c] = client[I(c)]] /\ UNCHANGED client
               /\ pc' = [pc EXCEPT ![c] = "eval"]
      BY <2>2
    <2>3. CASE limiter' = ClosedFor(I(c)) /\ client' = [client EXCEPT ![I(c)] = None]
               /\ pc' = [pc EXCEPT ![c] = "ping"]
      BY <2>3 DEF ClosedFor
    <2> QED BY <1>2, <2>1, <2>2, <2>3 DEF EnsureRedis
  <1>3. ASSUME NEW c \in Calls, Ping(c) PROVE Current'
    <2>1. pc[c] = "ping" /\ client[I(c)] = None
      BY <1>3 DEF Ping
    <2>2. \A d \in Calls : I(d) = I(c) /\ pc[d] = "eval" => limiter[d] = Closed
      BY <2>1
    <2> QED BY <1>3, <2>1, <2>2 DEF Ping
  <1>4. ASSUME NEW c \in Calls, RedisAllowWindow(c) PROVE Current'
    <2>1. /\ limiter' = [limiter EXCEPT ![c] = None] /\ UNCHANGED client
          /\ pc' = [pc EXCEPT ![c] = "done"] \/ pc' = [pc EXCEPT ![c] = "failed"]
      BY <1>4 DEF RedisAllowWindow, local
    <2> QED BY <2>1
  <1>5. ASSUME NEW c \in Calls, TripBreaker(c) \/ MemoryAllowWindow(c) PROVE Current'
    <2>1. /\ UNCHANGED <<client, limiter>>
          /\ pc' = [pc EXCEPT ![c] = "memory"] \/ pc' = [pc EXCEPT ![c] = "done"]
      BY <1>5 DEF TripBreaker, MemoryAllowWindow
    <2> QED BY <2>1
  <1>6. CASE (\E i \in Instances : Reconfigure(i)) \/ Tick \/ UNCHANGED vars
    BY <1>6 DEF Reconfigure, Tick, vars, local, world
  <1> QED BY <1>1, <1>2, <1>3, <1>4, <1>5, <1>6 DEF Next, Step

\* Only a call that has read other settings closes a limiter that is in use: for the
\* same settings SameClient would have found it.
THEOREM LimitersAreShared == Spec => ClosedByOthers
  <1>1. Init => Current
    BY DEF Init, Current
  <1>2. ASSUME IInv, Current, [Next]_vars,
               NEW c \in Calls, pc[c] = "eval", limiter[c] # Closed, limiter'[c] = Closed
        PROVE  \E d \in Calls : I(d) = I(c) /\ pc'[d] = "ping" /\ cfg[d] # cfg[c]
    <2> USE DEF IInv, Connections, RightCounter
    <2>1. limiter[c] = cfg[c] /\ client[I(c)] = cfg[c]
      BY <1>2 DEF Current
    <2>2. PICK d \in Calls : EnsureRedis(d) /\ limiter' = ClosedFor(I(d))
      <3>1. ASSUME NEW d \in Calls, AllowWindow(d) \/ IsBreakerActive(d) \/ TripBreaker(d) \/ MemoryAllowWindow(d)
            PROVE  FALSE
        BY <1>2, <3>1 DEF AllowWindow, IsBreakerActive, TripBreaker, MemoryAllowWindow
      <3>2. ASSUME NEW d \in Calls, Ping(d) PROVE FALSE
        BY <1>2, <3>2 DEF Ping
      <3>3. ASSUME NEW d \in Calls, RedisAllowWindow(d) PROVE FALSE
        BY <1>2, <3>3 DEF RedisAllowWindow
      <3>4. ~(\E i \in Instances : Reconfigure(i)) /\ ~Tick /\ ~UNCHANGED vars
        BY <1>2 DEF Reconfigure, Tick, vars
      <3>5. PICK d \in Calls : EnsureRedis(d)
        BY <1>2, <3>1, <3>2, <3>3, <3>4 DEF Next, Step
      <3>6. ~UNCHANGED limiter
        BY <1>2
      <3>7. limiter' # [limiter EXCEPT ![d] = client[I(d)]]
        BY <1>2
      <3> QED BY <3>5, <3>6, <3>7 DEF EnsureRedis
    <2>3. I(d) = I(c)
      BY <1>2, <2>2 DEF ClosedFor
    <2>4. pc'[d] = "ping" /\ cfg[d] # client[I(d)]
      <3>1. limiter' # limiter /\ limiter' # [limiter EXCEPT ![d] = client[I(d)]]
        BY <1>2
      <3> QED BY <1>2, <2>2, <3>1 DEF EnsureRedis, SameClient, Goto
    <2> QED BY <2>1, <2>3, <2>4
  <1>3. IInv /\ Current /\ [Next]_vars =>
          [\A c \in Calls : pc[c] = "eval" /\ limiter[c] # Closed /\ limiter'[c] = Closed
              => \E d \in Calls : I(d) = I(c) /\ pc'[d] = "ping" /\ cfg[d] # cfg[c]]_vars
    BY <1>2
  <1> QED BY <1>1, <1>3, CurrentStep, IInvHolds, PTL DEF Spec, ClosedByOthers
-----------------------------------------------------------------------------
\* A window has its bucket.
LEMMA BucketOf == ASSUME NEW t \in Nat
                  PROVE  /\ Bucket(t) \in Nat
                         /\ Bucket(t) * Window <= t /\ t < Bucket(t) * Window + Window
  <1>1. Window \in Nat /\ Window > 0
    OBVIOUS
  <1> QED BY <1>1 DEF Bucket

LEMMA BucketInRange == ASSUME NEW t \in 0 .. MaxTime PROVE Bucket(t) \in Buckets
  <1>1. Bucket(t) * Window < Bucket(MaxTime) * Window + Window /\ Bucket(t) \in Nat /\ Bucket(MaxTime) \in Nat
    BY BucketOf
  <1>2. ASSUME NEW m \in Nat, NEW n \in Nat, m * Window < n * Window + Window PROVE m <= n
    <2>1. ASSUME m >= n + 1 PROVE FALSE
      <3>1. m * Window >= (n + 1) * Window
        BY <2>1
      <3>2. (n + 1) * Window = n * Window + Window
        OBVIOUS
      <3> QED BY <1>2, <3>1, <3>2
    <2> QED BY <2>1
  <1> QED BY <1>1, <1>2 DEF Buckets

\* The types of what counts.
Counting ==
    /\ clock \in 0..MaxTime
    /\ counts \in [Servers -> [Buckets -> Counter]]
    /\ memory \in [Instances -> [window : Buckets, count : 0..Limit]]
    /\ breakerUntil \in [Instances -> 0..(MaxTime + Breaker)]
    /\ now \in [Calls -> 0..MaxTime]
    /\ granted \subseteq [call : Calls, by : Servers \cup Instances, bucket : Buckets, at : 0..MaxTime]

LEMMA IncrementedType == ASSUME clock \in Nat, NEW key \in Counter
                         PROVE  Incremented(key) \in Counter
  BY DEF Counter, Incremented, TTL

LEMMA GrantType == ASSUME Counting, NEW c \in Calls, NEW by \in Servers \cup Instances, Grant(c, by)
                   PROVE  granted' \subseteq [call : Calls, by : Servers \cup Instances, bucket : Buckets, at : 0..MaxTime]
  BY BucketInRange DEF Counting, Grant

\* What a call that asks Redis does to the counters.
LEMMA RedisStep == ASSUME IInv, Counting, NEW c \in Calls, RedisAllowWindow(c)
                   PROVE  /\ pc[c] = "eval" /\ UNCHANGED <<clock, memory, breakerUntil, now>>
                          /\ \/ UNCHANGED <<counts, granted>>
                             \/ \E s \in Servers : \E b \in Buckets : \E key \in Counter :
                                   /\ b = Bucket(now[c]) /\ key = Incremented(counts[s][b])
                                   /\ counts' = [counts EXCEPT ![s][b] = key]
                                   /\ granted' = granted \/ (MayPass(key.n) /\ Grant(c, s))
  <1> DEFINE s == limiter[c]
             b == Bucket(now[c])
             key == Incremented(counts[s][b])
  <1>1. pc[c] = "eval" /\ UNCHANGED <<clock, memory, breakerUntil, now>>
    BY DEF RedisAllowWindow, world, local
  <1>2. CASE UNCHANGED <<counts, granted>>
    BY <1>1, <1>2
  <1>3. CASE s # Closed /\ counts' = [counts EXCEPT ![s][b] = key] /\ (granted' = granted \/ (MayPass(key.n) /\ Grant(c, s)))
    <2>1. s \in Servers /\ b \in Buckets
      BY <1>1, <1>3, BucketInRange DEF IInv, RightCounter, Counting
    <2>2. key \in Counter
      BY <2>1, IncrementedType DEF Counting
    <2> HIDE DEF s, b
    <2>3. /\ b = Bucket(now[c]) /\ key = Incremented(counts[s][b])
          /\ counts' = [counts EXCEPT ![s][b] = key]
          /\ granted' = granted \/ (MayPass(key.n) /\ Grant(c, s))
      BY <1>3 DEF b
    <2> QED BY <1>1, <2>1, <2>2, <2>3
  <1> QED BY <1>2, <1>3 DEF RedisAllowWindow

LEMMA CountingStep == ASSUME IInv, Counting, [Next]_vars PROVE Counting'
  <1> USE DEF Counting
  <1>1. ASSUME NEW c \in Calls, AllowWindow(c) PROVE Counting'
    BY <1>1 DEF AllowWindow, world, local
  <1>2. ASSUME NEW c \in Calls, IsBreakerActive(c) PROVE Counting'
    BY <1>2 DEF IsBreakerActive, world
  <1>3. ASSUME NEW c \in Calls, EnsureRedis(c) \/ Ping(c) PROVE Counting'
    BY <1>3 DEF EnsureRedis, Ping, world
  <1>4. ASSUME NEW c \in Calls, RedisAllowWindow(c) PROVE Counting'
    <2>1. UNCHANGED <<clock, memory, breakerUntil, now>>
      BY <1>4, RedisStep
    <2>2. CASE UNCHANGED <<counts, granted>>
      BY <2>1, <2>2
    <2>3. CASE ~UNCHANGED <<counts, granted>>
      <3>1. PICK s \in Servers, b \in Buckets, key \in Counter :
               /\ counts' = [counts EXCEPT ![s][b] = key]
               /\ granted' = granted \/ Grant(c, s)
        BY <1>4, <2>3, RedisStep
      <3>2. granted' \subseteq [call : Calls, by : Servers \cup Instances, bucket : Buckets, at : 0..MaxTime]
        BY <3>1, GrantType
      <3> QED BY <2>1, <3>1, <3>2
    <2> QED BY <2>2, <2>3
  <1>5. ASSUME NEW c \in Calls, TripBreaker(c) PROVE Counting'
    BY <1>5 DEF TripBreaker, world
  <1>6. ASSUME NEW c \in Calls, MemoryAllowWindow(c) PROVE Counting'
    <2> DEFINE b == Bucket(now[c])
               entry == IF memory[I(c)].window = b THEN memory[I(c)] ELSE [window |-> b, count |-> 0]
    <2>1. b \in Buckets /\ I(c) \in Instances
      BY BucketInRange
    <2>2. entry \in [window : Buckets, count : 0..Limit]
      BY <2>1
    <2>3. UNCHANGED <<clock, counts, breakerUntil, now>>
      BY <1>6 DEF MemoryAllowWindow, world
    <2>4. CASE HasRoom(entry) /\ memory' = [memory EXCEPT ![I(c)] = [entry EXCEPT !.count = @ + 1]] /\ Grant(c, I(c))
      <3>1. [entry EXCEPT !.count = @ + 1] \in [window : Buckets, count : 0..Limit]
        <4> HIDE DEF entry
        <4> QED BY <2>2, <2>4 DEF HasRoom
      <3>2. granted' \subseteq [call : Calls, by : Servers \cup Instances, bucket : Buckets, at : 0..MaxTime]
        BY <2>1, <2>4, GrantType
      <3> HIDE DEF entry
      <3> QED BY <2>1, <2>3, <2>4, <3>1, <3>2
    <2>5. CASE memory' = [memory EXCEPT ![I(c)] = entry] /\ UNCHANGED granted
      <3> HIDE DEF entry
      <3> QED BY <2>1, <2>2, <2>3, <2>5
    <2> QED BY <1>6, <2>4, <2>5 DEF MemoryAllowWindow
  <1>7. CASE (\E i \in Instances : Reconfigure(i)) \/ Tick \/ UNCHANGED vars
    BY <1>7 DEF Reconfigure, Tick, vars, local, world
  <1> QED BY <1>1, <1>2, <1>3, <1>4, <1>5, <1>6, <1>7 DEF Next, Step

LEMMA CountingInit == Init => Counting
  <1>1. 0 \in Buckets
    BY BucketOf DEF Buckets
  <1> QED BY <1>1 DEF Init, Counting, Counter

LEMMA CountingAlways == Spec => []Counting
  BY CountingInit, CountingStep, IInvHolds, PTL DEF Spec

\* Every variable keeps its type: no counter of the memory exceeds the limit, no
\* breaker is open for longer than its time.
THEOREM TypeCorrect == Spec => []TypeOK
  <1>1. IInv /\ Counting => TypeOK
    BY DEF IInv, Connections, Counting, TypeOK
  <1> QED BY <1>1, IInvHolds, CountingAlways, PTL
-----------------------------------------------------------------------------
\* The windows of one server.  A key that is born at Birth lives for TTL seconds.  The
\* grants of its bucket are those before its birth, bounded by how many keys can have
\* died before, and those since, bounded by its counter and by the limit.
Of(G, s, b) == {g \in G : g.by \in {s} /\ g.bucket = b}
Before(G, t) == {g \in G : g.at < t}
Since(G, t) == {g \in G : t <= g.at}
Late(b, n) == b * Window + n * TTL
Birth(key) == key.expires - TTL

Alive(G, key, b, t) ==
    /\ b * Window <= Birth(key) /\ Birth(key) <= t
    /\ \A g \in G : g.at < key.expires
    /\ Cardinality(Since(G, Birth(key))) <= key.n /\ Cardinality(Since(G, Birth(key))) <= Limit
    /\ \A n \in Nat : Birth(key) < Late(b, n) => Cardinality(Before(G, Birth(key))) <= (n - 1) * Limit

Kept(G, key, b, t) ==
    /\ \A n \in Nat \ {0} : Cardinality(Before(G, Late(b, n))) <= n * Limit
    /\ key.n = 0 => G = {}
    /\ key.n > 0 => Alive(G, key, b, t)

Timely == \A c \in Calls : now[c] <= clock
Covered == \A s \in Servers, b \in Buckets : Kept(Of(granted, s, b), counts[s][b], b, clock)
WindowInv == IsFiniteSet(granted) /\ Timely /\ Covered

Grants == [call : Calls, by : Servers \cup Instances, bucket : Buckets, at : 0..MaxTime]

LEMMA Parts == ASSUME NEW G, IsFiniteSet(G), G \subseteq Grants, NEW t \in Int
               PROVE  /\ IsFiniteSet(Before(G, t)) /\ Cardinality(Before(G, t)) \in Nat
                      /\ IsFiniteSet(Since(G, t)) /\ Cardinality(Since(G, t)) \in Nat
                      /\ Cardinality(G) \in Nat
                      /\ Cardinality(G) <= Cardinality(Before(G, t)) + Cardinality(Since(G, t))
  <1>1. Before(G, t) \subseteq G /\ Since(G, t) \subseteq G
    BY DEF Before, Since
  <1>2. /\ IsFiniteSet(Before(G, t)) /\ Cardinality(Before(G, t)) \in Nat
        /\ IsFiniteSet(Since(G, t)) /\ Cardinality(Since(G, t)) \in Nat
        /\ Cardinality(G) \in Nat
    BY <1>1, FS_Subset, FS_CardinalityType
  <1>3. G = Before(G, t) \cup Since(G, t)
    <2>1. \A g \in G : g.at \in Int
      BY DEF Grants
    <2> QED BY <2>1 DEF Before, Since
  <1>4. Before(G, t) \cap Since(G, t) = {}
    <2>1. \A g \in G : g.at \in Int
      BY DEF Grants
    <2> QED BY <2>1 DEF Before, Since
  <1>5. Cardinality(Before(G, t) \cup Since(G, t))
          = Cardinality(Before(G, t)) + Cardinality(Since(G, t)) - Cardinality(Before(G, t) \cap Since(G, t))
    BY <1>2, FS_Union
  <1>6. Cardinality(Before(G, t) \cap Since(G, t)) = 0
    BY <1>4, FS_EmptySet
  <1>7. Cardinality(G) = Cardinality(Before(G, t) \cup Since(G, t))
    BY <1>3
  <1> QED BY <1>2, <1>5, <1>6, <1>7

\* The grants of the bucket after an answer: those of G, and perhaps one of now.
AddsNow(G, H, t) == H = G \/ \E g \in Grants : g.at = t /\ H = G \cup {g}

LEMMA NewGrant == ASSUME NEW G, IsFiniteSet(G), G \subseteq Grants, NEW t \in Nat, NEW H, AddsNow(G, H, t), NEW u \in Int
                  PROVE  /\ IsFiniteSet(H) /\ H \subseteq Grants
                         /\ u <= t => Before(H, u) = Before(G, u)
                         /\ Cardinality(Since(H, u)) <= Cardinality(Since(G, u)) + 1
                         /\ \A g \in H : g \in G \/ g.at = t
  <1>1. CASE H = G
    BY <1>1, Parts
  <1>2. ASSUME NEW g \in Grants, g.at = t, H = G \cup {g}
        PROVE  /\ IsFiniteSet(H) /\ H \subseteq Grants
               /\ u <= t => Before(H, u) = Before(G, u)
               /\ Cardinality(Since(H, u)) <= Cardinality(Since(G, u)) + 1
               /\ \A x \in H : x \in G \/ x.at = t
    <2>1. IsFiniteSet(H) /\ H \subseteq Grants /\ \A x \in H : x \in G \/ x.at = t
      BY <1>2, FS_AddElement
    <2>2. u <= t => Before(H, u) = Before(G, u)
      BY <1>2 DEF Before
    <2>3. Since(H, u) = Since(G, u) \/ Since(H, u) = Since(G, u) \cup {g}
      BY <1>2 DEF Since
    <2>4. IsFiniteSet(Since(G, u)) /\ Cardinality(Since(G, u)) \in Nat
      BY Parts
    <2>5. Cardinality(Since(G, u) \cup {g}) = Cardinality(Since(G, u)) \/ Cardinality(Since(G, u) \cup {g}) = Cardinality(Since(G, u)) + 1
      BY <2>4, FS_AddElement
    <2>6. Cardinality(Since(H, u)) \in {Cardinality(Since(G, u)), Cardinality(Since(G, u) \cup {g})}
      BY <2>3
    <2> QED BY <2>1, <2>2, <2>4, <2>5, <2>6
  <1> QED BY <1>1, <1>2 DEF AddsNow

\* TTL apart, one key more.
LEMMA LateBy == ASSUME NEW b \in Nat, NEW n \in Nat
                PROVE  /\ Late(b, n) \in Nat /\ Late(b, 0) = b * Window /\ TTL \in Nat /\ TTL > 0
                       /\ n > 0 => Late(b, n) = Late(b, n - 1) + TTL /\ n * Limit = (n - 1) * Limit + Limit
                       /\ n * Limit \in Nat
  <1>1. TTL \in Nat /\ TTL > 0
    BY DEF TTL
  <1>2. b * Window \in Nat /\ n * TTL \in Nat /\ n * Limit \in Nat
    BY <1>1
  <1>3. n * TTL = (n - 1) * TTL + TTL /\ n * Limit = (n - 1) * Limit + Limit
    BY <1>1
  <1>4. 0 * TTL = 0
    BY <1>1
  <1> HIDE DEF TTL
  <1> QED BY <1>1, <1>2, <1>3, <1>4 DEF Late

\* What is alive keeps its windows: those that began after its birth hold what was
\* granted before, and the limit.
LEMMA AliveCovers == ASSUME NEW G, IsFiniteSet(G), G \subseteq Grants, NEW key \in Counter, NEW b \in Nat, NEW t \in Nat,
                            Alive(G, key, b, t), NEW n \in Nat, Birth(key) < Late(b, n)
                     PROVE  n > 0 /\ Cardinality(G) <= n * Limit
  <1>1. Birth(key) \in Int
    BY LateBy DEF Birth, Counter
  <1>2. n > 0
    <2>1. Late(b, 0) <= Birth(key)
      BY LateBy DEF Alive
    <2>2. Late(b, 0) \in Nat /\ Late(b, n) \in Nat
      BY LateBy
    <2>3. n # 0
      BY <1>1, <2>1, <2>2
    <2> QED BY <2>3
  <1>3. /\ Cardinality(Before(G, Birth(key))) <= (n - 1) * Limit /\ Cardinality(Since(G, Birth(key))) <= Limit
        /\ n * Limit = (n - 1) * Limit + Limit /\ n * Limit \in Nat
    BY <1>2, LateBy DEF Alive
  <1>4. /\ Cardinality(G) \in Nat /\ Cardinality(Before(G, Birth(key))) \in Nat /\ Cardinality(Since(G, Birth(key))) \in Nat
        /\ Cardinality(G) <= Cardinality(Before(G, Birth(key))) + Cardinality(Since(G, Birth(key)))
    BY <1>1, Parts
  <1>5. (n - 1) * Limit \in Int
    BY <1>2
  <1> DEFINE a == (n - 1) * Limit
             m == n * Limit
  <1>6. /\ m = a + Limit /\ a \in Int /\ m \in Nat
        /\ Cardinality(Before(G, Birth(key))) <= a
    BY <1>3, <1>5
  <1> HIDE DEF a, m
  <1>7. Cardinality(G) <= m
    BY <1>3, <1>4, <1>6
  <1> QED BY <1>2, <1>7 DEF m

\* Windows that began before a grant keep what they have; what is alive covers others.
LEMMA Windows == ASSUME NEW G, IsFiniteSet(G), G \subseteq Grants, NEW old \in Counter, NEW b \in Nat, NEW t \in Nat,
                        Kept(G, old, b, t), NEW H, AddsNow(G, H, t), NEW key \in Counter, Alive(H, key, b, t), key.n > 0
                 PROVE  Kept(H, key, b, t)
  <1>1. ASSUME NEW n \in Nat \ {0} PROVE Cardinality(Before(H, Late(b, n))) <= n * Limit
    <2>1. Late(b, n) \in Int /\ n \in Nat
      BY LateBy
    <2>2. CASE Late(b, n) <= Birth(key)
      <3>1. Late(b, n) <= t
        <4>1. Birth(key) <= t /\ Birth(key) \in Int
          BY LateBy DEF Alive, Birth, Counter
        <4> QED BY <2>1, <2>2, <4>1
      <3>2. Before(H, Late(b, n)) = Before(G, Late(b, n))
        BY <2>1, <3>1, NewGrant
      <3> QED BY <3>2 DEF Kept
    <2>3. CASE Birth(key) < Late(b, n)
      <3>1. IsFiniteSet(H) /\ H \subseteq Grants
        BY <2>1, NewGrant
      <3>2. Cardinality(H) <= n * Limit
        BY <2>1, <2>3, <3>1, AliveCovers
      <3>3. Before(H, Late(b, n)) \subseteq H
        BY DEF Before
      <3>4. Cardinality(Before(H, Late(b, n))) <= Cardinality(H)
        BY <3>1, <3>3, FS_Subset
      <3>5. Cardinality(Before(H, Late(b, n))) \in Nat /\ Cardinality(H) \in Nat /\ n * Limit \in Nat
        BY <2>1, <3>1, Parts, LateBy
      <3> QED BY <3>2, <3>4, <3>5
    <2>4. Birth(key) \in Int
      BY LateBy DEF Birth, Counter
    <2> QED BY <2>1, <2>2, <2>3, <2>4
  <1> QED BY <1>1 DEF Kept, Counter

\* An answer of the server keeps the windows of its bucket.  A key that starts again
\* does so TTL after the last one, when everything before is bounded by one key less.
LEMMA CountKeeps == ASSUME NEW G, IsFiniteSet(G), G \subseteq Grants, NEW old \in Counter, NEW b \in Nat, clock \in Nat,
                           Kept(G, old, b, clock), b * Window <= clock, NEW key \in Counter, key = Incremented(old),
                           NEW H, AddsNow(G, H, clock), H = G \/ MayPass(key.n)
                    PROVE  Kept(H, key, b, clock)
  <1> DEFINE t == clock
  <1>0. /\ TTL \in Nat /\ TTL > 0 /\ old.n \in Nat /\ old.expires \in Nat
        /\ Birth(old) \in Int /\ Birth(old) + TTL = old.expires /\ b * Window \in Nat
    <2>1. TTL \in Nat /\ TTL > 0 /\ b * Window \in Nat
      BY DEF TTL
    <2>2. old.n \in Nat /\ old.expires \in Nat
      BY DEF Counter
    <2> HIDE DEF TTL
    <2> QED BY <2>1, <2>2 DEF Birth
  <1>a. IsFiniteSet(H) /\ H \subseteq Grants /\ \A g \in H : g \in G \/ g.at = t
    BY <1>0, NewGrant
  <1>1. CASE old.n # 0 /\ t < old.expires
    <2>1. key = [old EXCEPT !.n = @ + 1] /\ old.n > 0
      BY <1>0, <1>1 DEF Incremented
    <2>2. key.n = old.n + 1 /\ key.expires = old.expires /\ Birth(key) = Birth(old)
      BY <2>1 DEF Birth, Counter
    <2>3. Alive(G, old, b, t)
      BY <2>1 DEF Kept
    <2>4. /\ Before(H, Birth(old)) = Before(G, Birth(old))
          /\ Cardinality(Since(H, Birth(old))) <= Cardinality(Since(G, Birth(old))) + 1
          /\ Cardinality(Since(G, Birth(old))) \in Nat /\ Cardinality(Since(H, Birth(old))) \in Nat
          /\ \A g \in H : g \in G \/ g.at = t
      <3>1. Birth(old) <= t
        BY <2>3 DEF Alive
      <3>2. /\ Before(H, Birth(old)) = Before(G, Birth(old))
            /\ Cardinality(Since(H, Birth(old))) <= Cardinality(Since(G, Birth(old))) + 1
        BY <1>0, <3>1, NewGrant
      <3>3. Cardinality(Since(G, Birth(old))) \in Nat /\ Cardinality(Since(H, Birth(old))) \in Nat
        BY <1>0, <1>a, Parts
      <3> QED BY <1>a, <3>2, <3>3
    <2>5. \A g \in H : g.at < key.expires
      BY <1>1, <2>2, <2>3, <2>4 DEF Alive
    <2>6. Cardinality(Since(H, Birth(old))) <= key.n /\ Cardinality(Since(H, Birth(old))) <= Limit
      <3>1. Cardinality(Since(G, Birth(old))) <= old.n /\ Cardinality(Since(G, Birth(old))) <= Limit
        BY <2>3 DEF Alive
      <3>2. CASE H = G
        BY <1>0, <2>2, <2>4, <3>1, <3>2
      <3>3. CASE MayPass(key.n)
        BY <1>0, <2>2, <2>4, <3>1, <3>3 DEF MayPass
      <3> QED BY <3>2, <3>3
    <2>7. Alive(H, key, b, t)
      BY <2>2, <2>3, <2>4, <2>5, <2>6 DEF Alive
    <2> QED BY <1>0, <2>2, <2>7, Windows
  <1>2. CASE old.n = 0 \/ old.expires <= t
    <2>1. key.n = 1 /\ key.expires = t + TTL /\ Birth(key) = t
      BY <1>0, <1>2 DEF Incremented, Birth
    <2>2. \A g \in G : g.at < t
      <3>1. CASE old.n = 0
        BY <3>1 DEF Kept
      <3>2. CASE old.n # 0
        <4>1. Alive(G, old, b, t) /\ old.expires <= t
          BY <1>0, <1>2, <3>2 DEF Kept
        <4>2. \A g \in G : g.at \in Int
          BY DEF Grants
        <4> QED BY <1>0, <4>1, <4>2 DEF Alive
      <3> QED BY <3>1, <3>2
    <2>3. Since(G, t) = {} /\ Cardinality(Since(G, t)) = 0
      <3>1. \A g \in G : g.at \in Int
        BY DEF Grants
      <3>2. Since(G, t) = {}
        BY <2>2, <3>1 DEF Since
      <3> QED BY <3>2, FS_EmptySet
    <2>4. /\ Before(H, t) = Before(G, t) /\ Cardinality(Since(H, t)) <= 1
          /\ Cardinality(Since(H, t)) \in Nat /\ \A g \in H : g \in G \/ g.at = t
      <3>1. Before(H, t) = Before(G, t) /\ Cardinality(Since(H, t)) <= Cardinality(Since(G, t)) + 1
        BY NewGrant
      <3>2. Cardinality(Since(H, t)) \in Nat
        BY <1>a, Parts
      <3> QED BY <1>a, <2>3, <3>1, <3>2
    <2>5. Cardinality(Since(H, t)) <= Limit
      <3>1. CASE H = G
        BY <2>3, <3>1
      <3>2. CASE MayPass(key.n)
        BY <2>1, <2>4, <3>2 DEF MayPass
      <3> QED BY <3>1, <3>2
    <2>6. \A g \in H : g.at < key.expires
      <3>2. \A g \in H : g.at \in Int
        BY <1>a DEF Grants
      <3>1. \A g \in H : g.at <= t
        BY <2>2, <2>4, <3>2
      <3> QED BY <1>0, <2>1, <3>1, <3>2
    <2>7. ASSUME NEW n \in Nat, t < Late(b, n) PROVE Cardinality(Before(G, t)) <= (n - 1) * Limit
      <3>0. /\ Late(b, n) \in Nat /\ Late(b, 0) = b * Window
            /\ n > 0 => Late(b, n) = Late(b, n - 1) + TTL
        BY LateBy
      <3>1. n > 0 /\ n - 1 \in Nat /\ Late(b, n - 1) \in Nat
        <4>1. n # 0
          BY <2>7, <3>0
        <4>2. n - 1 \in Nat
          BY <4>1
        <4>3. Late(b, n - 1) \in Nat
          BY <4>2, LateBy
        <4> QED BY <4>1, <4>2, <4>3
      <3>2. Cardinality(Before(G, t)) <= Cardinality(G) /\ Cardinality(G) \in Nat /\ Cardinality(Before(G, t)) \in Nat
        <4>1. Before(G, t) \subseteq G
          BY DEF Before
        <4> QED BY <4>1, FS_Subset, Parts
      <3>3. CASE old.n = 0
        <4>1. G = {} /\ Cardinality(G) = 0
          BY <3>3, FS_EmptySet DEF Kept
        <4>2. (n - 1) * Limit \in Nat
          BY <3>1, LateBy
        <4> QED BY <3>2, <4>1, <4>2
      <3>4. CASE old.n # 0
        <4>1. Alive(G, old, b, t) /\ old.expires <= t
          BY <1>0, <1>2, <3>4 DEF Kept
        <4>2. Birth(old) < Late(b, n - 1)
          BY <1>0, <2>7, <3>0, <3>1, <4>1
        <4>3. Cardinality(G) <= (n - 1) * Limit
          BY <3>1, <4>1, <4>2, AliveCovers
        <4>4. (n - 1) * Limit \in Nat
          BY <3>1, LateBy
        <4> QED BY <3>2, <4>3, <4>4
      <3> QED BY <3>3, <3>4
    <2>8. Alive(H, key, b, t)
      BY <1>0, <2>1, <2>4, <2>5, <2>6, <2>7 DEF Alive
    <2> QED BY <2>1, <2>8, Windows
  <1> QED BY <1>0, <1>1, <1>2

LEMMA GrantFinite == ASSUME IsFiniteSet(granted), NEW c \in Calls, NEW by, Grant(c, by)
                     PROVE  IsFiniteSet(granted')
  <1> DEFINE g == [call |-> c, by |-> by, bucket |-> Bucket(now[c]), at |-> clock]
  <1>1. granted' = granted \cup {g}
    BY DEF Grant
  <1> QED BY <1>1, FS_AddElement

\* Grants of other counters and windows, and those of a server's call.
LEMMA OfGrant == ASSUME Counting, NEW c \in Calls, NEW by \in Servers \cup Instances, Grant(c, by),
                        NEW s \in Servers, NEW b \in Buckets
                 PROVE  /\ (s # by \/ b # Bucket(now[c])) => Of(granted', s, b) = Of(granted, s, b)
                        /\ AddsNow(Of(granted, s, b), Of(granted', s, b), clock)
  <1> DEFINE g == [call |-> c, by |-> by, bucket |-> Bucket(now[c]), at |-> clock]
  <1>1. granted' = granted \cup {g}
    BY DEF Grant
  <1>2. g \in Grants /\ g.at = clock
    BY BucketInRange DEF Grants, Counting
  <1>3. /\ Of(granted', s, b) = Of(granted, s, b) \/ Of(granted', s, b) = Of(granted, s, b) \cup {g}
        /\ (s # by \/ b # Bucket(now[c])) => Of(granted', s, b) = Of(granted, s, b)
    BY <1>1 DEF Of
  <1> QED BY <1>2, <1>3 DEF AddsNow

LEMMA OfGranted == ASSUME Counting, IsFiniteSet(granted), NEW s, NEW b
                   PROVE  IsFiniteSet(Of(granted, s, b)) /\ Of(granted, s, b) \subseteq Grants
  <1>1. Of(granted, s, b) \subseteq granted
    BY DEF Of
  <1> QED BY <1>1, FS_Subset DEF Counting, Grants

LEMMA TimelyStep == ASSUME Counting, Timely, [Next]_vars PROVE Timely' /\ clock <= clock'
  <1> USE DEF Counting, Timely
  <1>1. ASSUME NEW c \in Calls, AllowWindow(c) PROVE Timely' /\ clock <= clock'
    BY <1>1 DEF AllowWindow, world
  <1>2. ASSUME NEW c \in Calls, Step(c) PROVE Timely' /\ clock <= clock'
    <2>1. UNCHANGED <<clock, now>>
      BY <1>2 DEF Step, IsBreakerActive, EnsureRedis, Ping, RedisAllowWindow, TripBreaker, MemoryAllowWindow, world
    <2> QED BY <2>1
  <1>3. CASE (\E i \in Instances : Reconfigure(i)) \/ Tick \/ UNCHANGED vars
    BY <1>3 DEF Reconfigure, Tick, vars, local, world
  <1> QED BY <1>1, <1>2, <1>3 DEF Next

\* Steps other than an answer of Redis: counters stay, and grants are of no server.
LEMMA OtherSteps == ASSUME Counting, IsFiniteSet(granted), [Next]_vars, ~(\E c \in Calls : RedisAllowWindow(c))
                    PROVE  /\ UNCHANGED counts /\ IsFiniteSet(granted')
                           /\ \A s \in Servers, b \in Buckets : Of(granted', s, b) = Of(granted, s, b)
  <1>1. ASSUME NEW c \in Calls, MemoryAllowWindow(c)
        PROVE  /\ UNCHANGED counts /\ IsFiniteSet(granted')
               /\ \A s \in Servers, b \in Buckets : Of(granted', s, b) = Of(granted, s, b)
    <2>1. UNCHANGED counts /\ (Grant(c, I(c)) \/ UNCHANGED granted)
      BY <1>1 DEF MemoryAllowWindow
    <2>2. I(c) \notin Servers /\ I(c) \in Instances
      OBVIOUS
    <2>3. Grant(c, I(c)) => IsFiniteSet(granted')
      BY GrantFinite
    <2> QED BY <2>1, <2>2, <2>3, OfGrant
  <1>2. ASSUME NEW c \in Calls,
               AllowWindow(c) \/ IsBreakerActive(c) \/ EnsureRedis(c) \/ Ping(c) \/ TripBreaker(c)
        PROVE  UNCHANGED <<counts, granted>>
    BY <1>2 DEF AllowWindow, IsBreakerActive, EnsureRedis, Ping, TripBreaker
  <1>3. CASE (\E i \in Instances : Reconfigure(i)) \/ Tick \/ UNCHANGED vars
    BY <1>3 DEF Reconfigure, Tick, vars
  <1> QED BY <1>1, <1>2, <1>3 DEF Next, Step

LEMMA KeptLater == ASSUME NEW G, NEW key \in Counter, NEW b, NEW t \in Nat, NEW u \in Nat, t <= u, Kept(G, key, b, t)
                   PROVE  Kept(G, key, b, u)
  <1>1. Birth(key) \in Int
    BY DEF Birth, TTL, Counter
  <1> QED BY <1>1 DEF Kept, Alive

LEMMA RedisKeepsWindows == ASSUME IInv, Counting, WindowInv, NEW c \in Calls, RedisAllowWindow(c)
                           PROVE  IsFiniteSet(granted') /\ Covered'
  <1>0. UNCHANGED clock /\ clock \in Nat
    BY RedisStep DEF Counting
  <1>1. CASE UNCHANGED <<counts, granted>>
    BY <1>0, <1>1 DEF WindowInv, Covered
  <1>2. CASE ~UNCHANGED <<counts, granted>>
    <2>1. PICK s \in Servers, b \in Buckets, key \in Counter :
             /\ b = Bucket(now[c]) /\ key = Incremented(counts[s][b])
             /\ counts' = [counts EXCEPT ![s][b] = key]
             /\ granted' = granted \/ (MayPass(key.n) /\ Grant(c, s))
      BY <1>2, RedisStep
    <2>2. IsFiniteSet(granted')
      BY <2>1, GrantFinite DEF WindowInv
    <2>3. /\ counts'[s][b] = key /\ counts[s][b] \in Counter
          /\ \A t \in Servers, d \in Buckets : t # s \/ d # b => counts'[t][d] = counts[t][d]
      BY <2>1 DEF Counting
    <2>4. b \in Nat /\ b * Window <= clock
      <3>1. now[c] \in Nat /\ now[c] <= clock
        BY DEF WindowInv, Timely, Counting
      <3>2. b \in Nat /\ b * Window <= now[c] /\ b * Window \in Nat
        BY <2>1, <3>1, BucketOf
      <3> QED BY <1>0, <3>1, <3>2
    <2>5. ASSUME NEW t \in Servers, NEW d \in Buckets
          PROVE  Kept(Of(granted', t, d), counts'[t][d], d, clock)
      <3>0. Kept(Of(granted, t, d), counts[t][d], d, clock)
        BY DEF WindowInv, Covered
      <3>1. CASE t = s /\ d = b
        <4> DEFINE G == Of(granted, s, b)
                   H == Of(granted', s, b)
        <4>1. IsFiniteSet(G) /\ G \subseteq Grants
          BY OfGranted DEF WindowInv
        <4>2. AddsNow(G, H, clock) /\ (H = G \/ MayPass(key.n))
          <5>1. CASE granted' = granted
            BY <5>1 DEF AddsNow
          <5>2. CASE MayPass(key.n) /\ Grant(c, s)
            BY <5>2, OfGrant
          <5> QED BY <2>1, <5>1, <5>2
        <4>3. Kept(G, counts[s][b], b, clock)
          BY <3>0, <3>1
        <4> HIDE DEF G, H
        <4>4. Kept(H, key, b, clock)
          BY <1>0, <2>1, <2>3, <2>4, <4>1, <4>2, <4>3, CountKeeps
        <4> QED BY <2>3, <3>1, <4>4 DEF H
      <3>2. CASE t # s \/ d # b
        <4>1. Of(granted', t, d) = Of(granted, t, d)
          BY <2>1, <3>2, OfGrant
        <4> QED BY <2>3, <3>0, <3>2, <4>1
      <3> QED BY <3>1, <3>2
    <2> QED BY <1>0, <2>2, <2>5 DEF Covered
  <1> QED BY <1>1, <1>2

LEMMA WindowStep == ASSUME IInv, Counting, Counting', WindowInv, [Next]_vars PROVE WindowInv'
  <1>1. Timely' /\ clock <= clock' /\ clock \in Nat /\ clock' \in Nat
    BY TimelyStep DEF WindowInv, Counting
  <1>2. CASE \E c \in Calls : RedisAllowWindow(c)
    BY <1>1, <1>2, RedisKeepsWindows DEF WindowInv
  <1>3. CASE ~(\E c \in Calls : RedisAllowWindow(c))
    <2>1. /\ UNCHANGED counts /\ IsFiniteSet(granted')
          /\ \A s \in Servers, b \in Buckets : Of(granted', s, b) = Of(granted, s, b)
      BY <1>3, OtherSteps DEF WindowInv
    <2>2. ASSUME NEW s \in Servers, NEW b \in Buckets
          PROVE  Kept(Of(granted', s, b), counts'[s][b], b, clock')
      <3>1. Kept(Of(granted, s, b), counts[s][b], b, clock) /\ counts[s][b] \in Counter
        BY DEF WindowInv, Covered, Counting
      <3> QED BY <1>1, <2>1, <3>1, KeptLater
    <2> QED BY <1>1, <2>1, <2>2 DEF WindowInv, Covered
  <1> QED BY <1>2, <1>3

\* However late the calls of a window are, a server grants them no more than the limit
\* until a second after its end, and the limit once more in every TTL from then on.
THEOREM WindowsHold == Spec => []RedisWindowHolds
  <1>1. Init => WindowInv
    <2>1. ASSUME Init PROVE WindowInv
      <3>1. granted = {} /\ IsFiniteSet({}) /\ Cardinality({}) = 0
        BY <2>1, FS_EmptySet DEF Init
      <3>2. ASSUME NEW s \in Servers, NEW b \in Buckets PROVE Kept(Of(granted, s, b), counts[s][b], b, clock)
        <4>1. Of(granted, s, b) = {} /\ counts[s][b].n = 0
          BY <2>1, <3>1 DEF Init, Of
        <4>2. ASSUME NEW n \in Nat \ {0} PROVE Cardinality(Before({}, Late(b, n))) <= n * Limit
          <5>1. Before({}, Late(b, n)) = {} /\ n * Limit \in Nat
            BY DEF Before
          <5> QED BY <3>1, <5>1
        <4> QED BY <4>1, <4>2 DEF Kept
      <3> QED BY <2>1, <3>1, <3>2 DEF Init, Timely, Covered, WindowInv
    <2> QED BY <2>1
  <1>2. IInv /\ Counting /\ Counting' /\ WindowInv /\ [Next]_vars => WindowInv'
    BY WindowStep
  <1>3. WindowInv => RedisWindowHolds
    <2>1. ASSUME WindowInv, NEW s \in Servers, NEW b \in Buckets, NEW n \in 1..(MaxTime + 1)
          PROVE  Cardinality(GrantedBy(s, b, b * Window + n * (Window + 1))) <= n * Limit
      <3>1. GrantedBy(s, b, b * Window + n * (Window + 1)) = Before(Of(granted, s, b), Late(b, n))
        BY DEF GrantedBy, Before, Of, Late, TTL
      <3>2. n \in Nat \ {0} /\ Kept(Of(granted, s, b), counts[s][b], b, clock)
        BY <2>1 DEF WindowInv, Covered
      <3> QED BY <3>1, <3>2 DEF Kept
    <2> QED BY <2>1 DEF RedisWindowHolds
  <1> QED BY <1>1, <1>2, <1>3, IInvHolds, CountingAlways, PTL DEF Spec
=============================================================================
