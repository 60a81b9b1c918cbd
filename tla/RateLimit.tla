----------------------------- MODULE RateLimit -----------------------------
(***************************************************************************)
(* The rate limiter (internal/ratelimit): instances of the program count   *)
(* requests of one key per time window in a shared Redis server, and each  *)
(* in its own memory while Redis is off, or was found broken less than     *)
(* Breaker ago.  A call reads the time and the settings once, at its       *)
(* start, and goes on with them through every step that may take long.     *)
(*                                                                         *)
(* Times are in seconds.                                                   *)
(***************************************************************************)
EXTENDS Integers, FiniteSets

CONSTANTS
    Calls, Instances, InstanceOf,   \* calls of AllowWindow and where they run
    Servers,       \* Redis servers that the settings may name
    Off, NoAddress,\* settings without Redis, and with Redis but no address
    Choices,       \* settings between which an admin switches
    None, Closed,
    Limit, Window, Breaker,
    MaxTime

ASSUME RateLimitAssumption ==
    /\ InstanceOf \in [Calls -> Instances]
    /\ Choices \subseteq Servers \cup {Off, NoAddress} /\ Choices # {}
    /\ Off \notin Servers /\ NoAddress \notin Servers /\ Closed \notin Servers /\ None \notin Servers
    /\ None \notin Calls /\ None # Closed /\ Servers \cap Instances = {}
    /\ Limit \in Nat /\ Window \in Nat \ {0} /\ Breaker \in Nat \ {0}
    /\ MaxTime \in Nat

VARIABLES
    clock,
    settings,      \* DB settings snapshot of an instance
    counts,        \* keys of a server: counter and expiry of each window
    memory,        \* MemoryLimiter entry of an instance
    client,        \* server of Manager.redisLimiter, or None
    open,          \* Redis clients of an instance that have not been closed
    holder,        \* the call that holds Manager.mu while it pings
    breakerUntil,  \* 0 is the zero time
    pc, now, cfg,  \* of a call: where it is, and what AllowWindow read
    limiter,       \* of a call: server of the limiter it was given, or Closed
    granted        \* allowed calls: the counter that allowed them, their window, and
                   \* when they were counted

local == <<memory, client, open, holder, breakerUntil>>
world == <<clock, settings>>
vars  == <<world, counts, local, pc, now, cfg, limiter, granted>>

Bucket(t) == t \div Window
Buckets == 0..Bucket(MaxTime)
I(c) == InstanceOf[c]

Init ==
    /\ clock = 0 /\ settings \in [Instances -> Choices]
    /\ counts = [s \in Servers |-> [b \in Buckets |-> [n |-> 0, expires |-> 0]]]
    /\ memory = [i \in Instances |-> [window |-> 0, count |-> 0]]
    /\ client = [i \in Instances |-> None] /\ open = [i \in Instances |-> 0]
    /\ holder = [i \in Instances |-> None]
    /\ breakerUntil = [i \in Instances |-> 0]
    /\ pc = [c \in Calls |-> "new"]
    /\ now = [c \in Calls |-> 0] /\ cfg = [c \in Calls |-> Off]
    /\ limiter = [c \in Calls |-> None]
    /\ granted = {}
-----------------------------------------------------------------------------
ReleasedX(i) == holder

Goto(c, where) == pc' = [pc EXCEPT ![c] = where]
Unlocked(i) == holder[i] = None
Released(i) == [holder EXCEPT ![i] = None]
Grant(c, counter) ==
    granted' = granted \cup {[call |-> c, by |-> counter, bucket |-> Bucket(now[c]), at |-> clock]}

AllowWindow(c) ==
    /\ pc[c] = "new"
    /\ now' = [now EXCEPT ![c] = clock]
    /\ cfg' = [cfg EXCEPT ![c] = settings[I(c)]]
    /\ Goto(c, IF settings[I(c)] = Off THEN "memory" ELSE "breaker")
    /\ UNCHANGED <<world, counts, local, limiter, granted>>

BreakerActive(c) == now[c] < breakerUntil[I(c)]

IsBreakerActive(c) ==
    /\ pc[c] = "breaker" /\ Unlocked(I(c))
    /\ \/ BreakerActive(c) /\ Goto(c, "memory") /\ UNCHANGED breakerUntil
       \/ /\ ~BreakerActive(c)
          /\ breakerUntil' = [breakerUntil EXCEPT ![I(c)] = 0]
          /\ Goto(c, "ensure")
    /\ UNCHANGED <<world, counts, memory, client, open, holder, now, cfg, limiter, granted>>

\* A limiter of the settings that the call has read.
SameClientX(c) == client[I(c)] # None
SameClientY(c) == FALSE
SameClient(c) == client[I(c)] = cfg[c]

\* Other calls of the instance may be using the limiter that is closed here.
ClosedFor(i) ==
    [d \in Calls |-> IF I(d) = i /\ pc[d] = "eval" THEN Closed ELSE limiter[d]]

EnsureRedis(c) ==
    /\ pc[c] = "ensure"
    /\ \/ /\ cfg[c] = NoAddress
          /\ Goto(c, "failed")
          /\ UNCHANGED <<client, open, holder, limiter>>
       \/ /\ cfg[c] # NoAddress /\ Unlocked(I(c)) /\ SameClient(c)
          /\ limiter' = [limiter EXCEPT ![c] = client[I(c)]]
          /\ Goto(c, "eval")
          /\ UNCHANGED <<client, open, holder>>
       \/ /\ cfg[c] # NoAddress /\ Unlocked(I(c)) /\ ~SameClient(c)
          /\ limiter' = ClosedFor(I(c))
          /\ open' = [open EXCEPT ![I(c)] = IF client[I(c)] = None THEN @ + 1 ELSE @]
          /\ client' = [client EXCEPT ![I(c)] = None]
          /\ holder' = [holder EXCEPT ![I(c)] = c]
          /\ Goto(c, "ping")
    /\ UNCHANGED <<world, counts, memory, breakerUntil, now, cfg, granted>>

StillOpenX(i) == open
StillOpen(i) == [open EXCEPT ![i] = @ - 1]

\* The mutex is held during the ping.  The ping may fail at any time: the server
\* is down or slow, or the client of the program has given up its request.
Ping(c) ==
    /\ pc[c] = "ping"
    /\ holder' = Released(I(c))
    /\ \/ /\ client' = [client EXCEPT ![I(c)] = cfg[c]]
          /\ limiter' = [limiter EXCEPT ![c] = cfg[c]]
          /\ Goto(c, "eval") /\ UNCHANGED open
       \/ /\ open' = StillOpen(I(c))
          /\ Goto(c, "failed") /\ UNCHANGED <<client, limiter>>
    /\ UNCHANGED <<world, counts, memory, breakerUntil, now, cfg, granted>>

TTLX == Window
TTL == Window + 1

\* The script: INCR, and EXPIRE when the key is new.
Incremented(key) ==
    IF key.n = 0 \/ clock >= key.expires
    THEN [n |-> 1, expires |-> clock + TTL]
    ELSE [key EXCEPT !.n = @ + 1]

MayPassX(n) == n - 1 <= Limit
MayPass(n) == n <= Limit

\* The script fails for the same reasons and when the client has been closed; the
\* answer may also be lost after the server has counted.
RedisAllowWindow(c) ==
    LET s == limiter[c]
        key == Incremented(counts[s][Bucket(now[c])])
    IN  /\ pc[c] = "eval"
        /\ \/ /\ s # Closed
              /\ counts' = [counts EXCEPT ![s][Bucket(now[c])] = key]
              /\ \/ Goto(c, "done") /\ MayPass(key.n) /\ Grant(c, s)
                 \/ Goto(c, "done") /\ ~MayPass(key.n) /\ UNCHANGED granted
                 \/ Goto(c, "failed") /\ UNCHANGED granted
           \/ Goto(c, "failed") /\ UNCHANGED <<counts, granted>>
        /\ limiter' = [limiter EXCEPT ![c] = None]
        /\ UNCHANGED <<world, local, now, cfg>>

TripBreaker(c) ==
    /\ pc[c] = "failed" /\ Unlocked(I(c))
    /\ breakerUntil' = IF BreakerActive(c) THEN breakerUntil
                       ELSE [breakerUntil EXCEPT ![I(c)] = now[c] + Breaker]
    /\ Goto(c, "memory")
    /\ UNCHANGED <<world, counts, memory, client, open, holder, now, cfg, limiter, granted>>

HasRoomX(entry) == entry.count <= Limit
HasRoom(entry) == entry.count < Limit

\* MemoryLimiter.allowWindow, under its own mutex: one counter for each key,
\* started again whenever the window of a call is another one.
MemoryAllowWindow(c) ==
    LET b == Bucket(now[c])
        entry == IF memory[I(c)].window = b THEN memory[I(c)] ELSE [window |-> b, count |-> 0]
    IN  /\ pc[c] = "memory"
        /\ \/ /\ HasRoom(entry)
              /\ memory' = [memory EXCEPT ![I(c)] = [entry EXCEPT !.count = @ + 1]]
              /\ Grant(c, I(c))
           \/ /\ ~HasRoom(entry)
              /\ memory' = [memory EXCEPT ![I(c)] = entry]
              /\ UNCHANGED granted
        /\ Goto(c, "done")
        /\ UNCHANGED <<world, counts, client, open, holder, breakerUntil, now, cfg, limiter>>
-----------------------------------------------------------------------------
InProgress(c) == pc[c] \notin {"new", "done"}

\* Time passes between any two steps: a ping may take two seconds with the mutex held
\* (manager.go:184), and others wait for the mutex or for a server.
Tick ==
    /\ clock < MaxTime
    /\ clock' = clock + 1
    /\ UNCHANGED <<settings, counts, local, pc, now, cfg, limiter, granted>>

\* An admin changes the settings; an instance sees it when it next polls them.
Reconfigure(i) ==
    /\ \E s \in Choices : settings' = [settings EXCEPT ![i] = s]
    /\ UNCHANGED <<clock, counts, local, pc, now, cfg, limiter, granted>>

Step(c) ==
    \/ IsBreakerActive(c) \/ EnsureRedis(c) \/ Ping(c)
    \/ RedisAllowWindow(c) \/ TripBreaker(c) \/ MemoryAllowWindow(c)

Next ==
    \/ \E c \in Calls : AllowWindow(c) \/ Step(c)
    \/ \E i \in Instances : Reconfigure(i)
    \/ Tick

Spec == Init /\ [][Next]_vars

\* Goroutines run, a mutex is granted, and network calls have timeouts.
FairSpec == Spec /\ \A c \in Calls : WF_vars(Step(c))
-----------------------------------------------------------------------------
Counter == [n : Nat, expires : Nat]

TypeOK ==
    /\ clock \in 0..MaxTime
    /\ settings \in [Instances -> Choices]
    /\ counts \in [Servers -> [Buckets -> Counter]]
    /\ memory \in [Instances -> [window : Buckets, count : 0..Limit]]
    /\ client \in [Instances -> Servers \cup {None}]
    /\ open \in [Instances -> Int]
    /\ holder \in [Instances -> Calls \cup {None}]
    /\ breakerUntil \in [Instances -> 0..(MaxTime + Breaker)]
    /\ pc \in [Calls -> {"new", "breaker", "ensure", "ping", "eval", "failed", "memory", "done"}]
    /\ now \in [Calls -> 0..MaxTime]
    /\ cfg \in [Calls -> Choices \cup {Off}]
    /\ limiter \in [Calls -> Servers \cup {None, Closed}]
    /\ granted \subseteq [call : Calls, by : Servers \cup Instances, bucket : Buckets, at : 0..MaxTime]

GrantedBy(s, b, t) == {g \in granted : g.by = s /\ g.bucket = b /\ g.at < t}

\* The key of a window lives Window + 1 seconds, and starts anew when a later call
\* still counts in that window.  So a server grants, to all instances together, no
\* more than the limit to the calls of a window that reach it until a second after
\* the window has ended, although keys expire and answers are lost; and at most
\* the limit once more for every Window + 1 seconds that other calls are later.
RedisWindowHolds ==
    \A s \in Servers, b \in Buckets, n \in 1..(MaxTime + 1) :
        Cardinality(GrantedBy(s, b, b * Window + n * (Window + 1))) <= n * Limit

\* A call is counted by the server that the settings it has read name, whatever
\* other calls of the instance have connected to since.
RightCounter == \A c \in Calls : pc[c] = "eval" => limiter[c] \in {cfg[c], Closed}

\* Every client that has been opened is the current one, being tried, or closed.
NoLeak ==
    \A i \in Instances :
        open[i] = Cardinality({x \in {client[i], holder[i]} : x # None})

\* The mutex is held by a call that pings, while no limiter is handed out.
PingIsExclusive ==
    \A c \in Calls : pc[c] = "ping" <=> holder[I(c)] = c

\* A limiter in use is closed only by a call that has read other settings.
ClosedByOthers ==
    [][\A c \in Calls :
          pc[c] = "eval" /\ limiter[c] # Closed /\ limiter'[c] = Closed
          => \E d \in Calls : I(d) = I(c) /\ pc'[d] = "ping" /\ cfg[d] # cfg[c]]_vars

\* Every call is answered, whatever the servers and the admin do.
CallsAreAnswered == \A c \in Calls : InProgress(c) ~> pc[c] = "done"
=============================================================================
