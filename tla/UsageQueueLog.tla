---------------------------- MODULE UsageQueueLog ----------------------------
(* The queue implements the log: a record waits from the moment Publish     *)
(* appends it until the worker has handled it, whoever sleeps or wakes.     *)
EXTENDS UsageQueue

Of(s) == [i \in DOMAIN s |-> s[i].of]

\* The variables of the log.
line == IF worker = "busy" THEN <<item.of>> \o Of(queue) ELSE Of(queue)
log  == Of(rows)
past == [r \in Requests |->
            IF \E a \in sending : a.request = r THEN Len(picked[r]) - 1 ELSE Len(picked[r])]

L == INSTANCE UsageLog WITH open <- ~closed

\* The lock, the condition variable, the goroutine of the worker and the contexts
\* cannot be seen from outside: no record is lost while it waits, passed by
\* another one or handled twice, and none joins after Stop.
ImplementsLog == L!Spec
=============================================================================
