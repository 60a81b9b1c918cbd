------------------------------ MODULE UsageLog ------------------------------
(***************************************************************************)
(* What the usage queue promises, without contexts, mutex, wake-ups and    *)
(* worker.  The record of an attempt joins a line after the records of the *)
(* earlier attempts of its request.  Records are settled one at a time, in *)
(* the order of the line, each into a row or into none.  After the line is *)
(* closed it still moves, but nothing joins it.                            *)
(***************************************************************************)
EXTENDS Integers, Sequences

CONSTANTS Requests, MaxAttempts

VARIABLES
    line,     \* attempts whose records wait, the oldest first
    log,      \* attempts that have a row, in the order of the rows
    past,     \* how many attempts of a request have brought their record
    open

vars == <<line, log, past, open>>

Init ==
    /\ line = <<>> /\ log = <<>>
    /\ past = [r \in Requests |-> 0]
    /\ open = TRUE

Bring(r) ==
    /\ past[r] < MaxAttempts
    /\ past' = [past EXCEPT ![r] = @ + 1]

Join(r) ==
    /\ open
    /\ Bring(r)
    /\ line' = Append(line, [request |-> r, n |-> past[r] + 1])
    /\ UNCHANGED <<log, open>>

ComeTooLate(r) ==
    /\ ~open
    /\ Bring(r)
    /\ UNCHANGED <<line, log, open>>

Settle ==
    /\ line # <<>>
    /\ line' = Tail(line)
    /\ log' = Append(log, Head(line)) \/ UNCHANGED log
    /\ UNCHANGED <<past, open>>

Close ==
    /\ open /\ open' = FALSE
    /\ UNCHANGED <<line, log, past>>

Next == (\E r \in Requests : Join(r) \/ ComeTooLate(r)) \/ Settle \/ Close

Spec == Init /\ [][Next]_vars
=============================================================================
