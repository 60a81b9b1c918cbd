------------------------------- MODULE Wallet -------------------------------
(***************************************************************************)
(* What the ledger promises, without transactions: a request or a purchase *)
(* settles in one step or is dropped without a trace, and the step moves   *)
(* money out of rows of its own user only.                                 *)
(*                                                                         *)
(* state[t] is where the charge t is; charge[t][x] what it took from row x *)
(* when it settled; owner[x] whose row x is (None: nobody's).              *)
(***************************************************************************)
EXTENDS Integers

CONSTANTS Users, Bills, Cards, Requests, Orders, None, Funds0, Owner0

Txs  == Requests \cup Orders
Rows == Bills \cup Cards

VARIABLES funds, owner, state, charge

vars == <<funds, owner, state, charge>>

Nothing == [x \in Rows |-> 0]

Init ==
    /\ funds = Funds0
    /\ owner = Owner0
    /\ state = [t \in Txs |-> "open"]
    /\ charge = [t \in Txs |-> Nothing]

\* The user of t is the owner of every row that t takes from, unless the row
\* was nobody's; a row never gives more than it has; a request takes from
\* bills or from cards, a purchase from cards.
Lawful(t, c, u) ==
    /\ \A x \in Rows : c[x] \in 0..funds[x] /\ (c[x] > 0 => owner[x] = u)
    /\ \/ \A b \in Bills : c[b] = 0
       \/ t \in Requests /\ \A d \in Cards : c[d] = 0

SettleRequest(r) ==
    /\ state[r] = "open"
    /\ state' = [state EXCEPT ![r] = "settled"]
    /\ \E u \in Users : Lawful(r, charge'[r], u)
    /\ charge' = [charge EXCEPT ![r] = charge'[r]]
    /\ funds' = [x \in Rows |-> funds[x] - charge'[r][x]]
    /\ UNCHANGED owner

\* A purchase also brings the bill o into the world.
SettleOrder(o) ==
    /\ state[o] = "open"
    /\ state' = [state EXCEPT ![o] = "settled"]
    /\ owner[o] = None
    /\ \E u \in Users :
          /\ Lawful(o, charge'[o], u)
          /\ owner' = [owner EXCEPT ![o] = u]
    /\ charge' = [charge EXCEPT ![o] = charge'[o]]
    /\ \A x \in Rows \ {o} : funds'[x] = funds[x] - charge'[o][x]

Drop(t) ==
    /\ state[t] = "open"
    /\ state' = [state EXCEPT ![t] = "dropped"]
    /\ UNCHANGED <<funds, owner, charge>>

\* A card is redeemed, once; a bill is deleted.
Assign(c) ==
    /\ owner[c] = None
    /\ \E u \in Users : owner' = [owner EXCEPT ![c] = u]
    /\ UNCHANGED <<funds, state, charge>>

Withdraw(b) ==
    /\ owner[b] # None
    /\ owner' = [owner EXCEPT ![b] = None]
    /\ UNCHANGED <<funds, state, charge>>

Next ==
    \/ \E r \in Requests : SettleRequest(r)
    \/ \E o \in Orders : SettleOrder(o)
    \/ \E t \in Txs : Drop(t)
    \/ \E c \in Cards : Assign(c)
    \/ \E b \in Bills : Withdraw(b)

Spec == Init /\ [][Next]_vars
=============================================================================
