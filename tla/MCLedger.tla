------------------------------ MODULE MCLedger ------------------------------
(* Instances of Ledger for TLC. *)
EXTENDS LedgerWallet, TLC

CONSTANTS u1, g1, g2, r1, r2

BillRow(us, gs, f, d, tot) ==
    [owner |-> us, groups |-> gs, from |-> f, until |-> f + 1, daily |-> d,
     total |-> tot, on |-> TRUE]
CardRow(us, gs, until) ==
    [owner |-> us, groups |-> gs, from |-> 0, until |-> until, daily |-> 0,
     total |-> 0, on |-> TRUE]

\* Two workers, two bills of one group with daily quotas and one card: two cheap
\* requests split the first bill, a dear one leaves too little for another, and without the
\* first bill every dear one goes to the card.
RaceRows == (1 :> BillRow(u1, {g1}, 0, 1, 3)) @@ (2 :> BillRow(u1, {g1}, 0, 1, 1))
            @@ (11 :> CardRow(u1, {g1}, 9))
RaceFunds == (1 :> 3) @@ (2 :> 1) @@ (11 :> 1)
RaceValid == (11 :> 0)
NoPlans == {}

\* One plan on sale, one bill, two cards: one of them not yet redeemed.  The
\* price takes both cards, or one within the tolerance.
OrderRows == (1 :> BillRow(u1, {g1}, 0, 0, 2)) @@ (2 :> Absent) @@ (3 :> Absent)
             @@ (11 :> CardRow(u1, {}, 9)) @@ (12 :> CardRow(None, {}, 0))
OrderFunds == (1 :> 2) @@ (2 :> 0) @@ (3 :> 0) @@ (11 :> 3) @@ (12 :> 2)
OrderValid == (11 :> 0) @@ (12 :> 1)
GrantRows == (1 :> BillRow(u1, {g1}, 0, 0, 2)) @@ (2 :> Absent)
             @@ (11 :> CardRow(u1, {}, 9)) @@ (12 :> CardRow(u1, {}, 9))
GrantFunds == (1 :> 2) @@ (2 :> 0) @@ (11 :> 3) @@ (12 :> 2)
OnSale == {[price |-> 4, total |-> 3, daily |-> 0, groups |-> {g2}]}
=============================================================================
