---------------------------- MODULE LedgerWallet ----------------------------
(* The ledger implements the wallet: the step that commits is the one that  *)
(* settles, everything before it is invisible.                              *)
EXTENDS Ledger

Settled(t) == pc[t] = "done"

\* The variables of the wallet.
owner  == [x \in Rows |-> row[x].owner]
state  == [t \in Txs |-> CASE pc[t] = "done" -> "settled"
                           [] pc[t] = "lost" -> "dropped"
                           [] OTHER -> "open"]
charge == [t \in Txs |-> IF Settled(t) THEN take[t] ELSE NoTake]

W == INSTANCE Wallet WITH Owner0 <- [x \in Rows |-> Row0[x].owner]

\* Row locks and two phases of row locking make usage transactions and
\* purchases atomic: every step of the ledger is a step of the wallet or
\* changes nothing the wallet sees.
ImplementsWallet == W!Spec
=============================================================================
