----------------------------- MODULE DepositOnce -----------------------------
(***************************************************************************)
(* What a bridge promises about deposits: a foreign transaction backs new  *)
(* money once. It is unseen, held back, or settled for good; what is held  *)
(* back may be released into new money or forgotten. Bridge and BtcBridge  *)
(* implement it.                                                           *)
(***************************************************************************)
EXTENDS Integers, FiniteSets, Functions

CONSTANTS TxHashes, Amounts

VARIABLES
  unseen, held,   \* the transactions that may be reported, and those held back
  worth,          \* of each transaction that was seen, the amount reported
  minted          \* the money made so far

vars == <<unseen, held, worth, minted>>

Worth(txs) == SumFunctionOnSet(worth, txs)

Init == unseen = TxHashes /\ held = {} /\ worth = << >> /\ minted = 0

\* A transaction is reported: it is held back, or settled, with its money or,
\* if that cannot be made, without.
Report(tx, amount) ==
  /\ tx \in unseen
  /\ unseen' = unseen \ {tx}
  /\ worth' = [t \in DOMAIN worth \cup {tx} |-> IF t = tx THEN amount ELSE worth[t]]
  /\ \/ held' = held \cup {tx} /\ minted' = minted
     \/ held' = held /\ minted' \in {minted, minted + amount}

\* Transactions held back are settled with their money.
Release(txs) ==
  /\ txs \subseteq held
  /\ held' = held \ txs /\ minted' = minted + Worth(txs)
  /\ UNCHANGED <<unseen, worth>>

\* They are forgotten, and may be reported again.
Forget(txs) ==
  /\ txs \subseteq held
  /\ held' = held \ txs /\ unseen' = unseen \cup txs
  /\ worth' = [t \in DOMAIN worth \ txs |-> worth[t]]
  /\ UNCHANGED minted

Next ==
  \/ \E tx \in TxHashes, amount \in Amounts : Report(tx, amount)
  \/ \E txs \in SUBSET held : Release(txs) \/ Forget(txs)

Spec == Init /\ [][Next]_vars
=============================================================================
