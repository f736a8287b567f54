---------------------------- MODULE AssetLedger ----------------------------
(***************************************************************************)
(* What the runtime's ledger of assets promises, without permissions,      *)
(* locks or errors: each asset has a supply and a holding per account,     *)
(* equal in sum, and a step moves, issues or retires an amount of one      *)
(* asset. It is the abstract counterpart of                                *)
(* runtime/modules/generic-asset/src/lib.rs (GenericAsset.tla).            *)
(***************************************************************************)
EXTENDS Balances

CONSTANT AssetIds

VARIABLES supply,    \* per asset
          holding    \* per asset and account

ledger == <<supply, holding>>

\* A ledger in balance.
Init ==
  /\ supply \in [AssetIds -> Balance]
  /\ holding \in [AssetIds -> Sheet]
  /\ \A id \in AssetIds : SumOf(holding[id]) = supply[id]

\* make_transfer
Move(id, from, to, amount) ==
  /\ from # to
  /\ holding[id][from] >= amount
  /\ holding' = [holding EXCEPT ![id][from] = @ - amount, ![id][to] = @ + amount]
  /\ UNCHANGED supply

\* mint_free, and create_asset for a new asset
Issue(id, to, amount) ==
  /\ supply[id] + amount <= MaxBalance
  /\ supply' = [supply EXCEPT ![id] = @ + amount]
  /\ holding' = [holding EXCEPT ![id][to] = @ + amount]

\* burn_free
Retire(id, from, amount) ==
  /\ holding[id][from] >= amount
  /\ supply' = [supply EXCEPT ![id] = @ - amount]
  /\ holding' = [holding EXCEPT ![id][from] = @ - amount]

Next == \E id \in AssetIds, a, b \in Accounts, amount \in Balance :
          \/ Move(id, a, b, amount)
          \/ Issue(id, a, amount)
          \/ Retire(id, a, amount)

Spec == Init /\ [][Next]_ledger
=============================================================================
