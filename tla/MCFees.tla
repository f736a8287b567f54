------------------------------- MODULE MCFees -------------------------------
(***************************************************************************)
(* An instance of Fees for TLC: one unit of weight costs one, the steps of *)
(* the multiplier are a twentieth and a tenth, and votes end at 6.         *)
(***************************************************************************)
EXTENDS Fees

CONSTANTS alice, bob, carol, treasury

MCAccounts == {alice, bob, carol, treasury}
MCPayers == {alice}
MCValidators == {bob, carol}
MCBalances == [a \in MCAccounts |->
  IF a = alice THEN 9 ELSE IF a = bob THEN 2 ELSE 0]
MCWeights == {2, 4}
MCRewards == {1, 3}
=============================================================================
