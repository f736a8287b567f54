---------------------------- MODULE MCBtcBridge ----------------------------
(***************************************************************************)
(* An instance of BtcBridge for TLC: a path is a name of its root, often   *)
(* empty, and an index; an index that is missing is empty too, which hkd32 *)
(* refuses.                                                                *)
(***************************************************************************)
EXTENDS BtcBridge

CONSTANTS alice, bob, keeper, clerk, tx1, tx2, old, new

MCUsers == {alice, bob}
MCAccounts == {alice, bob, Vault}
MCAdmins == {keeper, clerk}

\* The keeper may do everything, the clerk only report deposits.
MCAuthority == [a \in MCAdmins |-> IF a = keeper THEN "All" ELSE "Deposit"]
MCAmounts == {1, 2}
MCTxHashes == {tx1, tx2}
MCFree == [a \in MCAccounts |-> 0]

MCMaterials == {old, new}
MCComponents == {"", "m", "0"}
MCInvalid == {""}
MCPaths == {<<"", "0">>, <<"m", "">>}
=============================================================================
