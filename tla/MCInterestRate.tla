---------------------------- MODULE MCInterestRate ----------------------------
(***************************************************************************)
(* An instance of InterestRate for TLC: a year as the unit of time, rates *)
(* in thousandths, savings of 8 that fill the 32 bits, loans of 7 a balance.  *)
(***************************************************************************)
EXTENDS InterestRate

CONSTANTS alice, bob

MCAccounts == {alice, bob}
MCAmounts == {1, 6}
MCWaits == {1, 2}
=============================================================================
