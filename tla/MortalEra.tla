----------------------------- MODULE MortalEra -----------------------------
(***************************************************************************)
(* The life of a signed transaction, as Substrate defines it for the       *)
(* transaction factory. An era is a period and a phase; the transaction is *)
(* signed with the hash of the block the era was born at. There is one     *)
(* chain, so the hash of a block is its number. The periods used here are  *)
(* too short for a phase to be rounded.                                    *)
(***************************************************************************)
EXTENDS Integers

\* Era::mortal, from the period and the current block.
Mortal(period, current) == [period |-> period, phase |-> current % period]

\* The block an era was born at, seen from block n. From its death on, which is a
\* period later, it seems to have been born anew.
Birth(era, n) ==
  ((IF n < era.phase THEN 0 ELSE n - era.phase) \div era.period) * era.period + era.phase

\* The block hashes that block n can look up, of which the last `count` are kept
\* and that of genesis for good.
HashesAt(n, count) == {0} \cup {h \in 1..(n - 1) : h >= n - count}

\* CheckEra, as block n executes: the hash signed is that of the era's birth.
EraHolds(era, signed, n, count) ==
  Birth(era, n) \in HashesAt(n, count) /\ signed = Birth(era, n)
=============================================================================
