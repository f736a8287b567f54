------------------------------ MODULE Balances ------------------------------
(***************************************************************************)
(* Amounts of one asset spread over accounts, and the primitive movements  *)
(* every module of the runtime performs on them                            *)
(* (runtime/modules/generic-asset/src/lib.rs).                             *)
(*                                                                         *)
(* A Balance is a fixed-width unsigned integer (u128 in the runtime). The  *)
(* runtime is compiled without overflow checks, so a plain `+` or `-`      *)
(* wraps; Wrapped is what one such operation stores.                       *)
(***************************************************************************)
EXTENDS Integers, FiniteSets

CONSTANTS Accounts,     \* the accounts that may hold an asset
          MaxBalance    \* the largest value of T::Balance

ASSUME AccountsAssumption == IsFiniteSet(Accounts)
ASSUME MaxBalanceAssumption == MaxBalance \in Nat

Balance == 0..MaxBalance

\* All the ways one asset can be spread over the accounts.
Sheet == [Accounts -> Balance]

\* FreeBalance and ReservedBalance are maps with default 0.
EmptySheet == [a \in Accounts |-> 0]

\* Mutant: arithmetic that neither wraps nor fails.
Unwrapped(n) == n

\* What `+`, `-`, `+=` and `-=` on two balances store: the sum or difference
\* reduced to the width. Two balances wrap at most once.
Wrapped(n) == IF n > MaxBalance THEN n - (MaxBalance + 1)
              ELSE IF n < 0     THEN n + (MaxBalance + 1)
              ELSE n

\* The unit coins of a sheet: account a owns the coins <<a,1>> .. <<a,sheet[a]>>.
Coins(sheet) == {c \in Accounts \X (1..MaxBalance) : c[2] <= sheet[c[1]]}

\* The sum of a sheet's entries, counted coin by coin.
SumOf(sheet) == Cardinality(Coins(sheet))

-----------------------------------------------------------------------------
\* set_free_balance / set_reserved_balance: overwrite one entry.
SetBalance(sheet, a, amount) == [sheet EXCEPT ![a] = amount]

\* make_transfer's check.
CanTransfer(sheet, from, amount) == sheet[from] >= amount

\* Mutant: both new balances computed from the old sheet, also for one account.
TransferFromStale(sheet, from, to, amount) ==
  [a \in Accounts |-> IF a = to THEN sheet[a] + amount
                      ELSE IF a = from THEN sheet[a] - amount ELSE sheet[a]]

\* make_transfer's two unchecked updates, skipped for a transfer to oneself.
AfterTransfer(sheet, from, to, amount) ==
  IF from = to THEN sheet
  ELSE [sheet EXCEPT ![from] = Wrapped(@ - amount),
                     ![to]   = Wrapped(@ + amount)]
=============================================================================
