---------------------------- MODULE InterestRate ----------------------------
(***************************************************************************)
(* The interest that every block charges and reports (deposit-loan/src/    *)
(* lib.rs, calculate_loan_interest_rate), over time. DepositLoan has the   *)
(* book in full and of this function the panics; here the book is what is  *)
(* saved and what each debtor owes, and what the function computes from    *)
(* them is complete, its panics included. The price and the credit a draw  *)
(* looks at and the balance a debtor pays from are left to DepositLoan:    *)
(* the interest drawn and paid here is 0. Blocks made while the module is  *)
(* paused do nothing. The Accounts are those that borrow, each with at     *)
(* most one loan, of at least 1.                                           *)
(***************************************************************************)
EXTENDS Balances, Functions

CONSTANTS
  RatePrec,        \* 10^8, the unit of rates and of the utilization
  Year,            \* SEC_PER_DAY * DAYS_PER_YEAR
  U32,             \* 2^32: `as u32` keeps the remainder modulo it
  Amounts,         \* the amounts saved, redeemed and borrowed
  GenesisRate,     \* loan_interest_rate_current at genesis
  Waits,           \* how long after its parent a block may be made
  MaxTime,         \* bound: on the time
  MaxSaved         \* bound: on what is saved, so that its sums fit a balance

ASSUME UnitAssumption ==
  RatePrec \in Nat \ {0} /\ Year \in Nat \ {0} /\ U32 \in Nat \ {0} /\ GenesisRate \in Nat
ASSUME AmountAssumption == Amounts \subseteq Nat \ {0} /\ Waits \subseteq Nat \ {0}
ASSUME SavedAssumption == MaxSaved \in Nat /\ 2 * MaxSaved <= MaxBalance

VARIABLES
  now,           \* timestamp::Now: the time of the last block
  cash,          \* the balance of the collection account
  owed,          \* loan_balance_total, 0 where there is no loan; TotalLoan is their sum
  dtokens,       \* TotalDtoken
  bonusTime,     \* BonusTime
  loanRate,      \* LoanInterestRateCurrent
  savingRate,    \* SavingInterestRate
  halted         \* on_initialize has panicked

book == <<cash, owed, dtokens>>
reported == <<bonusTime, loanRate, savingRate>>
vars == <<now, cash, owed, dtokens, bonusTime, loanRate, savingRate, halted>>

TotalLoan == SumFunction(owed)

\* What was deposited: the cash, and what is lent out.
TotalDeposit == cash + TotalLoan

Init ==
  /\ now = 0 /\ bonusTime = 0
  /\ cash = 0 /\ owed = EmptySheet /\ dtokens = 0
  /\ loanRate = GenesisRate /\ savingRate = 0
  /\ halted = FALSE

-----------------------------------------------------------------------------
\* Calls between two blocks.
Save(amount) ==
  /\ TotalDeposit + amount <= MaxSaved
  /\ cash' = cash + amount /\ dtokens' = dtokens + amount
  /\ UNCHANGED <<now, owed, reported, halted>>

Redeem(amount) ==
  /\ amount <= cash
  /\ cash' = cash - amount /\ dtokens' = dtokens - amount
  /\ UNCHANGED <<now, owed, reported, halted>>

Borrow(d, amount) ==
  /\ owed[d] = 0 /\ amount <= cash
  /\ cash' = cash - amount /\ owed' = [owed EXCEPT ![d] = amount]
  /\ UNCHANGED <<now, dtokens, reported, halted>>

Repay(d) ==
  /\ owed[d] > 0
  /\ cash' = cash + owed[d] /\ owed' = [owed EXCEPT ![d] = 0]
  /\ UNCHANGED <<now, dtokens, reported, halted>>

-----------------------------------------------------------------------------
Utilization(loan, deposit) == (loan * RatePrec) \div (deposit + loan)

\* Mutant: the first branch ends at 0.4, written 4000_0000.
LoanRateBelow40(x) ==
  IF x < (2 * RatePrec) \div 5 THEN (x + RatePrec \div 2) \div 10
  ELSE (20 * x * RatePrec) \div 100

\* loan_interest_rate_current: the first branch ends at 4000_00000, four times
\* the unit.
LoanRate(x) ==
  IF x < 4 * RatePrec THEN (x + RatePrec \div 2) \div 10
  ELSE IF x >= (4 * RatePrec) \div 5
    THEN (30 * x^6 + 10 * x^3 * RatePrec^3 + 6 * RatePrec^6) \div (100 * RatePrec^5)
  ELSE (20 * x * RatePrec) \div 100

\* Mutant: BonusTime is read before it is set.
SinceLastBonus == now - bonusTime

\* time_duration: BonusTime is set to the current time, then read.
Elapsed == LET last == now IN now - last

\* interest_generated, a loan's part of it, and what the savers' rate is made of.
Generated(rate) == (Elapsed * TotalLoan * rate) \div Year
PartOf(d, rate) == (Generated(rate) * owed[d]) \div (TotalLoan * RatePrec)

\* The utilization's product is a checked one.
ProductPanics == TotalLoan * RatePrec > MaxBalance

\* Mutant: only the cash divides.
CashDivisor == cash % U32

\* total_deposit as u32.
DepositDivisor == TotalDeposit % U32

Interest ==
  LET rate == LoanRate(Utilization(TotalLoan, TotalDeposit))
      charge == [d \in Accounts |-> IF owed[d] = 0 THEN 0 ELSE PartOf(d, rate)]
      charged == SumFunction(charge)
  IN
  /\ owed' = [d \in Accounts |-> owed[d] + charge[d]]
  /\ cash' = cash + charged /\ dtokens' = dtokens + charged
  /\ loanRate' = rate
  /\ savingRate' = (Generated(rate) \div DepositDivisor) * Year * RatePrec

\* on_initialize: the time is still that of the parent block. Nothing but the
\* time is noted when nothing was ever deposited.
Block ==
  /\ IF TotalDeposit = 0
       THEN bonusTime' = now /\ UNCHANGED <<book, loanRate, savingRate, halted>>
     ELSE IF ProductPanics \/ DepositDivisor = 0
       THEN halted' = TRUE /\ UNCHANGED <<book, reported>>
     ELSE Interest /\ bonusTime' = now /\ UNCHANGED halted
  /\ UNCHANGED now

\* The timestamp inherent of the block.
SetTime(wait) ==
  /\ now + wait <= MaxTime
  /\ now' = now + wait
  /\ UNCHANGED <<book, reported, halted>>

Next ==
  /\ ~halted
  /\ \/ Block
     \/ \E wait \in Waits : SetTime(wait)
     \/ \E amount \in Amounts :
          Save(amount) \/ Redeem(amount) \/ \E d \in Accounts : Borrow(d, amount)
     \/ \E d \in Accounts : Repay(d)

Spec == Init /\ [][Next]_vars

-----------------------------------------------------------------------------
(***************************************************************************)
(* Properties                                                              *)
(***************************************************************************)

\* What the other models rely on: however long the blocks take, none of them
\* charges interest. Debts, cash and dtokens move by calls, never by a block.
BlocksChargeNothing == [][bonusTime' # bonusTime \/ loanRate' # loanRate => UNCHANGED book]_vars

\* Whatever is saved and lent, the rate a block reports is between 5% and 10%:
\* lent money counts as deposited too, so at most half of the sum is lent, and
\* of the three branches of the formula the first is the only one taken.
LoanRateInBand ==
  loanRate # GenesisRate => loanRate \in (RatePrec \div 20)..(RatePrec \div 10)

\* A pool that is lent out to its last unit, or redeemed, does not halt the chain:
\* only deposits, lent out or not, that are a multiple of 2^32 do, and loans whose
\* product with the unit of rates outgrows a balance. No limit on savings or loans
\* excludes either.
HaltsOnlyAtWidth ==
  halted => \/ TotalDeposit > 0 /\ TotalDeposit % U32 = 0
            \/ TotalLoan * RatePrec > MaxBalance
=============================================================================
