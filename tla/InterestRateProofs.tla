------------------------- MODULE InterestRateProofs -------------------------
(***************************************************************************)
(* What a block reports and charges, for any debtors, amounts, units and   *)
(* widths: no block charges interest, the rate is between 5% and 10%, and  *)
(* blocks stop only where the deposits or the loans meet a width.          *)
(***************************************************************************)
EXTENDS InterestRate, BalancesProofs

RateTyped ==
  /\ now \in Nat /\ bonusTime \in Nat
  /\ cash \in Nat /\ owed \in [Accounts -> Nat] /\ dtokens \in Int
  /\ halted \in BOOLEAN

\* The inductive invariant: cash and debts are never negative, which bounds the
\* utilization, and the book stands still once the chain does.
RateInv == RateTyped /\ LoanRateInBand /\ HaltsOnlyAtWidth

\* All debts together, and each of them, are natural numbers.
LEMMA TotalLoanFacts ==
  ASSUME RateTyped
  PROVE  /\ TotalLoan \in Nat /\ TotalDeposit \in Nat /\ TotalLoan <= TotalDeposit
         /\ \A d \in Accounts : owed[d] <= TotalLoan
<1>1. cash \in Nat /\ owed \in [Accounts -> Nat]
  BY DEF RateTyped
<1>2. IsFiniteSet(DOMAIN owed) /\ DOMAIN owed = Accounts /\ \A d \in DOMAIN owed : owed[d] \in Nat
  BY <1>1, AccountsAssumption
<1>3. TotalLoan \in Nat /\ \A d \in DOMAIN owed : owed[d] <= TotalLoan
  BY <1>2, SumFunctionNat DEF TotalLoan
<1> QED
  BY <1>1, <1>2, <1>3 DEF TotalDeposit

-----------------------------------------------------------------------------
\* What is lent is in the cash-and-loans already and is added once more: no more than
\* half of that sum is lent.
LEMMA UtilizationAtMostHalf ==
  ASSUME NEW loan \in Nat, NEW deposit \in Nat, loan <= deposit, deposit > 0
  PROVE  Utilization(loan, deposit) \in 0..(RatePrec \div 2)
<1> DEFINE m == loan * RatePrec
           n == deposit + loan
           x == m \div n
<1>1. RatePrec \in Nat /\ RatePrec > 0
  BY UnitAssumption
<1>2. m \in Nat /\ n \in Nat /\ n > 0
  BY <1>1
<1>3. 2 * m <= n * RatePrec
  <2>1. 2 * m = (loan + loan) * RatePrec
    BY <1>1
  <2>2. (loan + loan) * RatePrec <= (deposit + loan) * RatePrec
    BY <1>1
  <2> QED
    BY <2>1, <2>2
<1>4. x \in Nat /\ n * x <= m
  <2> HIDE DEF m, n
  <2> QED
    BY <1>2
<1>5. ASSUME 2 * x > RatePrec PROVE FALSE
  <2> DEFINE p == n * x
  <2>1. n * (2 * x) >= n * (RatePrec + 1)
    BY <1>1, <1>2, <1>4, <1>5
  <2>2. n * (2 * x) = 2 * p /\ n * (RatePrec + 1) = n * RatePrec + n
    BY <1>1, <1>2, <1>4
  <2> DEFINE q == n * RatePrec
  <2>3. p \in Nat /\ q \in Nat
    BY <1>1, <1>2, <1>4
  <2>4. p <= m /\ 2 * m <= q /\ 2 * p >= q + n
    BY <1>3, <1>4, <2>1, <2>2
  <2> HIDE DEF p, q, m, n
  <2> QED
    BY <1>2, <2>3, <2>4
<1>6. x \in 0..(RatePrec \div 2)
  <2> HIDE DEF x
  <2> QED
    BY <1>1, <1>4, <1>5
<1> QED
  BY <1>6 DEF Utilization

\* Up to a half, of the three branches only the first is taken.
LEMMA RateUpToHalf ==
  ASSUME NEW x \in 0..(RatePrec \div 2)
  PROVE  LoanRate(x) \in (RatePrec \div 20)..(RatePrec \div 10)
<1>1. RatePrec \in Nat /\ RatePrec > 0
  BY UnitAssumption
<1>2. x \in Nat /\ x <= RatePrec \div 2 /\ x < 4 * RatePrec
  BY <1>1
<1>3. LoanRate(x) = (x + RatePrec \div 2) \div 10
  BY <1>2 DEF LoanRate
<1>4. (x + RatePrec \div 2) \div 10 \in (RatePrec \div 20)..(RatePrec \div 10)
  BY <1>1, <1>2
<1> QED
  BY <1>3, <1>4

\* The rate of any book in which something is deposited.
LEMMA RateInBand ==
  ASSUME RateTyped, TotalDeposit # 0
  PROVE  LoanRate(Utilization(TotalLoan, TotalDeposit))
           \in (RatePrec \div 20)..(RatePrec \div 10)
<1>1. TotalLoan \in Nat /\ TotalDeposit \in Nat /\ TotalLoan <= TotalDeposit
  BY TotalLoanFacts
<1>2. Utilization(TotalLoan, TotalDeposit) \in 0..(RatePrec \div 2)
  BY <1>1, UtilizationAtMostHalf
<1> QED
  BY <1>2, RateUpToHalf

-----------------------------------------------------------------------------
\* The time is stored before it is read back, so none has passed, nothing is generated,
\* and no part of nothing is charged.
LEMMA InterestIsNothing ==
  ASSUME RateTyped, TotalDeposit # 0, Interest
  PROVE  UNCHANGED book
<1> DEFINE rate == LoanRate(Utilization(TotalLoan, TotalDeposit))
           charge == [d \in Accounts |-> IF owed[d] = 0 THEN 0 ELSE PartOf(d, rate)]
<1>1. rate \in Nat
  <2>1. rate \in (RatePrec \div 20)..(RatePrec \div 10)
    BY RateInBand
  <2>2. (RatePrec \div 20) \in Nat /\ (RatePrec \div 10) \in Nat
    BY UnitAssumption
  <2> HIDE DEF rate
  <2> QED
    BY <2>1, <2>2
<1>2. /\ owed' = [d \in Accounts |-> owed[d] + charge[d]]
      /\ cash' = cash + SumFunction(charge) /\ dtokens' = dtokens + SumFunction(charge)
  BY DEF Interest
<1> HIDE DEF rate
<1>3. TotalLoan \in Nat /\ \A d \in Accounts : owed[d] \in Nat /\ owed[d] <= TotalLoan
  BY TotalLoanFacts DEF RateTyped
<1>4. Elapsed = 0
  BY DEF Elapsed, RateTyped
<1>5. Generated(rate) = 0
  BY <1>1, <1>3, <1>4, UnitAssumption DEF Generated
<1>6. ASSUME NEW d \in Accounts PROVE charge[d] = 0
  <2> SUFFICES ASSUME owed[d] # 0 PROVE PartOf(d, rate) = 0
    OBVIOUS
  <2> DEFINE divisor == TotalLoan * RatePrec
  <2>1. divisor \in Nat /\ divisor > 0
    <3>1. TotalLoan > 0 /\ TotalLoan \in Nat /\ RatePrec \in Nat /\ RatePrec > 0
      BY <1>3, UnitAssumption
    <3> QED
      BY <3>1
  <2>2. Generated(rate) * owed[d] = 0
    BY <1>3, <1>5
  <2> HIDE DEF divisor
  <2>3. 0 \div divisor = 0
    BY <2>1
  <2> QED
    BY <2>2, <2>3 DEF PartOf, divisor
<1>7. SumFunction(charge) = 0
  <2>1. DOMAIN charge = Accounts
    OBVIOUS
  <2> HIDE DEF charge
  <2> QED
    BY <1>6, <2>1, AccountsAssumption, SumOfZeros
<1>8. owed' = owed
  <2>1. \A d \in Accounts : owed[d] + charge[d] = owed[d]
    <3> HIDE DEF charge
    <3> QED
      BY <1>3, <1>6
  <2>2. owed \in [Accounts -> Nat]
    BY DEF RateTyped
  <2> HIDE DEF charge
  <2> QED
    BY <1>2, <2>1, <2>2
<1>9. cash' = cash /\ dtokens' = dtokens
  <2> HIDE DEF charge
  <2> QED
    BY <1>2, <1>7 DEF RateTyped
<1> QED
  BY <1>8, <1>9 DEF book

-----------------------------------------------------------------------------
\* The empty pool has no debts, and reports what the genesis says.
LEMMA RateInitially == Init => RateInv
<1> SUFFICES ASSUME Init PROVE RateInv
  OBVIOUS
<1>1. owed \in [Accounts -> Nat]
  BY DEF Init, EmptySheet
<1>2. halted = FALSE /\ halted \in BOOLEAN
  BY Zenon DEF Init
<1>3. RateTyped
  BY <1>1, <1>2 DEF Init, RateTyped
<1>4. LoanRateInBand
  BY DEF Init, LoanRateInBand
<1>5. HaltsOnlyAtWidth
  BY <1>2 DEF HaltsOnlyAtWidth
<1> QED
  BY <1>3, <1>4, <1>5 DEF RateInv

\* The calls users make between two blocks.
Call ==
  \/ \E amount \in Amounts :
       Save(amount) \/ Redeem(amount) \/ \E d \in Accounts : Borrow(d, amount)
  \/ \E d \in Accounts : Repay(d)

\* A call moves cash and debts and touches nothing that is reported.
LEMMA CallKeepsTypes ==
  ASSUME RateTyped, Call
  PROVE  RateTyped' /\ UNCHANGED <<now, reported, halted>>
<1> DEFINE Goal == RateTyped' /\ UNCHANGED <<now, reported, halted>>
<1>1. ASSUME NEW amount \in Amounts, Save(amount) PROVE Goal
  BY <1>1, AmountAssumption DEF Save, RateTyped, reported
<1>2. ASSUME NEW amount \in Amounts, Redeem(amount) PROVE Goal
  BY <1>2, AmountAssumption DEF Redeem, RateTyped, reported
<1>3. ASSUME NEW amount \in Amounts, NEW d \in Accounts, Borrow(d, amount) PROVE Goal
  BY <1>3, AmountAssumption DEF Borrow, RateTyped, reported
<1>4. ASSUME NEW d \in Accounts, Repay(d) PROVE Goal
  BY <1>4 DEF Repay, RateTyped, reported
<1> QED
  BY <1>1, <1>2, <1>3, <1>4 DEF Call

\* Calls, blocks and the time keep the invariant.
LEMMA RateInductive == RateInv /\ [Next]_vars => RateInv'
<1> SUFFICES ASSUME RateInv, [Next]_vars PROVE RateInv'
  OBVIOUS
<1>0. RateTyped /\ LoanRateInBand /\ HaltsOnlyAtWidth
  BY DEF RateInv
<1>1. CASE Call /\ ~halted
  <2>1. RateTyped' /\ UNCHANGED <<now, reported, halted>>
    BY <1>0, <1>1, CallKeepsTypes
  <2>2. LoanRateInBand'
    BY <1>0, <2>1 DEF LoanRateInBand, reported
  <2>3. HaltsOnlyAtWidth'
    BY <1>1, <2>1 DEF HaltsOnlyAtWidth
  <2> QED
    BY <2>1, <2>2, <2>3 DEF RateInv
<1>2. CASE Block /\ ~halted
  <2>0. TotalLoan \in Nat /\ TotalDeposit \in Nat
    BY <1>0, TotalLoanFacts
  <2>1. CASE TotalDeposit = 0
    <3>1. bonusTime' = now /\ UNCHANGED <<book, now, loanRate, savingRate, halted>>
      BY <1>2, <2>1 DEF Block
    <3>2. RateTyped'
      BY <1>0, <3>1 DEF RateTyped, book
    <3>3. LoanRateInBand'
      BY <1>0, <3>1 DEF LoanRateInBand
    <3>4. HaltsOnlyAtWidth'
      BY <1>2, <3>1 DEF HaltsOnlyAtWidth
    <3> QED
      BY <3>2, <3>3, <3>4 DEF RateInv
  <2>2. CASE TotalDeposit # 0 /\ (ProductPanics \/ DepositDivisor = 0)
    <3>1. halted' = TRUE /\ UNCHANGED <<book, now, reported>>
      BY <1>2, <2>2 DEF Block
    <3>2. halted' \in BOOLEAN
      BY <3>1, Zenon
    <3>3. RateTyped'
      BY <1>0, <3>1, <3>2 DEF RateTyped, book, reported
    <3>4. LoanRateInBand'
      BY <1>0, <3>1 DEF LoanRateInBand, reported
    <3>5. TotalDeposit' = TotalDeposit /\ TotalLoan' = TotalLoan
      BY <3>1 DEF TotalDeposit, TotalLoan, book
    <3>6. HaltsOnlyAtWidth'
      BY <2>0, <2>2, <3>5 DEF HaltsOnlyAtWidth, DepositDivisor, ProductPanics
    <3> QED
      BY <3>3, <3>4, <3>6 DEF RateInv
  <2>3. CASE TotalDeposit # 0 /\ ~ProductPanics /\ DepositDivisor # 0
    <3>1. Interest /\ bonusTime' = now /\ UNCHANGED <<now, halted>>
      BY <1>2, <2>3 DEF Block
    <3>2. UNCHANGED book
      BY <1>0, <2>3, <3>1, InterestIsNothing
    <3>3. RateTyped'
      BY <1>0, <3>1, <3>2 DEF RateTyped, book
    <3>4. loanRate' = LoanRate(Utilization(TotalLoan, TotalDeposit))
      BY <3>1 DEF Interest
    <3>5. LoanRateInBand'
      BY <1>0, <2>3, <3>4, RateInBand DEF LoanRateInBand
    <3>6. HaltsOnlyAtWidth'
      BY <1>2, <3>1 DEF HaltsOnlyAtWidth
    <3> QED
      BY <3>3, <3>5, <3>6 DEF RateInv
  <2> QED
    BY <2>1, <2>2, <2>3
<1>3. ASSUME ~halted, NEW wait \in Waits, SetTime(wait) PROVE RateInv'
  <2>1. now' = now + wait /\ wait \in Nat /\ UNCHANGED <<book, reported, halted>>
    BY <1>3, AmountAssumption DEF SetTime
  <2>2. RateTyped'
    BY <1>0, <2>1 DEF RateTyped, book, reported
  <2>3. LoanRateInBand'
    BY <1>0, <2>1 DEF LoanRateInBand, reported
  <2>4. HaltsOnlyAtWidth'
    BY <1>3, <2>1 DEF HaltsOnlyAtWidth
  <2> QED
    BY <2>2, <2>3, <2>4 DEF RateInv
<1>4. CASE UNCHANGED vars
  BY <1>0, <1>4 DEF RateInv, RateTyped, LoanRateInBand, HaltsOnlyAtWidth, TotalDeposit, TotalLoan, vars
<1> QED
  BY <1>1, <1>2, <1>3, <1>4 DEF Next, Call

\* However much is saved and lent, a block reports a rate between 5% and 10%.
THEOREM RatesAreModest == Spec => []LoanRateInBand
<1>1. Init => RateInv
  BY RateInitially
<1>2. RateInv /\ [Next]_vars => RateInv'
  BY RateInductive
<1>3. RateInv => LoanRateInBand
  BY DEF RateInv
<1> QED
  BY <1>1, <1>2, <1>3, PTL DEF Spec

\* Only deposits that are a multiple of 2^32, or loans whose product with the unit of
\* rates outgrows a balance, stop the chain: never an empty pool or one lent out to its
\* last unit.
THEOREM InterestHaltsAtWidth == Spec => []HaltsOnlyAtWidth
<1>1. Init => RateInv
  BY RateInitially
<1>2. RateInv /\ [Next]_vars => RateInv'
  BY RateInductive
<1>3. RateInv => HaltsOnlyAtWidth
  BY DEF RateInv
<1> QED
  BY <1>1, <1>2, <1>3, PTL DEF Spec

\* No block charges anything, however long it took: this is what lets DepositLoan leave
\* the interest out of its book.
THEOREM InterestNeverCharged == Spec => BlocksChargeNothing
<1> DEFINE Charged == bonusTime' # bonusTime \/ loanRate' # loanRate => UNCHANGED book
<1>1. Init => RateInv
  BY RateInitially
<1>2. RateInv /\ [Next]_vars => RateInv'
  BY RateInductive
<1>3. RateInv /\ [Next]_vars => [Charged]_vars
  <2> SUFFICES ASSUME RateInv, Next PROVE Charged
    OBVIOUS
  <2>0. RateTyped
    BY DEF RateInv
  <2>1. CASE Call
    BY <2>0, <2>1, CallKeepsTypes DEF reported
  <2>2. CASE Block
    <3>1. TotalDeposit # 0 /\ ~ProductPanics /\ DepositDivisor # 0 => UNCHANGED book
      BY <2>0, <2>2, InterestIsNothing DEF Block
    <3>2. TotalDeposit = 0 => UNCHANGED book
      BY <2>2 DEF Block
    <3>3. TotalDeposit # 0 /\ (ProductPanics \/ DepositDivisor = 0) => UNCHANGED book
      BY <2>2 DEF Block
    <3> QED
      BY <3>1, <3>2, <3>3
  <2>3. ASSUME NEW wait \in Waits, SetTime(wait) PROVE Charged
    BY <2>3 DEF SetTime
  <2> QED
    BY <2>1, <2>2, <2>3 DEF Next, Call
<1> QED
  BY <1>1, <1>2, <1>3, PTL DEF Spec, BlocksChargeNothing
=============================================================================
