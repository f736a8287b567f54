------------------------------ MODULE LoanBook ------------------------------
(***************************************************************************)
(* The lending side of the money pool: loans against collateral, from      *)
(* application to repayment or liquidation (deposit-loan/src/lib.rs,       *)
(* apply_loan, repay_loan, mark_liquidated, add_collateral, draw and what  *)
(* they call).                                                             *)
(***************************************************************************)
EXTENDS PoolState

Health == {"Well", "Warning", "Liquidating"}

\* A Loan; its id is its key. The LTV in the status is left out, it is only reported.
Loan == [who : Accounts, original : Balance, available : Balance, total : Balance,
         status : Health]

\* `as u32`
Low32(n) == n % U32

Listed == {liquidating[i] : i \in DOMAIN liquidating}
\* Mutants: the list is cleared; the list is left as it was.
Cleared(list, id) == << >>
Kept(list, id) == list

\* The numbers of a finite set, in ascending order.
InOrder(S) == [k \in 1..Cardinality(S) |-> CHOOSE x \in S : Cardinality({y \in S : y <= x}) = k]

\* The list filtered: what is kept stays in order.
WithoutId(list, id) ==
  LET kept == InOrder({i \in DOMAIN list : list[i] # id}) IN [k \in DOMAIN kept |-> list[kept[k]]]

WithLoan(id, loan) == [i \in DOMAIN loans \cup {id} |-> IF i = id THEN loan ELSE loans[i]]
\* Mutant: the loan is not removed.
LoanKept(id) == loans

WithoutLoan(id) == [i \in DOMAIN loans \ {id} |-> loans[i]]

\* get_ltv's quotient of balances, and where get_ltv panics: on an empty divisor, and
\* on a quotient that is not an LTV.
LtvDivisor(collateral) == Narrow(collateral * CollateralPrice)
GetLtv(collateral, loan) == Narrow(loan * PricePrec * LtvPrec) \div LtvDivisor(collateral)
LtvPanics(collateral, loan) == LtvDivisor(collateral) = 0 \/ GetLtv(collateral, loan) >= U64

-----------------------------------------------------------------------------
(***************************************************************************)
(* get_collateral_loan: an amount given as 0 is derived from the other one.*)
(***************************************************************************)
MustPledge(loan) == Narrow(loan * LtvPrec * PricePrec) \div Narrow(CollateralPrice * config.ltvLimit)
CanBorrow(collateral) == Narrow(collateral * CollateralPrice * config.ltvLimit) \div (LtvPrec * PricePrec)

\* Mutant: the LTV of what is asked for is not compared with the limit.
RefusedIfNothing(collateral, loan) == collateral = 0 /\ loan = 0

AmountsRefused(collateral, loan) ==
  \/ collateral = 0 /\ loan = 0
  \/ collateral # 0 /\ loan # 0 /\ GetLtv(collateral, loan) >= config.ltvLimit

\* The quotient is compared as a balance here, so only its divisor matters.
AmountsPanic(collateral, loan) ==
  \/ collateral = 0 /\ Narrow(CollateralPrice * config.ltvLimit) = 0
  \/ collateral # 0 /\ loan # 0 /\ LtvDivisor(collateral) = 0

CollateralLoan(collateral, loan) ==
  [collateral |-> IF collateral = 0 THEN MustPledge(loan) ELSE collateral,
   loan       |-> IF loan = 0 THEN CanBorrow(collateral) ELSE loan]

\* apply_loan. The cap is compared with the loans already given, the minimum
\* with the collateral as it was asked for, and the money paid out is the loan
\* as it was asked for. The payout cannot fail: the cash was checked, and the
\* applicant, who only paid collateral, is not the collection account.
Apply(who, collateral, loan) ==
  /\ ~paused
  /\ Cash >= loan
  /\ config.loanCap # NoCap => totalLoan < config.loanCap
  /\ ~AmountsPanic(collateral, loan) /\ ~AmountsRefused(collateral, loan)
  /\ collateral >= MinimumCollateral
  /\ CollateralPrice # 0        \* loan_amount / price panics
  /\ LET actual == CollateralLoan(collateral, loan)
         pledged == Paid(free, config.collateralAsset, who, PawnShop, actual.collateral)
     IN  /\ Affords(free, config.collateralAsset, who, actual.collateral)
         /\ free' = Paid(pledged, config.collectionAsset, config.collectionAccount, who, loan)
         /\ loans' = WithLoan(nextLoanId,
              [who |-> who, original |-> actual.collateral,
               available |-> Wrapped(actual.collateral - loan \div CollateralPrice),
               total |-> actual.loan, status |-> "Well"])
         /\ totalLoan' = Wrapped(totalLoan + actual.loan)
         /\ totalCollateral' = Wrapped(totalCollateral + actual.collateral)
  /\ loansByAccount' = [loansByAccount EXCEPT ![who] = Append(@, nextLoanId)]
  /\ nextLoanId' = nextLoanId + 1
  /\ UNCHANGED <<price, settings, savings, liquidating, halted>>

-----------------------------------------------------------------------------
\* Mutant: loans in liquidation may be repaid.
CanRepayAlways(who, id) ==
  /\ ~paused
  /\ id \in DOMAIN loans /\ loans[id].who = who
  /\ Affords(free, config.loanAsset, who, loans[id].total)
  /\ Affords(free, config.collateralAsset, PawnShop, loans[id].available)

\* repay_loan's checks: the shop must hold the available collateral, though
\* it is the original collateral that is given back.
CanRepay(who, id) ==
  /\ ~paused
  /\ id \in DOMAIN loans /\ loans[id].who = who
  /\ Affords(free, config.loanAsset, who, loans[id].total)
  /\ Affords(free, config.collateralAsset, PawnShop, loans[id].available)
  /\ id \notin Listed

\* The balances once the loan is paid back, before the collateral is returned.
PaidBack(id) == Paid(free, config.loanAsset, loans[id].who, config.collectionAccount, loans[id].total)
Returnable(id) == Affords(PaidBack(id), config.collateralAsset, PawnShop, loans[id].original)

Repay(who, id) ==
  /\ CanRepay(who, id) /\ Returnable(id)
  /\ free' = Paid(PaidBack(id), config.collateralAsset, PawnShop, who, loans[id].original)
  /\ loans' = WithoutLoan(id)
  /\ loansByAccount' = [loansByAccount EXCEPT ![who] = WithoutId(@, id)]
  /\ totalLoan' = Wrapped(totalLoan - loans[id].total)
  /\ totalCollateral' = Wrapped(totalCollateral - loans[id].original)
  /\ UNCHANGED <<price, settings, savings, liquidating, nextLoanId, halted>>

\* Mutant: the totals are lowered although the loan stays.
RevertLowersTotals(who, id) ==
  /\ CanRepay(who, id) /\ ~Returnable(id)
  /\ totalLoan' = Wrapped(totalLoan - loans[id].total)
  /\ totalCollateral' = Wrapped(totalCollateral - loans[id].available)
  /\ UNCHANGED <<ledger, settings, savings, loans, loansByAccount, liquidating, nextLoanId, halted>>

\* The collateral is not there: revert_callback adds the loan to the totals,
\* which were not yet lowered, and the money is given back.
RepayReverted(who, id) ==
  /\ CanRepay(who, id) /\ ~Returnable(id)
  /\ loansByAccount' = [loansByAccount EXCEPT ![who] = Append(WithoutId(@, id), id)]
  /\ totalLoan' = Wrapped(totalLoan + loans[id].total)
  /\ totalCollateral' = Wrapped(totalCollateral + loans[id].available)
  /\ UNCHANGED <<ledger, settings, savings, loans, liquidating, nextLoanId, halted>>

-----------------------------------------------------------------------------
(***************************************************************************)
(* mark_liquidated: the liquidation account pays the loan back out of what *)
(* the auction brought; what is left over goes from the collection account *)
(* to the profit pool (the penalty) and to the owner.                      *)
(***************************************************************************)
CanMark(id, auction) ==
  /\ ~paused
  /\ id \in DOMAIN loans /\ id \in Listed
  /\ Affords(free, config.loanAsset, config.liquidationAccount, auction)
  /\ auction >= loans[id].total

Leftover(id, auction) == auction - loans[id].total
Penalty(id, auction) == Narrow(Leftover(id, auction) * LiquidationPenalty) \div 100
OwnersShare(id, auction) == Wrapped(Leftover(id, auction) - Penalty(id, auction))

\* A transfer of the loan asset, as every step of the settlement but one is.
InLoanAsset(f, from, to, amount) == Paid(f, config.loanAsset, from, to, amount)

\* The balances after the loan is paid, and after the penalty is.
Covered(id) == InLoanAsset(free, config.liquidationAccount, config.collectionAccount, loans[id].total)
Penalised(id, auction) ==
  InLoanAsset(Covered(id), config.collectionAccount, config.profitPool, Penalty(id, auction))

PenaltyFails(id, auction) ==
  /\ Leftover(id, auction) > 0
  /\ ~Affords(Covered(id), config.loanAsset, config.collectionAccount, Penalty(id, auction))

ShareFails(id, auction) ==
  /\ Leftover(id, auction) > 0 /\ ~PenaltyFails(id, auction)
  /\ ~Affords(Penalised(id, auction), config.loanAsset, config.collectionAccount,
              OwnersShare(id, auction))

\* The loan is settled and leaves the book; the totals stay as they are.
MarkLiquidated(id, auction) ==
  /\ CanMark(id, auction) /\ ~PenaltyFails(id, auction) /\ ~ShareFails(id, auction)
  /\ free' = IF Leftover(id, auction) = 0 THEN Covered(id)
             ELSE InLoanAsset(Penalised(id, auction), config.collectionAccount, loans[id].who,
                              OwnersShare(id, auction))
  /\ loans' = WithoutLoan(id)
  /\ loansByAccount' = [loansByAccount EXCEPT ![loans[id].who] = WithoutId(@, id)]
  /\ liquidating' = WithoutId(liquidating, id)
  /\ UNCHANGED <<price, settings, savings, totalLoan, totalCollateral, nextLoanId, halted>>

\* The penalty cannot be paid: the pawn shop is to give the money back, if it
\* has any of that asset; the loan stays.
MarkWithoutPenalty(id, auction) ==
  /\ CanMark(id, auction) /\ PenaltyFails(id, auction)
  /\ free' = IF Affords(Covered(id), config.loanAsset, PawnShop, loans[id].total)
               THEN InLoanAsset(Covered(id), PawnShop, config.liquidationAccount, loans[id].total)
               ELSE Covered(id)
  /\ UNCHANGED <<price, settings, savings, book, halted>>

\* The owner's share cannot be paid: the profit pool gives the penalty to the
\* liquidation account and the shop the collateral, if it has it; the loan stays.
MarkWithoutShare(id, auction) ==
  /\ CanMark(id, auction) /\ ShareFails(id, auction)
  /\ LET returned == InLoanAsset(Penalised(id, auction), config.profitPool,
                                 config.liquidationAccount, Penalty(id, auction))
     IN free' = IF Affords(returned, config.collateralAsset, PawnShop, loans[id].original)
                  THEN Paid(returned, config.collateralAsset, PawnShop,
                            config.liquidationAccount, loans[id].original)
                  ELSE returned
  /\ UNCHANGED <<price, settings, savings, book, halted>>

-----------------------------------------------------------------------------
\* add_collateral: paid in the collection asset.
AddCollateral(who, id, amount) ==
  /\ ~paused
  /\ id \in DOMAIN loans /\ loans[id].who = who
  /\ Affords(free, config.collectionAsset, who, amount)
  /\ free' = Paid(free, config.collectionAsset, who, PawnShop, amount)
  /\ loans' = [loans EXCEPT ![id].original  = Wrapped(@ + amount),
                            ![id].available = Wrapped(@ + amount)]
  /\ totalCollateral' = Wrapped(totalCollateral + amount)
  /\ UNCHANGED <<price, settings, savings, loansByAccount, totalLoan, liquidating,
                 nextLoanId, halted>>

\* Mutant: the credit is that of the original collateral.
OriginalCredit(loan) ==
  (Narrow(loan.original * Low32(CollateralPrice) * Low32(config.ltvLimit))
     \div LtvPrec) \div PricePrec

\* draw_from_loan's credit, which ignores what is already owed.
AvailableCredit(loan) ==
  (Narrow(loan.available * Low32(CollateralPrice) * Low32(config.ltvLimit))
     \div LtvPrec) \div PricePrec

\* draw: the debt grows and the available collateral shrinks; nothing is paid.
Draw(who, id, amount) ==
  /\ ~paused
  /\ id \in DOMAIN loans /\ loans[id].who = who
  /\ amount <= AvailableCredit(loans[id])
  /\ Low32(CollateralPrice) # 0   \* the division panics
  /\ loans' = [loans EXCEPT ![id].total     = Wrapped(@ + amount),
                            ![id].available = Wrapped(@ - amount \div Low32(CollateralPrice))]
  /\ totalLoan' = Wrapped(totalLoan + amount)
  /\ UNCHANGED <<ledger, settings, savings, loansByAccount, totalCollateral, liquidating,
                 nextLoanId, halted>>
=============================================================================
