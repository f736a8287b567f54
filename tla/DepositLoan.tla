---------------------------- MODULE DepositLoan ----------------------------
(***************************************************************************)
(* The money pool as a whole (runtime/modules/deposit-loan/src/lib.rs):    *)
(* savings and loans over the same collection account, and on_initialize,  *)
(* which every block runs before its calls. A panic in a call discards the *)
(* call; a panic in on_initialize leaves the chain without a next block.   *)
(***************************************************************************)
EXTENDS Savings, LoanBook, SequencesExt

CONSTANTS
  RatePrec,         \* 10^8, the unit of the utilization rate
  StakeAmounts,     \* amounts passed to staking
  RedeemAmounts,    \* to redeem
  Applications,     \* pairs of collateral and loan, to apply_loan
  AuctionExtras,    \* what an auction brings above the loan, to mark_liquidated
  AddAmounts,       \* to add_collateral
  DrawAmounts,      \* to draw
  MaxLoanId,        \* bound: no loan is given once next_loan_id passes it
  MaxTotal          \* bound: no draw or reverted repayment takes a total past it

ASSUME RateAssumption == RatePrec \in Nat \ {0}
ASSUME AmountsAssumption ==
  /\ StakeAmounts \cup RedeemAmounts \cup AddAmounts \cup DrawAmounts \subseteq Balance
  /\ Applications \subseteq Balance \X Balance /\ AuctionExtras \subseteq Balance

-----------------------------------------------------------------------------
\* Mutant: listed loans are judged again.
JudgedAgain == DOMAIN loans

\* on_each_block: every loan that is not being liquidated is judged by the
\* LTV of its available collateral.
Judged == DOMAIN loans \ Listed
HealthPanics == \E id \in Judged : LtvPanics(loans[id].available, loans[id].total)

HealthOf(loan) ==
  LET ltv == GetLtv(loan.available, loan.total) IN
  IF ltv >= config.liquidationThreshold THEN "Liquidating"
  ELSE IF ltv >= config.warningThreshold THEN "Warning"
  ELSE "Well"

\* A loan that is well again keeps the status it had.
StatusAfter(id) ==
  IF id \in Judged /\ HealthOf(loans[id]) # "Well" THEN HealthOf(loans[id]) ELSE loans[id].status

\* Mutant: only a loan that was warned about is listed.
ListedAfterWarning ==
  {id \in Judged : HealthOf(loans[id]) = "Liquidating" /\ loans[id].status = "Warning"}

\* liquidate_loan appends; Loans is enumerated from the newest loan on.
NewlyListed == {id \in Judged : HealthOf(loans[id]) = "Liquidating"}

-----------------------------------------------------------------------------
\* calculate_loan_interest_rate: BonusTime is set to the time of this block
\* before it is read, so the time elapsed, and with it the interest of every
\* loan, is 0: drawing it, paying it and adding it to TotalDtoken change
\* nothing. What is left are the operations that panic: the utilization's
\* product, the division by total_loan for each loan, the draw's division by
\* the price, and the division by the deposits cut to 32 bits.
Deposits == Wrapped(Cash + totalLoan)

\* Mutant: the price is divided by although there is no loan.
PanicsWithoutLoans ==
  /\ Wrapped(Deposits + totalLoan) # 0
  /\ totalLoan * RatePrec > MaxBalance \/ Low32(CollateralPrice) = 0 \/ Low32(Deposits) = 0

InterestPanics ==
  /\ Wrapped(Deposits + totalLoan) # 0
  /\ \/ totalLoan * RatePrec > MaxBalance
     \/ DOMAIN loans # {} /\ (totalLoan = 0 \/ Low32(CollateralPrice) = 0)
     \/ Low32(Deposits) = 0

\* on_initialize. A panic of either part undoes the whole block.
BlockPanics == HealthPanics \/ InterestPanics

Block ==
  /\ ~paused
  /\ IF BlockPanics
       THEN halted' = TRUE /\ UNCHANGED book
       ELSE /\ loans' = [id \in DOMAIN loans |-> [loans[id] EXCEPT !.status = StatusAfter(id)]]
            /\ liquidating' = liquidating \o Reverse(InOrder(NewlyListed))
            /\ UNCHANGED <<loansByAccount, totalLoan, totalCollateral, nextLoanId, halted>>
  /\ UNCHANGED <<ledger, settings, savings>>

-----------------------------------------------------------------------------
WithinBounds == totalLoan' <= MaxTotal /\ totalCollateral' <= MaxTotal

\* A call of a user. sudo_staking and sudo_redeem are the same step for root.
UserCall(who) ==
  \/ \E amount \in StakeAmounts : Stake(who, amount)
  \/ \E amount \in RedeemAmounts : Redeem(who, amount)
  \/ \E a \in Applications : nextLoanId <= MaxLoanId /\ Apply(who, a[1], a[2])
  \/ \E id \in DOMAIN loans :
       \/ Repay(who, id)
       \/ RepayReverted(who, id) /\ WithinBounds
       \/ \E amount \in AddAmounts : AddCollateral(who, id, amount)
       \/ \E amount \in DrawAmounts : Draw(who, id, amount) /\ WithinBounds

\* A call of the liquidation account.
Settlement ==
  \E id \in DOMAIN loans, extra \in AuctionExtras :
    LET auction == loans[id].total + extra IN
    \/ MarkLiquidated(id, auction)
    \/ MarkWithoutPenalty(id, auction)
    \/ MarkWithoutShare(id, auction)

RootCall ==
  \/ \E b \in BOOLEAN : SetPaused(b)
  \/ \E setter \in DOMAIN ConfigChoices : \E value \in ConfigChoices[setter] :
       Configure(setter, value)

Next ==
  /\ ~halted
  /\ \/ Block
     \/ \E who \in Users : UserCall(who)
     \/ Settlement
     \/ RootCall
     \/ PublishPrices

Spec == InitState /\ [][Next]_vars

\* Block authorship goes on whatever users do, and every block is initialised.
LiveSpec == Spec /\ WF_vars(~halted /\ Block)

-----------------------------------------------------------------------------
(***************************************************************************)
(* Properties                                                              *)
(***************************************************************************)

\* Every entry of the storage has its type.
TypeOK ==
  /\ free \in [AssetIds -> Sheet]
  /\ price \in [AssetIds -> Nat]
  /\ paused \in BOOLEAN /\ halted \in BOOLEAN
  /\ config \in Config
  /\ dtoken \in Sheet /\ market \in Balance /\ total \in Balance
  /\ DOMAIN loans \subseteq Nat
  /\ \A id \in DOMAIN loans : loans[id] \in Loan
  /\ loansByAccount \in [Accounts -> Seq(Nat)]
  /\ totalLoan \in Balance /\ totalCollateral \in Balance
  /\ liquidating \in Seq(Nat)
  /\ nextLoanId \in Nat

NoRepeats(list) == \A i, j \in DOMAIN list : list[i] = list[j] => i = j

\* Loans and LoansByAccount are two views of one book: an account lists exactly
\* its own running loans, each once, whatever was repaid, reverted or liquidated;
\* and no id is given twice.
LoanBookConsistent ==
  /\ \A a \in Accounts :
       /\ NoRepeats(loansByAccount[a])
       /\ {loansByAccount[a][i] : i \in DOMAIN loansByAccount[a]}
            = {id \in DOMAIN loans : loans[id].who = a}
  /\ \A id \in DOMAIN loans : id < nextLoanId

\* LiquidatingLoans lists exactly the running loans whose status says so, each
\* once: no loan is auctioned twice, none is repaid while it is auctioned, and
\* none is left marked with nobody to settle it.
LiquidatingConsistent ==
  /\ NoRepeats(liquidating)
  /\ Listed = {id \in DOMAIN loans : loans[id].status = "Liquidating"}

OwedInAll == SumFunction([id \in DOMAIN loans |-> loans[id].total])
PledgedInAll == SumFunction([id \in DOMAIN loans |-> loans[id].original])

\* TotalLoan and TotalCollateral never fall below what the running loans add up
\* to, so the plain `-=` of a repayment never wraps, although liquidations and
\* reverted repayments leave the totals too high.
TotalsCoverLoans == totalLoan >= OwedInAll /\ totalCollateral >= PledgedInAll

\* A dtoken is always worth one unit of the collection asset: the two dtoken
\* counters never part, because no interest ever reaches TotalDtoken.
RateIsOne == market = total

\* The counters are covered: what all savers together paid in and have not got back
\* is there, in cash or lent out, as long as auctions bring exactly the loan. Whose
\* it is they do not say: UserDtoken, by which a saver redeems, is never lowered.
SavingsCovered == RateIsOne /\ Cash + OwedInAll >= total

\* The counters move only with a saver's money, by exactly as much as went in or
\* out, and it takes nobody else's dtokens: whichever of the two halves of a
\* redemption fails. One's own dtokens grow by no less than was paid.
SavingsAreCredited ==
  [][savings' # savings =>
       \E u \in Users :
         LET paid == free[config.collectionAsset][u] - free'[config.collectionAsset][u] IN
         /\ Cash' - Cash = paid
         /\ market' - market = paid /\ total' - total = paid
         /\ dtoken'[u] - dtoken[u] >= paid /\ dtoken'[u] >= dtoken[u]
         /\ \A other \in Accounts \ {u} : dtoken'[other] = dtoken[other]]_vars

\* The pawn shop holds the collateral of every running loan, so that a repayment
\* is never reverted, as long as nothing is added in another asset and auctions
\* settle.
ShopCoversLoans == free[config.collateralAsset][PawnShop] >= PledgedInAll

\* The widths of on_initialize: no product or sum outgrows a balance, 32 bits of
\* the deposits and, when there are loans, of the price are not all 0, and the LTV
\* of a judged loan that is worth anything is one. A price of 0 is such a limit.
BlocksFit ==
  /\ totalLoan * RatePrec <= MaxBalance
  /\ Cash + totalLoan <= MaxBalance /\ (Cash + totalLoan # 0 => Low32(Cash + totalLoan) # 0)
  /\ DOMAIN loans # {} => Low32(CollateralPrice) # 0
  /\ \A id \in Judged :
       LET worth == loans[id].available * CollateralPrice IN
       /\ worth <= MaxBalance
       /\ worth # 0 => GetLtv(loans[id].available, loans[id].total) < U64

\* A block panics only at one of those limits, as long as no applicant leaves the
\* collateral to be derived: however a loan is drawn from, some of its collateral
\* stays available, and TotalLoan is never 0 beside a loan.
HaltsOnlyAtLimits == halted => ~BlocksFit

\* A user's balance shrinks only where the book shows why: dtokens bought,
\* collateral pledged for a new or an old loan of that user, or a loan of that
\* user paid off.
LossIsRecorded ==
  [][\A a \in Users, asset \in AssetIds :
       free'[asset][a] < free[asset][a] =>
         \/ dtoken'[a] > dtoken[a]
         \/ \E id \in DOMAIN loans' : loans'[id].who = a
              /\ (id \in DOMAIN loans => loans'[id].original > loans[id].original)
         \/ \E id \in DOMAIN loans \ DOMAIN loans' : loans[id].who = a]_vars

\* A loan leaves the book only when the collection account has been paid all
\* of it, and a loan being liquidated leaves it only by being settled: its owner
\* never gets the collateral back. mark_liquidated (line 403): "auction_balance
\* will be first used to make up the loan, then what so ever left will be
\* returned"; it holds as long as auctions leave nothing over.
ClosedWhenPaid ==
  [][\A id \in DOMAIN loans \ DOMAIN loans' :
       /\ free'[config.loanAsset][config.collectionAccount]
            = free[config.loanAsset][config.collectionAccount] + loans[id].total
       /\ id \in Listed =>
            /\ free'[config.collateralAsset][loans[id].who]
                 = free[config.collateralAsset][loans[id].who]
            /\ id \notin Listed']_vars

\* A loan listed for liquidation stays listed, with the same debtor, until it
\* is settled, however the price recovers.
LiquidationSticks ==
  [][\A id \in Listed :
       id \in Listed' \/ id \notin DOMAIN loans']_vars

Unhealthy(id) ==
  /\ id \in DOMAIN loans /\ ~LtvPanics(loans[id].available, loans[id].total)
  /\ HealthOf(loans[id]) = "Liquidating"

\* A loan at or above the liquidation threshold is listed for liquidation by
\* some later block, unless it is saved, the module paused or the chain halted
\* before that.
UnhealthyIsListed ==
  \A id \in 0..MaxLoanId :
    Unhealthy(id) ~> (id \in Listed \/ ~Unhealthy(id) \/ paused \/ halted)

-----------------------------------------------------------------------------
(***************************************************************************)
(* What the comments of the source say and the code does not do            *)
(***************************************************************************)

\* TotalCollateral (line 184): "total balance of collateral asset locked in the
\* pawnshop"; add_collateral locks the collection asset instead.
CollateralIsLocked == totalCollateral = free[config.collateralAsset][PawnShop]

\* MarketDtoken (line 135): "Total market dtoken generated"; redeem lowers it
\* without taking the user's dtokens away.
DtokensAddUp == market = SumFunction(dtoken)
=============================================================================
