-------------------------------- MODULE Fees --------------------------------
(***************************************************************************)
(* What the runtime adds to Substrate's fees and staking: the adapters of  *)
(* runtime/src/impls.rs, over blocks of transactions. A transaction pays   *)
(* by its weight times a multiplier, the fee is split between the treasury *)
(* and the author of the block, and every block moves the multiplier by    *)
(* how full it was. Staking reads balances as votes. The balances and      *)
(* transaction-payment pallets are Substrate's. MaxBalance bounds what is  *)
(* issued.                                                                 *)
(***************************************************************************)
EXTENDS Balances, Functions

CONSTANTS
  Payers, Validators, Treasury,   \* the accounts: who pays, who makes blocks
  GenesisBalances,
  ExistentialDeposit,    \* an account with less than this does not exist
  BaseFee,               \* TransactionBaseFee, with the fee per byte
  WeightFeeCoefficient,
  Weights,               \* the weights of transactions
  MaxWeight,             \* MaximumBlockWeight
  AvailableWeight,       \* the part of it transactions may use
  TargetWeight,          \* TargetBlockFullness of it
  One,                   \* 10^9, the unit of Fixed64
  V, HalfVSquared,       \* 0.00004, and half its square, in that unit
  MaxFixed,              \* the largest Fixed64, where it saturates
  MaxVote,               \* u64::max_value()
  Rewards                \* what staking mints

ASSUME PartiesAssumption == Accounts = Payers \cup Validators \cup {Treasury}
ASSUME WeightAssumption ==
  /\ Weights \subseteq Nat \ {0} /\ {TargetWeight, AvailableWeight, MaxWeight} \subseteq Nat \ {0}
  /\ TargetWeight < AvailableWeight /\ AvailableWeight <= MaxWeight
ASSUME UnitAssumption ==
  /\ {One, MaxVote} \subseteq Nat \ {0}
  /\ {V, HalfVSquared, MaxFixed} \subseteq Nat /\ HalfVSquared <= V
ASSUME AmountAssumption ==
  /\ {BaseFee, WeightFeeCoefficient, ExistentialDeposit} \subseteq Nat /\ Rewards \subseteq Nat
  /\ GenesisBalances \in [Accounts -> Nat]

VARIABLES
  balances,     \* the free balances
  issuance,     \* Balances::total_issuance
  author,       \* Authorship::author of the block being built
  weight,       \* System::all_extrinsics_weight
  multiplier    \* NextFeeMultiplier, in the unit of Fixed64

vars == <<balances, issuance, author, weight, multiplier>>

InAll(b) == SumFunction(b)

Init ==
  /\ balances = GenesisBalances /\ issuance = InAll(GenesisBalances)
  /\ author \in Validators
  /\ weight = 0 /\ multiplier = 0

-----------------------------------------------------------------------------
\* LinearWeightToFee.
WeightToFee(w) == w * WeightFeeCoefficient

\* What the payment pallet takes for a transaction: its weight fee and that times
\* the multiplier, which may be negative.
Fee(w) ==
  LET change == (WeightToFee(w) * (IF multiplier < 0 THEN 0 - multiplier ELSE multiplier)) \div One
  IN  BaseFee + WeightToFee(w) + (IF multiplier < 0 THEN 0 - change ELSE change)

\* Mutant: the author's part is rounded down as well.
AuthorsPartRounded(fee) == fee \div 5

\* DealWithFees: 80% to the treasury, the rest to the author.
TreasurysPart(fee) == (fee * 4) \div 5
AuthorsPart(fee) == fee - TreasurysPart(fee)

\* resolve_creating: an account that would not exist with the amount gets nothing,
\* and the amount is burnt.
Refused(b, who, amount) == b[who] = 0 /\ amount < ExistentialDeposit
Given(b, who, amount) == IF Refused(b, who, amount) THEN b ELSE [b EXCEPT ![who] = @ + amount]
Burnt(b, who, amount) == IF Refused(b, who, amount) THEN amount ELSE 0

\* A transaction is applied: the payer keeps at least the existential deposit.
Transact(payer, w) ==
  LET fee == Fee(w)
      paid == [balances EXCEPT ![payer] = @ - fee]
      taxed == Given(paid, Treasury, TreasurysPart(fee))
  IN
  /\ weight + w <= AvailableWeight
  /\ balances[payer] >= fee + ExistentialDeposit
  /\ balances' = Given(taxed, author, AuthorsPart(fee))
  /\ issuance' = issuance - Burnt(paid, Treasury, TreasurysPart(fee))
                         - Burnt(taxed, author, AuthorsPart(fee))
  /\ weight' = weight + w
  /\ UNCHANGED <<author, multiplier>>

\* Staking pays a validator out of nothing.
Reward(who, amount) ==
  /\ issuance + amount <= MaxBalance
  /\ balances' = Given(balances, who, amount)
  /\ issuance' = issuance + (amount - Burnt(balances, who, amount))
  /\ UNCHANGED <<author, weight, multiplier>>

-----------------------------------------------------------------------------
\* Fixed64: the parts are multiplied and cut to the unit, and sums saturate.
Times(a, b) == (a * b) \div One
AtMostMax(n) == IF n > MaxFixed THEN MaxFixed ELSE n

\* Mutant: a block counts as full when nothing more fits into it.
FullOnly == weight >= AvailableWeight

Positive == weight >= TargetWeight
Diff ==
  ((IF weight >= TargetWeight THEN weight - TargetWeight ELSE TargetWeight - weight) * One)
    \div MaxWeight

\* Mutant: v is squared in the first term too.
SquaredTerm == Times(Times(V, V), Diff)

FirstTerm == Times(V, Diff)
SecondTerm == Times(HalfVSquared, Times(Diff, Diff))

Floored(n) == IF n < -One THEN -One ELSE n

\* TargetedFeeAdjustment.
Adjusted ==
  IF Positive THEN AtMostMax(multiplier + AtMostMax(FirstTerm + SecondTerm))
  ELSE Floored(multiplier - (FirstTerm - SecondTerm))

\* The block ends, and another author begins the next.
EndBlock ==
  /\ multiplier' = Adjusted
  /\ weight' = 0
  /\ author' \in Validators
  /\ UNCHANGED <<balances, issuance>>

Next ==
  \/ \E payer \in Payers, w \in Weights : Transact(payer, w)
  \/ \E who \in Validators, amount \in Rewards : Reward(who, amount)
  \/ EndBlock

\* Blocks are made whether anybody transacts or not.
Spec == Init /\ [][Next]_vars /\ WF_vars(EndBlock)

-----------------------------------------------------------------------------
\* Mutant: the factor is that of a 65-bit vote.
HalfFactor == LET f == issuance \div (2 * MaxVote) IN IF f = 0 THEN 1 ELSE f

\* CurrencyToVoteHandler: the factor that makes all of the issuance fit, and the
\* two conversions, of which the first keeps the low 64 bits.
Factor == LET f == issuance \div MaxVote IN IF f = 0 THEN 1 ELSE f
ToVote(x) == (x \div Factor) % (MaxVote + 1)
FromVote(v) == v * Factor

-----------------------------------------------------------------------------
(***************************************************************************)
(* Properties                                                              *)
(***************************************************************************)

\* Every unit of a fee is the treasury's, the author's, or burnt for want of an
\* account: the balances add up to the issuance, whatever the split rounds.
FeesAreAccounted == InAll(balances) = issuance

\* Transactions get dearer only after a block above its target, and cheaper only
\* after one below: the second term never outweighs the first. The multiplier ends at
\* -1, where there is no weight fee; below, they would be paid for being included.
PriceFollowsLoad ==
  [][/\ multiplier' > multiplier => weight > TargetWeight
     /\ multiplier' < multiplier => weight < TargetWeight
     /\ multiplier' >= -One]_vars

\* When nobody transacts any more, transactions get free of weight fees in the end.
EmptyChainGetsFree == <>[](weight = 0) => <>(multiplier = -One)

\* Staking's votes say what an account holds: as long as nobody has more than half of
\* all there is, no balance is too large for the votes of 64 bits, and turning its
\* votes back into a balance loses less than one vote. (Between one and two times
\* 2^64 the factor is 1, and the votes of a larger holder wrap.)
MinorityVotesFit ==
  \A a \in Accounts :
    2 * balances[a] <= issuance =>
      balances[a] - FromVote(ToVote(balances[a])) \in 0..(Factor - 1)
=============================================================================
