----------------------------- MODULE FeesProofs -----------------------------
(***************************************************************************)
(* The fees and the votes of the runtime, for any accounts, fees, weights, *)
(* targets, rewards and width of a vote: no unit of a fee is lost however  *)
(* the split rounds, fees follow the load, and votes say what is held.     *)
(***************************************************************************)
EXTENDS Fees, BalancesProofs

\* No balance is negative; the multiplier stays between -1, which is what keeps fees
\* from being negative, and where it saturates.
FeesTyped ==
  /\ balances \in [Accounts -> Nat]
  /\ author \in Validators
  /\ weight \in 0..AvailableWeight
  /\ multiplier \in (-One)..MaxFixed

\* The inductive invariant.
FeesInv == FeesTyped /\ FeesAreAccounted

-----------------------------------------------------------------------------
\* A fraction of at most one makes nothing larger.
LEMMA PartAtMostWhole ==
  ASSUME NEW n \in Nat, NEW part \in Nat, NEW whole \in Nat, whole > 0, part <= whole
  PROVE  (n * part) \div whole \in 0..n
<1> DEFINE m == n * part
           q == m \div whole
<1>1. m \in Nat /\ m <= n * whole
  OBVIOUS
<1>2. q \in Nat /\ q * whole <= m
  <2> HIDE DEF m
  <2> QED
    BY <1>1
<1>3. ASSUME q > n PROVE FALSE
  <2>1. q * whole >= (n + 1) * whole /\ (n + 1) * whole = n * whole + whole
    BY <1>2, <1>3
  <2> DEFINE a == q * whole
             b == n * whole
  <2>2. a \in Nat /\ b \in Nat /\ a <= m /\ m <= b /\ a >= b + whole
    BY <1>1, <1>2, <2>1
  <2> HIDE DEF a, b, m, q
  <2> QED
    BY <1>1, <2>2
<1> QED
  BY <1>2, <1>3

\* More divided by the same is no less.
LEMMA DivMonotone ==
  ASSUME NEW m \in Nat, NEW n \in Nat, m <= n, NEW d \in Nat, d > 0
  PROVE  m \div d \in Nat /\ n \div d \in Nat /\ m \div d <= n \div d
OBVIOUS

\* A fee is never negative: a multiplier of at least -1 takes off no more than the
\* weight fee.
LEMMA FeeType ==
  ASSUME FeesTyped, NEW w \in Weights
  PROVE  Fee(w) \in Nat
<1> DEFINE m == IF multiplier < 0 THEN 0 - multiplier ELSE multiplier
           change == (WeightToFee(w) * m) \div One
<1>1. One \in Nat /\ One > 0 /\ BaseFee \in Nat /\ multiplier \in Int /\ multiplier >= -One
  BY UnitAssumption, AmountAssumption DEF FeesTyped
<1>2. WeightToFee(w) \in Nat
  BY WeightAssumption, AmountAssumption DEF WeightToFee
<1>3. m \in Nat /\ (multiplier < 0 => m <= One)
  BY <1>1
<1>4. change \in Nat
  <2> DEFINE p == WeightToFee(w) * m
  <2>1. p \in Nat
    BY <1>2, <1>3
  <2> HIDE DEF p
  <2>2. p \div One \in Nat
    BY <1>1, <2>1
  <2> QED
    BY <2>2 DEF p
<1>5. multiplier < 0 => change <= WeightToFee(w)
  <2> SUFFICES ASSUME multiplier < 0 PROVE change \in 0..WeightToFee(w)
    BY <1>2
  <2> HIDE DEF m
  <2> QED
    BY <1>1, <1>2, <1>3, PartAtMostWhole
<1>6. Fee(w) = BaseFee + WeightToFee(w) + (IF multiplier < 0 THEN 0 - change ELSE change)
  BY DEF Fee
<1> HIDE DEF m, change
<1> QED
  BY <1>1, <1>2, <1>4, <1>5, <1>6

\* What is given arrives or is burnt.
LEMMA GivenFacts ==
  ASSUME NEW b \in [Accounts -> Nat], NEW who \in Accounts, NEW amount \in Nat
  PROVE  /\ Given(b, who, amount) \in [Accounts -> Nat]
         /\ Burnt(b, who, amount) \in Nat
         /\ InAll(b) \in Nat
         /\ InAll(Given(b, who, amount)) = InAll(b) + amount - Burnt(b, who, amount)
<1>1. InAll(b) \in Nat
  BY SumFunctionNat, AccountsAssumption DEF InAll
<1>2. CASE Refused(b, who, amount)
  BY <1>1, <1>2 DEF Given, Burnt
<1>3. CASE ~Refused(b, who, amount)
  <2> DEFINE g == [b EXCEPT ![who] = @ + amount]
  <2>1. Given(b, who, amount) = g /\ Burnt(b, who, amount) = 0
    BY <1>3 DEF Given, Burnt
  <2>2. g \in [Accounts -> Nat] /\ g[who] = b[who] + amount
        /\ \A a \in Accounts \ {who} : g[a] = b[a]
    OBVIOUS
  <2> HIDE DEF g
  <2>3. SumFunction(g) = SumFunction(b) - b[who] + g[who]
    BY <2>2, SumFunctionChange, AccountsAssumption
  <2> QED
    BY <1>1, <2>1, <2>2, <2>3 DEF InAll
<1> QED
  BY <1>2, <1>3

\* What is paid is missing in all.
LEMMA PaidFacts ==
  ASSUME NEW b \in [Accounts -> Nat], NEW who \in Accounts, NEW fee \in Nat, fee <= b[who]
  PROVE  LET paid == [b EXCEPT ![who] = @ - fee]
         IN  paid \in [Accounts -> Nat] /\ InAll(paid) = InAll(b) - fee /\ InAll(b) \in Nat
<1> DEFINE paid == [b EXCEPT ![who] = @ - fee]
<1>1. paid \in [Accounts -> Nat] /\ paid[who] = b[who] - fee
      /\ \A a \in Accounts \ {who} : paid[a] = b[a]
  OBVIOUS
<1>2. InAll(b) \in Nat
  BY SumFunctionNat, AccountsAssumption DEF InAll
<1> HIDE DEF paid
<1>3. SumFunction(paid) = SumFunction(b) - b[who] + paid[who]
  BY <1>1, SumFunctionChange, AccountsAssumption
<1>4. paid \in [Accounts -> Nat] /\ InAll(paid) = InAll(b) - fee
  BY <1>1, <1>2, <1>3 DEF InAll
<1> QED
  BY <1>2, <1>4 DEF paid

-----------------------------------------------------------------------------
\* The second term never outweighs the first: the deviation from the target is at
\* most one, so its square is no larger, and is weighed with the smaller factor.
LEMMA TermFacts ==
  ASSUME FeesTyped
  PROVE  /\ FirstTerm \in Nat /\ SecondTerm \in Nat /\ SecondTerm <= FirstTerm
         /\ weight = TargetWeight => FirstTerm = 0 /\ SecondTerm = 0
<1> DEFINE far == IF weight >= TargetWeight THEN weight - TargetWeight ELSE TargetWeight - weight
           square == Times(Diff, Diff)
<1>1. /\ One \in Nat /\ One > 0 /\ V \in Nat /\ HalfVSquared \in Nat /\ HalfVSquared <= V
      /\ MaxWeight \in Nat /\ MaxWeight > 0
  BY UnitAssumption, WeightAssumption
<1>2. far \in Nat /\ far <= MaxWeight
  BY WeightAssumption DEF FeesTyped
<1>3. Diff = (far * One) \div MaxWeight
  BY DEF Diff
<1> HIDE DEF far
<1>4. Diff \in 0..One
  <2>1. far * One = One * far
    BY <1>1, <1>2
  <2>2. (One * far) \div MaxWeight \in 0..One
    BY <1>1, <1>2, PartAtMostWhole
  <2> QED
    BY <1>3, <2>1, <2>2
<1>5. Diff \in Nat /\ Diff <= One
  BY <1>1, <1>4
<1>6. square \in Nat /\ square <= Diff
  <2>1. (Diff * Diff) \div One \in 0..Diff
    BY <1>1, <1>5, PartAtMostWhole
  <2> QED
    BY <1>5, <2>1 DEF Times
<1> HIDE DEF square
<1>7. HalfVSquared * square \in Nat /\ V * Diff \in Nat /\ HalfVSquared * square <= V * Diff
  <2>1. HalfVSquared * square <= HalfVSquared * Diff
    BY <1>1, <1>5, <1>6
  <2>2. HalfVSquared * Diff <= V * Diff
    BY <1>1, <1>5
  <2>3. HalfVSquared * square \in Nat /\ HalfVSquared * Diff \in Nat /\ V * Diff \in Nat
    BY <1>1, <1>5, <1>6
  <2> QED
    BY <2>1, <2>2, <2>3
<1>8. FirstTerm = (V * Diff) \div One /\ SecondTerm = (HalfVSquared * square) \div One
  BY DEF FirstTerm, SecondTerm, Times, square
<1>9. FirstTerm \in Nat /\ SecondTerm \in Nat /\ SecondTerm <= FirstTerm
  BY <1>1, <1>7, <1>8, DivMonotone
<1>10. ASSUME weight = TargetWeight PROVE FirstTerm = 0 /\ SecondTerm = 0
  <2>1. far = 0
    BY <1>10, WeightAssumption DEF far
  <2>2. far * One = 0
    BY <1>1, <2>1
  <2>3. Diff = 0
    BY <1>1, <1>3, <2>2
  <2>4. V * Diff = 0
    BY <1>1, <2>3
  <2>5. FirstTerm = 0
    BY <1>1, <1>8, <2>4
  <2> QED
    BY <1>9, <2>5
<1> QED
  BY <1>9, <1>10

\* Where the multiplier goes at the end of a block.
LEMMA AdjustedFacts ==
  ASSUME FeesTyped
  PROVE  /\ Adjusted \in (-One)..MaxFixed
         /\ Adjusted > multiplier => weight > TargetWeight
         /\ Adjusted < multiplier => weight < TargetWeight
<1>1. /\ One \in Nat /\ MaxFixed \in Nat /\ multiplier \in Int
      /\ multiplier >= -One /\ multiplier <= MaxFixed
  BY UnitAssumption DEF FeesTyped
<1>2. weight \in Nat /\ TargetWeight \in Nat
  BY WeightAssumption DEF FeesTyped
<1>3. /\ FirstTerm \in Nat /\ SecondTerm \in Nat /\ SecondTerm <= FirstTerm
      /\ weight = TargetWeight => FirstTerm = 0 /\ SecondTerm = 0
  BY TermFacts
<1>4. CASE weight >= TargetWeight
  <2>1. Adjusted = AtMostMax(multiplier + AtMostMax(FirstTerm + SecondTerm))
    BY <1>4 DEF Adjusted, Positive
  <2> DEFINE excess == AtMostMax(FirstTerm + SecondTerm)
  <2>2. excess \in Nat /\ (weight = TargetWeight => excess = 0)
    BY <1>1, <1>3 DEF AtMostMax
  <2> HIDE DEF excess
  <2>3. /\ AtMostMax(multiplier + excess) \in (-One)..MaxFixed
        /\ AtMostMax(multiplier + excess) >= multiplier
        /\ excess = 0 => AtMostMax(multiplier + excess) = multiplier
    BY <1>1, <2>2 DEF AtMostMax
  <2>4. Adjusted = AtMostMax(multiplier + excess)
    BY <2>1 DEF excess
  <2> QED
    BY <1>1, <1>2, <1>4, <2>2, <2>3, <2>4
<1>5. CASE weight < TargetWeight
  <2>1. Adjusted = Floored(multiplier - (FirstTerm - SecondTerm))
    BY <1>2, <1>5 DEF Adjusted, Positive
  <2>2. Adjusted \in (-One)..MaxFixed /\ Adjusted <= multiplier
    BY <1>1, <1>3, <2>1 DEF Floored
  <2> QED
    BY <1>1, <1>5, <2>2
<1> QED
  BY <1>2, <1>4, <1>5

-----------------------------------------------------------------------------
\* A transaction: what the payer pays is the treasury's, the author's, or burnt.
LEMMA TransactKeeps ==
  ASSUME FeesInv, NEW payer \in Payers, NEW w \in Weights, Transact(payer, w)
  PROVE  FeesInv'
<1> DEFINE fee == Fee(w)
           first == TreasurysPart(fee)
           second == AuthorsPart(fee)
           paid == [balances EXCEPT ![payer] = @ - fee]
           taxed == Given(paid, Treasury, first)
<1>1. FeesTyped /\ InAll(balances) = issuance
  BY DEF FeesInv, FeesAreAccounted
<1>2. balances \in [Accounts -> Nat] /\ author \in Validators
  BY <1>1 DEF FeesTyped
<1>3. payer \in Accounts /\ Treasury \in Accounts /\ author \in Accounts
  BY <1>2, PartiesAssumption
<1>4. fee \in Nat
  BY <1>1, FeeType
<1>5. first \in Nat /\ second \in Nat /\ first + second = fee
  <2> HIDE DEF fee
  <2> QED
    BY <1>4 DEF TreasurysPart, AuthorsPart
<1>6. fee <= balances[payer]
  <2>1. balances[payer] >= fee + ExistentialDeposit
    BY DEF Transact
  <2>2. balances[payer] \in Nat /\ ExistentialDeposit \in Nat
    BY <1>2, <1>3, AmountAssumption
  <2> HIDE DEF fee
  <2> QED
    BY <1>4, <2>1, <2>2
<1>7. /\ balances' = Given(taxed, author, second)
      /\ issuance' = issuance - Burnt(paid, Treasury, first) - Burnt(taxed, author, second)
      /\ weight' = weight + w /\ weight + w <= AvailableWeight
      /\ UNCHANGED <<author, multiplier>>
  BY DEF Transact
<1> HIDE DEF fee, first, second
<1>8. paid \in [Accounts -> Nat] /\ InAll(paid) = InAll(balances) - fee /\ InAll(balances) \in Nat
  BY <1>2, <1>3, <1>4, <1>6, PaidFacts
<1> HIDE DEF paid
<1>9. /\ taxed \in [Accounts -> Nat] /\ Burnt(paid, Treasury, first) \in Nat
      /\ InAll(taxed) = InAll(paid) + first - Burnt(paid, Treasury, first)
  BY <1>3, <1>5, <1>8, GivenFacts
<1>10. InAll(paid) \in Nat /\ InAll(taxed) \in Nat
  BY <1>3, <1>5, <1>8, <1>9, GivenFacts
<1> HIDE DEF taxed
<1>11. /\ Given(taxed, author, second) \in [Accounts -> Nat]
       /\ Burnt(taxed, author, second) \in Nat
       /\ InAll(Given(taxed, author, second)) = InAll(taxed) + second - Burnt(taxed, author, second)
  BY <1>3, <1>5, <1>9, GivenFacts
<1>12. InAll(balances') = issuance'
  <2>1. InAll(balances') = InAll(taxed) + second - Burnt(taxed, author, second)
    BY <1>7, <1>11
  <2> QED
    BY <1>1, <1>4, <1>5, <1>7, <1>8, <1>9, <1>10, <1>11, <2>1
<1>13. weight' \in 0..AvailableWeight
  <2>1. weight \in Nat /\ w \in Nat /\ AvailableWeight \in Nat
    BY <1>1, WeightAssumption DEF FeesTyped
  <2> QED
    BY <1>7, <2>1
<1>14. FeesTyped'
  BY <1>1, <1>7, <1>11, <1>13 DEF FeesTyped
<1> QED
  BY <1>12, <1>14 DEF FeesInv, FeesAreAccounted, InAll

\* A reward: what arrives is issued.
LEMMA RewardKeeps ==
  ASSUME FeesInv, NEW who \in Validators, NEW amount \in Rewards, Reward(who, amount)
  PROVE  FeesInv'
<1>1. FeesTyped /\ InAll(balances) = issuance
  BY DEF FeesInv, FeesAreAccounted
<1>2. balances \in [Accounts -> Nat] /\ who \in Accounts /\ amount \in Nat
  BY <1>1, PartiesAssumption, AmountAssumption DEF FeesTyped
<1>3. /\ Given(balances, who, amount) \in [Accounts -> Nat]
      /\ Burnt(balances, who, amount) \in Nat /\ InAll(balances) \in Nat
      /\ InAll(Given(balances, who, amount)) = InAll(balances) + amount - Burnt(balances, who, amount)
  BY <1>2, GivenFacts
<1>4. /\ balances' = Given(balances, who, amount)
      /\ issuance' = issuance + (amount - Burnt(balances, who, amount))
      /\ UNCHANGED <<author, weight, multiplier>>
  BY DEF Reward
<1>5. InAll(balances') = InAll(balances) + amount - Burnt(balances, who, amount)
  BY <1>3, <1>4
<1>6. InAll(balances') = issuance'
  BY <1>1, <1>2, <1>3, <1>4, <1>5
<1>7. FeesTyped'
  BY <1>1, <1>3, <1>4 DEF FeesTyped
<1> QED
  BY <1>6, <1>7 DEF FeesInv, FeesAreAccounted, InAll

\* The genesis, transactions, rewards and ends of blocks.
LEMMA FeesInitially == Init => FeesInv
<1> SUFFICES ASSUME Init PROVE FeesInv
  OBVIOUS
<1>1. FeesTyped
  BY UnitAssumption, AmountAssumption, WeightAssumption DEF Init, FeesTyped
<1> QED
  BY <1>1 DEF Init, FeesInv, FeesAreAccounted

LEMMA FeesInductive == FeesInv /\ [Next]_vars => FeesInv'
<1> SUFFICES ASSUME FeesInv, [Next]_vars PROVE FeesInv'
  OBVIOUS
<1>1. ASSUME NEW payer \in Payers, NEW w \in Weights, Transact(payer, w) PROVE FeesInv'
  BY <1>1, TransactKeeps
<1>2. ASSUME NEW who \in Validators, NEW amount \in Rewards, Reward(who, amount) PROVE FeesInv'
  BY <1>2, RewardKeeps
<1>3. CASE EndBlock
  <2>1. FeesTyped /\ FeesAreAccounted
    BY DEF FeesInv
  <2>2. Adjusted \in (-One)..MaxFixed
    BY <2>1, AdjustedFacts
  <2>3. multiplier' = Adjusted /\ weight' = 0 /\ author' \in Validators
        /\ UNCHANGED <<balances, issuance>>
    BY <1>3 DEF EndBlock
  <2>4. 0 \in 0..AvailableWeight
    BY WeightAssumption
  <2>5. FeesTyped'
    BY <2>1, <2>2, <2>3, <2>4 DEF FeesTyped
  <2> QED
    BY <2>1, <2>3, <2>5 DEF FeesInv, FeesAreAccounted, InAll
<1>4. CASE UNCHANGED vars
  BY <1>4 DEF FeesInv, FeesTyped, FeesAreAccounted, InAll, vars
<1> QED
  BY <1>1, <1>2, <1>3, <1>4 DEF Next

-----------------------------------------------------------------------------
\* With the factor that the issuance gives, a half of what there is fits into the votes:
\* if it is one, the issuance is less than the votes have; otherwise it is less than
\* twice the factor times what they have.
LEMMA HalfFits ==
  ASSUME NEW total \in Nat, NEW x \in Nat, 2 * x <= total, NEW f \in Nat,
         f = total \div MaxVote
  PROVE  LET factor == IF f = 0 THEN 1 ELSE f
         IN  /\ x \div factor \in 0..MaxVote
             /\ x - (x \div factor) * factor \in 0..(factor - 1)
<1>1. MaxVote \in Nat /\ MaxVote > 0
  BY UnitAssumption
<1>2. total < f * MaxVote + MaxVote
  <2>1. total < (f + 1) * MaxVote /\ (f + 1) * MaxVote = f * MaxVote + MaxVote
    BY <1>1
  <2> QED
    BY <2>1
<1>3. CASE f = 0
  BY <1>1, <1>2, <1>3
<1>4. CASE f # 0
  <2> DEFINE q == x \div f
             m == f * MaxVote
  <2>1. f > 0 /\ m \in Nat /\ MaxVote <= m
    BY <1>1, <1>4
  <2>2. q \in Nat /\ q * f <= x /\ x < q * f + f
    BY <2>1
  <2>3. x < m
    <3>1. total < m + MaxVote
      BY <1>2
    <3> HIDE DEF m
    <3> QED
      BY <1>1, <2>1, <3>1
  <2>4. ASSUME q > MaxVote PROVE FALSE
    <3>1. q * f >= (MaxVote + 1) * f /\ (MaxVote + 1) * f = m + f
      BY <1>1, <2>1, <2>2, <2>4
    <3> DEFINE p == q * f
    <3>2. p \in Nat
      BY <2>1, <2>2
    <3> HIDE DEF p, m, q
    <3> QED
      BY <2>1, <2>2, <2>3, <3>1, <3>2 DEF p
  <2>5. q \in 0..MaxVote
    <3> HIDE DEF q
    <3> QED
      BY <1>1, <2>2, <2>4
  <2>6. x - q * f \in 0..(f - 1)
    <3> DEFINE p == q * f
    <3>1. p \in Nat
      BY <2>1, <2>2
    <3> HIDE DEF p
    <3> QED
      BY <2>1, <2>2, <3>1 DEF p
  <2> QED
    BY <1>4, <2>5, <2>6
<1> QED
  BY <1>3, <1>4

-----------------------------------------------------------------------------
\* Every unit of a fee and of a reward is accounted for, however the split rounds and
\* whichever account does not exist yet.
THEOREM NoFeeIsLost == Spec => []FeesAreAccounted
<1>1. Init => FeesInv
  BY FeesInitially
<1>2. FeesInv /\ [Next]_vars => FeesInv'
  BY FeesInductive
<1>3. FeesInv => FeesAreAccounted
  BY DEF FeesInv
<1> QED
  BY <1>1, <1>2, <1>3, PTL DEF Spec

\* Whoever has at most half of what there is has votes that do not wrap and say what they
\* hold, to less than one vote.
THEOREM VotesFit == Spec => []MinorityVotesFit
<1>1. Init => FeesInv
  BY FeesInitially
<1>2. FeesInv /\ [Next]_vars => FeesInv'
  BY FeesInductive
<1>3. FeesInv => MinorityVotesFit
  <2> SUFFICES ASSUME FeesInv, NEW a \in Accounts, 2 * balances[a] <= issuance
               PROVE  balances[a] - FromVote(ToVote(balances[a])) \in 0..(Factor - 1)
    BY DEF MinorityVotesFit
  <2> DEFINE f == issuance \div MaxVote
             x == balances[a]
  <2>1. balances \in [Accounts -> Nat] /\ issuance = InAll(balances)
    BY DEF FeesInv, FeesTyped, FeesAreAccounted
  <2>2. x \in Nat
    BY <2>1
  <2>3. issuance \in Nat
    BY <2>1, SumFunctionNat, AccountsAssumption DEF InAll
  <2>4. MaxVote \in Nat /\ MaxVote > 0
    BY UnitAssumption
  <2>5. f \in Nat
    BY <2>3, <2>4
  <2>6. Factor = (IF f = 0 THEN 1 ELSE f)
    BY DEF Factor
  <2> HIDE DEF f, x
  <2>7. x \div Factor \in 0..MaxVote /\ x - (x \div Factor) * Factor \in 0..(Factor - 1)
    BY <2>2, <2>3, <2>5, <2>6, HalfFits DEF f, x
  <2>8. ToVote(x) = x \div Factor
    <3> DEFINE q == x \div Factor
    <3>1. q \in Nat /\ q < MaxVote + 1
      BY <2>4, <2>7
    <3> HIDE DEF q
    <3>2. q % (MaxVote + 1) = q
      BY <2>4, <3>1
    <3> QED
      BY <3>2 DEF ToVote, q
  <2> QED
    BY <2>7, <2>8 DEF FromVote, x
<1> QED
  BY <1>1, <1>2, <1>3, PTL DEF Spec

\* Transactions get dearer only after a block above its target and cheaper only after one
\* below, and are never paid for.
THEOREM FeesFollowLoad == Spec => PriceFollowsLoad
<1> DEFINE Follows ==
      /\ multiplier' > multiplier => weight > TargetWeight
      /\ multiplier' < multiplier => weight < TargetWeight
      /\ multiplier' >= -One
<1>1. Init => FeesInv
  BY FeesInitially
<1>2. FeesInv /\ [Next]_vars => FeesInv'
  BY FeesInductive
<1>3. FeesInv /\ [Next]_vars => [Follows]_vars
  <2> SUFFICES ASSUME FeesInv, Next PROVE Follows
    OBVIOUS
  <2>1. FeesTyped /\ multiplier \in Int /\ multiplier >= -One
    BY UnitAssumption DEF FeesInv, FeesTyped
  <2>2. CASE multiplier' = multiplier
    BY <2>1, <2>2
  <2>3. CASE EndBlock
    <3>1. multiplier' = Adjusted
      BY <2>3 DEF EndBlock
    <3>2. /\ Adjusted \in (-One)..MaxFixed
          /\ Adjusted > multiplier => weight > TargetWeight
          /\ Adjusted < multiplier => weight < TargetWeight
      BY <2>1, AdjustedFacts
    <3>3. Adjusted >= -One
      BY <3>2, UnitAssumption
    <3> QED
      BY <3>1, <3>2, <3>3
  <2> QED
    BY <2>2, <2>3 DEF Next, Transact, Reward
<1> QED
  BY <1>1, <1>2, <1>3, PTL DEF Spec, PriceFollowsLoad
=============================================================================
