-------------------------- MODULE DepositLoanProofs --------------------------
(***************************************************************************)
(* Proofs about the money pool of DepositLoan, for any accounts, assets,   *)
(* amounts, prices and settings. First the book: the storage keeps its     *)
(* types, the views of the loan book agree, a liquidation sticks, and the  *)
(* totals cover the running loans as long as no addition to them wraps.    *)
(* Then the money: no transfer wraps or makes money, a dtoken stays worth  *)
(* one unit, savers and borrowers are covered, and no user loses anything  *)
(* the book does not account for.                                          *)
(***************************************************************************)
EXTENDS DepositLoan, BalancesProofs

\* InOrder lists every element of its set once.
LEMMA InOrderFacts ==
  ASSUME NEW S \in SUBSET Int, IsFiniteSet(S)
  PROVE  /\ Cardinality(S) \in Nat
         /\ InOrder(S) \in [1..Cardinality(S) -> S]
         /\ \A j, k \in 1..Cardinality(S) : InOrder(S)[j] = InOrder(S)[k] => j = k
         /\ \A x \in S : \E k \in 1..Cardinality(S) : InOrder(S)[k] = x
<1> DEFINE n == Cardinality(S)
           upto(x) == {y \in S : y <= x}
           rank == [x \in S |-> Cardinality(upto(x))]
<1>1. n \in Nat /\ IsFiniteSet(1..n) /\ Cardinality(1..n) = n
  BY FS_CardinalityType, FS_Interval
<1>2. \A x \in S : IsFiniteSet(upto(x)) /\ Cardinality(upto(x)) \in Nat /\ Cardinality(upto(x)) <= n
  BY FS_Subset, FS_CardinalityType
<1>3. ASSUME NEW x \in S, NEW z \in S, x < z
      PROVE  Cardinality(upto(x)) < Cardinality(upto(z))
  <2>1. upto(x) \subseteq upto(z) /\ upto(x) # upto(z)
    <3>1. z \in upto(z) /\ z \notin upto(x)
      BY <1>3
    <3>2. ASSUME NEW y \in upto(x) PROVE y \in upto(z)
      BY <1>3
    <3> QED
      BY <3>1, <3>2
  <2> QED
    BY <1>2, <2>1, FS_Subset
<1>4. rank \in [S -> 1..n]
  <2>1. ASSUME NEW x \in S PROVE Cardinality(upto(x)) \in 1..n
    <3>1. upto(x) # {}
      OBVIOUS
    <3> DEFINE c == Cardinality(upto(x))
    <3>2. c # 0
      BY <1>2, <3>1, FS_EmptySet
    <3>3. c \in Nat /\ c <= n
      BY <1>2
    <3> HIDE DEF c, n
    <3>4. c \in 1..n
      BY <1>1, <3>2, <3>3
    <3> QED
      BY <3>4 DEF c
  <2> QED
    BY <2>1
<1>5. \A x, z \in S : rank[x] = rank[z] => x = z
  <2> SUFFICES ASSUME NEW x \in S, NEW z \in S, x # z PROVE rank[x] # rank[z]
    OBVIOUS
  <2>1. x < z \/ z < x
    OBVIOUS
  <2>2. rank[x] = Cardinality(upto(x)) /\ rank[z] = Cardinality(upto(z))
    OBVIOUS
  <2> QED
    BY <1>2, <1>3, <2>1, <2>2
<1>6. rank \in Injection(S, 1..n)
  <2> HIDE DEF rank
  <2> QED
    BY <1>4, <1>5 DEF Injection, IsInjective
<1>7. rank \in Surjection(S, 1..n)
  <2> HIDE DEF rank
  <2> QED
    BY <1>1, <1>6, FS_Injection
<1>8. \A k \in 1..n : \E x \in S : rank[x] = k
  <2> HIDE DEF rank
  <2> QED
    BY <1>7 DEF Surjection
<1>9. \A k \in 1..n : InOrder(S)[k] \in S /\ rank[InOrder(S)[k]] = k
  <2> TAKE k \in 1..n
  <2>1. InOrder(S)[k] = CHOOSE x \in S : Cardinality({y \in S : y <= x}) = k
    BY DEF InOrder
  <2>2. PICK x \in S : Cardinality({y \in S : y <= x}) = k
    BY <1>8
  <2>3. InOrder(S)[k] \in S /\ Cardinality({y \in S : y <= InOrder(S)[k]}) = k
    BY <2>1, <2>2
  <2> QED
    BY <2>3
<1>10. InOrder(S) \in [1..n -> S]
  <2> HIDE DEF n
  <2> QED
    BY <1>9 DEF InOrder, n
<1> HIDE DEF rank, n
<1>11. \A j, k \in 1..n : InOrder(S)[j] = InOrder(S)[k] => j = k
  BY <1>9
<1>12. ASSUME NEW x \in S PROVE \E k \in 1..n : InOrder(S)[k] = x
  <2>1. rank[x] \in 1..n
    BY <1>4
  <2> QED
    BY <1>5, <1>9, <2>1
<1> QED
  BY <1>1, <1>10, <1>11, <1>12 DEF n

-----------------------------------------------------------------------------
Elements(list) == {list[i] : i \in DOMAIN list}

\* Filtering a list takes out the one element, and repeats nothing.
LEMMA FilterFacts ==
  ASSUME NEW T, NEW list \in Seq(T), NEW id
  PROVE  /\ WithoutId(list, id) \in Seq(T)
         /\ Elements(WithoutId(list, id)) = Elements(list) \ {id}
         /\ NoRepeats(list) => NoRepeats(WithoutId(list, id))
<1> DEFINE S == {i \in DOMAIN list : list[i] # id}
           n == Cardinality(S)
           kept == InOrder(S)
           new == WithoutId(list, id)
<1>1. DOMAIN list = 1..Len(list) /\ Len(list) \in Nat /\ \A i \in 1..Len(list) : list[i] \in T
  OBVIOUS
<1>2. S \in SUBSET Int /\ IsFiniteSet(S)
  <2>1. S \subseteq 1..Len(list) /\ IsFiniteSet(1..Len(list))
    BY <1>1, FS_Interval
  <2> QED
    BY <1>1, <2>1, FS_Subset
<1>3. /\ n \in Nat /\ kept \in [1..n -> S]
      /\ \A j, k \in 1..n : kept[j] = kept[k] => j = k
      /\ \A x \in S : \E k \in 1..n : kept[k] = x
  <2> HIDE DEF S
  <2> QED
    BY <1>2, InOrderFacts
<1>4. new = [k \in 1..n |-> list[kept[k]]]
  <2>1. new = [k \in DOMAIN kept |-> list[kept[k]]]
    BY DEF WithoutId
  <2> HIDE DEF new, kept, n
  <2> QED
    BY <1>3, <2>1
<1>5. \A i \in S : i \in 1..Len(list) /\ list[i] \in T /\ list[i] # id
  BY <1>1
<1>6. \A i \in 1..Len(list) : list[i] # id => i \in S
  BY <1>1
<1> HIDE DEF S, n, kept, new
<1>7. new \in Seq(T)
  <2>1. new \in [1..n -> T]
    BY <1>3, <1>4, <1>5
  <2>2. \A m \in Nat : \A f \in [1..m -> T] : f \in Seq(T)
    OBVIOUS
  <2> QED
    BY <1>3, <2>1, <2>2
<1>8. DOMAIN new = 1..n /\ \A k \in 1..n : new[k] = list[kept[k]]
  BY <1>4
<1>9. Elements(new) = Elements(list) \ {id}
  <2>1. ASSUME NEW e \in Elements(new) PROVE e \in Elements(list) \ {id}
    BY <1>1, <1>3, <1>5, <1>8 DEF Elements
  <2>2. ASSUME NEW e \in Elements(list) \ {id} PROVE e \in Elements(new)
    <3>1. PICK i \in 1..Len(list) : list[i] = e
      BY <1>1 DEF Elements
    <3>2. PICK k \in 1..n : kept[k] = i
      BY <1>3, <1>6, <3>1
    <3> QED
      BY <1>8, <3>1, <3>2 DEF Elements
  <2> QED
    BY <2>1, <2>2
<1>10. ASSUME NoRepeats(list) PROVE NoRepeats(new)
  <2> SUFFICES ASSUME NEW j \in 1..n, NEW k \in 1..n, new[j] = new[k] PROVE j = k
    BY <1>8 DEF NoRepeats
  <2>1. kept[j] \in DOMAIN list /\ kept[k] \in DOMAIN list /\ list[kept[j]] = list[kept[k]]
    BY <1>1, <1>3, <1>5, <1>8
  <2>2. kept[j] = kept[k]
    BY <1>10, <2>1 DEF NoRepeats
  <2> QED
    BY <1>3, <2>2
<1> QED
  BY <1>7, <1>9, <1>10 DEF new

\* The newest first: every element of the set once.
LEMMA NewestFirst ==
  ASSUME NEW S \in SUBSET Nat, IsFiniteSet(S)
  PROVE  /\ Reverse(InOrder(S)) \in Seq(Nat)
         /\ Elements(Reverse(InOrder(S))) = S
         /\ NoRepeats(Reverse(InOrder(S)))
<1> DEFINE n == Cardinality(S)
           list == InOrder(S)
           new == Reverse(InOrder(S))
<1>1. /\ n \in Nat /\ list \in [1..n -> S]
      /\ \A j, k \in 1..n : list[j] = list[k] => j = k
      /\ \A x \in S : \E k \in 1..n : list[k] = x
  BY InOrderFacts
<1> HIDE DEF n, list
<1>2. Len(list) = n
  BY <1>1
<1>3. new = [k \in 1..n |-> list[(n - k) + 1]]
  BY <1>2 DEF Reverse, list
<1> HIDE DEF new
<1>4. DOMAIN new = 1..n /\ \A k \in 1..n : (n - k) + 1 \in 1..n /\ new[k] = list[(n - k) + 1]
  BY <1>1, <1>3
<1>5. new \in Seq(Nat)
  <2>1. new \in [1..n -> Nat]
    BY <1>1, <1>3, <1>4
  <2>2. \A m \in Nat : \A f \in [1..m -> Nat] : f \in Seq(Nat)
    OBVIOUS
  <2> QED
    BY <1>1, <2>1, <2>2
<1>6. Elements(new) = S
  <2>1. ASSUME NEW e \in Elements(new) PROVE e \in S
    BY <1>1, <1>4 DEF Elements
  <2>2. ASSUME NEW e \in S PROVE e \in Elements(new)
    <3>1. PICK k \in 1..n : list[k] = e
      BY <1>1
    <3>2. (n - k) + 1 \in 1..n /\ (n - ((n - k) + 1)) + 1 = k
      BY <1>1
    <3>3. new[(n - k) + 1] = e
      BY <1>4, <3>1, <3>2
    <3> QED
      BY <1>4, <3>2, <3>3 DEF Elements
  <2> QED
    BY <2>1, <2>2
<1>7. NoRepeats(new)
  <2> SUFFICES ASSUME NEW j \in 1..n, NEW k \in 1..n, new[j] = new[k] PROVE j = k
    BY <1>4 DEF NoRepeats
  <2>1. (n - j) + 1 = (n - k) + 1
    BY <1>1, <1>4
  <2> QED
    BY <1>1, <2>1
<1> QED
  BY <1>5, <1>6, <1>7 DEF new

\* Appending to a list, and joining two.
LEMMA AppendFacts ==
  ASSUME NEW T, NEW list \in Seq(T), NEW e \in T
  PROVE  /\ Append(list, e) \in Seq(T)
         /\ Elements(Append(list, e)) = Elements(list) \cup {e}
         /\ NoRepeats(list) /\ e \notin Elements(list) => NoRepeats(Append(list, e))
<1> DEFINE n == Len(list)
           new == Append(list, e)
<1>1. n \in Nat /\ DOMAIN list = 1..n
  OBVIOUS
<1>2. /\ new \in Seq(T) /\ DOMAIN new = 1..(n + 1)
      /\ \A i \in 1..n : new[i] = list[i]
      /\ new[n + 1] = e
  OBVIOUS
<1> HIDE DEF n, new
<1>3. 1..(n + 1) = 1..n \cup {n + 1} /\ n + 1 \notin 1..n
  BY <1>1
<1>4. Elements(new) = Elements(list) \cup {e}
  BY <1>1, <1>2, <1>3 DEF Elements
<1>5. ASSUME NoRepeats(list), e \notin Elements(list)
      PROVE  NoRepeats(new)
  <2>1. \A i \in 1..n : list[i] # e
    BY <1>1, <1>5 DEF Elements
  <2>2. \A i, j \in 1..n : list[i] = list[j] => i = j
    BY <1>1, <1>5 DEF NoRepeats
  <2> QED
    BY <1>2, <1>3, <2>1, <2>2 DEF NoRepeats
<1> QED
  BY <1>2, <1>4, <1>5 DEF new

LEMMA JoinFacts ==
  ASSUME NEW T, NEW list \in Seq(T), NEW more \in Seq(T)
  PROVE  /\ list \o more \in Seq(T)
         /\ Elements(list \o more) = Elements(list) \cup Elements(more)
         /\ NoRepeats(list) /\ NoRepeats(more) /\ Elements(list) \cap Elements(more) = {}
              => NoRepeats(list \o more)
<1> DEFINE m == Len(list)
           n == Len(more)
           new == list \o more
<1>1. m \in Nat /\ n \in Nat /\ DOMAIN list = 1..m /\ DOMAIN more = 1..n
  OBVIOUS
<1>2. /\ new \in Seq(T) /\ DOMAIN new = 1..(m + n)
      /\ \A i \in 1..(m + n) : new[i] = IF i <= m THEN list[i] ELSE more[i - m]
  OBVIOUS
<1> HIDE DEF m, n, new
<1>3. Elements(new) = Elements(list) \cup Elements(more)
  <2>1. ASSUME NEW e \in Elements(new) PROVE e \in Elements(list) \cup Elements(more)
    <3>1. PICK i \in 1..(m + n) : new[i] = e
      BY <1>2 DEF Elements
    <3>2. i <= m => i \in 1..m
      BY <1>1
    <3>3. ~ (i <= m) => i - m \in 1..n
      BY <1>1
    <3> QED
      BY <1>1, <1>2, <3>1, <3>2, <3>3 DEF Elements
  <2>2. ASSUME NEW i \in 1..m PROVE list[i] \in Elements(new)
    BY <1>1, <1>2 DEF Elements
  <2>3. ASSUME NEW i \in 1..n PROVE more[i] \in Elements(new)
    <3>1. m + i \in 1..(m + n) /\ ~ (m + i <= m) /\ (m + i) - m = i
      BY <1>1
    <3>2. new[m + i] = more[i]
      BY <1>2, <3>1
    <3> QED
      BY <1>2, <3>1, <3>2 DEF Elements
  <2> QED
    BY <1>1, <2>1, <2>2, <2>3 DEF Elements
<1>4. ASSUME NoRepeats(list), NoRepeats(more), Elements(list) \cap Elements(more) = {}
      PROVE  NoRepeats(new)
  <2> SUFFICES ASSUME NEW i \in 1..(m + n), NEW j \in 1..(m + n), new[i] = new[j] PROVE i = j
    BY <1>2 DEF NoRepeats
  <2>1. CASE i <= m /\ j <= m
    <3>1. i \in DOMAIN list /\ j \in DOMAIN list /\ list[i] = list[j]
      BY <1>1, <1>2, <2>1
    <3> QED
      BY <1>4, <3>1 DEF NoRepeats
  <2>2. CASE i > m /\ j > m
    <3>1. i - m \in DOMAIN more /\ j - m \in DOMAIN more /\ more[i - m] = more[j - m]
      BY <1>1, <1>2, <2>2
    <3>2. i - m = j - m
      BY <1>4, <3>1 DEF NoRepeats
    <3> QED
      BY <1>1, <3>2
  <2>3. ASSUME NEW a \in 1..m, NEW b \in 1..n PROVE list[a] # more[b]
    BY <1>1, <1>4 DEF Elements
  <2>4. CASE i <= m /\ j > m
    <3>1. i \in 1..m /\ j - m \in 1..n /\ list[i] = more[j - m]
      BY <1>1, <1>2, <2>4
    <3> QED
      BY <2>3, <3>1
  <2>5. CASE i > m /\ j <= m
    <3>1. j \in 1..m /\ i - m \in 1..n /\ list[j] = more[i - m]
      BY <1>1, <1>2, <2>5
    <3> QED
      BY <2>3, <3>1
  <2> QED
    BY <1>1, <2>1, <2>2, <2>4, <2>5
<1> QED
  BY <1>2, <1>3, <1>4 DEF new

-----------------------------------------------------------------------------
(***************************************************************************)
(* Type correctness. TypeOK is inductive together with IdsGiven, which     *)
(* makes the set of loans a block judges a finite one.                     *)
(***************************************************************************)
LEMMA ConstantFacts ==
  /\ MaxBalance \in Nat /\ 0 \in Balance
  /\ \A n \in Balance : n \in Nat /\ n <= MaxBalance
  /\ \A n \in Nat : n <= MaxBalance => n \in Balance
  /\ Users \subseteq Accounts /\ PawnShop \in Accounts /\ PawnShop \notin Users
  /\ MinimumCollateral \in Balance /\ LiquidationPenalty \in Nat
  /\ LtvPrec \in Nat \ {0} /\ PricePrec \in Nat \ {0}
  /\ U32 \in Nat \ {0} /\ U64 \in Nat \ {0}
  /\ StakeAmounts \subseteq Balance /\ RedeemAmounts \subseteq Balance
  /\ AddAmounts \subseteq Balance /\ DrawAmounts \subseteq Balance
  /\ AuctionExtras \subseteq Balance /\ Applications \subseteq Balance \X Balance
BY MaxBalanceAssumption, UsersAssumption, ParameterAssumption, PrecAssumption,
   AmountsAssumption DEF Balance

\* Integer division of naturals, and the remainder that narrows a product.
LEMMA DivType ==
  ASSUME NEW m \in Nat, NEW n \in Nat \ {0}
  PROVE  m \div n \in Nat /\ m \div n <= m
OBVIOUS

LEMMA NarrowType == \A n \in Nat : Narrow(n) \in Balance
BY MaxBalanceAssumption DEF Narrow, Balance

LEMMA PaidType ==
  ASSUME NEW f \in [AssetIds -> Sheet], NEW asset \in AssetIds,
         NEW from \in Accounts, NEW to \in Accounts, NEW amount \in Balance
  PROVE  Paid(f, asset, from, to, amount) \in [AssetIds -> Sheet]
BY TransferType DEF Paid

LEMMA TypeInit == InitState => TypeOK
<1> SUFFICES ASSUME InitState PROVE TypeOK
  OBVIOUS
<1> USE ConstantFacts
<1>1. free \in [AssetIds -> Sheet] /\ price \in [AssetIds -> Nat] /\ config \in Config
  BY GenesisAssumption DEF InitState
<1>2. dtoken \in Sheet
  BY DEF InitState, Sheet
<1>3. DOMAIN loans = {}
  BY DEF InitState
<1>4. loansByAccount \in [Accounts -> Seq(Nat)] /\ liquidating \in Seq(Nat)
  BY DEF InitState
<1> QED
  BY <1>1, <1>2, <1>3, <1>4 DEF TypeOK, InitState

\* What a saving makes of a well-typed storage.
SavingStates == [free : [AssetIds -> Sheet], dtoken : Sheet, market : Balance, total : Balance]

LEMMA SavingStateType == TypeOK => SavingState \in SavingStates
BY DEF TypeOK, SavingState, SavingStates

LEMMA ProductType == \A m, n \in Nat : m * n \in Nat
OBVIOUS

LEMMA DtokensType ==
  ASSUME NEW s \in SavingStates, NEW amount \in Balance
  PROVE  DtokensFor(s, amount) \in Nat
<1> USE ConstantFacts
<1>1. s.total \in Nat /\ s.market \in Nat /\ amount \in Nat
  BY DEF SavingStates
<1>2. amount * s.market \in Nat
  BY <1>1, ProductType
<1>3. s.total # 0 => (amount * s.market) \div s.total \in Nat
  BY <1>1, <1>2, DivType
<1> QED
  BY <1>1, <1>3 DEF DtokensFor

LEMMA AfterStakeType ==
  ASSUME config \in Config, NEW s \in SavingStates, NEW who \in Accounts, NEW amount \in Balance,
         ~StakePanics(s, who, amount)
  PROVE  AfterStake(s, who, amount) \in SavingStates
<1> USE ConstantFacts
<1>1. /\ s.free \in [AssetIds -> Sheet] /\ s.dtoken \in Sheet
      /\ s.market \in Nat /\ s.dtoken[who] \in Nat /\ amount \in Nat
  BY DEF SavingStates, Sheet
<1>2. config.collectionAsset \in AssetIds /\ config.collectionAccount \in Accounts
  BY DEF Config
<1>3. Paid(s.free, config.collectionAsset, who, config.collectionAccount, amount) \in [AssetIds -> Sheet]
  BY <1>1, <1>2, PaidType
<1> DEFINE n == DtokensFor(s, amount)
<1>4. n \in Nat
  BY DtokensType
<1>5. s.dtoken[who] + n <= MaxBalance /\ s.market + n <= MaxBalance /\ s.market + amount <= MaxBalance
  <2>1. /\ ~(s.dtoken[who] + n > MaxBalance) /\ ~(s.market + n > MaxBalance)
        /\ ~(s.market + amount > MaxBalance)
    BY DEF StakePanics
  <2> HIDE DEF n
  <2> QED
    BY <1>1, <1>4, <2>1
<1> HIDE DEF n
<1>6. s.dtoken[who] + n \in Balance /\ s.market + n \in Balance /\ s.market + amount \in Balance
  BY <1>1, <1>4, <1>5
<1>7. [s.dtoken EXCEPT ![who] = @ + n] \in Sheet
  BY <1>1, <1>6 DEF Sheet
<1> QED
  BY <1>3, <1>6, <1>7 DEF AfterStake, SavingStates, n

LEMMA WillGetType ==
  ASSUME NEW s \in SavingStates, NEW who \in Accounts, ~RedeemPanics(s)
  PROVE  WillGet(s, who) \in Balance
<1> USE ConstantFacts
<1>1. s.total \in Nat \ {0} /\ s.market \in Nat /\ s.dtoken[who] \in Balance
  BY DEF SavingStates, Sheet, RedeemPanics
<1>2. s.market \div s.total \in Nat \ {0}
  BY <1>1, DivType DEF RedeemPanics
<1>3. WillGet(s, who) \in Nat /\ WillGet(s, who) <= s.dtoken[who]
  BY <1>1, <1>2, DivType DEF WillGet
<1> QED
  BY <1>1, <1>3

LEMMA AfterRedeemType ==
  ASSUME config \in Config, NEW s \in SavingStates, NEW who \in Accounts,
         ~RedeemPanics(s), ~RedeemAllRefused(s, who)
  PROVE  AfterRedeemAll(s, who) \in SavingStates
<1> USE ConstantFacts
<1>1. /\ s.free \in [AssetIds -> Sheet] /\ s.dtoken \in Sheet
      /\ s.market \in Balance /\ s.total \in Balance /\ s.dtoken[who] \in Balance
  BY DEF SavingStates, Sheet
<1>2. config.collectionAsset \in AssetIds /\ config.collectionAccount \in Accounts
  BY DEF Config
<1>3. WillGet(s, who) \in Balance
  BY WillGetType
<1>4. Paid(s.free, config.collectionAsset, config.collectionAccount, who, WillGet(s, who))
        \in [AssetIds -> Sheet]
  BY <1>1, <1>2, <1>3, PaidType
<1>5. s.market - s.dtoken[who] \in Balance
  <2>1. ~(s.market < s.dtoken[who])
    BY DEF RedeemAllRefused
  <2> QED
    BY <1>1, <2>1
<1>6. Wrapped(s.total - WillGet(s, who)) \in Balance
  BY <1>1, <1>3, WrappedType
<1> QED
  BY <1>1, <1>4, <1>5, <1>6 DEF AfterRedeemAll, SavingStates

\* The storage of the savings after a call, whatever became of its parts.
LEMMA BecomesType ==
  ASSUME TypeOK, NEW s \in SavingStates, Becomes(s)
  PROVE  TypeOK'
<1>1. free' \in [AssetIds -> Sheet] /\ dtoken' \in Sheet /\ market' \in Balance /\ total' \in Balance
  BY DEF Becomes, SavingStates
<1> QED
  BY <1>1 DEF TypeOK, Becomes, settings, book

LEMMA StakeType ==
  ASSUME TypeOK, NEW who \in Accounts, NEW amount \in Balance, Stake(who, amount)
  PROVE  TypeOK'
<1>1. AfterStake(SavingState, who, amount) \in SavingStates
  BY AfterStakeType, SavingStateType DEF Stake, TypeOK
<1> QED
  BY <1>1, BecomesType DEF Stake

LEMMA RedeemStates ==
  ASSUME TypeOK, NEW who \in Accounts, NEW amount \in Balance, Redeem(who, amount)
  PROVE  LET s == Redeemed(SavingState, who)
             rest == WillGet(SavingState, who) - amount
         IN  /\ s \in SavingStates /\ rest \in Balance
             /\ Restaked(s, who, rest) \in SavingStates
             /\ ~StakeRefused(s, who, rest) => ~StakePanics(s, who, rest)
             /\ Becomes(Restaked(s, who, rest))
<1> DEFINE s == Redeemed(SavingState, who)
           rest == WillGet(SavingState, who) - amount
<1>1. SavingState \in SavingStates /\ config \in Config
  BY SavingStateType DEF TypeOK
<1>2. ~RedeemPanics(SavingState) /\ WillGet(SavingState, who) >= amount
  BY DEF Redeem
<1>3. s \in SavingStates
  BY <1>1, <1>2, AfterRedeemType DEF Redeemed
<1>4. rest \in Balance
  <2>1. WillGet(SavingState, who) \in Balance
    BY <1>1, <1>2, WillGetType
  <2> QED
    BY <1>2, <2>1, ConstantFacts
<1>5. /\ ~StakeRefused(s, who, rest) => ~StakePanics(s, who, rest)
      /\ Becomes(Restaked(s, who, rest))
  BY DEF Redeem
<1> HIDE DEF s, rest
<1>6. Restaked(s, who, rest) \in SavingStates
  BY <1>1, <1>3, <1>4, <1>5, AfterStakeType DEF Restaked
<1> QED
  BY <1>3, <1>4, <1>5, <1>6 DEF s, rest

LEMMA RedeemType ==
  ASSUME TypeOK, NEW who \in Accounts, NEW amount \in Balance, Redeem(who, amount)
  PROVE  TypeOK'
BY RedeemStates, BecomesType

\* What get_collateral_loan derives fits in a balance.
LEMMA CollateralLoanType ==
  ASSUME TypeOK, NEW collateral \in Balance, NEW loan \in Balance, ~AmountsPanic(collateral, loan)
  PROVE  CollateralLoan(collateral, loan) \in [collateral : Balance, loan : Balance]
<1> USE ConstantFacts
<1>1. CollateralPrice \in Nat /\ config.ltvLimit \in Nat
  BY DEF TypeOK, CollateralPrice, Config, Ltv
<1>2. CanBorrow(collateral) \in Balance
  <2>1. collateral * CollateralPrice * config.ltvLimit \in Nat
    BY <1>1, ProductType
  <2>2. LtvPrec * PricePrec \in Nat \ {0}
    BY ProductType
  <2> DEFINE n == Narrow(collateral * CollateralPrice * config.ltvLimit)
  <2>3. n \in Balance
    BY <2>1, NarrowType
  <2> HIDE DEF n
  <2>4. n \div (LtvPrec * PricePrec) \in Nat /\ n \div (LtvPrec * PricePrec) <= n
    BY <2>2, <2>3, DivType
  <2> QED
    BY <2>3, <2>4 DEF CanBorrow, n
<1>3. ASSUME collateral = 0 PROVE MustPledge(loan) \in Balance
  <2> DEFINE n == Narrow(loan * LtvPrec * PricePrec)
             d == Narrow(CollateralPrice * config.ltvLimit)
  <2>1. loan * LtvPrec * PricePrec \in Nat /\ CollateralPrice * config.ltvLimit \in Nat
    BY <1>1, ProductType
  <2>2. n \in Balance /\ d \in Balance
    BY <2>1, NarrowType
  <2>3. d # 0
    BY <1>3 DEF AmountsPanic
  <2>4. MustPledge(loan) = n \div d
    BY DEF MustPledge
  <2> HIDE DEF n, d
  <2>5. n \div d \in Nat /\ n \div d <= n
    BY <2>2, <2>3, DivType
  <2> QED
    BY <2>2, <2>4, <2>5
<1> QED
  BY <1>2, <1>3 DEF CollateralLoan

\* A smaller natural than a balance is one.
LEMMA QuotientType ==
  ASSUME NEW m \in Balance, NEW n \in Nat \ {0}
  PROVE  m \div n \in Balance
BY ConstantFacts, DivType

LEMMA ApplyType ==
  ASSUME TypeOK, NEW who \in Accounts, NEW collateral \in Balance, NEW loan \in Balance,
         Apply(who, collateral, loan)
  PROVE  TypeOK'
<1> USE ConstantFacts
<1> DEFINE actual == CollateralLoan(collateral, loan)
           pledged == Paid(free, config.collateralAsset, who, PawnShop, actual.collateral)
           new == [who |-> who, original |-> actual.collateral,
                   available |-> Wrapped(actual.collateral - loan \div CollateralPrice),
                   total |-> actual.loan, status |-> "Well"]
<1>1. actual.collateral \in Balance /\ actual.loan \in Balance
  BY CollateralLoanType DEF Apply
<1>2. /\ free' = Paid(pledged, config.collectionAsset, config.collectionAccount, who, loan)
      /\ loans' = WithLoan(nextLoanId, new)
      /\ totalLoan' = Wrapped(totalLoan + actual.loan)
      /\ totalCollateral' = Wrapped(totalCollateral + actual.collateral)
      /\ loansByAccount' = [loansByAccount EXCEPT ![who] = Append(@, nextLoanId)]
      /\ nextLoanId' = nextLoanId + 1
      /\ UNCHANGED <<price, settings, savings, liquidating, halted>>
      /\ CollateralPrice # 0
  BY DEF Apply
<1> HIDE DEF actual
<1>3. free' \in [AssetIds -> Sheet]
  <2>1. pledged \in [AssetIds -> Sheet]
    BY <1>1, PaidType DEF TypeOK, Config
  <2> HIDE DEF pledged
  <2> QED
    BY <1>2, <2>1, PaidType DEF TypeOK, Config
<1>4. new \in Loan
  <2>1. CollateralPrice \in Nat \ {0}
    BY <1>2 DEF TypeOK, CollateralPrice, Config
  <2>2. loan \div CollateralPrice \in Balance
    BY <2>1, QuotientType
  <2>3. Wrapped(actual.collateral - loan \div CollateralPrice) \in Balance
    BY <1>1, <2>2, WrappedType
  <2> QED
    BY <1>1, <2>3 DEF Loan, Health
<1> HIDE DEF new
<1>5. DOMAIN loans' \subseteq Nat /\ \A id \in DOMAIN loans' : loans'[id] \in Loan
  BY <1>2, <1>4 DEF TypeOK, WithLoan
<1>6. totalLoan' \in Balance /\ totalCollateral' \in Balance
  BY <1>1, <1>2, WrappedType DEF TypeOK
<1>7. loansByAccount' \in [Accounts -> Seq(Nat)] /\ nextLoanId' \in Nat
  BY <1>2 DEF TypeOK
<1> QED
  BY <1>2, <1>3, <1>5, <1>6, <1>7 DEF TypeOK, settings, savings

\* Filtering keeps the type of a list of ids.
LEMMA WithoutIdType ==
  ASSUME NEW list \in Seq(Nat), NEW id
  PROVE  WithoutId(list, id) \in Seq(Nat)
BY FilterFacts

LEMMA WithoutLoanType ==
  ASSUME TypeOK, NEW id, loans' = WithoutLoan(id)
  PROVE  DOMAIN loans' \subseteq Nat /\ \A i \in DOMAIN loans' : loans'[i] \in Loan
BY DEF TypeOK, WithoutLoan

LEMMA RepayType ==
  ASSUME TypeOK, NEW who \in Accounts, NEW id \in DOMAIN loans, Repay(who, id)
  PROVE  TypeOK'
<1> USE ConstantFacts
<1>1. loans[id].who \in Accounts /\ loans[id].total \in Balance /\ loans[id].original \in Balance
  BY DEF TypeOK, Loan
<1>2. free' \in [AssetIds -> Sheet]
  <2>1. PaidBack(id) \in [AssetIds -> Sheet]
    BY <1>1, PaidType DEF TypeOK, Config, PaidBack
  <2> QED
    BY <1>1, <2>1, PaidType DEF TypeOK, Config, Repay
<1>3. DOMAIN loans' \subseteq Nat /\ \A i \in DOMAIN loans' : loans'[i] \in Loan
  BY WithoutLoanType DEF Repay
<1>4. loansByAccount' \in [Accounts -> Seq(Nat)]
  <2>1. WithoutId(loansByAccount[who], id) \in Seq(Nat)
    BY WithoutIdType DEF TypeOK
  <2> QED
    BY <2>1 DEF TypeOK, Repay
<1>5. totalLoan' \in Balance /\ totalCollateral' \in Balance
  BY <1>1, WrappedType DEF TypeOK, Repay
<1> QED
  BY <1>2, <1>3, <1>4, <1>5 DEF TypeOK, Repay, settings, savings

LEMMA RevertedType ==
  ASSUME TypeOK, NEW who \in Accounts, NEW id \in DOMAIN loans, RepayReverted(who, id)
  PROVE  TypeOK'
<1>1. loans[id].total \in Balance /\ loans[id].available \in Balance /\ id \in Nat
  BY DEF TypeOK, Loan
<1>2. loansByAccount' \in [Accounts -> Seq(Nat)]
  <2>1. WithoutId(loansByAccount[who], id) \in Seq(Nat)
    BY WithoutIdType DEF TypeOK
  <2>2. Append(WithoutId(loansByAccount[who], id), id) \in Seq(Nat)
    BY <1>1, <2>1
  <2> QED
    BY <2>2 DEF TypeOK, RepayReverted
<1>3. totalLoan' \in Balance /\ totalCollateral' \in Balance
  BY <1>1, WrappedType DEF TypeOK, RepayReverted
<1> QED
  BY <1>2, <1>3 DEF TypeOK, RepayReverted, settings, savings, ledger

\* The amounts of a settlement are balances.
LEMMA SettlementAmounts ==
  ASSUME TypeOK, NEW id \in DOMAIN loans, NEW auction \in Nat, CanMark(id, auction)
  PROVE  /\ auction \in Balance /\ loans[id].total \in Balance /\ loans[id].original \in Balance
         /\ loans[id].who \in Accounts /\ id \in Nat
         /\ Leftover(id, auction) \in Balance
         /\ Penalty(id, auction) \in Balance
         /\ OwnersShare(id, auction) \in Balance
<1> USE ConstantFacts
<1>1. /\ loans[id].total \in Balance /\ loans[id].original \in Balance
      /\ loans[id].who \in Accounts /\ id \in Nat
  BY DEF TypeOK, Loan
<1>2. auction \in Balance
  <2>1. free[config.loanAsset][config.liquidationAccount] \in Balance
    BY DEF TypeOK, Config, Sheet
  <2>2. free[config.loanAsset][config.liquidationAccount] >= auction
    BY DEF CanMark, Affords, CanTransfer
  <2> QED
    BY <2>1, <2>2
<1>3. Leftover(id, auction) \in Balance
  <2>1. auction >= loans[id].total
    BY DEF CanMark
  <2> DEFINE t == loans[id].total
  <2> HIDE DEF t
  <2>2. auction >= t /\ t \in Balance
    BY <1>1, <2>1 DEF t
  <2>3. auction - t \in Balance
    BY <1>2, <2>2
  <2> QED
    BY <2>3 DEF Leftover, t
<1>4. Penalty(id, auction) \in Balance
  <2>1. Narrow(Leftover(id, auction) * LiquidationPenalty) \in Balance
    BY <1>3, ProductType, NarrowType
  <2> QED
    BY <2>1, QuotientType DEF Penalty
<1>5. OwnersShare(id, auction) \in Balance
  BY <1>3, <1>4, WrappedType DEF OwnersShare
<1> QED
  BY <1>1, <1>2, <1>3, <1>4, <1>5

LEMMA CoveredType ==
  ASSUME TypeOK, NEW id \in DOMAIN loans, NEW auction \in Nat, CanMark(id, auction)
  PROVE  /\ Covered(id) \in [AssetIds -> Sheet]
         /\ Penalised(id, auction) \in [AssetIds -> Sheet]
<1>1. Covered(id) \in [AssetIds -> Sheet]
  BY SettlementAmounts, PaidType DEF TypeOK, Config, Covered, InLoanAsset
<1> QED
  BY <1>1, SettlementAmounts, PaidType DEF TypeOK, Config, Penalised, InLoanAsset

LEMMA SettlementType ==
  ASSUME TypeOK, NEW id \in DOMAIN loans, NEW auction \in Nat,
         \/ MarkLiquidated(id, auction)
         \/ MarkWithoutPenalty(id, auction)
         \/ MarkWithoutShare(id, auction)
  PROVE  TypeOK'
<1>0. CanMark(id, auction)
  BY DEF MarkLiquidated, MarkWithoutPenalty, MarkWithoutShare
<1>1. /\ loans[id].total \in Balance /\ loans[id].original \in Balance /\ loans[id].who \in Accounts
      /\ Penalty(id, auction) \in Balance /\ OwnersShare(id, auction) \in Balance
  BY <1>0, SettlementAmounts
<1>2. Covered(id) \in [AssetIds -> Sheet] /\ Penalised(id, auction) \in [AssetIds -> Sheet]
  BY <1>0, CoveredType
<1>3. /\ config.loanAsset \in AssetIds /\ config.collateralAsset \in AssetIds
      /\ config.collectionAccount \in Accounts /\ config.profitPool \in Accounts
      /\ config.liquidationAccount \in Accounts /\ PawnShop \in Accounts
  BY ConstantFacts DEF TypeOK, Config
<1>4. CASE MarkLiquidated(id, auction)
  <2>1. free' \in [AssetIds -> Sheet]
    <3>1. InLoanAsset(Penalised(id, auction), config.collectionAccount, loans[id].who,
                      OwnersShare(id, auction)) \in [AssetIds -> Sheet]
      BY <1>1, <1>2, <1>3, PaidType DEF InLoanAsset
    <3> QED
      BY <1>2, <1>4, <3>1 DEF MarkLiquidated
  <2>2. DOMAIN loans' \subseteq Nat /\ \A i \in DOMAIN loans' : loans'[i] \in Loan
    BY <1>4, WithoutLoanType DEF MarkLiquidated
  <2>3. loansByAccount' \in [Accounts -> Seq(Nat)] /\ liquidating' \in Seq(Nat)
    <3>1. WithoutId(loansByAccount[loans[id].who], id) \in Seq(Nat)
      BY <1>1, WithoutIdType DEF TypeOK
    <3>2. WithoutId(liquidating, id) \in Seq(Nat)
      BY WithoutIdType DEF TypeOK
    <3> QED
      BY <1>4, <3>1, <3>2 DEF TypeOK, MarkLiquidated
  <2> QED
    BY <1>4, <2>1, <2>2, <2>3 DEF TypeOK, MarkLiquidated, settings, savings
<1>5. CASE MarkWithoutPenalty(id, auction)
  <2>1. InLoanAsset(Covered(id), PawnShop, config.liquidationAccount, loans[id].total)
          \in [AssetIds -> Sheet]
    BY <1>1, <1>2, <1>3, PaidType DEF InLoanAsset
  <2>2. free' \in [AssetIds -> Sheet]
    BY <1>2, <1>5, <2>1 DEF MarkWithoutPenalty
  <2> QED
    BY <1>5, <2>2 DEF TypeOK, MarkWithoutPenalty, settings, savings, book
<1>6. CASE MarkWithoutShare(id, auction)
  <2> DEFINE returned == InLoanAsset(Penalised(id, auction), config.profitPool,
                                     config.liquidationAccount, Penalty(id, auction))
  <2>1. returned \in [AssetIds -> Sheet]
    BY <1>1, <1>2, <1>3, PaidType DEF InLoanAsset
  <2>2. free' \in {returned, Paid(returned, config.collateralAsset, PawnShop,
                                  config.liquidationAccount, loans[id].original)}
    BY <1>6 DEF MarkWithoutShare
  <2> HIDE DEF returned
  <2>3. free' \in [AssetIds -> Sheet]
    BY <1>1, <1>3, <2>1, <2>2, PaidType
  <2> QED
    BY <1>6, <2>3 DEF TypeOK, MarkWithoutShare, settings, savings, book
<1> QED
  BY <1>4, <1>5, <1>6

\* What add_collateral and draw make of a loan.
LEMMA AddedLoan ==
  ASSUME TypeOK, NEW who, NEW id \in DOMAIN loans, NEW amount, AddCollateral(who, id, amount)
  PROVE  /\ DOMAIN loans' = DOMAIN loans
         /\ \A i \in DOMAIN loans \ {id} : loans'[i] = loans[i]
         /\ loans'[id] = [who |-> loans[id].who,
                          original |-> Wrapped(loans[id].original + amount),
                          available |-> Wrapped(loans[id].available + amount),
                          total |-> loans[id].total, status |-> loans[id].status]
         /\ loans'[id].who = loans[id].who /\ loans'[id].status = loans[id].status
         /\ loans'[id].total = loans[id].total
         /\ loans'[id].original = Wrapped(loans[id].original + amount)
BY DEF AddCollateral, TypeOK, Loan

LEMMA DrawnLoan ==
  ASSUME TypeOK, NEW who, NEW id \in DOMAIN loans, NEW amount, Draw(who, id, amount)
  PROVE  /\ DOMAIN loans' = DOMAIN loans
         /\ \A i \in DOMAIN loans \ {id} : loans'[i] = loans[i]
         /\ loans'[id] = [who |-> loans[id].who, original |-> loans[id].original,
                          available |-> Wrapped(loans[id].available - amount \div Low32(CollateralPrice)),
                          total |-> Wrapped(loans[id].total + amount), status |-> loans[id].status]
         /\ loans'[id].who = loans[id].who /\ loans'[id].status = loans[id].status
         /\ loans'[id].original = loans[id].original
         /\ loans'[id].total = Wrapped(loans[id].total + amount)
BY DEF Draw, TypeOK, Loan

LEMMA AddCollateralType ==
  ASSUME TypeOK, NEW who \in Accounts, NEW id \in DOMAIN loans, NEW amount \in Balance,
         AddCollateral(who, id, amount)
  PROVE  TypeOK'
<1> USE ConstantFacts
<1>1. loans[id] \in Loan
  BY DEF TypeOK
<1>2. free' \in [AssetIds -> Sheet]
  BY PaidType DEF TypeOK, Config, AddCollateral
<1>3. DOMAIN loans' \subseteq Nat /\ \A i \in DOMAIN loans' : loans'[i] \in Loan
  <2>1. loans'[id] \in Loan
    <3>1. Wrapped(loans[id].original + amount) \in Balance /\ Wrapped(loans[id].available + amount) \in Balance
      BY <1>1, WrappedType DEF Loan
    <3>2. /\ loans[id].who \in Accounts /\ loans[id].original \in Balance
          /\ loans[id].total \in Balance /\ loans[id].status \in Health
      BY <1>1 DEF Loan
    <3> DEFINE new == [who |-> loans[id].who,
                      original |-> Wrapped(loans[id].original + amount),
                      available |-> Wrapped(loans[id].available + amount),
                      total |-> loans[id].total, status |-> loans[id].status]
    <3>3. new \in Loan
      BY <3>1, <3>2 DEF Loan
    <3>4. loans'[id] = new
      BY AddedLoan
    <3> QED
      BY <3>3, <3>4
  <2> QED
    BY <2>1, AddedLoan DEF TypeOK
<1>4. totalCollateral' \in Balance
  BY WrappedType DEF TypeOK, AddCollateral
<1> QED
  BY <1>2, <1>3, <1>4 DEF TypeOK, AddCollateral, settings, savings

LEMMA DrawType ==
  ASSUME TypeOK, NEW who \in Accounts, NEW id \in DOMAIN loans, NEW amount \in Balance,
         Draw(who, id, amount)
  PROVE  TypeOK'
<1> USE ConstantFacts
<1>1. loans[id] \in Loan
  BY DEF TypeOK
<1>2. amount \div Low32(CollateralPrice) \in Balance
  <2>1. CollateralPrice \in Nat
    BY DEF TypeOK, Config, CollateralPrice
  <2>2. Low32(CollateralPrice) \in Nat \ {0}
    BY <2>1 DEF Draw, Low32
  <2> QED
    BY <2>2, QuotientType
<1>3. DOMAIN loans' \subseteq Nat /\ \A i \in DOMAIN loans' : loans'[i] \in Loan
  <2>1. loans'[id] \in Loan
    <3>1. /\ Wrapped(loans[id].total + amount) \in Balance
          /\ Wrapped(loans[id].available - amount \div Low32(CollateralPrice)) \in Balance
      BY <1>1, <1>2, WrappedType DEF Loan
    <3>2. /\ loans[id].who \in Accounts /\ loans[id].original \in Balance
          /\ loans[id].total \in Balance /\ loans[id].status \in Health
      BY <1>1 DEF Loan
    <3> DEFINE new == [who |-> loans[id].who, original |-> loans[id].original,
                      available |-> Wrapped(loans[id].available - amount \div Low32(CollateralPrice)),
                      total |-> Wrapped(loans[id].total + amount), status |-> loans[id].status]
    <3>3. new \in Loan
      BY <3>1, <3>2 DEF Loan
    <3>4. loans'[id] = new
      BY DrawnLoan
    <3> QED
      BY <3>3, <3>4
  <2> QED
    BY <2>1, DrawnLoan DEF TypeOK
<1>4. totalLoan' \in Balance
  BY WrappedType DEF TypeOK, Draw
<1> QED
  BY <1>3, <1>4 DEF TypeOK, Draw, settings, savings, ledger

\* on_initialize changes no more of a loan than its status.
LEMMA BlockLoans ==
  ASSUME TypeOK, Block
  PROVE  \/ UNCHANGED book
         \/ /\ DOMAIN loans' = DOMAIN loans
            /\ \A id \in DOMAIN loans :
                 loans'[id] = [who |-> loans[id].who, original |-> loans[id].original,
                               available |-> loans[id].available, total |-> loans[id].total,
                               status |-> StatusAfter(id)]
            /\ liquidating' = liquidating \o Reverse(InOrder(NewlyListed))
            /\ UNCHANGED <<loansByAccount, totalLoan, totalCollateral, nextLoanId, halted>>
BY DEF Block, TypeOK, Loan

LEMMA StatusType ==
  ASSUME TypeOK, NEW id \in DOMAIN loans
  PROVE  StatusAfter(id) \in Health
BY DEF TypeOK, Loan, StatusAfter, HealthOf, Health

IdsGiven == \A id \in DOMAIN loans : id < nextLoanId

LEMMA LoansFinite ==
  ASSUME TypeOK, IdsGiven
  PROVE  IsFiniteSet(DOMAIN loans)
<1>1. DOMAIN loans \subseteq 0..nextLoanId
  BY DEF TypeOK, IdsGiven
<1>2. IsFiniteSet(0..nextLoanId)
  BY FS_Interval DEF TypeOK
<1> QED
  BY <1>1, <1>2, FS_Subset

\* A block appends the loans it lists, each once.
LEMMA NewlyListedFacts ==
  ASSUME TypeOK, IdsGiven
  PROVE  LET more == Reverse(InOrder(NewlyListed)) IN
         more \in Seq(Nat) /\ Elements(more) = NewlyListed /\ NoRepeats(more)
<1>1. NewlyListed \subseteq DOMAIN loans
  BY DEF NewlyListed, Judged
<1>2. NewlyListed \in SUBSET Nat /\ IsFiniteSet(NewlyListed)
  BY <1>1, LoansFinite, FS_Subset DEF TypeOK
<1> QED
  BY <1>2, NewestFirst

LEMMA BlockType ==
  ASSUME TypeOK, IdsGiven, Block
  PROVE  TypeOK'
<1>1. UNCHANGED <<ledger, settings, savings>> /\ halted' \in BOOLEAN
  BY DEF Block, TypeOK
<1>2. CASE UNCHANGED book
  BY <1>1, <1>2 DEF TypeOK, ledger, settings, savings, book
<1>3. CASE /\ DOMAIN loans' = DOMAIN loans
           /\ \A id \in DOMAIN loans :
                loans'[id] = [who |-> loans[id].who, original |-> loans[id].original,
                              available |-> loans[id].available, total |-> loans[id].total,
                              status |-> StatusAfter(id)]
           /\ liquidating' = liquidating \o Reverse(InOrder(NewlyListed))
           /\ UNCHANGED <<loansByAccount, totalLoan, totalCollateral, nextLoanId, halted>>
  <2>1. \A id \in DOMAIN loans' : loans'[id] \in Loan
    <3> SUFFICES ASSUME NEW id \in DOMAIN loans PROVE loans'[id] \in Loan
      BY <1>3
    <3>1. /\ loans[id].who \in Accounts /\ loans[id].original \in Balance
          /\ loans[id].available \in Balance /\ loans[id].total \in Balance
      BY DEF TypeOK, Loan
    <3>2. StatusAfter(id) \in Health
      BY StatusType
    <3> QED
      BY <1>3, <3>1, <3>2 DEF Loan
  <2>2. liquidating' \in Seq(Nat)
    <3> DEFINE more == Reverse(InOrder(NewlyListed))
    <3>1. more \in Seq(Nat)
      BY NewlyListedFacts
    <3>2. liquidating' = liquidating \o more
      BY <1>3
    <3> HIDE DEF more
    <3> QED
      BY <3>1, <3>2, JoinFacts DEF TypeOK
  <2> QED
    BY <1>1, <1>3, <2>1, <2>2 DEF TypeOK, ledger, settings, savings
<1> QED
  BY <1>2, <1>3, BlockLoans

\* A setter gives its setting a value of its type.
LEMMA ConfigureType ==
  ASSUME TypeOK, NEW setter \in DOMAIN ConfigChoices, NEW value \in ConfigChoices[setter],
         Configure(setter, value)
  PROVE  TypeOK'
<1>1. setter \in DOMAIN SetterTypes /\ value \in SetterTypes[setter]
  BY ChoicesAssumption
<1>2. config' = [config EXCEPT ![Written(setter)] =
                   IF setter = "loanCap" /\ value = 0 THEN NoCap ELSE value]
  BY DEF Configure
<1>3. config' \in Config
  <2>0. config \in Config
    BY DEF TypeOK
  <2>1. CASE setter = "collectionAsset"
    BY <1>1, <1>2, <2>0, <2>1 DEF Written, Config, SetterTypes
  <2>2. CASE setter = "collateralAsset"
    BY <1>1, <1>2, <2>0, <2>2 DEF Written, Config, SetterTypes
  <2>3. CASE setter = "loanAsset"
    BY <1>1, <1>2, <2>0, <2>3 DEF Written, Config, SetterTypes
  <2>4. CASE setter = "profitAsset"
    BY <1>1, <1>2, <2>0, <2>4 DEF Written, Config, SetterTypes
  <2>5. CASE setter = "collectionAccount"
    BY <1>1, <1>2, <2>0, <2>5 DEF Written, Config, SetterTypes, OfficialAccounts
  <2>6. CASE setter = "profitPool"
    BY <1>1, <1>2, <2>0, <2>6 DEF Written, Config, SetterTypes, OfficialAccounts
  <2>7. CASE setter = "liquidationAccount"
    BY <1>1, <1>2, <2>0, <2>7 DEF Written, Config, SetterTypes, OfficialAccounts
  <2>8. CASE setter = "ltvLimit"
    BY <1>1, <1>2, <2>0, <2>8 DEF Written, Config, SetterTypes
  <2>9. CASE setter = "liquidationThreshold"
    BY <1>1, <1>2, <2>0, <2>9 DEF Written, Config, SetterTypes
  <2>10. CASE setter = "warningThreshold"
    BY <1>1, <1>2, <2>0, <2>10 DEF Written, Config, SetterTypes
  <2>11. CASE setter = "loanCap"
    BY <1>1, <1>2, <2>0, <2>11 DEF Written, Config, SetterTypes
  <2>12. CASE setter = "penaltyRate"
    BY <1>1, <1>2, <2>0, <2>12 DEF Written, Config, SetterTypes
  <2> QED
    BY <1>1, <2>1, <2>2, <2>3, <2>4, <2>5, <2>6, <2>7, <2>8, <2>9, <2>10, <2>11, <2>12 DEF SetterTypes
<1> QED
  BY <1>3 DEF TypeOK, Configure, ledger, savings, book

LEMMA TypeNext ==
  ASSUME TypeOK, IdsGiven, [Next]_vars
  PROVE  TypeOK'
<1> USE ConstantFacts
<1>1. CASE Block
  BY <1>1, BlockType
<1>2. ASSUME NEW who \in Users, UserCall(who) PROVE TypeOK'
  <2>1. ASSUME NEW amount \in StakeAmounts, Stake(who, amount) PROVE TypeOK'
    BY <2>1, StakeType
  <2>2. ASSUME NEW amount \in RedeemAmounts, Redeem(who, amount) PROVE TypeOK'
    BY <2>2, RedeemType
  <2>3. ASSUME NEW a \in Applications, Apply(who, a[1], a[2]) PROVE TypeOK'
    <3>1. a[1] \in Balance /\ a[2] \in Balance
      OBVIOUS
    <3> QED
      BY <2>3, <3>1, ApplyType
  <2>4. ASSUME NEW id \in DOMAIN loans, Repay(who, id) \/ RepayReverted(who, id) PROVE TypeOK'
    BY <2>4, RepayType, RevertedType
  <2>5. ASSUME NEW id \in DOMAIN loans, NEW amount \in AddAmounts, AddCollateral(who, id, amount)
        PROVE  TypeOK'
    BY <2>5, AddCollateralType
  <2>6. ASSUME NEW id \in DOMAIN loans, NEW amount \in DrawAmounts, Draw(who, id, amount)
        PROVE  TypeOK'
    BY <2>6, DrawType
  <2> QED
    BY <1>2, <2>1, <2>2, <2>3, <2>4, <2>5, <2>6 DEF UserCall
<1>3. CASE Settlement
  <2>1. PICK id \in DOMAIN loans, extra \in AuctionExtras :
          \/ MarkLiquidated(id, loans[id].total + extra)
          \/ MarkWithoutPenalty(id, loans[id].total + extra)
          \/ MarkWithoutShare(id, loans[id].total + extra)
    BY <1>3 DEF Settlement
  <2>2. loans[id].total + extra \in Nat
    <3>1. loans[id].total \in Nat /\ extra \in Nat
      BY DEF TypeOK, Loan
    <3> QED
      BY <3>1
  <2> QED
    BY <2>1, <2>2, SettlementType
<1>4. CASE RootCall
  <2>1. ASSUME NEW b \in BOOLEAN, SetPaused(b) PROVE TypeOK'
    BY <2>1 DEF TypeOK, SetPaused, ledger, savings, book
  <2>2. ASSUME NEW setter \in DOMAIN ConfigChoices, NEW value \in ConfigChoices[setter],
               Configure(setter, value)
        PROVE  TypeOK'
    BY <2>2, ConfigureType
  <2> QED
    BY <1>4, <2>1, <2>2 DEF RootCall
<1>5. ASSUME PublishPrices PROVE TypeOK'
  <2>1. price' \in [AssetIds -> Nat]
    BY <1>5, PricesAssumption DEF TypeOK, PublishPrices
  <2> QED
    BY <1>5, <2>1 DEF TypeOK, PublishPrices, settings, savings, book
<1>6. CASE UNCHANGED vars
  BY <1>6 DEF TypeOK, vars, Config, Loan
<1> QED
  BY <1>1, <1>2, <1>3, <1>4, <1>5, <1>6 DEF Next

-----------------------------------------------------------------------------
(***************************************************************************)
(* The loan book: the views of it agree, whatever is called. With TypeOK   *)
(* the two invariants are inductive: that an id is fresh when it is given  *)
(* is part of the one, that a running loan is listed or not of the other.  *)
(***************************************************************************)
LoansOf(a) == {id \in DOMAIN loans : loans[id].who = a}
MarkedLoans == {id \in DOMAIN loans : loans[id].status = "Liquidating"}

BookInv == TypeOK /\ LoanBookConsistent /\ LiquidatingConsistent

LEMMA BookFacts ==
  ASSUME BookInv
  PROVE  /\ IdsGiven /\ nextLoanId \notin DOMAIN loans
         /\ \A a \in Accounts : NoRepeats(loansByAccount[a]) /\ Elements(loansByAccount[a]) = LoansOf(a)
         /\ NoRepeats(liquidating) /\ Listed = Elements(liquidating) /\ Listed = MarkedLoans
         /\ Listed \subseteq DOMAIN loans
<1>1. IdsGiven
  BY DEF BookInv, LoanBookConsistent, IdsGiven
<1>2. nextLoanId \notin DOMAIN loans
  BY <1>1 DEF BookInv, TypeOK, IdsGiven
<1>3. \A a \in Accounts : NoRepeats(loansByAccount[a]) /\ Elements(loansByAccount[a]) = LoansOf(a)
  BY DEF BookInv, LoanBookConsistent, Elements, LoansOf
<1>4. NoRepeats(liquidating) /\ Listed = Elements(liquidating) /\ Listed = MarkedLoans
  BY DEF BookInv, LiquidatingConsistent, Elements, Listed, MarkedLoans
<1> QED
  BY <1>1, <1>2, <1>3, <1>4 DEF MarkedLoans

\* The same facts of the next state, in the form the steps below prove them in.
LEMMA BookFromFacts ==
  ASSUME TypeOK', IdsGiven',
         \A a \in Accounts : NoRepeats(loansByAccount'[a]) /\ Elements(loansByAccount'[a]) = LoansOf(a)',
         NoRepeats(liquidating'), Elements(liquidating') = MarkedLoans'
  PROVE  BookInv'
<1>1. LoanBookConsistent'
  BY DEF LoanBookConsistent, Elements, LoansOf, IdsGiven
<1>2. LiquidatingConsistent'
  BY DEF LiquidatingConsistent, Elements, Listed, MarkedLoans
<1> QED
  BY <1>1, <1>2 DEF BookInv

LEMMA BookInit == InitState => BookInv
<1> SUFFICES ASSUME InitState PROVE BookInv
  OBVIOUS
<1>1. TypeOK
  BY TypeInit
<1>2. DOMAIN loans = {} /\ liquidating = << >> /\ loansByAccount = [u \in Accounts |-> << >>]
  BY DEF InitState
<1>3. LoanBookConsistent
  BY <1>2 DEF LoanBookConsistent, NoRepeats
<1>4. LiquidatingConsistent
  BY <1>2 DEF LiquidatingConsistent, NoRepeats, Listed
<1> QED
  BY <1>1, <1>3, <1>4 DEF BookInv

\* A step that leaves the lists alone, and of each loan the debtor and the status.
SameLists ==
  /\ UNCHANGED <<loansByAccount, liquidating, nextLoanId>>
  /\ DOMAIN loans' = DOMAIN loans
  /\ \A id \in DOMAIN loans : loans'[id].who = loans[id].who /\ loans'[id].status = loans[id].status

LEMMA SameListsKeep ==
  ASSUME BookInv, TypeOK', SameLists
  PROVE  BookInv'
<1> USE BookFacts
<1>1. IdsGiven'
  BY DEF IdsGiven, SameLists
<1>2. \A a \in Accounts : LoansOf(a)' = LoansOf(a)
  BY DEF LoansOf, SameLists
<1>3. MarkedLoans' = MarkedLoans
  BY DEF MarkedLoans, SameLists
<1> QED
  BY <1>1, <1>2, <1>3, BookFromFacts DEF SameLists

\* A loan enters the book.
LEMMA ApplyKeepsBook ==
  ASSUME BookInv, TypeOK', NEW who \in Accounts, NEW collateral, NEW loan, Apply(who, collateral, loan)
  PROVE  BookInv'
<1> USE BookFacts
<1>1. /\ DOMAIN loans' = DOMAIN loans \cup {nextLoanId}
      /\ \A id \in DOMAIN loans : loans'[id] = loans[id]
      /\ loans'[nextLoanId].who = who /\ loans'[nextLoanId].status = "Well"
  BY DEF Apply, WithLoan
<1>2. /\ loansByAccount' = [loansByAccount EXCEPT ![who] = Append(@, nextLoanId)]
      /\ nextLoanId' = nextLoanId + 1 /\ liquidating' = liquidating
  BY DEF Apply
<1>3. /\ loansByAccount \in [Accounts -> Seq(Nat)] /\ nextLoanId \in Nat /\ DOMAIN loans \subseteq Nat
  BY DEF BookInv, TypeOK
<1>4. IdsGiven'
  BY <1>1, <1>2, <1>3 DEF IdsGiven
<1>5. MarkedLoans' = MarkedLoans
  BY <1>1 DEF MarkedLoans
<1>6. ASSUME NEW a \in Accounts
      PROVE  NoRepeats(loansByAccount'[a]) /\ Elements(loansByAccount'[a]) = LoansOf(a)'
  <2>1. CASE a = who
    <3>1. loansByAccount'[a] = Append(loansByAccount[a], nextLoanId)
      BY <1>2, <1>3, <2>1
    <3>2. nextLoanId \notin Elements(loansByAccount[a])
      BY DEF LoansOf
    <3>3. NoRepeats(loansByAccount'[a]) /\ Elements(loansByAccount'[a]) = LoansOf(a) \cup {nextLoanId}
      BY <1>3, <3>1, <3>2, AppendFacts
    <3>4. LoansOf(a)' = LoansOf(a) \cup {nextLoanId}
      BY <1>1, <2>1 DEF LoansOf
    <3> QED
      BY <3>3, <3>4
  <2>2. CASE a # who
    <3>1. loansByAccount'[a] = loansByAccount[a]
      BY <1>2, <1>3, <2>2
    <3>2. LoansOf(a)' = LoansOf(a)
      BY <1>1, <2>2 DEF LoansOf
    <3> QED
      BY <3>1, <3>2
  <2> QED
    BY <2>1, <2>2
<1> QED
  BY <1>2, <1>4, <1>5, <1>6, BookFromFacts

\* A loan leaves the book: it is repaid, or it was listed and is settled.
LEMMA RemovalKeepsBook ==
  ASSUME BookInv, TypeOK', NEW id \in DOMAIN loans, loans' = WithoutLoan(id),
         loansByAccount' = [loansByAccount EXCEPT ![loans[id].who] = WithoutId(@, id)],
         nextLoanId' = nextLoanId,
         \/ id \notin Listed /\ liquidating' = liquidating
         \/ liquidating' = WithoutId(liquidating, id)
  PROVE  BookInv'
<1> USE BookFacts
<1>1. DOMAIN loans' = DOMAIN loans \ {id} /\ \A i \in DOMAIN loans \ {id} : loans'[i] = loans[i]
  BY DEF WithoutLoan
<1>2. /\ loansByAccount \in [Accounts -> Seq(Nat)] /\ liquidating \in Seq(Nat)
  BY DEF BookInv, TypeOK
<1>3. IdsGiven'
  BY <1>1 DEF IdsGiven
<1>4. MarkedLoans' = MarkedLoans \ {id}
  BY <1>1 DEF MarkedLoans
<1>5. NoRepeats(liquidating') /\ Elements(liquidating') = MarkedLoans'
  <2>1. CASE id \notin Listed /\ liquidating' = liquidating
    BY <1>4, <2>1
  <2>2. CASE liquidating' = WithoutId(liquidating, id)
    BY <1>2, <1>4, <2>2, FilterFacts
  <2> QED
    BY <2>1, <2>2
<1>6. ASSUME NEW a \in Accounts
      PROVE  NoRepeats(loansByAccount'[a]) /\ Elements(loansByAccount'[a]) = LoansOf(a)'
  <2>1. LoansOf(a)' = LoansOf(a) \ {id}
    BY <1>1 DEF LoansOf
  <2>2. CASE a = loans[id].who
    <3>1. loansByAccount'[a] = WithoutId(loansByAccount[a], id)
      BY <1>2, <2>2
    <3>2. loansByAccount[a] \in Seq(Nat)
      BY <1>2
    <3> QED
      BY <2>1, <3>1, <3>2, FilterFacts
  <2>3. CASE a # loans[id].who
    <3>1. loansByAccount'[a] = loansByAccount[a]
      BY <1>2, <2>3
    <3>2. id \notin LoansOf(a)
      BY <2>3 DEF LoansOf
    <3> QED
      BY <2>1, <3>1, <3>2
  <2> QED
    BY <2>2, <2>3
<1> QED
  BY <1>3, <1>5, <1>6, BookFromFacts

\* A reverted repayment moves the loan to the end of its owner's list.
LEMMA RevertedKeepsBook ==
  ASSUME BookInv, TypeOK', NEW who \in Accounts, NEW id \in DOMAIN loans, RepayReverted(who, id)
  PROVE  BookInv'
<1> USE BookFacts
<1>1. /\ loansByAccount' = [loansByAccount EXCEPT ![who] = Append(WithoutId(@, id), id)]
      /\ UNCHANGED <<loans, liquidating, nextLoanId>> /\ loans[id].who = who
  BY DEF RepayReverted, CanRepay
<1>2. loansByAccount \in [Accounts -> Seq(Nat)] /\ id \in Nat
  BY DEF BookInv, TypeOK
<1>3. IdsGiven' /\ MarkedLoans' = MarkedLoans /\ \A a \in Accounts : LoansOf(a)' = LoansOf(a)
  BY <1>1 DEF IdsGiven, MarkedLoans, LoansOf
<1>4. ASSUME NEW a \in Accounts
      PROVE  NoRepeats(loansByAccount'[a]) /\ Elements(loansByAccount'[a]) = LoansOf(a)
  <2>1. CASE a = who
    <3> DEFINE rest == WithoutId(loansByAccount[a], id)
    <3>1. loansByAccount[a] \in Seq(Nat)
      BY <1>2
    <3>2. rest \in Seq(Nat) /\ NoRepeats(rest) /\ Elements(rest) = LoansOf(a) \ {id}
      BY <3>1, FilterFacts
    <3>3. loansByAccount'[a] = Append(rest, id)
      BY <1>1, <1>2, <2>1
    <3> HIDE DEF rest
    <3>4. id \in LoansOf(a)
      BY <1>1, <2>1 DEF LoansOf
    <3>5. Elements(Append(rest, id)) = Elements(rest) \cup {id} /\ NoRepeats(Append(rest, id))
      <4>1. id \notin Elements(rest) /\ rest \in Seq(Nat) /\ id \in Nat /\ NoRepeats(rest)
        BY <1>2, <3>2
      <4> HIDE BookFacts
      <4> QED
        BY <4>1, AppendFacts
    <3> QED
      BY <3>2, <3>3, <3>4, <3>5
  <2>2. CASE a # who
    <3>1. loansByAccount'[a] = loansByAccount[a]
      BY <1>1, <1>2, <2>2
    <3> QED
      BY <3>1
  <2> QED
    BY <2>1, <2>2
<1> QED
  BY <1>1, <1>3, <1>4, BookFromFacts

\* A block lists the loans it finds at the threshold.
LEMMA BlockKeepsBook ==
  ASSUME BookInv, TypeOK', Block
  PROVE  BookInv'
<1> USE BookFacts
<1>1. TypeOK
  BY DEF BookInv
<1>2. CASE UNCHANGED book
  BY <1>2, SameListsKeep DEF book, SameLists
<1>3. CASE /\ DOMAIN loans' = DOMAIN loans
           /\ \A id \in DOMAIN loans :
                loans'[id] = [who |-> loans[id].who, original |-> loans[id].original,
                              available |-> loans[id].available, total |-> loans[id].total,
                              status |-> StatusAfter(id)]
           /\ liquidating' = liquidating \o Reverse(InOrder(NewlyListed))
           /\ UNCHANGED <<loansByAccount, totalLoan, totalCollateral, nextLoanId, halted>>
  <2>1. IdsGiven' /\ \A a \in Accounts : LoansOf(a)' = LoansOf(a)
    BY <1>3 DEF IdsGiven, LoansOf
  <2>2. MarkedLoans' = MarkedLoans \cup NewlyListed
    <3>1. MarkedLoans' = {id \in DOMAIN loans : StatusAfter(id) = "Liquidating"}
      BY <1>3 DEF MarkedLoans
    <3>2. ASSUME NEW id \in DOMAIN loans
          PROVE  StatusAfter(id) = "Liquidating" <=> id \in MarkedLoans \/ id \in NewlyListed
      <4>1. CASE id \in Listed
        BY <4>1 DEF StatusAfter, Judged, NewlyListed, MarkedLoans
      <4>2. CASE id \notin Listed
        BY <4>2 DEF StatusAfter, Judged, NewlyListed, MarkedLoans, HealthOf
      <4> QED
        BY <4>1, <4>2
    <3>3. MarkedLoans \subseteq DOMAIN loans /\ NewlyListed \subseteq DOMAIN loans
      BY DEF MarkedLoans, NewlyListed, Judged
    <3> QED
      BY <3>1, <3>2, <3>3
  <2>3. NoRepeats(liquidating') /\ Elements(liquidating') = MarkedLoans'
    <3> DEFINE more == Reverse(InOrder(NewlyListed))
    <3>1. more \in Seq(Nat) /\ Elements(more) = NewlyListed /\ NoRepeats(more)
      BY <1>1, NewlyListedFacts
    <3>2. liquidating' = liquidating \o more
      BY <1>3
    <3>3. Elements(liquidating) \cap NewlyListed = {}
      BY DEF NewlyListed, Judged
    <3>4. liquidating \in Seq(Nat)
      BY <1>1 DEF TypeOK
    <3> HIDE DEF more
    <3>5. NoRepeats(liquidating \o more) /\ Elements(liquidating \o more) = Elements(liquidating) \cup NewlyListed
      <4>1. NoRepeats(liquidating) /\ Elements(liquidating) \cap Elements(more) = {}
        BY <3>1, <3>3
      <4> HIDE BookFacts
      <4> QED
        BY <3>1, <3>4, <4>1, JoinFacts
    <3> QED
      BY <2>2, <3>2, <3>5
  <2> QED
    BY <1>3, <2>1, <2>3, BookFromFacts
<1> QED
  BY <1>1, <1>2, <1>3, BlockLoans

LEMMA BookNext ==
  ASSUME BookInv, [Next]_vars
  PROVE  BookInv'
<1>1. TypeOK /\ IdsGiven /\ TypeOK'
  BY BookFacts, TypeNext DEF BookInv
<1>2. CASE Block
  BY <1>1, <1>2, BlockKeepsBook
<1>3. ASSUME NEW who \in Users, UserCall(who) PROVE BookInv'
  <2>0. who \in Accounts
    BY UsersAssumption
  <2>1. ASSUME NEW amount, Stake(who, amount) \/ Redeem(who, amount) PROVE BookInv'
    <3>1. UNCHANGED book
      BY <2>1 DEF Stake, Redeem, Becomes
    <3> QED
      BY <1>1, <3>1, SameListsKeep DEF SameLists, book
  <2>2. ASSUME NEW a \in Applications, Apply(who, a[1], a[2]) PROVE BookInv'
    BY <1>1, <2>0, <2>2, ApplyKeepsBook
  <2>3. ASSUME NEW id \in DOMAIN loans, Repay(who, id) PROVE BookInv'
    <3>1. loans[id].who = who /\ id \notin Listed
      BY <2>3 DEF Repay, CanRepay
    <3> QED
      BY <1>1, <2>3, <3>1, RemovalKeepsBook DEF Repay
  <2>4. ASSUME NEW id \in DOMAIN loans, RepayReverted(who, id) PROVE BookInv'
    BY <1>1, <2>0, <2>4, RevertedKeepsBook
  <2>5. ASSUME NEW id \in DOMAIN loans, NEW amount, AddCollateral(who, id, amount) PROVE BookInv'
    <3>1. UNCHANGED <<loansByAccount, liquidating, nextLoanId>>
      BY <2>5 DEF AddCollateral
    <3>2. /\ DOMAIN loans' = DOMAIN loans
          /\ \A i \in DOMAIN loans \ {id} : loans'[i] = loans[i]
      BY <1>1, <2>5, AddedLoan
    <3>3. loans'[id].who = loans[id].who /\ loans'[id].status = loans[id].status
      BY <1>1, <2>5, AddedLoan
    <3>4. SameLists
      BY <3>1, <3>2, <3>3 DEF SameLists
    <3> QED
      BY <1>1, <3>4, SameListsKeep
  <2>6. ASSUME NEW id \in DOMAIN loans, NEW amount, Draw(who, id, amount) PROVE BookInv'
    <3>1. UNCHANGED <<loansByAccount, liquidating, nextLoanId>>
      BY <2>6 DEF Draw
    <3>2. /\ DOMAIN loans' = DOMAIN loans
          /\ \A i \in DOMAIN loans \ {id} : loans'[i] = loans[i]
      BY <1>1, <2>6, DrawnLoan
    <3>3. loans'[id].who = loans[id].who /\ loans'[id].status = loans[id].status
      BY <1>1, <2>6, DrawnLoan
    <3>4. SameLists
      BY <3>1, <3>2, <3>3 DEF SameLists
    <3> QED
      BY <1>1, <3>4, SameListsKeep
  <2> QED
    BY <1>3, <2>1, <2>2, <2>3, <2>4, <2>5, <2>6 DEF UserCall
<1>4. CASE Settlement
  <2>1. PICK id \in DOMAIN loans, extra \in AuctionExtras :
          \/ MarkLiquidated(id, loans[id].total + extra)
          \/ MarkWithoutPenalty(id, loans[id].total + extra)
          \/ MarkWithoutShare(id, loans[id].total + extra)
    BY <1>4 DEF Settlement
  <2>2. CASE MarkLiquidated(id, loans[id].total + extra)
    BY <1>1, <2>2, RemovalKeepsBook DEF MarkLiquidated
  <2>3. CASE \/ MarkWithoutPenalty(id, loans[id].total + extra)
             \/ MarkWithoutShare(id, loans[id].total + extra)
    <3>1. UNCHANGED book
      BY <2>3 DEF MarkWithoutPenalty, MarkWithoutShare
    <3> QED
      BY <1>1, <3>1, SameListsKeep DEF SameLists, book
  <2> QED
    BY <2>1, <2>2, <2>3
<1>5. CASE UNCHANGED book
  BY <1>1, <1>5, SameListsKeep DEF SameLists, book
<1>6. RootCall => UNCHANGED book
  BY DEF RootCall, SetPaused, Configure
<1>7. ASSUME PublishPrices PROVE UNCHANGED book
  BY <1>7 DEF PublishPrices
<1>8. UNCHANGED vars => UNCHANGED book
  BY DEF vars, book
<1> QED
  BY <1>2, <1>3, <1>4, <1>5, <1>6, <1>7, <1>8 DEF Next

\* The storage of the pool has its types, and the three views of the loan book, Loans,
\* LoansByAccount and LiquidatingLoans, agree, in every reachable state.
THEOREM BookCorrect == Spec => [](TypeOK /\ LoanBookConsistent /\ LiquidatingConsistent)
<1>1. InitState => BookInv
  BY BookInit
<1>2. BookInv /\ [Next]_vars => BookInv'
  BY BookNext
<1>3. BookInv => TypeOK /\ LoanBookConsistent /\ LiquidatingConsistent
  BY DEF BookInv
<1> QED
  BY <1>1, <1>2, <1>3, PTL DEF Spec

\* No step, failing half-way or not, leaves a balance, a setting or a loan outside its type.
THEOREM PoolTypeCorrect == Spec => []TypeOK
<1>1. TypeOK /\ LoanBookConsistent /\ LiquidatingConsistent => TypeOK
  OBVIOUS
<1> QED
  BY <1>1, BookCorrect, PTL

\* The list for the auction and the status of the loans agree, however blocks, draws,
\* repayments and settlements alternate.
THEOREM ListIsMarked == Spec => []LiquidatingConsistent
<1>1. TypeOK /\ LoanBookConsistent /\ LiquidatingConsistent => LiquidatingConsistent
  OBVIOUS
<1> QED
  BY <1>1, BookCorrect, PTL

\* What is listed stays listed until it is settled.
LEMMA ListedStays ==
  ASSUME BookInv, [Next]_vars, NEW id \in Listed
  PROVE  id \in Listed' \/ id \notin DOMAIN loans'
<1>1. ASSUME liquidating' = liquidating PROVE id \in Listed'
  BY <1>1 DEF Listed
<1>2. ASSUME Block PROVE id \in Listed'
  <2>1. TypeOK /\ IdsGiven /\ Listed = Elements(liquidating)
    BY BookFacts DEF BookInv
  <2>2. CASE UNCHANGED book
    BY <1>1, <2>2 DEF book
  <2>3. CASE liquidating' = liquidating \o Reverse(InOrder(NewlyListed))
    <3> DEFINE more == Reverse(InOrder(NewlyListed))
    <3>1. more \in Seq(Nat) /\ liquidating \in Seq(Nat)
      BY <2>1, NewlyListedFacts DEF TypeOK
    <3>2. liquidating' = liquidating \o more
      BY <2>3
    <3> HIDE DEF more
    <3>3. Elements(liquidating \o more) = Elements(liquidating) \cup Elements(more)
      BY <3>1, JoinFacts
    <3> QED
      BY <2>1, <3>2, <3>3 DEF Elements, Listed
  <2> QED
    BY <1>2, <2>1, <2>2, <2>3, BlockLoans
<1>3. ASSUME NEW who, UserCall(who) PROVE liquidating' = liquidating
  BY <1>3 DEF UserCall, Stake, Redeem, Becomes, Apply, Repay, RepayReverted, AddCollateral, Draw, book
<1>4. ASSUME NEW i \in DOMAIN loans, NEW auction, MarkLiquidated(i, auction)
      PROVE  id \in Listed' \/ id \notin DOMAIN loans'
  <2>1. liquidating \in Seq(Nat) /\ Listed = Elements(liquidating)
    BY BookFacts DEF BookInv, TypeOK
  <2>2. liquidating' = WithoutId(liquidating, i) /\ loans' = WithoutLoan(i)
    BY <1>4 DEF MarkLiquidated
  <2>3. Elements(liquidating') = Elements(liquidating) \ {i}
    BY <2>1, <2>2, FilterFacts
  <2>4. CASE id = i
    BY <2>2, <2>4 DEF WithoutLoan
  <2>5. CASE id # i
    BY <2>1, <2>3, <2>5 DEF Listed, Elements
  <2> QED
    BY <2>4, <2>5
<1>5. ASSUME NEW i, NEW auction, MarkWithoutPenalty(i, auction) \/ MarkWithoutShare(i, auction)
      PROVE  liquidating' = liquidating
  BY <1>5 DEF MarkWithoutPenalty, MarkWithoutShare, book
<1>6. ASSUME \/ RootCall
             \/ PublishPrices
             \/ UNCHANGED vars
      PROVE  liquidating' = liquidating
  BY <1>6 DEF RootCall, SetPaused, Configure, PublishPrices, book, vars
<1>7. ASSUME Settlement PROVE id \in Listed' \/ id \notin DOMAIN loans'
  <2>1. PICK i \in DOMAIN loans, extra \in AuctionExtras :
          \/ MarkLiquidated(i, loans[i].total + extra)
          \/ MarkWithoutPenalty(i, loans[i].total + extra)
          \/ MarkWithoutShare(i, loans[i].total + extra)
    BY <1>7 DEF Settlement
  <2> QED
    BY <1>1, <1>4, <1>5, <2>1
<1> QED
  BY <1>1, <1>2, <1>3, <1>6, <1>7 DEF Next

\* A loan listed for liquidation stays listed until it is settled.
THEOREM LiquidationStays == Spec => LiquidationSticks
<1>1. BookInv /\ [Next]_vars => [\A id \in Listed : id \in Listed' \/ id \notin DOMAIN loans']_vars
  BY ListedStays
<1> QED
  BY <1>1, BookInit, BookNext, PTL DEF Spec, LiquidationSticks

-----------------------------------------------------------------------------
(***************************************************************************)
(* What the running loans add up to, and how each kind of step changes it. *)
(***************************************************************************)
OwedBy == [id \in DOMAIN loans |-> loans[id].total]
PledgedBy == [id \in DOMAIN loans |-> loans[id].original]

LEMMA SumsOfLoans ==
  ASSUME BookInv
  PROVE  /\ IsFiniteSet(DOMAIN loans)
         /\ \A id \in DOMAIN loans : loans[id].total \in Nat /\ loans[id].original \in Nat
         /\ OwedInAll = SumFunction(OwedBy) /\ OwedInAll \in Nat
         /\ PledgedInAll = SumFunction(PledgedBy) /\ PledgedInAll \in Nat
         /\ \A id \in DOMAIN loans :
              loans[id].total <= OwedInAll /\ loans[id].original <= PledgedInAll
<1>1. IsFiniteSet(DOMAIN loans)
  BY LoansFinite, BookFacts DEF BookInv
<1>2. \A id \in DOMAIN loans : loans[id].total \in Nat /\ loans[id].original \in Nat
  BY ConstantFacts DEF BookInv, TypeOK, Loan
<1>3. /\ OwedInAll \in Nat /\ PledgedInAll \in Nat
      /\ \A id \in DOMAIN loans : loans[id].total <= OwedInAll /\ loans[id].original <= PledgedInAll
  <2>1. SumFunction(OwedBy) \in Nat /\ \A id \in DOMAIN OwedBy : OwedBy[id] <= SumFunction(OwedBy)
    BY <1>1, <1>2, SumFunctionNat DEF OwedBy
  <2>2. SumFunction(PledgedBy) \in Nat /\ \A id \in DOMAIN PledgedBy : PledgedBy[id] <= SumFunction(PledgedBy)
    BY <1>1, <1>2, SumFunctionNat DEF PledgedBy
  <2>3. \A id \in DOMAIN loans : OwedBy[id] = loans[id].total /\ PledgedBy[id] = loans[id].original
    BY DEF OwedBy, PledgedBy
  <2>4. DOMAIN OwedBy = DOMAIN loans /\ DOMAIN PledgedBy = DOMAIN loans
    BY DEF OwedBy, PledgedBy
  <2>5. OwedInAll = SumFunction(OwedBy) /\ PledgedInAll = SumFunction(PledgedBy)
    BY DEF OwedInAll, PledgedInAll, OwedBy, PledgedBy
  <2> QED
    BY <2>1, <2>2, <2>3, <2>4, <2>5
<1> QED
  BY <1>1, <1>2, <1>3 DEF OwedInAll, PledgedInAll, OwedBy, PledgedBy

LEMMA ByFacts ==
  /\ DOMAIN OwedBy = DOMAIN loans /\ DOMAIN PledgedBy = DOMAIN loans
  /\ \A id \in DOMAIN loans : OwedBy[id] = loans[id].total /\ PledgedBy[id] = loans[id].original
BY DEF OwedBy, PledgedBy

\* The loans stay, with what is owed and pledged.
LEMMA SumsSame ==
  ASSUME BookInv, BookInv', DOMAIN loans' = DOMAIN loans,
         \A id \in DOMAIN loans :
           loans'[id].total = loans[id].total /\ loans'[id].original = loans[id].original
  PROVE  OwedInAll' = OwedInAll /\ PledgedInAll' = PledgedInAll
<1>1. OwedBy' = OwedBy /\ PledgedBy' = PledgedBy
  BY DEF OwedBy, PledgedBy
<1> QED
  BY <1>1 DEF OwedInAll, PledgedInAll, OwedBy, PledgedBy

\* One loan is given.
LEMMA SumsAdd ==
  ASSUME BookInv, BookInv', NEW id, id \notin DOMAIN loans, DOMAIN loans' = DOMAIN loans \cup {id},
         \A i \in DOMAIN loans : loans'[i] = loans[i]
  PROVE  /\ OwedInAll' = OwedInAll + loans'[id].total
         /\ PledgedInAll' = PledgedInAll + loans'[id].original
<1> DEFINE f == OwedBy
           g == OwedBy'
           h == PledgedBy
           k == PledgedBy'
<1>1. /\ DOMAIN f = DOMAIN loans /\ DOMAIN h = DOMAIN loans
      /\ DOMAIN g = DOMAIN loans \cup {id} /\ DOMAIN k = DOMAIN loans \cup {id}
      /\ g[id] = loans'[id].total /\ k[id] = loans'[id].original
      /\ \A i \in DOMAIN loans : g[i] = f[i] /\ k[i] = h[i]
      /\ \A i \in DOMAIN loans' : g[i] \in Int /\ k[i] \in Int
      /\ IsFiniteSet(DOMAIN loans)
  <2>1. \A i \in DOMAIN loans' : loans'[i].total \in Nat /\ loans'[i].original \in Nat
    BY ConstantFacts DEF BookInv, TypeOK, Loan
  <2> QED
    BY <2>1, ByFacts, SumsOfLoans DEF OwedBy, PledgedBy
<1>2. OwedInAll = SumFunction(f) /\ OwedInAll' = SumFunction(g)
      /\ PledgedInAll = SumFunction(h) /\ PledgedInAll' = SumFunction(k)
  BY DEF OwedInAll, PledgedInAll, OwedBy, PledgedBy
<1> HIDE DEF f, g, h, k
<1>3. SumFunction(g) = SumFunction(f) + g[id]
  BY <1>1, SumFunctionAdd
<1>4. SumFunction(k) = SumFunction(h) + k[id]
  BY <1>1, SumFunctionAdd
<1> QED
  BY <1>1, <1>2, <1>3, <1>4

\* One loan leaves the book.
LEMMA SumsRemove ==
  ASSUME BookInv, NEW id \in DOMAIN loans, loans' = WithoutLoan(id)
  PROVE  /\ OwedInAll' = OwedInAll - loans[id].total
         /\ PledgedInAll' = PledgedInAll - loans[id].original
<1> DEFINE f == OwedBy
           g == OwedBy'
           h == PledgedBy
           k == PledgedBy'
<1>1. /\ DOMAIN f = DOMAIN loans /\ DOMAIN h = DOMAIN loans
      /\ f[id] = loans[id].total /\ h[id] = loans[id].original
      /\ \A i \in DOMAIN loans : f[i] \in Int /\ h[i] \in Int
      /\ IsFiniteSet(DOMAIN loans)
  BY ByFacts, SumsOfLoans
<1>2. /\ DOMAIN g = DOMAIN loans \ {id} /\ DOMAIN k = DOMAIN loans \ {id}
      /\ \A i \in DOMAIN loans \ {id} : g[i] = f[i] /\ k[i] = h[i]
  BY DEF OwedBy, PledgedBy, WithoutLoan
<1>3. OwedInAll = SumFunction(f) /\ OwedInAll' = SumFunction(g)
      /\ PledgedInAll = SumFunction(h) /\ PledgedInAll' = SumFunction(k)
  BY DEF OwedInAll, PledgedInAll, OwedBy, PledgedBy
<1> HIDE DEF f, g, h, k
<1>4. SumFunction(g) = SumFunction(f) - f[id]
  BY <1>1, <1>2, SumFunctionRemove
<1>5. SumFunction(k) = SumFunction(h) - h[id]
  BY <1>1, <1>2, SumFunctionRemove
<1> QED
  BY <1>1, <1>3, <1>4, <1>5

\* One loan changes.
LEMMA SumsChange ==
  ASSUME BookInv, BookInv', NEW id \in DOMAIN loans, DOMAIN loans' = DOMAIN loans,
         \A i \in DOMAIN loans \ {id} : loans'[i] = loans[i]
  PROVE  /\ OwedInAll' = OwedInAll - loans[id].total + loans'[id].total
         /\ PledgedInAll' = PledgedInAll - loans[id].original + loans'[id].original
<1> DEFINE f == OwedBy
           g == OwedBy'
           h == PledgedBy
           k == PledgedBy'
<1>1. /\ DOMAIN f = DOMAIN loans /\ DOMAIN h = DOMAIN loans
      /\ f[id] = loans[id].total /\ h[id] = loans[id].original
      /\ \A i \in DOMAIN loans : f[i] \in Int /\ h[i] \in Int
      /\ IsFiniteSet(DOMAIN loans)
  BY ByFacts, SumsOfLoans
<1>2. /\ DOMAIN g = DOMAIN loans /\ DOMAIN k = DOMAIN loans
      /\ g[id] = loans'[id].total /\ k[id] = loans'[id].original
      /\ \A i \in DOMAIN loans \ {id} : g[i] = f[i] /\ k[i] = h[i]
      /\ \A i \in DOMAIN loans : g[i] \in Int /\ k[i] \in Int
  <2>1. \A i \in DOMAIN loans' : loans'[i].total \in Nat /\ loans'[i].original \in Nat
    BY ConstantFacts DEF BookInv, TypeOK, Loan
  <2> QED
    BY <2>1 DEF OwedBy, PledgedBy
<1>3. OwedInAll = SumFunction(f) /\ OwedInAll' = SumFunction(g)
      /\ PledgedInAll = SumFunction(h) /\ PledgedInAll' = SumFunction(k)
  BY DEF OwedInAll, PledgedInAll, OwedBy, PledgedBy
<1> HIDE DEF f, g, h, k
<1>4. SumFunction(g) = SumFunction(f) - f[id] + g[id]
  BY <1>1, <1>2, SumFunctionChange
<1>5. SumFunction(k) = SumFunction(h) - h[id] + k[id]
  BY <1>1, <1>2, SumFunctionChange
<1> QED
  BY <1>1, <1>2, <1>3, <1>4, <1>5

-----------------------------------------------------------------------------
(***************************************************************************)
(* The totals. TotalLoan and TotalCollateral are unchecked sums, which     *)
(* liquidations and reverted repayments leave too high; a theorem about    *)
(* them needs that no such sum has passed the width of a balance.          *)
(***************************************************************************)
\* A step by which no loan leaves the book lowers neither total: no addition
\* to a total wraps.
TotalsHold ==
  DOMAIN loans \subseteq DOMAIN loans' =>
    totalLoan' >= totalLoan /\ totalCollateral' >= totalCollateral
TotalsNeverWrap == [][TotalsHold]_vars

LEMMA WrapFacts ==
  ASSUME NEW m \in Balance, NEW n \in Balance
  PROVE  /\ Wrapped(m + n) >= m => Wrapped(m + n) = m + n
         /\ m + n <= MaxBalance => Wrapped(m + n) = m + n
         /\ m >= n => Wrapped(m - n) = m - n
BY MaxBalanceAssumption DEF Wrapped, Balance

LEMMA TotalsTypes ==
  ASSUME BookInv
  PROVE  /\ totalLoan \in Balance /\ totalCollateral \in Balance
         /\ totalLoan \in Nat /\ totalCollateral \in Nat
BY ConstantFacts DEF BookInv, TypeOK

\* What a loan application adds to the book, and to the totals.
LEMMA AppliedSums ==
  ASSUME BookInv, BookInv', NEW who \in Accounts,
         NEW collateral \in Balance, NEW loan \in Balance, Apply(who, collateral, loan)
  PROVE  LET actual == CollateralLoan(collateral, loan) IN
         /\ actual.collateral \in Balance /\ actual.loan \in Balance
         /\ OwedInAll' = OwedInAll + actual.loan
         /\ PledgedInAll' = PledgedInAll + actual.collateral
         /\ actual.loan >= loan
<1> DEFINE actual == CollateralLoan(collateral, loan)
<1>1. actual.collateral \in Balance /\ actual.loan \in Balance
  BY CollateralLoanType DEF Apply, BookInv
<1>2. /\ DOMAIN loans' = DOMAIN loans \cup {nextLoanId}
      /\ \A i \in DOMAIN loans : loans'[i] = loans[i]
      /\ loans'[nextLoanId].total = actual.loan /\ loans'[nextLoanId].original = actual.collateral
      /\ nextLoanId \notin DOMAIN loans
  BY BookFacts DEF Apply, WithLoan
<1>3. actual.loan >= loan
  BY <1>1, ConstantFacts DEF CollateralLoan
<1> HIDE DEF actual
<1>4. OwedInAll' = OwedInAll + actual.loan /\ PledgedInAll' = PledgedInAll + actual.collateral
  BY <1>2, SumsAdd
<1> QED
  BY <1>1, <1>3, <1>4 DEF actual

LEMMA AppliedAmounts ==
  ASSUME BookInv, BookInv', TotalsHold, NEW who \in Accounts,
         NEW collateral \in Balance, NEW loan \in Balance, Apply(who, collateral, loan)
  PROVE  LET actual == CollateralLoan(collateral, loan) IN
         /\ actual.collateral \in Balance /\ actual.loan \in Balance
         /\ totalLoan' = totalLoan + actual.loan
         /\ totalCollateral' = totalCollateral + actual.collateral
         /\ OwedInAll' = OwedInAll + actual.loan
         /\ PledgedInAll' = PledgedInAll + actual.collateral
<1> DEFINE actual == CollateralLoan(collateral, loan)
<1>1. DOMAIN loans \subseteq DOMAIN loans'
  BY DEF Apply, WithLoan
<1>2. totalLoan' = Wrapped(totalLoan + actual.loan) /\ totalCollateral' = Wrapped(totalCollateral + actual.collateral)
  BY DEF Apply
<1> HIDE DEF actual
<1>3. /\ actual.collateral \in Balance /\ actual.loan \in Balance
      /\ OwedInAll' = OwedInAll + actual.loan /\ PledgedInAll' = PledgedInAll + actual.collateral
  BY AppliedSums DEF actual
<1>4. totalLoan' >= totalLoan /\ totalCollateral' >= totalCollateral
  BY <1>1 DEF TotalsHold
<1>5. totalLoan' = totalLoan + actual.loan /\ totalCollateral' = totalCollateral + actual.collateral
  BY <1>2, <1>3, <1>4, TotalsTypes, WrapFacts
<1> QED
  BY <1>3, <1>5 DEF actual

\* What collateral that is added adds to the book.
LEMMA AddedAmounts ==
  ASSUME BookInv, BookInv', TotalsCoverLoans, TotalsHold, NEW who, NEW id \in DOMAIN loans,
         NEW amount \in Balance, AddCollateral(who, id, amount)
  PROVE  /\ totalCollateral' = totalCollateral + amount /\ totalLoan' = totalLoan
         /\ loans'[id].original = loans[id].original + amount
         /\ OwedInAll' = OwedInAll /\ PledgedInAll' = PledgedInAll + amount
<1>1. TypeOK
  BY DEF BookInv
<1>2. /\ DOMAIN loans' = DOMAIN loans
      /\ \A i \in DOMAIN loans \ {id} : loans'[i] = loans[i]
      /\ loans'[id].original = Wrapped(loans[id].original + amount)
      /\ loans'[id].total = loans[id].total
  <2>1. DOMAIN loans' = DOMAIN loans
    BY <1>1, AddedLoan
  <2>2. \A i \in DOMAIN loans \ {id} : loans'[i] = loans[i]
    BY <1>1, AddedLoan
  <2>3. loans'[id].original = Wrapped(loans[id].original + amount)
    BY <1>1 DEF AddCollateral, TypeOK, Loan
  <2>4. loans'[id].total = loans[id].total
    BY <1>1, AddedLoan
  <2> QED
    BY <2>1, <2>2, <2>3, <2>4
<1>3. totalCollateral' = Wrapped(totalCollateral + amount) /\ totalLoan' = totalLoan
  BY DEF AddCollateral
<1>4. totalCollateral' >= totalCollateral
  BY <1>2 DEF TotalsHold
<1>5. totalCollateral' = totalCollateral + amount
  BY <1>3, <1>4, TotalsTypes, WrapFacts
<1>6. loans[id].original \in Balance /\ loans[id].total \in Nat
  BY <1>1, ConstantFacts DEF TypeOK, Loan
<1>7. loans[id].original <= totalCollateral
  BY <1>6, SumsOfLoans, TotalsTypes, ConstantFacts DEF TotalsCoverLoans
<1>8. totalCollateral + amount <= MaxBalance
  <2>1. totalCollateral' \in Balance
    BY ConstantFacts DEF BookInv, TypeOK
  <2> QED
    BY <1>5, <2>1, ConstantFacts
<1>9. loans'[id].original = loans[id].original + amount
  <2>1. loans[id].original + amount <= MaxBalance
    BY <1>6, <1>7, <1>8, TotalsTypes, ConstantFacts
  <2> QED
    BY <1>2, <1>6, <2>1, WrapFacts
<1>10. /\ OwedInAll' = OwedInAll - loans[id].total + loans'[id].total
       /\ PledgedInAll' = PledgedInAll - loans[id].original + loans'[id].original
  BY <1>2, SumsChange
<1>11. OwedInAll \in Nat /\ PledgedInAll \in Nat /\ loans[id].original \in Nat /\ amount \in Nat
  BY <1>6, SumsOfLoans, ConstantFacts
<1> QED
  BY <1>2, <1>3, <1>5, <1>6, <1>9, <1>10, <1>11

\* What is drawn adds to the debt.
LEMMA DrawnAmounts ==
  ASSUME BookInv, BookInv', TotalsCoverLoans, TotalsHold, NEW who, NEW id \in DOMAIN loans,
         NEW amount \in Balance, Draw(who, id, amount)
  PROVE  /\ totalLoan' = totalLoan + amount /\ totalCollateral' = totalCollateral
         /\ loans'[id].total = loans[id].total + amount
         /\ OwedInAll' = OwedInAll + amount /\ PledgedInAll' = PledgedInAll
<1>1. TypeOK
  BY DEF BookInv
<1>2. /\ DOMAIN loans' = DOMAIN loans
      /\ \A i \in DOMAIN loans \ {id} : loans'[i] = loans[i]
      /\ loans'[id].total = Wrapped(loans[id].total + amount)
      /\ loans'[id].original = loans[id].original
  <2>1. DOMAIN loans' = DOMAIN loans
    BY <1>1, DrawnLoan
  <2>2. \A i \in DOMAIN loans \ {id} : loans'[i] = loans[i]
    BY <1>1, DrawnLoan
  <2>3. loans'[id].original = loans[id].original
    BY <1>1, DrawnLoan
  <2>4. loans'[id].total = Wrapped(loans[id].total + amount)
    BY <1>1 DEF Draw, TypeOK, Loan
  <2> QED
    BY <2>1, <2>2, <2>3, <2>4
<1>3. totalLoan' = Wrapped(totalLoan + amount) /\ totalCollateral' = totalCollateral
  BY DEF Draw
<1>4. totalLoan' >= totalLoan
  BY <1>2 DEF TotalsHold
<1>5. totalLoan' = totalLoan + amount
  BY <1>3, <1>4, TotalsTypes, WrapFacts
<1>6. loans[id].total \in Balance /\ loans[id].original \in Nat
  BY <1>1, ConstantFacts DEF TypeOK, Loan
<1>7. loans[id].total <= totalLoan
  BY <1>6, SumsOfLoans, TotalsTypes, ConstantFacts DEF TotalsCoverLoans
<1>8. totalLoan + amount <= MaxBalance
  <2>1. totalLoan' \in Balance
    BY ConstantFacts DEF BookInv, TypeOK
  <2> QED
    BY <1>5, <2>1, ConstantFacts
<1>9. loans'[id].total = loans[id].total + amount
  <2>1. loans[id].total + amount <= MaxBalance
    BY <1>6, <1>7, <1>8, TotalsTypes, ConstantFacts
  <2> QED
    BY <1>2, <1>6, <2>1, WrapFacts
<1>10. /\ OwedInAll' = OwedInAll - loans[id].total + loans'[id].total
       /\ PledgedInAll' = PledgedInAll - loans[id].original + loans'[id].original
  BY <1>2, SumsChange
<1>11. OwedInAll \in Nat /\ PledgedInAll \in Nat /\ loans[id].total \in Nat /\ amount \in Nat
  BY <1>6, SumsOfLoans, ConstantFacts
<1> QED
  BY <1>2, <1>3, <1>5, <1>6, <1>9, <1>10, <1>11

\* A repaid loan takes what it owed, and what was pledged for it, out of the totals.
LEMMA RepaidAmounts ==
  ASSUME BookInv, TotalsCoverLoans, NEW who, NEW id \in DOMAIN loans, Repay(who, id)
  PROVE  /\ totalLoan' = totalLoan - loans[id].total
         /\ totalCollateral' = totalCollateral - loans[id].original
         /\ OwedInAll' = OwedInAll - loans[id].total
         /\ PledgedInAll' = PledgedInAll - loans[id].original
<1>1. /\ loans[id].total \in Balance /\ loans[id].original \in Balance
      /\ loans[id].total \in Nat /\ loans[id].original \in Nat
  BY ConstantFacts DEF BookInv, TypeOK, Loan
<1>2. loans[id].total <= totalLoan /\ loans[id].original <= totalCollateral
  BY <1>1, SumsOfLoans, TotalsTypes DEF TotalsCoverLoans
<1>3. /\ totalLoan' = Wrapped(totalLoan - loans[id].total)
      /\ totalCollateral' = Wrapped(totalCollateral - loans[id].original)
      /\ loans' = WithoutLoan(id)
  BY DEF Repay
<1>4. totalLoan' = totalLoan - loans[id].total /\ totalCollateral' = totalCollateral - loans[id].original
  BY <1>1, <1>2, <1>3, TotalsTypes, WrapFacts
<1> QED
  BY <1>3, <1>4, SumsRemove

LEMMA TotalsNext ==
  ASSUME BookInv, BookInv', TotalsCoverLoans, [Next]_vars, [TotalsHold]_vars
  PROVE  TotalsCoverLoans'
<1>0. /\ OwedInAll \in Nat /\ PledgedInAll \in Nat /\ totalLoan \in Nat /\ totalCollateral \in Nat
      /\ totalLoan >= OwedInAll /\ totalCollateral >= PledgedInAll
  BY SumsOfLoans, TotalsTypes DEF TotalsCoverLoans
<1>1. CASE /\ DOMAIN loans' = DOMAIN loans /\ UNCHANGED <<totalLoan, totalCollateral>>
           /\ \A id \in DOMAIN loans :
                loans'[id].total = loans[id].total /\ loans'[id].original = loans[id].original
  BY <1>0, <1>1, SumsSame DEF TotalsCoverLoans
<1>2. CASE UNCHANGED book
  BY <1>1, <1>2 DEF book
<1>3. CASE Block
  <2>1. TypeOK
    BY DEF BookInv
  <2>2. CASE /\ DOMAIN loans' = DOMAIN loans /\ UNCHANGED <<totalLoan, totalCollateral>>
             /\ \A id \in DOMAIN loans :
                  loans'[id] = [who |-> loans[id].who, original |-> loans[id].original,
                                available |-> loans[id].available, total |-> loans[id].total,
                                status |-> StatusAfter(id)]
    <3>1. \A id \in DOMAIN loans :
            loans'[id].total = loans[id].total /\ loans'[id].original = loans[id].original
      BY <2>2
    <3> QED
      BY <1>1, <2>2, <3>1
  <2> QED
    BY <1>2, <1>3, <2>1, <2>2, BlockLoans
<1>4. ASSUME NEW who \in Users, UserCall(who), TotalsHold PROVE TotalsCoverLoans'
  <2>0. who \in Accounts
    BY UsersAssumption
  <2>1. ASSUME NEW amount, Stake(who, amount) \/ Redeem(who, amount) PROVE TotalsCoverLoans'
    BY <1>2, <2>1 DEF Stake, Redeem, Becomes
  <2>2. ASSUME NEW a \in Applications, Apply(who, a[1], a[2]) PROVE TotalsCoverLoans'
    <3> DEFINE actual == CollateralLoan(a[1], a[2])
    <3>1. a[1] \in Balance /\ a[2] \in Balance
      BY ConstantFacts
    <3>2. /\ totalLoan' = totalLoan + actual.loan /\ OwedInAll' = OwedInAll + actual.loan
          /\ totalCollateral' = totalCollateral + actual.collateral
          /\ PledgedInAll' = PledgedInAll + actual.collateral
          /\ actual.loan \in Nat /\ actual.collateral \in Nat
      BY <1>4, <2>0, <2>2, <3>1, AppliedAmounts, ConstantFacts
    <3> HIDE DEF actual
    <3> QED
      BY <1>0, <3>2 DEF TotalsCoverLoans
  <2>3. ASSUME NEW id \in DOMAIN loans, Repay(who, id) PROVE TotalsCoverLoans'
    <3>1. loans[id].total \in Nat /\ loans[id].original \in Nat
      BY SumsOfLoans
    <3> QED
      BY <1>0, <2>3, <3>1, RepaidAmounts DEF TotalsCoverLoans
  <2>4. ASSUME NEW id \in DOMAIN loans, RepayReverted(who, id) PROVE TotalsCoverLoans'
    <3>1. loans' = loans
      BY <2>4 DEF RepayReverted
    <3>2. totalLoan' >= totalLoan /\ totalCollateral' >= totalCollateral
      BY <1>4, <3>1 DEF TotalsHold
    <3>3. totalLoan' \in Nat /\ totalCollateral' \in Nat
      BY ConstantFacts DEF BookInv, TypeOK
    <3>4. OwedInAll' = OwedInAll /\ PledgedInAll' = PledgedInAll
      BY <3>1, SumsSame
    <3> QED
      BY <1>0, <3>2, <3>3, <3>4 DEF TotalsCoverLoans
  <2>5. ASSUME NEW id \in DOMAIN loans, NEW amount \in AddAmounts, AddCollateral(who, id, amount)
        PROVE  TotalsCoverLoans'
    <3>1. amount \in Balance /\ amount \in Nat
      BY ConstantFacts
    <3> QED
      BY <1>0, <1>4, <2>5, <3>1, AddedAmounts DEF TotalsCoverLoans
  <2>6. ASSUME NEW id \in DOMAIN loans, NEW amount \in DrawAmounts, Draw(who, id, amount)
        PROVE  TotalsCoverLoans'
    <3>1. amount \in Balance /\ amount \in Nat
      BY ConstantFacts
    <3> QED
      BY <1>0, <1>4, <2>6, <3>1, DrawnAmounts DEF TotalsCoverLoans
  <2> QED
    BY <1>4, <2>1, <2>2, <2>3, <2>4, <2>5, <2>6 DEF UserCall
<1>5. CASE Settlement
  <2>1. PICK id \in DOMAIN loans, extra \in AuctionExtras :
          \/ MarkLiquidated(id, loans[id].total + extra)
          \/ MarkWithoutPenalty(id, loans[id].total + extra)
          \/ MarkWithoutShare(id, loans[id].total + extra)
    BY <1>5 DEF Settlement
  <2>2. CASE MarkLiquidated(id, loans[id].total + extra)
    <3>1. loans' = WithoutLoan(id) /\ UNCHANGED <<totalLoan, totalCollateral>>
      BY <2>2 DEF MarkLiquidated
    <3>2. /\ OwedInAll' = OwedInAll - loans[id].total /\ PledgedInAll' = PledgedInAll - loans[id].original
          /\ loans[id].total \in Nat /\ loans[id].original \in Nat
      BY <3>1, SumsRemove, SumsOfLoans
    <3> QED
      BY <1>0, <3>1, <3>2 DEF TotalsCoverLoans
  <2>3. CASE \/ MarkWithoutPenalty(id, loans[id].total + extra)
             \/ MarkWithoutShare(id, loans[id].total + extra)
    BY <1>2, <2>3 DEF MarkWithoutPenalty, MarkWithoutShare
  <2> QED
    BY <2>1, <2>2, <2>3
<1>6. RootCall => UNCHANGED book
  BY DEF RootCall, SetPaused, Configure
<1>7. ASSUME PublishPrices PROVE UNCHANGED book
  BY <1>7 DEF PublishPrices
<1>8. CASE UNCHANGED vars
  BY <1>2, <1>8 DEF vars, book
<1>9. CASE TotalsHold /\ Next
  BY <1>2, <1>3, <1>4, <1>5, <1>6, <1>7, <1>9 DEF Next
<1> QED
  BY <1>8, <1>9

LEMMA TotalsInit == InitState => TotalsCoverLoans
<1> SUFFICES ASSUME InitState PROVE TotalsCoverLoans
  OBVIOUS
<1>1. DOMAIN loans = {} /\ totalLoan = 0 /\ totalCollateral = 0
  BY DEF InitState
<1>2. OwedInAll = 0 /\ PledgedInAll = 0
  BY <1>1, SumOfNone DEF OwedInAll, PledgedInAll, SumFunction
<1> QED
  BY <1>1, <1>2 DEF TotalsCoverLoans

\* As long as no addition to a total wraps, the totals cover the running loans,
\* so that no subtraction of a repayment wraps either, whatever was liquidated,
\* reverted or drawn in between.
THEOREM TotalsCovered == Spec /\ TotalsNeverWrap => []TotalsCoverLoans
<1>1. InitState => TotalsCoverLoans
  BY TotalsInit
<1>2. BookInv /\ BookInv' /\ TotalsCoverLoans /\ [Next]_vars /\ [TotalsHold]_vars => TotalsCoverLoans'
  BY TotalsNext
<1> QED
  BY <1>1, <1>2, BookInit, BookNext, PTL DEF Spec, TotalsNeverWrap

-----------------------------------------------------------------------------
(***************************************************************************)
(* Balances the pool may reach: every asset still adds up to its genesis   *)
(* sum, so a transfer that is afforded never wraps.                        *)
(***************************************************************************)
Funded(f) ==
  /\ f \in [AssetIds -> Sheet]
  /\ \A asset \in AssetIds : SumOf(f[asset]) = SumOf(GenesisFree[asset])

LEMMA FundedType ==
  ASSUME NEW f, Funded(f)
  PROVE  \A asset \in AssetIds, a \in Accounts :
           f[asset][a] \in Balance /\ f[asset][a] \in Nat
BY ConstantFacts DEF Funded, Sheet

\* A transfer that is afforded moves the amount and nothing else.
LEMMA PaidFacts ==
  ASSUME NEW f, Funded(f), NEW asset \in AssetIds, NEW from \in Accounts, NEW to \in Accounts,
         NEW amount \in Balance, Affords(f, asset, from, amount)
  PROVE  /\ Funded(Paid(f, asset, from, to, amount))
         /\ \A b \in AssetIds, a \in Accounts :
              b # asset \/ a \notin {from, to} =>
                Paid(f, asset, from, to, amount)[b][a] = f[b][a]
         /\ from # to =>
              /\ Paid(f, asset, from, to, amount)[asset][from] = f[asset][from] - amount
              /\ Paid(f, asset, from, to, amount)[asset][to] = f[asset][to] + amount
         /\ from = to => Paid(f, asset, from, to, amount) = f
<1> DEFINE sheet == f[asset]
           g == Paid(f, asset, from, to, amount)
           h == AfterTransfer(sheet, from, to, amount)
<1>1. sheet \in Sheet /\ f \in [AssetIds -> Sheet]
  BY DEF Funded
<1>2. SumOf(sheet) <= MaxBalance
  BY GenesisAssumption, ConstantFacts DEF Funded
<1>3. CanTransfer(sheet, from, amount)
  BY DEF Affords
<1>4. /\ h \in Sheet /\ SumOf(h) = SumOf(sheet)
      /\ from # to => h = [sheet EXCEPT ![from] = @ - amount, ![to] = @ + amount]
      /\ from = to => h = sheet
  <2>1. from = to => h = sheet
    BY DEF AfterTransfer
  <2> HIDE DEF sheet
  <2> QED
    BY <1>1, <1>2, <1>3, <2>1, TransferKeepsSum
<1>5. g = [f EXCEPT ![asset] = h]
  BY DEF Paid
<1>6. from # to => /\ \A a \in Accounts \ {from, to} : h[a] = sheet[a]
                   /\ h[from] = sheet[from] - amount /\ h[to] = sheet[to] + amount
  BY <1>1, <1>4 DEF Sheet
<1> HIDE DEF h, g
<1>7. g[asset] = h /\ \A b \in AssetIds \ {asset} : g[b] = f[b]
  BY <1>1, <1>5
<1>8. Funded(g)
  BY <1>1, <1>4, <1>5, <1>7 DEF Funded
<1>9. from = to => g = f
  BY <1>1, <1>4, <1>5
<1> QED
  BY <1>6, <1>7, <1>8, <1>9 DEF g

-----------------------------------------------------------------------------
(***************************************************************************)
(* Savings. The two dtoken counters never part, so a dtoken is bought and  *)
(* paid out at one unit.                                                   *)
(***************************************************************************)
CashIn(s) == s.free[config.collectionAsset][config.collectionAccount]
PaidBy(s, t, who) ==
  s.free[config.collectionAsset][who] - t.free[config.collectionAsset][who]

\* What a saver's call makes of the storage s it finds: it adds to the counter what
\* the saver pays the pool, touches no third account and nobody else's dtokens, and
\* gives the saver at least as many dtokens as were paid for; one who ends up with
\* less has more of them.
SavingStep(s, t, who) ==
  /\ t \in SavingStates /\ Funded(t.free) /\ t.market = t.total
  /\ CashIn(t) - t.total = CashIn(s) - s.total
  /\ t.total - s.total = PaidBy(s, t, who)
  /\ \A asset \in AssetIds, a \in Accounts :
       asset # config.collectionAsset \/ a \notin {who, config.collectionAccount} =>
         t.free[asset][a] = s.free[asset][a]
  /\ \A other \in Accounts \ {who} : t.dtoken[other] = s.dtoken[other]
  /\ t.dtoken[who] >= s.dtoken[who] /\ t.dtoken[who] - s.dtoken[who] >= PaidBy(s, t, who)
  /\ \/ t.free[config.collectionAsset][who] >= s.free[config.collectionAsset][who]
     \/ t.dtoken[who] > s.dtoken[who]

LEMMA StakeStep ==
  ASSUME config \in Config, NEW s \in SavingStates, Funded(s.free), s.market = s.total,
         NEW who \in Accounts, who # config.collectionAccount, NEW amount \in Balance,
         ~StakeRefused(s, who, amount), ~StakePanics(s, who, amount)
  PROVE  SavingStep(s, AfterStake(s, who, amount), who)
<1> DEFINE t == AfterStake(s, who, amount)
           asset == config.collectionAsset
           pool == config.collectionAccount
<1>1. asset \in AssetIds /\ pool \in Accounts
  BY DEF Config
<1>2. amount \in Nat /\ amount > 0 /\ s.total \in Nat /\ s.market \in Nat /\ s.dtoken[who] \in Nat
      /\ s.dtoken \in Sheet
  BY ConstantFacts DEF StakeRefused, SavingStates, Sheet
<1>3. DtokensFor(s, amount) = amount
  <2>1. s.total # 0 => (amount * s.total) \div s.total = amount
    BY <1>2
  <2> QED
    BY <2>1 DEF DtokensFor
<1>4. t \in SavingStates
  BY AfterStakeType
<1>5. /\ t.free = Paid(s.free, asset, who, pool, amount) /\ t.dtoken = [s.dtoken EXCEPT ![who] = @ + amount]
      /\ t.market = s.market + amount /\ t.total = s.market + amount
  BY <1>3 DEF AfterStake
<1>6. /\ t.dtoken[who] = s.dtoken[who] + amount
      /\ \A other \in Accounts \ {who} : t.dtoken[other] = s.dtoken[other]
  BY <1>2, <1>5 DEF Sheet
<1> HIDE DEF t
<1>7. Affords(s.free, asset, who, amount)
  BY DEF StakeRefused
<1>8. /\ Funded(t.free) /\ t.free[asset][pool] = s.free[asset][pool] + amount
      /\ t.free[asset][who] = s.free[asset][who] - amount
      /\ \A b \in AssetIds, a \in Accounts :
           b # asset \/ a \notin {who, pool} => t.free[b][a] = s.free[b][a]
  BY <1>1, <1>5, <1>7, PaidFacts
<1>9. s.free[asset][pool] \in Nat /\ s.free[asset][who] \in Nat
  BY <1>1, FundedType
<1>10. CashIn(t) - t.total = CashIn(s) - s.total
  <2>1. CashIn(t) = CashIn(s) + amount /\ CashIn(s) \in Nat
    BY <1>8, <1>9 DEF CashIn
  <2> QED
    BY <1>2, <1>5, <2>1
<1>11. t.market = t.total /\ t.dtoken[who] > s.dtoken[who]
  BY <1>2, <1>5, <1>6
<1>12. PaidBy(s, t, who) = amount
  BY <1>2, <1>8, <1>9 DEF PaidBy
<1>13. t.total - s.total = amount /\ t.dtoken[who] - s.dtoken[who] >= amount
  BY <1>2, <1>5, <1>6
<1> QED
  BY <1>2, <1>4, <1>6, <1>8, <1>10, <1>11, <1>12, <1>13 DEF SavingStep, t

LEMMA RedeemStep ==
  ASSUME config \in Config, NEW s \in SavingStates, Funded(s.free), s.market = s.total,
         NEW who \in Accounts, who # config.collectionAccount,
         ~RedeemPanics(s), ~RedeemAllRefused(s, who)
  PROVE  SavingStep(s, AfterRedeemAll(s, who), who)
<1> DEFINE t == AfterRedeemAll(s, who)
           asset == config.collectionAsset
           pool == config.collectionAccount
           n == s.dtoken[who]
<1>1. asset \in AssetIds /\ pool \in Accounts
  BY DEF Config
<1>2. s.total \in Balance /\ s.total \in Nat /\ n \in Balance /\ n \in Nat
  BY ConstantFacts DEF SavingStates, Sheet
<1>3. WillGet(s, who) = n
  <2>1. s.total # 0
    BY DEF RedeemPanics
  <2>2. s.total \div s.total = 1
    BY <1>2, <2>1
  <2>3. n \div 1 = n
    BY <1>2
  <2> QED
    BY <2>2, <2>3 DEF WillGet
<1>4. t \in SavingStates
  BY AfterRedeemType
<1>5. s.total >= n
  BY <1>2 DEF RedeemAllRefused
<1>6. /\ t.free = Paid(s.free, asset, pool, who, n) /\ t.dtoken = s.dtoken
      /\ t.market = s.total - n /\ t.total = s.total - n
  <2>1. Wrapped(s.total - n) = s.total - n
    BY <1>2, <1>5, WrapFacts
  <2> QED
    BY <1>3, <2>1 DEF AfterRedeemAll
<1> HIDE DEF t
<1>7. Affords(s.free, asset, pool, n)
  BY <1>3 DEF RedeemAllRefused
<1>8. /\ Funded(t.free) /\ t.free[asset][pool] = s.free[asset][pool] - n
      /\ t.free[asset][who] = s.free[asset][who] + n
      /\ \A b \in AssetIds, a \in Accounts :
           b # asset \/ a \notin {who, pool} => t.free[b][a] = s.free[b][a]
  BY <1>1, <1>2, <1>6, <1>7, PaidFacts
<1>9. s.free[asset][pool] \in Nat /\ s.free[asset][who] \in Nat
  BY <1>1, FundedType
<1>10. CashIn(t) - t.total = CashIn(s) - s.total
  <2>1. CashIn(t) = CashIn(s) - n /\ CashIn(s) \in Nat
    BY <1>8, <1>9 DEF CashIn
  <2> QED
    BY <1>2, <1>6, <2>1
<1>11. t.market = t.total /\ t.dtoken[who] = n /\ t.free[asset][who] >= s.free[asset][who]
  BY <1>2, <1>6, <1>8, <1>9
<1>12. t.dtoken[who] >= s.dtoken[who]
  BY <1>2, <1>11
<1>13. PaidBy(s, t, who) = 0 - n
  BY <1>2, <1>8, <1>9 DEF PaidBy
<1>14. t.total - s.total = 0 - n /\ t.dtoken[who] - s.dtoken[who] >= 0 - n
  BY <1>2, <1>6, <1>11
<1>15. \A other \in Accounts \ {who} : t.dtoken[other] = s.dtoken[other]
  BY <1>6
<1> QED
  BY <1>4, <1>8, <1>10, <1>11, <1>12, <1>13, <1>14, <1>15 DEF SavingStep, t

LEMMA SavingStepsCompose ==
  ASSUME config \in Config, NEW r \in SavingStates, Funded(r.free), NEW s, NEW t, NEW who \in Accounts,
         SavingStep(r, s, who), SavingStep(s, t, who)
  PROVE  SavingStep(r, t, who)
<1>1. config.collectionAsset \in AssetIds /\ config.collectionAccount \in Accounts
  BY DEF Config
<1>2. /\ s \in SavingStates /\ t \in SavingStates
      /\ Funded(r.free) /\ Funded(s.free) /\ Funded(t.free)
  BY DEF SavingStep
<1>3. /\ CashIn(r) \in Int /\ CashIn(s) \in Int /\ CashIn(t) \in Int
      /\ r.total \in Int /\ s.total \in Int /\ t.total \in Int
      /\ r.dtoken[who] \in Int /\ s.dtoken[who] \in Int /\ t.dtoken[who] \in Int
      /\ r.free[config.collectionAsset][who] \in Int
      /\ s.free[config.collectionAsset][who] \in Int
      /\ t.free[config.collectionAsset][who] \in Int
  BY <1>1, <1>2, FundedType, ConstantFacts DEF CashIn, SavingStates, Sheet
<1>4. CashIn(t) - t.total = CashIn(r) - r.total
  BY <1>3 DEF SavingStep
<1>5. /\ t.dtoken[who] >= r.dtoken[who]
      /\ \/ t.free[config.collectionAsset][who] >= r.free[config.collectionAsset][who]
         \/ t.dtoken[who] > r.dtoken[who]
  <2>1. t.dtoken[who] >= s.dtoken[who] /\ s.dtoken[who] >= r.dtoken[who]
    BY DEF SavingStep
  <2>2. /\ \/ t.free[config.collectionAsset][who] >= s.free[config.collectionAsset][who]
           \/ t.dtoken[who] > s.dtoken[who]
        /\ \/ s.free[config.collectionAsset][who] >= r.free[config.collectionAsset][who]
           \/ s.dtoken[who] > r.dtoken[who]
    BY DEF SavingStep
  <2> QED
    BY <1>3, <2>1, <2>2
<1>6. /\ \A asset \in AssetIds, a \in Accounts :
           asset # config.collectionAsset \/ a \notin {who, config.collectionAccount} =>
             t.free[asset][a] = r.free[asset][a]
      /\ \A other \in Accounts \ {who} : t.dtoken[other] = r.dtoken[other]
  BY DEF SavingStep
<1>7. /\ t.total - s.total = PaidBy(s, t, who) /\ s.total - r.total = PaidBy(r, s, who)
      /\ t.dtoken[who] - s.dtoken[who] >= PaidBy(s, t, who)
      /\ s.dtoken[who] - r.dtoken[who] >= PaidBy(r, s, who)
  BY DEF SavingStep
<1>8. /\ t.total - r.total = PaidBy(r, t, who)
      /\ t.dtoken[who] - r.dtoken[who] >= PaidBy(r, t, who)
  BY <1>3, <1>7 DEF PaidBy
<1> QED
  BY <1>2, <1>4, <1>5, <1>6, <1>8 DEF SavingStep

LEMMA SavingStepIdle ==
  ASSUME config \in Config, NEW s \in SavingStates, Funded(s.free), s.market = s.total,
         NEW who \in Accounts
  PROVE  SavingStep(s, s, who)
<1>1. config.collectionAsset \in AssetIds
  BY DEF Config
<1>2. /\ s.dtoken[who] \in Nat /\ s.free[config.collectionAsset][who] \in Nat
      /\ s.total \in Nat
  BY <1>1, FundedType, ConstantFacts DEF SavingStates, Sheet
<1>3. /\ s.total - s.total = 0 /\ PaidBy(s, s, who) = 0
      /\ s.dtoken[who] - s.dtoken[who] >= 0
  BY <1>2 DEF PaidBy
<1> QED
  BY <1>2, <1>3 DEF SavingStep

\* The state of the pool the rest of the proofs start from: the loan book is
\* consistent, no money was made, a dtoken is worth one unit, the official
\* accounts are no users and every borrower is one.
OfficialsApart ==
  {config.collectionAccount, config.profitPool, config.liquidationAccount} \cap Users = {}
BorrowersAreUsers == \A id \in DOMAIN loans : loans[id].who \in Users
PoolInv == BookInv /\ Funded(free) /\ RateIsOne /\ OfficialsApart /\ BorrowersAreUsers

LEMMA PoolFacts ==
  ASSUME PoolInv
  PROVE  /\ BookInv /\ TypeOK /\ Funded(free) /\ config \in Config
         /\ config.collectionAsset \in AssetIds /\ config.collateralAsset \in AssetIds
         /\ config.loanAsset \in AssetIds
         /\ config.collectionAccount \in Accounts /\ config.profitPool \in Accounts
         /\ config.liquidationAccount \in Accounts
         /\ config.collectionAccount \notin Users /\ config.profitPool \notin Users
         /\ config.liquidationAccount \notin Users
         /\ PawnShop \in Accounts /\ PawnShop \notin Users /\ Users \subseteq Accounts
<1>1. config \in Config /\ TypeOK
  BY DEF PoolInv, BookInv, TypeOK
<1> QED
  BY <1>1, ConstantFacts DEF PoolInv, OfficialsApart, Config

\* What staking and redeeming do to the storage of the savings.
LEMMA SavingCall ==
  ASSUME PoolInv, NEW who \in Users, NEW amount \in Balance,
         Stake(who, amount) \/ Redeem(who, amount)
  PROVE  \E t : SavingStep(SavingState, t, who) /\ Becomes(t)
<1> DEFINE s == SavingState
<1>1. /\ config \in Config /\ who \in Accounts /\ who # config.collectionAccount /\ TypeOK
      /\ config.collectionAccount \in Accounts
  BY PoolFacts
<1>2. s \in SavingStates /\ Funded(s.free) /\ s.market = s.total
  BY <1>1, SavingStateType DEF PoolInv, RateIsOne, SavingState
<1>3. ASSUME Stake(who, amount) PROVE SavingStep(s, AfterStake(s, who, amount), who)
  <2>1. ~StakeRefused(s, who, amount) /\ ~StakePanics(s, who, amount)
    BY <1>3 DEF Stake
  <2> HIDE DEF s
  <2> QED
    BY <1>1, <1>2, <2>1, StakeStep
<1>4. ASSUME Redeem(who, amount)
      PROVE  \E t : SavingStep(s, t, who) /\ Becomes(t)
  <2> DEFINE r == Redeemed(s, who)
             rest == WillGet(s, who) - amount
  <2>1. /\ r \in SavingStates /\ rest \in Balance
        /\ ~StakeRefused(r, who, rest) => ~StakePanics(r, who, rest)
        /\ Becomes(Restaked(r, who, rest))
    BY <1>1, <1>4, RedeemStates
  <2>2. ~RedeemPanics(s)
    BY <1>4 DEF Redeem
  <2> HIDE DEF s
  <2>3. SavingStep(s, r, who)
    BY <1>1, <1>2, <2>2, RedeemStep, SavingStepIdle DEF Redeemed
  <2> HIDE DEF r, rest
  <2>4. Funded(r.free) /\ r.market = r.total
    BY <2>3 DEF SavingStep
  <2>5. SavingStep(r, Restaked(r, who, rest), who)
    BY <1>1, <2>1, <2>4, StakeStep, SavingStepIdle DEF Restaked
  <2>6. SavingStep(s, Restaked(r, who, rest), who)
    BY <1>1, <1>2, <2>3, <2>5, SavingStepsCompose
  <2> QED
    BY <2>1, <2>6
<1> QED
  BY <1>3, <1>4 DEF Stake

-----------------------------------------------------------------------------
(***************************************************************************)
(* Loans. What each call moves, transfer by transfer.                      *)
(***************************************************************************)
LEMMA AppliedMoves ==
  ASSUME PoolInv, NEW who \in Users, NEW collateral \in Balance, NEW loan \in Balance,
         Apply(who, collateral, loan)
  PROVE  /\ Funded(free')
         /\ \A asset \in AssetIds, a \in Users \ {who} : free'[asset][a] = free[asset][a]
         /\ free'[config.collectionAsset][config.collectionAccount] >= Cash - loan
         /\ config.collectionAccount # PawnShop =>
              free'[config.collateralAsset][PawnShop]
                = free[config.collateralAsset][PawnShop] + CollateralLoan(collateral, loan).collateral
<1> DEFINE n == CollateralLoan(collateral, loan).collateral
           cash == config.collectionAsset
           pledge == config.collateralAsset
           pool == config.collectionAccount
           g == Paid(free, pledge, who, PawnShop, n)
<1>1. n \in Balance
  BY PoolFacts, CollateralLoanType DEF Apply
<1>2. /\ Affords(free, pledge, who, n) /\ free' = Paid(g, cash, pool, who, loan)
      /\ free[cash][pool] >= loan
  BY DEF Apply, Cash
<1>3. /\ cash \in AssetIds /\ pledge \in AssetIds /\ pool \in Accounts /\ who \in Accounts
      /\ PawnShop \in Accounts /\ pool # who /\ PawnShop # who /\ Funded(free)
      /\ pool \notin Users /\ PawnShop \notin Users /\ Users \subseteq Accounts
  BY PoolFacts
<1> HIDE DEF n, cash, pledge, pool
<1>4. /\ Funded(g)
      /\ \A b \in AssetIds, a \in Accounts :
           b # pledge \/ a \notin {who, PawnShop} => g[b][a] = free[b][a]
      /\ g[pledge][who] = free[pledge][who] - n
      /\ g[pledge][PawnShop] = free[pledge][PawnShop] + n
  BY <1>1, <1>2, <1>3, PaidFacts
<1> HIDE DEF g
<1>5. /\ \A b \in AssetIds, a \in Accounts : free[b][a] \in Nat /\ g[b][a] \in Nat
      /\ n \in Nat /\ loan \in Nat
  BY <1>1, <1>3, <1>4, FundedType, ConstantFacts
<1>6. g[cash][pool] >= free[cash][pool]
  <2>1. CASE cash = pledge /\ pool = PawnShop
    BY <1>3, <1>4, <1>5, <2>1
  <2>2. CASE ~(cash = pledge /\ pool = PawnShop)
    BY <1>3, <1>4, <1>5, <2>2
  <2> QED
    BY <2>1, <2>2
<1>7. Affords(g, cash, pool, loan)
  <2>1. g[cash][pool] >= loan
    BY <1>2, <1>3, <1>5, <1>6
  <2> QED
    BY <2>1 DEF Affords, CanTransfer
<1>8. /\ Funded(free')
      /\ \A b \in AssetIds, a \in Accounts :
           b # cash \/ a \notin {pool, who} => free'[b][a] = g[b][a]
      /\ free'[cash][pool] = g[cash][pool] - loan
  BY <1>2, <1>3, <1>4, <1>7, PaidFacts
<1>9. \A asset \in AssetIds, a \in Users \ {who} : free'[asset][a] = free[asset][a]
  BY <1>3, <1>4, <1>8
<1>10. free'[cash][pool] >= free[cash][pool] - loan
  BY <1>3, <1>5, <1>6, <1>8
<1>11. pool # PawnShop => free'[pledge][PawnShop] = free[pledge][PawnShop] + n
  BY <1>3, <1>4, <1>8
<1> QED
  BY <1>8, <1>9, <1>10, <1>11 DEF n, cash, pledge, pool, Cash

LEMMA RepaidMoves ==
  ASSUME PoolInv, NEW who \in Users, NEW id \in DOMAIN loans, Repay(who, id)
  PROVE  /\ Funded(free')
         /\ \A asset \in AssetIds, a \in Users \ {who} : free'[asset][a] = free[asset][a]
         /\ config.collectionAccount # PawnShop =>
              /\ free'[config.loanAsset][config.collectionAccount]
                   = free[config.loanAsset][config.collectionAccount] + loans[id].total
              /\ free'[config.collateralAsset][PawnShop]
                   = free[config.collateralAsset][PawnShop] - loans[id].original
<1> DEFINE owed == loans[id].total
           back == loans[id].original
           lent == config.loanAsset
           pledge == config.collateralAsset
           pool == config.collectionAccount
           g == Paid(free, lent, who, pool, owed)
<1>1. owed \in Balance /\ back \in Balance
  BY PoolFacts DEF TypeOK, Loan
<1>2. /\ Affords(free, lent, who, owed) /\ free' = Paid(g, pledge, PawnShop, who, back)
      /\ Affords(g, pledge, PawnShop, back)
  BY DEF Repay, CanRepay, PaidBack, Returnable
<1>3. /\ lent \in AssetIds /\ pledge \in AssetIds /\ pool \in Accounts /\ who \in Accounts
      /\ PawnShop \in Accounts /\ pool # who /\ PawnShop # who /\ Funded(free)
      /\ pool \notin Users /\ PawnShop \notin Users /\ Users \subseteq Accounts
  BY PoolFacts
<1> HIDE DEF owed, back, lent, pledge, pool
<1>4. /\ Funded(g)
      /\ \A b \in AssetIds, a \in Accounts :
           b # lent \/ a \notin {who, pool} => g[b][a] = free[b][a]
      /\ g[lent][pool] = free[lent][pool] + owed
  BY <1>1, <1>2, <1>3, PaidFacts
<1> HIDE DEF g
<1>5. /\ Funded(free')
      /\ \A b \in AssetIds, a \in Accounts :
           b # pledge \/ a \notin {PawnShop, who} => free'[b][a] = g[b][a]
      /\ free'[pledge][PawnShop] = g[pledge][PawnShop] - back
  BY <1>1, <1>2, <1>3, <1>4, PaidFacts
<1>6. \A asset \in AssetIds, a \in Users \ {who} : free'[asset][a] = free[asset][a]
  BY <1>3, <1>4, <1>5
<1>7. pool # PawnShop => /\ free'[lent][pool] = free[lent][pool] + owed
                         /\ free'[pledge][PawnShop] = free[pledge][PawnShop] - back
  BY <1>3, <1>4, <1>5
<1> QED
  BY <1>5, <1>6, <1>7 DEF owed, back, lent, pledge, pool

LEMMA AddedMoves ==
  ASSUME PoolInv, NEW who \in Users, NEW id \in DOMAIN loans, NEW amount \in Balance,
         AddCollateral(who, id, amount)
  PROVE  /\ Funded(free')
         /\ \A asset \in AssetIds, a \in Users \ {who} : free'[asset][a] = free[asset][a]
         /\ amount = 0 => free' = free
         /\ free'[config.collectionAsset][config.collectionAccount] >= Cash
<1> DEFINE cash == config.collectionAsset
           pool == config.collectionAccount
<1>1. Affords(free, cash, who, amount) /\ free' = Paid(free, cash, who, PawnShop, amount)
  BY DEF AddCollateral
<1>2. /\ cash \in AssetIds /\ pool \in Accounts /\ who \in Accounts
      /\ PawnShop \in Accounts /\ pool # who /\ PawnShop # who /\ Funded(free)
      /\ Users \subseteq Accounts /\ PawnShop \notin Users
  BY PoolFacts
<1> HIDE DEF cash, pool
<1>3. /\ Funded(free')
      /\ \A b \in AssetIds, a \in Accounts :
           b # cash \/ a \notin {who, PawnShop} => free'[b][a] = free[b][a]
      /\ free'[cash][who] = free[cash][who] - amount
      /\ free'[cash][PawnShop] = free[cash][PawnShop] + amount
  BY <1>1, <1>2, PaidFacts
<1>4. \A b \in AssetIds, a \in Accounts : free[b][a] \in Nat /\ amount \in Nat
  BY <1>2, FundedType, ConstantFacts
<1>5. \A asset \in AssetIds, a \in Users \ {who} : free'[asset][a] = free[asset][a]
  BY <1>2, <1>3
<1>6. free'[cash][pool] >= free[cash][pool]
  BY <1>2, <1>3, <1>4
<1>7. ASSUME amount = 0 PROVE free' = free
  <2>1. \A b \in AssetIds, a \in Accounts : free'[b][a] = free[b][a]
    BY <1>2, <1>3, <1>4, <1>7
  <2>2. free \in [AssetIds -> [Accounts -> Balance]] /\ free' \in [AssetIds -> [Accounts -> Balance]]
    BY <1>2, <1>3 DEF Funded, Sheet
  <2>3. \A b \in AssetIds : free'[b] = free[b]
    BY <2>1, <2>2
  <2> QED
    BY <2>2, <2>3
<1> QED
  BY <1>3, <1>5, <1>6, <1>7 DEF cash, pool, Cash

\* The liquidation account pays the loan, and an exact auction moves nothing else.
LEMMA CoveredMoves ==
  ASSUME PoolInv, NEW id \in DOMAIN loans, NEW auction \in Nat, CanMark(id, auction)
  PROVE  /\ Funded(Covered(id))
         /\ \A asset \in AssetIds, a \in Accounts :
              a \notin {config.collectionAccount, config.liquidationAccount} =>
                Covered(id)[asset][a] = free[asset][a]
         /\ config.liquidationAccount # config.collectionAccount =>
              Covered(id)[config.loanAsset][config.collectionAccount]
                = free[config.loanAsset][config.collectionAccount] + loans[id].total
<1> DEFINE owed == loans[id].total
           lent == config.loanAsset
           pool == config.collectionAccount
           payer == config.liquidationAccount
<1>1. lent \in AssetIds /\ pool \in Accounts /\ payer \in Accounts /\ Funded(free)
  BY PoolFacts
<1>2. owed \in Balance /\ auction \in Balance
  BY PoolFacts, SettlementAmounts
<1>3. free[lent][payer] >= auction /\ auction >= owed
  BY DEF CanMark, Affords, CanTransfer
<1>4. Covered(id) = Paid(free, lent, payer, pool, owed)
  BY DEF Covered, InLoanAsset
<1> HIDE DEF owed, lent, pool, payer
<1>5. free[lent][payer] \in Nat /\ owed \in Nat /\ auction \in Nat
  BY <1>1, <1>2, FundedType, ConstantFacts
<1>6. Affords(free, lent, payer, owed)
  <2>1. free[lent][payer] >= owed
    BY <1>3, <1>5
  <2> QED
    BY <2>1 DEF Affords, CanTransfer
<1>7. /\ Funded(Covered(id))
      /\ \A asset \in AssetIds, a \in Accounts :
           a \notin {pool, payer} => Covered(id)[asset][a] = free[asset][a]
      /\ payer # pool => Covered(id)[lent][pool] = free[lent][pool] + owed
  BY <1>1, <1>2, <1>4, <1>6, PaidFacts
<1> QED
  BY <1>7 DEF owed, lent, pool, payer

\* Money an official account can afford to pay raises every other balance or leaves it.
LEMMA OfficialPays ==
  ASSUME PoolInv, NEW f, Funded(f), NEW asset \in AssetIds, NEW from \in Accounts \ Users,
         NEW to \in Accounts, NEW amount \in Balance, Affords(f, asset, from, amount)
  PROVE  /\ Funded(Paid(f, asset, from, to, amount))
         /\ \A b \in AssetIds, a \in Users : Paid(f, asset, from, to, amount)[b][a] >= f[b][a]
         /\ Paid(f, asset, from, to, amount)[asset][to] >= amount
<1> DEFINE g == Paid(f, asset, from, to, amount)
<1>1. /\ Funded(g)
      /\ \A b \in AssetIds, a \in Accounts :
           b # asset \/ a \notin {from, to} => g[b][a] = f[b][a]
      /\ from # to => g[asset][from] = f[asset][from] - amount /\ g[asset][to] = f[asset][to] + amount
      /\ from = to => g = f
  BY PaidFacts
<1> HIDE DEF g
<1>2. /\ \A b \in AssetIds, a \in Accounts : f[b][a] \in Nat /\ g[b][a] \in Nat
      /\ amount \in Nat /\ Users \subseteq Accounts
  BY <1>1, FundedType, ConstantFacts
<1>3. f[asset][from] >= amount
  BY DEF Affords, CanTransfer
<1>4. \A b \in AssetIds, a \in Users : g[b][a] >= f[b][a]
  <2> SUFFICES ASSUME NEW b \in AssetIds, NEW a \in Users PROVE g[b][a] >= f[b][a]
    OBVIOUS
  <2>1. CASE b # asset \/ a \notin {from, to} \/ from = to
    BY <1>1, <1>2, <2>1
  <2>2. CASE b = asset /\ a = to /\ from # to
    BY <1>1, <1>2, <2>2
  <2> QED
    BY <2>1, <2>2
<1>5. g[asset][to] >= amount
  <2>1. CASE from = to
    BY <1>1, <1>3, <2>1
  <2>2. CASE from # to
    BY <1>1, <1>2, <2>2
  <2> QED
    BY <2>1, <2>2
<1> QED
  BY <1>1, <1>4, <1>5 DEF g

\* However a settlement ends, no money is made and no user pays.
LEMMA SettledMoves ==
  ASSUME PoolInv, NEW id \in DOMAIN loans, NEW auction \in Nat,
         \/ MarkLiquidated(id, auction)
         \/ MarkWithoutPenalty(id, auction)
         \/ MarkWithoutShare(id, auction)
  PROVE  /\ Funded(free')
         /\ \A asset \in AssetIds, a \in Users : free'[asset][a] >= free[asset][a]
<1> DEFINE lent == config.loanAsset
           pool == config.collectionAccount
           payer == config.liquidationAccount
           profit == config.profitPool
           pledge == config.collateralAsset
           owed == loans[id].total
           back == loans[id].original
           owner == loans[id].who
           fine == Penalty(id, auction)
           share == OwnersShare(id, auction)
           g == Covered(id)
           h == Penalised(id, auction)
           UsersKeep(f, k) == \A asset \in AssetIds, a \in Users : k[asset][a] >= f[asset][a]
<1>1. CanMark(id, auction)
  BY DEF MarkLiquidated, MarkWithoutPenalty, MarkWithoutShare
<1>2. /\ owed \in Balance /\ back \in Balance /\ owner \in Accounts
      /\ fine \in Balance /\ share \in Balance /\ Leftover(id, auction) \in Nat
  BY <1>1, PoolFacts, SettlementAmounts, ConstantFacts
<1>3. /\ lent \in AssetIds /\ pledge \in AssetIds
      /\ pool \in Accounts \ Users /\ payer \in Accounts \ Users /\ profit \in Accounts \ Users
      /\ PawnShop \in Accounts \ Users /\ Funded(free) /\ Users \subseteq Accounts
  BY PoolFacts
<1>4. Funded(g) /\ UsersKeep(free, g)
  <2>1. /\ Funded(g)
        /\ \A asset \in AssetIds, a \in Users : g[asset][a] = free[asset][a]
    BY <1>1, <1>3, CoveredMoves
  <2>2. \A asset \in AssetIds, a \in Users : free[asset][a] \in Nat
    BY <1>3, FundedType
  <2> QED
    BY <2>1, <2>2
<1>5. ASSUME Leftover(id, auction) > 0, ~PenaltyFails(id, auction)
      PROVE  Funded(h) /\ UsersKeep(g, h) /\ Affords(h, lent, profit, fine)
  <2>1. h = Paid(g, lent, pool, profit, fine)
    BY DEF Penalised, InLoanAsset
  <2>2. Affords(g, lent, pool, fine)
    BY <1>5 DEF PenaltyFails
  <2> HIDE DEF g, h, lent, pool, profit, fine
  <2>3. Funded(h) /\ UsersKeep(g, h) /\ h[lent][profit] >= fine
    BY <1>2, <1>3, <1>4, <2>1, <2>2, OfficialPays
  <2> QED
    BY <2>3 DEF Affords, CanTransfer
<1>6. ASSUME NEW f, NEW k, NEW l, Funded(f), Funded(k), Funded(l), UsersKeep(f, k), UsersKeep(k, l)
      PROVE  UsersKeep(f, l)
  <2>1. \A asset \in AssetIds, a \in Users :
          f[asset][a] \in Nat /\ k[asset][a] \in Nat /\ l[asset][a] \in Nat
    BY <1>3, <1>6, FundedType
  <2> QED
    BY <1>6, <2>1
<1>7. CASE MarkLiquidated(id, auction)
  <2>1. /\ ~PenaltyFails(id, auction) /\ ~ShareFails(id, auction)
        /\ free' = IF Leftover(id, auction) = 0 THEN g ELSE Paid(h, lent, pool, owner, share)
    BY <1>7 DEF MarkLiquidated, InLoanAsset
  <2>2. CASE Leftover(id, auction) = 0
    BY <1>4, <2>1, <2>2
  <2>3. CASE Leftover(id, auction) > 0
    <3>1. Affords(h, lent, pool, share) /\ free' = Paid(h, lent, pool, owner, share)
      BY <2>1, <2>3 DEF ShareFails
    <3> HIDE DEF g, h, lent, pool, profit, fine, share, owner
    <3>2. Funded(free') /\ UsersKeep(h, free')
      BY <1>2, <1>3, <1>5, <2>1, <2>3, <3>1, OfficialPays
    <3> HIDE DEF UsersKeep
    <3>3. UsersKeep(free, free')
      BY <1>3, <1>4, <1>5, <1>6, <2>1, <2>3, <3>2
    <3> QED
      BY <3>2, <3>3 DEF UsersKeep
  <2> QED
    BY <1>2, <2>2, <2>3
<1>8. CASE MarkWithoutPenalty(id, auction)
  <2>1. free' = IF Affords(g, lent, PawnShop, owed) THEN Paid(g, lent, PawnShop, payer, owed) ELSE g
    BY <1>8 DEF MarkWithoutPenalty, InLoanAsset
  <2> HIDE DEF g, lent, payer, owed
  <2>2. Funded(free') /\ UsersKeep(g, free')
    <3>1. CASE Affords(g, lent, PawnShop, owed)
      BY <1>2, <1>3, <1>4, <2>1, <3>1, OfficialPays
    <3>2. CASE ~Affords(g, lent, PawnShop, owed)
      <4>1. \A asset \in AssetIds, a \in Users : g[asset][a] \in Nat
        BY <1>3, <1>4, FundedType
      <4> QED
        BY <1>4, <2>1, <3>2, <4>1
    <3> QED
      BY <3>1, <3>2
  <2> HIDE DEF UsersKeep
  <2>3. UsersKeep(free, free')
    BY <1>3, <1>4, <1>6, <2>2
  <2> QED
    BY <2>2, <2>3 DEF UsersKeep
<1>9. CASE MarkWithoutShare(id, auction)
  <2> DEFINE r == Paid(h, lent, profit, payer, fine)
  <2>1. /\ Leftover(id, auction) > 0 /\ ~PenaltyFails(id, auction)
        /\ free' = IF Affords(r, pledge, PawnShop, back) THEN Paid(r, pledge, PawnShop, payer, back)
                   ELSE r
    BY <1>9 DEF MarkWithoutShare, InLoanAsset, ShareFails
  <2> HIDE DEF g, h, lent, pool, profit, fine, share, owner, pledge, payer, back
  <2>2. Funded(r) /\ UsersKeep(h, r)
    BY <1>2, <1>3, <1>5, <2>1, OfficialPays
  <2> HIDE DEF r
  <2>3. Funded(free') /\ UsersKeep(r, free')
    <3>1. CASE Affords(r, pledge, PawnShop, back)
      BY <1>2, <1>3, <2>1, <2>2, <3>1, OfficialPays
    <3>2. CASE ~Affords(r, pledge, PawnShop, back)
      <4>1. \A asset \in AssetIds, a \in Users : r[asset][a] \in Nat
        BY <1>3, <2>2, FundedType
      <4> QED
        BY <2>1, <2>2, <3>2, <4>1
    <3> QED
      BY <3>1, <3>2
  <2> HIDE DEF UsersKeep
  <2>4. UsersKeep(free, r)
    BY <1>3, <1>4, <1>5, <1>6, <2>1, <2>2
  <2>5. UsersKeep(free, free')
    BY <1>3, <1>6, <2>2, <2>3, <2>4
  <2> QED
    BY <2>3, <2>5 DEF UsersKeep
<1> QED
  BY <1>7, <1>8, <1>9

-----------------------------------------------------------------------------
(***************************************************************************)
(* PoolInv is inductive.                                                   *)
(***************************************************************************)
LEMMA PoolInit == InitState => PoolInv
<1> SUFFICES ASSUME InitState PROVE PoolInv
  OBVIOUS
<1>1. Funded(free)
  BY GenesisAssumption DEF InitState, Funded
<1>2. RateIsOne /\ BorrowersAreUsers
  BY DEF InitState, RateIsOne, BorrowersAreUsers
<1>3. OfficialsApart
  BY GenesisAssumption DEF InitState, OfficialsApart
<1> QED
  BY <1>1, <1>2, <1>3, BookInit DEF PoolInv

\* Root keeps the official accounts apart from the users.
LEMMA ConfiguredApart ==
  ASSUME PoolInv, NEW setter \in DOMAIN ConfigChoices, NEW value \in ConfigChoices[setter],
         Configure(setter, value)
  PROVE  OfficialsApart'
<1>1. setter \in DOMAIN SetterTypes /\ value \in SetterTypes[setter]
  BY ChoicesAssumption
<1>2. config \in Config /\ OfficialsApart
  BY PoolFacts DEF PoolInv
<1>3. config' = [config EXCEPT ![Written(setter)] =
                   IF setter = "loanCap" /\ value = 0 THEN NoCap ELSE value]
  BY DEF Configure
<1>4. CASE setter \in {"collectionAccount", "profitPool", "liquidationAccount"}
  <2>1. value \notin Users
    BY <1>1, <1>4 DEF SetterTypes, OfficialAccounts
  <2>2. Written(setter) = setter /\ setter # "loanCap"
    BY <1>4 DEF Written
  <2>3. config' = [config EXCEPT ![setter] = value]
    BY <1>3, <2>2
  <2>4. CASE setter = "collectionAccount"
    BY <1>2, <2>1, <2>3, <2>4 DEF OfficialsApart, Config
  <2>5. CASE setter = "profitPool"
    BY <1>2, <2>1, <2>3, <2>5 DEF OfficialsApart, Config
  <2>6. CASE setter = "liquidationAccount"
    BY <1>2, <2>1, <2>3, <2>6 DEF OfficialsApart, Config
  <2> QED
    BY <1>4, <2>4, <2>5, <2>6
<1>5. CASE setter \notin {"collectionAccount", "profitPool", "liquidationAccount"}
  <2>1. Written(setter) \notin {"collectionAccount", "profitPool", "liquidationAccount"}
    BY <1>5 DEF Written
  <2>2. /\ config'.collectionAccount = config.collectionAccount
        /\ config'.profitPool = config.profitPool
        /\ config'.liquidationAccount = config.liquidationAccount
    BY <1>2, <1>3, <2>1 DEF Config
  <2> QED
    BY <1>2, <2>2 DEF OfficialsApart
<1> QED
  BY <1>4, <1>5

LEMMA PoolNext ==
  ASSUME PoolInv, [Next]_vars
  PROVE  PoolInv'
<1>0. BookInv /\ BookInv' /\ TypeOK
  BY BookNext, PoolFacts
<1>1. ASSUME UNCHANGED <<savings, config>>, Funded(free'), BorrowersAreUsers' PROVE PoolInv'
  BY <1>0, <1>1 DEF PoolInv, RateIsOne, savings, OfficialsApart
<1>2. ASSUME UNCHANGED <<savings, config, free>>, BorrowersAreUsers' PROVE PoolInv'
  BY <1>1, <1>2 DEF PoolInv
<1>3. UNCHANGED loans => BorrowersAreUsers'
  BY DEF PoolInv, BorrowersAreUsers
<1>4. ASSUME NEW who \in Users, UserCall(who) PROVE PoolInv'
  <2>1. ASSUME NEW amount \in Balance, Stake(who, amount) \/ Redeem(who, amount) PROVE PoolInv'
    <3>1. PICK t : SavingStep(SavingState, t, who) /\ Becomes(t)
      BY <2>1, SavingCall
    <3>2. Funded(free') /\ RateIsOne' /\ UNCHANGED <<config, loans>>
      BY <3>1 DEF SavingStep, Becomes, RateIsOne, settings, book
    <3> QED
      BY <1>0, <1>3, <3>2 DEF PoolInv, OfficialsApart
  <2>2. ASSUME NEW a \in Applications, Apply(who, a[1], a[2]) PROVE PoolInv'
    <3>1. a[1] \in Balance /\ a[2] \in Balance
      BY ConstantFacts
    <3>2. Funded(free')
      BY <2>2, <3>1, AppliedMoves
    <3>3. BorrowersAreUsers'
      BY <2>2 DEF Apply, WithLoan, BorrowersAreUsers, PoolInv
    <3>4. UNCHANGED <<savings, config>>
      BY <2>2 DEF Apply, settings
    <3> QED
      BY <1>1, <3>2, <3>3, <3>4
  <2>3. ASSUME NEW id \in DOMAIN loans, Repay(who, id) PROVE PoolInv'
    <3>1. Funded(free')
      BY <2>3, RepaidMoves
    <3>2. BorrowersAreUsers'
      BY <2>3 DEF Repay, WithoutLoan, BorrowersAreUsers, PoolInv
    <3>3. UNCHANGED <<savings, config>>
      BY <2>3 DEF Repay, settings
    <3> QED
      BY <1>1, <3>1, <3>2, <3>3
  <2>4. ASSUME NEW id \in DOMAIN loans, RepayReverted(who, id) PROVE PoolInv'
    BY <1>2, <1>3, <2>4 DEF RepayReverted, settings, ledger
  <2>5. ASSUME NEW id \in DOMAIN loans, NEW amount \in AddAmounts, AddCollateral(who, id, amount)
        PROVE  PoolInv'
    <3>1. amount \in Balance
      BY ConstantFacts
    <3>2. Funded(free')
      BY <2>5, <3>1, AddedMoves
    <3>3. BorrowersAreUsers'
      <4>1. /\ DOMAIN loans' = DOMAIN loans /\ loans'[id].who = loans[id].who
            /\ \A i \in DOMAIN loans \ {id} : loans'[i] = loans[i]
        BY <1>0, <2>5, AddedLoan
      <4> QED
        BY <4>1 DEF BorrowersAreUsers, PoolInv
    <3>4. UNCHANGED <<savings, config>>
      BY <2>5 DEF AddCollateral, settings
    <3> QED
      BY <1>1, <3>2, <3>3, <3>4
  <2>6. ASSUME NEW id \in DOMAIN loans, NEW amount \in DrawAmounts, Draw(who, id, amount)
        PROVE  PoolInv'
    <3>1. /\ DOMAIN loans' = DOMAIN loans /\ loans'[id].who = loans[id].who
          /\ \A i \in DOMAIN loans \ {id} : loans'[i] = loans[i]
      BY <1>0, <2>6, DrawnLoan
    <3>2. BorrowersAreUsers'
      BY <3>1 DEF BorrowersAreUsers, PoolInv
    <3>3. UNCHANGED <<savings, config, free>>
      BY <2>6 DEF Draw, settings, ledger
    <3> QED
      BY <1>2, <3>2, <3>3
  <2> QED
    BY <1>4, <2>1, <2>2, <2>3, <2>4, <2>5, <2>6, ConstantFacts DEF UserCall
<1>5. CASE Settlement
  <2>1. PICK id \in DOMAIN loans, extra \in AuctionExtras :
          \/ MarkLiquidated(id, loans[id].total + extra)
          \/ MarkWithoutPenalty(id, loans[id].total + extra)
          \/ MarkWithoutShare(id, loans[id].total + extra)
    BY <1>5 DEF Settlement
  <2>2. loans[id].total + extra \in Nat
    <3>1. loans[id].total \in Nat /\ extra \in Nat
      BY <1>0, ConstantFacts DEF TypeOK, Loan
    <3> QED
      BY <3>1
  <2>3. Funded(free')
    BY <2>1, <2>2, SettledMoves
  <2>4. BorrowersAreUsers'
    BY <1>3, <2>1 DEF MarkLiquidated, MarkWithoutPenalty, MarkWithoutShare, WithoutLoan,
                      BorrowersAreUsers, PoolInv, book
  <2>5. UNCHANGED <<savings, config>>
    BY <2>1 DEF MarkLiquidated, MarkWithoutPenalty, MarkWithoutShare, settings
  <2> QED
    BY <1>1, <2>3, <2>4, <2>5
<1>6. CASE Block
  <2>1. BorrowersAreUsers'
    <3>1. \A id \in DOMAIN loans' : id \in DOMAIN loans /\ loans'[id].who = loans[id].who
      <4>1. CASE UNCHANGED book
        BY <4>1 DEF book
      <4>2. CASE /\ DOMAIN loans' = DOMAIN loans
                 /\ \A id \in DOMAIN loans :
                      loans'[id] = [who |-> loans[id].who, original |-> loans[id].original,
                                    available |-> loans[id].available, total |-> loans[id].total,
                                    status |-> StatusAfter(id)]
        BY <4>2
      <4> QED
        BY <1>0, <1>6, <4>1, <4>2, BlockLoans
    <3> QED
      BY <3>1 DEF BorrowersAreUsers, PoolInv
  <2> QED
    BY <1>2, <1>6, <2>1 DEF Block, settings, ledger
<1>7. ASSUME NEW b \in BOOLEAN, SetPaused(b) PROVE PoolInv'
  BY <1>2, <1>3, <1>7 DEF SetPaused, ledger, book
<1>8. ASSUME NEW setter \in DOMAIN ConfigChoices, NEW value \in ConfigChoices[setter],
             Configure(setter, value)
      PROVE  PoolInv'
  <2>1. OfficialsApart'
    BY <1>8, ConfiguredApart
  <2>2. UNCHANGED <<free, market, total, loans>>
    BY <1>8 DEF Configure, ledger, savings, book
  <2> QED
    BY <1>0, <1>3, <2>1, <2>2 DEF PoolInv, RateIsOne
<1>9. ASSUME PublishPrices PROVE PoolInv'
  BY <1>2, <1>3, <1>9 DEF PublishPrices, settings, book
<1>10. CASE UNCHANGED vars
  BY <1>2, <1>3, <1>10 DEF vars, savings
<1> QED
  BY <1>4, <1>5, <1>6, <1>7, <1>8, <1>9, <1>10 DEF Next, RootCall

\* Whatever is called, staked, lent, repaid, auctioned or reconfigured: no call of
\* the pool makes or destroys a unit of any asset, no transfer wraps, and both
\* dtoken counters, TotalDtoken and MarketDtoken, agree, although staking and
\* redeeming write them separately.
THEOREM PoolIsFunded == Spec => [](RateIsOne /\ Funded(free))
<1>1. PoolInv => RateIsOne /\ Funded(free)
  BY DEF PoolInv
<1> QED
  BY <1>1, PoolInit, PoolNext, PTL DEF Spec

\* What the formula of SavingsAreCredited says of the step.
CreditStep ==
  savings' # savings =>
    \E u \in Users :
      LET paid == free[config.collectionAsset][u] - free'[config.collectionAsset][u] IN
      /\ Cash' - Cash = paid
      /\ market' - market = paid /\ total' - total = paid
      /\ dtoken'[u] - dtoken[u] >= paid /\ dtoken'[u] >= dtoken[u]
      /\ \A other \in Accounts \ {u} : dtoken'[other] = dtoken[other]

\* A saver's call moves the counters by what it moves the saver's money; no other
\* step moves them.
LEMMA CreditNext ==
  ASSUME PoolInv, [Next]_vars
  PROVE  CreditStep
<1>1. ASSUME NEW who \in Users, NEW amount \in Balance, Stake(who, amount) \/ Redeem(who, amount)
      PROVE  CreditStep
  <2> DEFINE s == SavingState
  <2>1. PICK t : SavingStep(s, t, who) /\ Becomes(t)
    BY <1>1, SavingCall
  <2>2. /\ s.free = free /\ s.market = market /\ s.total = total /\ s.dtoken = dtoken
        /\ market = total
    BY DEF SavingState, PoolInv, RateIsOne
  <2>3. /\ t.free = free' /\ t.market = market' /\ t.total = total' /\ t.dtoken = dtoken'
        /\ config' = config /\ market' = total'
    BY <2>1 DEF Becomes, settings, SavingStep
  <2> DEFINE paid == free[config.collectionAsset][who] - free'[config.collectionAsset][who]
  <2>4. PaidBy(s, t, who) = paid /\ CashIn(s) = Cash /\ CashIn(t) = Cash'
    BY <2>2, <2>3 DEF PaidBy, CashIn, Cash
  <2> HIDE DEF s
  <2>5. /\ Cash' - total' = Cash - total /\ total' - total = paid
        /\ dtoken'[who] - dtoken[who] >= paid /\ dtoken'[who] >= dtoken[who]
        /\ \A other \in Accounts \ {who} : dtoken'[other] = dtoken[other]
    BY <2>1, <2>2, <2>3, <2>4 DEF SavingStep
  <2>6. Cash \in Int /\ total \in Int /\ total' \in Int /\ Cash' \in Int
    <3>1. PoolInv'
      BY PoolNext
    <3>2. /\ total \in Balance /\ free[config.collectionAsset][config.collectionAccount] \in Nat
      BY PoolFacts, FundedType DEF TypeOK
    <3>3. /\ total' \in Balance /\ t.free[config.collectionAsset][config.collectionAccount] \in Nat
      BY <2>1, <2>3, PoolFacts, FundedType DEF SavingStep, SavingStates
    <3> QED
      BY <2>3, <3>2, <3>3, ConstantFacts DEF Cash
  <2> HIDE DEF paid
  <2>7. Cash' - Cash = paid /\ market' - market = paid
    BY <2>2, <2>3, <2>5, <2>6
  <2> QED
    BY <2>5, <2>7 DEF CreditStep, paid
<1>2. savings' = savings => CreditStep
  BY DEF CreditStep
<1>3. ASSUME NEW who \in Users, UserCall(who) PROVE CreditStep
  <2>1. ASSUME NEW a \in Applications, Apply(who, a[1], a[2]) PROVE savings' = savings
    BY <2>1 DEF Apply
  <2>2. ASSUME NEW id \in DOMAIN loans, Repay(who, id) \/ RepayReverted(who, id)
        PROVE  savings' = savings
    BY <2>2 DEF Repay, RepayReverted
  <2>3. ASSUME NEW id \in DOMAIN loans, NEW amount, AddCollateral(who, id, amount) \/ Draw(who, id, amount)
        PROVE  savings' = savings
    BY <2>3 DEF AddCollateral, Draw
  <2> QED
    BY <1>1, <1>2, <1>3, <2>1, <2>2, <2>3, ConstantFacts DEF UserCall
<1>4. Block \/ Settlement \/ RootCall \/ PublishPrices => savings' = savings
  BY DEF Block, Settlement, MarkLiquidated, MarkWithoutPenalty, MarkWithoutShare, RootCall,
         SetPaused, Configure, PublishPrices
<1>5. UNCHANGED vars => savings' = savings
  BY DEF vars, savings
<1> QED
  BY <1>2, <1>3, <1>4, <1>5 DEF Next

\* Every step that moves the dtoken counters is one saver's, moves them by what that
\* saver paid or got, and leaves everybody else's dtokens alone, in whichever order
\* savers and debtors call and whichever half of a redemption fails; the saver's own
\* dtokens never grow by less than was paid, nor shrink.
THEOREM SaversAreCredited == Spec => SavingsAreCredited
<1>1. PoolInv /\ [Next]_vars => [CreditStep]_vars
  BY CreditNext
<1> QED
  BY <1>1, PoolInit, PoolNext, PTL DEF Spec, SavingsAreCredited, CreditStep

-----------------------------------------------------------------------------
(***************************************************************************)
(* The rest holds of a pool set up as the node's genesis does it: savings, *)
(* loans and shop have accounts of their own, what is saved is what is     *)
(* lent, root leaves these settings alone, and an auction brings exactly   *)
(* the loan.                                                               *)
(***************************************************************************)
AccountsKept ==
  /\ GenesisConfig.collectionAccount # PawnShop
  /\ GenesisConfig.liquidationAccount \notin {PawnShop, GenesisConfig.collectionAccount}
  /\ {"collectionAccount", "liquidationAccount"} \cap DOMAIN ConfigChoices = {}
AssetsKept ==
  /\ GenesisConfig.loanAsset = GenesisConfig.collectionAsset
  /\ {"collectionAsset", "collateralAsset", "loanAsset"} \cap DOMAIN ConfigChoices = {}
ExactAuctions == AuctionExtras \subseteq {0}

AccountsHold ==
  /\ config.collectionAccount = GenesisConfig.collectionAccount
  /\ config.liquidationAccount = GenesisConfig.liquidationAccount
  /\ config.collectionAsset = GenesisConfig.collectionAsset
  /\ config.collateralAsset = GenesisConfig.collateralAsset
  /\ config.loanAsset = GenesisConfig.loanAsset

LEMMA KeptNext ==
  ASSUME AccountsKept, AssetsKept, PoolInv, AccountsHold, [Next]_vars
  PROVE  AccountsHold'
<1>1. CASE config' = config
  BY <1>1 DEF AccountsHold
<1>2. ASSUME NEW setter \in DOMAIN ConfigChoices, NEW value \in ConfigChoices[setter],
             Configure(setter, value)
      PROVE  AccountsHold'
  <2> DEFINE fields == {"collectionAccount", "liquidationAccount", "collectionAsset",
                        "collateralAsset", "loanAsset"}
  <2>1. Written(setter) \notin fields
    BY DEF AccountsKept, AssetsKept, Written
  <2>2. config' = [config EXCEPT ![Written(setter)] =
                     IF setter = "loanCap" /\ value = 0 THEN NoCap ELSE value]
    BY <1>2 DEF Configure
  <2>3. config \in Config
    BY PoolFacts
  <2>4. /\ config'.collectionAccount = config.collectionAccount
        /\ config'.liquidationAccount = config.liquidationAccount
        /\ config'.collectionAsset = config.collectionAsset
        /\ config'.collateralAsset = config.collateralAsset
        /\ config'.loanAsset = config.loanAsset
    BY <2>1, <2>2, <2>3 DEF Config
  <2> QED
    BY <2>4 DEF AccountsHold
<1>3. Block \/ Settlement => config' = config
  BY DEF Block, Settlement, MarkLiquidated, MarkWithoutPenalty, MarkWithoutShare, settings
<1>4. ASSUME NEW who, UserCall(who) PROVE config' = config
  BY <1>4 DEF UserCall, Stake, Redeem, Becomes, Apply, Repay, RepayReverted, AddCollateral, Draw, settings
<1>5. ASSUME PublishPrices PROVE config' = config
  BY <1>5 DEF PublishPrices, settings
<1>6. ASSUME NEW b, SetPaused(b) PROVE config' = config
  BY <1>6 DEF SetPaused
<1>7. UNCHANGED vars => config' = config
  BY DEF vars
<1> QED
  BY <1>1, <1>2, <1>3, <1>4, <1>5, <1>6, <1>7 DEF Next, RootCall

LEMMA KeptFacts ==
  ASSUME AccountsKept, AssetsKept, AccountsHold
  PROVE  /\ config.collectionAccount # PawnShop /\ config.liquidationAccount # PawnShop
         /\ config.liquidationAccount # config.collectionAccount
         /\ config.loanAsset = config.collectionAsset
BY DEF AccountsKept, AssetsKept, AccountsHold

\* An exact auction pays the loan and nothing else.
LEMMA ExactSettlement ==
  ASSUME ExactAuctions, PoolInv, Settlement
  PROVE  \E id \in DOMAIN loans :
           /\ CanMark(id, loans[id].total) /\ loans[id].total \in Nat
           /\ free' = Covered(id) /\ loans' = WithoutLoan(id)
           /\ liquidating' = WithoutId(liquidating, id)
           /\ UNCHANGED <<savings, config>>
<1>1. PICK id \in DOMAIN loans, extra \in AuctionExtras :
        \/ MarkLiquidated(id, loans[id].total + extra)
        \/ MarkWithoutPenalty(id, loans[id].total + extra)
        \/ MarkWithoutShare(id, loans[id].total + extra)
  BY DEF Settlement
<1>2. loans[id].total \in Nat
  BY PoolFacts, ConstantFacts DEF TypeOK, Loan
<1> DEFINE owed == loans[id].total
           auction == owed + extra
<1>3. auction = owed
  <2>1. extra = 0 /\ owed \in Nat
    BY <1>2 DEF ExactAuctions
  <2> HIDE DEF owed
  <2> QED
    BY <2>1
<1>4. Leftover(id, auction) = 0
  BY <1>2, <1>3 DEF Leftover
<1>5. ~PenaltyFails(id, auction) /\ ~ShareFails(id, auction)
  BY <1>4 DEF PenaltyFails, ShareFails
<1>6. MarkLiquidated(id, owed)
  BY <1>1, <1>3, <1>5 DEF MarkWithoutPenalty, MarkWithoutShare
<1>7. Leftover(id, owed) = 0
  BY <1>3, <1>4
<1>8. /\ CanMark(id, owed) /\ free' = Covered(id) /\ loans' = WithoutLoan(id)
      /\ liquidating' = WithoutId(liquidating, id) /\ UNCHANGED <<savings, config>>
  BY <1>6, <1>7 DEF MarkLiquidated, settings
<1> QED
  BY <1>2, <1>8

LEMMA BlockSums ==
  ASSUME BookInv, BookInv', Block
  PROVE  OwedInAll' = OwedInAll /\ PledgedInAll' = PledgedInAll
<1>1. TypeOK
  BY DEF BookInv
<1>2. CASE UNCHANGED book
  BY <1>2, SumsSame DEF book
<1>3. CASE /\ DOMAIN loans' = DOMAIN loans
           /\ \A id \in DOMAIN loans :
                loans'[id] = [who |-> loans[id].who, original |-> loans[id].original,
                              available |-> loans[id].available, total |-> loans[id].total,
                              status |-> StatusAfter(id)]
  <2>1. \A id \in DOMAIN loans :
          loans'[id].total = loans[id].total /\ loans'[id].original = loans[id].original
    BY <1>3
  <2> QED
    BY <1>3, <2>1, SumsSame
<1> QED
  BY <1>1, <1>2, <1>3, BlockLoans

-----------------------------------------------------------------------------
(***************************************************************************)
(* Savers. Cash and loans together keep what the counters promise.         *)
(***************************************************************************)
CashCovers == Cash + OwedInAll >= total

LEMMA CashFacts ==
  ASSUME PoolInv
  PROVE  Cash \in Nat /\ OwedInAll \in Nat /\ PledgedInAll \in Nat /\ total \in Nat
<1>1. Cash \in Nat
  BY PoolFacts, FundedType DEF Cash
<1> QED
  BY <1>1, PoolFacts, SumsOfLoans, ConstantFacts DEF TypeOK

CashTyped == Cash \in Nat /\ OwedInAll \in Nat /\ PledgedInAll \in Nat /\ total \in Nat

LEMMA CashFactsNext ==
  PoolInv' => Cash' \in Nat /\ OwedInAll' \in Nat /\ PledgedInAll' \in Nat /\ total' \in Nat
<1>1. PoolInv => CashTyped
  BY CashFacts DEF CashTyped
<1>2. PoolInv' => CashTyped'
  BY <1>1, PTL
<1> QED
  BY <1>2 DEF CashTyped

\* Nothing but the cash, the loans and the counter of the savings matters.
LEMMA CashStays ==
  ASSUME PoolInv, PoolInv', AccountsKept, AssetsKept, AccountsHold, AccountsHold', CashCovers,
         free'[config.collectionAsset][config.collectionAccount] - Cash
           >= OwedInAll - OwedInAll' + total' - total
  PROVE  CashCovers'
<1>1. Cash' = free'[config.collectionAsset][config.collectionAccount]
  BY DEF Cash, AccountsHold
<1>2. Cash' \in Nat /\ OwedInAll' \in Nat /\ total' \in Nat
  BY CashFactsNext
<1> QED
  BY <1>1, <1>2, CashFacts DEF CashCovers

LEMMA CashCoversNext ==
  ASSUME AccountsKept, AssetsKept, ExactAuctions, PoolInv, PoolInv', AccountsHold, AccountsHold',
         TotalsCoverLoans, CashCovers, [Next]_vars, [TotalsHold]_vars
  PROVE  CashCovers'
<1> DEFINE lent == config.collectionAsset
           pool == config.collectionAccount
<1>1. /\ BookInv /\ BookInv' /\ TypeOK /\ Cash = free[lent][pool]
      /\ pool # PawnShop /\ config.loanAsset = lent /\ config.liquidationAccount # pool
  BY PoolFacts, KeptFacts DEF PoolInv, Cash
<1>2. Cash \in Nat /\ OwedInAll \in Nat /\ total \in Nat
  BY CashFacts
<1>3. free'[lent][pool] \in Nat /\ OwedInAll' \in Nat /\ total' \in Nat
  BY CashFactsNext DEF Cash, AccountsHold
<1> HIDE DEF lent, pool
<1>4. ASSUME free'[lent][pool] - Cash >= OwedInAll - OwedInAll' + total' - total PROVE CashCovers'
  BY <1>4, CashStays DEF lent, pool
<1>5. ASSUME free' = free, total' = total, OwedInAll' >= OwedInAll PROVE CashCovers'
  BY <1>1, <1>2, <1>3, <1>4, <1>5
<1>6. UNCHANGED loans => OwedInAll' = OwedInAll
  BY DEF OwedInAll
<1>7. ASSUME NEW who \in Users, UserCall(who), TotalsHold PROVE CashCovers'
  <2>0. who \in Accounts
    BY ConstantFacts
  <2>1. ASSUME NEW amount \in Balance, Stake(who, amount) \/ Redeem(who, amount) PROVE CashCovers'
    <3>1. PICK t : SavingStep(SavingState, t, who) /\ Becomes(t)
      BY <2>1, SavingCall
    <3>2. free'[lent][pool] - total' = Cash - total
      <4>1. CashIn(t) - t.total = CashIn(SavingState) - SavingState.total
        BY <3>1 DEF SavingStep
      <4>2. CashIn(t) = free'[lent][pool] /\ t.total = total'
        BY <3>1 DEF Becomes, CashIn, lent, pool
      <4>3. CashIn(SavingState) = Cash /\ SavingState.total = total
        BY DEF CashIn, SavingState, Cash
      <4> QED
        BY <4>1, <4>2, <4>3
    <3>3. OwedInAll' = OwedInAll
      BY <1>6, <3>1 DEF Becomes, book
    <3> QED
      BY <1>2, <1>3, <1>4, <3>2, <3>3
  <2>2. ASSUME NEW a \in Applications, Apply(who, a[1], a[2]) PROVE CashCovers'
    <3> DEFINE n == a[2]
    <3>1. a[1] \in Balance /\ a[2] \in Balance /\ n \in Nat
      BY ConstantFacts
    <3>2. free'[lent][pool] >= Cash - n
      BY <2>2, <3>1, AppliedMoves DEF lent, pool
    <3>3. /\ OwedInAll' = OwedInAll + CollateralLoan(a[1], a[2]).loan
          /\ CollateralLoan(a[1], a[2]).loan >= n /\ CollateralLoan(a[1], a[2]).loan \in Nat
      BY <1>1, <2>0, <2>2, <3>1, AppliedSums, ConstantFacts
    <3>4. total' = total
      BY <2>2 DEF Apply, savings
    <3> HIDE DEF n
    <3> QED
      BY <1>2, <1>3, <1>4, <3>1, <3>2, <3>3, <3>4
  <2>3. ASSUME NEW id \in DOMAIN loans, Repay(who, id) PROVE CashCovers'
    <3>1. free'[lent][pool] = Cash + loans[id].total
      BY <1>1, <2>3, RepaidMoves DEF lent, pool
    <3>2. OwedInAll' = OwedInAll - loans[id].total /\ loans[id].total \in Nat
      BY <1>1, <2>3, SumsRemove, SumsOfLoans DEF Repay
    <3>3. total' = total
      BY <2>3 DEF Repay, savings
    <3> QED
      BY <1>2, <1>3, <1>4, <3>1, <3>2, <3>3
  <2>4. ASSUME NEW id \in DOMAIN loans, RepayReverted(who, id) PROVE CashCovers'
    <3>1. UNCHANGED <<free, total, loans>>
      BY <2>4 DEF RepayReverted, ledger, savings
    <3> QED
      BY <1>2, <1>5, <1>6, <3>1
  <2>5. ASSUME NEW id \in DOMAIN loans, NEW amount \in AddAmounts, AddCollateral(who, id, amount)
        PROVE  CashCovers'
    <3>1. amount \in Balance
      BY ConstantFacts
    <3>2. free'[lent][pool] >= Cash
      BY <2>5, <3>1, AddedMoves DEF lent, pool
    <3>3. OwedInAll' = OwedInAll
      <4>1. /\ DOMAIN loans' = DOMAIN loans
            /\ \A i \in DOMAIN loans \ {id} : loans'[i] = loans[i]
        BY <1>1, <2>5, AddedLoan
      <4>2. loans'[id].total = loans[id].total
        BY <1>1, <2>5, AddedLoan
      <4>3. OwedInAll' = OwedInAll - loans[id].total + loans'[id].total
        BY <1>1, <4>1, SumsChange
      <4>4. loans[id].total \in Nat
        BY <1>1, SumsOfLoans
      <4> QED
        BY <1>2, <1>3, <4>2, <4>3, <4>4
    <3>4. total' = total
      BY <2>5 DEF AddCollateral, savings
    <3> QED
      BY <1>2, <1>3, <1>4, <3>2, <3>3, <3>4
  <2>6. ASSUME NEW id \in DOMAIN loans, NEW amount \in DrawAmounts, Draw(who, id, amount)
        PROVE  CashCovers'
    <3>1. amount \in Balance /\ amount \in Nat
      BY ConstantFacts
    <3>2. OwedInAll' = OwedInAll + amount
      BY <1>1, <1>7, <2>6, <3>1, DrawnAmounts
    <3>3. free' = free /\ total' = total
      BY <2>6 DEF Draw, ledger, savings
    <3> QED
      BY <1>2, <1>5, <3>1, <3>2, <3>3
  <2> QED
    BY <1>7, <2>1, <2>2, <2>3, <2>4, <2>5, <2>6, ConstantFacts DEF UserCall
<1>8. CASE Settlement
  <2>1. PICK id \in DOMAIN loans :
          /\ CanMark(id, loans[id].total) /\ loans[id].total \in Nat
          /\ free' = Covered(id) /\ loans' = WithoutLoan(id)
          /\ UNCHANGED savings
    BY <1>8, ExactSettlement
  <2>2. free'[lent][pool] = Cash + loans[id].total
    BY <1>1, <2>1, CoveredMoves DEF lent, pool
  <2>3. OwedInAll' = OwedInAll - loans[id].total
    BY <1>1, <2>1, SumsRemove
  <2>4. total' = total
    BY <2>1 DEF savings
  <2> QED
    BY <1>2, <1>3, <1>4, <2>1, <2>2, <2>3, <2>4
<1>9. CASE Block
  <2>1. OwedInAll' = OwedInAll
    BY <1>1, <1>9, BlockSums
  <2>2. free' = free /\ total' = total
    BY <1>9 DEF Block, ledger, savings
  <2> QED
    BY <1>2, <1>5, <2>1, <2>2
<1>10. ASSUME PublishPrices PROVE CashCovers'
  BY <1>2, <1>5, <1>6, <1>10 DEF PublishPrices, savings, book
<1>11. CASE RootCall
  BY <1>2, <1>5, <1>6, <1>11 DEF RootCall, SetPaused, Configure, ledger, savings, book
<1>12. CASE UNCHANGED vars
  BY <1>2, <1>5, <1>6, <1>12 DEF vars
<1>13. TotalsHold \/ UNCHANGED vars
  OBVIOUS
<1> QED
  BY <1>7, <1>8, <1>9, <1>10, <1>11, <1>12, <1>13 DEF Next

\* The counters are covered: what all savers together paid in and did not get back is
\* there in cash and running loans, whatever is staked, redeemed, lent, drawn, repaid
\* or auctioned. It is a statement of the pool as a whole. What one saver may redeem is
\* that saver's UserDtoken, which redeem leaves as it is: who redeems often enough
\* takes what others paid in, and the counters follow.
THEOREM CountersAreCovered ==
  ASSUME AccountsKept, AssetsKept, ExactAuctions
  PROVE  Spec /\ TotalsNeverWrap => []SavingsCovered
<1>1. InitState => PoolInv /\ AccountsHold /\ TotalsCoverLoans /\ CashCovers
  <2> SUFFICES ASSUME InitState PROVE PoolInv /\ AccountsHold /\ TotalsCoverLoans /\ CashCovers
    OBVIOUS
  <2>1. PoolInv /\ TotalsCoverLoans
    BY PoolInit, TotalsInit
  <2>2. total = 0
    BY DEF InitState
  <2>3. CashCovers
    BY <2>1, <2>2, CashFacts DEF CashCovers
  <2> QED
    BY <2>1, <2>3 DEF InitState, AccountsHold
<1>2. PoolInv /\ [Next]_vars => PoolInv'
  BY PoolNext
<1>3. PoolInv /\ AccountsHold /\ [Next]_vars => AccountsHold'
  BY KeptNext
<1>4. PoolInv /\ PoolInv' /\ TotalsCoverLoans /\ [Next]_vars /\ [TotalsHold]_vars => TotalsCoverLoans'
  BY TotalsNext DEF PoolInv
<1>5. PoolInv /\ PoolInv' /\ AccountsHold /\ AccountsHold' /\ TotalsCoverLoans /\ CashCovers
        /\ [Next]_vars /\ [TotalsHold]_vars => CashCovers'
  BY CashCoversNext
<1>6. PoolInv /\ CashCovers => SavingsCovered
  BY DEF PoolInv, CashCovers, SavingsCovered
<1> QED
  BY <1>1, <1>2, <1>3, <1>4, <1>5, <1>6, PTL DEF Spec, TotalsNeverWrap

-----------------------------------------------------------------------------
(***************************************************************************)
(* Borrowers. The pawn shop keeps what was pledged.                        *)
(***************************************************************************)
LEMMA ShopNext ==
  ASSUME AccountsKept, AssetsKept, ExactAuctions, AddAmounts = {}, PoolInv, PoolInv', AccountsHold, AccountsHold',
         ShopCoversLoans, [Next]_vars
  PROVE  ShopCoversLoans'
<1> DEFINE pledge == config.collateralAsset
           pool == config.collectionAccount
           held == free[pledge][PawnShop]
           held2 == free'[pledge][PawnShop]
<1>1. /\ BookInv /\ BookInv' /\ TypeOK /\ pool # PawnShop /\ config.liquidationAccount # PawnShop
      /\ pledge \in AssetIds /\ PawnShop \in Accounts /\ PawnShop \notin Users
      /\ held \in Nat /\ held >= PledgedInAll
  BY PoolFacts, KeptFacts, FundedType DEF PoolInv, ShopCoversLoans
<1>2. PledgedInAll \in Nat /\ PledgedInAll' \in Nat
  BY CashFacts, CashFactsNext
<1> HIDE DEF pledge, pool
<1>3. ASSUME held2 >= PledgedInAll' PROVE ShopCoversLoans'
  BY <1>3 DEF ShopCoversLoans, AccountsHold, pledge
<1> HIDE DEF held2, held
<1>4. ASSUME held2 = held, PledgedInAll' = PledgedInAll PROVE ShopCoversLoans'
  BY <1>1, <1>3, <1>4
<1>5. free' = free => held2 = held
  BY DEF held, held2
<1>6. UNCHANGED loans => PledgedInAll' = PledgedInAll
  BY DEF PledgedInAll
<1>7. ASSUME NEW who \in Users, UserCall(who) PROVE ShopCoversLoans'
  <2>0. who \in Accounts
    BY ConstantFacts
  <2>1. ASSUME NEW amount \in Balance, Stake(who, amount) \/ Redeem(who, amount) PROVE ShopCoversLoans'
    <3>1. PICK t : SavingStep(SavingState, t, who) /\ Becomes(t)
      BY <2>1, SavingCall
    <3>2. t.free[pledge][PawnShop] = SavingState.free[pledge][PawnShop]
      BY <1>1, <3>1 DEF SavingStep, pool
    <3>3. held2 = held
      BY <3>1, <3>2 DEF Becomes, SavingState, held, held2
    <3>4. PledgedInAll' = PledgedInAll
      BY <1>6, <3>1 DEF Becomes, book
    <3> QED
      BY <1>4, <3>3, <3>4
  <2>2. ASSUME NEW a \in Applications, Apply(who, a[1], a[2]) PROVE ShopCoversLoans'
    <3> DEFINE n == CollateralLoan(a[1], a[2]).collateral
    <3>1. a[1] \in Balance /\ a[2] \in Balance
      BY ConstantFacts
    <3>2. held2 = held + n
      BY <1>1, <2>2, <3>1, AppliedMoves DEF held, held2, pledge, pool
    <3>3. PledgedInAll' = PledgedInAll + n /\ n \in Nat
      BY <1>1, <2>0, <2>2, <3>1, AppliedSums, ConstantFacts
    <3> HIDE DEF n
    <3> QED
      BY <1>1, <1>2, <1>3, <3>2, <3>3
  <2>3. ASSUME NEW id \in DOMAIN loans, Repay(who, id) PROVE ShopCoversLoans'
    <3>1. held2 = held - loans[id].original
      BY <1>1, <2>3, RepaidMoves DEF held, held2, pledge, pool
    <3>2. PledgedInAll' = PledgedInAll - loans[id].original /\ loans[id].original \in Nat
      BY <1>1, <2>3, SumsRemove, SumsOfLoans DEF Repay
    <3> QED
      BY <1>1, <1>2, <1>3, <3>1, <3>2
  <2>4. ASSUME NEW id \in DOMAIN loans, RepayReverted(who, id) PROVE ShopCoversLoans'
    BY <1>4, <1>5, <1>6, <2>4 DEF RepayReverted, ledger
  <2>5. ASSUME NEW id \in DOMAIN loans, NEW amount \in DrawAmounts, Draw(who, id, amount)
        PROVE  ShopCoversLoans'
    <3>1. PledgedInAll' = PledgedInAll
      <4>1. /\ DOMAIN loans' = DOMAIN loans
            /\ \A i \in DOMAIN loans \ {id} : loans'[i] = loans[i]
        BY <1>1, <2>5, DrawnLoan
      <4>2. loans'[id].original = loans[id].original
        BY <1>1, <2>5, DrawnLoan
      <4>3. PledgedInAll' = PledgedInAll - loans[id].original + loans'[id].original
        BY <1>1, <4>1, SumsChange
      <4>4. loans[id].original \in Nat
        BY <1>1, SumsOfLoans
      <4> QED
        BY <1>2, <4>2, <4>3, <4>4
    <3>2. free' = free
      BY <2>5 DEF Draw, ledger
    <3> QED
      BY <1>4, <1>5, <3>1, <3>2
  <2> QED
    BY <1>7, <2>1, <2>2, <2>3, <2>4, <2>5, ConstantFacts DEF UserCall
<1>8. CASE Settlement
  <2>1. PICK id \in DOMAIN loans :
          /\ CanMark(id, loans[id].total) /\ loans[id].total \in Nat
          /\ free' = Covered(id) /\ loans' = WithoutLoan(id)
    BY <1>8, ExactSettlement
  <2>2. held2 = held
    BY <1>1, <2>1, CoveredMoves DEF held, held2, pool
  <2>3. PledgedInAll' = PledgedInAll - loans[id].original /\ loans[id].original \in Nat
    BY <1>1, <2>1, SumsRemove, SumsOfLoans
  <2> QED
    BY <1>1, <1>2, <1>3, <2>2, <2>3
<1>9. CASE Block
  <2>1. PledgedInAll' = PledgedInAll
    BY <1>1, <1>9, BlockSums
  <2>2. free' = free
    BY <1>9 DEF Block, ledger
  <2> QED
    BY <1>4, <1>5, <2>1, <2>2
<1>10. ASSUME PublishPrices PROVE ShopCoversLoans'
  BY <1>4, <1>5, <1>6, <1>10 DEF PublishPrices, book
<1>11. CASE RootCall
  BY <1>4, <1>5, <1>6, <1>11 DEF RootCall, SetPaused, Configure, ledger, book
<1>12. CASE UNCHANGED vars
  BY <1>4, <1>5, <1>6, <1>12 DEF vars
<1> QED
  BY <1>7, <1>8, <1>9, <1>10, <1>11, <1>12 DEF Next

\* As long as nobody adds collateral, which add_collateral takes in another
\* asset, the shop holds what was pledged for every running loan together, which
\* is what repay_loan's revert_callback is there to do without.
THEOREM PledgesAreHeld ==
  ASSUME AccountsKept, AssetsKept, ExactAuctions, AddAmounts = {}
  PROVE  Spec => []ShopCoversLoans
<1>1. InitState => PoolInv /\ AccountsHold /\ ShopCoversLoans
  <2> SUFFICES ASSUME InitState PROVE PoolInv /\ AccountsHold /\ ShopCoversLoans
    OBVIOUS
  <2>1. PoolInv
    BY PoolInit
  <2>2. PledgedInAll = 0
    <3>1. DOMAIN [id \in DOMAIN loans |-> loans[id].original] = {}
      BY DEF InitState
    <3> QED
      BY <3>1, SumOfNone DEF PledgedInAll, SumFunction
  <2>3. ShopCoversLoans
    BY <2>1, <2>2, PoolFacts, FundedType DEF ShopCoversLoans
  <2> QED
    BY <2>1, <2>3 DEF InitState, AccountsHold
<1>2. PoolInv /\ [Next]_vars => PoolInv'
  BY PoolNext
<1>3. PoolInv /\ AccountsHold /\ [Next]_vars => AccountsHold'
  BY KeptNext
<1>4. PoolInv /\ PoolInv' /\ AccountsHold /\ AccountsHold' /\ ShopCoversLoans /\ [Next]_vars => ShopCoversLoans'
  BY ShopNext
<1> QED
  BY <1>1, <1>2, <1>3, <1>4, PTL DEF Spec

-----------------------------------------------------------------------------
(***************************************************************************)
(* Users. Who loses money, and how a loan ends.                            *)
(***************************************************************************)
Recorded(a) ==
  \/ dtoken'[a] > dtoken[a]
  \/ \E id \in DOMAIN loans' : loans'[id].who = a
       /\ (id \in DOMAIN loans => loans'[id].original > loans[id].original)
  \/ \E id \in DOMAIN loans \ DOMAIN loans' : loans[id].who = a

LossesRecorded ==
  \A a \in Users, asset \in AssetIds : free'[asset][a] < free[asset][a] => Recorded(a)

LEMMA LossNext ==
  ASSUME PoolInv, PoolInv', TotalsCoverLoans, [Next]_vars, [TotalsHold]_vars
  PROVE  LossesRecorded \/ UNCHANGED vars
<1>1. BookInv /\ BookInv' /\ TypeOK /\ Funded(free)
  BY PoolFacts DEF PoolInv
<1>2. \A asset \in AssetIds, a \in Accounts : free[asset][a] \in Nat /\ free'[asset][a] \in Nat
  BY FundedType DEF PoolInv
<1>3. ASSUME free' = free PROVE LossesRecorded
  <2>1. \A asset \in AssetIds, a \in Users : ~(free'[asset][a] < free[asset][a])
    BY <1>2, <1>3, ConstantFacts
  <2> QED
    BY <2>1 DEF LossesRecorded
\* It is enough to record the loss of the caller.
<1>4. ASSUME NEW who \in Users,
             \A asset \in AssetIds, a \in Users \ {who} : free'[asset][a] = free[asset][a],
             \A asset \in AssetIds : free'[asset][who] < free[asset][who] => Recorded(who)
      PROVE  LossesRecorded
  <2> SUFFICES ASSUME NEW a \in Users, NEW asset \in AssetIds, free'[asset][a] < free[asset][a]
               PROVE  Recorded(a)
    BY DEF LossesRecorded
  <2>1. a = who
    BY <1>2, <1>4, ConstantFacts
  <2> QED
    BY <1>4, <2>1
<1>5. ASSUME NEW who \in Users, UserCall(who), TotalsHold PROVE LossesRecorded
  <2>0. who \in Accounts
    BY ConstantFacts
  <2>1. ASSUME NEW amount \in Balance, Stake(who, amount) \/ Redeem(who, amount) PROVE LossesRecorded
    <3>1. PICK t : SavingStep(SavingState, t, who) /\ Becomes(t)
      BY <2>1, SavingCall
    <3>2. /\ free' = t.free /\ dtoken' = t.dtoken /\ SavingState.free = free
          /\ SavingState.dtoken = dtoken
      BY <3>1 DEF Becomes, SavingState
    <3>3. /\ \A asset \in AssetIds, a \in Accounts :
               asset # config.collectionAsset \/ a \notin {who, config.collectionAccount} =>
                 free'[asset][a] = free[asset][a]
          /\ \/ free'[config.collectionAsset][who] >= free[config.collectionAsset][who]
             \/ dtoken'[who] > dtoken[who]
      BY <3>1, <3>2 DEF SavingStep
    <3>4. \A asset \in AssetIds, a \in Users \ {who} : free'[asset][a] = free[asset][a]
      BY <3>3, PoolFacts
    <3>5. ASSUME NEW asset \in AssetIds, free'[asset][who] < free[asset][who] PROVE Recorded(who)
      <4>1. asset = config.collectionAsset
        BY <1>2, <2>0, <3>3, <3>5
      <4>2. dtoken'[who] > dtoken[who]
        BY <1>2, <2>0, <3>3, <3>5, <4>1
      <4> QED
        BY <4>2 DEF Recorded
    <3> QED
      BY <1>4, <3>4, <3>5
  <2>2. ASSUME NEW a \in Applications, Apply(who, a[1], a[2]) PROVE LossesRecorded
    <3>1. a[1] \in Balance /\ a[2] \in Balance
      BY ConstantFacts
    <3>2. \A asset \in AssetIds, b \in Users \ {who} : free'[asset][b] = free[asset][b]
      BY <2>2, <3>1, AppliedMoves
    <3>3. /\ nextLoanId \in DOMAIN loans' /\ loans'[nextLoanId].who = who
          /\ nextLoanId \notin DOMAIN loans
      BY <1>1, <2>2, BookFacts DEF Apply, WithLoan
    <3>4. Recorded(who)
      BY <3>3 DEF Recorded
    <3> QED
      BY <1>4, <3>2, <3>4
  <2>3. ASSUME NEW id \in DOMAIN loans, Repay(who, id) PROVE LossesRecorded
    <3>1. \A asset \in AssetIds, b \in Users \ {who} : free'[asset][b] = free[asset][b]
      BY <2>3, RepaidMoves
    <3>2. loans[id].who = who /\ id \notin DOMAIN loans'
      BY <2>3 DEF Repay, CanRepay, WithoutLoan
    <3>3. Recorded(who)
      BY <3>2 DEF Recorded
    <3> QED
      BY <1>4, <3>1, <3>3
  <2>4. ASSUME NEW id \in DOMAIN loans, RepayReverted(who, id) PROVE LossesRecorded
    BY <1>3, <2>4 DEF RepayReverted, ledger
  <2>5. ASSUME NEW id \in DOMAIN loans, NEW amount \in AddAmounts, AddCollateral(who, id, amount)
        PROVE  LossesRecorded
    <3>1. amount \in Balance /\ amount \in Nat
      BY ConstantFacts
    <3>2. /\ \A asset \in AssetIds, b \in Users \ {who} : free'[asset][b] = free[asset][b]
          /\ amount = 0 => free' = free
      BY <2>5, <3>1, AddedMoves
    <3>3. loans'[id].original = loans[id].original + amount
      BY <1>1, <1>5, <2>5, <3>1, AddedAmounts
    <3>4. DOMAIN loans' = DOMAIN loans /\ loans'[id].who = loans[id].who
      BY <1>1, <2>5, AddedLoan
    <3>5. loans[id].who = who
      BY <2>5 DEF AddCollateral
    <3>6. loans[id].original \in Nat
      BY <1>1, SumsOfLoans
    <3>7. CASE amount = 0
      BY <1>3, <3>2, <3>7
    <3>8. CASE amount # 0
      <4>1. loans'[id].original > loans[id].original
        BY <3>1, <3>3, <3>6, <3>8
      <4>2. Recorded(who)
        BY <3>4, <3>5, <4>1 DEF Recorded
      <4> QED
        BY <1>4, <3>2, <4>2
    <3> QED
      BY <3>7, <3>8
  <2>6. ASSUME NEW id \in DOMAIN loans, NEW amount, Draw(who, id, amount) PROVE LossesRecorded
    BY <1>3, <2>6 DEF Draw, ledger
  <2> QED
    BY <1>5, <2>1, <2>2, <2>3, <2>4, <2>5, <2>6, ConstantFacts DEF UserCall
<1>6. CASE Settlement
  <2>1. PICK id \in DOMAIN loans, extra \in AuctionExtras :
          \/ MarkLiquidated(id, loans[id].total + extra)
          \/ MarkWithoutPenalty(id, loans[id].total + extra)
          \/ MarkWithoutShare(id, loans[id].total + extra)
    BY <1>6 DEF Settlement
  <2>2. loans[id].total + extra \in Nat
    <3>1. loans[id].total \in Nat /\ extra \in Nat
      BY <1>1, ConstantFacts DEF TypeOK, Loan
    <3> QED
      BY <3>1
  <2>3. \A asset \in AssetIds, a \in Users : free'[asset][a] >= free[asset][a]
    BY <2>1, <2>2, SettledMoves
  <2>4. \A asset \in AssetIds, a \in Users : ~(free'[asset][a] < free[asset][a])
    BY <1>2, <2>3, ConstantFacts
  <2> QED
    BY <2>4 DEF LossesRecorded
<1>7. ASSUME Block \/ RootCall \/ PublishPrices PROVE LossesRecorded
  BY <1>3, <1>7 DEF Block, RootCall, SetPaused, Configure, PublishPrices, ledger
<1> QED
  BY <1>5, <1>6, <1>7 DEF Next

\* No user's balance of any asset falls but by a call of that user which the book
\* records: whatever other users, the liquidation account, root and the blocks do.
THEOREM LossesAreRecorded == Spec /\ TotalsNeverWrap => LossIsRecorded
<1>1. PoolInv /\ [Next]_vars => PoolInv'
  BY PoolNext
<1>2. PoolInv /\ PoolInv' /\ TotalsCoverLoans /\ [Next]_vars /\ [TotalsHold]_vars => TotalsCoverLoans'
  BY TotalsNext DEF PoolInv
<1>3. PoolInv /\ PoolInv' /\ TotalsCoverLoans /\ [Next]_vars /\ [TotalsHold]_vars
        => [\A a \in Users, asset \in AssetIds :
              free'[asset][a] < free[asset][a] =>
                \/ dtoken'[a] > dtoken[a]
                \/ \E id \in DOMAIN loans' : loans'[id].who = a
                     /\ (id \in DOMAIN loans => loans'[id].original > loans[id].original)
                \/ \E id \in DOMAIN loans \ DOMAIN loans' : loans[id].who = a]_vars
  BY LossNext DEF LossesRecorded, Recorded
<1> QED
  BY <1>1, <1>2, <1>3, PoolInit, TotalsInit, PTL DEF Spec, TotalsNeverWrap, LossIsRecorded

ClosedPaid(id) ==
  /\ free'[config.loanAsset][config.collectionAccount]
       = free[config.loanAsset][config.collectionAccount] + loans[id].total
  /\ id \in Listed =>
       /\ free'[config.collateralAsset][loans[id].who]
            = free[config.collateralAsset][loans[id].who]
       /\ id \notin Listed'

LEMMA ClosedNext ==
  ASSUME AccountsKept, AssetsKept, ExactAuctions, PoolInv, PoolInv', AccountsHold, [Next]_vars
  PROVE  (\A id \in DOMAIN loans \ DOMAIN loans' : ClosedPaid(id)) \/ UNCHANGED vars
<1>1. BookInv /\ TypeOK
  BY PoolFacts
<1>2. ASSUME DOMAIN loans \subseteq DOMAIN loans'
      PROVE  \A id \in DOMAIN loans \ DOMAIN loans' : ClosedPaid(id)
  BY <1>2
<1>3. ASSUME NEW id \in DOMAIN loans, loans' = WithoutLoan(id), ClosedPaid(id)
      PROVE  \A i \in DOMAIN loans \ DOMAIN loans' : ClosedPaid(i)
  <2>1. DOMAIN loans' = DOMAIN loans \ {id}
    BY <1>3 DEF WithoutLoan
  <2> QED
    BY <1>3, <2>1
<1>4. ASSUME NEW who \in Users, UserCall(who)
      PROVE  \A id \in DOMAIN loans \ DOMAIN loans' : ClosedPaid(id)
  <2>1. ASSUME NEW id \in DOMAIN loans, Repay(who, id)
        PROVE  \A i \in DOMAIN loans \ DOMAIN loans' : ClosedPaid(i)
    <3>1. loans' = WithoutLoan(id) /\ id \notin Listed
      BY <2>1 DEF Repay, CanRepay
    <3>2. free'[config.loanAsset][config.collectionAccount]
            = free[config.loanAsset][config.collectionAccount] + loans[id].total
      BY <2>1, RepaidMoves, KeptFacts
    <3>3. ClosedPaid(id)
      BY <3>1, <3>2 DEF ClosedPaid
    <3> QED
      BY <1>3, <3>1, <3>3
  <2>2. ASSUME NEW amount, Stake(who, amount) \/ Redeem(who, amount)
        PROVE  DOMAIN loans \subseteq DOMAIN loans'
    BY <2>2 DEF Stake, Redeem, Becomes, book
  <2>3. ASSUME NEW a \in Applications, Apply(who, a[1], a[2])
        PROVE  DOMAIN loans \subseteq DOMAIN loans'
    BY <2>3 DEF Apply, WithLoan
  <2>4. ASSUME NEW id \in DOMAIN loans, RepayReverted(who, id)
        PROVE  DOMAIN loans \subseteq DOMAIN loans'
    BY <2>4 DEF RepayReverted
  <2>5. ASSUME NEW id \in DOMAIN loans, NEW amount, AddCollateral(who, id, amount)
        PROVE  DOMAIN loans \subseteq DOMAIN loans'
    BY <1>1, <2>5, AddedLoan
  <2>6. ASSUME NEW id \in DOMAIN loans, NEW amount, Draw(who, id, amount)
        PROVE  DOMAIN loans \subseteq DOMAIN loans'
    BY <1>1, <2>6, DrawnLoan
  <2> HIDE DEF ClosedPaid
  <2> QED
    BY <1>2, <1>4, <2>1, <2>2, <2>3, <2>4, <2>5, <2>6 DEF UserCall
<1>5. ASSUME Settlement
      PROVE  \A id \in DOMAIN loans \ DOMAIN loans' : ClosedPaid(id)
  <2>1. PICK id \in DOMAIN loans :
          /\ CanMark(id, loans[id].total) /\ loans[id].total \in Nat
          /\ free' = Covered(id) /\ loans' = WithoutLoan(id)
          /\ liquidating' = WithoutId(liquidating, id)
    BY <1>5, ExactSettlement
  <2>2. free'[config.loanAsset][config.collectionAccount]
          = free[config.loanAsset][config.collectionAccount] + loans[id].total
    BY <2>1, CoveredMoves, KeptFacts
  <2>3. free'[config.collateralAsset][loans[id].who] = free[config.collateralAsset][loans[id].who]
    <3>1. loans[id].who \in Users
      BY DEF PoolInv, BorrowersAreUsers
    <3>2. /\ loans[id].who \in Accounts /\ config.collateralAsset \in AssetIds
          /\ loans[id].who \notin {config.collectionAccount, config.liquidationAccount}
      BY <3>1, PoolFacts
    <3> QED
      BY <2>1, <3>2, CoveredMoves
  <2>4. id \notin Listed'
    <3>1. liquidating \in Seq(Nat)
      BY <1>1 DEF TypeOK
    <3>2. Elements(liquidating') = Elements(liquidating) \ {id}
      BY <2>1, <3>1, FilterFacts
    <3> QED
      BY <3>2 DEF Listed, Elements
  <2>5. ClosedPaid(id)
    BY <2>2, <2>3, <2>4 DEF ClosedPaid
  <2> QED
    BY <1>3, <2>1, <2>5
<1>6. ASSUME Block PROVE DOMAIN loans \subseteq DOMAIN loans'
  BY <1>1, <1>6, BlockLoans DEF book
<1>7. ASSUME RootCall \/ PublishPrices PROVE DOMAIN loans \subseteq DOMAIN loans'
  BY <1>7 DEF RootCall, SetPaused, Configure, PublishPrices, book
<1> HIDE DEF ClosedPaid
<1> QED
  BY <1>2, <1>4, <1>5, <1>6, <1>7 DEF Next

\* While auctions bring exactly the loan, a loan leaves the book only against the
\* whole of its debt, paid to the collection account, and one that was listed for
\* liquidation leaves both lists together, its collateral not given back.
THEOREM LoansEndPaid ==
  ASSUME AccountsKept, AssetsKept, ExactAuctions
  PROVE  Spec => ClosedWhenPaid
<1>1. InitState => PoolInv /\ AccountsHold
  BY PoolInit DEF InitState, AccountsHold
<1>2. PoolInv /\ [Next]_vars => PoolInv'
  BY PoolNext
<1>3. PoolInv /\ AccountsHold /\ [Next]_vars => AccountsHold'
  BY KeptNext
<1>4. PoolInv /\ PoolInv' /\ AccountsHold /\ [Next]_vars =>
        [\A id \in DOMAIN loans \ DOMAIN loans' :
           /\ free'[config.loanAsset][config.collectionAccount]
                = free[config.loanAsset][config.collectionAccount] + loans[id].total
           /\ id \in Listed =>
                /\ free'[config.collateralAsset][loans[id].who]
                     = free[config.collateralAsset][loans[id].who]
                /\ id \notin Listed']_vars
  BY ClosedNext DEF ClosedPaid
<1> QED
  BY <1>1, <1>2, <1>3, <1>4, PTL DEF Spec, ClosedWhenPaid
=============================================================================
