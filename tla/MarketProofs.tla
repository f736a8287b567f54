---------------------------- MODULE MarketProofs ----------------------------
(***************************************************************************)
(* Proofs about Market, the oracle and the pool in one runtime: the        *)
(* published price lies between the reports that count, the pool sees only *)
(* such prices and is the pool DepositLoan specifies, and loans are listed *)
(* when, and only when, the price fell through. Last, that in the pool and *)
(* in the runtime a block halts only at a limit of its widths.             *)
(***************************************************************************)
EXTENDS Market, DepositLoanProofs

LEMMA OracleConstants ==
  /\ BTC \in Tokens /\ Width \in Nat \ {0} /\ NoPrice \notin Nat
  /\ \A p \in ReportPrices : p \in 0..(Width - 1)
  /\ AggregateInterval \in Nat \ {0} /\ MaxHeight \in Nat
  /\ GenesisSources \in [Tokens -> Nat] /\ MaxReports \in [Tokens -> Nat]
  /\ CurrentAtGenesis \in [Tokens -> 0..(Width - 1) \cup {NoPrice}]
BY OracleAssumption DEF Oracle!ConstantsOK

(***************************************************************************)
(* Division and remainder of naturals.                                     *)
(***************************************************************************)
LEMMA RemainderType ==
  ASSUME NEW n \in Nat, NEW d \in Nat \ {0}
  PROVE  n % d \in 0..(d - 1) /\ n % d <= n /\ (n - (n % d)) % d = 0
<1>1. n % d \in 0..(d - 1)
  OBVIOUS
<1>2. n % d <= n
  OBVIOUS
<1>3. (n - (n % d)) % d = 0
  <2> DEFINE q == n \div d
  <2>1. n - (n % d) = d * q
    <3>1. n = d * q + (n % d)
      OBVIOUS
    <3>2. n % d \in Nat /\ q \in Nat /\ d * q \in Nat
      <4>1. q \in Nat
        BY DivType
      <4> HIDE DEF q
      <4> QED
        BY <1>1, <4>1
    <3> HIDE DEF q
    <3> DEFINE m == d * q
               r == n % d
    <3> HIDE DEF m, r
    <3>3. n - r = m
      BY <3>1, <3>2 DEF m, r
    <3> QED
      BY <3>3 DEF m, r
  <2>2. q \in Nat
    BY DivType
  <2> HIDE DEF q
  <2>3. (d * q) % d = 0
    BY <2>2
  <2> QED
    BY <2>1, <2>3
<1> QED
  BY <1>1, <1>2, <1>3

LEMMA RemainderSmall ==
  ASSUME NEW n \in Nat, NEW d \in Nat \ {0}, n < d
  PROVE  n % d = n
OBVIOUS

LEMMA QuotientBetween ==
  ASSUME NEW n \in Nat, NEW d \in Nat \ {0}, NEW low \in Nat, NEW high \in Nat,
         d * low <= n, n <= d * high
  PROVE  n \div d \in low..high
<1>1. low <= n \div d
  OBVIOUS
<1>2. n \div d <= high
  OBVIOUS
<1>3. n \div d \in Nat
  BY DivType
<1> QED
  BY <1>1, <1>2, <1>3

LEMMA QuotientLess ==
  ASSUME NEW n \in Nat, NEW d \in Nat \ {0}, NEW m \in Nat
  PROVE  n \div d < m <=> n < m * d
OBVIOUS

-----------------------------------------------------------------------------
(***************************************************************************)
(* The oracle. Its types are all that is known of what anyone may report.  *)
(***************************************************************************)
LEMMA OracleSum ==
  ASSUME NEW list
  PROVE  Oracle!SumOfPrices(list) = SumFunction(list) % Width
BY DEF Oracle!SumOfPrices, Oracle!SumFunction, Oracle!SumFunctionOnSet, Oracle!FoldFunctionOnSet,
       Oracle!MapThenFoldSet, SumFunction, SumFunctionOnSet, FoldFunctionOnSet, MapThenFoldSet

\* The sum of a list of prices.
LEMMA ListPrices ==
  ASSUME NEW list \in Seq(ReportPrices)
  PROVE  /\ DOMAIN list = 1..Len(list) /\ IsFiniteSet(1..Len(list))
         /\ \A i \in 1..Len(list) : list[i] \in ReportPrices /\ list[i] \in Nat
         /\ SumFunction(list) \in Nat
<1>1. DOMAIN list = 1..Len(list) /\ Len(list) \in Nat /\ \A i \in 1..Len(list) : list[i] \in ReportPrices
  OBVIOUS
<1>2. IsFiniteSet(1..Len(list))
  BY <1>1, FS_Interval
<1>3. \A i \in 1..Len(list) : list[i] \in Nat
  BY <1>1, OracleConstants
<1>4. SumFunction(list) \in Nat
  BY <1>1, <1>2, <1>3, SumFunctionNat
<1> QED
  BY <1>1, <1>2, <1>3, <1>4

LEMMA MeanType ==
  ASSUME NEW list \in Seq(ReportPrices), list # << >>
  PROVE  Oracle!Mean(list) \in 0..(Width - 1)
<1>1. Len(list) \in Nat \ {0}
  OBVIOUS
<1> DEFINE sum == Oracle!SumOfPrices(list)
<1>2. sum \in 0..(Width - 1)
  BY OracleSum, ListPrices, OracleConstants, RemainderType
<1>3. Oracle!Mean(list) = sum \div Len(list)
  BY DEF Oracle!Mean
<1> HIDE DEF sum
<1>4. sum \in Nat /\ sum <= Width - 1 /\ Width \in Int
  BY <1>2, OracleConstants
<1>5. sum \div Len(list) \in Nat /\ sum \div Len(list) <= sum
  BY <1>1, <1>4, DivType
<1> DEFINE q == sum \div Len(list)
<1> HIDE DEF q
<1>6. q \in 0..(Width - 1)
  BY <1>4, <1>5 DEF q
<1> QED
  BY <1>3, <1>6 DEF q

LEMMA OracleInit == Oracle!Init => Oracle!TypeOK
<1>1. << >> \in Seq(ReportPrices)
  OBVIOUS
<1> QED
  BY <1>1, OracleConstants DEF Oracle!Init, Oracle!TypeOK

\* Stacking a report, of whatever token.
LEMMA StackKeeps ==
  ASSUME Oracle!TypeOK, NEW r \in pool, Oracle!StackPrice(r)
  PROVE  Oracle!TypeOK'
<1>1. /\ r.token \in Tokens /\ r.price \in ReportPrices
      /\ candidates \in [Tokens -> Seq(ReportPrices)]
  BY DEF Oracle!TypeOK, Oracle!Report
<1>2. Append(candidates[r.token], r.price) \in Seq(ReportPrices)
  BY <1>1
<1>3. candidates' \in [Tokens -> Seq(ReportPrices)]
  BY <1>1, <1>2 DEF Oracle!StackPrice
<1> QED
  BY <1>3 DEF Oracle!StackPrice, Oracle!TypeOK

\* The end of a block, whether it aggregates or not.
LEMMA FinalizeKeeps ==
  ASSUME Oracle!TypeOK, Oracle!Finalize, height <= MaxHeight
  PROVE  Oracle!TypeOK'
<1>0. /\ candidates \in [Tokens -> Seq(ReportPrices)] /\ height \in Nat /\ height >= 1
      /\ AggregateInterval \in Nat /\ MaxHeight \in Nat
      /\ current \in [Tokens -> 0..(Width - 1) \cup {NoPrice}]
      /\ \A t \in Tokens : candidates[t] \in Seq(ReportPrices)
  BY OracleConstants DEF Oracle!TypeOK
<1>1. height' = height + 1 /\ height' \in 1..(MaxHeight + 1) /\ UNCHANGED <<sources, pool>>
  BY <1>0 DEF Oracle!Finalize
<1>2. CASE height % AggregateInterval = 0
  <2>1. /\ current' = [t \in Tokens |-> Oracle!NewPrice(t)]
        /\ candidates' = [t \in Tokens |-> << >>]
        /\ nextAggregateAt' = height + AggregateInterval
    BY <1>2 DEF Oracle!Finalize, Oracle!Due
  <2>2. \A t \in Tokens : Oracle!NewPrice(t) \in 0..(Width - 1) \cup {NoPrice}
    BY <1>0, MeanType DEF Oracle!NewPrice
  <2>3. << >> \in Seq(ReportPrices)
    OBVIOUS
  <2>4. nextAggregateAt' \in 0..(MaxHeight + AggregateInterval)
    BY <1>0, <2>1
  <2> QED
    BY <1>1, <2>1, <2>2, <2>3, <2>4 DEF Oracle!TypeOK
<1>3. CASE height % AggregateInterval # 0
  <2>1. UNCHANGED <<current, candidates, nextAggregateAt>>
    BY <1>3 DEF Oracle!Finalize, Oracle!Due
  <2> QED
    BY <1>1, <2>1 DEF Oracle!TypeOK
<1> QED
  BY <1>2, <1>3

\* The oracle's part of a step of the runtime is a step of the oracle.
LEMMA OracleStep ==
  ASSUME [MarketNext]_market_vars
  PROVE  [Oracle!Next]_(Oracle!vars)
<1>1. CASE UNCHANGED oracle
  BY <1>1 DEF oracle, Oracle!vars
<1>2. ASSUME Ends PROVE Oracle!Next
  BY <1>2 DEF Ends, EndBlock, Oracle!Next
<1>3. ASSUME height <= MaxHeight, OracleCall \/ OffChain PROVE Oracle!Next
  BY <1>3 DEF OracleCall, OffChain, Oracle!Next
<1>4. ASSUME OnInitialize \/ PoolCall PROVE UNCHANGED oracle
  BY <1>4 DEF OnInitialize, PoolCall
<1>5. ASSUME UNCHANGED market_vars PROVE UNCHANGED oracle
  BY <1>5 DEF market_vars
<1> QED
  BY <1>1, <1>2, <1>3, <1>4, <1>5 DEF MarketNext, Starts

LEMMA OracleNext ==
  ASSUME Oracle!TypeOK, [Oracle!Next]_(Oracle!vars)
  PROVE  Oracle!TypeOK'
<1>1. CASE UNCHANGED Oracle!vars
  BY <1>1 DEF Oracle!vars, Oracle!TypeOK
<1>2. CASE Oracle!Finalize /\ height <= MaxHeight
  BY <1>2, FinalizeKeeps
<1>3. ASSUME NEW r \in Oracle!Report, Oracle!Submit(r) PROVE Oracle!TypeOK'
  BY <1>3 DEF Oracle!Submit, Oracle!TypeOK
<1>4. ASSUME NEW p \in ReportPrices, Oracle!Fetch(p) PROVE Oracle!TypeOK'
  <2>1. [token |-> BTC, price |-> p] \in Oracle!Report
    BY OracleConstants DEF Oracle!Report
  <2> QED
    BY <1>3, <1>4, <2>1 DEF Oracle!Fetch
<1>5. ASSUME NEW r \in pool, Oracle!StackPrice(r) PROVE Oracle!TypeOK'
  BY <1>5, StackKeeps
<1>6. ASSUME NEW r \in pool, Oracle!Drop(r) PROVE Oracle!TypeOK'
  BY <1>6 DEF Oracle!Drop, Oracle!TypeOK
<1>7. ASSUME NEW t \in Tokens, Oracle!AddSource(t) PROVE Oracle!TypeOK'
  <2>1. sources' \in [Tokens -> Nat]
    BY <1>7 DEF Oracle!AddSource, Oracle!TypeOK
  <2> QED
    BY <1>7, <2>1 DEF Oracle!AddSource, Oracle!TypeOK
<1> QED
  BY <1>1, <1>2, <1>3, <1>4, <1>5, <1>6, <1>7 DEF Oracle!Next

LEMMA OracleInvariant == MarketSpec => []Oracle!TypeOK
<1>1. MarketInit => Oracle!TypeOK
  BY OracleInit DEF MarketInit
<1>2. Oracle!TypeOK /\ [MarketNext]_market_vars => Oracle!TypeOK'
  BY OracleStep, OracleNext
<1> QED
  BY <1>1, <1>2, PTL DEF MarketSpec

-----------------------------------------------------------------------------
(***************************************************************************)
(* The published price. The sum of the reports wraps at the width of a     *)
(* price; as long as as many reports as one interval takes fit, it does    *)
(* not, and the mean lies between them.                                    *)
(***************************************************************************)
ReportsFit == \A t \in Tokens : \A p \in ReportPrices : MaxReports[t] * p < Width

ReportsBounded == \A t \in Tokens : Len(candidates[t]) <= MaxReports[t]

LEMMA BoundedNext ==
  ASSUME ReportsFit, Oracle!TypeOK, ReportsBounded, [Oracle!Next]_(Oracle!vars)
  PROVE  ReportsBounded'
<1>1. \A t \in Tokens : candidates[t] \in Seq(ReportPrices)
  BY DEF Oracle!TypeOK
<1>2. CASE UNCHANGED candidates
  BY <1>2 DEF ReportsBounded
<1>3. CASE \E t \in Tokens : /\ Len(candidates[t]) < MaxReports[t]
                             /\ \E r : candidates' = [candidates EXCEPT ![t] = Append(@, r)]
  <2>1. PICK t \in Tokens : /\ Len(candidates[t]) < MaxReports[t]
                            /\ \E r : candidates' = [candidates EXCEPT ![t] = Append(@, r)]
    BY <1>3
  <2>2. PICK r : candidates' = [candidates EXCEPT ![t] = Append(@, r)]
    BY <2>1
  <2>3. Len(Append(candidates[t], r)) = Len(candidates[t]) + 1 /\ Len(candidates[t]) \in Nat
    BY <1>1
  <2>4. candidates \in [Tokens -> Seq(ReportPrices)]
    BY DEF Oracle!TypeOK
  <2>5. /\ \A u \in Tokens \ {t} : candidates'[u] = candidates[u]
        /\ candidates'[t] = Append(candidates[t], r)
    BY <2>2, <2>4
  <2>6. Len(candidates[t]) + 1 <= MaxReports[t] /\ MaxReports[t] \in Nat
    BY <2>1, <2>3, OracleConstants
  <2> QED
    BY <2>3, <2>5, <2>6 DEF ReportsBounded
<1>4. CASE candidates' = [t \in Tokens |-> << >>]
  <2>1. Len(<< >>) = 0
    OBVIOUS
  <2> QED
    BY <1>4, <2>1, OracleConstants DEF ReportsBounded
<1>5. ASSUME NEW r \in pool, Oracle!StackPrice(r)
      PROVE  \E t \in Tokens : /\ Len(candidates[t]) < MaxReports[t]
                               /\ \E q : candidates' = [candidates EXCEPT ![t] = Append(@, q)]
  <2>1. r.token \in Tokens
    BY DEF Oracle!TypeOK, Oracle!Report
  <2> QED
    BY <1>5, <2>1 DEF Oracle!StackPrice
<1> QED
  BY <1>2, <1>3, <1>4, <1>5
     DEF Oracle!Next, Oracle!vars, Oracle!Finalize, Oracle!Fetch, Oracle!Submit, Oracle!Drop,
         Oracle!AddSource

LEMMA MeanBetween ==
  ASSUME ReportsFit, NEW list \in Seq(ReportPrices), list # << >>,
         NEW t \in Tokens, Len(list) <= MaxReports[t],
         NEW low \in ReportPrices, NEW high \in ReportPrices,
         \A i \in 1..Len(list) : low <= list[i] /\ list[i] <= high
  PROVE  Oracle!Mean(list) \in low..high
<1> DEFINE s == list
           most == MaxReports[t]
           n == Len(list)
           sum == SumFunction(s)
<1>0. n \in Nat \ {0} /\ low \in Nat /\ high \in Nat /\ Width \in Nat \ {0} /\ most \in Nat
      /\ n <= most /\ most * high < Width
  BY OracleConstants DEF ReportsFit
<1>1. DOMAIN s = 1..n /\ IsFiniteSet(1..n) /\ \A i \in 1..n : s[i] = list[i] /\ s[i] \in Nat
  BY ListPrices
<1>2. sum \in Nat
  BY ListPrices
<1>3. \A i \in 1..n : s[i] \in low..high
  BY <1>0, <1>1
<1>4. Cardinality(1..n) = n
  <2> HIDE DEF n
  <2>1. n \in Int /\ 1 \in Int /\ ~(1 > n)
    BY <1>0
  <2>2. Cardinality(1..n) = n - 1 + 1
    BY <2>1, FS_Interval
  <2> QED
    BY <2>1, <2>2
<1>5. Oracle!Mean(list) = (sum % Width) \div n
  BY OracleSum DEF Oracle!Mean
<1> HIDE DEF s, n, sum, most
<1>6. n * low <= sum /\ sum <= n * high
  <2> DEFINE D == 1..n
  <2>1. Cardinality(D) * low <= SumFunctionOnSet(s, D) /\ SumFunctionOnSet(s, D) <= Cardinality(D) * high
    <3>1. IsFiniteSet(D) /\ \A i \in D : s[i] \in low..high
      BY <1>1, <1>3
    <3> HIDE DEF D
    <3> QED
      BY <1>0, <3>1, SumBetween
  <2>2. SumFunctionOnSet(s, D) = sum /\ Cardinality(D) = n
    BY <1>1, <1>4 DEF sum, SumFunction
  <2> HIDE DEF D
  <2> QED
    BY <2>1, <2>2
<1>7. n * high <= most * high
  BY <1>0
<1>8. sum < Width
  <2> DEFINE a == n * high
             b == most * high
  <2>1. a \in Nat /\ b \in Nat
    BY <1>0
  <2>2. sum <= a /\ a <= b /\ b < Width
    BY <1>0, <1>6, <1>7
  <2> HIDE DEF a, b
  <2> QED
    BY <1>0, <1>2, <2>1, <2>2
<1>9. sum % Width = sum
  BY <1>0, <1>2, <1>8, RemainderSmall
<1>10. sum \div n \in low..high
  BY <1>0, <1>2, <1>6, QuotientBetween
<1> QED
  BY <1>5, <1>9, <1>10

\* A price moves only in a block the oracle aggregates in, to a value between the
\* lowest and the highest report, and all the reports are gone then.
LEMMA PriceStep ==
  ASSUME ReportsFit, Oracle!TypeOK, ReportsBounded, [Oracle!Next]_(Oracle!vars), NEW t \in Tokens,
         current'[t] # current[t] \/ Len(candidates'[t]) < Len(candidates[t])
  PROVE  /\ height % AggregateInterval = 0
         /\ candidates'[t] = << >>
         /\ candidates[t] # << >> /\ current'[t] = Oracle!Mean(candidates[t])
<1>0. /\ candidates[t] \in Seq(ReportPrices) /\ Len(candidates[t]) \in Nat
      /\ candidates \in [Tokens -> Seq(ReportPrices)]
  BY DEF Oracle!TypeOK
<1>1. current' # current \/ candidates' # candidates
  OBVIOUS
<1>2. ASSUME NEW r \in pool, Oracle!StackPrice(r) PROVE FALSE
  <2>1. current' = current /\ candidates' = [candidates EXCEPT ![r.token] = Append(@, r.price)]
    BY <1>2 DEF Oracle!StackPrice
  <2>2. Len(Append(candidates[t], r.price)) = Len(candidates[t]) + 1
    BY <1>0
  <2>3. candidates'[t] = candidates[t] \/ candidates'[t] = Append(candidates[t], r.price)
    BY <1>0, <2>1
  <2> QED
    BY <1>0, <2>1, <2>2, <2>3
<1>3. Oracle!Finalize
  BY <1>1, <1>2 DEF Oracle!Next, Oracle!vars, Oracle!Fetch, Oracle!Submit, Oracle!Drop, Oracle!AddSource
<1>4. height % AggregateInterval = 0
  BY <1>1, <1>3 DEF Oracle!Finalize, Oracle!Due
<1>5. candidates'[t] = << >> /\ current'[t] = Oracle!NewPrice(t)
  BY <1>3, <1>4 DEF Oracle!Finalize, Oracle!Due
<1>6. candidates[t] # << >>
  <2> SUFFICES ASSUME candidates[t] = << >> PROVE FALSE
    OBVIOUS
  <2>1. current'[t] = current[t] /\ candidates'[t] = candidates[t]
    BY <1>5 DEF Oracle!NewPrice
  <2> QED
    BY <1>0, <2>1
<1> QED
  BY <1>4, <1>5, <1>6 DEF Oracle!NewPrice

\* The least and the greatest price of some reports.
LEMMA ExtremePrices ==
  ASSUME NEW list \in Seq(ReportPrices), list # << >>, NEW S, S = {list[i] : i \in DOMAIN list}
  PROVE  /\ Oracle!Min(S) \in ReportPrices /\ Oracle!Max(S) \in ReportPrices
         /\ \A i \in 1..Len(list) : Oracle!Min(S) <= list[i] /\ list[i] <= Oracle!Max(S)
<1>1. DOMAIN list = 1..Len(list) /\ Len(list) \in Nat /\ 1 \in DOMAIN list
  OBVIOUS
<1>2. \A i \in 1..Len(list) : list[i] \in ReportPrices
  BY ListPrices
<1>3. S \in SUBSET ReportPrices /\ S # {} /\ S \in SUBSET Nat /\ S \in SUBSET (0..(Width - 1))
  <2>1. list[1] \in S
    BY <1>1
  <2>2. \A x \in S : x \in ReportPrices
    BY <1>1, <1>2
  <2>3. \A x \in S : x \in 0..(Width - 1) /\ x \in Nat
    BY <2>2, OracleConstants
  <2> QED
    BY <2>1, <2>2, <2>3
<1>4. \E m \in S : \A x \in S : m <= x
  BY <1>3, LeastExists
<1>5. \E m \in S : \A x \in S : m >= x
  <2>1. Width - 1 \in Nat
    BY OracleConstants
  <2> QED
    BY <1>3, <2>1, GreatestExists
<1>6. Oracle!Min(S) \in S /\ \A x \in S : Oracle!Min(S) <= x
  BY <1>4 DEF Oracle!Min
<1>7. Oracle!Max(S) \in S /\ \A x \in S : Oracle!Max(S) >= x
  BY <1>5 DEF Oracle!Max
<1>8. \A i \in 1..Len(list) : list[i] \in S
  BY <1>1
<1> QED
  BY <1>3, <1>6, <1>7, <1>8

\* No report is lost before it counted, none counts twice, and no price is made up.
THEOREM PricesFollow == ReportsFit => (MarketSpec => PriceFollowsReports)
<1> SUFFICES ASSUME ReportsFit PROVE MarketSpec => PriceFollowsReports
  OBVIOUS
<1> DEFINE Enclosed(t) ==
      current'[t] # current[t] \/ Len(candidates'[t]) < Len(candidates[t]) =>
        LET reported == {candidates[t][i] : i \in DOMAIN candidates[t]} IN
        /\ height % AggregateInterval = 0
        /\ candidates'[t] = << >>
        /\ current'[t] \in Oracle!Min(reported)..Oracle!Max(reported)
<1>1. MarketInit => ReportsBounded
  <2>1. Len(<< >>) = 0
    OBVIOUS
  <2> QED
    BY <2>1, OracleConstants DEF MarketInit, Oracle!Init, ReportsBounded
<1>2. Oracle!TypeOK /\ ReportsBounded /\ [MarketNext]_market_vars => ReportsBounded'
  BY OracleStep, BoundedNext
<1>3. Oracle!TypeOK /\ ReportsBounded /\ [MarketNext]_market_vars
        => [\A t \in Tokens : Enclosed(t)]_(Oracle!vars)
  <2> SUFFICES ASSUME Oracle!TypeOK, ReportsBounded, [MarketNext]_market_vars, NEW t \in Tokens,
                      current'[t] # current[t] \/ Len(candidates'[t]) < Len(candidates[t])
               PROVE  LET reported == {candidates[t][i] : i \in DOMAIN candidates[t]} IN
                      /\ height % AggregateInterval = 0
                      /\ candidates'[t] = << >>
                      /\ current'[t] \in Oracle!Min(reported)..Oracle!Max(reported)
    OBVIOUS
  <2> DEFINE reported == {candidates[t][i] : i \in DOMAIN candidates[t]}
             list == candidates[t]
  <2>1. /\ height % AggregateInterval = 0 /\ candidates'[t] = << >>
        /\ list # << >> /\ current'[t] = Oracle!Mean(list)
    BY OracleStep, PriceStep
  <2>2. list \in Seq(ReportPrices) /\ Len(list) <= MaxReports[t]
    BY DEF Oracle!TypeOK, ReportsBounded
  <2>3. reported = {list[i] : i \in DOMAIN list}
    OBVIOUS
  <2> HIDE DEF reported, list
  <2>4. /\ Oracle!Min(reported) \in ReportPrices /\ Oracle!Max(reported) \in ReportPrices
        /\ \A i \in 1..Len(list) : /\ Oracle!Min(reported) <= list[i]
                                   /\ list[i] <= Oracle!Max(reported)
    BY <2>1, <2>2, <2>3, ExtremePrices
  <2>5. Oracle!Mean(list) \in Oracle!Min(reported)..Oracle!Max(reported)
    BY <2>1, <2>2, <2>4, MeanBetween
  <2> QED
    BY <2>1, <2>5 DEF reported
<1> HIDE DEF Enclosed
<1>4. [][\A t \in Tokens : Enclosed(t)]_(Oracle!vars) => PriceFollowsReports
  BY DEF Enclosed, PriceFollowsReports, Oracle!PriceFollowsReports
<1> QED
  BY <1>1, <1>2, <1>3, <1>4, OracleInvariant, PTL DEF MarketSpec

-----------------------------------------------------------------------------
(***************************************************************************)
(* The pool of the runtime is the pool DepositLoan specifies. The prices   *)
(* it reads change only at the end of a block, and only to ones the        *)
(* reports enclose.                                                        *)
(***************************************************************************)
RangeCovered == \A low, high \in ReportPrices : low..high \subseteq Prices

PriceIsPublished == price = PricesFrom(current)

\* Between two ends of blocks the pool never sees a price change.
LEMMA CallsLeavePrices ==
  ASSUME \/ Block \/ Settlement \/ RootCall
         \/ \E who \in Users : UserCall(who)
  PROVE  price' = price
<1>1. RootCall => price' = price
  BY DEF RootCall, SetPaused, Configure, ledger
<1>2. Block \/ Settlement => price' = price
  BY DEF Block, Settlement, MarkLiquidated, MarkWithoutPenalty, MarkWithoutShare, ledger
<1>3. ASSUME NEW who, UserCall(who) PROVE price' = price
  BY <1>3 DEF UserCall, Stake, Redeem, Becomes, Apply, Repay, RepayReverted, AddCollateral, Draw,
              ledger
<1> QED
  BY <1>1, <1>2, <1>3

\* A token's price stays, or becomes one the pool knows.
LEMMA MeanIsKnown ==
  ASSUME RangeCovered, ReportsFit, Oracle!TypeOK, ReportsBounded,
         Oracle!Finalize, height <= MaxHeight, NEW t \in Tokens, current'[t] # current[t]
  PROVE  current'[t] \in Prices
<1>0. [Oracle!Next]_(Oracle!vars)
  BY DEF Oracle!Next
<1> DEFINE list == candidates[t]
           S == {list[i] : i \in DOMAIN list}
<1>1. list # << >> /\ current'[t] = Oracle!Mean(list)
  BY <1>0, PriceStep
<1>2. list \in Seq(ReportPrices) /\ Len(list) <= MaxReports[t]
  BY DEF Oracle!TypeOK, ReportsBounded
<1>3. S = {list[i] : i \in DOMAIN list}
  OBVIOUS
<1> HIDE DEF S, list
<1>4. /\ Oracle!Min(S) \in ReportPrices /\ Oracle!Max(S) \in ReportPrices
      /\ \A i \in 1..Len(list) : Oracle!Min(S) <= list[i] /\ list[i] <= Oracle!Max(S)
  BY <1>1, <1>2, <1>3, ExtremePrices
<1>5. Oracle!Mean(list) \in Oracle!Min(S)..Oracle!Max(S)
  BY <1>1, <1>2, <1>4, MeanBetween
<1> QED
  BY <1>1, <1>4, <1>5 DEF RangeCovered

\* What a block publishes of an asset is what it published before, or a price the
\* pool knows.
LEMMA PublishedStep ==
  ASSUME RangeCovered, ReportsFit, Oracle!TypeOK, ReportsBounded, PriceIsPublished,
         Oracle!Finalize, height <= MaxHeight, NEW asset \in AssetIds
  PROVE  PricesFrom(current')[asset] \in Prices \cup {price[asset]}
<1> DEFINE t == Symbol[asset]
<1>1. t \in Tokens
  BY SymbolAssumption
<1>2. PricesFrom(current')[asset] = PriceOf(current', asset) /\ price[asset] = PriceOf(current, asset)
  BY DEF PricesFrom, PriceIsPublished
<1>3. CASE current'[t] = current[t]
  BY <1>2, <1>3 DEF PriceOf
<1>4. CASE current'[t] # current[t]
  <2>1. current'[t] \in Prices
    BY <1>1, <1>4, MeanIsKnown
  <2>2. current'[t] # NoPrice
    BY <2>1, PricesAssumption, OracleConstants
  <2> QED
    BY <1>2, <2>1, <2>2 DEF PriceOf
<1> QED
  BY <1>3, <1>4

\* Every step of the runtime is a step of the pool, or one it does not see.
LEMMA StepIsPools ==
  ASSUME RangeCovered, ReportsFit, Oracle!TypeOK, ReportsBounded, PriceIsPublished,
         [MarketNext]_market_vars
  PROVE  [Next]_vars /\ PriceIsPublished'
<1>1. ASSUME Starts PROVE [Next]_vars /\ PriceIsPublished'
  <2>1. CASE Block
    BY <1>1, <2>1, CallsLeavePrices DEF Starts, OnInitialize, oracle, Next, PriceIsPublished
  <2>2. CASE UNCHANGED vars
    BY <1>1, <2>2 DEF Starts, OnInitialize, oracle, vars, PriceIsPublished
  <2> QED
    BY <1>1, <2>1, <2>2 DEF Starts, OnInitialize
<1>2. ASSUME ~halted, PoolCall PROVE [Next]_vars /\ PriceIsPublished'
  <2>1. Next
    BY <1>2 DEF PoolCall, Next
  <2>2. current' = current
    BY <1>2 DEF PoolCall, oracle
  <2> QED
    BY <1>2, <2>1, <2>2, CallsLeavePrices DEF PoolCall, PriceIsPublished
<1>3. ASSUME OracleCall \/ OffChain PROVE [Next]_vars /\ PriceIsPublished'
  <2>1. UNCHANGED vars /\ current' = current
    BY <1>3 DEF OracleCall, OffChain, Oracle!StackPrice, Oracle!AddSource, Oracle!Fetch,
                Oracle!Submit, Oracle!Drop
  <2> QED
    BY <2>1 DEF vars, PriceIsPublished
<1>4. ASSUME Ends PROVE [Next]_vars /\ PriceIsPublished'
  <2>1. /\ ~halted /\ height <= MaxHeight /\ Oracle!Finalize
        /\ price' = PricesFrom(current')
        /\ UNCHANGED <<free, settings, savings, book, halted>>
    BY <1>4 DEF Ends, EndBlock, PricesPublished
  <2>2. PriceIsPublished'
    BY <2>1 DEF PriceIsPublished
  <2>3. \A asset \in AssetIds : price'[asset] \in Prices \cup {price[asset]}
    BY <2>1, PublishedStep
  <2>4. price' \in [AssetIds -> Prices \cup {price[asset] : asset \in AssetIds}]
    <3>1. price' = [asset \in AssetIds |-> PriceOf(current', asset)]
      BY <2>1 DEF PricesFrom
    <3> QED
      BY <2>3, <3>1
  <2>5. Next
    BY <2>1, <2>3, <2>4 DEF Next, PublishPrices
  <2> QED
    BY <2>2, <2>5
<1>5. ASSUME UNCHANGED market_vars PROVE [Next]_vars /\ PriceIsPublished'
  BY <1>5 DEF market_vars, vars, oracle, PriceIsPublished
<1> QED
  BY <1>1, <1>2, <1>3, <1>4, <1>5 DEF MarketNext

\* Whoever submits what, no price reaches the pool but one within the range of the
\* reports, and no call sees a price change under it.
THEOREM PoolIsImplemented ==
  RangeCovered /\ ReportsFit => (MarketSpec => ImplementsPool)
<1> SUFFICES ASSUME RangeCovered, ReportsFit PROVE MarketSpec => Spec
  BY DEF ImplementsPool
<1>1. MarketInit => InitState /\ ReportsBounded /\ PriceIsPublished
  <2> SUFFICES ASSUME MarketInit PROVE ReportsBounded /\ PriceIsPublished
    BY DEF MarketInit
  <2>1. Len(<< >>) = 0
    OBVIOUS
  <2>2. ReportsBounded
    BY <2>1, OracleConstants DEF MarketInit, Oracle!Init, ReportsBounded
  <2>3. PriceIsPublished
    BY GenesisPriceAssumption DEF MarketInit, InitState, Oracle!Init, PriceIsPublished
  <2> QED
    BY <2>2, <2>3
<1>2. Oracle!TypeOK /\ ReportsBounded /\ [MarketNext]_market_vars => ReportsBounded'
  BY OracleStep, BoundedNext
<1>3. Oracle!TypeOK /\ ReportsBounded /\ PriceIsPublished /\ [MarketNext]_market_vars
        => [Next]_vars /\ PriceIsPublished'
  BY StepIsPools
<1> QED
  BY <1>1, <1>2, <1>3, OracleInvariant, PTL DEF MarketSpec, Spec

\* What is proved of the pool holds of the pool in its runtime, under the reports,
\* schedule and pauses it really meets: the book is consistent, a listed loan stays
\* until it is settled, a loan ends only paid, and the shop holds what was pledged.
THEOREM RuntimeKeepsPool ==
  ASSUME RangeCovered, ReportsFit, AccountsKept, AssetsKept, ExactAuctions
  PROVE  MarketSpec => /\ [](TypeOK /\ LoanBookConsistent /\ LiquidatingConsistent)
                       /\ LiquidationSticks /\ ClosedWhenPaid
                       /\ AddAmounts = {} => []ShopCoversLoans
<1>1. MarketSpec => Spec
  BY PoolIsImplemented DEF ImplementsPool
<1>2. Spec => ClosedWhenPaid
  BY LoansEndPaid
<1>3. AddAmounts = {} => (Spec => []ShopCoversLoans)
  BY PledgesAreHeld
<1> QED
  BY <1>1, <1>2, <1>3, BookCorrect, LiquidationStays

-----------------------------------------------------------------------------
(***************************************************************************)
(* Liquidation. A loan that is given is well by the price and the settings *)
(* it is given at, and stays so until the price falls or it is drawn from: *)
(* where the LTV limit leaves room for what apply_loan takes off the       *)
(* available collateral, no product wraps, both amounts are given, and     *)
(* nothing is added in another asset.                                      *)
(***************************************************************************)
LimitLeavesRoom ==
  GenesisConfig.ltvLimit * (PricePrec * LtvPrec)
    <= GenesisConfig.liquidationThreshold * (PricePrec * LtvPrec - GenesisConfig.ltvLimit)
AmountsAreGiven == \A a \in Applications : a[1] # 0 /\ a[2] # 0
MarketPrices == Prices \cup {GenesisPrice[GenesisConfig.collateralAsset]}
AmountsFit ==
  \A a \in Applications :
    /\ a[2] * (PricePrec * LtvPrec) <= MaxBalance
    /\ \A p \in MarketPrices : a[1] * p <= MaxBalance
\* The setters of the thresholds write each other's: warningThreshold is the one
\* that moves the judgement.
JudgementKept == {"collateralAsset", "ltvLimit", "warningThreshold"} \cap DOMAIN ConfigChoices = {}

JudgesAsAtGenesis ==
  /\ config.collateralAsset = GenesisConfig.collateralAsset
  /\ config.ltvLimit = GenesisConfig.ltvLimit
  /\ config.liquidationThreshold = GenesisConfig.liquidationThreshold
  /\ CollateralPrice \in MarketPrices

LEMMA JudgementNext ==
  ASSUME JudgementKept, TypeOK, JudgesAsAtGenesis, [Next]_vars
  PROVE  JudgesAsAtGenesis'
<1>1. CASE config' = config /\ price' = price
  BY <1>1 DEF JudgesAsAtGenesis, CollateralPrice
<1>2. ASSUME NEW setter \in DOMAIN ConfigChoices, NEW value \in ConfigChoices[setter],
             Configure(setter, value)
      PROVE  JudgesAsAtGenesis'
  <2>1. Written(setter) \notin {"collateralAsset", "ltvLimit", "liquidationThreshold"}
    BY DEF JudgementKept, Written
  <2>2. config' = [config EXCEPT ![Written(setter)] =
                     IF setter = "loanCap" /\ value = 0 THEN NoCap ELSE value]
        /\ price' = price
    BY <1>2 DEF Configure, ledger
  <2>3. config \in Config
    BY DEF TypeOK
  <2>4. /\ config'.collateralAsset = config.collateralAsset
        /\ config'.ltvLimit = config.ltvLimit
        /\ config'.liquidationThreshold = config.liquidationThreshold
    BY <2>1, <2>2, <2>3 DEF Config
  <2> QED
    BY <2>2, <2>4 DEF JudgesAsAtGenesis, CollateralPrice
<1>3. Block \/ Settlement => config' = config /\ price' = price
  BY DEF Block, Settlement, MarkLiquidated, MarkWithoutPenalty, MarkWithoutShare, settings, ledger
<1>4. ASSUME NEW who, UserCall(who) PROVE config' = config /\ price' = price
  BY <1>4 DEF UserCall, Stake, Redeem, Becomes, Apply, Repay, RepayReverted, AddCollateral, Draw,
              settings, ledger
<1>5. ASSUME PublishPrices PROVE JudgesAsAtGenesis'
  <2>1. config' = config /\ \A asset \in AssetIds : price'[asset] \in Prices \cup {price[asset]}
    BY <1>5 DEF PublishPrices, settings
  <2>2. config.collateralAsset \in AssetIds
    BY DEF TypeOK, Config
  <2>3. CollateralPrice' \in Prices \cup {CollateralPrice}
    BY <2>1, <2>2 DEF CollateralPrice
  <2> QED
    BY <2>1, <2>3 DEF JudgesAsAtGenesis, MarketPrices
<1>6. ASSUME NEW b, SetPaused(b) PROVE config' = config /\ price' = price
  BY <1>6 DEF SetPaused, ledger
<1>7. UNCHANGED vars => config' = config /\ price' = price
  BY DEF vars
<1> QED
  BY <1>1, <1>2, <1>3, <1>4, <1>5, <1>6, <1>7 DEF Next, RootCall

\* A step leaves what a loan owes and has available alone, or draws from it.
LEMMA UndrawnStays ==
  ASSUME AddAmounts = {}, BookInv, BookInv', TotalsCoverLoans, TotalsHold, [Next]_vars,
         NEW id \in DOMAIN loans, id \in DOMAIN loans'
  PROVE  \/ loans'[id].total = loans[id].total /\ loans'[id].available = loans[id].available
         \/ loans'[id].total > loans[id].total
<1>0. TypeOK /\ nextLoanId \notin DOMAIN loans
  BY BookFacts DEF BookInv
<1>1. CASE loans' = loans
  BY <1>1
<1>2. ASSUME Block
      PROVE  loans'[id].total = loans[id].total /\ loans'[id].available = loans[id].available
  <2>1. CASE UNCHANGED book
    BY <2>1 DEF book
  <2>2. CASE loans'[id] = [who |-> loans[id].who, original |-> loans[id].original,
                           available |-> loans[id].available, total |-> loans[id].total,
                           status |-> StatusAfter(id)]
    BY <2>2
  <2> QED
    BY <1>0, <1>2, <2>1, <2>2, BlockLoans
<1>3. ASSUME NEW i, loans' = WithoutLoan(i) PROVE loans'[id] = loans[id]
  BY <1>3 DEF WithoutLoan
<1>4. ASSUME NEW who, NEW c, NEW l, Apply(who, c, l) PROVE loans'[id] = loans[id]
  BY <1>0, <1>4 DEF Apply, WithLoan
<1>5. ASSUME NEW who, NEW i \in DOMAIN loans, NEW amount \in DrawAmounts, Draw(who, i, amount)
      PROVE  \/ loans'[id].total = loans[id].total /\ loans'[id].available = loans[id].available
             \/ loans'[id].total > loans[id].total
  <2>1. CASE i # id
    BY <1>0, <1>5, <2>1, DrawnLoan
  <2>2. CASE i = id
    <3>1. amount \in Balance /\ amount \in Nat
      BY ConstantFacts
    <3>2. loans'[id].total = loans[id].total + amount /\ loans[id].total \in Nat
          /\ loans[id].available \in Balance
      <4>1. loans'[id].total = loans[id].total + amount
        BY <1>5, <2>2, <3>1, DrawnAmounts
      <4>2. loans[id] \in Loan
        BY <1>0 DEF TypeOK
      <4> QED
        BY <4>1, <4>2, ConstantFacts DEF Loan
    <3>3. CASE amount > 0
      BY <3>1, <3>2, <3>3
    <3>4. CASE amount = 0
      <4>1. Low32(CollateralPrice) # 0
        BY <1>5 DEF Draw
      <4>2. CollateralPrice \in Nat
        BY <1>0 DEF CollateralPrice, TypeOK, Config
      <4>3. Low32(CollateralPrice) \in Nat
        BY <4>2, ConstantFacts DEF Low32
      <4>4. 0 \div Low32(CollateralPrice) = 0
        BY <4>1, <4>3
      <4>5. loans'[id].available = Wrapped(loans[id].available - amount \div Low32(CollateralPrice))
        BY <1>0, <1>5, <2>2 DEF Draw, TypeOK, Loan
      <4>6. Wrapped(loans[id].available - 0) = loans[id].available
        BY <3>2, ConstantFacts, WrapFacts
      <4> QED
        BY <3>2, <3>4, <4>4, <4>5, <4>6
    <3> QED
      BY <3>1, <3>3, <3>4
  <2> QED
    BY <2>1, <2>2
<1>6. ASSUME Settlement PROVE loans'[id] = loans[id]
  BY <1>3, <1>6 DEF Settlement, MarkLiquidated, MarkWithoutPenalty, MarkWithoutShare, book
<1>7. ASSUME NEW who, UserCall(who)
      PROVE  \/ loans'[id].total = loans[id].total /\ loans'[id].available = loans[id].available
             \/ loans'[id].total > loans[id].total
  <2>1. CASE \/ \E amount \in StakeAmounts : Stake(who, amount)
             \/ \E amount \in RedeemAmounts : Redeem(who, amount)
             \/ \E i \in DOMAIN loans : RepayReverted(who, i)
    BY <1>1, <2>1 DEF Stake, Redeem, Becomes, RepayReverted, book
  <2>2. CASE \E a \in Applications : Apply(who, a[1], a[2])
    BY <1>4, <2>2
  <2>3. CASE \E i \in DOMAIN loans : Repay(who, i)
    BY <1>3, <2>3 DEF Repay
  <2>4. CASE \E i \in DOMAIN loans : \E amount \in DrawAmounts : Draw(who, i, amount)
    BY <1>5, <2>4
  <2> QED
    BY <1>7, <2>1, <2>2, <2>3, <2>4 DEF UserCall
<1>8. ASSUME \/ RootCall
             \/ PublishPrices
             \/ UNCHANGED vars
      PROVE  loans' = loans
  BY <1>8 DEF RootCall, SetPaused, Configure, PublishPrices, book, vars
<1> QED
  BY <1>1, <1>2, <1>6, <1>7, <1>8 DEF Next

\* Only an application gives a loan.
LEMMA GivenByApply ==
  ASSUME BookInv, [Next]_vars, NEW id \in DOMAIN loans', id \notin DOMAIN loans
  PROVE  /\ id = nextLoanId
         /\ \E who \in Users, a \in Applications : Apply(who, a[1], a[2])
<1>0. TypeOK
  BY DEF BookInv
<1>1. ASSUME NEW who \in Users, UserCall(who)
      PROVE  \E a \in Applications : Apply(who, a[1], a[2])
  <2>1. ASSUME \/ \E amount \in StakeAmounts : Stake(who, amount)
               \/ \E amount \in RedeemAmounts : Redeem(who, amount)
               \/ \E i \in DOMAIN loans : RepayReverted(who, i)
        PROVE  FALSE
    BY <2>1 DEF Stake, Redeem, Becomes, RepayReverted, book
  <2>2. ASSUME \E i \in DOMAIN loans : Repay(who, i) PROVE FALSE
    BY <2>2 DEF Repay, WithoutLoan
  <2>3. ASSUME NEW i \in DOMAIN loans, \E amount \in AddAmounts : AddCollateral(who, i, amount)
        PROVE  FALSE
    BY <2>3 DEF AddCollateral
  <2>4. ASSUME NEW i \in DOMAIN loans, \E amount \in DrawAmounts : Draw(who, i, amount)
        PROVE  FALSE
    BY <2>4 DEF Draw
  <2> QED
    BY <1>1, <2>1, <2>2, <2>3, <2>4 DEF UserCall
<1>2. ASSUME Settlement PROVE FALSE
  BY <1>2 DEF Settlement, MarkLiquidated, MarkWithoutPenalty, MarkWithoutShare, WithoutLoan, book
<1>3. ASSUME Block PROVE FALSE
  BY <1>0, <1>3, BlockLoans DEF book
<1>4. ASSUME \/ RootCall
             \/ PublishPrices
             \/ UNCHANGED vars
      PROVE  FALSE
  BY <1>4 DEF RootCall, SetPaused, Configure, PublishPrices, book, vars
<1>5. \E who \in Users, a \in Applications : Apply(who, a[1], a[2])
  BY <1>1, <1>2, <1>3, <1>4 DEF Next
<1>6. id = nextLoanId
  BY <1>5 DEF Apply, WithLoan
<1> QED
  BY <1>5, <1>6

\* What is asked for within the limit is below the threshold, even of the collateral
\* less the loan divided by the price. Here unit is PRICE_PREC * LTV_PREC.
LEMMA RoomIsLeft ==
  ASSUME NEW c \in Nat, NEW l \in Nat, NEW p \in Nat \ {0}, NEW unit \in Nat \ {0},
         NEW limit \in Nat, NEW threshold \in Nat,
         l * unit < limit * (c * p), limit * unit <= threshold * (unit - limit)
  PROVE  /\ l \div p \in Nat /\ l \div p <= c
         /\ l * unit < threshold * ((c - (l \div p)) * p)
<1> DEFINE d == l \div p
           worth == c * p
           left == (c - d) * p
<1>1. d \in Nat /\ d * p <= l
  <2>1. d \in Nat
    BY DivType
  <2>2. d * p <= l
    OBVIOUS
  <2> QED
    BY <2>1, <2>2
<1>2. worth \in Nat /\ l * unit \in Nat /\ limit * unit \in Nat /\ limit * worth \in Nat
  OBVIOUS
<1>3. limit < unit /\ threshold > 0 /\ limit > 0 /\ worth > 0
  <2>1. limit # 0 /\ worth # 0
    BY <1>2
  <2>2. limit * unit > 0
    BY <2>1
  <2>3. limit < unit /\ threshold # 0
    <3>1. ASSUME limit >= unit PROVE threshold * (unit - limit) <= 0
      BY <3>1
    <3>2. ASSUME threshold = 0 PROVE threshold * (unit - limit) = 0
      BY <3>2
    <3> QED
      BY <2>2, <3>1, <3>2
  <2> QED
    BY <1>2, <2>1, <2>3
<1>4. l < worth
  <2>1. limit * worth <= unit * worth
    BY <1>2, <1>3
  <2>2. l * unit < unit * worth
    BY <1>2, <2>1
  <2> QED
    BY <1>2, <2>2
<1>5. d <= c
  <2>1. d * p < c * p
    BY <1>1, <1>2, <1>4
  <2> QED
    BY <1>1, <2>1
<1>6. left \in Nat /\ left >= worth - l
  <2>1. left = c * p - d * p
    BY <1>1, <1>5
  <2>2. c - d \in Nat
    BY <1>1, <1>5
  <2>3. left \in Nat
    BY <2>2
  <2>4. d * p \in Nat
    BY <1>1
  <2> QED
    BY <1>1, <1>2, <2>1, <2>3, <2>4
<1> HIDE DEF d, worth, left
<1>7. l * unit < threshold * (worth - l)
  <2> SUFFICES ASSUME threshold * (worth - l) <= l * unit PROVE FALSE
    BY <1>2
  <2> DEFINE room == threshold * (unit - limit)
  <2>1. threshold * (l * unit) < threshold * (limit * worth)
    <3> DEFINE u == l * unit
               v == limit * worth
    <3>1. u \in Nat /\ v \in Nat /\ u < v
      BY <1>2 DEF worth
    <3> HIDE DEF u, v
    <3>2. threshold * u < threshold * v
      BY <1>3, <3>1
    <3> QED
      BY <3>2 DEF u, v
  <2>2. limit * (threshold * (worth - l)) <= limit * (l * unit)
    <3>1. threshold * (worth - l) \in Int
      BY <1>2
    <3> QED
      BY <1>2, <3>1
  <2>3. limit * (threshold * (worth - l)) = threshold * (limit * worth) - threshold * (limit * l)
    BY <1>2
  <2>4. limit * (l * unit) = l * (limit * unit)
    OBVIOUS
  <2>5. threshold * (l * unit) - threshold * (limit * l) = l * room
    BY <1>3
  <2>6. l * (limit * unit) <= l * room
    <3>1. room \in Int /\ limit * unit <= room
      OBVIOUS
    <3> HIDE DEF room
    <3> QED
      BY <1>2, <3>1
  <2> DEFINE x == threshold * (limit * worth)
             y == threshold * (limit * l)
             z == threshold * (l * unit)
             m == l * (limit * unit)
             n == l * room
  <2>7. x \in Int /\ y \in Int /\ z \in Int /\ m \in Int /\ n \in Int
    BY <1>2
  <2>8. z < x /\ x - y <= m /\ z - y = n /\ m <= n
    BY <2>1, <2>2, <2>3, <2>4, <2>5, <2>6
  <2> HIDE DEF x, y, z, m, n
  <2> QED
    BY <2>7, <2>8
<1>8. threshold * (worth - l) <= threshold * left
  BY <1>2, <1>6
<1>9. l * unit < threshold * left
  <2> DEFINE x == threshold * (worth - l)
             y == threshold * left
             z == l * unit
  <2>1. x \in Int /\ y \in Int /\ z \in Int
    BY <1>2, <1>6
  <2>2. z < x /\ x <= y
    BY <1>7, <1>8
  <2> HIDE DEF x, y, z
  <2>3. z < y
    BY <2>1, <2>2
  <2> QED
    BY <2>3 DEF y, z
<1> QED
  BY <1>1, <1>5, <1>9 DEF d, left

\* A loan as it was applied for, and well at price p.
WellAt(a, loan, p) ==
  /\ loan.total = a[2] /\ loan.available \in 0..a[1]
  /\ a[2] * (PricePrec * LtvPrec) < GenesisConfig.liquidationThreshold * (loan.available * p)

LEMMA JudgementTypes ==
  ASSUME TypeOK, JudgesAsAtGenesis
  PROVE  /\ CollateralPrice \in Nat /\ PricePrec * LtvPrec \in Nat \ {0}
         /\ GenesisConfig.ltvLimit \in Nat /\ GenesisConfig.liquidationThreshold \in Nat
         /\ \A a \in Applications : a[1] \in Nat /\ a[2] \in Nat /\ a[1] \in Balance
<1>1. CollateralPrice \in Nat
  BY DEF TypeOK, CollateralPrice, Config
<1>2. PricePrec * LtvPrec \in Nat \ {0}
  BY ConstantFacts
<1>3. GenesisConfig.ltvLimit \in Nat /\ GenesisConfig.liquidationThreshold \in Nat
  BY GenesisAssumption DEF Config, Ltv
<1>4. \A a \in Applications : a[1] \in Balance /\ a[2] \in Balance
  BY ConstantFacts
<1> QED
  BY <1>1, <1>2, <1>3, <1>4, ConstantFacts

\* Amounts that fit have the LTV the formula says.
LEMMA LtvFits ==
  ASSUME TypeOK, JudgesAsAtGenesis, NEW c \in Nat, NEW l \in Nat, NEW t \in Nat,
         l * (PricePrec * LtvPrec) <= MaxBalance, c * CollateralPrice <= MaxBalance,
         c * CollateralPrice # 0
  PROVE  GetLtv(c, l) < t <=> l * (PricePrec * LtvPrec) < t * (c * CollateralPrice)
<1> DEFINE n == l * (PricePrec * LtvPrec)
           d == c * CollateralPrice
<1>1. n \in Nat /\ d \in Nat \ {0}
  <2>1. CollateralPrice \in Nat /\ PricePrec * LtvPrec \in Nat
    BY JudgementTypes
  <2> QED
    BY <2>1
<1>2. l * PricePrec * LtvPrec = n
  BY ConstantFacts
<1> HIDE DEF n, d
<1>3. Narrow(n) = n /\ Narrow(d) = d
  <2>1. MaxBalance \in Nat /\ n <= MaxBalance /\ d <= MaxBalance
    BY ConstantFacts DEF n, d
  <2> QED
    BY <1>1, <2>1 DEF Narrow
<1>4. GetLtv(c, l) = n \div d
  BY <1>2, <1>3 DEF GetLtv, LtvDivisor, d
<1>5. n \div d < t <=> n < t * d
  BY <1>1, QuotientLess
<1> QED
  BY <1>4, <1>5 DEF n, d

LEMMA WellIsHealthy ==
  ASSUME TypeOK, JudgesAsAtGenesis, AmountsFit, NEW a \in Applications, NEW id \in DOMAIN loans,
         NEW p \in Nat, WellAt(a, loans[id], p), p <= CollateralPrice
  PROVE  ~Unhealthy(id)
<1> DEFINE q == CollateralPrice
           l == a[2]
           c == loans[id].available
           unit == PricePrec * LtvPrec
           threshold == GenesisConfig.liquidationThreshold
<1>1. /\ q \in Nat /\ q \in MarketPrices /\ unit \in Nat \ {0} /\ threshold \in Nat
      /\ a[1] \in Nat /\ l \in Nat
  BY JudgementTypes DEF JudgesAsAtGenesis
<1>2. c \in Nat /\ c <= a[1] /\ loans[id].total = l /\ l * unit < threshold * (c * p)
  BY <1>1 DEF WellAt
<1>3. a[1] * q <= MaxBalance /\ l * unit <= MaxBalance
  BY <1>1 DEF AmountsFit
<1>4. p <= q
  OBVIOUS
<1>5. config.liquidationThreshold = threshold
  BY DEF JudgesAsAtGenesis
<1> HIDE DEF q, l, c, unit, threshold
<1>6. /\ c * q \in Nat /\ c * p \in Nat /\ c * p <= c * q /\ c * q <= a[1] * q
      /\ a[1] * q \in Nat /\ MaxBalance \in Nat
  <2>1. c * q \in Nat /\ c * p \in Nat /\ a[1] * q \in Nat
    BY <1>1, <1>2
  <2>2. c * p <= c * q
    BY <1>1, <1>2, <1>4
  <2>3. c * q <= a[1] * q
    BY <1>1, <1>2
  <2> QED
    BY <2>1, <2>2, <2>3, ConstantFacts
<1>7. l * unit < threshold * (c * q)
  <2>1. threshold * (c * p) <= threshold * (c * q)
    <3> DEFINE u == c * p
               v == c * q
    <3>1. u \in Nat /\ v \in Nat /\ u <= v
      BY <1>6
    <3> HIDE DEF u, v
    <3>2. threshold * u <= threshold * v
      BY <1>1, <3>1
    <3> QED
      BY <3>2 DEF u, v
  <2> DEFINE x == l * unit
             y == threshold * (c * p)
             z == threshold * (c * q)
  <2>2. x \in Nat /\ y \in Nat /\ z \in Nat
    BY <1>1, <1>6
  <2>3. x < y /\ y <= z
    BY <1>2, <2>1
  <2> HIDE DEF x, y, z
  <2>4. x < z
    BY <2>2, <2>3
  <2> QED
    BY <2>4 DEF x, z
<1>8. c * q # 0
  <2> SUFFICES ASSUME c * q = 0 PROVE FALSE
    OBVIOUS
  <2>1. threshold * (c * q) = 0
    BY <1>1
  <2>2. l * unit \in Nat
    BY <1>1
  <2> QED
    BY <1>7, <2>1, <2>2
<1>9. c * q <= MaxBalance
  <2> DEFINE x == c * q
             y == a[1] * q
  <2>1. x \in Nat /\ y \in Nat /\ MaxBalance \in Nat /\ x <= y /\ y <= MaxBalance
    BY <1>3, <1>6
  <2> HIDE DEF x, y
  <2>2. x <= MaxBalance
    BY <2>1
  <2> QED
    BY <2>2 DEF x
<1>10. GetLtv(c, l) < threshold
  BY <1>1, <1>2, <1>3, <1>7, <1>8, <1>9, LtvFits DEF q, unit
<1>11. GetLtv(loans[id].available, loans[id].total) < config.liquidationThreshold
  BY <1>2, <1>5, <1>10 DEF c
<1>12. ~(GetLtv(c, l) >= threshold)
  <2>1. GetLtv(c, l) \in Nat
    <3>1. Narrow(l * PricePrec * LtvPrec) \in Nat /\ LtvDivisor(c) \in Nat \ {0}
      <4>1. l * PricePrec * LtvPrec \in Nat
        BY <1>1, ConstantFacts
      <4>2. Narrow(c * q) = c * q
        BY <1>6, <1>9 DEF Narrow
      <4> QED
        BY <1>6, <1>8, <4>1, <4>2, NarrowType, ConstantFacts DEF LtvDivisor, q
    <3> QED
      BY <3>1, DivType DEF GetLtv
  <2> QED
    BY <1>1, <1>10, <2>1
<1>13. ~(GetLtv(loans[id].available, loans[id].total) >= config.liquidationThreshold)
  BY <1>2, <1>5, <1>12 DEF c
<1> QED
  BY <1>13 DEF Unhealthy, HealthOf

\* The LTV check of an application, which reads the original collateral, and the
\* judgement of on_initialize, which reads the available one, agree.
LEMMA AppliedWell ==
  ASSUME TypeOK, JudgesAsAtGenesis, AmountsFit, AmountsAreGiven, LimitLeavesRoom,
         NEW who, NEW a \in Applications, Apply(who, a[1], a[2])
  PROVE  WellAt(a, loans'[nextLoanId], CollateralPrice) /\ CollateralPrice \in Nat
<1> DEFINE p == CollateralPrice
           c == a[1]
           l == a[2]
           unit == PricePrec * LtvPrec
           limit == GenesisConfig.ltvLimit
           threshold == GenesisConfig.liquidationThreshold
           d == l \div p
<1>1. /\ p \in Nat /\ p \in MarketPrices /\ unit \in Nat \ {0} /\ threshold \in Nat /\ limit \in Nat
      /\ c \in Nat /\ l \in Nat /\ c \in Balance
  BY JudgementTypes DEF JudgesAsAtGenesis
<1>2. c * p <= MaxBalance /\ l * unit <= MaxBalance /\ c # 0 /\ l # 0
  BY <1>1 DEF AmountsFit, AmountsAreGiven
<1>3. p # 0 /\ ~AmountsPanic(c, l) /\ ~AmountsRefused(c, l)
  BY DEF Apply
<1>4. LtvDivisor(c) # 0 /\ ~(GetLtv(c, l) >= limit)
  BY <1>2, <1>3 DEF AmountsPanic, AmountsRefused, JudgesAsAtGenesis
<1>5. CollateralLoan(c, l) = [collateral |-> c, loan |-> l]
  BY <1>2 DEF CollateralLoan
<1>6. loans'[nextLoanId] = [who |-> who, original |-> c, available |-> Wrapped(c - d),
                            total |-> l, status |-> "Well"]
  <2>1. loans' = WithLoan(nextLoanId,
                  [who |-> who, original |-> CollateralLoan(c, l).collateral,
                   available |-> Wrapped(CollateralLoan(c, l).collateral - l \div CollateralPrice),
                   total |-> CollateralLoan(c, l).loan, status |-> "Well"])
    BY DEF Apply
  <2> QED
    BY <1>5, <2>1 DEF WithLoan
<1>7. loans'[nextLoanId].total = l /\ loans'[nextLoanId].available = Wrapped(c - d)
  BY <1>6
<1>8. limit * unit <= threshold * (unit - limit)
  BY DEF LimitLeavesRoom
<1>9. l * unit < limit * (c * p)
  <2>1. c * p # 0
    BY <1>1, <1>2, <1>3
  <2>2. GetLtv(c, l) \in Nat
    <3>1. LtvDivisor(c) \in Nat \ {0}
      <4>1. c * p \in Nat
        BY <1>1
      <4> QED
        BY <1>4, <4>1, NarrowType, ConstantFacts DEF LtvDivisor
    <3>2. Narrow(l * PricePrec * LtvPrec) \in Nat
      <4>1. l * PricePrec * LtvPrec \in Nat
        BY <1>1, ConstantFacts
      <4> QED
        BY <4>1, NarrowType, ConstantFacts
    <3> QED
      BY <3>1, <3>2, DivType DEF GetLtv
  <2>3. GetLtv(c, l) < limit
    BY <1>1, <1>4, <2>2
  <2> QED
    BY <1>1, <1>2, <2>1, <2>3, LtvFits
<1> HIDE DEF p, c, l, unit, limit, threshold
<1>10. d \in Nat /\ d <= c /\ l * unit < threshold * ((c - d) * p)
  BY <1>1, <1>3, <1>8, <1>9, RoomIsLeft
<1> HIDE DEF d
<1>11. Wrapped(c - d) = c - d /\ c - d \in 0..c
  <2>1. d \in Balance
    BY <1>1, <1>10, ConstantFacts
  <2>2. Wrapped(c - d) = c - d
    BY <1>1, <1>10, <2>1, WrapFacts
  <2> QED
    BY <1>1, <1>10, <2>2
<1>12. /\ loans'[nextLoanId].total = l /\ loans'[nextLoanId].available = c - d
       /\ c - d \in 0..c /\ l * unit < threshold * ((c - d) * p) /\ p \in Nat
  BY <1>1, <1>7, <1>10, <1>11
<1> QED
  BY <1>12 DEF WellAt, p, c, l, unit, threshold

\* Where a step leaves the price, the settings and a loan's amounts, it leaves the
\* judgement.
LEMMA SameHealth ==
  ASSUME NEW id \in DOMAIN loans, id \in DOMAIN loans', JudgesAsAtGenesis, JudgesAsAtGenesis',
         price' = price, loans'[id].total = loans[id].total,
         loans'[id].available = loans[id].available
  PROVE  Unhealthy(id)' <=> Unhealthy(id)
<1>1. CollateralPrice' = CollateralPrice /\ config'.liquidationThreshold = config.liquidationThreshold
  BY DEF JudgesAsAtGenesis, CollateralPrice
<1>2. GetLtv(loans[id].available, loans[id].total)' = GetLtv(loans[id].available, loans[id].total)
  BY <1>1 DEF GetLtv, LtvDivisor
<1>3. LtvPanics(loans[id].available, loans[id].total)' <=> LtvPanics(loans[id].available, loans[id].total)
  BY <1>1, <1>2 DEF LtvPanics, LtvDivisor
<1> QED
  BY <1>1, <1>2, <1>3 DEF Unhealthy, HealthOf

\* A loan is listed only by a block that judges it.
LEMMA ListedByBlock ==
  ASSUME BookInv, BookInv', [Next]_vars, NEW id \in Listed', id \notin Listed
  PROVE  Unhealthy(id) /\ Block
<1>1. ASSUME liquidating' = liquidating PROVE FALSE
  BY <1>1 DEF Listed
<1>2. ASSUME NEW who, UserCall(who) PROVE FALSE
  BY <1>1, <1>2 DEF UserCall, Stake, Redeem, Becomes, Apply, Repay, RepayReverted, AddCollateral, Draw, book
<1>3. ASSUME Settlement PROVE FALSE
  <2>1. PICK i : liquidating' = liquidating \/ liquidating' = WithoutId(liquidating, i)
    BY <1>3 DEF Settlement, MarkLiquidated, MarkWithoutPenalty, MarkWithoutShare, book
  <2>2. liquidating \in Seq(Nat)
    BY DEF BookInv, TypeOK
  <2>3. Elements(WithoutId(liquidating, i)) = Elements(liquidating) \ {i}
    BY <2>2, FilterFacts
  <2> QED
    BY <1>1, <2>1, <2>3 DEF Elements, Listed
<1>4. ASSUME \/ RootCall
             \/ PublishPrices
             \/ UNCHANGED vars
      PROVE  FALSE
  BY <1>1, <1>4 DEF RootCall, SetPaused, Configure, PublishPrices, book, vars
<1>5. Block
  BY <1>2, <1>3, <1>4 DEF Next
<1>6. id \in DOMAIN loans' /\ loans'[id].status = "Liquidating" /\ TypeOK
  <2>1. Listed' = {i \in DOMAIN loans' : loans'[i].status = "Liquidating"}
    BY DEF BookInv, LiquidatingConsistent
  <2> QED
    BY <2>1 DEF BookInv
<1>7. id \in DOMAIN loans /\ StatusAfter(id) = "Liquidating"
  <2>1. CASE UNCHANGED book
    BY <1>1, <2>1 DEF book
  <2>2. CASE /\ DOMAIN loans' = DOMAIN loans
             /\ \A i \in DOMAIN loans :
                  loans'[i] = [who |-> loans[i].who, original |-> loans[i].original,
                               available |-> loans[i].available, total |-> loans[i].total,
                               status |-> StatusAfter(i)]
    BY <1>6, <2>2
  <2> QED
    BY <1>5, <1>6, <2>1, <2>2, BlockLoans
<1>8. loans[id].status # "Liquidating"
  BY <1>7, BookFacts DEF MarkedLoans
<1>9. id \in Judged /\ ~HealthPanics
  BY <1>1, <1>5, <1>7 DEF Judged, Block, BlockPanics, book
<1>10. ~LtvPanics(loans[id].available, loans[id].total)
  BY <1>9 DEF HealthPanics
<1> QED
  BY <1>5, <1>7, <1>8, <1>10 DEF StatusAfter, Unhealthy

\* A block lists every loan that is at the threshold or beyond.
LEMMA BlockListsAll ==
  ASSUME BookInv, BookInv', Block, ~halted', NEW id \in DOMAIN loans, Unhealthy(id)
  PROVE  id \in Listed'
<1>0. TypeOK
  BY DEF BookInv
<1>1. /\ DOMAIN loans' = DOMAIN loans
      /\ loans'[id] = [loans[id] EXCEPT !.status = StatusAfter(id)]
  BY DEF Block
<1>2. loans[id] \in Loan
  BY <1>0 DEF TypeOK
<1>3. loans'[id].status = StatusAfter(id)
  BY <1>1, <1>2 DEF Loan
<1>4. StatusAfter(id) = "Liquidating"
  <2>1. CASE id \in Listed
    BY <2>1, BookFacts DEF StatusAfter, Judged, MarkedLoans
  <2>2. CASE id \notin Listed
    BY <2>2 DEF StatusAfter, Judged, Unhealthy
  <2> QED
    BY <2>1, <2>2
<1> QED
  BY <1>1, <1>3, <1>4 DEF BookInv, LiquidatingConsistent

\* Once a block has judged them, every loan is listed, well, or drawn from since.
Unescaped ==
  ~halted /\ phase = "Judged" =>
    \A id \in DOMAIN loans : id \in Listed \/ id \in drawnNow \/ ~Unhealthy(id)
\* A loan nothing was drawn from is well at the price it was given at.
GivenWell ==
  \A id \in DOMAIN givenAt :
    /\ id \in DOMAIN loans /\ givenAt[id] \in Nat
    /\ \E a \in Applications : WellAt(a, loans[id], givenAt[id])
HealthyWhenWell ==
  \A id \in DOMAIN loans, a \in Applications, p \in Nat :
    WellAt(a, loans[id], p) /\ p <= CollateralPrice => ~Unhealthy(id)

LEMMA BlockKeepsAmounts ==
  ASSUME TypeOK, Block
  PROVE  /\ DOMAIN loans' = DOMAIN loans /\ price' = price
         /\ \A id \in DOMAIN loans :
              loans'[id].total = loans[id].total /\ loans'[id].available = loans[id].available
<1>1. price' = price
  BY DEF Block, ledger
<1>2. CASE UNCHANGED book
  BY <1>1, <1>2 DEF book
<1>3. CASE /\ DOMAIN loans' = DOMAIN loans
           /\ \A id \in DOMAIN loans :
                loans'[id] = [who |-> loans[id].who, original |-> loans[id].original,
                              available |-> loans[id].available, total |-> loans[id].total,
                              status |-> StatusAfter(id)]
  BY <1>1, <1>3
<1> QED
  BY <1>2, <1>3, BlockLoans

LEMMA UnescapedNext ==
  ASSUME AddAmounts = {}, AmountsFit, AmountsAreGiven, LimitLeavesRoom,
         BookInv, BookInv', TotalsCoverLoans, TotalsHold, [Next]_vars,
         JudgesAsAtGenesis, JudgesAsAtGenesis', HealthyWhenWell',
         Unescaped, [MarketNext]_market_vars
  PROVE  Unescaped'
<1>0. TypeOK
  BY DEF BookInv
<1>1. ASSUME Block, ~halted', NEW id \in DOMAIN loans' PROVE id \in Listed' \/ ~Unhealthy(id)'
  <2>1. id \in DOMAIN loans /\ price' = price /\ loans'[id].total = loans[id].total
        /\ loans'[id].available = loans[id].available
    BY <1>0, <1>1, BlockKeepsAmounts
  <2>2. Unhealthy(id)' <=> Unhealthy(id)
    BY <1>1, <2>1, SameHealth
  <2>3. Unhealthy(id) => id \in Listed'
    BY <1>1, <2>1, BlockListsAll
  <2> QED
    BY <2>2, <2>3
<1>2. ASSUME PoolCall, ~halted, phase = "Judged", NEW id \in DOMAIN loans', price' = price
      PROVE  id \in Listed' \/ id \in drawnNow' \/ ~Unhealthy(id)'
  <2>1. CASE id \notin DOMAIN loans
    <3>1. PICK who \in Users, a \in Applications : id = nextLoanId /\ Apply(who, a[1], a[2])
      BY <2>1, GivenByApply
    <3>2. WellAt(a, loans'[id], CollateralPrice) /\ CollateralPrice \in Nat
      BY <1>0, <3>1, AppliedWell
    <3>3. CollateralPrice' = CollateralPrice
      BY <1>2 DEF JudgesAsAtGenesis, CollateralPrice
    <3>4. CollateralPrice <= CollateralPrice'
      BY <3>2, <3>3
    <3> QED
      BY <1>2, <3>2, <3>4 DEF HealthyWhenWell, WellAt
  <2>2. CASE id \in DOMAIN loans
    <3>1. drawnNow' = drawnNow \cup {i \in DOMAIN loans \cap DOMAIN loans' : loans'[i].total > loans[i].total}
      BY <1>2 DEF PoolCall, Observe
    <3>2. id \in Listed \/ id \in drawnNow \/ ~Unhealthy(id)
      BY <1>2, <2>2 DEF Unescaped
    <3>3. CASE id \in Listed
      BY <1>2, <3>3, ListedStays
    <3>4. CASE id \in drawnNow
      BY <3>1, <3>4
    <3>5. CASE ~Unhealthy(id)
      <4>1. CASE loans'[id].total > loans[id].total
        BY <1>2, <2>2, <3>1, <4>1
      <4>2. CASE loans'[id].total = loans[id].total /\ loans'[id].available = loans[id].available
        <5>1. Unhealthy(id)' <=> Unhealthy(id)
          BY <1>2, <2>2, <4>2, SameHealth
        <5> QED
          BY <3>5, <5>1
      <4> QED
        BY <1>2, <2>2, <4>1, <4>2, UndrawnStays
    <3> QED
      BY <3>2, <3>3, <3>4, <3>5
  <2> QED
    BY <2>1, <2>2
<1>3. ASSUME PoolCall PROVE price' = price
  <2>1. ASSUME NEW who, UserCall(who) PROVE price' = price
    BY <2>1 DEF UserCall, Stake, Redeem, Becomes, Apply, Repay, RepayReverted, AddCollateral, Draw, ledger
  <2>2. Settlement \/ RootCall => price' = price
    BY DEF Settlement, MarkLiquidated, MarkWithoutPenalty, MarkWithoutShare, RootCall, SetPaused,
           Configure, ledger
  <2> QED
    BY <1>3, <2>1, <2>2 DEF PoolCall
<1>4. ASSUME Starts PROVE Unescaped'
  BY <1>1, <1>4 DEF Starts, OnInitialize, Unescaped
<1>5. ASSUME PoolCall, ~halted PROVE Unescaped'
  <2>1. phase' = phase
    BY <1>5 DEF PoolCall
  <2> QED
    BY <1>2, <1>3, <1>5, <2>1 DEF Unescaped
<1>6. ASSUME UNCHANGED <<vars, phase, history>> PROVE Unescaped'
  <2>1. /\ loans' = loans /\ Listed' = Listed /\ drawnNow' = drawnNow /\ phase' = phase
        /\ halted' = halted /\ price' = price
    BY <1>6 DEF vars, history, Listed
  <2>2. ASSUME NEW id \in DOMAIN loans PROVE Unhealthy(id)' <=> Unhealthy(id)
    BY <2>1, SameHealth
  <2> QED
    BY <2>1, <2>2 DEF Unescaped
<1>7. ASSUME OracleCall \/ OffChain PROVE UNCHANGED <<vars, phase, history>>
  BY <1>7 DEF OracleCall, OffChain
<1>8. ASSUME Ends PROVE Unescaped'
  BY <1>8 DEF Ends, EndBlock, Unescaped
<1> QED
  BY <1>4, <1>5, <1>6, <1>7, <1>8 DEF MarketNext, market_vars

LEMMA GivenWellNext ==
  ASSUME AddAmounts = {}, AmountsFit, AmountsAreGiven, LimitLeavesRoom,
         BookInv, BookInv', TotalsCoverLoans, TotalsHold, [Next]_vars,
         JudgesAsAtGenesis, GivenWell, [MarketNext]_market_vars
  PROVE  GivenWell'
<1>0. TypeOK
  BY DEF BookInv
<1>1. ASSUME NEW id \in DOMAIN givenAt, id \in DOMAIN loans', givenAt'[id] = givenAt[id],
             ~(loans'[id].total > loans[id].total)
      PROVE  /\ givenAt'[id] \in Nat
             /\ \E a \in Applications : WellAt(a, loans'[id], givenAt'[id])
  <2>1. id \in DOMAIN loans
    BY DEF GivenWell
  <2>2. loans'[id].total = loans[id].total /\ loans'[id].available = loans[id].available
    BY <1>1, <2>1, UndrawnStays
  <2> QED
    BY <1>1, <2>2 DEF GivenWell, WellAt
<1>2. ASSUME DOMAIN loans' = DOMAIN loans, givenAt' = givenAt,
             \A id \in DOMAIN loans : loans'[id].total = loans[id].total
      PROVE  GivenWell'
  <2> SUFFICES ASSUME NEW id \in DOMAIN givenAt
               PROVE  /\ id \in DOMAIN loans' /\ givenAt'[id] \in Nat
                      /\ \E a \in Applications : WellAt(a, loans'[id], givenAt'[id])
    BY <1>2 DEF GivenWell, WellAt
  <2>1. id \in DOMAIN loans /\ loans[id] \in Loan
    BY <1>0 DEF GivenWell, TypeOK
  <2>2. ~(loans'[id].total > loans[id].total)
    <3>1. loans[id].total \in Nat
      BY <2>1, ConstantFacts DEF Loan
    <3> QED
      BY <1>2, <2>1, <3>1
  <2> QED
    BY <1>1, <1>2, <2>1, <2>2
<1>3. ASSUME PoolCall PROVE GivenWell'
  <2> DEFINE drawn == {i \in DOMAIN loans \cap DOMAIN loans' : loans'[i].total > loans[i].total}
             given == DOMAIN loans' \ DOMAIN loans
  <2>1. givenAt' = [id \in ((DOMAIN givenAt \cap DOMAIN loans') \ drawn) \cup given |->
                      IF id \in given THEN CollateralPrice ELSE givenAt[id]]
    BY <1>3 DEF PoolCall, Observe
  <2>2. ASSUME NEW id \in given
        PROVE  /\ id \in DOMAIN loans' /\ givenAt'[id] \in Nat
               /\ \E a \in Applications : WellAt(a, loans'[id], givenAt'[id])
    <3>1. PICK who \in Users, a \in Applications : id = nextLoanId /\ Apply(who, a[1], a[2])
      BY <2>2, GivenByApply
    <3>2. WellAt(a, loans'[id], CollateralPrice) /\ CollateralPrice \in Nat
      BY <1>0, <3>1, AppliedWell
    <3>3. givenAt'[id] = CollateralPrice
      BY <2>1, <2>2
    <3> QED
      BY <2>2, <3>2, <3>3
  <2>3. ASSUME NEW id \in (DOMAIN givenAt \cap DOMAIN loans') \ drawn, id \notin given
        PROVE  /\ id \in DOMAIN loans' /\ givenAt'[id] \in Nat
               /\ \E a \in Applications : WellAt(a, loans'[id], givenAt'[id])
    BY <1>1, <2>1, <2>3
  <2> HIDE DEF drawn, given
  <2>4. DOMAIN givenAt' = ((DOMAIN givenAt \cap DOMAIN loans') \ drawn) \cup given
    BY <2>1
  <2> QED
    BY <2>2, <2>3, <2>4 DEF GivenWell, WellAt
<1>4. ASSUME UNCHANGED vars, givenAt' = givenAt PROVE GivenWell'
  BY <1>2, <1>4 DEF vars
<1>5. ASSUME Starts PROVE GivenWell'
  <2>1. givenAt' = givenAt
    BY <1>5 DEF Starts, OnInitialize, history
  <2>2. CASE Block
    BY <1>0, <1>2, <2>1, <2>2, BlockKeepsAmounts
  <2> QED
    BY <1>4, <1>5, <2>1, <2>2 DEF Starts, OnInitialize
<1>6. ASSUME OracleCall \/ OffChain PROVE GivenWell'
  BY <1>4, <1>6 DEF OracleCall, OffChain, history
<1>7. ASSUME Ends PROVE GivenWell'
  BY <1>2, <1>7 DEF Ends, EndBlock, book
<1>8. ASSUME UNCHANGED market_vars PROVE GivenWell'
  BY <1>4, <1>8 DEF market_vars, history
<1> QED
  BY <1>3, <1>5, <1>6, <1>7, <1>8 DEF MarketNext

LEMMA JudgementFacts ==
  /\ InitState => JudgesAsAtGenesis
  /\ BookInv /\ [TotalsHold]_vars => TotalsHold
  /\ AmountsFit /\ BookInv /\ JudgesAsAtGenesis => HealthyWhenWell
<1>1. InitState => JudgesAsAtGenesis
  BY DEF InitState, JudgesAsAtGenesis, MarketPrices, CollateralPrice
<1>2. BookInv /\ [TotalsHold]_vars => TotalsHold
  <2> SUFFICES ASSUME BookInv, UNCHANGED vars PROVE TotalsHold
    OBVIOUS
  <2>1. totalLoan' = totalLoan /\ totalCollateral' = totalCollateral
    BY DEF vars
  <2> QED
    BY <2>1, TotalsTypes DEF TotalsHold
<1>3. AmountsFit /\ BookInv /\ JudgesAsAtGenesis => HealthyWhenWell
  BY WellIsHealthy DEF HealthyWhenWell, BookInv
<1> QED
  BY <1>1, <1>2, <1>3

\* What the runtime promises its debtors rests on: the pool's prices are the
\* oracle's, and the settings and amounts are those the judgement is made for.
FairJudgement ==
  /\ RangeCovered /\ ReportsFit
  /\ JudgementKept /\ LimitLeavesRoom /\ AmountsAreGiven /\ AmountsFit /\ AddAmounts = {}

LEMMA JudgedPool ==
  ASSUME FairJudgement
  PROVE  MarketSpec /\ TotalsNeverWrap =>
           /\ [][Next]_vars /\ [](BookInv /\ TotalsCoverLoans /\ JudgesAsAtGenesis /\ HealthyWhenWell)
           /\ [][TotalsHold]_vars
<1>1. MarketSpec => Spec
  BY PoolIsImplemented DEF ImplementsPool, FairJudgement
<1>2. InitState => BookInv
  BY BookInit
<1>3. BookInv /\ [Next]_vars => BookInv'
  BY BookNext
<1>4. BookInv /\ JudgesAsAtGenesis /\ [Next]_vars => JudgesAsAtGenesis'
  BY JudgementNext DEF BookInv, FairJudgement
<1>5. BookInv /\ JudgesAsAtGenesis => HealthyWhenWell
  BY JudgementFacts DEF FairJudgement
<1>6. InitState => JudgesAsAtGenesis
  BY JudgementFacts
<1> QED
  BY <1>1, <1>2, <1>3, <1>4, <1>5, <1>6, TotalsCovered, PTL DEF Spec, TotalsNeverWrap

\* No loan that fell through the threshold by its block's price is repaid in that
\* block, or taken off the book otherwise: it is listed, or its debtor drew it
\* there since.
THEOREM NoLoanEscapes == FairJudgement => (MarketSpec /\ TotalsNeverWrap => NoneEscapes)
<1> SUFFICES ASSUME FairJudgement PROVE MarketSpec /\ TotalsNeverWrap => NoneEscapes
  OBVIOUS
<1>1. MarketInit => Unescaped
  BY DEF MarketInit, Unescaped
<1>2. BookInv /\ BookInv' /\ TotalsCoverLoans /\ [TotalsHold]_vars /\ [Next]_vars
      /\ JudgesAsAtGenesis /\ JudgesAsAtGenesis' /\ HealthyWhenWell'
      /\ Unescaped /\ [MarketNext]_market_vars => Unescaped'
  BY UnescapedNext, JudgementFacts DEF FairJudgement
<1>3. Unescaped /\ [MarketNext]_market_vars =>
        [phase = "Judged" =>
           \A id \in DOMAIN loans \ DOMAIN loans' :
             id \in Listed \/ id \in drawnNow \/ ~Unhealthy(id)]_market_vars
  <2>1. MarketNext => ~halted
    BY DEF MarketNext, Starts, Ends
  <2> QED
    BY <2>1 DEF Unescaped
<1> QED
  BY <1>1, <1>2, <1>3, JudgedPool, PTL DEF MarketSpec, NoneEscapes

\* A loan nothing was drawn from is listed only after the price fell below what it
\* was when the loan was given.
THEOREM ListedOnlyAfterFall == FairJudgement => (MarketSpec /\ TotalsNeverWrap => ListedAfterFall)
<1> SUFFICES ASSUME FairJudgement PROVE MarketSpec /\ TotalsNeverWrap => ListedAfterFall
  OBVIOUS
<1>1. MarketInit => GivenWell
  BY DEF MarketInit, GivenWell
<1>2. BookInv /\ BookInv' /\ TotalsCoverLoans /\ [TotalsHold]_vars /\ [Next]_vars
      /\ JudgesAsAtGenesis /\ GivenWell /\ [MarketNext]_market_vars => GivenWell'
  BY GivenWellNext, JudgementFacts DEF FairJudgement
<1>3. BookInv /\ BookInv' /\ JudgesAsAtGenesis /\ HealthyWhenWell /\ GivenWell /\ [Next]_vars =>
        [\A id \in Listed' \ Listed :
           id \in DOMAIN givenAt => CollateralPrice < givenAt[id]]_market_vars
  <2> SUFFICES ASSUME BookInv, BookInv', JudgesAsAtGenesis, HealthyWhenWell, GivenWell, [Next]_vars,
                      NEW id \in Listed' \ Listed, id \in DOMAIN givenAt
               PROVE  CollateralPrice < givenAt[id]
    OBVIOUS
  <2>1. Unhealthy(id)
    BY ListedByBlock
  <2>2. givenAt[id] \in Nat /\ CollateralPrice \in Nat
    BY JudgementTypes DEF GivenWell, BookInv
  <2>3. ~(givenAt[id] <= CollateralPrice)
    BY <2>1, <2>2 DEF GivenWell, HealthyWhenWell
  <2> QED
    BY <2>2, <2>3
<1> QED
  BY <1>1, <1>2, <1>3, JudgedPool, PTL DEF MarketSpec, ListedAfterFall

-----------------------------------------------------------------------------
(***************************************************************************)
(* Blocks. What can still stop the chain, where applicants name both       *)
(* amounts, is a limit of BlocksFit: a product that is checked or wraps, a *)
(* divisor that 32 bits cut to 0, an LTV beyond its width, or a price that *)
(* is 0 beside a loan.                                                     *)
(***************************************************************************)
LimitBelowOne == GenesisConfig.ltvLimit < PricePrec * LtvPrec
SoundApplications == JudgementKept /\ LimitBelowOne /\ AmountsAreGiven /\ AmountsFit

\* However often it is drawn from, a loan owes something and keeps some of its collateral
\* available.
LoansHaveSubstance ==
  \A id \in DOMAIN loans :
    loans[id].total > 0 /\ loans[id].available > 0 /\ loans[id].available <= loans[id].original

\* The chain has stopped only at a limit.
HaltInv == LoansHaveSubstance /\ HaltsOnlyAtLimits

\* A loan within a limit of less than one is less than what is pledged is worth, so that
\* some of it stays available.
LEMMA SomeIsLeft ==
  ASSUME NEW c \in Nat, NEW l \in Nat, NEW p \in Nat \ {0}, NEW unit \in Nat \ {0},
         NEW limit \in Nat, limit < unit, l * unit < limit * (c * p)
  PROVE  l \div p \in Nat /\ l \div p < c
<1> DEFINE d == l \div p
           worth == c * p
<1>1. d \in Nat /\ d * p <= l
  <2>1. d \in Nat
    BY DivType
  <2>2. d * p <= l
    OBVIOUS
  <2> QED
    BY <2>1, <2>2
<1>2. worth \in Nat /\ l * unit \in Nat /\ limit * worth \in Nat
  OBVIOUS
<1>3. l < worth
  <2>1. limit * worth <= unit * worth
    BY <1>2
  <2>2. l * unit < unit * worth
    BY <1>2, <2>1
  <2> HIDE DEF worth
  <2> QED
    BY <1>2, <2>2
<1>4. d < c
  <2>1. d * p < c * p
    BY <1>1, <1>2, <1>3
  <2> HIDE DEF d
  <2> QED
    BY <1>1, <2>1
<1> QED
  BY <1>1, <1>4

\* What may be drawn, in collateral, is less than what is available: n is the product of
\* the credit, narrowed or not.
LEMMA DrawLeavesSome ==
  ASSUME NEW c \in Nat \ {0}, NEW p \in Nat \ {0}, NEW limit \in Nat, NEW unit1 \in Nat \ {0},
         NEW unit2 \in Nat \ {0}, limit < unit2 * unit1,
         NEW n \in Nat, n <= c * p * limit, NEW amount \in Nat, amount <= (n \div unit1) \div unit2
  PROVE  amount \div p \in Nat /\ amount \div p < c
<1> DEFINE d == amount \div p
           q == n \div unit1
           worth == c * p
           unit == unit2 * unit1
<1>1. d \in Nat /\ d * p <= amount
  <2>1. d \in Nat
    BY DivType
  <2>2. d * p <= amount
    OBVIOUS
  <2> QED
    BY <2>1, <2>2
<1>2. q \in Nat /\ q * unit1 <= n
  OBVIOUS
<1>3. amount * unit2 <= q
  <2> DEFINE r == q \div unit2
  <2>1. r \in Nat /\ r * unit2 <= q /\ amount <= r
    <3> HIDE DEF q
    <3>1. r \in Nat /\ r * unit2 <= q
      BY <1>2
    <3> QED
      BY <3>1 DEF q
  <2> HIDE DEF r, q
  <2>2. amount * unit2 <= r * unit2
    BY <2>1
  <2>3. amount * unit2 \in Nat /\ r * unit2 \in Nat
    BY <2>1
  <2> QED
    BY <1>2, <2>1, <2>2, <2>3
<1>4. worth \in Nat \ {0} /\ unit \in Nat
  OBVIOUS
<1>5. amount * unit <= worth * limit
  <2>1. (amount * unit2) * unit1 <= q * unit1
    <3> HIDE DEF q
    <3> DEFINE x == amount * unit2
    <3>1. x \in Nat
      OBVIOUS
    <3> HIDE DEF x
    <3>2. x * unit1 <= q * unit1
      BY <1>2, <1>3, <3>1 DEF x
    <3> QED
      BY <3>2 DEF x
  <2>2. (amount * unit2) * unit1 = amount * unit /\ c * p * limit = worth * limit
    OBVIOUS
  <2>3. amount * unit \in Nat /\ worth * limit \in Nat /\ q * unit1 \in Nat
    BY <1>2, <1>4
  <2> QED
    BY <1>2, <2>1, <2>2, <2>3
<1> HIDE DEF worth, unit
<1>6. amount < worth
  <2> SUFFICES ASSUME amount >= worth PROVE FALSE
    BY <1>4
  <2>1. worth * unit <= amount * unit
    BY <1>4
  <2>2. worth * limit < worth * unit
    BY <1>4 DEF unit
  <2>3. worth * unit \in Nat /\ amount * unit \in Nat /\ worth * limit \in Nat
    BY <1>4
  <2> QED
    BY <1>5, <2>1, <2>2, <2>3
<1>7. d < c
  <2>1. d * p < c * p
    BY <1>1, <1>4, <1>6 DEF worth
  <2> HIDE DEF d
  <2> QED
    BY <1>1, <2>1
<1> QED
  BY <1>1, <1>7

LEMMA RemainderFits ==
  ASSUME NEW m \in Nat, NEW d \in Nat \ {0}
  PROVE  m % d \in Nat /\ m % d <= m
BY RemainderType

\* A positive product within the width has a divisor, so there is an LTV.
LEMMA FittingLtv ==
  ASSUME TypeOK, NEW id \in DOMAIN loans, CollateralPrice # 0,
         loans[id].available > 0, loans[id].available * CollateralPrice <= MaxBalance
  PROVE  /\ loans[id].available * CollateralPrice # 0
         /\ LtvDivisor(loans[id].available) # 0
         /\ GetLtv(loans[id].available, loans[id].total) \in Nat
<1> DEFINE c == loans[id].available
           l == loans[id].total
           worth == c * CollateralPrice
           n == l * PricePrec * LtvPrec
<1>1. /\ c \in Nat /\ l \in Nat /\ CollateralPrice \in Nat
      /\ MaxBalance \in Nat /\ PricePrec \in Nat /\ LtvPrec \in Nat
  BY ConstantFacts DEF TypeOK, Loan, CollateralPrice, Config
<1>2. worth \in Nat /\ worth > 0 /\ worth <= MaxBalance
  BY <1>1
<1>3. n \in Nat
  <2> HIDE DEF l
  <2> QED
    BY <1>1
<1> HIDE DEF n
<1>4. Narrow(n) \in Nat
  BY <1>3, NarrowType, ConstantFacts
<1>5. LtvDivisor(c) = Narrow(worth)
  BY DEF LtvDivisor
<1> HIDE DEF worth
<1>6. Narrow(worth) = worth
  BY <1>1, <1>2 DEF Narrow
<1>7. LtvDivisor(c) \in Nat \ {0}
  BY <1>2, <1>5, <1>6
<1>8. GetLtv(c, l) = Narrow(n) \div LtvDivisor(c)
  BY DEF GetLtv, n
<1>9. GetLtv(c, l) \in Nat
  BY <1>4, <1>7, <1>8, DivType
<1> QED
  BY <1>2, <1>7, <1>9 DEF worth

\* Nothing but a limit makes on_initialize panic.
LEMMA PanicsAtLimit ==
  ASSUME BookInv, TotalsCoverLoans, LoansHaveSubstance, BlocksFit
  PROVE  ~BlockPanics
<1>1. TypeOK /\ RatePrec \in Nat
  BY RateAssumption DEF BookInv
<1>2. Cash \in Nat /\ Cash \in Balance /\ totalLoan \in Nat /\ CollateralPrice \in Nat
  BY <1>1, ConstantFacts, TotalsTypes DEF TypeOK, Cash, CollateralPrice, Config, Sheet
<1>3. ASSUME HealthPanics PROVE FALSE
  <2>1. PICK id \in Judged : LtvPanics(loans[id].available, loans[id].total)
    BY <1>3 DEF HealthPanics
  <2>2. id \in DOMAIN loans
    BY DEF Judged
  <2>3. CollateralPrice # 0
    <3>1. Low32(CollateralPrice) # 0
      BY <2>2 DEF BlocksFit
    <3>2. 0 % U32 = 0
      BY ConstantFacts
    <3> QED
      BY <3>1, <3>2 DEF Low32
  <2>4. loans[id].available > 0
    BY <2>2 DEF LoansHaveSubstance
  <2>5. /\ loans[id].available * CollateralPrice <= MaxBalance
        /\ loans[id].available * CollateralPrice # 0 =>
             GetLtv(loans[id].available, loans[id].total) < U64
    BY DEF BlocksFit
  <2>6. /\ loans[id].available * CollateralPrice # 0 /\ LtvDivisor(loans[id].available) # 0
        /\ GetLtv(loans[id].available, loans[id].total) \in Nat
    BY <1>1, <2>2, <2>3, <2>4, <2>5, FittingLtv
  <2>7. GetLtv(loans[id].available, loans[id].total) >= U64
    BY <2>1, <2>6 DEF LtvPanics
  <2> DEFINE ltv == GetLtv(loans[id].available, loans[id].total)
  <2>8. ltv \in Nat /\ ltv < U64 /\ ltv >= U64 /\ U64 \in Nat
    BY <2>5, <2>6, <2>7, ConstantFacts
  <2> HIDE DEF ltv
  <2> QED
    BY <2>8
<1>4. ASSUME InterestPanics PROVE FALSE
  <2>1. Deposits = Cash + totalLoan
    BY <1>2, ConstantFacts DEF Deposits, Wrapped, BlocksFit
  <2>2. CASE totalLoan * RatePrec > MaxBalance
    BY <1>1, <1>2, <2>2, ConstantFacts DEF BlocksFit
  <2>3. CASE DOMAIN loans # {} /\ (totalLoan = 0 \/ Low32(CollateralPrice) = 0)
    <3>1. PICK id \in DOMAIN loans : loans[id].total > 0
      BY <2>3 DEF LoansHaveSubstance
    <3>2. loans[id].total \in Nat /\ OwedInAll \in Nat /\ loans[id].total <= OwedInAll
      BY SumsOfLoans
    <3>3. totalLoan # 0
      BY <1>2, <3>1, <3>2 DEF TotalsCoverLoans
    <3>4. Low32(CollateralPrice) # 0
      BY <2>3 DEF BlocksFit
    <3> QED
      BY <2>3, <3>3, <3>4
  <2>4. CASE Low32(Deposits) = 0
    <3>1. Cash + totalLoan = 0
      BY <2>1, <2>4 DEF BlocksFit
    <3>2. totalLoan = 0 /\ Deposits = 0
      BY <1>2, <2>1, <3>1
    <3>3. Wrapped(Deposits + totalLoan) = 0
      BY <3>2, ConstantFacts DEF Wrapped
    <3> QED
      BY <1>4, <3>3 DEF InterestPanics
  <2> QED
    BY <1>4, <2>2, <2>3, <2>4 DEF InterestPanics
<1> QED
  BY <1>3, <1>4 DEF BlockPanics

\* A loan has substance when it is given ...
LEMMA AppliedSubstance ==
  ASSUME SoundApplications, BookInv, JudgesAsAtGenesis, LoansHaveSubstance,
         NEW who, NEW a \in Applications, Apply(who, a[1], a[2])
  PROVE  LoansHaveSubstance'
<1> DEFINE c == a[1]
           l == a[2]
           p == CollateralPrice
           unit == PricePrec * LtvPrec
           limit == GenesisConfig.ltvLimit
<1>1. /\ p \in Nat /\ unit \in Nat \ {0} /\ limit \in Nat /\ limit < unit
      /\ c \in Nat /\ l \in Nat /\ c \in Balance /\ c # 0 /\ l # 0
  BY JudgementTypes DEF SoundApplications, LimitBelowOne, AmountsAreGiven, BookInv
<1>2. p # 0 /\ p \in MarketPrices /\ config.ltvLimit = limit
  BY DEF Apply, JudgesAsAtGenesis
<1>3. l * unit <= MaxBalance /\ c * p <= MaxBalance
  BY <1>2 DEF SoundApplications, AmountsFit
<1>4. GetLtv(c, l) < limit
  <2>1. ~ (GetLtv(c, l) >= limit)
    BY <1>1, <1>2 DEF Apply, AmountsRefused
  <2>2. GetLtv(c, l) \in Int
    <3>1. ~ (LtvDivisor(c) = 0)
      BY <1>1 DEF Apply, AmountsPanic
    <3>2. LtvDivisor(c) \in Nat
      <4>1. c * p \in Nat
        BY <1>1
      <4> QED
        BY <4>1, NarrowType, ConstantFacts DEF LtvDivisor
    <3>3. Narrow(l * PricePrec * LtvPrec) \in Nat
      <4>1. l * PricePrec * LtvPrec \in Nat
        BY <1>1, ConstantFacts
      <4> QED
        BY <4>1, NarrowType, ConstantFacts
    <3> QED
      BY <3>1, <3>2, <3>3, DivType DEF GetLtv
  <2> HIDE DEF c, l, limit
  <2> QED
    BY <1>1, <2>1, <2>2
<1>5. l * unit < limit * (c * p)
  <2>1. c * p # 0
    BY <1>1, <1>2
  <2> HIDE DEF c, l, limit
  <2> QED
    BY <1>1, <1>3, <1>4, <2>1, LtvFits DEF BookInv
<1>6. l \div p \in Nat /\ l \div p < c
  <2> HIDE DEF c, l, p, unit, limit
  <2> QED
    BY <1>1, <1>2, <1>5, SomeIsLeft
<1>7. c - (l \div p) \in 1..c /\ Wrapped(c - (l \div p)) = c - (l \div p)
  <2> DEFINE d == l \div p
  <2> HIDE DEF d, c
  <2> QED
    BY <1>1, <1>6, ConstantFacts DEF d, Wrapped
<1>8. /\ DOMAIN loans' = DOMAIN loans \cup {nextLoanId}
      /\ \A i \in DOMAIN loans : loans'[i] = loans[i]
      /\ loans'[nextLoanId] = [who |-> who, original |-> c, available |-> Wrapped(c - (l \div p)),
                               total |-> l, status |-> "Well"]
  <2>1. CollateralLoan(c, l) = [collateral |-> c, loan |-> l]
    BY <1>1 DEF CollateralLoan
  <2>2. loans' = WithLoan(nextLoanId, [who |-> who, original |-> c,
                   available |-> Wrapped(c - (l \div p)), total |-> l, status |-> "Well"])
    BY <2>1 DEF Apply
  <2>3. nextLoanId \notin DOMAIN loans
    BY BookFacts
  <2> QED
    BY <2>2, <2>3 DEF WithLoan
<1> HIDE DEF c, l, p
<1>9. /\ loans'[nextLoanId].total = l /\ loans'[nextLoanId].original = c
      /\ loans'[nextLoanId].available = c - (l \div p)
  BY <1>7, <1>8
<1>10. /\ loans'[nextLoanId].total > 0 /\ loans'[nextLoanId].available > 0
       /\ loans'[nextLoanId].available <= loans'[nextLoanId].original
  BY <1>1, <1>7, <1>9
<1> QED
  BY <1>8, <1>10 DEF LoansHaveSubstance

\* ... and keeps it when it is drawn from ...
LEMMA DrawnSubstance ==
  ASSUME SoundApplications, BookInv, BookInv', JudgesAsAtGenesis, TotalsCoverLoans, TotalsHold,
         LoansHaveSubstance,
         NEW who, NEW id \in DOMAIN loans, NEW amount \in DrawAmounts, Draw(who, id, amount)
  PROVE  LoansHaveSubstance'
<1> DEFINE c == loans[id].available
           p == Low32(CollateralPrice)
           limit == Low32(config.ltvLimit)
           n == Narrow(c * p * limit)
<1>1. TypeOK /\ amount \in Balance /\ amount \in Nat
  BY ConstantFacts DEF BookInv
<1>2. c \in Nat /\ c \in Balance /\ c > 0 /\ c <= loans[id].original /\ loans[id].original \in Nat
  BY <1>1, ConstantFacts DEF TypeOK, Loan, LoansHaveSubstance
<1>3. p \in Nat /\ p # 0
  <2>1. CollateralPrice \in Nat
    BY <1>1 DEF TypeOK, CollateralPrice, Config
  <2>2. Low32(CollateralPrice) # 0
    BY DEF Draw
  <2> QED
    BY <2>1, <2>2, ConstantFacts DEF Low32
<1>4. limit \in Nat /\ limit < PricePrec * LtvPrec
  <2>1. config.ltvLimit \in Nat /\ config.ltvLimit < PricePrec * LtvPrec
    BY JudgementTypes, <1>1 DEF JudgesAsAtGenesis, SoundApplications, LimitBelowOne
  <2>2. Low32(config.ltvLimit) \in Nat /\ Low32(config.ltvLimit) <= config.ltvLimit
    BY <2>1, ConstantFacts, RemainderFits DEF Low32
  <2>3. PricePrec * LtvPrec \in Nat
    BY ConstantFacts
  <2> DEFINE unit == PricePrec * LtvPrec
  <2> HIDE DEF unit
  <2>4. limit < unit
    BY <2>1, <2>2, <2>3 DEF unit
  <2> QED
    BY <2>2, <2>4 DEF unit
<1>5. n \in Nat /\ n <= c * p * limit
  <2> DEFINE m == c * p * limit
  <2>1. m \in Nat
    BY <1>2, <1>3, <1>4
  <2> HIDE DEF m
  <2>2. Narrow(m) \in Nat /\ Narrow(m) <= m
    BY <2>1, ConstantFacts, RemainderFits DEF Narrow
  <2> QED
    BY <2>2 DEF m
<1>6. amount <= (n \div LtvPrec) \div PricePrec
  BY DEF Draw, AvailableCredit
<1>7. amount \div p \in Nat /\ amount \div p < c
  <2>1. c \in Nat \ {0} /\ p \in Nat \ {0} /\ LtvPrec \in Nat \ {0} /\ PricePrec \in Nat \ {0}
    BY <1>2, <1>3, ConstantFacts
  <2> HIDE DEF c, p, limit, n
  <2> QED
    BY <1>1, <1>4, <1>5, <1>6, <2>1, DrawLeavesSome
<1>8. /\ DOMAIN loans' = DOMAIN loans
      /\ \A i \in DOMAIN loans \ {id} : loans'[i] = loans[i]
      /\ loans'[id].original = loans[id].original
  BY <1>1, DrawnLoan
<1>9. loans'[id].available = Wrapped(c - amount \div p)
  BY <1>1 DEF Draw, TypeOK, Loan
<1>10. loans'[id].total = loans[id].total + amount /\ loans[id].total \in Nat /\ loans[id].total > 0
  BY <1>1, DrawnAmounts, SumsOfLoans DEF LoansHaveSubstance
<1>11. loans'[id].available > 0 /\ loans'[id].available <= loans'[id].original
  <2> DEFINE d == amount \div p
  <2>1. Wrapped(c - d) = c - d /\ c - d > 0 /\ c - d <= c
    <3> HIDE DEF c, d
    <3> QED
      BY <1>2, <1>7, ConstantFacts DEF Wrapped, d
  <2>2. loans'[id].available = c - d /\ loans'[id].original = loans[id].original
    BY <1>8, <1>9, <2>1
  <2>3. d \in Nat
    BY <1>7
  <2> HIDE DEF c, d
  <2> QED
    BY <1>2, <2>1, <2>2, <2>3
<1>12. loans'[id].total > 0
  BY <1>1, <1>10
<1> HIDE DEF c, p, limit, n
<1> QED
  BY <1>8, <1>11, <1>12 DEF LoansHaveSubstance

\* ... or added to, and when another is removed.
LEMMA AddedSubstance ==
  ASSUME BookInv, BookInv', TotalsCoverLoans, TotalsHold, LoansHaveSubstance,
         NEW who, NEW id \in DOMAIN loans, NEW amount \in AddAmounts, AddCollateral(who, id, amount)
  PROVE  LoansHaveSubstance'
<1>1. TypeOK /\ amount \in Balance /\ amount \in Nat
  BY ConstantFacts DEF BookInv
<1>2. /\ loans[id].available \in Nat /\ loans[id].original \in Nat /\ loans[id].available > 0
      /\ loans[id].available <= loans[id].original
  BY <1>1, ConstantFacts DEF TypeOK, Loan, LoansHaveSubstance
<1>3. /\ DOMAIN loans' = DOMAIN loans
      /\ \A i \in DOMAIN loans \ {id} : loans'[i] = loans[i]
      /\ loans'[id].total = loans[id].total
  BY <1>1, AddedLoan
<1>4. loans'[id].available = Wrapped(loans[id].available + amount)
  BY <1>1 DEF AddCollateral, TypeOK, Loan
<1>5. loans'[id].original = loans[id].original + amount
  BY <1>1, AddedAmounts
<1>6. loans'[id].original <= MaxBalance
  BY <1>3, ConstantFacts DEF BookInv, TypeOK, Loan
<1>7. loans'[id].available = loans[id].available + amount
  BY <1>1, <1>2, <1>4, <1>5, <1>6, ConstantFacts DEF Wrapped
<1>8. loans'[id].available > 0 /\ loans'[id].available <= loans'[id].original
  BY <1>1, <1>2, <1>5, <1>7
<1> QED
  BY <1>3, <1>8 DEF LoansHaveSubstance

LEMMA RemovedSubstance ==
  ASSUME LoansHaveSubstance, NEW id, loans' = WithoutLoan(id)
  PROVE  LoansHaveSubstance'
BY DEF LoansHaveSubstance, WithoutLoan

LEMMA HaltNext ==
  ASSUME SoundApplications, BookInv, BookInv', JudgesAsAtGenesis, TotalsCoverLoans, TotalsHold,
         HaltInv, [Next]_vars
  PROVE  HaltInv'
<1>0. TypeOK /\ LoansHaveSubstance /\ (halted => ~BlocksFit)
  BY DEF BookInv, HaltInv, HaltsOnlyAtLimits
<1>1. ASSUME loans' = loans PROVE LoansHaveSubstance'
  BY <1>0, <1>1 DEF LoansHaveSubstance
<1>2. ASSUME LoansHaveSubstance', ~halted, halted' = halted PROVE HaltInv'
  BY <1>2 DEF HaltInv, HaltsOnlyAtLimits
\* Only the cash, the price, the settings and the book have limits.
<1>3. ASSUME UNCHANGED <<free, price, config, book>> PROVE BlocksFit' <=> BlocksFit
  <2>1. CollateralPrice' = CollateralPrice /\ Cash' = Cash
    BY <1>3 DEF CollateralPrice, Cash
  <2>2. loans' = loans /\ totalLoan' = totalLoan /\ Judged' = Judged
    BY <1>3 DEF book, Judged, Listed
  <2>3. \A c, l : GetLtv(c, l)' = GetLtv(c, l)
    BY <2>1 DEF GetLtv, LtvDivisor
  <2> QED
    BY <2>1, <2>2, <2>3 DEF BlocksFit
<1>4. CASE UNCHANGED vars
  <2>1. UNCHANGED <<free, price, config, book>> /\ halted' = halted
    BY <1>4 DEF vars, book
  <2>2. LoansHaveSubstance'
    BY <1>1, <2>1 DEF book
  <2> QED
    BY <1>0, <1>3, <2>1, <2>2 DEF HaltInv, HaltsOnlyAtLimits
<1>5. CASE ~halted /\ Block
  <2>1. UNCHANGED <<free, price, config>>
    BY <1>5 DEF Block, ledger, settings
  <2>2. CASE BlockPanics
    <3>1. UNCHANGED book
      BY <1>5, <2>2 DEF Block
    <3>2. ~BlocksFit
      BY <1>0, <2>2, PanicsAtLimit
    <3>3. ~BlocksFit'
      BY <1>3, <2>1, <3>1, <3>2
    <3>4. LoansHaveSubstance'
      BY <1>1, <3>1 DEF book
    <3> QED
      BY <3>3, <3>4 DEF HaltInv, HaltsOnlyAtLimits
  <2>3. CASE ~BlockPanics
    <3>1. loans' = [id \in DOMAIN loans |-> [loans[id] EXCEPT !.status = StatusAfter(id)]]
          /\ halted' = halted
      BY <1>5, <2>3 DEF Block
    <3>2. \A id \in DOMAIN loans : /\ loans'[id].total = loans[id].total
                                   /\ loans'[id].available = loans[id].available
                                   /\ loans'[id].original = loans[id].original
      BY <1>0, <3>1 DEF TypeOK, Loan
    <3>3. DOMAIN loans' = DOMAIN loans
      BY <3>1
    <3>4. LoansHaveSubstance'
      BY <1>0, <3>2, <3>3 DEF LoansHaveSubstance
    <3> QED
      BY <1>2, <1>5, <3>1, <3>4
  <2> QED
    BY <2>2, <2>3
<1>6. ASSUME ~halted, NEW who \in Users, UserCall(who) PROVE HaltInv'
  <2>1. ASSUME \/ \E amount \in StakeAmounts : Stake(who, amount)
               \/ \E amount \in RedeemAmounts : Redeem(who, amount)
        PROVE  HaltInv'
    <3>1. loans' = loans /\ halted' = halted
      BY <2>1 DEF Stake, Redeem, Becomes, book
    <3> QED
      BY <1>1, <1>2, <1>6, <3>1
  <2>2. ASSUME NEW a \in Applications, Apply(who, a[1], a[2]) PROVE HaltInv'
    <3>1. LoansHaveSubstance'
      BY <1>0, <2>2, AppliedSubstance
    <3>2. halted' = halted
      BY <2>2 DEF Apply
    <3> QED
      BY <1>2, <1>6, <3>1, <3>2
  <2>3. ASSUME NEW id \in DOMAIN loans, Repay(who, id) PROVE HaltInv'
    <3>1. loans' = WithoutLoan(id) /\ halted' = halted
      BY <2>3 DEF Repay
    <3>2. LoansHaveSubstance'
      BY <1>0, <3>1, RemovedSubstance
    <3> QED
      BY <1>2, <1>6, <3>1, <3>2
  <2>4. ASSUME NEW id \in DOMAIN loans, RepayReverted(who, id) PROVE HaltInv'
    <3>1. loans' = loans /\ halted' = halted
      BY <2>4 DEF RepayReverted, ledger
    <3> QED
      BY <1>1, <1>2, <1>6, <3>1
  <2>5. ASSUME NEW id \in DOMAIN loans, NEW amount \in AddAmounts, AddCollateral(who, id, amount)
        PROVE  HaltInv'
    <3>1. LoansHaveSubstance'
      BY <1>0, <2>5, AddedSubstance
    <3>2. halted' = halted
      BY <2>5 DEF AddCollateral
    <3> QED
      BY <1>2, <1>6, <3>1, <3>2
  <2>6. ASSUME NEW id \in DOMAIN loans, NEW amount \in DrawAmounts, Draw(who, id, amount)
        PROVE  HaltInv'
    <3>1. LoansHaveSubstance'
      BY <1>0, <2>6, DrawnSubstance
    <3>2. halted' = halted
      BY <2>6 DEF Draw
    <3> QED
      BY <1>2, <1>6, <3>1, <3>2
  <2> QED
    BY <1>6, <2>1, <2>2, <2>3, <2>4, <2>5, <2>6 DEF UserCall
<1>7. CASE ~halted /\ Settlement
  <2>1. PICK id \in DOMAIN loans, extra \in AuctionExtras :
          \/ MarkLiquidated(id, loans[id].total + extra)
          \/ MarkWithoutPenalty(id, loans[id].total + extra)
          \/ MarkWithoutShare(id, loans[id].total + extra)
    BY <1>7 DEF Settlement
  <2>2. CASE MarkLiquidated(id, loans[id].total + extra)
    <3>1. loans' = WithoutLoan(id) /\ halted' = halted
      BY <2>2 DEF MarkLiquidated
    <3>2. LoansHaveSubstance'
      BY <1>0, <3>1, RemovedSubstance
    <3> QED
      BY <1>2, <1>7, <3>1, <3>2
  <2>3. CASE \/ MarkWithoutPenalty(id, loans[id].total + extra)
             \/ MarkWithoutShare(id, loans[id].total + extra)
    <3>1. loans' = loans /\ halted' = halted
      BY <2>3 DEF MarkWithoutPenalty, MarkWithoutShare, book
    <3> QED
      BY <1>1, <1>2, <1>7, <3>1
  <2> QED
    BY <2>1, <2>2, <2>3
<1>8. CASE ~halted /\ (RootCall \/ PublishPrices)
  <2>1. loans' = loans /\ halted' = halted
    BY <1>8 DEF RootCall, SetPaused, Configure, PublishPrices, book
  <2> QED
    BY <1>1, <1>2, <1>8, <2>1
<1> QED
  BY <1>4, <1>5, <1>6, <1>7, <1>8 DEF Next

\* Nothing but a limit stops the chain: as long as both amounts of a loan are named and
\* the limit is less than one, no draw, repayment, auction or price leaves a loan with
\* nothing available or owing nothing, or TotalLoan at 0 beside it. What is left, and
\* really there, are the widths, the LTV's among them, and a price of 0.
THEOREM HaltsAtLimits ==
  SoundApplications => (Spec /\ TotalsNeverWrap => []HaltsOnlyAtLimits)
<1> SUFFICES ASSUME SoundApplications
             PROVE  Spec /\ TotalsNeverWrap => []HaltsOnlyAtLimits
  OBVIOUS
<1>1. InitState => HaltInv
  <2> SUFFICES ASSUME InitState PROVE HaltInv
    OBVIOUS
  <2>1. DOMAIN loans = {} /\ ~halted
    BY DEF InitState
  <2> QED
    BY <2>1 DEF HaltInv, LoansHaveSubstance, HaltsOnlyAtLimits
<1>2. BookInv /\ JudgesAsAtGenesis /\ [Next]_vars => JudgesAsAtGenesis'
  BY JudgementNext DEF BookInv, SoundApplications
<1>3. BookInv /\ BookInv' /\ JudgesAsAtGenesis /\ TotalsCoverLoans /\ TotalsHold
        /\ HaltInv /\ [Next]_vars => HaltInv'
  BY HaltNext
<1>4. HaltInv => HaltsOnlyAtLimits
  BY DEF HaltInv
<1>5. InitState => JudgesAsAtGenesis
  BY JudgementFacts
<1>6. BookInv /\ [TotalsHold]_vars => TotalsHold
  BY JudgementFacts
<1> QED
  BY <1>1, <1>2, <1>3, <1>4, <1>5, <1>6, BookInit, BookNext, TotalsCovered, PTL DEF Spec, TotalsNeverWrap

\* In the runtime, whose limit leaves room and so is less than one.
THEOREM RuntimeHaltsAtLimits ==
  FairJudgement => (MarketSpec /\ TotalsNeverWrap => []HaltsOnlyAtLimits)
<1> SUFFICES ASSUME FairJudgement
             PROVE  MarketSpec /\ TotalsNeverWrap => []HaltsOnlyAtLimits
  OBVIOUS
<1>1. LimitBelowOne
  <2> DEFINE unit == PricePrec * LtvPrec
             limit == GenesisConfig.ltvLimit
             threshold == GenesisConfig.liquidationThreshold
  <2>1. unit \in Nat \ {0} /\ limit \in Nat /\ threshold \in Nat
    BY ConstantFacts, GenesisAssumption DEF Config, Ltv
  <2>2. limit * unit <= threshold * (unit - limit)
    BY DEF FairJudgement, LimitLeavesRoom
  <2> HIDE DEF unit, limit, threshold
  <2>3. ASSUME limit >= unit PROVE FALSE
    <3>1. threshold * (unit - limit) <= 0
      BY <2>1, <2>3
    <3>2. limit * unit > 0
      BY <2>1, <2>3
    <3> QED
      BY <2>1, <2>2, <3>1, <3>2
  <2>4. limit < unit
    BY <2>1, <2>3
  <2> QED
    BY <2>4 DEF LimitBelowOne, limit, unit
<1>2. SoundApplications
  BY <1>1 DEF SoundApplications, FairJudgement
<1>3. MarketSpec => Spec
  BY PoolIsImplemented DEF ImplementsPool, FairJudgement
<1>4. Spec /\ TotalsNeverWrap => []HaltsOnlyAtLimits
  BY <1>2, HaltsAtLimits
<1> QED
  BY <1>3, <1>4
=============================================================================
