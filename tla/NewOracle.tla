----------------------------- MODULE NewOracle -----------------------------
(***************************************************************************)
(* The price oracle: runtime/modules/new-oracle/src/lib.rs.                *)
(*                                                                         *)
(* After each block the off-chain worker of a validator asks one source    *)
(* for the price of BTC and submits it as an unsigned transaction; anyone  *)
(* else may submit a report too, of any token and price. Blocks stack the  *)
(* reports, and every AggregateInterval blocks on_finalize publishes their *)
(* mean. The transaction pool is Substrate's: it holds a report once and   *)
(* may lose it, by expiry or otherwise, or delay it. The block a report    *)
(* names only tells it apart in the pool, and one that was lost or stacked *)
(* may be submitted again, so the block is left out. stack_price_signed    *)
(* does nothing.                                                           *)
(***************************************************************************)
EXTENDS Integers, SequencesExt

CONSTANTS
  Tokens, BTC,         \* the tokens, and the one the worker asks for
  Prices,              \* the prices sources answer with and reports name
  NoPrice,             \* CurrentPrice has no entry
  Width,               \* 2^64, the number of values of PriceInUSDT
  AggregateInterval,   \* T::AggregateInterval
  GenesisSources,      \* per token, the number of sources at genesis
  GenesisPrice,        \* per token, the price at genesis or NoPrice
  MaxSources,          \* bound: on the sources of a token
  MaxPool,             \* bound: on the reports waiting in the pool
  MaxReports,          \* bound: per token, on the reports stacked for it
  MaxHeight            \* bound: the last block, on which the oracle aggregates

\* What the constants are; the runtime that instantiates this module assumes it.
ConstantsOK ==
  /\ BTC \in Tokens
  /\ Width \in Nat \ {0} /\ Prices \subseteq 0..(Width - 1) /\ NoPrice \notin Nat
  /\ AggregateInterval \in Nat \ {0}
  /\ MaxHeight \in Nat /\ MaxHeight % AggregateInterval = 0
  /\ GenesisSources \in [Tokens -> Nat] /\ MaxReports \in [Tokens -> Nat]
  /\ GenesisPrice \in [Tokens -> 0..(Width - 1) \cup {NoPrice}]

VARIABLES
  height,            \* the block being built
  sources,           \* CryptoPriceSources: per token, how many
  pool,              \* the reports waiting in the transaction pool
  candidates,        \* PriceCandidates: per token, the prices reported
  current,           \* CurrentPrice
  nextAggregateAt    \* NextAggregateAt

vars == <<height, sources, pool, candidates, current, nextAggregateAt>>

\* A report: what stack_price_unsigned looks at of its arguments.
Report == [token : Tokens, price : Prices]

Init ==
  /\ height = 1
  /\ sources = GenesisSources
  /\ pool = {}
  /\ candidates = [t \in Tokens |-> << >>]
  /\ current = GenesisPrice
  /\ nextAggregateAt = 0

-----------------------------------------------------------------------------
\* validate_unsigned accepts whatever is submitted, from anyone; the pool refuses
\* what it already holds.
Submit(r) ==
  /\ Cardinality(pool) < MaxPool
  /\ pool' = pool \cup {r}
  /\ UNCHANGED <<height, sources, candidates, current, nextAggregateAt>>

\* offchain_worker, after a block: a source must be there (the choice among none
\* panics) and must answer.
Fetch(p) == sources[BTC] > 0 /\ Submit([token |-> BTC, price |-> p])

\* stack_price_unsigned, in the block being built: no report is refused.
StackPrice(r) ==
  /\ Len(candidates[r.token]) < MaxReports[r.token]
  /\ candidates' = [candidates EXCEPT ![r.token] = Append(@, r.price)]
  /\ pool' = pool \ {r}
  /\ UNCHANGED <<height, sources, current, nextAggregateAt>>

\* The pool loses a report, by expiry or otherwise.
Drop(r) ==
  /\ pool' = pool \ {r}
  /\ UNCHANGED <<height, sources, candidates, current, nextAggregateAt>>

\* add_source, root only.
AddSource(t) ==
  /\ sources[t] < MaxSources
  /\ sources' = [sources EXCEPT ![t] = @ + 1]
  /\ UNCHANGED <<height, pool, candidates, current, nextAggregateAt>>

-----------------------------------------------------------------------------
\* The sum of the reports, whose additions wrap.
SumOfPrices(list) == SumFunction(list) % Width

\* Mutant: the sum is divided by the number of sources.
MeanPerSource(list) == SumOfPrices(list) \div sources[BTC]

\* Mutant: the sum is published.
TotalOf(list) == SumOfPrices(list)

Mean(list) == SumOfPrices(list) \div Len(list)

NewPrice(t) == IF candidates[t] = << >> THEN current[t] ELSE Mean(candidates[t])

\* Mutant: the stored schedule is followed, which starts at 0.
DueAsScheduled == height = nextAggregateAt

Due == height % AggregateInterval = 0

\* on_finalize, then the next block: when due, every token with reports takes
\* their mean, and the reports are gone.
Finalize ==
  /\ IF Due
       THEN /\ current' = [t \in Tokens |-> NewPrice(t)]
            /\ candidates' = [t \in Tokens |-> << >>]
            /\ nextAggregateAt' = height + AggregateInterval
       ELSE UNCHANGED <<current, candidates, nextAggregateAt>>
  /\ height' = height + 1
  /\ UNCHANGED <<sources, pool>>

Next ==
  /\ height <= MaxHeight
  /\ \/ Finalize
     \/ \E p \in Prices : Fetch(p)
     \/ \E r \in Report : Submit(r)
     \/ \E r \in pool : StackPrice(r) \/ Drop(r)
     \/ \E t \in Tokens : AddSource(t)

\* Block authorship goes on, and every block is finalised.
Spec == Init /\ [][Next]_vars /\ WF_vars(height <= MaxHeight /\ Finalize)

-----------------------------------------------------------------------------
(***************************************************************************)
(* Properties                                                              *)
(***************************************************************************)

\* Every map holds values of its type, and the published prices fit the width.
TypeOK ==
  /\ height \in 1..(MaxHeight + 1)
  /\ sources \in [Tokens -> Nat]
  /\ pool \subseteq Report
  /\ candidates \in [Tokens -> Seq(Prices)]
  /\ current \in [Tokens -> 0..(Width - 1) \cup {NoPrice}]
  /\ nextAggregateAt \in 0..(MaxHeight + AggregateInterval)

\* The price moves only where the oracle aggregates, only to a value between
\* the lowest and the highest report, and takes every one of them with it: no
\* report is lost before it counted, none counts twice, and no price is made up.
PriceFollowsReports ==
  [][\A t \in Tokens :
       current'[t] # current[t] \/ Len(candidates'[t]) < Len(candidates[t]) =>
         LET reported == {candidates[t][i] : i \in DOMAIN candidates[t]} IN
         /\ height % AggregateInterval = 0
         /\ candidates'[t] = << >>
         /\ current'[t] \in Min(reported)..Max(reported)]_vars

=============================================================================
