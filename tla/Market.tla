------------------------------- MODULE Market -------------------------------
(***************************************************************************)
(* The money pool and the oracle in one runtime (runtime/src/lib.rs). A    *)
(* block runs on_initialize of deposit-loan, then its calls and the        *)
(* reports it includes, then on_finalize of new-oracle: a price published  *)
(* at the end of a block is first used at the start of the next. At        *)
(* genesis (cli/src/chain_spec.rs) only DUSD has a price.                  *)
(***************************************************************************)
EXTENDS DepositLoan

CONSTANTS
  Symbol,             \* generic_asset's symbol of each asset
  Tokens, BTC, NoPrice, Width, AggregateInterval, GenesisSources,
  MaxSources, MaxPool, MaxReports, MaxHeight,   \* as in NewOracle
  ReportPrices,       \* the prices reports name
  CurrentAtGenesis    \* the oracle's current_price at genesis

VARIABLES
  height, sources, pool, candidates, current, nextAggregateAt,  \* new-oracle's
  phase,        \* of the block: "Closed", then "Judged", or "Skipped" when paused
  givenAt,      \* history: the collateral's price when a loan was given, for the
                \* loans nothing was drawn from since
  drawnNow      \* history: the loans drawn from in this block

Oracle == INSTANCE NewOracle WITH Prices <- ReportPrices, GenesisPrice <- CurrentAtGenesis

oracle == <<height, sources, pool, candidates, current, nextAggregateAt>>
history == <<givenAt, drawnNow>>
market_vars == <<vars, oracle, phase, history>>

ASSUME OracleAssumption == Oracle!ConstantsOK
ASSUME SymbolAssumption == Symbol \in [AssetIds -> Tokens]

\* new_oracle::current_price of an asset's symbol: 0 where there is none.
PriceOf(table, asset) == IF table[Symbol[asset]] = NoPrice THEN 0 ELSE table[Symbol[asset]]
PricesFrom(table) == [asset \in AssetIds |-> PriceOf(table, asset)]

ASSUME GenesisPriceAssumption == GenesisPrice = PricesFrom(CurrentAtGenesis)

MarketInit ==
  /\ InitState /\ Oracle!Init
  /\ phase = "Closed"
  /\ givenAt = << >> /\ drawnNow = {}

-----------------------------------------------------------------------------
\* The start of a block: on_initialize, of which a paused pool does nothing.
OnInitialize ==
  /\ phase = "Closed"
  /\ \/ Block /\ phase' = "Judged"
     \/ paused /\ phase' = "Skipped" /\ UNCHANGED vars
  /\ UNCHANGED <<oracle, history>>

Observe ==
  LET drawn == {id \in DOMAIN loans \cap DOMAIN loans' : loans'[id].total > loans[id].total}
      given == DOMAIN loans' \ DOMAIN loans
  IN  /\ drawnNow' = drawnNow \cup drawn
      /\ givenAt' = [id \in ((DOMAIN givenAt \cap DOMAIN loans') \ drawn) \cup given |->
                       IF id \in given THEN CollateralPrice ELSE givenAt[id]]

\* A call to the pool, by a user, the liquidation account or root's sudo.
PoolCall ==
  /\ phase # "Closed"
  /\ \/ \E who \in Users : UserCall(who)
     \/ Settlement
     \/ RootCall
  /\ Observe
  /\ UNCHANGED <<oracle, phase>>

\* A report the block includes, or a source root adds.
OracleCall ==
  /\ phase # "Closed"
  /\ \/ \E r \in pool : Oracle!StackPrice(r)
     \/ \E t \in Tokens : Oracle!AddSource(t)
  /\ UNCHANGED <<vars, phase, history>>

\* Off chain: a worker answers late, anyone submits a report, or the pool loses one.
OffChain ==
  /\ \/ \E p \in ReportPrices : Oracle!Fetch(p)
     \/ \E r \in Oracle!Report : Oracle!Submit(r)
     \/ \E r \in pool : Oracle!Drop(r)
  /\ UNCHANGED <<vars, phase, history>>

\* What the pool reads once the block is finalised.
PricesPublished == PricesFrom(current')

\* The end of a block: on_finalize.
EndBlock ==
  /\ phase # "Closed"
  /\ Oracle!Finalize
  /\ price' = PricesPublished
  /\ phase' = "Closed" /\ drawnNow' = {}
  /\ UNCHANGED <<free, settings, savings, book, halted, givenAt>>

\* The block after MaxHeight is only initialised.
Starts == ~halted /\ OnInitialize
Ends == ~halted /\ height <= MaxHeight /\ EndBlock

MarketNext ==
  \/ Starts
  \/ ~halted /\ height <= MaxHeight /\ (PoolCall \/ OracleCall \/ OffChain)
  \/ Ends

\* Block authorship goes on, whatever is called: every block is initialised and
\* finalised.
MarketSpec ==
  /\ MarketInit /\ [][MarketNext]_market_vars
  /\ WF_market_vars(Starts \/ Ends)

-----------------------------------------------------------------------------
(***************************************************************************)
(* Properties, beside those of DepositLoan that say what orderly use keeps *)
(***************************************************************************)

\* A price moves only at an aggregation, to a value its reports enclose, and takes
\* them with it (NewOracle).
PriceFollowsReports == Oracle!PriceFollowsReports

\* Whatever is stacked is aggregated in time, the reports of all tokens at once,
\* although a paused pool skips its part of every block, unless the pool's part of a
\* block halts the chain.
ReportsAreAggregated ==
  (\E t \in Tokens : candidates[t] # << >>)
    ~> ((\A t \in Tokens : candidates[t] = << >>) \/ halted)

\* The pool in this runtime is the pool of DepositLoan: whoever submits what, no
\* price reaches it but one within the range of the reports, and no call sees a
\* price change under it.
ImplementsPool == Spec

\* No loan escapes liquidation: the price it is judged by is the one its debtor
\* acts on, so a loan that fell through the threshold can no longer be repaid,
\* unless the debtor drew it there in the same block.
NoneEscapes ==
  [][phase = "Judged" =>
       \A id \in DOMAIN loans \ DOMAIN loans' :
         id \in Listed \/ id \in drawnNow \/ ~Unhealthy(id)]_market_vars

\* A loan nothing was drawn from is listed only after the price fell below what it
\* was when the loan was given: the LTV check of apply_loan and the judgement of
\* on_initialize agree, although one reads the original and the other the available
\* collateral.
ListedAfterFall ==
  [][\A id \in Listed' \ Listed :
       id \in DOMAIN givenAt => CollateralPrice < givenAt[id]]_market_vars
=============================================================================
