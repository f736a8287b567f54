----------------------------- MODULE PoolState -----------------------------
(***************************************************************************)
(* The storage of the money pool (runtime/modules/deposit-loan/src/lib.rs),*)
(* its root-only switches and setters, and the two modules it reads: the   *)
(* balances of generic-asset, which it changes only through make_transfer, *)
(* and the price new-oracle publishes.                                     *)
(*                                                                         *)
(* A call that is refused, or that panics and is discarded, changes        *)
(* nothing; such calls are stuttering steps and are not written out. A     *)
(* call that fails after it has written something is an action.            *)
(***************************************************************************)
EXTENDS Balances, Sequences

CONSTANTS
  AssetIds,             \* the assets of generic-asset
  SymbolIds,            \* those asset_id_exists accepts
  Users,                \* accounts that save and borrow
  PawnShop,             \* pawn_shop()
  MinimumCollateral,    \* minimum_collateral()
  LiquidationPenalty,   \* liquidation_penalty(), a percentage
  LtvPrec, PricePrec,   \* LTV_PREC and PRICE_PREC
  U32,                  \* 2^32: `as u32` keeps the remainder modulo it
  U64,                  \* 2^64, the number of values of an LTV
  NoCap,                \* LoanCap is None
  GenesisConfig,        \* the settings at genesis
  GenesisFree,          \* the balances at genesis
  GenesisPrice,         \* the oracle's prices at genesis, 0 where there is none
  Prices,               \* the prices the oracle may publish
  ConfigChoices         \* per setting, the values root may give it

Ltv == 0..(U64 - 1)
Config == [collectionAsset : AssetIds, collateralAsset : AssetIds, loanAsset : AssetIds,
           profitAsset : AssetIds,
           collectionAccount : Accounts, profitPool : Accounts, liquidationAccount : Accounts,
           ltvLimit : Ltv, liquidationThreshold : Ltv, warningThreshold : Ltv,
           loanCap : Balance \cup {NoCap}, penaltyRate : Nat]

ASSUME UsersAssumption == Users \subseteq Accounts /\ PawnShop \in Accounts \ Users
ASSUME PrecAssumption ==
  /\ LtvPrec \in Nat \ {0} /\ PricePrec \in Nat \ {0}
  /\ U32 \in Nat \ {0} /\ U64 \in Nat \ {0}
ASSUME ParameterAssumption == MinimumCollateral \in Balance /\ LiquidationPenalty \in Nat

\* The balances of an asset add up to its TotalIssuance, which is a balance.
ASSUME GenesisAssumption ==
  /\ GenesisConfig \in Config
  /\ {GenesisConfig.collectionAccount, GenesisConfig.profitPool,
      GenesisConfig.liquidationAccount} \cap Users = {}
  /\ GenesisFree \in [AssetIds -> Sheet]
  /\ \A asset \in AssetIds : SumOf(GenesisFree[asset]) \in Balance
  /\ GenesisPrice \in [AssetIds -> Nat]
ASSUME PricesAssumption == Prices \subseteq Nat

\* What each setter takes. The official accounts are kept by the operator and
\* never save or borrow; root keeps it so.
OfficialAccounts == Accounts \ Users
SetterTypes ==
  [collectionAsset |-> AssetIds, collateralAsset |-> AssetIds, loanAsset |-> AssetIds,
   profitAsset |-> AssetIds,
   collectionAccount |-> OfficialAccounts, profitPool |-> OfficialAccounts,
   liquidationAccount |-> OfficialAccounts,
   ltvLimit |-> Ltv, liquidationThreshold |-> Ltv, warningThreshold |-> Ltv,
   loanCap |-> Balance, penaltyRate |-> Nat]
ASSUME ChoicesAssumption ==
  /\ DOMAIN ConfigChoices \subseteq DOMAIN SetterTypes
  /\ \A setter \in DOMAIN ConfigChoices : ConfigChoices[setter] \subseteq SetterTypes[setter]

VARIABLES
  free,             \* generic_asset::FreeBalance
  price,            \* new_oracle::CurrentPrice of each asset's symbol
  paused,           \* Paused
  config,           \* the settings root can change
  dtoken,           \* UserDtoken
  market,           \* MarketDtoken
  total,            \* TotalDtoken
  loans,            \* Loans: a function on the ids of the running loans
  loansByAccount,   \* LoansByAccount
  totalLoan,        \* TotalLoan
  totalCollateral,  \* TotalCollateral
  liquidating,      \* LiquidatingLoans
  nextLoanId,       \* NextLoanId
  halted            \* on_initialize has panicked: no further block can be built

ledger == <<free, price>>
savings == <<dtoken, market, total>>
book == <<loans, loansByAccount, totalLoan, totalCollateral, liquidating, nextLoanId>>
settings == <<paused, config>>
vars == <<free, price, paused, config, dtoken, market, total, loans, loansByAccount,
          totalLoan, totalCollateral, liquidating, nextLoanId, halted>>

InitState ==
  /\ free = GenesisFree
  /\ price = GenesisPrice
  /\ paused = FALSE
  /\ config = GenesisConfig
  /\ dtoken = [u \in Accounts |-> 0] /\ market = 0 /\ total = 0
  /\ loans = << >> /\ loansByAccount = [u \in Accounts |-> << >>]
  /\ totalLoan = 0 /\ totalCollateral = 0
  /\ liquidating = << >> /\ nextLoanId = 0
  /\ halted = FALSE

-----------------------------------------------------------------------------
\* A product of balances that is not checked, reduced to the width.
Narrow(n) == n % (MaxBalance + 1)

\* generic_asset::free_balance, make_transfer's check and its effect, on a
\* table of balances f.
Affords(f, asset, from, amount) == CanTransfer(f[asset], from, amount)
Paid(f, asset, from, to, amount) == [f EXCEPT ![asset] = AfterTransfer(@, from, to, amount)]

\* The cash of the pool: the collection account's balance.
Cash == free[config.collectionAsset][config.collectionAccount]

CollateralPrice == price[config.collateralAsset]

-----------------------------------------------------------------------------
\* pause and resume, root only.
SetPaused(b) ==
  /\ paused' = b
  /\ UNCHANGED <<ledger, config, savings, book, halted>>

\* The setting each setter writes: the two threshold setters write each other's.
Written(setter) ==
  IF setter = "liquidationThreshold" THEN "warningThreshold"
  ELSE IF setter = "warningThreshold" THEN "liquidationThreshold"
  ELSE setter

\* set_collection_asset_id .. set_penalty_rate, root only. Two of the asset
\* setters require a symbol; set_loan_cap(0) removes the cap.
Configure(setter, value) ==
  /\ setter \in {"collectionAsset", "profitAsset"} => value \in SymbolIds
  /\ config' = [config EXCEPT ![Written(setter)] =
                  IF setter = "loanCap" /\ value = 0 THEN NoCap ELSE value]
  /\ UNCHANGED <<ledger, paused, savings, book, halted>>

\* The oracle publishes prices, of any assets at once (NewOracle.tla).
PublishPrices ==
  /\ price' \in [AssetIds -> Prices \cup {price[asset] : asset \in AssetIds}]
  /\ \A asset \in AssetIds : price'[asset] \in Prices \cup {price[asset]}
  /\ UNCHANGED <<free, settings, savings, book, halted>>
=============================================================================
