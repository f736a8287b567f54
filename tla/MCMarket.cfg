\* Three rounds of the oracle; the pool from before BTC has a price.
SPECIFICATION MarketSpec
CONSTANTS
  BTC = BTC
  DUSD = DUSD
  NoPrice = NoPrice
  alice = alice
  collection = collection
  profit = profit
  shop = shop
  auctioneer = auctioneer
  NoCap = NoCap
  Accounts <- MCAccounts
  MaxBalance = 99999
  AssetIds <- MCAssets
  SymbolIds <- MCAssets
  Users <- MCUsers
  PawnShop = shop
  MinimumCollateral = 0
  LiquidationPenalty = 10
  LtvPrec = 10
  PricePrec = 10
  U32 = 64
  U64 = 16
  GenesisConfig <- MCConfig
  GenesisFree <- MCFree
  GenesisPrice <- MCPrice
  Prices <- MCMeans
  ConfigChoices <- MCNoChoice
  RatePrec = 10
  StakeAmounts <- MCNone
  RedeemAmounts <- MCNone
  Applications <- MCApplications
  AuctionExtras <- MCZero
  AddAmounts <- MCNone
  DrawAmounts <- MCDraw
  MaxLoanId = 1
  MaxTotal = 100
  Symbol <- MCSymbol
  Tokens <- MCTokens
  Width = 1024
  AggregateInterval = 2
  GenesisSources <- MCSources
  MaxSources = 3
  MaxPool = 1
  MaxReports <- MCMaxReports
  MaxHeight = 6
  ReportPrices <- MCReports
  CurrentAtGenesis <- MCCurrent
INVARIANTS
  ShopCoversLoans
  HaltsOnlyAtLimits
PROPERTIES
  ClosedWhenPaid
  LiquidationSticks
  PriceFollowsReports
  ImplementsPool
  NoneEscapes
  ListedAfterFall
  ReportsAreAggregated
\* The model stops at MaxHeight.
CHECK_DEADLOCK FALSE
