\* Savings beside one loan: two savers stake and redeem while it is repaid or auctioned.
SPECIFICATION LiveSpec
CONSTANTS
  alice = alice
  bob = bob
  collection = collection
  profit = profit
  shop = shop
  auctioneer = auctioneer
  NoCap = NoCap
  Accounts <- MCAccounts
  MaxBalance = 299
  AssetIds <- MCAssets
  SymbolIds <- MCAssets
  Users <- MCUsers
  PawnShop = shop
  MinimumCollateral = 0
  LiquidationPenalty = 10
  LtvPrec = 10
  PricePrec = 2
  U32 = 16
  U64 = 32
  GenesisConfig <- MCConfig
  GenesisFree <- MCSaved
  GenesisPrice <- MCPrice
  Prices <- MCLow
  ConfigChoices <- MCNoChoice
  RatePrec = 10
  StakeAmounts <- MCStakes
  RedeemAmounts <- MCRedeems
  Applications <- MCOneApplication
  AuctionExtras <- MCZero
  AddAmounts <- MCNone
  DrawAmounts <- MCDraw
  MaxLoanId = 0
  MaxTotal = 40
INVARIANTS
  SavingsCovered
  HaltsOnlyAtLimits
PROPERTIES
  SavingsAreCredited
  LossIsRecorded
  UnhealthyIsListed
\* The chain stops where on_initialize panics.
CHECK_DEADLOCK FALSE
