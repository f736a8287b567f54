\* Collateral is added to a loan.
SPECIFICATION Spec
CONSTANTS
  alice = alice
  bob = bob
  collection = collection
  profit = profit
  shop = shop
  auctioneer = auctioneer
  NoCap = NoCap
  Accounts <- MCAccounts
  MaxBalance = 9999
  AssetIds <- MCAssets
  SymbolIds <- MCAssets
  Users <- MCUsers
  PawnShop = shop
  MinimumCollateral = 0
  LiquidationPenalty = 10
  LtvPrec = 10
  PricePrec = 2
  U32 = 10000
  U64 = 100000
  GenesisConfig <- MCConfig
  GenesisFree <- MCFree
  GenesisPrice <- MCPrice
  Prices <- MCPrices
  ConfigChoices <- MCNoChoice
  RatePrec = 10
  StakeAmounts <- MCNone
  RedeemAmounts <- MCNone
  Applications <- MCOrderly
  AuctionExtras <- MCZero
  AddAmounts <- MCAdds
  DrawAmounts <- MCNone
  MaxLoanId = 0
  MaxTotal = 40
INVARIANT
  CollateralIsLocked
CHECK_DEADLOCK FALSE
