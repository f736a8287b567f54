\* The loan book whatever happens: auctions that bring more, with a penalty above
\* what is left over, collateral added in the wrong asset so that a repayment of it
\* reverts, amounts left to be derived, and a cap that root sets and removes.
SPECIFICATION Spec
CONSTANTS
  alice = alice
  bob = bob
  collection = collection
  profit = profit
  shop = shop
  auctioneer = auctioneer
  NoCap = NoCap
  Accounts <- MCAccounts
  MaxBalance = 9999
  AssetIds <- MCAssets
  SymbolIds <- MCAssets
  Users <- MCUsers
  PawnShop = shop
  MinimumCollateral = 0
  LiquidationPenalty = 1300
  LtvPrec = 10
  PricePrec = 2
  U32 = 10000
  U64 = 100000
  GenesisConfig <- MCConfig
  GenesisFree <- MCFree
  GenesisPrice <- MCPrice
  Prices <- MCLow
  ConfigChoices <- MCLoanSettings
  RatePrec = 10
  StakeAmounts <- MCNone
  RedeemAmounts <- MCNone
  Applications <- MCApplications
  AuctionExtras <- MCExtras
  AddAmounts <- MCAdds
  DrawAmounts <- MCDraw
  MaxLoanId = 1
  MaxTotal = 24
INVARIANTS
  TypeOK
  LoanBookConsistent
  LiquidatingConsistent
  TotalsCoverLoans
CHECK_DEADLOCK FALSE
