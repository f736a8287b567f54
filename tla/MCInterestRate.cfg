\* Saving, borrowing and repaying between blocks over four years, past the width of 32
\* bits at deposits of 8 and that of a balance at loans of 7.
SPECIFICATION Spec
CONSTANTS
  alice = alice
  bob = bob
  Accounts <- MCAccounts
  RatePrec = 1000
  Year = 1
  U32 = 8
  Amounts <- MCAmounts
  GenesisRate = 0
  Waits <- MCWaits
  MaxTime = 4
  MaxBalance = 6999
  MaxSaved = 9
INVARIANTS
  LoanRateInBand
  HaltsOnlyAtWidth
PROPERTY
  BlocksChargeNothing
\* The chain stops where on_initialize panics.
CHECK_DEADLOCK FALSE
