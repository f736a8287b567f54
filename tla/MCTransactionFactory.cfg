\* Up to ten blocks, more than twice the period, of up to four transfers, of which
\* a block holds three and the master's money lasts for twenty at the highest fee.
SPECIFICATION Spec
CONSTANTS
  Period = 4
  MinimumPeriod = 3
  BlockHashCount = 3
  Room = 3
  Fees = {0, 1}
  MaxFee = 1
  Deposit = 2
  GenesisMoney = 62
  MaxBlocks = 10
  MaxTransactions = 4
INVARIANT
  ChainIsTracked
PROPERTY
  MakesAllBlocks
\* The factory stops when it is done.
CHECK_DEADLOCK FALSE
