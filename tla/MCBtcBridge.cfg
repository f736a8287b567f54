\* Two users with a path each that can be derived, beside two BTC transactions of 1 or 2,
\* of which 2 is held back; issuing more than 3 fails.
SPECIFICATION BtcSpec
CONSTANTS
  alice = alice
  bob = bob
  keeper = keeper
  clerk = clerk
  Vault = Vault
  tx1 = tx1
  tx2 = tx2
  old = old
  new = new
  Accounts <- MCAccounts
  MaxBalance = 3
  Users <- MCUsers
  Admins <- MCAdmins
  Authority <- MCAuthority
  Threshold = 2
  TxHashes <- MCTxHashes
  Amounts <- MCAmounts
  GenesisFree <- MCFree
  MaxPending = 2
  Materials <- MCMaterials
  GenesisMaterial = old
  Components <- MCComponents
  Invalid <- MCInvalid
  Paths <- MCPaths
INVARIANTS
  BtcTypeOK
  DepositsAddUp
  VaultCoversPending
PROPERTY
  ImplementsDepositOnce
