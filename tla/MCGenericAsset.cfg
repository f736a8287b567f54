\* Permissions and asset creation: one id is reserved at genesis, one more may be created,
\* and a third is never reached; no locks.
SPECIFICATION Spec
CONSTANTS
  sudo = sudo
  alice = alice
  nobody = nobody
  Root = Root
  NoOwner = NoOwner
  SudoKey = sudo
  DefaultAccount = nobody
  Accounts <- MCAccounts
  MaxBalance = 2
  MaxAssetId = 2
  NewPermissions <- MCPermissions
  GenesisAssets <- MCNone
  GenesisSymbols <- MCNone
  GenesisNextId = 1
  EndowedAccounts <- MCNone
  InitialBalance = 0
  MaxLockId = 0
  StrayUnreserve = TRUE
INVARIANTS
  TypeOK
  NothingBeforeCreation
PROPERTIES
  OnlyAuthorisedLoss
  RenouncedIsFinal
