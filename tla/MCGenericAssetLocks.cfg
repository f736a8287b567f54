\* Reserving and releasing on an asset that is minted and burnt, by callers that
\* release a lock with its own amount.
SPECIFICATION Spec
CONSTANTS
  sudo = sudo
  alice = alice
  nobody = nobody
  Root = Root
  NoOwner = NoOwner
  SudoKey = sudo
  DefaultAccount = alice
  Accounts <- MCEndowed
  MaxBalance = 2
  MaxAssetId = 1
  NewPermissions <- MCNone
  GenesisAssets <- MCNone
  GenesisSymbols <- MCFirst
  GenesisNextId = 1
  EndowedAccounts <- MCNone
  InitialBalance = 0
  MaxLockId = 3
  StrayUnreserve = FALSE
INVARIANTS
  LockIdsUnique
  ReservedMatchesLocks
  Conservation
PROPERTY
  ImplementsLedger
