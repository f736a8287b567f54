---------------------------- MODULE GenericAsset ----------------------------
(***************************************************************************)
(* The multi-asset ledger: runtime/modules/generic-asset/src/lib.rs.       *)
(*                                                                         *)
(* One action per dispatchable call (create, create_reserved, transfer,    *)
(* update_permission, mint, burn) and per public function that another     *)
(* runtime module calls to change state (reserve, unreserve). A call       *)
(* returns "Ok" or the name of the error it fails with, and a failing call *)
(* writes nothing: every check precedes the first write.                   *)
(***************************************************************************)
EXTENDS Balances, Sequences

CONSTANTS
  MaxAssetId,        \* the largest value of T::AssetId (u32 in the runtime)
  SudoKey,           \* sudo::Module::key(), an account
  DefaultAccount,    \* T::AccountId::default(), which nobody can sign for
  Root,              \* the root origin, no account
  NoOwner,           \* Owner::None
  NewPermissions,    \* the permissions callers pass to create_reserved and update_permission
  GenesisAssets,     \* config.assets
  GenesisSymbols,    \* the ids of config.symbols
  GenesisNextId,     \* config.next_asset_id
  EndowedAccounts,   \* config.endowed_accounts, without duplicates
  InitialBalance,    \* config.initial_balance
  MaxLockId,         \* bound: reserve is not called once next_lock_id passes it
  StrayUnreserve     \* may unreserve be given a lock's id and another amount than the lock's?

AssetIds == 0..MaxAssetId
Owners == Accounts \cup {NoOwner}
Permission == [update : Owners, mint : Owners, burn : Owners]

ASSUME AssetIdAssumption == MaxAssetId \in Nat /\ GenesisNextId \in AssetIds
ASSUME AccountAssumption == {SudoKey, DefaultAccount} \subseteq Accounts
ASSUME RootAssumption == {Root, NoOwner} \cap Accounts = {}
ASSUME PermissionAssumption == NewPermissions \subseteq Permission

\* A genesis the node can be started with: reserved ids lie below next_asset_id,
\* no symbol repeats an asset (create_asset(..).unwrap() would panic) and the
\* product initial_balance * endowed_accounts.len() fits a Balance.
ASSUME GenesisAssumption ==
  /\ GenesisAssets \subseteq 0..(GenesisNextId - 1)
  /\ GenesisSymbols \subseteq 0..(GenesisNextId - 1)
  /\ GenesisAssets \cap GenesisSymbols = {}
  /\ EndowedAccounts \subseteq Accounts
  /\ InitialBalance \in Balance
  /\ InitialBalance * Cardinality(EndowedAccounts) \in Balance

ASSUME LockBoundAssumption == MaxLockId \in Nat
ASSUME StrayAssumption == StrayUnreserve \in BOOLEAN

VARIABLES
  created,       \* the keys of TotalIssuance
  issuance,      \* TotalIssuance, 0 where there is no key
  free,          \* FreeBalance
  reserved,      \* ReservedBalance
  permissions,   \* Permissions
  symbols,       \* the keys of Symbols
  nextAssetId,   \* NextAssetId
  locks,         \* Locks: per asset and account, the list of its locks
  nextLockId,    \* NextLockId
  caller,        \* the origin of the last call
  result         \* what the last call returned

store == <<created, issuance, free, reserved, permissions, symbols,
           nextAssetId, locks, nextLockId>>
vars == <<created, issuance, free, reserved, permissions, symbols,
          nextAssetId, locks, nextLockId, caller, result>>

\* A BalanceLock; its asset is the map's key and its reason is always Reserve.
Lock == [id : Nat, amount : Balance]

Errors == {"ZeroAmount", "InsufficientBalance", "NoUpdatePermission",
           "NoMintPermission", "TotalMintingOverflow", "FreeMintingOverflow",
           "NoBurnPermission", "TotalBurningUnderflow", "FreeBurningUnderflow",
           "IdAlreadyTaken", "IdUnavailable", "NoIdAvailable",
           "InsufficientReservedBalance", "MissingLock", "NoLockMeetRequirement"}

\* Permissions' default value.
NoPermission == [update |-> NoOwner, mint |-> NoOwner, burn |-> NoOwner]

\* The permissions `create` and the genesis build give the sudo key.
OwnedBy(a) == [update |-> a, mint |-> a, burn |-> a]

-----------------------------------------------------------------------------
\* The genesis state: endowed accounts of the listed assets, then one empty
\* asset per symbol created for the sudo key.
Init ==
  /\ created = GenesisAssets \cup GenesisSymbols
  /\ issuance = [id \in AssetIds |-> IF id \in GenesisAssets
                   THEN InitialBalance * Cardinality(EndowedAccounts) ELSE 0]
  /\ free = [id \in AssetIds |-> [a \in Accounts |->
                IF id \in GenesisAssets /\ a \in EndowedAccounts
                  THEN InitialBalance ELSE 0]]
  /\ reserved = [id \in AssetIds |-> EmptySheet]
  /\ permissions = [id \in AssetIds |->
                IF id \in GenesisSymbols THEN OwnedBy(SudoKey) ELSE NoPermission]
  /\ symbols = GenesisSymbols
  /\ nextAssetId = GenesisNextId
  /\ locks = [id \in AssetIds |-> [a \in Accounts |-> <<>>]]
  /\ nextLockId = 1
  /\ caller = Root
  /\ result = "Ok"

Succeeds(who) == caller' = who /\ result' = "Ok"

Fails(who, error) ==
  /\ caller' = who
  /\ result' = error
  /\ error \in Errors
  /\ UNCHANGED store

-----------------------------------------------------------------------------
\* Mutant: the permissions and the balance are stored, the issuance is not.
InsertWithoutIssuance(id, account, amount, perms) ==
  /\ free' = [free EXCEPT ![id] = SetBalance(@, account, amount)]
  /\ permissions' = [permissions EXCEPT ![id] = perms]
  /\ UNCHANGED <<created, issuance, reserved, locks, nextLockId>>

\* The tail of create_asset: it overwrites the issuance, the account's free
\* balance and the permissions of the id, whatever they were.
InsertAsset(id, account, amount, perms) ==
  /\ created' = created \cup {id}
  /\ issuance' = [issuance EXCEPT ![id] = amount]
  /\ free' = [free EXCEPT ![id] = SetBalance(@, account, amount)]
  /\ permissions' = [permissions EXCEPT ![id] = perms]
  /\ UNCHANGED <<reserved, locks, nextLockId>>

\* create: root only; a new asset under the next id, owned by the sudo key.
Create(amount) ==
  \/ /\ nextAssetId = MaxAssetId
     /\ Fails(Root, "NoIdAvailable")
  \/ /\ nextAssetId < MaxAssetId
     /\ nextAssetId' = nextAssetId + 1
     /\ InsertAsset(nextAssetId, SudoKey, amount, OwnedBy(SudoKey))
     /\ symbols' = symbols \cup {nextAssetId}
     /\ Succeeds(Root)

\* create_reserved: root only; a chosen id below next_asset_id, issued to the
\* default account, without a symbol.
CreateReserved(id, amount, perms) ==
  \/ /\ id \in created
     /\ Fails(Root, "IdAlreadyTaken")
  \/ /\ id \notin created /\ id >= nextAssetId
     /\ Fails(Root, "IdUnavailable")
  \/ /\ id \notin created /\ id < nextAssetId
     /\ InsertAsset(id, DefaultAccount, amount, perms)
     /\ UNCHANGED <<symbols, nextAssetId>>
     /\ Succeeds(Root)

\* transfer: refuses a zero amount, then make_transfer.
Transfer(who, id, to, amount) ==
  \/ /\ amount = 0
     /\ Fails(who, "ZeroAmount")
  \/ /\ amount # 0 /\ ~CanTransfer(free[id], who, amount)
     /\ Fails(who, "InsufficientBalance")
  \/ /\ amount # 0 /\ CanTransfer(free[id], who, amount)
     /\ free' = [free EXCEPT ![id] = AfterTransfer(@, who, to, amount)]
     /\ UNCHANGED <<created, issuance, reserved, permissions, symbols,
                    nextAssetId, locks, nextLockId>>
     /\ Succeeds(who)

\* Mutant: the mint owner may change the permissions too.
UpdateByMinter(who, id, perms) ==
  /\ who \in {permissions[id].update, permissions[id].mint}
  /\ permissions' = [permissions EXCEPT ![id] = perms]
  /\ UNCHANGED <<created, issuance, free, reserved, symbols, nextAssetId, locks, nextLockId>>
  /\ Succeeds(who)

\* update_permission: the update owner replaces all three owners.
UpdatePermission(who, id, perms) ==
  \/ /\ permissions[id].update # who
     /\ Fails(who, "NoUpdatePermission")
  \/ /\ permissions[id].update = who
     /\ permissions' = [permissions EXCEPT ![id] = perms]
     /\ UNCHANGED <<created, issuance, free, reserved, symbols,
                    nextAssetId, locks, nextLockId>>
     /\ Succeeds(who)

\* Mutant: only the account's balance is tested for overflow.
MintWithoutTotalCheck(id, who, to, amount) ==
  IF permissions[id].mint # who THEN "NoMintPermission"
  ELSE IF free[id][to] + amount > MaxBalance THEN "FreeMintingOverflow"
  ELSE "Ok"

\* mint_free's error, "Ok" when there is none. The issuance is tested first.
MintOutcome(id, who, to, amount) ==
  IF permissions[id].mint # who THEN "NoMintPermission"
  ELSE IF issuance[id] + amount > MaxBalance THEN "TotalMintingOverflow"
  ELSE IF free[id][to] + amount > MaxBalance THEN "FreeMintingOverflow"
  ELSE "Ok"

\* mint: the mint owner creates amount in the account `to`.
Mint(who, id, to, amount) ==
  \/ Fails(who, MintOutcome(id, who, to, amount))
  \/ /\ MintOutcome(id, who, to, amount) = "Ok"
     /\ created' = created \cup {id}
     /\ issuance' = [issuance EXCEPT ![id] = @ + amount]
     /\ free' = [free EXCEPT ![id] = SetBalance(@, to, @[to] + amount)]
     /\ UNCHANGED <<reserved, permissions, symbols, nextAssetId, locks, nextLockId>>
     /\ Succeeds(who)

\* Mutant: burning asks for the mint permission.
BurnByMinter(id, who, to, amount) ==
  IF permissions[id].mint # who THEN "NoBurnPermission"
  ELSE IF issuance[id] < amount THEN "TotalBurningUnderflow"
  ELSE IF free[id][to] < amount THEN "FreeBurningUnderflow"
  ELSE "Ok"

\* burn_free's error, "Ok" when there is none.
BurnOutcome(id, who, to, amount) ==
  IF permissions[id].burn # who THEN "NoBurnPermission"
  ELSE IF issuance[id] < amount THEN "TotalBurningUnderflow"
  ELSE IF free[id][to] < amount THEN "FreeBurningUnderflow"
  ELSE "Ok"

\* burn: the burn owner destroys amount of the account `to`.
Burn(who, id, to, amount) ==
  \/ Fails(who, BurnOutcome(id, who, to, amount))
  \/ /\ BurnOutcome(id, who, to, amount) = "Ok"
     /\ created' = created \cup {id}
     /\ issuance' = [issuance EXCEPT ![id] = @ - amount]
     /\ free' = [free EXCEPT ![id] = SetBalance(@, to, @[to] - amount)]
     /\ UNCHANGED <<reserved, permissions, symbols, nextAssetId, locks, nextLockId>>
     /\ Succeeds(who)

-----------------------------------------------------------------------------
LockIds(list) == {list[i].id : i \in DOMAIN list}
\* Mutant: a lock of at least the amount will do.
LocksOfAtLeast(list, amount) == {i \in DOMAIN list : list[i].amount >= amount}

LocksOf(list, amount) == {i \in DOMAIN list : list[i].amount = amount}

\* The first of a non-empty set of positions.
FirstOf(S) == CHOOSE i \in S : \A j \in S : i <= j

\* Mutant: ids are counted per list.
WithLocalId(list, lid, amount) == Append(list, [id |-> Len(list) + 1, amount |-> amount])

\* set_lock's append_or_insert, under a fresh id.
WithLock(list, lid, amount) == Append(list, [id |-> lid, amount |-> amount])

\* remove_lock: the list without its first lock of that id.
WithoutLock(list, lid) ==
  LET k == FirstOf({i \in DOMAIN list : list[i].id = lid})
  IN  [i \in 1..(Len(list) - 1) |-> IF i < k THEN list[i] ELSE list[i + 1]]

\* reserve: both sums are plain `+` and `-`, then a lock with the next id.
Reserve(who, id, amount) ==
  \/ /\ free[id][who] < amount
     /\ Fails(who, "InsufficientBalance")
  \/ /\ free[id][who] >= amount
     /\ nextLockId <= MaxLockId
     /\ reserved' = [reserved EXCEPT ![id] = SetBalance(@, who, Wrapped(@[who] + amount))]
     /\ free' = [free EXCEPT ![id] = SetBalance(@, who, Wrapped(@[who] - amount))]
     /\ locks' = [locks EXCEPT ![id][who] = WithLock(@, nextLockId, amount)]
     /\ nextLockId' = nextLockId + 1
     /\ UNCHANGED <<created, issuance, permissions, symbols, nextAssetId>>
     /\ Succeeds(who)

\* The tail of unreserve, once the lock to remove is known.
Release(who, id, amount, lid) ==
  /\ locks' = [locks EXCEPT ![id][who] = WithoutLock(@, lid)]
  /\ free' = [free EXCEPT ![id] = SetBalance(@, who, Wrapped(@[who] + amount))]
  /\ reserved' = [reserved EXCEPT ![id] = SetBalance(@, who, @[who] - amount)]
  /\ UNCHANGED <<created, issuance, permissions, symbols, nextAssetId, nextLockId>>
  /\ Succeeds(who)

\* unreserve(.., Some(lid)): the lock must exist; its amount is not looked at.
UnreserveLock(who, id, amount, lid) ==
  \/ /\ reserved[id][who] < amount
     /\ Fails(who, "InsufficientReservedBalance")
  \/ /\ reserved[id][who] >= amount
     /\ lid \notin LockIds(locks[id][who])
     /\ Fails(who, "MissingLock")
  \/ /\ reserved[id][who] >= amount
     /\ lid \in LockIds(locks[id][who])
     /\ StrayUnreserve \/ \E i \in LocksOf(locks[id][who], amount) : locks[id][who][i].id = lid
     /\ Release(who, id, amount, lid)

\* unreserve(.., None): the first lock of exactly this amount.
UnreserveAmount(who, id, amount) ==
  LET found == LocksOf(locks[id][who], amount) IN
  \/ /\ reserved[id][who] < amount
     /\ Fails(who, "InsufficientReservedBalance")
  \/ /\ reserved[id][who] >= amount /\ found = {}
     /\ Fails(who, "NoLockMeetRequirement")
  \/ /\ reserved[id][who] >= amount /\ found # {}
     /\ Release(who, id, amount, locks[id][who][FirstOf(found)].id)

-----------------------------------------------------------------------------
\* One call per step, by any origin with any arguments.
Next ==
  \/ \E amount \in Balance : Create(amount)
  \/ \E id \in AssetIds, amount \in Balance :
       \/ \E perms \in NewPermissions : CreateReserved(id, amount, perms)
       \/ \E who \in Accounts :
            \/ Reserve(who, id, amount)
            \/ UnreserveAmount(who, id, amount)
            \/ \E lid \in 1..MaxLockId : UnreserveLock(who, id, amount, lid)
            \/ \E to \in Accounts :
                 \/ Transfer(who, id, to, amount)
                 \/ Mint(who, id, to, amount)
                 \/ Burn(who, id, to, amount)
  \/ \E id \in AssetIds, who \in Accounts, perms \in NewPermissions :
       UpdatePermission(who, id, perms)

Spec == Init /\ [][Next]_vars

-----------------------------------------------------------------------------
(***************************************************************************)
(* Properties                                                              *)
(***************************************************************************)

\* Every map holds values of its type; in particular no balance leaves the
\* width of T::Balance.
TypeOK ==
  /\ created \subseteq AssetIds
  /\ issuance \in [AssetIds -> Balance]
  /\ free \in [AssetIds -> Sheet]
  /\ reserved \in [AssetIds -> Sheet]
  /\ permissions \in [AssetIds -> Permission]
  /\ symbols \subseteq AssetIds
  /\ nextAssetId \in AssetIds
  /\ locks \in [AssetIds -> [Accounts -> Seq(Lock)]]
  /\ nextLockId \in Nat \ {0}
  /\ caller \in Accounts \cup {Root}
  /\ result \in Errors \cup {"Ok"}

\* TotalIssuance is the sum of all balances of the asset, free and reserved:
\* the unchecked `+=` of make_transfer, reserve and unreserve never wraps, and
\* no call creates or destroys money on the side.
Conservation ==
  \A id \in AssetIds : SumOf(free[id]) + SumOf(reserved[id]) = issuance[id]

\* create_asset overwrites what an id holds, and create does not look at
\* TotalIssuance: an id at or above next_asset_id, or never created, must hold
\* nothing, neither money nor an owner who could mint. (It may hold locks of
\* amount 0: reserve accepts a zero amount of any asset.)
NothingBeforeCreation ==
  \A id \in AssetIds :
    (id >= nextAssetId \/ id \notin created) =>
      /\ issuance[id] = 0 /\ id \notin created \cup symbols
      /\ free[id] = EmptySheet /\ reserved[id] = EmptySheet
      /\ permissions[id] = NoPermission

\* A lock id names one lock of one account in one asset, and none not yet handed out.
LockIdsUnique ==
  /\ \A id \in AssetIds, a \in Accounts : \A i \in DOMAIN locks[id][a] :
       locks[id][a][i].id \in 1..(nextLockId - 1)
  /\ \A id1, id2 \in AssetIds, a1, a2 \in Accounts :
       \A i \in DOMAIN locks[id1][a1], j \in DOMAIN locks[id2][a2] :
         locks[id1][a1][i].id = locks[id2][a2][j].id
           => id1 = id2 /\ a1 = a2 /\ i = j

\* The amounts of a list of locks, summed like the coins of a sheet.
LockedIn(list) ==
  Cardinality({c \in (DOMAIN list) \X (1..MaxBalance) : c[2] <= list[c[1]].amount})

\* What an account has reserved is exactly what its locks hold, so every reserved
\* coin can be released through one of them. It is a contract with the callers of
\* unreserve: it holds when they pass a lock together with its own amount.
ReservedMatchesLocks ==
  \A id \in AssetIds, a \in Accounts : reserved[id][a] = LockedIn(locks[id][a])

\* What account a owns of an asset.
Holding(id, a) == free[id][a] + reserved[id][a]

\* An account's holding shrinks only by its own call or by the burn owner's, and
\* an existing asset's issuance grows only by its mint owner's: in particular
\* no create overwrites an asset somebody holds.
OnlyAuthorisedLoss ==
  [][\A id \in AssetIds :
       /\ \A a \in Accounts : Holding(id, a)' < Holding(id, a) =>
            caller' = a \/ caller' = permissions[id].burn
       /\ id \in created /\ issuance'[id] > issuance[id] =>
            caller' = permissions[id].mint]_vars

\* Rights once given up never come back: when an existing asset has no update
\* owner its permissions are final, and otherwise only that owner changes them.
RenouncedIsFinal ==
  [][\A id \in created :
       permissions'[id] # permissions[id] => caller' = permissions[id].update]_vars

-----------------------------------------------------------------------------
(***************************************************************************)
(* What the module promises: the ledger of AssetLedger, in which an        *)
(* account's holding is its free and reserved balance together. reserve    *)
(* and unreserve are invisible there.                                      *)
(***************************************************************************)
holding == [id \in AssetIds |-> [a \in Accounts |-> free[id][a] + reserved[id][a]]]

Ledger == INSTANCE AssetLedger WITH supply <- issuance

\* Every behaviour of this module is one of the abstract ledger: money moves
\* between two accounts, or one account's holding and the supply change alike.
ImplementsLedger == Ledger!Spec
=============================================================================
