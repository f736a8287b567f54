------------------------- MODULE GenericAssetProofs -------------------------
(***************************************************************************)
(* Theorems about GenericAsset for any set of accounts, any width of a     *)
(* balance and of an asset id, and any genesis: type correctness, the      *)
(* conservation of every asset, who may take or change what, the locks,    *)
(* and the refinement of AssetLedger.                                      *)
(***************************************************************************)
EXTENDS GenericAsset, BalancesProofs

\* Facts about the constants that most steps need.
LEMMA ConstantFacts ==
  /\ MaxBalance \in Nat /\ 0 \in Balance
  /\ \A n \in Balance : n \in Nat /\ n <= MaxBalance
  /\ \A n \in Nat : n <= MaxBalance => n \in Balance
  /\ SudoKey \in Accounts /\ DefaultAccount \in Accounts
  /\ Root \notin Accounts /\ NoOwner \notin Accounts
  /\ \A id \in AssetIds : id \in Nat /\ id <= MaxAssetId
  /\ MaxAssetId \in Nat
  /\ NewPermissions \subseteq Permission
  /\ OwnedBy(SudoKey) \in Permission /\ NoPermission \in Permission
BY MaxBalanceAssumption, AssetIdAssumption, AccountAssumption, RootAssumption,
   PermissionAssumption
   DEF Balance, AssetIds, Permission, Owners, OwnedBy, NoPermission

\* A non-empty set of positions of a list has a first one.
LEMMA FirstOfIsLeast ==
  ASSUME NEW n \in Nat, NEW S \in SUBSET (1..n), S # {}
  PROVE  FirstOf(S) \in S /\ \A j \in S : FirstOf(S) <= j
<1>1. \E i \in S : \A j \in S : i <= j
  <2> DEFINE less == {p \in Nat \X Nat : p[1] < p[2]}
  <2>1. IsWellFoundedOn(less, Nat)
    BY NatLessThanWellFounded, Zenon DEF OpToRel
  <2>2. S \subseteq Nat
    OBVIOUS
  <2> HIDE DEF less
  <2>3. PICK i \in S : \A j \in S : ~ (<<j, i>> \in less)
    BY <2>1, <2>2, WFMin
  <2>4. \A j \in S : ~ (j < i)
    BY <2>2, <2>3 DEF less
  <2>5. \A j \in S : i <= j
    BY <2>2, <2>4
  <2> QED
    BY <2>5
<1> QED
  BY <1>1 DEF FirstOf

\* Appending a lock and removing one that is there keep a list of locks.
LEMMA LockLists ==
  ASSUME NEW list \in Seq(Lock), NEW lid \in Nat, NEW amount \in Balance
  PROVE  /\ WithLock(list, lid, amount) \in Seq(Lock)
         /\ lid \in LockIds(list) => WithoutLock(list, lid) \in Seq(Lock)
<1>1. WithLock(list, lid, amount) \in Seq(Lock)
  BY DEF WithLock, Lock
<1>2. ASSUME lid \in LockIds(list)
      PROVE  WithoutLock(list, lid) \in Seq(Lock)
  <2>1. Len(list) \in Nat \ {0}
    BY <1>2 DEF LockIds
  <2>2. \A i \in 1..Len(list) : list[i] \in Lock
    OBVIOUS
  <2> DEFINE k == FirstOf({i \in DOMAIN list : list[i].id = lid})
             e(i) == IF i < k THEN list[i] ELSE list[i + 1]
  <2>3. \A i \in 1..(Len(list) - 1) : e(i) \in Lock
    BY <2>1, <2>2
  <2>4. Len(list) - 1 \in Nat
    BY <2>1
  <2>5. WithoutLock(list, lid) = [i \in 1..(Len(list) - 1) |-> e(i)]
    BY DEF WithoutLock
  <2> HIDE DEF e
  <2>6. [i \in 1..(Len(list) - 1) |-> e(i)] \in [1..(Len(list) - 1) -> Lock]
    BY <2>3
  <2>7. \A n \in Nat : \A f \in [1..n -> Lock] : f \in Seq(Lock)
    OBVIOUS
  <2> QED
    BY <2>4, <2>5, <2>6, <2>7
<1> QED
  BY <1>1, <1>2

-----------------------------------------------------------------------------
(***************************************************************************)
(* Type correctness. TypeOK is inductive by itself.                        *)
(***************************************************************************)
LEMMA TypeInit == Init => TypeOK
<1> SUFFICES ASSUME Init PROVE TypeOK
  OBVIOUS
<1> USE ConstantFacts
<1>1. created \subseteq AssetIds /\ symbols \subseteq AssetIds /\ nextAssetId \in AssetIds
  BY AssetIdAssumption, GenesisAssumption DEF Init, AssetIds
<1>2. issuance \in [AssetIds -> Balance]
  BY GenesisAssumption DEF Init
<1>3. free \in [AssetIds -> Sheet] /\ reserved \in [AssetIds -> Sheet]
  BY GenesisAssumption DEF Init, Sheet, EmptySheet
<1>4. permissions \in [AssetIds -> Permission]
  BY DEF Init
<1>5. locks \in [AssetIds -> [Accounts -> Seq(Lock)]] /\ nextLockId \in Nat \ {0}
  BY DEF Init
<1>6. caller \in Accounts \cup {Root} /\ result \in Errors \cup {"Ok"}
  BY DEF Init
<1> QED
  BY <1>1, <1>2, <1>3, <1>4, <1>5, <1>6 DEF TypeOK

\* The tail of create_asset keeps the types of what it writes.
LEMMA InsertAssetType ==
  ASSUME TypeOK, NEW id \in AssetIds, NEW account \in Accounts, NEW amount \in Balance,
         NEW perms \in Permission, InsertAsset(id, account, amount, perms)
  PROVE  /\ created' \subseteq AssetIds
         /\ issuance' \in [AssetIds -> Balance]
         /\ free' \in [AssetIds -> Sheet] /\ reserved' \in [AssetIds -> Sheet]
         /\ permissions' \in [AssetIds -> Permission]
         /\ locks' \in [AssetIds -> [Accounts -> Seq(Lock)]]
         /\ nextLockId' \in Nat \ {0}
BY DEF TypeOK, InsertAsset, SetBalance, Sheet

\* The tail of unreserve keeps the types of what it writes.
LEMMA ReleaseType ==
  ASSUME TypeOK, NEW who \in Accounts, NEW id \in AssetIds, NEW amount \in Balance,
         NEW lid \in LockIds(locks[id][who]), reserved[id][who] >= amount,
         Release(who, id, amount, lid)
  PROVE  TypeOK'
<1> USE ConstantFacts
<1>1. free[id][who] \in Balance /\ reserved[id][who] \in Balance
  BY DEF TypeOK, Sheet
<1>2. free' \in [AssetIds -> Sheet]
  <2>1. Wrapped(free[id][who] + amount) \in Balance
    BY <1>1, WrappedType
  <2> QED
    BY <2>1 DEF TypeOK, Release, SetBalance, Sheet
<1>3. reserved' \in [AssetIds -> Sheet]
  <2>1. reserved[id][who] - amount \in Balance
    BY <1>1
  <2> QED
    BY <2>1 DEF TypeOK, Release, SetBalance, Sheet
<1>4. locks' \in [AssetIds -> [Accounts -> Seq(Lock)]]
  <2>1. locks[id][who] \in Seq(Lock)
    BY DEF TypeOK
  <2>2. lid \in Nat
    <3>1. \A i \in DOMAIN locks[id][who] : locks[id][who][i] \in Lock
      BY <2>1
    <3> QED
      BY <3>1 DEF LockIds, Lock
  <2>3. WithoutLock(locks[id][who], lid) \in Seq(Lock)
    BY <2>1, <2>2, LockLists
  <2> QED
    BY <2>3 DEF TypeOK, Release
<1> QED
  BY <1>2, <1>3, <1>4 DEF TypeOK, Release, Succeeds

\* Every call keeps the types.
LEMMA TypeStep == TypeOK /\ [Next]_vars => TypeOK'
<1> SUFFICES ASSUME TypeOK, [Next]_vars PROVE TypeOK'
  OBVIOUS
<1> USE ConstantFacts
<1>0. ASSUME NEW who \in Accounts \cup {Root}, NEW error, Fails(who, error)
      PROVE  TypeOK'
  BY <1>0 DEF TypeOK, Fails, store
<1>1. ASSUME NEW amount \in Balance, Create(amount)
      PROVE  TypeOK'
  <2>1. CASE nextAssetId = MaxAssetId /\ Fails(Root, "NoIdAvailable")
    BY <2>1, <1>0
  <2>2. CASE /\ nextAssetId < MaxAssetId
             /\ nextAssetId' = nextAssetId + 1
             /\ InsertAsset(nextAssetId, SudoKey, amount, OwnedBy(SudoKey))
             /\ symbols' = symbols \cup {nextAssetId}
             /\ Succeeds(Root)
    <3>1. nextAssetId \in AssetIds
      BY DEF TypeOK
    <3>2. nextAssetId + 1 \in AssetIds
      BY <2>2, <3>1 DEF AssetIds
    <3>3. nextAssetId' \in AssetIds /\ symbols' \subseteq AssetIds
      BY <2>2, <3>1, <3>2 DEF TypeOK
    <3> QED
      BY <2>2, <3>1, <3>3, InsertAssetType DEF TypeOK, Succeeds
  <2> QED
    BY <1>1, <2>1, <2>2 DEF Create
<1>2. ASSUME NEW id \in AssetIds, NEW amount \in Balance, NEW perms \in NewPermissions,
             CreateReserved(id, amount, perms)
      PROVE  TypeOK'
  <2>1. CASE \E error : Fails(Root, error)
    BY <2>1, <1>0
  <2>2. CASE /\ InsertAsset(id, DefaultAccount, amount, perms)
             /\ UNCHANGED <<symbols, nextAssetId>>
             /\ Succeeds(Root)
    <3>1. perms \in Permission
      OBVIOUS
    <3> QED
      BY <2>2, <3>1, InsertAssetType DEF TypeOK, Succeeds
  <2> QED
    BY <1>2, <2>1, <2>2 DEF CreateReserved
<1>3. ASSUME NEW who \in Accounts, NEW id \in AssetIds, NEW to \in Accounts,
             NEW amount \in Balance, Transfer(who, id, to, amount)
      PROVE  TypeOK'
  <2>1. CASE \E error : Fails(who, error)
    BY <2>1, <1>0
  <2>2. CASE /\ free' = [free EXCEPT ![id] = AfterTransfer(@, who, to, amount)]
             /\ UNCHANGED <<created, issuance, reserved, permissions, symbols,
                            nextAssetId, locks, nextLockId>>
             /\ Succeeds(who)
    <3>1. free[id] \in Sheet /\ free[id][who] \in Balance /\ free[id][to] \in Balance
      BY DEF TypeOK, Sheet
    <3>2. /\ Wrapped(free[id][who] - amount) \in Balance
          /\ Wrapped(free[id][to] + amount) \in Balance
      BY <3>1, WrappedType
    <3>3. AfterTransfer(free[id], who, to, amount) \in Sheet
      BY <3>1, <3>2 DEF AfterTransfer, Sheet
    <3> QED
      BY <2>2, <3>3 DEF TypeOK, Succeeds
  <2> QED
    BY <1>3, <2>1, <2>2 DEF Transfer
<1>4. ASSUME NEW who \in Accounts, NEW id \in AssetIds, NEW perms \in NewPermissions,
             UpdatePermission(who, id, perms)
      PROVE  TypeOK'
  BY <1>4, <1>0 DEF TypeOK, UpdatePermission, Succeeds
<1>5. ASSUME NEW who \in Accounts, NEW id \in AssetIds, NEW to \in Accounts,
             NEW amount \in Balance, Mint(who, id, to, amount)
      PROVE  TypeOK'
  <2>1. CASE \E error : Fails(who, error)
    BY <2>1, <1>0
  <2>2. CASE /\ MintOutcome(id, who, to, amount) = "Ok"
             /\ created' = created \cup {id}
             /\ issuance' = [issuance EXCEPT ![id] = @ + amount]
             /\ free' = [free EXCEPT ![id] = SetBalance(@, to, @[to] + amount)]
             /\ UNCHANGED <<reserved, permissions, symbols, nextAssetId, locks, nextLockId>>
             /\ Succeeds(who)
    <3>1. issuance[id] \in Balance /\ free[id][to] \in Balance
      BY DEF TypeOK, Sheet
    <3>2. ~(issuance[id] + amount > MaxBalance) /\ ~(free[id][to] + amount > MaxBalance)
      BY <2>2 DEF MintOutcome
    <3>3. issuance[id] + amount \in Balance /\ free[id][to] + amount \in Balance
      BY <3>1, <3>2
    <3> QED
      BY <2>2, <3>3 DEF TypeOK, SetBalance, Sheet, Succeeds
  <2> QED
    BY <1>5, <2>1, <2>2 DEF Mint
<1>6. ASSUME NEW who \in Accounts, NEW id \in AssetIds, NEW to \in Accounts,
             NEW amount \in Balance, Burn(who, id, to, amount)
      PROVE  TypeOK'
  <2>1. CASE \E error : Fails(who, error)
    BY <2>1, <1>0
  <2>2. CASE /\ BurnOutcome(id, who, to, amount) = "Ok"
             /\ created' = created \cup {id}
             /\ issuance' = [issuance EXCEPT ![id] = @ - amount]
             /\ free' = [free EXCEPT ![id] = SetBalance(@, to, @[to] - amount)]
             /\ UNCHANGED <<reserved, permissions, symbols, nextAssetId, locks, nextLockId>>
             /\ Succeeds(who)
    <3>1. issuance[id] \in Balance /\ free[id][to] \in Balance
      BY DEF TypeOK, Sheet
    <3>2. ~(issuance[id] < amount) /\ ~(free[id][to] < amount)
      BY <2>2 DEF BurnOutcome
    <3>3. issuance[id] - amount \in Balance /\ free[id][to] - amount \in Balance
      BY <3>1, <3>2
    <3> QED
      BY <2>2, <3>3 DEF TypeOK, SetBalance, Sheet, Succeeds
  <2> QED
    BY <1>6, <2>1, <2>2 DEF Burn
<1>7. ASSUME NEW who \in Accounts, NEW id \in AssetIds, NEW amount \in Balance,
             Reserve(who, id, amount)
      PROVE  TypeOK'
  <2>1. CASE \E error : Fails(who, error)
    BY <2>1, <1>0
  <2>2. CASE /\ reserved' = [reserved EXCEPT ![id] = SetBalance(@, who, Wrapped(@[who] + amount))]
             /\ free' = [free EXCEPT ![id] = SetBalance(@, who, Wrapped(@[who] - amount))]
             /\ locks' = [locks EXCEPT ![id][who] = WithLock(@, nextLockId, amount)]
             /\ nextLockId' = nextLockId + 1
             /\ UNCHANGED <<created, issuance, permissions, symbols, nextAssetId>>
             /\ Succeeds(who)
    <3>1. free[id][who] \in Balance /\ reserved[id][who] \in Balance
      BY DEF TypeOK, Sheet
    <3>2. /\ Wrapped(reserved[id][who] + amount) \in Balance
          /\ Wrapped(free[id][who] - amount) \in Balance
      BY <3>1, WrappedType
    <3>3. free' \in [AssetIds -> Sheet] /\ reserved' \in [AssetIds -> Sheet]
      BY <2>2, <3>2 DEF TypeOK, SetBalance, Sheet
    <3>4. WithLock(locks[id][who], nextLockId, amount) \in Seq(Lock)
      BY LockLists DEF TypeOK
    <3>5. locks' \in [AssetIds -> [Accounts -> Seq(Lock)]]
      BY <2>2, <3>4 DEF TypeOK
    <3>6. nextLockId' \in Nat \ {0}
      BY <2>2 DEF TypeOK
    <3> QED
      BY <2>2, <3>3, <3>5, <3>6 DEF TypeOK, Succeeds
  <2> QED
    BY <1>7, <2>1, <2>2 DEF Reserve
<1>8. ASSUME NEW who \in Accounts, NEW id \in AssetIds, NEW amount \in Balance,
             NEW lid, UnreserveLock(who, id, amount, lid)
      PROVE  TypeOK'
  BY <1>8, <1>0, ReleaseType DEF UnreserveLock
<1>9. ASSUME NEW who \in Accounts, NEW id \in AssetIds, NEW amount \in Balance,
             UnreserveAmount(who, id, amount)
      PROVE  TypeOK'
  <2> DEFINE found == LocksOf(locks[id][who], amount)
  <2>1. CASE \E error : Fails(who, error)
    BY <2>1, <1>0
  <2>2. CASE /\ reserved[id][who] >= amount /\ found # {}
             /\ Release(who, id, amount, locks[id][who][FirstOf(found)].id)
    <3>1. locks[id][who][FirstOf(found)].id \in LockIds(locks[id][who])
      <4>1. found \subseteq 1..Len(locks[id][who]) /\ DOMAIN locks[id][who] = 1..Len(locks[id][who])
        BY DEF TypeOK, LocksOf
      <4>2. Len(locks[id][who]) \in Nat
        BY DEF TypeOK
      <4> HIDE DEF found
      <4>3. FirstOf(found) \in found
        BY <2>2, <4>1, <4>2, FirstOfIsLeast
      <4> QED
        BY <4>1, <4>3 DEF LockIds
    <3> QED
      BY <2>2, <3>1, ReleaseType
  <2> QED
    BY <1>9, <2>1, <2>2 DEF UnreserveAmount
<1>10. CASE UNCHANGED vars
  BY <1>10 DEF TypeOK, vars
<1> QED
  BY <1>1, <1>2, <1>3, <1>4, <1>5, <1>6, <1>7, <1>8, <1>9, <1>10 DEF Next

\* Every map of the module keeps its type: no unchecked arithmetic on balances
\* leaves the width of T::Balance.
THEOREM TypeCorrect == Spec => []TypeOK
<1>1. Init => TypeOK
  BY TypeInit
<1>2. TypeOK /\ [Next]_vars => TypeOK'
  BY TypeStep
<1> QED
  BY <1>1, <1>2, PTL DEF Spec

-----------------------------------------------------------------------------
(***************************************************************************)
(* Conservation. A transfer, a reserve or an unreserve only moves coins if *)
(* its unchecked addition does not wrap, and it does not because the sum   *)
(* of all balances is an issuance, which fits the width. create_asset      *)
(* overwrites a balance, so the id must have held nothing: conservation is *)
(* inductive together with NothingBeforeCreation.                          *)
(***************************************************************************)
IInv == TypeOK /\ Conservation /\ NothingBeforeCreation

\* Under the invariant every sum fits the width of a balance.
LEMMA SumsFit ==
  ASSUME IInv, NEW id \in AssetIds, NEW a \in Accounts
  PROVE  /\ free[id] \in Sheet /\ reserved[id] \in Sheet /\ issuance[id] \in Balance
         /\ free[id][a] \in Nat /\ reserved[id][a] \in Nat
         /\ SumOf(free[id]) \in Nat /\ SumOf(reserved[id]) \in Nat
         /\ SumOf(free[id]) + SumOf(reserved[id]) = issuance[id]
         /\ SumOf(free[id]) <= MaxBalance
         /\ free[id][a] + reserved[id][a] <= MaxBalance
<1>1. free[id] \in Sheet /\ reserved[id] \in Sheet /\ issuance[id] \in Balance
  BY DEF IInv, TypeOK
<1>2. free[id][a] \in Nat /\ reserved[id][a] \in Nat
  BY <1>1, ConstantFacts DEF Sheet
<1>3. SumOf(free[id]) \in Nat /\ SumOf(reserved[id]) \in Nat
  BY <1>1, CoinsFinite
<1>4. SumOf(free[id]) + SumOf(reserved[id]) = issuance[id]
  BY DEF IInv, Conservation
<1>5. free[id][a] <= SumOf(free[id]) /\ reserved[id][a] <= SumOf(reserved[id])
  BY <1>1, SumBounds
<1> QED
  BY <1>1, <1>2, <1>3, <1>4, <1>5, ConstantFacts

\* The genesis balances add up to the genesis issuances.
LEMMA InvInit == Init => IInv
<1> SUFFICES ASSUME Init PROVE IInv
  OBVIOUS
<1>1. TypeOK
  BY TypeInit
<1>2. Conservation
  <2> SUFFICES ASSUME NEW id \in AssetIds
               PROVE  SumOf(free[id]) + SumOf(reserved[id]) = issuance[id]
    BY DEF Conservation
  <2>1. reserved[id] = EmptySheet
    BY DEF Init
  <2>2. CASE id \in GenesisAssets
    <3>1. free[id] = [a \in Accounts |-> IF a \in EndowedAccounts THEN InitialBalance ELSE 0]
      BY <2>2 DEF Init
    <3>2. SumOf(free[id]) = InitialBalance * Cardinality(EndowedAccounts)
      BY <3>1, SumEndowed, GenesisAssumption
    <3>3. issuance[id] = InitialBalance * Cardinality(EndowedAccounts)
      BY <2>2 DEF Init
    <3>4. issuance[id] \in Nat
      BY <3>3, GenesisAssumption, ConstantFacts
    <3> QED
      BY <2>1, <3>2, <3>3, <3>4, SumEmpty
  <2>3. CASE id \notin GenesisAssets
    <3>1. free[id] = EmptySheet /\ issuance[id] = 0
      BY <2>3 DEF Init, EmptySheet
    <3> QED
      BY <2>1, <3>1, SumEmpty
  <2> QED
    BY <2>2, <2>3
<1>3. NothingBeforeCreation
  <2> SUFFICES ASSUME NEW id \in AssetIds, id >= nextAssetId \/ id \notin created
               PROVE  /\ issuance[id] = 0 /\ id \notin created \cup symbols
                      /\ free[id] = EmptySheet /\ reserved[id] = EmptySheet
                      /\ permissions[id] = NoPermission
    BY DEF NothingBeforeCreation
  <2>1. id \in Nat /\ GenesisNextId \in Nat
    BY ConstantFacts, AssetIdAssumption
  <2>2. id \notin GenesisAssets /\ id \notin GenesisSymbols
    BY <2>1, GenesisAssumption DEF Init
  <2> QED
    BY <2>2 DEF Init, EmptySheet
<1> QED
  BY <1>1, <1>2, <1>3 DEF IInv

\* Nothing but the written maps matters to the two invariants.
LEMMA InvStutter ==
  ASSUME IInv, UNCHANGED <<created, issuance, free, reserved, permissions, symbols, nextAssetId>>
  PROVE  Conservation' /\ NothingBeforeCreation'
BY DEF IInv, Conservation, NothingBeforeCreation

\* The tail of create_asset, for an id that holds nothing: the sum of the new
\* asset is what was issued.
LEMMA InsertAssetInv ==
  ASSUME IInv, NEW id \in AssetIds, NEW account \in Accounts, NEW amount \in Balance,
         NEW perms, id >= nextAssetId \/ id \notin created,
         InsertAsset(id, account, amount, perms),
         \/ id < nextAssetId /\ nextAssetId' = nextAssetId /\ symbols' = symbols
         \/ id = nextAssetId /\ nextAssetId' = nextAssetId + 1 /\ symbols' = symbols \cup {id}
  PROVE  Conservation' /\ NothingBeforeCreation'
<1>1. issuance[id] = 0 /\ free[id] = EmptySheet /\ reserved[id] = EmptySheet
  BY DEF IInv, NothingBeforeCreation
<1>2. SumOf(SetBalance(free[id], account, amount)) = amount
  <2>1. EmptySheet \in Sheet /\ SumOf(EmptySheet) = 0 /\ EmptySheet[account] = 0
    BY SumEmpty DEF EmptySheet
  <2>2. SumOf(SetBalance(EmptySheet, account, amount)) = 0 - 0 + amount
    BY <2>1, SumUpdate
  <2>3. amount \in Nat
    BY ConstantFacts
  <2> QED
    BY <1>1, <2>2, <2>3
<1>3. Conservation'
  <2> SUFFICES ASSUME NEW x \in AssetIds
               PROVE  SumOf(free'[x]) + SumOf(reserved'[x]) = issuance'[x]
    BY DEF Conservation
  <2>1. CASE x = id
    <3>1. free'[x] = SetBalance(free[id], account, amount) /\ issuance'[x] = amount
          /\ reserved'[x] = EmptySheet
      BY <1>1, <2>1 DEF InsertAsset, IInv, TypeOK
    <3>2. amount \in Nat
      BY ConstantFacts
    <3> QED
      BY <1>2, <3>1, <3>2, SumEmpty
  <2>2. CASE x # id
    <3>1. free'[x] = free[x] /\ issuance'[x] = issuance[x] /\ reserved'[x] = reserved[x]
      BY <2>2 DEF InsertAsset, IInv, TypeOK
    <3> QED
      BY <3>1 DEF IInv, Conservation
  <2> QED
    BY <2>1, <2>2
<1>4. NothingBeforeCreation'
  <2> SUFFICES ASSUME NEW x \in AssetIds, x >= nextAssetId' \/ x \notin created'
               PROVE  /\ issuance'[x] = 0 /\ x \notin created' \cup symbols'
                      /\ free'[x] = EmptySheet /\ reserved'[x] = EmptySheet
                      /\ permissions'[x] = NoPermission
    BY DEF NothingBeforeCreation
  <2>1. x \in Nat /\ id \in Nat /\ nextAssetId \in Nat
    BY ConstantFacts DEF IInv, TypeOK
  <2>2. x # id
    BY <2>1 DEF InsertAsset
  <2>3. x >= nextAssetId \/ x \notin created
    BY <2>1, <2>2 DEF InsertAsset
  <2>4. /\ issuance[x] = 0 /\ x \notin created \cup symbols
        /\ free[x] = EmptySheet /\ reserved[x] = EmptySheet
        /\ permissions[x] = NoPermission
    BY <2>3 DEF IInv, NothingBeforeCreation
  <2> QED
    BY <2>2, <2>4 DEF InsertAsset, IInv, TypeOK
<1> QED
  BY <1>3, <1>4

\* A call that changes the balances of one asset only, by amounts that keep
\* free + reserved - issuance at zero, keeps both invariants; an asset that holds
\* nothing must not be the one changed.
LEMMA BalanceStepInv ==
  ASSUME IInv, NEW id \in AssetIds,
         \A x \in AssetIds \ {id} :
           free'[x] = free[x] /\ reserved'[x] = reserved[x] /\ issuance'[x] = issuance[x],
         SumOf(free'[id]) + SumOf(reserved'[id]) = issuance'[id],
         created \subseteq created' /\ created' \subseteq created \cup {id},
         permissions' = permissions, symbols' = symbols, nextAssetId' = nextAssetId,
         \/ id < nextAssetId /\ id \in created
         \/ free'[id] = free[id] /\ reserved'[id] = reserved[id]
             /\ issuance'[id] = issuance[id] /\ created' = created
  PROVE  Conservation' /\ NothingBeforeCreation'
<1>1. Conservation'
  BY DEF IInv, Conservation
<1>2. NothingBeforeCreation'
  <2> SUFFICES ASSUME NEW x \in AssetIds, x >= nextAssetId' \/ x \notin created'
               PROVE  /\ issuance'[x] = 0 /\ x \notin created' \cup symbols'
                      /\ free'[x] = EmptySheet /\ reserved'[x] = EmptySheet
                      /\ permissions'[x] = NoPermission
    BY DEF NothingBeforeCreation
  <2>1. x >= nextAssetId \/ x \notin created
    OBVIOUS
  <2>2. /\ issuance[x] = 0 /\ x \notin created \cup symbols
        /\ free[x] = EmptySheet /\ reserved[x] = EmptySheet
        /\ permissions[x] = NoPermission
    BY <2>1 DEF IInv, NothingBeforeCreation
  <2>3. CASE x = id /\ id < nextAssetId /\ id \in created
    <3>1. x \in Nat /\ nextAssetId \in Nat
      BY ConstantFacts DEF IInv, TypeOK
    <3> QED
      BY <2>1, <2>3, <3>1
  <2>4. CASE x = id /\ free'[id] = free[id] /\ reserved'[id] = reserved[id]
             /\ issuance'[id] = issuance[id] /\ created' = created
    BY <2>2, <2>4
  <2>5. CASE x # id
    BY <2>2, <2>5
  <2> QED
    BY <2>3, <2>4, <2>5
<1> QED
  BY <1>1, <1>2

\* An asset with an owner, or of which an account holds something, exists.
LEMMA OnlyCreatedIsUsed ==
  ASSUME IInv, NEW id \in AssetIds, NEW a \in Accounts,
         \/ free[id][a] # 0 \/ reserved[id][a] # 0
         \/ permissions[id].mint = a \/ permissions[id].burn = a \/ permissions[id].update = a
  PROVE  id < nextAssetId /\ id \in created
<1>1. id \in Nat /\ nextAssetId \in Nat /\ NoOwner # a
  BY ConstantFacts DEF IInv, TypeOK
<1>2. EmptySheet[a] = 0 /\ NoPermission.mint # a /\ NoPermission.burn # a /\ NoPermission.update # a
  BY <1>1 DEF EmptySheet, NoPermission
<1> QED
  BY <1>1, <1>2 DEF IInv, NothingBeforeCreation

\* reserve's and unreserve's arithmetic: coins move between the free and the
\* reserved sheet of one account and neither sum wraps.
LEMMA ReserveSums ==
  ASSUME IInv, NEW id \in AssetIds, NEW who \in Accounts, NEW amount \in Balance
  PROVE  /\ free[id][who] >= amount =>
              /\ Wrapped(free[id][who] - amount) = free[id][who] - amount
              /\ Wrapped(reserved[id][who] + amount) = reserved[id][who] + amount
              /\ SumOf(SetBalance(free[id], who, free[id][who] - amount))
                   + SumOf(SetBalance(reserved[id], who, reserved[id][who] + amount)) = issuance[id]
         /\ reserved[id][who] >= amount =>
              /\ Wrapped(free[id][who] + amount) = free[id][who] + amount
              /\ SumOf(SetBalance(free[id], who, free[id][who] + amount))
                   + SumOf(SetBalance(reserved[id], who, reserved[id][who] - amount)) = issuance[id]
<1>1. /\ free[id] \in Sheet /\ reserved[id] \in Sheet
      /\ free[id][who] \in Nat /\ reserved[id][who] \in Nat
      /\ SumOf(free[id]) \in Nat /\ SumOf(reserved[id]) \in Nat
      /\ SumOf(free[id]) + SumOf(reserved[id]) = issuance[id]
      /\ free[id][who] + reserved[id][who] <= MaxBalance
  BY SumsFit
<1>2. amount \in Nat /\ MaxBalance \in Nat
  BY ConstantFacts
<1>3. ASSUME free[id][who] >= amount
      PROVE  /\ free[id][who] - amount \in Balance /\ reserved[id][who] + amount \in Balance
             /\ Wrapped(free[id][who] - amount) = free[id][who] - amount
             /\ Wrapped(reserved[id][who] + amount) = reserved[id][who] + amount
  BY <1>1, <1>2, <1>3 DEF Wrapped, Balance
<1>4. ASSUME reserved[id][who] >= amount
      PROVE  /\ free[id][who] + amount \in Balance /\ reserved[id][who] - amount \in Balance
             /\ Wrapped(free[id][who] + amount) = free[id][who] + amount
  BY <1>1, <1>2, <1>4 DEF Wrapped, Balance
<1>5. \A n \in Balance :
        /\ SumOf(SetBalance(free[id], who, n)) = SumOf(free[id]) - free[id][who] + n
        /\ SumOf(SetBalance(reserved[id], who, n)) = SumOf(reserved[id]) - reserved[id][who] + n
  BY <1>1, SumUpdate
<1>6. ASSUME free[id][who] >= amount
      PROVE  SumOf(SetBalance(free[id], who, free[id][who] - amount))
               + SumOf(SetBalance(reserved[id], who, reserved[id][who] + amount)) = issuance[id]
  <2>1. SumOf(SetBalance(free[id], who, free[id][who] - amount)) = SumOf(free[id]) - amount
    BY <1>1, <1>2, <1>3, <1>5, <1>6
  <2>2. SumOf(SetBalance(reserved[id], who, reserved[id][who] + amount)) = SumOf(reserved[id]) + amount
    BY <1>1, <1>2, <1>3, <1>5, <1>6
  <2> QED
    BY <1>1, <1>2, <2>1, <2>2
<1>7. ASSUME reserved[id][who] >= amount
      PROVE  SumOf(SetBalance(free[id], who, free[id][who] + amount))
               + SumOf(SetBalance(reserved[id], who, reserved[id][who] - amount)) = issuance[id]
  <2>1. SumOf(SetBalance(free[id], who, free[id][who] + amount)) = SumOf(free[id]) + amount
    BY <1>1, <1>2, <1>4, <1>5, <1>7
  <2>2. SumOf(SetBalance(reserved[id], who, reserved[id][who] - amount)) = SumOf(reserved[id]) - amount
    BY <1>1, <1>2, <1>4, <1>5, <1>7
  <2> QED
    BY <1>1, <1>2, <2>1, <2>2
<1> QED
  BY <1>3, <1>4, <1>6, <1>7

\* Moving an amount between the two balances of one account, whichever way.
LEMMA ShiftInv ==
  ASSUME IInv, NEW id \in AssetIds, NEW who \in Accounts, NEW x \in Nat, NEW y \in Nat,
         free' = [free EXCEPT ![id] = SetBalance(@, who, x)],
         reserved' = [reserved EXCEPT ![id] = SetBalance(@, who, y)],
         SumOf(SetBalance(free[id], who, x)) + SumOf(SetBalance(reserved[id], who, y)) = issuance[id],
         x + y = free[id][who] + reserved[id][who],
         UNCHANGED <<created, issuance, permissions, symbols, nextAssetId>>
  PROVE  Conservation' /\ NothingBeforeCreation'
<1> DEFINE f == SetBalance(free[id], who, x)
           r == SetBalance(reserved[id], who, y)
<1>1. free'[id] = f /\ reserved'[id] = r
  BY DEF IInv, TypeOK
<1>2. \A z \in AssetIds \ {id} : free'[z] = free[z] /\ reserved'[z] = reserved[z]
  BY DEF IInv, TypeOK
<1>3. \/ id < nextAssetId /\ id \in created
      \/ f = free[id] /\ r = reserved[id]
  <2>1. free[id] \in Sheet /\ reserved[id] \in Sheet
        /\ free[id][who] \in Nat /\ reserved[id][who] \in Nat
    BY SumsFit
  <2>2. CASE free[id][who] # 0 \/ reserved[id][who] # 0
    BY <2>2, OnlyCreatedIsUsed
  <2>3. CASE free[id][who] = 0 /\ reserved[id][who] = 0
    <3>1. x = 0 /\ y = 0
      BY <2>3
    <3> QED
      BY <2>1, <2>3, <3>1 DEF SetBalance, Sheet
  <2> QED
    BY <2>2, <2>3
<1> HIDE DEF f, r
<1>4. SumOf(f) + SumOf(r) = issuance[id]
  BY DEF f, r
<1> QED
  BY <1>1, <1>2, <1>3, <1>4, BalanceStepInv

\* The tail of unreserve.
LEMMA ReleaseInv ==
  ASSUME IInv, NEW who \in Accounts, NEW id \in AssetIds, NEW amount \in Balance, NEW lid,
         reserved[id][who] >= amount, Release(who, id, amount, lid)
  PROVE  Conservation' /\ NothingBeforeCreation'
<1> DEFINE x == free[id][who] + amount
           y == reserved[id][who] - amount
<1>1. amount \in Nat /\ free[id][who] \in Nat /\ reserved[id][who] \in Nat
  BY ConstantFacts, SumsFit
<1>2. Wrapped(free[id][who] + amount) = x
      /\ SumOf(SetBalance(free[id], who, x)) + SumOf(SetBalance(reserved[id], who, y)) = issuance[id]
  BY ReserveSums
<1>3. x \in Nat /\ y \in Nat /\ x + y = free[id][who] + reserved[id][who]
  BY <1>1
<1>4. free' = [free EXCEPT ![id] = SetBalance(@, who, x)]
      /\ reserved' = [reserved EXCEPT ![id] = SetBalance(@, who, y)]
  BY <1>2 DEF Release, IInv, TypeOK
<1>5. UNCHANGED <<created, issuance, permissions, symbols, nextAssetId>>
  BY DEF Release
<1> HIDE DEF x, y
<1> QED
  BY <1>2, <1>3, <1>4, <1>5, ShiftInv

\* Every call keeps the conservation of every asset.
LEMMA InvStep == IInv /\ [Next]_vars => IInv'
<1> SUFFICES ASSUME IInv, [Next]_vars PROVE Conservation' /\ NothingBeforeCreation'
  BY TypeStep DEF IInv
<1>0. ASSUME NEW who, NEW error, Fails(who, error)
      PROVE  Conservation' /\ NothingBeforeCreation'
  BY <1>0, InvStutter DEF Fails, store
<1>1. ASSUME NEW amount \in Balance, Create(amount)
      PROVE  Conservation' /\ NothingBeforeCreation'
  <2>1. CASE \E error : Fails(Root, error)
    BY <2>1, <1>0
  <2>2. CASE /\ nextAssetId' = nextAssetId + 1
             /\ InsertAsset(nextAssetId, SudoKey, amount, OwnedBy(SudoKey))
             /\ symbols' = symbols \cup {nextAssetId}
    <3>1. nextAssetId \in AssetIds /\ SudoKey \in Accounts /\ nextAssetId >= nextAssetId
      BY ConstantFacts DEF IInv, TypeOK
    <3> QED
      BY <2>2, <3>1, InsertAssetInv
  <2> QED
    BY <1>1, <2>1, <2>2 DEF Create
<1>2. ASSUME NEW id \in AssetIds, NEW amount \in Balance, NEW perms,
             CreateReserved(id, amount, perms)
      PROVE  Conservation' /\ NothingBeforeCreation'
  <2>1. CASE \E error : Fails(Root, error)
    BY <2>1, <1>0
  <2>2. CASE /\ id \notin created /\ id < nextAssetId
             /\ InsertAsset(id, DefaultAccount, amount, perms)
             /\ UNCHANGED <<symbols, nextAssetId>>
    <3>1. DefaultAccount \in Accounts
      BY ConstantFacts
    <3> QED
      BY <2>2, <3>1, InsertAssetInv
  <2> QED
    BY <1>2, <2>1, <2>2 DEF CreateReserved
<1>3. ASSUME NEW who \in Accounts, NEW id \in AssetIds, NEW to \in Accounts,
             NEW amount \in Balance, Transfer(who, id, to, amount)
      PROVE  Conservation' /\ NothingBeforeCreation'
  <2>1. CASE \E error : Fails(who, error)
    BY <2>1, <1>0
  <2>2. CASE /\ amount # 0 /\ CanTransfer(free[id], who, amount)
             /\ free' = [free EXCEPT ![id] = AfterTransfer(@, who, to, amount)]
             /\ UNCHANGED <<created, issuance, reserved, permissions, symbols, nextAssetId>>
    <3> DEFINE f == AfterTransfer(free[id], who, to, amount)
    <3>1. /\ free[id] \in Sheet /\ SumOf(free[id]) <= MaxBalance
          /\ free[id][who] \in Nat /\ amount \in Nat
          /\ SumOf(free[id]) + SumOf(reserved[id]) = issuance[id]
      BY SumsFit, ConstantFacts
    <3>2. SumOf(f) = SumOf(free[id])
      BY <2>2, <3>1, TransferKeepsSum
    <3>3. free[id][who] # 0
      BY <2>2, <3>1 DEF CanTransfer
    <3>4. id < nextAssetId /\ id \in created
      BY <3>3, OnlyCreatedIsUsed
    <3>5. /\ free'[id] = f /\ reserved'[id] = reserved[id]
          /\ issuance'[id] = issuance[id]
          /\ \A z \in AssetIds \ {id} :
               free'[z] = free[z] /\ reserved'[z] = reserved[z] /\ issuance'[z] = issuance[z]
      BY <2>2 DEF IInv, TypeOK
    <3> HIDE DEF f
    <3>6. SumOf(f) + SumOf(reserved[id]) = issuance[id]
      BY <3>1, <3>2
    <3> QED
      BY <2>2, <3>4, <3>5, <3>6, BalanceStepInv
  <2> QED
    BY <1>3, <2>1, <2>2 DEF Transfer
<1>4. ASSUME NEW who \in Accounts, NEW id \in AssetIds, NEW perms,
             UpdatePermission(who, id, perms)
      PROVE  Conservation' /\ NothingBeforeCreation'
  <2>1. CASE \E error : Fails(who, error)
    BY <2>1, <1>0
  <2>2. CASE /\ permissions[id].update = who
             /\ permissions' = [permissions EXCEPT ![id] = perms]
             /\ UNCHANGED <<created, issuance, free, reserved, symbols, nextAssetId>>
    <3>1. id < nextAssetId /\ id \in created
      BY <2>2, OnlyCreatedIsUsed
    <3>2. id \in Nat /\ nextAssetId \in Nat
      BY ConstantFacts DEF IInv, TypeOK
    <3>3. Conservation'
      BY <2>2 DEF IInv, Conservation
    <3>4. NothingBeforeCreation'
      BY <2>2, <3>1, <3>2 DEF IInv, NothingBeforeCreation, TypeOK
    <3> QED
      BY <3>3, <3>4
  <2> QED
    BY <1>4, <2>1, <2>2 DEF UpdatePermission
<1>5. ASSUME NEW who \in Accounts, NEW id \in AssetIds, NEW to \in Accounts,
             NEW amount \in Balance, Mint(who, id, to, amount)
      PROVE  Conservation' /\ NothingBeforeCreation'
  <2>1. CASE \E error : Fails(who, error)
    BY <2>1, <1>0
  <2>2. CASE /\ MintOutcome(id, who, to, amount) = "Ok"
             /\ created' = created \cup {id}
             /\ issuance' = [issuance EXCEPT ![id] = @ + amount]
             /\ free' = [free EXCEPT ![id] = SetBalance(@, to, @[to] + amount)]
             /\ UNCHANGED <<reserved, permissions, symbols, nextAssetId>>
    <3> DEFINE n == free[id][to] + amount
               f == SetBalance(free[id], to, n)
    <3>1. /\ free[id] \in Sheet /\ free[id][to] \in Nat /\ amount \in Nat
          /\ SumOf(free[id]) \in Nat /\ SumOf(reserved[id]) \in Nat
          /\ SumOf(free[id]) + SumOf(reserved[id]) = issuance[id]
      BY SumsFit, ConstantFacts
    <3>2. permissions[id].mint = who /\ ~(n > MaxBalance)
      BY <2>2 DEF MintOutcome
    <3>3. n \in Balance
      BY <3>1, <3>2, ConstantFacts
    <3>4. SumOf(f) = SumOf(free[id]) - free[id][to] + n
      BY <3>1, <3>3, SumUpdate
    <3>5. id < nextAssetId /\ id \in created
      BY <3>2, OnlyCreatedIsUsed
    <3>6. SumOf(f) + SumOf(reserved[id]) = issuance[id] + amount
      BY <3>1, <3>4
    <3>7. /\ free'[id] = f /\ reserved'[id] = reserved[id]
          /\ issuance'[id] = issuance[id] + amount
          /\ \A z \in AssetIds \ {id} :
               free'[z] = free[z] /\ reserved'[z] = reserved[z] /\ issuance'[z] = issuance[z]
      BY <2>2 DEF IInv, TypeOK
    <3> HIDE DEF f
    <3> QED
      BY <2>2, <3>5, <3>6, <3>7, BalanceStepInv
  <2> QED
    BY <1>5, <2>1, <2>2 DEF Mint
<1>6. ASSUME NEW who \in Accounts, NEW id \in AssetIds, NEW to \in Accounts,
             NEW amount \in Balance, Burn(who, id, to, amount)
      PROVE  Conservation' /\ NothingBeforeCreation'
  <2>1. CASE \E error : Fails(who, error)
    BY <2>1, <1>0
  <2>2. CASE /\ BurnOutcome(id, who, to, amount) = "Ok"
             /\ created' = created \cup {id}
             /\ issuance' = [issuance EXCEPT ![id] = @ - amount]
             /\ free' = [free EXCEPT ![id] = SetBalance(@, to, @[to] - amount)]
             /\ UNCHANGED <<reserved, permissions, symbols, nextAssetId>>
    <3> DEFINE n == free[id][to] - amount
               f == SetBalance(free[id], to, n)
    <3>1. /\ free[id] \in Sheet /\ free[id][to] \in Nat /\ amount \in Nat
          /\ SumOf(free[id]) \in Nat /\ SumOf(reserved[id]) \in Nat
          /\ SumOf(free[id]) + SumOf(reserved[id]) = issuance[id]
          /\ free[id][to] + reserved[id][to] <= MaxBalance
          /\ reserved[id][to] \in Nat
      BY SumsFit, ConstantFacts
    <3>2. permissions[id].burn = who /\ ~(free[id][to] < amount)
      BY <2>2 DEF BurnOutcome
    <3>3. n \in Balance
      BY <3>1, <3>2, ConstantFacts
    <3>4. SumOf(f) = SumOf(free[id]) - free[id][to] + n
      BY <3>1, <3>3, SumUpdate
    <3>5. id < nextAssetId /\ id \in created
      BY <3>2, OnlyCreatedIsUsed
    <3>6. SumOf(f) + SumOf(reserved[id]) = issuance[id] - amount
      BY <3>1, <3>4
    <3>7. /\ free'[id] = f /\ reserved'[id] = reserved[id]
          /\ issuance'[id] = issuance[id] - amount
          /\ \A z \in AssetIds \ {id} :
               free'[z] = free[z] /\ reserved'[z] = reserved[z] /\ issuance'[z] = issuance[z]
      BY <2>2 DEF IInv, TypeOK
    <3> HIDE DEF f
    <3> QED
      BY <2>2, <3>5, <3>6, <3>7, BalanceStepInv
  <2> QED
    BY <1>6, <2>1, <2>2 DEF Burn
<1>7. ASSUME NEW who \in Accounts, NEW id \in AssetIds, NEW amount \in Balance,
             Reserve(who, id, amount)
      PROVE  Conservation' /\ NothingBeforeCreation'
  <2>1. CASE \E error : Fails(who, error)
    BY <2>1, <1>0
  <2>2. CASE /\ free[id][who] >= amount
             /\ reserved' = [reserved EXCEPT ![id] = SetBalance(@, who, Wrapped(@[who] + amount))]
             /\ free' = [free EXCEPT ![id] = SetBalance(@, who, Wrapped(@[who] - amount))]
             /\ UNCHANGED <<created, issuance, permissions, symbols, nextAssetId>>
    <3> DEFINE x == free[id][who] - amount
               y == reserved[id][who] + amount
    <3>1. amount \in Nat /\ free[id][who] \in Nat /\ reserved[id][who] \in Nat
      BY ConstantFacts, SumsFit
    <3>2. /\ Wrapped(free[id][who] - amount) = x
          /\ Wrapped(reserved[id][who] + amount) = y
          /\ SumOf(SetBalance(free[id], who, x)) + SumOf(SetBalance(reserved[id], who, y)) = issuance[id]
      BY <2>2, ReserveSums
    <3>3. x \in Nat /\ y \in Nat /\ x + y = free[id][who] + reserved[id][who]
      BY <2>2, <3>1
    <3>4. free' = [free EXCEPT ![id] = SetBalance(@, who, x)]
          /\ reserved' = [reserved EXCEPT ![id] = SetBalance(@, who, y)]
      BY <2>2, <3>2 DEF IInv, TypeOK
    <3>5. UNCHANGED <<created, issuance, permissions, symbols, nextAssetId>>
      BY <2>2
    <3> HIDE DEF x, y
    <3> QED
      BY <3>2, <3>3, <3>4, <3>5, ShiftInv
  <2> QED
    BY <1>7, <2>1, <2>2 DEF Reserve
<1>8. ASSUME NEW who \in Accounts, NEW id \in AssetIds, NEW amount \in Balance,
             NEW lid, UnreserveLock(who, id, amount, lid)
      PROVE  Conservation' /\ NothingBeforeCreation'
  BY <1>8, <1>0, ReleaseInv DEF UnreserveLock
<1>9. ASSUME NEW who \in Accounts, NEW id \in AssetIds, NEW amount \in Balance,
             UnreserveAmount(who, id, amount)
      PROVE  Conservation' /\ NothingBeforeCreation'
  BY <1>9, <1>0, ReleaseInv DEF UnreserveAmount
<1>10. CASE UNCHANGED vars
  BY <1>10, InvStutter DEF vars
<1> QED
  BY <1>1, <1>2, <1>3, <1>4, <1>5, <1>6, <1>7, <1>8, <1>9, <1>10 DEF Next

LEMMA Invariance == Spec => []IInv
<1>1. Init => IInv
  BY InvInit
<1>2. IInv /\ [Next]_vars => IInv'
  BY InvStep
<1> QED
  BY <1>1, <1>2, PTL DEF Spec

\* Whatever sequence of calls, each asset's free and reserved balances add up to
\* its TotalIssuance: no unchecked `+=` on a balance ever wraps.
THEOREM AssetsConserved == Spec => []Conservation
<1>1. IInv => Conservation
  BY DEF IInv
<1> QED
  BY <1>1, Invariance, PTL

\* create and create_reserved never overwrite money or an owner: an id that is
\* not created, or not handed out yet, holds nothing.
THEOREM NothingOverwritten == Spec => []NothingBeforeCreation
<1>1. IInv => NothingBeforeCreation
  BY DEF IInv
<1> QED
  BY <1>1, Invariance, PTL

-----------------------------------------------------------------------------
(***************************************************************************)
(* Who may do what: no call costs an account anything but its own and the  *)
(* burn owner's, none but the mint owner's adds to an asset, and the       *)
(* permissions are the update owner's.                                     *)
(***************************************************************************)
AuthorisedAt(id) ==
  /\ \A a \in Accounts : Holding(id, a)' < Holding(id, a) =>
       caller' = a \/ caller' = permissions[id].burn
  /\ id \in created /\ issuance'[id] > issuance[id] => caller' = permissions[id].mint

\* Where the issuance stands and only the caller's holding falls, nothing is to be asked.
LEMMA NothingLost ==
  ASSUME IInv, NEW id \in AssetIds, issuance'[id] = issuance[id] \/ id \notin created,
         \A a \in Accounts :
           caller' = a \/ free'[id][a] + reserved'[id][a] >= free[id][a] + reserved[id][a],
         IInv'
  PROVE  AuthorisedAt(id)
<1>1. issuance[id] \in Nat
  BY SumsFit, ConstantFacts
<1>2. \A a \in Accounts : free[id][a] \in Nat /\ reserved[id][a] \in Nat
  BY SumsFit
<1>3. \A a \in Accounts : free'[id][a] \in Nat /\ reserved'[id][a] \in Nat
  BY ConstantFacts DEF IInv, TypeOK, Sheet
<1>4. \A a \in Accounts : caller' = a \/ ~(Holding(id, a)' < Holding(id, a))
  BY <1>2, <1>3 DEF Holding
<1> QED
  BY <1>1, <1>4 DEF AuthorisedAt

\* A call that leaves an asset alone takes nothing of it.
LEMMA NothingTouched ==
  ASSUME IInv, IInv', NEW id \in AssetIds, issuance'[id] = issuance[id],
         free'[id] = free[id], reserved'[id] = reserved[id]
  PROVE  AuthorisedAt(id)
<1>1. \A a \in Accounts : free[id][a] \in Nat /\ reserved[id][a] \in Nat
  BY SumsFit
<1> QED
  BY <1>1, NothingLost

\* The tail of create_asset takes nothing from anyone, as the id held nothing.
LEMMA InsertAssetTakesNothing ==
  ASSUME IInv, IInv', NEW id \in AssetIds, NEW account \in Accounts, NEW amount \in Balance,
         NEW perms, id >= nextAssetId \/ id \notin created,
         InsertAsset(id, account, amount, perms), NEW x \in AssetIds
  PROVE  AuthorisedAt(x)
<1>1. CASE x = id
  <2>1. id \notin created /\ free[id] = EmptySheet /\ reserved[id] = EmptySheet
    BY DEF IInv, NothingBeforeCreation
  <2>2. \A a \in Accounts : free'[id][a] \in Nat /\ reserved'[id][a] \in Nat
    BY ConstantFacts DEF IInv, TypeOK, Sheet
  <2>3. \A a \in Accounts : free[id][a] = 0 /\ reserved[id][a] = 0
    BY <2>1 DEF EmptySheet
  <2> QED
    BY <1>1, <2>1, <2>2, <2>3, NothingLost
<1>2. CASE x # id
  <2>1. free'[x] = free[x] /\ issuance'[x] = issuance[x] /\ reserved'[x] = reserved[x]
    BY <1>2 DEF InsertAsset, IInv, TypeOK
  <2> QED
    BY <2>1, NothingTouched
<1> QED
  BY <1>1, <1>2

\* reserve and unreserve change no issuance and no account's free + reserved.
HoldingsKept ==
  /\ issuance' = issuance
  /\ \A x \in AssetIds, a \in Accounts :
       free'[x][a] + reserved'[x][a] = free[x][a] + reserved[x][a]

LEMMA ReserveKeepsHoldings ==
  ASSUME IInv, NEW who \in Accounts, NEW id \in AssetIds, NEW amount \in Balance,
         Reserve(who, id, amount)
  PROVE  HoldingsKept
<1>1. CASE \E error : Fails(who, error)
  BY <1>1 DEF Fails, store, HoldingsKept
<1>2. CASE /\ free[id][who] >= amount
           /\ reserved' = [reserved EXCEPT ![id] = SetBalance(@, who, Wrapped(@[who] + amount))]
           /\ free' = [free EXCEPT ![id] = SetBalance(@, who, Wrapped(@[who] - amount))]
           /\ UNCHANGED issuance
  <2>1. amount \in Nat /\ free[id][who] \in Nat /\ reserved[id][who] \in Nat
        /\ Wrapped(free[id][who] - amount) = free[id][who] - amount
        /\ Wrapped(reserved[id][who] + amount) = reserved[id][who] + amount
    BY <1>2, ConstantFacts, SumsFit, ReserveSums
  <2>2. \A x \in AssetIds, a \in Accounts :
          /\ free'[x][a] = IF x = id /\ a = who THEN free[id][who] - amount ELSE free[x][a]
          /\ reserved'[x][a] = IF x = id /\ a = who THEN reserved[id][who] + amount ELSE reserved[x][a]
    BY <1>2, <2>1 DEF SetBalance, IInv, TypeOK, Sheet
  <2> QED
    BY <1>2, <2>1, <2>2 DEF HoldingsKept
<1> QED
  BY <1>1, <1>2 DEF Reserve

LEMMA ReleaseKeepsHoldings ==
  ASSUME IInv, NEW who \in Accounts, NEW id \in AssetIds, NEW amount \in Balance, NEW lid,
         reserved[id][who] >= amount, Release(who, id, amount, lid)
  PROVE  HoldingsKept
<1>1. amount \in Nat /\ free[id][who] \in Nat /\ reserved[id][who] \in Nat
      /\ Wrapped(free[id][who] + amount) = free[id][who] + amount
  BY ConstantFacts, SumsFit, ReserveSums
<1>2. \A x \in AssetIds, a \in Accounts :
        /\ free'[x][a] = IF x = id /\ a = who THEN free[id][who] + amount ELSE free[x][a]
        /\ reserved'[x][a] = IF x = id /\ a = who THEN reserved[id][who] - amount ELSE reserved[x][a]
  BY <1>1 DEF Release, SetBalance, IInv, TypeOK, Sheet
<1> QED
  BY <1>1, <1>2 DEF Release, HoldingsKept

\* Every call takes only what its origin may take.
LEMMA AuthorisedStep ==
  ASSUME IInv, IInv', Next, NEW x \in AssetIds
  PROVE  AuthorisedAt(x)
<1>0. ASSUME UNCHANGED <<issuance, free, reserved>>
      PROVE  AuthorisedAt(x)
  BY <1>0, NothingTouched
<1>1. ASSUME NEW who, NEW error, Fails(who, error)
      PROVE  AuthorisedAt(x)
  BY <1>0, <1>1 DEF Fails, store
<1>2. ASSUME HoldingsKept
      PROVE  AuthorisedAt(x)
  <2>1. \A a \in Accounts : free[x][a] \in Nat /\ reserved[x][a] \in Nat
    BY SumsFit
  <2>2. issuance'[x] = issuance[x]
        /\ \A a \in Accounts : free'[x][a] + reserved'[x][a] = free[x][a] + reserved[x][a]
    BY <1>2 DEF HoldingsKept
  <2> QED
    BY <2>1, <2>2, NothingLost
<1>3. ASSUME NEW amount \in Balance, Create(amount)
      PROVE  AuthorisedAt(x)
  <2>1. nextAssetId \in AssetIds /\ nextAssetId >= nextAssetId /\ SudoKey \in Accounts
    BY ConstantFacts DEF IInv, TypeOK
  <2>2. CASE InsertAsset(nextAssetId, SudoKey, amount, OwnedBy(SudoKey))
    BY <2>1, <2>2, InsertAssetTakesNothing
  <2> QED
    BY <1>1, <1>3, <2>2 DEF Create
<1>4. ASSUME NEW id \in AssetIds, NEW amount \in Balance, NEW perms,
             CreateReserved(id, amount, perms)
      PROVE  AuthorisedAt(x)
  <2>1. DefaultAccount \in Accounts
    BY ConstantFacts
  <2>2. CASE id \notin created /\ InsertAsset(id, DefaultAccount, amount, perms)
    BY <2>1, <2>2, InsertAssetTakesNothing
  <2> QED
    BY <1>1, <1>4, <2>2 DEF CreateReserved
<1>5. ASSUME NEW who \in Accounts, NEW id \in AssetIds, NEW to \in Accounts,
             NEW amount \in Balance, Transfer(who, id, to, amount)
      PROVE  AuthorisedAt(x)
  <2>1. CASE /\ CanTransfer(free[id], who, amount)
             /\ free' = [free EXCEPT ![id] = AfterTransfer(@, who, to, amount)]
             /\ UNCHANGED <<issuance, reserved>>
             /\ Succeeds(who)
    <3>1. /\ free[id] \in Sheet /\ SumOf(free[id]) <= MaxBalance /\ amount \in Nat
          /\ \A a \in Accounts : free[id][a] \in Nat /\ reserved[id][a] \in Nat
      BY SumsFit, ConstantFacts
    <3>2. who # to => AfterTransfer(free[id], who, to, amount)
                        = [free[id] EXCEPT ![who] = @ - amount, ![to] = @ + amount]
      BY <2>1, <3>1, TransferKeepsSum
    <3>3. \A a \in Accounts : a = who \/ AfterTransfer(free[id], who, to, amount)[a] >= free[id][a]
      BY <3>1, <3>2 DEF AfterTransfer, Sheet
    <3>4. free'[id] = AfterTransfer(free[id], who, to, amount) /\ (x # id => free'[x] = free[x])
      BY <2>1 DEF IInv, TypeOK
    <3>5. caller' = who /\ reserved'[x] = reserved[x] /\ issuance'[x] = issuance[x]
      BY <2>1 DEF Succeeds
    <3>6. CASE x = id
      <4>1. \A a \in Accounts : free'[id][a] \in Nat
        BY ConstantFacts DEF IInv, TypeOK, Sheet
      <4> QED
        BY <3>1, <3>3, <3>4, <3>5, <3>6, <4>1, NothingLost
    <3>7. CASE x # id
      BY <3>4, <3>5, <3>7, NothingTouched
    <3> QED
      BY <3>6, <3>7
  <2> QED
    BY <1>1, <1>5, <2>1 DEF Transfer
<1>6. ASSUME NEW who, NEW id \in AssetIds, NEW perms, UpdatePermission(who, id, perms)
      PROVE  AuthorisedAt(x)
  BY <1>0, <1>1, <1>6 DEF UpdatePermission
<1>7. ASSUME NEW who \in Accounts, NEW id \in AssetIds, NEW to \in Accounts,
             NEW amount \in Balance, Mint(who, id, to, amount)
      PROVE  AuthorisedAt(x)
  <2>1. CASE /\ MintOutcome(id, who, to, amount) = "Ok"
             /\ issuance' = [issuance EXCEPT ![id] = @ + amount]
             /\ free' = [free EXCEPT ![id] = SetBalance(@, to, @[to] + amount)]
             /\ UNCHANGED reserved
             /\ Succeeds(who)
    <3>1. caller' = who /\ permissions[id].mint = who
      BY <2>1 DEF MintOutcome, Succeeds
    <3>2. CASE x = id
      <4>1. \A a \in Accounts : free[id][a] \in Nat /\ reserved[id][a] \in Nat /\ amount \in Nat
        BY SumsFit, ConstantFacts
      <4>2. \A a \in Accounts : free'[id][a] = IF a = to THEN free[id][to] + amount ELSE free[id][a]
        BY <2>1 DEF IInv, TypeOK, SetBalance, Sheet
      <4>3. \A a \in Accounts : ~(Holding(id, a)' < Holding(id, a))
        BY <2>1, <4>1, <4>2 DEF Holding
      <4> QED
        BY <3>1, <3>2, <4>3 DEF AuthorisedAt
    <3>3. CASE x # id
      <4>1. free'[x] = free[x] /\ issuance'[x] = issuance[x] /\ reserved'[x] = reserved[x]
        BY <2>1, <3>3 DEF IInv, TypeOK
      <4> QED
        BY <4>1, NothingTouched
    <3> QED
      BY <3>2, <3>3
  <2> QED
    BY <1>1, <1>7, <2>1 DEF Mint
<1>8. ASSUME NEW who \in Accounts, NEW id \in AssetIds, NEW to \in Accounts,
             NEW amount \in Balance, Burn(who, id, to, amount)
      PROVE  AuthorisedAt(x)
  <2>1. CASE /\ BurnOutcome(id, who, to, amount) = "Ok"
             /\ issuance' = [issuance EXCEPT ![id] = @ - amount]
             /\ free' = [free EXCEPT ![id] = SetBalance(@, to, @[to] - amount)]
             /\ UNCHANGED reserved
             /\ Succeeds(who)
    <3>1. caller' = who /\ permissions[id].burn = who
      BY <2>1 DEF BurnOutcome, Succeeds
    <3>2. CASE x = id
      <4>1. issuance[id] \in Nat /\ amount \in Nat
        BY SumsFit, ConstantFacts
      <4>2. issuance'[id] = issuance[id] - amount
        BY <2>1 DEF IInv, TypeOK
      <4> QED
        BY <3>1, <3>2, <4>1, <4>2 DEF AuthorisedAt
    <3>3. CASE x # id
      <4>1. free'[x] = free[x] /\ issuance'[x] = issuance[x] /\ reserved'[x] = reserved[x]
        BY <2>1, <3>3 DEF IInv, TypeOK
      <4> QED
        BY <4>1, NothingTouched
    <3> QED
      BY <3>2, <3>3
  <2> QED
    BY <1>1, <1>8, <2>1 DEF Burn
<1>9. ASSUME NEW who \in Accounts, NEW id \in AssetIds, NEW amount \in Balance,
             Reserve(who, id, amount)
      PROVE  AuthorisedAt(x)
  BY <1>2, <1>9, ReserveKeepsHoldings
<1>10. ASSUME NEW who \in Accounts, NEW id \in AssetIds, NEW amount \in Balance,
             NEW lid, UnreserveLock(who, id, amount, lid)
      PROVE  AuthorisedAt(x)
  BY <1>1, <1>2, <1>10, ReleaseKeepsHoldings DEF UnreserveLock
<1>11. ASSUME NEW who \in Accounts, NEW id \in AssetIds, NEW amount \in Balance,
             UnreserveAmount(who, id, amount)
      PROVE  AuthorisedAt(x)
  BY <1>1, <1>2, <1>11, ReleaseKeepsHoldings DEF UnreserveAmount
<1> QED
  BY <1>3, <1>4, <1>5, <1>6, <1>7, <1>8, <1>9, <1>10, <1>11 DEF Next

\* Whatever is called in whatever order, an account loses only by its own call or the
\* burn owner's, and an asset that exists grows only by its mint owner's.
THEOREM OnlyOwnersTake == Spec => OnlyAuthorisedLoss
<1>1. IInv /\ [Next]_vars => IInv'
  BY InvStep
<1>2. IInv /\ IInv' /\ [Next]_vars => [\A id \in AssetIds : AuthorisedAt(id)]_vars
  BY AuthorisedStep
<1> QED
  BY <1>1, <1>2, Invariance, PTL DEF Spec, OnlyAuthorisedLoss, AuthorisedAt

\* The permissions of an asset that exists are replaced by its update owner only, so
\* they are final once it has none: create and create_reserved, which write them too,
\* never meet an asset that exists.
THEOREM RenouncedStays == Spec => RenouncedIsFinal
<1> DEFINE Final ==
      \A id \in created : permissions'[id] # permissions[id] => caller' = permissions[id].update
<1>1. ASSUME IInv, Next PROVE Final
  <2> SUFFICES ASSUME NEW x \in created, permissions'[x] # permissions[x]
               PROVE  caller' = permissions[x].update
    OBVIOUS
  <2>0. x \in AssetIds /\ x < nextAssetId /\ permissions \in [AssetIds -> Permission]
    <3>0. TypeOK
      BY <1>1 DEF IInv
    <3>1. x \in AssetIds /\ nextAssetId \in Nat /\ permissions \in [AssetIds -> Permission]
      <4>1. x \in AssetIds
        BY <3>0 DEF TypeOK
      <4>2. nextAssetId \in Nat
        BY <3>0, ConstantFacts DEF TypeOK
      <4> QED
        BY <3>0, <4>1, <4>2 DEF TypeOK
    <3>2. ~(x >= nextAssetId)
      BY <1>1, <3>1 DEF IInv, NothingBeforeCreation
    <3> QED
      BY <3>1, <3>2, ConstantFacts
  <2>1. \A who, error : ~Fails(who, error)
    BY DEF Fails, store
  <2>2. ASSUME NEW id \in AssetIds, NEW account, NEW amount, NEW perms,
               InsertAsset(id, account, amount, perms)
        PROVE  x = id
    BY <2>0, <2>2 DEF InsertAsset
  <2>3. ASSUME NEW amount \in Balance, Create(amount) PROVE FALSE
    <3>1. InsertAsset(nextAssetId, SudoKey, amount, OwnedBy(SudoKey)) /\ nextAssetId \in AssetIds
      <4>1. nextAssetId \in AssetIds
        BY <1>1 DEF IInv, TypeOK
      <4> QED
        BY <2>1, <2>3, <4>1 DEF Create
    <3>2. x = nextAssetId
      BY <2>2, <3>1
    <3> QED
      BY <2>0, <3>2, ConstantFacts
  <2>4. ASSUME NEW id \in AssetIds, NEW amount \in Balance, NEW perms,
               CreateReserved(id, amount, perms)
        PROVE  FALSE
    BY <2>1, <2>2, <2>4 DEF CreateReserved
  <2>5. ASSUME NEW who, NEW id \in AssetIds, NEW to, NEW amount,
               Transfer(who, id, to, amount) \/ Mint(who, id, to, amount) \/ Burn(who, id, to, amount)
        PROVE  FALSE
    BY <2>1, <2>5 DEF Transfer, Mint, Burn
  <2>6. ASSUME NEW who, NEW id \in AssetIds, NEW amount, NEW lid,
               \/ Reserve(who, id, amount) \/ UnreserveAmount(who, id, amount)
               \/ UnreserveLock(who, id, amount, lid)
        PROVE  FALSE
    BY <2>1, <2>6 DEF Reserve, UnreserveAmount, UnreserveLock, Release
  <2>7. ASSUME NEW who, NEW id \in AssetIds, NEW perms, UpdatePermission(who, id, perms)
        PROVE  caller' = permissions[x].update
    <3>1. permissions' = [permissions EXCEPT ![id] = perms] /\ permissions[id].update = who /\ caller' = who
      BY <2>1, <2>7 DEF UpdatePermission, Succeeds
    <3>2. x = id
      BY <2>0, <3>1
    <3> QED
      BY <3>1, <3>2
  <2> QED
    BY <1>1, <2>3, <2>4, <2>5, <2>6, <2>7 DEF Next
<1>2. IInv /\ [Next]_vars => [Final]_vars
  BY <1>1
<1> QED
  BY <1>2, Invariance, PTL DEF Spec, RenouncedIsFinal

-----------------------------------------------------------------------------
(***************************************************************************)
(* Locks. An id is handed out once, so it is known which lock is released; *)
(* then an account's locks add up to what it has reserved.                 *)
(***************************************************************************)

\* Where a list without its k-th element has its elements from.
Beyond(k, i) == IF i < k THEN i ELSE i + 1

\* remove_lock takes out one lock of the id, and moves the later ones up.
LEMMA LockRemoved ==
  ASSUME NEW list \in Seq(Lock), NEW lid \in LockIds(list)
  PROVE  \E k \in DOMAIN list :
           /\ list[k].id = lid
           /\ DOMAIN WithoutLock(list, lid) = 1..(Len(list) - 1)
           /\ \A i \in 1..(Len(list) - 1) : /\ Beyond(k, i) \in DOMAIN list \ {k}
                                             /\ WithoutLock(list, lid)[i] = list[Beyond(k, i)]
           /\ \A i, j \in 1..(Len(list) - 1) : Beyond(k, i) = Beyond(k, j) => i = j
           /\ \A j \in DOMAIN list \ {k} : \E i \in 1..(Len(list) - 1) : Beyond(k, i) = j
<1> DEFINE S == {i \in DOMAIN list : list[i].id = lid}
           k == FirstOf(S)
           n == Len(list)
<1>1. n \in Nat /\ DOMAIN list = 1..n /\ S \subseteq 1..n /\ S # {}
  BY DEF LockIds
<1>2. k \in S
  BY <1>1, FirstOfIsLeast
<1>3. k \in 1..n /\ list[k].id = lid
  BY <1>1, <1>2
<1>4. WithoutLock(list, lid) = [i \in 1..(n - 1) |-> IF i < k THEN list[i] ELSE list[i + 1]]
  BY DEF WithoutLock
<1> HIDE DEF S, k, n
<1>5. \A i \in 1..(n - 1) : /\ Beyond(k, i) \in DOMAIN list \ {k}
                            /\ WithoutLock(list, lid)[i] = list[Beyond(k, i)]
  BY <1>1, <1>3, <1>4 DEF Beyond
<1>6. \A i, j \in 1..(n - 1) : Beyond(k, i) = Beyond(k, j) => i = j
  BY <1>1, <1>3 DEF Beyond
<1>7. \A j \in DOMAIN list \ {k} : \E i \in 1..(n - 1) : Beyond(k, i) = j
  <2> SUFFICES ASSUME NEW j \in DOMAIN list \ {k} PROVE \E i \in 1..(n - 1) : Beyond(k, i) = j
    OBVIOUS
  <2>1. CASE j < k
    <3>1. j \in 1..(n - 1) /\ Beyond(k, j) = j
      BY <1>1, <1>3, <2>1 DEF Beyond
    <3> QED
      BY <3>1
  <2>2. CASE j > k
    <3>1. j - 1 \in 1..(n - 1) /\ Beyond(k, j - 1) = j
      BY <1>1, <1>3, <2>2 DEF Beyond
    <3> QED
      BY <3>1
  <2>3. j < k \/ j > k
    BY <1>1, <1>3
  <2> QED
    BY <2>1, <2>2, <2>3
<1>8. DOMAIN WithoutLock(list, lid) = 1..(n - 1)
  BY <1>4
<1> QED
  BY <1>1, <1>3, <1>5, <1>6, <1>7, <1>8 DEF n

-----------------------------------------------------------------------------
\* A step that drops a lock keeps the ids of the others, wherever they move to.
LEMMA DroppedIsUnique ==
  ASSUME TypeOK, LockIdsUnique, nextLockId' = nextLockId,
         NEW id \in AssetIds, NEW who \in Accounts, NEW lid \in LockIds(locks[id][who]),
         locks' = [locks EXCEPT ![id][who] = WithoutLock(@, lid)]
  PROVE  LockIdsUnique'
<1> DEFINE list == locks[id][who]
           n == Len(list)
<1>1. list \in Seq(Lock) /\ locks \in [AssetIds -> [Accounts -> Seq(Lock)]]
  BY DEF TypeOK
<1>2. PICK k \in DOMAIN list :
           /\ DOMAIN WithoutLock(list, lid) = 1..(n - 1)
           /\ \A i \in 1..(n - 1) : /\ Beyond(k, i) \in DOMAIN list
                                    /\ WithoutLock(list, lid)[i] = list[Beyond(k, i)]
           /\ \A i, j \in 1..(n - 1) : Beyond(k, i) = Beyond(k, j) => i = j
  BY <1>1, LockRemoved
<1> DEFINE from(x, a, i) == IF x = id /\ a = who THEN Beyond(k, i) ELSE i
<1>3. locks'[id][who] = WithoutLock(list, lid)
      /\ \A x \in AssetIds, a \in Accounts : x # id \/ a # who => locks'[x][a] = locks[x][a]
  BY <1>1
<1> HIDE DEF list
<1>4. \A x \in AssetIds, a \in Accounts : \A i \in DOMAIN locks'[x][a] :
        /\ from(x, a, i) \in DOMAIN locks[x][a]
        /\ locks'[x][a][i] = locks[x][a][from(x, a, i)]
  BY <1>2, <1>3 DEF list
<1>5. \A x \in AssetIds, a \in Accounts : \A i, j \in DOMAIN locks'[x][a] :
        from(x, a, i) = from(x, a, j) => i = j
  BY <1>2, <1>3 DEF list
<1> HIDE DEF from
<1>6. \A x \in AssetIds, a \in Accounts : \A i \in DOMAIN locks'[x][a] :
        locks'[x][a][i].id \in 1..(nextLockId' - 1)
  BY <1>4 DEF LockIdsUnique
<1>7. ASSUME NEW x1 \in AssetIds, NEW x2 \in AssetIds, NEW a1 \in Accounts, NEW a2 \in Accounts,
             NEW i \in DOMAIN locks'[x1][a1], NEW j \in DOMAIN locks'[x2][a2],
             locks'[x1][a1][i].id = locks'[x2][a2][j].id
      PROVE  x1 = x2 /\ a1 = a2 /\ i = j
  <2>1. x1 = x2 /\ a1 = a2 /\ from(x1, a1, i) = from(x2, a2, j)
    BY <1>4, <1>7 DEF LockIdsUnique
  <2> QED
    BY <1>5, <2>1
<1> QED
  BY <1>6, <1>7 DEF LockIdsUnique

\* A step that adds a lock under the next id repeats none.
LEMMA AddedIsUnique ==
  ASSUME TypeOK, LockIdsUnique, nextLockId' = nextLockId + 1,
         NEW id \in AssetIds, NEW who \in Accounts, NEW amount \in Balance,
         locks' = [locks EXCEPT ![id][who] = WithLock(@, nextLockId, amount)]
  PROVE  LockIdsUnique'
<1> DEFINE list == locks[id][who]
           n == Len(list) + 1
<1>1. list \in Seq(Lock) /\ locks \in [AssetIds -> [Accounts -> Seq(Lock)]] /\ nextLockId \in Nat \ {0}
  BY DEF TypeOK
<1>2. /\ DOMAIN WithLock(list, nextLockId, amount) = DOMAIN list \cup {n} /\ n \notin DOMAIN list
      /\ \A i \in DOMAIN list : WithLock(list, nextLockId, amount)[i] = list[i]
      /\ WithLock(list, nextLockId, amount)[n].id = nextLockId
  <2> DEFINE new == WithLock(list, nextLockId, amount)
  <2>1. nextLockId \in Nat
    BY <1>1
  <2>2. /\ DOMAIN new = DOMAIN list \cup {n} /\ n \notin DOMAIN list
        /\ \A i \in DOMAIN list : new[i] = list[i]
        /\ new[n] = [id |-> nextLockId, amount |-> amount]
    <3>1. [id |-> nextLockId, amount |-> amount] \in Lock
      BY <2>1 DEF Lock
    <3> QED
      BY <1>1, <3>1 DEF WithLock
  <2> HIDE DEF new, n
  <2>3. new[n].id = nextLockId
    BY <2>2
  <2> QED
    BY <2>2, <2>3 DEF new
<1>3. locks'[id][who] = WithLock(list, nextLockId, amount)
      /\ \A x \in AssetIds, a \in Accounts : x # id \/ a # who => locks'[x][a] = locks[x][a]
  BY <1>1
<1> HIDE DEF list, n
<1> DEFINE New(x, a, i) == x = id /\ a = who /\ i = n
<1>4. \A x \in AssetIds, a \in Accounts : \A i \in DOMAIN locks'[x][a] :
        IF New(x, a, i) THEN locks'[x][a][i].id = nextLockId
        ELSE /\ i \in DOMAIN locks[x][a] /\ locks'[x][a][i] = locks[x][a][i]
             /\ locks'[x][a][i].id \in 1..(nextLockId - 1)
  BY <1>2, <1>3 DEF list, LockIdsUnique
<1>5. \A x \in AssetIds, a \in Accounts : \A i \in DOMAIN locks'[x][a] :
        locks'[x][a][i].id \in 1..(nextLockId' - 1)
  BY <1>1, <1>4
<1>6. ASSUME NEW x1 \in AssetIds, NEW x2 \in AssetIds, NEW a1 \in Accounts, NEW a2 \in Accounts,
             NEW i \in DOMAIN locks'[x1][a1], NEW j \in DOMAIN locks'[x2][a2],
             locks'[x1][a1][i].id = locks'[x2][a2][j].id
      PROVE  x1 = x2 /\ a1 = a2 /\ i = j
  <2>1. nextLockId \notin 1..(nextLockId - 1)
    BY <1>1
  <2>2. CASE New(x1, a1, i)
    BY <1>4, <1>6, <2>1, <2>2
  <2>3. CASE New(x2, a2, j)
    BY <1>4, <1>6, <2>1, <2>3
  <2>4. CASE ~New(x1, a1, i) /\ ~New(x2, a2, j)
    <3>1. /\ i \in DOMAIN locks[x1][a1] /\ j \in DOMAIN locks[x2][a2]
          /\ locks[x1][a1][i].id = locks[x2][a2][j].id
      BY <1>4, <1>6, <2>4
    <3> QED
      BY <3>1 DEF LockIdsUnique
  <2> QED
    BY <2>2, <2>3, <2>4
<1> QED
  BY <1>5, <1>6 DEF LockIdsUnique

\* The units locked in the elements of a list that are in a set of positions.
LockedAt(list, S) == {c \in S \X (1..MaxBalance) : c[2] <= list[c[1]].amount}

LEMMA LockedFinite ==
  ASSUME NEW list \in Seq(Lock), NEW S \in SUBSET DOMAIN list
  PROVE  /\ IsFiniteSet(LockedAt(list, S)) /\ Cardinality(LockedAt(list, S)) \in Nat
         /\ LockedIn(list) = Cardinality(LockedAt(list, DOMAIN list))
<1>1. IsFiniteSet(DOMAIN list) /\ IsFiniteSet(1..MaxBalance)
  BY MaxBalanceAssumption, FS_Interval
<1>2. IsFiniteSet(S \X (1..MaxBalance))
  BY <1>1, FS_Subset, FS_Product
<1>3. IsFiniteSet(LockedAt(list, S))
  BY <1>2, FS_Subset DEF LockedAt
<1> QED
  BY <1>3, FS_CardinalityType DEF LockedAt, LockedIn

\* One lock more or less changes the sum by its amount.
LEMMA LockedSplit ==
  ASSUME NEW list \in Seq(Lock), NEW k \in DOMAIN list
  PROVE  LockedIn(list) = Cardinality(LockedAt(list, DOMAIN list \ {k})) + list[k].amount
<1> DEFINE D == DOMAIN list
           m == list[k].amount
<1>1. list[k] \in Lock /\ m \in Nat /\ m <= MaxBalance
  <2>1. list[k] \in Lock
    OBVIOUS
  <2>2. m \in Balance
    BY <2>1 DEF Lock
  <2> QED
    BY <2>1, <2>2, ConstantFacts
<1>2. IsFiniteSet(PileOf(k, m)) /\ Cardinality(PileOf(k, m)) = m
  BY <1>1, PileSize
<1>3. LockedAt(list, D) = LockedAt(list, D \ {k}) \cup PileOf(k, m)
  BY <1>1, MaxBalanceAssumption DEF LockedAt, PileOf
<1>4. LockedAt(list, D \ {k}) \cap PileOf(k, m) = {}
  BY DEF LockedAt, PileOf
<1>5. IsFiniteSet(LockedAt(list, D \ {k})) /\ Cardinality(LockedAt(list, D \ {k})) \in Nat
      /\ LockedIn(list) = Cardinality(LockedAt(list, D))
  BY LockedFinite
<1> DEFINE X == LockedAt(list, D \ {k})
           Y == PileOf(k, m)
<1>6. Cardinality(X \cup Y) = Cardinality(X) + m
  <2> HIDE DEF X, Y
  <2>1. Cardinality(X \cup Y) = Cardinality(X) + Cardinality(Y) - Cardinality(X \cap Y)
    BY <1>2, <1>5, FS_Union DEF X, Y
  <2>2. Cardinality(X \cap Y) = 0
    BY <1>4, FS_EmptySet DEF X, Y
  <2>3. Cardinality(X) \in Nat /\ Cardinality(Y) = m
    BY <1>2, <1>5 DEF X, Y
  <2> QED
    BY <1>1, <2>1, <2>2, <2>3
<1> QED
  BY <1>3, <1>5, <1>6

\* A new lock adds its amount.
LEMMA LockedAppended ==
  ASSUME NEW list \in Seq(Lock), NEW lid \in Nat, NEW amount \in Balance
  PROVE  LockedIn(WithLock(list, lid, amount)) = LockedIn(list) + amount
<1> DEFINE new == WithLock(list, lid, amount)
           n == Len(list) + 1
<1>1. [id |-> lid, amount |-> amount] \in Lock
  BY DEF Lock
<1>2. /\ new \in Seq(Lock) /\ DOMAIN new = DOMAIN list \cup {n} /\ n \notin DOMAIN list
      /\ \A i \in DOMAIN list : new[i] = list[i]
      /\ new[n] = [id |-> lid, amount |-> amount]
  BY <1>1 DEF WithLock
<1> HIDE DEF new, n
<1>3. new[n].amount = amount /\ DOMAIN new \ {n} = DOMAIN list
  <2>1. new[n] = [id |-> lid, amount |-> amount]
    BY <1>2
  <2>2. new[n].amount = amount
    BY <2>1
  <2> QED
    BY <1>2, <2>2
<1>4. LockedAt(new, DOMAIN list) = LockedAt(list, DOMAIN list)
  BY <1>2 DEF LockedAt
<1>5. LockedIn(new) = Cardinality(LockedAt(new, DOMAIN new \ {n})) + new[n].amount
  BY <1>2, LockedSplit
<1>6. LockedIn(list) = Cardinality(LockedAt(list, DOMAIN list))
  BY LockedFinite
<1> QED
  BY <1>3, <1>4, <1>5, <1>6 DEF new

\* Removing a lock takes the amount of that lock.
LEMMA LockedRemoved ==
  ASSUME NEW list \in Seq(Lock), NEW lid \in LockIds(list)
  PROVE  \E k \in DOMAIN list :
           list[k].id = lid /\ LockedIn(list) = LockedIn(WithoutLock(list, lid)) + list[k].amount
                            /\ LockedIn(WithoutLock(list, lid)) \in Nat
<1> DEFINE n == Len(list)
           new == WithoutLock(list, lid)
<1>1. PICK k \in DOMAIN list :
           /\ list[k].id = lid
           /\ DOMAIN new = 1..(n - 1)
           /\ \A i \in 1..(n - 1) : /\ Beyond(k, i) \in DOMAIN list \ {k}
                                    /\ new[i] = list[Beyond(k, i)]
           /\ \A i, j \in 1..(n - 1) : Beyond(k, i) = Beyond(k, j) => i = j
           /\ \A j \in DOMAIN list \ {k} : \E i \in 1..(n - 1) : Beyond(k, i) = j
  BY LockRemoved
<1>2. new \in Seq(Lock)
  <2>1. lid \in Nat
    <3>1. list[k] \in Lock
      OBVIOUS
    <3> QED
      BY <1>1, <3>1 DEF Lock
  <2> QED
    BY <2>1, LockLists, MaxBalanceAssumption DEF Balance
<1> HIDE DEF n, new
<1> DEFINE A == LockedAt(new, DOMAIN new)
           B == LockedAt(list, DOMAIN list \ {k})
           f == [c \in A |-> <<Beyond(k, c[1]), c[2]>>]
<1>3. ASSUME NEW c \in A
      PROVE  c = <<c[1], c[2]>> /\ c[1] \in 1..(n - 1) /\ c[2] \in 1..MaxBalance
             /\ c[2] <= new[c[1]].amount
  BY <1>1 DEF LockedAt
<1>4. ASSUME NEW c \in A PROVE f[c] \in B
  <2>1. Beyond(k, c[1]) \in DOMAIN list \ {k} /\ new[c[1]] = list[Beyond(k, c[1])]
    BY <1>1, <1>3
  <2>2. f[c] = <<Beyond(k, c[1]), c[2]>>
    OBVIOUS
  <2> QED
    BY <1>3, <2>1, <2>2 DEF LockedAt
<1>5. ASSUME NEW c \in A, NEW d \in A, f[c] = f[d] PROVE c = d
  <2>1. Beyond(k, c[1]) = Beyond(k, d[1]) /\ c[2] = d[2]
    BY <1>5
  <2>2. c[1] = d[1]
    BY <1>1, <1>3, <2>1
  <2> QED
    BY <1>3, <2>1, <2>2
<1>6. ASSUME NEW b \in B PROVE \E c \in A : f[c] = b
  <2>1. b = <<b[1], b[2]>> /\ b[1] \in DOMAIN list \ {k} /\ b[2] \in 1..MaxBalance
        /\ b[2] <= list[b[1]].amount
    BY DEF LockedAt
  <2>2. PICK i \in 1..(n - 1) : Beyond(k, i) = b[1]
    BY <1>1, <2>1
  <2>3. <<i, b[2]>> \in A
    BY <1>1, <2>1, <2>2 DEF LockedAt
  <2>4. f[<<i, b[2]>>] = b
    BY <2>1, <2>2, <2>3
  <2> QED
    BY <2>3, <2>4
<1>7. IsFiniteSet(A) /\ LockedIn(new) = Cardinality(A) /\ Cardinality(A) \in Nat
  BY <1>2, LockedFinite
<1> HIDE DEF A, B
<1>8. f \in Bijection(A, B)
  <2>1. f \in [A -> B]
    BY <1>4
  <2> HIDE DEF f
  <2>2. f \in Injection(A, B)
    BY <1>5, <2>1 DEF Injection, IsInjective
  <2>3. f \in Surjection(A, B)
    BY <1>6, <2>1 DEF Surjection
  <2> QED
    BY <2>2, <2>3 DEF Bijection
<1>9. Cardinality(B) = Cardinality(A)
  BY <1>7, <1>8, FS_Bijection DEF ExistsBijection
<1>10. LockedIn(list) = Cardinality(B) + list[k].amount
  BY LockedSplit DEF B
<1> QED
  BY <1>1, <1>7, <1>9, <1>10 DEF new

\* The writes of reserve and unreserve: what any other call leaves alone.
Locking(who, id, amount) ==
  /\ free[id][who] >= amount
  /\ reserved' = [reserved EXCEPT ![id] = SetBalance(@, who, Wrapped(@[who] + amount))]
  /\ locks' = [locks EXCEPT ![id][who] = WithLock(@, nextLockId, amount)]
  /\ nextLockId' = nextLockId + 1
Releasing(who, id, amount, lid) ==
  /\ reserved[id][who] >= amount
  /\ reserved' = [reserved EXCEPT ![id] = SetBalance(@, who, @[who] - amount)]
  /\ locks' = [locks EXCEPT ![id][who] = WithoutLock(@, lid)]
  /\ nextLockId' = nextLockId
  /\ StrayUnreserve \/ \E i \in LocksOf(locks[id][who], amount) : locks[id][who][i].id = lid

\* Only reserve and unreserve touch a lock, and they do so with a lock of the account.
LEMMA LockSteps ==
  ASSUME TypeOK, Next
  PROVE  \/ UNCHANGED <<reserved, locks, nextLockId>>
         \/ \E who \in Accounts, id \in AssetIds, amount \in Balance :
              \/ Locking(who, id, amount)
              \/ \E lid \in LockIds(locks[id][who]) : Releasing(who, id, amount, lid)
<1> DEFINE Still == UNCHANGED <<reserved, locks, nextLockId>>
<1> SUFFICES ASSUME ~Still
             PROVE  \E who \in Accounts, id \in AssetIds, amount \in Balance :
                      \/ Locking(who, id, amount)
                      \/ \E lid \in LockIds(locks[id][who]) : Releasing(who, id, amount, lid)
  OBVIOUS
<1>1. \A who, error : ~Fails(who, error)
  BY DEF Fails, store
<1>2. ASSUME NEW amount \in Balance, Create(amount) PROVE FALSE
  BY <1>1, <1>2 DEF Create, InsertAsset
<1>3. ASSUME NEW id \in AssetIds, NEW amount \in Balance, NEW perms, CreateReserved(id, amount, perms)
      PROVE  FALSE
  BY <1>1, <1>3 DEF CreateReserved, InsertAsset
<1>4. ASSUME NEW who, NEW id \in AssetIds, NEW to, NEW amount,
             Transfer(who, id, to, amount) \/ Mint(who, id, to, amount) \/ Burn(who, id, to, amount)
      PROVE  FALSE
  BY <1>1, <1>4 DEF Transfer, Mint, Burn
<1>5. ASSUME NEW who, NEW id \in AssetIds, NEW perms, UpdatePermission(who, id, perms)
      PROVE  FALSE
  BY <1>1, <1>5 DEF UpdatePermission
<1>6. ASSUME NEW who \in Accounts, NEW id \in AssetIds, NEW amount \in Balance, Reserve(who, id, amount)
      PROVE  Locking(who, id, amount)
  BY <1>1, <1>6 DEF Reserve, Locking
<1>7. ASSUME NEW who \in Accounts, NEW id \in AssetIds, NEW amount \in Balance, NEW lid,
             UnreserveLock(who, id, amount, lid)
      PROVE  lid \in LockIds(locks[id][who]) /\ Releasing(who, id, amount, lid)
  BY <1>1, <1>7 DEF UnreserveLock, Release, Releasing
<1>8. ASSUME NEW who \in Accounts, NEW id \in AssetIds, NEW amount \in Balance,
             UnreserveAmount(who, id, amount)
      PROVE  \E lid \in LockIds(locks[id][who]) : Releasing(who, id, amount, lid)
  <2> DEFINE list == locks[id][who]
             found == LocksOf(list, amount)
             lid == list[FirstOf(found)].id
  <2>1. found # {} /\ reserved[id][who] >= amount /\ Release(who, id, amount, lid)
    BY <1>1, <1>8 DEF UnreserveAmount
  <2>2. FirstOf(found) \in found
    <3>1. Len(list) \in Nat /\ found \subseteq 1..Len(list)
      BY DEF TypeOK, LocksOf
    <3> HIDE DEF found, list
    <3> QED
      BY <2>1, <3>1, FirstOfIsLeast
  <2>3. lid \in LockIds(list)
    BY <2>2 DEF LocksOf, LockIds
  <2> QED
    BY <2>1, <2>2, <2>3 DEF Release, Releasing
<1> QED
  BY <1>2, <1>3, <1>4, <1>5, <1>6, <1>7, <1>8 DEF Next

\* No lock id is handed out twice, and releasing a lock leaves the ids of the others.
THEOREM LocksAreUnique == Spec => []LockIdsUnique
<1>1. Init => LockIdsUnique
  <2> SUFFICES ASSUME Init PROVE LockIdsUnique
    OBVIOUS
  <2>1. \A id \in AssetIds, a \in Accounts : DOMAIN locks[id][a] = {}
    BY DEF Init
  <2> QED
    BY <2>1 DEF LockIdsUnique
<1>2. TypeOK /\ LockIdsUnique /\ [Next]_vars => LockIdsUnique'
  <2> SUFFICES ASSUME TypeOK, LockIdsUnique, [Next]_vars PROVE LockIdsUnique'
    OBVIOUS
  <2>1. CASE UNCHANGED <<locks, nextLockId>>
    BY <2>1 DEF LockIdsUnique
  <2>2. ASSUME NEW who \in Accounts, NEW id \in AssetIds, NEW amount \in Balance, Locking(who, id, amount)
        PROVE  LockIdsUnique'
    BY <2>2, AddedIsUnique DEF Locking
  <2>3. ASSUME NEW who \in Accounts, NEW id \in AssetIds, NEW amount \in Balance,
               NEW lid \in LockIds(locks[id][who]), Releasing(who, id, amount, lid)
        PROVE  LockIdsUnique'
    BY <2>3, DroppedIsUnique DEF Releasing
  <2>4. CASE UNCHANGED vars
    BY <2>1, <2>4 DEF vars
  <2> QED
    BY <2>1, <2>2, <2>3, <2>4, LockSteps
<1> QED
  BY <1>1, <1>2, TypeCorrect, PTL DEF Spec

\* As long as the callers of unreserve give a lock's id together with its amount,
\* what an account has reserved is what its locks add up to.
THEOREM LocksAreReserved == ~StrayUnreserve => (Spec => []ReservedMatchesLocks)
<1> SUFFICES ASSUME ~StrayUnreserve PROVE Spec => []ReservedMatchesLocks
  OBVIOUS
<1>1. Init => ReservedMatchesLocks
  <2> SUFFICES ASSUME Init, NEW id \in AssetIds, NEW a \in Accounts
               PROVE  reserved[id][a] = LockedIn(locks[id][a])
    BY DEF ReservedMatchesLocks
  <2>1. reserved[id][a] = 0 /\ locks[id][a] = << >>
    BY DEF Init, EmptySheet
  <2>2. {c \in (DOMAIN << >>) \X (1..MaxBalance) : c[2] <= << >>[c[1]].amount} = {}
    OBVIOUS
  <2> QED
    BY <2>1, <2>2, FS_EmptySet DEF LockedIn
<1>2. IInv /\ LockIdsUnique /\ ReservedMatchesLocks /\ [Next]_vars => ReservedMatchesLocks'
  <2> SUFFICES ASSUME IInv, LockIdsUnique, ReservedMatchesLocks, [Next]_vars
               PROVE  ReservedMatchesLocks'
    OBVIOUS
  <2>0. /\ TypeOK /\ locks \in [AssetIds -> [Accounts -> Seq(Lock)]]
        /\ reserved \in [AssetIds -> Sheet] /\ nextLockId \in Nat
    BY DEF IInv, TypeOK
  <2>1. CASE UNCHANGED <<reserved, locks>>
    BY <2>1 DEF ReservedMatchesLocks
  <2>2. ASSUME NEW who \in Accounts, NEW id \in AssetIds, NEW old \in Balance, NEW list,
               reserved' = [reserved EXCEPT ![id] = SetBalance(@, who, old)],
               locks' = [locks EXCEPT ![id][who] = list], old = LockedIn(list)
        PROVE  ReservedMatchesLocks'
    <3> SUFFICES ASSUME NEW x \in AssetIds, NEW a \in Accounts
                 PROVE  reserved'[x][a] = LockedIn(locks'[x][a])
      BY DEF ReservedMatchesLocks
    <3>1. CASE x = id /\ a = who
      <4>1. reserved'[x][a] = old /\ locks'[x][a] = list
        BY <2>0, <2>2, <3>1 DEF SetBalance, Sheet
      <4> QED
        BY <2>2, <4>1
    <3>2. CASE x # id \/ a # who
      <4>1. reserved'[x][a] = reserved[x][a] /\ locks'[x][a] = locks[x][a]
        BY <2>0, <2>2, <3>2 DEF SetBalance, Sheet
      <4> QED
        BY <4>1 DEF ReservedMatchesLocks
    <3> QED
      BY <3>1, <3>2
  <2>3. ASSUME NEW who \in Accounts, NEW id \in AssetIds, NEW amount \in Balance, Locking(who, id, amount)
        PROVE  ReservedMatchesLocks'
    <3> DEFINE list == WithLock(locks[id][who], nextLockId, amount)
               new == reserved[id][who] + amount
    <3>1. amount \in Nat /\ reserved[id][who] \in Nat /\ free[id][who] \in Nat
          /\ free[id][who] + reserved[id][who] <= MaxBalance /\ free[id][who] >= amount
      BY <2>3, SumsFit, ConstantFacts DEF Locking
    <3>2. new \in Balance /\ Wrapped(new) = new
      BY <3>1, ConstantFacts DEF Wrapped, Balance
    <3>3. new = LockedIn(list)
      BY <2>0, LockedAppended DEF ReservedMatchesLocks
    <3>4. reserved' = [reserved EXCEPT ![id] = SetBalance(@, who, new)]
          /\ locks' = [locks EXCEPT ![id][who] = list]
      BY <2>0, <2>3, <3>2 DEF Locking
    <3> HIDE DEF list, new
    <3> QED
      BY <2>2, <3>2, <3>3, <3>4
  <2>4. ASSUME NEW who \in Accounts, NEW id \in AssetIds, NEW amount \in Balance,
               NEW lid \in LockIds(locks[id][who]), Releasing(who, id, amount, lid)
        PROVE  ReservedMatchesLocks'
    <3> DEFINE old == locks[id][who]
               list == WithoutLock(old, lid)
               new == reserved[id][who] - amount
    <3>1. old \in Seq(Lock) /\ lid \in LockIds(old)
      BY <2>0
    <3>2. PICK k \in DOMAIN old :
            old[k].id = lid /\ LockedIn(old) = LockedIn(list) + old[k].amount /\ LockedIn(list) \in Nat
      BY <3>1, LockedRemoved
    <3>3. PICK i \in DOMAIN old : old[i].id = lid /\ old[i].amount = amount
      BY <2>4 DEF Releasing, LocksOf
    <3>4. i = k
      BY <3>2, <3>3 DEF LockIdsUnique
    <3>5. amount \in Nat /\ reserved[id][who] \in Nat /\ reserved[id][who] <= MaxBalance
          /\ reserved[id][who] >= amount
      BY <2>0, <2>4, ConstantFacts DEF Releasing, Sheet
    <3>6. reserved[id][who] = LockedIn(old)
      BY DEF ReservedMatchesLocks
    <3>7. reserved' = [reserved EXCEPT ![id] = SetBalance(@, who, new)]
          /\ locks' = [locks EXCEPT ![id][who] = list]
      BY <2>0, <2>4 DEF Releasing
    <3> HIDE DEF old, list
    <3>8. new \in Balance /\ new = LockedIn(list)
      BY <3>2, <3>3, <3>4, <3>5, <3>6, ConstantFacts
    <3> HIDE DEF new
    <3> QED
      BY <2>2, <3>7, <3>8
  <2>5. CASE UNCHANGED vars
    BY <2>1, <2>5 DEF vars
  <2> QED
    BY <2>0, <2>1, <2>3, <2>4, <2>5, LockSteps
<1> QED
  BY <1>1, <1>2, Invariance, LocksAreUnique, PTL DEF Spec

-----------------------------------------------------------------------------
(***************************************************************************)
(* Refinement: with an account's free and reserved balance taken together, *)
(* every call moves, issues or retires an amount of one asset, or does     *)
(* nothing.                                                                *)
(***************************************************************************)

\* The abstract ledger counts balances and sums the same way.
LEMMA LedgerOperators ==
  /\ Ledger!Balance = Balance /\ Ledger!Sheet = Sheet
  /\ \A sheet : Ledger!SumOf(sheet) = SumOf(sheet)
<1>1. Ledger!Balance = Balance
  BY DEF Ledger!Balance, Balance
<1>2. Ledger!Sheet = Sheet
  BY <1>1 DEF Ledger!Sheet, Sheet
<1>3. ASSUME NEW sheet PROVE Ledger!Coins(sheet) = Coins(sheet)
  BY Zenon DEF Ledger!Coins, Coins
<1>4. ASSUME NEW sheet PROVE Ledger!SumOf(sheet) = SumOf(sheet)
  BY <1>3, Zenon DEF Ledger!SumOf, SumOf, Ledger!Cardinality, Cardinality
<1> QED
  BY <1>1, <1>2, <1>4

\* Two tables that differ in one entry at most.
LEMMA TableUpdate ==
  ASSUME NEW S, NEW T, NEW f, NEW g,
         f = [x \in S |-> [y \in T |-> f[x][y]]],
         g = [x \in S |-> [y \in T |-> g[x][y]]],
         NEW i \in S, NEW j \in T, NEW v,
         \A x \in S, y \in T : g[x][y] = IF x = i /\ y = j THEN v ELSE f[x][y]
  PROVE  g = [f EXCEPT ![i][j] = v]
<1>1. \A x \in S : /\ f[x] = [y \in T |-> f[x][y]]
                   /\ g[x] = [y \in T |-> g[x][y]]
  OBVIOUS
<1>2. g[i] = [f[i] EXCEPT ![j] = v]
  BY <1>1
<1>3. \A x \in S : x # i => g[x] = f[x]
  <2> SUFFICES ASSUME NEW x \in S, x # i PROVE g[x] = f[x]
    OBVIOUS
  <2>1. \A y \in T : g[x][y] = f[x][y]
    OBVIOUS
  <2> QED
    BY <1>1, <2>1
<1>4. \A x \in S : g[x] = [f EXCEPT ![i][j] = v][x]
  BY <1>2, <1>3
<1> QED
  BY <1>4

\* holding is a table of the sums.
LEMMA HoldingTable ==
  /\ holding = [x \in AssetIds |-> [a \in Accounts |-> holding[x][a]]]
  /\ holding' = [x \in AssetIds |-> [a \in Accounts |-> holding'[x][a]]]
  /\ \A x \in AssetIds, a \in Accounts :
       /\ holding[x][a] = free[x][a] + reserved[x][a]
       /\ holding'[x][a] = free'[x][a] + reserved'[x][a]
BY DEF holding

\* A step that changes no issuance and no account's free + reserved is invisible.
LEMMA HoldingSame ==
  ASSUME HoldingsKept
  PROVE  UNCHANGED Ledger!ledger
<1>1. holding' = holding
  BY DEF holding, HoldingsKept
<1> QED
  BY <1>1 DEF Ledger!ledger, HoldingsKept

\* A step that changes one account's free balance of one asset.
LEMMA HoldingSet ==
  ASSUME IInv, NEW id \in AssetIds, NEW a \in Accounts, NEW n \in Nat,
         free' = [free EXCEPT ![id] = SetBalance(@, a, n)], reserved' = reserved
  PROVE  holding' = [holding EXCEPT ![id][a] = n + reserved[id][a]]
<1>1. \A x \in AssetIds : free[x] \in Sheet /\ DOMAIN free = AssetIds
  BY DEF IInv, TypeOK
<1>2. \A x \in AssetIds, b \in Accounts :
        free'[x][b] = IF x = id /\ b = a THEN n ELSE free[x][b]
  BY <1>1 DEF SetBalance, Sheet
<1>3. \A x \in AssetIds, b \in Accounts :
        holding'[x][b] = IF x = id /\ b = a THEN n + reserved[id][a] ELSE holding[x][b]
  BY <1>2, HoldingTable
<1> QED
  BY <1>3, HoldingTable, TableUpdate

\* Genesis is a ledger in balance.
LEMMA LedgerInit == Init => Ledger!Init
<1> SUFFICES ASSUME Init PROVE Ledger!Init
  OBVIOUS
<1>1. IInv
  BY InvInit
<1>2. \A id \in AssetIds : free[id] \in Sheet /\ reserved[id] = EmptySheet
  BY <1>1 DEF Init, IInv, TypeOK
<1>3. \A id \in AssetIds : holding[id] = free[id]
  <2> SUFFICES ASSUME NEW id \in AssetIds PROVE holding[id] = free[id]
    OBVIOUS
  <2>1. \A a \in Accounts : free[id][a] \in Nat /\ reserved[id][a] = 0
    BY <1>2, ConstantFacts DEF Sheet, EmptySheet
  <2>2. holding[id] = [a \in Accounts |-> free[id][a]]
    BY <2>1 DEF holding
  <2> QED
    BY <1>2, <2>2 DEF Sheet
<1>4. \A id \in AssetIds : SumOf(holding[id]) = issuance[id]
  <2> SUFFICES ASSUME NEW id \in AssetIds PROVE SumOf(holding[id]) = issuance[id]
    OBVIOUS
  <2>1. SumOf(free[id]) \in Nat /\ SumOf(free[id]) + SumOf(reserved[id]) = issuance[id]
    BY <1>1, <1>2, CoinsFinite DEF IInv, Conservation
  <2> QED
    BY <1>2, <1>3, <2>1, SumEmpty
<1>5. issuance \in [AssetIds -> Balance] /\ holding \in [AssetIds -> Sheet]
  BY <1>1, <1>2, <1>3 DEF IInv, TypeOK, holding
<1> QED
  BY <1>4, <1>5, LedgerOperators DEF Ledger!Init

\* create_asset on an id that holds nothing issues the initial amount.
LEMMA InsertAssetIssues ==
  ASSUME IInv, NEW id \in AssetIds, NEW account \in Accounts, NEW amount \in Balance,
         NEW perms, id >= nextAssetId \/ id \notin created,
         InsertAsset(id, account, amount, perms)
  PROVE  Ledger!Issue(id, account, amount)
<1>1. issuance[id] = 0 /\ free[id] = EmptySheet /\ reserved[id] = EmptySheet
  BY DEF IInv, NothingBeforeCreation
<1>2. amount \in Nat /\ amount <= MaxBalance
  BY ConstantFacts
<1>3. issuance' = [issuance EXCEPT ![id] = @ + amount] /\ issuance[id] + amount <= MaxBalance
  BY <1>1, <1>2 DEF InsertAsset
<1>4. holding' = [holding EXCEPT ![id][account] = amount + reserved[id][account]]
  BY <1>2, HoldingSet DEF InsertAsset
<1>5. holding[id][account] = 0 /\ reserved[id][account] = 0
  BY <1>1 DEF holding, EmptySheet
<1>6. amount + reserved[id][account] = holding[id][account] + amount
  BY <1>2, <1>5
<1>7. holding' = [holding EXCEPT ![id][account] = @ + amount]
  BY <1>4, <1>6, HoldingTable
<1> QED
  BY <1>3, <1>7 DEF Ledger!Issue

\* Every call is a step of the abstract ledger or invisible to it.
LEMMA LedgerStep == IInv /\ [Next]_vars => [Ledger!Next]_(Ledger!ledger)
<1> SUFFICES ASSUME IInv, [Next]_vars
             PROVE  Ledger!Next \/ UNCHANGED Ledger!ledger
  OBVIOUS
<1>0. ASSUME NEW who, NEW error, Fails(who, error)
      PROVE  UNCHANGED Ledger!ledger
  BY <1>0, HoldingSame DEF Fails, store, HoldingsKept
<1>1. ASSUME NEW amount \in Balance, Create(amount)
      PROVE  Ledger!Next \/ UNCHANGED Ledger!ledger
  <2>1. nextAssetId \in AssetIds /\ nextAssetId >= nextAssetId /\ SudoKey \in Accounts
    BY ConstantFacts DEF IInv, TypeOK
  <2>2. CASE InsertAsset(nextAssetId, SudoKey, amount, OwnedBy(SudoKey))
    BY <2>1, <2>2, InsertAssetIssues, LedgerOperators DEF Ledger!Next
  <2> QED
    BY <1>0, <1>1, <2>2 DEF Create
<1>2. ASSUME NEW id \in AssetIds, NEW amount \in Balance, NEW perms,
             CreateReserved(id, amount, perms)
      PROVE  Ledger!Next \/ UNCHANGED Ledger!ledger
  <2>1. DefaultAccount \in Accounts
    BY ConstantFacts
  <2>2. CASE id \notin created /\ InsertAsset(id, DefaultAccount, amount, perms)
    BY <2>1, <2>2, InsertAssetIssues, LedgerOperators DEF Ledger!Next
  <2> QED
    BY <1>0, <1>2, <2>2 DEF CreateReserved
<1>3. ASSUME NEW who \in Accounts, NEW id \in AssetIds, NEW to \in Accounts,
             NEW amount \in Balance, Transfer(who, id, to, amount)
      PROVE  Ledger!Next \/ UNCHANGED Ledger!ledger
  <2>1. CASE /\ CanTransfer(free[id], who, amount)
             /\ free' = [free EXCEPT ![id] = AfterTransfer(@, who, to, amount)]
             /\ UNCHANGED <<issuance, reserved>>
    <3>1. /\ free[id] \in Sheet /\ SumOf(free[id]) <= MaxBalance /\ amount \in Nat
          /\ \A a \in Accounts : free[id][a] \in Nat /\ reserved[id][a] \in Nat
      BY SumsFit, ConstantFacts
    <3>2. CASE who = to
      <4>1. free' = free
        BY <2>1, <3>2 DEF AfterTransfer, IInv, TypeOK
      <4> QED
        BY <2>1, <4>1, HoldingSame DEF HoldingsKept
    <3>3. CASE who # to
      <4>1. AfterTransfer(free[id], who, to, amount)
              = [free[id] EXCEPT ![who] = @ - amount, ![to] = @ + amount]
        BY <2>1, <3>1, <3>3, TransferKeepsSum
      <4>2. \A x \in AssetIds, a \in Accounts :
              free'[x][a] = IF x = id /\ a = who THEN free[id][who] - amount
                            ELSE IF x = id /\ a = to THEN free[id][to] + amount
                            ELSE free[x][a]
        BY <2>1, <3>1, <3>3, <4>1 DEF IInv, TypeOK, Sheet
      <4>3. holding' = [holding EXCEPT ![id][who] = @ - amount, ![id][to] = @ + amount]
        <5> DEFINE mid == [holding EXCEPT ![id][who] = holding[id][who] - amount]
        <5>1. \A x \in AssetIds, a \in Accounts :
                mid[x][a] = IF x = id /\ a = who THEN holding[id][who] - amount ELSE holding[x][a]
          BY HoldingTable
        <5>2. mid = [x \in AssetIds |-> [a \in Accounts |-> mid[x][a]]]
          BY HoldingTable
        <5>3. [holding EXCEPT ![id][who] = @ - amount, ![id][to] = @ + amount]
                = [mid EXCEPT ![id][to] = holding[id][to] + amount]
          BY <3>3, <5>1
        <5> HIDE DEF mid
        <5>4. \A x \in AssetIds, a \in Accounts :
                holding'[x][a] = IF x = id /\ a = to THEN holding[id][to] + amount ELSE mid[x][a]
          BY <2>1, <3>1, <3>3, <4>2, <5>1, HoldingTable
        <5>5. holding' = [mid EXCEPT ![id][to] = holding[id][to] + amount]
          BY <5>2, <5>4, HoldingTable, TableUpdate
        <5> QED
          BY <5>3, <5>5
      <4>4. holding[id][who] >= amount
        BY <2>1, <3>1 DEF holding, CanTransfer
      <4>5. Ledger!Move(id, who, to, amount)
        BY <2>1, <3>3, <4>3, <4>4 DEF Ledger!Move
      <4> QED
        BY <4>5, LedgerOperators DEF Ledger!Next
    <3> QED
      BY <3>2, <3>3
  <2> QED
    BY <1>0, <1>3, <2>1 DEF Transfer
<1>4. ASSUME NEW who, NEW id \in AssetIds, NEW perms, UpdatePermission(who, id, perms)
      PROVE  UNCHANGED Ledger!ledger
  BY <1>0, <1>4, HoldingSame DEF UpdatePermission, HoldingsKept
<1>5. ASSUME NEW who \in Accounts, NEW id \in AssetIds, NEW to \in Accounts,
             NEW amount \in Balance, Mint(who, id, to, amount)
      PROVE  Ledger!Next \/ UNCHANGED Ledger!ledger
  <2>1. CASE /\ MintOutcome(id, who, to, amount) = "Ok"
             /\ issuance' = [issuance EXCEPT ![id] = @ + amount]
             /\ free' = [free EXCEPT ![id] = SetBalance(@, to, @[to] + amount)]
             /\ UNCHANGED reserved
    <3>1. /\ amount \in Nat /\ free[id][to] \in Nat /\ reserved[id][to] \in Nat
          /\ issuance[id] \in Nat
      BY SumsFit, ConstantFacts
    <3>2. issuance[id] + amount <= MaxBalance
      BY <2>1, <3>1, ConstantFacts DEF MintOutcome
    <3> DEFINE n == free[id][to] + amount
    <3>3. n \in Nat /\ n + reserved[id][to] = holding[id][to] + amount
      BY <3>1 DEF holding
    <3>4. free' = [free EXCEPT ![id] = SetBalance(@, to, n)]
      BY <2>1 DEF IInv, TypeOK
    <3> HIDE DEF n
    <3>5. reserved' = reserved
      BY <2>1
    <3>6. holding' = [holding EXCEPT ![id][to] = n + reserved[id][to]]
      BY <3>3, <3>4, <3>5, HoldingSet
    <3>7. holding' = [holding EXCEPT ![id][to] = @ + amount]
      BY <3>3, <3>6, HoldingTable
    <3>8. Ledger!Issue(id, to, amount)
      BY <2>1, <3>2, <3>7 DEF Ledger!Issue
    <3> QED
      BY <3>8, LedgerOperators DEF Ledger!Next
  <2> QED
    BY <1>0, <1>5, <2>1 DEF Mint
<1>6. ASSUME NEW who \in Accounts, NEW id \in AssetIds, NEW to \in Accounts,
             NEW amount \in Balance, Burn(who, id, to, amount)
      PROVE  Ledger!Next \/ UNCHANGED Ledger!ledger
  <2>1. CASE /\ BurnOutcome(id, who, to, amount) = "Ok"
             /\ issuance' = [issuance EXCEPT ![id] = @ - amount]
             /\ free' = [free EXCEPT ![id] = SetBalance(@, to, @[to] - amount)]
             /\ UNCHANGED reserved
    <3>1. amount \in Nat /\ free[id][to] \in Nat /\ reserved[id][to] \in Nat
      BY SumsFit, ConstantFacts
    <3>2. free[id][to] >= amount
      BY <2>1, <3>1 DEF BurnOutcome
    <3> DEFINE n == free[id][to] - amount
    <3>3. n \in Nat /\ n + reserved[id][to] = holding[id][to] - amount
          /\ holding[id][to] >= amount
      BY <3>1, <3>2 DEF holding
    <3>4. free' = [free EXCEPT ![id] = SetBalance(@, to, n)]
      BY <2>1 DEF IInv, TypeOK
    <3> HIDE DEF n
    <3>5. reserved' = reserved
      BY <2>1
    <3>6. holding' = [holding EXCEPT ![id][to] = n + reserved[id][to]]
      BY <3>3, <3>4, <3>5, HoldingSet
    <3>7. holding' = [holding EXCEPT ![id][to] = @ - amount]
      BY <3>3, <3>6, HoldingTable
    <3>8. Ledger!Retire(id, to, amount)
      BY <2>1, <3>3, <3>7 DEF Ledger!Retire
    <3> QED
      BY <3>8, LedgerOperators DEF Ledger!Next
  <2> QED
    BY <1>0, <1>6, <2>1 DEF Burn
<1>7. ASSUME NEW who \in Accounts, NEW id \in AssetIds, NEW amount \in Balance,
             Reserve(who, id, amount)
      PROVE  UNCHANGED Ledger!ledger
  BY <1>7, ReserveKeepsHoldings, HoldingSame
<1>8. ASSUME NEW who \in Accounts, NEW id \in AssetIds, NEW amount \in Balance,
             NEW lid, UnreserveLock(who, id, amount, lid)
      PROVE  UNCHANGED Ledger!ledger
  BY <1>0, <1>8, ReleaseKeepsHoldings, HoldingSame DEF UnreserveLock
<1>9. ASSUME NEW who \in Accounts, NEW id \in AssetIds, NEW amount \in Balance,
             UnreserveAmount(who, id, amount)
      PROVE  UNCHANGED Ledger!ledger
  BY <1>0, <1>9, ReleaseKeepsHoldings, HoldingSame DEF UnreserveAmount
<1>10. CASE UNCHANGED vars
  BY <1>10, HoldingSame DEF vars, HoldingsKept
<1> QED
  BY <1>1, <1>2, <1>3, <1>4, <1>5, <1>6, <1>7, <1>8, <1>9, <1>10 DEF Next

\* The module implements the abstract ledger: every behaviour of its calls is,
\* on issuances and on free + reserved balances, a behaviour of AssetLedger.
THEOREM RefinesLedger == Spec => ImplementsLedger
<1>1. Init => Ledger!Init
  BY LedgerInit
<1>2. IInv /\ [Next]_vars => [Ledger!Next]_(Ledger!ledger)
  BY LedgerStep
<1> QED
  BY <1>1, <1>2, Invariance, PTL DEF Spec, ImplementsLedger, Ledger!Spec
=============================================================================
