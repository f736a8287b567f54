---------------------------- MODULE BridgeProofs ----------------------------
(***************************************************************************)
(* Proofs about Bridge and BtcBridge, for any users, administrators,       *)
(* transactions, amounts and threshold: the books of the deposits agree,   *)
(* a transaction is settled once, the vault covers what is pending.        *)
(***************************************************************************)
EXTENDS BtcBridge, BalancesProofs

LEMMA BalanceFacts ==
  /\ MaxBalance \in Nat /\ 0 \in Balance
  /\ \A n \in Balance : n \in Nat /\ n <= MaxBalance
  /\ \A n \in Nat : n <= MaxBalance => n \in Balance
BY MaxBalanceAssumption DEF Balance

(***************************************************************************)
(* Lists of amounts and what they add up to.                               *)
(***************************************************************************)
LEMMA TotalType ==
  ASSUME NEW s \in Seq(Balance)
  PROVE  Total(s) \in Nat /\ \A i \in DOMAIN s : s[i] <= Total(s)
<1>1. IsFiniteSet(DOMAIN s)
  BY FS_Interval
<1>2. \A i \in DOMAIN s : s[i] \in Nat
  BY BalanceFacts
<1> QED
  BY <1>1, <1>2, SumFunctionNat DEF Total

LEMMA TotalOfNone == Total(<< >>) = 0
<1>1. DOMAIN << >> = {}
  OBVIOUS
<1> QED
  BY <1>1, SumOfNone DEF Total, SumFunction

LEMMA TotalAppended ==
  ASSUME NEW s \in Seq(Balance), NEW x \in Balance
  PROVE  Append(s, x) \in Seq(Balance) /\ Total(Append(s, x)) = Total(s) + x
<1> DEFINE t == Append(s, x)
           n == Len(s) + 1
<1>1. /\ t \in Seq(Balance) /\ DOMAIN t = DOMAIN s \cup {n} /\ n \notin DOMAIN s /\ t[n] = x
      /\ \A i \in DOMAIN s : t[i] = s[i]
  OBVIOUS
<1>2. IsFiniteSet(DOMAIN s)
  BY FS_Interval
<1>3. \A i \in DOMAIN t : t[i] \in Int
  BY <1>1, BalanceFacts
<1> HIDE DEF t, n
<1>4. SumFunction(t) = SumFunction(s) + t[n]
  BY <1>1, <1>2, <1>3, SumFunctionAdd
<1> QED
  BY <1>1, <1>4 DEF Total, t

\* Removing the entry at a position.
LEMMA RemovedAt ==
  ASSUME NEW s \in Seq(Balance), NEW p \in DOMAIN s
  PROVE  /\ RemoveAt(s, p) \in Seq(Balance) /\ Len(RemoveAt(s, p)) = Len(s) - 1
         /\ \A i \in 1..(Len(s) - 1) : RemoveAt(s, p)[i] = IF i < p THEN s[i] ELSE s[i + 1]
<1> DEFINE a == SubSeq(s, 1, p - 1)
           b == SubSeq(s, p + 1, Len(s))
<1>1. p \in 1..Len(s) /\ Len(s) \in Nat
  OBVIOUS
<1>2. /\ a \in Seq(Balance) /\ Len(a) = p - 1
      /\ \A i \in 1..(p - 1) : a[i] = s[i]
  BY <1>1
<1>3. /\ b \in Seq(Balance) /\ Len(b) = Len(s) - p
      /\ \A i \in 1..(Len(s) - p) : b[i] = s[p + i]
  BY <1>1
<1>4. RemoveAt(s, p) = a \o b
  BY DEF RemoveAt
<1> HIDE DEF a, b
<1>5. /\ a \o b \in Seq(Balance) /\ Len(a \o b) = Len(a) + Len(b)
      /\ \A i \in 1..(Len(a) + Len(b)) : (a \o b)[i] = IF i <= Len(a) THEN a[i] ELSE b[i - Len(a)]
  BY <1>2, <1>3
<1>6. Len(a \o b) = Len(s) - 1 /\ Len(a) + Len(b) = Len(s) - 1
  BY <1>1, <1>2, <1>3, <1>5
<1>7. ASSUME NEW i \in 1..(Len(s) - 1)
      PROVE  (a \o b)[i] = IF i < p THEN s[i] ELSE s[i + 1]
  <2>1. CASE i < p
    BY <1>1, <1>2, <1>5, <1>6, <2>1
  <2>2. CASE ~(i < p)
    <3> DEFINE k == i - (p - 1)
    <3>1. k \in 1..(Len(s) - p) /\ k = i - Len(a) /\ p + k = i + 1 /\ ~(i <= Len(a))
      BY <1>1, <1>2, <2>2
    <3> HIDE DEF k
    <3>2. (a \o b)[i] = b[k]
      BY <1>5, <1>6, <3>1
    <3>3. b[k] = s[p + k]
      BY <1>3, <3>1
    <3> QED
      BY <2>2, <3>1, <3>2, <3>3
  <2> QED
    BY <2>1, <2>2
<1> QED
  BY <1>4, <1>5, <1>6, <1>7

\* Removing one entry takes its amount out of the total.
LEMMA TotalRemovedAt ==
  ASSUME NEW s \in Seq(Balance), NEW p \in DOMAIN s
  PROVE  /\ RemoveAt(s, p) \in Seq(Balance)
         /\ Total(RemoveAt(s, p)) = Total(s) - s[p]
<1> DEFINE t == RemoveAt(s, p)
           S == DOMAIN s \ {p}
           b == [i \in S |-> IF i < p THEN i ELSE i - 1]
<1>1. /\ t \in Seq(Balance) /\ Len(t) = Len(s) - 1
      /\ \A i \in 1..(Len(s) - 1) : t[i] = IF i < p THEN s[i] ELSE s[i + 1]
  BY RemovedAt
<1>2. p \in 1..Len(s) /\ Len(s) \in Nat /\ DOMAIN s = 1..Len(s) /\ DOMAIN t = 1..(Len(s) - 1)
  BY <1>1
<1> HIDE DEF t
<1>3. b \in [S -> DOMAIN t]
  BY <1>2
<1>4. \A x, y \in S : b[x] = b[y] => x = y
  BY <1>2
<1>5. \A z \in DOMAIN t : \E x \in S : b[x] = z
  <2> SUFFICES ASSUME NEW z \in DOMAIN t PROVE \E x \in S : b[x] = z
    OBVIOUS
  <2>1. CASE z < p
    <3>1. z \in S /\ b[z] = z
      BY <1>2, <2>1
    <3> QED
      BY <3>1
  <2>2. CASE ~(z < p)
    <3>1. z + 1 \in S /\ b[z + 1] = z
      BY <1>2, <2>2
    <3> QED
      BY <3>1
  <2> QED
    BY <2>1, <2>2
<1>6. ASSUME NEW x \in S PROVE t[b[x]] = s[x]
  <2>1. CASE x < p
    BY <1>1, <1>2, <2>1
  <2>2. CASE ~(x < p)
    <3>1. b[x] = x - 1 /\ x - 1 \in 1..(Len(s) - 1) /\ ~(x - 1 < p) /\ (x - 1) + 1 = x
      BY <1>2, <2>2
    <3>2. t[x - 1] = s[(x - 1) + 1]
      BY <1>1, <3>1
    <3> QED
      BY <3>1, <3>2
  <2> QED
    BY <2>1, <2>2
<1>7. /\ IsFiniteSet(DOMAIN s) /\ IsFiniteSet(S) /\ IsFiniteSet(DOMAIN t)
      /\ \A x \in DOMAIN s : s[x] \in Int
  <2>1. IsFiniteSet(1..Len(s)) /\ IsFiniteSet(1..(Len(s) - 1))
    BY <1>2, FS_Interval
  <2> QED
    BY <1>2, <2>1, FS_Subset, BalanceFacts
<1> HIDE DEF b, S
<1>8. SumFunctionOnSet(t, DOMAIN t) = SumFunctionOnSet(s, S)
  <2>1. \A x \in S : s[x] \in Int
    BY <1>7 DEF S
  <2> QED
    BY <1>3, <1>4, <1>5, <1>6, <1>7, <2>1, SumRenamed
<1>9. /\ SumFunctionOnSet(s, S) \in Int
      /\ SumFunctionOnSet(s, DOMAIN s) = s[p] + SumFunctionOnSet(s, S)
  BY <1>7, SumRemove DEF S
<1>10. s[p] \in Int
  BY <1>7
<1> QED
  BY <1>1, <1>8, <1>9, <1>10 DEF Total, SumFunction, t

\* The first entry of an amount.
LEMMA TotalWithoutFirst ==
  ASSUME NEW s \in Seq(Balance), NEW amount, \E i \in DOMAIN s : s[i] = amount
  PROVE  /\ WithoutFirst(s, amount) \in Seq(Balance)
         /\ Total(WithoutFirst(s, amount)) = Total(s) - amount
<1> DEFINE I == {i \in 1..Len(s) : s[i] = amount}
           p == SelectInSeq(s, LAMBDA x : x = amount)
<1>1. I # {} /\ I \subseteq Nat /\ DOMAIN s = 1..Len(s)
  OBVIOUS
<1>2. \E m \in I : \A i \in I : m <= i
  BY <1>1, LeastExists
<1>3. p = Min(I)
  BY <1>1 DEF SelectInSeq
<1>4. p \in I
  BY <1>2, <1>3 DEF Min
<1>5. WithoutFirst(s, amount) = RemoveAt(s, p)
  BY DEF WithoutFirst
<1> HIDE DEF p
<1> QED
  BY <1>1, <1>4, <1>5, TotalRemovedAt

-----------------------------------------------------------------------------
(***************************************************************************)
(* The deposits of an account that are held back, and the first n of them. *)
(***************************************************************************)
FirstAmounts(held, n) == AmountsOf(SubSeq(held, 1, n))

LEMMA FirstFacts ==
  ASSUME NEW held \in Seq(Held), NEW n \in 0..Len(held)
  PROVE  /\ FirstAmounts(held, n) \in Seq(Balance) /\ Len(FirstAmounts(held, n)) = n
         /\ DOMAIN FirstAmounts(held, n) = 1..n
         /\ \A i \in 1..n : FirstAmounts(held, n)[i] = held[i].amount
         /\ Total(FirstAmounts(held, n)) \in Nat
<1> DEFINE s == SubSeq(held, 1, n)
           t == FirstAmounts(held, n)
<1>1. s \in Seq(Held) /\ Len(s) = n /\ DOMAIN s = 1..n /\ \A i \in 1..n : s[i] = held[i]
  OBVIOUS
<1>2. t = [i \in 1..n |-> s[i].amount]
  BY <1>1 DEF FirstAmounts, AmountsOf
<1> HIDE DEF s
<1>3. \A i \in 1..n : s[i].amount \in Balance
  <2>1. \A i \in 1..n : s[i] \in Held
    BY <1>1
  <2>2. \A d \in Held : d.amount \in Balance
    BY DEF Held
  <2> QED
    BY <2>1, <2>2
<1>4. t \in Seq(Balance) /\ Len(t) = n /\ DOMAIN t = 1..n /\ \A i \in 1..n : t[i] = held[i].amount
  <2> HIDE DEF t
  <2> QED
    BY <1>1, <1>2, <1>3
<1> HIDE DEF t
<1> QED
  BY <1>4, TotalType DEF t

LEMMA StillHeldFacts ==
  ASSUME NEW held \in Seq(Held), NEW n \in 0..Len(held)
  PROVE  /\ StillHeld(held, n) \in Seq(Held) /\ Len(StillHeld(held, n)) = Len(held) - n
         /\ \A i \in 1..(Len(held) - n) : StillHeld(held, n)[i] = held[n + i]
BY DEF StillHeld

\* mark_white mints as many as fit; no more than there are, and maybe none.
LEMMA MintableFacts ==
  ASSUME NEW held \in Seq(Held), NEW account, issuance \in Balance, free[account] \in Balance
  PROVE  /\ Mintable(held, account) \in 0..Len(held)
         /\ CanMint(issuance, free[account], Total(FirstAmounts(held, Mintable(held, account))))
<1> DEFINE fits == {n \in 0..Len(held) : CanMint(issuance, free[account], Total(FirstAmounts(held, n)))}
<1>1. Mintable(held, account) = Max(fits)
  BY DEF Mintable, FirstAmounts
<1>2. 0 \in fits
  <2>1. 0 \in 0..Len(held)
    OBVIOUS
  <2>2. DOMAIN FirstAmounts(held, 0) = {}
    BY <2>1, FirstFacts
  <2>3. Total(FirstAmounts(held, 0)) = 0
    BY <2>2, SumOfNone DEF Total, SumFunction
  <2> QED
    BY <2>1, <2>3, BalanceFacts DEF CanMint
<1>3. fits \in SUBSET (0..Len(held)) /\ Len(held) \in Nat
  OBVIOUS
<1> HIDE DEF fits
<1>4. \E m \in fits : \A i \in fits : m >= i
  BY <1>2, <1>3, GreatestExists
<1>5. Max(fits) \in fits
  BY <1>4 DEF Max
<1> QED
  BY <1>1, <1>5 DEF fits

-----------------------------------------------------------------------------
(***************************************************************************)
(* Type correctness, and that the shadow asset adds up to its issuance.    *)
(***************************************************************************)
Supplied == SumOf(free) = issuance
HistoryFinite == IsFiniteSet(DOMAIN history)
StoreInv == TypeOK /\ Supplied /\ HistoryFinite

LEMMA StoreFacts ==
  ASSUME StoreInv
  PROVE  /\ free \in Sheet /\ issuance \in Nat /\ issuance \in Balance /\ SumOf(free) = issuance
         /\ SumOf(free) <= MaxBalance
         /\ \A a \in Accounts : free[a] \in Nat /\ free[a] \in Balance
         /\ \A u \in Users : pendingDeposits[u] \in Seq(Held) /\ pendingWithdraws[u] \in Seq(Balance)
         /\ Users \subseteq Accounts /\ Vault \in Accounts /\ Vault \notin Users
BY BalanceFacts, AccountAssumption DEF StoreInv, TypeOK, Supplied, Sheet

LEMMA StoreInit == Init => StoreInv
<1> SUFFICES ASSUME Init PROVE StoreInv
  OBVIOUS
<1>1. TypeOK
  <2>1. DOMAIN history = {}
    BY DEF Init
  <2>2. << >> \in Seq(Held) /\ << >> \in Seq(Balance)
    OBVIOUS
  <2> QED
    BY <2>1, <2>2, GenesisAssumption DEF Init, TypeOK
<1>2. HistoryFinite
  BY FS_EmptySet DEF Init, HistoryFinite
<1> QED
  BY <1>1, <1>2 DEF StoreInv, Supplied, Init

\* A transfer an account can afford: it moves the amount, and nothing wraps.
LEMMA TransferFacts ==
  ASSUME StoreInv, NEW from \in Accounts, NEW to \in Accounts, NEW amount \in Balance,
         CanTransfer(free, from, amount), free' = AfterTransfer(free, from, to, amount)
  PROVE  /\ free' \in Sheet /\ SumOf(free') = SumOf(free)
         /\ \A a \in Accounts \ {from, to} : free'[a] = free[a]
         /\ from # to => free'[from] = free[from] - amount /\ free'[to] = free[to] + amount
         /\ from = to => free' = free
<1>1. free \in Sheet /\ SumOf(free) <= MaxBalance
  BY StoreFacts
<1>2. /\ free' \in Sheet /\ SumOf(free') = SumOf(free)
      /\ from # to => free' = [free EXCEPT ![from] = @ - amount, ![to] = @ + amount]
  BY <1>1, TransferKeepsSum
<1>3. from = to => free' = free
  BY DEF AfterTransfer
<1> QED
  BY <1>1, <1>2, <1>3 DEF Sheet

\* Minting what fits.
LEMMA MintFacts ==
  ASSUME StoreInv, NEW account \in Users, NEW amount \in Nat,
         CanMint(issuance, free[account], amount),
         free' = SetBalance(free, account, free[account] + amount), issuance' = issuance + amount
  PROVE  /\ free' \in Sheet /\ issuance' \in Balance /\ Supplied'
         /\ \A a \in Accounts \ {account} : free'[a] = free[a]
<1>1. /\ account \in Accounts /\ free \in Sheet /\ free[account] \in Nat /\ issuance \in Nat
      /\ SumOf(free) = issuance
  BY StoreFacts
<1>2. free[account] + amount \in Balance /\ issuance + amount \in Balance
  <2>1. free[account] + amount <= MaxBalance /\ issuance + amount <= MaxBalance
    BY DEF CanMint
  <2> QED
    BY <1>1, <2>1, BalanceFacts
<1>3. /\ free' \in Sheet /\ SumOf(free') = SumOf(free) - free[account] + (free[account] + amount)
  BY <1>1, <1>2, SumUpdate
<1>4. \A a \in Accounts \ {account} : free'[a] = free[a]
  BY <1>1 DEF SetBalance, Sheet
<1> QED
  BY <1>1, <1>2, <1>3, <1>4 DEF Supplied

\* Every action keeps the types, the supply and the history finite.
LEMMA DepositStore ==
  ASSUME StoreInv, NEW admin, NEW account \in Users, NEW amount \in Balance, NEW tx \in TxHashes,
         Deposit(admin, account, amount, tx)
  PROVE  StoreInv'
<1>0. /\ pendingDeposits \in [Users -> Seq(Held)] /\ pendingDeposits[account] \in Seq(Held)
      /\ DOMAIN history \subseteq TxHashes /\ \A t \in DOMAIN history : history[t] \in Entry
      /\ amount \in Nat
  BY BalanceFacts DEF StoreInv, TypeOK
<1>1. DOMAIN history' = DOMAIN history \cup {tx} /\ history' = Recorded(tx, account, amount)
  BY DEF Deposit, Recorded
<1>2. \A t \in DOMAIN history' : history'[t] \in Entry
  <2>1. [account |-> account, amount |-> amount] \in Entry
    BY DEF Entry
  <2>2. \A t \in DOMAIN history' : history'[t] = IF t = tx THEN [account |-> account, amount |-> amount]
                                                 ELSE history[t]
    BY <1>1 DEF Recorded
  <2> QED
    BY <1>0, <1>1, <2>1, <2>2
<1>3. pendingDeposits' \in [Users -> Seq(Held)]
  <2>1. [tx |-> tx, amount |-> amount] \in Held
    BY DEF Held
  <2>2. Append(pendingDeposits[account], [tx |-> tx, amount |-> amount]) \in Seq(Held)
    BY <1>0, <2>1
  <2>3. \/ pendingDeposits' = pendingDeposits
        \/ pendingDeposits' = [pendingDeposits EXCEPT ![account] = Append(@, [tx |-> tx, amount |-> amount])]
    BY DEF Deposit
  <2> QED
    BY <1>0, <2>2, <2>3
<1>4. free' \in Sheet /\ issuance' \in Balance /\ Supplied'
  <2>1. CASE UNCHANGED <<free, issuance>>
    BY <2>1, StoreFacts DEF Supplied
  <2>2. CASE /\ CanMint(issuance, free[account], amount)
             /\ free' = SetBalance(free, account, free[account] + amount)
             /\ issuance' = issuance + amount
    BY <1>0, <2>2, MintFacts
  <2> QED
    BY <2>1, <2>2 DEF Deposit
<1>5. HistoryFinite'
  BY <1>1, FS_AddElement DEF StoreInv, HistoryFinite
<1>6. UNCHANGED <<paused, list, pendingWithdraws>>
  BY DEF Deposit
<1> QED
  BY <1>0, <1>1, <1>2, <1>3, <1>4, <1>5, <1>6 DEF StoreInv, TypeOK

LEMMA MarkWhiteStore ==
  ASSUME StoreInv, NEW admin, NEW account \in Users, MarkWhite(admin, account)
  PROVE  StoreInv'
<1> DEFINE held == pendingDeposits[account]
           n == Mintable(held, account)
           sum == Total(FirstAmounts(held, n))
<1>0. held \in Seq(Held) /\ free[account] \in Balance /\ issuance \in Balance
  BY StoreFacts, AccountAssumption
<1>1. /\ pendingDeposits' = [pendingDeposits EXCEPT ![account] = StillHeld(held, n)]
      /\ free' = SetBalance(free, account, free[account] + sum)
      /\ issuance' = issuance + sum
      /\ list' = IF n = Len(held) THEN [list EXCEPT ![account] = "White"] ELSE list
      /\ UNCHANGED <<paused, history, pendingWithdraws>>
  BY DEF MarkWhite, FirstAmounts
<1> HIDE DEF held
<1>2. n \in 0..Len(held) /\ CanMint(issuance, free[account], sum)
  BY <1>0, MintableFacts
<1> HIDE DEF n
<1>3. sum \in Nat
  BY <1>0, <1>2, FirstFacts
<1>4. StillHeld(held, n) \in Seq(Held)
  BY <1>0, <1>2, StillHeldFacts
<1> HIDE DEF sum
<1>5. free' \in Sheet /\ issuance' \in Balance /\ Supplied'
  BY <1>1, <1>2, <1>3, MintFacts
<1>6. pendingDeposits' \in [Users -> Seq(Held)] /\ list' \in [Users -> {"None", "Black", "White"}]
  BY <1>1, <1>4 DEF StoreInv, TypeOK
<1> QED
  BY <1>1, <1>5, <1>6 DEF StoreInv, TypeOK, HistoryFinite

LEMMA MarkBlackStore ==
  ASSUME StoreInv, NEW admin, NEW account \in Users, MarkBlack(admin, account)
  PROVE  StoreInv'
<1>1. << >> \in Seq(Held)
  OBVIOUS
<1>2. pendingDeposits' \in [Users -> Seq(Held)] /\ list' \in [Users -> {"None", "Black", "White"}]
  BY <1>1 DEF StoreInv, TypeOK, MarkBlack
<1>3. /\ DOMAIN history' \subseteq DOMAIN history
      /\ \A t \in DOMAIN history' : history'[t] = history[t]
  BY DEF MarkBlack
<1>4. HistoryFinite'
  BY <1>3, FS_Subset DEF StoreInv, HistoryFinite
<1>5. UNCHANGED <<free, issuance, paused, pendingWithdraws>>
  BY DEF MarkBlack
<1>6. \A t \in DOMAIN history' : history'[t] \in Entry
  BY <1>3 DEF StoreInv, TypeOK
<1> QED
  BY <1>2, <1>3, <1>4, <1>5, <1>6 DEF StoreInv, TypeOK, Supplied

\* What only moves the asset and what is pending.
LEMMA MoveStore ==
  ASSUME StoreInv, NEW from \in Accounts, NEW to \in Accounts, NEW amount \in Balance,
         CanTransfer(free, from, amount), free' = AfterTransfer(free, from, to, amount),
         pendingWithdraws' \in [Users -> Seq(Balance)],
         UNCHANGED <<issuance, paused, list, pendingDeposits, history>>
  PROVE  StoreInv'
<1>1. free' \in Sheet /\ SumOf(free') = SumOf(free)
  BY TransferFacts
<1> QED
  BY <1>1 DEF StoreInv, TypeOK, Supplied, HistoryFinite

\* What an action does to the withdrawals of an account.
LEMMA WithdrawsFacts ==
  ASSUME StoreInv, NEW who \in Users, NEW amount \in Balance
  PROVE  /\ \A s \in Seq(Balance) : [pendingWithdraws EXCEPT ![who] = s] \in [Users -> Seq(Balance)]
         /\ Append(pendingWithdraws[who], amount) \in Seq(Balance)
         /\ Total(Append(pendingWithdraws[who], amount)) = Total(pendingWithdraws[who]) + amount
         /\ IsPending(who, amount) =>
              /\ WithoutFirst(pendingWithdraws[who], amount) \in Seq(Balance)
              /\ Total(WithoutFirst(pendingWithdraws[who], amount)) = Total(pendingWithdraws[who]) - amount
              /\ amount <= Total(pendingWithdraws[who])
<1>1. pendingWithdraws \in [Users -> Seq(Balance)] /\ pendingWithdraws[who] \in Seq(Balance)
  BY DEF StoreInv, TypeOK
<1>2. \A s \in Seq(Balance) : [pendingWithdraws EXCEPT ![who] = s] \in [Users -> Seq(Balance)]
  BY <1>1
<1>3. /\ Append(pendingWithdraws[who], amount) \in Seq(Balance)
      /\ Total(Append(pendingWithdraws[who], amount)) = Total(pendingWithdraws[who]) + amount
  BY <1>1, TotalAppended
<1>4. ASSUME IsPending(who, amount)
      PROVE  /\ WithoutFirst(pendingWithdraws[who], amount) \in Seq(Balance)
             /\ Total(WithoutFirst(pendingWithdraws[who], amount)) = Total(pendingWithdraws[who]) - amount
             /\ amount <= Total(pendingWithdraws[who])
  <2>1. \E i \in DOMAIN pendingWithdraws[who] : pendingWithdraws[who][i] = amount
    BY <1>4 DEF IsPending
  <2>2. amount <= Total(pendingWithdraws[who])
    BY <1>1, <2>1, TotalType
  <2> QED
    BY <1>1, <2>1, <2>2, TotalWithoutFirst
<1> QED
  BY <1>2, <1>3, <1>4

LEMMA MovesStore ==
  ASSUME StoreInv, NEW who \in Users, NEW amount \in Balance
  PROVE  /\ Withdraw(who, amount) => StoreInv'
         /\ \A to \in Users : Transfer(who, to, amount) => StoreInv'
         /\ \A admin : Refund(admin, who, amount) => StoreInv'
         /\ \A admin : WithdrawFinish(admin, who, amount) => StoreInv'
<1>0. who \in Accounts /\ Vault \in Accounts /\ Users \subseteq Accounts
  BY AccountAssumption
<1>1. ASSUME Withdraw(who, amount) PROVE StoreInv'
  <2>1. pendingWithdraws' \in [Users -> Seq(Balance)]
    BY <1>1, WithdrawsFacts DEF Withdraw
  <2> QED
    BY <1>0, <1>1, <2>1, MoveStore DEF Withdraw
<1>2. ASSUME NEW to \in Users, Transfer(who, to, amount) PROVE StoreInv'
  <2>1. pendingWithdraws' \in [Users -> Seq(Balance)] /\ to \in Accounts
    BY <1>0, <1>2 DEF Transfer, StoreInv, TypeOK
  <2> QED
    BY <1>0, <1>2, <2>1, MoveStore DEF Transfer
<1>3. ASSUME NEW admin, Refund(admin, who, amount) PROVE StoreInv'
  <2>1. pendingWithdraws' \in [Users -> Seq(Balance)]
    BY <1>3, WithdrawsFacts DEF Refund
  <2> QED
    BY <1>0, <1>3, <2>1, MoveStore DEF Refund
<1>4. ASSUME NEW admin, WithdrawFinish(admin, who, amount) PROVE StoreInv'
  <2>1. pendingWithdraws' \in [Users -> Seq(Balance)]
    BY <1>4, WithdrawsFacts DEF WithdrawFinish
  <2> QED
    BY <1>4, <2>1 DEF WithdrawFinish, StoreInv, TypeOK, Supplied, HistoryFinite
<1> QED
  BY <1>1, <1>2, <1>3, <1>4

LEMMA StoreNext == StoreInv /\ [Next]_vars => StoreInv'
<1> SUFFICES ASSUME StoreInv, [Next]_vars PROVE StoreInv'
  OBVIOUS
<1>0. \A amount \in Amounts : amount \in Balance
  BY AmountAssumption
<1>1. CASE UNCHANGED vars
  BY <1>1 DEF vars, StoreInv, TypeOK, Supplied, HistoryFinite
<1>2. ASSUME NEW b \in BOOLEAN, SetPaused(b) PROVE StoreInv'
  BY <1>2 DEF SetPaused, StoreInv, TypeOK, Supplied, HistoryFinite
<1>3. ASSUME NEW who \in Users, NEW amount \in Amounts, NEW admin,
             \/ Withdraw(who, amount)
             \/ \E to \in Users : Transfer(who, to, amount)
             \/ Refund(admin, who, amount)
             \/ WithdrawFinish(admin, who, amount)
             \/ \E tx \in TxHashes : Deposit(admin, who, amount, tx)
      PROVE  StoreInv'
  BY <1>0, <1>3, MovesStore, DepositStore
<1>4. ASSUME NEW admin, NEW who \in Users, MarkWhite(admin, who) \/ MarkBlack(admin, who)
      PROVE  StoreInv'
  BY <1>4, MarkWhiteStore, MarkBlackStore
<1> QED
  BY <1>1, <1>2, <1>3, <1>4 DEF Next

-----------------------------------------------------------------------------
(***************************************************************************)
(* Deposits held back: each is in the history under its account and        *)
(* amount, and no list has one twice. It is these two that make the books  *)
(* of the deposits inductive: a transaction that is reported is new to all *)
(* lists, and one that is minted or forgotten leaves no copy of itself.    *)
(***************************************************************************)
HeldInHistory ==
  \A u \in Users : \A i \in DOMAIN pendingDeposits[u] :
    LET d == pendingDeposits[u][i] IN
    /\ d.tx \in DOMAIN history
    /\ history[d.tx] = [account |-> u, amount |-> d.amount]

HeldOnce ==
  \A u \in Users : \A i, j \in DOMAIN pendingDeposits[u] :
    pendingDeposits[u][i].tx = pendingDeposits[u][j].tx => i = j

DepositInv == StoreInv /\ HeldInHistory /\ HeldOnce

AllHeldTxs == UNION {HeldTxs(u) : u \in Users}

\* No transaction is held for two accounts, and none that the history lacks.
LEMMA HeldFacts ==
  ASSUME DepositInv
  PROVE  /\ AllHeldTxs \subseteq DOMAIN history
         /\ \A u, v \in Users : u # v => HeldTxs(u) \cap HeldTxs(v) = {}
         /\ \A u \in Users : \A t \in HeldTxs(u) : history[t].account = u
<1>1. ASSUME NEW u \in Users, NEW t \in HeldTxs(u)
      PROVE  t \in DOMAIN history /\ history[t].account = u
  <2>1. PICK i \in DOMAIN pendingDeposits[u] : t = pendingDeposits[u][i].tx
    BY <1>1 DEF HeldTxs
  <2>2. /\ pendingDeposits[u][i].tx \in DOMAIN history
        /\ history[pendingDeposits[u][i].tx] = [account |-> u, amount |-> pendingDeposits[u][i].amount]
    BY DEF DepositInv, HeldInHistory
  <2>3. [account |-> u, amount |-> pendingDeposits[u][i].amount].account = u
    OBVIOUS
  <2> QED
    BY <2>1, <2>2, <2>3
<1>2. \A u, v \in Users : u # v => HeldTxs(u) \cap HeldTxs(v) = {}
  <2> SUFFICES ASSUME NEW u \in Users, NEW v \in Users, NEW t \in HeldTxs(u) \cap HeldTxs(v)
               PROVE  u = v
    OBVIOUS
  <2> QED
    BY <1>1
<1> QED
  BY <1>1, <1>2 DEF AllHeldTxs

\* The union changes as one account's set does.
LEMMA AllHeldChange ==
  ASSUME NEW account \in Users, \A u \in Users \ {account} : HeldTxs(u)' = HeldTxs(u)
  PROVE  AllHeldTxs' = HeldTxs(account)' \cup UNION {HeldTxs(u) : u \in Users \ {account}}
<1>1. AllHeldTxs' = UNION {HeldTxs(u)' : u \in Users}
  BY DEF AllHeldTxs, HeldTxs
<1>2. ASSUME NEW t \in UNION {HeldTxs(u)' : u \in Users}
      PROVE  t \in HeldTxs(account)' \cup UNION {HeldTxs(u) : u \in Users \ {account}}
  <2>1. PICK u \in Users : t \in HeldTxs(u)'
    BY <1>2
  <2>2. CASE u = account
    BY <2>1, <2>2
  <2>3. CASE u # account
    <3>1. t \in HeldTxs(u) /\ u \in Users \ {account}
      BY <2>1, <2>3
    <3> QED
      BY <3>1
  <2> QED
    BY <2>2, <2>3
<1>3. ASSUME NEW t \in HeldTxs(account)' \cup UNION {HeldTxs(u) : u \in Users \ {account}}
      PROVE  t \in UNION {HeldTxs(u)' : u \in Users}
  <2>1. CASE t \in HeldTxs(account)'
    BY <2>1
  <2>2. CASE t \in UNION {HeldTxs(u) : u \in Users \ {account}}
    <3>1. PICK u \in Users \ {account} : t \in HeldTxs(u)
      BY <2>2
    <3>2. t \in HeldTxs(u)'
      BY <3>1
    <3> QED
      BY <3>2
  <2> QED
    BY <1>3, <2>1, <2>2
<1> QED
  BY <1>1, <1>2, <1>3

\* A deposit is held back, or else no list changes.
LEMMA DepositHeld ==
  ASSUME DepositInv, NEW admin, NEW account \in Users, NEW amount \in Balance, NEW tx \in TxHashes,
         Deposit(admin, account, amount, tx)
  PROVE  /\ HeldInHistory' /\ HeldOnce'
         /\ \/ AllHeldTxs' = AllHeldTxs \cup {tx} /\ issuance' = issuance
            \/ AllHeldTxs' = AllHeldTxs /\ issuance' \in {issuance, issuance + amount}
<1> DEFINE d == [tx |-> tx, amount |-> amount]
           e == [account |-> account, amount |-> amount]
<1>0. /\ tx \notin DOMAIN history
      /\ DOMAIN history' = DOMAIN history \cup {tx}
      /\ history'[tx] = e
      /\ \A t \in DOMAIN history : t # tx /\ history'[t] = history[t]
  <2>1. tx \notin DOMAIN history /\ history' = Recorded(tx, account, amount)
    BY DEF Deposit
  <2> QED
    BY <2>1 DEF Recorded
<1>1. pendingDeposits \in [Users -> Seq(Held)] /\ pendingDeposits[account] \in Seq(Held)
  BY DEF DepositInv, StoreInv, TypeOK
<1>2. d.tx = tx /\ d.amount = amount
  OBVIOUS
<1>3. /\ \A u \in Users : \A i \in DOMAIN pendingDeposits[u] :
           /\ pendingDeposits[u][i].tx \in DOMAIN history
           /\ history[pendingDeposits[u][i].tx] = [account |-> u, amount |-> pendingDeposits[u][i].amount]
      /\ HeldOnce
  BY DEF DepositInv, HeldInHistory
<1> HIDE DEF d, e
<1>4. CASE UNCHANGED pendingDeposits /\ issuance' \in {issuance, issuance + amount}
  <2>1. AllHeldTxs' = AllHeldTxs
    BY <1>4 DEF AllHeldTxs, HeldTxs
  <2>2. HeldOnce'
    BY <1>3, <1>4 DEF HeldOnce
  <2>3. HeldInHistory'
    BY <1>0, <1>3, <1>4 DEF HeldInHistory
  <2> QED
    BY <1>4, <2>1, <2>2, <2>3
<1>5. CASE /\ pendingDeposits' = [pendingDeposits EXCEPT ![account] = Append(@, d)]
           /\ issuance' = issuance
  <2> DEFINE p == pendingDeposits[account]
             n == Len(p) + 1
  <2>1. /\ DOMAIN Append(p, d) = DOMAIN p \cup {n} /\ n \notin DOMAIN p
        /\ Append(p, d)[n] = d /\ \A i \in DOMAIN p : Append(p, d)[i] = p[i]
    BY <1>1
  <2>2. /\ \A u \in Users \ {account} : pendingDeposits'[u] = pendingDeposits[u]
        /\ pendingDeposits'[account] = Append(p, d)
    BY <1>1, <1>5
  <2> DEFINE q == Append(p, d)
  <2> HIDE DEF n, q
  <2>3. /\ DOMAIN q = DOMAIN p \cup {n} /\ n \notin DOMAIN p /\ q[n] = d /\ pendingDeposits'[account] = q
        /\ \A i \in DOMAIN p : q[i] = p[i] /\ p[i].tx \in DOMAIN history /\ p[i].tx # tx
    BY <1>0, <1>3, <2>1, <2>2 DEF q
  <2>4. HeldInHistory'
    <3> SUFFICES ASSUME NEW u \in Users, NEW i \in DOMAIN pendingDeposits'[u]
                 PROVE  /\ pendingDeposits'[u][i].tx \in DOMAIN history'
                        /\ history'[pendingDeposits'[u][i].tx]
                             = [account |-> u, amount |-> pendingDeposits'[u][i].amount]
      BY DEF HeldInHistory
    <3>1. CASE u # account
      BY <1>0, <1>3, <2>2, <3>1
    <3>2. CASE u = account /\ i = n
      BY <1>0, <1>2, <2>3, <3>2 DEF e
    <3>3. CASE u = account /\ i # n
      <4>1. i \in DOMAIN p /\ pendingDeposits'[u][i] = p[i]
        BY <2>3, <3>3
      <4> QED
        BY <1>0, <1>3, <3>3, <4>1
    <3> QED
      BY <3>1, <3>2, <3>3
  <2>5. HeldOnce'
    <3> SUFFICES ASSUME NEW u \in Users, NEW i \in DOMAIN pendingDeposits'[u],
                        NEW j \in DOMAIN pendingDeposits'[u],
                        pendingDeposits'[u][i].tx = pendingDeposits'[u][j].tx
                 PROVE  i = j
      BY DEF HeldOnce
    <3>1. CASE u # account
      BY <1>3, <2>2, <3>1 DEF HeldOnce
    <3>2. CASE u = account
      <4>1. \A k, l \in DOMAIN p : p[k].tx = p[l].tx => k = l
        BY <1>3 DEF HeldOnce
      <4>2. i \in DOMAIN q /\ j \in DOMAIN q /\ q[i].tx = q[j].tx
        BY <2>3, <3>2
      <4> QED
        BY <1>2, <2>3, <4>1, <4>2
    <3> QED
      BY <3>1, <3>2
  <2>6. HeldTxs(account)' = HeldTxs(account) \cup {tx}
    <3>1. HeldTxs(account)' = {q[i].tx : i \in DOMAIN q}
      BY <2>3 DEF HeldTxs
    <3>2. HeldTxs(account) = {p[i].tx : i \in DOMAIN p}
      BY DEF HeldTxs
    <3>3. q[n].tx = tx /\ n \in DOMAIN q
      BY <1>2, <2>3
    <3> HIDE DEF p
    <3>4. {q[i].tx : i \in DOMAIN q} = {p[i].tx : i \in DOMAIN p} \cup {tx}
      BY <2>3, <3>3
    <3> QED
      BY <3>1, <3>2, <3>4
  <2>7. \A u \in Users \ {account} : HeldTxs(u)' = HeldTxs(u)
    BY <2>2 DEF HeldTxs
  <2>8. AllHeldTxs' = (HeldTxs(account) \cup {tx}) \cup UNION {HeldTxs(u) : u \in Users \ {account}}
    BY <2>6, <2>7, AllHeldChange
  <2>9. AllHeldTxs = HeldTxs(account) \cup UNION {HeldTxs(u) : u \in Users \ {account}}
    BY DEF AllHeldTxs
  <2> QED
    BY <1>5, <2>4, <2>5, <2>8, <2>9
<1> QED
  BY <1>4, <1>5 DEF Deposit, d

\* A report, in the terms of DepositOnce.
LEMMA DepositReports ==
  ASSUME DepositInv, NEW admin, NEW account \in Users, NEW amount \in Balance, NEW tx \in TxHashes,
         Deposit(admin, account, amount, tx)
  PROVE  DO!Report(tx, amount)
<1>1. tx \notin DOMAIN history /\ history' = Recorded(tx, account, amount)
  BY DEF Deposit
<1>2. DOMAIN history' = DOMAIN history \cup {tx}
  BY <1>1 DEF Recorded
<1>3. Reported' = [t \in DOMAIN Reported \cup {tx} |-> IF t = tx THEN amount ELSE Reported[t]]
  <2>1. \A t \in DOMAIN history' : history'[t].amount = IF t = tx THEN amount ELSE history[t].amount
    <3>1. [account |-> account, amount |-> amount].amount = amount
      OBVIOUS
    <3> QED
      BY <1>1, <1>2, <3>1 DEF Recorded
  <2>2. Reported' = [t \in DOMAIN history' |-> history'[t].amount] /\ DOMAIN Reported = DOMAIN history
    BY DEF Reported
  <2>3. \A t \in DOMAIN history : Reported[t] = history[t].amount
    BY DEF Reported
  <2> QED
    BY <1>1, <1>2, <2>1, <2>2, <2>3
<1>4. \/ AllHeldTxs' = AllHeldTxs \cup {tx} /\ issuance' = issuance
      \/ AllHeldTxs' = AllHeldTxs /\ issuance' \in {issuance, issuance + amount}
  BY DepositHeld
<1>5. issuance \in Nat /\ SumOf(GenesisFree) \in Nat /\ amount \in Nat
  BY StoreFacts, BalanceFacts, GenesisAssumption DEF DepositInv
<1>6. \/ AllHeldTxs' = AllHeldTxs \cup {tx} /\ issuance' - SumOf(GenesisFree) = issuance - SumOf(GenesisFree)
      \/ /\ AllHeldTxs' = AllHeldTxs
         /\ issuance' - SumOf(GenesisFree) \in {issuance - SumOf(GenesisFree),
                                                (issuance - SumOf(GenesisFree)) + amount}
  <2>1. CASE issuance' = issuance
    BY <1>4, <2>1
  <2>2. CASE issuance' = issuance + amount /\ AllHeldTxs' = AllHeldTxs
    BY <1>5, <2>2
  <2> QED
    BY <1>4, <2>1, <2>2
<1> QED
  BY <1>1, <1>2, <1>3, <1>6 DEF DO!Report, AllHeldTxs

\* What is released or forgotten, the first n deposits held for an account.
FirstTxs(held, n) == {held[i].tx : i \in 1..n}

\* Their amounts, counted by position or by transaction.
LEMMA FirstWorth ==
  ASSUME DepositInv, NEW account \in Users, NEW n \in 0..Len(pendingDeposits[account])
  PROVE  /\ FirstTxs(pendingDeposits[account], n) \subseteq HeldTxs(account)
         /\ IsFiniteSet(FirstTxs(pendingDeposits[account], n))
         /\ SumFunctionOnSet(Reported, FirstTxs(pendingDeposits[account], n))
              = Total(FirstAmounts(pendingDeposits[account], n))
<1> DEFINE held == pendingDeposits[account]
           T == FirstTxs(held, n)
           b == [i \in 1..n |-> held[i].tx]
           f == FirstAmounts(held, n)
<1>0. held \in Seq(Held) /\ Len(held) \in Nat /\ DOMAIN held = 1..Len(held) /\ n \in Nat
      /\ n \in 0..Len(held)
  BY DEF DepositInv, StoreInv, TypeOK
<1>1. \A i \in 1..n : i \in DOMAIN held
  BY <1>0
<1>2. /\ \A i \in DOMAIN held : /\ held[i].tx \in DOMAIN history
                                /\ history[held[i].tx] = [account |-> account, amount |-> held[i].amount]
      /\ \A i, j \in DOMAIN held : held[i].tx = held[j].tx => i = j
  BY DEF DepositInv, HeldInHistory, HeldOnce
<1>3. T \subseteq HeldTxs(account)
  BY <1>1 DEF FirstTxs, HeldTxs
<1>4. IsFiniteSet(1..n) /\ IsFiniteSet(T)
  <2>1. IsFiniteSet(1..n)
    BY <1>0, FS_Interval
  <2>2. T \subseteq DOMAIN history
    BY <1>1, <1>2 DEF FirstTxs
  <2> QED
    BY <2>1, <2>2, FS_Subset DEF DepositInv, StoreInv, HistoryFinite
<1>5. \A i \in 1..n : Reported[b[i]] = held[i].amount
  <2> SUFFICES ASSUME NEW i \in 1..n PROVE Reported[b[i]] = held[i].amount
    OBVIOUS
  <2>1. /\ held[i].tx \in DOMAIN history
        /\ history[held[i].tx] = [account |-> account, amount |-> held[i].amount]
    BY <1>1, <1>2
  <2>2. [account |-> account, amount |-> held[i].amount].amount = held[i].amount
    OBVIOUS
  <2> QED
    BY <2>1, <2>2 DEF Reported
<1>6. DOMAIN f = 1..n /\ \A i \in 1..n : f[i] = held[i].amount /\ f[i] \in Int
  <2> HIDE DEF held
  <2>1. /\ f \in Seq(Balance) /\ DOMAIN f = 1..n /\ \A i \in 1..n : f[i] = held[i].amount
    BY <1>0, FirstFacts
  <2> HIDE DEF f
  <2>2. \A i \in 1..n : f[i] \in Balance
    BY <2>1
  <2> QED
    BY <2>1, <2>2, BalanceFacts
<1>7. b \in [1..n -> T] /\ \A z \in T : \E i \in 1..n : b[i] = z
  BY DEF FirstTxs
<1>8. \A i, j \in 1..n : b[i] = b[j] => i = j
  BY <1>1, <1>2
<1> DEFINE S == 1..n
<1> HIDE DEF held, T, b, f
<1>9. SumFunctionOnSet(Reported, T) = SumFunctionOnSet(f, S)
  <2>1. \A i \in S : Reported[b[i]] = f[i]
    BY <1>5, <1>6
  <2>2. \A i \in S : f[i] \in Int
    BY <1>6
  <2>3. b \in [S -> T] /\ (\A z \in T : \E i \in S : b[i] = z) /\ (\A i, j \in S : b[i] = b[j] => i = j)
    BY <1>7, <1>8
  <2>4. IsFiniteSet(S) /\ IsFiniteSet(T)
    BY <1>4
  <2> HIDE DEF S
  <2> QED
    BY <2>1, <2>2, <2>3, <2>4, SumRenamed
<1>10. Total(f) = SumFunctionOnSet(f, 1..n)
  BY <1>6 DEF Total, SumFunction
<1> QED
  BY <1>3, <1>4, <1>9, <1>10 DEF held, T, f

\* mark_white releases the first of them; where minting fails the rest stays.
LEMMA MarkWhiteReleases ==
  ASSUME DepositInv, NEW admin, NEW account \in Users, MarkWhite(admin, account)
  PROVE  /\ HeldInHistory' /\ HeldOnce'
         /\ \E txs \in SUBSET AllHeldTxs : DO!Release(txs)
<1> DEFINE held == pendingDeposits[account]
           n == Mintable(held, account)
           sum == Total(FirstAmounts(held, n))
           rest == StillHeld(held, n)
           T == FirstTxs(held, n)
<1>0. /\ held \in Seq(Held) /\ Len(held) \in Nat /\ DOMAIN held = 1..Len(held)
      /\ pendingDeposits \in [Users -> Seq(Held)]
      /\ free[account] \in Balance /\ issuance \in Balance
      /\ \A i, j \in DOMAIN held : held[i].tx = held[j].tx => i = j
  BY AccountAssumption DEF DepositInv, StoreInv, TypeOK, Sheet, HeldOnce
<1>1. /\ pendingDeposits' = [pendingDeposits EXCEPT ![account] = rest]
      /\ issuance' = issuance + sum
      /\ history' = history
  BY DEF MarkWhite, FirstAmounts
<1>2. n \in 0..Len(held)
  <2> HIDE DEF held
  <2> QED
    BY <1>0, MintableFacts
<1> HIDE DEF n
<1>3. T \subseteq HeldTxs(account) /\ SumFunctionOnSet(Reported, T) = sum
  BY <1>2, FirstWorth
<1>4. /\ Len(rest) = Len(held) - n /\ DOMAIN rest = 1..(Len(held) - n)
      /\ \A i \in 1..(Len(held) - n) : rest[i] = held[n + i]
  <2> HIDE DEF held
  <2>1. /\ rest \in Seq(Held) /\ Len(rest) = Len(held) - n
        /\ \A i \in 1..(Len(held) - n) : rest[i] = held[n + i]
    BY <1>0, <1>2, StillHeldFacts
  <2> HIDE DEF rest
  <2> QED
    BY <2>1
<1> HIDE DEF rest, sum
<1>5. /\ pendingDeposits'[account] = rest
      /\ \A u \in Users \ {account} : pendingDeposits'[u] = pendingDeposits[u]
  BY <1>0, <1>1
<1>6. \A i \in DOMAIN rest : n + i \in DOMAIN held /\ rest[i] = held[n + i]
  BY <1>0, <1>2, <1>4
<1>7. HeldInHistory'
  <2> SUFFICES ASSUME NEW u \in Users, NEW i \in DOMAIN pendingDeposits'[u]
               PROVE  /\ pendingDeposits'[u][i].tx \in DOMAIN history
                      /\ history[pendingDeposits'[u][i].tx]
                           = [account |-> u, amount |-> pendingDeposits'[u][i].amount]
    BY <1>1 DEF HeldInHistory
  <2>1. CASE u # account
    BY <1>5, <2>1 DEF DepositInv, HeldInHistory
  <2>2. CASE u = account
    <3>1. n + i \in DOMAIN pendingDeposits[account] /\ pendingDeposits'[u][i] = pendingDeposits[account][n + i]
      BY <1>5, <1>6, <2>2
    <3> QED
      BY <2>2, <3>1 DEF DepositInv, HeldInHistory
  <2> QED
    BY <2>1, <2>2
<1>8. HeldOnce'
  <2> SUFFICES ASSUME NEW u \in Users, NEW i \in DOMAIN pendingDeposits'[u],
                      NEW j \in DOMAIN pendingDeposits'[u],
                      pendingDeposits'[u][i].tx = pendingDeposits'[u][j].tx
               PROVE  i = j
    BY DEF HeldOnce
  <2>1. CASE u # account
    BY <1>5, <2>1 DEF DepositInv, HeldOnce
  <2>2. CASE u = account
    <3>1. i \in DOMAIN rest /\ j \in DOMAIN rest /\ rest[i].tx = rest[j].tx
      BY <1>5, <2>2
    <3>2. held[n + i].tx = held[n + j].tx /\ n + i \in DOMAIN held /\ n + j \in DOMAIN held
      BY <1>6, <3>1
    <3>3. n + i = n + j
      BY <1>0, <3>2
    <3>4. n \in Int /\ i \in Int /\ j \in Int
      BY <1>0, <1>2, <1>4, <3>1
    <3> QED
      BY <3>3, <3>4
  <2> QED
    BY <2>1, <2>2
<1>9. HeldTxs(account)' = HeldTxs(account) \ T
  <2>1. HeldTxs(account)' = {rest[i].tx : i \in DOMAIN rest}
    BY <1>5 DEF HeldTxs
  <2>2. HeldTxs(account) = {held[i].tx : i \in DOMAIN held} /\ T = {held[i].tx : i \in 1..n}
    BY DEF HeldTxs, FirstTxs
  <2>3. ASSUME NEW t \in {rest[i].tx : i \in DOMAIN rest}
        PROVE  t \in {held[i].tx : i \in DOMAIN held} \ {held[i].tx : i \in 1..n}
    <3>1. PICK i \in DOMAIN rest : t = rest[i].tx
      OBVIOUS
    <3>2. n + i \in DOMAIN held /\ t = held[n + i].tx
      BY <1>6, <3>1
    <3>3. ASSUME NEW j \in 1..n PROVE t # held[j].tx
      <4>1. j \in DOMAIN held /\ n + i # j
        BY <1>0, <1>2, <1>4, <3>1
      <4> QED
        BY <1>0, <3>2, <4>1
    <3> QED
      BY <3>2, <3>3
  <2>4. ASSUME NEW t \in {held[i].tx : i \in DOMAIN held} \ {held[i].tx : i \in 1..n}
        PROVE  t \in {rest[i].tx : i \in DOMAIN rest}
    <3>1. PICK j \in DOMAIN held : t = held[j].tx
      OBVIOUS
    <3>2. j \notin 1..n
      BY <3>1
    <3>3. j - n \in DOMAIN rest /\ n + (j - n) = j
      BY <1>0, <1>2, <1>4, <3>2
    <3>4. rest[j - n] = held[j]
      BY <1>6, <3>3
    <3> QED
      BY <3>1, <3>3, <3>4
  <2> QED
    BY <2>1, <2>2, <2>3, <2>4
<1>10. AllHeldTxs' = AllHeldTxs \ T
  <2>1. \A u \in Users \ {account} : HeldTxs(u)' = HeldTxs(u)
    BY <1>5 DEF HeldTxs
  <2>2. AllHeldTxs' = (HeldTxs(account) \ T) \cup UNION {HeldTxs(u) : u \in Users \ {account}}
    BY <1>9, <2>1, AllHeldChange
  <2>3. AllHeldTxs = HeldTxs(account) \cup UNION {HeldTxs(u) : u \in Users \ {account}}
    BY DEF AllHeldTxs
  <2>4. \A u \in Users \ {account} : HeldTxs(u) \cap T = {}
    BY <1>3, HeldFacts
  <2> HIDE DEF T
  <2> QED
    BY <1>3, <2>2, <2>3, <2>4
<1>11. issuance' - SumOf(GenesisFree) = (issuance - SumOf(GenesisFree)) + sum
  <2>1. issuance \in Int /\ SumOf(GenesisFree) \in Int
    BY <1>0, BalanceFacts, GenesisAssumption
  <2>2. sum \in Int
    <3> HIDE DEF held
    <3> QED
      BY <1>0, <1>2, FirstFacts DEF sum
  <2> QED
    BY <1>1, <2>1, <2>2
<1>12. T \subseteq AllHeldTxs
  BY <1>3 DEF AllHeldTxs
<1>13. DO!Worth(T) = SumFunctionOnSet(Reported, T)
  BY DEF DO!Worth, DO!SumFunctionOnSet, DO!FoldFunctionOnSet, DO!MapThenFoldSet,
         SumFunctionOnSet, FoldFunctionOnSet, MapThenFoldSet
<1>14. Reported' = Reported
  BY <1>1 DEF Reported
<1> HIDE DEF T
<1>15. DO!Release(T)
  BY <1>1, <1>3, <1>10, <1>11, <1>12, <1>13, <1>14 DEF DO!Release, AllHeldTxs
<1> QED
  BY <1>7, <1>8, <1>12, <1>15

\* mark_black forgets all that is held for the account.
LEMMA MarkBlackForgets ==
  ASSUME DepositInv, NEW admin, NEW account \in Users, MarkBlack(admin, account)
  PROVE  /\ HeldInHistory' /\ HeldOnce'
         /\ \E txs \in SUBSET AllHeldTxs : DO!Forget(txs)
<1> DEFINE T == HeldTxs(account)
<1>1. /\ pendingDeposits' = [pendingDeposits EXCEPT ![account] = << >>]
      /\ history' = [t \in DOMAIN history \ T |-> history[t]]
      /\ issuance' = issuance
  BY DEF MarkBlack, HeldTxs
<1>2. /\ pendingDeposits'[account] = << >>
      /\ \A u \in Users \ {account} : pendingDeposits'[u] = pendingDeposits[u]
  BY <1>1 DEF DepositInv, StoreInv, TypeOK
<1>3. T \subseteq DOMAIN history /\ T \subseteq AllHeldTxs /\ \A u \in Users \ {account} : HeldTxs(u) \cap T = {}
  BY HeldFacts DEF AllHeldTxs
<1>4. DOMAIN history' = DOMAIN history \ T /\ \A t \in DOMAIN history \ T : history'[t] = history[t]
  BY <1>1
<1>5. DOMAIN pendingDeposits'[account] = {}
  BY <1>2
<1>6. HeldInHistory'
  <2> SUFFICES ASSUME NEW u \in Users, NEW i \in DOMAIN pendingDeposits'[u]
               PROVE  /\ pendingDeposits'[u][i].tx \in DOMAIN history'
                      /\ history'[pendingDeposits'[u][i].tx]
                           = [account |-> u, amount |-> pendingDeposits'[u][i].amount]
    BY DEF HeldInHistory
  <2>1. u # account /\ pendingDeposits'[u] = pendingDeposits[u]
    BY <1>2, <1>5
  <2>2. /\ pendingDeposits[u][i].tx \in DOMAIN history
        /\ history[pendingDeposits[u][i].tx] = [account |-> u, amount |-> pendingDeposits[u][i].amount]
    BY <2>1 DEF DepositInv, HeldInHistory
  <2>3. pendingDeposits[u][i].tx \in HeldTxs(u)
    BY <2>1 DEF HeldTxs
  <2> HIDE DEF T
  <2> QED
    BY <1>3, <1>4, <2>1, <2>2, <2>3
<1>7. HeldOnce'
  <2> SUFFICES ASSUME NEW u \in Users, NEW i \in DOMAIN pendingDeposits'[u],
                      NEW j \in DOMAIN pendingDeposits'[u],
                      pendingDeposits'[u][i].tx = pendingDeposits'[u][j].tx
               PROVE  i = j
    BY DEF HeldOnce
  <2>1. u # account /\ pendingDeposits'[u] = pendingDeposits[u]
    BY <1>2, <1>5
  <2> QED
    BY <2>1 DEF DepositInv, HeldOnce
<1>8. AllHeldTxs' = AllHeldTxs \ T
  <2>1. HeldTxs(account)' = {}
    BY <1>2, <1>5 DEF HeldTxs
  <2>2. \A u \in Users \ {account} : HeldTxs(u)' = HeldTxs(u)
    BY <1>2 DEF HeldTxs
  <2>3. AllHeldTxs' = UNION {HeldTxs(u) : u \in Users \ {account}}
    BY <2>1, <2>2, AllHeldChange
  <2>4. AllHeldTxs = T \cup UNION {HeldTxs(u) : u \in Users \ {account}}
    BY DEF AllHeldTxs
  <2> HIDE DEF T
  <2> QED
    BY <1>3, <2>3, <2>4
<1>9. DOMAIN history \subseteq TxHashes
  BY DEF DepositInv, StoreInv, TypeOK
<1>10. Reported' = [t \in DOMAIN Reported \ T |-> Reported[t]]
  <2> HIDE DEF T
  <2>1. Reported' = [t \in DOMAIN history' |-> history'[t].amount] /\ DOMAIN Reported = DOMAIN history
    BY DEF Reported
  <2>2. \A t \in DOMAIN history : Reported[t] = history[t].amount
    BY DEF Reported
  <2> QED
    BY <1>4, <2>1, <2>2
<1> HIDE DEF T
<1>11. TxHashes \ DOMAIN history' = (TxHashes \ DOMAIN history) \cup T
  BY <1>3, <1>4, <1>9
<1>12. DO!Forget(T)
  BY <1>1, <1>3, <1>8, <1>10, <1>11 DEF DO!Forget, AllHeldTxs
<1> QED
  BY <1>3, <1>6, <1>7, <1>12

-----------------------------------------------------------------------------
\* The bridge's steps are steps of DepositOnce.
LEMMA StepRefines ==
  ASSUME DepositInv, [Next]_vars
  PROVE  HeldInHistory' /\ HeldOnce' /\ [DO!Next]_(DO!vars)
<1>0. \A amount \in Amounts : amount \in Balance
  BY AmountAssumption
<1>1. ASSUME UNCHANGED <<issuance, pendingDeposits, history>>
      PROVE  HeldInHistory' /\ HeldOnce' /\ UNCHANGED DO!vars
  <2>1. HeldInHistory' /\ HeldOnce'
    BY <1>1 DEF DepositInv, HeldInHistory, HeldOnce
  <2>2. AllHeldTxs' = AllHeldTxs /\ Reported' = Reported
    BY <1>1 DEF AllHeldTxs, HeldTxs, Reported
  <2> QED
    BY <1>1, <2>1, <2>2 DEF DO!vars, AllHeldTxs
<1>2. CASE UNCHANGED vars
  BY <1>1, <1>2 DEF vars
<1>3. ASSUME NEW b \in BOOLEAN, SetPaused(b) PROVE UNCHANGED <<issuance, pendingDeposits, history>>
  BY <1>3 DEF SetPaused
<1>4. ASSUME NEW who \in Users, NEW amount \in Amounts, NEW admin,
             \/ Withdraw(who, amount)
             \/ \E to \in Users : Transfer(who, to, amount)
             \/ Refund(admin, who, amount)
             \/ WithdrawFinish(admin, who, amount)
      PROVE  UNCHANGED <<issuance, pendingDeposits, history>>
  BY <1>4 DEF Withdraw, Transfer, Refund, WithdrawFinish
<1>5. ASSUME NEW who \in Users, NEW amount \in Amounts, NEW admin, NEW tx \in TxHashes,
             Deposit(admin, who, amount, tx)
      PROVE  HeldInHistory' /\ HeldOnce' /\ DO!Next
  <2>1. HeldInHistory' /\ HeldOnce' /\ DO!Report(tx, amount)
    BY <1>0, <1>5, DepositHeld, DepositReports
  <2> QED
    BY <2>1 DEF DO!Next
<1>6. ASSUME NEW admin, NEW who \in Users, MarkWhite(admin, who) \/ MarkBlack(admin, who)
      PROVE  HeldInHistory' /\ HeldOnce' /\ DO!Next
  <2>1. /\ HeldInHistory' /\ HeldOnce'
        /\ \E txs \in SUBSET AllHeldTxs : DO!Release(txs) \/ DO!Forget(txs)
    BY <1>6, MarkWhiteReleases, MarkBlackForgets
  <2> QED
    BY <2>1 DEF DO!Next, AllHeldTxs
<1> QED
  BY <1>1, <1>2, <1>3, <1>4, <1>5, <1>6 DEF Next

LEMMA DepositInit == Init => DepositInv /\ DO!Init
<1> SUFFICES ASSUME Init PROVE DepositInv /\ DO!Init
  OBVIOUS
<1>1. \A u \in Users : pendingDeposits[u] = << >>
  BY DEF Init
<1>2. DOMAIN << >> = {} /\ history = << >>
  BY DEF Init
<1>3. \A u \in Users : HeldTxs(u) = {}
  BY <1>1, <1>2 DEF HeldTxs
<1>4. HeldInHistory /\ HeldOnce
  BY <1>1, <1>2 DEF HeldInHistory, HeldOnce
<1>5. AllHeldTxs = {}
  BY <1>3 DEF AllHeldTxs
<1>6. issuance - SumOf(GenesisFree) = 0
  BY GenesisAssumption, BalanceFacts DEF Init
<1>7. Reported = << >>
  <2>1. Reported = [t \in {} |-> history[t].amount]
    BY <1>2 DEF Reported
  <2> QED
    BY <2>1
<1>8. TxHashes \ DOMAIN history = TxHashes
  BY <1>2
<1>9. DO!Init
  BY <1>5, <1>6, <1>7, <1>8 DEF DO!Init, AllHeldTxs
<1> QED
  BY <1>4, <1>9, StoreInit DEF DepositInv

LEMMA DepositInvNext == DepositInv /\ [Next]_vars => DepositInv'
BY StepRefines, StoreNext DEF DepositInv

-----------------------------------------------------------------------------
(***************************************************************************)
(* The books of the deposits: what was minted since genesis is at most     *)
(* what the history holds of settled transactions.                         *)
(***************************************************************************)
LEMMA ReportedFacts ==
  ASSUME DepositInv
  PROVE  /\ DOMAIN Reported = DOMAIN history /\ IsFiniteSet(DOMAIN history)
         /\ \A t \in DOMAIN history : Reported[t] \in Nat
         /\ Settled = DOMAIN history \ AllHeldTxs
         /\ issuance - SumOf(GenesisFree) \in Int
<1>1. \A t \in DOMAIN history : history[t] \in Entry
  BY DEF DepositInv, StoreInv, TypeOK
<1>2. \A e \in Entry : e.amount \in Nat
  BY BalanceFacts DEF Entry
<1>3. issuance \in Nat /\ SumOf(GenesisFree) \in Nat
  BY StoreFacts, BalanceFacts, GenesisAssumption DEF DepositInv
<1> QED
  BY <1>1, <1>2, <1>3 DEF Reported, DepositInv, StoreInv, HistoryFinite, Settled, AllHeldTxs

SettledKeys == Settled = DOMAIN Reported \ AllHeldTxs

LEMMA SettledAgain == DepositInv' => Settled' = DOMAIN Reported' \ AllHeldTxs'
<1>1. DepositInv => SettledKeys
  BY ReportedFacts DEF SettledKeys
<1>2. DepositInv' => SettledKeys'
  BY <1>1, PTL
<1> QED
  BY <1>2 DEF SettledKeys

LEMMA BackedReport ==
  ASSUME DepositInv, DepositInv', MintedIsBacked, NEW tx \in TxHashes, NEW amount \in Balance,
         DO!Report(tx, amount)
  PROVE  MintedIsBacked'
<1> DEFINE D == DOMAIN history
           minted == issuance - SumOf(GenesisFree)
<1>0. /\ D = DOMAIN Reported /\ IsFiniteSet(D) /\ Settled = D \ AllHeldTxs
      /\ \A t \in D : Reported[t] \in Nat
      /\ AllHeldTxs \subseteq D /\ minted \in Int /\ amount \in Nat
      /\ minted <= SumFunctionOnSet(Reported, Settled)
  BY ReportedFacts, HeldFacts, BalanceFacts DEF MintedIsBacked
<1>2. Settled' = DOMAIN Reported' \ AllHeldTxs'
  BY SettledAgain
<1>3. /\ tx \notin D
      /\ Reported' = [t \in D \cup {tx} |-> IF t = tx THEN amount ELSE Reported[t]]
      /\ \/ AllHeldTxs' = AllHeldTxs \cup {tx} /\ minted' = minted
         \/ AllHeldTxs' = AllHeldTxs /\ minted' \in {minted, minted + amount}
  BY <1>0 DEF DO!Report, AllHeldTxs
<1>4. DOMAIN Reported' = D \cup {tx} /\ Settled' = (D \cup {tx}) \ AllHeldTxs'
  BY <1>2, <1>3
<1>5. /\ \A t \in Settled : Reported'[t] = Reported[t] /\ Reported[t] \in Int
      /\ Reported'[tx] = amount /\ tx \notin Settled /\ IsFiniteSet(Settled)
  BY <1>0, <1>3, FS_Subset
<1>6. SumFunctionOnSet(Reported', Settled) = SumFunctionOnSet(Reported, Settled)
  BY <1>5, SumSame
<1>7. SumFunctionOnSet(Reported, Settled) \in Int
  BY <1>5, SumType
<1>8. CASE AllHeldTxs' = AllHeldTxs \cup {tx} /\ minted' = minted
  <2>1. Settled' = Settled
    BY <1>0, <1>3, <1>4, <1>8
  <2> QED
    BY <1>0, <1>6, <1>8, <2>1 DEF MintedIsBacked
<1>9. CASE AllHeldTxs' = AllHeldTxs /\ minted' \in {minted, minted + amount}
  <2>1. Settled' = Settled \cup {tx}
    BY <1>0, <1>3, <1>4, <1>9
  <2>2. \A t \in Settled \cup {tx} : Reported'[t] \in Int
    BY <1>0, <1>5
  <2> DEFINE R == Reported'
             S == Settled
  <2> HIDE DEF R, S
  <2>3. SumFunctionOnSet(R, S \cup {tx}) = R[tx] + SumFunctionOnSet(R, S)
    BY <1>5, <2>2, SumAdd DEF R, S
  <2>4. SumFunctionOnSet(Reported', Settled') = amount + SumFunctionOnSet(Reported, Settled)
    BY <1>5, <1>6, <2>1, <2>3 DEF R, S
  <2>5. minted' <= minted + amount
    BY <1>0, <1>9
  <2> HIDE DEF minted
  <2>6. minted' \in Int
    BY <1>0, <1>9
  <2>7. minted' <= amount + SumFunctionOnSet(Reported, Settled)
    BY <1>0, <1>7, <2>5, <2>6
  <2> QED
    BY <2>4, <2>7 DEF MintedIsBacked, minted
<1> QED
  BY <1>3, <1>8, <1>9

LEMMA BackedRelease ==
  ASSUME DepositInv, DepositInv', MintedIsBacked, NEW txs \in SUBSET AllHeldTxs, DO!Release(txs)
  PROVE  MintedIsBacked'
<1> DEFINE minted == issuance - SumOf(GenesisFree)
           S == Settled \cup txs
<1>0. /\ DOMAIN Reported = DOMAIN history /\ IsFiniteSet(DOMAIN history)
      /\ Settled = DOMAIN history \ AllHeldTxs
      /\ \A t \in DOMAIN history : Reported[t] \in Int
      /\ AllHeldTxs \subseteq DOMAIN history /\ minted \in Int
      /\ minted <= SumFunctionOnSet(Reported, Settled)
  BY ReportedFacts, HeldFacts DEF MintedIsBacked
<1>2. Settled' = DOMAIN Reported' \ AllHeldTxs'
  BY SettledAgain
<1>3. DO!Worth(txs) = SumFunctionOnSet(Reported, txs)
  BY DEF DO!Worth, DO!SumFunctionOnSet, DO!FoldFunctionOnSet, DO!MapThenFoldSet,
         SumFunctionOnSet, FoldFunctionOnSet, MapThenFoldSet
<1>4. /\ Reported' = Reported /\ AllHeldTxs' = AllHeldTxs \ txs
      /\ minted' = minted + SumFunctionOnSet(Reported, txs)
  BY <1>3 DEF DO!Release, AllHeldTxs
<1>5. Settled' = S /\ S \subseteq DOMAIN history /\ txs \subseteq S /\ S \ txs = Settled
  BY <1>0, <1>2, <1>4
<1>6. IsFiniteSet(S) /\ IsFiniteSet(txs) /\ IsFiniteSet(Settled)
  BY <1>0, <1>5, FS_Subset
<1>7. \A t \in S : Reported[t] \in Int
  BY <1>0, <1>5
<1> HIDE DEF S, minted
<1>8. SumFunctionOnSet(Reported, S) = SumFunctionOnSet(Reported, txs) + SumFunctionOnSet(Reported, S \ txs)
  BY <1>5, <1>6, <1>7, SumParts
<1>9. SumFunctionOnSet(Reported, txs) \in Int /\ SumFunctionOnSet(Reported, Settled) \in Int
  BY <1>5, <1>6, <1>7, SumType
<1>10. SumFunctionOnSet(Reported', Settled')
         = SumFunctionOnSet(Reported, txs) + SumFunctionOnSet(Reported, Settled)
  BY <1>4, <1>5, <1>8
<1>11. minted + SumFunctionOnSet(Reported, txs)
         <= SumFunctionOnSet(Reported, txs) + SumFunctionOnSet(Reported, Settled)
  BY <1>0, <1>9
<1>12. minted' <= SumFunctionOnSet(Reported', Settled')
  BY <1>4, <1>10, <1>11
<1> QED
  BY <1>12 DEF MintedIsBacked, minted

LEMMA BackedForget ==
  ASSUME DepositInv, DepositInv', MintedIsBacked, NEW txs \in SUBSET AllHeldTxs, DO!Forget(txs)
  PROVE  MintedIsBacked'
<1>0. /\ DOMAIN Reported = DOMAIN history /\ IsFiniteSet(DOMAIN history)
      /\ Settled = DOMAIN history \ AllHeldTxs
  BY ReportedFacts
<1>2. Settled' = DOMAIN Reported' \ AllHeldTxs'
  BY SettledAgain
<1>3. /\ Reported' = [t \in DOMAIN Reported \ txs |-> Reported[t]]
      /\ AllHeldTxs' = AllHeldTxs \ txs
      /\ issuance' - SumOf(GenesisFree) = issuance - SumOf(GenesisFree)
  BY DEF DO!Forget, AllHeldTxs
<1>4. Settled' = Settled
  BY <1>0, <1>2, <1>3
<1>5. IsFiniteSet(Settled) /\ \A t \in Settled : Reported'[t] = Reported[t]
  BY <1>0, <1>3, FS_Subset
<1>6. SumFunctionOnSet(Reported', Settled) = SumFunctionOnSet(Reported, Settled)
  BY <1>5, SumSame
<1> QED
  BY <1>3, <1>4, <1>6 DEF MintedIsBacked

LEMMA BackedNext ==
  ASSUME DepositInv, MintedIsBacked, [Next]_vars
  PROVE  MintedIsBacked'
<1>0. DepositInv' /\ [DO!Next]_(DO!vars)
  BY DepositInvNext, StepRefines
<1>1. CASE UNCHANGED DO!vars
  <2>2. Settled' = DOMAIN Reported' \ AllHeldTxs' /\ SettledKeys
    BY <1>0, SettledAgain, ReportedFacts DEF SettledKeys
  <2>3. /\ Reported' = Reported /\ AllHeldTxs' = AllHeldTxs
        /\ issuance' - SumOf(GenesisFree) = issuance - SumOf(GenesisFree)
    BY <1>1 DEF DO!vars, AllHeldTxs
  <2>4. Settled' = Settled
    BY <2>2, <2>3 DEF SettledKeys
  <2> QED
    BY <2>3, <2>4 DEF MintedIsBacked
<1>2. ASSUME NEW tx \in TxHashes, NEW amount \in Amounts, DO!Report(tx, amount)
      PROVE  MintedIsBacked'
  BY <1>0, <1>2, BackedReport, AmountAssumption
<1>3. ASSUME NEW txs \in SUBSET AllHeldTxs, DO!Release(txs) \/ DO!Forget(txs)
      PROVE  MintedIsBacked'
  BY <1>0, <1>3, BackedRelease, BackedForget
<1> QED
  BY <1>0, <1>1, <1>2, <1>3 DEF DO!Next, AllHeldTxs

LEMMA BackedInit == Init => MintedIsBacked
<1> SUFFICES ASSUME Init PROVE MintedIsBacked
  OBVIOUS
<1>1. DOMAIN history = {}
  BY DEF Init
<1>2. Settled = {}
  BY <1>1 DEF Settled
<1>3. issuance - SumOf(GenesisFree) = 0
  BY GenesisAssumption, BalanceFacts DEF Init
<1>4. SumFunctionOnSet(Reported, {}) = 0
  BY SumOfNone
<1> QED
  BY <1>2, <1>3, <1>4 DEF MintedIsBacked

-----------------------------------------------------------------------------
(***************************************************************************)
(* What is pending, and the vault it is paid from.                         *)
(***************************************************************************)
Pending == [u \in Users |-> Total(pendingWithdraws[u])]

LEMMA PendingFacts ==
  ASSUME StoreInv
  PROVE  /\ IsFiniteSet(Users) /\ \A u \in Users : Pending[u] \in Nat
         /\ SumFunction(Pending) \in Nat /\ \A u \in Users : Pending[u] <= SumFunction(Pending)
<1>1. IsFiniteSet(Users)
  BY AccountsAssumption, AccountAssumption, FS_Subset
<1>2. \A u \in Users : pendingWithdraws[u] \in Seq(Balance)
  BY StoreFacts
<1>3. \A u \in Users : Pending[u] \in Nat
  BY <1>2, TotalType DEF Pending
<1>4. DOMAIN Pending = Users
  BY DEF Pending
<1> QED
  BY <1>1, <1>3, <1>4, SumFunctionNat

\* The total of one account changes, and the sum with it.
LEMMA PendingChange ==
  ASSUME StoreInv, StoreInv', NEW who \in Users, NEW list2 \in Seq(Balance),
         pendingWithdraws' = [pendingWithdraws EXCEPT ![who] = list2]
  PROVE  SumFunction(Pending') = SumFunction(Pending) - Total(pendingWithdraws[who]) + Total(list2)
<1>1. pendingWithdraws \in [Users -> Seq(Balance)]
  BY DEF StoreInv, TypeOK
<1>2. /\ \A u \in Users \ {who} : pendingWithdraws'[u] = pendingWithdraws[u]
      /\ pendingWithdraws'[who] = list2
  BY <1>1
<1>3. /\ DOMAIN Pending = Users /\ DOMAIN Pending' = Users
      /\ \A u \in Users \ {who} : Pending'[u] = Pending[u]
      /\ Pending[who] = Total(pendingWithdraws[who]) /\ Pending'[who] = Total(list2)
  BY <1>2 DEF Pending
<1>4. \A u \in Users : Pending[u] \in Int /\ Pending'[u] \in Int
  <2>1. Total(list2) \in Nat
    BY TotalType
  <2> QED
    BY <1>3, <2>1, PendingFacts
<1>5. IsFiniteSet(Users)
  BY PendingFacts
<1> DEFINE p == Pending
           q == Pending'
<1> HIDE DEF p, q
<1>6. SumFunction(q) = SumFunction(p) - p[who] + q[who]
  BY <1>3, <1>4, <1>5, SumFunctionChange DEF p, q
<1> QED
  BY <1>3, <1>6 DEF p, q

LEMMA PendingSame ==
  ASSUME pendingWithdraws' = pendingWithdraws, free'[Vault] = free[Vault], VaultCoversPending
  PROVE  VaultCoversPending'
BY DEF VaultCoversPending

LEMMA VaultMoves ==
  ASSUME StoreInv, StoreInv', VaultCoversPending, NEW who \in Users, NEW amount \in Balance
  PROVE  /\ Withdraw(who, amount) => VaultCoversPending'
         /\ \A to \in Users : Transfer(who, to, amount) => VaultCoversPending'
         /\ \A admin : Refund(admin, who, amount) => VaultCoversPending'
         /\ \A admin : WithdrawFinish(admin, who, amount) => VaultCoversPending'
<1> DEFINE s == pendingWithdraws[who]
<1>0. /\ who \in Accounts /\ Vault \in Accounts /\ Users \subseteq Accounts /\ Vault \notin Users /\ who # Vault
      /\ amount \in Nat /\ free[Vault] \in Nat /\ s \in Seq(Balance) /\ Total(s) \in Nat
      /\ SumFunction(Pending) \in Nat
      /\ free[Vault] >= SumFunction(Pending)
      /\ free'[Vault] >= SumFunction(Pending') => VaultCoversPending'
  <2>1. s \in Seq(Balance) /\ free[Vault] \in Nat
    BY StoreFacts
  <2> QED
    BY <2>1, AccountAssumption, BalanceFacts, TotalType, PendingFacts DEF VaultCoversPending, Pending
<1>1. ASSUME Withdraw(who, amount) PROVE VaultCoversPending'
  <2>1. /\ free' = AfterTransfer(free, who, Vault, amount) /\ CanTransfer(free, who, amount)
        /\ pendingWithdraws' = [pendingWithdraws EXCEPT ![who] = Append(s, amount)]
    BY <1>1 DEF Withdraw
  <2>2. Append(s, amount) \in Seq(Balance) /\ Total(Append(s, amount)) = Total(s) + amount
    BY WithdrawsFacts
  <2> DEFINE t == Append(s, amount)
  <2> HIDE DEF t, s
  <2>3. SumFunction(Pending') = SumFunction(Pending) - Total(s) + Total(t)
    BY <2>1, <2>2, PendingChange DEF t, s
  <2>4. free'[Vault] = free[Vault] + amount
    BY <1>0, <2>1, TransferFacts
  <2> QED
    BY <1>0, <2>2, <2>3, <2>4 DEF t
<1>2. ASSUME NEW to \in Users, Transfer(who, to, amount) PROVE VaultCoversPending'
  <2>1. free' = AfterTransfer(free, who, to, amount) /\ CanTransfer(free, who, amount) /\ to \in Accounts
    BY <1>0, <1>2 DEF Transfer
  <2>2. free'[Vault] = free[Vault]
    BY <1>0, <2>1, TransferFacts
  <2> QED
    BY <1>2, <2>2, PendingSame DEF Transfer
<1>3. ASSUME IsPending(who, amount),
             pendingWithdraws' = [pendingWithdraws EXCEPT ![who] = WithoutFirst(@, amount)]
      PROVE  SumFunction(Pending') = SumFunction(Pending) - amount
  <2>1. pendingWithdraws' = [pendingWithdraws EXCEPT ![who] = WithoutFirst(s, amount)]
    BY <1>3
  <2>2. /\ WithoutFirst(s, amount) \in Seq(Balance)
        /\ Total(WithoutFirst(s, amount)) = Total(s) - amount
    BY <1>3, WithdrawsFacts
  <2> DEFINE t == WithoutFirst(s, amount)
  <2> HIDE DEF t, s
  <2>3. SumFunction(Pending') = SumFunction(Pending) - Total(s) + Total(t)
    BY <2>1, <2>2, PendingChange DEF t, s
  <2> QED
    BY <1>0, <2>2, <2>3 DEF t
<1>4. ASSUME NEW admin, Refund(admin, who, amount) PROVE VaultCoversPending'
  <2>1. /\ free' = AfterTransfer(free, Vault, who, amount) /\ CanTransfer(free, Vault, amount)
        /\ SumFunction(Pending') = SumFunction(Pending) - amount
    BY <1>3, <1>4 DEF Refund
  <2>2. free'[Vault] = free[Vault] - amount
    BY <1>0, <2>1, TransferFacts
  <2> QED
    BY <1>0, <2>1, <2>2
<1>5. ASSUME NEW admin, WithdrawFinish(admin, who, amount) PROVE VaultCoversPending'
  <2>1. free' = free /\ SumFunction(Pending') = SumFunction(Pending) - amount
    BY <1>3, <1>5 DEF WithdrawFinish
  <2> QED
    BY <1>0, <2>1
<1> QED
  BY <1>1, <1>2, <1>4, <1>5

LEMMA VaultNext ==
  ASSUME StoreInv, VaultCoversPending, [Next]_vars
  PROVE  VaultCoversPending'
<1>0. StoreInv' /\ \A amount \in Amounts : amount \in Balance
  BY StoreNext, AmountAssumption
<1>1. CASE UNCHANGED vars
  BY <1>1, PendingSame DEF vars
<1>2. ASSUME NEW b \in BOOLEAN, SetPaused(b) PROVE VaultCoversPending'
  BY <1>2, PendingSame DEF SetPaused
<1>3. ASSUME NEW who \in Users, NEW amount \in Amounts, NEW admin,
             \/ Withdraw(who, amount)
             \/ \E to \in Users : Transfer(who, to, amount)
             \/ Refund(admin, who, amount)
             \/ WithdrawFinish(admin, who, amount)
      PROVE  VaultCoversPending'
  BY <1>0, <1>3, VaultMoves
<1>4. ASSUME NEW who \in Users, NEW balance, free' = SetBalance(free, who, balance)
      PROVE  free'[Vault] = free[Vault]
  BY <1>4, StoreFacts DEF SetBalance, Sheet
<1>5. ASSUME NEW who \in Users, NEW amount \in Amounts, NEW admin, NEW tx \in TxHashes,
             Deposit(admin, who, amount, tx)
      PROVE  VaultCoversPending'
  <2>1. free'[Vault] = free[Vault]
    BY <1>4, <1>5 DEF Deposit
  <2> QED
    BY <1>5, <2>1, PendingSame DEF Deposit
<1>6. ASSUME NEW admin, NEW who \in Users, MarkWhite(admin, who) \/ MarkBlack(admin, who)
      PROVE  VaultCoversPending'
  <2>1. free'[Vault] = free[Vault] /\ pendingWithdraws' = pendingWithdraws
    BY <1>4, <1>6 DEF MarkWhite, MarkBlack
  <2> QED
    BY <2>1, PendingSame
<1> QED
  BY <1>1, <1>2, <1>3, <1>5, <1>6 DEF Next

LEMMA VaultInit == Init => VaultCoversPending
<1> SUFFICES ASSUME Init PROVE VaultCoversPending
  OBVIOUS
<1>0. IsFiniteSet(Users)
  BY AccountsAssumption, AccountAssumption, FS_Subset
<1>1. \A u \in Users : Pending[u] = 0
  BY TotalOfNone DEF Init, Pending
<1>2. DOMAIN Pending = Users
  BY DEF Pending
<1>3. SumFunction(Pending) = 0
  BY <1>0, <1>1, <1>2, SumOfZeros
<1>4. free[Vault] \in Nat
  BY StoreInit, StoreFacts
<1> QED
  BY <1>3, <1>4 DEF VaultCoversPending, Pending

-----------------------------------------------------------------------------
(***************************************************************************)
(* The theorems about Bridge.                                              *)
(***************************************************************************)
BridgeInv == DepositInv /\ MintedIsBacked /\ VaultCoversPending

\* Counted by transaction, the deposits held for an account are as many as its list is long.
LEMMA HeldCount ==
  ASSUME DepositInv
  PROVE  HeldIsRecorded
<1> SUFFICES ASSUME NEW u \in Users PROVE Cardinality(HeldTxs(u)) = Len(pendingDeposits[u])
  BY DEF HeldIsRecorded, DepositInv, HeldInHistory
<1> DEFINE held == pendingDeposits[u]
           n == Len(held)
           f == [i \in 1..n |-> held[i].tx]
           T == HeldTxs(u)
<1>1. held \in Seq(Held) /\ n \in Nat /\ DOMAIN held = 1..n
  BY DEF DepositInv, StoreInv, TypeOK
<1>2. \A i, j \in 1..n : held[i].tx = held[j].tx => i = j
  BY <1>1 DEF DepositInv, HeldOnce
<1>3. T = {held[i].tx : i \in 1..n}
  BY <1>1 DEF HeldTxs
<1>4. IsFiniteSet(1..n) /\ Cardinality(1..n) = n
  BY <1>1, FS_Interval
<1> HIDE DEF T, held, n
<1> DEFINE S == 1..n
<1>5. f \in [S -> T] /\ (\A t \in T : \E i \in S : f[i] = t) /\ \A i, j \in S : f[i] = f[j] => i = j
  BY <1>2, <1>3
<1>6. IsFiniteSet(S) /\ Cardinality(S) = n
  BY <1>4
<1> HIDE DEF f, S
<1>7. f \in Injection(S, T) /\ f \in Surjection(S, T)
  BY <1>5 DEF Injection, IsInjective, Surjection
<1>8. Cardinality(T) = Cardinality(S)
  BY <1>6, <1>7, FS_Surjection
<1> QED
  BY <1>6, <1>8 DEF T, n, held

LEMMA BridgeInvariant == Spec => []BridgeInv
<1>1. Init => BridgeInv
  BY DepositInit, BackedInit, VaultInit DEF BridgeInv
<1>2. BridgeInv /\ [Next]_vars => BridgeInv'
  <2>1. DepositInv => StoreInv
    BY DEF DepositInv
  <2> QED
    BY <2>1, DepositInvNext, BackedNext, VaultNext DEF BridgeInv
<1> QED
  BY <1>1, <1>2, PTL DEF Spec

\* However often a transaction is reported, its account marked white or black
\* and its minting refused, the books of the deposits agree: what is held back is
\* recorded and held once, and no more was minted than settled transactions are worth.
THEOREM DepositsAgree == Spec => [](TypeOK /\ DepositsAddUp)
<1>1. BridgeInv => TypeOK /\ DepositsAddUp
  BY HeldCount DEF BridgeInv, DepositInv, StoreInv, DepositsAddUp
<1> QED
  BY <1>1, BridgeInvariant, PTL

\* The vault holds what is pending, so a refund of what an account has pending is
\* never refused for want of money, whatever was finished or refunded before.
RefundsAreAfforded ==
  \A who \in Users, amount \in Balance : IsPending(who, amount) => CanTransfer(free, Vault, amount)

THEOREM VaultIsFunded == Spec => [](VaultCoversPending /\ RefundsAreAfforded)
<1>1. BridgeInv => VaultCoversPending /\ RefundsAreAfforded
  <2> SUFFICES ASSUME BridgeInv, NEW who \in Users, NEW amount \in Balance, IsPending(who, amount)
               PROVE  CanTransfer(free, Vault, amount)
    BY DEF BridgeInv, RefundsAreAfforded
  <2>0. StoreInv /\ VaultCoversPending
    BY DEF BridgeInv, DepositInv
  <2>1. amount <= Pending[who]
    BY <2>0, WithdrawsFacts DEF Pending
  <2>2. Pending[who] \in Nat /\ Pending[who] <= SumFunction(Pending) /\ SumFunction(Pending) \in Nat
    BY <2>0, PendingFacts
  <2>3. free[Vault] >= SumFunction(Pending) /\ free[Vault] \in Nat
    BY <2>0, StoreFacts DEF VaultCoversPending, Pending
  <2>4. amount \in Nat
    BY BalanceFacts
  <2> QED
    BY <2>1, <2>2, <2>3, <2>4 DEF CanTransfer
<1> QED
  BY <1>1, BridgeInvariant, PTL

\* The bridge implements the promise of DepositOnce: a foreign transaction backs
\* new money once, and only one that backs none yet is forgotten.
THEOREM SettledOnce == Spec => ImplementsDepositOnce
<1>1. Init => DO!Init
  BY DepositInit
<1>2. BridgeInv /\ [Next]_vars => [DO!Next]_(DO!vars)
  BY StepRefines DEF BridgeInv
<1> QED
  BY <1>1, <1>2, BridgeInvariant, PTL DEF Spec, ImplementsDepositOnce, DO!Spec

-----------------------------------------------------------------------------
(***************************************************************************)
(* BtcBridge: its calls are Bridge's, or leave Bridge's storage alone.     *)
(***************************************************************************)
LEMMA BtcIsBridge == BtcSpec => Spec
<1>1. BtcInit => Init
  BY DEF BtcInit
<1>2. [BtcNext]_btc_vars => [Next]_vars
  <2> SUFFICES ASSUME [BtcNext]_btc_vars PROVE [Next]_vars
    OBVIOUS
  <2>1. CASE UNCHANGED btc_vars
    BY <2>1 DEF btc_vars
  <2>2. ASSUME NEW b \in BOOLEAN, BtcSetPaused(b) PROVE Next
    BY <2>2 DEF BtcSetPaused, Next
  <2>3. ASSUME NEW who \in Users, NEW amount \in Amounts,
               BtcWithdraw(who, amount) \/ \E to \in Users : BtcTransfer(who, to, amount)
        PROVE  Next
    BY <2>3 DEF BtcWithdraw, BtcTransfer, Next
  <2>4. ASSUME NEW who \in Users, NEW amount \in Amounts, NEW admin \in Admins,
               \/ BtcRefund(admin, who, amount)
               \/ BtcWithdrawFinish(admin, who, amount)
               \/ \E tx \in TxHashes : BtcDeposit(admin, who, amount, tx)
        PROVE  Next
    BY <2>4 DEF BtcRefund, BtcWithdrawFinish, BtcDeposit, Next
  <2>5. ASSUME NEW who \in Users, NEW admin \in Admins, BtcMarkWhite(admin, who) \/ BtcMarkBlack(admin, who)
        PROVE  Next
    BY <2>5 DEF BtcMarkWhite, BtcMarkBlack, Next
  <2>6. ASSUME \/ \E material \in Materials : SetKeyMaterial(material)
               \/ \E who \in Users, path \in Paths : GetSubkeyFromPath(who, path)
        PROVE  UNCHANGED vars
    BY <2>6 DEF SetKeyMaterial, GetSubkeyFromPath
  <2> QED
    BY <2>1, <2>2, <2>3, <2>4, <2>5, <2>6 DEF BtcNext
<1> QED
  BY <1>1, <1>2, PTL DEF BtcSpec, Spec

THEOREM BtcDepositsAgree == BtcSpec => [](DepositsAddUp /\ VaultCoversPending) /\ ImplementsDepositOnce
BY BtcIsBridge, DepositsAgree, VaultIsFunded, SettledOnce, PTL

\* What the storage of the keys holds.
KeysOK ==
  /\ keyMaterial \in Materials
  /\ DOMAIN subKeys \subseteq Users \X Paths
  /\ \A k \in DOMAIN subKeys :
       subKeys[k] \in [material : Materials, steps : Seq(Components \ Invalid)]

LEMMA DerivedType ==
  ASSUME NEW material \in Materials, NEW path \in Paths, \A i \in 2..Len(path) : path[i] \notin Invalid
  PROVE  Derived(material, path) \in [material : Materials, steps : Seq(Components \ Invalid)]
<1>1. path \in Seq(Components) /\ path # << >>
  BY PathAssumption
<1>2. Len(path) \in Nat /\ Len(path) >= 1
  BY <1>1
<1> DEFINE t == Tail(path)
<1>3. t \in Seq(Components) /\ Len(t) = Len(path) - 1 /\ \A i \in 1..(Len(path) - 1) : t[i] = path[i + 1]
  BY <1>1, <1>2
<1> HIDE DEF t
<1>4. DOMAIN t = 1..Len(t) /\ Len(t) \in Nat /\ \A i \in 1..Len(t) : t[i] \in Components
  BY <1>3
<1>5. ASSUME NEW i \in 1..Len(t) PROVE t[i] \in Components \ Invalid
  <2>1. i + 1 \in 2..Len(path) /\ t[i] = path[i + 1]
    BY <1>2, <1>3
  <2> QED
    BY <1>4, <2>1
<1>6. t \in Seq(Components \ Invalid)
  BY <1>3, <1>4, <1>5
<1> QED
  BY <1>6 DEF Derived, t

\* Each key is of a material root once set, along components the library takes.
THEOREM KeysAreTyped == BtcSpec => []BtcTypeOK
<1>1. BtcInit => KeysOK
  <2> SUFFICES ASSUME BtcInit PROVE KeysOK
    OBVIOUS
  <2>1. DOMAIN subKeys = {}
    BY DEF BtcInit
  <2> QED
    BY <2>1, MaterialAssumption DEF BtcInit, KeysOK
<1>2. KeysOK /\ [BtcNext]_btc_vars => KeysOK'
  <2> SUFFICES ASSUME KeysOK, [BtcNext]_btc_vars PROVE KeysOK'
    OBVIOUS
  <2>1. CASE UNCHANGED keyVars
    BY <2>1 DEF keyVars, KeysOK
  <2>2. ASSUME NEW material \in Materials, SetKeyMaterial(material) PROVE KeysOK'
    BY <2>2 DEF SetKeyMaterial, KeysOK
  <2>3. ASSUME NEW who \in Users, NEW path \in Paths, GetSubkeyFromPath(who, path) PROVE KeysOK'
    <3>1. Derived(keyMaterial, path) \in [material : Materials, steps : Seq(Components \ Invalid)]
      BY <2>3, DerivedType DEF KeysOK, GetSubkeyFromPath
    <3>2. /\ keyMaterial' = keyMaterial
          /\ DOMAIN subKeys' = DOMAIN subKeys \cup {<<who, path>>}
          /\ \A k \in DOMAIN subKeys' :
               subKeys'[k] = IF k = <<who, path>> THEN Derived(keyMaterial, path) ELSE subKeys[k]
      BY <2>3 DEF GetSubkeyFromPath
    <3> QED
      BY <3>1, <3>2 DEF KeysOK
  <2>4. ASSUME ~ \E material \in Materials : SetKeyMaterial(material),
               ~ \E who \in Users, path \in Paths : GetSubkeyFromPath(who, path)
        PROVE  UNCHANGED keyVars
    BY <2>4 DEF BtcNext, btc_vars, BtcSetPaused, BtcTransfer, BtcDeposit, BtcMarkWhite,
                BtcMarkBlack, BtcWithdraw, BtcRefund, BtcWithdrawFinish
  <2> QED
    BY <2>1, <2>2, <2>3, <2>4
<1>3. TypeOK /\ KeysOK => BtcTypeOK
  BY DEF KeysOK, BtcTypeOK
<1> QED
  BY <1>1, <1>2, <1>3, BtcIsBridge, DepositsAgree, PTL DEF BtcSpec
=============================================================================
