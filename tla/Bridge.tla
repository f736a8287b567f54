------------------------------- MODULE Bridge -------------------------------
(***************************************************************************)
(* The bridge that shadows BTC as an asset: runtime/modules/bridge/src/    *)
(* lib.rs. An administrator reports a BTC transaction; the amount is       *)
(* minted, or held until the account is marked white if it is large. A     *)
(* holder withdraws into a vault, from which an administrator finishes or  *)
(* refunds the withdrawal.                                                 *)
(*                                                                         *)
(* A call that is refused before its first write is a stuttering step. An  *)
(* error after a write leaves the write.                                   *)
(***************************************************************************)
EXTENDS Balances, SequencesExt

CONSTANTS
  Users,          \* the accounts that deposit and withdraw
  Vault,          \* pending_withdraw_vault(), moved by the bridge only
  Admins,         \* the accounts with an authority ...
  Authority,      \* ... and which
  Threshold,      \* threshold()
  TxHashes,       \* the BTC transactions
  Amounts,        \* the amounts of deposits, withdrawals and transfers
  GenesisFree,    \* the balances of the shadow asset at genesis
  MaxPending      \* bound: on the withdrawals an account has pending

Auth == {"All", "Deposit", "Withdraw", "Refund", "Mark"}

ASSUME AccountAssumption == Users \subseteq Accounts /\ Vault \in Accounts \ Users
ASSUME AdminAssumption == Authority \in [Admins -> Auth]
ASSUME AmountAssumption == Amounts \subseteq Balance /\ Threshold \in Balance
ASSUME GenesisAssumption == GenesisFree \in Sheet /\ SumOf(GenesisFree) \in Balance

VARIABLES
  free,               \* generic_asset::FreeBalance of the shadow asset
  issuance,           \* generic_asset::TotalIssuance of it
  paused,             \* Paused
  list,               \* List: "Black", "White", or "None" where there is no entry
  pendingDeposits,    \* PendingDepositList
  history,            \* DepositHistory: a function on the transactions seen
  pendingWithdraws    \* PendingWithdraws

vars == <<free, issuance, paused, list, pendingDeposits, history, pendingWithdraws>>

\* A Deposit held back, and what the history keeps of one.
Held == [tx : TxHashes, amount : Balance]
Entry == [account : Users, amount : Balance]

Init ==
  /\ free = GenesisFree /\ issuance = SumOf(GenesisFree)
  /\ paused = FALSE
  /\ list = [u \in Users |-> "None"]
  /\ pendingDeposits = [u \in Users |-> << >>]
  /\ history = << >>
  /\ pendingWithdraws = [u \in Users |-> << >>]

HasAuth(a, auth) == Authority[a] \in {"All", auth}

\* pause and resume, root only.
SetPaused(b) ==
  /\ paused' = b
  /\ UNCHANGED <<free, issuance, list, pendingDeposits, history, pendingWithdraws>>

\* generic_asset::transfer by a holder.
Transfer(from, to, amount) ==
  /\ CanTransfer(free, from, amount)
  /\ free' = AfterTransfer(free, from, to, amount)
  /\ UNCHANGED <<issuance, paused, list, pendingDeposits, history, pendingWithdraws>>

-----------------------------------------------------------------------------
\* Mutant: the issuance is not tested.
BalanceFits(supply, balance, amount) == balance + amount <= MaxBalance

\* mint_free in the sudo key's name, who owns the asset.
CanMint(supply, balance, amount) == supply + amount <= MaxBalance /\ balance + amount <= MaxBalance

Recorded(tx, account, amount) ==
  [t \in DOMAIN history \cup {tx} |->
     IF t = tx THEN [account |-> account, amount |-> amount] ELSE history[t]]

\* deposit: recorded in any case, then held back, minted, or lost where
\* minting fails.
Deposit(admin, account, amount, tx) ==
  /\ tx \notin DOMAIN history
  /\ HasAuth(admin, "Deposit")
  /\ history' = Recorded(tx, account, amount)
  /\ \/ /\ amount >= Threshold /\ list[account] # "White"
        /\ pendingDeposits' = [pendingDeposits EXCEPT
              ![account] = Append(@, [tx |-> tx, amount |-> amount])]
        /\ UNCHANGED <<free, issuance>>
     \/ /\ amount < Threshold \/ list[account] = "White"
        /\ CanMint(issuance, free[account], amount)
        /\ free' = SetBalance(free, account, free[account] + amount)
        /\ issuance' = issuance + amount
        /\ UNCHANGED pendingDeposits
     \/ /\ amount < Threshold \/ list[account] = "White"
        /\ ~CanMint(issuance, free[account], amount)
        /\ UNCHANGED <<free, issuance, pendingDeposits>>
  /\ UNCHANGED <<paused, list, pendingWithdraws>>

AmountsOf(held) == [i \in DOMAIN held |-> held[i].amount]
Total(amounts) == SumFunction(amounts)

\* How many of the deposits held back can be minted, one after the other.
Mintable(held, account) ==
  Max({n \in 0..Len(held) : LET sum == Total(AmountsOf(SubSeq(held, 1, n))) IN
         CanMint(issuance, free[account], sum)})

\* Mutant: the whole list is kept when a deposit cannot be minted.
AllHeld(held, n) == IF n = Len(held) THEN << >> ELSE held

\* What mark_white puts back: the deposit that failed and those after it.
StillHeld(held, n) == SubSeq(held, n + 1, Len(held))

\* mark_white: mints what is held back; where that fails the account stays unmarked.
MarkWhite(admin, account) ==
  LET held == pendingDeposits[account]
      n == Mintable(held, account)
      sum == Total(AmountsOf(SubSeq(held, 1, n)))
  IN
  /\ HasAuth(admin, "Mark")
  /\ pendingDeposits' = [pendingDeposits EXCEPT ![account] = StillHeld(held, n)]
  /\ free' = SetBalance(free, account, free[account] + sum)
  /\ issuance' = issuance + sum
  /\ list' = IF n = Len(held) THEN [list EXCEPT ![account] = "White"] ELSE list
  /\ UNCHANGED <<paused, history, pendingWithdraws>>

\* Mutant: the transactions are forgotten, what is held back is not dropped.
BlackStillHeld(admin, account) ==
  LET held == pendingDeposits[account] IN
  /\ HasAuth(admin, "Mark")
  /\ history' = [t \in DOMAIN history \ {held[i].tx : i \in DOMAIN held} |-> history[t]]
  /\ list' = [list EXCEPT ![account] = "Black"]
  /\ UNCHANGED <<free, issuance, paused, pendingDeposits, pendingWithdraws>>

\* mark_black: drops what is held back and forgets those transactions.
MarkBlack(admin, account) ==
  LET held == pendingDeposits[account] IN
  /\ HasAuth(admin, "Mark")
  /\ pendingDeposits' = [pendingDeposits EXCEPT ![account] = << >>]
  /\ history' = [t \in DOMAIN history \ {held[i].tx : i \in DOMAIN held} |-> history[t]]
  /\ list' = [list EXCEPT ![account] = "Black"]
  /\ UNCHANGED <<free, issuance, paused, pendingWithdraws>>

-----------------------------------------------------------------------------
\* withdraw: into the vault.
Withdraw(who, amount) ==
  /\ Len(pendingWithdraws[who]) < MaxPending
  /\ CanTransfer(free, who, amount)
  /\ free' = AfterTransfer(free, who, Vault, amount)
  /\ pendingWithdraws' = [pendingWithdraws EXCEPT ![who] = Append(@, amount)]
  /\ UNCHANGED <<issuance, paused, list, pendingDeposits, history>>

\* Mutant: a withdrawal is only looked at.
NothingRemoved(amounts, amount) == amounts

\* remove_from_pending_withdraws: the first of that amount.
WithoutFirst(amounts, amount) == RemoveAt(amounts, SelectInSeq(amounts, LAMBDA x : x = amount))

IsPending(who, amount) == \E i \in DOMAIN pendingWithdraws[who] : pendingWithdraws[who][i] = amount

\* refund: out of the vault.
Refund(admin, who, amount) ==
  /\ HasAuth(admin, "Refund") /\ IsPending(who, amount)
  /\ CanTransfer(free, Vault, amount)
  /\ free' = AfterTransfer(free, Vault, who, amount)
  /\ pendingWithdraws' = [pendingWithdraws EXCEPT ![who] = WithoutFirst(@, amount)]
  /\ UNCHANGED <<issuance, paused, list, pendingDeposits, history>>

\* withdraw_finish: the BTC was paid out; the shadow asset stays in the vault.
WithdrawFinish(admin, who, amount) ==
  /\ HasAuth(admin, "Withdraw") /\ IsPending(who, amount)
  /\ pendingWithdraws' = [pendingWithdraws EXCEPT ![who] = WithoutFirst(@, amount)]
  /\ UNCHANGED <<free, issuance, paused, list, pendingDeposits, history>>

-----------------------------------------------------------------------------
Next ==
  \/ \E b \in BOOLEAN : SetPaused(b)
  \/ \E who \in Users, amount \in Amounts :
       \/ Withdraw(who, amount)
       \/ \E to \in Users : Transfer(who, to, amount)
       \/ \E admin \in Admins :
            \/ Refund(admin, who, amount)
            \/ WithdrawFinish(admin, who, amount)
            \/ \E tx \in TxHashes : Deposit(admin, who, amount, tx)
  \/ \E admin \in Admins, who \in Users : MarkWhite(admin, who) \/ MarkBlack(admin, who)

Spec == Init /\ [][Next]_vars

-----------------------------------------------------------------------------
(***************************************************************************)
(* Properties                                                              *)
(***************************************************************************)

\* Every entry of the storage has its type.
TypeOK ==
  /\ free \in Sheet /\ issuance \in Balance
  /\ paused \in BOOLEAN
  /\ list \in [Users -> {"None", "Black", "White"}]
  /\ pendingDeposits \in [Users -> Seq(Held)]
  /\ DOMAIN history \subseteq TxHashes
  /\ \A t \in DOMAIN history : history[t] \in Entry
  /\ pendingWithdraws \in [Users -> Seq(Balance)]

HeldTxs(u) == {pendingDeposits[u][i].tx : i \in DOMAIN pendingDeposits[u]}

\* A deposit held back is in the history under its own account and amount, and
\* is held once: it can be minted once, and meanwhile not be reported again.
HeldIsRecorded ==
  /\ \A u \in Users : \A i \in DOMAIN pendingDeposits[u] :
       LET d == pendingDeposits[u][i] IN
       /\ d.tx \in DOMAIN history
       /\ history[d.tx] = [account |-> u, amount |-> d.amount]
  /\ \A u \in Users : Cardinality(HeldTxs(u)) = Len(pendingDeposits[u])

Reported == [t \in DOMAIN history |-> history[t].amount]
Settled == DOMAIN history \ UNION {HeldTxs(u) : u \in Users}

\* DepositHistory is kept "in case of double spent": what was minted since
\* genesis is backed by recorded transactions that are not held back, each
\* counted once. (It may be less: a deposit whose minting failed is recorded.)
MintedIsBacked ==
  issuance - SumOf(GenesisFree) <= SumFunctionOnSet(Reported, Settled)

\* The books of the deposits agree, whatever was marked, dropped or failed: no
\* transaction is minted twice, and none that was minted can be reported again.
DepositsAddUp == HeldIsRecorded /\ MintedIsBacked

\* The bridge implements the promise about deposits: reporting, marking and minting,
\* in any order and with any failure, settle a BTC transaction at most once, and
\* only one that was not settled may be forgotten.
DO == INSTANCE DepositOnce WITH
  unseen <- TxHashes \ DOMAIN history,
  held   <- UNION {HeldTxs(u) : u \in Users},
  worth  <- Reported,
  minted <- issuance - SumOf(GenesisFree)

ImplementsDepositOnce == DO!Spec

\* The vault can refund every withdrawal that is pending, so no refund is refused.
VaultCoversPending ==
  free[Vault] >= SumFunction([u \in Users |-> Total(pendingWithdraws[u])])
=============================================================================
