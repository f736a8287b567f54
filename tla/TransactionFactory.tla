------------------------- MODULE TransactionFactory -------------------------
(***************************************************************************)
(* The transaction factory: transaction-factory/src/lib.rs over the state  *)
(* of cli/src/factory_impl.rs. On an empty chain it makes block after      *)
(* block of transfers from one master account, numbering and signing each  *)
(* itself, and panics if the client refuses one. The client takes a block  *)
(* it has built itself: executing it once more gives the same result.      *)
(***************************************************************************)
EXTENDS MortalEra, FiniteSets

CONSTANTS
  Period,          \* 256, the period of the transfers' eras
  MinimumPeriod,   \* MinimumPeriod::get(), the least time between blocks
  BlockHashCount,  \* how many block hashes the chain keeps
  Room,            \* how many transfers the weight of a block admits
  Fees, MaxFee,    \* what a transfer may cost, and the most of it
  Deposit,         \* ExistentialDeposit, and the amount of each transfer
  GenesisMoney,    \* what the master account has at genesis
  MaxBlocks, MaxTransactions   \* bounds: on the two arguments of the command

ASSUME PeriodAssumption ==
  /\ Period \in Nat \ {0} /\ MinimumPeriod \in Nat \ {0}
  /\ BlockHashCount \in Nat \ {0}
ASSUME ChainAssumption ==
  /\ Room \in Nat /\ MaxFee \in Nat /\ Fees \subseteq 0..MaxFee /\ Fees # {}
  /\ Deposit \in Nat \ {0} /\ GenesisMoney \in Nat
ASSUME BoundAssumption == MaxBlocks \in Nat /\ MaxTransactions \in Nat

VARIABLES
  blocks, transactions,   \* the arguments: how many blocks, of how many transfers
  blockNumber, index,     \* FactoryState
  bestHash,               \* best_hash
  stage,                  \* what the loop does next: "Loop", "Push" or "Bake"
  txNum,                  \* the transfers pushed into the block
  head, nonce, money, time,   \* the chain: its last block, and in the block being
                          \* built the master's nonce and balance, and the time
  panicked                \* an `expect` failed

args == <<blocks, transactions>>
chain == <<head, nonce, money, time>>
vars == <<blocks, transactions, blockNumber, index, bestHash, stage, txNum,
          head, nonce, money, time, panicked>>

\* new, on a chain that has its genesis block only.
Init ==
  /\ blocks \in 0..MaxBlocks /\ transactions \in 0..MaxTransactions
  /\ blockNumber = 0 /\ index = 0 /\ bestHash = 0
  /\ stage = "Loop" /\ txNum = 0
  /\ head = 0 /\ nonce = 0 /\ money = GenesisMoney /\ time = 0
  /\ panicked = FALSE

-----------------------------------------------------------------------------
\* The head of the loop.
NewBlock ==
  /\ stage = "Loop" /\ blockNumber < blocks
  /\ stage' = "Push" /\ txNum' = 0
  /\ UNCHANGED <<args, blockNumber, index, bestHash, chain, panicked>>

\* Mutant: the phase is that of the block being made.
PhaseOfNext == blockNumber + 1

\* transfer_extrinsic: the era's phase is the number of blocks made.
Phase == blockNumber

NextIndex(i) == i + 1

\* CheckWeight: the block has room for one more.
HasRoom == txNum < Room

\* ChargeTransactionPayment: the fee must leave the account alive.
CanPay(fee) == money >= fee + Deposit

\* The client takes a transfer that all the checks of its extension pass: CheckEra,
\* CheckNonce, CheckWeight and ChargeTransactionPayment.
Accepted(fee) ==
  /\ EraHolds(Mortal(Period, Phase), bestHash, head + 1, BlockHashCount)
  /\ index = nonce /\ HasRoom /\ CanPay(fee)

\* The fee and the amount are taken. An account left with less than the existential
\* deposit is removed, and its nonce with it.
Left(fee) == (money - fee) - Deposit
Taken(fee) ==
  IF Left(fee) < Deposit THEN money' = 0 /\ nonce' = 0
  ELSE money' = Left(fee) /\ nonce' = nonce + 1

\* block.push of a transfer, whose fee depends on its length and on the load of
\* earlier blocks; whom it goes to is left out. After the last one the inherents are
\* next.
PushTransfer ==
  /\ stage = "Push" /\ txNum < transactions
  /\ index' = NextIndex(index)
  /\ \E fee \in Fees :
       IF Accepted(fee)
         THEN Taken(fee) /\ txNum' = txNum + 1 /\ UNCHANGED panicked
         ELSE panicked' = TRUE /\ UNCHANGED <<nonce, money, txNum>>
  /\ UNCHANGED <<args, blockNumber, bestHash, stage, head, time>>

\* The inherents: the time, which the chain wants to have moved on enough, and
\* the last block said to be final, which may not be ahead of this one.
Timestamp == (blockNumber + 1) * MinimumPeriod
FinalHint == blockNumber

PushInherents ==
  /\ stage = "Push" /\ txNum = transactions
  /\ IF (time = 0 \/ Timestamp >= time + MinimumPeriod) /\ FinalHint <= head + 1
       THEN time' = Timestamp /\ stage' = "Bake" /\ UNCHANGED panicked
       ELSE panicked' = TRUE /\ UNCHANGED <<time, stage>>
  /\ UNCHANGED <<args, blockNumber, index, bestHash, txNum, head, nonce, money>>

\* Mutant: the hash of the parent is kept.
ParentHash == head

\* The hash of the block that was built.
BuiltHash == head + 1

\* The block is built, counted and imported.
Import ==
  /\ stage = "Bake"
  /\ blockNumber' = blockNumber + 1
  /\ bestHash' = BuiltHash
  /\ head' = head + 1
  /\ stage' = "Loop" /\ txNum' = 0
  /\ UNCHANGED <<args, index, nonce, money, time, panicked>>

Finished == stage = "Loop" /\ blockNumber = blocks

Next == ~panicked /\ (NewBlock \/ PushTransfer \/ PushInherents \/ Import)

\* The factory is one thread that runs on.
Spec == Init /\ [][Next]_vars /\ WF_vars(Next)

-----------------------------------------------------------------------------
(***************************************************************************)
(* Properties                                                              *)
(***************************************************************************)

\* The factory's own idea of the chain is right: between blocks its number, its
\* hash and its index, which it never reads back, are those of the chain's head
\* and of the master's account, as long as that has money.
ChainIsTracked ==
  stage = "Loop" =>
    blockNumber = head /\ bestHash = head /\ (money > 0 => index = nonce)

\* What the chain can be asked for: blocks that hold their transfers, and no more of
\* these than the master can pay at the highest fee, its account still alive.
Feasible ==
  /\ transactions <= Room
  /\ blocks * transactions * (MaxFee + Deposit) + Deposit <= GenesisMoney

\* Of what is feasible nothing is refused, over as many blocks as are asked for and
\* through the wrapping of the eras, so the factory makes all of them.
MakesAllBlocks ==
  Feasible => <>(Finished /\ head = blocks /\ nonce = blocks * transactions)
=============================================================================
