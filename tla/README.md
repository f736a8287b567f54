# A verification of the Definex money market

Definex is a Substrate node whose runtime adds a market for savings and loans: users save a
stable asset (DUSD), others borrow it against a pledged asset (BTC), prices come from an oracle,
and loans whose collateral no longer covers them are auctioned. This directory models that
runtime in TLA+, checks the models with TLC and proves their safety properties with TLAPS.

## The system

| component | source | state | operations |
|---|---|---|---|
| generic-asset | `runtime/modules/generic-asset/src/lib.rs` | per asset: issuance, free and reserved balances, permissions, symbol, locks; the next asset and lock id | create, create_reserved, transfer, update_permission, mint, burn; for other modules: make_transfer, mint_free, burn_free, reserve, unreserve |
| deposit-loan | `runtime/modules/deposit-loan/src/lib.rs` | pause switch, settings, dtoken counters, the loans and their indexes, totals, the liquidation list | staking, redeem, apply_loan, repay_loan, mark_liquidated, add_collateral, draw, twelve setters, pause, resume; `on_initialize` of every block |
| new-oracle | `runtime/modules/new-oracle/src/lib.rs` | price sources, stacked reports, current prices | add_source, stack_price_unsigned, off-chain worker, `on_finalize` |
| bridge | `runtime/modules/bridge/src/lib.rs` | KYC list, deposits held back, history of BTC transactions, pending withdrawals | deposit, mark_white, mark_black, withdraw, refund, withdraw_finish |
| btc-bridge | `runtime/modules/btc-bridge/src/lib.rs` | as bridge; key material and derived keys | as bridge; set_key_material, get_subkey_from_path |
| runtime | `runtime/src/lib.rs`, `runtime/src/impls.rs` | the fee multiplier | the order of the hooks in a block; fee split, weight fee, multiplier, votes |
| genesis | `cli/src/chain_spec.rs` | the state of block 0 | none |
| transaction-factory | `transaction-factory/src/lib.rs`, `cli/src/factory_impl.rs` | block number, index, best hash | the loop that makes blocks of transfers |
| node service, command line, executor, rpc, inspect, primitives, testing | the rest of `src/` | none of their own | configuration, services and tooling of the Substrate node template |

How they interact: deposit-loan and bridge call generic-asset directly (`make_transfer`,
`mint_free`, `free_balance`); deposit-loan reads the price that new-oracle publishes under the
symbol generic-asset keeps for the collateral asset. The interactions are synchronous, inside one
block. What is concurrent is the world around it: calls of different origins arrive in any order,
the block hooks run between them, off-chain workers, and anyone else, report prices through a
transaction pool that delays, drops and deduplicates. The bridge pallet is in the repository but
commented out of `construct_runtime`; btc-bridge is its predecessor.

Three facts of this Substrate version shape every model:

* a call that returns an error **keeps what it has already written**;
* a call that panics is discarded altogether;
* a panic in `on_initialize` makes the block impossible to build. As the next attempt meets the
  same state, the chain stands still (`halted`).

The runtime is built without overflow checks, so `+`, `-` and `*` on balances wrap.

### What is hard here

* Errors in the middle of a sequence of transfers (`repay_for_loan`, `mark_loan_liquidated`,
  `make_redeem`, `mark_white`), with hand-written reverts.
* Arithmetic in `on_initialize` that panics on zero, and integer widths in the interest, the fee
  multiplier and the votes.
* One loan touched by its owner, by the liquidation account and by every block, at a price that
  changes at the end of blocks.
* Several views of one book (`Loans`, `LoansByAccount`, `LiquidatingLoans`, two totals).
* Delayed price reports, aggregated by block height.
* `create_asset`, which overwrites whatever an id holds.
* BTC transactions that are reported, held, forgotten and reported again.
* Tools that number blocks and transactions themselves instead of asking the chain.

`PROJECT.json` lists them under "hazards", each at its line with the properties about it.

### What makes each component correct

* generic-asset: balances add up to the issuance; money is lost only by the holder's or the burn
  owner's call; renounced permissions stay renounced; locks match reservations.
* deposit-loan: what savers together paid in and have not got back is in cash or lent out; the
  dtoken counters move only with money; a loan leaves the book once, when paid; the views of the
  book agree; an unhealthy loan is listed and stays listed; blocks panic only at limits one can name.
* new-oracle: each report counts once, and the price lies between the reports of a round.
* deposit-loan over new-oracle: a loan is judged by the price its debtor acts on, and is not listed
  unless the price fell.
* bridge, btc-bridge: nothing is minted without a recorded BTC transaction, nor twice; every
  pending withdrawal can be refunded.
* runtime adapters: no unit of a fee is lost; fees follow the load; votes say what an account holds.
* transaction-factory: its idea of the chain is the chain, and nothing it can ask for is refused.

## The modules

| module | models | composed of |
|---|---|---|
| `Balances` | balances of one asset, `make_transfer`'s two updates, wrapping | |
| `AssetLedger` | abstract specification: an asset's supply and holdings, Move, Issue, Retire | Balances |
| `GenericAsset` | generic-asset | Balances, implements AssetLedger |
| `PoolState` | deposit-loan's storage, settings and root calls | Balances |
| `Savings` | staking and redeeming | PoolState |
| `LoanBook` | loans from application to repayment or settlement | PoolState |
| `DepositLoan` | the block hook, and all of deposit-loan together | Savings, LoanBook |
| `InterestRate` | `calculate_loan_interest_rate` in full, over time | Balances |
| `NewOracle` | the oracle, its workers and the transaction pool | |
| `Market` | the runtime: deposit-loan and new-oracle in the order a block runs them, from the genesis | DepositLoan, NewOracle, implements DepositLoan |
| `DepositOnce` | abstract specification: a BTC transaction is unseen, held, or settled for good | |
| `Bridge` | the bridge over one asset | Balances, implements DepositOnce |
| `BtcBridge` | btc-bridge: the same calls, and the derivation of keys | Bridge |
| `Fees` | the fee and currency adapters of the runtime, over blocks of transactions | Balances |
| `MortalEra` | Substrate's eras, external | |
| `TransactionFactory` | the factory beside the chain it feeds | MortalEra |
| `BalancesProofs` | lemmas about finite sums, least elements and transfers | Balances |
| `GenericAssetProofs` | theorems about the ledger | BalancesProofs |
| `DepositLoanProofs` | theorems about the pool: its books, its money | BalancesProofs |
| `MarketProofs` | theorems about the oracle and the runtime | DepositLoanProofs |
| `BridgeProofs`, `InterestRateProofs`, `FeesProofs` | theorems about both bridges, the interest, the fees | BalancesProofs |
| `FactoryProofs` | theorems about the factory | TransactionFactory |
| `MCGenericAsset`, `MCDepositLoan`, `MCMarket`, `MCBtcBridge`, `MCInterestRate`, `MCFees` | instances for TLC | |

Correspondence. A storage item is a variable, a map a function with the storage's default, a
list a sequence. A dispatchable call is an action with its name; "map" in `PROJECT.json` gives the
lines of every definition. In `GenericAsset` every refusal is a step that reports its error in
`result`; in the other modules a refused or discarded call is a stuttering step and only calls
that write are actions - those that fail after writing included (`RepayReverted`,
`MarkWithoutPenalty`, `MarkWithoutShare`, the third case of `Deposit`). Operators named after
"Mutant" comments are plausible bugs, used to confirm that each property can fail.

Abstractions:

* Events, weights of calls and encodings are left out, and the text of symbols and sources.
* Locks are kept under the asset; the source keys them by a 64-bit hash of it, and a collision is
  not modelled.
* `get_ltv`, the credit of a draw and the amounts of an application are computed as in the code,
  in small units: `LtvPrec`, `PricePrec` and the thresholds are constants. Intermediate products
  wrap at the width (`Narrow`), `as u32` is `Low32`. An LTV is a `u64` (`U64`): `get_ltv` panics on a
  quotient that is not one (106, `LtvPanics`), in a block and in a call, but not where an application
  compares the quotient before it is converted. A price of 0 panics as a divisor.
* The interest is 0 in every block: `calculate_loan_interest_rate` stores the current time in
  `BonusTime` (1042) before it reads it back (1067). `InterestRate` has the whole calculation
  beside a book reduced to what is saved and owed, its two panics included (`ProductPanics` of
  1045-1047, and the division by deposits cut to 32 bits), and shows that no block charges anything
  (`BlocksChargeNothing`); on that ground `DepositLoan` keeps of it what can panic.
* The LTV inside a loan's status is left out, as nothing reads it.
* In `NewOracle` anyone submits any report, of any token and price: `validate_unsigned` accepts all and
  `stack_price` refuses none. A worker's report (`Fetch`) is one of them, as long as it has a source. The
  block that a report names is compared with nothing, and a report that was lost or stacked may be
  submitted again, so the block is left out: how old a price is, the code does not limit. `longevity`
  counts from a node's own validation and is one of the reasons for a `Drop`.
* `Market` splits a block into its start, its calls and reports in any order, and its end; `Observe`
  only keeps history for the properties, and guards nothing.
* In `Bridge` the sudo key owns the shadow asset and nobody else mints it. `BtcBridge` takes the
  calls that btc-bridge shares with bridge line by line from `Bridge`; the older assets module it
  names is not in the repository, and is taken to mint and transfer as generic-asset does. A key
  is the material and the components it was derived from, and who asks does not enter it.
* In `Fees` the balances and transaction-payment pallets, block authorship and staking's rewards
  are Substrate's, modelled from how `impls.rs` uses them. `Fixed64` is an integer in units of `One`.
* In `TransactionFactory` the client is the chain's checks of era, nonce, weight, payment, time and
  final hint, any of which may refuse and make the factory panic. A block has room for `Room` transfers, one costs
  any of `Fees`, and the master starts with `GenesisMoney`; an account left with less than the
  existential deposit is removed. The receivers of the transfers are left out, the hash of a block
  is its number, and the client does not refuse to import the block it has just executed itself.
* The official accounts (collection, profit pool, pawn shop, liquidation, vault) do not act as
  users: the genesis derives them from seeds kept by the operator.

## The runs

Passing:

| run | instance and bounds | shows |
|---|---|---|
| `generic_asset` | 3 accounts, ids 0 to 2, balances up to 2 | `TypeOK`, `NothingBeforeCreation`, `OnlyAuthorisedLoss`, `RenouncedIsFinal` |
| `generic_asset_locks` | 2 accounts, one asset in use, three locks | `LockIdsUnique`, `ReservedMatchesLocks`, `Conservation`, `ImplementsLedger` |
| `loans_wild` | 2 users, 2 loans, penalty 1300 %, surpluses, added collateral, derived amounts, draws, reverted repayments, a cap of 6 that root sets and removes | `TypeOK`, `LoanBookConsistent`, `LiquidatingConsistent`, `TotalsCoverLoans` |
| `savings` | 2 savers, stakes of 3 and 7, one loan that takes the cash away, drawn from, repaid or auctioned | `SavingsCovered`, `HaltsOnlyAtLimits`, `SavingsAreCredited`, `LossIsRecorded`, `UnhealthyIsListed` |
| `market` | one debtor, 2 loans, draws of 40, three rounds of the oracle, reports of BTC and DUSD by anyone, of a price of 0 or 10, pauses, a source added | `ShopCoversLoans`, `HaltsOnlyAtLimits`, `ClosedWhenPaid`, `LiquidationSticks`, `PriceFollowsReports`, `ImplementsPool`, `NoneEscapes`, `ListedAfterFall`, `ReportsAreAggregated` |
| `bridges` | 2 users, 2 transactions of 1 or 2, at most 3 issued, 2 pending withdrawals; 2 key materials, 2 paths | `BtcTypeOK`, `DepositsAddUp`, `VaultCoversPending`, `ImplementsDepositOnce` |
| `interest` | 2 debtors, 8 for 2^32, deposits up to 9, loans whose product outgrows a balance at 7, four years | `LoanRateInBand`, `HaltsOnlyAtWidth`, `BlocksChargeNothing` |
| `fees` | one payer, 2 authors of whom one has no account, blocks up to three quarters, votes up to 6 | `FeesAreAccounted`, `MinorityVotesFit`, `PriceFollowsLoad`, `EmptyChainGetsFree` |
| `transaction_factory` | up to 10 blocks of up to 4 transfers, a period of 4, room for 3 transfers, fees of 0 or 1, money for 20 transfers at the highest fee | `ChainIsTracked`, `MakesAllBlocks` |

Why the bounds are enough. A balance of at most 2 makes minting overflow, burning underflow and
an addition that could wrap happen within a few steps; three ids distinguish an id reserved at
genesis, one still to be created and one never reached, and the last is also where ids run out. Three
locks allow two of the same amount and one of another. In `loans_wild` the genesis stands for a pool
in use: a loan of 12 against 10 BTC is well at price 4 and unhealthy at 2, and two of
them exhaust the cash. A repayment of it reverts when its collateral was added to in the wrong asset,
and puts 12 more on a total of 12: that is what `MaxTotal` = 24 leaves room for. In `savings` one
loan of 6 leaves less cash than savers own, which makes either half of a redemption fail; drawing 5
takes it over the threshold, and again, until an LTV is past `U64` and the deposits are past `U32`,
so that both limits stop the chain. In `market` the amounts are large enough that no rounding of
an LTV decides anything but what it decides at full size. Reports of 0 and 10 make prices of 0, 5 and
10: one application is within the limit at 10 alone, one never, and a price of 0 beside a loan stops
the chain. Drawing 40 takes a loan through the threshold at once. An interval of 2 blocks lets a
report that is delayed in one round be counted in the next; three rounds are the price appearing,
falling and recovering. In `bridges` the issuance limit makes the second of several held deposits
fail. In `interest` amounts of 1 and 6 make pools that are empty, lent out to the last unit, and a
multiple of 8, with debts of different sizes beside each other, and with both limits reached. In `fees` the steps of the multiplier are a twentieth
and a tenth, so that it reaches its floor within some twenty blocks and saturates within a few; the second term
rounds to 0 there as it does at full size, where the code says it hardly exists. In `transaction_factory` the eras wrap
twice and outlive the hashes kept, of which the chain keeps fewer than a period; a block of 4 has no
room, and 7 blocks of 3 are more than the money can pay at the highest fee.

What the passing runs assume. `savings` and `market` are a pool in orderly use: a loan is only
asked for with its collateral named, nobody adds collateral (which arrives in the wrong asset)
and auctions bring exactly the loan. Without these `HaltsOnlyAtLimits`, `ShopCoversLoans` and
`ClosedWhenPaid` are false, and the sections on violations and divergences say why. `loans_wild`
drops them and allows deadlock: the chain may stand still. `market` starts, as the node does, from
a genesis where BTC has no price, with the thresholds in the unit the code compares in.
It allows deadlock because the model ends at `MaxHeight`; `interest`, because the chain may stop;
`transaction_factory`, because the factory finishes. `ReservedMatchesLocks` holds for callers that
release a lock together with its own amount (`StrayUnreserve = FALSE`); `unreserve` does not compare
them, and no module of this repository calls it. `Conservation`,
`LockIdsUnique` and the refinement are proved for both cases.

Bounds in guards: `MaxLockId`, `MaxLoanId`, `MaxTotal`, `MaxSources`, `MaxPool`, `MaxReports` (for each
token), `MaxHeight`, `MaxPending`, `MaxTime` and `MaxSaved`; `MaxBlocks` and `MaxTransactions` bound the
arguments of the factory, and `MaxBalance`, the width of a balance elsewhere, what `Fees` lets grow.
`MaxTotal` limits draws and reverted repayments, which could otherwise raise the totals without end.

Fairness. Weak fairness of the making of blocks and of nothing else: blocks are authored on
a schedule whatever users do, and each runs its hooks. That is `Block` in `LiveSpec` of
`DepositLoan`, the start and the end of a block in `MarketSpec`, `Finalize` in `NewOracle`,
`EndBlock` in `Fees`. In `TransactionFactory` it is the one thread of the factory. `UnhealthyIsListed` says
that a loan at the liquidation threshold is listed by a later block unless it recovers or the
module is paused first; `ReportsAreAggregated`, that every stacked report is aggregated, paused pool or
not; `EmptyChainGetsFree`, that without transactions the multiplier reaches -1, which it would miss
if one rounded step were 0; `MakesAllBlocks`, that the factory finishes what it was asked for. No user,
root call, worker or liquidation is assumed to happen.

Refinements. `ImplementsLedger`: whatever the calls, an asset's holdings only move, are issued or
retired. `ImplementsDepositOnce`: a transaction is unseen, held or settled, each is settled once,
and what was minted is the worth of what was settled. `ImplementsPool`: in the runtime
the pool takes no step that `DepositLoan` does not know, at no price outside the range of the
reports, whoever submits them.

What the counters do not say. `SavingsCovered` is about `TotalDtoken` and `MarketDtoken`, which `redeem` lowers:
it says that what all savers paid in and have not got back is there. A saver redeems by `UserDtoken`,
which `redeem` never lowers (`dtokens_diverge`), so one of them may take out what others paid in; the
property stays true, and promises no saver a share. `SavingsAreCredited` says what does hold of the
single saver: the counters and the cash move by the same amount, in one saver's step at a time, whichever
half of a redemption fails, and never at the cost of another's dtokens.

Runs that find a violation, each of what the source says of itself:

| run | the source says | the code does |
|---|---|---|
| `dtokens_diverge` | `MarketDtoken` is the "Total market dtoken generated" (135) | redeeming lowers it, and leaves the user's dtokens |
| `leftover_uncovered` | the auction first makes up the loan, the rest is returned (403) | the rest is paid by the pool, which did not receive it |
| `collateral_elsewhere` | `TotalCollateral` is locked in the pawn shop (184) | added collateral is paid in the saved asset (881) |

### Other divergences met while modelling (no run)

All in `deposit-loan/src/lib.rs` unless named. The models have what the code does.

* 276, 282: the setters of the two thresholds (166, 169) write each other's storage (`Written`).
* 181: `TotalLoan` is the "total balance of loan asset in circulation"; settling a liquidated loan
  does not lower it. It is at least what is lent, which `TotalsCoverLoans` checks.
* 193: liquidating loans "will not be in `Loans` & `LoansByAccount`"; they stay in both until settled.
* 199: the collateral "must be greater" than the minimum; the code tests `>=`, on the amount asked
  for. With a minimum of 0 an applicant may leave the collateral to be derived, and a small loan
  derives a collateral of 0; the next block divides by it.
* 426: drawing is allowed "as long as the LTV of this loan is below" the limit; the code compares with
  a credit computed from the available collateral, which forgets what is owed. A draw raises the debt
  and pays nothing out.
* An application that leaves the loan to be derived is charged the derived loan and paid 0.
* The genesis sets the thresholds in units of 10^8 (`chain_spec.rs`), the code compares LTVs in
  units of `LTV_PREC` = 10^4; its penalty of 1300 % is more than any surplus, so a settlement that
  leaves a surplus fails half-way.
* 1042, 1067: interest never accrues, as said above.
* 1051: the README's rate formula has three branches from 0 to 1; utilization as computed is at most
  1/2, the first branch's bound is written `4000_00000`, ten times 0.4, and the rate reported
  is therefore between 5 % and 10 % (`LoanRateInBand`).
* bridge 68: `Paused` is a "module level switch" that no call reads. 72: amounts "above" the
  threshold trigger KYC; the code tests `>=`.
* generic-asset 592: "This function cannot fail" of `unreserve`, which has three errors.
* new-oracle: a worker with no source for BTC panics (156); equal reports of two validators count once
  while they wait together (332); nothing limits who reports, what, or how old it is, and a round
  whose reports are all 0 publishes a price of 0, by which the next block divides.
* btc-bridge 118-130: a subkey is derived from the key material and the path alone, though it is kept for
  an account and a path: two accounts that ask for the same path get the same key.
* factory: a number of transfers that a block has no weight for, or the master no money, is not
  refused on the command line but ends in a panic (`MakesAllBlocks` has them excluded by `Feasible`).
* `impls.rs` 47: "as u64" of a balance keeps the low 64 bits, so the votes of a holder of more than
  2^64, while the issuance is below twice that, wrap.

## What is proved

For every value of the constants that satisfies the assumptions in the modules: any finite set of
accounts, any width of balances, any amounts, prices, settings and bounds.

**The ledger** (`BalancesProofs`, `GenericAssetProofs`):

| theorem | statement |
|---|---|
| `TransferKeepsSum` | a transfer keeps the sum of an asset's balances, and neither unchecked update wraps |
| `TypeCorrect` | `Spec => []TypeOK` |
| `AssetsConserved` | `Spec => []Conservation` |
| `NothingOverwritten` | `Spec => []NothingBeforeCreation` |
| `RefinesLedger` | `Spec => ImplementsLedger` |
| `OnlyOwnersTake` | `Spec => OnlyAuthorisedLoss` |
| `RenouncedStays` | `Spec => RenouncedIsFinal` |
| `LocksAreUnique` | `Spec => []LockIdsUnique` |
| `LocksAreReserved` | `~StrayUnreserve => (Spec => []ReservedMatchesLocks)` |

A sum of balances is the number of unit coins the accounts hold (`Coins`), so that
facts about sums are facts about the cardinality of finite sets: changing one entry changes the sum
by the difference (`SumUpdate`), and no entry exceeds the sum (`SumBounds`). Conservation alone is
not inductive. `create_asset` overwrites a balance, so it must be known that the id held nothing;
`make_transfer` adds without a check, so it must be known that the sum fits. The inductive invariant is
`IInv == TypeOK /\ Conservation /\ NothingBeforeCreation`: an id that was not created has no
owner, hence cannot be minted; and its issuance is a balance, so by conservation no sum wraps.
`generic_asset` and `generic_asset_locks` check its three parts on their instances. The refinement uses
the same invariant: `create` is an issue because the id was empty, `reserve` and `unreserve` leave
holdings alone because their sums do not wrap. So do the two action properties, of which a call that
creates is the hard case: what an account has cannot shrink, nor a permission come back, only because
the id was empty before. `LocksAreReserved` adds up the locks of a list: its lemmas say that one lock at
the end adds its amount and that taking out the lock that `unreserve` finds takes off that lock's.

**The pool** (`DepositLoanProofs`, the last in `MarketProofs`):

| theorem | statement | under |
|---|---|---|
| `BookCorrect`, `PoolTypeCorrect`, `ListIsMarked` | `[](TypeOK /\ LoanBookConsistent /\ LiquidatingConsistent)` | |
| `LiquidationStays` | `LiquidationSticks` | |
| `TotalsCovered` | `[]TotalsCoverLoans` | `TotalsNeverWrap` |
| `PoolIsFunded` | `[](RateIsOne /\ Funded(free))`: no call makes or destroys money | |
| `LossesAreRecorded` | `LossIsRecorded` | `TotalsNeverWrap` |
| `SaversAreCredited` | `SavingsAreCredited` | |
| `CountersAreCovered` | `[]SavingsCovered` | own accounts, exact auctions, `TotalsNeverWrap` |
| `PledgesAreHeld` | `[]ShopCoversLoans` | own accounts, exact auctions, no added collateral |
| `LoansEndPaid` | `ClosedWhenPaid` | own accounts, exact auctions |
| `HaltsAtLimits` | `[]HaltsOnlyAtLimits`: `halted => ~BlocksFit` | `SoundApplications`, `TotalsNeverWrap` |

The book first. The three parts of `BookCorrect` are inductive only together: the ids of running loans
lie below `next_loan_id`, which makes the id of an application fresh and keeps both lists free of
repetitions, and a loan is marked exactly when it is listed, so that a repayment leaves no listed loan
behind. The lemmas about `InOrder` say what a `filter` and the enumeration of `Loans` leave of a
list. The money then: `PoolInv` adds that every asset sums to what the genesis gave it (`Funded`), so
that by `TransferKeepsSum` no payment wraps, also not those that are reverted or that fail half-way;
that `TotalDtoken` equals `MarketDtoken` (`RateIsOne`), so that the two divisions of `redeem` cancel; and
that officials are no users and borrowers are. The sums over loans are folds over a set; `BalancesProofs` proves
that the order of a fold does not matter.

The conditions are what the code leaves to its operator, and each is named. `TotalsNeverWrap` says that no
addition to `TotalLoan` or `TotalCollateral` passes the width: settling a liquidated loan does not
lower `TotalLoan`, so nothing in the code bounds it. *Own accounts* (`AccountsKept`, `AssetsKept`) is the
genesis: the collection account, the pawn shop and the liquidation account are three accounts, loans are
paid in the asset that is saved, and root leaves these settings alone - `stale_state` at 253 is what
happens otherwise. *Exact auctions* (`ExactAuctions`) and no added collateral are what
`leftover_uncovered` and `collateral_elsewhere` show to be needed.

`HaltsAtLimits` says what can stop the chain. A block divides by the worth of a loan's available
collateral, so the invariant behind it is that loans have substance (`LoansHaveSubstance`): each owes
something and keeps some of its collateral available. An application takes the loan over
the price off the collateral, and less than all of it, because the loan is within a limit of less than
one; a draw takes its amount over the price, and its credit is computed from what is available, so that
the same argument leaves some; a repayment that pays all ends the loan. What remains are the limits
that `BlocksFit` lists: a product or sum of `on_initialize` beyond its width, deposits or a price of which
`as u32` leaves 0, an LTV past 64 bits - repeated draws leave ever less available beside ever more owed,
and nothing in the code stops them short of it - and a price of 0 beside a loan, which anyone's reports can make.
`FittingLtv` and `PanicsAtLimit` connect the panics with these limits.
`SoundApplications` is: both amounts are named and fit the products of `get_ltv`, the limit is
less than one, and root leaves limit, threshold and collateral asset alone. A small
loan whose collateral is left to be derived does stop the chain (`numeric_edge` at 652).

**The runtime** (`MarketProofs`):

| theorem | statement | under |
|---|---|---|
| `PricesFollow` | `PriceFollowsReports` | `ReportsFit` |
| `PoolIsImplemented` | `ImplementsPool` | `ReportsFit`, `RangeCovered` |
| `RuntimeKeepsPool` | the book's invariants, `LiquidationSticks`, `ClosedWhenPaid` and, with no added collateral, `[]ShopCoversLoans` | these and own accounts, exact auctions |
| `NoLoanEscapes` | `NoneEscapes` | `FairJudgement`, `TotalsNeverWrap` |
| `ListedOnlyAfterFall` | `ListedAfterFall` | `FairJudgement`, `TotalsNeverWrap` |
| `RuntimeHaltsAtLimits` | `[]HaltsOnlyAtLimits` | `FairJudgement`, `TotalsNeverWrap` |

`ReportsFit` says that for each token as many reports as count for one price do not wrap the 64-bit
sum; it is needed, as `on_finalize` adds without a check. `RangeCovered` says that `Prices`, what
`DepositLoan` admits, has whatever lies between two reports. `PoolIsImplemented` shows that
a mean lies between the least and the greatest report, so that the pool sees no price its specification
does not have, that the prices it reads are those published, of every asset, and that they stand still between two ends of blocks.

`NoLoanEscapes` and `ListedOnlyAfterFall` are about a loan from its application on.
`FairJudgement` is, beside `ReportsFit` and `RangeCovered`: nothing is added in another asset; root leaves the LTV limit, the liquidation threshold and the collateral asset alone (the threshold has to be guarded at the *other* setter,
`warningThreshold`); applicants name both amounts, and they are small enough for the products of
`get_ltv`; and `LimitLeavesRoom`, `limit * P <= threshold * (P - limit)` with `P = PRICE_PREC * LTV_PREC`.
This is because an application is weighed against the whole collateral, a block against the
*available* one, less the loan over the price: at the limit, the loan must still be below the threshold
after that. 6667 and 10000 in units of `LTV_PREC` leave it. The genesis as written, 6666_6667 and 1_0000_0000,
does not: there `P` is the threshold, and a loan between a half and two thirds of collateral times price would
be listed by the next block without any fall.

The `market` instance satisfies every one of these conditions, `savings` those of the pool's theorems.

**The bridges** (`BridgeProofs`):

| theorem | statement |
|---|---|
| `DepositsAgree` | `Spec => [](TypeOK /\ DepositsAddUp)` |
| `VaultIsFunded` | `Spec => [](VaultCoversPending /\ RefundsAreAfforded)` |
| `SettledOnce` | `Spec => ImplementsDepositOnce` |
| `BtcDepositsAgree` | the three of them, of `BtcSpec` |
| `KeysAreTyped` | `BtcSpec => []BtcTypeOK` |

`DepositsAddUp` counts and is not inductive: `mark_white` mints in a loop and stops at the first
failure. `BridgeInv` says which deposit is which: each one that is held is in the history with its
account and amount (`HeldInHistory`), no transaction is held twice, by one account or two (`HeldOnce`), and
what was issued since the genesis is at most the worth of those in the history that are not held
(`MintedIsBacked`). Then one that is refused half-way, or forgotten and reported again, can neither be
minted twice nor vanish. `VaultCoversPending` says that the vault has the sum of all that is pending, and
`RefundsAreAfforded` what that is for.

**The interest, the fees and the factory** (`InterestRateProofs`, `FeesProofs`, `FactoryProofs`):

| theorem | statement | under |
|---|---|---|
| `RatesAreModest` | `Spec => []LoanRateInBand` | |
| `InterestHaltsAtWidth` | `Spec => []HaltsOnlyAtWidth` | |
| `InterestNeverCharged` | `Spec => BlocksChargeNothing` | |
| `NoFeeIsLost` | `Spec => []FeesAreAccounted` | |
| `VotesFit` | `Spec => []MinorityVotesFit` | |
| `FeesFollowLoad` | `Spec => PriceFollowsLoad` | |
| `FactoryKeepsTrack` | `Spec => [](ChainIsTracked /\ (panicked => ~Feasible))` | `Period > 1` |
| `FactoryMakesAll` | `Spec => [](Finished => head = blocks /\ index = blocks * transactions /\ (Feasible => nonce = index))` | `Period > 1` |

The interest: `InterestHaltsAtWidth` has both of its panics, the division and the checked product.
`RateInv` says that cash and debts are never negative. Then what is lent is at most half of
what the code divides it by, only the first of the three branches is taken, and the rate is between 5 %
and 10 %. Because the time is stored before it is read, nothing is generated, and a part of nothing is
nothing; this is what allows `DepositLoan` to leave the charge out.

The fees: `FeesInv` is `FeesAreAccounted` with the types, of which one is a fact: the multiplier is at
least -1. A fee is therefore never negative, and its two parts, the second computed as what the first
leaves, are all of it. `FeesFollowLoad` rests on the second term of the update, which is never negative
and always added, being no more than the first: the deviation from the target is at most one, so its
square is no more than itself, and the factor of the square is no more than that of the first term
(`HalfVSquared <= V`, true of the code's 10^-9 and 0.00004).

The factory: `FactoryInv` says that its numbers are the chain's in the middle of a block too, that the chain's time
is that of the block (`TimeIsOfBlock`), how far the work is (`MadeSoFar`), and that of what is feasible
nothing was refused and the money for the rest is there (`FundsLast`). `BornAtHead` shows
that the era of a transfer is born at the head also where its phase has wrapped, whose hash is always
kept. With a period of 1 it would not be, hence the condition; the code's period is 256.

Out of the prover's reach, and only model-checked: liveness under fairness, which is `UnhealthyIsListed`,
`ReportsAreAggregated`, `EmptyChainGetsFree`, and that the factory gets done (`MakesAllBlocks`). Every
other property of a passing run is stated by a theorem, under the conditions the tables name.

## Not modelled, and the plan

* node service (`cli/src/service.rs`): wires Substrate's tasks once at start; the protocols those
  tasks run are outside the repository.
* command line, executor, rpc, rpc-client, inspect, primitives: declarations, formatting, parsing and
  read-only interfaces, without state of their own.
* testing (`src/testing`, the benchmarks and test clients): tooling around the node.
* the rest of the runtime's configuration and of the genesis: parameters of Substrate's governance,
  staking and consensus pallets.
* `create_transaction` of the runtime, which signs for off-chain workers: no worker of this
  repository submits a signed transaction.
* Peer-to-peer lending, named in the repository's README, is not in the code.

Done: the ledger; the pool, its interest, the oracle, and both in one runtime; both bridges; the
adapters of the runtime; the factory; proofs of the safety properties of all of them. Left:

1. The conditions of the pool's theorems under which root may change a setting: the threshold may be
   lowered, and the collateral asset changed while no loan runs.
2. What `TotalsNeverWrap` assumes, from a bound on what the liquidations settle.
