# Formal models of the ChainFusion SDK

TLA+ models of the bridges in this repository, checked with TLC on small
instances and, where it says so, proved with TLAPS for all values of the
constants. `PROJECT.json` maps every definition to the source lines it models.

## 1. The system

A bridge moves tokens between an EVM chain and another ledger. It consists of
contracts on the EVM (`solidity/src`) and a canister on the Internet Computer
(`src/*-minter`, `src/*-bridge`). The canister watches the events of the
contract, acts on the other ledger, and signs *mint orders* that anybody can
submit to the contract.

| Part | State | Operations | Interacts with |
|---|---|---|---|
| `BftBridge.sol`, `TokenManager.sol` | used nonces, token registries, operation counter, last burns per user, paused flag | `mint`, `burn`, `deployERC20`, `pause`, `unpause`, `notifyMinter`, upgrades | tokens, fee contract, canister (events in, orders out) |
| `WrappedToken.sol` | ERC-20 balances, owner | `transfer` (owner mints), `transferFrom` (owner burns), `approveByOwner`, `setMetaData` | bridge contract |
| `FeeCharge.sol` | native deposits, approved sender ids | deposit, withdraw, remove approvals, `chargeFee` | bridge contract |
| `RingBuffer.sol` | ring of 255 block numbers | `push`, `size`, `getAll` | bridge contract |
| `operation_store.rs` | id counter, incomplete operations, log, address index | `new_operation`, `update`, `get`, `get_for_address`, eviction | every canister but the BTC bridge |
| `bft_bridge_api.rs` | none | `collect_logs`, encoding and decoding | EVM node |
| `evm_bridge.rs`, `query.rs` | cached chain id, next block, nonce, gas price | query, update | all tasks |
| `icrc2-minter` | operations, EVM parameters, collection lock, task queue | tasks InitEvmInfo, CollectEvmEvents, BurnIcrc2Tokens, PrepareMintOrder, SendMintTransaction, MintIcrc2Tokens, RemoveMintOrder | EVM node, ICRC ledger |
| `erc20-minter` | two EVM configurations, operations, task queue | InitEvmState, CollectEvmInfo, PrepareMintOrder, SendMintTransaction, RemoveMintOrder | two EVM nodes |
| `btc-bridge` | mint orders, burn requests (heap and stable), EVM parameters | deposit through ckBTC, withdrawal, event collection | ckBTC minter and ledger, EVM node |
| `rune-bridge` | deposit operations, UTXO ledger, EVM parameters, nonce | deposit state machine, withdrawal transactions, event collection | Bitcoin, rune indexers, EVM node |
| `ic_task_scheduler` (library) | persistent queue | run, retry with back-off | all canisters |
| `bridge-tool`, `solidity-helper` | none | command line, build | not part of the running system |

What makes it hard. A canister is single-threaded, but each task gives up
control at every `await`, and any number of tasks and user calls run in
between. Shared state (the EVM parameters, the operations, the UTXO ledger) is
read before an await and written after it. Calls to the EVM and to ledgers
fail, and the scheduler runs the task again from its start. Orders are public
as soon as they are signed, so the user's transaction races the minter's.
Events arrive late, and in another order than the canister records its own
steps. The hazards, with the lines where they bite, are listed in
`PROJECT.json`.

What makes it correct. No token without backing and no backing forgotten; an
order executed at most once and only for its own token; every event handled,
and handled once; a burn paid or refunded but not both; operations that only
move forward; and, if calls succeed in the end, transfers that finish.

## 2. Modules

| Module | Models |
|---|---|
| `OperationStoreOps` | `MinterOperationStore` as functions from a store to a store, shared by the canister models |
| `OperationStore` | the store as a state machine under arbitrary calls |
| `OperationRegistry` | what the store promises: one map, latest completed operations kept |
| `CollectLockOps`, `CollectLock` | `CollectLogsLock` of the ICRC-2 minter: its operations, and the lock under any use |
| `CollectLogs` | the page loop of `BridgeEvent::collect_logs` |
| `RingBuffer` | `RingBuffer.sol` |
| `WrappedToken`, `FeeCharge` | the two contracts beside the bridge |
| `BftBridge` | the bridge contract with its tokens and the fee contract |
| `TokenBridge` | what a lock-and-mint bridge promises about tokens |
| `Icrc2Minter` | the ICRC-2 minter with the contract, the ledger, the store and the lock |
| `Erc20Minter` | the ERC-20 minter with its store and the contracts on two EVMs |
| `MintOrders` | the order map of `minter-contract-utils` |
| `BtcBridge` | the BTC bridge with its two stores, ckBTC and the contract |
| `UtxoLedger` | the UTXO ledger of the Rune bridge |
| `RuneCore` | state of the Rune bridge, its operations, Bitcoin and the EVM |
| `RuneDeposit` | deposit requests, up to the completion of their orders |
| `RuneWithdrawal` | withdrawals and the daily task over used UTXOs |
| `RuneBridge` | event collection of the Rune bridge, and the composition of all of it |
| `...Proofs` | theorems about the module of that name; `BftTokenProofs` those about the tokens and fees of `BftBridge`, `BtcMoneyProofs` those about the amounts of `BtcBridge`, `Icrc2Proofs` also those about `CollectLock` and `TokenBridge` |
| `SumLemmas` | lemmas about the sums of the community modules |
| `MC...` | instances for TLC |

`Icrc2Minter` composes the others: it uses `OperationStoreOps` for its
operations, it is shown to use its lock as `CollectLock` says (`LockSpec`), and
to implement `TokenBridge` (`BridgeSpec`). `Erc20Minter` uses the same store and
implements the same `TokenBridge`: base tokens held by the base contract are
`locked`, a base burn without order is `owed`, an order for the wrapped side is
a voucher, and a wrapped burn stays `burnt` until it is minted on the base side.
`RuneBridge` uses the same store for deposits and withdrawals, which meet in
the UTXO ledger. `BtcBridge` has no operations; its tasks carry the events.

### Conventions

*Operation store.* The id list of a wallet is a set; ids are pushed in
increasing order and only ever filtered, so nothing is lost.

*Contracts.* A call that reverts changes nothing, so only successful calls are
steps; the conditions of `require` are guards. A signature is the address that
made it. `mint` chooses any fee of the constant set `Sums`, because gas prices
are outside the model. Metadata is left out except for the permission to set
it, which makes a mint of a foreign token revert on the wrapped side.

*Canisters.* A task is a record in the set `tasks` with its type, its operation
or event and the await at which it stands (`pc`). Start actions go from the
call to the first await; each further action resumes the task with an answer.
Awaits between which a task touches nothing shared are merged. The actions
named `...Err` are the failing answers; the task is queued again, or dropped
where its options do not ask for retries. Block *n* of the chain holds the event
`events[n]`; a collection reads up to the height of some earlier moment. A
signed order can be executed at any time after it is stored, in the
transaction of the canister or in one of a user, or never: this covers lost
transactions, reused transaction nonces and refused gas prices, and it is why
the cached nonce and gas price are left out. `update_evm_params` is two steps,
as it reads the parameters before its awaits and writes them back after. A trap
undoes what the task did since its last await, so it is the same step as a
failed call, and a Notify event leaves a collection of the ERC-20 minter or of
the BTC bridge no other step. `handled`, `settled`, `paid`, `orders` and
`first_block` are history for the properties.

*Unreadable blocks.* `collect_logs` goes on behind a block whose query fails
when the page has shrunk to that block (`CollectLogs` has the loop). In every
canister a collection may so miss the blocks of a subset of `Unreadable`, which
differs from one collection to the next. In the BTC and the Rune bridge a
collection that finds no log at all leaves `next_block` alone, so that it reads
such a block again.

*ICRC-2 minter.* Every operation moves one token, and ledger fees are left out.

*ERC-20 minter.* There are a chain and a contract per side. An
order is a record of its side, the chain it names, the two users and the nonce;
signing the same burn again gives the same order. A wrapped token exists only
on its side, so only the contract of that side can resolve the token of an
order. `PastBurns` is the number of burns that a contract had counted before
the canister began to watch it. `ReadySides` are initialised at the start, which
is a state the canister reaches; the others still have their InitEvmState task.

*BTC bridge.* ckBTC is external and modelled from its use: a subaccount per
user, the main account of the canister, the withdrawal account, and for every
UTXO whether it is pending, confirmed, minted, rejected or moved to the main
account. Amounts are kept, because the ledger fee decides what is refused. A
call of `btc_to_erc20` by anyone is a running task without task record until
ckBTC answers. An order is signed, its ckBTC moved and the order stored in one
step, as nothing of the canister is read or written between.

*Rune bridge.* A UTXO is a deposit of a user or one of the two outputs a
withdrawal pays back. Bitcoin is external: a transaction is mined only while
its inputs are unspent. What runes a UTXO has is fixed; the indexer answers with
a list of `Listings` or fails. A withdrawal is not compared with its amount, since choosing and
checking inputs is the transaction builder's work.

## 3. Runs

| Run | Instance | What it shows |
|---|---|---|
| `operation_store` | 2 wallets, 3 payloads, log of 2, 5 operations | index exact, log bounded, registry implemented, through every order of completions and evictions |
| `bridge` | either side; 2 users, 2 wrappers, a plain token, 9 orders, 2 mints, ring of width 3 | orders that share a nonce, name no or a wrong token, a wrong chain or a wrong signer; fee-paid orders and refused charges; a full ring; stray payments |
| `collect_logs` | ranges in 1..10, page of 4 | offsets 4, 2, 1, 0, as 128 is halved in the code |
| `icrc2_self_paid` | 1 user with 2 tokens, 4 events, 3 operations, 2 collectors | each event handled once, lock-and-mint refinement; a taken deposit gets its order; a decodable burn is paid or refunded |
| `icrc2_fee_paid` | 1 user, 3 events, 2 operations, log of 1, notifications of another type, a lock that times out with the next tick of the clock, block 1 may be unreadable | orders the minter sends, rehandled events, evictions; overlapping collections and stale parameters never pass over a block; the lock is used as `CollectLock` says; an order is listed until it is executed |
| `icrc2_logs_twice` | 1 user, fee-paid, 3 events | **violation**, see below |
| `erc20_round_trip` | 1 user, 2 events on each side, 2 operations, one side to be initialised, 2 collectors, block 1 of that side may be unreadable | lock-and-mint refinement, although burns become several operations; operations move forward; overlapping collections and initialisations pass over no readable block from the last initialisation on |
| `erc20_wrong_order` | two burns, and one on each side before the canister watched | **violation**, see below |
| `rune_bridge` | 1 user, 2 UTXOs of a rune each, 1 notification, lists with one rune or both, 4 events, 3 operations, 1 tick, blocks 2 and 3 may be unreadable | deposits of one order, which become `Minted`, and of two; deposits and withdrawals move forward only, a withdrawal is sent once, the ledger does not hand out again what a recorded withdrawal took from it, a deposit is decided in the end |
| `rune_utxos_twice` | 1 user, 1 UTXO, 2 notifications | **violation**, see below |
| `rune_list_replaced` | 2 users with a UTXO of another rune each, lists of one rune | **violation**, see below |
| `btc_bridge` | 1 user, 2 UTXOs in one block or in two, 3 events, 2 collectors, block 2 may be unreadable | overlapping collections pass over no readable block, mints backed, a subaccount holds what was minted to it and not moved, orders kept until minted, burns neither forgotten nor paid twice, transferred requests covered |

Deadlock is not checked where the system may stop: when every bound is used
up, or when all transfers are finished.

Bounds. Two to four events are enough to reach every action of a canister: a
request, the mint of its order, the burn of the minted token and one more event
to overlap with them. `MAX_LOG_REQUEST_COUNT` is 1, so that a collection does
not always reach the end of the chain. `WrappedBound` (`bridge`) keeps plain
tokens, fees, pauses and later blocks to the contract of the base side, where they
matter. In `btc_bridge`, `InitFirst`
starts the EVM's events after the initialisation, `MaxHandlings` bounds how
often events are collected in total (a mint, its burn, and the burn again after
old parameters were written back), and `MaxScheduled` the MintErc20 tasks at a
time. `OneOrTwo` has either two deposits, two events and one collection at a
time, or one deposit and three events, with collections that overlap on the
first two; the proofs have none of these bounds. In `erc20_round_trip`,
`BaseFirst` has the base side initialised for the last time, and its
collections overlapping, before there is an event on the wrapped side, and
`NotifyWrapped` sends the notifications, on which a collection traps, to one
side. In `rune_bridge` the request timeout is zero ticks, so that a request can
time out or not; no address is of another network. `SecondFirst` has the second
UTXO paid before any event or never, and one event less if it is; it holds back
payments, burns and the execution of orders only, of which no fairness is
assumed.

### Fairness

`FairSpec` of `Icrc2Minter` assumes what the timer and the retry policies of
the code give: collection tasks are started again and again (timer of two
seconds), tasks in the queue are run, and a call that is made again and again
succeeds at some time (strong fairness on the successful answers, for each
operation and for collections). `DepositsSigned` and `BurnsSettled` say that
again and again nothing is left to do. This is no weaker than asking it of every
deposit and every burn, since an order once signed and a burn once settled stay
so. Tasks on
operations are queued with `u32::MAX` or infinite retries. Nothing is assumed
of users, of InitEvmInfo (five retries), of SendMintTransaction (default
options), or of orders being executed.

`FairSpec` of `RuneBridge` assumes that time passes, that what is in a block is
confirmed, and that a queued deposit is run and its calls answered. An answer
may be a failure each time: the request then ends when its time is over. A
request that waits for confirmations has no timeout, which is why
confirmations are assumed.

### Findings

`icrc2_logs_twice`: the comment of `CollectLogsLock` says that no other task
receives logs from the same block numbers. `prepare_mint_order` calls
`update_evm_params` without the lock when there is a fee payer. It copies the
parameters, awaits twice, and writes the copy back. A collection that finishes
in between has its `next_block` overwritten with the old value, and the next
collection turns the same logs into new operations. `NoLogSkipped` holds
nevertheless: the value written back is always an older one.

`erc20_wrong_order`: an order's nonce is the number that the contract gave to
the burn, but `remove_mint_order` takes it for the canister's operation id. As
soon as the two counters differ, the mint of one order completes another
operation of the same wallet, and that one's order is no longer handed out.

`rune_utxos_twice`: `filter_out_used_utxos` and `has_used_utxos` ask whether a
UTXO is among `load_unspent_utxos`, that is in the storage of the ledger and
not marked as used. A deposit marks its UTXOs as used but never puts them in
the storage, so a later request of the same user finds the same UTXOs and gets
orders for them, until a withdrawal spends them.

`rune_list_replaced`: a burn of a rune whose infos are not in the rune list
becomes an invalid withdrawal. The comment there says that the infos are known,
as the tokens were minted before. But the list is replaced as a whole by every
answer of the indexer, and the answer is its first page, as a todo in
`index_provider.rs` says. A balance query by another user brings a page without
the rune that is being minted. The rune is known as long as every answer lists
every rune.

Two more behaviours of the ERC-20 minter are in the model without a run of
their own. An operation stores the side to mint on, and `prepare_mint_order`
reads that field as the side of the burn: the order names the chain of the burn
as its destination, and the contract refuses it unless both EVMs have the same
chain id, as they do in the integration tests and in the runs (`OneChain`). And
a mint event that is handled before the operation is recorded as sent is
dropped, so that the operation keeps its minted order. (The ICRC-2 minter
retries in this case.)

Handling a burn twice is harmless for the tokens of the ERC-20 minter, because
the nonce comes from the burn: `BridgeSpec` holds without a lock. In the ICRC-2
minter the nonce is the operation id, and each handling is a new transfer. So
it is in the BTC and the Rune bridge, whose collections have no lock at all;
their properties count per handling.

Further behaviours in the models about which no text of the repository says
otherwise: a Rune withdrawal whose transaction is signed but not taken by
Bitcoin stays `TxSigned`; a Rune withdrawal takes the UTXOs of the transit
address from Bitcoin without a look at the ledger, and so those of an earlier
withdrawal that is not mined yet, of which Bitcoin then mines one
(`LedgerSpendsOnce` is about the UTXOs from the ledger); a Rune deposit with several orders never becomes
`Minted`, because the completed order is not written back; a `btc_to_erc20`
whose transfer fails leaves the ckBTC in the subaccount; a retried `burn_ckbtc`
makes its first transfer again. One comment is contradicted without a run of its
own: `deposit.rs` says of `MintOrdersCreated` that the user may send the orders
"or wait for the canister to retry the operation"; nothing schedules the request
again after its orders were tried.

## 4. Proofs

| Theorem | Says, for all values of the constants |
|---|---|
| `OperationStoreProofs!StoreTyped`, `StoreInvariant`, `LogStaysBounded` | `TypeOK`, `IndexExact` and `LogBounded` of the store |
| `OperationStoreProofs!StoreImplementsRegistry` | the store implements `OperationRegistry` |
| `BftBridgeProofs!RegistryStaysPaired`, `OrdersMintedOnce`, `OrdersMintOwnPair`, `BurnsNumbered` | registries inverse, no replay, own pair only, burns numbered in turn |
| `BftBridgeProofs!DepositBlocksCorrect` | `DepositBlocks`: what `getAll` of `RingBuffer.sol` returns, for every index width (256 in the code, 3 in `bridge`) |
| `BftTokenProofs!FeesStaySolvent`, `EventsAccount`, `BridgeTyped` | `FeesSolvent`, `EventsMatchSupply` and `TypeOK` of the contract |
| `CollectLogsProofs!LogsStayComplete` | `LogsComplete` for any range, page size and failing pages |
| `Icrc2Proofs!LockImplemented` | the minter uses its lock as `CollectLock` says (`LockSpec`) |
| `Icrc2Proofs!CollectorsStayApart`, `HolderReleases` | so its collection tasks overlap only after a timeout, and only the holder releases |
| `Icrc2Proofs!TokensStayBacked` | what is locked is what is owed, promised, minted or burnt, in `TokenBridge`; both minters inherit it by `BridgeSpec` |
| `BtcBridgeProofs!LogsNotSkipped`, `BurnsStayKept`, `BurnsPaidOnce`, `OrdersStayKept` | `NoLogSkipped`, `BurnsKept`, `PaidPerHandling` and `OrdersKept` of the BTC bridge |
| `BtcMoneyProofs!TransfersStayCovered`, `MintsStayBacked`, `DepositsStayHeld`, `BtcTyped` | `TransferredCovered`, `MintsBacked`, `DepositsHeld` and `TypeOK` of the BTC bridge |

*Sums.* Balances and payments are added up with `SumFunction` of the community
modules, a recursion over the subsets of a finite set in an order that `CHOOSE`
fixes. `SumLemmas` shows that the recursion has a solution, that it does not
depend on the order, and how a sum changes with one value, one element, a subset
or a renaming of the elements. The induction is over sets of subsets
(`FiniteInduction`), since a predicate cannot be a parameter.

*Store.* `IndexExact` needs `TypeOK` (which map holds complete payloads) and
the finiteness of the log, because eviction compares cardinalities. The
refinement maps the two operation maps to one. Its core is that evicting the
smallest id from a log of one more than `MaxLogSize` entries leaves exactly the
entries with fewer than `MaxLogSize` newer ones.

*Lock.* `CollectInv` ties the place of a collection task to its time stamp,
from which each of its steps is one of `CollectLock`. `CollectorsApart` is not
inductive: it says nothing of the shared cell. `CollectLock!LockInv` adds that a
running task whose stamp is not in the cell has timed out, and that the cell is
never older than a running task. That is what the comparison in the destructor
preserves.

*Contract.* Registries: deployed addresses are fresh, so no entry is
overwritten. `MintsOwnPair` needs that an address without wrapper maps to the
zero id and never gets a wrapper once it is a token in use. Deposit blocks:
`Holds` relates begin, end and slots of a ring to the blocks of the user's
burns, before and after the ring is full; `Ranked` says that the burns of a user
can be counted off, which ties the sequence of all burns to those of one user.
Supplies: `TokensOK` speaks of one token and its events at a time, as a call
changes one token. An owner's transfer mints or burns, so the case is split by
who calls.

*Pages.* `PageInv` says that the loop is inside its range or has not begun, and
that what is collected is what lies below it. A page that fails only changes
the offset.

*BTC bridge.* `TInv` is the type of everything, with the pcs that belong to each
type of task. `NoLogSkipped` speaks of `next_block` only, and the danger is in
the copies: `SnapInv` says that every copy of `next_block` that a collection or
a MintErc20 task holds across an await is itself below no uncollected event of
a readable block,
and that there is at most one InitEvmState task, and only until the parameters
are set. For burns, `BurnInv` counts: payments plus queued or running tasks of a
burn are at most the times that it was collected. A task that pays is gone
afterwards, and a failed one is the same task again. For orders, `UtxoInv` says
that a UTXO is in the hands of at most one call, and gets one order when its
ckBTC moves; `OrderInv` that an order is removed only after a mint with its
nonce.

`MintsBacked` is not inductive, because two UTXOs of a user in one block give
two orders with one nonce, of which only one is minted. `MintInv` names the set
of UTXOs that were minted for. `TransferredCovered` does not say what a task on
its way to `retrieve_btc` will take from the withdrawal account; `WithdrawInv`
covers these tasks and the requests whose task has failed after its transfer
together, and `RequestInv` ties both to their burns by the number of the burn.
`DepositsHeld` is inductive given `UtxoInv`: a call moves only UTXOs that ckBTC
minted for its user and that are in the hands of no other call.

Assumptions are the named `ASSUME`s of the modules, which TLC evaluates on
every run: a log of at least one operation, an index type of at least two
values, time stamps and blocks that are numbers, fresh addresses for new
contracts, burns of positive amounts, finitely many users, accounts and UTXOs.

Model-checked only:
- all liveness, which is out of the prover's reach;
- the properties of `Icrc2Minter` (but its lock), `Erc20Minter` and the Rune
  modules: their collections fold the events into the store, and what a fold of
  the community modules computes takes an induction for each;
- `EachLogHandledOnce`, which holds of some instances only (see
  `icrc2_logs_twice`).

## 5. Not modelled

- UUPS upgrades and the allow list of implementations; token metadata;
  `StringUtils.sol`.
- Canister upgrades. The Rune and the BTC bridge keep their configuration, the
  EVM parameters, the rune list and the order nonce on the heap, and
  `post_upgrade` only sets the timers; such a canister has to be configured
  again before it does anything. The two minters keep theirs in stable memory.
- An EVM node that reports a lower height than before, and chain reorganisations
  of either chain.
- The 32-bit nonce of an operation: ids are far below 2^32 in any real run.
- Ownership, whitelists, logger settings, the other configuration calls and the
  deployment of the contract (`bft_bridge.rs`).
- The content of Bitcoin transactions (amounts, fees, runestones), signatures
  and key derivation; ABI and Candid encoding; JSON-RPC transport.
- `bridge-tool` and `solidity-helper`, which do not run with the bridges.

## 6. Plan

1. Liveness of the ERC-20 minter (a burn gets its order) and of the BTC bridge
   (a burn above the fee is paid).
2. Overlapping collections of the Rune bridge, with a bound on repeated events.
3. Canister configuration: access list, ownership, contract deployment
   (`bft_bridge.rs`) with its retries.
4. Proofs: `NoLogSkipped` and `OperationsMoveForward` of the minters from an
   inductive invariant that ties each task to the state of its operation, as
   `BtcBridgeProofs` does for burns.
