----------------------------- MODULE BtcBridge -----------------------------
(***************************************************************************)
(* The BTC bridge canister (btc-bridge/src) between ckBTC and the          *)
(* BFTBridge contract of an EVM.  A call of btc_to_erc20 turns the UTXOs   *)
(* that were paid to the address of a user into ckBTC and those into       *)
(* wrapped tokens; a burn of wrapped tokens is paid in Bitcoin.            *)
(*                                                                         *)
(* ckBTC, that is its minter and its ledger, is not part of the            *)
(* repository.  It is modelled from how the canister uses it: a subaccount *)
(* per user, the main account of the canister and its withdrawal account.  *)
(*                                                                         *)
(* As in Icrc2Minter, a task or a call runs without interruption between   *)
(* two awaits, and awaits between which it touches no shared state are one.*)
(***************************************************************************)
EXTENDS Integers, Sequences, FiniteSets, Functions

CONSTANTS
    Users,
    None,            \* Option::None, or a recipient that does not decode
    Utxos,           \* Bitcoin UTXOs that are paid to users' addresses
    OwnerOf, ValueOf,   \* of each of them
    Heights,         \* which heights their blocks may have
    Outcomes,        \* what ckBTC may find for a UTXO
    Fee,             \* ck_btc_ledger_fee
    Burns,           \* amounts of burns, with what they name as Bitcoin address
    Notifiers,       \* users that call notifyMinter, which this canister has no use for
    Collectors,      \* collection tasks that may overlap
    Unreadable,      \* blocks for which a query of their logs may fail
    MaxHandlings,    \* bound on the events collected, each time counted
    MaxScheduled,    \* bound on the MintErc20 tasks at a time
    MaxEvents        \* bound on the events of BFTBridge

ASSUME BtcAssumption ==
    /\ None \notin Int
    /\ IsFiniteSet(Users) /\ IsFiniteSet(Utxos)
    /\ OwnerOf \in [Utxos -> Users] /\ ValueOf \in [Utxos -> Nat]
    /\ Heights \subseteq [Utxos -> Nat]
    /\ Fee \in Nat /\ MaxEvents \in Nat
    /\ Outcomes \subseteq {"Minted", "Rejected", "Checked"}
    /\ \A b \in Burns : b.amount \in Nat \ {0}
    /\ Notifiers \subseteq Users

VARIABLES
    \* BFTBridge and its chain: block n has the event events[n]
    events, executed, wrapped,
    \* Bitcoin and ckBTC: the state and the height of every UTXO; the accounts
    utxos, height_of, subaccount, main, withdrawal,
    \* the canister
    next_block, collectors, tasks, mint_orders, burn_requests,
    \* history: the orders ever stored, and per block how often its event was
    \* collected and its burn paid
    orders, handled, paid, first_block

evmVars == <<events, executed, wrapped>>
accountVars == <<subaccount, main, withdrawal>>
ckbtcVars == <<utxos, height_of, accountVars>>
storeVars == <<mint_orders, burn_requests>>
collectVars == <<next_block, collectors, handled, first_block>>
vars == <<evmVars, ckbtcVars, collectVars, tasks, storeVars, orders, paid>>

Store == INSTANCE MintOrders

Height == Len(events)

BurntEvents == {b \in 1..Height : events[b].type = "Burnt"}

-----------------------------------------------------------------------------

\* A task, or a running call of btc_to_erc20: on behalf of a user or for the
\* event of block id.  snap is the next_block of the parameters it has read,
\* or the number of the collection it comes from; utxos are the minted ones
\* that it still has to bridge.
Task(type, user, id, pc, snap, left) ==
    [utxos |-> left, type |-> type, user |-> user, id |-> id, pc |-> pc, snap |-> snap]

Queued(type, user, id, n) == Task(type, user, id, "queued", n, {})

Replace(t, new) == tasks' = (tasks \ {t}) \cup new

Idle == [pc |-> "idle", snap |-> 0]

Init ==
    /\ events = <<>> /\ executed = {} /\ wrapped = [u \in Users |-> 0]
    /\ utxos = [x \in Utxos |-> "absent"] /\ height_of \in Heights
    /\ subaccount = [u \in Users |-> 0] /\ main = 0 /\ withdrawal = 0
    /\ next_block = None
    /\ collectors = [c \in Collectors |-> Idle]
    /\ tasks = {Queued("InitEvmState", None, 0, 0)}
    /\ mint_orders = Store!EmptyOrders
    /\ burn_requests = [id \in {} |-> id]
    /\ orders = {}
    /\ handled = [b \in 1..MaxEvents |-> 0]
    /\ paid = [b \in 1..MaxEvents |-> 0]
    /\ first_block = None

-----------------------------------------------------------------------------
(* The EVM and Bitcoin.                                                    *)

Event(type, user, recipient, amount, nonce) ==
    [type |-> type, user |-> user, recipient |-> recipient, amount |-> amount,
     nonce |-> nonce]

Emit(e) == Height < MaxEvents /\ events' = Append(events, e)

canisterUnchanged == UNCHANGED <<collectVars, tasks, storeVars, orders, paid>>

\* BFTBridge.burn.  The contract numbers its burns.
Burn(u, amount, recipient) ==
    /\ wrapped[u] >= amount
    /\ Emit(Event("Burnt", u, recipient, amount, Cardinality(BurntEvents)))
    /\ wrapped' = [wrapped EXCEPT ![u] = @ - amount]
    /\ UNCHANGED <<executed, ckbtcVars>>
    /\ canisterUnchanged

\* BFTBridge.notifyMinter.
NotifyMinter(u) ==
    /\ Emit(Event("Notify", u, None, 0, 0))
    /\ UNCHANGED <<executed, wrapped, ckbtcVars>>
    /\ canisterUnchanged

\* BFTBridge.mint, in the transaction of send_mint_order or in one of the user
\* to whom an order is returned that was not sent.  Either may never be mined.
ExecuteOrder(o) ==
    /\ <<o.user, o.nonce>> \notin executed
    /\ Emit(Event("Minted", o.user, None, o.amount, o.nonce))
    /\ executed' = executed \cup {<<o.user, o.nonce>>}
    /\ wrapped' = [wrapped EXCEPT ![o.user] = @ + o.amount]
    /\ UNCHANGED ckbtcVars
    /\ canisterUnchanged

\* A UTXO is in a block, and after some blocks confirmed.
Pay(x) == /\ utxos[x] = "absent"
          /\ utxos' = [utxos EXCEPT ![x] = "pending"]
          /\ UNCHANGED <<evmVars, height_of, accountVars>>
          /\ canisterUnchanged

Confirm(x) == /\ utxos[x] = "pending"
              /\ utxos' = [utxos EXCEPT ![x] = "confirmed"]
              /\ UNCHANGED <<evmVars, height_of, accountVars>>
              /\ canisterUnchanged

-----------------------------------------------------------------------------
(* orders_store.rs and burn_request_store.rs                               *)

SRC_TOKEN == "BTC"

push(stored, user, nonce, order) == Store!insert(stored, user, SRC_TOKEN, nonce, order)

remove_order(stored, user, nonce) == Store!remove(stored, user, SRC_TOKEN, nonce)

BurnRequestInfo(amount, is_transferred) ==
    [amount |-> amount, is_transferred |-> is_transferred]

\* Mutant: a request counts as transferred from the start.
insert_transferred(requests, id, amount) ==
    [k \in DOMAIN requests \cup {id} |->
        IF k = id THEN BurnRequestInfo(amount, TRUE) ELSE requests[k]]

\* The request is stored afresh: a retry forgets that it was transferred.
insert(requests, id, amount) ==
    [k \in DOMAIN requests \cup {id} |->
        IF k = id THEN BurnRequestInfo(amount, FALSE) ELSE requests[k]]

set_transferred(requests, id) ==
    [k \in DOMAIN requests |->
        IF k = id THEN [requests[k] EXCEPT !.is_transferred = TRUE] ELSE requests[k]]

remove(requests, id) == Restrict(requests, DOMAIN requests \ {id})

-----------------------------------------------------------------------------
(* Tasks InitEvmState and CollectEvmEvents, and the parameters of the EVM, *)
(* of which only next_block is kept here.                                  *)

bridgeUnchanged == UNCHANGED <<evmVars, ckbtcVars, storeVars, orders, paid>>

init_evm_state_start(t) ==
    /\ t.type = "InitEvmState" /\ t.pc = "queued"
    /\ Replace(t, {[t EXCEPT !.pc = "query", !.snap = Height]})
    /\ UNCHANGED collectVars
    /\ bridgeUnchanged

\* The answer has the height of some moment since.
init_evm_state(t) ==
    /\ t.type = "InitEvmState" /\ t.pc = "query"
    /\ next_block' \in t.snap..Height
    /\ first_block' = next_block'
    /\ Replace(t, {})
    /\ UNCHANGED <<collectors, handled>>
    /\ bridgeUnchanged

\* The query fails, and is tried again a limited number of times.
init_evm_state_err(t) ==
    /\ t.type = "InitEvmState" /\ t.pc = "query"
    /\ \E new \in {{}, {Queued(t.type, None, 0, 0)}} : Replace(t, new)
    /\ UNCHANGED collectVars
    /\ bridgeUnchanged

\* Nothing keeps two collections apart.
CollectStart(c) ==
    /\ collectors[c].pc = "idle" /\ next_block # None
    /\ collectors' = [collectors EXCEPT ![c] = [pc |-> "logs", snap |-> next_block]]
    /\ UNCHANGED <<next_block, handled, first_block, tasks>>
    /\ bridgeUnchanged

task_by_log(b) ==
    Queued(IF events[b].type = "Burnt" THEN "MintBtc" ELSE "RemoveMintOrder",
           events[b].user, b, handled[b])

\* The logs from what the task has read up to the height of an earlier moment,
\* all but those of blocks that collect_logs had to skip.
Logs(c, height, skipped) ==
    {b \in 1..Height : collectors[c].snap <= b /\ b <= height} \ skipped

\* Mutant: the block after the last one collected is skipped.
NextBlock_skips(height) == height + 2

NextBlock(height) == height + 1

\* The logs become tasks, and update_evm_params reads the parameters again.
\* A Notify event runs into todo!(), which undoes the whole step.
CollectLogs(c, height, skipped) ==
    LET blocks == Logs(c, height, skipped)
    IN  /\ collectors[c].pc = "logs"
        /\ blocks # {}
        /\ \A b \in blocks : events[b].type # "Notify"
        /\ SumFunction(handled) + Cardinality(blocks) <= MaxHandlings
        /\ next_block' = NextBlock(height)
        /\ tasks' = tasks \cup {task_by_log(b) : b \in blocks}
        /\ handled' = [b \in DOMAIN handled |->
                         IF b \in blocks THEN handled[b] + 1 ELSE handled[b]]
        /\ collectors' = [collectors EXCEPT ![c] = [pc |-> "params", snap |-> next_block']]
        /\ UNCHANGED first_block
        /\ bridgeUnchanged

\* update_evm_params writes back all that it has read before its awaits.
CollectParams(c) ==
    /\ collectors[c].pc = "params"
    /\ next_block' = collectors[c].snap
    /\ collectors' = [collectors EXCEPT ![c] = Idle]
    /\ UNCHANGED <<tasks, handled, first_block>>
    /\ bridgeUnchanged

\* There are no logs, a call fails or the step is undone.
CollectEnd(c) ==
    /\ collectors[c].pc # "idle"
    /\ collectors' = [collectors EXCEPT ![c] = Idle]
    /\ UNCHANGED <<next_block, handled, first_block, tasks>>
    /\ bridgeUnchanged

-----------------------------------------------------------------------------
(* btc_to_erc20, called by anyone for a user or by the task MintErc20.     *)

Call(u) == Task("Call", u, 0, "balance", 0, {})

\* The task first updates the parameters, if there are any.
MintErc20Start(t) ==
    /\ t.type = "MintErc20" /\ t.pc = "queued"
    /\ Replace(t, {IF next_block = None THEN Call(t.user)
                   ELSE [t EXCEPT !.pc = "params", !.snap = next_block]})
    /\ UNCHANGED collectVars
    /\ bridgeUnchanged

MintErc20Params(t) ==
    /\ t.type = "MintErc20" /\ t.pc = "params"
    /\ next_block' = t.snap
    /\ Replace(t, {Call(t.user)})
    /\ UNCHANGED <<collectors, handled, first_block>>
    /\ bridgeUnchanged

\* Whether the scheduler keeps a task without retry policy that fails is open.
MintErc20Err(t) ==
    /\ t.type = "MintErc20" /\ t.pc = "params"
    /\ \E new \in {{}, {Queued(t.type, t.user, 0, 0)}} : Replace(t, new)
    /\ UNCHANGED collectVars
    /\ bridgeUnchanged

InState(u, state) == {x \in Utxos : OwnerOf[x] = u /\ utxos[x] = state}

SumOf(xs) == SumFunctionOnSet(ValueOf, xs)

\* What is left to do when only the UTXOs of left are not bridged.  mint_erc20
\* refuses one that does not exceed the fee.
Remaining(t, left) ==
    LET rest == {x \in left : ValueOf[x] > Fee}
    IN  IF rest = {} THEN {} ELSE {[t EXCEPT !.pc = "transfer", !.utxos = rest]}

\* ckBTC's update_balance mints ckBTC for the confirmed UTXOs that it has not
\* yet minted for, rejects those that are tainted or too small, and may have
\* to leave some that it has checked for later.
UpdateBalanceOk(t) ==
    LET new == InState(t.user, "confirmed")
    IN  /\ t.pc = "balance"
        /\ new # {}
        /\ \E outcome \in [new -> Outcomes] :
             LET minted == {x \in new : outcome[x] = "Minted"}
             IN  /\ utxos' = [x \in Utxos |->
                                IF x \in new /\ outcome[x] # "Checked"
                                THEN outcome[x] ELSE utxos[x]]
                 /\ subaccount' = [subaccount EXCEPT ![t.user] = @ + SumOf(minted)]
                 /\ Replace(t, Remaining(t, minted))
        /\ UNCHANGED <<evmVars, height_of, main, withdrawal, collectVars, storeVars, orders, paid>>

\* Nothing is confirmed: a task is to try again if something is pending.
NoNewUtxos(t) ==
    /\ t.pc = "balance"
    /\ InState(t.user, "confirmed") = {}
    /\ Replace(t, IF InState(t.user, "pending") = {} THEN {}
                  ELSE {Queued("MintErc20", t.user, 0, 0)})
    /\ Cardinality({m \in tasks' : m.type = "MintErc20"}) <= MaxScheduled
    /\ UNCHANGED collectVars
    /\ bridgeUnchanged

\* Any other answer ends the call, and the task succeeds nonetheless.
UpdateBalanceErr(t) ==
    /\ t.pc = "balance"
    /\ Replace(t, {})
    /\ UNCHANGED collectVars
    /\ bridgeUnchanged

\* A call by anyone changes nothing before ckBTC answers.
btc_to_erc20(u) == UpdateBalanceOk(Call(u)) \/ NoNewUtxos(Call(u))

\* The nonce of an order is the height of its UTXO.
Order(x) == [utxo |-> x, user |-> OwnerOf[x], nonce |-> height_of[x],
             amount |-> ValueOf[x] - Fee]

\* Mutant: the fee is left in the subaccount.
MintErc20Transfer_fee_left(t, x) ==
    /\ t.pc = "transfer"
    /\ x \in t.utxos
    /\ subaccount[t.user] >= ValueOf[x]
    /\ subaccount' = [subaccount EXCEPT ![t.user] = @ - Order(x).amount]
    /\ main' = main + Order(x).amount
    /\ utxos' = [utxos EXCEPT ![x] = "Moved"]
    /\ orders' = orders \cup {Order(x)}
    /\ mint_orders' = push(mint_orders, t.user, Order(x).nonce, Order(x))
    /\ Replace(t, Remaining(t, t.utxos \ {x}))
    /\ UNCHANGED <<evmVars, height_of, withdrawal, collectVars, burn_requests, paid>>

\* The order is signed, the ckBTC moved to the main account, and the order
\* stored.  Its transaction follows, which the call does not depend on.
MintErc20Transfer(t, x) ==
    /\ t.pc = "transfer"
    /\ x \in t.utxos
    /\ subaccount[t.user] >= ValueOf[x]
    /\ subaccount' = [subaccount EXCEPT ![t.user] = @ - ValueOf[x]]
    /\ main' = main + Order(x).amount
    /\ utxos' = [utxos EXCEPT ![x] = "Moved"]
    /\ orders' = orders \cup {Order(x)}
    /\ mint_orders' = push(mint_orders, t.user, Order(x).nonce, Order(x))
    /\ Replace(t, Remaining(t, t.utxos \ {x}))
    /\ UNCHANGED <<evmVars, height_of, withdrawal, collectVars, burn_requests, paid>>

\* Mutant: the order is stored although the transfer has failed.
MintErc20TransferErr_stored(t, x) ==
    /\ t.pc = "transfer"
    /\ x \in t.utxos
    /\ orders' = orders \cup {Order(x)}
    /\ mint_orders' = push(mint_orders, t.user, Order(x).nonce, Order(x))
    /\ Replace(t, Remaining(t, t.utxos \ {x}))
    /\ UNCHANGED <<evmVars, ckbtcVars, collectVars, burn_requests, paid>>

\* Signing or the transfer fails.  ckBTC reports the UTXO to no later call.
MintErc20TransferErr(t, x) ==
    /\ t.pc = "transfer"
    /\ x \in t.utxos
    /\ Replace(t, Remaining(t, t.utxos \ {x}))
    /\ UNCHANGED collectVars
    /\ bridgeUnchanged

\* Mutant: whatever is stored is removed.
remove_mint_order_any(t) ==
    /\ t.type = "RemoveMintOrder"
    /\ mint_orders' = Store!EmptyOrders
    /\ Replace(t, {})
    /\ UNCHANGED <<evmVars, ckbtcVars, collectVars, burn_requests, orders, paid>>

remove_mint_order(t) ==
    /\ t.type = "RemoveMintOrder"
    /\ mint_orders' = remove_order(mint_orders, t.user, events[t.id].nonce)
    /\ Replace(t, {})
    /\ UNCHANGED <<evmVars, ckbtcVars, collectVars, burn_requests, orders, paid>>

-----------------------------------------------------------------------------
(* Task MintBtc: burn_ckbtc.  It is retried until it succeeds.             *)

\* A recipient that does not decode fails at once, and leaves the task queued.
burn_ckbtc(t) ==
    LET e == events[t.id]
    IN  /\ t.type = "MintBtc" /\ t.pc = "queued"
        /\ e.recipient # None
        /\ burn_requests' = insert(burn_requests, e.nonce, e.amount)
        /\ Replace(t, {[t EXCEPT !.pc = "account"]})
        /\ UNCHANGED <<evmVars, ckbtcVars, collectVars, mint_orders, orders, paid>>

\* Mutant: the difference is not checked.
CanTransfer_below_fee(amount) == amount <= main

\* amount - fee, in u64: below the fee it panics, or is more than there is.
CanTransfer(amount) == Fee <= amount /\ amount <= main

MintBtcTransfer(t) ==
    LET e == events[t.id]
    IN  /\ t.pc = "account"
        /\ CanTransfer(e.amount)
        /\ main' = main - e.amount
        /\ withdrawal' = withdrawal + (e.amount - Fee)
        /\ burn_requests' = set_transferred(burn_requests, e.nonce)
        /\ Replace(t, {[t EXCEPT !.pc = "retrieve"]})
        /\ UNCHANGED <<evmVars, utxos, height_of, subaccount, collectVars, mint_orders, orders, paid>>

\* Mutant: the task is retried after it was successful, too.
MintBtcRetrieve_again(t) ==
    LET e == events[t.id]
    IN  /\ t.pc = "retrieve"
        /\ withdrawal >= e.amount - Fee
        /\ withdrawal' = withdrawal - (e.amount - Fee)
        /\ paid' = [paid EXCEPT ![t.id] = @ + 1]
        /\ burn_requests' = remove(burn_requests, e.nonce)
        /\ Replace(t, {[t EXCEPT !.pc = "queued"]})
        /\ UNCHANGED <<evmVars, utxos, height_of, subaccount, main, collectVars, mint_orders, orders>>

\* ckBTC's retrieve_btc burns what is in the withdrawal account.
MintBtcRetrieve(t) ==
    LET e == events[t.id]
    IN  /\ t.pc = "retrieve"
        /\ withdrawal >= e.amount - Fee
        /\ withdrawal' = withdrawal - (e.amount - Fee)
        /\ paid' = [paid EXCEPT ![t.id] = @ + 1]
        /\ burn_requests' = remove(burn_requests, e.nonce)
        /\ Replace(t, {})
        /\ UNCHANGED <<evmVars, utxos, height_of, subaccount, main, collectVars, mint_orders, orders>>

\* Mutant: a withdrawal that ckBTC refuses is given up.
MintBtcErr_gives_up(t) ==
    /\ t.pc \in {"account", "retrieve"}
    /\ Replace(t, IF t.pc = "account" THEN {[t EXCEPT !.pc = "queued"]} ELSE {})
    /\ UNCHANGED collectVars
    /\ bridgeUnchanged

\* A call fails.
MintBtcErr(t) ==
    /\ t.pc \in {"account", "retrieve"}
    /\ Replace(t, {[t EXCEPT !.pc = "queued"]})
    /\ UNCHANGED collectVars
    /\ bridgeUnchanged

-----------------------------------------------------------------------------

Environment ==
    \/ \E u \in Users, b \in Burns : Burn(u, b.amount, b.recipient)
    \/ \E u \in Notifiers : NotifyMinter(u)
    \/ \E o \in orders : ExecuteOrder(o)
    \/ \E x \in Utxos : Pay(x) \/ Confirm(x)
    \/ \E u \in Users : btc_to_erc20(u)

Collect(c) == \/ CollectStart(c)
              \/ \E height \in 0..Height, skipped \in SUBSET Unreadable :
                     CollectLogs(c, height, skipped)
              \/ CollectParams(c)
              \/ CollectEnd(c)

Execute(t) ==
    \/ init_evm_state_start(t) \/ init_evm_state(t) \/ init_evm_state_err(t)
    \/ MintErc20Start(t) \/ MintErc20Params(t) \/ MintErc20Err(t)
    \/ UpdateBalanceOk(t) \/ NoNewUtxos(t) \/ UpdateBalanceErr(t)
    \/ \E x \in t.utxos : MintErc20Transfer(t, x) \/ MintErc20TransferErr(t, x)
    \/ remove_mint_order(t)
    \/ burn_ckbtc(t) \/ MintBtcTransfer(t) \/ MintBtcRetrieve(t) \/ MintBtcErr(t)

Next == \/ Environment
        \/ \E c \in Collectors : Collect(c)
        \/ \E t \in tasks : Execute(t)

Spec == Init /\ [][Next]_vars

-----------------------------------------------------------------------------
(* Properties.                                                             *)

TaskTypes == {"InitEvmState", "Call", "MintErc20", "MintBtc", "RemoveMintOrder"}

\* The balances, stores and tasks of the canister and of ckBTC are what their
\* types in the code admit: no balance is negative, and what a task waits for
\* belongs to its type.
TypeOK ==
    /\ subaccount \in [Users -> Nat] /\ wrapped \in [Users -> Nat]
    /\ main \in Nat /\ withdrawal \in Nat
    /\ next_block \in 0..(Height + 1) \cup {None}
    /\ \A t \in tasks : /\ t.type \in TaskTypes
                        /\ t.pc = "transfer" => t.type = "Call"
                        /\ t.utxos \subseteq InState(t.user, "Minted")
    /\ \A id \in DOMAIN burn_requests : id < Cardinality(BurntEvents)
    /\ \A k \in DOMAIN mint_orders : mint_orders[k] \in orders

\* No event from the block the canister was initialised with is passed over,
\* though collections overlap with each other and with MintErc20 tasks, and
\* all of them write back what they have read before their awaits: an event
\* below next_block has been collected, unless its block could not be read.
NoLogSkipped ==
    next_block # None =>
        \A b \in DOMAIN handled : first_block <= b /\ b < next_block
                                    => handled[b] > 0 \/ b \in Unreadable

Burnt == SumFunction([b \in BurntEvents |-> events[b].amount])

\* Wrapped tokens, burnt ones included, never exceed the ckBTC that calls of
\* btc_to_erc20 have moved to the main account, whichever calls overlap, fail
\* or share a nonce, and whoever executes the orders.
MintsBacked ==
    SumFunction(wrapped) + Burnt
        <= SumFunctionOnSet([x \in Utxos |-> ValueOf[x] - Fee],
                            {x \in Utxos : utxos[x] = "Moved"})

\* The subaccount of a user holds exactly the ckBTC of the UTXOs that ckBTC has
\* minted for and no call has moved, whichever calls overlap: a deposit whose
\* call has failed in between is not bridged, and not lost either.
DepositsHeld == \A u \in Users : subaccount[u] = SumOf(InState(u, "Minted"))

\* The store keeps a signed order until the contract has minted with its nonce:
\* only then, or for a later order with the same nonce, is it dropped,
\* whichever events are collected late, twice or while calls are running.
OrdersKept ==
    \A o \in orders : \/ <<o.user, o.nonce>> \in executed
                      \/ <<o.user, SRC_TOKEN, o.nonce>> \in DOMAIN mint_orders

\* A burn that was collected is paid or still has its task: none is forgotten
\* by a failed call, a retry or the task of another burn.
BurnsKept ==
    \A b \in BurntEvents :
        handled[b] > 0 /\ paid[b] = 0 => \E t \in tasks : t.type = "MintBtc" /\ t.id = b

\* However often burn_ckbtc is retried, a burn is paid at most once for each
\* time that it was collected.
PaidPerHandling == \A b \in DOMAIN paid : paid[b] <= handled[b]

\* The withdrawal account holds what the stored requests marked transferred
\* are to be paid from, together, whatever other requests did meanwhile.
TransferredCovered ==
    LET transferred == {id \in DOMAIN burn_requests : burn_requests[id].is_transferred}
    IN  withdrawal >= SumFunction([id \in transferred |-> burn_requests[id].amount - Fee])
=============================================================================
