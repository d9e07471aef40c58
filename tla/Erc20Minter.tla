---------------------------- MODULE Erc20Minter ----------------------------
(***************************************************************************)
(* The ERC-20 minter canister (erc20-minter/src/tasks.rs) between the      *)
(* BFTBridge contracts of two EVMs.  A burn on one side becomes an         *)
(* operation of the canister, which signs a mint order for the other side. *)
(* Tokens are locked on the base side, and minted and burnt on the wrapped *)
(* side.                                                                   *)
(*                                                                         *)
(* As in Icrc2Minter, a task runs without interruption between two awaits, *)
(* and awaits between which it touches no shared state are one.            *)
(***************************************************************************)
EXTENDS Integers, Sequences, FiniteSets, Functions, SequencesExt

CONSTANTS
    Users,
    None,             \* Option::None, or a recipient that does not decode
    Notifiers,        \* users that call notifyMinter, which this minter has no use for
    Recipients,       \* what burns name as recipient, in Users \cup {None}
    Collectors,       \* collection tasks that may overlap
    Unreadable,       \* blocks, as <<side, block>>, whose logs may fail to be queried
    ReadySides,       \* sides that are already initialised when a behaviour begins
    ChainID,          \* the chain id of each side
    PastBurns,        \* burns on each side before the canister watched it
    MaxLogSize,       \* of the operation store
    Balance,          \* base tokens of each user at the start
    MaxEvents,        \* bound on the events of each side
    MaxOperations     \* bound on the operations of the canister

Sides == {"Base", "Wrapped"}

\* Both EVMs have a chain id; nothing in the code requires that they differ.
ASSUME SidesAssumption == DOMAIN ChainID = Sides /\ PastBurns \in [Sides -> Nat]

VARIABLES
    \* per side, BFTBridge and its chain: block n has the event events[s][n]
    events, used, erc20,
    locked,           \* base tokens that BFTBridge holds on the base side
    \* the canister
    collectors, next_block, contractSet, store, tasks,
    \* history: orders ever signed, how often the event of each block was
    \* turned into a task, and the last block a side was initialised with
    orders, handled, first_block

evmVars == <<events, used, erc20, locked>>
historyVars == <<handled, first_block>>
vars == <<evmVars, collectors, next_block, contractSet, store, tasks, orders,
          historyVars>>

other(side) == IF side = "Base" THEN "Wrapped" ELSE "Base"

Height(side) == Len(events[side])

-----------------------------------------------------------------------------
(* Operations: the status, the side of the payload, and the burn event     *)
(* (the sender is the wallet under which the operation is stored).         *)

Payload(side, st, burn) == [side |-> side, st |-> st, burn |-> burn]

Event(type, sender, recipient, nonce) ==
    [type |-> type, sender |-> sender, recipient |-> recipient, nonce |-> nonce]

BurnsOf(side) == {e \in Range(events[side]) : e.type = "Burnt"}

CompletePayloads ==
    [side : Sides, st : {"Minted"},
     burn : [type : {"Burnt"}, sender : Users, recipient : Recipients,
             nonce : Nat]]

Ops == INSTANCE OperationStoreOps WITH Complete <- CompletePayloads

InStatus(id, st) == id \in Ops!Stored(store) /\ Ops!get(store, id).st = st

\* The store after operation id got status st.
Moved(id, st) == Ops!update(store, id, [Ops!get(store, id) EXCEPT !.st = st])

\* A task of an operation, or of an event of a side (id is its block).
Task(type, side, id, pc, snap) ==
    [type |-> type, side |-> side, id |-> id, pc |-> pc, snap |-> snap]

Queued(type, side, id) == Task(type, side, id, "queued", 0)

-----------------------------------------------------------------------------

Idle == [pc |-> "idle", side |-> "Base", snap |-> 0]

Init ==
    /\ events = [s \in Sides |-> <<>>]
    /\ used = [s \in Sides |-> {}]
    /\ erc20 = [Base |-> [u \in Users |-> Balance], Wrapped |-> [u \in Users |-> 0]]
    /\ locked = 0
    /\ collectors = [c \in Collectors |-> Idle]
    /\ next_block = [s \in Sides |-> IF s \in ReadySides THEN 0 ELSE None]
    /\ contractSet = [s \in Sides |-> s \in ReadySides]
    /\ store = Ops!with_memory
    /\ tasks = {Queued("InitEvmState", s, 0) : s \in Sides \ ReadySides}
    /\ orders = {}
    /\ handled = [s \in Sides |-> [b \in 1..MaxEvents[s] |-> 0]]
    /\ first_block = next_block

-----------------------------------------------------------------------------
(* The two EVMs.                                                           *)

Emit(side, e) == /\ Height(side) < MaxEvents[side]
                 /\ events' = [events EXCEPT ![side] = Append(@, e)]

canisterUnchanged == UNCHANGED <<collectors, next_block, contractSet, store, tasks,
                                 orders, historyVars>>

\* BFTBridge.burn.  The contract numbers its burns.
Burn(side, u, recipient) ==
    /\ erc20[side][u] > 0
    /\ Emit(side, Event("Burnt", u, recipient,
                        PastBurns[side] + Cardinality(BurnsOf(side))))
    /\ erc20' = [erc20 EXCEPT ![side][u] = @ - 1]
    /\ locked' = IF side = "Base" THEN locked + 1 ELSE locked
    /\ UNCHANGED used
    /\ canisterUnchanged

\* BFTBridge.notifyMinter.
NotifyMinter(side, u) ==
    /\ Emit(side, Event("Notify", u, None, 0))
    /\ UNCHANGED <<used, erc20, locked>>
    /\ canisterUnchanged

\* BFTBridge.mint, in a transaction of the minter or of anyone who has read
\* the signed order from the canister; either may as well never be mined.
\* Only the contract on the side of the order knows its token, and it takes
\* the order only if that names its chain.
ExecuteOrder(o) ==
    /\ o.chain = ChainID[o.to]
    /\ <<o.sender, o.nonce>> \notin used[o.to]
    /\ o.to = "Base" => locked > 0
    /\ Emit(o.to, Event("Minted", o.sender, o.recipient, o.nonce))
    /\ used' = [used EXCEPT ![o.to] = @ \cup {<<o.sender, o.nonce>>}]
    /\ erc20' = [erc20 EXCEPT ![o.to][o.recipient] = @ + 1]
    /\ locked' = IF o.to = "Base" THEN locked - 1 ELSE locked
    /\ canisterUnchanged

set_bft_bridge_contract(side) ==
    /\ ~ contractSet[side]
    /\ contractSet' = [contractSet EXCEPT ![side] = TRUE]
    /\ UNCHANGED <<evmVars, collectors, next_block, store, tasks, orders, historyVars>>

-----------------------------------------------------------------------------
(* Initialisation of a side, by its own task and by a collection that      *)
(* finds no parameters.                                                    *)

get_evm_params(side) == next_block[side]

update_evm_params(side, block) == next_block' = [next_block EXCEPT ![side] = block]

\* The answer has the height of some moment since the query was made.
init_evm_state(side, since) ==
    \E height \in since..Height(side) :
        /\ update_evm_params(side, height)
        /\ first_block' = [first_block EXCEPT ![side] =
                             IF @ = None THEN height ELSE Max({@, height})]

-----------------------------------------------------------------------------
(* Task CollectEvmEvents.  Nothing keeps two of them apart.                *)

CollectStart(c, side) ==
    /\ collectors[c].pc = "idle"
    /\ IF get_evm_params(side) = None
       THEN collectors' = [collectors EXCEPT ![c] =
                             [pc |-> "init", side |-> side, snap |-> Height(side)]]
       ELSE /\ contractSet[side]
            /\ collectors' = [collectors EXCEPT ![c] =
                             [pc |-> "logs", side |-> side, snap |-> get_evm_params(side)]]
    /\ UNCHANGED <<evmVars, next_block, contractSet, store, tasks, orders, historyVars>>

CollectInit(c) ==
    /\ collectors[c].pc = "init"
    /\ init_evm_state(collectors[c].side, collectors[c].snap)
    /\ collectors' = [collectors EXCEPT ![c] = Idle]
    /\ UNCHANGED <<evmVars, contractSet, store, tasks, orders, handled>>

\* A call of the task fails, or the task traps and its changes since the
\* last await are undone.
CollectErr(c) ==
    /\ collectors[c].pc # "idle"
    /\ collectors' = [collectors EXCEPT ![c] = Idle]
    /\ UNCHANGED <<evmVars, next_block, contractSet, store, tasks, orders, historyVars>>

\* Mutant: the operation mints on the side of the burn.
task_by_log_same_side(acc, side, b) ==
    LET e == events[side][b]
    IN  IF e.type = "Burnt"
        THEN [store |-> Ops!new_operation(acc.store, e.sender, Payload(side, "Scheduled", e)),
              tasks |-> acc.tasks \cup {Queued("PrepareMintOrder", side, acc.store.counter)}]
        ELSE [acc EXCEPT !.tasks =
                @ \cup {Task("RemoveMintOrder", side, b, "queued", handled[side][b])}]

\* What one collected log does to the store and the task queue.
task_by_log(acc, side, b) ==
    LET e == events[side][b]
    IN  IF e.type = "Burnt"
        THEN [store |-> Ops!new_operation(acc.store, e.sender,
                                          Payload(other(side), "Scheduled", e)),
              tasks |-> acc.tasks \cup {Queued("PrepareMintOrder", side, acc.store.counter)}]
        ELSE [acc EXCEPT !.tasks =
                @ \cup {Task("RemoveMintOrder", side, b, "queued", handled[side][b])}]

\* Mutant: a block is passed over.
NextBlock_skips(last_block) == last_block + 2

NextBlock(last_block) == last_block + 1

\* The logs arrive, up to the height of an earlier moment, all but those of
\* blocks that collect_logs had to skip.  On a Notify event task_by_log is
\* todo!(), and the task traps.  update_evm_params then reads the parameters
\* before its first await.
CollectLogs(c, height, skipped) ==
    LET side == collectors[c].side
        from == collectors[c].snap
        blocks == {b \in 1..Height(side) : from <= b /\ b <= height /\ <<side, b>> \notin skipped}
        acc == FoldLeft(LAMBDA a, b : task_by_log(a, side, b),
                        [store |-> store, tasks |-> tasks],
                        SetToSortSeq(blocks, <))
    IN  /\ collectors[c].pc = "logs"
        /\ height >= from - 1 /\ height <= Height(side)
        /\ \A b \in blocks : events[side][b].type # "Notify"
        /\ acc.store.counter <= MaxOperations
        /\ store' = acc.store
        /\ tasks' = acc.tasks
        /\ handled' = [handled EXCEPT ![side] =
                         [b \in DOMAIN @ |-> IF b \in blocks THEN @[b] + 1 ELSE @[b]]]
        /\ update_evm_params(side, NextBlock(height))
        /\ collectors' = [collectors EXCEPT ![c].pc = "params",
                                             ![c].snap = NextBlock(height)]
        /\ UNCHANGED <<evmVars, contractSet, orders, first_block>>

\* The rest of update_evm_params writes back the parameters it read.
CollectParams(c) ==
    /\ collectors[c].pc = "params"
    /\ update_evm_params(collectors[c].side, collectors[c].snap)
    /\ collectors' = [collectors EXCEPT ![c] = Idle]
    /\ UNCHANGED <<evmVars, contractSet, store, tasks, orders, historyVars>>

-----------------------------------------------------------------------------
(* The other tasks.                                                        *)

Replace(t, new) == tasks' = (tasks \ {t}) \cup new

Awaiting(t, pc, snap) == Task(t.type, t.side, t.id, pc, snap)

outsideUnchanged == UNCHANGED <<evmVars, collectors, contractSet, handled>>

\* The task goes on to its first await.
Start(t, pc, snap) ==
    /\ t.pc = "queued"
    /\ Replace(t, {Awaiting(t, pc, snap)})
    /\ UNCHANGED <<next_block, store, orders, first_block>>
    /\ outsideUnchanged

\* A call of the task fails, and the task is queued again.  The tasks with
\* a limited number of retries may as well be given up.
TaskErr(t) ==
    /\ t.pc # "queued"
    /\ \/ Replace(t, {Queued(t.type, t.side, t.id)})
       \/ t.type # "PrepareMintOrder" /\ Replace(t, {})
    /\ UNCHANGED <<next_block, store, orders, first_block>>
    /\ outsideUnchanged

init_evm_state_start(t) == Start(t, "query", Height(t.side))

init_evm_state_done(t) ==
    /\ t.pc = "query"
    /\ init_evm_state(t.side, t.snap)
    /\ Replace(t, {})
    /\ UNCHANGED <<store, orders>>
    /\ outsideUnchanged

\* The task fails, and is queued again, unless the operation is scheduled,
\* both sides have parameters and the recipient decodes.
prepare_mint_order_start(t) ==
    /\ InStatus(t.id, "Scheduled")
    /\ \A s \in Sides : get_evm_params(s) # None
    /\ Ops!get(store, t.id).burn.recipient # None
    /\ Start(t, "sign", 0)

\* The order for a burn: the side of the payload is the one to mint on.
\* The code calls it burn_side, and takes the recipient's chain from the
\* other.
MintOrder(p) ==
    LET burn_side == p.side
    IN  [to |-> p.side, chain |-> ChainID[other(burn_side)],
         sender |-> p.burn.sender, recipient |-> p.burn.recipient,
         nonce |-> p.burn.nonce]

\* The signature arrives; update_evm_params reads the parameters at once.
prepare_mint_order_signed(t) ==
    LET p == Ops!get(store, t.id)
    IN  /\ t.pc = "sign"
        /\ store' = Moved(t.id, "MintOrderSigned")
        /\ orders' = orders \cup {MintOrder(p)}
        /\ Replace(t, {Awaiting(t, "params", get_evm_params(p.side))})
        /\ UNCHANGED <<next_block, first_block>>
        /\ outsideUnchanged

\* update_evm_params writes back what it read.
prepare_mint_order_params(t) ==
    /\ t.pc = "params"
    /\ update_evm_params(Ops!get(store, t.id).side, t.snap)
    /\ Replace(t, {Queued("SendMintTransaction", t.side, t.id)})
    /\ UNCHANGED <<store, orders, first_block>>
    /\ outsideUnchanged

send_mint_transaction_start(t) ==
    /\ InStatus(t.id, "MintOrderSigned")
    /\ Start(t, "send", 0)

\* Mutant: a transaction that was sent counts as mined.
send_mint_transaction_minted(t) ==
    /\ t.pc = "send"
    /\ contractSet[Ops!get(store, t.id).side]
    /\ store' = Moved(t.id, "Minted")
    /\ Replace(t, {})
    /\ UNCHANGED <<next_block, orders, first_block>>
    /\ outsideUnchanged

\* The EVM has accepted the transaction.
send_mint_transaction(t) ==
    /\ t.pc = "send"
    /\ contractSet[Ops!get(store, t.id).side]
    /\ store' = Moved(t.id, "MintOrderSent")
    /\ Replace(t, {})
    /\ UNCHANGED <<next_block, orders, first_block>>
    /\ outsideUnchanged

\* The wallet under which the operation of a Minted event is looked up.
MintedWallet(side, e) == IF side = "Base" THEN e.recipient ELSE e.sender

\* The task fails, and is retried, until the wallet has an operation whose id
\* is the nonce of the order.  If that is not sent, or for another token, the event is dropped.
remove_mint_order(t) ==
    LET e == events[t.side][t.id]
        id == e.nonce
    IN  /\ id \in Ops!get_for_address(store, MintedWallet(t.side, e))
        /\ store' = IF InStatus(id, "MintOrderSent") /\ Ops!get(store, id).side = t.side
                    THEN Moved(id, "Minted") ELSE store
        /\ Replace(t, {})
        /\ UNCHANGED <<next_block, orders, first_block>>
        /\ outsideUnchanged

-----------------------------------------------------------------------------
(* The orders that users can read.                                         *)

get_signed_mint_order(p) == p.st \in {"MintOrderSigned", "MintOrderSent"}

list_mint_orders(u) == {id \in Ops!get_for_address(store, u) :
                          get_signed_mint_order(Ops!get(store, id))}

-----------------------------------------------------------------------------

Environment ==
    \/ \E s \in Sides, u \in Users :
          \/ \E r \in Recipients : Burn(s, u, r)
          \/ u \in Notifiers /\ NotifyMinter(s, u)
    \/ \E o \in orders : ExecuteOrder(o)
    \/ \E s \in Sides : set_bft_bridge_contract(s)

Execute(t) ==
    \/ t.type = "InitEvmState" /\ (init_evm_state_start(t) \/ init_evm_state_done(t))
    \/ /\ t.type = "PrepareMintOrder"
       /\ \/ prepare_mint_order_start(t)
          \/ prepare_mint_order_signed(t)
          \/ prepare_mint_order_params(t)
    \/ /\ t.type = "SendMintTransaction"
       /\ \/ send_mint_transaction_start(t)
          \/ send_mint_transaction(t)
    \/ t.type = "RemoveMintOrder" /\ remove_mint_order(t)

Collect(c) == \/ \E s \in Sides : CollectStart(c, s)
              \/ CollectInit(c)
              \/ \E height \in 0..Height(collectors[c].side), skipped \in SUBSET Unreadable :
                     CollectLogs(c, height, skipped)
              \/ CollectParams(c)

Next == \/ Environment
        \/ \E c \in Collectors : Collect(c) \/ CollectErr(c)
        \/ \E t \in tasks : Execute(t) \/ TaskErr(t)

Spec == Init /\ [][Next]_vars

-----------------------------------------------------------------------------
(* Properties.                                                             *)

\* Collections overlap, tasks write back parameters they read before, and a
\* side may be initialised more than once.  Still, no block from the last
\* one a side was initialised with is passed over: an event below
\* next_block has been turned into a task, unless its block could not be read.
NoLogSkipped ==
    \A s \in Sides : next_block[s] # None =>
        \A b \in DOMAIN handled[s] :
            first_block[s] <= b /\ b < next_block[s]
                => handled[s][b] > 0 \/ <<s, b>> \in Unreadable

Edges == {<<"Scheduled", "MintOrderSigned">>, <<"MintOrderSigned", "MintOrderSent">>,
          <<"MintOrderSent", "Minted">>}

\* An operation only moves forward through its statuses, one at a time, and
\* keeps its burn; it leaves the store only when it is complete, at the
\* latest with the step that completes it.
OperationsMoveForward ==
    [][\A id \in Ops!Stored(store) :
          LET p == Ops!get(store, id)
              q == Ops!get(store', id)
          IN  IF id \in Ops!Stored(store')
              THEN q = p \/ (q = [p EXCEPT !.st = q.st] /\ <<p.st, q.st>> \in Edges)
              ELSE p.st \in {"MintOrderSent", "Minted"}]_vars

Executed(o) == <<o.sender, o.nonce>> \in used[o.to]

\* A mint order is kept, for its user to read and send it, until it is minted:
\* an operation whose order is not listed any more has had it executed.
UnmintedOrdersKept ==
    \A u \in Users : \A id \in Ops!get_for_address(store, u) :
        \/ InStatus(id, "Scheduled") \/ id \in list_mint_orders(u)
        \/ Executed(MintOrder(Ops!get(store, id)))

-----------------------------------------------------------------------------
(* The tokens.                                                             *)

BurnsOn(side) == Cardinality(BurnsOf(side))

OrdersTo(side) == {o \in orders : o.to = side}

MintsOn(side) == Cardinality({e \in Range(events[side]) : e.type = "Minted"})

Bridge == INSTANCE TokenBridge WITH
    owed <- BurnsOn("Base") - Cardinality(OrdersTo("Wrapped")),
    vouchers <- Cardinality({o \in OrdersTo("Wrapped") : ~ Executed(o)}),
    wrapped <- SumFunction(erc20["Wrapped"]),
    burnt <- BurnsOn("Wrapped") - MintsOn("Base")

\* However often a burn is turned into an operation, the canister and the
\* two contracts together are a lock-and-mint bridge: every burn leads to at
\* most one mint, because the number that the contract gave to the burn is
\* the nonce of its order.
BridgeSpec == Bridge!Spec
=============================================================================
