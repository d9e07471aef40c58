---------------------------- MODULE Icrc2Minter ----------------------------
(***************************************************************************)
(* The ICRC-2 minter canister (icrc2-minter/src/tasks.rs) between an ICRC  *)
(* ledger and the BFTBridge contract of an EVM.  Deposits move one token   *)
(* from the ledger to the EVM, withdrawals move one back.                  *)
(*                                                                         *)
(* A task runs without interruption between two awaits.  Start actions go  *)
(* from the call of the task to its first await; the other actions resume  *)
(* it with an answer.  Awaits between which a task touches no shared state *)
(* are one.  A task that returns Err is queued again by the scheduler.     *)
(***************************************************************************)
EXTENDS CollectLockOps, Sequences, FiniteSets, Functions, SequencesExt

CONSTANTS
    Users,                      \* each with a wallet and a principal
    Collectors,                 \* collection tasks that may overlap
    MAX_LOG_REQUEST_COUNT,
    MaxLogSize,                 \* of the operation store
    Notifications,              \* what users notify the minter of, <<type, flag>>
    Decodes,                    \* subset of BOOLEAN: do recipients of burns decode?
    Unreadable,                 \* blocks for which a query of their logs may fail
    Balance,                    \* ICRC tokens of each user at the start
    MaxEvents, MaxOperations    \* bounds

VARIABLES
    \* BFTBridge and its chain: block n has the event events[n]
    events, used, erc20,
    \* the ICRC ledger: tokens of the users and of the minter
    icrc, pool,
    \* the canister
    now, lock, collectors, next_block, contractSet, store, tasks,
    \* history: orders ever signed, and per block how often its event was
    \* turned into a task and how often its burn was paid or refunded
    orders, handled, settled, first_block

evmVars == <<events, used, erc20>>
ledgerVars == <<icrc, pool>>
collectVars == <<lock, collectors>>
historyVars == <<handled, first_block>>
vars == <<evmVars, ledgerVars, now, collectVars, next_block, contractSet, store,
          tasks, orders, settled, historyVars>>

Height == Len(events)

-----------------------------------------------------------------------------
(* Operations.  The payload of an operation is its kind, its state, the    *)
(* block of the event it comes from and what the event says.               *)

Payload(kind, st, block, flag) ==
    [kind |-> kind, st |-> st, block |-> block, flag |-> flag]

FinalStates == {"Minted", "Transferred", "RefundMinted"}

States == [Deposit |-> {"Scheduled", "Icrc2Burned", "MintOrderSigned",
                        "MintOrderSent", "Minted"},
           Withdrawal |-> {"Scheduled", "RefundScheduled", "Transferred",
                           "RefundMintOrderSigned", "RefundMintOrderSent",
                           "RefundMinted"}]

CompleteStates == [kind : DOMAIN States, st : FinalStates,
                   block : 1..MaxEvents, flag : BOOLEAN]

Ops == INSTANCE OperationStoreOps WITH Complete <- CompleteStates

Lock == INSTANCE CollectLock WITH
          Tasks <- Collectors,
          held <- [c \in Collectors |-> collectors[c].ts]

\* Is operation id in one of these states, given as <<kind, state>>?
InState(id, sts) ==
    /\ id \in Ops!Stored(store)
    /\ <<Ops!get(store, id).kind, Ops!get(store, id).st>> \in sts

\* The store after operation id moved to state st.
Moved(id, st) == Ops!update(store, id, [Ops!get(store, id) EXCEPT !.st = st])

WalletOf(id) == store.incomplete[id].dst_address

Task(type, id, pc, snap) == [type |-> type, id |-> id, pc |-> pc, snap |-> snap]

Queued(type, id) == Task(type, id, "queued", 0)

-----------------------------------------------------------------------------

Init ==
    /\ events = <<>> /\ used = {}
    /\ erc20 = [u \in Users |-> 0]
    /\ icrc = [u \in Users |-> Balance] /\ pool = 0
    /\ now = 0 /\ lock = None
    /\ collectors = [c \in Collectors |-> [pc |-> "idle", ts |-> None, snap |-> 0]]
    /\ next_block = None /\ contractSet = FALSE
    /\ store = Ops!with_memory /\ tasks = {}
    /\ orders = {}
    /\ handled = [b \in 1..MaxEvents |-> 0]
    /\ settled = [b \in 1..MaxEvents |-> 0]
    /\ first_block = None

-----------------------------------------------------------------------------
(* The EVM: what users and the chain do with BFTBridge.                    *)

Event(type, user, id, flag) ==
    [type |-> type, user |-> user, id |-> id, flag |-> flag]

Emit(e) == Height < MaxEvents /\ events' = Append(events, e)

canisterUnchanged ==
    UNCHANGED <<ledgerVars, now, collectVars, next_block, contractSet, store,
                tasks, orders, settled, historyVars>>

\* A deposit request <<"Notify", does it name a fee payer>>, or anything
\* else that does not decode to one, <<"Other", FALSE>>.
NotifyMinter(u, n) == /\ Emit(Event(n[1], u, 0, n[2]))
                      /\ UNCHANGED <<used, erc20>>
                      /\ canisterUnchanged

\* A withdrawal request; the flag says whether its recipient decodes.
Burn(u, ok) == /\ erc20[u] > 0
               /\ Emit(Event("Burnt", u, 0, ok))
               /\ erc20' = [erc20 EXCEPT ![u] = @ - 1]
               /\ UNCHANGED used
               /\ canisterUnchanged

\* BFTBridge.mint, in a transaction of the minter or of anyone who has read
\* the signed order from the canister.  Either transaction may as well never
\* be mined, or revert.
ExecuteOrder(o) == /\ o.id \notin used
                   /\ Emit(Event("Minted", o.user, o.id, FALSE))
                   /\ used' = used \cup {o.id}
                   /\ erc20' = [erc20 EXCEPT ![o.user] = @ + 1]
                   /\ canisterUnchanged

Tick == /\ now < MaxTime
        /\ now' = now + 1
        /\ UNCHANGED <<evmVars, ledgerVars, collectVars, next_block, contractSet,
                       store, tasks, orders, settled, historyVars>>

-----------------------------------------------------------------------------
(* The canister's configuration.                                           *)

init_evm_info == /\ next_block = None
                 /\ next_block' = Height
                 /\ first_block' = Height
                 /\ UNCHANGED <<evmVars, ledgerVars, now, collectVars, contractSet,
                                store, tasks, orders, settled, handled>>

set_bft_bridge_contract ==
    /\ ~ contractSet
    /\ contractSet' = TRUE
    /\ UNCHANGED <<evmVars, ledgerVars, now, collectVars, next_block, store, tasks,
                   orders, settled, historyVars>>

-----------------------------------------------------------------------------
(* Task CollectEvmEvents.                                                  *)

CollectStart(c) ==
    /\ collectors[c].pc = "idle"
    /\ CanTake(lock, now)
    /\ IF next_block = None \/ ~ contractSet
       THEN lock' = None /\ UNCHANGED collectors
       ELSE /\ lock' = now
            /\ collectors' = [collectors EXCEPT ![c] =
                               [pc |-> "logs", ts |-> now, snap |-> next_block]]
    /\ UNCHANGED <<evmVars, ledgerVars, now, next_block, contractSet, store, tasks,
                   orders, settled, historyVars>>

\* Mutant: the destructor releases whatever lock is held.
CollectReturn_frees(c) ==
    /\ lock' = None
    /\ collectors' = [collectors EXCEPT ![c] = [pc |-> "idle", ts |-> None, snap |-> 0]]

\* The task returns, and the destructor of its lock runs.
CollectReturn(c) ==
    /\ lock' = AfterDrop(lock, collectors[c].ts)
    /\ collectors' = [collectors EXCEPT ![c] = [pc |-> "idle", ts |-> None, snap |-> 0]]

\* Mutant: an early return leaves the lock taken.
CollectErr_keeps_lock(c) ==
    /\ collectors[c].pc # "idle"
    /\ collectors' = [collectors EXCEPT ![c] = [pc |-> "idle", ts |-> None, snap |-> 0]]
    /\ UNCHANGED <<evmVars, ledgerVars, now, lock, next_block, contractSet, store,
                   tasks, orders, settled, historyVars>>

\* An EVM call of the task fails.
CollectErr(c) ==
    /\ collectors[c].pc # "idle"
    /\ CollectReturn(c)
    /\ UNCHANGED <<evmVars, ledgerVars, now, next_block, contractSet, store, tasks,
                   orders, settled, historyVars>>

\* What one collected log does to the store and the task queue.
task_by_log(acc, b) ==
    LET e == events[b]
        id == acc.store.counter
        new(kind, type) ==
            [store |-> Ops!new_operation(acc.store, e.user,
                                         Payload(kind, "Scheduled", b, e.flag)),
             tasks |-> acc.tasks \cup {Queued(type, id)}]
    IN  CASE e.type = "Burnt"  -> new("Withdrawal", "MintIcrc2Tokens")
          [] e.type = "Notify" -> new("Deposit", "BurnIcrc2Tokens")
          [] e.type = "Minted" ->
               [acc EXCEPT !.tasks = @ \cup {Task("RemoveMintOrder", b, "queued", handled[b])}]
          [] OTHER -> acc

LastRequestBlock(height, from) ==
    IF height < from + MAX_LOG_REQUEST_COUNT THEN height ELSE from + MAX_LOG_REQUEST_COUNT

\* Mutants: the last block is read again, or one is passed over.
NextBlock_again(last) == last

NextBlock_skips(last) == last + 2

NextBlock(last) == last + 1

\* The logs arrive, up to the height of an earlier moment, all but those of
\* blocks that collect_logs had to skip.  update_evm_params then reads the
\* parameters before its first await.
CollectLogs(c, height) ==
    LET from == collectors[c].snap
        last == LastRequestBlock(height, from)
    IN  /\ collectors[c].pc = "logs"
        /\ height >= from - 1
        /\ \E skipped \in SUBSET (Unreadable \cap from..last) :
             LET blocks == SelectSeq([i \in 1..Height |-> i],
                                     LAMBDA b : b >= from /\ b <= last /\ b \notin skipped)
                 acc == FoldLeft(task_by_log, [store |-> store, tasks |-> tasks], blocks)
             IN  /\ acc.store.counter <= MaxOperations
                 /\ store' = acc.store
                 /\ tasks' = acc.tasks
                 /\ handled' = [b \in 1..MaxEvents |->
                                 handled[b] + Cardinality({i \in DOMAIN blocks : blocks[i] = b})]
        /\ next_block' = NextBlock(last)
        /\ collectors' = [collectors EXCEPT ![c].pc = "params", ![c].snap = NextBlock(last)]
        /\ UNCHANGED <<evmVars, ledgerVars, now, lock, contractSet, orders, settled,
                       first_block>>

\* The rest of update_evm_params writes back the parameters it read.
CollectParams(c) ==
    /\ collectors[c].pc = "params"
    /\ next_block' = collectors[c].snap
    /\ CollectReturn(c)
    /\ UNCHANGED <<evmVars, ledgerVars, now, contractSet, store, tasks, orders,
                   settled, historyVars>>

-----------------------------------------------------------------------------
(* The tasks of one operation.                                             *)

outsideUnchanged == UNCHANGED <<evmVars, now, collectVars, contractSet, historyVars>>

Replace(t, new) == tasks' = (tasks \ {t}) \cup new

At(t, pc) == [t EXCEPT !.pc = pc]

\* The task reads its operation, in one of the states it works on, and goes
\* on to its first await; in any other state it returns Ok and is gone.
StartOn(t, expected, pc) ==
    /\ t.pc = "queued"
    /\ Replace(t, IF expected THEN {At(t, pc)} ELSE {})
    /\ UNCHANGED <<ledgerVars, next_block, store, orders, settled>>
    /\ outsideUnchanged

\* Mutant: a task that fails is given up.
TaskErr_gives_up(t) ==
    /\ t.pc # "queued"
    /\ Replace(t, {})
    /\ UNCHANGED <<ledgerVars, next_block, store, orders, settled>>
    /\ outsideUnchanged

\* A call of the task fails.  SendMintTransaction has the default options
\* of the scheduler, so it may as well be given up.
TaskErr(t) ==
    /\ t.pc # "queued"
    /\ \/ Replace(t, {Queued(t.type, t.id)})
       \/ t.type = "SendMintTransaction" /\ Replace(t, {})
    /\ UNCHANGED <<ledgerVars, next_block, store, orders, settled>>
    /\ outsideUnchanged

burn_icrc2_start(t) == StartOn(t, InState(t.id, {<<"Deposit", "Scheduled">>}), "transfer")

\* Mutant: a refused transfer is taken for a success.
burn_icrc2_tokens_unpaid(t) ==
    /\ t.pc = "transfer"
    /\ store' = Moved(t.id, "Icrc2Burned")
    /\ Replace(t, {Queued("PrepareMintOrder", t.id)})
    /\ UNCHANGED <<ledgerVars, next_block, orders, settled>>
    /\ outsideUnchanged

\* icrc2_transfer_from moves the user's token to the minter.
icrc2_burn(u) == /\ icrc[u] > 0
                 /\ icrc' = [icrc EXCEPT ![u] = @ - 1]
                 /\ pool' = pool + 1

burn_icrc2_tokens(t) ==
    /\ t.pc = "transfer"
    /\ icrc2_burn(WalletOf(t.id))
    /\ store' = Moved(t.id, "Icrc2Burned")
    /\ Replace(t, {Queued("PrepareMintOrder", t.id)})
    /\ UNCHANGED <<next_block, orders, settled>>
    /\ outsideUnchanged

ToPrepare(id) == InState(id, {<<"Deposit", "Icrc2Burned">>,
                              <<"Withdrawal", "RefundScheduled">>})

\* Without EVM parameters the task fails and is queued again.
prepare_mint_order_start(t) ==
    /\ ToPrepare(t.id) => next_block # None
    /\ StartOn(t, ToPrepare(t.id), "sign")

\* Mutant: the kinds are exchanged.
IsDeposit_negated(id) == Ops!get(store, id).kind # "Deposit"

IsDeposit(id) == Ops!get(store, id).kind = "Deposit"

\* A deposit is sent by the minter when it names a fee payer; a refund
\* never does.
ShouldSend(id) == IsDeposit(id) /\ Ops!get(store, id).flag

\* The signature arrives.  When the minter is to send the order, the task
\* goes on to update_evm_params, which reads the parameters at once.
prepare_mint_order_signed(t) ==
    /\ t.pc = "sign"
    /\ store' = Moved(t.id, IF IsDeposit(t.id) THEN "MintOrderSigned"
                                               ELSE "RefundMintOrderSigned")
    /\ orders' = orders \cup {[id |-> t.id, user |-> WalletOf(t.id)]}
    /\ settled' = IF IsDeposit(t.id) THEN settled
                  ELSE [settled EXCEPT ![Ops!get(store, t.id).block] = @ + 1]
    /\ Replace(t, IF ShouldSend(t.id)
                  THEN {Task(t.type, t.id, "params", next_block)} ELSE {})
    /\ UNCHANGED <<ledgerVars, next_block>>
    /\ outsideUnchanged

\* update_evm_params writes back what it read, with a new nonce.
prepare_mint_order_params(t) ==
    /\ t.pc = "params"
    /\ next_block' = t.snap
    /\ Replace(t, {Queued("SendMintTransaction", t.id)})
    /\ UNCHANGED <<ledgerVars, store, orders, settled>>
    /\ outsideUnchanged

send_mint_transaction_start(t) ==
    StartOn(t, InState(t.id, {<<"Deposit", "MintOrderSigned">>,
                              <<"Withdrawal", "RefundMintOrderSigned">>}), "send")

\* Mutant: a transaction that was sent counts as mined.
send_mint_transaction_minted(t) ==
    /\ t.pc = "send"
    /\ contractSet
    /\ store' = Moved(t.id, IF IsDeposit(t.id) THEN "Minted" ELSE "RefundMinted")
    /\ Replace(t, {})
    /\ UNCHANGED <<ledgerVars, next_block, orders, settled>>
    /\ outsideUnchanged

\* The EVM has accepted the transaction.
send_mint_transaction(t) ==
    /\ t.pc = "send"
    /\ contractSet
    /\ store' = Moved(t.id, IF IsDeposit(t.id) THEN "MintOrderSent"
                                               ELSE "RefundMintOrderSent")
    /\ Replace(t, {})
    /\ UNCHANGED <<ledgerVars, next_block, orders, settled>>
    /\ outsideUnchanged

\* A recipient that does not decode is an error, and the task is retried.
mint_icrc2_start(t) ==
    /\ InState(t.id, {<<"Withdrawal", "Scheduled">>}) => Ops!get(store, t.id).flag
    /\ StartOn(t, InState(t.id, {<<"Withdrawal", "Scheduled">>}), "transfer")

\* icrc1_transfer pays the user from the account of the minter.
icrc2_mint(u) == /\ pool > 0
                 /\ pool' = pool - 1
                 /\ icrc' = [icrc EXCEPT ![u] = @ + 1]

mint_icrc2(t) ==
    /\ t.pc = "transfer"
    /\ icrc2_mint(WalletOf(t.id))
    /\ settled' = [settled EXCEPT ![Ops!get(store, t.id).block] = @ + 1]
    /\ store' = Moved(t.id, "Transferred")
    /\ Replace(t, {})
    /\ UNCHANGED <<next_block, orders>>
    /\ outsideUnchanged

\* Mutant: a transfer that was made is refunded as well.
mint_icrc2_refund_paid(t) ==
    /\ t.pc = "transfer"
    /\ icrc2_mint(WalletOf(t.id))
    /\ settled' = [settled EXCEPT ![Ops!get(store, t.id).block] = @ + 1]
    /\ store' = Moved(t.id, "RefundScheduled")
    /\ Replace(t, {Queued("PrepareMintOrder", t.id)})
    /\ UNCHANGED <<next_block, orders>>
    /\ outsideUnchanged

\* The ledger refuses for good.
mint_icrc2_refund(t) ==
    /\ t.pc = "transfer"
    /\ store' = Moved(t.id, "RefundScheduled")
    /\ Replace(t, {Queued("PrepareMintOrder", t.id)})
    /\ UNCHANGED <<ledgerVars, next_block, orders, settled>>
    /\ outsideUnchanged

\* Mutant: the order need not have been sent by the minter.
remove_mint_order_signed(t) ==
    LET e == events[t.id]
    IN  /\ e.id \in Ops!get_for_address(store, e.user)
        /\ InState(e.id, {<<"Deposit", "MintOrderSigned">>, <<"Deposit", "MintOrderSent">>})
        /\ store' = Moved(e.id, "Minted")
        /\ Replace(t, {})
        /\ UNCHANGED <<ledgerVars, next_block, orders, settled>>
        /\ outsideUnchanged

\* The task fails, and is retried, until its operation is found as sent.
remove_mint_order(t) ==
    LET e == events[t.id]
    IN  /\ e.id \in Ops!get_for_address(store, e.user)
        /\ InState(e.id, {<<"Deposit", "MintOrderSent">>,
                          <<"Withdrawal", "RefundMintOrderSent">>})
        /\ store' = Moved(e.id, IF IsDeposit(e.id) THEN "Minted" ELSE "RefundMinted")
        /\ Replace(t, {})
        /\ UNCHANGED <<ledgerVars, next_block, orders, settled>>
        /\ outsideUnchanged

-----------------------------------------------------------------------------
(* The orders that users can read.                                         *)

get_signed_mint_order(p) ==
    <<p.kind, p.st>> \in {<<"Deposit", "MintOrderSigned">>, <<"Deposit", "MintOrderSent">>,
                          <<"Withdrawal", "RefundMintOrderSigned">>}

list_mint_orders(u) == {id \in Ops!get_for_address(store, u) :
                          get_signed_mint_order(Ops!get(store, id))}

-----------------------------------------------------------------------------

Environment ==
    \/ \E u \in Users : \/ \E n \in Notifications : NotifyMinter(u, n)
                        \/ \E ok \in Decodes : Burn(u, ok)
    \/ \E o \in orders : ExecuteOrder(o)
    \/ Tick

Execute(t) ==
    \/ t.type = "BurnIcrc2Tokens" /\ (burn_icrc2_start(t) \/ burn_icrc2_tokens(t))
    \/ /\ t.type = "PrepareMintOrder"
       /\ \/ prepare_mint_order_start(t)
          \/ prepare_mint_order_signed(t)
          \/ prepare_mint_order_params(t)
    \/ /\ t.type = "SendMintTransaction"
       /\ \/ send_mint_transaction_start(t)
          \/ send_mint_transaction(t)
    \/ /\ t.type = "MintIcrc2Tokens"
       /\ mint_icrc2_start(t) \/ mint_icrc2(t) \/ mint_icrc2_refund(t)
    \/ t.type = "RemoveMintOrder" /\ remove_mint_order(t)

Collect(c) == \/ CollectStart(c)
              \/ \E height \in 0..Height : CollectLogs(c, height)
              \/ CollectParams(c)

Next == \/ Environment
        \/ init_evm_info \/ set_bft_bridge_contract
        \/ \E c \in Collectors : Collect(c) \/ CollectErr(c)
        \/ \E t \in tasks : Execute(t) \/ TaskErr(t)

Spec == Init /\ [][Next]_vars

\* The task on operation id is called, or has its call answered with success.
\* (At most one of the three types of task is on an operation at a time.)
Started(id) ==
    \E t \in tasks :
        /\ t.id = id
        /\ \/ t.type = "BurnIcrc2Tokens" /\ burn_icrc2_start(t)
           \/ t.type = "PrepareMintOrder" /\ prepare_mint_order_start(t)
           \/ t.type = "MintIcrc2Tokens" /\ mint_icrc2_start(t)

Answered(id) ==
    \E t \in tasks :
        /\ t.id = id
        /\ \/ t.type = "BurnIcrc2Tokens" /\ burn_icrc2_tokens(t)
           \/ t.type = "PrepareMintOrder" /\ prepare_mint_order_signed(t)
           \/ t.type = "MintIcrc2Tokens" /\ (mint_icrc2(t) \/ mint_icrc2_refund(t))

\* The timer runs the queue every two seconds and adds a collection task.
\* Tasks on an operation are retried without end, and a call that is made
\* again and again succeeds in the end.
Fairness ==
    /\ WF_vars(\E c \in Collectors : CollectStart(c))
    /\ SF_vars(\E c \in Collectors : CollectLogs(c, Height))
    /\ WF_vars(\E c \in Collectors : CollectParams(c) \/ CollectErr(c))
    /\ \A id \in 0..(MaxOperations - 1) : WF_vars(Started(id)) /\ SF_vars(Answered(id))

FairSpec == Spec /\ Fairness

-----------------------------------------------------------------------------
(* Properties.                                                             *)

TaskPcs == [BurnIcrc2Tokens |-> {"queued", "transfer"},
            PrepareMintOrder |-> {"queued", "sign", "params"},
            SendMintTransaction |-> {"queued", "send"},
            MintIcrc2Tokens |-> {"queued", "transfer"},
            RemoveMintOrder |-> {"queued"}]

\* Balances stay natural numbers, every operation is in a state of its kind,
\* every task at an await of its type, and next_block at most one past the
\* chain.
TypeOK ==
    /\ \A u \in Users : erc20[u] \in Nat /\ icrc[u] \in Nat
    /\ pool \in Nat
    /\ next_block \in 0..(MaxEvents + 1) \cup {None}
    /\ \A id \in Ops!Stored(store) :
          LET p == Ops!get(store, id) IN p.st \in States[p.kind]
    /\ \A t \in tasks : t.type \in DOMAIN TaskPcs /\ t.pc \in TaskPcs[t.type]
    /\ \A o \in orders : o.id < store.counter

\* Whatever tasks write back to the EVM parameters, and in whatever order,
\* no block from the first one on is passed over: an event below next_block
\* has been turned into a task, unless its block could not be read.
NoLogSkipped ==
    \A b \in DOMAIN handled :
        next_block # None /\ first_block <= b /\ b < next_block
            => handled[b] > 0 \/ b \in Unreadable

\* No event is turned into a task twice.
EachLogHandledOnce == \A b \in DOMAIN handled : handled[b] <= 1

\* Each time a burn event is handled leads to at most one payment: the
\* transfer on the ledger or one refund order, never both, whatever fails.
SettledPerHandling == \A b \in DOMAIN handled : settled[b] <= handled[b]

Edges ==
    {<<"Scheduled", "Icrc2Burned">>, <<"Icrc2Burned", "MintOrderSigned">>,
     <<"MintOrderSigned", "MintOrderSent">>, <<"MintOrderSent", "Minted">>,
     <<"Scheduled", "Transferred">>, <<"Scheduled", "RefundScheduled">>,
     <<"RefundScheduled", "RefundMintOrderSigned">>,
     <<"RefundMintOrderSigned", "RefundMintOrderSent">>,
     <<"RefundMintOrderSent", "RefundMinted">>}

\* An operation only moves forward through its states, one at a time, and
\* leaves the store only when it is complete, at the latest with the step
\* that completes it (the log may be full of younger operations): no task
\* overwrites the work of another with what it read before an await.
OperationsMoveForward ==
    [][\A id \in Ops!Stored(store) :
          LET p == Ops!get(store, id)
              q == Ops!get(store', id)
          IN  IF id \in Ops!Stored(store')
              THEN q = p \/ (q = [p EXCEPT !.st = q.st] /\ <<p.st, q.st>> \in Edges)
              ELSE \E st \in FinalStates : st = p.st \/ <<p.st, st>> \in Edges]_vars

\* A signed order can be read from the canister until the contract has
\* executed it: no failed transaction, late or repeated event and no eviction
\* of old operations takes it from its user before.
OrdersAvailable ==
    \A o \in orders : o.id \in used \/ o.id \in list_mint_orders(o.user)

Ordered(id) == \E o \in orders : o.id = id

\* A deposit whose token was taken gets its mint order, whatever calls fail
\* in between and however the task is retried: again and again there is none
\* that has not.
DepositsSigned ==
    []<>(\A id \in 0..(MaxOperations - 1) :
            InState(id, {"Deposit"} \X (States.Deposit \ {"Scheduled"})) => Ordered(id))

Watched(b) == /\ contractSet /\ next_block # None
              /\ b \in DOMAIN events /\ b >= first_block

\* A burn on the EVM after the canister began to watch the contract is paid
\* out on the ledger or refunded by an order, if its recipient decodes: the
\* collection reaches its block, and the tasks it causes finish.
BurnsSettled ==
    []<>(\A b \in 1..MaxEvents :
            Watched(b) /\ events[b].type = "Burnt" /\ events[b].flag => settled[b] > 0)

\* The collection tasks use their lock as CollectLock says.
LockSpec == Lock!Spec

-----------------------------------------------------------------------------
(* The tokens.                                                             *)

OpsIn(sts) == {id \in DOMAIN store.incomplete : store.incomplete[id].payload.st \in sts}

WaitingBurns ==
    {b \in DOMAIN events : events[b].type = "Burnt" /\ handled[b] = 0}

Bridge == INSTANCE TokenBridge WITH
    locked <- pool,
    owed <- Cardinality(OpsIn({"Icrc2Burned", "RefundScheduled"})),
    vouchers <- Cardinality({o \in orders : o.id \notin used}),
    wrapped <- SumFunction(erc20),
    burnt <- Cardinality(WaitingBurns)
             + Cardinality({id \in OpsIn({"Scheduled"}) :
                              store.incomplete[id].payload.kind = "Withdrawal"})

\* As long as no event is handled twice, the canister, the contract and the
\* ledger together are a lock-and-mint bridge: every step of a task, and no
\* other, moves a token as TokenBridge allows.
BridgeSpec == Bridge!Spec
=============================================================================
