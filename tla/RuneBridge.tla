----------------------------- MODULE RuneBridge -----------------------------
(***************************************************************************)
(* The Rune bridge canister: collection of the events of BFTBridge         *)
(* (rune-bridge/src/scheduler.rs), composed with its deposits and          *)
(* withdrawals.                                                            *)
(***************************************************************************)
EXTENDS RuneWithdrawal

\* What neither initialisation nor collection touches.
collectionUnchanged == UNCHANGED <<evmVars, btcVars, now, runes, NONCE, ledger, cleaner,
                                   orders>>

-----------------------------------------------------------------------------
(* Task InitEvmState; id has the height of the chain when it asks.         *)

init_evm_state_start(t) ==
    /\ t.pc = "queued"
    /\ Replace(t, {[t EXCEPT !.pc = "query", !.id = Height]})
    /\ UNCHANGED <<next_block, collectors, store>>
    /\ collectionUnchanged

\* The answer has the height of some moment since.
init_evm_state(t) ==
    /\ t.pc = "query"
    /\ next_block' \in t.id..Height
    /\ Replace(t, {})
    /\ UNCHANGED <<collectors, store>>
    /\ collectionUnchanged

\* The query fails, and is tried again a limited number of times.
init_evm_state_err(t) ==
    /\ t.pc = "query"
    /\ tasks' \in {(tasks \ {t}) \cup new : new \in {{}, {Queued(t.type, 0)}}}
    /\ UNCHANGED <<next_block, collectors, store>>
    /\ collectionUnchanged

-----------------------------------------------------------------------------
(* Task CollectEvmEvents.  Nothing keeps two of them apart.                *)

CollectStart(c) ==
    /\ collectors[c].pc = "idle" /\ next_block # None
    /\ collectors' = [collectors EXCEPT ![c] = [pc |-> "logs", snap |-> next_block]]
    /\ UNCHANGED <<next_block, store, tasks>>
    /\ collectionUnchanged

\* Are the infos of a rune in the state?
rune_info(r) == r \in runes

\* RuneWithdrawalPayload::new: an invalid request keeps nothing of the burn.
new_withdrawal(e) == IF e.dst # None /\ rune_info(e.rune)
                     THEN Withdrawal("Scheduled", e.user, e.dst)
                     ELSE Withdrawal("InvalidRequest", None, None)

\* An operation for event e and the task that executes it.
WithOperation(acc, e, type, p) ==
    [store |-> Ops!new_operation(acc.store, e.user, p),
     tasks |-> acc.tasks \cup {Queued(type, acc.store.counter)}]

\* Is the notification a deposit request that decodes?
decode(e) == e.user # None

\* What one collected log does to the store and the task queue.
task_by_log(acc, b) ==
    LET e == events[b]
    IN  CASE e.type = "Burnt" -> WithOperation(acc, e, "Withdraw", new_withdrawal(e))
          [] e.type = "Minted" -> [acc EXCEPT !.tasks = @ \cup {Queued("RemoveMintOrder", b)}]
          [] e.type = "Notify" /\ decode(e) ->
                WithOperation(acc, e, "Deposit", Deposit("Scheduled", e.user, e.amounts, now))
          [] OTHER -> acc

\* Mutant: the block after the last one collected is skipped.
NextBlock_skips(height) == height + 2

NextBlock(height) == height + 1

\* The logs arrive, up to the height of an earlier moment, all but those of
\* blocks that collect_logs had to skip.  Without logs nothing is written.
CollectLogs(c, height) ==
    LET from == collectors[c].snap
    IN  /\ collectors[c].pc = "logs"
        /\ \E skipped \in SUBSET (Unreadable \cap from..height) :
             LET blocks == {b \in 1..Height : from <= b /\ b <= height} \ skipped
                 acc == FoldLeft(task_by_log, [store |-> store, tasks |-> tasks],
                                 SetToSortSeq(blocks, <))
             IN  /\ acc.store.counter <= MaxOperations
                 /\ store' = acc.store
                 /\ tasks' = acc.tasks
                 /\ next_block' = IF blocks = {} THEN next_block ELSE NextBlock(height)
        /\ collectors' = [collectors EXCEPT ![c] = Idle]
        /\ collectionUnchanged

\* A call of the task fails.
CollectErr(c) ==
    /\ collectors[c].pc = "logs"
    /\ collectors' = [collectors EXCEPT ![c] = Idle]
    /\ UNCHANGED <<next_block, store, tasks>>
    /\ collectionUnchanged

-----------------------------------------------------------------------------

Environment ==
    \/ \E u \in Notified, a \in Requests : NotifyMinter(u, a)
    \/ \E u \in Users, r \in Runes, d \in Destinations : Burn(u, r, d)
    \/ \E o \in orders : ExecuteOrder(o)
    \/ \E x \in Utxos : Pay(x)
    \/ \E tx \in txs : MineTx(tx)
    \/ \E u \in Users, listing \in get_rune_list : get_rune_balances(u, listing)

Execute(t) ==
    \/ /\ t.type = "InitEvmState"
       /\ init_evm_state_start(t) \/ init_evm_state(t) \/ init_evm_state_err(t)
    \/ t.type = "Deposit" /\ ExecuteDeposit(t)
    \/ t.type = "Withdraw" /\ ExecuteWithdraw(t)
    \/ t.type = "RemoveMintOrder" /\ complete_mint_request(t)

Collect(c) == \/ CollectStart(c)
              \/ \E height \in 0..Height : CollectLogs(c, height)
              \/ CollectErr(c)

Next == \/ Environment
        \/ Tick
        \/ \E x \in Utxos : Confirm(x)
        \/ \E c \in Collectors : Collect(c)
        \/ \E t \in tasks : Execute(t)
        \/ RemoveUsedUtxos

Spec == Init /\ [][Next]_vars

\* Ids of deposits: nothing can be burnt, so nothing withdrawn, before the
\* first one.
DepositIds == 0..(MaxNotifications - 1)

DepositStep(id) == \E t \in tasks : t.type = "Deposit" /\ t.id = id /\ ExecuteDeposit(t)

\* Time passes, what is in a block is confirmed, and a queued deposit is run
\* and has its calls answered, with or without success.
FairSpec == /\ Spec
            /\ WF_vars(Tick)
            /\ WF_vars(\E x \in Utxos : Confirm(x))
            /\ \A id \in DepositIds : WF_vars(DepositStep(id))

-----------------------------------------------------------------------------
(* Properties.                                                             *)

TaskPcs == [InitEvmState |-> {"queued", "query"},
            Deposit |-> {"queued", "utxos", "amounts", "indexer", "sign", "send"},
            Withdraw |-> {"queued", "inputs", "build", "send", "sent"},
            RemoveMintOrder |-> {"queued"}]

\* Every operation has a status of its type, every task is at an await of its
\* type, the ledger is about known UTXOs and next_block at most one past the
\* chain.
TypeOK ==
    /\ \A id \in OperationsOf("Deposit") : Ops!get(store, id).st \in DepositStatuses
    /\ \A id \in OperationsOf("Withdrawal") : Ops!get(store, id).st \in WithdrawalStatuses
    /\ \A t \in tasks : t.type \in DOMAIN TaskPcs /\ t.pc \in TaskPcs[t.type]
    /\ ledger.storage \cup DOMAIN ledger.used \subseteq Utxos
    /\ next_block \in 0..(Height + 1) \cup {None}

\* The orders of a deposit only advance: none is added, dropped or changed,
\* and a status only goes from Created over Sent to Completed.
OrdersAdvance(os, os2) ==
    /\ DOMAIN os = DOMAIN os2
    /\ \A i \in DOMAIN os :
          /\ os2[i] = [os[i] EXCEPT !.st = os2[i].st]
          /\ <<os[i].st, os2[i].st>> \in
                {<<"Created", "Created">>, <<"Created", "Sent">>, <<"Sent", "Sent">>,
                 <<"Sent", "Completed">>}

DepositAdvances(p, q) ==
    \/ p.st \in Waiting
    \/ p.st = "MintOrdersCreated" /\ q.st \in {"MintOrdersCreated", "Minted"}
       /\ OrdersAdvance(p.orders, q.orders)

WithdrawalAdvances(p, q) ==
    <<p.st, q.st>> \in {<<"Scheduled", "TxSigned">>, <<"TxSigned", "TxSent">>}

\* An operation only moves forward.  A deposit that has mint orders never
\* waits for inputs again and keeps these orders, so that no task of the
\* request can sign another set; a withdrawal is signed and sent once.
\* Completed operations do not change.
OperationsMoveForward ==
    [][\A id \in Ops!Stored(store) \cap Ops!Stored(store') :
          LET p == Ops!get(store, id)
              q == Ops!get(store', id)
          IN  \/ p = q
              \/ p.type = "Deposit" /\ DepositAdvances(p, q)
              \/ p.type = "Withdrawal" /\ WithdrawalAdvances(p, q)]_vars

\* A deposit is reported as minted only when BFTBridge has executed every one
\* of its orders.
MintedIsExecuted ==
    \A id \in OperationsOf("Deposit") :
        LET p == Ops!get(store, id)
        IN  p.st = "Minted" =>
                \A i \in DOMAIN p.orders : <<p.user, p.orders[i].nonce>> \in executed

\* The canister has the infos of every rune that was minted: it has received
\* them from the indexer, so that a burn of the rune is a valid request.
MintedRunesKnown ==
    \A o \in orders : <<o.user, o.nonce>> \in executed => o.rune \in runes

\* A withdrawal is paid by at most one Bitcoin transaction, however often its
\* task is retried.
WithdrawalSentOnce ==
    \A tx1, tx2 \in txs : tx1.id = tx2.id => tx1 = tx2

\* What a recorded withdrawal has taken is not offered by the ledger to a
\* later one, not even after the daily task has looked at the used UTXOs: the
\* rune change of one transaction becomes an input of one other.  (The UTXOs at
\* the transit address of the user are taken without a look at the ledger, and
\* are taken again until Bitcoin has mined the first transaction.)
LedgerSpendsOnce ==
    \A tx \in txs : (\E t \in tasks : t.type = "Withdraw" /\ t.id = tx.id)
                    \/ tx.inputs \cap load_unspent_utxos(ledger) = {}

\* A deposit request does not wait for ever: it gets mint orders, or ends
\* when its time is over.  (Of a request made at the last tick of the model,
\* the time is never over.)
DepositsDecided ==
    \A id \in DepositIds :
        (/\ id \in OperationsOf("Deposit")
         /\ Ops!get(store, id).st \in Waiting
         /\ Ops!get(store, id).ts + RequestTimeout < MaxTime)
        ~> ~ (id \in OperationsOf("Deposit") /\ Ops!get(store, id).st \in Waiting)

\* The UTXOs that were used for the orders of one deposit request are not
\* used for another.
UtxosUsedOnce ==
    \A o1, o2 \in orders : o1.id # o2.id => o1.utxos \cap o2.utxos = {}
=============================================================================
