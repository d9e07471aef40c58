--------------------------- MODULE RuneWithdrawal ---------------------------
(***************************************************************************)
(* Withdrawals of the Rune bridge (rune-bridge/src/core/withdrawal.rs):    *)
(* task Withdraw, which pays a burn with a Bitcoin transaction, and        *)
(* RemoveUsedUtxosTask (task.rs), which once a day looks at the UTXOs that *)
(* were marked as used.                                                    *)
(*                                                                         *)
(* Task Withdraw waits in pc                                               *)
(*   inputs  for the UTXOs of the user's transit address                   *)
(*   build   for the fee rate and the signatures                           *)
(*   send    for Bitcoin to take the transaction, and                      *)
(*   sent    for the answer.                                               *)
(* What a withdrawal takes from Bitcoin is not compared with its amount:   *)
(* whether the inputs suffice is for the transaction builder (external).   *)
(***************************************************************************)
EXTENDS RuneDeposit

withdrawalUnchanged == UNCHANGED <<evmVars, btc, now, next_block, collectors, runes,
                                   NONCE, cleaner, orders>>

\* Mutant: a withdrawal whose transaction is signed is started again.
CanWithdraw_again(p) == p.st \in {"Scheduled", "TxSigned"}

CanWithdraw(p) == p.st = "Scheduled"

\* The task fails, and is queued again, unless the operation is scheduled.
\* (An invalid request has no address, and the task traps.)  The unspent
\* UTXOs of the ledger are read before the first await.
withdraw(t) ==
    /\ t.pc = "queued"
    /\ t.id \in Ops!Stored(store) /\ CanWithdraw(payload(t))
    /\ Replace(t, {[t EXCEPT !.pc = "inputs", !.utxos = load_unspent_utxos(ledger)]})
    /\ UNCHANGED <<txs, store, ledger>>
    /\ withdrawalUnchanged

\* The UTXOs of the transit address arrive, and all of them become inputs
\* with those of the ledger.
FundingUtxosAnswer(t) ==
    LET inputs == t.utxos \cup UtxosAt(payload(t).user)
    IN  /\ t.pc = "inputs"
        /\ inputs # {}
        /\ Replace(t, {[t EXCEPT !.pc = "build", !.utxos = inputs]})
        /\ UNCHANGED <<txs, store, ledger>>
        /\ withdrawalUnchanged

\* build_withdraw_transaction returns.
TxSigned(t) ==
    /\ t.pc = "build"
    /\ store' = Moved(t.id, "TxSigned")
    /\ Replace(t, {[t EXCEPT !.pc = "send"]})
    /\ UNCHANGED <<txs, ledger>>
    /\ withdrawalUnchanged

\* Bitcoin takes the transaction.
send_tx(t) ==
    /\ t.pc = "send"
    /\ txs' = txs \cup {[id |-> t.id, user |-> payload(t).user, inputs |-> t.utxos,
                         sent |-> Cardinality({tx \in txs : tx.id = t.id})]}
    /\ Replace(t, {[t EXCEPT !.pc = "sent"]})
    /\ UNCHANGED <<store, ledger>>
    /\ withdrawalUnchanged

\* The inputs are used, on behalf of the destination, and the rune change is
\* a new UTXO of the ledger.
Recorded(t) ==
    deposit(mark_as_used(ledger, t.utxos, payload(t).dst, now), {<<"rune", t.id>>})

\* The canister sees that Bitcoin took it.
TxSent(t) ==
    /\ t.pc = "sent"
    /\ ledger' = Recorded(t)
    /\ store' = Moved(t.id, "TxSent")
    /\ Replace(t, {})
    /\ UNCHANGED txs
    /\ withdrawalUnchanged

\* A call of the task fails, that for sending before or after Bitcoin took
\* the transaction, or there are no inputs, and the task is queued again.  A
\* signed operation stays signed.
WithdrawErr(t) ==
    /\ t.pc \in {"inputs", "build", "send", "sent"}
    /\ Replace(t, {Queued(t.type, t.id)})
    /\ UNCHANGED <<txs, store, ledger>>
    /\ withdrawalUnchanged

ExecuteWithdraw(t) == \/ withdraw(t)
                      \/ FundingUtxosAnswer(t)
                      \/ TxSigned(t)
                      \/ send_tx(t)
                      \/ TxSent(t)
                      \/ WithdrawErr(t)

-----------------------------------------------------------------------------
(* RemoveUsedUtxosTask.  cleaner has the entries that it still has to ask  *)
(* about; the owners are asked one after the other.                        *)

cleanerUnchanged == UNCHANGED <<evmVars, btcVars, now, next_block, collectors, store,
                                tasks, runes, NONCE, orders>>

utxos_to_check == {e \in load_used_utxos(ledger) : e.used_at + ConfirmationTime <= now}

Keys(entries) == {e.key : e \in entries}

\* Entries whose owner is not an address of the network are removed at once.
RemoveUsedUtxosStart ==
    LET foreign == {e \in utxos_to_check : e.owner \in ForeignAddresses}
    IN  /\ cleaner = {} /\ utxos_to_check # {}
        /\ ledger' = remove_spent_utxo(ledger, Keys(foreign))
        /\ cleaner' = utxos_to_check \ foreign
        /\ cleanerUnchanged

\* get_owner_utxos: the confirmed UTXOs of an address.  Destinations have none
\* of those that the canister uses.
get_owner_utxos(owner) ==
    IF owner \in Users THEN {x \in UtxosAt(owner) : btc[x] = "confirmed"} ELSE {}

\* Mutant: spent and unspent are confused.
remove_used_utxo_swapped(l, keys, owner_utxos) ==
    remove_unspent_utxo(remove_spent_utxo(l, keys \cap owner_utxos), keys \ owner_utxos)

\* What the owner still has is available again, the rest is spent.
remove_used_utxo(l, keys, owner_utxos) ==
    remove_unspent_utxo(remove_spent_utxo(l, keys \ owner_utxos), keys \cap owner_utxos)

RemoveUsedUtxosAnswer(owner) ==
    LET entries == {e \in cleaner : e.owner = owner}
    IN  /\ entries # {}
        /\ ledger' = remove_used_utxo(ledger, Keys(entries), get_owner_utxos(owner))
        /\ cleaner' = cleaner \ entries
        /\ cleanerUnchanged

\* The call for an owner fails.
RemoveUsedUtxosErr(owner) ==
    /\ \E e \in cleaner : e.owner = owner
    /\ cleaner' = {e \in cleaner : e.owner # owner}
    /\ UNCHANGED ledger
    /\ cleanerUnchanged

RemoveUsedUtxos == \/ RemoveUsedUtxosStart
                   \/ \E owner \in {e.owner : e \in cleaner} :
                         RemoveUsedUtxosAnswer(owner) \/ RemoveUsedUtxosErr(owner)
=============================================================================
