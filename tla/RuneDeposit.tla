---------------------------- MODULE RuneDeposit ----------------------------
(***************************************************************************)
(* Deposits of the Rune bridge (rune-bridge/src/core/deposit.rs): task     *)
(* Deposit, which drives one request from the UTXOs at its transit address *)
(* to mint orders sent to the EVM, and task RemoveMintOrder.               *)
(*                                                                         *)
(* A task runs without interruption between two awaits; it waits in pc     *)
(*   utxos    for the UTXOs of the transit address                         *)
(*   amounts  for the runes in these UTXOs                                 *)
(*   indexer  for the list of all runes                                    *)
(*   sign     for the signature of the last of its orders                  *)
(*   send     for the EVM to take its first order that is not tried.       *)
(* An order can be executed as soon as it is stored, whoever sends it.     *)
(***************************************************************************)
EXTENDS RuneCore

outsideUnchanged == UNCHANGED <<evmVars, btcVars, now, next_block, collectors, cleaner>>

payload(t) == Ops!get(store, t.id)

Reschedule(t) == Replace(t, {Queued("Deposit", t.id)})

\* Mutant: the timeout is counted from now on.
is_request_timed_out_never(p) == now > now + RequestTimeout

is_request_timed_out(p) == now > p.ts + RequestTimeout

\* The request is tried again later, or ends in the given status.
wait_for_inputs(t, bail_status) ==
    IF is_request_timed_out(payload(t))
    THEN store' = Moved(t.id, bail_status) /\ Replace(t, {})
    ELSE store' = Moved(t.id, "WaitingForInputs") /\ Reschedule(t)

\* No timeout applies while UTXOs wait for confirmations.
wait_for_confirmations(t) ==
    store' = Moved(t.id, "WaitingForConfirmations") /\ Reschedule(t)

\* A request for which there is a task is waiting: it has no other task.
process_deposit_request(t) ==
    /\ t.pc = "queued"
    /\ Replace(t, {Task(t.type, t.id, "utxos", {}, <<>>, {})})
    /\ UNCHANGED <<store, runes, NONCE, ledger, orders>>
    /\ outsideUnchanged

\* The comparison is with the unspent UTXOs of the ledger.
filter_out_used_utxos(utxos) == utxos \ load_unspent_utxos(ledger)

get_deposit_utxos(u) == filter_out_used_utxos(UtxosAt(u))

validate_utxo_confirmations(utxos) == \A x \in utxos : btc[x] = "confirmed"

\* The UTXOs arrive.
DepositUtxosAnswer(t) ==
    LET utxos == get_deposit_utxos(payload(t).user)
    IN  /\ t.pc = "utxos"
        /\ \/ utxos = {} /\ wait_for_inputs(t, "NothingToDeposit")
           \/ /\ utxos # {} /\ ~ validate_utxo_confirmations(utxos)
              /\ wait_for_confirmations(t)
           \/ /\ utxos # {} /\ validate_utxo_confirmations(utxos)
              /\ Replace(t, {[t EXCEPT !.pc = "amounts", !.utxos = utxos]})
              /\ UNCHANGED store
        /\ UNCHANGED <<runes, NONCE, ledger, orders>>
        /\ outsideUnchanged

\* Mutant: the request waits again when an order cannot be sent, too.
DepositErr_any(t) ==
    /\ t.pc \in {"utxos", "amounts", "indexer", "sign", "send"}
    /\ wait_for_inputs(t, "InternalError")
    /\ UNCHANGED <<runes, NONCE, ledger, orders>>
    /\ outsideUnchanged

\* A call fails before the orders are signed.
DepositErr(t) ==
    /\ t.pc \in {"utxos", "amounts", "indexer", "sign"}
    /\ wait_for_inputs(t, "InternalError")
    /\ UNCHANGED <<runes, NONCE, ledger, orders>>
    /\ outsideUnchanged

used_utxos(t) == {x \in t.utxos : RunesAt(x) # {}}

has_used_utxos(t) == used_utxos(t) \cap load_unspent_utxos(ledger) # {}

AmountsOk(t) == /\ DOMAIN RuneAmounts(t.utxos) # {}
                /\ payload(t).amounts \in {None, RuneAmounts(t.utxos)}

Order(t, r) == [rune |-> r, amount |-> RuneAmounts(t.utxos)[r], nonce |-> NONCE, st |-> "Created"]

get_nonce == NONCE < MaxNonces /\ NONCE' = NONCE + 1

\* create_mint_orders goes on with the order for one of the runes left: its
\* nonce is taken, and then it is signed.
SignNext(t, left) ==
    \E r \in left :
        /\ get_nonce
        /\ Replace(t, {[t EXCEPT !.pc = "sign", !.left = left \ {r},
                                 !.orders = Append(@, Order(t, r))]})
        /\ UNCHANGED <<store, ledger, orders>>

\* The rune infos are there.
CreateMintOrders(t) ==
    IF has_used_utxos(t)
    THEN wait_for_inputs(t, "InternalError") /\ UNCHANGED <<NONCE, ledger, orders>>
    ELSE SignNext(t, DOMAIN RuneAmounts(t.utxos))

\* The runes in the UTXOs arrive.  The rune infos are in the state, or the
\* indexer is asked for them.
DepositAmountsAnswer(t) ==
    /\ t.pc = "amounts"
    /\ \/ /\ ~ AmountsOk(t)
          /\ wait_for_inputs(t, "InternalError")
          /\ UNCHANGED <<NONCE, ledger, orders>>
       \/ /\ AmountsOk(t) /\ DOMAIN RuneAmounts(t.utxos) \subseteq runes
          /\ CreateMintOrders(t)
       \/ /\ AmountsOk(t) /\ ~ (DOMAIN RuneAmounts(t.utxos) \subseteq runes)
          /\ Replace(t, {[t EXCEPT !.pc = "indexer"]})
          /\ UNCHANGED <<store, NONCE, ledger, orders>>
    /\ UNCHANGED runes
    /\ outsideUnchanged

\* The list of the indexer replaces the one in the state.
update_rune_list(listing) == listing

\* What the indexer may answer; only its first page is asked for.
get_rune_list == Listings

fill_rune_infos_from_indexer(t, listing) ==
    /\ t.pc = "indexer"
    /\ IF DOMAIN RuneAmounts(t.utxos) \subseteq listing
       THEN runes' = update_rune_list(listing) /\ CreateMintOrders(t)
       ELSE /\ wait_for_inputs(t, "InternalError")
            /\ UNCHANGED <<runes, NONCE, ledger, orders>>
    /\ outsideUnchanged

mark_used_utxos(t) == ledger' = mark_as_used(ledger, used_utxos(t), payload(t).user, now)

\* The request has its orders: they are stored, the UTXOs marked as used and
\* the loop of process_deposit_request goes on to send the orders.
MintOrdersCreated(t) ==
    LET p == payload(t)
    IN  /\ store' = Ops!update(store, t.id, [p EXCEPT !.st = "MintOrdersCreated",
                                                      !.orders = t.orders])
        /\ mark_used_utxos(t)
        /\ orders' = orders \cup {[id |-> t.id, user |-> p.user, rune |-> o.rune,
                                   amount |-> o.amount, nonce |-> o.nonce,
                                   utxos |-> used_utxos(t)] : o \in Range(t.orders)}
        /\ Replace(t, {[t EXCEPT !.pc = "send", !.left = DOMAIN t.orders, !.utxos = {}]})
        /\ UNCHANGED NONCE

\* A signature arrives.
DepositSigned(t) ==
    /\ t.pc = "sign"
    /\ IF t.left # {} THEN SignNext(t, t.left) ELSE MintOrdersCreated(t)
    /\ UNCHANGED runes
    /\ outsideUnchanged

-----------------------------------------------------------------------------
(* Orders are sent in turn; left has the positions of those to be tried.   *)

First(t) == CHOOSE i \in t.left : \A j \in t.left : i <= j

\* After the last order the request gets the new order statuses, if any of
\* them has changed.  Nothing schedules another try for the rest.
OrderTried(t, os) ==
    LET left == t.left \ {First(t)}
    IN  /\ IF left # {}
           THEN /\ Replace(t, {[t EXCEPT !.pc = "send", !.left = left, !.orders = os]})
                /\ UNCHANGED store
           ELSE /\ store' = Ops!update(store, t.id,
                               [payload(t) EXCEPT !.st = "MintOrdersCreated", !.orders = os])
                /\ Replace(t, {})
        /\ UNCHANGED <<runes, NONCE, ledger, orders>>
        /\ outsideUnchanged

send_mint_order(t) == /\ t.pc = "send"
                      /\ OrderTried(t, [t.orders EXCEPT ![First(t)].st = "Sent"])

\* The call fails, before or after the EVM took the transaction.
send_mint_order_err(t) == t.pc = "send" /\ OrderTried(t, t.orders)

-----------------------------------------------------------------------------
(* Task RemoveMintOrder: the Minted event of a block.                      *)

\* The orders after the event for an order nonce.
Completed(os, nonce) ==
    [i \in DOMAIN os |-> IF os[i].st = "Sent" /\ os[i].nonce = nonce
                         THEN [os[i] EXCEPT !.st = "Completed"] ELSE os[i]]

AwaitsNonce(id, nonce) ==
    LET p == Ops!get(store, id)
    IN  /\ p.type = "Deposit" /\ p.st = "MintOrdersCreated"
        /\ Completed(p.orders, nonce) # p.orders

\* Mutant: the request is complete with its first order.
AllCompleted_any(os) == \E i \in DOMAIN os : os[i].st = "Completed"

AllCompleted(os) == \A i \in DOMAIN os : os[i].st = "Completed"

\* The first request of the wallet that has sent the order is minted when
\* all its orders are completed.  If they are not, the payload is written
\* back as it was: the completed order is not recorded.
complete_mint_request(t) ==
    LET e == events[t.id]
        ids == {id \in Ops!get_for_address(store, e.user) : AwaitsNonce(id, e.nonce)}
        id == CHOOSE i \in ids : \A j \in ids : i <= j
        os == Completed(Ops!get(store, id).orders, e.nonce)
    IN  /\ store' = IF ids # {} /\ AllCompleted(os)
                    THEN Ops!update(store, id, [Ops!get(store, id) EXCEPT
                                                  !.st = "Minted", !.orders = os])
                    ELSE store
        /\ Replace(t, {})
        /\ UNCHANGED <<runes, NONCE, ledger, orders>>
        /\ outsideUnchanged

\* Method get_rune_balances: asked for a transit address, it may bring the
\* list of runes into the state.
get_rune_balances(u, listing) ==
    LET found == UNION {RunesAt(x) : x \in get_deposit_utxos(u)}
    IN  /\ found # {} /\ ~ (found \subseteq runes) /\ found \subseteq listing
        /\ runes' = update_rune_list(listing)
        /\ UNCHANGED <<tasks, store, NONCE, ledger, orders>>
        /\ outsideUnchanged

ExecuteDeposit(t) == \/ process_deposit_request(t)
                     \/ DepositUtxosAnswer(t)
                     \/ DepositErr(t)
                     \/ DepositAmountsAnswer(t)
                     \/ \E listing \in get_rune_list : fill_rune_infos_from_indexer(t, listing)
                     \/ DepositSigned(t)
                     \/ send_mint_order(t)
                     \/ send_mint_order_err(t)
=============================================================================
