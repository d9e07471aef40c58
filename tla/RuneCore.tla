------------------------------ MODULE RuneCore ------------------------------
(***************************************************************************)
(* The state of the Rune bridge canister (rune-bridge/src), and the two    *)
(* chains it stands between: the EVM with BFTBridge, where wrapped runes   *)
(* are minted and burnt, and Bitcoin, where the runes are.                 *)
(*                                                                         *)
(* A UTXO is <<"deposit", n>>, or one of the two outputs that withdrawal   *)
(* operation n pays back: <<"rune", n>> to the change address of the       *)
(* canister and <<"btc", n>> to the transit address of the user, whom      *)
(* the model takes for the address.                                        *)
(***************************************************************************)
EXTENDS Integers, Sequences, FiniteSets, FiniteSetsExt, SequencesExt, UtxoLedger

CONSTANTS
    Users,
    None,              \* Option::None, or what does not decode
    Notified,          \* users named by deposit notifications; None: by no valid one
    Runes,
    DepositUtxos,      \* UTXOs that users pay to their transit addresses
    OwnerOf,           \* the user of each of them
    RunesIn,           \* the amount of each rune in them
    Requests,          \* amounts that deposit notifications name, or None
    Destinations,      \* what burns name as Bitcoin address
    ForeignAddresses,  \* those of another Bitcoin network
    Listings,          \* what the indexer may answer when asked for all runes
    Collectors,        \* collection tasks that may overlap
    Unreadable,        \* blocks for which a query of their logs may fail
    RequestTimeout,    \* request_timeout, in ticks
    ConfirmationTime,  \* min_confirmations * AVG_BLOCK_TIME, in ticks
    MaxLogSize,        \* of the operation store
    MaxTime,           \* bound on the clock
    MaxNotifications,  \* bound on the notifications among the events
    MaxNonces,         \* bound on the nonces of mint orders
    MaxEvents,         \* bound on the events of BFTBridge
    MaxOperations      \* bound on the operations of the canister

ASSUME DepositsAssumption ==
    /\ OwnerOf \in [DepositUtxos -> Users]
    /\ \A x \in DepositUtxos : /\ DOMAIN RunesIn[x] \subseteq Runes
                               /\ \A r \in DOMAIN RunesIn[x] : RunesIn[x][r] \in Nat \ {0}

VARIABLES
    \* BFTBridge and its chain: block n has the event events[n]
    events, executed, wrapped,
    \* Bitcoin: the state of every UTXO, and the withdrawals sent
    btc, txs,
    now,
    \* the canister
    next_block, collectors, store, tasks, runes, NONCE, ledger, cleaner,
    \* history: the orders ever stored with the UTXOs they were made for
    orders

evmVars == <<events, executed, wrapped>>
btcVars == <<btc, txs>>
vars == <<evmVars, btcVars, now, next_block, collectors, store, tasks, runes,
          NONCE, ledger, cleaner, orders>>

Utxos == DepositUtxos \cup ({"rune", "btc"} \X (0..(MaxOperations - 1)))

Height == Len(events)

-----------------------------------------------------------------------------
(* Operations.  A deposit is stored under its destination on the EVM, a    *)
(* withdrawal under the sender of the burn.                                *)

Deposit(st, user, amounts, ts) ==
    [type |-> "Deposit", st |-> st, user |-> user, dst |-> None,
     amounts |-> amounts, ts |-> ts, orders |-> <<>>]

Withdrawal(st, user, dst) ==
    [type |-> "Withdrawal", st |-> st, user |-> user, dst |-> dst,
     amounts |-> None, ts |-> 0, orders |-> <<>>]

Waiting == {"Scheduled", "WaitingForInputs", "WaitingForConfirmations"}

DepositComplete == {"NothingToDeposit", "InvalidAmounts", "Minted", "InternalError"}

DepositStatuses == Waiting \cup {"MintOrdersCreated"} \cup DepositComplete

WithdrawalComplete == {"TxSent", "InvalidRequest"}

WithdrawalStatuses == {"Scheduled", "TxSigned"} \cup WithdrawalComplete

OrderDetails == [rune : Runes, amount : Nat, nonce : Nat,
                 st : {"Created", "Sent", "Completed"}]

CompletePayloads ==
    LET Payloads(type, sts) ==
            [type : {type}, st : sts, user : Users \cup {None},
             dst : Destinations \cup {None}, amounts : Requests \cup {None},
             ts : Nat, orders : Seq(OrderDetails)]
    IN  Payloads("Deposit", DepositComplete)
        \cup Payloads("Withdrawal", WithdrawalComplete)

Ops == INSTANCE OperationStoreOps WITH Complete <- CompletePayloads

OperationsOf(type) == {id \in Ops!Stored(store) : Ops!get(store, id).type = type}

\* The store after operation id got status st.
Moved(id, st) == Ops!update(store, id, [Ops!get(store, id) EXCEPT !.st = st])

\* A task of an operation, or of the event of block id.  The other fields are
\* what it holds while it waits: UTXOs, mint orders, runes still to be signed.
Task(type, id, pc, utxos, os, left) ==
    [type |-> type, id |-> id, pc |-> pc, utxos |-> utxos, orders |-> os, left |-> left]

Queued(type, id) == Task(type, id, "queued", {}, <<>>, {})

Replace(t, new) == tasks' = (tasks \ {t}) \cup new

-----------------------------------------------------------------------------

\* The runes in a UTXO.  What a withdrawal leaves at a transit address has none.
RunesAt(x) == IF x \in DepositUtxos THEN DOMAIN RunesIn[x] ELSE {}

\* rune_amounts of get_mint_amounts: the amount of each rune in some UTXOs.
RuneAmounts(utxos) ==
    [r \in UNION {RunesAt(x) : x \in utxos} |->
        MapThenSumSet(LAMBDA x : RunesIn[x][r], {x \in utxos : r \in RunesAt(x)})]

Idle == [pc |-> "idle", snap |-> 0]

Init ==
    /\ events = <<>> /\ executed = {}
    /\ wrapped = [u \in Users |-> [r \in Runes |-> 0]]
    /\ btc = [x \in Utxos |-> "absent"]
    /\ txs = {}
    /\ now = 0
    /\ next_block = None
    /\ collectors = [c \in Collectors |-> Idle]
    /\ store = Ops!with_memory
    /\ tasks = {Queued("InitEvmState", 0)}
    /\ runes = {} /\ NONCE = 0 /\ ledger = EmptyLedger /\ cleaner = {}
    /\ orders = {}

-----------------------------------------------------------------------------
(* The EVM.                                                                *)

Event(type, user, dst, amounts, rune, nonce) ==
    [type |-> type, user |-> user, dst |-> dst, amounts |-> amounts,
     rune |-> rune, nonce |-> nonce]

Emit(e) == Height < MaxEvents /\ events' = Append(events, e)

canisterUnchanged == UNCHANGED <<next_block, collectors, store, tasks, runes, NONCE,
                                 ledger, cleaner, orders>>

\* BFTBridge.notifyMinter, with a deposit request for user u, or with data
\* of no known type or that does not decode (None).
NotifyMinter(u, amounts) ==
    /\ Len(SelectSeq(events, LAMBDA e : e.type = "Notify")) < MaxNotifications
    /\ Emit(Event("Notify", u, None, amounts, None, 0))
    /\ UNCHANGED <<executed, wrapped, btcVars, now>>
    /\ canisterUnchanged

\* BFTBridge.burn.
Burn(u, r, dst) ==
    /\ wrapped[u][r] > 0
    /\ Emit(Event("Burnt", u, dst, None, r, 0))
    /\ wrapped' = [wrapped EXCEPT ![u][r] = @ - 1]
    /\ UNCHANGED <<executed, btcVars, now>>
    /\ canisterUnchanged

\* BFTBridge.mint, in a transaction of the canister or of a user who has read
\* the order from the list of operations.
ExecuteOrder(o) ==
    /\ <<o.user, o.nonce>> \notin executed
    /\ Emit(Event("Minted", o.user, None, None, o.rune, o.nonce))
    /\ executed' = executed \cup {<<o.user, o.nonce>>}
    /\ wrapped' = [wrapped EXCEPT ![o.user][o.rune] = @ + o.amount]
    /\ UNCHANGED <<btcVars, now>>
    /\ canisterUnchanged

-----------------------------------------------------------------------------
(* Bitcoin and time.                                                       *)

\* A UTXO at a transit address is in a block, and after min_confirmations
\* blocks confirmed.
Pay(x) == /\ x \in DepositUtxos
          /\ btc[x] = "absent"
          /\ btc' = [btc EXCEPT ![x] = "mined"]
          /\ UNCHANGED <<evmVars, txs, now>>
          /\ canisterUnchanged

\* (Nothing asks for the confirmations of the rune change.)
Confirm(x) == /\ btc[x] = "mined" /\ x[1] # "rune"
              /\ btc' = [btc EXCEPT ![x] = "confirmed"]
              /\ UNCHANGED <<evmVars, txs, now>>
              /\ canisterUnchanged

\* A transaction is mined only while all its inputs are unspent outputs.
MineTx(tx) ==
    /\ \A x \in tx.inputs : btc[x] \in {"mined", "confirmed"}
    /\ btc' = [x \in Utxos |->
                 IF x \in tx.inputs THEN "spent"
                 ELSE IF x \in {"rune", "btc"} \X {tx.id} THEN "mined" ELSE btc[x]]
    /\ UNCHANGED <<evmVars, txs, now>>
    /\ canisterUnchanged

Tick == /\ now < MaxTime
        /\ now' = now + 1
        /\ UNCHANGED <<evmVars, btcVars>>
        /\ canisterUnchanged

\* bitcoin_get_utxos for the transit address of user u.
UtxosAt(u) == {x \in Utxos : /\ btc[x] \in {"mined", "confirmed"}
                             /\ \/ x \in DepositUtxos /\ OwnerOf[x] = u
                                \/ \E tx \in txs : tx.user = u /\ x = <<"btc", tx.id>>}
=============================================================================
