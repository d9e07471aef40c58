-------------------------- MODULE BtcBridgeProofs --------------------------
(***************************************************************************)
(* Proofs about BtcBridge, for any users, UTXOs, burns, overlapping        *)
(* collections and number of events.                                       *)
(***************************************************************************)
EXTENDS BtcBridge, FiniteSetTheorems, TLAPS

Recipients == {b.recipient : b \in Burns} \cup {None}

EventSet == [type : {"Burnt", "Notify", "Minted"}, user : Users, recipient : Recipients,
             amount : Int, nonce : Nat]

OrderSet == [utxo : Utxos, user : Users, nonce : Nat, amount : Int]

Pcs == {"queued", "query", "params", "balance", "transfer", "account", "retrieve"}

TaskSet == [type : TaskTypes, user : Users \cup {None}, id : 0..MaxEvents, pc : Pcs,
            snap : Nat, utxos : SUBSET Utxos]

CollectorSet == [pc : {"idle", "logs", "params"}, snap : Nat]

PcOfType(t) == /\ t.pc \in {"balance", "transfer"} => t.type = "Call"
               /\ t.pc \in {"account", "retrieve"} => t.type = "MintBtc"

TInv == /\ events \in Seq(EventSet) /\ Height <= MaxEvents
        /\ orders \subseteq OrderSet
        /\ height_of \in [Utxos -> Nat]
        /\ next_block \in Nat \cup {None}
        /\ collectors \in [Collectors -> CollectorSet]
        /\ handled \in [1..MaxEvents -> Nat] /\ paid \in [1..MaxEvents -> Nat]
        /\ tasks \subseteq TaskSet /\ \A t \in tasks : PcOfType(t)

LEMMA InitTInv == Init => TInv
  BY BtcAssumption DEF Init, TInv, Height, Idle, CollectorSet, Queued, Task, TaskSet, Pcs,
     TaskTypes, PcOfType

(* The tasks that the canister creates are tasks. *)
LEMMA NewTasks ==
  ASSUME NEW type \in TaskTypes, NEW u \in Users \cup {None}, NEW id \in 0..MaxEvents,
         NEW n \in Nat
  PROVE  /\ Queued(type, u, id, n) \in TaskSet /\ PcOfType(Queued(type, u, id, n))
         /\ Call(u) \in TaskSet /\ PcOfType(Call(u))
<1>1. Queued(type, u, id, n) \in TaskSet /\ PcOfType(Queued(type, u, id, n))
  BY DEF Queued, Task, TaskSet, Pcs, PcOfType
<1>2. Call(u) \in TaskSet /\ PcOfType(Call(u))
  BY BtcAssumption DEF Call, Task, TaskSet, Pcs, TaskTypes, PcOfType
<1>. QED  BY <1>1, <1>2

(* The contract appends well-formed events. *)
LEMMA EventsTyped ==
  ASSUME TInv,
         \/ \E u \in Users, b \in Burns : Burn(u, b.amount, b.recipient)
         \/ \E u \in Notifiers : NotifyMinter(u)
         \/ \E o \in orders : ExecuteOrder(o)
  PROVE  events' \in Seq(EventSet) /\ Height' = Height + 1 /\ Height' <= MaxEvents
<1>1. Height \in Nat
  BY DEF TInv, Height
<1>2. Cardinality(BurntEvents) \in Nat
  <2>1. BurntEvents \subseteq 1..Height
    BY DEF BurntEvents
  <2>2. IsFiniteSet(1..Height)
    BY <1>1, FS_Interval
  <2>3. IsFiniteSet(BurntEvents)
    BY <2>1, <2>2, FS_Subset, Zenon
  <2>. QED  BY <2>3, FS_CardinalityType
<1>3. ASSUME NEW e \in EventSet, Emit(e)
      PROVE  events' \in Seq(EventSet) /\ Height' = Height + 1 /\ Height' <= MaxEvents
  BY <1>1, <1>3, BtcAssumption DEF Emit, TInv, Height
<1>4. CASE \E u \in Users, b \in Burns : Burn(u, b.amount, b.recipient)
  <2>1. PICK u \in Users, b \in Burns : Burn(u, b.amount, b.recipient)
    BY <1>4, Zenon
  <2>2. Event("Burnt", u, b.recipient, b.amount, Cardinality(BurntEvents)) \in EventSet
    BY <1>2, BtcAssumption DEF Event, EventSet, Recipients
  <2>. QED  BY <1>3, <2>1, <2>2 DEF Burn
<1>5. CASE \E u \in Notifiers : NotifyMinter(u)
  <2>1. PICK u \in Users : NotifyMinter(u)
    BY <1>5, BtcAssumption, Zenon
  <2>2. Event("Notify", u, None, 0, 0) \in EventSet
    BY DEF Event, EventSet, Recipients
  <2>. QED  BY <1>3, <2>1, <2>2, Zenon DEF NotifyMinter
<1>6. CASE \E o \in orders : ExecuteOrder(o)
  <2>1. PICK o \in OrderSet : ExecuteOrder(o)
    BY <1>6 DEF TInv
  <2>2. Event("Minted", o.user, None, o.amount, o.nonce) \in EventSet
    BY DEF Event, EventSet, Recipients, OrderSet
  <2>. QED  BY <1>3, <2>1, <2>2, Zenon DEF ExecuteOrder
<1>. QED  BY <1>4, <1>5, <1>6

(* What is left of a call of btc_to_erc20 is that call. *)
LEMMA RemainingTyped ==
  ASSUME NEW t \in TaskSet, t.type = "Call", NEW left \in SUBSET Utxos,
         NEW r \in Remaining(t, left)
  PROVE  r \in TaskSet /\ PcOfType(r) /\ r.type = "Call"
  BY ZenonT(60) DEF Remaining, TaskSet, Pcs, PcOfType

(* A task that goes on keeps its type and what it is about. *)
LEMMA MovedTyped ==
  ASSUME NEW t \in TaskSet, NEW pc \in Pcs,
         pc \in {"account", "retrieve"} => t.type = "MintBtc",
         pc \notin {"balance", "transfer"}
  PROVE  LET r == [t EXCEPT !.pc = pc]
         IN  r \in TaskSet /\ PcOfType(r) /\ r.type = t.type /\ r.id = t.id /\ r.pc = pc
  BY DEF TaskSet, PcOfType

LEMMA SnapTyped ==
  ASSUME NEW t \in TaskSet, NEW pc \in {"query", "params"}, NEW n \in Nat
  PROVE  LET r == [t EXCEPT !.pc = pc, !.snap = n]
         IN  /\ r \in TaskSet /\ PcOfType(r) /\ r.type = t.type /\ r.id = t.id
             /\ r.pc = pc /\ r.snap = n
  BY Zenon DEF TaskSet, PcOfType, Pcs

TasksOK == tasks \subseteq TaskSet /\ \A t \in tasks : PcOfType(t)

(* Every step of a task leaves tasks behind. *)
LEMMA ReplaceTyped ==
  ASSUME TasksOK, NEW t, NEW new, Replace(t, new),
         \A r \in new : r \in TaskSet /\ PcOfType(r)
  PROVE  TasksOK'
  BY DEF TasksOK, Replace

LEMMA BalanceTyped ==
  ASSUME TInv, NEW t \in TaskSet, PcOfType(t),
         UpdateBalanceOk(t) \/ NoNewUtxos(t) \/ UpdateBalanceErr(t)
  PROVE  TasksOK'
<1>. USE DEF TInv
<1>1. TasksOK /\ t.type = "Call" /\ t.user \in Users \cup {None}
  BY DEF TasksOK, PcOfType, UpdateBalanceOk, NoNewUtxos, UpdateBalanceErr, TaskSet
<1>2. CASE UpdateBalanceOk(t)
  <2>1. PICK minted \in SUBSET Utxos : Replace(t, Remaining(t, minted))
    <3>1. PICK outcome \in [InState(t.user, "confirmed") -> Outcomes] :
             Replace(t, Remaining(t, {x \in InState(t.user, "confirmed") :
                                         outcome[x] = "Minted"}))
      BY <1>2, Zenon DEF UpdateBalanceOk
    <3>2. InState(t.user, "confirmed") \subseteq Utxos
      BY DEF InState
    <3>. QED  BY <3>1, <3>2
  <2>2. \A r \in Remaining(t, minted) : r \in TaskSet /\ PcOfType(r)
    BY <1>1, RemainingTyped, Zenon
  <2>. QED  BY <1>1, <2>1, <2>2, ReplaceTyped
<1>3. CASE NoNewUtxos(t)
  <2>1. Queued("MintErc20", t.user, 0, 0) \in TaskSet
        /\ PcOfType(Queued("MintErc20", t.user, 0, 0))
    BY <1>1, NewTasks, BtcAssumption DEF TaskTypes
  <2>2. PICK new \in SUBSET {Queued("MintErc20", t.user, 0, 0)} : Replace(t, new)
    BY <1>3 DEF NoNewUtxos
  <2>. QED  BY <1>1, <2>1, <2>2, ReplaceTyped, Zenon
<1>4. CASE UpdateBalanceErr(t)
  BY <1>1, <1>4, ReplaceTyped DEF UpdateBalanceErr
<1>. QED  BY <1>2, <1>3, <1>4

LEMMA TransferTyped ==
  ASSUME TInv, NEW t \in tasks, NEW x \in t.utxos,
         MintErc20Transfer(t, x) \/ MintErc20TransferErr(t, x)
  PROVE  TasksOK' /\ orders' \subseteq OrderSet
<1>. USE DEF TInv
<1>1. TasksOK /\ t \in TaskSet /\ t.type = "Call" /\ t.utxos \in SUBSET Utxos /\ x \in Utxos
  BY Zenon DEF TasksOK, PcOfType, MintErc20Transfer, MintErc20TransferErr, TaskSet
<1>2. Replace(t, Remaining(t, t.utxos \ {x}))
  BY Zenon DEF MintErc20Transfer, MintErc20TransferErr
<1>3. \A r \in Remaining(t, t.utxos \ {x}) : r \in TaskSet /\ PcOfType(r)
  BY <1>1, RemainingTyped, Zenon
<1>4. Order(x) \in OrderSet
  BY <1>1, BtcAssumption DEF Order, OrderSet
<1>5. orders' \subseteq OrderSet
  BY <1>4, Zenon DEF MintErc20Transfer, MintErc20TransferErr, bridgeUnchanged
<1>. QED  BY <1>1, <1>2, <1>3, <1>5, ReplaceTyped, Zenon

LEMMA TaskTyped ==
  ASSUME TInv, NEW t \in tasks, Execute(t)
  PROVE  TasksOK'
<1>. USE DEF TInv
<1>1. /\ TasksOK /\ t \in TaskSet /\ PcOfType(t) /\ t.user \in Users \cup {None}
      /\ t.type \in TaskTypes /\ t.id \in 0..MaxEvents
      /\ 0 \in 0..MaxEvents /\ Height \in Nat
  BY BtcAssumption DEF TasksOK, TaskSet, Height
<1>2. CASE init_evm_state_start(t)
  <2>. DEFINE r == [t EXCEPT !.pc = "query", !.snap = Height]
  <2>1. r \in TaskSet /\ PcOfType(r)
    BY <1>1, SnapTyped, Zenon
  <2>. QED  BY <1>1, <1>2, <2>1, ReplaceTyped DEF init_evm_state_start
<1>3. CASE init_evm_state_err(t) \/ MintErc20Err(t)
  <2>1. Queued(t.type, None, 0, 0) \in TaskSet /\ PcOfType(Queued(t.type, None, 0, 0))
    BY <1>1, NewTasks, Zenon
  <2>2. Queued(t.type, t.user, 0, 0) \in TaskSet /\ PcOfType(Queued(t.type, t.user, 0, 0))
    BY <1>1, NewTasks, Zenon
  <2>. QED  BY <1>1, <1>3, <2>1, <2>2, ReplaceTyped, Zenon DEF init_evm_state_err, MintErc20Err
<1>4. CASE init_evm_state(t) \/ remove_mint_order(t) \/ MintBtcRetrieve(t)
  <2>1. Replace(t, {})
    BY <1>4 DEF init_evm_state, remove_mint_order, MintBtcRetrieve
  <2>. QED  BY <1>1, <2>1, ReplaceTyped
<1>5. CASE MintErc20Start(t)
  <2>1. Call(t.user) \in TaskSet /\ PcOfType(Call(t.user))
    BY <1>1, NewTasks
  <2>2. ASSUME next_block # None
        PROVE  /\ [t EXCEPT !.pc = "params", !.snap = next_block] \in TaskSet
               /\ PcOfType([t EXCEPT !.pc = "params", !.snap = next_block])
    BY <1>1, <2>2, SnapTyped, Zenon
  <2>. QED  BY <1>1, <1>5, <2>1, <2>2, ReplaceTyped DEF MintErc20Start
<1>6. CASE MintErc20Params(t)
  <2>1. Call(t.user) \in TaskSet /\ PcOfType(Call(t.user))
    BY <1>1, NewTasks
  <2>. QED  BY <1>1, <1>6, <2>1, ReplaceTyped, Zenon DEF MintErc20Params
<1>7. CASE UpdateBalanceOk(t) \/ NoNewUtxos(t) \/ UpdateBalanceErr(t)
  BY <1>1, <1>7, BalanceTyped, Zenon
<1>8. CASE \E x \in t.utxos : MintErc20Transfer(t, x) \/ MintErc20TransferErr(t, x)
  BY <1>8, TransferTyped, Zenon
<1>9. CASE burn_ckbtc(t)
  <2>. DEFINE r == [t EXCEPT !.pc = "account"]
  <2>1. r \in TaskSet /\ PcOfType(r)
    BY <1>1, <1>9, MovedTyped, ZenonT(60) DEF burn_ckbtc, Pcs, PcOfType
  <2>2. Replace(t, {r})
    BY <1>9 DEF burn_ckbtc
  <2>. HIDE DEF r
  <2>. QED  BY <1>1, <2>1, <2>2, Zenon DEF Replace, TasksOK
<1>10. CASE MintBtcTransfer(t)
  <2>. DEFINE r == [t EXCEPT !.pc = "retrieve"]
  <2>1. r \in TaskSet /\ PcOfType(r)
    BY <1>1, <1>10, MovedTyped, ZenonT(60) DEF MintBtcTransfer, Pcs, PcOfType
  <2>2. Replace(t, {r})
    BY <1>10 DEF MintBtcTransfer
  <2>. HIDE DEF r
  <2>. QED  BY <1>1, <2>1, <2>2 DEF Replace, TasksOK
<1>11. CASE MintBtcErr(t)
  <2>. DEFINE r == [t EXCEPT !.pc = "queued"]
  <2>1. r \in TaskSet /\ PcOfType(r)
    BY <1>1, <1>11, MovedTyped, ZenonT(60) DEF MintBtcErr, Pcs, PcOfType
  <2>2. Replace(t, {r})
    BY <1>11 DEF MintBtcErr
  <2>. HIDE DEF r
  <2>. QED  BY <1>1, <2>1, <2>2 DEF Replace, TasksOK
<1>. QED  BY <1>2, <1>3, <1>4, <1>5, <1>6, <1>7, <1>8, <1>9, <1>10, <1>11, Zenon DEF Execute

(* A collection adds the tasks of its blocks, and counts them. *)
LEMMA CollectTyped ==
  ASSUME TInv, NEW c \in Collectors, NEW height \in 0..Height, NEW skipped,
         CollectLogs(c, height, skipped)
  PROVE  /\ TasksOK'
         /\ handled' \in [1..MaxEvents -> Nat]
         /\ next_block' \in Nat /\ next_block' = height + 1
         /\ collectors' \in [Collectors -> CollectorSet]
<1>. USE DEF TInv
<1>1. Height \in Nat /\ height \in Nat /\ next_block' = height + 1 /\ next_block' \in Nat
  BY DEF Height, CollectLogs, NextBlock
<1>2. handled' \in [1..MaxEvents -> Nat]
  BY DEF CollectLogs
<1>3. ASSUME NEW b \in Logs(c, height, skipped)
      PROVE  task_by_log(b) \in TaskSet /\ PcOfType(task_by_log(b))
  <2>1. b \in 1..Height /\ b \in 1..MaxEvents /\ b \in 0..MaxEvents /\ events[b] \in EventSet
    BY <1>1, BtcAssumption DEF Logs, Height
  <2>2. handled[b] \in Nat /\ events[b].user \in Users
    BY <2>1, Zenon DEF EventSet
  <2>. QED  BY <2>1, <2>2, NewTasks, Zenon DEF task_by_log, TaskTypes
<1>4. TasksOK'
  BY <1>3, Zenon DEF TasksOK, CollectLogs
<1>5. collectors' \in [Collectors -> CollectorSet]
  BY <1>1 DEF CollectLogs, CollectorSet
<1>. QED  BY <1>1, <1>2, <1>4, <1>5, Zenon

(* What each kind of step leaves alone. *)
LEMMA EnvironmentFrame ==
  ASSUME \/ \E u \in Users, b \in Burns : Burn(u, b.amount, b.recipient)
         \/ \E u \in Notifiers : NotifyMinter(u)
         \/ \E o \in orders : ExecuteOrder(o)
         \/ \E x \in Utxos : Pay(x) \/ Confirm(x)
  PROVE  UNCHANGED <<height_of, collectVars, tasks, orders, paid>>
  BY Zenon DEF Burn, NotifyMinter, ExecuteOrder, Pay, Confirm, canisterUnchanged, ckbtcVars

LEMMA CollectFrame ==
  ASSUME NEW c \in Collectors, Collect(c)
  PROVE  UNCHANGED <<events, height_of, orders, paid>>
  BY Zenon DEF Collect, CollectStart, CollectLogs, CollectParams, CollectEnd, bridgeUnchanged,
         evmVars, ckbtcVars

LEMMA TaskFrame ==
  ASSUME NEW t, Execute(t) \/ UpdateBalanceOk(t) \/ NoNewUtxos(t)
  PROVE  /\ UNCHANGED <<events, height_of, handled, collectors>>
         /\ UNCHANGED paid \/ MintBtcRetrieve(t)
         /\ UNCHANGED orders \/ \E x \in t.utxos : MintErc20Transfer(t, x)
         /\ UNCHANGED <<next_block, first_block>> \/ init_evm_state(t) \/ MintErc20Params(t)
<1>1. CASE UpdateBalanceOk(t) \/ NoNewUtxos(t) \/ UpdateBalanceErr(t)
  BY <1>1 DEF UpdateBalanceOk, NoNewUtxos, UpdateBalanceErr, bridgeUnchanged, collectVars,
              evmVars, ckbtcVars
<1>2. CASE \E x \in t.utxos : MintErc20Transfer(t, x) \/ MintErc20TransferErr(t, x)
  BY <1>2, Zenon DEF MintErc20Transfer, MintErc20TransferErr, bridgeUnchanged, collectVars,
              evmVars, ckbtcVars
<1>3. CASE \/ init_evm_state_start(t) \/ init_evm_state(t) \/ init_evm_state_err(t)
           \/ MintErc20Start(t) \/ MintErc20Params(t) \/ MintErc20Err(t)
  BY <1>3, Zenon DEF init_evm_state_start, init_evm_state, init_evm_state_err, MintErc20Start,
              MintErc20Params, MintErc20Err, bridgeUnchanged, collectVars, evmVars, ckbtcVars
<1>4. CASE \/ remove_mint_order(t) \/ burn_ckbtc(t) \/ MintBtcTransfer(t)
           \/ MintBtcRetrieve(t) \/ MintBtcErr(t)
  BY <1>4, Zenon DEF remove_mint_order, burn_ckbtc, MintBtcTransfer, MintBtcRetrieve, MintBtcErr,
              bridgeUnchanged, collectVars, evmVars, ckbtcVars
<1>. QED  BY <1>1, <1>2, <1>3, <1>4, Zenon DEF Execute

(* The types are an invariant. *)
LEMMA NextTInv == TInv /\ [Next]_vars => TInv'
<1>. SUFFICES ASSUME TInv, [Next]_vars  PROVE TInv'
  OBVIOUS
<1>. USE DEF TInv
<1>0. TasksOK /\ Height \in Nat
  BY DEF TasksOK, Height
<1>1. CASE \/ \E u \in Users, b \in Burns : Burn(u, b.amount, b.recipient)
           \/ \E u \in Notifiers : NotifyMinter(u)
           \/ \E o \in orders : ExecuteOrder(o)
  BY <1>1, EventsTyped, EnvironmentFrame, Zenon DEF collectVars
<1>2. CASE \E x \in Utxos : Pay(x) \/ Confirm(x)
  <2>1. UNCHANGED events
    BY <1>2 DEF Pay, Confirm, evmVars
  <2>. QED  BY <1>2, <2>1, EnvironmentFrame, Zenon DEF collectVars, Height
<1>3. ASSUME NEW u \in Users, btc_to_erc20(u)  PROVE TInv'
  <2>1. Call(u) \in TaskSet /\ PcOfType(Call(u)) /\ Call(u).utxos = {}
        /\ Call(u).type = "Call" /\ Call(u).pc = "balance"
    BY BtcAssumption DEF Call, Task, TaskSet, TaskTypes, Pcs, PcOfType
  <2>2. UpdateBalanceOk(Call(u)) \/ NoNewUtxos(Call(u))
    BY <1>3, Zenon DEF btc_to_erc20
  <2>3. TasksOK'
    BY <2>1, <2>2, BalanceTyped, Zenon
  <2>4. UNCHANGED <<events, height_of, handled, collectors, paid, orders, next_block>>
    BY <2>2, Zenon DEF UpdateBalanceOk, NoNewUtxos, bridgeUnchanged, collectVars, evmVars, ckbtcVars
  <2>. QED  BY <2>3, <2>4, Zenon DEF TasksOK, Height
<1>4. ASSUME NEW c \in Collectors, Collect(c)  PROVE TInv'
  <2>0. UNCHANGED <<events, height_of, orders, paid>>
    BY <1>4, CollectFrame
  <2>1. CASE CollectStart(c)
    <3>1. UNCHANGED <<next_block, handled, tasks>> /\ collectors' \in [Collectors -> CollectorSet]
      BY <2>1 DEF CollectStart, CollectorSet
    <3>. QED  BY <2>0, <3>1 DEF Height
  <2>2. CASE \E height \in 0..Height, skipped \in SUBSET Unreadable : CollectLogs(c, height, skipped)
    BY <2>0, <2>2, CollectTyped DEF Height, TasksOK
  <2>3. CASE CollectParams(c)
    <3>1. UNCHANGED <<handled, tasks>> /\ collectors' \in [Collectors -> CollectorSet]
          /\ next_block' \in Nat
      BY <2>3 DEF CollectParams, CollectorSet, Idle
    <3>. QED  BY <2>0, <3>1 DEF Height
  <2>4. CASE CollectEnd(c)
    <3>1. UNCHANGED <<next_block, handled, tasks>> /\ collectors' \in [Collectors -> CollectorSet]
      BY <2>4 DEF CollectEnd, CollectorSet, Idle
    <3>. QED  BY <2>0, <3>1 DEF Height
  <2>. QED  BY <1>4, <2>1, <2>2, <2>3, <2>4 DEF Collect
<1>5. ASSUME NEW t \in tasks, Execute(t)  PROVE TInv'
  <2>0. t \in TaskSet
    OBVIOUS
  <2>1. TasksOK'
    BY <1>5, TaskTyped, Zenon
  <2>2. UNCHANGED <<events, height_of, handled, collectors>>
    BY <1>5, TaskFrame, Zenon
  <2>3. orders' \subseteq OrderSet
    BY <1>5, TaskFrame, TransferTyped, Zenon
  <2>4. paid' \in [1..MaxEvents -> Nat]
    <3>1. CASE MintBtcRetrieve(t)
      <4>1. paid' = [paid EXCEPT ![t.id] = paid[t.id] + 1]
        BY <3>1 DEF MintBtcRetrieve
      <4>2. CASE t.id \in 1..MaxEvents
        BY <4>1, <4>2
      <4>3. CASE t.id \notin 1..MaxEvents
        BY <4>1, <4>3, Zenon
      <4>. QED  BY <4>2, <4>3, Zenon
    <3>. QED  BY <1>5, <3>1, TaskFrame, Zenon
  <2>5. next_block' \in Nat \cup {None}
    <3>1. CASE init_evm_state(t)
      BY <1>0, <2>0, <3>1 DEF init_evm_state, TaskSet
    <3>2. CASE MintErc20Params(t)
      BY <2>0, <3>2, Zenon DEF MintErc20Params, TaskSet
    <3>. QED  BY <1>5, <3>1, <3>2, TaskFrame, Zenon
  <2>. QED  BY <2>1, <2>2, <2>3, <2>4, <2>5 DEF TasksOK, Height
<1>6. CASE UNCHANGED vars
  BY <1>6, Zenon DEF vars, evmVars, ckbtcVars, collectVars, Height
<1>. QED  BY <1>1, <1>2, <1>3, <1>4, <1>5, <1>6, Zenon DEF Next, Environment

-----------------------------------------------------------------------------
(* No log is skipped.                                                      *)

Covered(n) == \A b \in 1..MaxEvents : first_block <= b /\ b < n
                                         => handled[b] > 0 \/ b \in Unreadable

(* Not only next_block but every copy of it that a collection or a task    *)
(* holds across its awaits has only collected or unreadable blocks below   *)
(* it.                                                                     *)
SnapInv ==
    /\ next_block # None => Covered(next_block)
    /\ \A c \in Collectors : collectors[c].pc # "idle" =>
           next_block # None /\ Covered(collectors[c].snap)
    /\ \A t \in tasks : t.type = "MintErc20" /\ t.pc = "params" =>
           next_block # None /\ Covered(t.snap)
    /\ \A t \in tasks : t.type = "InitEvmState" => next_block = None
    /\ \A t1, t2 \in tasks : t1.type = "InitEvmState" /\ t2.type = "InitEvmState" => t1 = t2

LEMMA InitSnapInv == Init => SnapInv
  BY DEF Init, SnapInv, Idle, Queued, Task

(* Tasks that hold no copy and initialise nothing do not matter. *)
Plain(t) == t.type # "InitEvmState" /\ (t.type = "MintErc20" => t.pc # "params")

LEMMA PlainStep ==
  ASSUME SnapInv, UNCHANGED collectVars,
         \A t \in tasks' : t \in tasks \/ Plain(t)
  PROVE  SnapInv'
<1>1. \A n : Covered(n) => Covered(n)'
  BY DEF Covered, collectVars
<1>. QED  BY <1>1, Zenon DEF SnapInv, Plain, collectVars

LEMMA BalanceSnap ==
  ASSUME TInv, SnapInv, NEW t \in TaskSet, PcOfType(t),
         UpdateBalanceOk(t) \/ NoNewUtxos(t) \/ UpdateBalanceErr(t)
  PROVE  SnapInv'
<1>1. UNCHANGED collectVars /\ t.type = "Call"
  BY DEF UpdateBalanceOk, NoNewUtxos, UpdateBalanceErr, PcOfType
<1>2. CASE UpdateBalanceOk(t)
  <2>1. PICK minted \in SUBSET Utxos : Replace(t, Remaining(t, minted))
    <3>1. PICK outcome \in [InState(t.user, "confirmed") -> Outcomes] :
             Replace(t, Remaining(t, {x \in InState(t.user, "confirmed") :
                                         outcome[x] = "Minted"}))
      BY <1>2, ZenonT(60) DEF UpdateBalanceOk
    <3>2. InState(t.user, "confirmed") \subseteq Utxos
      BY DEF InState
    <3>. QED  BY <3>1, <3>2
  <2>2. \A r \in Remaining(t, minted) : Plain(r)
    BY <1>1, RemainingTyped, Zenon DEF Plain
  <2>. QED  BY <1>1, <2>1, <2>2, PlainStep, Zenon DEF Replace
<1>3. CASE NoNewUtxos(t)
  <2>1. Plain(Queued("MintErc20", t.user, 0, 0))
    BY DEF Plain, Queued, Task
  <2>. QED  BY <1>1, <1>3, <2>1, PlainStep, Zenon DEF NoNewUtxos, Replace
<1>4. CASE UpdateBalanceErr(t)
  BY <1>1, <1>4, PlainStep, Zenon DEF UpdateBalanceErr, Replace
<1>. QED  BY <1>2, <1>3, <1>4, Zenon

LEMMA TaskSnap ==
  ASSUME TInv, SnapInv, NEW t \in tasks, Execute(t)
  PROVE  SnapInv'
<1>1. t \in TaskSet /\ PcOfType(t) /\ Height \in Nat
  BY DEF TInv, Height
<1>2. CASE init_evm_state_start(t)
  <2>. DEFINE r == [t EXCEPT !.pc = "query", !.snap = Height]
  <2>1. r.type = t.type
    BY <1>1, SnapTyped, ZenonT(60)
  <2>2. UNCHANGED collectVars /\ tasks' = (tasks \ {t}) \cup {r} /\ t.type = "InitEvmState"
    BY <1>2 DEF init_evm_state_start, Replace
  <2>3. \A n : Covered(n) => Covered(n)'
    BY <2>2 DEF Covered, collectVars
  <2>. HIDE DEF r
  <2>. QED  BY <2>1, <2>2, <2>3, Zenon DEF SnapInv, collectVars
<1>3. CASE init_evm_state(t)
  <2>1. /\ next_block = None /\ next_block' \in Nat /\ first_block' = next_block'
        /\ UNCHANGED <<collectors, handled>> /\ tasks' = tasks \ {t}
        /\ t.type = "InitEvmState"
    BY <1>1, <1>3 DEF init_evm_state, Replace, SnapInv, TaskSet
  <2>2. Covered(next_block)'
    BY <2>1 DEF Covered
  <2>3. \A q \in tasks' : q.type # "InitEvmState"
    BY <2>1, Zenon DEF SnapInv
  <2>. QED  BY <2>1, <2>2, <2>3, Zenon DEF SnapInv
<1>4. CASE init_evm_state_err(t)
  <2>. DEFINE q == Queued(t.type, None, 0, 0)
  <2>1. q.type = "InitEvmState" /\ q.pc = "queued" /\ t.type = "InitEvmState"
    BY <1>4, Zenon DEF Queued, Task, init_evm_state_err
  <2>2. UNCHANGED collectVars /\ (tasks' = tasks \ {t} \/ tasks' = (tasks \ {t}) \cup {q})
    BY <1>4, Zenon DEF init_evm_state_err, Replace
  <2>3. \A n : Covered(n) => Covered(n)'
    BY <2>2 DEF Covered, collectVars
  <2>. HIDE DEF q
  <2>. QED  BY <2>1, <2>2, <2>3, Zenon DEF SnapInv, collectVars
<1>5. CASE MintErc20Start(t)
  <2>. DEFINE r == [t EXCEPT !.pc = "params", !.snap = next_block]
  <2>1. UNCHANGED collectVars /\ t.type = "MintErc20"
    BY <1>5 DEF MintErc20Start
  <2>2. CASE next_block = None
    <3>1. Plain(Call(t.user))
      BY Zenon DEF Plain, Call, Task
    <3>. QED  BY <1>5, <2>1, <2>2, <3>1, PlainStep, Zenon DEF MintErc20Start, Replace
  <2>3. CASE next_block # None
    <3>0. next_block \in Nat
      BY <2>3 DEF TInv
    <3>1. r.type = "MintErc20" /\ r.snap = next_block
      BY <1>1, <2>1, <3>0, SnapTyped, ZenonT(60)
    <3>2. tasks' = (tasks \ {t}) \cup {r}
      BY <1>5, <2>3 DEF MintErc20Start, Replace
    <3>3. \A n : Covered(n) => Covered(n)'
      BY <2>1 DEF Covered, collectVars
    <3>. HIDE DEF r
    <3>. QED  BY <2>1, <2>3, <3>1, <3>2, <3>3, Zenon DEF SnapInv, collectVars
  <2>. QED  BY <2>2, <2>3
<1>6. CASE MintErc20Params(t)
  <2>1. /\ next_block # None /\ Covered(t.snap) /\ next_block' = t.snap
        /\ t.snap # None
        /\ UNCHANGED <<collectors, handled, first_block>>
        /\ tasks' = (tasks \ {t}) \cup {Call(t.user)}
    BY <1>1, <1>6, BtcAssumption DEF MintErc20Params, Replace, SnapInv, TaskSet
  <2>2. Plain(Call(t.user))
    BY DEF Plain, Call, Task
  <2>3. \A n : Covered(n) => Covered(n)'
    BY <2>1 DEF Covered
  <2>. QED  BY <2>1, <2>2, <2>3 DEF SnapInv, Plain
<1>7. CASE MintErc20Err(t)
  <2>1. Plain(Queued(t.type, t.user, 0, 0)) /\ UNCHANGED collectVars
    BY <1>7 DEF Plain, Queued, Task, MintErc20Err
  <2>. QED  BY <1>7, <2>1, PlainStep DEF MintErc20Err, Replace
<1>8. CASE UpdateBalanceOk(t) \/ NoNewUtxos(t) \/ UpdateBalanceErr(t)
  BY <1>1, <1>8, BalanceSnap
<1>9. CASE \E x \in t.utxos : MintErc20Transfer(t, x) \/ MintErc20TransferErr(t, x)
  <2>1. PICK x \in t.utxos : MintErc20Transfer(t, x) \/ MintErc20TransferErr(t, x)
    BY <1>9, Zenon
  <2>2. t.type = "Call" /\ t.utxos \ {x} \in SUBSET Utxos /\ UNCHANGED collectVars
        /\ Replace(t, Remaining(t, t.utxos \ {x}))
    BY <1>1, <2>1, Zenon DEF MintErc20Transfer, MintErc20TransferErr, PcOfType, TaskSet
  <2>3. \A r \in Remaining(t, t.utxos \ {x}) : Plain(r)
    BY <1>1, <2>2, RemainingTyped, Zenon DEF Plain
  <2>. QED  BY <2>2, <2>3, PlainStep DEF Replace
<1>10. CASE remove_mint_order(t) \/ MintBtcRetrieve(t)
  <2>1. UNCHANGED collectVars /\ Replace(t, {})
    BY <1>10 DEF remove_mint_order, MintBtcRetrieve
  <2>. QED  BY <2>1, PlainStep, Zenon DEF Replace
<1>11. CASE burn_ckbtc(t) \/ MintBtcTransfer(t) \/ MintBtcErr(t)
  <2>1. PICK pc \in {"queued", "account", "retrieve"} :
           UNCHANGED collectVars /\ Replace(t, {[t EXCEPT !.pc = pc]})
    BY <1>11, Zenon DEF burn_ckbtc, MintBtcTransfer, MintBtcErr
  <2>2. t.type = "MintBtc"
    BY <1>1, <1>11, Zenon DEF burn_ckbtc, MintBtcTransfer, MintBtcErr, PcOfType
  <2>3. Plain([t EXCEPT !.pc = pc])
    BY <1>1, <2>2, MovedTyped DEF Plain, Pcs
  <2>. QED  BY <2>1, <2>3, PlainStep, Zenon DEF Replace
<1>. QED  BY <1>2, <1>3, <1>4, <1>5, <1>6, <1>7, <1>8, <1>9, <1>10, <1>11, Zenon DEF Execute

LEMMA CollectSnap ==
  ASSUME TInv, SnapInv, NEW c \in Collectors, Collect(c)
  PROVE  SnapInv'
<1>0. /\ handled \in [1..MaxEvents -> Nat] /\ collectors \in [Collectors -> CollectorSet]
      /\ Height \in Nat /\ Height <= MaxEvents
  BY DEF TInv, Height
<1>1. CASE CollectStart(c)
  <2>1. /\ next_block # None
        /\ collectors' = [collectors EXCEPT ![c] = [pc |-> "logs", snap |-> next_block]]
        /\ UNCHANGED <<next_block, handled, first_block, tasks>>
    BY <1>1, Zenon DEF CollectStart
  <2>2. \A n : Covered(n) => Covered(n)'
    BY <2>1, Zenon DEF Covered
  <2>. QED  BY <1>0, <2>1, <2>2, Zenon DEF SnapInv
<1>2. ASSUME NEW height \in 0..Height, NEW skipped \in SUBSET Unreadable,
             CollectLogs(c, height, skipped)
      PROVE  SnapInv'
  <2>1. /\ next_block # None /\ Covered(collectors[c].snap) /\ collectors[c].snap \in Nat
        /\ next_block' = height + 1 /\ Height \in Nat /\ height \in Nat /\ Height <= MaxEvents
        /\ UNCHANGED first_block /\ next_block' # None
    BY <1>0, <1>2, BtcAssumption DEF CollectLogs, NextBlock, SnapInv, CollectorSet
  <2>2. \A b \in 1..MaxEvents : /\ b \in Logs(c, height, skipped) => handled'[b] = handled[b] + 1
                                /\ b \notin Logs(c, height, skipped) => handled'[b] = handled[b]
    BY <1>0, <1>2, Zenon DEF CollectLogs
  <2>3. \A b \in 1..MaxEvents : handled[b] \in Nat
    BY <1>0, Zenon
  <2>4. \A n : Covered(n) => Covered(n)'
    BY <2>1, <2>2, <2>3, SMTT(30) DEF Covered
  <2>5. Covered(height + 1)'
    <3>. SUFFICES ASSUME NEW b \in 1..MaxEvents, first_block' <= b, b < height + 1,
                         b \notin Unreadable
                  PROVE  handled'[b] > 0
      BY <2>1, Zenon DEF Covered
    <3>1. CASE b < collectors[c].snap
      BY <2>1, <2>2, <2>3, <3>1 DEF Covered
    <3>2. CASE collectors[c].snap <= b
      <4>1. b \in Logs(c, height, skipped)
        BY <1>2, <2>1, <3>2, BtcAssumption DEF Logs
      <4>. QED  BY <2>2, <2>3, <4>1, SMTT(30)
    <3>. QED  BY <2>1, <3>1, <3>2, BtcAssumption
  <2>6. \A t \in tasks' : t \in tasks \/ Plain(t)
    <3>1. \A b : Plain(task_by_log(b))
      BY Zenon DEF task_by_log, Queued, Task, Plain
    <3>2. tasks' = tasks \cup {task_by_log(b) : b \in Logs(c, height, skipped)}
      BY <1>2, Zenon DEF CollectLogs
    <3>. QED  BY <3>1, <3>2, Zenon
  <2>7. collectors' = [collectors EXCEPT ![c] = [pc |-> "params", snap |-> height + 1]]
    BY <1>2, <2>1, Zenon DEF CollectLogs
  <2>. QED  BY <1>0, <2>1, <2>4, <2>5, <2>6, <2>7, Zenon DEF SnapInv, Plain
<1>3. CASE CollectParams(c)
  <2>1. /\ next_block # None /\ Covered(collectors[c].snap) /\ collectors[c].snap # None
        /\ next_block' = collectors[c].snap
        /\ collectors' = [collectors EXCEPT ![c] = Idle]
        /\ UNCHANGED <<handled, first_block, tasks>>
    BY <1>0, <1>3, BtcAssumption DEF CollectParams, SnapInv, CollectorSet
  <2>2. \A n : Covered(n) => Covered(n)'
    BY <2>1, Zenon DEF Covered
  <2>. QED  BY <1>0, <2>1, <2>2, Zenon DEF SnapInv, Idle
<1>4. CASE CollectEnd(c)
  <2>1. /\ collectors' = [collectors EXCEPT ![c] = Idle]
        /\ UNCHANGED <<next_block, handled, first_block, tasks>>
    BY <1>4, Zenon DEF CollectEnd
  <2>2. \A n : Covered(n) => Covered(n)'
    BY <2>1, Zenon DEF Covered
  <2>. QED  BY <1>0, <2>1, <2>2, Zenon DEF SnapInv, Idle
<1>. QED  BY <1>1, <1>2, <1>3, <1>4, Zenon DEF Collect

LEMMA NextSnapInv == TInv /\ SnapInv /\ [Next]_vars => SnapInv'
<1>. SUFFICES ASSUME TInv, SnapInv, [Next]_vars  PROVE SnapInv'
  OBVIOUS
<1>1. CASE \/ \E u \in Users, b \in Burns : Burn(u, b.amount, b.recipient)
           \/ \E u \in Notifiers : NotifyMinter(u)
           \/ \E o \in orders : ExecuteOrder(o)
           \/ \E x \in Utxos : Pay(x) \/ Confirm(x)
  BY <1>1, EnvironmentFrame, PlainStep, Zenon
<1>2. ASSUME NEW u \in Users, btc_to_erc20(u)  PROVE SnapInv'
  <2>1. Call(u) \in TaskSet /\ PcOfType(Call(u))
    BY BtcAssumption DEF Call, Task, TaskSet, TaskTypes, Pcs, PcOfType
  <2>. QED  BY <1>2, <2>1, BalanceSnap, Zenon DEF btc_to_erc20
<1>3. ASSUME NEW c \in Collectors, Collect(c)  PROVE SnapInv'
  BY <1>3, CollectSnap, Zenon
<1>4. ASSUME NEW t \in tasks, Execute(t)  PROVE SnapInv'
  BY <1>4, TaskSnap, Zenon
<1>5. CASE UNCHANGED vars
  BY <1>5, PlainStep, Zenon DEF vars
<1>. QED  BY <1>1, <1>2, <1>3, <1>4, <1>5, Zenon DEF Next, Environment

(* However many collections and MintErc20 tasks overlap, and write back    *)
(* the parameters they read before their awaits (collect_evm_events and    *)
(* update_evm_params), no event below next_block is left uncollected but   *)
(* those of blocks whose logs collect_logs failed to read and skipped.     *)
THEOREM LogsNotSkipped == Spec => []NoLogSkipped
<1>1. Init => TInv /\ SnapInv
  BY InitTInv, InitSnapInv, Zenon
<1>2. TInv /\ SnapInv /\ [Next]_vars => TInv' /\ SnapInv'
  BY NextTInv, NextSnapInv, Zenon
<1>3. TInv /\ SnapInv => NoLogSkipped
  BY Zenon DEF TInv, SnapInv, Covered, NoLogSkipped
<1>. QED  BY <1>1, <1>2, <1>3, PTL DEF Spec

-----------------------------------------------------------------------------
(* Burns are kept, and paid once for each time they are collected.         *)

BurnTasks(b) == {t \in tasks : t.type = "MintBtc" /\ t.id = b}

BurnInv ==
    \A b \in 1..MaxEvents :
        /\ handled[b] > 0 => b <= Height
        /\ b <= Height /\ events[b].type = "Burnt" /\ handled[b] > 0 /\ paid[b] = 0 =>
               BurnTasks(b) # {}
        /\ IsFiniteSet(BurnTasks(b))
        /\ paid[b] + Cardinality(BurnTasks(b)) <= handled[b]

LEMMA InitBurnInv == Init => BurnInv
<1>. SUFFICES ASSUME Init, NEW b \in 1..MaxEvents
              PROVE  handled[b] = 0 /\ paid[b] = 0 /\ BurnTasks(b) = {}
  BY FS_EmptySet DEF BurnInv
<1>. QED  BY DEF Init, BurnTasks, Queued, Task

(* An answer of update_balance is not about a burn. *)
LEMMA BalanceEffect ==
  ASSUME TInv, NEW t \in TaskSet, PcOfType(t),
         UpdateBalanceOk(t) \/ NoNewUtxos(t) \/ UpdateBalanceErr(t)
  PROVE  /\ t.type = "Call" /\ UNCHANGED <<events, handled, paid>>
         /\ \E new : Replace(t, new) /\ \A r \in new : r.type # "MintBtc"
<1>1. t.type = "Call" /\ UNCHANGED <<events, handled, paid>>
  BY Zenon DEF UpdateBalanceOk, NoNewUtxos, UpdateBalanceErr, PcOfType, bridgeUnchanged, evmVars,
         collectVars
<1>2. CASE UpdateBalanceOk(t)
  <2>1. PICK minted \in SUBSET Utxos : Replace(t, Remaining(t, minted))
    <3>1. PICK outcome \in [InState(t.user, "confirmed") -> Outcomes] :
             Replace(t, Remaining(t, {x \in InState(t.user, "confirmed") :
                                         outcome[x] = "Minted"}))
      BY <1>2, Zenon DEF UpdateBalanceOk
    <3>2. InState(t.user, "confirmed") \subseteq Utxos
      BY DEF InState
    <3>. QED  BY <3>1, <3>2, Zenon
  <2>2. \A r \in Remaining(t, minted) : r.type # "MintBtc"
    BY <1>1, RemainingTyped
  <2>. QED  BY <1>1, <2>1, <2>2, Zenon
<1>3. CASE NoNewUtxos(t)
  <2>1. Queued("MintErc20", t.user, 0, 0).type # "MintBtc"
    BY Zenon DEF Queued, Task
  <2>2. PICK new \in SUBSET {Queued("MintErc20", t.user, 0, 0)} : Replace(t, new)
    BY <1>3, Zenon DEF NoNewUtxos
  <2>. QED  BY <1>1, <2>1, <2>2
<1>4. CASE UpdateBalanceErr(t)
  BY <1>1, <1>4 DEF UpdateBalanceErr
<1>. QED  BY <1>2, <1>3, <1>4, Zenon

(* A step of a task pays its burn and ends, or keeps it, or is not about   *)
(* a burn.                                                                 *)
LEMMA TaskEffect ==
  ASSUME TInv, NEW t \in tasks, Execute(t)
  PROVE  \/ /\ t.type = "MintBtc" /\ Replace(t, {})
            /\ paid' = [paid EXCEPT ![t.id] = paid[t.id] + 1]
         \/ /\ t.type = "MintBtc" /\ UNCHANGED paid
            /\ \E r : r.type = "MintBtc" /\ r.id = t.id /\ Replace(t, {r})
         \/ /\ t.type # "MintBtc" /\ UNCHANGED paid
            /\ \E new : Replace(t, new) /\ \A r \in new : r.type # "MintBtc"
<1>1. t \in TaskSet /\ PcOfType(t) /\ Height \in Nat
  BY SMTT(30) DEF TInv, Height
<1>2. CASE MintBtcRetrieve(t)
  BY <1>1, <1>2, Zenon DEF MintBtcRetrieve, PcOfType
<1>3. CASE burn_ckbtc(t) \/ MintBtcTransfer(t) \/ MintBtcErr(t)
  <2>1. PICK pc \in {"queued", "account", "retrieve"} :
           UNCHANGED paid /\ Replace(t, {[t EXCEPT !.pc = pc]})
    BY <1>3, Zenon DEF burn_ckbtc, MintBtcTransfer, MintBtcErr, bridgeUnchanged
  <2>2. t.type = "MintBtc"
    BY <1>1, <1>3 DEF burn_ckbtc, MintBtcTransfer, MintBtcErr, PcOfType
  <2>3. [t EXCEPT !.pc = pc].type = "MintBtc" /\ [t EXCEPT !.pc = pc].id = t.id
    BY <1>1, <2>2, MovedTyped DEF Pcs
  <2>. QED  BY <2>1, <2>2, <2>3, Zenon
<1>4. CASE init_evm_state_start(t)
  <2>. DEFINE r == [t EXCEPT !.pc = "query", !.snap = Height]
  <2>1. r.type = t.type
    BY <1>1, SnapTyped, ZenonT(60)
  <2>2. t.type = "InitEvmState" /\ UNCHANGED paid /\ Replace(t, {r})
    BY <1>4 DEF init_evm_state_start, bridgeUnchanged
  <2>. HIDE DEF r
  <2>. QED  BY <2>1, <2>2, Zenon
<1>5. CASE init_evm_state(t) \/ remove_mint_order(t)
  BY <1>5 DEF init_evm_state, remove_mint_order, bridgeUnchanged
<1>6. CASE init_evm_state_err(t) \/ MintErc20Err(t)
  <2>1. t.type # "MintBtc" /\ UNCHANGED paid
    BY <1>6 DEF init_evm_state_err, MintErc20Err, bridgeUnchanged
  <2>2. PICK user, new : new \in {{}, {Queued(t.type, user, 0, 0)}} /\ Replace(t, new)
    BY <1>6, Zenon DEF init_evm_state_err, MintErc20Err
  <2>3. Queued(t.type, user, 0, 0).type = t.type
    BY DEF Queued, Task
  <2>. QED  BY <2>1, <2>2, <2>3, Zenon
<1>7. CASE MintErc20Start(t)
  <2>. DEFINE r == [t EXCEPT !.pc = "params", !.snap = next_block]
  <2>1. t.type = "MintErc20" /\ UNCHANGED paid
    BY <1>7, Zenon DEF MintErc20Start, bridgeUnchanged
  <2>2. CASE next_block = None
    <3>1. Replace(t, {Call(t.user)})
      BY <1>7, <2>2, Zenon DEF MintErc20Start
    <3>. QED  BY <2>1, <3>1 DEF Call, Task
  <2>3. CASE next_block # None
    <3>1. next_block \in Nat
      BY <2>3, Zenon DEF TInv
    <3>2. r.type = t.type
      BY <1>1, <3>1, SnapTyped, ZenonT(60)
    <3>3. Replace(t, {r})
      BY <1>7, <2>3 DEF MintErc20Start
    <3>. HIDE DEF r
    <3>. QED  BY <2>1, <3>2, <3>3, Zenon
  <2>. QED  BY <2>2, <2>3, Zenon
<1>8. CASE MintErc20Params(t)
  <2>1. Call(t.user).type # "MintBtc"
    BY DEF Call, Task
  <2>. QED  BY <1>8, <2>1, Zenon DEF MintErc20Params, bridgeUnchanged
<1>9. CASE UpdateBalanceOk(t) \/ NoNewUtxos(t) \/ UpdateBalanceErr(t)
  BY <1>1, <1>9, BalanceEffect, Zenon DEF UpdateBalanceOk, NoNewUtxos, UpdateBalanceErr, PcOfType
<1>10. CASE \E x \in t.utxos : MintErc20Transfer(t, x) \/ MintErc20TransferErr(t, x)
  <2>1. PICK x \in t.utxos : MintErc20Transfer(t, x) \/ MintErc20TransferErr(t, x)
    BY <1>10, Zenon
  <2>2. t.type = "Call" /\ t.utxos \ {x} \in SUBSET Utxos /\ UNCHANGED paid
        /\ Replace(t, Remaining(t, t.utxos \ {x}))
    BY <1>1, <2>1, Zenon DEF MintErc20Transfer, MintErc20TransferErr, PcOfType, TaskSet, bridgeUnchanged
  <2>3. \A r \in Remaining(t, t.utxos \ {x}) : r.type # "MintBtc"
    BY <1>1, <2>2, RemainingTyped, Zenon
  <2>. QED  BY <2>2, <2>3, Zenon
<1>. QED  BY <1>2, <1>3, <1>4, <1>5, <1>6, <1>7, <1>8, <1>9, <1>10, ZenonT(60) DEF Execute

LEMMA TaskBurn ==
  ASSUME TInv, BurnInv, NEW t, NEW new, Replace(t, new), UNCHANGED <<events, handled, paid>>,
         \/ t.type # "MintBtc" /\ \A r \in new : r.type # "MintBtc"
         \/ t \in tasks /\ \E r : new = {r} /\ r.type = t.type /\ r.id = t.id
  PROVE  BurnInv'
<1>. SUFFICES ASSUME NEW b \in 1..MaxEvents
              PROVE  /\ BurnTasks(b) # {} => BurnTasks(b)' # {}
                     /\ IsFiniteSet(BurnTasks(b)')
                     /\ Cardinality(BurnTasks(b)') <= Cardinality(BurnTasks(b))
  <2>. DEFINE C(b) == Cardinality(BurnTasks(b))
              D(b) == Cardinality(BurnTasks(b)')
  <2>1. \A b \in 1..MaxEvents : C(b) \in Nat /\ D(b) \in Nat /\ D(b) <= C(b)
    BY FS_CardinalityType, Zenon DEF BurnInv
  <2>2. \A b \in 1..MaxEvents : handled[b] \in Nat /\ paid[b] \in Nat
    BY Zenon DEF TInv
  <2>3. \A b \in 1..MaxEvents : paid[b] + C(b) <= handled[b]
    BY Zenon DEF BurnInv
  <2>4. \A b \in 1..MaxEvents : paid'[b] + D(b) <= handled'[b]
    <3>. HIDE DEF C, D
    <3>. QED  BY <2>1, <2>2, <2>3, SMTT(30)
  <2>. QED  BY <2>4, Zenon DEF BurnInv, Height
<1>1. IsFiniteSet(BurnTasks(b))
  BY Zenon DEF BurnInv
<1>2. CASE BurnTasks(b)' = BurnTasks(b)
  BY <1>1, <1>2, FS_CardinalityType
<1>3. CASE t.type # "MintBtc" /\ \A r \in new : r.type # "MintBtc"
  <2>1. BurnTasks(b)' = BurnTasks(b)
    BY <1>3, Zenon DEF BurnTasks, Replace
  <2>. QED  BY <1>2, <2>1, Zenon
<1>4. ASSUME t \in tasks, NEW r, new = {r}, r.type = t.type, r.id = t.id
      PROVE  /\ BurnTasks(b) # {} => BurnTasks(b)' # {}
             /\ IsFiniteSet(BurnTasks(b)')
             /\ Cardinality(BurnTasks(b)') <= Cardinality(BurnTasks(b))
  <2>1. CASE t \notin BurnTasks(b)
    <3>1. BurnTasks(b)' = BurnTasks(b)
      BY <1>4, <2>1, Zenon DEF BurnTasks, Replace
    <3>. QED  BY <1>2, <3>1
  <2>2. CASE t \in BurnTasks(b)
    <3>. DEFINE rest == BurnTasks(b) \ {t}
    <3>1. BurnTasks(b)' = rest \cup {r}
      BY <1>4, <2>2, Zenon DEF BurnTasks, Replace
    <3>2. IsFiniteSet(rest) /\ Cardinality(rest) = Cardinality(BurnTasks(b)) - 1
      BY <1>1, <2>2, FS_RemoveElement, Zenon
    <3>3. Cardinality(BurnTasks(b)) \in Nat /\ Cardinality(rest) \in Nat
      BY <1>1, <3>2, FS_CardinalityType, Zenon
    <3>. HIDE DEF rest
    <3>4. /\ IsFiniteSet(rest \cup {r})
          /\ \/ Cardinality(rest \cup {r}) = Cardinality(rest)
             \/ Cardinality(rest \cup {r}) = Cardinality(rest) + 1
      BY <3>2, FS_AddElement, Zenon
    <3>5. Cardinality(rest \cup {r}) <= Cardinality(BurnTasks(b))
      BY <3>2, <3>3, <3>4
    <3>. QED  BY <3>1, <3>4, <3>5, Zenon
  <2>. QED  BY <2>1, <2>2, Zenon
<1>. QED  BY <1>3, <1>4, Zenon

LEMMA RetrieveBurn ==
  ASSUME TInv, BurnInv, NEW t \in tasks, t.type = "MintBtc", Replace(t, {}),
         paid' = [paid EXCEPT ![t.id] = paid[t.id] + 1], UNCHANGED <<events, handled>>
  PROVE  BurnInv'
<1>. SUFFICES ASSUME NEW b \in 1..MaxEvents
              PROVE  /\ paid'[b] = 0 /\ BurnTasks(b) # {} => BurnTasks(b)' # {}
                     /\ paid'[b] = 0 => paid[b] = 0
                     /\ IsFiniteSet(BurnTasks(b)')
                     /\ paid'[b] + Cardinality(BurnTasks(b)') <= handled[b]
  BY Zenon DEF BurnInv, Height
<1>1. /\ IsFiniteSet(BurnTasks(b)) /\ Cardinality(BurnTasks(b)) \in Nat
      /\ paid[b] + Cardinality(BurnTasks(b)) <= handled[b]
      /\ paid[b] \in Nat /\ handled[b] \in Nat
  BY FS_CardinalityType, Zenon DEF BurnInv, TInv
<1>2. CASE b # t.id
  <2>1. BurnTasks(b)' = BurnTasks(b)
    BY <1>2, Zenon DEF BurnTasks, Replace
  <2>2. paid'[b] = paid[b]
    BY <1>2, Zenon DEF TInv
  <2>. QED  BY <1>1, <2>1, <2>2, Zenon
<1>3. CASE b = t.id
  <2>1. BurnTasks(b)' = BurnTasks(b) \ {t} /\ t \in BurnTasks(b)
    BY <1>3, Zenon DEF BurnTasks, Replace
  <2>2. paid'[b] = paid[b] + 1
    BY <1>3, Zenon DEF TInv
  <2>3. IsFiniteSet(BurnTasks(b)') /\ Cardinality(BurnTasks(b)') = Cardinality(BurnTasks(b)) - 1
    BY <1>1, <2>1, FS_RemoveElement
  <2>. QED  BY <1>1, <2>2, <2>3
<1>. QED  BY <1>2, <1>3, Zenon

(* A collection counts a burn and adds one task for it. *)
LEMMA CollectBurn ==
  ASSUME TInv, BurnInv, NEW c \in Collectors, NEW height \in 0..Height, NEW skipped,
         CollectLogs(c, height, skipped)
  PROVE  BurnInv'
<1>. DEFINE blocks == Logs(c, height, skipped)
<1>0. /\ UNCHANGED <<events, paid>> /\ Height \in Nat /\ Height <= MaxEvents
      /\ tasks' = tasks \cup {task_by_log(b) : b \in blocks}
      /\ \A b \in 1..MaxEvents : handled'[b] = IF b \in blocks THEN handled[b] + 1 ELSE handled[b]
      /\ \A b \in blocks : b \in 1..Height
  BY DEF CollectLogs, bridgeUnchanged, evmVars, TInv, Height, Logs
<1>. HIDE DEF blocks
<1>1. \A b : /\ task_by_log(b).id = b
             /\ task_by_log(b).type = "MintBtc" <=> events[b].type = "Burnt"
  BY Zenon DEF task_by_log, Queued, Task
<1>. SUFFICES ASSUME NEW b \in 1..MaxEvents
              PROVE  /\ handled'[b] > 0 => b <= Height
                     /\ b <= Height /\ events[b].type = "Burnt" /\ handled'[b] > 0 /\ paid[b] = 0 =>
                            BurnTasks(b)' # {}
                     /\ IsFiniteSet(BurnTasks(b)')
                     /\ paid[b] + Cardinality(BurnTasks(b)') <= handled'[b]
  BY <1>0, ZenonT(60) DEF BurnInv, Height
<1>2. /\ IsFiniteSet(BurnTasks(b)) /\ Cardinality(BurnTasks(b)) \in Nat
      /\ paid[b] + Cardinality(BurnTasks(b)) <= handled[b]
      /\ paid[b] \in Nat /\ handled[b] \in Nat
      /\ handled[b] > 0 => b <= Height
      /\ b <= Height /\ events[b].type = "Burnt" /\ handled[b] > 0 /\ paid[b] = 0 =>
             BurnTasks(b) # {}
  BY FS_CardinalityType, ZenonT(60) DEF BurnInv, TInv
<1>3. CASE b \in blocks /\ events[b].type = "Burnt"
  <2>. DEFINE n == task_by_log(b)
  <2>1. BurnTasks(b)' = BurnTasks(b) \cup {n}
    BY <1>0, <1>1, <1>3 DEF BurnTasks
  <2>. HIDE DEF n
  <2>2. /\ IsFiniteSet(BurnTasks(b) \cup {n})
        /\ \/ Cardinality(BurnTasks(b) \cup {n}) = Cardinality(BurnTasks(b))
           \/ Cardinality(BurnTasks(b) \cup {n}) = Cardinality(BurnTasks(b)) + 1
    BY <1>2, FS_AddElement, Zenon
  <2>3. paid[b] + Cardinality(BurnTasks(b) \cup {n}) <= handled[b] + 1
    BY <1>2, <2>2
  <2>4. handled'[b] = handled[b] + 1 /\ b \in 1..Height
    BY <1>0, <1>3, Zenon
  <2>5. b <= Height
    BY <1>0, <2>4, SMTT(30)
  <2>. QED  BY <2>1, <2>2, <2>3, <2>4, <2>5, Zenon
<1>4. CASE ~(b \in blocks /\ events[b].type = "Burnt")
  <2>1. BurnTasks(b)' = BurnTasks(b)
    BY <1>0, <1>1, <1>4 DEF BurnTasks
  <2>2. handled[b] <= handled'[b] /\ handled'[b] \in Nat
    BY <1>0, <1>2
  <2>3. handled'[b] = handled[b] \/ (b \in 1..Height /\ events[b].type # "Burnt")
    BY <1>0, <1>4, Zenon
  <2>4. paid[b] + Cardinality(BurnTasks(b)) <= handled'[b]
    BY <1>2, <2>2, SMTT(30)
  <2>5. handled'[b] > 0 => b <= Height
    BY <1>0, <1>2, <2>3
  <2>. QED  BY <1>2, <2>1, <2>3, <2>4, <2>5, Zenon
<1>. QED  BY <1>3, <1>4, Zenon

LEMMA NextBurnInv == TInv /\ BurnInv /\ [Next]_vars => BurnInv'
<1>. SUFFICES ASSUME TInv, BurnInv, [Next]_vars  PROVE BurnInv'
  OBVIOUS
<1>0. ASSUME UNCHANGED <<events, handled, tasks, paid>>  PROVE BurnInv'
  BY <1>0, ZenonT(60) DEF BurnInv, BurnTasks, Height
<1>1. CASE \/ \E u \in Users, b \in Burns : Burn(u, b.amount, b.recipient)
           \/ \E u \in Notifiers : NotifyMinter(u)
           \/ \E o \in orders : ExecuteOrder(o)
  <2>1. UNCHANGED <<handled, tasks, paid>> /\ Height \in Nat /\ Height' = Height + 1
    BY <1>1, EventsTyped, EnvironmentFrame DEF collectVars, TInv, Height
  <2>2. PICK e : events' = Append(events, e)
    BY <1>1, Zenon DEF Burn, NotifyMinter, ExecuteOrder, Emit
  <2>3. \A b \in 1..Height : events'[b] = events[b]
    BY <2>2 DEF TInv, Height
  <2>4. \A b \in 1..MaxEvents : handled[b] > 0 => b \in 1..Height
    BY <2>1, BtcAssumption DEF BurnInv
  <2>5. \A b : BurnTasks(b)' = BurnTasks(b)
    BY <2>1, Zenon DEF BurnTasks
  <2>6. \A b \in 1..MaxEvents : handled[b] > 0 => b <= Height'
    BY <2>1, <2>4, BtcAssumption
  <2>. QED  BY <2>1, <2>3, <2>4, <2>5, <2>6, Zenon DEF BurnInv
<1>2. CASE \E x \in Utxos : Pay(x) \/ Confirm(x)
  BY <1>0, <1>2, EnvironmentFrame, Zenon DEF collectVars, Pay, Confirm, evmVars
<1>3. ASSUME NEW u \in Users, btc_to_erc20(u)  PROVE BurnInv'
  <2>1. Call(u) \in TaskSet /\ PcOfType(Call(u))
    BY BtcAssumption DEF Call, Task, TaskSet, TaskTypes, Pcs, PcOfType
  <2>2. /\ Call(u).type = "Call" /\ UNCHANGED <<events, handled, paid>>
        /\ \E new : Replace(Call(u), new) /\ \A r \in new : r.type # "MintBtc"
    BY <1>3, <2>1, BalanceEffect, Zenon DEF btc_to_erc20
  <2>. QED  BY <2>2, TaskBurn, Zenon
<1>4. ASSUME NEW c \in Collectors, Collect(c)  PROVE BurnInv'
  <2>1. CASE \E height \in 0..Height, skipped \in SUBSET Unreadable : CollectLogs(c, height, skipped)
    BY <2>1, CollectBurn, Zenon
  <2>2. CASE CollectStart(c) \/ CollectParams(c) \/ CollectEnd(c)
    BY <1>0, <2>2, Zenon DEF CollectStart, CollectParams, CollectEnd, bridgeUnchanged, evmVars
  <2>. QED  BY <1>4, <2>1, <2>2, Zenon DEF Collect
<1>5. ASSUME NEW t \in tasks, Execute(t)  PROVE BurnInv'
  <2>1. UNCHANGED <<events, handled>>
    BY <1>5, TaskFrame, Zenon
  <2>. QED  BY <1>5, <2>1, TaskEffect, TaskBurn, RetrieveBurn, Zenon
<1>6. CASE UNCHANGED vars
  BY <1>0, <1>6, Zenon DEF vars, evmVars, collectVars
<1>. QED  BY <1>1, <1>2, <1>3, <1>4, <1>5, <1>6, Zenon DEF Next, Environment

LEMMA BurnInvariant == Spec => [](TInv /\ BurnInv)
<1>1. Init => TInv /\ BurnInv
  BY InitTInv, InitBurnInv, Zenon
<1>2. TInv /\ BurnInv /\ [Next]_vars => TInv' /\ BurnInv'
  BY NextTInv, NextBurnInv, Zenon
<1>. QED  BY <1>1, <1>2, PTL DEF Spec

(* A burn that was collected is paid or still has its MintBtc task,        *)
(* however burn_ckbtc fails and is retried.                                *)
THEOREM BurnsStayKept == Spec => []BurnsKept
<1>1. ASSUME TInv, BurnInv  PROVE BurnsKept
  <2>1. \A b \in BurntEvents : b \in 1..MaxEvents /\ b <= Height /\ events[b].type = "Burnt"
    BY <1>1, BtcAssumption DEF BurntEvents, TInv, Height
  <2>. QED  BY <1>1, <2>1, ZenonT(60) DEF BurnsKept, BurnInv, BurnTasks
<1>. QED  BY <1>1, BurnInvariant, PTL

(* A burn is never paid more often than it was collected, however          *)
(* burn_ckbtc fails and is retried and however collections overlap.        *)
THEOREM BurnsPaidOnce == Spec => []PaidPerHandling
<1>1. ASSUME TInv, BurnInv  PROVE PaidPerHandling
  <2>1. ASSUME NEW b \in 1..MaxEvents  PROVE paid[b] <= handled[b]
    <3>1. Cardinality(BurnTasks(b)) \in Nat /\ paid[b] + Cardinality(BurnTasks(b)) <= handled[b]
      BY <1>1, FS_CardinalityType, Zenon DEF BurnInv
    <3>2. paid[b] \in Nat /\ handled[b] \in Nat
      BY <1>1 DEF TInv
    <3>. QED  BY <3>1, <3>2
  <2>. QED  BY <1>1, <2>1, Zenon DEF PaidPerHandling, TInv
<1>. QED  BY <1>1, BurnInvariant, PTL

-----------------------------------------------------------------------------
(* UTXOs and mint orders: the invariants.                                  *)

UtxoStates == {"absent", "pending", "confirmed", "Minted", "Rejected", "Moved"}

(* A UTXO that ckBTC was minted for is in the hands of one call, until the *)
(* call moves the ckBTC and stores the one order for it.                   *)
UtxoInv ==
    /\ utxos \in [Utxos -> UtxoStates]
    /\ \A t \in tasks : \A x \in t.utxos :
           OwnerOf[x] = t.user /\ utxos[x] = "Minted" /\ ValueOf[x] > Fee
    /\ \A t1, t2 \in tasks : t1 # t2 => t1.utxos \cap t2.utxos = {}
    /\ \A x \in Utxos : utxos[x] = "Moved" => ValueOf[x] > Fee
    /\ \A o \in orders : o = Order(o.utxo) /\ utxos[o.utxo] = "Moved"

(* Only an order whose nonce was minted with is ever removed.              *)
OrderInv ==
    /\ OrdersKept
    /\ \A k \in DOMAIN mint_orders : mint_orders[k] \in orders
    /\ \A b \in 1..Height : events[b].type = "Minted" =>
           <<events[b].user, events[b].nonce>> \in executed
    /\ \A t \in tasks : t.type = "RemoveMintOrder" =>
           t.id \in 1..Height /\ events[t.id].type = "Minted" /\ t.user = events[t.id].user

(* No copy of next_block is past the next block of the chain.              *)
BlockInv ==
    /\ next_block # None => next_block <= Height + 1
    /\ \A c \in Collectors : collectors[c].pc # "idle" => collectors[c].snap <= Height + 1
    /\ \A t \in tasks : t.type = "MintErc20" /\ t.pc = "params" => t.snap <= Height + 1

-----------------------------------------------------------------------------
(* What a step of a task leaves behind.                                    *)

(* The tasks in new keep the burn of t and copy next_block, if anything,   *)
(* and only MintBtcTransfer makes one that is about to retrieve.           *)
Kinds(t, new) ==
    \A r \in new :
        /\ r.type # "RemoveMintOrder"
        /\ r.type = "MintBtc" => t.type = "MintBtc" /\ r.id = t.id
        /\ r.type = "MintErc20" /\ r.pc = "params" => next_block # None /\ r.snap = next_block
        /\ r.pc = "retrieve" => MintBtcTransfer(t)

(* They have no UTXOs but those of t.                                      *)
Holds(t, new) ==
    /\ \A r \in new : r.utxos = {} \/ (r.utxos \subseteq t.utxos /\ r.user = t.user)
    /\ \A r1, r2 \in new : r1 = r2

LEMMA Fields ==
  ASSUME NEW t \in TaskSet, NEW pc
  PROVE  LET r == [t EXCEPT !.pc = pc]
         IN  r.type = t.type /\ r.user = t.user /\ r.id = t.id /\ r.pc = pc /\ r.utxos = t.utxos
  BY Zenon DEF TaskSet

LEMMA RemainingFields ==
  ASSUME NEW t \in TaskSet, t.type = "Call", NEW left, NEW r \in Remaining(t, left)
  PROVE  /\ r.type = "Call" /\ r.user = t.user /\ r.pc = "transfer"
         /\ r.utxos = {x \in left : ValueOf[x] > Fee}
  BY Zenon DEF Remaining, TaskSet

LEMMA RemainingOne ==
  ASSUME NEW t, NEW left, NEW r1 \in Remaining(t, left), NEW r2 \in Remaining(t, left)
  PROVE  r1 = r2
  BY DEF Remaining

LEMMA TaskStep ==
  ASSUME TInv, NEW t \in TaskSet, PcOfType(t), Execute(t) \/ UpdateBalanceOk(t) \/ NoNewUtxos(t)
  PROVE  \E new : /\ Replace(t, new) /\ Kinds(t, new)
                  /\ UpdateBalanceOk(t) \/ Holds(t, new)
<1>1. CASE UpdateBalanceOk(t)
  <2>1. t.type = "Call"
    BY <1>1 DEF UpdateBalanceOk, PcOfType
  <2>2. PICK minted : Replace(t, Remaining(t, minted))
    BY <1>1, Zenon DEF UpdateBalanceOk
  <2>3. Kinds(t, Remaining(t, minted))
    BY <2>1, RemainingFields, Zenon DEF Kinds
  <2>. QED  BY <1>1, <2>2, <2>3, Zenon
<1>2. CASE NoNewUtxos(t)
  <2>. DEFINE q == Queued("MintErc20", t.user, 0, 0)
  <2>1. q.type = "MintErc20" /\ q.pc = "queued" /\ q.utxos = {}
    BY Zenon DEF Queued, Task
  <2>2. PICK new \in SUBSET {q} : Replace(t, new)
    BY <1>2, Zenon DEF NoNewUtxos
  <2>. HIDE DEF q
  <2>3. Kinds(t, new) /\ Holds(t, new)
    BY <2>1, Zenon DEF Kinds, Holds
  <2>. QED  BY <2>2, <2>3, Zenon
<1>3. CASE \E x \in t.utxos : MintErc20Transfer(t, x) \/ MintErc20TransferErr(t, x)
  <2>1. PICK x : t.pc = "transfer" /\ Replace(t, Remaining(t, t.utxos \ {x}))
    BY <1>3, Zenon DEF MintErc20Transfer, MintErc20TransferErr
  <2>2. t.type = "Call"
    BY <2>1 DEF PcOfType
  <2>3. Kinds(t, Remaining(t, t.utxos \ {x})) /\ Holds(t, Remaining(t, t.utxos \ {x}))
    <3>1. Kinds(t, Remaining(t, t.utxos \ {x}))
      BY <2>2, RemainingFields, Zenon DEF Kinds
    <3>2. ASSUME NEW r \in Remaining(t, t.utxos \ {x})
          PROVE  r.utxos \subseteq t.utxos /\ r.user = t.user
      BY <2>2, RemainingFields
    <3>. QED  BY <3>1, <3>2, RemainingOne, Zenon DEF Holds
  <2>. QED  BY <2>1, <2>3, Zenon
<1>4. CASE init_evm_state(t) \/ UpdateBalanceErr(t) \/ remove_mint_order(t) \/ MintBtcRetrieve(t)
  <2>1. Replace(t, {})
    BY <1>4, Zenon DEF init_evm_state, UpdateBalanceErr, remove_mint_order, MintBtcRetrieve
  <2>. QED  BY <2>1, SMTT(30) DEF Kinds, Holds
<1>5. CASE init_evm_state_err(t) \/ MintErc20Err(t)
  <2>1. t.type \in {"InitEvmState", "MintErc20"}
    BY <1>5 DEF init_evm_state_err, MintErc20Err
  <2>2. PICK user, new : new \in {{}, {Queued(t.type, user, 0, 0)}} /\ Replace(t, new)
    BY <1>5, Zenon DEF init_evm_state_err, MintErc20Err
  <2>. DEFINE q == Queued(t.type, user, 0, 0)
  <2>3. q.type = t.type /\ q.pc = "queued" /\ q.utxos = {} /\ new \in SUBSET {q}
    BY <2>2, Zenon DEF Queued, Task
  <2>. HIDE DEF q
  <2>4. Kinds(t, new) /\ Holds(t, new)
    BY <2>1, <2>3, Zenon DEF Kinds, Holds
  <2>. QED  BY <2>2, <2>4, Zenon
<1>6. CASE init_evm_state_start(t)
  <2>. DEFINE r == [t EXCEPT !.pc = "query", !.snap = Height]
  <2>1. r.type = t.type /\ r.pc = "query" /\ r.utxos = t.utxos /\ r.user = t.user
    BY Zenon DEF TaskSet
  <2>2. t.type = "InitEvmState" /\ Replace(t, {r})
    BY <1>6, Zenon DEF init_evm_state_start
  <2>. HIDE DEF r
  <2>. QED  BY <2>1, <2>2 DEF Kinds, Holds
<1>7. CASE MintErc20Params(t) \/ (MintErc20Start(t) /\ next_block = None)
  <2>. DEFINE q == Call(t.user)
  <2>1. q.type = "Call" /\ q.pc = "balance" /\ q.utxos = {}
    BY DEF Call, Task
  <2>2. Replace(t, {q})
    BY <1>7, Zenon DEF MintErc20Params, MintErc20Start
  <2>. HIDE DEF q
  <2>. QED  BY <2>1, <2>2 DEF Kinds, Holds
<1>8. CASE MintErc20Start(t) /\ next_block # None
  <2>. DEFINE r == [t EXCEPT !.pc = "params", !.snap = next_block]
  <2>1. /\ r.type = t.type /\ r.pc = "params" /\ r.utxos = t.utxos /\ r.user = t.user
        /\ r.snap = next_block
    BY Zenon DEF TaskSet
  <2>2. t.type = "MintErc20" /\ Replace(t, {r})
    BY <1>8, Zenon DEF MintErc20Start
  <2>. HIDE DEF r
  <2>. QED  BY <1>8, <2>1, <2>2 DEF Kinds, Holds
<1>9. CASE burn_ckbtc(t) \/ MintBtcTransfer(t) \/ MintBtcErr(t)
  <2>1. PICK pc : /\ Replace(t, {[t EXCEPT !.pc = pc]})
                  /\ pc = "retrieve" => MintBtcTransfer(t)
    <3>1. \/ Replace(t, {[t EXCEPT !.pc = "account"]})
          \/ Replace(t, {[t EXCEPT !.pc = "queued"]})
          \/ Replace(t, {[t EXCEPT !.pc = "retrieve"]}) /\ MintBtcTransfer(t)
      BY <1>9, Zenon DEF burn_ckbtc, MintBtcTransfer, MintBtcErr
    <3>2. "account" # "retrieve" /\ "queued" # "retrieve"
      OBVIOUS
    <3>. QED  BY <3>1, <3>2, Zenon
  <2>. DEFINE r == [t EXCEPT !.pc = pc]
  <2>2. t.type = "MintBtc"
    BY <1>9, Zenon DEF burn_ckbtc, MintBtcTransfer, MintBtcErr, PcOfType
  <2>3. r.type = t.type /\ r.pc = pc /\ r.utxos = t.utxos /\ r.user = t.user /\ r.id = t.id
    BY Fields, Zenon
  <2>4. Replace(t, {r})
    BY <2>1
  <2>. HIDE DEF r
  <2>5. Kinds(t, {r})
    BY <2>1, <2>2, <2>3, Zenon DEF Kinds
  <2>. QED  BY <2>3, <2>4, <2>5 DEF Holds
<1>. QED  BY <1>1, <1>2, <1>3, <1>4, <1>5, <1>6, <1>7, <1>8, <1>9, Zenon DEF Execute


(* The steps of a task that touch UTXOs, stores or accounts.               *)
Acts(t) == \/ UpdateBalanceOk(t) \/ \E x \in t.utxos : MintErc20Transfer(t, x)
           \/ remove_mint_order(t)
           \/ burn_ckbtc(t) \/ MintBtcTransfer(t) \/ MintBtcRetrieve(t)

LEMMA TaskCases ==
  ASSUME NEW t, Execute(t) \/ UpdateBalanceOk(t) \/ NoNewUtxos(t)
  PROVE  Acts(t) \/ bridgeUnchanged
<1>1. CASE NoNewUtxos(t)
  BY <1>1, Zenon DEF NoNewUtxos
<1>2. CASE \/ init_evm_state_start(t) \/ init_evm_state(t) \/ init_evm_state_err(t)
           \/ MintErc20Start(t) \/ MintErc20Params(t) \/ MintErc20Err(t)
           \/ UpdateBalanceErr(t) \/ MintBtcErr(t)
  BY <1>2, Zenon DEF init_evm_state_start, init_evm_state, init_evm_state_err, MintErc20Start,
     MintErc20Params, MintErc20Err, UpdateBalanceErr, MintBtcErr
<1>3. CASE \E x \in t.utxos : MintErc20TransferErr(t, x)
  BY <1>3, Zenon DEF MintErc20TransferErr
<1>. QED  BY <1>1, <1>2, <1>3, Zenon DEF Execute, Acts

-----------------------------------------------------------------------------
(* UTXOs, and the calls that bridge them.                                  *)

LEMMA InitUtxoInv == Init => UtxoInv
  BY DEF Init, UtxoInv, UtxoStates, Queued, Task

LEMMA UtxoKept ==
  ASSUME UtxoInv, UNCHANGED <<utxos, height_of, orders>>,
         \A q \in tasks' : q \in tasks \/ q.utxos = {}
  PROVE  UtxoInv'
  BY Zenon DEF UtxoInv, Order

LEMMA UtxoHeld ==
  ASSUME UtxoInv, UNCHANGED <<utxos, height_of, orders>>, NEW t, t \in tasks \/ t.utxos = {},
         NEW new, Replace(t, new), Holds(t, new)
  PROVE  UtxoInv'
<1>1. \A q \in tasks' : \/ q \in tasks /\ q # t
                        \/ q.utxos = {}
                        \/ q \in new /\ t \in tasks /\ q.utxos \subseteq t.utxos /\ q.user = t.user
  BY Zenon DEF Replace, Holds
<1>2. \A t1, t2 \in tasks' : t1 # t2 => t1.utxos \cap t2.utxos = {}
  BY <1>1 DEF UtxoInv, Holds
<1>3. \A q \in tasks' : \A x \in q.utxos :
         OwnerOf[x] = q.user /\ utxos[x] = "Minted" /\ ValueOf[x] > Fee
  BY <1>1, Zenon DEF UtxoInv
<1>. QED  BY <1>2, <1>3 DEF UtxoInv, Order

(* The UTXOs that ckBTC mints for are in the hands of no other call. *)
LEMMA UtxoMinted ==
  ASSUME TInv, UtxoInv, NEW t \in TaskSet, PcOfType(t), UpdateBalanceOk(t)
  PROVE  UtxoInv'
<1>. DEFINE new == InState(t.user, "confirmed")
<1>0. t.type = "Call" /\ UNCHANGED <<height_of, orders>>
  BY DEF UpdateBalanceOk, PcOfType
<1>1. PICK outcome \in [new -> Outcomes] :
        /\ utxos' = [x \in Utxos |-> IF x \in new /\ outcome[x] # "Checked"
                                     THEN outcome[x] ELSE utxos[x]]
        /\ Replace(t, Remaining(t, {x \in new : outcome[x] = "Minted"}))
  BY Zenon DEF UpdateBalanceOk
<1>. DEFINE minted == {x \in new : outcome[x] = "Minted"}
            left == Remaining(t, minted)
<1>2. \A x \in new : x \in Utxos /\ OwnerOf[x] = t.user /\ utxos[x] = "confirmed"
  BY DEF InState
<1>3. \A x \in new : outcome[x] \in {"Minted", "Rejected", "Checked"}
  BY BtcAssumption, ZenonT(60)
<1>. HIDE DEF new
<1>4. /\ utxos' \in [Utxos -> UtxoStates]
      /\ \A x \in Utxos : utxos[x] # "confirmed" => utxos'[x] = utxos[x]
      /\ \A x \in Utxos : utxos'[x] = "Moved" => utxos[x] = "Moved"
      /\ \A x \in minted : x \in Utxos /\ OwnerOf[x] = t.user /\ utxos'[x] = "Minted"
                           /\ utxos[x] = "confirmed"
  BY <1>1, <1>2, <1>3, Zenon DEF UtxoInv, UtxoStates
<1>. HIDE DEF minted
<1>5. \A r \in left : r.user = t.user /\ r.utxos = {x \in minted : ValueOf[x] > Fee}
  BY <1>0, RemainingFields
<1>6. (\A q \in tasks' : q \in tasks \/ q \in left) /\ \A r1, r2 \in left : r1 = r2
  BY <1>1, RemainingOne, Zenon DEF Replace, minted
<1>. HIDE DEF left
<1>7. \A q \in tasks : q.utxos \subseteq Utxos
  BY Zenon DEF TInv, TaskSet
<1>8. \A q \in tasks' : \A x \in q.utxos :
         OwnerOf[x] = q.user /\ utxos'[x] = "Minted" /\ ValueOf[x] > Fee
  BY <1>4, <1>5, <1>6, <1>7 DEF UtxoInv
<1>9. \A t1, t2 \in tasks' : t1 # t2 => t1.utxos \cap t2.utxos = {}
  <2>1. \A r \in left, q \in tasks : r.utxos \cap q.utxos = {}
    BY <1>4, <1>5, <1>7 DEF UtxoInv
  <2>. QED  BY <1>6, <2>1, Zenon DEF UtxoInv
<1>10. \A x \in Utxos : utxos'[x] = "Moved" => ValueOf[x] > Fee
  BY <1>4, Zenon DEF UtxoInv
<1>11. \A o \in orders' : o = Order(o.utxo)' /\ utxos'[o.utxo] = "Moved"
  <2>1. \A o \in orders : o.utxo \in Utxos
    BY Zenon DEF TInv, OrderSet
  <2>. QED  BY <1>0, <1>4, <2>1 DEF UtxoInv, Order
<1>. QED  BY <1>4, <1>8, <1>9, <1>10, <1>11, Zenon DEF UtxoInv

(* A call moves a UTXO that no other call has. *)
LEMMA UtxoMoved ==
  ASSUME TInv, UtxoInv, NEW t \in tasks, NEW x \in t.utxos, MintErc20Transfer(t, x)
  PROVE  UtxoInv'
<1>. DEFINE left == Remaining(t, t.utxos \ {x})
<1>0. t \in TaskSet /\ t.type = "Call" /\ t.utxos \subseteq Utxos /\ x \in Utxos
  BY Zenon DEF TInv, PcOfType, MintErc20Transfer, TaskSet
<1>1. /\ utxos' = [utxos EXCEPT ![x] = "Moved"] /\ UNCHANGED height_of
      /\ orders' = orders \cup {Order(x)} /\ Replace(t, left)
  BY DEF MintErc20Transfer
<1>2. utxos[x] = "Minted" /\ ValueOf[x] > Fee /\ OwnerOf[x] = t.user
  BY Zenon DEF UtxoInv
<1>3. /\ utxos' \in [Utxos -> UtxoStates] /\ utxos'[x] = "Moved"
      /\ \A y \in Utxos : y # x => utxos'[y] = utxos[y]
  BY <1>0, <1>1, Zenon DEF UtxoInv, UtxoStates
<1>4. (\A r \in left : r.user = t.user /\ r.utxos \subseteq t.utxos \ {x})
  BY <1>0, RemainingFields
<1>5. /\ \A q \in tasks' : (q \in tasks /\ q # t) \/ q \in left
      /\ \A r1, r2 \in left : r1 = r2
  BY <1>1, RemainingOne, Zenon DEF Replace
<1>. HIDE DEF left
<1>6. \A q \in tasks' : \A y \in q.utxos : y # x /\ y \in Utxos
  <2>1. \A q \in tasks : q.utxos \subseteq Utxos
    BY Zenon DEF TInv, TaskSet
  <2>. QED  BY <1>4, <1>5, <2>1 DEF UtxoInv
<1>7. \A q \in tasks' : \A y \in q.utxos :
         OwnerOf[y] = q.user /\ utxos'[y] = "Minted" /\ ValueOf[y] > Fee
  BY <1>3, <1>4, <1>5, <1>6, SMTT(30) DEF UtxoInv
<1>8. \A t1, t2 \in tasks' : t1 # t2 => t1.utxos \cap t2.utxos = {}
  BY <1>4, <1>5 DEF UtxoInv
<1>9. \A y \in Utxos : utxos'[y] = "Moved" => ValueOf[y] > Fee
  BY <1>2, <1>3, Zenon DEF UtxoInv
<1>10. \A o \in orders' : o = Order(o.utxo)' /\ utxos'[o.utxo] = "Moved"
  <2>1. \A o \in orders : o.utxo \in Utxos
    BY Zenon DEF TInv, OrderSet
  <2>2. Order(x).utxo = x
    BY Zenon DEF Order
  <2>3. \A y : Order(y)' = Order(y)
    BY <1>1 DEF Order
  <2>. QED  BY <1>1, <1>3, <2>1, <2>2, <2>3 DEF UtxoInv
<1>. QED  BY <1>3, <1>7, <1>8, <1>9, <1>10, Zenon DEF UtxoInv


(* The contract touches nothing of the canister and of ckBTC. *)
EvmStep == \/ \E u \in Users, b \in Burns : Burn(u, b.amount, b.recipient)
           \/ \E u \in Notifiers : NotifyMinter(u)
           \/ \E o \in orders : ExecuteOrder(o)

LEMMA EvmFrame ==
  ASSUME EvmStep
  PROVE  UNCHANGED <<ckbtcVars, collectVars, tasks, storeVars, orders, paid>>
  BY Zenon DEF EvmStep, Burn, NotifyMinter, ExecuteOrder, canisterUnchanged

LEMMA BitcoinFrame ==
  ASSUME NEW x, Pay(x) \/ Confirm(x)
  PROVE  UNCHANGED <<evmVars, height_of, accountVars, collectVars, tasks, storeVars, orders, paid>>
  BY Zenon DEF Pay, Confirm, canisterUnchanged

(* A collection adds at most the tasks of events, none of them a Notify. *)
LEMMA CollectAdds ==
  ASSUME TInv, NEW c, Collect(c)
  PROVE  /\ bridgeUnchanged
         /\ \A q \in tasks' : \/ q \in tasks
                              \/ \E b \in 1..Height : q = task_by_log(b) /\ events[b].type # "Notify"
<1>1. CASE CollectStart(c) \/ CollectParams(c) \/ CollectEnd(c)
  BY <1>1, Zenon DEF CollectStart, CollectParams, CollectEnd
<1>2. ASSUME NEW height, NEW skipped, CollectLogs(c, height, skipped)
      PROVE  /\ bridgeUnchanged
             /\ \A q \in tasks' :
                  \/ q \in tasks
                  \/ \E b \in 1..Height : q = task_by_log(b) /\ events[b].type # "Notify"
  <2>1. /\ bridgeUnchanged /\ \A b \in Logs(c, height, skipped) : events[b].type # "Notify"
        /\ tasks' = tasks \cup {task_by_log(b) : b \in Logs(c, height, skipped)}
    BY <1>2, Zenon DEF CollectLogs
  <2>2. Logs(c, height, skipped) \subseteq 1..Height
    BY Zenon DEF Logs
  <2>. QED  BY <2>1, <2>2, Zenon
<1>. QED  BY <1>1, <1>2, Zenon DEF Collect

LEMMA LogTask ==
  ASSUME NEW b
  PROVE  /\ task_by_log(b).utxos = {} /\ task_by_log(b).id = b /\ task_by_log(b).pc = "queued"
         /\ task_by_log(b).user = events[b].user
         /\ task_by_log(b).type = IF events[b].type = "Burnt" THEN "MintBtc" ELSE "RemoveMintOrder"
  BY DEF task_by_log, Queued, Task

(* A call of btc_to_erc20 by anyone is a step of a call that is no task.   *)
CallStep(t) == \/ t \in tasks /\ Execute(t)
               \/ t.utxos = {} /\ t.type = "Call" /\ (UpdateBalanceOk(t) \/ NoNewUtxos(t))

LEMMA NextSteps ==
  ASSUME TInv, Next
  PROVE  \/ EvmStep
         \/ \E x \in Utxos : Pay(x) \/ Confirm(x)
         \/ \E c \in Collectors : Collect(c)
         \/ \E t \in TaskSet : PcOfType(t) /\ CallStep(t)
<1>1. ASSUME NEW u \in Users, btc_to_erc20(u)
      PROVE  \E t \in TaskSet : PcOfType(t) /\ CallStep(t)
  <2>1. Call(u) \in TaskSet /\ PcOfType(Call(u)) /\ Call(u).utxos = {} /\ Call(u).type = "Call"
    BY BtcAssumption DEF Call, Task, TaskSet, TaskTypes, Pcs, PcOfType
  <2>. QED  BY <1>1, <2>1, Zenon DEF btc_to_erc20, CallStep
<1>2. ASSUME NEW t \in tasks, Execute(t)
      PROVE  \E q \in TaskSet : PcOfType(q) /\ CallStep(q)
  BY <1>2, Zenon DEF CallStep, TInv
<1>. QED  BY <1>1, <1>2, Zenon DEF Next, Environment, EvmStep

LEMMA NextUtxoInv == TInv /\ UtxoInv /\ [Next]_vars => UtxoInv'
<1>. SUFFICES ASSUME TInv, UtxoInv, [Next]_vars  PROVE UtxoInv'
  OBVIOUS
<1>1. CASE EvmStep
  <2>1. UNCHANGED <<utxos, height_of, orders, tasks>>
    BY <1>1, EvmFrame, Zenon DEF ckbtcVars
  <2>. QED  BY <2>1, UtxoKept, Zenon
<1>2. ASSUME NEW x \in Utxos, Pay(x) \/ Confirm(x)  PROVE UtxoInv'
  <2>1. UNCHANGED <<height_of, orders, tasks>>
    BY <1>2, BitcoinFrame, Zenon
  <2>2. /\ utxos[x] \notin {"Minted", "Moved"} /\ utxos' \in [Utxos -> UtxoStates]
        /\ utxos'[x] # "Moved" /\ \A y \in Utxos : y # x => utxos'[y] = utxos[y]
    BY <1>2 DEF Pay, Confirm, UtxoInv, UtxoStates
  <2>3. (\A q \in tasks : q.utxos \subseteq Utxos) /\ \A o \in orders : o.utxo \in Utxos
    BY Zenon DEF TInv, TaskSet, OrderSet
  <2>4. \A y : Order(y)' = Order(y)
    BY <2>1, Zenon DEF Order
  <2>. QED  BY <2>1, <2>2, <2>3, <2>4 DEF UtxoInv
<1>3. ASSUME NEW c \in Collectors, Collect(c)  PROVE UtxoInv'
  <2>1. UNCHANGED <<utxos, height_of, orders>> /\ \A q \in tasks' : q \in tasks \/ q.utxos = {}
    BY <1>3, CollectAdds, LogTask DEF bridgeUnchanged, ckbtcVars
  <2>. QED  BY <2>1, UtxoKept, Zenon
<1>4. ASSUME NEW t \in TaskSet, PcOfType(t), CallStep(t)  PROVE UtxoInv'
  <2>1. (t \in tasks \/ t.utxos = {}) /\ (Execute(t) \/ UpdateBalanceOk(t) \/ NoNewUtxos(t))
    BY <1>4, Zenon DEF CallStep
  <2>2. CASE UpdateBalanceOk(t)
    BY <1>4, <2>2, UtxoMinted, Zenon
  <2>3. CASE \E x \in t.utxos : MintErc20Transfer(t, x)
    BY <2>1, <2>3, UtxoMoved, Zenon
  <2>4. ASSUME ~ UpdateBalanceOk(t), ~ \E x \in t.utxos : MintErc20Transfer(t, x)
        PROVE  UtxoInv'
    <3>1. UNCHANGED <<utxos, height_of, orders>>
      BY <2>1, <2>4, TaskCases, Zenon DEF Acts, bridgeUnchanged, ckbtcVars, remove_mint_order,
         burn_ckbtc, MintBtcTransfer, MintBtcRetrieve
    <3>2. PICK new : Replace(t, new) /\ Holds(t, new)
      BY <1>4, <2>1, <2>4, TaskStep, Zenon
    <3>. QED  BY <2>1, <3>1, <3>2, UtxoHeld, Zenon
  <2>. QED  BY <2>2, <2>3, <2>4, Zenon
<1>5. CASE UNCHANGED vars
  BY <1>5, UtxoKept, Zenon DEF vars, ckbtcVars
<1>. QED  BY <1>1, <1>2, <1>3, <1>4, <1>5, NextSteps, Zenon


-----------------------------------------------------------------------------
(* Mint orders.                                                            *)

(* The contract appends one event. *)
LEMMA OneEvent ==
  ASSUME TInv, EvmStep
  PROVE  /\ Height \in Nat /\ Height' = Height + 1
         /\ events' \in Seq(EventSet) /\ DOMAIN events = 1..Height
         /\ \A b \in 1..Height : events'[b] = events[b]
<1>1. events' \in Seq(EventSet) /\ Height' = Height + 1
  BY EventsTyped, Zenon DEF EvmStep
<1>2. PICK e : events' = Append(events, e)
  BY Zenon DEF EvmStep, Burn, NotifyMinter, ExecuteOrder, Emit
<1>. QED  BY <1>1, <1>2 DEF TInv, Height

LEMMA InitOrderInv == Init => OrderInv
  BY DEF Init, OrderInv, OrdersKept, Height, Queued, Task, Store!EmptyOrders

(* What the contract mints with is used. *)
LEMMA EvmOrders ==
  ASSUME TInv, OrderInv, EvmStep
  PROVE  OrderInv'
<1>1. UNCHANGED <<tasks, orders, mint_orders>>
  BY EvmFrame, Zenon DEF storeVars
<1>2. executed \subseteq executed'
  BY Zenon DEF EvmStep, Burn, NotifyMinter, ExecuteOrder
<1>3. events'[Height + 1].type = "Minted" =>
         <<events'[Height + 1].user, events'[Height + 1].nonce>> \in executed'
  <2>0. ASSUME NEW e, Emit(e)  PROVE events'[Height + 1] = e
    BY <2>0, OneEvent, SMTT(30) DEF Emit, TInv, Height
  <2>1. ASSUME NEW u, NEW b, Burn(u, b.amount, b.recipient)
        PROVE  events'[Height + 1].type # "Minted"
    BY <2>0, <2>1, SMTT(30) DEF Burn, Event
  <2>2. ASSUME NEW u, NotifyMinter(u)  PROVE events'[Height + 1].type # "Minted"
    BY <2>0, <2>2 DEF NotifyMinter, Event
  <2>3. ASSUME NEW o, ExecuteOrder(o)
        PROVE  <<events'[Height + 1].user, events'[Height + 1].nonce>> \in executed'
    BY <2>0, <2>3 DEF ExecuteOrder, Event
  <2>. QED  BY <2>1, <2>2, <2>3, Zenon DEF EvmStep
<1>4. /\ Height \in Nat /\ Height' = Height + 1
      /\ \A b \in 1..Height : events'[b] = events[b]
  BY OneEvent, Zenon
<1>5. \A b \in 1..Height' : events'[b].type = "Minted" =>
         <<events'[b].user, events'[b].nonce>> \in executed'
  <2>. SUFFICES ASSUME NEW b \in 1..Height', events'[b].type = "Minted"
                PROVE  <<events'[b].user, events'[b].nonce>> \in executed'
    OBVIOUS
  <2>1. CASE b \in 1..Height
    BY <1>2, <1>4, <2>1 DEF OrderInv
  <2>2. CASE b = Height + 1
    BY <1>3, <2>2, Zenon
  <2>. QED  BY <1>4, <2>1, <2>2
<1>6. \A t \in tasks' : t.type = "RemoveMintOrder" =>
         t.id \in 1..Height' /\ events'[t.id].type = "Minted" /\ t.user = events'[t.id].user
  BY <1>1, <1>4 DEF OrderInv
<1>7. OrdersKept'
  BY <1>1, <1>2, Zenon DEF OrderInv, OrdersKept
<1>. QED  BY <1>1, <1>5, <1>6, <1>7, Zenon DEF OrderInv

LEMMA OrdersSame ==
  ASSUME OrderInv, UNCHANGED <<events, executed, orders, mint_orders>>,
         \A q \in tasks' : \/ q \in tasks \/ q.type # "RemoveMintOrder"
                           \/ q.id \in 1..Height /\ events[q.id].type = "Minted"
                              /\ q.user = events[q.id].user
  PROVE  OrderInv'
  BY Zenon DEF OrderInv, OrdersKept, Height

(* The order of a UTXO is stored with its own user and nonce. *)
LEMMA OrderPushed ==
  ASSUME TInv, UtxoInv, OrderInv, NEW t \in tasks, NEW x \in t.utxos, MintErc20Transfer(t, x),
         \A q \in tasks' : q \in tasks \/ q.type # "RemoveMintOrder"
  PROVE  OrderInv'
<1>. DEFINE o == Order(x)
            key == <<o.user, SRC_TOKEN, o.nonce>>
<1>1. /\ orders' = orders \cup {o} /\ UNCHANGED <<events, executed>>
      /\ mint_orders' = push(mint_orders, t.user, o.nonce, o)
  BY Zenon DEF MintErc20Transfer, evmVars
<1>2. o.user = t.user
  BY Zenon DEF Order, UtxoInv
<1>3. mint_orders' = [k \in DOMAIN mint_orders \cup {key} |-> IF k = key THEN o ELSE mint_orders[k]]
  BY <1>1, <1>2, Zenon DEF push, Store!insert
<1>. HIDE DEF o
<1>4. OrdersKept'
  BY <1>1, <1>3, Zenon DEF OrderInv, OrdersKept
<1>5. \A k \in DOMAIN mint_orders' : mint_orders'[k] \in orders'
  BY <1>1, <1>3, Zenon DEF OrderInv
<1>. QED  BY <1>1, <1>4, <1>5, Zenon DEF OrderInv, Height

(* The order that is removed has been minted with. *)
LEMMA OrderRemoved ==
  ASSUME OrderInv, NEW t \in tasks, remove_mint_order(t),
         \A q \in tasks' : q \in tasks \/ q.type # "RemoveMintOrder"
  PROVE  OrderInv'
<1>. DEFINE key == <<t.user, SRC_TOKEN, events[t.id].nonce>>
<1>1. UNCHANGED <<events, executed, orders>> /\ t.type = "RemoveMintOrder"
      /\ mint_orders' = remove_order(mint_orders, t.user, events[t.id].nonce)
  BY Zenon DEF remove_mint_order, evmVars
<1>2. <<t.user, events[t.id].nonce>> \in executed
  BY <1>1, Zenon DEF OrderInv
<1>3. mint_orders' = [k \in DOMAIN mint_orders \ {key} |-> mint_orders[k]]
  BY <1>1, Zenon DEF remove_order, Store!remove, Restrict, Store!Restrict
<1>4. OrdersKept'
  <2>1. ASSUME NEW o \in orders, <<o.user, SRC_TOKEN, o.nonce>> = key
        PROVE  <<o.user, o.nonce>> \in executed
    BY <1>2, <2>1, Zenon
  <2>. QED  BY <1>1, <1>3, <2>1, Zenon DEF OrderInv, OrdersKept
<1>5. \A k \in DOMAIN mint_orders' : mint_orders'[k] \in orders'
  BY <1>1, <1>3, Zenon DEF OrderInv
<1>. QED  BY <1>1, <1>4, <1>5, Zenon DEF OrderInv, Height

LEMMA NextOrderInv == TInv /\ UtxoInv /\ OrderInv /\ [Next]_vars => OrderInv'
<1>. SUFFICES ASSUME TInv, UtxoInv, OrderInv, [Next]_vars  PROVE OrderInv'
  OBVIOUS
<1>1. CASE EvmStep
  BY <1>1, EvmOrders, Zenon
<1>2. ASSUME NEW x \in Utxos, Pay(x) \/ Confirm(x)  PROVE OrderInv'
  BY <1>2, BitcoinFrame, OrdersSame, Zenon DEF evmVars, storeVars
<1>3. ASSUME NEW c \in Collectors, Collect(c)  PROVE OrderInv'
  <2>1. \A b \in 1..Height : events[b].type \in {"Burnt", "Notify", "Minted"}
    <3>1. \A b \in 1..Height : events[b] \in EventSet
      BY DEF TInv, Height
    <3>. QED  BY <3>1, Zenon DEF EventSet
  <2>2. \A q \in tasks' : \/ q \in tasks \/ q.type # "RemoveMintOrder"
                          \/ q.id \in 1..Height /\ events[q.id].type = "Minted"
                             /\ q.user = events[q.id].user
    BY <1>3, <2>1, CollectAdds, LogTask
  <2>3. UNCHANGED <<events, executed, orders, mint_orders>>
    BY <1>3, CollectAdds, Zenon DEF bridgeUnchanged, evmVars, storeVars
  <2>. QED  BY <2>2, <2>3, OrdersSame, Zenon
<1>4. ASSUME NEW t \in TaskSet, PcOfType(t), CallStep(t)  PROVE OrderInv'
  <2>1. /\ Execute(t) \/ UpdateBalanceOk(t) \/ NoNewUtxos(t)
        /\ t \in tasks \/ (t.utxos = {} /\ t.type = "Call")
    BY <1>4 DEF CallStep
  <2>2. \A q \in tasks' : q \in tasks \/ q.type # "RemoveMintOrder"
    <3>1. PICK new : Replace(t, new) /\ Kinds(t, new)
      BY <1>4, <2>1, TaskStep, Zenon
    <3>. QED  BY <3>1, Zenon DEF Replace, Kinds
  <2>3. CASE \E x \in t.utxos : MintErc20Transfer(t, x)
    BY <2>1, <2>2, <2>3, OrderPushed
  <2>4. CASE remove_mint_order(t)
    <3>1. t \in tasks
      BY <2>1, <2>4, Zenon DEF remove_mint_order
    <3>. QED  BY <2>2, <2>4, <3>1, OrderRemoved, Zenon
  <2>5. ASSUME ~ remove_mint_order(t), ~ \E x \in t.utxos : MintErc20Transfer(t, x)
        PROVE  OrderInv'
    <3>1. UNCHANGED <<events, executed, orders, mint_orders>>
      BY <2>1, <2>5, TaskCases, Zenon DEF Acts, bridgeUnchanged, evmVars, storeVars,
         UpdateBalanceOk, burn_ckbtc, MintBtcTransfer, MintBtcRetrieve
    <3>. QED  BY <2>2, <3>1, OrdersSame
  <2>. QED  BY <2>3, <2>4, <2>5, Zenon
<1>5. CASE UNCHANGED vars
  BY <1>5, OrdersSame DEF vars, evmVars, storeVars
<1>. QED  BY <1>1, <1>2, <1>3, <1>4, <1>5, NextSteps, Zenon


LEMMA OrderInvariant == Spec => [](TInv /\ UtxoInv /\ OrderInv)
<1>1. Init => TInv /\ UtxoInv /\ OrderInv
  BY InitTInv, InitUtxoInv, InitOrderInv
<1>2. TInv /\ UtxoInv /\ OrderInv /\ [Next]_vars => TInv' /\ UtxoInv' /\ OrderInv'
  BY NextTInv, NextUtxoInv, NextOrderInv
<1>. QED  BY <1>1, <1>2, PTL DEF Spec

(* The store drops a signed order only when the contract has minted with   *)
(* its nonce or when a later order has the same nonce: remove_mint_order,  *)
(* however late its task runs and however often its event was collected,   *)
(* removes no order that is still to be minted.                            *)
THEOREM OrdersStayKept == Spec => []OrdersKept
  BY OrderInvariant, PTL DEF OrderInv

-----------------------------------------------------------------------------
(* Copies of next_block.                                                   *)

LEMMA InitBlockInv == Init => BlockInv
  BY SMTT(30) DEF Init, BlockInv, Idle, Queued, Task

LEMMA NextBlockInv == TInv /\ BlockInv /\ [Next]_vars => BlockInv'
<1>. SUFFICES ASSUME TInv, BlockInv, [Next]_vars  PROVE BlockInv'
  OBVIOUS
<1>0. /\ Height \in Nat /\ next_block \in Nat \cup {None} /\ None \notin Nat
      /\ collectors \in [Collectors -> CollectorSet]
      /\ \A c \in Collectors : collectors[c].snap \in Nat
      /\ \A t \in tasks : t.snap \in Nat
  BY BtcAssumption DEF TInv, Height, CollectorSet, TaskSet
<1>1. CASE EvmStep
  <2>1. Height' = Height + 1 /\ UNCHANGED <<next_block, collectors, tasks>>
    BY <1>1, OneEvent, EvmFrame, Zenon DEF collectVars
  <2>. QED  BY <1>0, <2>1 DEF BlockInv
<1>2. ASSUME NEW x \in Utxos, Pay(x) \/ Confirm(x)  PROVE BlockInv'
  BY <1>2, BitcoinFrame, Zenon DEF evmVars, collectVars, BlockInv, Height
<1>3. ASSUME NEW c \in Collectors, Collect(c)  PROVE BlockInv'
  <2>1. UNCHANGED Height
    BY <1>3, CollectAdds, Zenon DEF bridgeUnchanged, evmVars, Height
  <2>2. \A q \in tasks' : q \in tasks \/ q.type # "MintErc20"
    BY <1>3, CollectAdds, LogTask
  <2>3. CASE CollectStart(c)
    <3>1. /\ next_block # None /\ UNCHANGED next_block
          /\ collectors' = [collectors EXCEPT ![c] = [pc |-> "logs", snap |-> next_block]]
      BY <2>3, Zenon DEF CollectStart
    <3>. QED  BY <1>0, <2>1, <2>2, <3>1, Zenon DEF BlockInv
  <2>4. ASSUME NEW height \in 0..Height, NEW skipped, CollectLogs(c, height, skipped)
        PROVE  BlockInv'
    <3>1. /\ next_block' = height + 1
          /\ collectors' = [collectors EXCEPT ![c] = [pc |-> "params", snap |-> next_block']]
      BY <2>4, Zenon DEF CollectLogs, NextBlock
    <3>. QED  BY <1>0, <2>1, <2>2, <3>1 DEF BlockInv
  <2>5. CASE CollectParams(c)
    <3>1. /\ next_block' = collectors[c].snap /\ collectors[c].pc # "idle"
          /\ collectors' = [collectors EXCEPT ![c] = Idle]
      BY <2>5, Zenon DEF CollectParams
    <3>. QED  BY <1>0, <2>1, <2>2, <3>1, Zenon DEF BlockInv, Idle
  <2>6. CASE CollectEnd(c)
    <3>1. UNCHANGED next_block /\ collectors' = [collectors EXCEPT ![c] = Idle]
      BY <2>6, Zenon DEF CollectEnd
    <3>. QED  BY <1>0, <2>1, <2>2, <3>1, Zenon DEF BlockInv, Idle
  <2>. QED  BY <1>3, <2>3, <2>4, <2>5, <2>6, Zenon DEF Collect
<1>4. ASSUME NEW t \in TaskSet, PcOfType(t), CallStep(t)  PROVE BlockInv'
  <2>1. Execute(t) \/ UpdateBalanceOk(t) \/ NoNewUtxos(t)
    BY <1>4, ZenonT(60) DEF CallStep
  <2>2. UNCHANGED <<events, collectors>>
        /\ (UNCHANGED next_block \/ init_evm_state(t) \/ MintErc20Params(t))
    BY <2>1, TaskFrame, Zenon
  <2>3. next_block' # None => next_block' <= Height + 1
    <3>1. CASE init_evm_state(t)
      BY <1>0, <3>1 DEF init_evm_state, TaskSet
    <3>2. CASE MintErc20Params(t)
      <4>1. t \in tasks /\ t.type = "MintErc20" /\ t.pc = "params" /\ next_block' = t.snap
        BY <1>4, <3>2, Zenon DEF MintErc20Params, CallStep
      <4>. QED  BY <4>1, Zenon DEF BlockInv
    <3>. QED  BY <2>2, <3>1, <3>2, Zenon DEF BlockInv
  <2>4. \A q \in tasks' : q.type = "MintErc20" /\ q.pc = "params" => q.snap <= Height + 1
    <3>1. PICK new : Replace(t, new) /\ Kinds(t, new)
      BY <1>4, <2>1, TaskStep, Zenon
    <3>. QED  BY <3>1, Zenon DEF Replace, Kinds, BlockInv
  <2>. QED  BY <2>2, <2>3, <2>4, Zenon DEF BlockInv, Height
<1>5. CASE UNCHANGED vars
  BY <1>5 DEF vars, evmVars, collectVars, BlockInv, Height
<1>. QED  BY <1>1, <1>2, <1>3, <1>4, <1>5, NextSteps
=============================================================================
