---------------------------- MODULE Icrc2Proofs ----------------------------
(***************************************************************************)
(* Proofs about Icrc2Minter: its collection tasks use their lock as        *)
(* CollectLock says, and so are kept apart, for any number of tasks and    *)
(* any timeout.                                                            *)
(***************************************************************************)
EXTENDS Icrc2Minter, TLAPS

held == [c \in Collectors |-> collectors[c].ts]

(* A collection task has a time stamp while it runs. *)
CollectInv ==
    /\ now \in Nat
    /\ DOMAIN collectors = Collectors
    /\ \A c \in Collectors : /\ DOMAIN collectors[c] = {"pc", "ts", "snap"}
                             /\ collectors[c].ts \in Nat \cup {None}
                             /\ collectors[c].pc = "idle" <=> collectors[c].ts = None

LEMMA InitCollectInv == Init => CollectInv /\ Lock!Init
<1>. SUFFICES ASSUME Init  PROVE CollectInv /\ Lock!Init
  OBVIOUS
<1>1. collectors = [c \in Collectors |-> [pc |-> "idle", ts |-> None, snap |-> 0]]
      /\ now = 0 /\ lock = None
  BY DEF Init
<1>. QED  BY <1>1 DEF CollectInv, Lock!Init

(* Only a step of a collection task touches the lock and the tasks' stamps. *)
LEMMA OtherSteps ==
  ASSUME Next, ~ Tick, ~ \E c \in Collectors : Collect(c) \/ CollectErr(c)
  PROVE  UNCHANGED <<now, lock, collectors>>
<1>1. ASSUME NEW t, Execute(t) \/ TaskErr(t)  PROVE UNCHANGED <<now, lock, collectors>>
  <2>1. outsideUnchanged
    BY <1>1, Zenon DEF Execute, TaskErr, StartOn, burn_icrc2_start, burn_icrc2_tokens,
       prepare_mint_order_start, prepare_mint_order_signed, prepare_mint_order_params,
       send_mint_transaction_start, send_mint_transaction, mint_icrc2_start, mint_icrc2,
       mint_icrc2_refund, remove_mint_order
  <2>. QED  BY <2>1 DEF outsideUnchanged, collectVars
<1>2. CASE Environment
  <2>1. canisterUnchanged
    BY <1>2, Zenon DEF Environment, NotifyMinter, Burn, ExecuteOrder
  <2>. QED  BY <2>1 DEF canisterUnchanged, collectVars
<1>3. CASE init_evm_info \/ set_bft_bridge_contract
  BY <1>3, Zenon DEF init_evm_info, set_bft_bridge_contract, collectVars
<1>. QED  BY <1>1, <1>2, <1>3, Zenon DEF Next

LEMMA StartSteps ==
  ASSUME CollectInv, NEW c \in Collectors, CollectStart(c)
  PROVE  CollectInv' /\ (Lock!take(c) \/ Lock!TakeAndReturn(c))
<1>1. now \in Nat /\ collectors[c].ts = None /\ CanTake(lock, now) /\ now' = now
  BY DEF CollectInv, CollectStart
<1>2. CASE next_block = None \/ ~ contractSet
  <2>1. lock' = None /\ collectors' = collectors
    BY <1>2 DEF CollectStart
  <2>2. CollectInv'
    BY <1>1, <2>1 DEF CollectInv
  <2>. QED  BY <1>1, <2>1, <2>2, SMTT(30) DEF Lock!TakeAndReturn, Lock!CanTake, CanTake
<1>3. CASE ~ (next_block = None \/ ~ contractSet)
  <2>1. /\ lock' = now
        /\ collectors' = [collectors EXCEPT ![c] =
                            [pc |-> "logs", ts |-> now, snap |-> next_block]]
    BY <1>3 DEF CollectStart
  <2>2. /\ DOMAIN collectors' = Collectors
        /\ collectors'[c] = [pc |-> "logs", ts |-> now, snap |-> next_block]
        /\ \A d \in Collectors : d # c => collectors'[d] = collectors[d]
    BY <2>1 DEF CollectInv
  <2>3. CollectInv'
    BY <1>1, <2>2, LockAssumption, SMTT(30) DEF CollectInv
  <2>4. held' = [held EXCEPT ![c] = now]
    <3>1. \A d \in Collectors : collectors'[d].ts = IF d = c THEN now ELSE collectors[d].ts
      BY <2>2
    <3>2. [held EXCEPT ![c] = now] = [d \in Collectors |-> IF d = c THEN now ELSE collectors[d].ts]
      BY Zenon DEF held
    <3>. QED  BY <3>1, <3>2, Zenon DEF held
  <2>5. held[c] = None
    BY <1>1, Zenon DEF held
  <2>. QED  BY <1>1, <2>1, <2>3, <2>4, <2>5, Zenon DEF Lock!take, Lock!CanTake, CanTake, held
<1>. QED  BY <1>2, <1>3

LEMMA ReturnSteps ==
  ASSUME CollectInv, NEW c \in Collectors, collectors[c].pc # "idle", CollectReturn(c), now' = now
  PROVE  CollectInv' /\ Lock!drop(c)
<1>1. /\ DOMAIN collectors' = Collectors
      /\ collectors'[c] = [pc |-> "idle", ts |-> None, snap |-> 0]
      /\ \A d \in Collectors : d # c => collectors'[d] = collectors[d]
  BY DEF CollectInv, CollectReturn
<1>2. CollectInv'
  BY <1>1 DEF CollectInv
<1>3. held' = [held EXCEPT ![c] = None]
  <2>1. \A d \in Collectors : collectors'[d].ts = IF d = c THEN None ELSE collectors[d].ts
    BY <1>1
  <2>2. [held EXCEPT ![c] = None] = [d \in Collectors |-> IF d = c THEN None ELSE collectors[d].ts]
    BY Zenon DEF held
  <2>. QED  BY <2>1, <2>2, Zenon DEF held
<1>4. held[c] # None /\ lock' = AfterDrop(lock, held[c])
  BY Zenon DEF held, CollectInv, CollectReturn
<1>. QED  BY <1>2, <1>3, <1>4, Zenon DEF Lock!drop, Lock!AfterDrop, AfterDrop, held

LEMMA LogsStep ==
  ASSUME CollectInv, NEW c \in Collectors, NEW height, CollectLogs(c, height)
  PROVE  CollectInv' /\ UNCHANGED Lock!vars
<1>1. PICK x : /\ collectors[c].pc = "logs" /\ now' = now /\ lock' = lock
               /\ collectors' = [collectors EXCEPT ![c].pc = "params", ![c].snap = x]
  BY Zenon DEF CollectLogs
<1>2. DOMAIN collectors' = Collectors /\ \A d \in Collectors : d # c => collectors'[d] = collectors[d]
  BY <1>1 DEF CollectInv
<1>3. /\ DOMAIN collectors'[c] = {"pc", "ts", "snap"} /\ collectors'[c].pc = "params"
      /\ collectors'[c].ts = collectors[c].ts
  BY <1>1 DEF CollectInv
<1>4. CollectInv'
  BY <1>1, <1>2, <1>3, SMTT(30) DEF CollectInv
<1>5. held' = held
  BY <1>2, <1>3 DEF held
<1>. QED  BY <1>1, <1>4, <1>5, Zenon DEF Lock!vars, held

LEMMA TickStep ==
  ASSUME CollectInv, Tick
  PROVE  CollectInv' /\ Lock!Tick
<1>1. now < MaxTime /\ now' = now + 1 /\ collectors' = collectors /\ lock' = lock
  BY DEF Tick, collectVars
<1>2. CollectInv'
  BY <1>1 DEF CollectInv
<1>3. held' = held
  BY <1>1, Zenon DEF held
<1>. QED  BY <1>1, <1>2, <1>3, Zenon DEF Lock!Tick, held

LEMMA NextCollectInv == CollectInv /\ [Next]_vars => CollectInv' /\ [Lock!Next]_(Lock!vars)
<1>. SUFFICES ASSUME CollectInv, [Next]_vars  PROVE CollectInv' /\ [Lock!Next]_(Lock!vars)
  OBVIOUS
<1>1. CASE Tick
  BY <1>1, TickStep, Zenon DEF Lock!Next
<1>2. ASSUME NEW c \in Collectors, Collect(c) \/ CollectErr(c)
      PROVE  CollectInv' /\ [Lock!Next]_(Lock!vars)
  <2>1. CASE CollectStart(c)
    BY <2>1, StartSteps, Zenon DEF Lock!Next
  <2>2. CASE CollectParams(c) \/ CollectErr(c)
    <3>1. collectors[c].pc # "idle" /\ CollectReturn(c) /\ now' = now
      BY <2>2 DEF CollectParams, CollectErr
    <3>. QED  BY <3>1, ReturnSteps, Zenon DEF Lock!Next
  <2>3. ASSUME NEW height, CollectLogs(c, height)  PROVE CollectInv' /\ UNCHANGED Lock!vars
    BY <2>3, LogsStep
  <2>. QED  BY <1>2, <2>1, <2>2, <2>3, Zenon DEF Collect
<1>3. CASE UNCHANGED <<now, lock, collectors>>
  <2>1. held' = held
    BY <1>3, Zenon DEF held
  <2>2. CollectInv'
    BY <1>3 DEF CollectInv
  <2>. QED  BY <1>3, <2>1, <2>2, Zenon DEF Lock!vars, held
<1>4. CASE UNCHANGED vars
  BY <1>3, <1>4 DEF vars, collectVars
<1>. QED  BY <1>1, <1>2, <1>3, <1>4, OtherSteps, Zenon

(* The canister implements CollectLock: whatever its other tasks, the      *)
(* users and the chain do, its collection tasks take the lock, keep it     *)
(* across their awaits and drop it as CollectLogsLock says.                *)
THEOREM LockImplemented == Spec => LockSpec
  BY InitCollectInv, NextCollectInv, PTL DEF Spec, LockSpec, Lock!Spec

-----------------------------------------------------------------------------
(* What the lock does for the tasks.                                       *)

LockInv == Lock!TypeOK /\ Lock!CollectorsApart /\ Lock!LockInv

LEMMA InitLockInv == Lock!Init => LockInv
  BY LockAssumption, SMTT(30) DEF Lock!Init, LockInv, Lock!TypeOK, Lock!CollectorsApart, Lock!LockInv,
     Lock!Running

(* Each step of the lock preserves the inductive invariant. *)
LEMMA NextLockInv == LockInv /\ [Lock!Next]_(Lock!vars) => LockInv'
<1>. SUFFICES ASSUME LockInv, [Lock!Next]_(Lock!vars)  PROVE LockInv'
  OBVIOUS
<1>0. /\ now \in 0..MaxTime /\ lock \in 0..now \cup {None}
      /\ held \in [Collectors -> 0..now \cup {None}]
      /\ Lock!Running = {u \in Collectors : held[u] # None}
  BY Zenon DEF LockInv, Lock!TypeOK, Lock!Running, held
<1>. USE LockAssumption DEF LockInv, Lock!TypeOK, held
<1>1. CASE Lock!Tick
  BY <1>1 DEF Lock!Tick, Lock!CollectorsApart, Lock!LockInv, Lock!Running
<1>2. ASSUME NEW t \in Collectors, Lock!take(t)  PROVE LockInv'
  <2>1. /\ held[t] = None /\ held' = [held EXCEPT ![t] = now]
        /\ lock' = now /\ now' = now /\ CanTake(lock, now)
    BY <1>2, Zenon DEF Lock!take, Lock!CanTake, CanTake
  <2>2. \A u \in Lock!Running :
          /\ lock = held[u] \/ now > held[u] + COLLECT_EVM_LOGS_TIMEOUT
          /\ lock # None => held[u] <= lock
    BY Zenon DEF Lock!LockInv
  <2>3. Lock!Running' = {u \in Collectors : held'[u] # None}
    BY Zenon DEF Lock!Running
  <2>. HIDE DEF held, LockInv, Lock!TypeOK
  <2>4. held' \in [Collectors -> 0..now \cup {None}]
    BY <1>0, <2>1
  <2>5. /\ Lock!Running' = Lock!Running \cup {t} /\ held'[t] = now
        /\ \A u \in Lock!Running : u # t /\ held'[u] = held[u] /\ held[u] \in 0..now
    BY <1>0, <2>1, <2>3, SMTT(30)
  <2>6. \A u \in Lock!Running : now > held[u] + COLLECT_EVM_LOGS_TIMEOUT
    <3>. SUFFICES ASSUME NEW u \in Lock!Running
                  PROVE  now > held[u] + COLLECT_EVM_LOGS_TIMEOUT
      BY Zenon
    <3>1. held[u] \in 0..now /\ now \in Nat /\ held[u] # None
      BY <1>0, <2>5
    <3>2. lock # None => lock + COLLECT_EVM_LOGS_TIMEOUT < now
      BY <2>1, Zenon DEF CanTake
    <3>3. lock = held[u] \/ now > held[u] + COLLECT_EVM_LOGS_TIMEOUT
      BY <2>2, Zenon
    <3>. QED  BY <3>1, <3>2, <3>3, Zenon
  <2>7. \A u, v \in Lock!Running' :
          u # v => \/ held'[u] > held'[v] + COLLECT_EVM_LOGS_TIMEOUT
                   \/ held'[v] > held'[u] + COLLECT_EVM_LOGS_TIMEOUT
    <3>1. \A u, v \in Lock!Running :
            u # v => \/ held[u] > held[v] + COLLECT_EVM_LOGS_TIMEOUT
                     \/ held[v] > held[u] + COLLECT_EVM_LOGS_TIMEOUT
      BY Zenon DEF LockInv, Lock!CollectorsApart, held
    <3>. QED  BY <2>5, <2>6, <3>1, Zenon
  <2>8. \A u \in Lock!Running' :
          /\ lock' = held'[u] \/ now' > held'[u] + COLLECT_EVM_LOGS_TIMEOUT
          /\ lock' # None => held'[u] <= lock'
    BY <1>0, <2>1, <2>5, <2>6, SMTT(30)
  <2>9. Lock!TypeOK'
    BY <1>0, <2>1, <2>4, Zenon DEF Lock!TypeOK, held
  <2>10. Lock!CollectorsApart'
    BY <2>7, Zenon DEF Lock!CollectorsApart, held
  <2>11. Lock!LockInv'
    BY <2>8, Zenon DEF Lock!LockInv, held
  <2>. QED  BY <2>9, <2>10, <2>11, Zenon DEF LockInv
<1>3. ASSUME NEW t \in Collectors, Lock!drop(t)  PROVE LockInv'
  <2>. USE <1>3 DEF Lock!drop
  <2>1. Lock!TypeOK'
    BY Zenon DEF Lock!AfterDrop
  <2>2. /\ Lock!Running' = Lock!Running \ {t}
        /\ \A u \in Lock!Running' : held'[u] = held[u]
    BY Zenon DEF Lock!Running
  <2>3. Lock!CollectorsApart'
    BY <2>2, ZenonT(60) DEF Lock!CollectorsApart
  <2>4. Lock!LockInv'
    <3>1. ASSUME NEW u \in Lock!Running, u # t, lock = held[u], lock <= held[t]
          PROVE  now > held[u] + COLLECT_EVM_LOGS_TIMEOUT
      BY <3>1 DEF Lock!CollectorsApart, Lock!Running
    <3>. QED  BY <2>2, <3>1, SMTT(30) DEF Lock!LockInv, Lock!AfterDrop, Lock!Running
  <2>. QED  BY <2>1, <2>3, <2>4, SMTT(30)
<1>4. ASSUME NEW t \in Collectors, Lock!Panic(t)  PROVE LockInv'
  BY <1>4, Zenon DEF Lock!Panic, Lock!CollectorsApart, Lock!LockInv, Lock!Running
<1>5. ASSUME NEW t \in Collectors, Lock!TakeAndReturn(t)  PROVE LockInv'
  BY <1>5 DEF Lock!TakeAndReturn, Lock!CanTake, Lock!CollectorsApart, Lock!LockInv, Lock!Running
<1>6. CASE UNCHANGED Lock!vars
  BY <1>6 DEF Lock!vars, Lock!CollectorsApart, Lock!LockInv, Lock!Running
<1>. QED  BY <1>1, <1>2, <1>3, <1>4, <1>5, <1>6, SMTT(30) DEF Lock!Next

(***************************************************************************)
(* For any number of collection tasks and any timeout, two of them overlap *)
(* only when the later one started more than the timeout after the earlier *)
(* (CollectLogsLock::take and its Drop implementation, as collect_evm_logs *)
(* uses them).                                                             *)
(***************************************************************************)
THEOREM CollectorsStayApart ==
  Spec => [](Lock!TypeOK /\ Lock!LockInv /\ Lock!CollectorsApart)
<1>1. Lock!Spec => []LockInv
  BY InitLockInv, NextLockInv, PTL DEF Lock!Spec
<1>. QED  BY <1>1, LockImplemented, PTL DEF LockSpec, LockInv

(***************************************************************************)
(* For any number of collection tasks and any timeout, a task that         *)
(* outlived its lock never releases the lock of its successor (Drop for    *)
(* CollectLogsLock).                                                       *)
(***************************************************************************)
THEOREM HolderReleases == Spec => Lock!OnlyHolderReleases
<1>. DEFINE Released == lock # None /\ lock' = None /\ ~ Lock!CanTake(lock, now) =>
                          \E t \in Lock!Running : held[t] = lock /\ held'[t] = None
<1>1. LockInv /\ [Lock!Next]_(Lock!vars) => [Released]_(Lock!vars)
  <2>. SUFFICES ASSUME LockInv, Lock!Next, lock # None, lock' = None,
                       ~ Lock!CanTake(lock, now)
                PROVE  \E t \in Lock!Running : held[t] = lock /\ held'[t] = None
    BY Zenon DEF Lock!vars
  <2>. USE LockAssumption DEF LockInv, Lock!TypeOK, held
  <2>1. CASE Lock!Tick
    BY <2>1 DEF Lock!Tick
  <2>2. ASSUME NEW t \in Collectors, Lock!take(t)  PROVE FALSE
    BY <2>2, Zenon DEF Lock!take
  <2>3. ASSUME NEW t \in Collectors, Lock!drop(t)
        PROVE  t \in Lock!Running /\ held[t] = lock /\ held'[t] = None
    BY <2>3 DEF Lock!drop, Lock!AfterDrop, Lock!LockInv, Lock!Running
  <2>4. ASSUME NEW t \in Collectors, Lock!Panic(t)  PROVE FALSE
    BY <2>4, Zenon DEF Lock!Panic
  <2>5. ASSUME NEW t \in Collectors, Lock!TakeAndReturn(t)  PROVE FALSE
    BY <2>5, Zenon DEF Lock!TakeAndReturn
  <2>. QED  BY <2>1, <2>2, <2>3, <2>4, <2>5, Zenon DEF Lock!Next
<1>2. Lock!Spec => []LockInv
  BY InitLockInv, NextLockInv, PTL DEF Lock!Spec
<1>. HIDE DEF Released
<1>3. Lock!Spec => [][Released]_(Lock!vars)
  BY <1>1, <1>2, PTL DEF Lock!Spec
<1>. QED  BY <1>3, LockImplemented, PTL DEF LockSpec, Lock!OnlyHolderReleases, Released, held

-----------------------------------------------------------------------------
(* What the minter inherits from TokenBridge, the abstract bridge that it  *)
(* implements: the tokens, whatever the tasks and their order.             *)

VARIABLES locked, owed, vouchers, wrapped, burnt

TB == INSTANCE TokenBridge

TokenTypes == /\ locked \in Nat /\ owed \in Nat /\ vouchers \in Nat
              /\ wrapped \in Nat /\ burnt \in Nat

(***************************************************************************)
(* No step of the bridge creates or forgets a token: what a minter         *)
(* canister holds is always what it owes, has signed, minted or seen       *)
(* burnt, so that the ICRC-2 and the ERC-20 minter, which implement this   *)
(* specification, never promise a token that they do not hold.             *)
(***************************************************************************)
THEOREM TokensStayBacked == TB!Spec => [](TokenTypes /\ TB!Backed)
<1>1. TB!Init => TokenTypes /\ TB!Backed
  BY DEF TB!Init, TokenTypes, TB!Backed
<1>2. TokenTypes /\ TB!Backed /\ [TB!Next]_(TB!vars) => (TokenTypes /\ TB!Backed)'
  <2>. SUFFICES ASSUME TokenTypes, TB!Backed, [TB!Next]_(TB!vars)
                PROVE  (TokenTypes /\ TB!Backed)'
    OBVIOUS
  <2>. USE DEF TokenTypes, TB!Backed
  <2>1. CASE TB!Deposit
    BY <2>1 DEF TB!Deposit
  <2>2. CASE TB!Sign
    BY <2>2 DEF TB!Sign
  <2>3. CASE TB!Mint
    BY <2>3 DEF TB!Mint
  <2>4. CASE TB!Burn
    BY <2>4 DEF TB!Burn
  <2>5. CASE TB!Pay
    BY <2>5 DEF TB!Pay
  <2>6. CASE TB!Refund
    BY <2>6 DEF TB!Refund
  <2>7. CASE UNCHANGED TB!vars
    BY <2>7 DEF TB!vars
  <2>. QED  BY <2>1, <2>2, <2>3, <2>4, <2>5, <2>6, <2>7, Zenon DEF TB!Next
<1>. QED  BY <1>1, <1>2, PTL DEF TB!Spec
=============================================================================
