-------------------------- MODULE BtcMoneyProofs ---------------------------
(***************************************************************************)
(* Proofs about what BtcBridge does with ckBTC and wrapped tokens, for any *)
(* users, UTXOs, burns, overlapping calls and number of events.            *)
(***************************************************************************)
EXTENDS BtcBridgeProofs, SumLemmas

AccountInv ==
    /\ subaccount \in [Users -> Nat] /\ wrapped \in [Users -> Nat]
    /\ main \in Nat /\ withdrawal \in Nat

Moved == {x \in Utxos : utxos[x] = "Moved"}
Net == [x \in Utxos |-> ValueOf[x] - Fee]

(* The tokens were minted for some of the moved UTXOs, whose nonces are    *)
(* used: an order with another UTXO of the same nonce is never executed.   *)
MintInv ==
    \E W \in SUBSET Moved :
        /\ SumFunction(wrapped) + Burnt = SumFunctionOnSet(Net, W)
        /\ \A x \in W : <<OwnerOf[x], height_of[x]>> \in executed

(* Burns have their own nonces, and a request is about the burn that has   *)
(* its id as nonce.                                                        *)
RequestInv ==
    /\ \A b \in BurntEvents : events[b].nonce < Cardinality(BurntEvents) /\ events[b].amount \in Nat
    /\ \A b1, b2 \in BurntEvents : events[b1].nonce = events[b2].nonce => b1 = b2
    /\ \A t \in tasks : t.type = "MintBtc" => t.id \in BurntEvents
    /\ \A id \in DOMAIN burn_requests :
           /\ \E b \in BurntEvents : events[b].nonce = id /\ events[b].amount = burn_requests[id].amount
           /\ burn_requests[id].is_transferred => Fee <= burn_requests[id].amount

Retrieving == {t \in tasks : t.pc = "retrieve"}
Withdrawn == [t \in Retrieving |-> events[t.id].amount - Fee]

(* Requests that are marked transferred while no task is about to retrieve *)
(* what they are paid with: their task has failed and is queued again.     *)
Stranded == {id \in DOMAIN burn_requests :
                /\ burn_requests[id].is_transferred
                /\ \A t \in Retrieving : events[t.id].nonce # id}
Requested == [id \in DOMAIN burn_requests |-> burn_requests[id].amount - Fee]

(* Each task that is about to retrieve has its own ckBTC in the withdrawal *)
(* account, and so has each stranded request.                              *)
WithdrawInv ==
    /\ IsFiniteSet(Retrieving)
    /\ \A t \in Retrieving : Fee <= events[t.id].amount
    /\ SumFunctionOnSet(Withdrawn, Retrieving) + SumFunctionOnSet(Requested, Stranded)
         <= withdrawal

-----------------------------------------------------------------------------
(* Burns and their requests.                                               *)

LEMMA BurntFinite ==
  ASSUME TInv
  PROVE  /\ IsFiniteSet(BurntEvents) /\ Cardinality(BurntEvents) \in Nat
         /\ BurntEvents \subseteq 1..Height /\ Height \in Nat
<1>1. BurntEvents \subseteq 1..Height /\ Height \in Nat
  BY DEF BurntEvents, TInv, Height
<1>2. IsFiniteSet(1..Height)
  BY <1>1, FS_Interval
<1>3. IsFiniteSet(BurntEvents)
  BY <1>1, <1>2, FS_Subset, Zenon
<1>. QED  BY <1>1, <1>3, FS_CardinalityType

NewBurn == /\ BurntEvents' = BurntEvents \cup {Height + 1}
           /\ Cardinality(BurntEvents)' = Cardinality(BurntEvents) + 1
           /\ events'[Height + 1].nonce = Cardinality(BurntEvents)
           /\ events'[Height + 1].amount \in Nat

(* The contract numbers its burns from zero. *)
LEMMA BurntEffect ==
  ASSUME TInv, EvmStep
  PROVE  /\ Height + 1 \notin BurntEvents /\ \A b \in BurntEvents : events'[b] = events[b]
         /\ \/ UNCHANGED BurntEvents /\ ~ \E u \in Users, b \in Burns : Burn(u, b.amount, b.recipient)
            \/ NewBurn /\ \E u \in Users, b \in Burns : Burn(u, b.amount, b.recipient)
<1>1. /\ Height \in Nat /\ Height' = Height + 1
      /\ \A b \in 1..Height : events'[b] = events[b]
  BY OneEvent
<1>2. BurntEvents \subseteq 1..Height /\ IsFiniteSet(BurntEvents) /\ Cardinality(BurntEvents) \in Nat
  BY BurntFinite
<1>3. Height + 1 \notin BurntEvents /\ \A b \in BurntEvents : events'[b] = events[b]
  BY <1>1, <1>2
<1>4. BurntEvents' = IF events'[Height + 1].type = "Burnt"
                     THEN BurntEvents \cup {Height + 1} ELSE BurntEvents
  <2>1. 1..(Height + 1) = (1..Height) \cup {Height + 1}
    BY <1>1
  <2>2. BurntEvents' = {b \in 1..(Height + 1) : events'[b].type = "Burnt"}
    BY <1>1 DEF BurntEvents
  <2>. QED  BY <1>1, <2>1, <2>2, Zenon DEF BurntEvents
<1>5. ASSUME NEW e, Emit(e)  PROVE events'[Height + 1] = e
  BY <1>5, OneEvent DEF Emit, TInv, Height
<1>6. ASSUME NEW u, NEW b \in Burns, Burn(u, b.amount, b.recipient)  PROVE NewBurn
  <2>1. events'[Height + 1] = Event("Burnt", u, b.recipient, b.amount, Cardinality(BurntEvents))
    BY <1>5, <1>6, Zenon DEF Burn
  <2>2. BurntEvents' = BurntEvents \cup {Height + 1}
    BY <1>4, <2>1 DEF Event
  <2>3. Cardinality(BurntEvents \cup {Height + 1}) = Cardinality(BurntEvents) + 1
    BY <1>2, <1>3, FS_AddElement, Zenon
  <2>4. Cardinality(BurntEvents)' = Cardinality(BurntEvents) + 1
    BY <2>2, <2>3, Zenon
  <2>. QED  BY <2>1, <2>2, <2>4, BtcAssumption DEF NewBurn, Event
<1>7. ASSUME NEW u, NotifyMinter(u)  PROVE UNCHANGED BurntEvents
  BY <1>4, <1>5, <1>7 DEF NotifyMinter, Event
<1>8. ASSUME NEW o, ExecuteOrder(o)  PROVE UNCHANGED BurntEvents
  BY <1>4, <1>5, <1>8 DEF ExecuteOrder, Event
<1>. QED  BY <1>3, <1>6, <1>7, <1>8, Zenon DEF EvmStep

LEMMA InitRequestInv == Init => RequestInv
  BY DEF Init, RequestInv, BurntEvents, Height, Queued, Task

LEMMA EvmRequests ==
  ASSUME TInv, RequestInv, EvmStep
  PROVE  RequestInv'
<1>1. UNCHANGED <<tasks, burn_requests>> /\ \A b \in BurntEvents : events'[b] = events[b]
  BY EvmFrame, BurntEffect DEF storeVars
<1>2. CASE UNCHANGED BurntEvents
  <2>1. Cardinality(BurntEvents)' = Cardinality(BurntEvents)
    BY <1>2, Zenon
  <2>. QED  BY <1>1, <1>2, <2>1 DEF RequestInv
<1>3. CASE NewBurn
  <2>. DEFINE n == Cardinality(BurntEvents)
              m == Cardinality(BurntEvents)'
              new == Height + 1
  <2>1. n \in Nat /\ m = n + 1 /\ BurntEvents' = BurntEvents \cup {new} /\ new \notin BurntEvents
        /\ events'[new].nonce = n /\ events'[new].amount \in Nat
    BY <1>3, BurntFinite, BurntEffect, Zenon DEF NewBurn
  <2>2. \A b \in BurntEvents : events[b].nonce \in Nat /\ events[b].nonce < n
    <3>1. \A b \in 1..Height : events[b] \in EventSet
      BY DEF TInv, Height
    <3>2. \A b \in BurntEvents : events[b].nonce \in Nat
      BY <3>1, BurntFinite, Zenon DEF EventSet
    <3>. QED  BY <3>2, Zenon DEF RequestInv
  <2>. HIDE DEF n, m, new
  <2>3. \A b \in BurntEvents' : events'[b].nonce < m /\ events'[b].amount \in Nat
    BY <1>1, <2>1, <2>2 DEF RequestInv
  <2>4. \A b1, b2 \in BurntEvents' : events'[b1].nonce = events'[b2].nonce => b1 = b2
    BY <1>1, <2>1, <2>2 DEF RequestInv
  <2>5. \A t \in tasks' : t.type = "MintBtc" => t.id \in BurntEvents'
    BY <1>1, <2>1, Zenon DEF RequestInv
  <2>6. \A id \in DOMAIN burn_requests :
           \E b \in BurntEvents' : events'[b].nonce = id /\ events'[b].amount = burn_requests[id].amount
    BY <1>1, <2>1 DEF RequestInv
  <2>7. \A id \in DOMAIN burn_requests :
           burn_requests[id].is_transferred => Fee <= burn_requests[id].amount
    BY Zenon DEF RequestInv
  <2>. QED  BY <1>1, <2>3, <2>4, <2>5, <2>6, <2>7 DEF RequestInv, m
<1>. QED  BY <1>2, <1>3, BurntEffect, Zenon

LEMMA RequestsSame ==
  ASSUME RequestInv, UNCHANGED <<events, burn_requests>>,
         \A q \in tasks' : q.type = "MintBtc" => q \in tasks \/ q.id \in BurntEvents
  PROVE  RequestInv'
<1>1. UNCHANGED BurntEvents /\ UNCHANGED Cardinality(BurntEvents)
  BY DEF BurntEvents, Height
<1>. QED  BY <1>1 DEF RequestInv


-----------------------------------------------------------------------------
(* The withdrawal account.                                                 *)

AmountsToRetrieve == SumFunctionOnSet(Withdrawn, Retrieving)
AmountsStranded == SumFunctionOnSet(Requested, Stranded)

LEMMA RequestBurns ==
  ASSUME TInv, RequestInv
  PROVE  /\ \A b \in BurntEvents : /\ events[b].nonce \in Nat /\ events[b].amount \in Nat
                                   /\ events[b].nonce < Cardinality(BurntEvents)
         /\ \A t \in Retrieving : t.id \in BurntEvents
<1>1. \A b \in 1..Height : events[b] \in EventSet
  BY DEF TInv, Height
<1>2. \A b \in BurntEvents : events[b].nonce \in Nat
  BY <1>1, BurntFinite, Zenon DEF EventSet
<1>3. \A t \in Retrieving : t.type = "MintBtc" /\ t \in tasks
  BY Zenon DEF TInv, Retrieving, PcOfType
<1>. QED  BY <1>2, <1>3 DEF RequestInv

(* The sums are over finite sets, of amounts that are not negative. *)
LEMMA WithdrawTerms ==
  ASSUME TInv, RequestInv, \A t \in Retrieving : Fee <= events[t.id].amount, IsFiniteSet(Retrieving)
  PROVE  /\ \A t \in Retrieving : Withdrawn[t] = events[t.id].amount - Fee
                                  /\ Withdrawn[t] \in Int /\ Withdrawn[t] >= 0
         /\ \A id \in Stranded : Requested[id] = burn_requests[id].amount - Fee
                                 /\ Requested[id] \in Int /\ Requested[id] >= 0
         /\ IsFiniteSet(Stranded)
         /\ AmountsToRetrieve \in Int /\ AmountsStranded \in Int
<1>1. \A t \in Retrieving : Withdrawn[t] = events[t.id].amount - Fee
                            /\ Withdrawn[t] \in Int /\ Withdrawn[t] >= 0
  BY RequestBurns, BtcAssumption DEF Withdrawn
<1>2. \A id \in Stranded : Requested[id] = burn_requests[id].amount - Fee
                           /\ Requested[id] \in Int /\ Requested[id] >= 0
  BY RequestBurns, BtcAssumption DEF RequestInv, Stranded, Requested
<1>3. IsFiniteSet(Stranded)
  <2>. DEFINE n == Cardinality(BurntEvents)
  <2>1. n \in Nat
    BY BurntFinite, Zenon
  <2>2. \A id \in Stranded : id \in Nat /\ id < n
    BY RequestBurns DEF RequestInv, Stranded
  <2>. HIDE DEF n
  <2>3. Stranded \subseteq 0..n /\ IsFiniteSet(0..n)
    BY <2>1, <2>2, FS_Interval
  <2>. QED  BY <2>3, FS_Subset, Zenon
<1>4. AmountsToRetrieve \in Int
  BY <1>1, SumInt, Zenon DEF AmountsToRetrieve
<1>5. AmountsStranded \in Int
  BY <1>2, <1>3, SumInt, Zenon DEF AmountsStranded
<1>. QED  BY <1>1, <1>2, <1>3, <1>4, <1>5, Zenon

(* A step may end the wait for a request, and nothing else. *)
LEMMA WithdrawSame ==
  ASSUME TInv, RequestInv, AccountInv, WithdrawInv, UNCHANGED <<withdrawal, Retrieving>>,
         \A t \in Retrieving : events'[t.id] = events[t.id],
         Stranded' \subseteq Stranded,
         \A id \in Stranded' : burn_requests'[id] = burn_requests[id] /\ id \in DOMAIN burn_requests'
  PROVE  WithdrawInv'
<1>1. \A t \in Retrieving : Withdrawn'[t] = Withdrawn[t]
  BY Zenon DEF Withdrawn
<1>2. \A id \in Stranded' : Requested'[id] = Requested[id]
  BY Zenon DEF Requested, Stranded
<1>3. /\ IsFiniteSet(Retrieving) /\ IsFiniteSet(Stranded)
      /\ \A t \in Retrieving : Withdrawn[t] \in Int /\ Withdrawn[t] >= 0
      /\ \A id \in Stranded : Requested[id] \in Int /\ Requested[id] >= 0
      /\ AmountsToRetrieve \in Int /\ AmountsStranded \in Int
  BY WithdrawTerms, Zenon DEF WithdrawInv
<1>4. AmountsToRetrieve' = AmountsToRetrieve
  BY <1>1, <1>3, SumEqual, Zenon DEF AmountsToRetrieve
<1>5. AmountsStranded' <= AmountsStranded
  BY <1>2, <1>3, SumSubset DEF AmountsStranded
<1>6. AmountsStranded' \in Int
  <2>1. IsFiniteSet(Stranded') /\ \A id \in Stranded' : Requested'[id] \in Int
    BY <1>2, <1>3, FS_Subset
  <2>. QED  BY <2>1, SumInt, Zenon DEF AmountsStranded
<1>7. AmountsToRetrieve' + AmountsStranded' <= withdrawal'
  BY <1>3, <1>4, <1>5, <1>6 DEF WithdrawInv, AmountsToRetrieve, AmountsStranded, AccountInv
<1>. QED  BY <1>3, <1>7, Zenon DEF WithdrawInv, AmountsToRetrieve, AmountsStranded


(* The four steps of a MintBtc task.  Each replaces the task by r, if by   *)
(* anything, and leaves the burns alone.                                   *)
BurnStep(t, new) ==
    /\ t \in tasks /\ t.type = "MintBtc" /\ UNCHANGED events
    /\ Replace(t, new) /\ \A r \in new : r.type = "MintBtc" /\ r.id = t.id

LEMMA BurnStepTasks ==
  ASSUME TInv, RequestInv, NEW t, NEW new, BurnStep(t, new)
  PROVE  /\ t.id \in BurntEvents /\ UNCHANGED BurntEvents
         /\ \A q \in tasks' : q.type = "MintBtc" => q.id \in BurntEvents
  BY DEF BurnStep, RequestInv, BurntEvents, Height, Replace

(* A request is about the burn of its task. *)
LEMMA InsertRequest ==
  ASSUME TInv, RequestInv, NEW t, burn_ckbtc(t), t \in tasks, NEW r, BurnStep(t, {r})
  PROVE  RequestInv'
<1>. DEFINE e == events[t.id]
<1>1. burn_requests' = [k \in DOMAIN burn_requests \cup {e.nonce} |->
           IF k = e.nonce THEN BurnRequestInfo(e.amount, FALSE) ELSE burn_requests[k]]
  BY Zenon DEF burn_ckbtc, insert
<1>2. BurnRequestInfo(e.amount, FALSE).amount = e.amount
      /\ BurnRequestInfo(e.amount, FALSE).is_transferred = FALSE
  BY Zenon DEF BurnRequestInfo
<1>3. UNCHANGED events /\ UNCHANGED BurntEvents /\ UNCHANGED Cardinality(BurntEvents)
      /\ t.id \in BurntEvents /\ \A q \in tasks' : q.type = "MintBtc" => q.id \in BurntEvents
  BY BurnStepTasks DEF BurnStep
<1>. HIDE DEF e
<1>4. ASSUME NEW id \in DOMAIN burn_requests'
      PROVE  /\ \E b \in BurntEvents : /\ events[b].nonce = id
                                       /\ events[b].amount = burn_requests'[id].amount
             /\ burn_requests'[id].is_transferred => Fee <= burn_requests'[id].amount
  <2>1. CASE id = e.nonce
    BY <1>1, <1>2, <1>3, <2>1, Zenon DEF e
  <2>2. CASE id # e.nonce
    <3>1. id \in DOMAIN burn_requests /\ burn_requests'[id] = burn_requests[id]
      BY <1>1, <2>2, Zenon
    <3>. QED  BY <3>1 DEF RequestInv
  <2>. QED  BY <2>1, <2>2, Zenon
<1>. QED  BY <1>3, <1>4 DEF RequestInv

LEMMA MarkRequest ==
  ASSUME TInv, RequestInv, NEW t, MintBtcTransfer(t), NEW r, BurnStep(t, {r})
  PROVE  RequestInv'
<1>. DEFINE e == events[t.id]
<1>1. DOMAIN burn_requests' = DOMAIN burn_requests /\ Fee <= e.amount
  BY Zenon DEF MintBtcTransfer, set_transferred, CanTransfer
<1>2. UNCHANGED events /\ UNCHANGED BurntEvents /\ UNCHANGED Cardinality(BurntEvents)
      /\ t.id \in BurntEvents /\ \A q \in tasks' : q.type = "MintBtc" => q.id \in BurntEvents
  BY BurnStepTasks DEF BurnStep
<1>3. ASSUME NEW id \in DOMAIN burn_requests
      PROVE  /\ burn_requests'[id].amount = burn_requests[id].amount
             /\ id # e.nonce => burn_requests'[id] = burn_requests[id]
  BY <1>3 DEF MintBtcTransfer, set_transferred
<1>4. ASSUME NEW id \in DOMAIN burn_requests, id = e.nonce
      PROVE  burn_requests[id].amount = e.amount
  BY <1>2, <1>4, SMTT(30) DEF RequestInv
<1>. QED  BY <1>1, <1>2, <1>3, <1>4, SMTT(30) DEF RequestInv

LEMMA RemoveRequest ==
  ASSUME TInv, RequestInv, NEW t, MintBtcRetrieve(t), BurnStep(t, {})
  PROVE  RequestInv'
<1>1. burn_requests' = [id \in DOMAIN burn_requests \ {events[t.id].nonce} |-> burn_requests[id]]
  BY Zenon DEF MintBtcRetrieve, remove, Restrict
<1>2. UNCHANGED events /\ UNCHANGED BurntEvents /\ UNCHANGED Cardinality(BurntEvents)
      /\ \A q \in tasks' : q.type = "MintBtc" => q.id \in BurntEvents
  BY BurnStepTasks DEF BurnStep
<1>. QED  BY <1>1, <1>2 DEF RequestInv

(* Which of its actions a MintBtc task takes. *)
LEMMA BurnSteps ==
  ASSUME TInv, NEW t \in tasks,
         burn_ckbtc(t) \/ MintBtcTransfer(t) \/ MintBtcRetrieve(t) \/ MintBtcErr(t)
  PROVE  \/ burn_ckbtc(t) /\ t.pc = "queued" /\ \E r : BurnStep(t, {r}) /\ r.pc = "account"
         \/ MintBtcTransfer(t) /\ t.pc = "account" /\ \E r : BurnStep(t, {r}) /\ r.pc = "retrieve"
         \/ MintBtcRetrieve(t) /\ t.pc = "retrieve" /\ BurnStep(t, {})
         \/ MintBtcErr(t) /\ \E r : BurnStep(t, {r}) /\ r.pc = "queued"
<1>1. t \in TaskSet /\ t.type = "MintBtc"
  BY Zenon DEF TInv, PcOfType, burn_ckbtc, MintBtcTransfer, MintBtcRetrieve, MintBtcErr
<1>2. \A pc : /\ [t EXCEPT !.pc = pc].type = "MintBtc" /\ [t EXCEPT !.pc = pc].id = t.id
              /\ [t EXCEPT !.pc = pc].pc = pc
  BY <1>1, Fields, Zenon
<1>3. UNCHANGED events
  BY Zenon DEF burn_ckbtc, MintBtcTransfer, MintBtcRetrieve, MintBtcErr, bridgeUnchanged, evmVars
<1>4. ASSUME NEW pc, Replace(t, {[t EXCEPT !.pc = pc]})
      PROVE  \E r : BurnStep(t, {r}) /\ r.pc = pc
  <2>. DEFINE r == [t EXCEPT !.pc = pc]
  <2>1. r.type = "MintBtc" /\ r.id = t.id /\ r.pc = pc /\ Replace(t, {r})
    BY <1>2, <1>4, Zenon
  <2>. HIDE DEF r
  <2>. QED  BY <1>1, <1>3, <2>1, Zenon DEF BurnStep
<1>5. CASE burn_ckbtc(t)
  BY <1>4, <1>5, Zenon DEF burn_ckbtc
<1>6. CASE MintBtcTransfer(t)
  BY <1>4, <1>6, Zenon DEF MintBtcTransfer
<1>7. CASE MintBtcRetrieve(t)
  BY <1>1, <1>3, <1>7, Zenon DEF MintBtcRetrieve, BurnStep
<1>8. CASE MintBtcErr(t)
  BY <1>4, <1>8, Zenon DEF MintBtcErr
<1>. QED  BY <1>5, <1>6, <1>7, <1>8, Zenon


(* A retry forgets that its request was transferred. *)
LEMMA InsertWithdraw ==
  ASSUME TInv, RequestInv, AccountInv, WithdrawInv, NEW t, burn_ckbtc(t), t.pc = "queued",
         NEW r, BurnStep(t, {r}), r.pc = "account"
  PROVE  WithdrawInv'
<1>1. Retrieving' = Retrieving /\ UNCHANGED <<events, withdrawal>>
  BY DEF Retrieving, BurnStep, Replace, burn_ckbtc, ckbtcVars, accountVars
<1>2. burn_requests' = [k \in DOMAIN burn_requests \cup {events[t.id].nonce} |->
           IF k = events[t.id].nonce THEN BurnRequestInfo(events[t.id].amount, FALSE)
           ELSE burn_requests[k]]
  BY DEF burn_ckbtc, insert
<1>3. BurnRequestInfo(events[t.id].amount, FALSE).is_transferred = FALSE
  BY Zenon DEF BurnRequestInfo
<1>4. ASSUME NEW id \in Stranded'
      PROVE  id \in Stranded /\ burn_requests'[id] = burn_requests[id] /\ id \in DOMAIN burn_requests'
  <2>1. /\ id \in DOMAIN burn_requests' /\ burn_requests'[id].is_transferred
        /\ \A q \in Retrieving : events[q.id].nonce # id
    BY <1>1, <1>4 DEF Stranded
  <2>2. id # events[t.id].nonce
    BY <1>2, <1>3, <2>1, Zenon
  <2>3. id \in DOMAIN burn_requests /\ burn_requests'[id] = burn_requests[id]
    BY <1>2, <2>1, <2>2, Zenon
  <2>. QED  BY <2>1, <2>3 DEF Stranded
<1>. QED  BY <1>1, <1>4, WithdrawSame, Zenon

(* The ckBTC comes with the task that is to retrieve it. *)
LEMMA TransferWithdraw ==
  ASSUME TInv, RequestInv, AccountInv, WithdrawInv, NEW t, MintBtcTransfer(t), t.pc = "account",
         NEW r, BurnStep(t, {r}), r.pc = "retrieve"
  PROVE  WithdrawInv'
<1>. DEFINE e == events[t.id]
            w == e.amount - Fee
<1>1. /\ Retrieving' = Retrieving \cup {r} /\ UNCHANGED events /\ r.id = t.id
      /\ withdrawal' = withdrawal + w /\ Fee <= e.amount
  BY DEF Retrieving, BurnStep, Replace, MintBtcTransfer, CanTransfer
<1>2. /\ DOMAIN burn_requests' = DOMAIN burn_requests
      /\ \A id \in DOMAIN burn_requests : id # e.nonce => burn_requests'[id] = burn_requests[id]
  BY Zenon DEF MintBtcTransfer, set_transferred
<1>3. Stranded' \subseteq Stranded /\ \A id \in Stranded' : Requested'[id] = Requested[id]
  <2>1. ASSUME NEW id \in Stranded'
        PROVE  id \in DOMAIN burn_requests /\ burn_requests'[id].is_transferred
               /\ (\A q \in Retrieving : events[q.id].nonce # id) /\ id # e.nonce
    BY <1>1, <1>2, <2>1 DEF Stranded
  <2>. HIDE DEF e
  <2>. QED  BY <1>2, <2>1, Zenon DEF Stranded, Requested
<1>4. /\ IsFiniteSet(Retrieving) /\ IsFiniteSet(Stranded)
      /\ \A q \in Retrieving : Withdrawn[q] \in Int /\ Withdrawn[q] = events[q.id].amount - Fee
      /\ \A id \in Stranded : Requested[id] \in Int /\ Requested[id] >= 0
      /\ AmountsToRetrieve \in Int /\ AmountsStranded \in Int
  BY WithdrawTerms, Zenon DEF WithdrawInv
<1>5. w \in Int /\ w >= 0
  BY <1>1, BurnStepTasks, BtcAssumption DEF RequestInv
<1>6. IsFiniteSet(Retrieving') /\ \A q \in Retrieving' : Withdrawn'[q] = events[q.id].amount - Fee
  BY <1>1, <1>4, FS_AddElement, Zenon DEF Withdrawn
<1>7. AmountsToRetrieve' <= AmountsToRetrieve + w /\ AmountsToRetrieve' \in Int
  <2>. DEFINE f == Withdrawn
              g == Withdrawn'
  <2>0. \A q \in Retrieving : g[q] = f[q]
    BY <1>1, <1>4, <1>6, Zenon
  <2>1. \A q \in Retrieving : g[q] \in Int
    BY <1>4, <2>0, Zenon
  <2>2. g[r] = w
    BY <1>1, <1>6, Zenon
  <2>. HIDE DEF f, g, w
  <2>3. SumFunctionOnSet(g, Retrieving) = SumFunctionOnSet(f, Retrieving)
    <3>1. IsFiniteSet(Retrieving)
      BY <1>4, Zenon
    <3>. QED  BY <2>0, <3>1, SumEqual, Zenon
  <2>4. CASE r \in Retrieving
    <3>1. Retrieving' = Retrieving
      BY <1>1, <2>4, Zenon
    <3>. QED  BY <1>4, <1>5, <2>3, <3>1 DEF AmountsToRetrieve, f, g
  <2>5. CASE r \notin Retrieving
    <3>1. \A q \in Retrieving \cup {r} : g[q] \in Int
      BY <1>5, <2>1, <2>2, Zenon
    <3>2. SumFunctionOnSet(g, Retrieving \cup {r}) = SumFunctionOnSet(g, Retrieving) + g[r]
      BY <1>4, <2>5, <3>1, SumAdd, Zenon
    <3>. QED  BY <1>1, <1>4, <1>5, <2>2, <2>3, <3>2, SMTT(30) DEF AmountsToRetrieve, f, g
  <2>. QED  BY <2>4, <2>5, Zenon
<1>8. AmountsStranded' <= AmountsStranded
  BY <1>3, <1>4, SumSubset DEF AmountsStranded
<1>9. AmountsStranded' \in Int
  <2>1. IsFiniteSet(Stranded') /\ \A id \in Stranded' : Requested'[id] \in Int
    BY <1>3, <1>4, FS_Subset
  <2>. QED  BY <2>1, SumInt, Zenon DEF AmountsStranded
<1>10. AmountsToRetrieve' + AmountsStranded' <= withdrawal'
  <2>. DEFINE A == AmountsToRetrieve
              B == AmountsStranded
              C == AmountsToRetrieve'
              D == AmountsStranded'
  <2>1. A + B <= withdrawal /\ withdrawal \in Int
    BY DEF WithdrawInv, AmountsToRetrieve, AmountsStranded, AccountInv
  <2>2. /\ A \in Int /\ B \in Int /\ C \in Int /\ D \in Int /\ C <= A + w /\ D <= B
        /\ withdrawal' = withdrawal + w /\ w \in Int
    BY <1>1, <1>4, <1>5, <1>7, <1>8, <1>9, SMTT(30)
  <2>. HIDE DEF w, A, B, C, D
  <2>3. C + D <= withdrawal'
    BY <2>1, <2>2
  <2>. QED  BY <2>3 DEF C, D
<1>11. \A q \in Retrieving' : Fee <= events'[q.id].amount
  BY <1>1, Zenon DEF WithdrawInv
<1>. QED  BY <1>6, <1>10, <1>11 DEF WithdrawInv, AmountsToRetrieve, AmountsStranded

(* A task that is no longer to retrieve its ckBTC has retrieved it, or     *)
(* leaves it to its request.                                               *)
LEMMA RetrieveSum ==
  ASSUME TInv, RequestInv, AccountInv, WithdrawInv, NEW t \in Retrieving, UNCHANGED events,
         Retrieving' = Retrieving \ {t}
  PROVE  LET w == events[t.id].amount - Fee
         IN  /\ IsFiniteSet(Retrieving') /\ w \in Int /\ w >= 0
             /\ AmountsToRetrieve' \in Int /\ AmountsToRetrieve' = AmountsToRetrieve - w
<1>. DEFINE f == Withdrawn
            g == Withdrawn'
            rest == Retrieving \ {t}
<1>1. /\ IsFiniteSet(Retrieving) /\ AmountsToRetrieve \in Int
      /\ \A q \in Retrieving : f[q] \in Int /\ f[q] >= 0 /\ f[q] = events[q.id].amount - Fee
  BY WithdrawTerms, Zenon DEF WithdrawInv
<1>2. \A q \in rest : g[q] = f[q]
  BY Zenon DEF Withdrawn
<1>. HIDE DEF f, g
<1>3. IsFiniteSet(rest)
  BY <1>1, FS_Subset, Zenon
<1>4. SumFunctionOnSet(f, Retrieving) = f[t] + SumFunctionOnSet(f, rest)
  BY <1>1, SumRemove
<1>5. SumFunctionOnSet(g, rest) = SumFunctionOnSet(f, rest)
  BY <1>2, <1>3, SumEqual, Zenon
<1>6. SumFunctionOnSet(f, rest) \in Int
  BY <1>1, <1>3, SumInt, Zenon
<1>. QED  BY <1>1, <1>3, <1>4, <1>5, <1>6, SMTT(30) DEF AmountsToRetrieve, f, g


LEMMA RetrieveWithdraw ==
  ASSUME TInv, RequestInv, AccountInv, WithdrawInv, NEW t, MintBtcRetrieve(t), BurnStep(t, {})
  PROVE  WithdrawInv'
<1>. DEFINE e == events[t.id]
            w == e.amount - Fee
            A == AmountsToRetrieve
            B == AmountsStranded
            C == AmountsToRetrieve'
            D == AmountsStranded'
<1>1. /\ t \in Retrieving /\ Retrieving' = Retrieving \ {t} /\ UNCHANGED events
      /\ withdrawal' = withdrawal - w
  BY DEF Retrieving, BurnStep, Replace, MintBtcRetrieve
<1>2. /\ IsFiniteSet(Retrieving') /\ w \in Int /\ C \in Int /\ C = A - w
  BY <1>1, RetrieveSum, Zenon
<1>3. /\ IsFiniteSet(Stranded) /\ A \in Int /\ B \in Int
      /\ \A id \in Stranded : Requested[id] \in Int /\ Requested[id] >= 0
  BY WithdrawTerms DEF WithdrawInv
<1>4. burn_requests' = [id \in DOMAIN burn_requests \ {e.nonce} |-> burn_requests[id]]
  BY Zenon DEF MintBtcRetrieve, remove, Restrict
<1>5. \A id \in Stranded' : id \in Stranded /\ Requested'[id] = Requested[id]
  <2>. SUFFICES ASSUME NEW id \in Stranded'
                PROVE  id \in Stranded /\ Requested'[id] = Requested[id]
    OBVIOUS
  <2>1. /\ id \in DOMAIN burn_requests' /\ burn_requests'[id].is_transferred
        /\ \A q \in Retrieving \ {t} : events[q.id].nonce # id
    BY <1>1, Zenon DEF Stranded
  <2>2. id # e.nonce /\ id \in DOMAIN burn_requests /\ burn_requests'[id] = burn_requests[id]
    BY <1>4, <2>1
  <2>3. \A q \in Retrieving : events[q.id].nonce # id
    BY <2>1, <2>2
  <2>. QED  BY <2>1, <2>2, <2>3 DEF Stranded, Requested
<1>6. D <= B
  BY <1>3, <1>5, SumSubset DEF AmountsStranded
<1>7. D \in Int
  <2>1. IsFiniteSet(Stranded') /\ \A id \in Stranded' : Requested'[id] \in Int
    BY <1>3, <1>5, FS_Subset
  <2>. QED  BY <2>1, SumInt, Zenon DEF AmountsStranded
<1>8. A + B <= withdrawal /\ withdrawal \in Int
  BY DEF WithdrawInv, AmountsToRetrieve, AmountsStranded, AccountInv
<1>9. C + D <= withdrawal'
  <2>. HIDE DEF w, A, B, C, D
  <2>. QED  BY <1>1, <1>2, <1>3, <1>6, <1>7, <1>8, SMTT(30)
<1>10. \A q \in Retrieving' : Fee <= events'[q.id].amount
  BY <1>1 DEF WithdrawInv
<1>. QED  BY <1>2, <1>9, <1>10, Zenon DEF WithdrawInv, AmountsToRetrieve, AmountsStranded

(* A withdrawal that fails strands its request. *)
LEMMA ErrWithdraw ==
  ASSUME TInv, RequestInv, AccountInv, WithdrawInv, NEW t, MintBtcErr(t),
         NEW r, BurnStep(t, {r}), r.pc = "queued"
  PROVE  WithdrawInv'
<1>. DEFINE n == events[t.id].nonce
            w == events[t.id].amount - Fee
            A == AmountsToRetrieve
            B == AmountsStranded
            C == AmountsToRetrieve'
            D == AmountsStranded'
<1>0. Retrieving' = Retrieving \ {t} /\ UNCHANGED <<events, withdrawal, burn_requests>>
  BY Zenon DEF Retrieving, BurnStep, Replace, MintBtcErr, bridgeUnchanged, ckbtcVars, accountVars, storeVars
<1>1. CASE t \notin Retrieving
  <2>1. Retrieving' = Retrieving
    BY <1>0, <1>1
  <2>2. \A id \in Stranded' : id \in Stranded /\ id \in DOMAIN burn_requests'
    BY <1>0, <2>1 DEF Stranded
  <2>. QED  BY <1>0, <2>1, <2>2, WithdrawSame
<1>2. CASE t \in Retrieving
  <2>1. IsFiniteSet(Retrieving') /\ w \in Int /\ w >= 0 /\ C \in Int /\ C = A - w
    BY <1>0, <1>2, RetrieveSum, Zenon
  <2>2. /\ IsFiniteSet(Stranded) /\ A \in Int /\ B \in Int
        /\ \A id \in Stranded : Requested[id] \in Int /\ Requested[id] >= 0
    BY WithdrawTerms, Zenon DEF WithdrawInv
  <2>3. Stranded' \subseteq Stranded \cup {n} /\ Requested' = Requested
    BY <1>0, Zenon DEF Stranded, Requested
  <2>4. n \in Stranded' => Requested[n] = w
    <3>1. n \in Stranded' => n \in DOMAIN burn_requests
      BY <1>0, Zenon DEF Stranded
    <3>2. n \in DOMAIN burn_requests => burn_requests[n].amount = events[t.id].amount
      BY BurnStepTasks DEF RequestInv
    <3>. QED  BY <3>1, <3>2 DEF Requested
  <2>. DEFINE rest == Stranded' \ {n}
              f == Requested
  <2>5. rest \subseteq Stranded /\ IsFiniteSet(rest)
    BY <2>2, <2>3, FS_Subset, Zenon
  <2>. HIDE DEF n, w, f
  <2>6. SumFunctionOnSet(f, rest) <= B
    BY <2>2, <2>5, SumSubset, Zenon DEF AmountsStranded, f
  <2>7. SumFunctionOnSet(f, rest) \in Int
    BY <2>2, <2>5, SumInt, Zenon DEF f
  <2>8. D <= B + w /\ D \in Int
    <3>0. D = SumFunctionOnSet(f, Stranded')
      BY <2>3 DEF AmountsStranded, f
    <3>1. CASE n \in Stranded'
      <4>1. n \notin rest /\ rest \cup {n} = Stranded' /\ f[n] = w
            /\ \A id \in rest \cup {n} : f[id] \in Int
        BY <2>1, <2>2, <2>4, <2>5, <3>1 DEF f
      <4>. HIDE DEF rest
      <4>2. SumFunctionOnSet(f, rest \cup {n}) = SumFunctionOnSet(f, rest) + f[n]
        BY <2>5, <4>1, SumAdd, Zenon
      <4>. DEFINE x == SumFunctionOnSet(f, rest)
      <4>3. D = x + w /\ x <= B /\ x \in Int /\ w \in Int /\ B \in Int
        BY <2>1, <2>2, <2>6, <2>7, <3>0, <4>1, <4>2, Zenon
      <4>. HIDE DEF x, B, D
      <4>. QED  BY <4>3
    <3>2. CASE n \notin Stranded'
      <4>1. rest = Stranded'
        BY <3>2, Zenon
      <4>. QED  BY <2>1, <2>2, <2>6, <2>7, <3>0, <4>1, SMTT(30)
    <3>. QED  BY <3>1, <3>2, Zenon
  <2>9. A + B <= withdrawal /\ withdrawal \in Int
    BY DEF WithdrawInv, AmountsToRetrieve, AmountsStranded, AccountInv
  <2>10. C + D <= withdrawal'
    <3>. HIDE DEF A, B, C, D
    <3>. QED  BY <1>0, <2>1, <2>2, <2>8, <2>9, SMTT(30)
  <2>11. \A q \in Retrieving' : Fee <= events'[q.id].amount
    BY <1>0 DEF WithdrawInv
  <2>. QED  BY <2>1, <2>10, <2>11, Zenon DEF WithdrawInv, AmountsToRetrieve, AmountsStranded
<1>. QED  BY <1>1, <1>2


BurnAction(t) == burn_ckbtc(t) \/ MintBtcTransfer(t) \/ MintBtcRetrieve(t) \/ MintBtcErr(t)

(* A step that is not one of a MintBtc task touches no request. *)
LEMMA OtherRequests ==
  ASSUME TInv, RequestInv, NEW t \in TaskSet, PcOfType(t), CallStep(t), ~ BurnAction(t)
  PROVE  /\ UNCHANGED <<events, burn_requests, withdrawal>>
         /\ \A q \in tasks' : q.type = "MintBtc" => q \in tasks \/ q.id \in BurntEvents
         /\ Retrieving' = Retrieving
<1>1. Execute(t) \/ UpdateBalanceOk(t) \/ NoNewUtxos(t)
  BY DEF CallStep
<1>2. UNCHANGED <<events, burn_requests, withdrawal>>
  BY <1>1, TaskCases, Zenon DEF Acts, BurnAction, bridgeUnchanged, evmVars, ckbtcVars, accountVars,
     storeVars, UpdateBalanceOk, MintErc20Transfer, remove_mint_order
<1>3. PICK new : Replace(t, new) /\ Kinds(t, new)
  BY <1>1, TaskStep, Zenon
<1>4. t.pc # "retrieve"
  <2>1. \A x : ~ (t.pc = "retrieve" /\ (MintErc20Transfer(t, x) \/ MintErc20TransferErr(t, x)))
    BY DEF MintErc20Transfer, MintErc20TransferErr
  <2>2. t.pc = "retrieve" => t.type = "MintBtc"
    BY Zenon DEF PcOfType
  <2>. QED  BY <1>1, <2>1, <2>2, Zenon DEF Execute, BurnAction, UpdateBalanceOk, NoNewUtxos,
        UpdateBalanceErr, init_evm_state_start, init_evm_state, init_evm_state_err,
        MintErc20Start, MintErc20Params, MintErc20Err, remove_mint_order
<1>5. \A r \in new : r.pc # "retrieve"
  BY <1>3 DEF Kinds, BurnAction
<1>6. Retrieving' = Retrieving
  BY <1>3, <1>4, <1>5 DEF Retrieving, Replace
<1>7. \A q \in tasks' : q.type = "MintBtc" => q \in tasks \/ q.id \in BurntEvents
  <2>1. ASSUME NEW r \in new, r.type = "MintBtc"  PROVE r.id \in BurntEvents
    <3>1. t.type = "MintBtc" /\ r.id = t.id
      BY <1>3, <2>1, Zenon DEF Kinds
    <3>2. t \in tasks
      BY <3>1 DEF CallStep
    <3>. QED  BY <3>1, <3>2 DEF RequestInv
  <2>. QED  BY <1>3, <2>1, Zenon DEF Replace
<1>. QED  BY <1>2, <1>6, <1>7, Zenon

(* When neither burns nor requests change, nor what is to be retrieved. *)
LEMMA WithdrawIdle ==
  ASSUME TInv, RequestInv, AccountInv, WithdrawInv,
         UNCHANGED <<burn_requests, withdrawal, Retrieving>>,
         \A t \in Retrieving : events'[t.id] = events[t.id]
  PROVE  WithdrawInv'
<1>1. \A id \in Stranded' : id \in Stranded /\ id \in DOMAIN burn_requests'
  BY DEF Stranded
<1>. QED  BY <1>1, WithdrawSame, Zenon

LEMMA NextRequestInv ==
  ASSUME TInv, AccountInv, RequestInv, WithdrawInv, [Next]_vars
  PROVE  RequestInv' /\ WithdrawInv'
<1>1. CASE EvmStep
  <2>1. UNCHANGED <<burn_requests, withdrawal, tasks>>
    BY <1>1, EvmFrame DEF ckbtcVars, accountVars, storeVars
  <2>2. Retrieving' = Retrieving /\ \A t \in Retrieving : events'[t.id] = events[t.id]
    BY <1>1, <2>1, BurntEffect, RequestBurns, Zenon DEF Retrieving
  <2>3. WithdrawInv'
    BY <2>1, <2>2, WithdrawIdle
  <2>. QED  BY <1>1, <2>3, EvmRequests
<1>2. ASSUME NEW x \in Utxos, Pay(x) \/ Confirm(x)  PROVE RequestInv' /\ WithdrawInv'
  <2>1. UNCHANGED <<events, burn_requests, withdrawal, tasks>>
    BY <1>2, BitcoinFrame DEF evmVars, accountVars, storeVars
  <2>2. UNCHANGED Retrieving
    BY <2>1 DEF Retrieving
  <2>. QED  BY <2>1, <2>2, RequestsSame, WithdrawIdle
<1>3. ASSUME NEW c \in Collectors, Collect(c)  PROVE RequestInv' /\ WithdrawInv'
  <2>1. UNCHANGED <<events, burn_requests, withdrawal>>
    BY <1>3, CollectAdds, Zenon DEF bridgeUnchanged, evmVars, ckbtcVars, accountVars, storeVars
  <2>2. \A q \in tasks' : \/ q \in tasks
                          \/ q.pc = "queued" /\ (q.type = "MintBtc" => q.id \in BurntEvents)
    BY <1>3, CollectAdds, LogTask DEF BurntEvents
  <2>3. tasks \subseteq tasks'
    BY <1>3, Zenon DEF Collect, CollectStart, CollectLogs, CollectParams, CollectEnd
  <2>4. UNCHANGED Retrieving
    BY <2>2, <2>3, Zenon DEF Retrieving
  <2>. QED  BY <2>1, <2>2, <2>4, RequestsSame, WithdrawIdle, Zenon
<1>4. ASSUME NEW t \in TaskSet, PcOfType(t), CallStep(t)  PROVE RequestInv' /\ WithdrawInv'
  <2>1. CASE ~ BurnAction(t)
    BY <1>4, <2>1, OtherRequests, RequestsSame, WithdrawIdle, Zenon
  <2>2. CASE BurnAction(t)
    <3>1. t \in tasks
      BY <1>4, <2>2, Zenon DEF CallStep, BurnAction, PcOfType, burn_ckbtc, MintBtcTransfer,
         MintBtcRetrieve, MintBtcErr
    <3>2. CASE burn_ckbtc(t) /\ t.pc = "queued" /\ \E r : BurnStep(t, {r}) /\ r.pc = "account"
      BY <3>1, <3>2, InsertRequest, InsertWithdraw, Zenon
    <3>3. CASE MintBtcTransfer(t) /\ t.pc = "account" /\ \E r : BurnStep(t, {r}) /\ r.pc = "retrieve"
      BY <3>3, MarkRequest, TransferWithdraw, Zenon
    <3>4. CASE MintBtcRetrieve(t) /\ BurnStep(t, {})
      BY <3>4, RemoveRequest, RetrieveWithdraw, Zenon
    <3>5. CASE MintBtcErr(t) /\ \E r : BurnStep(t, {r}) /\ r.pc = "queued"
      <4>1. PICK r : BurnStep(t, {r}) /\ r.pc = "queued"
        BY <3>5, Zenon
      <4>2. UNCHANGED <<events, burn_requests>>
        BY <3>5 DEF MintBtcErr, bridgeUnchanged, evmVars, storeVars
      <4>3. RequestInv'
        BY <4>1, <4>2, BurnStepTasks, RequestsSame
      <4>. QED  BY <3>5, <4>1, <4>3, ErrWithdraw
    <3>. QED  BY <2>2, <3>1, <3>2, <3>3, <3>4, <3>5, BurnSteps, Zenon DEF BurnAction
  <2>. QED  BY <2>1, <2>2, Zenon
<1>5. CASE UNCHANGED vars
  <2>1. UNCHANGED <<events, burn_requests, withdrawal, tasks>>
    BY <1>5 DEF vars, evmVars, ckbtcVars, accountVars, storeVars
  <2>2. UNCHANGED Retrieving
    BY <2>1 DEF Retrieving
  <2>. QED  BY <2>1, <2>2, RequestsSame, WithdrawIdle
<1>. QED  BY <1>1, <1>2, <1>3, <1>4, <1>5, NextSteps, SMTT(30)


-----------------------------------------------------------------------------
(* Balances.                                                               *)

LEMMA InitAccountInv == Init => AccountInv
  BY DEF Init, AccountInv

LEMMA NextAccountInv ==
  ASSUME TInv, UtxoInv, RequestInv, AccountInv, [Next]_vars
  PROVE  AccountInv'
<1>1. CASE EvmStep
  <2>1. UNCHANGED <<subaccount, main, withdrawal>>
    BY <1>1, EvmFrame, Zenon DEF ckbtcVars, accountVars
  <2>2. ASSUME NEW u \in Users, NEW b \in Burns, Burn(u, b.amount, b.recipient)
        PROVE  wrapped' \in [Users -> Nat]
    <3>1. b.amount \in Nat /\ wrapped[u] \in Nat /\ wrapped[u] >= b.amount
      BY <2>2, BtcAssumption, Zenon DEF Burn, AccountInv
    <3>2. wrapped[u] - b.amount \in Nat
      BY <3>1
    <3>. QED  BY <2>2, <3>2, Zenon DEF Burn, AccountInv
  <2>3. ASSUME NEW o \in orders, ExecuteOrder(o)  PROVE wrapped' \in [Users -> Nat]
    <3>1. o.utxo \in Utxos /\ o = Order(o.utxo) /\ ValueOf[o.utxo] > Fee
      BY Zenon DEF UtxoInv, TInv, OrderSet
    <3>2. o.amount = ValueOf[o.utxo] - Fee
      BY <3>1 DEF Order
    <3>3. o.amount \in Nat
      BY <3>1, <3>2, BtcAssumption
    <3>4. \A u \in Users : wrapped[u] + o.amount \in Nat
      BY <3>3 DEF AccountInv
    <3>. QED  BY <2>3, <3>4, Zenon DEF ExecuteOrder, AccountInv
  <2>4. ASSUME NEW u, NotifyMinter(u)  PROVE wrapped' = wrapped
    BY <2>4, Zenon DEF NotifyMinter
  <2>5. wrapped' \in [Users -> Nat]
    BY <1>1, <2>2, <2>3, <2>4, Zenon DEF EvmStep, AccountInv
  <2>. QED  BY <2>1, <2>5, Zenon DEF AccountInv
<1>2. ASSUME NEW x \in Utxos, Pay(x) \/ Confirm(x)  PROVE AccountInv'
  BY <1>2, BitcoinFrame, Zenon DEF evmVars, accountVars, AccountInv
<1>3. ASSUME NEW c \in Collectors, Collect(c)  PROVE AccountInv'
  BY <1>3, CollectAdds, Zenon DEF bridgeUnchanged, evmVars, ckbtcVars, accountVars, AccountInv
<1>4. ASSUME NEW t \in TaskSet, PcOfType(t), CallStep(t)  PROVE AccountInv'
  <2>1. CASE bridgeUnchanged
    BY <2>1, Zenon DEF bridgeUnchanged, evmVars, ckbtcVars, accountVars, AccountInv
  <2>2. CASE UpdateBalanceOk(t)
    <3>. DEFINE new == InState(t.user, "confirmed")
    <3>1. PICK outcome \in [new -> Outcomes] :
             subaccount' = [subaccount EXCEPT ![t.user] = @ + SumOf({x \in new : outcome[x] = "Minted"})]
      BY <2>2, Zenon DEF UpdateBalanceOk
    <3>. DEFINE minted == {x \in new : outcome[x] = "Minted"}
    <3>2. minted \subseteq Utxos /\ \A x \in minted : ValueOf[x] \in Nat
      BY BtcAssumption DEF InState
    <3>3. IsFiniteSet(minted)
      BY <3>2, FS_Subset, BtcAssumption, Zenon
    <3>4. SumOf(minted) \in Nat
      <4>1. \A x \in minted : ValueOf[x] \in Int /\ ValueOf[x] >= 0
        BY <3>2
      <4>. HIDE DEF minted
      <4>2. SumOf(minted) \in Int /\ SumOf(minted) >= 0
        BY <3>3, <4>1, SumInt, Zenon DEF SumOf
      <4>. QED  BY <4>2
    <3>5. UNCHANGED <<wrapped, main, withdrawal>>
      BY <2>2, Zenon DEF UpdateBalanceOk, evmVars
    <3>. HIDE DEF minted
    <3>6. subaccount' = [subaccount EXCEPT ![t.user] = @ + SumOf(minted)]
      BY <3>1 DEF minted
    <3>7. \A u \in Users : subaccount[u] + SumOf(minted) \in Nat
      BY <3>4 DEF AccountInv
    <3>8. subaccount' \in [Users -> Nat]
      BY <3>6, <3>7, Zenon DEF AccountInv
    <3>. QED  BY <3>5, <3>8 DEF AccountInv
  <2>3. ASSUME NEW x \in t.utxos, MintErc20Transfer(t, x)  PROVE AccountInv'
    <3>1. t \in tasks
      BY <1>4, <2>3, Zenon DEF CallStep
    <3>2. x \in Utxos /\ ValueOf[x] > Fee /\ OwnerOf[x] = t.user
      BY <2>3, <3>1, Zenon DEF UtxoInv, TaskSet
    <3>3. t.user \in Users /\ ValueOf[x] \in Nat /\ Order(x).amount = ValueOf[x] - Fee
      BY <3>2, BtcAssumption, Zenon DEF Order
    <3>4. ValueOf[x] - Fee \in Nat /\ subaccount[t.user] - ValueOf[x] \in Nat
      BY <2>3, <3>2, <3>3, BtcAssumption, SMTT(30) DEF MintErc20Transfer, AccountInv
    <3>5. UNCHANGED <<wrapped, withdrawal>>
      BY <2>3, Zenon DEF MintErc20Transfer, evmVars
    <3>. QED  BY <2>3, <3>3, <3>4, <3>5, SMTT(30) DEF MintErc20Transfer, AccountInv
  <2>4. CASE remove_mint_order(t) \/ burn_ckbtc(t)
    BY <2>4, Zenon DEF remove_mint_order, burn_ckbtc, evmVars, ckbtcVars, accountVars, AccountInv
  <2>5. CASE MintBtcTransfer(t) \/ MintBtcRetrieve(t)
    <3>1. t \in tasks /\ t.type = "MintBtc"
      BY <1>4, <2>5, Zenon DEF CallStep, PcOfType, MintBtcTransfer, MintBtcRetrieve
    <3>2. events[t.id].amount \in Nat /\ Fee \in Nat
      BY <3>1, BtcAssumption, Zenon DEF RequestInv
    <3>3. CASE MintBtcTransfer(t)
      BY <3>2, <3>3, SMTT(30) DEF MintBtcTransfer, CanTransfer, evmVars, AccountInv
    <3>4. CASE MintBtcRetrieve(t)
      BY <3>2, <3>4 DEF MintBtcRetrieve, evmVars, AccountInv
    <3>. QED  BY <2>5, <3>3, <3>4, Zenon
  <2>6. Acts(t) \/ bridgeUnchanged
    BY <1>4, TaskCases, Zenon DEF CallStep
  <2>. QED  BY <2>1, <2>2, <2>3, <2>4, <2>5, <2>6, Zenon DEF Acts
<1>5. CASE UNCHANGED vars
  BY <1>5, Zenon DEF vars, evmVars, ckbtcVars, accountVars, AccountInv
<1>. QED  BY <1>1, <1>2, <1>3, <1>4, <1>5, NextSteps, Zenon


-----------------------------------------------------------------------------
(* Wrapped tokens and the UTXOs they were minted for.                      *)

Amounts == [b \in BurntEvents |-> events[b].amount]

LEMMA BurntSum ==
  ASSUME TInv, RequestInv
  PROVE  Burnt = SumFunctionOnSet(Amounts, BurntEvents) /\ Burnt \in Int
<1>1. Burnt = SumFunctionOnSet(Amounts, BurntEvents)
  BY Zenon DEF Burnt, SumFunction, Amounts
<1>2. \A b \in BurntEvents : Amounts[b] \in Int
  BY DEF Amounts, RequestInv
<1>3. IsFiniteSet(BurntEvents)
  BY BurntFinite, Zenon
<1>4. SumFunctionOnSet(Amounts, BurntEvents) \in Int
  BY <1>2, <1>3, SumInt, Zenon
<1>. QED  BY <1>1, <1>4

LEMMA BurntChange ==
  ASSUME TInv, RequestInv, EvmStep
  PROVE  /\ UNCHANGED BurntEvents => UNCHANGED Burnt
         /\ NewBurn => Burnt' = Burnt + events'[Height + 1].amount
<1>1. \A b \in BurntEvents : events'[b] = events[b] /\ events[b].amount \in Nat
  BY BurntEffect, Zenon DEF RequestInv
<1>2. Height + 1 \notin BurntEvents
  BY BurntEffect, Zenon
<1>3. IsFiniteSet(BurntEvents)
  BY BurntFinite, Zenon
<1>4. CASE UNCHANGED BurntEvents
  <2>1. Amounts' = Amounts
    BY <1>1, <1>4, Zenon DEF Amounts
  <2>2. UNCHANGED Burnt
    BY <2>1, Zenon DEF Burnt, Amounts
  <2>3. ~ NewBurn
    BY <1>2, <1>4, Zenon DEF NewBurn
  <2>. QED  BY <2>2, <2>3, Zenon
<1>5. CASE NewBurn
  <2>. DEFINE n == Height + 1
              B == BurntEvents
              f == Amounts
              g == Amounts'
  <2>1. BurntEvents' = B \cup {n} /\ events'[n].amount \in Nat
    BY <1>5, Zenon DEF NewBurn
  <2>2. g = [b \in B \cup {n} |-> events'[b].amount]
    BY <2>1, Zenon DEF Amounts
  <2>3. g[n] = events'[n].amount /\ \A b \in B : g[b] = f[b] /\ f[b] \in Int
    BY <1>1, <2>2 DEF Amounts
  <2>4. \A b \in B \cup {n} : g[b] \in Int
    BY <2>1, <2>3
  <2>5. Burnt = SumFunctionOnSet(f, B)
    BY BurntSum
  <2>6. Burnt' = SumFunctionOnSet(g, B \cup {n})
    BY <2>1, Zenon DEF Burnt, SumFunction, Amounts
  <2>7. n \notin B /\ IsFiniteSet(B)
    BY <1>2, <1>3
  <2>. HIDE DEF n, B, f, g
  <2>8. SumFunctionOnSet(g, B \cup {n}) = SumFunctionOnSet(g, B) + g[n]
    BY <2>4, <2>7, SumAdd, Zenon
  <2>9. \A b \in B : g[b] = f[b]
    BY <2>3
  <2>10. SumFunctionOnSet(g, B) = SumFunctionOnSet(f, B)
    BY <2>7, <2>9, SumEqual, Zenon
  <2>11. Burnt' = Burnt + events'[n].amount
    BY <2>3, <2>5, <2>6, <2>8, <2>10, Zenon
  <2>12. ~ UNCHANGED BurntEvents
    BY <2>1, <2>7 DEF B
  <2>. QED  BY <2>11, <2>12, Zenon DEF n
<1>6. CASE ~ NewBurn /\ BurntEvents' # BurntEvents
  BY <1>6, Zenon
<1>. QED  BY <1>4, <1>5, <1>6, Zenon

LEMMA InitMintInv == Init => MintInv
<1>. SUFFICES ASSUME Init  PROVE MintInv
  OBVIOUS
<1>1. SumFunction(wrapped) = 0
  <2>1. wrapped = [u \in Users |-> 0] /\ IsFiniteSet(Users)
    BY BtcAssumption, Zenon DEF Init
  <2>2. DOMAIN wrapped = Users /\ \A u \in Users : wrapped[u] = 0
    BY <2>1
  <2>3. SumFunctionOnSet(wrapped, Users) = 0
    BY <2>1, <2>2, SumZero, Zenon
  <2>. QED  BY <2>2, <2>3, Zenon DEF SumFunction
<1>2. Burnt = 0
  <2>1. BurntEvents = {}
    BY DEF Init, BurntEvents, Height
  <2>2. DOMAIN [b \in BurntEvents |-> events[b].amount] = {}
    BY <2>1
  <2>. QED  BY <2>2, SumEmpty, Zenon DEF Burnt, SumFunction
<1>3. SumFunctionOnSet(Net, {}) = 0
  BY SumEmpty, Zenon
<1>. QED  BY <1>1, <1>2, <1>3 DEF MintInv

(* No step but those of the contract concerns tokens. *)
LEMMA MintSame ==
  ASSUME MintInv, UNCHANGED <<evmVars, height_of>>, Moved \subseteq Moved'
  PROVE  MintInv'
<1>1. UNCHANGED <<events, executed, wrapped, height_of>>
  BY Zenon DEF evmVars
<1>2. UNCHANGED BurntEvents
  BY <1>1 DEF BurntEvents, Height
<1>3. UNCHANGED Burnt
  BY <1>1, <1>2, Zenon DEF Burnt
<1>4. UNCHANGED Net
  BY Zenon DEF Net
<1>5. UNCHANGED SumFunction(wrapped)
  BY <1>1, Zenon
<1>6. PICK W \in SUBSET Moved :
        /\ SumFunction(wrapped) + Burnt = SumFunctionOnSet(Net, W)
        /\ \A x \in W : <<OwnerOf[x], height_of[x]>> \in executed
  BY Zenon DEF MintInv
<1>7. W \in SUBSET Moved'
  BY <1>6
<1>8. SumFunction(wrapped)' + Burnt' = SumFunctionOnSet(Net', W)
  BY <1>3, <1>4, <1>5, <1>6, Zenon
<1>9. \A x \in W : <<OwnerOf[x], height_of'[x]>> \in executed'
  BY <1>1, <1>6
<1>. QED  BY <1>7, <1>8, <1>9, Zenon DEF MintInv


LEMMA WrappedChange ==
  ASSUME AccountInv, AccountInv', NEW u \in Users, \A v \in Users : v # u => wrapped'[v] = wrapped[v]
  PROVE  /\ SumFunction(wrapped) \in Int
         /\ SumFunction(wrapped)' = SumFunction(wrapped) - wrapped[u] + wrapped'[u]
<1>1. wrapped \in [Users -> Int] /\ wrapped' \in [Users -> Int] /\ IsFiniteSet(Users)
  BY BtcAssumption DEF AccountInv
<1>2. SumFunction(wrapped') = SumFunction(wrapped) - wrapped[u] + wrapped'[u]
  BY <1>1, SumUpdate, ZenonT(60)
<1>3. DOMAIN wrapped = Users /\ \A v \in Users : wrapped[v] \in Int
  BY <1>1
<1>4. SumFunctionOnSet(wrapped, Users) \in Int
  BY <1>1, <1>3, SumInt, Zenon
<1>. QED  BY <1>2, <1>3, <1>4, Zenon DEF SumFunction

LEMMA BurnMintInv ==
  ASSUME TInv, RequestInv, AccountInv, AccountInv', MintInv,
         NEW u \in Users, NEW b \in Burns, Burn(u, b.amount, b.recipient)
  PROVE  MintInv'
<1>. DEFINE amount == b.amount
            S == SumFunction(wrapped)
<1>1. EvmStep
  BY Zenon DEF EvmStep
<1>2. amount \in Nat /\ wrapped[u] \in Int /\ wrapped' = [wrapped EXCEPT ![u] = @ - amount]
  BY BtcAssumption DEF Burn, AccountInv
<1>3. wrapped'[u] = wrapped[u] - amount /\ \A v \in Users : v # u => wrapped'[v] = wrapped[v]
  BY <1>2, Zenon DEF AccountInv
<1>4. S \in Int /\ S' = S - wrapped[u] + wrapped'[u]
  BY <1>3, WrappedChange, ZenonT(60)
<1>5. events'[Height + 1].amount = amount
  <2>1. events' = Append(events, Event("Burnt", u, b.recipient, amount, Cardinality(BurntEvents)))
    BY Zenon DEF Burn, Emit
  <2>2. events'[Height + 1] = Event("Burnt", u, b.recipient, amount, Cardinality(BurntEvents))
    BY <2>1 DEF TInv, Height
  <2>. QED  BY <2>2 DEF Event
<1>6. Burnt \in Int /\ Burnt' = Burnt + amount
  BY <1>1, <1>5, BurntSum, BurntEffect, BurntChange, Zenon
<1>. HIDE DEF S, amount
<1>7. S' + Burnt' = S + Burnt
  BY <1>2, <1>3, <1>4, <1>6, SMTT(30)
<1>8. PICK W \in SUBSET Moved :
        /\ S + Burnt = SumFunctionOnSet(Net, W)
        /\ \A x \in W : <<OwnerOf[x], height_of[x]>> \in executed
  BY Zenon DEF MintInv, S
<1>9. UNCHANGED <<executed, utxos, height_of, Net>>
  BY DEF Burn, ckbtcVars, Net
<1>10. Moved' = Moved
  BY <1>9 DEF Moved
<1>11. S' + Burnt' = SumFunctionOnSet(Net', W)
  BY <1>7, <1>8, <1>9, Zenon
<1>. QED  BY <1>8, <1>9, <1>10, <1>11, Zenon DEF MintInv, S

(* The UTXO of an executed order is a new one: its nonce was not used. *)
LEMMA OrderMintInv ==
  ASSUME TInv, UtxoInv, RequestInv, AccountInv, AccountInv', MintInv,
         NEW o \in orders, ExecuteOrder(o)
  PROVE  MintInv'
<1>. DEFINE x == o.utxo
            S == SumFunction(wrapped)
<1>1. EvmStep
  BY Zenon DEF EvmStep
<1>2. /\ x \in Utxos /\ o.user \in Users /\ o.user = OwnerOf[x] /\ o.nonce = height_of[x]
      /\ o.amount = ValueOf[x] - Fee /\ x \in Moved
  <2>1. x \in Utxos /\ o.user \in Users /\ o = Order(x) /\ utxos[x] = "Moved"
    BY Zenon DEF TInv, OrderSet, UtxoInv
  <2>2. o.user = OwnerOf[x] /\ o.nonce = height_of[x] /\ o.amount = ValueOf[x] - Fee
    BY <2>1 DEF Order
  <2>. QED  BY <2>1, <2>2, Zenon DEF Moved
<1>3. /\ <<o.user, o.nonce>> \notin executed
      /\ executed' = executed \cup {<<o.user, o.nonce>>}
      /\ wrapped' = [wrapped EXCEPT ![o.user] = @ + o.amount]
      /\ UNCHANGED <<utxos, height_of>>
  BY Zenon DEF ExecuteOrder, ckbtcVars
<1>4. o.amount \in Int /\ wrapped[o.user] \in Int
  BY <1>2, BtcAssumption, SMTT(30) DEF AccountInv
<1>5. /\ wrapped'[o.user] = wrapped[o.user] + o.amount
      /\ \A v \in Users : v # o.user => wrapped'[v] = wrapped[v]
  BY <1>2, <1>3, Zenon DEF AccountInv
<1>6. S \in Int /\ S' = S - wrapped[o.user] + wrapped'[o.user]
  BY <1>2, <1>5, WrappedChange, Zenon
<1>7. Burnt \in Int /\ Burnt' = Burnt
  <2>1. events'[Height + 1].type = "Minted"
    <3>1. events' = Append(events, Event("Minted", o.user, None, o.amount, o.nonce))
      BY Zenon DEF ExecuteOrder, Emit
    <3>2. events'[Height + 1] = Event("Minted", o.user, None, o.amount, o.nonce)
      BY <3>1 DEF TInv, Height
    <3>. QED  BY <3>2 DEF Event
  <2>2. Height + 1 \notin BurntEvents'
    BY <2>1, Zenon DEF BurntEvents
  <2>3. ~ NewBurn
    BY <2>2, Zenon DEF NewBurn
  <2>. QED  BY <1>1, <2>3, BurntSum, BurntEffect, BurntChange, ZenonT(60)
<1>8. PICK W \in SUBSET Moved :
        /\ S + Burnt = SumFunctionOnSet(Net, W)
        /\ \A y \in W : <<OwnerOf[y], height_of[y]>> \in executed
  BY Zenon DEF MintInv
<1>9. x \notin W
  BY <1>2, <1>3, <1>8
<1>10. IsFiniteSet(W)
  BY FS_Subset, BtcAssumption, Zenon DEF Moved
<1>11. \A y \in W \cup {x} : Net[y] \in Int
  BY <1>2, BtcAssumption, SMTT(30) DEF Net, Moved
<1>12. Net[x] = o.amount
  BY <1>2, Zenon DEF Net
<1>. HIDE DEF x, S
<1>13. SumFunctionOnSet(Net, W \cup {x}) = SumFunctionOnSet(Net, W) + Net[x]
  BY <1>9, <1>10, <1>11, SumAdd, Zenon
<1>14. S' + Burnt' = SumFunctionOnSet(Net, W \cup {x})
  BY <1>4, <1>5, <1>6, <1>7, <1>8, <1>12, <1>13, SMTT(30)
<1>15. Net' = Net /\ Moved' = Moved
  BY <1>3, Zenon DEF Net, Moved
<1>16. \A y \in W \cup {x} : <<OwnerOf[y], height_of'[y]>> \in executed'
  BY <1>2, <1>3, <1>8, Zenon
<1>17. W \cup {x} \in SUBSET Moved'
  BY <1>2, <1>8, <1>15, Zenon
<1>. QED  BY <1>14, <1>15, <1>16, <1>17, Zenon DEF MintInv, S


LEMMA NextMintInv ==
  ASSUME TInv, UtxoInv, RequestInv, AccountInv, AccountInv', MintInv, [Next]_vars
  PROVE  MintInv'
<1>1. CASE EvmStep
  <2>1. ASSUME NEW u, NotifyMinter(u)  PROVE MintInv'
    <3>1. UNCHANGED <<executed, wrapped, utxos, height_of>>
      BY <2>1 DEF NotifyMinter, ckbtcVars
    <3>2. events' = Append(events, Event("Notify", u, None, 0, 0))
      BY <2>1, Zenon DEF NotifyMinter, Emit
    <3>3. events'[Height + 1].type # "Burnt"
      BY <3>2 DEF TInv, Height, Event
    <3>4. ~ NewBurn
      BY <3>3 DEF NewBurn, BurntEvents
    <3>5. UNCHANGED Burnt
      BY <1>1, <3>4, BurntEffect, BurntChange, Zenon
    <3>6. UNCHANGED <<Moved, Net, SumFunction(wrapped)>>
      BY <3>1, Zenon DEF Moved, Net
    <3>. QED  BY <3>1, <3>5, <3>6, Zenon DEF MintInv
  <2>. QED  BY <1>1, <2>1, BurnMintInv, OrderMintInv, Zenon DEF EvmStep
<1>2. ASSUME NEW x \in Utxos, Pay(x) \/ Confirm(x)  PROVE MintInv'
  <2>1. UNCHANGED <<evmVars, height_of>>
    BY <1>2, BitcoinFrame, Zenon
  <2>2. Moved \subseteq Moved'
    BY <1>2, Zenon DEF Moved, Pay, Confirm, UtxoInv
  <2>. QED  BY <2>1, <2>2, MintSame
<1>3. ASSUME NEW c \in Collectors, Collect(c)  PROVE MintInv'
  <2>1. UNCHANGED <<evmVars, height_of, utxos>>
    BY <1>3, CollectAdds DEF bridgeUnchanged, ckbtcVars
  <2>2. Moved \subseteq Moved'
    BY <2>1 DEF Moved
  <2>. QED  BY <2>1, <2>2, MintSame, Zenon
<1>4. ASSUME NEW t \in TaskSet, PcOfType(t), CallStep(t)  PROVE MintInv'
  <2>1. Acts(t) \/ bridgeUnchanged
    BY <1>4, TaskCases DEF CallStep
  <2>2. UNCHANGED <<evmVars, height_of>>
    BY <2>1, Zenon DEF Acts, bridgeUnchanged, ckbtcVars, UpdateBalanceOk, MintErc20Transfer,
       remove_mint_order, burn_ckbtc, MintBtcTransfer, MintBtcRetrieve
  <2>3. CASE UpdateBalanceOk(t)
    <3>1. \A x \in Moved : x \notin InState(t.user, "confirmed")
      BY Zenon DEF Moved, InState
    <3>2. \A x \in Moved : utxos'[x] = "Moved"
      BY <2>3, <3>1 DEF UpdateBalanceOk, Moved
    <3>3. Moved \subseteq Moved'
      BY <3>2, Zenon DEF Moved
    <3>. QED  BY <2>2, <3>3, MintSame
  <2>4. ASSUME NEW x \in t.utxos, MintErc20Transfer(t, x)  PROVE MintInv'
    <3>1. Moved \subseteq Moved'
      BY <2>4, Zenon DEF MintErc20Transfer, Moved, UtxoInv
    <3>. QED  BY <2>2, <3>1, MintSame, Zenon
  <2>5. CASE UNCHANGED utxos
    BY <2>2, <2>5, MintSame DEF Moved
  <2>. QED  BY <2>1, <2>3, <2>4, <2>5, ZenonT(60) DEF Acts, bridgeUnchanged, ckbtcVars,
        remove_mint_order, burn_ckbtc, MintBtcTransfer, MintBtcRetrieve
<1>5. CASE UNCHANGED vars
  <2>1. UNCHANGED <<evmVars, height_of, utxos>>
    BY <1>5, Zenon DEF vars, ckbtcVars
  <2>. QED  BY <2>1, MintSame DEF Moved
<1>. QED  BY <1>1, <1>2, <1>3, <1>4, <1>5, NextSteps, SMTT(30)

-----------------------------------------------------------------------------

LEMMA InitWithdrawInv == Init => WithdrawInv
<1>. SUFFICES ASSUME Init  PROVE WithdrawInv
  OBVIOUS
<1>1. Retrieving = {} /\ Stranded = {}
  BY DEF Init, Retrieving, Stranded, Queued, Task
<1>2. SumFunctionOnSet(Withdrawn, Retrieving) = 0 /\ SumFunctionOnSet(Requested, Stranded) = 0
  BY <1>1, SumEmpty, Zenon
<1>3. IsFiniteSet(Retrieving)
  BY <1>1, FS_EmptySet
<1>. QED  BY <1>1, <1>2, <1>3, SMTT(30) DEF WithdrawInv, Init

MoneyInv == TInv /\ UtxoInv /\ OrderInv /\ BlockInv /\ AccountInv /\ RequestInv /\ WithdrawInv /\ MintInv

LEMMA MoneyInvariant == Spec => []MoneyInv
<1>1. Init => MoneyInv
  BY InitTInv, InitUtxoInv, InitOrderInv, InitBlockInv, InitAccountInv, InitRequestInv,
     InitWithdrawInv, InitMintInv, Zenon DEF MoneyInv
<1>2. MoneyInv /\ [Next]_vars => MoneyInv'
  <2>. SUFFICES ASSUME MoneyInv, [Next]_vars  PROVE MoneyInv'
    OBVIOUS
  <2>1. TInv /\ UtxoInv /\ OrderInv /\ BlockInv /\ AccountInv /\ RequestInv /\ WithdrawInv /\ MintInv
    BY DEF MoneyInv
  <2>2. TInv' /\ UtxoInv' /\ OrderInv' /\ BlockInv'
    BY <2>1, NextTInv, NextUtxoInv, NextOrderInv, NextBlockInv, Zenon
  <2>3. RequestInv' /\ WithdrawInv' /\ AccountInv'
    BY <2>1, NextRequestInv, NextAccountInv
  <2>4. MintInv'
    BY <2>1, <2>3, NextMintInv
  <2>. QED  BY <2>2, <2>3, <2>4, Zenon DEF MoneyInv
<1>. QED  BY <1>1, <1>2, PTL DEF Spec

LEMMA TransfersCovered == MoneyInv => TransferredCovered
<1>. SUFFICES ASSUME MoneyInv  PROVE TransferredCovered
  OBVIOUS
<1>. DEFINE T == {id \in DOMAIN burn_requests : burn_requests[id].is_transferred}
            F == [id \in T |-> burn_requests[id].amount - Fee]
            R == Retrieving
            K == T \ Stranded
            h == [t \in R |-> events[t.id].nonce]
<1>0. TInv /\ RequestInv /\ WithdrawInv /\ withdrawal \in Int
  BY DEF MoneyInv, AccountInv
<1>1. /\ IsFiniteSet(R) /\ \A t \in R : Fee <= events[t.id].amount
      /\ AmountsToRetrieve + AmountsStranded <= withdrawal
  BY <1>0 DEF WithdrawInv, AmountsToRetrieve, AmountsStranded
<1>2. /\ \A t \in R : Withdrawn[t] = events[t.id].amount - Fee
                      /\ Withdrawn[t] \in Int /\ Withdrawn[t] >= 0
      /\ \A id \in Stranded : Requested[id] = burn_requests[id].amount - Fee
      /\ AmountsToRetrieve \in Int /\ AmountsStranded \in Int
  BY <1>0, <1>1, WithdrawTerms, Zenon
<1>3. Stranded \subseteq T
  BY Zenon DEF Stranded
<1>4. \A id \in T : \E b \in BurntEvents :
          events[b].nonce = id /\ events[b].amount = burn_requests[id].amount
  BY <1>0 DEF RequestInv
<1>5. IsFiniteSet(T)
  <2>. DEFINE n == Cardinality(BurntEvents)
  <2>1. n \in Nat
    BY <1>0, BurntFinite
  <2>2. \A id \in T : id \in Nat /\ id < n
    BY <1>0, <1>4, RequestBurns, Zenon
  <2>. HIDE DEF n, T
  <2>3. T \subseteq 0..n /\ IsFiniteSet(0..n)
    BY <2>1, <2>2, FS_Interval, SMTT(30)
  <2>. QED  BY <2>3, FS_Subset, Zenon
<1>6. \A id \in T : F[id] = burn_requests[id].amount - Fee /\ F[id] \in Int
  BY <1>0, <1>4, BtcAssumption DEF RequestInv
<1>7. \A t \in R : /\ Withdrawn[t] \in Int /\ Withdrawn[t] >= 0
                   /\ h[t] \in K => F[h[t]] = Withdrawn[t]
  <2>. SUFFICES ASSUME NEW t \in R, h[t] \in K  PROVE F[h[t]] = Withdrawn[t]
    BY <1>2, Zenon
  <2>1. h[t] = events[t.id].nonce /\ h[t] \in T /\ t.id \in BurntEvents
    BY <1>0, RequestBurns, Zenon
  <2>2. events[t.id].amount = burn_requests[h[t]].amount
    BY <1>0, <1>4, <2>1, Zenon DEF RequestInv
  <2>. QED  BY <1>2, <1>6, <2>1, <2>2, Zenon
<1>8. \A k \in K : \E t \in R : h[t] = k
  BY DEF Stranded
<1>9. IsFiniteSet(K) /\ IsFiniteSet(Stranded)
  BY <1>3, <1>5, FS_Subset, Zenon
<1>10. \A id \in Stranded : F[id] = Requested[id]
  BY <1>2, <1>3, <1>6, Zenon
<1>11. SumFunction(F) = SumFunctionOnSet(F, T)
  BY Zenon DEF SumFunction
<1>12. TransferredCovered <=> withdrawal >= SumFunction(F)
  BY Zenon DEF TransferredCovered
<1>13. \A id \in T : F[id] \in Int
  BY <1>6, Zenon
<1>. HIDE DEF F, T, h, R
<1>14. SumFunctionOnSet(F, T) = SumFunctionOnSet(F, Stranded) + SumFunctionOnSet(F, K)
  BY <1>3, <1>5, <1>13, SumSplit, Zenon
<1>15. SumFunctionOnSet(F, Stranded) = AmountsStranded
  BY <1>9, <1>10, SumEqual, Zenon DEF AmountsStranded
<1>16. SumFunctionOnSet(F, K) \in Int
  BY <1>9, <1>13, SumInt, Zenon
<1>. HIDE DEF K
<1>17. SumFunctionOnSet(F, K) <= SumFunctionOnSet(Withdrawn, R)
  BY <1>1, <1>7, <1>8, <1>9, SumImage, Zenon
<1>. DEFINE a == SumFunctionOnSet(F, K)
            b == AmountsToRetrieve
            c == AmountsStranded
            d == SumFunctionOnSet(F, T)
<1>18. a <= b /\ d = c + a /\ b + c <= withdrawal /\ a \in Int
  BY <1>1, <1>14, <1>15, <1>16, <1>17, Zenon DEF AmountsToRetrieve, R
<1>19. b \in Int /\ c \in Int
  BY <1>2
<1>. HIDE DEF a, b, c, d
<1>20. withdrawal >= d
  BY <1>0, <1>18, <1>19
<1>. QED  BY <1>11, <1>12, <1>20 DEF d

(* The requests marked transferred are covered by the withdrawal account,  *)
(* whichever burns are handled twice, overlap, fail and are retried.       *)
THEOREM TransfersStayCovered == Spec => []TransferredCovered
  BY MoneyInvariant, TransfersCovered, PTL

LEMMA TokensBacked == MoneyInv => MintsBacked
<1>. SUFFICES ASSUME MoneyInv  PROVE MintsBacked
  OBVIOUS
<1>1. PICK W \in SUBSET Moved : SumFunction(wrapped) + Burnt = SumFunctionOnSet(Net, W)
  BY DEF MoneyInv, MintInv
<1>2. IsFiniteSet(Moved)
  BY FS_Subset, BtcAssumption, Zenon DEF Moved
<1>3. \A x \in Moved : Net[x] \in Int /\ Net[x] >= 0
  BY BtcAssumption DEF MoneyInv, UtxoInv, Moved, Net
<1>4. \A x \in W : Net[x] = Net[x]
  OBVIOUS
<1>5. SumFunctionOnSet(Net, W) <= SumFunctionOnSet(Net, Moved)
  BY <1>2, <1>3, <1>4, SumSubset, Zenon
<1>6. MintsBacked <=> SumFunction(wrapped) + Burnt <= SumFunctionOnSet(Net, Moved)
  BY Zenon DEF MintsBacked, Net, Moved
<1>. QED  BY <1>1, <1>5, <1>6, Zenon

(* Wrapped tokens are backed: tokens held or burnt never exceed the ckBTC  *)
(* that was moved for the orders, whoever executes them and even when two  *)
(* orders have one nonce.                                                  *)
THEOREM MintsStayBacked == Spec => []MintsBacked
  BY MoneyInvariant, TokensBacked, PTL

LEMMA MoneyTyped == MoneyInv => TypeOK
<1>. SUFFICES ASSUME MoneyInv  PROVE TypeOK
  OBVIOUS
<1>0. TInv /\ UtxoInv /\ OrderInv /\ BlockInv /\ AccountInv /\ RequestInv
  BY Zenon DEF MoneyInv
<1>1. next_block \in 0..(Height + 1) \cup {None}
  BY <1>0, BurntFinite DEF TInv, BlockInv
<1>2. ASSUME NEW t \in tasks
      PROVE  /\ t.type \in TaskTypes /\ (t.pc = "transfer" => t.type = "Call")
             /\ t.utxos \subseteq InState(t.user, "Minted")
  <2>1. t \in TaskSet /\ PcOfType(t)
    BY <1>0, Zenon DEF TInv
  <2>2. t.type \in TaskTypes /\ t.utxos \subseteq Utxos
    BY <2>1, Zenon DEF TaskSet
  <2>3. t.utxos \subseteq InState(t.user, "Minted")
    BY <1>0, <2>2, Zenon DEF UtxoInv, InState
  <2>. QED  BY <2>1, <2>2, <2>3, Zenon DEF PcOfType
<1>3. \A id \in DOMAIN burn_requests : id < Cardinality(BurntEvents)
  BY <1>0, RequestBurns DEF RequestInv
<1>. QED  BY <1>0, <1>1, <1>2, <1>3, Zenon DEF TypeOK, AccountInv, OrderInv

(* The canister and ckBTC stay well-typed: no balance becomes negative,    *)
(* and next_block is no more than one past the chain, whatever is written  *)
(* back late.                                                              *)
THEOREM BtcTyped == Spec => []TypeOK
  BY MoneyInvariant, MoneyTyped, PTL

-----------------------------------------------------------------------------
(* The ckBTC of deposits whose order is not signed yet.                    *)

Held(u) == InState(u, "Minted")

LEMMA InitHeld == Init => DepositsHeld
<1>. SUFFICES ASSUME Init, NEW u \in Users  PROVE subaccount[u] = SumOf(Held(u))
  BY Zenon DEF DepositsHeld, Held
<1>1. Held(u) = {}
  BY DEF Init, Held, InState
<1>2. SumOf(Held(u)) = 0
  BY <1>1, SumEmpty, Zenon DEF SumOf
<1>. QED  BY <1>2 DEF Init

LEMMA HeldSame ==
  ASSUME DepositsHeld, UNCHANGED subaccount, \A u \in Users : Held(u)' = Held(u)
  PROVE  DepositsHeld'
  BY Zenon DEF DepositsHeld, Held, SumOf

LEMMA HeldFinite ==
  ASSUME NEW u
  PROVE  IsFiniteSet(Held(u)) /\ \A x \in Held(u) : ValueOf[x] \in Int
<1>1. Held(u) \subseteq Utxos
  BY DEF Held, InState
<1>2. \A x \in Utxos : ValueOf[x] \in Int
  BY BtcAssumption
<1>. QED  BY <1>1, <1>2, FS_Subset, BtcAssumption, Zenon

(* ckBTC credits the subaccount with the UTXOs that it reports as minted. *)
LEMMA BalanceHeld ==
  ASSUME UtxoInv, AccountInv, DepositsHeld, NEW t \in TaskSet, UpdateBalanceOk(t)
  PROVE  DepositsHeld'
<1>. DEFINE new == InState(t.user, "confirmed")
<1>1. PICK outcome \in [new -> Outcomes] :
         /\ utxos' = [x \in Utxos |-> IF x \in new /\ outcome[x] # "Checked"
                                      THEN outcome[x] ELSE utxos[x]]
         /\ subaccount' = [subaccount EXCEPT ![t.user] = @ + SumOf({x \in new : outcome[x] = "Minted"})]
  BY Zenon DEF UpdateBalanceOk
<1>. DEFINE minted == {x \in new : outcome[x] = "Minted"}
<1>2. \A x \in Utxos : utxos'[x] = IF x \in new /\ outcome[x] # "Checked" THEN outcome[x] ELSE utxos[x]
  BY <1>1, Zenon
<1>3. \A x \in new : x \in Utxos /\ OwnerOf[x] = t.user /\ utxos[x] = "confirmed"
  BY Zenon DEF InState
<1>4. \A u \in Users : Held(u)' = IF u = t.user THEN Held(u) \cup minted ELSE Held(u)
  BY <1>2, <1>3 DEF Held, InState
<1>5. minted \cap Held(t.user) = {}
  BY <1>3 DEF Held, InState
<1>6. \A u \in Users : subaccount'[u] = IF u = t.user THEN subaccount[u] + SumOf(minted) ELSE subaccount[u]
  BY <1>1, Zenon DEF AccountInv
<1>. HIDE DEF minted, new
<1>7. ASSUME t.user \in Users
      PROVE  SumOf(Held(t.user)') = SumOf(Held(t.user)) + SumOf(minted)
  <2>. DEFINE all == Held(t.user)'
              old == Held(t.user)
  <2>1. IsFiniteSet(all) /\ \A x \in all : ValueOf[x] \in Int
    <3>1. all \subseteq Utxos
      BY DEF Held, InState
    <3>2. \A x \in Utxos : ValueOf[x] \in Int
      BY BtcAssumption
    <3>. QED  BY <3>1, <3>2, FS_Subset, BtcAssumption, Zenon
  <2>2. all = old \cup minted
    BY <1>4, <1>7
  <2>3. old \in SUBSET all /\ all \ old = minted
    BY <1>5, <2>2
  <2>. HIDE DEF all, old
  <2>4. SumFunctionOnSet(ValueOf, all)
          = SumFunctionOnSet(ValueOf, old) + SumFunctionOnSet(ValueOf, all \ old)
    BY <2>1, <2>3, SumSplit, Zenon
  <2>5. SumOf(all) = SumOf(old) + SumOf(minted)
    BY <2>3, <2>4, Zenon DEF SumOf
  <2>. QED  BY <2>5 DEF all, old
<1>8. ASSUME NEW u \in Users  PROVE subaccount'[u] = SumOf(Held(u)')
  <2>1. subaccount[u] = SumOf(Held(u))
    BY Zenon DEF DepositsHeld, Held
  <2>2. CASE u = t.user
    BY <1>6, <1>7, <2>1, <2>2, Zenon
  <2>3. CASE u # t.user
    BY <1>4, <1>6, <2>1, <2>3, Zenon
  <2>. QED  BY <2>2, <2>3, Zenon
<1>. QED  BY <1>8, Zenon DEF DepositsHeld, Held, SumOf

(* The whole value of a UTXO leaves the subaccount, the fee with it. *)
LEMMA TransferHeld ==
  ASSUME UtxoInv, AccountInv, DepositsHeld,
         NEW t \in tasks, NEW x \in t.utxos, x \in Utxos, t.user \in Users, MintErc20Transfer(t, x)
  PROVE  DepositsHeld'
<1>1. /\ subaccount' = [subaccount EXCEPT ![t.user] = @ - ValueOf[x]]
      /\ utxos' = [utxos EXCEPT ![x] = "Moved"]
  BY Zenon DEF MintErc20Transfer
<1>2. OwnerOf[x] = t.user /\ utxos[x] = "Minted"
  BY Zenon DEF UtxoInv
<1>3. x \in Held(t.user)
  BY <1>2, Zenon DEF Held, InState
<1>4. utxos'[x] = "Moved" /\ \A y \in Utxos : y # x => utxos'[y] = utxos[y]
  BY <1>1, Zenon DEF UtxoInv
<1>5. \A u \in Users : Held(u)' = IF u = t.user THEN Held(u) \ {x} ELSE Held(u)
  BY <1>2, <1>4 DEF Held, InState
<1>6. \A u \in Users : /\ subaccount[u] \in Int
                       /\ subaccount'[u] = IF u = t.user THEN subaccount[u] - ValueOf[x] ELSE subaccount[u]
  BY <1>1 DEF AccountInv
<1>7. SumFunctionOnSet(ValueOf, Held(t.user))
        = ValueOf[x] + SumFunctionOnSet(ValueOf, Held(t.user) \ {x})
  <2>. DEFINE H == Held(t.user)
  <2>1. IsFiniteSet(H) /\ (\A y \in H : ValueOf[y] \in Int) /\ x \in H
    BY <1>3, HeldFinite, Zenon
  <2>. HIDE DEF H
  <2>2. SumFunctionOnSet(ValueOf, H) = ValueOf[x] + SumFunctionOnSet(ValueOf, H \ {x})
    BY <2>1, SumRemove, SMTT(30)
  <2>. QED  BY <2>2 DEF H
<1>8. SumFunctionOnSet(ValueOf, Held(t.user) \ {x}) \in Int /\ ValueOf[x] \in Int
  <2>1. IsFiniteSet(Held(t.user) \ {x}) /\ \A y \in Held(t.user) \ {x} : ValueOf[y] \in Int
    BY HeldFinite, FS_Subset
  <2>2. ValueOf[x] \in Int
    BY <1>3, HeldFinite, Zenon
  <2>. QED  BY <2>1, <2>2, SumInt, Zenon
<1>9. ASSUME NEW u \in Users  PROVE subaccount'[u] = SumOf(Held(u)')
  <2>1. subaccount[u] = SumOf(Held(u))
    BY Zenon DEF DepositsHeld, Held
  <2>2. CASE u = t.user
    <3>. DEFINE rest == SumFunctionOnSet(ValueOf, Held(t.user) \ {x})
                old == subaccount[t.user]
    <3>1. old = ValueOf[x] + rest /\ rest \in Int /\ ValueOf[x] \in Int
      BY <1>7, <1>8, <2>1, <2>2, Zenon DEF SumOf
    <3>2. subaccount'[t.user] = old - ValueOf[x] /\ SumOf(Held(t.user)') = rest
      BY <1>5, <1>6, <2>2, Zenon DEF SumOf
    <3>. HIDE DEF rest, old
    <3>3. subaccount'[t.user] = rest
      BY <3>1, <3>2
    <3>. QED  BY <2>2, <3>2, <3>3, Zenon
  <2>3. CASE u # t.user
    BY <1>5, <1>6, <2>1, <2>3, Zenon
  <2>. QED  BY <2>2, <2>3, Zenon
<1>. QED  BY <1>9, Zenon DEF DepositsHeld, Held, SumOf

LEMMA NextHeld ==
  ASSUME TInv, UtxoInv, AccountInv, DepositsHeld, [Next]_vars
  PROVE  DepositsHeld'
<1>0. CASE UNCHANGED ckbtcVars
  <2>1. UNCHANGED <<subaccount, utxos>>
    BY <1>0, Zenon DEF ckbtcVars, accountVars
  <2>. QED  BY <2>1, HeldSame, Zenon DEF Held, InState
<1>1. CASE EvmStep
  BY <1>0, <1>1, EvmFrame, Zenon
<1>2. ASSUME NEW x \in Utxos, Pay(x) \/ Confirm(x)  PROVE DepositsHeld'
  <2>1. UNCHANGED subaccount
    BY <1>2, BitcoinFrame, Zenon DEF accountVars
  <2>2. /\ utxos[x] # "Minted" /\ utxos'[x] # "Minted"
        /\ \A y \in Utxos : y # x => utxos'[y] = utxos[y]
    BY <1>2 DEF Pay, Confirm, UtxoInv
  <2>3. \A u \in Users : Held(u)' = Held(u)
    BY <2>2 DEF Held, InState
  <2>. QED  BY <2>1, <2>3, HeldSame, Zenon
<1>3. ASSUME NEW c \in Collectors, Collect(c)  PROVE DepositsHeld'
  BY <1>0, <1>3, CollectAdds, Zenon DEF bridgeUnchanged
<1>4. ASSUME NEW t \in TaskSet, PcOfType(t), CallStep(t)  PROVE DepositsHeld'
  <2>1. ASSUME NEW x \in t.utxos, MintErc20Transfer(t, x)  PROVE DepositsHeld'
    <3>1. t \in tasks
      BY <1>4, <2>1, Zenon DEF CallStep
    <3>2. x \in Utxos /\ OwnerOf[x] = t.user
      BY <2>1, <3>1, Zenon DEF UtxoInv, TaskSet
    <3>3. t.user \in Users
      BY <3>2, BtcAssumption, Zenon
    <3>. QED  BY <2>1, <3>1, <3>2, <3>3, TransferHeld, Zenon
  <2>2. CASE remove_mint_order(t) \/ burn_ckbtc(t)
    BY <1>0, <2>2, Zenon DEF remove_mint_order, burn_ckbtc
  <2>3. CASE MintBtcTransfer(t) \/ MintBtcRetrieve(t)
    <3>1. UNCHANGED <<subaccount, utxos>>
      BY <2>3, Zenon DEF MintBtcTransfer, MintBtcRetrieve
    <3>. QED  BY <3>1, HeldSame, Zenon DEF Held, InState
  <2>4. Acts(t) \/ bridgeUnchanged
    BY <1>4, TaskCases, Zenon DEF CallStep
  <2>. QED  BY <1>0, <2>1, <2>2, <2>3, <2>4, BalanceHeld, Zenon DEF Acts, bridgeUnchanged
<1>5. CASE UNCHANGED vars
  BY <1>0, <1>5, Zenon DEF vars
<1>. QED  BY <1>1, <1>2, <1>3, <1>4, <1>5, NextSteps, Zenon

(* What a user's subaccount has is what ckBTC minted for the user's        *)
(* deposits and no order was signed for: a failed call strands a deposit   *)
(* but loses nothing of it, and no two calls move the same one.            *)
THEOREM DepositsStayHeld == Spec => []DepositsHeld
<1>1. MoneyInv /\ DepositsHeld /\ [Next]_vars => DepositsHeld'
  BY NextHeld, Zenon DEF MoneyInv
<1>. QED  BY <1>1, InitHeld, MoneyInvariant, PTL DEF Spec
=============================================================================
