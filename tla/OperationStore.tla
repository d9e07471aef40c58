--------------------------- MODULE OperationStore ---------------------------
(***************************************************************************)
(* The operation store of a bridge canister as a state machine: handlers   *)
(* create operations and update them by id, in any order, also with the    *)
(* id of an operation that is already completed or evicted.                *)
(***************************************************************************)
EXTENDS OperationStoreOps

CONSTANTS
    Wallets,         \* ETH wallet addresses
    Payloads,        \* operation payloads
    MaxOperations    \* bound on the number of operations created

ASSUME StoreAssumption == Complete \subseteq Payloads /\ MaxOperations \in Nat

VARIABLE store

Init == store = with_memory

NewOperation(a, p) == /\ store.counter < MaxOperations
                      /\ store' = new_operation(store, a, p)

Update(id, p) == store' = update(store, id, p)

Next == \/ \E a \in Wallets, p \in Payloads : NewOperation(a, p)
        \/ \E id \in 0..MaxOperations, p \in Payloads : Update(id, p)

Spec == Init /\ [][Next]_store

-----------------------------------------------------------------------------

Entries == [dst_address : Wallets, payload : Payloads]

Ids == 0..MaxOperations

IsMap(f, K, V) == DOMAIN f \subseteq K /\ f \in [DOMAIN f -> V]

\* The three maps hold what their names say: only incomplete operations
\* wait to be updated and only complete ones are logged (is_complete), and
\* no id at or above the counter is in use.
TypeOK ==
    /\ store = Store(store.counter, store.incomplete, store.log, store.byAddress)
    /\ store.counter \in Ids
    /\ IsMap(store.incomplete, Ids, Entries)
    /\ IsMap(store.log, Ids, Entries)
    /\ IsMap(store.byAddress, Wallets, SUBSET Ids)
    /\ \A i \in Stored(store) : i < store.counter
    /\ \A i \in DOMAIN store.incomplete : ~ is_complete(store.incomplete[i].payload)
    /\ \A i \in DOMAIN store.log : is_complete(store.log[i].payload)

EntryOf(s, id) == IF id \in DOMAIN s.incomplete THEN s.incomplete[id]
                                                ELSE s.log[id]

\* The address index agrees with the operations at all times, through
\* completions and evictions (get_for_address): the ids listed for a wallet
\* are the stored operations of that wallet, no operation is in both maps,
\* and no wallet has an empty list.
IndexExact ==
    /\ DOMAIN store.incomplete \cap DOMAIN store.log = {}
    /\ \A a \in Wallets :
         ids_of(store, a) = {i \in Stored(store) : EntryOf(store, i).dst_address = a}
    /\ \A a \in DOMAIN store.byAddress : store.byAddress[a] # {}

\* The log never holds more operations than configured (move_to_log evicts
\* one operation at a time and that is always enough).
LogBounded == Cardinality(DOMAIN store.log) <= MaxLogSize

AllOps(s) == [i \in Stored(s) |-> EntryOf(s, i)]

Registry == INSTANCE OperationRegistry
              WITH ops <- AllOps(store), nextId <- store.counter

\* The store, seen as one map, behaves as the registry it promises to be:
\* incomplete operations are never dropped, completed ones never change and
\* the ones kept are the latest (new_operation, update, remove_oldest).
RegistrySpec == Registry!Spec
=============================================================================
