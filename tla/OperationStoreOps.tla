------------------------- MODULE OperationStoreOps -------------------------
(***************************************************************************)
(* MinterOperationStore of minter-contract-utils/src/operation_store.rs,   *)
(* as functions from a store to a store, so that a canister step that      *)
(* calls the store several times is one action.                            *)
(*                                                                         *)
(* A store is a record                                                     *)
(*   counter     OPERATION_ID_COUNTER, the next operation id               *)
(*   incomplete  incomplete_operations, operation id -> entry              *)
(*   log         operations_log, operation id -> entry                     *)
(*   byAddress   address_operation_map, wallet -> operation ids            *)
(* and an entry is [dst_address, payload].  The id list of a wallet is     *)
(* kept as a set: ids are pushed in increasing order and only ever         *)
(* filtered, so the list is that set in increasing order.                  *)
(***************************************************************************)
EXTENDS Integers, FiniteSets

CONSTANTS
    MaxLogSize,      \* max_operations_count of MinterOperationStoreOptions
    Complete         \* the payloads for which is_complete() holds

\* The options of the code are always the default (100_000 operations).
ASSUME MaxLogSizeAssumption == MaxLogSize \in Nat \ {0}

EmptyMap == [x \in {} |-> x]

Put(f, k, v) == [x \in DOMAIN f \cup {k} |-> IF x = k THEN v ELSE f[x]]

Without(f, k) == [x \in DOMAIN f \ {k} |-> f[x]]

Store(counter, incomplete, log, byAddress) ==
    [counter |-> counter, incomplete |-> incomplete,
     log |-> log, byAddress |-> byAddress]

with_memory == Store(0, EmptyMap, EmptyMap, EmptyMap)

is_complete(payload) == payload \in Complete

ids_of(s, a) == IF a \in DOMAIN s.byAddress THEN s.byAddress[a] ELSE {}

Stored(s) == DOMAIN s.incomplete \cup DOMAIN s.log

\* get_with_id: the incomplete operations shadow the log.
get(s, id) == IF id \in DOMAIN s.incomplete THEN s.incomplete[id].payload
                                            ELSE s.log[id].payload

get_for_address(s, a) == ids_of(s, a) \cap Stored(s)

\* Mutant: the wrong end of the log.
oldest_is_newest(s) == CHOOSE i \in DOMAIN s.log : \A j \in DOMAIN s.log : i >= j

oldest(s) == CHOOSE i \in DOMAIN s.log : \A j \in DOMAIN s.log : i <= j

\* The address index without one operation; a wallet left without any
\* operation loses its key.
drop_from_index(s, a, id) ==
    IF id \notin ids_of(s, a) THEN s.byAddress
    ELSE IF ids_of(s, a) = {id} THEN Without(s.byAddress, a)
    ELSE Put(s.byAddress, a, ids_of(s, a) \ {id})

\* Mutant: the evicted operation stays listed for its wallet.
remove_oldest_keeps_index(s) ==
    Store(s.counter, s.incomplete, Without(s.log, oldest(s)), s.byAddress)

remove_oldest(s) ==
    LET id == oldest(s)
    IN  Store(s.counter, s.incomplete, Without(s.log, id),
              drop_from_index(s, s.log[id].dst_address, id))

\* Mutant: the log grows past its limit before an eviction.
move_to_log_late(s, id, entry) ==
    LET moved == Store(s.counter, Without(s.incomplete, id),
                       Put(s.log, id, entry), s.byAddress)
    IN  IF Cardinality(DOMAIN moved.log) > MaxLogSize + 1
        THEN remove_oldest(moved) ELSE moved

move_to_log(s, id, entry) ==
    LET moved == Store(s.counter, Without(s.incomplete, id),
                       Put(s.log, id, entry), s.byAddress)
    IN  IF Cardinality(DOMAIN moved.log) > MaxLogSize
        THEN remove_oldest(moved) ELSE moved

\* Mutant: completed operations are never moved to the log.
store_entry_incomplete(s, id, entry) ==
    Store(s.counter, Put(s.incomplete, id, entry), s.log, s.byAddress)

store_entry(s, id, entry) ==
    IF is_complete(entry.payload)
    THEN move_to_log(s, id, entry)
    ELSE Store(s.counter, Put(s.incomplete, id, entry), s.log, s.byAddress)

push_id(s, a, id) ==
    Store(s.counter, s.incomplete, s.log,
          Put(s.byAddress, a, ids_of(s, a) \cup {id}))

next_id(s) == Store(s.counter + 1, s.incomplete, s.log, s.byAddress)

\* new_operation: the entry is stored (and possibly an old one evicted)
\* before the id is pushed to the list of the wallet.
new_operation(s, a, payload) ==
    LET id == s.counter
    IN  push_id(store_entry(next_id(s), id,
                            [dst_address |-> a, payload |-> payload]),
                a, id)

\* update: only an incomplete operation is changed.
update(s, id, payload) ==
    IF id \in DOMAIN s.incomplete
    THEN store_entry(s, id, [dst_address |-> s.incomplete[id].dst_address,
                             payload |-> payload])
    ELSE s
=============================================================================
