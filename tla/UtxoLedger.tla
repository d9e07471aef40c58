----------------------------- MODULE UtxoLedger -----------------------------
(***************************************************************************)
(* UtxoLedger of rune-bridge/src/ledger.rs, as functions from a ledger to  *)
(* a ledger.  A ledger is a record                                         *)
(*   storage  the keys of utxo_storage                                     *)
(*   used     used_utxos_registry, key -> [used_at, owner]                 *)
(* The two maps are independent: a key may be in either, in both or in     *)
(* none.                                                                   *)
(***************************************************************************)
EXTENDS Functions

EmptyLedger == [storage |-> {}, used |-> [k \in {} |-> k]]

deposit(l, keys) == [l EXCEPT !.storage = @ \cup keys]

load_unspent_utxos(l) == l.storage \ DOMAIN l.used

UsedUtxoDetails(used_at, owner) == [used_at |-> used_at, owner |-> owner]

\* Every key of the call gets an entry; an older one is overwritten.
mark_as_used(l, keys, owner, now) ==
    [l EXCEPT !.used = [k \in DOMAIN l.used \cup keys |->
        IF k \in keys THEN UsedUtxoDetails(now, owner) ELSE l.used[k]]]

load_used_utxos(l) == {[key |-> k, owner |-> l.used[k].owner, used_at |-> l.used[k].used_at] :
                          k \in DOMAIN l.used}

remove_spent_utxo(l, keys) == [storage |-> l.storage \ keys,
                               used |-> Restrict(l.used, DOMAIN l.used \ keys)]

remove_unspent_utxo(l, keys) == [l EXCEPT !.used = Restrict(@, DOMAIN @ \ keys)]
=============================================================================
