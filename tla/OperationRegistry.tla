------------------------- MODULE OperationRegistry -------------------------
(***************************************************************************)
(* What MinterOperationStore promises its callers, without its three maps: *)
(* one map from operation ids to operations that holds every incomplete    *)
(* operation and the MaxLogSize latest completed ones.  A completed        *)
(* operation never changes; it can only be dropped, by later completions.  *)
(***************************************************************************)
EXTENDS Integers, FiniteSets

CONSTANTS Wallets, Payloads, Complete, MaxLogSize, MaxOperations

VARIABLES
    ops,        \* operation id -> [dst_address, payload]
    nextId      \* the id of the next operation

vars == <<ops, nextId>>

Completed(o) == {i \in DOMAIN o : o[i].payload \in Complete}

\* A completed operation is kept while fewer than MaxLogSize completed
\* operations are newer than it.
Kept(o) == {i \in DOMAIN o :
              i \in Completed(o) =>
                Cardinality({j \in Completed(o) : j > i}) < MaxLogSize}

KeepLatest(o) == [i \in Kept(o) |-> o[i]]

With(o, i, a, p) ==
    [j \in DOMAIN o \cup {i} |->
        IF j = i THEN [dst_address |-> a, payload |-> p] ELSE o[j]]

Init == /\ ops = [i \in {} |-> i]
        /\ nextId = 0

Create(a, p) == /\ nextId < MaxOperations
                /\ ops' = KeepLatest(With(ops, nextId, a, p))
                /\ nextId' = nextId + 1

Change(i, p) == /\ i \in DOMAIN ops \ Completed(ops)
                /\ ops' = KeepLatest(With(ops, i, ops[i].dst_address, p))
                /\ UNCHANGED nextId

Next == \/ \E a \in Wallets, p \in Payloads : Create(a, p)
        \/ \E i \in DOMAIN ops, p \in Payloads : Change(i, p)

Spec == Init /\ [][Next]_vars
=============================================================================
