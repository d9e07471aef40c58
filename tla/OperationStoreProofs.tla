------------------------ MODULE OperationStoreProofs ------------------------
(***************************************************************************)
(* Proofs about OperationStore.                                            *)
(***************************************************************************)
EXTENDS OperationStore, FiniteSetTheorems, TLAPS

(* Every non-empty set of operation ids has a smallest one, so that         *)
(* remove_oldest, which takes the first key of the ordered log, is defined. *)
LEMMA Smallest ==
    ASSUME NEW S \in SUBSET Nat, S # {}
    PROVE  \E i \in S : \A j \in S : i <= j
<1>. DEFINE D(i) == {j \in S : j <= i}
            R == StrictSubsetOrdering(S)
            T == {D(i) : i \in S}
<1>1. T \subseteq FiniteSubsetsOf(S) /\ T # {}
  <2>1. ASSUME NEW i \in S  PROVE IsFiniteSet(D(i))
    BY FS_BoundedSetOfNaturals
  <2>. QED  BY <2>1, Zenon DEF FiniteSubsetsOf
<1>2. PICK X \in T : \A Y \in T : ~ (<<Y, X>> \in R)
  BY <1>1, FS_StrictSubsetOrderingWellFounded, WFMin, Zenon
<1>3. PICK i \in S : X = D(i)
  OBVIOUS
<1>4. ASSUME NEW j \in S  PROVE i <= j
  <2>0. \A k \in S : k \in Nat
    OBVIOUS
  <2>1. SUFFICES ASSUME j < i PROVE FALSE
    BY <2>0
  <2>2. D(j) \subseteq D(i)
    <3>1. ASSUME NEW k \in S, k <= j  PROVE k <= i
      BY <2>0, <2>1, <3>1
    <3>. QED  BY <3>1, Zenon
  <2>4. i \in D(i)
    BY <2>0
  <2>5. i \notin D(j)
    BY <2>0, <2>1
  <2>3. <<D(j), D(i)>> \in R
    BY <2>2, <2>4, <2>5 DEF StrictSubsetOrdering
  <2>. QED  BY <1>2, <1>3, <2>3, Zenon
<1>. QED  BY <1>4

(* Fewer than MaxLogSize operations of a log within its bound are newer than *)
(* any given one: nothing has to be evicted.                                 *)
LEMMA NewerInBoundedLog ==
    ASSUME NEW L \in SUBSET Nat, IsFiniteSet(L), Cardinality(L) <= MaxLogSize,
           NEW i \in L
    PROVE  Cardinality({j \in L : j > i}) < MaxLogSize
<1>. DEFINE N == {j \in L : j > i}
<1>1. IsFiniteSet(L \ {i}) /\ Cardinality(L \ {i}) = Cardinality(L) - 1
  BY FS_RemoveElement
<1>2. N \subseteq L \ {i}
  OBVIOUS
<1>3. IsFiniteSet(N) /\ Cardinality(N) <= Cardinality(L \ {i})
  BY <1>1, <1>2, FS_Subset
<1>4. Cardinality(L) \in Nat /\ Cardinality(N) \in Nat
  BY <1>3, FS_CardinalityType
<1>. QED  BY <1>1, <1>3, <1>4, MaxLogSizeAssumption

(* In a log one over its bound, MaxLogSize operations are newer than the     *)
(* oldest one and fewer than that are newer than any other: evicting the     *)
(* oldest keeps exactly the latest MaxLogSize (remove_oldest).               *)
LEMMA NewerInFullLog ==
    ASSUME NEW L \in SUBSET Nat, IsFiniteSet(L), Cardinality(L) = MaxLogSize + 1,
           NEW m \in L, \A j \in L : m <= j,
           NEW i \in L
    PROVE  Cardinality({j \in L : j > i}) < MaxLogSize <=> i # m
<1>. DEFINE M == L \ {m}
<1>0. \A j \in L : j \in Nat
  OBVIOUS
<1>1. IsFiniteSet(M) /\ Cardinality(M) = MaxLogSize
  <2>1. IsFiniteSet(M) /\ Cardinality(M) = Cardinality(L) - 1
    BY FS_RemoveElement
  <2>. QED  BY <2>1, MaxLogSizeAssumption
<1>2. CASE i = m
  <2>1. {j \in L : j > i} = M
    <3>1. ASSUME NEW j \in L  PROVE j > m <=> j # m
      BY <1>0
    <3>. QED  BY <1>2, <3>1, Zenon
  <2>. QED  BY <1>1, <1>2, <2>1, MaxLogSizeAssumption
<1>3. CASE i # m
  <2>1. {j \in L : j > i} = {j \in M : j > i}
    BY <1>3
  <2>2. Cardinality({j \in M : j > i}) < MaxLogSize
    BY <1>1, <1>3, NewerInBoundedLog, MaxLogSizeAssumption
  <2>. QED  BY <1>3, <2>1, <2>2
<1>. QED  BY <1>2, <1>3

-----------------------------------------------------------------------------
(***************************************************************************)
(* The invariant, for a store s in the middle of an operation: the index   *)
(* is exact for the operations in S (new_operation stores the entry before *)
(* it pushes the id, so its id is outside S until the end).                *)
(***************************************************************************)
Typed(s) ==
    /\ s = Store(s.counter, s.incomplete, s.log, s.byAddress)
    /\ s.counter \in Ids
    /\ IsMap(s.incomplete, Ids, Entries)
    /\ IsMap(s.log, Ids, Entries)
    /\ IsMap(s.byAddress, Wallets, SUBSET Ids)
    /\ \A i \in Stored(s) : i < s.counter

Sorted(s) ==
    /\ \A i \in DOMAIN s.incomplete : ~ is_complete(s.incomplete[i].payload)
    /\ \A i \in DOMAIN s.log : is_complete(s.log[i].payload)
    /\ DOMAIN s.incomplete \cap DOMAIN s.log = {}

Indexed(s, S) ==
    /\ \A a \in Wallets :
         ids_of(s, a) = {i \in Stored(s) \cap S : EntryOf(s, i).dst_address = a}
    /\ \A a \in DOMAIN s.byAddress : s.byAddress[a] # {}

Bounded(s) == Cardinality(DOMAIN s.log) <= MaxLogSize

(* The log of a store is a finite set of natural numbers. *)
LEMMA LogFinite ==
    ASSUME NEW s, Typed(s)
    PROVE  /\ DOMAIN s.log \in SUBSET Nat
           /\ IsFiniteSet(DOMAIN s.log)
           /\ Cardinality(DOMAIN s.log) \in Nat
<1>1. DOMAIN s.log \in SUBSET Ids
  BY DEF Typed, IsMap
<1>2. IsFiniteSet(Ids) /\ Ids \subseteq Nat
  BY FS_Interval, StoreAssumption DEF Ids
<1>3. IsFiniteSet(DOMAIN s.log)
  BY <1>1, <1>2, FS_Subset
<1>. QED  BY <1>1, <1>2, <1>3, FS_CardinalityType, Zenon

(* The operation remove_oldest evicts is the smallest id of the log. *)
LEMMA OldestIsSmallest ==
    ASSUME NEW s, Typed(s), DOMAIN s.log # {}
    PROVE  /\ oldest(s) \in DOMAIN s.log
           /\ \A j \in DOMAIN s.log : oldest(s) <= j
<1>1. \E i \in DOMAIN s.log : \A j \in DOMAIN s.log : i <= j
  BY LogFinite, Smallest
<1>. QED  BY <1>1 DEF oldest

(* remove_oldest drops one operation from the log and from the index. *)
LEMMA EvictKeeps ==
    ASSUME NEW s, Typed(s), Sorted(s), NEW S, Indexed(s, S), DOMAIN s.log # {}
    PROVE  LET t == remove_oldest(s)
           IN  /\ Typed(t) /\ Sorted(t) /\ Indexed(t, S)
               /\ t.counter = s.counter
               /\ t.incomplete = s.incomplete
               /\ t.log = Without(s.log, oldest(s))
<1>. DEFINE t == remove_oldest(s)
            m == oldest(s)
            w == s.log[m].dst_address
<1>1. m \in DOMAIN s.log
  BY OldestIsSmallest
<1>2. w \in Wallets
  BY <1>1 DEF Typed, IsMap, Entries
<1>3. t = Store(s.counter, s.incomplete, Without(s.log, m), drop_from_index(s, w, m))
  BY DEF remove_oldest
<1>. HIDE DEF t
<1>4. /\ t.counter = s.counter
      /\ t.incomplete = s.incomplete
      /\ t.log = Without(s.log, m)
      /\ t.byAddress = drop_from_index(s, w, m)
      /\ t = Store(t.counter, t.incomplete, t.log, t.byAddress)
  BY <1>3 DEF Store
<1>. HIDE DEF m, w
<1>5. /\ DOMAIN t.log = DOMAIN s.log \ {m}
      /\ \A i \in DOMAIN t.log : t.log[i] = s.log[i]
      /\ IsMap(t.log, Ids, Entries)
  BY <1>4 DEF Without, Typed, IsMap
<1>6. Stored(t) = Stored(s) \ {m}
  BY <1>1, <1>4, <1>5, Zenon DEF Stored, Sorted
<1>7. \A i \in Stored(t) : EntryOf(t, i) = EntryOf(s, i)
  BY <1>4, <1>5, <1>6, Zenon DEF Stored, EntryOf
<1>8. ids_of(s, w) \subseteq Ids
  BY <1>2, Zenon DEF ids_of, Typed, IsMap
<1>9. /\ IsMap(t.byAddress, Wallets, SUBSET Ids)
      /\ \A a \in Wallets : ids_of(t, a) = IF a = w THEN ids_of(s, a) \ {m} ELSE ids_of(s, a)
      /\ \A a \in DOMAIN t.byAddress : t.byAddress[a] # {}
  <2>1. CASE m \notin ids_of(s, w)
    <3>1. t.byAddress = s.byAddress
      BY <1>4, <2>1 DEF drop_from_index
    <3>2. \A a \in Wallets : ids_of(t, a) = ids_of(s, a)
      BY <3>1 DEF ids_of
    <3>3. ids_of(s, w) \ {m} = ids_of(s, w)
      BY <2>1
    <3>. QED  BY <3>1, <3>2, <3>3 DEF Typed, Indexed
  <2>2. CASE ids_of(s, w) = {m}
    <3>1. t.byAddress = Without(s.byAddress, w)
      BY <1>4, <2>2, Zenon DEF drop_from_index
    <3>2. /\ DOMAIN t.byAddress = DOMAIN s.byAddress \ {w}
          /\ \A a \in DOMAIN t.byAddress : t.byAddress[a] = s.byAddress[a]
      BY <3>1, Zenon DEF Without
    <3>3. t.byAddress \in [DOMAIN t.byAddress -> SUBSET Ids]
      BY <3>1, <3>2 DEF Without, Typed, IsMap
    <3>4. IsMap(t.byAddress, Wallets, SUBSET Ids)
      BY <3>2, <3>3, Zenon DEF Typed, IsMap
    <3>5. ids_of(s, w) \ {m} = {}
      BY <2>2, Zenon
    <3>6. \A a \in Wallets : ids_of(t, a) = IF a = w THEN ids_of(s, a) \ {m} ELSE ids_of(s, a)
      BY <3>2, <3>5 DEF ids_of
    <3>. QED  BY <3>2, <3>4, <3>6, Zenon DEF Indexed
  <2>3. CASE m \in ids_of(s, w) /\ ids_of(s, w) # {m}
    <3>1. t.byAddress = Put(s.byAddress, w, ids_of(s, w) \ {m})
      BY <1>4, <2>3 DEF drop_from_index
    <3>2. /\ DOMAIN t.byAddress = DOMAIN s.byAddress \cup {w}
          /\ t.byAddress[w] = ids_of(s, w) \ {m}
          /\ \A a \in DOMAIN s.byAddress : a # w => t.byAddress[a] = s.byAddress[a]
          /\ IsMap(t.byAddress, Wallets, SUBSET Ids)
      BY <1>2, <1>8, <3>1 DEF Put, Typed, IsMap
    <3>3. ids_of(s, w) \ {m} # {}
      BY <2>3
    <3>. QED  BY <3>2, <3>3, ZenonT(60) DEF ids_of, Indexed
  <2>. QED  BY <2>1, <2>2, <2>3, Zenon
<1>10. Typed(t)
  BY <1>4, <1>5, <1>6, <1>9 DEF Typed
<1>11. Sorted(t)
  BY <1>4, <1>5 DEF Sorted
<1>12. Indexed(t, S)
  <2>1. \A i \in Stored(s) : i = m => EntryOf(s, i).dst_address = w
    BY <1>1 DEF Sorted, EntryOf, w
  <2>2. ASSUME NEW a \in Wallets
        PROVE  ids_of(t, a) = {i \in Stored(t) \cap S : EntryOf(t, i).dst_address = a}
    BY <1>6, <1>7, <1>9, <2>1 DEF Indexed
  <2>. QED  BY <1>9, <2>2, Zenon DEF Indexed
<1>. QED  BY <1>4, <1>10, <1>11, <1>12 DEF t, m

-----------------------------------------------------------------------------
(* The completed operations of the registry are the ones in the log. *)
LEMMA CompletedIsLog ==
    ASSUME NEW s, Typed(s), Sorted(s)
    PROVE  /\ DOMAIN AllOps(s) = Stored(s)
           /\ Registry!Completed(AllOps(s)) = DOMAIN s.log
<1>1. DOMAIN AllOps(s) = Stored(s) /\ \A i \in Stored(s) : AllOps(s)[i] = EntryOf(s, i)
  BY DEF AllOps
<1>2. ASSUME NEW i \in Stored(s)
      PROVE  EntryOf(s, i).payload \in Complete <=> i \in DOMAIN s.log
  BY DEF Sorted, Stored, EntryOf, is_complete
<1>. QED  BY <1>1, <1>2 DEF Registry!Completed, Stored

(* What the registry keeps, in terms of the log. *)
LEMMA KeptByLog ==
    ASSUME NEW s, Typed(s), Sorted(s)
    PROVE  Registry!Kept(AllOps(s)) =
             {i \in Stored(s) : i \in DOMAIN s.log =>
                Cardinality({j \in DOMAIN s.log : j > i}) < MaxLogSize}
<1>. DEFINE o == AllOps(s)
            C == Registry!Completed(o)
<1>1. DOMAIN o = Stored(s) /\ C = DOMAIN s.log
  BY CompletedIsLog
<1>2. Registry!Kept(o) = {i \in DOMAIN o : i \in C =>
                            Cardinality({j \in C : j > i}) < MaxLogSize}
  <2>1. \A X : Registry!Cardinality(X) = Cardinality(X)
    BY DEF Registry!Cardinality, Cardinality
  <2>. QED  BY <2>1 DEF Registry!Kept
<1>. HIDE DEF o, C
<1>3. Registry!Kept(o) = {i \in Stored(s) : i \in DOMAIN s.log =>
                            Cardinality({j \in DOMAIN s.log : j > i}) < MaxLogSize}
  BY <1>1, <1>2, Zenon
<1>. QED  BY <1>3 DEF o

(* A log within its bound needs no eviction. *)
LEMMA KeepWithinBound ==
    ASSUME NEW s, Typed(s), Sorted(s), Bounded(s)
    PROVE  Registry!KeepLatest(AllOps(s)) = AllOps(s)
<1>. DEFINE L == DOMAIN s.log
<1>1. \A i \in L : Cardinality({j \in L : j > i}) < MaxLogSize
  BY LogFinite, NewerInBoundedLog DEF Bounded
<1>2. Registry!Kept(AllOps(s)) = Stored(s)
  BY <1>1, KeptByLog, Zenon
<1>. QED  BY <1>2, Zenon DEF Registry!KeepLatest, AllOps

(* remove_oldest on a log one over its bound keeps the latest operations. *)
LEMMA EvictKeepsLatest ==
    ASSUME NEW s, Typed(s), Sorted(s), NEW S, Indexed(s, S),
           Cardinality(DOMAIN s.log) = MaxLogSize + 1
    PROVE  /\ Registry!KeepLatest(AllOps(s)) = AllOps(remove_oldest(s))
           /\ Bounded(remove_oldest(s))
           /\ DOMAIN s.log # {}
<1>. DEFINE L == DOMAIN s.log
            m == oldest(s)
            t == remove_oldest(s)
<1>1. L \in SUBSET Nat /\ IsFiniteSet(L)
  BY LogFinite
<1>2. L # {}
  BY <1>1, FS_EmptySet, MaxLogSizeAssumption
<1>3. m \in L /\ \A j \in L : m <= j
  BY <1>2, OldestIsSmallest, Zenon
<1>4. /\ Typed(t) /\ Sorted(t)
      /\ t.incomplete = s.incomplete
      /\ t.log = Without(s.log, m)
  BY <1>2, EvictKeeps, Zenon
<1>. HIDE DEF m, t
<1>5. /\ DOMAIN t.log = L \ {m}
      /\ \A i \in DOMAIN t.log : t.log[i] = s.log[i]
  BY <1>4, Zenon DEF Without
<1>6. Stored(t) = Stored(s) \ {m}
  BY <1>3, <1>4, <1>5, Zenon DEF Stored, Sorted
<1>7. \A i \in Stored(t) : EntryOf(t, i) = EntryOf(s, i)
  BY <1>4, <1>5, <1>6, Zenon DEF Stored, EntryOf
<1>8. \A i \in L : Cardinality({j \in L : j > i}) < MaxLogSize <=> i # m
  BY <1>1, <1>3, NewerInFullLog, Zenon
<1>9. Registry!Kept(AllOps(s)) = Stored(t)
  <2>1. Registry!Kept(AllOps(s)) =
          {i \in Stored(s) : i \in L => Cardinality({j \in L : j > i}) < MaxLogSize}
    BY KeptByLog
  <2>. QED  BY <1>3, <1>6, <1>8, <2>1, Zenon
<1>10. Registry!KeepLatest(AllOps(s)) = AllOps(t)
  <2>1. \A i \in Stored(t) : AllOps(s)[i] = EntryOf(t, i)
    BY <1>6, <1>7 DEF AllOps
  <2>. QED  BY <1>9, <2>1 DEF Registry!KeepLatest, AllOps
<1>11. Bounded(t)
  <2>1. Cardinality(L \ {m}) = Cardinality(L) - 1
    BY <1>1, <1>3, FS_RemoveElement, Zenon
  <2>. QED  BY <1>5, <2>1, MaxLogSizeAssumption DEF Bounded
<1>. QED  BY <1>2, <1>10, <1>11, Zenon DEF t

(* Writing an incomplete entry. *)
LEMMA PutIncomplete ==
    ASSUME NEW s, Typed(s), Sorted(s), NEW S, Indexed(s, S),
           NEW id \in Ids, id < s.counter, id \notin DOMAIN s.log,
           NEW a \in Wallets, NEW p \in Payloads, ~ is_complete(p),
           id \in DOMAIN s.incomplete => s.incomplete[id].dst_address = a,
           id \in S => id \in DOMAIN s.incomplete
    PROVE  LET t == Store(s.counter,
                          Put(s.incomplete, id, [dst_address |-> a, payload |-> p]),
                          s.log, s.byAddress)
           IN  /\ Typed(t) /\ Sorted(t) /\ Indexed(t, S)
               /\ t.log = s.log
               /\ AllOps(t) = Registry!With(AllOps(s), id, a, p)
<1>. DEFINE e == [dst_address |-> a, payload |-> p]
            t == Store(s.counter, Put(s.incomplete, id, e), s.log, s.byAddress)
<1>1. /\ t.counter = s.counter
      /\ t.incomplete = Put(s.incomplete, id, e)
      /\ t.log = s.log
      /\ t.byAddress = s.byAddress
      /\ t = Store(t.counter, t.incomplete, t.log, t.byAddress)
  BY Zenon DEF Store
<1>2. e \in Entries /\ e.dst_address = a /\ e.payload = p
  BY Zenon DEF Entries
<1>. HIDE DEF t, e
<1>3. /\ DOMAIN t.incomplete = DOMAIN s.incomplete \cup {id}
      /\ t.incomplete[id] = e
      /\ \A i \in DOMAIN s.incomplete : i # id => t.incomplete[i] = s.incomplete[i]
      /\ IsMap(t.incomplete, Ids, Entries)
  BY <1>1, <1>2 DEF Put, Typed, IsMap
<1>4. Stored(t) = Stored(s) \cup {id}
  BY <1>1, <1>3, Zenon DEF Stored
<1>5. /\ EntryOf(t, id) = e
      /\ \A i \in Stored(s) : i # id => EntryOf(t, i) = EntryOf(s, i)
  BY <1>1, <1>3, Zenon DEF EntryOf
<1>6. Typed(t)
  BY <1>1, <1>3, <1>4, Zenon DEF Typed
<1>7. Sorted(t)
  BY <1>1, <1>2, <1>3, Zenon DEF Sorted
<1>8. Indexed(t, S)
  <2>1. ASSUME NEW w \in Wallets
        PROVE  ids_of(t, w) = {i \in Stored(t) \cap S : EntryOf(t, i).dst_address = w}
    <3>1. ids_of(t, w) = {i \in Stored(s) \cap S : EntryOf(s, i).dst_address = w}
      BY <1>1 DEF Indexed, ids_of
    <3>2. id \in S => id \in Stored(s) /\ EntryOf(s, id).dst_address = a
      BY Zenon DEF Stored, EntryOf
    <3>. QED  BY <1>2, <1>4, <1>5, <3>1, <3>2, Zenon
  <2>. QED  BY <1>1, <2>1, Zenon DEF Indexed
<1>9. AllOps(t) = Registry!With(AllOps(s), id, a, p)
  <2>1. DOMAIN AllOps(s) = Stored(s) /\ \A i \in Stored(s) : AllOps(s)[i] = EntryOf(s, i)
    BY DEF AllOps
  <2>. QED  BY <1>4, <1>5, <2>1, Zenon DEF AllOps, Registry!With, e
<1>. QED  BY <1>1, <1>6, <1>7, <1>8, <1>9, Zenon DEF t, e

(* Moving an entry to the log, before the log is trimmed. *)
LEMMA PutLogged ==
    ASSUME NEW s, Typed(s), Sorted(s), NEW S, Indexed(s, S),
           NEW id \in Ids, id < s.counter, id \notin DOMAIN s.log,
           NEW a \in Wallets, NEW p \in Payloads, is_complete(p),
           id \in DOMAIN s.incomplete => s.incomplete[id].dst_address = a,
           id \in S => id \in DOMAIN s.incomplete
    PROVE  LET t == Store(s.counter, Without(s.incomplete, id),
                          Put(s.log, id, [dst_address |-> a, payload |-> p]),
                          s.byAddress)
           IN  /\ Typed(t) /\ Sorted(t) /\ Indexed(t, S)
               /\ DOMAIN t.log = DOMAIN s.log \cup {id}
               /\ AllOps(t) = Registry!With(AllOps(s), id, a, p)
<1>. DEFINE e == [dst_address |-> a, payload |-> p]
            t == Store(s.counter, Without(s.incomplete, id), Put(s.log, id, e),
                       s.byAddress)
<1>1. /\ t.counter = s.counter
      /\ t.incomplete = Without(s.incomplete, id)
      /\ t.log = Put(s.log, id, e)
      /\ t.byAddress = s.byAddress
      /\ t = Store(t.counter, t.incomplete, t.log, t.byAddress)
  BY Zenon DEF Store
<1>2. e \in Entries /\ e.dst_address = a /\ e.payload = p
  BY Zenon DEF Entries
<1>. HIDE DEF t, e
<1>3. /\ DOMAIN t.incomplete = DOMAIN s.incomplete \ {id}
      /\ \A i \in DOMAIN t.incomplete : t.incomplete[i] = s.incomplete[i]
      /\ IsMap(t.incomplete, Ids, Entries)
  BY <1>1 DEF Without, Typed, IsMap
<1>4. /\ DOMAIN t.log = DOMAIN s.log \cup {id}
      /\ t.log[id] = e
      /\ \A i \in DOMAIN s.log : i # id => t.log[i] = s.log[i]
      /\ IsMap(t.log, Ids, Entries)
  BY <1>1, <1>2 DEF Put, Typed, IsMap
<1>5. Stored(t) = Stored(s) \cup {id}
  BY <1>3, <1>4, Zenon DEF Stored
<1>6. /\ EntryOf(t, id) = e
      /\ \A i \in Stored(s) : i # id => EntryOf(t, i) = EntryOf(s, i)
  BY <1>3, <1>4, Zenon DEF EntryOf, Stored
<1>7. Typed(t)
  BY <1>1, <1>3, <1>4, <1>5, Zenon DEF Typed
<1>8. Sorted(t)
  BY <1>2, <1>3, <1>4 DEF Sorted
<1>9. Indexed(t, S)
  <2>1. ASSUME NEW w \in Wallets
        PROVE  ids_of(t, w) = {i \in Stored(t) \cap S : EntryOf(t, i).dst_address = w}
    <3>1. ids_of(t, w) = {i \in Stored(s) \cap S : EntryOf(s, i).dst_address = w}
      BY <1>1 DEF Indexed, ids_of
    <3>2. id \in S => id \in Stored(s) /\ EntryOf(s, id).dst_address = a
      BY Zenon DEF Stored, EntryOf
    <3>. QED  BY <1>2, <1>5, <1>6, <3>1, <3>2, Zenon
  <2>. QED  BY <1>1, <2>1, Zenon DEF Indexed
<1>10. AllOps(t) = Registry!With(AllOps(s), id, a, p)
  <2>1. DOMAIN AllOps(s) = Stored(s) /\ \A i \in Stored(s) : AllOps(s)[i] = EntryOf(s, i)
    BY Zenon DEF AllOps
  <2>. QED  BY <1>5, <1>6, <2>1 DEF AllOps, Registry!With, e
<1>. QED  BY <1>4, <1>7, <1>8, <1>9, <1>10, Zenon DEF t, e

(* store_entry, the common part of new_operation and update. *)
LEMMA StoreEntryKeeps ==
    ASSUME NEW s, Typed(s), Sorted(s), Bounded(s), NEW S, Indexed(s, S),
           NEW id \in Ids, id < s.counter, id \notin DOMAIN s.log,
           NEW a \in Wallets, NEW p \in Payloads,
           id \in DOMAIN s.incomplete => s.incomplete[id].dst_address = a,
           id \in S => id \in DOMAIN s.incomplete
    PROVE  LET t == store_entry(s, id, [dst_address |-> a, payload |-> p])
           IN  /\ Typed(t) /\ Sorted(t) /\ Bounded(t) /\ Indexed(t, S)
               /\ t.counter = s.counter
               /\ AllOps(t) = Registry!KeepLatest(Registry!With(AllOps(s), id, a, p))
               /\ (\A j \in Stored(s) : j < id) => id \in Stored(t) /\ EntryOf(t, id).dst_address = a
<1>. DEFINE e == [dst_address |-> a, payload |-> p]
            t == store_entry(s, id, e)
<1>1. CASE ~ is_complete(p)
  <2>1. t = Store(s.counter, Put(s.incomplete, id, e), s.log, s.byAddress)
    BY <1>1, Zenon DEF store_entry
  <2>2. t.counter = s.counter /\ t.incomplete = Put(s.incomplete, id, e)
    BY <2>1 DEF Store
  <2>3. /\ Typed(t) /\ Sorted(t) /\ Indexed(t, S) /\ t.log = s.log
        /\ AllOps(t) = Registry!With(AllOps(s), id, a, p)
    BY <1>1, <2>1, PutIncomplete
  <2>4. Bounded(t)
    BY <2>3, Zenon DEF Bounded
  <2>5. id \in Stored(t) /\ EntryOf(t, id).dst_address = a
    BY <2>2 DEF Put, Stored, EntryOf
  <2>. HIDE DEF t
  <2>6. Registry!KeepLatest(AllOps(t)) = AllOps(t)
    BY <2>3, <2>4, KeepWithinBound
  <2>. QED  BY <2>2, <2>3, <2>4, <2>5, <2>6, Zenon DEF t
<1>2. CASE is_complete(p)
  <2>. DEFINE u == Store(s.counter, Without(s.incomplete, id), Put(s.log, id, e), s.byAddress)
  <2>1. t = IF Cardinality(DOMAIN u.log) > MaxLogSize THEN remove_oldest(u) ELSE u
    BY <1>2, Zenon DEF store_entry, move_to_log
  <2>2. u.counter = s.counter /\ u.log = Put(s.log, id, e) /\ u.incomplete = Without(s.incomplete, id)
    BY Zenon DEF Store
  <2>3. /\ Typed(u) /\ Sorted(u) /\ Indexed(u, S) /\ DOMAIN u.log = DOMAIN s.log \cup {id}
        /\ AllOps(u) = Registry!With(AllOps(s), id, a, p)
    BY <1>2, PutLogged, SMTT(30)
  <2>4. id \in Stored(u) /\ EntryOf(u, id).dst_address = a
    BY <2>2 DEF Put, Without, Stored, EntryOf
  <2>. HIDE DEF t, u, e
  <2>5. Cardinality(DOMAIN u.log) = Cardinality(DOMAIN s.log) + 1
    BY <2>3, LogFinite, FS_AddElement, Zenon
  <2>6. Cardinality(DOMAIN s.log) \in Nat /\ Cardinality(DOMAIN s.log) <= MaxLogSize
    BY LogFinite, Zenon DEF Bounded
  <2>7. CASE Cardinality(DOMAIN u.log) > MaxLogSize
    <3>1. t = remove_oldest(u)
      BY <2>1, <2>7, Zenon
    <3>2. Cardinality(DOMAIN u.log) = MaxLogSize + 1
      BY <2>5, <2>6, <2>7, MaxLogSizeAssumption
    <3>3. /\ Registry!KeepLatest(AllOps(u)) = AllOps(t)
          /\ Bounded(t)
          /\ DOMAIN u.log # {}
      BY <2>3, <3>1, <3>2, EvictKeepsLatest, Zenon
    <3>4. /\ Typed(t) /\ Sorted(t) /\ Indexed(t, S)
          /\ t.counter = u.counter /\ t.incomplete = u.incomplete
          /\ t.log = Without(u.log, oldest(u))
      BY <2>3, <3>1, <3>3, EvictKeeps, Zenon
    <3>5. ASSUME \A j \in Stored(s) : j < id
          PROVE  id \in Stored(t) /\ EntryOf(t, id).dst_address = a
      <4>1. PICK j \in DOMAIN s.log : TRUE
        BY <2>5, <3>2, MaxLogSizeAssumption, FS_EmptySet
      <4>2. j < id /\ j \in DOMAIN u.log /\ j \in Nat /\ id \in Nat
        BY <2>3, <3>5, <4>1, LogFinite, StoreAssumption, Zenon DEF Stored, Ids
      <4>3. oldest(u) # id
        BY <2>3, <3>3, <4>2, OldestIsSmallest, SMTT(30)
      <4>. QED  BY <2>2, <2>4, <3>4, <4>3, Zenon DEF Stored, EntryOf, Without, Put
    <3>. QED  BY <2>2, <2>3, <3>3, <3>4, <3>5, Zenon DEF t, e
  <2>8. CASE ~ (Cardinality(DOMAIN u.log) > MaxLogSize)
    <3>1. t = u
      BY <2>1, <2>8, Zenon
    <3>2. Bounded(u)
      BY <2>5, <2>6, <2>8, MaxLogSizeAssumption DEF Bounded
    <3>3. Registry!KeepLatest(AllOps(u)) = AllOps(u)
      BY <2>3, <3>2, KeepWithinBound, Zenon
    <3>. QED  BY <2>2, <2>3, <2>4, <3>1, <3>2, <3>3, Zenon DEF t, e
  <2>. QED  BY <2>7, <2>8, Zenon
<1>. QED  BY <1>1, <1>2, Zenon

-----------------------------------------------------------------------------
Good(s) == Typed(s) /\ Sorted(s) /\ Bounded(s) /\ Indexed(s, Ids)

(* The inductive invariant is the conjunction of the checked ones. *)
LEMMA GoodIsInvariants == Good(store) <=> TypeOK /\ IndexExact /\ LogBounded
<1>1. Typed(store) => Stored(store) \cap Ids = Stored(store)
  BY Zenon DEF Typed, IsMap, Stored
<1>2. TypeOK => Typed(store)
  BY Zenon DEF TypeOK, Typed
<1>. QED
  BY <1>1, <1>2, Zenon
  DEF Good, Typed, Sorted, Bounded, Indexed, TypeOK, IndexExact, LogBounded

(* new_operation preserves the invariant and is a Create of the registry. *)
LEMMA NewOperationKeeps ==
    ASSUME NEW s, Good(s), s.counter < MaxOperations,
           NEW a \in Wallets, NEW p \in Payloads
    PROVE  LET t == new_operation(s, a, p)
           IN  /\ Good(t)
               /\ t.counter = s.counter + 1
               /\ AllOps(t) = Registry!KeepLatest(Registry!With(AllOps(s), s.counter, a, p))
<1>. DEFINE id == s.counter
            n == next_id(s)
            e == [dst_address |-> a, payload |-> p]
            u == store_entry(n, id, e)
            t == new_operation(s, a, p)
            S == Ids \ {id}
<1>0. /\ id \in Ids /\ id + 1 \in Ids /\ id \in Nat
      /\ \A i \in Stored(s) : i \in Nat /\ i < id
      /\ DOMAIN s.byAddress \subseteq Wallets
  BY StoreAssumption DEF Good, Typed, Ids, IsMap, Stored
<1>1. /\ n = Store(id + 1, s.incomplete, s.log, s.byAddress)
      /\ n.counter = id + 1 /\ n.incomplete = s.incomplete
      /\ n.log = s.log /\ n.byAddress = s.byAddress
      /\ n = Store(n.counter, n.incomplete, n.log, n.byAddress)
  BY DEF next_id, Store
<1>2. t = push_id(u, a, id)
  BY Zenon DEF new_operation
<1>. HIDE DEF n, u, t
<1>3. Stored(n) = Stored(s) /\ \A i : EntryOf(n, i) = EntryOf(s, i)
  BY <1>1, Zenon DEF Stored, EntryOf
<1>4. Typed(n)
  BY <1>0, <1>1, <1>3, SMTT(30) DEF Good, Typed
<1>5. Sorted(n) /\ Bounded(n) /\ AllOps(n) = AllOps(s)
  BY <1>1, <1>3, Zenon DEF Good, Sorted, Bounded, AllOps
<1>6. Indexed(n, S)
  <2>1. \A w \in Wallets : ids_of(n, w) = ids_of(s, w)
    BY <1>1 DEF ids_of
  <2>2. Stored(n) \cap S = Stored(s) \cap Ids
    BY <1>0, <1>3
  <2>. QED  BY <1>1, <1>3, <2>1, <2>2 DEF Good, Indexed
<1>7. id \notin DOMAIN n.log /\ id \notin DOMAIN n.incomplete /\ id < n.counter
  BY <1>0, <1>1, SMTT(30) DEF Stored
<1>8. /\ Typed(u) /\ Sorted(u) /\ Bounded(u) /\ Indexed(u, S)
      /\ u.counter = n.counter
      /\ AllOps(u) = Registry!KeepLatest(Registry!With(AllOps(n), id, a, p))
      /\ id \in Stored(u) /\ EntryOf(u, id).dst_address = a
  BY <1>0, <1>3, <1>4, <1>5, <1>6, <1>7, StoreEntryKeeps DEF u
<1>9. /\ t.counter = u.counter /\ t.incomplete = u.incomplete /\ t.log = u.log
      /\ t.byAddress = Put(u.byAddress, a, ids_of(u, a) \cup {id})
      /\ t = Store(t.counter, t.incomplete, t.log, t.byAddress)
  BY <1>2, Zenon DEF push_id, Store
<1>10. ids_of(u, a) \subseteq Ids
  BY <1>8, Zenon DEF Typed, ids_of, IsMap
<1>11. /\ DOMAIN t.byAddress = DOMAIN u.byAddress \cup {a}
       /\ t.byAddress[a] = ids_of(u, a) \cup {id}
       /\ \A w \in DOMAIN u.byAddress : w # a => t.byAddress[w] = u.byAddress[w]
       /\ IsMap(t.byAddress, Wallets, SUBSET Ids)
  BY <1>0, <1>8, <1>9, <1>10, SMTT(30) DEF Put, Typed, IsMap
<1>12. Stored(t) = Stored(u) /\ \A i : EntryOf(t, i) = EntryOf(u, i)
  BY <1>9, Zenon DEF Stored, EntryOf
<1>13. Typed(t) /\ Sorted(t) /\ Bounded(t) /\ AllOps(t) = AllOps(u)
  BY <1>8, <1>9, <1>11, <1>12, ZenonT(60) DEF Typed, Sorted, Bounded, AllOps
<1>14. Indexed(t, Ids)
  <2>1. Stored(u) \cap Ids = (Stored(u) \cap S) \cup {id}
    BY <1>0, <1>8
  <2>2. ASSUME NEW w \in Wallets
        PROVE  ids_of(t, w) = {i \in Stored(t) \cap Ids : EntryOf(t, i).dst_address = w}
    <3>1. ids_of(t, w) = IF w = a THEN ids_of(u, w) \cup {id} ELSE ids_of(u, w)
      BY <1>11, Zenon DEF ids_of
    <3>2. ids_of(u, w) = {i \in Stored(u) \cap S : EntryOf(u, i).dst_address = w}
      BY <1>8, Zenon DEF Indexed
    <3>. QED  BY <1>8, <1>12, <2>1, <3>1, <3>2
  <2>3. \A w \in DOMAIN t.byAddress : t.byAddress[w] # {}
    BY <1>8, <1>11, Zenon DEF Indexed
  <2>. QED  BY <2>2, <2>3 DEF Indexed
<1>. QED  BY <1>1, <1>5, <1>8, <1>9, <1>13, <1>14, Zenon DEF Good, t

(* update preserves the invariant; on an incomplete operation it is a       *)
(* Change of the registry, on any other id it changes nothing.              *)
LEMMA UpdateKeeps ==
    ASSUME NEW s, Good(s), NEW id \in Ids, NEW p \in Payloads
    PROVE  LET t == update(s, id, p)
           IN  /\ Good(t)
               /\ t.counter = s.counter
               /\ \/ t = s
                  \/ /\ id \in DOMAIN AllOps(s) \ Registry!Completed(AllOps(s))
                     /\ AllOps(t) = Registry!KeepLatest(
                          Registry!With(AllOps(s), id, AllOps(s)[id].dst_address, p))
<1>1. CASE id \notin DOMAIN s.incomplete
  BY <1>1, Zenon DEF update
<1>2. CASE id \in DOMAIN s.incomplete
  <2>. DEFINE a == s.incomplete[id].dst_address
              t == update(s, id, p)
  <2>1. t = store_entry(s, id, [dst_address |-> a, payload |-> p])
    BY <1>2, Zenon DEF update
  <2>2. a \in Wallets /\ id < s.counter /\ id \notin DOMAIN s.log
    BY <1>2, Zenon DEF Good, Typed, IsMap, Entries, Stored, Sorted
  <2>. HIDE DEF a, t
  <2>3. /\ Typed(t) /\ Sorted(t) /\ Bounded(t) /\ Indexed(t, Ids)
        /\ t.counter = s.counter
        /\ AllOps(t) = Registry!KeepLatest(Registry!With(AllOps(s), id, a, p))
    BY <1>2, <2>1, <2>2, StoreEntryKeeps DEF Good, a
  <2>4. id \in DOMAIN AllOps(s) \ Registry!Completed(AllOps(s))
    BY <1>2, <2>2, CompletedIsLog, Zenon DEF Good, Stored
  <2>5. AllOps(s)[id].dst_address = a
    BY <1>2, Zenon DEF AllOps, EntryOf, Stored, a
  <2>. QED  BY <2>3, <2>4, <2>5, Zenon DEF Good, t
<1>. QED  BY <1>1, <1>2, Zenon

(* Every reachable state is good. *)
LEMMA StoreGood == Spec => []Good(store)
<1>1. Init => Good(store)
  <2>. SUFFICES ASSUME Init PROVE Good(store)
    OBVIOUS
  <2>1. /\ store = Store(store.counter, store.incomplete, store.log, store.byAddress)
        /\ store.counter = 0
        /\ store.incomplete = EmptyMap /\ store.log = EmptyMap /\ store.byAddress = EmptyMap
    BY DEF Init, with_memory, Store
  <2>2. DOMAIN EmptyMap = {} /\ \A K, V : IsMap(EmptyMap, K, V)
    BY Zenon DEF EmptyMap, IsMap
  <2>3. Typed(store)
    BY <2>1, <2>2, StoreAssumption DEF Typed, Stored, Ids
  <2>4. Sorted(store) /\ Indexed(store, Ids)
    BY <2>1, <2>2, Zenon DEF Sorted, Indexed, Stored, ids_of
  <2>5. Bounded(store)
    BY <2>1, <2>2, FS_EmptySet, MaxLogSizeAssumption DEF Bounded
  <2>. QED  BY <2>3, <2>4, <2>5, Zenon DEF Good
<1>2. Good(store) /\ [Next]_store => Good(store)'
  <2>. SUFFICES ASSUME Good(store), [Next]_store  PROVE Good(store)'
    OBVIOUS
  <2>1. ASSUME NEW a \in Wallets, NEW p \in Payloads, NewOperation(a, p)
        PROVE  Good(store)'
    BY <2>1, NewOperationKeeps, Zenon DEF NewOperation
  <2>2. ASSUME NEW id \in 0..MaxOperations, NEW p \in Payloads, Update(id, p)
        PROVE  Good(store)'
    BY <2>2, UpdateKeeps, Zenon DEF Update, Ids
  <2>3. CASE UNCHANGED store
    BY <2>3
  <2>. QED  BY <2>1, <2>2, <2>3, Zenon DEF Next
<1>. QED  BY <1>1, <1>2, PTL DEF Spec

(***************************************************************************)
(* The three maps of the store hold what their names say, for any number   *)
(* of wallets, payloads and operations and any log size (new_operation,    *)
(* update, move_to_log).                                                   *)
(***************************************************************************)
THEOREM StoreTyped == Spec => []TypeOK
  BY StoreGood, GoodIsInvariants, PTL

(***************************************************************************)
(* The address index is exact in every reachable state: completions move   *)
(* and evictions remove an operation from all maps together (update,       *)
(* move_to_log, remove_oldest).                                            *)
(***************************************************************************)
THEOREM StoreInvariant == Spec => []IndexExact
  BY StoreGood, GoodIsInvariants, PTL

(***************************************************************************)
(* The log never outgrows its configured size: the one eviction of         *)
(* move_to_log is always enough.                                           *)
(***************************************************************************)
THEOREM LogStaysBounded == Spec => []LogBounded
  BY StoreGood, GoodIsInvariants, PTL

(***************************************************************************)
(* The store implements the registry: through its three maps and its       *)
(* evictions it never loses an incomplete operation, never changes a       *)
(* completed one and keeps exactly the latest MaxLogSize of those.         *)
(***************************************************************************)
THEOREM StoreImplementsRegistry == Spec => RegistrySpec
<1>1. Init => Registry!Init
  <2>. SUFFICES ASSUME Init PROVE Registry!Init
    OBVIOUS
  <2>1. store.counter = 0 /\ Stored(store) = {}
    BY DEF Init, with_memory, Store, Stored, EmptyMap
  <2>2. AllOps(store) = [i \in {} |-> i]
    BY <2>1, Zenon DEF AllOps
  <2>. QED  BY <2>1, <2>2 DEF Registry!Init
<1>2. Good(store) /\ [Next]_store => [Registry!Next]_(Registry!vars)
  <2>. SUFFICES ASSUME Good(store), [Next]_store  PROVE [Registry!Next]_(Registry!vars)
    OBVIOUS
  <2>1. ASSUME NEW a \in Wallets, NEW p \in Payloads, NewOperation(a, p)
        PROVE  Registry!Create(a, p)
    BY <2>1, NewOperationKeeps, Zenon DEF NewOperation, Registry!Create
  <2>2. ASSUME NEW id \in 0..MaxOperations, NEW p \in Payloads, Update(id, p)
        PROVE  store' = store \/ (id \in DOMAIN AllOps(store) /\ Registry!Change(id, p))
    BY <2>2, UpdateKeeps DEF Update, Ids, Registry!Change
  <2>. QED  BY <2>1, <2>2, Zenon DEF Next, Registry!Next, Registry!vars, AllOps
<1>. QED  BY <1>1, <1>2, StoreGood, PTL DEF Spec, RegistrySpec, Registry!Spec
=============================================================================
