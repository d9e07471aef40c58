----------------------------- MODULE SumLemmas -----------------------------
(***************************************************************************)
(* What the sums of the community module Functions are: balances, supplies *)
(* and payments are added up with SumFunction and SumFunctionOnSet, which  *)
(* take the elements of a finite set in an order that CHOOSE fixes.        *)
(***************************************************************************)
EXTENDS Integers, FiniteSets, Functions, FiniteSetTheorems, TLAPS

(* Induction over the subsets of a finite set, for a set G of subsets      *)
(* instead of a predicate.                                                 *)
LEMMA FiniteInduction ==
  ASSUME NEW S, IsFiniteSet(S), NEW G,
         \A T \in SUBSET S : (\A U \in SUBSET T : U # T => U \in G) => T \in G
  PROVE  \A T \in SUBSET S : T \in G
<1>. DEFINE B == {T \in SUBSET S : T \notin G}
            R == StrictSubsetOrdering(S)
<1>1. SUFFICES ASSUME B # {}  PROVE FALSE
  OBVIOUS
<1>2. IsWellFoundedOn(R, SUBSET S)
  BY FS_FiniteSubsetsOfFinite, FS_StrictSubsetOrderingWellFounded, Zenon
<1>3. PICK T \in B : \A U \in B : ~ (<<U, T>> \in R)
  <2>1. B \subseteq SUBSET S
    OBVIOUS
  <2>. HIDE DEF B, R
  <2>. QED  BY <1>1, <1>2, <2>1, WFMin
<1>4. ASSUME NEW U \in SUBSET T, U # T  PROVE U \in G
  <2>1. <<U, T>> \in R
    BY <1>4 DEF StrictSubsetOrdering
  <2>. QED  BY <1>3, <2>1
<1>. QED  BY <1>4

Pick(s) == CHOOSE x \in s : TRUE

LEMMA PickElement == ASSUME NEW s, s # {}  PROVE Pick(s) \in s
  BY DEF Pick

(* The recursion that defines a sum over the subsets of S. *)
IsSum(f, S, g) ==
    g = [s \in SUBSET S |-> IF s = {} THEN 0 ELSE f[Pick(s)] + g[s \ {Pick(s)}]]

LEMMA SumIsSum ==
  ASSUME NEW f, NEW S
  PROVE  SumFunctionOnSet(f, S) = (CHOOSE g : IsSum(f, S, g))[S]
  BY DEF SumFunctionOnSet, FoldFunctionOnSet, MapThenFoldSet, IsSum, Pick

LEMMA SumUnique ==
  ASSUME NEW f, NEW S, IsFiniteSet(S), NEW g, NEW h, IsSum(f, S, g), IsSum(f, S, h)
  PROVE  g = h
<1>. DEFINE G == {s \in SUBSET S : g[s] = h[s]}
<1>1. ASSUME NEW T \in SUBSET S, \A U \in SUBSET T : U # T => U \in G
      PROVE  T \in G
  <2>1. CASE T = {}
    BY <2>1 DEF IsSum
  <2>2. CASE T # {}
    <3>1. T \ {Pick(T)} \in G
      BY <1>1, <2>2, PickElement
    <3>. QED  BY <2>2, <3>1, Zenon DEF IsSum
  <2>. QED  BY <2>1, <2>2
<1>2. \A T \in SUBSET S : T \in G
  <2>. HIDE DEF G
  <2>. QED  BY <1>1, FiniteInduction, Zenon
<1>. QED  BY <1>2, Zenon DEF IsSum

LEMMA SumRestricts ==
  ASSUME NEW f, NEW S, NEW g, IsSum(f, S, g), NEW T \in SUBSET S
  PROVE  IsSum(f, T, [s \in SUBSET T |-> g[s]])
  BY PickElement, Zenon DEF IsSum

LEMMA SumExists ==
  ASSUME NEW f, NEW S, IsFiniteSet(S)
  PROVE  \A T \in SUBSET S : \E g : IsSum(f, T, g)
<1>. DEFINE G == {T \in SUBSET S : \E g : IsSum(f, T, g)}
            F(T) == CHOOSE g : IsSum(f, T, g)
<1>1. ASSUME NEW T \in SUBSET S, \A U \in SUBSET T : U # T => U \in G
      PROVE  T \in G
  <2>. DEFINE h == [s \in SUBSET T |->
                      IF s # T THEN F(s)[s]
                      ELSE IF s = {} THEN 0 ELSE f[Pick(s)] + F(s \ {Pick(s)})[s \ {Pick(s)}]]
  <2>1. ASSUME NEW U \in SUBSET T, U # T  PROVE IsSum(f, U, F(U))
    BY <1>1, <2>1
  <2>. HIDE DEF F
  <2>2. ASSUME NEW s \in SUBSET T, s # T, s # {}
        PROVE  F(s)[s] = f[Pick(s)] + F(s \ {Pick(s)})[s \ {Pick(s)}]
    <3>. DEFINE r == s \ {Pick(s)}
    <3>1. r \in SUBSET s /\ r # T /\ r \in SUBSET T /\ IsFiniteSet(r)
      BY <2>2, PickElement, FS_Subset
    <3>2. IsSum(f, s, F(s)) /\ IsSum(f, r, F(r))
      BY <2>1, <2>2, <3>1
    <3>3. F(s)[s] = f[Pick(s)] + F(s)[r]
      BY <2>2, <3>2, Zenon DEF IsSum
    <3>4. IsSum(f, r, [u \in SUBSET r |-> F(s)[u]])
      BY <3>1, <3>2, SumRestricts
    <3>5. F(r) = [u \in SUBSET r |-> F(s)[u]]
      BY <3>1, <3>2, <3>4, SumUnique
    <3>. QED  BY <3>3, <3>5
  <2>3. ASSUME {} # T  PROVE F({})[{}] = 0
    BY <2>1, <2>3, Zenon DEF IsSum
  <2>4. ASSUME NEW s \in SUBSET T, s # {}  PROVE s \ {Pick(s)} \in SUBSET T /\ s \ {Pick(s)} # T
    BY <2>4, PickElement
  <2>5. IsSum(f, T, h)
    <3>1. ASSUME NEW s \in SUBSET T
          PROVE  h[s] = IF s = {} THEN 0 ELSE f[Pick(s)] + h[s \ {Pick(s)}]
      <4>1. CASE s = {}
        BY <2>3, <4>1
      <4>2. CASE s # {} /\ s # T
        BY <2>2, <2>4, <4>2
      <4>3. CASE s # {} /\ s = T
        BY <2>4, <4>3
      <4>. QED  BY <4>1, <4>2, <4>3
    <3>2. h = [s \in SUBSET T |-> h[s]]
      OBVIOUS
    <3>. HIDE DEF h
    <3>. QED  BY <3>1, <3>2, Zenon DEF IsSum
  <2>. QED  BY <2>5
<1>2. \A T \in SUBSET S : T \in G
  <2>. HIDE DEF G
  <2>. QED  BY <1>1, FiniteInduction
<1>. QED  BY <1>2

(* The sum over a set and its recursion, on which nothing below depends on *)
(* any more but through this lemma.                                        *)
LEMMA SumRecursion ==
  ASSUME NEW f, NEW S, IsFiniteSet(S)
  PROVE  SumFunctionOnSet(f, S)
           = IF S = {} THEN 0 ELSE f[Pick(S)] + SumFunctionOnSet(f, S \ {Pick(S)})
<1>. DEFINE F(T) == CHOOSE g : IsSum(f, T, g)
            r == S \ {Pick(S)}
<1>1. IsFiniteSet(r) /\ r \in SUBSET S /\ S \in SUBSET S
  BY FS_Subset
<1>2. IsSum(f, S, F(S)) /\ IsSum(f, r, F(r))
  <2>1. (\E g : IsSum(f, S, g)) /\ (\E g : IsSum(f, r, g))
    BY <1>1, SumExists, Zenon
  <2>. QED  BY <2>1
<1>3. SumFunctionOnSet(f, S) = F(S)[S] /\ SumFunctionOnSet(f, r) = F(r)[r]
  BY SumIsSum, Zenon
<1>. HIDE DEF F
<1>4. CASE S = {}
  BY <1>2, <1>3, <1>4 DEF IsSum
<1>5. CASE S # {}
  <2>1. F(S)[S] = f[Pick(S)] + F(S)[r]
    BY <1>2, <1>5, Zenon DEF IsSum
  <2>2. F(r) = [u \in SUBSET r |-> F(S)[u]]
    <3>1. IsSum(f, r, [u \in SUBSET r |-> F(S)[u]])
      BY <1>1, <1>2, SumRestricts, Zenon
    <3>. QED  BY <1>1, <1>2, <3>1, SumUnique
  <2>. QED  BY <1>3, <1>5, <2>1, <2>2
<1>. QED  BY <1>4, <1>5

(* A sum of integers is an integer, and of natural numbers a natural one. *)
LEMMA SumInt ==
  ASSUME NEW f, NEW S, IsFiniteSet(S), \A x \in S : f[x] \in Int
  PROVE  /\ SumFunctionOnSet(f, S) \in Int
         /\ (\A x \in S : f[x] >= 0) => SumFunctionOnSet(f, S) >= 0
<1>. DEFINE Good(T) == /\ SumFunctionOnSet(f, T) \in Int
                       /\ (\A x \in T : f[x] >= 0) => SumFunctionOnSet(f, T) >= 0
            G == {T \in SUBSET S : Good(T)}
<1>1. ASSUME NEW T \in SUBSET S, \A U \in SUBSET T : U # T => U \in G
      PROVE  T \in G
  <2>0. IsFiniteSet(T)
    BY FS_Subset
  <2>1. CASE T = {}
    <3>1. SumFunctionOnSet(f, T) = 0
      BY <2>0, <2>1, SumRecursion, Zenon
    <3>. QED  BY <3>1
  <2>2. CASE T # {}
    <3>. DEFINE r == T \ {Pick(T)}
    <3>1. Pick(T) \in T /\ r \in SUBSET T /\ r # T
      BY <2>2, PickElement
    <3>2. Good(r) /\ f[Pick(T)] \in Int
      BY <1>1, <3>1
    <3>3. SumFunctionOnSet(f, T) = f[Pick(T)] + SumFunctionOnSet(f, r)
      BY <2>0, <2>2, SumRecursion
    <3>4. (\A x \in T : f[x] >= 0) => f[Pick(T)] >= 0 /\ \A x \in r : f[x] >= 0
      BY <3>1
    <3>. QED  BY <3>2, <3>3, <3>4
  <2>. QED  BY <2>1, <2>2
<1>2. \A T \in SUBSET S : T \in G
  <2>. HIDE DEF G
  <2>. QED  BY <1>1, FiniteInduction, Zenon
<1>3. S \in G
  BY <1>2
<1>. QED  BY <1>3

LEMMA SumEqual ==
  ASSUME NEW f, NEW g, NEW S, IsFiniteSet(S), \A x \in S : f[x] = g[x]
  PROVE  SumFunctionOnSet(f, S) = SumFunctionOnSet(g, S)
<1>. DEFINE G == {T \in SUBSET S : SumFunctionOnSet(f, T) = SumFunctionOnSet(g, T)}
<1>1. ASSUME NEW T \in SUBSET S, \A U \in SUBSET T : U # T => U \in G
      PROVE  T \in G
  <2>0. IsFiniteSet(T)
    BY FS_Subset
  <2>1. CASE T = {}
    BY <2>0, <2>1, SumRecursion, Zenon
  <2>2. CASE T # {}
    <3>1. Pick(T) \in T /\ T \ {Pick(T)} \in G
      BY <1>1, <2>2, PickElement
    <3>. QED  BY <2>0, <2>2, <3>1, SumRecursion
  <2>. QED  BY <2>1, <2>2
<1>2. \A T \in SUBSET S : T \in G
  <2>. HIDE DEF G
  <2>. QED  BY <1>1, FiniteInduction
<1>. QED  BY <1>2

(* The order in which the elements are taken does not matter: any of them  *)
(* can be split off.                                                       *)
LEMMA SumRemove ==
  ASSUME NEW f, NEW S, IsFiniteSet(S), \A x \in S : f[x] \in Int, NEW y \in S
  PROVE  SumFunctionOnSet(f, S) = f[y] + SumFunctionOnSet(f, S \ {y})
<1>. DEFINE Sum(T) == SumFunctionOnSet(f, T)
            G == {T \in SUBSET S : \A x \in T : Sum(T) = f[x] + Sum(T \ {x})}
<1>0. \A T \in SUBSET S : IsFiniteSet(T) /\ Sum(T) \in Int
  BY SumInt, FS_Subset
<1>1. ASSUME NEW T \in SUBSET S, \A U \in SUBSET T : U # T => U \in G
      PROVE  T \in G
  <2>. SUFFICES ASSUME NEW x \in T  PROVE Sum(T) = f[x] + Sum(T \ {x})
    OBVIOUS
  <2>. DEFINE c == Pick(T)
  <2>1. c \in T /\ Sum(T) = f[c] + Sum(T \ {c})
    BY <1>0, PickElement, SumRecursion
  <2>. HIDE DEF c, Sum
  <2>2. CASE x = c
    BY <2>1, <2>2
  <2>3. CASE x # c
    <3>1. T \ {c} \in G /\ T \ {x} \in G
      BY <1>1, <2>1
    <3>2. Sum(T \ {c}) = f[x] + Sum((T \ {c}) \ {x}) /\ Sum(T \ {x}) = f[c] + Sum((T \ {x}) \ {c})
      BY <2>1, <2>3, <3>1, Zenon
    <3>. DEFINE rest == Sum((T \ {c}) \ {x})
    <3>3. (T \ {c}) \ {x} = (T \ {x}) \ {c}
      OBVIOUS
    <3>4. rest = Sum((T \ {x}) \ {c})
      BY <3>3
    <3>5. rest \in Int /\ f[x] \in Int /\ f[c] \in Int
      BY <1>0, <2>1
    <3>6. Sum(T \ {c}) = f[x] + rest /\ Sum(T \ {x}) = f[c] + rest
      BY <3>2, <3>4
    <3>. HIDE DEF rest
    <3>. QED  BY <2>1, <3>5, <3>6
  <2>. QED  BY <2>2, <2>3
<1>2. \A T \in SUBSET S : T \in G
  <2>. HIDE DEF G
  <2>. QED  BY <1>1, FiniteInduction
<1>. QED  BY <1>2

(* Adding an element to the set adds its value. *)
LEMMA SumAdd ==
  ASSUME NEW f, NEW S, IsFiniteSet(S), NEW y, y \notin S, \A x \in S \cup {y} : f[x] \in Int
  PROVE  SumFunctionOnSet(f, S \cup {y}) = SumFunctionOnSet(f, S) + f[y]
<1>1. IsFiniteSet(S \cup {y}) /\ (S \cup {y}) \ {y} = S
  BY FS_AddElement
<1>2. SumFunctionOnSet(f, S \cup {y}) = f[y] + SumFunctionOnSet(f, S)
  <2>1. SumFunctionOnSet(f, S \cup {y}) = f[y] + SumFunctionOnSet(f, (S \cup {y}) \ {y})
    BY <1>1, SumRemove
  <2>2. SumFunctionOnSet(f, (S \cup {y}) \ {y}) = SumFunctionOnSet(f, S)
    BY <1>1
  <2>. QED  BY <2>1, <2>2
<1>3. SumFunctionOnSet(f, S) \in Int /\ f[y] \in Int
  BY SumInt
<1>. QED  BY <1>2, <1>3

LEMMA SumEmpty ==
  ASSUME NEW f
  PROVE  SumFunctionOnSet(f, {}) = 0
  BY SumRecursion, FS_EmptySet, Zenon

LEMMA SumZero ==
  ASSUME NEW f, NEW S, IsFiniteSet(S), \A x \in S : f[x] = 0
  PROVE  SumFunctionOnSet(f, S) = 0
<1>. DEFINE G == {T \in SUBSET S : SumFunctionOnSet(f, T) = 0}
<1>1. ASSUME NEW T \in SUBSET S, \A U \in SUBSET T : U # T => U \in G
      PROVE  T \in G
  <2>0. IsFiniteSet(T)
    BY FS_Subset
  <2>1. CASE T = {}
    BY <2>0, <2>1, SumRecursion
  <2>2. CASE T # {}
    <3>1. f[Pick(T)] = 0 /\ T \ {Pick(T)} \in G
      BY <1>1, <2>2, PickElement
    <3>. QED  BY <2>0, <2>2, <3>1, SumRecursion
  <2>. QED  BY <2>1, <2>2
<1>2. \A T \in SUBSET S : T \in G
  <2>. HIDE DEF G
  <2>. QED  BY <1>1, FiniteInduction
<1>. QED  BY <1>2

(* Changing the value of one element changes the sum by the difference. *)
LEMMA SumChange ==
  ASSUME NEW f, NEW g, NEW S, IsFiniteSet(S), NEW y \in S,
         \A x \in S : f[x] \in Int, g[y] \in Int,
         \A x \in S : x # y => g[x] = f[x]
  PROVE  SumFunctionOnSet(g, S) = SumFunctionOnSet(f, S) - f[y] + g[y]
<1>. DEFINE r == S \ {y}
<1>0. IsFiniteSet(r)
  BY FS_Subset
<1>1. SumFunctionOnSet(f, S) = f[y] + SumFunctionOnSet(f, r)
  BY SumRemove
<1>2. \A x \in S : g[x] \in Int
  OBVIOUS
<1>3. SumFunctionOnSet(g, S) = g[y] + SumFunctionOnSet(g, r)
  BY <1>2, SumRemove
<1>4. SumFunctionOnSet(g, r) = SumFunctionOnSet(f, r)
  <2>1. \A x \in r : g[x] = f[x]
    OBVIOUS
  <2>. QED  BY <1>0, <2>1, SumEqual
<1>5. SumFunctionOnSet(f, r) \in Int
  <2>1. \A x \in r : f[x] \in Int
    OBVIOUS
  <2>. QED  BY <1>0, <2>1, SumInt
<1>. QED  BY <1>1, <1>3, <1>4, <1>5

LEMMA SumUpdate ==
  ASSUME NEW S, IsFiniteSet(S), NEW f \in [S -> Int], NEW g \in [S -> Int], NEW y \in S,
         \A x \in S : x # y => g[x] = f[x]
  PROVE  SumFunction(g) = SumFunction(f) - f[y] + g[y]
<1>1. DOMAIN g = S /\ DOMAIN f = S /\ g[y] \in Int /\ \A x \in S : f[x] \in Int
  OBVIOUS
<1>2. SumFunctionOnSet(g, S) = SumFunctionOnSet(f, S) - f[y] + g[y]
  BY <1>1, SumChange
<1>. QED  BY <1>1, <1>2 DEF SumFunction

(* A balance is at most the sum of all of them. *)
LEMMA SumBound ==
  ASSUME NEW f, NEW S, IsFiniteSet(S), \A x \in S : f[x] \in Nat, NEW y \in S
  PROVE  f[y] <= SumFunctionOnSet(f, S)
<1>1. IsFiniteSet(S \ {y}) /\ \A x \in S \ {y} : f[x] \in Int /\ f[x] >= 0
  BY FS_Subset
<1>2. SumFunctionOnSet(f, S \ {y}) \in Int /\ SumFunctionOnSet(f, S \ {y}) >= 0
  BY <1>1, SumInt
<1>3. SumFunctionOnSet(f, S) = f[y] + SumFunctionOnSet(f, S \ {y})
  BY SumRemove
<1>. QED  BY <1>2, <1>3

(* What one more event adds to a sum over some of the events. *)
OneMore(n, f, g, I) == /\ n \in Nat /\ I \subseteq 1..n
                       /\ \A i \in 1..n : f[i] \in Int /\ g[i] = f[i]
                       /\ g[n + 1] \in Int

Summed(n, f, g, I) ==
    /\ SumFunctionOnSet(f, I) \in Int
    /\ SumFunctionOnSet(g, I) = SumFunctionOnSet(f, I)
    /\ SumFunctionOnSet(g, I \cup {n + 1}) = SumFunctionOnSet(f, I) + g[n + 1]

LEMMA EventSum ==
  ASSUME NEW n, NEW f, NEW g, NEW I, OneMore(n, f, g, I)
  PROVE  Summed(n, f, g, I)
<1>1. IsFiniteSet(I)
  <2>1. IsFiniteSet(1..n) /\ I \subseteq 1..n
    BY FS_Interval DEF OneMore
  <2>. QED  BY <2>1, FS_Subset, Zenon
<1>2. /\ n + 1 \notin I
      /\ \A i \in I : f[i] \in Int /\ g[i] = f[i]
      /\ \A i \in I \cup {n + 1} : g[i] \in Int
  BY DEF OneMore
<1>3. SumFunctionOnSet(g, I) = SumFunctionOnSet(f, I)
  BY <1>1, <1>2, SumEqual, Zenon
<1>4. SumFunctionOnSet(g, I \cup {n + 1}) = SumFunctionOnSet(g, I) + g[n + 1]
  BY <1>1, <1>2, SumAdd, ZenonT(60)
<1>5. SumFunctionOnSet(f, I) \in Int
  BY <1>1, <1>2, SumInt, Zenon
<1>. QED  BY <1>3, <1>4, <1>5 DEF Summed


(* Terms that are each among those of another sum, of which none is        *)
(* negative, have at most its sum: h names for each x the term it covers.  *)
LEMMA SumImage ==
  ASSUME NEW S, IsFiniteSet(S), NEW f, NEW h, NEW K, IsFiniteSet(K), NEW g,
         \A x \in S : f[x] \in Int /\ f[x] >= 0 /\ (h[x] \in K => g[h[x]] = f[x]),
         \A k \in K : \E x \in S : h[x] = k
  PROVE  SumFunctionOnSet(g, K) <= SumFunctionOnSet(f, S)
<1>. DEFINE F(T) == SumFunctionOnSet(f, T)
            E(L) == SumFunctionOnSet(g, L)
            Meets(L, T) == \A k \in L : \E x \in T : h[x] = k
            G == {T \in SUBSET S : \A L \in SUBSET K : Meets(L, T) => E(L) <= F(T)}
<1>0. \A k \in K : g[k] \in Int
  OBVIOUS
<1>1. \A T \in SUBSET S : IsFiniteSet(T) /\ F(T) \in Int /\ F(T) >= 0
  <2>. SUFFICES ASSUME NEW T \in SUBSET S  PROVE IsFiniteSet(T) /\ F(T) \in Int /\ F(T) >= 0
    OBVIOUS
  <2>1. IsFiniteSet(T) /\ (\A x \in T : f[x] \in Int) /\ (\A x \in T : f[x] >= 0)
    BY FS_Subset
  <2>. QED  BY <2>1, SumInt
<1>2. \A L \in SUBSET K : IsFiniteSet(L) /\ E(L) \in Int
  <2>. SUFFICES ASSUME NEW L \in SUBSET K  PROVE IsFiniteSet(L) /\ E(L) \in Int
    OBVIOUS
  <2>1. IsFiniteSet(L) /\ \A k \in L : g[k] \in Int
    BY <1>0, FS_Subset
  <2>. QED  BY <2>1, SumInt
<1>3. ASSUME NEW T \in SUBSET S, \A U \in SUBSET T : U # T => U \in G
      PROVE  T \in G
  <2>. SUFFICES ASSUME NEW L \in SUBSET K, Meets(L, T)  PROVE E(L) <= F(T)
    OBVIOUS
  <2>1. CASE L = {}
    <3>1. E(L) = 0
      BY <2>1, SumEmpty
    <3>. QED  BY <1>1, <3>1
  <2>2. CASE L # {}
    <3>1. PICK k \in L, y \in T : h[y] = k
      BY <2>2
    <3>. DEFINE U == T \ {y}
                M == L \ {k}
    <3>2. U \in G /\ U \in SUBSET S /\ M \in SUBSET K
      BY <1>3
    <3>3. Meets(M, U)
      BY <3>1
    <3>4. E(M) <= F(U)
      BY <3>2, <3>3, Zenon
    <3>5. F(T) = f[y] + F(U)
      <4>1. \A x \in T : f[x] \in Int
        OBVIOUS
      <4>. QED  BY <1>1, <4>1, SumRemove
    <3>6. E(L) = g[k] + E(M)
      <4>1. IsFiniteSet(L) /\ k \in L /\ \A x \in L : g[x] \in Int
        BY <1>0, <1>2, <3>1
      <4>2. SumFunctionOnSet(g, L) = g[k] + SumFunctionOnSet(g, L \ {k})
        BY <4>1, SumRemove
      <4>. QED  BY <4>2
    <3>7. g[k] = f[y] /\ f[y] \in Int /\ E(M) \in Int /\ F(U) \in Int
      BY <1>1, <1>2, <3>1, <3>2
    <3>. HIDE DEF E, F, U, M
    <3>. QED  BY <3>4, <3>5, <3>6, <3>7
  <2>. QED  BY <2>1, <2>2
<1>4. \A T \in SUBSET S : T \in G
  <2>. HIDE DEF G
  <2>. QED  BY <1>3, FiniteInduction, Zenon
<1>. QED  BY <1>4

LEMMA SumSubset ==
  ASSUME NEW S, IsFiniteSet(S), NEW f, NEW T \in SUBSET S, NEW g,
         \A x \in S : f[x] \in Int /\ f[x] >= 0,
         \A x \in T : g[x] = f[x]
  PROVE  SumFunctionOnSet(g, T) <= SumFunctionOnSet(f, S)
<1>. DEFINE h == [x \in S |-> x]
<1>1. IsFiniteSet(T)
  BY FS_Subset
<1>2. \A x \in S : h[x] = x
  OBVIOUS
<1>. HIDE DEF h
<1>3. /\ \A x \in S : f[x] \in Int /\ f[x] >= 0 /\ (h[x] \in T => g[h[x]] = f[x])
      /\ \A k \in T : \E x \in S : h[x] = k
  BY <1>2
<1>. QED  BY <1>1, <1>3, SumImage


(* A sum is the sum of its parts. *)
LEMMA SumSplit ==
  ASSUME NEW S, IsFiniteSet(S), NEW f, \A x \in S : f[x] \in Int, NEW T \in SUBSET S
  PROVE  SumFunctionOnSet(f, S) = SumFunctionOnSet(f, T) + SumFunctionOnSet(f, S \ T)
<1>. DEFINE Sum(U) == SumFunctionOnSet(f, U)
            G == {U \in SUBSET S : Sum(U) = Sum(U \cap T) + Sum(U \ T)}
<1>1. ASSUME NEW U \in SUBSET S  PROVE IsFiniteSet(U) /\ Sum(U) \in Int
  <2>1. IsFiniteSet(U)
    BY FS_Subset, Zenon
  <2>2. \A x \in U : f[x] \in Int
    OBVIOUS
  <2>. QED  BY <2>1, <2>2, SumInt, Zenon
<1>2. ASSUME NEW U \in SUBSET S, \A V \in SUBSET U : V # U => V \in G  PROVE U \in G
  <2>1. CASE U = {}
    <3>1. U \cap T = {} /\ U \ T = {} /\ Sum({}) = 0
      BY <2>1, SumEmpty, Zenon
    <3>. QED  BY <2>1, <3>1
  <2>2. CASE U # {}
    <3>1. PICK y : y \in U
      BY <2>2
    <3>. DEFINE V == U \ {y}
    <3>2. V \in G /\ f[y] \in Int
      BY <1>2, <3>1
    <3>3. ASSUME NEW X \in SUBSET S, y \in X  PROVE Sum(X) = f[y] + Sum(X \ {y})
      <4>1. IsFiniteSet(X)
        BY <1>1
      <4>2. \A x \in X : f[x] \in Int
        OBVIOUS
      <4>. QED  BY <3>3, <4>1, <4>2, SumRemove
    <3>4. Sum(U) = f[y] + Sum(V)
      BY <3>1, <3>3, Zenon
    <3>5. Sum(V) = Sum(V \cap T) + Sum(V \ T)
      BY <3>2
    <3>6. Sum(V \cap T) \in Int /\ Sum(V \ T) \in Int
      <4>1. V \cap T \in SUBSET S /\ V \ T \in SUBSET S
        OBVIOUS
      <4>. QED  BY <1>1, <4>1, Zenon
    <3>. DEFINE a == Sum(V \cap T)
                b == Sum(V \ T)
    <3>. HIDE DEF G, V
    <3>7. CASE y \in T
      <4>1. V \ T = U \ T /\ V \cap T = (U \cap T) \ {y} /\ U \cap T \in SUBSET S /\ y \in U \cap T
        BY <3>1, <3>7 DEF V
      <4>2. Sum(U \cap T) = f[y] + a /\ Sum(U \ T) = b
        BY <3>3, <4>1, Zenon
      <4>3. Sum(V) = a + b /\ a \in Int /\ b \in Int
        BY <3>5, <3>6
      <4>. HIDE DEF Sum, a, b
      <4>4. Sum(U) = Sum(U \cap T) + Sum(U \ T)
        BY <3>2, <3>4, <4>2, <4>3
      <4>. QED  BY <4>4 DEF G, Sum
    <3>8. CASE y \notin T
      <4>1. V \cap T = U \cap T /\ V \ T = (U \ T) \ {y} /\ U \ T \in SUBSET S /\ y \in U \ T
        BY <3>1, <3>8 DEF V
      <4>2. Sum(U \ T) = f[y] + b /\ Sum(U \cap T) = a
        BY <3>3, <4>1, Zenon
      <4>3. Sum(V) = a + b /\ a \in Int /\ b \in Int
        BY <3>5, <3>6
      <4>. HIDE DEF Sum, a, b
      <4>4. Sum(U) = Sum(U \cap T) + Sum(U \ T)
        BY <3>2, <3>4, <4>2, <4>3
      <4>. QED  BY <4>4 DEF G, Sum
    <3>. QED  BY <3>7, <3>8
  <2>. QED  BY <2>1, <2>2
<1>. HIDE DEF G
<1>3. \A U \in SUBSET S : U \in G
  BY <1>2, FiniteInduction, Zenon
<1>4. S \in G /\ S \cap T = T
  BY <1>3
<1>. QED  BY <1>4, Zenon DEF G
=============================================================================
