------------------------- MODULE CollectLogsProofs -------------------------
(***************************************************************************)
(* Proofs about CollectLogs, for any page size and any range of blocks.    *)
(***************************************************************************)
EXTENDS CollectLogs, TLAPS

(* The loop is inside the range, or has never been in it. *)
PageInv ==
    /\ first \in Nat /\ to_block \in Nat /\ from_block \in Nat /\ offset \in Nat
    /\ logs \in Seq(Nat)
    /\ first <= from_block
    /\ from_block = first \/ from_block <= to_block + 1
    /\ LogsComplete

LEMMA InitPageInv == Init => PageInv
<1>. SUFFICES ASSUME Init  PROVE PageInv
  OBVIOUS
<1>1. first \in Nat /\ to_block \in Nat /\ from_block = first /\ offset \in Nat
  BY PageAssumption DEF Init
<1>2. logs = <<>> /\ logs \in Seq(Nat) /\ Collected = {}
  BY DEF Init, Collected
<1>3. first..(from_block - 1) = {}
  BY <1>1
<1>4. LogsComplete
  BY <1>2, <1>3 DEF LogsComplete
<1>. QED  BY <1>1, <1>2, <1>4 DEF PageInv

(* A page adds its blocks behind the logs, in their order. *)
LEMMA PageAdded ==
  ASSUME NEW a \in Nat, NEW b \in Nat, a <= b, logs \in Seq(Nat), logs' = logs \o Interval(a, b)
  PROVE  /\ logs' \in Seq(Nat)
         /\ \A i \in DOMAIN logs' :
              \/ i \in DOMAIN logs /\ logs'[i] = logs[i]
              \/ i - Len(logs) \in 1..(b - a + 1) /\ logs'[i] = a + (i - Len(logs) - 1)
         /\ DOMAIN logs = 1..Len(logs) /\ DOMAIN logs' = 1..(Len(logs) + (b - a + 1))
         /\ \A i \in DOMAIN logs : logs'[i] = logs[i]
         /\ \A i \in 1..(b - a + 1) : logs'[Len(logs) + i] = a + (i - 1)
<1>. DEFINE n == Len(logs)
            m == b - a + 1
            page == Interval(a, b)
<1>1. n \in Nat /\ m \in Nat /\ DOMAIN logs = 1..n
  OBVIOUS
<1>2. page = [i \in 1..m |-> a + (i - 1)]
  BY DEF Interval
<1>3. page \in Seq(Nat) /\ Len(page) = m /\ \A i \in 1..m : page[i] = a + (i - 1)
  BY <1>1, <1>2
<1>. HIDE DEF page, m
<1>4. logs' = logs \o page
  BY DEF page
<1>5. /\ logs' \in Seq(Nat) /\ Len(logs') = n + m
      /\ \A i \in 1..(n + m) : logs'[i] = IF i <= n THEN logs[i] ELSE page[i - n]
  <2>1. \A s, t \in Seq(Nat) :
           /\ s \o t \in Seq(Nat) /\ Len(s \o t) = Len(s) + Len(t)
           /\ \A i \in 1..(Len(s) + Len(t)) :
                (s \o t)[i] = IF i <= Len(s) THEN s[i] ELSE t[i - Len(s)]
    OBVIOUS
  <2>2. page \in Seq(Nat) /\ logs \in Seq(Nat)
    BY <1>3
  <2>3. /\ logs \o page \in Seq(Nat) /\ Len(logs \o page) = n + Len(page)
        /\ \A i \in 1..(n + Len(page)) :
             (logs \o page)[i] = IF i <= n THEN logs[i] ELSE page[i - n]
    BY <2>1, <2>2, Zenon
  <2>. QED  BY <1>3, <1>4, <2>3, Zenon
<1>. HIDE DEF n
<1>6. DOMAIN logs' = 1..(n + m) /\ logs \in Seq(Nat) /\ DOMAIN logs = 1..n
  BY <1>1, <1>5
<1>7. \A i \in 1..n : logs'[i] = logs[i]
  BY <1>1, <1>5
<1>8. \A i \in 1..m : logs'[n + i] = a + (i - 1)
  <2>. SUFFICES ASSUME NEW i \in 1..m  PROVE logs'[n + i] = a + (i - 1)
    BY Zenon
  <2>1. n + i \in 1..(n + m) /\ ~ (n + i <= n) /\ (n + i) - n = i
    BY <1>1
  <2>. QED  BY <1>3, <1>5, <2>1, Zenon
<1>9. \A i \in 1..(n + m) : \/ i \in 1..n /\ logs'[i] = logs[i]
                            \/ i - n \in 1..m /\ logs'[i] = a + (i - n - 1)
  <2>. SUFFICES ASSUME NEW i \in 1..(n + m), i \notin 1..n
                PROVE  i - n \in 1..m /\ logs'[i] = a + (i - n - 1)
    BY <1>7, Zenon
  <2>1. i - n \in 1..m /\ ~ (i <= n)
    BY <1>1
  <2>. QED  BY <1>3, <1>5, <2>1, Zenon
<1>. QED  BY <1>5, <1>6, <1>7, <1>8, <1>9, Zenon DEF n, m

LEMMA PageOkInv == PageInv /\ PageOk => PageInv'
<1>. SUFFICES ASSUME PageInv, PageOk  PROVE PageInv'
  OBVIOUS
<1>. DEFINE a == from_block
            b == ToBlockForPage
            n == Len(logs)
            m == b - a + 1
<1>1. /\ first \in Nat /\ to_block \in Nat /\ a \in Nat /\ offset \in Nat /\ logs \in Seq(Nat)
      /\ first <= a /\ a <= to_block
  BY DEF PageInv, PageOk
<1>2. b \in Nat /\ a <= b /\ b <= to_block
  BY <1>1 DEF ToBlockForPage, Lower
<1>3. /\ logs' = logs \o Interval(a, b) /\ from_block' = b + 1 /\ first' = first
      /\ to_block' = to_block /\ offset' \in Nat /\ failed_alone' = failed_alone
  BY PageAssumption DEF PageOk
<1>. HIDE DEF b
<1>4. /\ \A i, j \in DOMAIN logs : i < j => logs[i] < logs[j]
      /\ Collected \subseteq first..(a - 1)
      /\ (first..(a - 1)) \ Collected \subseteq failed_alone
  BY <1>1 DEF PageInv, LogsComplete, Lower
<1>5. /\ logs' \in Seq(Nat)
      /\ \A i \in DOMAIN logs' : \/ i \in DOMAIN logs /\ logs'[i] = logs[i]
                                 \/ i - n \in 1..m /\ logs'[i] = a + (i - n - 1)
      /\ DOMAIN logs = 1..n /\ DOMAIN logs' = 1..(n + m)
      /\ \A i \in DOMAIN logs : logs'[i] = logs[i]
      /\ \A i \in 1..m : logs'[n + i] = a + (i - 1)
  BY <1>1, <1>2, <1>3, PageAdded, Zenon
<1>6. n \in Nat /\ m \in Nat
  BY <1>1, <1>2
<1>7. \A i \in DOMAIN logs : logs[i] \in Nat /\ first <= logs[i] /\ logs[i] < a
  BY <1>1, <1>4 DEF Collected
<1>8. \A i, j \in DOMAIN logs' : i < j => logs'[i] < logs'[j]
  <2>. HIDE DEF n, m, a
  <2>. SUFFICES ASSUME NEW i \in DOMAIN logs', NEW j \in DOMAIN logs', i < j
                PROVE  logs'[i] < logs'[j]
    BY Zenon
  <2>0. i \in Int /\ j \in Int
    BY <1>5, <1>6
  <2>1. CASE i \in DOMAIN logs /\ j \in DOMAIN logs
    BY <1>4, <1>5, <2>1, Zenon
  <2>2. CASE i \in DOMAIN logs /\ j - n \in 1..m /\ logs'[j] = a + (j - n - 1)
    BY <1>1, <1>5, <1>6, <1>7, <2>0, <2>2
  <2>3. CASE i - n \in 1..m /\ logs'[i] = a + (i - n - 1) /\ j - n \in 1..m
             /\ logs'[j] = a + (j - n - 1)
    BY <1>1, <1>6, <2>0, <2>3
  <2>4. CASE i - n \in 1..m /\ j \in DOMAIN logs
    BY <1>5, <1>6, <2>0, <2>4
  <2>. QED  BY <1>5, <2>1, <2>2, <2>3, <2>4, Zenon
<1>9. \A x \in Collected' : first <= x /\ x <= b /\ x \in Nat
  <2>. SUFFICES ASSUME NEW i \in DOMAIN logs'
                PROVE  first <= logs'[i] /\ logs'[i] <= b /\ logs'[i] \in Nat
    BY Zenon DEF Collected
  <2>1. CASE i \in DOMAIN logs /\ logs'[i] = logs[i]
    BY <1>1, <1>2, <1>7, <2>1
  <2>2. CASE i - n \in 1..m /\ logs'[i] = a + (i - n - 1)
    <3>. DEFINE k == i - n
    <3>1. logs'[i] = a + (k - 1) /\ k \in 1..m
      BY <1>6, <2>2
    <3>. HIDE DEF k
    <3>. QED  BY <1>1, <1>2, <3>1
  <2>. QED  BY <1>5, <2>1, <2>2, Zenon
<1>10. Collected \subseteq Collected' /\ a..b \subseteq Collected'
  <2>1. Collected \subseteq Collected'
    <3>1. DOMAIN logs \subseteq DOMAIN logs'
      BY <1>5, <1>6
    <3>. QED  BY <1>5, <3>1, Zenon DEF Collected
  <2>2. ASSUME NEW x \in a..b  PROVE x \in Collected'
    <3>. DEFINE k == x - a + 1
    <3>1. k \in 1..m /\ a + (k - 1) = x /\ n + k \in 1..(n + m)
      BY <1>1, <1>2, <1>6
    <3>. HIDE DEF k, n, m, a
    <3>2. logs'[n + k] = x /\ n + k \in DOMAIN logs'
      BY <1>5, <3>1, Zenon
    <3>. QED  BY <3>2, Zenon DEF Collected
  <2>. QED  BY <2>1, <2>2
<1>11. LogsComplete'
  <2>1. from_block' - 1 = b /\ Lower(from_block' - 1, to_block') = b
    BY <1>1, <1>2, <1>3 DEF Lower
  <2>2. Collected' \subseteq first..b
    BY <1>1, <1>2, <1>9
  <2>3. (first..b) \ Collected' \subseteq failed_alone
    <3>1. first..b = (first..(a - 1)) \cup (a..b)
      BY <1>1, <1>2
    <3>. QED  BY <1>4, <1>10, <3>1, Zenon
  <2>. QED  BY <1>3, <1>8, <2>1, <2>2, <2>3, Zenon DEF LogsComplete
<1>. QED  BY <1>1, <1>2, <1>3, <1>5, <1>11 DEF PageInv

LEMMA PageErrInv == PageInv /\ PageErr => PageInv'
<1>. SUFFICES ASSUME PageInv, PageErr  PROVE PageInv'
  OBVIOUS
<1>1. /\ first \in Nat /\ to_block \in Nat /\ from_block \in Nat /\ offset \in Nat
      /\ logs \in Seq(Nat) /\ first <= from_block /\ from_block <= to_block
  BY DEF PageInv, PageErr
<1>2. first' = first /\ to_block' = to_block /\ logs' = logs /\ Collected' = Collected
  BY DEF PageErr, Collected
<1>3. /\ \A i, j \in DOMAIN logs : i < j => logs[i] < logs[j]
      /\ Collected \subseteq first..(from_block - 1)
      /\ (first..(from_block - 1)) \ Collected \subseteq failed_alone
  BY <1>1 DEF PageInv, LogsComplete, Lower
<1>4. CASE offset > 0
  <2>1. offset' \in Nat /\ from_block' = from_block /\ failed_alone \subseteq failed_alone'
    BY <1>1, <1>4 DEF PageErr
  <2>2. LogsComplete'
    BY <1>2, <2>1 DEF PageInv, LogsComplete
  <2>. QED  BY <1>1, <1>2, <2>1, <2>2 DEF PageInv
<1>5. CASE ~ (offset > 0)
  <2>1. offset' = offset /\ from_block' = from_block + 1 /\ offset = 0
    BY <1>1, <1>5 DEF PageErr
  <2>2. failed_alone' = failed_alone \cup {from_block}
    BY <1>1, <2>1 DEF PageErr, ToBlockForPage, Lower
  <2>3. LogsComplete'
    <3>1. from_block' - 1 = from_block /\ Lower(from_block' - 1, to_block') = from_block
      BY <1>1, <1>2, <2>1 DEF Lower
    <3>2. first..from_block = (first..(from_block - 1)) \cup {from_block}
      BY <1>1
    <3>. QED  BY <1>2, <1>3, <2>2, <3>1, <3>2, Zenon DEF LogsComplete
  <2>. QED  BY <1>1, <1>2, <2>1, <2>3 DEF PageInv
<1>. QED  BY <1>4, <1>5

(* The loop of collect_logs loses and repeats nothing, for every page size *)
(* and every range: a block that it has passed is in the logs, once and in *)
(* order, unless a query for this block alone has failed.                  *)
THEOREM LogsStayComplete == Spec => []LogsComplete
<1>1. PageInv /\ [Next]_vars => PageInv'
  <2>. SUFFICES ASSUME PageInv, [Next]_vars  PROVE PageInv'
    OBVIOUS
  <2>1. CASE UNCHANGED vars
    BY <2>1 DEF vars, PageInv, LogsComplete, Collected
  <2>. QED  BY <2>1, PageOkInv, PageErrInv DEF Next
<1>2. PageInv => LogsComplete
  BY DEF PageInv
<1>. QED  BY <1>1, <1>2, InitPageInv, PTL DEF Spec
=============================================================================
