---------------------------- MODULE ConnListProofs ----------------------------
(***************************************************************************)
(* The daemon's list keeps its pointers valid, loses no node, and is the   *)
(* table of OBDIIDaemon, for any number of addresses, keys and sockets.    *)
(*                                                                         *)
(* The search is a recursive function.  What it computes is proved with    *)
(* the least number for which it would be something else.                  *)
(***************************************************************************)
EXTENDS ConnList, FiniteSetTheorems, WellFoundedInduction, TLAPS

LEMMA LeastNumber ==
    ASSUME NEW T \in SUBSET Nat, T # {}
    PROVE  \E m \in T : \A j \in T : m <= j
<1> DEFINE R == OpToRel(<, Nat)
<1>1. \A x, y \in Nat : x < y => <<x, y>> \in R
  BY DEF OpToRel
<1>2. IsWellFoundedOn(R, Nat)
  BY NatLessThanWellFounded
<1> HIDE DEF R
<1>3. PICK m \in T : \A y \in T : ~ (<<y, m>> \in R)
  BY <1>2, WFMin
<1>4. ASSUME NEW j \in T PROVE m <= j
  <2>1. m \in Nat /\ j \in Nat /\ ~ (j < m)
    BY <1>1, <1>3
  <2>2. QED BY <2>1
<1>5. QED BY <1>4

LEMMA HeapSize == Cardinality(Addrs) \in Nat
  BY HeapAssumption, FS_CardinalityType

(* A row has no more places than there are addresses. *)
LEMMA RowFits ==
    ASSUME NEW n \in Nat, NEW L \in [1..n -> Addrs],
           \A i, j \in 1..n : L[i] = L[j] => i = j
    PROVE  n \in 0..Cardinality(Addrs)
<1>1. IsFiniteSet(1..n) /\ Cardinality(1..n) = n
  <2>1. 1 \in Int /\ n \in Int
    OBVIOUS
  <2>2. /\ IsFiniteSet(1..n)
        /\ Cardinality(1..n) = IF 1 > n THEN 0 ELSE n - 1 + 1
    BY <2>1, FS_Interval
  <2>3. QED BY <2>2
<1>2. L \in Injection(1..n, Addrs)
  BY DEF Injection, IsInjective
<1>3. Cardinality(1..n) <= Cardinality(Addrs)
  BY <1>2, HeapAssumption, FS_Injection
<1>4. QED BY <1>1, <1>3, HeapSize

-------------------------------------------------------------------------------
(* The step of the search from p, and what the search does in a row. *)
LEMMA ReachedInRow ==
    ASSUME NEW n \in Nat, NEW L \in [1..n -> Addrs], InARow(n, L)
    PROVE  \A i \in Nat : Reached[i] = At(n, L, i + 1)
<1> DEFINE g == [i \in Nat |-> At(n, L, i + 1)]
<1>1. \A i \in Nat : g[i] = IF i = 0 THEN obdiiSockets
                            ELSE IF g[i - 1] = NULL THEN NULL ELSE node[g[i - 1]].next
  <2> SUFFICES ASSUME NEW i \in Nat
               PROVE  g[i] = IF i = 0 THEN obdiiSockets
                             ELSE IF g[i - 1] = NULL THEN NULL ELSE node[g[i - 1]].next
    OBVIOUS
  <2>1. CASE i = 0
    BY <2>1 DEF InARow
  <2>2. CASE i # 0 /\ i \in 1..n
    <3>1. g[i - 1] = L[i] /\ L[i] # NULL
      BY <2>2, NullAssumption DEF At
    <3>2. node[L[i]].next = At(n, L, i + 1)
      BY <2>2 DEF InARow
    <3>3. QED BY <2>2, <3>1, <3>2
  <2>3. CASE i # 0 /\ i \notin 1..n
    <3>1. g[i - 1] = NULL /\ g[i] = NULL
      BY <2>3 DEF At
    <3>2. QED BY <2>3, <3>1
  <2>4. QED BY <2>1, <2>2, <2>3
<1>2. g = [i \in Nat |-> IF i = 0 THEN obdiiSockets
                         ELSE IF g[i - 1] = NULL THEN NULL ELSE node[g[i - 1]].next]
  BY <1>1
<1> HIDE DEF g
<1>3. Reached = [i \in Nat |-> IF i = 0 THEN obdiiSockets
                               ELSE IF Reached[i - 1] = NULL THEN NULL
                               ELSE node[Reached[i - 1]].next]
  BY <1>2, Zenon DEF Reached
<1>4. \A i \in Nat : Reached[i] = g[i]
  <2> DEFINE T == {i \in Nat : Reached[i] # g[i]}
  <2> SUFFICES ASSUME T # {} PROVE FALSE
    OBVIOUS
  <2>1. PICK m \in T : \A j \in T : m <= j
    BY LeastNumber
  <2>2. m # 0
    BY <1>1, <1>3
  <2>3. m - 1 \in Nat /\ Reached[m - 1] = g[m - 1]
    BY <2>1, <2>2
  <2>4. Reached[m] = g[m]
    BY <1>1, <1>3, <2>2, <2>3
  <2>5. QED BY <2>4
<1>5. QED BY <1>4 DEF g

(* The search visits the nodes in use and finds the one with the key. *)
SearchFacts ==
    /\ OnList = heap
    /\ Reached[Cardinality(Addrs)] = NULL
    /\ \A k \in Keys, a \in heap :
          node[a].key = k => socketConnectionMatchingParams(k) = a
    /\ \A k \in Keys :
          (\A a \in heap : node[a].key # k) => socketConnectionMatchingParams(k) = NULL

LEMMA Search == TypeOK /\ ListInv => SearchFacts
<1> SUFFICES ASSUME TypeOK, ListInv PROVE SearchFacts
  OBVIOUS
<1> DEFINE N == Cardinality(Addrs)
<1>1. PICK n \in 0..N : \E L \in [1..n -> Addrs] : InARow(n, L)
  BY DEF ListInv
<1>2. PICK L \in [1..n -> Addrs] : InARow(n, L)
  BY <1>1
<1>3. N \in Nat /\ n \in Nat /\ n <= N
  BY HeapSize
<1> HIDE DEF N
<1>4. \A i \in Nat : Reached[i] = At(n, L, i + 1)
  BY <1>2, <1>3, ReachedInRow
<1>5. \A i \in 1..n : L[i] \in Addrs /\ L[i] # NULL /\ Reached[i - 1] = L[i] /\ i - 1 \in 0..N
  BY <1>2, <1>3, <1>4, NullAssumption DEF At
<1>6. \A i \in 0..N : Reached[i] # NULL => i + 1 \in 1..n /\ Reached[i] = L[i + 1]
  BY <1>3, <1>4 DEF At
<1>7. heap = {L[i] : i \in 1..n}
  BY <1>2 DEF InARow
<1>8. OnList = heap
  <2>1. OnList = {Reached[i] : i \in 0..N} \ {NULL}
    BY DEF OnList, N
  <2>2. QED BY <1>5, <1>6, <1>7, <2>1
<1>9. Reached[N] = NULL
  BY <1>3, <1>4 DEF At
<1>10. ASSUME NEW k \in Keys
       PROVE  /\ \A a \in heap : node[a].key = k => socketConnectionMatchingParams(k) = a
              /\ (\A a \in heap : node[a].key # k) => socketConnectionMatchingParams(k) = NULL
  <2> DEFINE Steps == {i \in 0..N : Reached[i] # NULL /\ node[Reached[i]].key = k}
  <2>1. socketConnectionMatchingParams(k) =
           IF Steps = {} THEN NULL
           ELSE Reached[CHOOSE i \in Steps : \A j \in Steps : i <= j]
    BY DEF socketConnectionMatchingParams, N
  <2>2. ASSUME NEW a \in heap, node[a].key = k PROVE socketConnectionMatchingParams(k) = a
    <3>1. PICK m \in 1..n : a = L[m]
      BY <1>7
    <3>2. m - 1 \in Steps
      BY <1>5, <2>2, <3>1
    <3>3. \A i \in Steps : i = m - 1
      <4> SUFFICES ASSUME NEW i \in Steps PROVE i = m - 1
        OBVIOUS
      <4>1. i + 1 \in 1..n /\ node[L[i + 1]].key = node[L[m]].key
        BY <1>6, <2>2, <3>1
      <4>2. i + 1 = m
        BY <1>2, <4>1 DEF InARow
      <4>3. QED BY <4>2
    <3>4. Steps = {m - 1}
      BY <3>2, <3>3
    <3> HIDE DEF Steps
    <3>5. (CHOOSE i \in Steps : \A j \in Steps : i <= j) = m - 1
      <4>1. \E i \in Steps : \A j \in Steps : i <= j
        BY <3>4
      <4>2. QED BY <3>4, <4>1
    <3>6. QED BY <1>5, <2>1, <3>1, <3>4, <3>5
  <2>3. ASSUME \A a \in heap : node[a].key # k PROVE socketConnectionMatchingParams(k) = NULL
    <3>1. Steps = {}
      BY <1>6, <1>7, <2>3
    <3>2. QED BY <2>1, <3>1
  <2>4. QED BY <2>2, <2>3
<1>11. QED BY <1>8, <1>9, <1>10 DEF SearchFacts, N

LEMMA SearchNext == (TypeOK /\ ListInv)' => SearchFacts'
  BY Search, PTL

-------------------------------------------------------------------------------
(* The inductive invariant *)
ListIInv == TypeOK /\ ListInv

(* Two nodes in use do not have the same key. *)
LEMMA KeysDiffer ==
    ASSUME ListInv, NEW a \in heap, NEW b \in heap, node[a].key = node[b].key
    PROVE  a = b
<1>1. PICK n \in 0..Cardinality(Addrs) : \E L \in [1..n -> Addrs] : InARow(n, L)
  BY DEF ListInv
<1>2. PICK L \in [1..n -> Addrs] : InARow(n, L)
  BY <1>1
<1>3. PICK i \in 1..n, j \in 1..n : a = L[i] /\ b = L[j]
  BY <1>2 DEF InARow
<1>4. i = j
  BY <1>2, <1>3 DEF InARow
<1>5. QED BY <1>3, <1>4

(* A node in use has a reference. *)
LEMMA Counted ==
    ASSUME ListInv, NEW a \in heap
    PROVE  node[a].refcount > 0
<1>1. PICK n \in 0..Cardinality(Addrs) : \E L \in [1..n -> Addrs] : InARow(n, L)
  BY DEF ListInv
<1>2. PICK L \in [1..n -> Addrs] : InARow(n, L)
  BY <1>1
<1>3. QED BY <1>2 DEF InARow

(* What a request for k finds: the node of k in the row, or nothing. *)
LEMMA Found ==
    ASSUME TypeOK, ListInv, NEW k \in Keys
    PROVE  LET found == socketConnectionMatchingParams(k) IN
           \/ found = NULL /\ \A a \in heap : node[a].key # k
           \/ found # NULL /\ found \in heap /\ found \in Addrs /\ node[found].key = k
<1>1. SearchFacts
  BY Search
<1>2. heap \subseteq Addrs /\ NULL \notin Addrs
  BY NullAssumption DEF TypeOK
<1>3. CASE \A a \in heap : node[a].key # k
  BY <1>1, <1>3 DEF SearchFacts
<1>4. ASSUME NEW a \in heap, node[a].key = k PROVE socketConnectionMatchingParams(k) = a
  BY <1>1, <1>4 DEF SearchFacts
<1>5. QED BY <1>2, <1>3, <1>4

(* A change of counts, to at least one, leaves the row as it is. *)
LEMMA RecountStep ==
    ASSUME ListIInv, NEW a \in heap, NEW r \in Nat, r > 0,
           node' = [node EXCEPT ![a].refcount = r],
           UNCHANGED <<obdiiSockets, heap, bound>>
    PROVE  ListIInv'
<1>1. TypeOK /\ a \in Addrs /\ node \in [Addrs -> Node]
  BY DEF ListIInv, TypeOK
<1>2. /\ node' \in [Addrs -> Node]
      /\ \A b \in Addrs : /\ node'[b].key = node[b].key /\ node'[b].next = node[b].next
                          /\ node'[b].prev = node[b].prev
                          /\ node'[b].refcount = IF b = a THEN r ELSE node[b].refcount
  BY <1>1 DEF Node
<1>3. TypeOK'
  BY <1>1, <1>2 DEF TypeOK
<1>4. PICK n \in 0..Cardinality(Addrs) : \E L \in [1..n -> Addrs] : InARow(n, L)
  BY DEF ListIInv, ListInv
<1>5. PICK L \in [1..n -> Addrs] : InARow(n, L)
  BY <1>4
<1>6. InARow(n, L)'
  BY <1>2, <1>5 DEF InARow, At
<1>7. ListInv'
  BY <1>6 DEF ListInv
<1>8. QED BY <1>3, <1>7 DEF ListIInv

(* A new node goes before the head. *)
LEMMA OpenStep ==
    ASSUME ListIInv, NEW k \in Keys, NEW a \in Addrs \ heap, NEW o \in OFDs,
           openSocketConnection(k, a, o)
    PROVE  ListIInv'
<1>1. TypeOK /\ ListInv /\ node \in [Addrs -> Node] /\ heap \subseteq Addrs
  BY DEF ListIInv, TypeOK
<1>2. \A b \in heap : node[b].key # k
  BY <1>1, Found DEF openSocketConnection
<1>3. obdiiSockets \in Pointers
  BY <1>1 DEF TypeOK
<1>4. \A b \in Addrs :
         node'[b] = CASE b = a -> [key |-> k, s |-> o, refcount |-> 1,
                                   prev |-> NULL, next |-> obdiiSockets]
                      [] b # a /\ b = obdiiSockets -> [node[b] EXCEPT !.prev = a]
                      [] OTHER -> node[b]
  BY DEF openSocketConnection
<1>5. /\ node'[a] = [key |-> k, s |-> o, refcount |-> 1, prev |-> NULL, next |-> obdiiSockets]
      /\ \A b \in Addrs \ {a} : /\ node'[b].key = node[b].key
                                /\ node'[b].next = node[b].next
                                /\ node'[b].refcount = node[b].refcount
                                /\ node'[b].prev = IF b = obdiiSockets THEN a ELSE node[b].prev
  BY <1>1, <1>4 DEF Node
<1>6. TypeOK'
  <2>1. node' \in [Addrs -> Node]
    <3>1. ASSUME NEW b \in Addrs PROVE node'[b] \in Node
      <4>1. CASE b = a
        BY <1>3, <1>5, <4>1 DEF Node, Pointers
      <4>2. CASE b # a /\ b = obdiiSockets
        BY <1>1, <1>4, <4>2 DEF Node, Pointers
      <4>3. CASE b # a /\ b # obdiiSockets
        BY <1>1, <1>4, <4>3
      <4>4. QED BY <4>1, <4>2, <4>3
    <3>2. QED BY <3>1 DEF openSocketConnection
  <2>2. bound' \in [OFDs -> Keys]
    BY <1>1 DEF TypeOK, openSocketConnection
  <2>3. QED BY <1>1, <2>1, <2>2 DEF TypeOK, openSocketConnection, Pointers
<1>7. PICK n \in 0..Cardinality(Addrs) : \E L \in [1..n -> Addrs] : InARow(n, L)
  BY <1>1 DEF ListInv
<1>8. PICK L \in [1..n -> Addrs] : InARow(n, L)
  BY <1>7
<1>9. n \in Nat
  BY HeapSize
<1> DEFINE m == n + 1
           M == [i \in 1..m |-> IF i = 1 THEN a ELSE L[i - 1]]
<1>10. M \in [1..m -> Addrs] /\ m \in Nat /\ m = n + 1
  BY <1>9
<1>11. \A i \in 1..n : L[i] \in heap /\ L[i] # a /\ L[i] \in Addrs
  BY <1>8 DEF InARow
<1>12. /\ M[1] = a /\ 1 \in 1..m
       /\ \A i \in 1..m : i # 1 => M[i] = L[i - 1] /\ i - 1 \in 1..n
       /\ \A i \in 1..n : i + 1 \in 1..m /\ M[i + 1] = L[i]
  BY <1>9
<1> HIDE DEF M, m
<1>13. \A i \in 1..n : /\ node[L[i]].next = At(n, L, i + 1)
                      /\ node[L[i]].prev = At(n, L, i - 1)
                      /\ node[L[i]].refcount > 0
  BY <1>8 DEF InARow
<1>14. obdiiSockets = At(n, L, 1) /\ obdiiSockets' = a
  BY <1>8 DEF InARow, openSocketConnection
<1>15. InARow(m, M)'
  <2>1. ASSUME NEW i \in 1..m, NEW j \in 1..m, node'[M[i]].key = node'[M[j]].key PROVE i = j
    <3>1. \A x \in 1..m : x # 1 => /\ node'[M[x]].key = node[L[x - 1]].key
                                   /\ node[L[x - 1]].key # k
      BY <1>2, <1>5, <1>11, <1>12
    <3>2. node'[M[1]].key = k
      BY <1>5, <1>12
    <3>3. CASE i = 1 \/ j = 1
      BY <2>1, <3>1, <3>2, <3>3
    <3>4. CASE i # 1 /\ j # 1
      <4>1. node[L[i - 1]].key = node[L[j - 1]].key /\ i - 1 \in 1..n /\ j - 1 \in 1..n
        BY <1>12, <2>1, <3>1, <3>4
      <4>2. i - 1 = j - 1
        BY <1>8, <4>1 DEF InARow
      <4>3. QED BY <4>2
    <3>5. QED BY <3>3, <3>4
  <2>2. heap' = {M[i] : i \in 1..m}
    <3>1. heap' = heap \cup {a} /\ heap = {L[i] : i \in 1..n}
      BY <1>8 DEF InARow, openSocketConnection
    <3>2. {M[i] : i \in 1..m} = {L[i] : i \in 1..n} \cup {a}
      <4>1. ASSUME NEW i \in 1..m PROVE M[i] \in {L[j] : j \in 1..n} \cup {a}
        BY <1>12
      <4>2. ASSUME NEW i \in 1..n PROVE L[i] \in {M[j] : j \in 1..m}
        BY <1>12
      <4>3. QED BY <1>12, <4>1, <4>2
    <3>3. QED BY <3>1, <3>2
  <2>3. obdiiSockets' = At(m, M, 1)
    BY <1>12, <1>14 DEF At
  <2>4. ASSUME NEW i \in 1..m
        PROVE  /\ node'[M[i]].next = At(m, M, i + 1)
               /\ node'[M[i]].prev = At(m, M, i - 1)
               /\ node'[M[i]].refcount > 0
    <3>1. CASE i = 1
      <4>1. At(m, M, 2) = At(n, L, 1) /\ At(m, M, 0) = NULL
        BY <1>9, <1>10, <1>12 DEF At
      <4>2. QED BY <1>5, <1>12, <1>14, <3>1, <4>1
    <3>2. CASE i # 1
      <4>1. M[i] = L[i - 1] /\ i - 1 \in 1..n
        BY <1>9, <1>12, <3>2
      <4>2. /\ node'[M[i]].next = At(n, L, i)
            /\ node'[M[i]].refcount > 0
            /\ node'[M[i]].prev = IF L[i - 1] = obdiiSockets THEN a ELSE At(n, L, i - 2)
        <5>1. (i - 1) + 1 = i /\ (i - 1) - 1 = i - 2
          BY <1>10
        <5>2. /\ node[L[i - 1]].next = At(n, L, i)
              /\ node[L[i - 1]].prev = At(n, L, i - 2)
              /\ node[L[i - 1]].refcount > 0
          BY <1>13, <4>1, <5>1
        <5>3. L[i - 1] \in Addrs \ {a}
          BY <1>11, <4>1
        <5>4. QED BY <1>5, <4>1, <5>2, <5>3
      <4>3. At(n, L, i) = At(m, M, i + 1)
        BY <1>9, <1>10, <1>12, <3>2 DEF At
      <4>4. L[i - 1] = obdiiSockets <=> i = 2
        <5>1. i = 2 => L[i - 1] = obdiiSockets
          BY <1>9, <1>14, <4>1 DEF At
        <5>2. 1 \in 1..n /\ obdiiSockets = L[1]
          BY <1>9, <1>14, <4>1 DEF At
        <5>3. L[i - 1] = L[1] => i - 1 = 1
          BY <1>8, <4>1, <5>2 DEF InARow
        <5>4. QED BY <1>9, <5>1, <5>2, <5>3
      <4>5. i # 2 => At(n, L, i - 2) = At(m, M, i - 1)
        BY <1>9, <1>10, <1>12, <3>2 DEF At
      <4>6. At(m, M, 1) = a
        BY <1>9, <1>10, <1>12 DEF At
      <4>7. QED BY <4>2, <4>3, <4>4, <4>5, <4>6
    <3>3. QED BY <3>1, <3>2
  <2>5. QED BY <2>1, <2>2, <2>3, <2>4 DEF InARow, At
<1>16. m \in 0..Cardinality(Addrs)
  <2>1. \A i, j \in 1..m : M[i] = M[j] => i = j
    BY <1>15 DEF InARow
  <2>2. QED BY <1>10, <2>1, RowFits
<1>17. ListInv'
  <2>1. QED BY <1>10, <1>15, <1>16 DEF ListInv
<1>18. QED BY <1>6, <1>17 DEF ListIInv

(* The node at p goes, and the ones after it move up. *)
LEMMA UnlinkStep ==
    ASSUME ListIInv, NEW a \in heap, Unlink(a), UNCHANGED bound
    PROVE  ListIInv'
<1>1. TypeOK /\ ListInv /\ node \in [Addrs -> Node] /\ heap \subseteq Addrs /\ a \in Addrs
  BY DEF ListIInv, TypeOK
<1> DEFINE prev == node[a].prev
           next == node[a].next
<1>2. prev \in Pointers /\ next \in Pointers
  BY <1>1 DEF Node
<1>3. /\ heap' = heap \ {a}
      /\ obdiiSockets' = IF prev = NULL THEN next ELSE obdiiSockets
      /\ node' = [b \in Addrs |-> [node[b] EXCEPT !.next = IF b = prev THEN next ELSE @,
                                                  !.prev = IF b = next THEN prev ELSE @]]
  BY DEF Unlink
<1> HIDE DEF prev, next
<1>4. /\ \A b \in Addrs : /\ node'[b] \in Node
                          /\ node'[b].key = node[b].key
                          /\ node'[b].refcount = node[b].refcount
                          /\ node'[b].next = IF b = prev THEN next ELSE node[b].next
                          /\ node'[b].prev = IF b = next THEN prev ELSE node[b].prev
      /\ node' \in [Addrs -> Node]
  BY <1>1, <1>2, <1>3 DEF Node
<1>5. TypeOK'
  BY <1>1, <1>2, <1>3, <1>4 DEF TypeOK
<1>6. PICK n \in 0..Cardinality(Addrs) : \E L \in [1..n -> Addrs] : InARow(n, L)
  BY <1>1 DEF ListInv
<1>7. PICK L \in [1..n -> Addrs] : InARow(n, L)
  BY <1>6
<1>8. /\ \A i, j \in 1..n : node[L[i]].key = node[L[j]].key => i = j
      /\ \A i, j \in 1..n : L[i] = L[j] => i = j
      /\ heap = {L[i] : i \in 1..n}
      /\ obdiiSockets = At(n, L, 1)
      /\ \A i \in 1..n : /\ node[L[i]].next = At(n, L, i + 1)
                         /\ node[L[i]].prev = At(n, L, i - 1)
                         /\ node[L[i]].refcount > 0
                         /\ L[i] \in Addrs /\ L[i] # NULL
  <2>1. \A i, j \in 1..n : node[L[i]].key = node[L[j]].key => i = j
    BY <1>7 DEF InARow
  <2>2. \A i, j \in 1..n : L[i] = L[j] => i = j
    BY <2>1
  <2>3. \A i \in 1..n : L[i] \in Addrs /\ L[i] # NULL
    BY NullAssumption
  <2>4. QED BY <1>7, <2>1, <2>2, <2>3 DEF InARow
<1>9. PICK p \in 1..n : a = L[p]
  BY <1>8
<1>10. n \in Nat /\ n <= Cardinality(Addrs) /\ p \in Nat /\ 1 <= p /\ p <= n
  BY HeapSize
<1>11. prev = At(n, L, p - 1) /\ next = At(n, L, p + 1)
  BY <1>8, <1>9 DEF prev, next
<1> DEFINE m == n - 1
           S(i) == IF i < p THEN i ELSE i + 1
           M == [i \in 1..m |-> L[S(i)]]
<1>12. /\ m \in Nat /\ m = n - 1 /\ m \in 0..Cardinality(Addrs)
       /\ \A i \in 1..m : S(i) \in 1..n /\ S(i) # p
  BY <1>10, HeapSize
<1>13. M \in [1..m -> Addrs] /\ \A i \in 1..m : M[i] = L[S(i)]
  BY <1>12
<1>14. \A i \in 0..n : At(m, M, i) = IF i < p THEN At(n, L, i) ELSE At(n, L, i + 1)
  BY <1>10, <1>12, <1>13 DEF At
<1> HIDE DEF m, M
<1>15. InARow(m, M)'
  <2>1. ASSUME NEW i \in 1..m, NEW j \in 1..m, node'[M[i]].key = node'[M[j]].key PROVE i = j
    <3>1. node[L[S(i)]].key = node[L[S(j)]].key
      <4>1. S(i) \in 1..n /\ S(j) \in 1..n /\ M[i] = L[S(i)] /\ M[j] = L[S(j)]
        BY <1>12, <1>13
      <4> HIDE DEF S
      <4>2. QED BY <1>4, <1>8, <2>1, <4>1
    <3>2. S(i) = S(j)
      BY <1>8, <1>12, <3>1
    <3>3. QED BY <1>10, <1>12, <3>2
  <2>2. heap' = {M[i] : i \in 1..m}
    <3>1. ASSUME NEW i \in 1..m PROVE M[i] \in heap \ {a}
      BY <1>8, <1>9, <1>12, <1>13
    <3>2. ASSUME NEW b \in heap \ {a} PROVE \E i \in 1..m : b = M[i]
      <4>1. PICK j \in 1..n : b = L[j]
        BY <1>8
      <4>2. j # p
        BY <1>9, <4>1
      <4>3. CASE j < p
        <5>1. j \in 1..m /\ S(j) = j
          BY <1>10, <1>12, <4>3
        <5>2. QED BY <1>13, <4>1, <5>1
      <4>4. CASE j > p
        <5>1. j - 1 \in 1..m /\ S(j - 1) = j
          BY <1>10, <1>12, <4>4
        <5>2. QED BY <1>13, <4>1, <5>1
      <4>5. QED BY <1>10, <4>2, <4>3, <4>4
    <3>3. QED BY <1>3, <3>1, <3>2
  <2>3. obdiiSockets' = At(m, M, 1)
    <3>1. At(m, M, 1) = IF 1 < p THEN At(n, L, 1) ELSE At(n, L, 2)
      BY <1>10, <1>14
    <3>2. prev = NULL <=> p = 1
      BY <1>8, <1>10, <1>11 DEF At
    <3>3. p = 1 => next = At(n, L, 2)
      BY <1>11
    <3>4. CASE p = 1
      <4>1. prev = NULL /\ next = At(n, L, 2) /\ ~ (1 < p)
        BY <3>2, <3>3, <3>4
      <4>2. QED BY <1>3, <3>1, <4>1
    <3>5. CASE p # 1
      <4>1. 1 < p /\ prev # NULL
        BY <1>10, <3>2, <3>5
      <4>2. QED BY <1>3, <1>8, <3>1, <4>1
    <3>6. QED BY <3>4, <3>5
  <2>4. ASSUME NEW i \in 1..m
        PROVE  /\ node'[M[i]].next = At(m, M, i + 1)
               /\ node'[M[i]].prev = At(m, M, i - 1)
               /\ node'[M[i]].refcount > 0
    <3>1. i \in Nat /\ 1 <= i /\ i <= n - 1 /\ i - 1 \in 0..n /\ i + 1 \in 0..n
      BY <1>10, <1>12
    <3>2. /\ S(i) \in 1..n /\ M[i] = L[S(i)]
          /\ node'[M[i]].refcount > 0
          /\ node'[M[i]].next = IF L[S(i)] = prev THEN next ELSE At(n, L, S(i) + 1)
          /\ node'[M[i]].prev = IF L[S(i)] = next THEN prev ELSE At(n, L, S(i) - 1)
      <4>1. S(i) \in 1..n /\ M[i] = L[S(i)]
        BY <1>12, <1>13
      <4> HIDE DEF S
      <4>2. /\ L[S(i)] \in Addrs /\ node[L[S(i)]].refcount > 0
            /\ node[L[S(i)]].next = At(n, L, S(i) + 1)
            /\ node[L[S(i)]].prev = At(n, L, S(i) - 1)
        BY <1>8, <4>1
      <4>3. QED BY <1>4, <4>1, <4>2
    <3>3. L[S(i)] = prev <=> i + 1 = p
      <4>1. CASE p = 1
        BY <1>8, <1>10, <1>11, <3>1, <3>2, <4>1 DEF At
      <4>2. CASE p # 1
        <5>1. p - 1 \in 1..n /\ prev = L[p - 1]
          BY <1>10, <1>11, <4>2 DEF At
        <5>2. L[S(i)] = prev <=> S(i) = p - 1
          BY <1>8, <3>2, <5>1
        <5>3. S(i) = p - 1 <=> i + 1 = p
          BY <1>10, <3>1
        <5>4. QED BY <5>2, <5>3
      <4>3. QED BY <4>1, <4>2
    <3>4. L[S(i)] = next <=> i = p
      <4>1. CASE p = n
        BY <1>8, <1>10, <1>11, <3>1, <3>2, <4>1 DEF At
      <4>2. CASE p # n
        <5>1. p + 1 \in 1..n /\ next = L[p + 1]
          BY <1>10, <1>11, <4>2 DEF At
        <5>2. L[S(i)] = next <=> S(i) = p + 1
          BY <1>8, <3>2, <5>1
        <5>3. S(i) = p + 1 <=> i = p
          BY <1>10, <3>1
        <5>4. QED BY <5>2, <5>3
      <4>3. QED BY <4>1, <4>2
    <3>5. node'[M[i]].next = At(m, M, i + 1)
      <4>1. At(m, M, i + 1) = IF i + 1 < p THEN At(n, L, i + 1) ELSE At(n, L, i + 1 + 1)
        BY <1>14, <3>1
      <4>2. CASE i + 1 = p
        <5>1. At(m, M, i + 1) = At(n, L, p + 1)
          BY <1>10, <4>1, <4>2
        <5>2. QED BY <1>11, <3>2, <3>3, <4>2, <5>1
      <4>3. CASE i + 1 < p
        <5>1. S(i) + 1 = i + 1
          BY <1>10, <3>1, <4>3
        <5>2. QED BY <1>10, <3>1, <3>2, <3>3, <4>1, <4>3, <5>1
      <4>4. CASE i + 1 > p
        <5>1. S(i) + 1 = i + 1 + 1
          BY <1>10, <3>1, <4>4
        <5>2. QED BY <1>10, <3>1, <3>2, <3>3, <4>1, <4>4, <5>1
      <4>5. QED BY <1>10, <3>1, <4>2, <4>3, <4>4
    <3>6. node'[M[i]].prev = At(m, M, i - 1)
      <4>1. At(m, M, i - 1) = IF i - 1 < p THEN At(n, L, i - 1) ELSE At(n, L, i - 1 + 1)
        BY <1>14, <3>1
      <4>2. CASE i = p
        <5>1. At(m, M, i - 1) = At(n, L, p - 1)
          BY <1>10, <4>1, <4>2
        <5>2. QED BY <1>11, <3>2, <3>4, <4>2, <5>1
      <4>3. CASE i < p
        <5>1. S(i) - 1 = i - 1 /\ i - 1 < p
          BY <1>10, <3>1, <4>3
        <5>2. QED BY <1>10, <3>1, <3>2, <3>4, <4>1, <4>3, <5>1
      <4>4. CASE i > p
        <5>1. S(i) - 1 = i - 1 + 1 /\ ~ (i - 1 < p)
          BY <1>10, <3>1, <4>4
        <5>2. QED BY <1>10, <3>1, <3>2, <3>4, <4>1, <4>4, <5>1
      <4>5. QED BY <1>10, <3>1, <4>2, <4>3, <4>4
    <3>7. QED BY <3>2, <3>5, <3>6
  <2>5. QED BY <2>1, <2>2, <2>3, <2>4 DEF InARow, At
<1>16. ListInv'
  BY <1>12, <1>13, <1>15 DEF ListInv
<1>17. QED BY <1>5, <1>16 DEF ListIInv

-------------------------------------------------------------------------------
LEMMA ListInit == Init => ListIInv
<1> SUFFICES ASSUME Init PROVE ListIInv
  OBVIOUS
<1>1. TypeOK
  <2>1. {NULL} \subseteq Pointers /\ {0} \subseteq Nat
    BY DEF Pointers
  <2>2. [key: Keys, s: OFDs, refcount: {0}, prev: {NULL}, next: {NULL}] \subseteq Node
    BY <2>1 DEF Node
  <2>3. QED BY <2>1, <2>2 DEF Init, TypeOK
<1>2. ListInv
  <2> DEFINE E == [i \in 1..0 |-> NULL]
  <2>1. 0 \in 0..Cardinality(Addrs) /\ E \in [1..0 -> Addrs]
    BY HeapSize
  <2>2. InARow(0, E)
    BY DEF Init, InARow, At
  <2> HIDE DEF E
  <2>3. QED BY <2>1, <2>2 DEF ListInv
<1>3. QED BY <1>1, <1>2 DEF ListIInv

(* Every request leaves the nodes in use in a row. *)
LEMMA ListStep == ListIInv /\ [Next]_vars => ListIInv'
<1> SUFFICES ASSUME ListIInv, [Next]_vars PROVE ListIInv'
  OBVIOUS
<1>1. TypeOK /\ ListInv /\ node \in [Addrs -> Node] /\ heap \subseteq Addrs
  BY DEF ListIInv, TypeOK
<1>2. ASSUME UNCHANGED <<obdiiSockets, heap, node, bound>> PROVE ListIInv'
  BY <1>2 DEF ListIInv, TypeOK, ListInv, InARow
<1>3. ASSUME NEW k \in Keys, FoundOpen(k) PROVE ListIInv'
  <2> DEFINE found == socketConnectionMatchingParams(k)
  <2>1. found \in heap
    BY <1>1, <1>3, Found DEF FoundOpen
  <2>2. /\ node' = [node EXCEPT ![found].refcount = node[found].refcount + 1]
        /\ UNCHANGED <<obdiiSockets, heap, bound>>
    BY <1>3 DEF FoundOpen
  <2>3. node[found].refcount \in Nat
    BY <1>1, <2>1 DEF Node
  <2> HIDE DEF found
  <2>4. node[found].refcount + 1 \in Nat /\ node[found].refcount + 1 > 0
    BY <2>3
  <2>5. QED BY <2>1, <2>2, <2>4, RecountStep
<1>4. ASSUME NEW k \in Keys, NEW a \in Addrs \ heap, NEW o \in OFDs,
             openSocketConnection(k, a, o)
      PROVE  ListIInv'
  BY <1>4, OpenStep
<1>5. ASSUME NEW k \in Keys, OpenError(k) PROVE ListIInv'
  BY <1>2, <1>5 DEF OpenError
<1>6. ASSUME NEW k \in Keys, closeSocketConnection(k) PROVE ListIInv'
  <2> DEFINE conn == socketConnectionMatchingParams(k)
  <2>1. conn \in heap
    BY <1>1, <1>6, Found DEF closeSocketConnection
  <2>2. node[conn].refcount \in Nat /\ node[conn].refcount > 0
    BY <1>1, <2>1, Counted DEF Node
  <2>3. /\ UNCHANGED bound
        /\ \/ Unlink(conn)
           \/ /\ node[conn].refcount # 1
              /\ node' = [node EXCEPT ![conn].refcount = node[conn].refcount - 1]
              /\ UNCHANGED <<obdiiSockets, heap>>
    BY <1>6 DEF closeSocketConnection
  <2> HIDE DEF conn
  <2>4. CASE Unlink(conn)
    BY <2>1, <2>3, <2>4, UnlinkStep
  <2>5. CASE /\ node[conn].refcount # 1
             /\ node' = [node EXCEPT ![conn].refcount = node[conn].refcount - 1]
             /\ UNCHANGED <<obdiiSockets, heap>>
    <3>1. node[conn].refcount - 1 \in Nat /\ node[conn].refcount - 1 > 0
      BY <2>2, <2>5
    <3>2. QED BY <2>1, <2>3, <2>5, <3>1, RecountStep
  <2>6. QED BY <2>3, <2>4, <2>5
<1>7. ASSUME NEW k \in Keys, NoSuchSocket(k) PROVE ListIInv'
  BY <1>2, <1>7 DEF NoSuchSocket
<1>8. CASE UNCHANGED vars
  BY <1>2, <1>8 DEF vars
<1>9. QED BY <1>3, <1>4, <1>5, <1>6, <1>7, <1>8 DEF Next

(***************************************************************************)
(* At every request the nodes that malloc has handed out and the daemon    *)
(* has not freed stand in one row, linked in both directions, with         *)
(* different keys and at least one reference each.                         *)
(***************************************************************************)
THEOREM RowTheorem == Spec => [](TypeOK /\ ListInv)
<1>1. Init => ListIInv
  BY ListInit
<1>2. ListIInv /\ [Next]_vars => ListIInv'
  BY ListStep
<1>3. QED BY <1>1, <1>2, PTL DEF Spec, ListIInv

(* Every field of every node, and every pointer, keeps its type. *)
THEOREM TypeTheorem == Spec => []TypeOK
  BY RowTheorem, PTL

(* A search stays inside the nodes in use, and ends. *)
THEOREM PointersTheorem == Spec => []PointersValid
<1>1. TypeOK /\ ListInv => PointersValid
  <2> SUFFICES ASSUME TypeOK, ListInv PROVE PointersValid
    OBVIOUS
  <2>1. SearchFacts
    BY Search
  <2>2. PICK n \in 0..Cardinality(Addrs) : \E L \in [1..n -> Addrs] : InARow(n, L)
    BY DEF ListInv
  <2>3. PICK L \in [1..n -> Addrs] : InARow(n, L)
    BY <2>2
  <2>4. n \in Nat
    BY HeapSize
  <2>5. obdiiSockets # NULL => node[obdiiSockets].prev = NULL
    BY <2>3, <2>4 DEF InARow, At
  <2>6. ASSUME NEW a \in heap, node[a].next # NULL PROVE node[node[a].next].prev = a
    <3>1. PICK i \in 1..n : a = L[i]
      BY <2>3 DEF InARow
    <3>2. node[a].next = At(n, L, i + 1)
      BY <2>3, <3>1 DEF InARow
    <3>3. i + 1 \in 1..n /\ node[a].next = L[i + 1]
      BY <2>6, <3>2 DEF At
    <3>4. node[L[i + 1]].prev = At(n, L, (i + 1) - 1)
      BY <2>3, <3>3 DEF InARow
    <3>5. (i + 1) - 1 = i
      BY <2>4
    <3>6. QED BY <3>1, <3>3, <3>4, <3>5 DEF At
  <2>7. QED BY <2>1, <2>5, <2>6 DEF PointersValid, SearchFacts
<1>2. QED BY <1>1, RowTheorem, PTL

(* Every node that has not been freed is one that a search visits. *)
THEOREM NoNodeLostTheorem == Spec => []NoNodeLost
<1>1. TypeOK /\ ListInv => NoNodeLost
  BY Search DEF SearchFacts, NoNodeLost
<1>2. QED BY <1>1, RowTheorem, PTL

-------------------------------------------------------------------------------
(* The entry of a node in use, and of a key that no node in use has. *)
TableFacts ==
    /\ TableS = [k \in Keys |-> TableS[k]]
    /\ TableRefcount = [k \in Keys |-> TableRefcount[k]]
    /\ \A k \in Keys, a \in heap : node[a].key = k =>
          TableS[k] = node[a].s /\ TableRefcount[k] = node[a].refcount
    /\ \A k \in Keys : (\A a \in heap : node[a].key # k) =>
          TableS[k] = NoFD /\ TableRefcount[k] = 0

(* Two nodes in use do not have the same key. *)
KeysApart == \A a, b \in heap : node[a].key = node[b].key => a = b

LEMMA Table == ListIInv => TableFacts
<1> SUFFICES ASSUME ListIInv PROVE TableFacts
  OBVIOUS
<1>1. SearchFacts
  BY Search DEF ListIInv
<1>2. ASSUME NEW k \in Keys
      PROVE  /\ TableS[k] = IF \E a \in heap : node[a].key = k
                            THEN node[socketConnectionMatchingParams(k)].s ELSE NoFD
             /\ TableRefcount[k] = IF \E a \in heap : node[a].key = k
                                   THEN node[socketConnectionMatchingParams(k)].refcount ELSE 0
  BY <1>1 DEF SearchFacts, TableS, TableRefcount
<1>3. TableS = [k \in Keys |-> TableS[k]] /\ TableRefcount = [k \in Keys |-> TableRefcount[k]]
  BY DEF TableS, TableRefcount
<1>4. QED BY <1>1, <1>2, <1>3 DEF SearchFacts, TableFacts

LEMMA TableNext == ListIInv' => TableFacts'
  BY Table, PTL

(* The step of ImplementsTable *)
TableStep ==
    \E k \in Keys :
        \/ Daemon!FoundOpen(k)
        \/ \E o \in OFDs : Daemon!OpenSocketConnection(k, o)
        \/ Daemon!OpenSocketError(k)
        \/ Daemon!CloseSocketConnection(k)
        \/ Daemon!NoSuchSocket(k)

(* A change of counts changes the entry of that node's key. *)
LEMMA TableRecount ==
    ASSUME TypeOK, TableFacts, TableFacts', KeysApart, NEW a \in heap, NEW r \in Nat,
           node' = [node EXCEPT ![a].refcount = r], UNCHANGED heap
    PROVE  /\ UNCHANGED TableS
           /\ TableRefcount' = [TableRefcount EXCEPT ![node[a].key] = r]
<1> DEFINE k == node[a].key
<1>1. node \in [Addrs -> Node] /\ heap \subseteq Addrs /\ k \in Keys
  BY DEF TypeOK, Node
<1>2. \A b \in heap : /\ node'[b].key = node[b].key /\ node'[b].s = node[b].s
                      /\ node'[b].refcount = IF b = a THEN r ELSE node[b].refcount
  BY <1>1 DEF Node
<1>3. \A b \in heap : node[b].key = k => b = a
  BY DEF KeysApart
<1> HIDE DEF k
<1>4. ASSUME NEW j \in Keys
      PROVE  TableS'[j] = TableS[j] /\ TableRefcount'[j] = IF j = k THEN r ELSE TableRefcount[j]
  <2>1. CASE \E b \in heap : node[b].key = j
    <3>1. PICK b \in heap : node[b].key = j
      BY <2>1
    <3>2. /\ TableS[j] = node[b].s /\ TableRefcount[j] = node[b].refcount
          /\ TableS'[j] = node'[b].s /\ TableRefcount'[j] = node'[b].refcount
      BY <1>2, <3>1 DEF TableFacts
    <3>3. j = k <=> b = a
      BY <1>3, <3>1 DEF k
    <3>4. QED BY <1>2, <3>2, <3>3
  <2>2. CASE \A b \in heap : node[b].key # j
    <3>1. /\ TableS[j] = NoFD /\ TableRefcount[j] = 0
          /\ TableS'[j] = NoFD /\ TableRefcount'[j] = 0
      BY <1>2, <2>2 DEF TableFacts
    <3>2. j # k
      BY <2>2 DEF k
    <3>3. QED BY <3>1, <3>2
  <2>3. QED BY <2>1, <2>2
<1>5. TableS = [j \in Keys |-> TableS[j]] /\ TableS' = [j \in Keys |-> TableS'[j]]
  BY DEF TableFacts
<1>6. /\ TableRefcount = [j \in Keys |-> TableRefcount[j]]
      /\ TableRefcount' = [j \in Keys |-> TableRefcount'[j]]
  BY DEF TableFacts
<1>7. UNCHANGED TableS
  BY <1>4, <1>5
<1>8. TableRefcount' = [TableRefcount EXCEPT ![k] = r]
  BY <1>4, <1>6
<1>9. QED BY <1>7, <1>8 DEF k

(* With the list as it was, the table is as it was. *)
LEMMA TableUnchanged ==
    ASSUME TableFacts, TableFacts', UNCHANGED <<heap, node>>
    PROVE  UNCHANGED <<TableS, TableRefcount>>
<1>1. ASSUME NEW j \in Keys
      PROVE  TableS'[j] = TableS[j] /\ TableRefcount'[j] = TableRefcount[j]
  <2>1. CASE \E b \in heap : node[b].key = j
    BY <2>1 DEF TableFacts
  <2>2. CASE \A b \in heap : node[b].key # j
    BY <2>2 DEF TableFacts
  <2>3. QED BY <2>1, <2>2
<1>2. /\ TableS = [j \in Keys |-> TableS[j]] /\ TableS' = [j \in Keys |-> TableS'[j]]
      /\ TableRefcount = [j \in Keys |-> TableRefcount[j]]
      /\ TableRefcount' = [j \in Keys |-> TableRefcount'[j]]
  BY DEF TableFacts
<1>3. QED BY <1>1, <1>2

(* A node that comes, or goes, is an entry that comes, or goes. *)
LEMMA TableOneKey ==
    ASSUME TableFacts, TableFacts', NEW k \in Keys, NEW v, NEW r,
           TableS'[k] = v, TableRefcount'[k] = r,
           \A j \in Keys \ {k} :
              /\ \A b \in heap : node[b].key = j =>
                    b \in heap' /\ node'[b].key = j
                    /\ node'[b].s = node[b].s /\ node'[b].refcount = node[b].refcount
              /\ (\A b \in heap : node[b].key # j) => \A b \in heap' : node'[b].key # j
    PROVE  /\ TableS' = [TableS EXCEPT ![k] = v]
           /\ TableRefcount' = [TableRefcount EXCEPT ![k] = r]
<1>1. ASSUME NEW j \in Keys, j # k
      PROVE  TableS'[j] = TableS[j] /\ TableRefcount'[j] = TableRefcount[j]
  <2>1. CASE \E b \in heap : node[b].key = j
    <3>1. PICK b \in heap : node[b].key = j
      BY <2>1
    <3>2. /\ b \in heap' /\ node'[b].key = j
          /\ node'[b].s = node[b].s /\ node'[b].refcount = node[b].refcount
      BY <1>1, <3>1
    <3>3. QED BY <3>1, <3>2 DEF TableFacts
  <2>2. CASE \A b \in heap : node[b].key # j
    <3>1. \A b \in heap' : node'[b].key # j
      BY <1>1, <2>2
    <3>2. QED BY <2>2, <3>1 DEF TableFacts
  <2>3. QED BY <2>1, <2>2
<1>2. /\ TableS = [j \in Keys |-> TableS[j]] /\ TableS' = [j \in Keys |-> TableS'[j]]
      /\ TableRefcount = [j \in Keys |-> TableRefcount[j]]
      /\ TableRefcount' = [j \in Keys |-> TableRefcount'[j]]
  BY DEF TableFacts
<1>3. TableS' = [TableS EXCEPT ![k] = v]
  BY <1>1, <1>2
<1>4. TableRefcount' = [TableRefcount EXCEPT ![k] = r]
  BY <1>1, <1>2
<1>5. QED BY <1>3, <1>4

(* Every request to the list is the request to the table. *)
LEMMA RequestStep == ListIInv /\ ListIInv' /\ Next => TableStep
<1> SUFFICES ASSUME ListIInv, ListIInv', NEW k \in Keys,
                    \/ FoundOpen(k)
                    \/ \E a \in Addrs \ heap, o \in OFDs \ {node[b].s : b \in heap} :
                          openSocketConnection(k, a, o)
                    \/ OpenError(k)
                    \/ closeSocketConnection(k)
                    \/ NoSuchSocket(k)
             PROVE  TableStep
  BY DEF Next
<1>1. TypeOK /\ ListInv /\ node \in [Addrs -> Node] /\ heap \subseteq Addrs
  BY DEF ListIInv, TypeOK
<1>2. TableFacts /\ TableFacts'
  BY Table, TableNext
<1>3. KeysApart
  BY <1>1, KeysDiffer DEF KeysApart
<1> DEFINE found == socketConnectionMatchingParams(k)
<1>4. found # NULL => /\ found \in heap /\ found \in Addrs /\ node[found].key = k
                      /\ TableS[k] = node[found].s /\ TableRefcount[k] = node[found].refcount
                      /\ node[found].s \in OFDs /\ node[found].refcount \in Nat
                      /\ TableS[k] # NoFD
  <2>1. SUFFICES ASSUME found # NULL
                 PROVE  /\ found \in heap /\ found \in Addrs /\ node[found].key = k
                        /\ TableS[k] = node[found].s /\ TableRefcount[k] = node[found].refcount
                        /\ node[found].s \in OFDs /\ node[found].refcount \in Nat
                        /\ TableS[k] # NoFD
    OBVIOUS
  <2>2. found \in heap /\ found \in Addrs /\ node[found].key = k
    BY <1>1, <2>1, Found
  <2>3. node[found].s \in OFDs /\ node[found].refcount \in Nat
    BY <1>1, <2>2 DEF Node
  <2> HIDE DEF found
  <2>4. TableS[k] = node[found].s /\ TableRefcount[k] = node[found].refcount
    BY <1>2, <2>2 DEF TableFacts
  <2>5. QED BY <2>2, <2>3, <2>4, NoFDAssumption
<1>5. found = NULL => /\ \A a \in heap : node[a].key # k
                      /\ TableS[k] = NoFD
  <2>1. SUFFICES ASSUME found = NULL
                 PROVE  (\A a \in heap : node[a].key # k) /\ TableS[k] = NoFD
    OBVIOUS
  <2>2. \A a \in heap : node[a].key # k
    BY <1>1, <2>1, Found
  <2>3. QED BY <1>2, <2>2 DEF TableFacts
<1>6. CASE FoundOpen(k)
  <2>1. /\ found # NULL
        /\ node' = [node EXCEPT ![found].refcount = node[found].refcount + 1]
        /\ out' = <<Daemon!CodeMsg("Success"), Daemon!FDMsg(node[found].s)>>
        /\ UNCHANGED <<obdiiSockets, heap, bound>>
    BY <1>6 DEF FoundOpen
  <2> HIDE DEF found
  <2>2. /\ UNCHANGED TableS
        /\ TableRefcount' = [TableRefcount EXCEPT ![node[found].key] = node[found].refcount + 1]
    <3>1. node[found].refcount + 1 \in Nat /\ found \in heap
      BY <1>4, <2>1
    <3>2. QED BY <1>1, <1>2, <1>3, <2>1, <3>1, TableRecount
  <2>3. TableRefcount' = [TableRefcount EXCEPT ![k] = TableRefcount[k] + 1]
    BY <1>4, <2>1, <2>2
  <2>4. Daemon!FoundOpen(k)
    BY <1>4, <2>1, <2>2, <2>3 DEF Daemon!FoundOpen, Daemon!Found
  <2>5. QED BY <2>4 DEF TableStep
<1>7. ASSUME NEW a \in Addrs \ heap, NEW o \in OFDs, openSocketConnection(k, a, o)
      PROVE  TableStep
  <2>1. /\ found = NULL
        /\ heap' = heap \cup {a}
        /\ bound' = [bound EXCEPT ![o] = k]
        /\ out' = <<Daemon!CodeMsg("Success"), Daemon!FDMsg(o)>>
    BY <1>7 DEF openSocketConnection
  <2>2. \A b \in Addrs :
           node'[b] = CASE b = a -> [key |-> k, s |-> o, refcount |-> 1,
                                     prev |-> NULL, next |-> obdiiSockets]
                        [] b # a /\ b = obdiiSockets -> [node[b] EXCEPT !.prev = a]
                        [] OTHER -> node[b]
    BY <1>7 DEF openSocketConnection
  <2>3. /\ node'[a].key = k /\ node'[a].s = o /\ node'[a].refcount = 1
        /\ \A b \in heap : /\ node'[b].key = node[b].key /\ node'[b].s = node[b].s
                           /\ node'[b].refcount = node[b].refcount
    <3>1. node'[a] = [key |-> k, s |-> o, refcount |-> 1, prev |-> NULL, next |-> obdiiSockets]
      BY <2>2
    <3>2. \A b \in Addrs \ {a} : /\ node'[b].key = node[b].key /\ node'[b].s = node[b].s
                                 /\ node'[b].refcount = node[b].refcount
      BY <1>1, <2>2 DEF Node
    <3>3. QED BY <1>1, <3>1, <3>2
  <2>4. TableS'[k] = o /\ TableRefcount'[k] = 1
    BY <1>2, <2>1, <2>3 DEF TableFacts
  <2> HIDE DEF found
  <2>5. /\ TableS' = [TableS EXCEPT ![k] = o]
        /\ TableRefcount' = [TableRefcount EXCEPT ![k] = 1]
    <3>1. \A j \in Keys \ {k} :
             /\ \A b \in heap : node[b].key = j =>
                   b \in heap' /\ node'[b].key = j
                   /\ node'[b].s = node[b].s /\ node'[b].refcount = node[b].refcount
             /\ (\A b \in heap : node[b].key # j) => \A b \in heap' : node'[b].key # j
      BY <2>1, <2>3
    <3>2. QED BY <1>2, <2>4, <3>1, TableOneKey
  <2>6. Daemon!OpenSocketConnection(k, o)
    BY <1>5, <2>1, <2>5 DEF Daemon!OpenSocketConnection, Daemon!Found
  <2>7. QED BY <2>6 DEF TableStep
<1>8. CASE OpenError(k)
  <2>1. /\ found = NULL /\ out' = <<Daemon!CodeMsg("OpenSocketError")>>
        /\ UNCHANGED <<heap, node, bound>>
    BY <1>8 DEF OpenError
  <2> HIDE DEF found
  <2>2. UNCHANGED <<TableS, TableRefcount>>
    BY <1>2, <2>1, TableUnchanged
  <2>3. Daemon!OpenSocketError(k)
    BY <1>5, <2>1, <2>2 DEF Daemon!OpenSocketError, Daemon!Found
  <2>4. QED BY <2>3 DEF TableStep
<1>9. CASE closeSocketConnection(k)
  <2>1. /\ found # NULL
        /\ out' = <<Daemon!CodeMsg("Success")>>
        /\ UNCHANGED bound
        /\ \/ node[found].refcount = 1 /\ Unlink(found)
           \/ /\ node[found].refcount # 1
              /\ node' = [node EXCEPT ![found].refcount = node[found].refcount - 1]
              /\ UNCHANGED heap
    BY <1>9 DEF closeSocketConnection
  <2> HIDE DEF found
  <2>2. /\ TableRefcount' = [TableRefcount EXCEPT ![k] = TableRefcount[k] - 1]
        /\ TableS' = [TableS EXCEPT ![k] = IF TableRefcount[k] = 1 THEN NoFD ELSE TableS[k]]
    <3>1. CASE node[found].refcount = 1 /\ Unlink(found)
      <4>1. heap' = heap \ {found}
        BY <3>1 DEF Unlink
      <4>2. \A b \in heap : /\ node'[b].key = node[b].key /\ node'[b].s = node[b].s
                            /\ node'[b].refcount = node[b].refcount
        BY <1>1, <3>1 DEF Unlink, Node
      <4>3. \A b \in heap' : node'[b].key # k
        BY <1>3, <1>4, <2>1, <4>1, <4>2 DEF KeysApart
      <4>4. TableS'[k] = NoFD /\ TableRefcount'[k] = 0
        BY <1>2, <4>3 DEF TableFacts
      <4>5. \A j \in Keys \ {k} :
               /\ \A b \in heap : node[b].key = j =>
                     b \in heap' /\ node'[b].key = j
                     /\ node'[b].s = node[b].s /\ node'[b].refcount = node[b].refcount
               /\ (\A b \in heap : node[b].key # j) => \A b \in heap' : node'[b].key # j
        BY <1>4, <2>1, <4>1, <4>2
      <4>6. /\ TableS' = [TableS EXCEPT ![k] = NoFD]
            /\ TableRefcount' = [TableRefcount EXCEPT ![k] = 0]
        BY <1>2, <4>4, <4>5, TableOneKey
      <4>7. TableRefcount[k] = 1 /\ TableRefcount[k] - 1 = 0
        BY <1>4, <2>1, <3>1
      <4>8. QED BY <4>6, <4>7
    <3>2. CASE /\ node[found].refcount # 1
               /\ node' = [node EXCEPT ![found].refcount = node[found].refcount - 1]
               /\ UNCHANGED heap
      <4>1. found \in heap /\ node[found].refcount > 0 /\ node[found].refcount \in Nat
        BY <1>1, <1>4, <2>1, Counted
      <4>2. node[found].refcount - 1 \in Nat
        BY <4>1
      <4>3. /\ UNCHANGED TableS
            /\ TableRefcount' = [TableRefcount EXCEPT ![node[found].key] = node[found].refcount - 1]
        BY <1>1, <1>2, <1>3, <3>2, <4>1, <4>2, TableRecount
      <4>4. TableS' = [TableS EXCEPT ![k] = TableS[k]]
        BY <1>2, <4>3 DEF TableFacts
      <4>5. QED BY <1>4, <2>1, <3>2, <4>3, <4>4
    <3>3. QED BY <2>1, <3>1, <3>2
  <2>3. Daemon!CloseSocketConnection(k)
    BY <1>4, <2>1, <2>2 DEF Daemon!CloseSocketConnection, Daemon!Found
  <2>4. QED BY <2>3 DEF TableStep
<1>10. CASE NoSuchSocket(k)
  <2>1. /\ found = NULL /\ out' = <<Daemon!CodeMsg("NoSuchSocket")>>
        /\ UNCHANGED <<heap, node, bound>>
    BY <1>10 DEF NoSuchSocket
  <2> HIDE DEF found
  <2>2. UNCHANGED <<TableS, TableRefcount>>
    BY <1>2, <2>1, TableUnchanged
  <2>3. Daemon!NoSuchSocket(k)
    BY <1>5, <2>1, <2>2 DEF Daemon!NoSuchSocket, Daemon!Found
  <2>4. QED BY <2>3 DEF TableStep
<1>11. QED BY <1>6, <1>7, <1>8, <1>9, <1>10

(***************************************************************************)
(* The list of pointers implements the table the other modules reason      *)
(* about: every request changes the entry of its key, and is answered, as  *)
(* OBDIIDaemon says, whatever was opened and closed before.                *)
(***************************************************************************)
THEOREM TableTheorem == Spec => ImplementsTable
<1>1. ListIInv /\ ListIInv' /\ [Next]_vars
         => [TableStep]_<<TableS, TableRefcount, bound, out>>
  <2> SUFFICES ASSUME ListIInv, ListIInv', [Next]_vars
               PROVE  [TableStep]_<<TableS, TableRefcount, bound, out>>
    OBVIOUS
  <2>1. CASE Next
    BY <2>1, RequestStep
  <2>2. CASE UNCHANGED vars
    <3>1. UNCHANGED <<TableS, TableRefcount>>
      BY <2>2, Table, TableNext, TableUnchanged DEF vars
    <3>2. QED BY <2>2, <3>1 DEF vars
  <2>3. QED BY <2>1, <2>2
<1>2. Spec => []ListIInv
  BY RowTheorem, PTL DEF ListIInv
<1>3. QED BY <1>1, <1>2, PTL DEF Spec, ImplementsTable, TableStep
===============================================================================
