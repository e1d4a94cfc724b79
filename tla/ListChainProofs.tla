--------------------------- MODULE ListChainProofs --------------------------
(* What the handlers of a dlinked_list do to the sequence it holds: its    *)
(* nodes are a row threaded from head by next, and back by prev, and each  *)
(* handler links one in, takes one out or turns the row round. Where the   *)
(* tail is wrong a handler leaves a wrong link or is undefined.            *)
EXTENDS ListImpls, FiniteSetTheorems, DataLemmas, TLAPS

-----------------------------------------------------------------------------
(* The sequences the classes hold.                                         *)

(* A loop ends at the first position where it stops, or behind the end.    *)
LEMMA ScanFirst ==
  ASSUME NEW S, NEW s \in Seq(S), NEW stops \in SUBSET (1..Len(s))
  PROVE  /\ Scan(s, stops) \in 1..(Len(s) + 1)
         /\ Scan(s, stops) <= Len(s) => Scan(s, stops) \in stops
         /\ \A j \in stops : Scan(s, stops) <= j
<1> DEFINE T == stops \cup {Len(s) + 1}
           c == Scan(s, stops)
<1>0. Len(s) \in Nat
  OBVIOUS
<1>1. T \in SUBSET Nat /\ T # {}
  <2>1. \A i \in stops : i \in Nat
    BY <1>0
  <2>2. \A i \in T : i \in Nat
    BY <1>0, <2>1
  <2>3. T # {}
    OBVIOUS
  <2> HIDE DEF T
  <2> QED BY <2>2, <2>3
<1>2. \E i \in T : \A j \in T : i <= j
  <2> HIDE DEF T
  <2> QED BY <1>1, SmallestExists
<1>3. c \in T /\ \A j \in T : c <= j
  BY <1>2 DEF Scan
<1>4. c \in stops \/ c = Len(s) + 1
  BY <1>3
<1> HIDE DEF c
<1>5. c \in 1..(Len(s) + 1) /\ (c <= Len(s) => c \in stops) /\ \A j \in stops : c <= j
  BY <1>0, <1>3, <1>4
<1> QED BY <1>5 DEF c

(* What stops first is where the loop ends.                                *)
LEMMA ScanIs ==
  ASSUME NEW S, NEW s \in Seq(S), NEW stops \in SUBSET (1..Len(s)),
         NEW i \in 1..(Len(s) + 1),
         i <= Len(s) => i \in stops, \A j \in stops : i <= j
  PROVE  Scan(s, stops) = i
<1>1. /\ Scan(s, stops) \in 1..(Len(s) + 1)
      /\ Scan(s, stops) <= Len(s) => Scan(s, stops) \in stops
      /\ \A j \in stops : Scan(s, stops) <= j
  BY ScanFirst
<1> DEFINE c == Scan(s, stops)
<1> HIDE DEF c
<1>2. Len(s) \in Nat /\ c \in 1..(Len(s) + 1) /\ (c <= Len(s) => c \in stops) /\ \A j \in stops : c <= j
  BY <1>1 DEF c
<1>3. c = i
  <2>1. CASE i <= Len(s) /\ c <= Len(s)
    BY <1>2, <2>1
  <2>2. CASE i = Len(s) + 1
    BY <1>2, <2>2
  <2>3. CASE c = Len(s) + 1
    BY <1>2, <2>3
  <2> QED BY <1>2, <2>1, <2>2, <2>3
<1> QED BY <1>3 DEF c

(* An object comes in as the k-th: those from there on move up by one.     *)
LEMMA SpliceElements ==
  ASSUME NEW S, NEW s \in Seq(S), NEW k \in 1..(Len(s) + 1), NEW x \in S
  PROVE  /\ Splice(s, k, x) \in Seq(S)
         /\ Len(Splice(s, k, x)) = Len(s) + 1
         /\ \A j \in 1..(Len(s) + 1) :
              Splice(s, k, x)[j] = IF j < k THEN s[j] ELSE IF j = k THEN x ELSE s[j - 1]
<1>1. Splice(s, k, x) = InsertAt(s, k, x)
  BY DEF Splice, InsertAt
<1> QED BY <1>1, InsertAtElements

(* The k-th object leaves: those above it move down by one.                *)
LEMMA WithoutElements ==
  ASSUME NEW S, NEW s \in Seq(S), NEW k \in 1..Len(s)
  PROVE  /\ Without(s, k) \in Seq(S)
         /\ Len(Without(s, k)) = Len(s) - 1
         /\ \A j \in 1..(Len(s) - 1) : Without(s, k)[j] = IF j < k THEN s[j] ELSE s[j + 1]
<1>1. Without(s, k) = RemoveAt(s, k)
  BY DEF Without, RemoveAt
<1> QED BY <1>1, RemoveAtElements

(* A list turned round.                                                     *)
LEMMA BackwardsElements ==
  ASSUME NEW S, NEW s \in Seq(S)
  PROVE  /\ Backwards(s) \in Seq(S)
         /\ Len(Backwards(s)) = Len(s)
         /\ \A j \in 1..Len(s) : Backwards(s)[j] = s[Len(s) + 1 - j]
<1>1. Len(s) \in Nat /\ \A j \in 1..Len(s) : Len(s) + 1 - j \in 1..Len(s)
  OBVIOUS
<1> QED BY <1>1 DEF Backwards

(* Objects behind the last: NULLs to an index beyond it, and the object.   *)
LEMMA PaddedElements ==
  ASSUME NEW S, NEW s \in Seq(S), Null \in S, NEW x \in S, NEW n \in Nat
  PROVE  LET t == s \o Nulls(n) \o <<x>> IN
         /\ t \in Seq(S)
         /\ Len(t) = Len(s) + n + 1
         /\ \A j \in 1..(Len(s) + n + 1) :
              t[j] = IF j <= Len(s) THEN s[j] ELSE IF j <= Len(s) + n THEN Null ELSE x
<1> DEFINE p == Nulls(n)
           sp == s \o p
           one == <<x>>
<1>1. p \in Seq(S) /\ Len(p) = n /\ \A j \in 1..n : p[j] = Null
  BY DEF Nulls
<1>2. one \in Seq(S) /\ Len(one) = 1 /\ one[1] = x
  OBVIOUS
<1>3. Len(s) \in Nat
  OBVIOUS
<1> HIDE DEF p, one
<1>4. /\ sp \in Seq(S) /\ Len(sp) = Len(s) + Len(p)
      /\ \A j \in 1..(Len(s) + Len(p)) : sp[j] = IF j <= Len(s) THEN s[j] ELSE p[j - Len(s)]
  BY <1>1, ConcatProperties
<1> HIDE DEF sp
<1>9. sp \in Seq(S) /\ one \in Seq(S)
  BY <1>2, <1>4
<1>5. /\ sp \o one \in Seq(S) /\ Len(sp \o one) = Len(sp) + Len(one)
      /\ \A j \in 1..(Len(sp) + Len(one)) :
           (sp \o one)[j] = IF j <= Len(sp) THEN sp[j] ELSE one[j - Len(sp)]
  BY <1>9, ConcatProperties
<1>6. Len(sp) = Len(s) + n /\ Len(sp) + Len(one) = Len(s) + n + 1
  BY <1>1, <1>2, <1>3, <1>4
<1>7. ASSUME NEW j \in 1..(Len(s) + n + 1)
      PROVE  (sp \o one)[j] = IF j <= Len(s) THEN s[j] ELSE IF j <= Len(s) + n THEN Null ELSE x
  <2>1. (sp \o one)[j] = IF j <= Len(sp) THEN sp[j] ELSE one[j - Len(sp)]
    BY <1>5, <1>6
  <2>2. CASE j <= Len(s)
    BY <1>1, <1>3, <1>4, <1>6, <2>1, <2>2
  <2>3. CASE j > Len(s) /\ j <= Len(s) + n
    <3>1. (sp \o one)[j] = p[j - Len(s)]
      BY <1>1, <1>3, <1>4, <1>6, <2>1, <2>3
    <3>2. j - Len(s) \in 1..n
      BY <1>3, <2>3
    <3> QED BY <1>1, <1>3, <2>3, <3>1, <3>2
  <2>4. CASE j = Len(s) + n + 1
    <3>1. j - Len(sp) = 1 /\ ~(j <= Len(sp)) /\ ~(j <= Len(s)) /\ ~(j <= Len(s) + n)
      BY <1>3, <1>6, <2>4
    <3>2. (sp \o one)[j] = one[1]
      BY <2>1, <3>1
    <3> QED BY <1>2, <3>1, <3>2
  <2>5. \/ j <= Len(s)
        \/ j > Len(s) /\ j <= Len(s) + n
        \/ j = Len(s) + n + 1
    BY <1>3
  <2> QED BY <2>2, <2>3, <2>4, <2>5
<1>8. s \o Nulls(n) \o <<x>> = sp \o one
  BY DEF sp, p, one
<1> QED BY <1>5, <1>6, <1>7, <1>8

-----------------------------------------------------------------------------
(* Walks along the links.                                                  *)

(* Distinct nodes are no more than there are.                              *)
LEMMA NodesCounted ==
  ASSUME NEW nodes \in Seq(Node),
         \A i, j \in 1..Len(nodes) : nodes[i] = nodes[j] => i = j,
         NEW T, T = {nodes[i] : i \in 1..Len(nodes)}
  PROVE  /\ Cardinality(Node) \in Nat
         /\ IsFiniteSet(T) /\ Cardinality(T) = Len(nodes)
         /\ Len(nodes) <= Cardinality(Node)
<1> DEFINE n == Len(nodes)
           f == [i \in 1..n |-> nodes[i]]
<1>1. n \in Nat /\ T \subseteq Node
  OBVIOUS
<1>2. IsFiniteSet(1..n) /\ Cardinality(1..n) = n
  <2>1. 1 \in Int /\ n \in Int
    BY <1>1
  <2> HIDE DEF n
  <2>2. IsFiniteSet(1..n) /\ Cardinality(1..n) = IF 1 > n THEN 0 ELSE n - 1 + 1
    BY <2>1, FS_Interval
  <2> QED BY <1>1, <2>2
<1>3. f \in Bijection(1..n, T)
  <2>1. f \in [1..n -> T] /\ \A t \in T : \E i \in 1..n : f[i] = t
    OBVIOUS
  <2>2. \A i, j \in 1..n : f[i] = f[j] => i = j
    OBVIOUS
  <2> QED BY <2>1, <2>2 DEF Bijection, Injection, Surjection, IsInjective
<1> HIDE DEF n, f
<1>4. ExistsBijection(1..n, T)
  BY <1>3 DEF ExistsBijection
<1>5. IsFiniteSet(T) /\ Cardinality(T) = n
  BY <1>2, <1>4, FS_Bijection
<1>6. IsFiniteSet(Node)
  BY NodeAssumption
<1>7. Cardinality(Node) \in Nat /\ Cardinality(T) <= Cardinality(Node)
  BY <1>1, <1>6, FS_CardinalityType, FS_Subset
<1> QED BY <1>5, <1>7 DEF n

(* A walk that steps through these nodes and then to NULL meets just them. *)
LEMMA WalkMeets ==
  ASSUME NEW nodes \in Seq(Node), NEW link, NEW start,
         \A i, j \in 1..Len(nodes) : nodes[i] = nodes[j] => i = j,
         start = IF Len(nodes) = 0 THEN NULL ELSE nodes[1],
         \A i \in 1..Len(nodes) : link[nodes[i]] = IF i < Len(nodes) THEN nodes[i + 1] ELSE NULL
  PROVE  Chain(link, start) = nodes
<1> DEFINE n == Len(nodes)
           N == Cardinality(Node)
           Step(at, i) == IF i = 0 THEN start
                          ELSE IF at[i - 1] \in Node THEN link[at[i - 1]] ELSE NULL
           met == [i \in 0..N |-> IF i < n THEN nodes[i + 1] ELSE NULL]
           at == CHOOSE at : at = [i \in 0..N |->
                   IF i = 0 THEN start
                   ELSE IF at[i - 1] \in Node THEN link[at[i - 1]] ELSE NULL]
<1>1. n \in Nat /\ N \in Nat /\ n <= N /\ NULL \notin Node
  <2> DEFINE T == {nodes[i] : i \in 1..Len(nodes)}
  <2>1. T = {nodes[i] : i \in 1..Len(nodes)}
    OBVIOUS
  <2> HIDE DEF T
  <2>2. Cardinality(Node) \in Nat /\ Len(nodes) <= Cardinality(Node)
    BY <2>1, NodesCounted
  <2> QED BY <2>2, NodeAssumption
<1>2. \A i \in 1..n : nodes[i] \in Node
  OBVIOUS
<1>12. ASSUME NEW i \in 0..N
       PROVE  met[i] = IF i = 0 THEN start
                       ELSE IF met[i - 1] \in Node THEN link[met[i - 1]] ELSE NULL
  <2>1. CASE i = 0
    BY <2>1, <1>1
  <2>2. CASE i > 0 /\ i - 1 < n
    <3>1. i - 1 \in 0..N /\ i \in 1..n /\ (i - 1) + 1 = i
      BY <2>2, <1>1
    <3>2. met[i - 1] = nodes[i]
      BY <3>1, <2>2
    <3> HIDE DEF n
    <3> QED BY <1>1, <1>2, <3>1, <3>2, <2>2 DEF n
  <2>3. CASE i > 0 /\ ~(i - 1 < n)
    <3>1. i - 1 \in 0..N /\ ~(i < n)
      BY <2>3, <1>1
    <3> QED BY <1>1, <2>3, <3>1
  <2> QED BY <2>1, <2>2, <2>3
<1>3. met = [i \in 0..N |-> IF i = 0 THEN start
                            ELSE IF met[i - 1] \in Node THEN link[met[i - 1]] ELSE NULL]
  BY <1>12, Zenon
<1>4. at = [i \in 0..N |-> IF i = 0 THEN start
                           ELSE IF at[i - 1] \in Node THEN link[at[i - 1]] ELSE NULL]
  <2> HIDE DEF met
  <2> QED BY <1>3
<1> HIDE DEF at
<1>5. DOMAIN at = 0..N /\ at[0] = start
      /\ \A i \in 0..N : i > 0 => at[i] = IF at[i - 1] \in Node THEN link[at[i - 1]] ELSE NULL
  BY <1>1, <1>4
<1>6. \A i \in 0..N : at[i] = met[i]
  <2> DEFINE bad == {i \in 0..N : at[i] # met[i]}
  <2>1. ASSUME bad # {}
        PROVE  FALSE
    <3>1. bad \in SUBSET Nat
      BY <1>1
    <3>2. PICK x \in bad : \A y \in bad : x <= y
      <4> HIDE DEF bad
      <4> QED BY <2>1, <3>1, SmallestExists
    <3>3. x \in 0..N /\ at[x] # met[x]
      BY <3>2
    <3>4. CASE x = 0
      BY <1>1, <1>5, <3>3, <3>4
    <3>5. CASE x > 0
      <4>1. x - 1 \in 0..N /\ x - 1 < x
        BY <1>1, <3>3, <3>5
      <4>2. at[x - 1] = met[x - 1]
        BY <3>2, <4>1
      <4>3. at[x] = IF at[x - 1] \in Node THEN link[at[x - 1]] ELSE NULL
        BY <1>5, <3>3, <3>5
      <4>4. met[x] = IF met[x - 1] \in Node THEN link[met[x - 1]] ELSE NULL
        <5> HIDE DEF met
        <5> QED BY <1>12, <3>3, <3>5
      <4> QED BY <3>3, <4>2, <4>3, <4>4
    <3> QED BY <3>3, <3>4, <3>5, <1>1
  <2> QED BY <2>1
<1>7. {j \in DOMAIN at : at[j] # NULL} = 0..(n - 1)
  <2>1. \A j \in 0..N : at[j] # NULL <=> j < n
    <3> TAKE j \in 0..N
    <3>1. j < n => nodes[j + 1] \in Node
      BY <1>1, <1>2
    <3> QED BY <1>1, <1>6, <3>1
  <2>2. \A j : j \in 0..(n - 1) <=> j \in 0..N /\ j < n
    <3> HIDE DEF n, N
    <3> QED BY <1>1
  <2> HIDE DEF n, N
  <2> QED BY <1>5, <2>1, <2>2
<1>8. Cardinality(0..(n - 1)) = n
  <2>1. 0 \in Int /\ n - 1 \in Int
    BY <1>1
  <2>2. Cardinality(0..(n - 1)) = IF 0 > n - 1 THEN 0 ELSE n - 1 - 0 + 1
    <3> HIDE DEF n
    <3> QED BY <2>1, FS_Interval
  <2> QED BY <1>1, <2>2
<1>9. Chain(link, start) = [i \in 1..n |-> at[i - 1]]
  <2>1. Chain(link, start) = [i \in 1..Cardinality({j \in DOMAIN at : at[j] # NULL}) |-> at[i - 1]]
    BY DEF Chain, at
  <2> HIDE DEF n
  <2> QED BY <1>7, <1>8, <2>1
<1>10. nodes = [i \in 1..n |-> nodes[i]]
  OBVIOUS
<1>11. \A i \in 1..n : at[i - 1] = nodes[i]
  <2> TAKE i \in 1..n
  <2>1. i - 1 \in 0..N /\ i - 1 < n /\ (i - 1) + 1 = i
    BY <1>1
  <2> QED BY <1>6, <2>1
<1> HIDE DEF n
<1> QED BY <1>9, <1>10, <1>11

-----------------------------------------------------------------------------
(* No node is in a row twice.                                              *)
Distinct(nodes) == \A i, j \in 1..Len(nodes) : nodes[i] = nodes[j] => i = j

(* A row of nodes: those allocated, threaded from head by next ...         *)
Row(nodes, u, h, nx) ==
  /\ nodes \in Seq(Node)
  /\ Distinct(nodes)
  /\ u = {nodes[i] : i \in 1..Len(nodes)}
  /\ h = IF Len(nodes) = 0 THEN NULL ELSE nodes[1]
  /\ \A i \in 1..Len(nodes) : nx[nodes[i]] = IF i < Len(nodes) THEN nodes[i + 1] ELSE NULL

(* ... and back by prev.                                                   *)
Back(nodes, pv) ==
  \A i \in 1..Len(nodes) : pv[nodes[i]] = IF i > 1 THEN nodes[i - 1] ELSE NULL

(* What they hold.                                                         *)
Holding(nodes, d, s) == Len(nodes) = Len(s) /\ \A i \in 1..Len(nodes) : d[nodes[i]] = s[i]

(* The nodes of a row are those allocated, and none of them is NULL.        *)
LEMMA RowTyped ==
  ASSUME NEW nodes, NEW u, NEW h, NEW nx, Row(nodes, u, h, nx)
  PROVE  /\ Len(nodes) \in Nat
         /\ \A i \in 1..Len(nodes) : nodes[i] \in Node /\ nodes[i] \in u /\ nodes[i] # NULL
         /\ \A m \in u : \E i \in 1..Len(nodes) : m = nodes[i]
         /\ u \subseteq Node
         /\ h \in u \cup {NULL}
         /\ h = NULL <=> Len(nodes) = 0
<1>0. nodes \in Seq(Node) /\ NULL \notin Node
  BY NodeAssumption DEF Row
<1>1. Len(nodes) \in Nat /\ \A i \in 1..Len(nodes) : nodes[i] \in Node
  BY <1>0
<1>2. u = {nodes[i] : i \in 1..Len(nodes)}
  BY DEF Row
<1>3. h = IF Len(nodes) = 0 THEN NULL ELSE nodes[1]
  BY DEF Row
<1>4. Len(nodes) # 0 => 1 \in 1..Len(nodes)
  BY <1>1
<1> QED BY <1>0, <1>1, <1>2, <1>3, <1>4

(* The walk from head meets the row.                                       *)
LEMMA RowIsForward ==
  ASSUME NEW nodes, Row(nodes, used, head, next)
  PROVE  Forward = nodes
<1>1. /\ nodes \in Seq(Node)
      /\ \A i, j \in 1..Len(nodes) : nodes[i] = nodes[j] => i = j
      /\ head = IF Len(nodes) = 0 THEN NULL ELSE nodes[1]
      /\ \A i \in 1..Len(nodes) : next[nodes[i]] = IF i < Len(nodes) THEN nodes[i + 1] ELSE NULL
  BY DEF Row, Distinct
<1>2. Chain(next, head) = nodes
  BY <1>1, WalkMeets
<1> QED BY <1>2 DEF Forward

(* A fresh node linked in as the k-th.                                     *)
PutIn(nodes, u, h, nx, item, k, u2, h2, nx2) ==
  /\ Row(nodes, u, h, nx)
  /\ item \in Node /\ item \notin u /\ k \in 1..(Len(nodes) + 1)
  /\ h2 = IF k = 1 THEN item ELSE h
  /\ u2 = u \cup {item}
  /\ nx2[item] = IF k <= Len(nodes) THEN nodes[k] ELSE NULL
  /\ k > 1 => nx2[nodes[k - 1]] = item
  /\ \A i \in 1..Len(nodes) : i # k - 1 => nx2[nodes[i]] = nx[nodes[i]]

(* With a fresh node linked in the nodes are a row again.                   *)
LEMMA RowLinkIn ==
  ASSUME NEW nodes, NEW u, NEW h, NEW nx, NEW item, NEW k, NEW u2, NEW h2, NEW nx2,
         PutIn(nodes, u, h, nx, item, k, u2, h2, nx2)
  PROVE  Row(Splice(nodes, k, item), u2, h2, nx2)
<1>a. /\ Row(nodes, u, h, nx)
      /\ item \in Node /\ item \notin u /\ k \in 1..(Len(nodes) + 1)
      /\ h2 = IF k = 1 THEN item ELSE h
      /\ u2 = u \cup {item}
      /\ nx2[item] = IF k <= Len(nodes) THEN nodes[k] ELSE NULL
      /\ k > 1 => nx2[nodes[k - 1]] = item
      /\ \A i \in 1..Len(nodes) : i # k - 1 => nx2[nodes[i]] = nx[nodes[i]]
  BY DEF PutIn
<1> USE <1>a
<1> DEFINE n == Len(nodes)
           t == Splice(nodes, k, item)
<1>1. nodes \in Seq(Node) /\ Distinct(nodes) /\ n \in Nat
      /\ \A i \in 1..n : nodes[i] \in Node /\ nodes[i] \in u
  BY RowTyped DEF Row
<1>2. /\ t \in Seq(Node) /\ Len(t) = n + 1
      /\ \A j \in 1..(n + 1) : t[j] = IF j < k THEN nodes[j] ELSE IF j = k THEN item ELSE nodes[j - 1]
  BY <1>1, SpliceElements
<1>3. k \in Nat /\ k >= 1 /\ k <= n + 1
  BY <1>1
<1> HIDE DEF t
<1>4. \A j \in 1..(n + 1) : /\ j < k => t[j] = nodes[j] /\ j \in 1..n
                            /\ j = k => t[j] = item
                            /\ j > k => t[j] = nodes[j - 1] /\ j - 1 \in 1..n
  BY <1>1, <1>2, <1>3
<1>5. Distinct(t)
  <2> SUFFICES ASSUME NEW i \in 1..(n + 1), NEW j \in 1..(n + 1), t[i] = t[j]
               PROVE  i = j
    BY <1>2 DEF Distinct
  <2>0. \A a, b \in 1..n : nodes[a] = nodes[b] => a = b
    BY <1>1 DEF Distinct
  <2>1. \A a \in 1..n : nodes[a] # item
    BY <1>1
  <2>2. CASE i = k
    BY <1>3, <1>4, <2>1, <2>2
  <2>3. CASE j = k
    BY <1>3, <1>4, <2>1, <2>3
  <2>4. CASE i < k /\ j < k
    BY <1>4, <2>0, <2>4
  <2>5. CASE i > k /\ j > k
    <3>1. i - 1 = j - 1
      BY <1>4, <2>0, <2>5
    <3> QED BY <3>1
  <2>6. CASE i < k /\ j > k
    <3>1. i = j - 1
      BY <1>4, <2>0, <2>6
    <3> QED BY <3>1, <2>6, <1>3
  <2>7. CASE i > k /\ j < k
    <3>1. i - 1 = j
      BY <1>4, <2>0, <2>7
    <3> QED BY <3>1, <2>7, <1>3
  <2> QED BY <1>3, <2>2, <2>3, <2>4, <2>5, <2>6, <2>7
<1>6. u2 = {t[i] : i \in 1..Len(t)}
  <2>1. u = {nodes[i] : i \in 1..n}
    BY DEF Row
  <2>2. \A m \in u2 : \E i \in 1..(n + 1) : m = t[i]
    <3> TAKE m \in u2
    <3>1. CASE m = item
      BY <3>1, <1>3, <1>4
    <3>2. CASE m # item
      <4>1. PICK i \in 1..n : m = nodes[i]
        BY <3>2, <2>1
      <4>2. CASE i < k
        BY <4>1, <4>2, <1>1, <1>4
      <4>3. CASE i >= k
        <5>1. i + 1 \in 1..(n + 1) /\ i + 1 > k /\ (i + 1) - 1 = i
          BY <4>1, <4>3, <1>1, <1>3
        <5>2. t[i + 1] = nodes[i]
          BY <5>1, <1>4
        <5> QED BY <4>1, <5>1, <5>2
      <4> QED BY <4>2, <4>3, <1>3, <4>1
    <3> QED BY <3>1, <3>2
  <2>3. \A i \in 1..(n + 1) : t[i] \in u2
    <3> TAKE i \in 1..(n + 1)
    <3>1. i < k \/ i = k \/ i > k
      BY <1>3
    <3> QED BY <3>1, <1>1, <1>4
  <2> QED BY <2>2, <2>3, <1>2
<1>7. h2 = IF Len(t) = 0 THEN NULL ELSE t[1]
  <2>1. h = IF n = 0 THEN NULL ELSE nodes[1]
    BY DEF Row
  <2>2. Len(t) # 0 /\ 1 \in 1..(n + 1)
    BY <1>1, <1>2
  <2>3. CASE k = 1
    BY <2>2, <2>3, <1>4
  <2>4. CASE k > 1
    BY <2>1, <2>2, <2>4, <1>3, <1>4
  <2> QED BY <1>3, <2>3, <2>4
<1>8. ASSUME NEW i \in 1..(n + 1)
      PROVE  nx2[t[i]] = IF i < n + 1 THEN t[i + 1] ELSE NULL
  <2>0. \A j \in 1..n : nx[nodes[j]] = IF j < n THEN nodes[j + 1] ELSE NULL
    BY DEF Row
  <2>1. CASE i < k - 1
    <3>1. i \in 1..n /\ i # k - 1 /\ i < n /\ i + 1 \in 1..(n + 1) /\ i + 1 < k /\ i < k
      BY <1>1, <1>3, <2>1
    <3>2. t[i] = nodes[i] /\ t[i + 1] = nodes[i + 1]
      BY <1>4, <3>1
    <3>3. nx2[nodes[i]] = nodes[i + 1]
      BY <2>0, <3>1
    <3> QED BY <3>1, <3>2, <3>3, <1>1
  <2>2. CASE i = k - 1
    <3>1. i < k /\ i < n + 1 /\ i + 1 = k /\ k > 1 /\ i + 1 \in 1..(n + 1)
      BY <1>1, <1>3, <2>2
    <3>2. t[i] = nodes[k - 1] /\ t[i + 1] = item
      BY <1>4, <2>2, <3>1
    <3> QED BY <3>1, <3>2
  <2>3. CASE i = k
    <3>1. t[i] = item
      BY <1>4, <2>3
    <3>2. CASE k <= n
      <4>1. i + 1 \in 1..(n + 1) /\ i + 1 > k /\ (i + 1) - 1 = k /\ i < n + 1
        BY <1>1, <1>3, <2>3, <3>2
      <4>2. t[i + 1] = nodes[k]
        BY <1>4, <4>1
      <4> QED BY <3>1, <3>2, <4>1, <4>2
    <3>3. CASE ~(k <= n)
      <4>1. ~(i < n + 1)
        BY <1>1, <1>3, <2>3, <3>3
      <4> QED BY <3>1, <3>3, <4>1
    <3> QED BY <3>2, <3>3
  <2>4. CASE i > k
    <3>1. t[i] = nodes[i - 1] /\ i - 1 \in 1..n /\ i - 1 # k - 1
      BY <1>3, <1>4, <2>4
    <3>2. nx2[nodes[i - 1]] = IF i - 1 < n THEN nodes[(i - 1) + 1] ELSE NULL
      BY <2>0, <3>1
    <3>3. CASE i < n + 1
      <4>1. i + 1 \in 1..(n + 1) /\ i + 1 > k /\ (i + 1) - 1 = i /\ (i - 1) + 1 = i /\ i - 1 < n
        BY <1>1, <1>3, <2>4, <3>3
      <4>2. t[i + 1] = nodes[i]
        BY <1>4, <4>1
      <4> QED BY <3>1, <3>2, <3>3, <4>1, <4>2
    <3>4. CASE ~(i < n + 1)
      <4>1. ~(i - 1 < n)
        BY <1>1, <3>4
      <4> QED BY <3>1, <3>2, <3>4, <4>1
    <3> QED BY <3>3, <3>4
  <2> QED BY <1>3, <2>1, <2>2, <2>3, <2>4
<1>9. \A i \in 1..Len(t) : nx2[t[i]] = IF i < Len(t) THEN t[i + 1] ELSE NULL
  BY <1>2, <1>8
<1> QED BY <1>2, <1>5, <1>6, <1>7, <1>9 DEF Row, t

(* So are the links back when the neighbours were told,                     *)
LEMMA BackLinkIn ==
  ASSUME NEW nodes \in Seq(Node), NEW pv, Back(nodes, pv),
         NEW item \in Node, NEW k \in 1..(Len(nodes) + 1),
         NEW pv2,
         pv2[item] = IF k > 1 THEN nodes[k - 1] ELSE NULL,
         k <= Len(nodes) => pv2[nodes[k]] = item,
         \A i \in 1..Len(nodes) : i # k => pv2[nodes[i]] = pv[nodes[i]]
  PROVE  Back(Splice(nodes, k, item), pv2)
<1> DEFINE n == Len(nodes)
           t == Splice(nodes, k, item)
<1>1. n \in Nat /\ k \in Nat /\ k >= 1 /\ k <= n + 1
  OBVIOUS
<1>2. /\ Len(t) = n + 1
      /\ \A j \in 1..(n + 1) : t[j] = IF j < k THEN nodes[j] ELSE IF j = k THEN item ELSE nodes[j - 1]
  <2>1. /\ Len(Splice(nodes, k, item)) = Len(nodes) + 1
        /\ \A j \in 1..(Len(nodes) + 1) :
             Splice(nodes, k, item)[j] = IF j < k THEN nodes[j] ELSE IF j = k THEN item ELSE nodes[j - 1]
    BY SpliceElements
  <2> QED BY <2>1
<1> HIDE DEF t
<1>3. \A j \in 1..(n + 1) : /\ j < k => t[j] = nodes[j] /\ j \in 1..n
                            /\ j = k => t[j] = item
                            /\ j > k => t[j] = nodes[j - 1] /\ j - 1 \in 1..n
  BY <1>1, <1>2
<1>4. \A j \in 1..n : pv[nodes[j]] = IF j > 1 THEN nodes[j - 1] ELSE NULL
  BY DEF Back
<1>5. ASSUME NEW i \in 1..(n + 1)
      PROVE  pv2[t[i]] = IF i > 1 THEN t[i - 1] ELSE NULL
  <2>1. CASE i < k
    <3>1. t[i] = nodes[i] /\ i \in 1..n /\ i # k
      BY <1>3, <2>1
    <3>2. i > 1 => t[i - 1] = nodes[i - 1]
      <4>1. i > 1 => i - 1 \in 1..(n + 1) /\ i - 1 < k
        BY <1>1, <2>1
      <4> QED BY <4>1, <1>3
    <3> QED BY <1>4, <3>1, <3>2
  <2>2. CASE i = k
    <3>1. i > 1 => t[i - 1] = nodes[i - 1]
      <4>1. i > 1 => i - 1 \in 1..(n + 1) /\ i - 1 < k
        BY <1>1, <2>2
      <4> QED BY <4>1, <1>3
    <3> QED BY <1>3, <2>2, <3>1
  <2>3. CASE i > k
    <3>1. t[i] = nodes[i - 1] /\ i - 1 \in 1..n /\ i > 1
      BY <1>1, <1>3, <2>3
    <3>2. CASE i - 1 = k
      <4>1. t[i - 1] = item /\ k <= n /\ t[i] = nodes[k]
        BY <1>1, <1>3, <3>1, <3>2
      <4> QED BY <3>1, <3>2, <4>1
    <3>3. CASE i - 1 # k
      <4>1. i - 1 \in 1..(n + 1) /\ i - 1 > k /\ i - 1 > 1 /\ (i - 1) - 1 \in 1..n
        BY <1>1, <2>3, <3>3
      <4>2. t[i - 1] = nodes[(i - 1) - 1]
        BY <1>3, <4>1
      <4>3. pv2[nodes[i - 1]] = nodes[(i - 1) - 1]
        BY <1>4, <3>1, <3>3, <4>1
      <4> QED BY <3>1, <4>2, <4>3
    <3> QED BY <3>2, <3>3
  <2> QED BY <1>1, <2>1, <2>2, <2>3
<1> QED BY <1>2, <1>5 DEF Back, t

(* and they hold what they held, the new object at its place.               *)
LEMMA HoldingLinkIn ==
  ASSUME NEW nodes \in Seq(Node), NEW d, NEW S, NEW s \in Seq(S), Holding(nodes, d, s),
         NEW item \in Node, NEW x \in S, NEW k \in 1..(Len(nodes) + 1),
         NEW d2, d2[item] = x,
         \A i \in 1..Len(nodes) : d2[nodes[i]] = d[nodes[i]]
  PROVE  Holding(Splice(nodes, k, item), d2, Splice(s, k, x))
<1> DEFINE n == Len(nodes)
           t == Splice(nodes, k, item)
           v == Splice(s, k, x)
<1>0. Len(s) = n /\ \A i \in 1..n : d[nodes[i]] = s[i]
  BY DEF Holding
<1>1. n \in Nat /\ k \in Nat /\ k >= 1 /\ k <= n + 1 /\ k \in 1..(Len(s) + 1)
  BY <1>0
<1>2. /\ Len(t) = n + 1
      /\ \A j \in 1..(n + 1) : t[j] = IF j < k THEN nodes[j] ELSE IF j = k THEN item ELSE nodes[j - 1]
  BY SpliceElements
<1>3. /\ Len(v) = n + 1
      /\ \A j \in 1..(n + 1) : v[j] = IF j < k THEN s[j] ELSE IF j = k THEN x ELSE s[j - 1]
  BY <1>0, <1>1, SpliceElements
<1> HIDE DEF t, v
<1>4. ASSUME NEW j \in 1..(n + 1) PROVE d2[t[j]] = v[j]
  <2>1. j < k => j \in 1..n
    BY <1>1
  <2>2. j > k => j - 1 \in 1..n
    BY <1>1
  <2>3. CASE j < k
    BY <2>1, <2>3, <1>0, <1>2, <1>3
  <2>4. CASE j = k
    BY <2>4, <1>2, <1>3
  <2>5. CASE j > k
    <3>1. ~(j < k) /\ j # k
      BY <2>5, <1>1
    <3>2. t[j] = nodes[j - 1] /\ v[j] = s[j - 1]
      BY <3>1, <1>2, <1>3
    <3> QED BY <2>2, <2>5, <3>2, <1>0
  <2> QED BY <2>3, <2>4, <2>5, <1>1
<1> QED BY <1>2, <1>3, <1>4 DEF Holding, t, v

(* The k-th node taken out.                                                *)
TakenOut(nodes, u, h, nx, k, u2, h2, nx2) ==
  /\ Row(nodes, u, h, nx)
  /\ k \in 1..Len(nodes)
  /\ h2 = IF k = 1 THEN nx[nodes[k]] ELSE h
  /\ u2 = u \ {nodes[k]}
  /\ k > 1 => nx2[nodes[k - 1]] = nx[nodes[k]]
  /\ \A i \in 1..Len(nodes) : i # k /\ i # k - 1 => nx2[nodes[i]] = nx[nodes[i]]

(* Without that node the others are a row,                                  *)
LEMMA RowTakeOut ==
  ASSUME NEW nodes, NEW u, NEW h, NEW nx, NEW k, NEW u2, NEW h2, NEW nx2,
         TakenOut(nodes, u, h, nx, k, u2, h2, nx2)
  PROVE  Row(Without(nodes, k), u2, h2, nx2)
<1>a. /\ Row(nodes, u, h, nx)
      /\ k \in 1..Len(nodes)
      /\ h2 = IF k = 1 THEN nx[nodes[k]] ELSE h
      /\ u2 = u \ {nodes[k]}
      /\ k > 1 => nx2[nodes[k - 1]] = nx[nodes[k]]
      /\ \A i \in 1..Len(nodes) : i # k /\ i # k - 1 => nx2[nodes[i]] = nx[nodes[i]]
  BY DEF TakenOut
<1> USE <1>a
<1> DEFINE n == Len(nodes)
           t == Without(nodes, k)
<1>1. nodes \in Seq(Node) /\ n \in Nat /\ \A i, j \in 1..n : nodes[i] = nodes[j] => i = j
  BY RowTyped DEF Row, Distinct
<1>2. /\ t \in Seq(Node) /\ Len(t) = n - 1
      /\ \A j \in 1..(n - 1) : t[j] = IF j < k THEN nodes[j] ELSE nodes[j + 1]
  BY <1>1, WithoutElements
<1>3. k \in Nat /\ k >= 1 /\ k <= n
  BY <1>1
<1> HIDE DEF t
<1>4. \A j \in 1..(n - 1) : /\ j < k => t[j] = nodes[j] /\ j \in 1..n
                            /\ j >= k => t[j] = nodes[j + 1] /\ j + 1 \in 1..n
  BY <1>1, <1>2, <1>3
<1>0. \A j \in 1..n : nx[nodes[j]] = IF j < n THEN nodes[j + 1] ELSE NULL
  BY DEF Row
<1>5. Distinct(t)
  <2> SUFFICES ASSUME NEW i \in 1..(n - 1), NEW j \in 1..(n - 1), t[i] = t[j]
               PROVE  i = j
    BY <1>2 DEF Distinct
  <2>1. CASE i < k /\ j < k
    <3>1. t[i] = nodes[i] /\ t[j] = nodes[j] /\ i \in 1..n /\ j \in 1..n
      BY <1>4, <2>1
    <3> QED BY <1>1, <3>1
  <2>2. CASE i >= k /\ j >= k
    <3>1. i + 1 = j + 1
      BY <1>1, <1>4, <2>2
    <3> QED BY <3>1
  <2>3. CASE i < k /\ j >= k
    <3>1. i = j + 1
      BY <1>1, <1>4, <2>3
    <3> QED BY <3>1, <2>3, <1>3
  <2>4. CASE i >= k /\ j < k
    <3>1. i + 1 = j
      BY <1>1, <1>4, <2>4
    <3> QED BY <3>1, <2>4, <1>3
  <2> QED BY <1>3, <2>1, <2>2, <2>3, <2>4
<1>6. u2 = {t[i] : i \in 1..Len(t)}
  <2>1. u = {nodes[i] : i \in 1..n}
    BY DEF Row
  <2>2. \A m \in u2 : \E i \in 1..(n - 1) : m = t[i]
    <3> TAKE m \in u2
    <3>1. PICK i \in 1..n : m = nodes[i] /\ i # k
      BY <2>1
    <3>2. CASE i < k
      <4>1. i \in 1..(n - 1)
        BY <1>3, <3>2
      <4> QED BY <3>1, <3>2, <4>1, <1>4
    <3>3. CASE i > k
      <4>1. i - 1 \in 1..(n - 1) /\ i - 1 >= k /\ (i - 1) + 1 = i
        BY <1>1, <1>3, <3>3
      <4>2. t[i - 1] = nodes[i]
        BY <4>1, <1>4
      <4> QED BY <3>1, <4>1, <4>2
    <3> QED BY <1>3, <3>1, <3>2, <3>3
  <2>3. \A i \in 1..(n - 1) : t[i] \in u2
    <3> TAKE i \in 1..(n - 1)
    <3>1. CASE i < k
      BY <3>1, <2>1, <1>1, <1>3, <1>4
    <3>2. CASE i >= k
      <4>1. t[i] = nodes[i + 1] /\ i + 1 \in 1..n /\ i + 1 # k
        BY <3>2, <1>3, <1>4
      <4> QED BY <4>1, <2>1, <1>1
    <3> QED BY <3>1, <3>2, <1>3
  <2> QED BY <2>2, <2>3, <1>2
<1>7. h2 = IF Len(t) = 0 THEN NULL ELSE t[1]
  <2>1. h = IF n = 0 THEN NULL ELSE nodes[1]
    BY DEF Row
  <2>2. CASE k = 1
    <3>1. h2 = IF 1 < n THEN nodes[2] ELSE NULL
      BY <1>0, <2>2
    <3>2. 1 < n => 1 \in 1..(n - 1) /\ t[1] = nodes[2]
      BY <1>1, <1>4, <2>2
    <3>3. Len(t) = 0 <=> ~(1 < n)
      BY <1>1, <1>2, <1>3
    <3> QED BY <3>1, <3>2, <3>3
  <2>3. CASE k > 1
    <3>1. 1 \in 1..(n - 1) /\ 1 < k /\ Len(t) # 0
      BY <1>1, <1>2, <1>3, <2>3
    <3> QED BY <2>1, <2>3, <3>1, <1>1, <1>3, <1>4
  <2> QED BY <1>3, <2>2, <2>3
<1>8. ASSUME NEW i \in 1..(n - 1)
      PROVE  nx2[t[i]] = IF i < n - 1 THEN t[i + 1] ELSE NULL
  <2>1. CASE i < k - 1
    <3>1. i \in 1..n /\ i # k /\ i # k - 1 /\ i < n /\ i + 1 < k /\ i < k /\ i < n - 1 /\ i + 1 \in 1..(n - 1)
      BY <1>1, <1>3, <2>1
    <3>2. t[i] = nodes[i] /\ t[i + 1] = nodes[i + 1]
      BY <1>4, <3>1
    <3> QED BY <3>1, <3>2, <1>0
  <2>2. CASE i = k - 1
    <3>1. i < k /\ k > 1
      BY <1>1, <1>3, <2>2
    <3>2. t[i] = nodes[k - 1] /\ nx2[t[i]] = nx[nodes[k]]
      BY <1>4, <2>2, <3>1
    <3>3. nx[nodes[k]] = IF k < n THEN nodes[k + 1] ELSE NULL
      BY <1>0
    <3>4. CASE k < n
      <4>1. i + 1 = k /\ i + 1 \in 1..(n - 1) /\ i < n - 1
        BY <1>1, <1>3, <2>2, <3>4
      <4>2. t[i + 1] = nodes[k + 1]
        BY <1>4, <4>1
      <4> QED BY <3>2, <3>3, <3>4, <4>1, <4>2
    <3>5. CASE ~(k < n)
      <4>1. ~(i < n - 1)
        BY <1>1, <1>3, <2>2, <3>5
      <4> QED BY <3>2, <3>3, <3>5, <4>1
    <3> QED BY <3>4, <3>5
  <2>3. CASE i >= k
    <3>1. t[i] = nodes[i + 1] /\ i + 1 \in 1..n /\ i + 1 # k /\ i + 1 # k - 1
      BY <1>3, <1>4, <2>3
    <3>2. nx2[t[i]] = IF i + 1 < n THEN nodes[(i + 1) + 1] ELSE NULL
      BY <1>0, <3>1
    <3>3. CASE i < n - 1
      <4>1. i + 1 \in 1..(n - 1) /\ i + 1 >= k /\ i + 1 < n
        BY <1>1, <1>3, <2>3, <3>3
      <4>2. t[i + 1] = nodes[(i + 1) + 1]
        BY <1>4, <4>1
      <4> QED BY <3>2, <3>3, <4>1, <4>2
    <3>4. CASE ~(i < n - 1)
      <4>1. ~(i + 1 < n)
        BY <1>1, <3>4
      <4> QED BY <3>2, <3>4, <4>1
    <3> QED BY <3>3, <3>4
  <2> QED BY <1>3, <2>1, <2>2, <2>3
<1>9. \A i \in 1..Len(t) : nx2[t[i]] = IF i < Len(t) THEN t[i + 1] ELSE NULL
  BY <1>2, <1>8
<1> QED BY <1>2, <1>5, <1>6, <1>7, <1>9 DEF Row, t

(* linked back as well once the next one was told,                          *)
LEMMA BackTakeOut ==
  ASSUME NEW nodes \in Seq(Node), NEW pv, Back(nodes, pv),
         NEW k \in 1..Len(nodes),
         NEW pv2,
         k < Len(nodes) => pv2[nodes[k + 1]] = pv[nodes[k]],
         \A i \in 1..Len(nodes) : i # k /\ i # k + 1 => pv2[nodes[i]] = pv[nodes[i]]
  PROVE  Back(Without(nodes, k), pv2)
<1> DEFINE n == Len(nodes)
           t == Without(nodes, k)
<1>1. n \in Nat /\ k \in Nat /\ k >= 1 /\ k <= n
  OBVIOUS
<1>2. /\ Len(t) = n - 1
      /\ \A j \in 1..(n - 1) : t[j] = IF j < k THEN nodes[j] ELSE nodes[j + 1]
  BY WithoutElements
<1> HIDE DEF t
<1>3. \A j \in 1..(n - 1) : /\ j < k => t[j] = nodes[j] /\ j \in 1..n
                            /\ j >= k => t[j] = nodes[j + 1] /\ j + 1 \in 1..n
  BY <1>1, <1>2
<1>4. \A j \in 1..n : pv[nodes[j]] = IF j > 1 THEN nodes[j - 1] ELSE NULL
  BY DEF Back
<1>5. ASSUME NEW i \in 1..(n - 1)
      PROVE  pv2[t[i]] = IF i > 1 THEN t[i - 1] ELSE NULL
  <2>1. CASE i < k
    <3>1. t[i] = nodes[i] /\ i \in 1..n /\ i # k /\ i # k + 1
      BY <1>1, <1>3, <2>1
    <3>2. i > 1 => t[i - 1] = nodes[i - 1]
      <4>1. i > 1 => i - 1 \in 1..(n - 1) /\ i - 1 < k
        BY <1>1, <2>1
      <4> QED BY <4>1, <1>3
    <3> QED BY <1>4, <3>1, <3>2
  <2>2. CASE i = k
    <3>1. t[i] = nodes[k + 1] /\ k < n /\ k + 1 \in 1..n
      BY <1>1, <1>3, <2>2
    <3>2. pv2[t[i]] = IF k > 1 THEN nodes[k - 1] ELSE NULL
      BY <1>4, <3>1
    <3>3. i > 1 => t[i - 1] = nodes[k - 1]
      <4>1. i > 1 => i - 1 \in 1..(n - 1) /\ i - 1 < k
        BY <1>1, <2>2
      <4> QED BY <4>1, <1>3, <2>2
    <3> QED BY <2>2, <3>2, <3>3
  <2>3. CASE i > k
    <3>1. t[i] = nodes[i + 1] /\ i + 1 \in 1..n /\ i + 1 # k /\ i + 1 # k + 1 /\ i + 1 > 1 /\ i > 1
      BY <1>1, <1>3, <2>3
    <3>2. pv2[t[i]] = nodes[(i + 1) - 1]
      BY <1>4, <3>1
    <3>3. i - 1 \in 1..(n - 1) /\ i - 1 >= k /\ (i - 1) + 1 = i /\ (i + 1) - 1 = i
      BY <1>1, <2>3
    <3>4. t[i - 1] = nodes[i]
      BY <1>3, <3>3
    <3> QED BY <3>1, <3>2, <3>3, <3>4
  <2> QED BY <1>1, <2>1, <2>2, <2>3
<1> QED BY <1>2, <1>5 DEF Back, t

(* and hold what they held.                                                 *)
LEMMA HoldingTakeOut ==
  ASSUME NEW nodes \in Seq(Node), NEW d, NEW S, NEW s \in Seq(S), Holding(nodes, d, s),
         NEW k \in 1..Len(nodes),
         NEW d2,
         \A i \in 1..Len(nodes) : i # k => d2[nodes[i]] = d[nodes[i]]
  PROVE  Holding(Without(nodes, k), d2, Without(s, k))
<1> DEFINE n == Len(nodes)
           t == Without(nodes, k)
           v == Without(s, k)
<1>0. Len(s) = n /\ \A i \in 1..n : d[nodes[i]] = s[i]
  BY DEF Holding
<1>1. n \in Nat /\ k \in Nat /\ k >= 1 /\ k <= n /\ k \in 1..Len(s)
  BY <1>0
<1>2. /\ Len(t) = n - 1
      /\ \A j \in 1..(n - 1) : t[j] = IF j < k THEN nodes[j] ELSE nodes[j + 1]
  BY WithoutElements
<1>3. /\ Len(v) = n - 1
      /\ \A j \in 1..(n - 1) : v[j] = IF j < k THEN s[j] ELSE s[j + 1]
  BY <1>0, <1>1, WithoutElements
<1> HIDE DEF t, v
<1>4. ASSUME NEW j \in 1..(n - 1) PROVE d2[t[j]] = v[j]
  <2>1. j < k => j \in 1..n /\ j # k
    BY <1>1
  <2>2. ~(j < k) => j + 1 \in 1..n /\ j + 1 # k
    BY <1>1
  <2> QED BY <2>1, <2>2, <1>0, <1>2, <1>3
<1> QED BY <1>2, <1>3, <1>4 DEF Holding, t, v

-----------------------------------------------------------------------------
(* The steps of a dlinked_list that holds s on these nodes.                *)
DlTyped ==
  /\ used \subseteq Node
  /\ data \in [Node -> Cells]
  /\ next \in [Node -> Node \cup {NULL}]
  /\ prev \in [Node -> Node \cup {NULL}]
  /\ head \in Node \cup {NULL} /\ tail \in Node \cup {NULL}
  /\ len \in Nat /\ dOk \in BOOLEAN

(* The nodes in their order, and the s they hold.                           *)
DlIs(nodes, s) ==
  /\ Row(nodes, used, head, next)
  /\ Holding(nodes, data, s)
  /\ len = Len(s)
  /\ dOk = TRUE

(* What is seen of it.                                                     *)
LEMMA DlSeen ==
  ASSUME NEW nodes, NEW s \in Seq(Cells), DlIs(nodes, s)
  PROVE  /\ Forward = nodes /\ Contents = s /\ Len(nodes) = Len(s)
         /\ Cardinality(used) = len /\ len = Len(s) /\ dOk = TRUE
<1>1. Row(nodes, used, head, next) /\ Len(nodes) = Len(s) /\ len = Len(s) /\ dOk = TRUE
      /\ \A i \in 1..Len(nodes) : data[nodes[i]] = s[i]
  BY DEF DlIs, Holding
<1>2. Forward = nodes
  BY <1>1, RowIsForward
<1>3. Contents = s
  <2>1. Contents = [i \in 1..Len(nodes) |-> data[nodes[i]]]
    BY <1>2 DEF Contents
  <2>2. s = [i \in 1..Len(s) |-> s[i]]
    OBVIOUS
  <2> QED BY <1>1, <2>1, <2>2
<1>4. Cardinality(used) = Len(nodes)
  <2>1. /\ nodes \in Seq(Node) /\ used = {nodes[i] : i \in 1..Len(nodes)}
        /\ \A i, j \in 1..Len(nodes) : nodes[i] = nodes[j] => i = j
    BY <1>1 DEF Row, Distinct
  <2> QED BY <2>1, NodesCounted
<1> QED BY <1>1, <1>2, <1>3, <1>4

(* A fresh item linked in as the k-th.                                     *)
LEMMA NewItemKeeps ==
  ASSUME DlTyped, NEW nodes, NEW s \in Seq(Cells), DlIs(nodes, s),
         NEW x \in Cells, NEW item, NEW p, NEW q, NEW k \in 1..(Len(nodes) + 1),
         p = IF k > 1 THEN nodes[k - 1] ELSE NULL,
         q = IF k <= Len(nodes) THEN nodes[k] ELSE NULL,
         NewItem(item, x, p, q),
         head' = IF k = 1 THEN item ELSE head
  PROVE  /\ item \in Node \ used
         /\ used' = used \cup {item} /\ used' \subseteq Node
         /\ data' \in [Node -> Cells]
         /\ next' \in [Node -> Node \cup {NULL}]
         /\ prev' \in [Node -> Node \cup {NULL}]
         /\ head' \in Node \cup {NULL}
         /\ len' \in Nat
         /\ DlIs(Splice(nodes, k, item), Splice(s, k, x))'
         /\ Back(nodes, prev) => Back(Splice(nodes, k, item), prev')
<1>1. /\ item \in Node \ used /\ used' = used \cup {item}
      /\ data' = [data EXCEPT ![item] = x]
      /\ next' = [Put(next, p, item) EXCEPT ![item] = q]
      /\ prev' = [Put(prev, q, item) EXCEPT ![item] = p]
      /\ len' = len + 1
      /\ dOk' = dOk
  BY DEF NewItem
<1>2. /\ nodes \in Seq(Node) /\ Len(nodes) \in Nat /\ Len(nodes) = Len(s) /\ len = Len(nodes) /\ dOk = TRUE
      /\ \A i \in 1..Len(nodes) : nodes[i] \in Node /\ nodes[i] \in used /\ nodes[i] # NULL
      /\ \A i, j \in 1..Len(nodes) : nodes[i] = nodes[j] => i = j
      /\ Row(nodes, used, head, next) /\ Holding(nodes, data, s)
  <2>1. Row(nodes, used, head, next) /\ Holding(nodes, data, s) /\ len = Len(s) /\ dOk = TRUE
    BY DEF DlIs
  <2>2. Len(nodes) = Len(s)
    BY <2>1 DEF Holding
  <2>3. nodes \in Seq(Node) /\ \A i, j \in 1..Len(nodes) : nodes[i] = nodes[j] => i = j
    BY <2>1 DEF Row, Distinct
  <2>4. /\ Len(nodes) \in Nat
        /\ \A i \in 1..Len(nodes) : nodes[i] \in Node /\ nodes[i] \in used /\ nodes[i] # NULL
        /\ \A m \in used : \E i \in 1..Len(nodes) : m = nodes[i]
    BY <2>1, RowTyped
  <2> QED BY <2>1, <2>2, <2>3, <2>4
<1>3. k \in Nat /\ k >= 1 /\ k <= Len(nodes) + 1
  BY <1>2
<1>4. /\ k > 1 => k - 1 \in 1..Len(nodes) /\ p = nodes[k - 1] /\ p \in used /\ p \in Node /\ p # NULL
      /\ ~(k > 1) => p = NULL
      /\ k <= Len(nodes) => k \in 1..Len(nodes) /\ q = nodes[k] /\ q \in used /\ q \in Node /\ q # NULL
      /\ ~(k <= Len(nodes)) => q = NULL
      /\ p \in Node \cup {NULL} /\ q \in Node \cup {NULL}
      /\ p # item /\ q # item
  <2>1. k > 1 => k - 1 \in 1..Len(nodes)
    BY <1>2, <1>3
  <2>2. k <= Len(nodes) => k \in 1..Len(nodes)
    BY <1>2, <1>3
  <2>3. item # NULL
    BY <1>1, NodeAssumption
  <2> QED BY <1>1, <1>2, <2>1, <2>2, <2>3
<1>5. /\ next' \in [Node -> Node \cup {NULL}]
      /\ next'[item] = q
      /\ k > 1 => next'[p] = item
      /\ \A m \in used : m # p => next'[m] = next[m]
  <2>1. next \in [Node -> Node \cup {NULL}] /\ used \subseteq Node
    BY DEF DlTyped
  <2>2. CASE p = NULL
    BY <1>1, <1>4, <2>1, <2>2 DEF Put
  <2>3. CASE p # NULL
    BY <1>1, <1>4, <2>1, <2>3 DEF Put
  <2> QED BY <2>2, <2>3
<1>6. /\ prev' \in [Node -> Node \cup {NULL}]
      /\ prev'[item] = p
      /\ k <= Len(nodes) => prev'[q] = item
      /\ \A m \in used : m # q => prev'[m] = prev[m]
  <2>1. prev \in [Node -> Node \cup {NULL}] /\ used \subseteq Node
    BY DEF DlTyped
  <2>2. CASE q = NULL
    BY <1>1, <1>4, <2>1, <2>2 DEF Put
  <2>3. CASE q # NULL
    BY <1>1, <1>4, <2>1, <2>3 DEF Put
  <2> QED BY <2>2, <2>3
<1>7. /\ data' \in [Node -> Cells] /\ data'[item] = x
      /\ \A m \in used : data'[m] = data[m]
  <2>1. data \in [Node -> Cells] /\ used \subseteq Node
    BY DEF DlTyped
  <2> QED BY <1>1, <2>1
<1>8. Row(Splice(nodes, k, item), used', head', next')
  <2>1. \A i \in 1..Len(nodes) : i # k - 1 => next'[nodes[i]] = next[nodes[i]]
    <3> TAKE i \in 1..Len(nodes)
    <3> HAVE i # k - 1
    <3>1. nodes[i] # p
      BY <1>2, <1>4
    <3> QED BY <3>1, <1>2, <1>5
  <2>2. item \in Node /\ item \notin used
    BY <1>1
  <2>3. k > 1 => next'[nodes[k - 1]] = item
    BY <1>4, <1>5
  <2>4. next'[item] = IF k <= Len(nodes) THEN nodes[k] ELSE NULL
    BY <1>5
  <2>5. used' = used \cup {item}
    BY <1>1
  <2>6. Row(nodes, used, head, next)
    BY <1>2
  <2>7. PutIn(nodes, used, head, next, item, k, used', head', next')
    BY <2>1, <2>2, <2>3, <2>4, <2>5, <2>6 DEF PutIn
  <2> QED BY <2>7, RowLinkIn
<1>9. Holding(Splice(nodes, k, item), data', Splice(s, k, x))
  <2>1. \A i \in 1..Len(nodes) : data'[nodes[i]] = data[nodes[i]]
    BY <1>2, <1>7
  <2> QED BY <1>1, <1>2, <1>7, <2>1, HoldingLinkIn
<1>10. len' = Len(Splice(s, k, x)) /\ dOk' = TRUE
  <2>1. Len(Splice(s, k, x)) = Len(s) + 1
    BY <1>2, SpliceElements
  <2> QED BY <1>1, <1>2, <2>1
<1>11. Back(nodes, prev) => Back(Splice(nodes, k, item), prev')
  <2> HAVE Back(nodes, prev)
  <2>1. \A i \in 1..Len(nodes) : i # k => prev'[nodes[i]] = prev[nodes[i]]
    <3> TAKE i \in 1..Len(nodes)
    <3> HAVE i # k
    <3>1. nodes[i] # q
      BY <1>2, <1>4
    <3> QED BY <3>1, <1>2, <1>6
  <2>2. k <= Len(nodes) => prev'[nodes[k]] = item
    BY <1>4, <1>6
  <2>3. prev'[item] = IF k > 1 THEN nodes[k - 1] ELSE NULL
    BY <1>6
  <2>4. nodes \in Seq(Node) /\ item \in Node
    BY <1>1, <1>2
  <2> QED BY <2>1, <2>2, <2>3, <2>4, BackLinkIn
<1>12. head' \in Node \cup {NULL} /\ len' \in Nat /\ used' \subseteq Node
  BY <1>1, <1>2 DEF DlTyped
<1> QED BY <1>1, <1>5, <1>6, <1>7, <1>8, <1>9, <1>10, <1>11, <1>12 DEF DlIs

(* The k-th node unlinked both ways.                                       *)
LEMMA UnlinkKeeps ==
  ASSUME DlTyped, NEW nodes, NEW s \in Seq(Cells), DlIs(nodes, s), Back(nodes, prev),
         tail \in used \cup {NULL},
         NEW k \in 1..Len(nodes), Unlink(nodes[k])
  PROVE  /\ DlTyped'
         /\ DlIs(Without(nodes, k), Without(s, k))'
         /\ Back(Without(nodes, k), prev')
         /\ tail' \in used' \cup {NULL}
<1> DEFINE c == nodes[k]
           p == prev[c]
           q == next[c]
<1>2. /\ nodes \in Seq(Node) /\ Len(nodes) \in Nat /\ Len(nodes) = Len(s) /\ len = Len(nodes) /\ dOk = TRUE
      /\ \A i \in 1..Len(nodes) : nodes[i] \in Node /\ nodes[i] \in used /\ nodes[i] # NULL
      /\ \A i, j \in 1..Len(nodes) : nodes[i] = nodes[j] => i = j
      /\ Row(nodes, used, head, next) /\ Holding(nodes, data, s)
      /\ \A m \in used : \E i \in 1..Len(nodes) : m = nodes[i]
  <2>1. Row(nodes, used, head, next) /\ Holding(nodes, data, s) /\ len = Len(s) /\ dOk = TRUE
    BY DEF DlIs
  <2>2. Len(nodes) = Len(s)
    BY <2>1 DEF Holding
  <2>3. nodes \in Seq(Node) /\ \A i, j \in 1..Len(nodes) : nodes[i] = nodes[j] => i = j
    BY <2>1 DEF Row, Distinct
  <2>4. /\ Len(nodes) \in Nat
        /\ \A i \in 1..Len(nodes) : nodes[i] \in Node /\ nodes[i] \in used /\ nodes[i] # NULL
        /\ \A m \in used : \E i \in 1..Len(nodes) : m = nodes[i]
    BY <2>1, RowTyped
  <2> QED BY <2>1, <2>2, <2>3, <2>4
<1>3. k \in Nat /\ k >= 1 /\ k <= Len(nodes) /\ c \in Node /\ c \in used
  BY <1>2
<1>4. /\ k > 1 => k - 1 \in 1..Len(nodes) /\ p = nodes[k - 1] /\ p \in used /\ p \in Node /\ p # NULL
      /\ ~(k > 1) => p = NULL
      /\ k < Len(nodes) => k + 1 \in 1..Len(nodes) /\ q = nodes[k + 1] /\ q \in used /\ q \in Node /\ q # NULL
      /\ ~(k < Len(nodes)) => q = NULL
      /\ p # c /\ q # c
      /\ p \in Node \cup {NULL} /\ q \in Node \cup {NULL}
  <2>1. k > 1 => k - 1 \in 1..Len(nodes) /\ k - 1 # k
    BY <1>2, <1>3
  <2>2. k < Len(nodes) => k + 1 \in 1..Len(nodes) /\ k + 1 # k
    BY <1>2, <1>3
  <2>3. p = IF k > 1 THEN nodes[k - 1] ELSE NULL
    BY DEF Back
  <2>4. q = IF k < Len(nodes) THEN nodes[k + 1] ELSE NULL
    BY <1>2 DEF Row
  <2> HIDE DEF p, q
  <2>5. c # NULL /\ c = nodes[k]
    BY <1>2
  <2> HIDE DEF c
  <2> QED BY <1>2, <2>1, <2>2, <2>3, <2>4, <2>5
<1>1. /\ used' = used \ {c}
      /\ data' = [data EXCEPT ![c] = Null]
      /\ next' = [Put(next, p, q) EXCEPT ![c] = NULL]
      /\ prev' = [Put(prev, q, p) EXCEPT ![c] = NULL]
      /\ head' = IF c = head THEN q ELSE head
      /\ tail' = IF c = tail THEN p ELSE tail
      /\ len' = len - 1
      /\ dOk' = dOk
  BY DEF Unlink
<1> HIDE DEF p, q
<1>13. c = nodes[k]
  OBVIOUS
<1> HIDE DEF c
<1>5. /\ next' \in [Node -> Node \cup {NULL}]
      /\ k > 1 => next'[p] = q
      /\ \A m \in used : m # p /\ m # c => next'[m] = next[m]
  <2>1. next \in [Node -> Node \cup {NULL}] /\ used \subseteq Node
    BY DEF DlTyped
  <2>2. CASE p = NULL
    BY <1>1, <1>3, <1>4, <2>1, <2>2 DEF Put
  <2>3. CASE p # NULL
    BY <1>1, <1>3, <1>4, <2>1, <2>3 DEF Put
  <2> QED BY <2>2, <2>3
<1>6. /\ prev' \in [Node -> Node \cup {NULL}]
      /\ k < Len(nodes) => prev'[q] = p
      /\ \A m \in used : m # q /\ m # c => prev'[m] = prev[m]
  <2>1. prev \in [Node -> Node \cup {NULL}] /\ used \subseteq Node
    BY DEF DlTyped
  <2>2. CASE q = NULL
    BY <1>1, <1>3, <1>4, <2>1, <2>2 DEF Put
  <2>3. CASE q # NULL
    BY <1>1, <1>3, <1>4, <2>1, <2>3 DEF Put
  <2> QED BY <2>2, <2>3
<1>7. /\ data' \in [Node -> Cells]
      /\ \A m \in used : m # c => data'[m] = data[m]
  <2>1. data \in [Node -> Cells] /\ used \subseteq Node
    BY DEF DlTyped
  <2>2. Null \in Cells
    BY DEF Cells
  <2> QED BY <1>1, <1>3, <2>1, <2>2
<1>8. Row(Without(nodes, k), used', head', next')
  <2>1. \A i \in 1..Len(nodes) : i # k /\ i # k - 1 => next'[nodes[i]] = next[nodes[i]]
    <3> TAKE i \in 1..Len(nodes)
    <3> HAVE i # k /\ i # k - 1
    <3>1. nodes[i] # p /\ nodes[i] # c
      BY <1>2, <1>4, <1>13
    <3> QED BY <3>1, <1>2, <1>5
  <2>2. q = next[nodes[k]]
    BY <1>13 DEF q
  <2>3. k > 1 => next'[nodes[k - 1]] = next[nodes[k]]
    BY <1>4, <1>5, <2>2
  <2>4. head' = IF k = 1 THEN next[nodes[k]] ELSE head
    <3>1. head = nodes[1] /\ 1 \in 1..Len(nodes)
      BY <1>2, <1>3 DEF Row
    <3>2. c = head <=> k = 1
      BY <3>1, <1>2, <1>13
    <3> QED BY <3>2, <2>2, <1>1
  <2>5. used' = used \ {nodes[k]}
    BY <1>1, <1>13
  <2>6. Row(nodes, used, head, next)
    BY <1>2
  <2>7. TakenOut(nodes, used, head, next, k, used', head', next')
    BY <2>1, <2>3, <2>4, <2>5, <2>6 DEF TakenOut
  <2> QED BY <2>7, RowTakeOut
<1>9. Holding(Without(nodes, k), data', Without(s, k))
  <2>1. \A i \in 1..Len(nodes) : i # k => data'[nodes[i]] = data[nodes[i]]
    BY <1>2, <1>7, <1>13
  <2>2. nodes \in Seq(Node) /\ Holding(nodes, data, s)
    BY <1>2
  <2> QED BY <2>1, <2>2, HoldingTakeOut
<1>10. len' = Len(Without(s, k)) /\ dOk' = TRUE /\ len' \in Nat
  <2>1. Len(Without(s, k)) = Len(s) - 1
    BY <1>2, WithoutElements
  <2> QED BY <1>1, <1>2, <1>3, <2>1
<1>11. Back(Without(nodes, k), prev')
  <2>1. \A i \in 1..Len(nodes) : i # k /\ i # k + 1 => prev'[nodes[i]] = prev[nodes[i]]
    <3> TAKE i \in 1..Len(nodes)
    <3> HAVE i # k /\ i # k + 1
    <3>1. nodes[i] # q /\ nodes[i] # c
      BY <1>2, <1>4, <1>13
    <3> QED BY <3>1, <1>2, <1>6
  <2>2. k < Len(nodes) => prev'[nodes[k + 1]] = prev[nodes[k]]
    <3>1. p = prev[nodes[k]]
      BY <1>13 DEF p
    <3> QED BY <1>4, <1>6, <3>1
  <2>3. nodes \in Seq(Node)
    BY <1>2
  <2> QED BY <2>1, <2>2, <2>3, BackTakeOut
<1>12. tail' \in used' \cup {NULL} /\ head' \in Node \cup {NULL} /\ used' \subseteq Node
  <2>1. head \in Node \cup {NULL} /\ used \subseteq Node
    BY DEF DlTyped
  <2>2. p \in used \cup {NULL}
    BY <1>4
  <2> QED BY <1>1, <1>4, <2>1, <2>2
<1>14. tail' \in Node \cup {NULL}
  BY <1>12
<1> QED BY <1>5, <1>6, <1>7, <1>8, <1>9, <1>10, <1>11, <1>12, <1>14 DEF DlIs, DlTyped

(* The same of the state after a step.                                      *)
LEMMA DlSeenNext ==
  ASSUME NEW nodes, NEW s \in Seq(Cells), DlIs(nodes, s)'
  PROVE  /\ Forward' = nodes /\ Contents' = s /\ Len(nodes) = Len(s)
         /\ Cardinality(used') = len' /\ len' = Len(s) /\ dOk' = TRUE
<1>1. Row(nodes, used', head', next') /\ Len(nodes) = Len(s) /\ len' = Len(s) /\ dOk' = TRUE
      /\ \A i \in 1..Len(nodes) : data'[nodes[i]] = s[i]
  BY DEF DlIs, Holding
<1>0. /\ nodes \in Seq(Node) /\ used' = {nodes[i] : i \in 1..Len(nodes)}
      /\ \A i, j \in 1..Len(nodes) : nodes[i] = nodes[j] => i = j
      /\ head' = IF Len(nodes) = 0 THEN NULL ELSE nodes[1]
      /\ \A i \in 1..Len(nodes) : next'[nodes[i]] = IF i < Len(nodes) THEN nodes[i + 1] ELSE NULL
  BY <1>1 DEF Row, Distinct
<1>2. Forward' = nodes
  <2>1. Chain(next', head') = nodes
    BY <1>0, WalkMeets
  <2>2. Forward' = Chain(next', head')
    BY DEF Forward, Chain
  <2> QED BY <2>1, <2>2
<1>3. Contents' = s
  <2>1. Contents' = [i \in 1..Len(nodes) |-> data'[nodes[i]]]
    BY <1>2 DEF Contents
  <2>2. s = [i \in 1..Len(s) |-> s[i]]
    OBVIOUS
  <2> QED BY <1>1, <2>1, <2>2
<1>4. Cardinality(used') = Len(nodes)
  BY <1>0, NodesCounted
<1> QED BY <1>1, <1>2, <1>3, <1>4

(* A dlinked_list with s on its nodes, linked both ways if both.           *)
DlState(s, both) ==
  /\ DlTyped
  /\ \E nodes : /\ DlIs(nodes, s)
                /\ both => Back(nodes, prev) /\ tail \in used \cup {NULL}

(* A row found in the next state is a list there.                           *)
LEMMA DlStateNext ==
  ASSUME NEW s, NEW both, DlTyped',
         NEW nodes, DlIs(nodes, s)',
         both => Back(nodes, prev') /\ tail' \in used' \cup {NULL}
  PROVE  DlState(s, both)'
BY DEF DlState, Back

(* The facts about the nodes that the steps below need.                    *)
LEMMA DlFacts ==
  ASSUME NEW nodes, NEW s \in Seq(Cells), DlIs(nodes, s)
  PROVE  /\ nodes \in Seq(Node) /\ Len(nodes) \in Nat /\ Len(nodes) = Len(s)
         /\ Forward = nodes /\ Contents = s /\ len = Len(s) /\ dOk = TRUE
         /\ \A i \in 1..Len(nodes) : nodes[i] \in Node /\ nodes[i] \in used /\ nodes[i] # NULL
         /\ \A i, j \in 1..Len(nodes) : nodes[i] = nodes[j] => i = j
         /\ \A m \in used : \E i \in 1..Len(nodes) : m = nodes[i]
         /\ head = IF Len(nodes) = 0 THEN NULL ELSE nodes[1]
         /\ head = NULL <=> Len(nodes) = 0
         /\ \A i \in 1..Len(nodes) : next[nodes[i]] = IF i < Len(nodes) THEN nodes[i + 1] ELSE NULL
         /\ \A i \in 1..Len(nodes) : data[nodes[i]] = s[i]
<1>1. Row(nodes, used, head, next) /\ Holding(nodes, data, s)
  BY DEF DlIs
<1>2. /\ Len(nodes) \in Nat
      /\ \A i \in 1..Len(nodes) : nodes[i] \in Node /\ nodes[i] \in used /\ nodes[i] # NULL
      /\ \A m \in used : \E i \in 1..Len(nodes) : m = nodes[i]
      /\ head = NULL <=> Len(nodes) = 0
  BY <1>1, RowTyped
<1>3. /\ nodes \in Seq(Node)
      /\ \A i, j \in 1..Len(nodes) : nodes[i] = nodes[j] => i = j
      /\ head = IF Len(nodes) = 0 THEN NULL ELSE nodes[1]
      /\ \A i \in 1..Len(nodes) : next[nodes[i]] = IF i < Len(nodes) THEN nodes[i + 1] ELSE NULL
  BY <1>1 DEF Row, Distinct
<1>4. \A i \in 1..Len(nodes) : data[nodes[i]] = s[i]
  BY <1>1 DEF Holding
<1>5. Forward = nodes /\ Contents = s /\ Len(nodes) = Len(s) /\ len = Len(s) /\ dOk = TRUE
  BY DlSeen
<1> QED BY <1>2, <1>3, <1>4, <1>5

(* A last node that is not the tail is a wrong link.                       *)
LEMMA WrongTail ==
  ASSUME NEW l, l \in used', next'[l] = NULL, tail' # l
  PROVE  ~LocalLinks'
BY DEF LocalLinks

(* Undefined behaviour leaves a list nothing is known of.                   *)
LEMMA UndefinedBreaks ==
  ASSUME DlTyped, DlUndefined
  PROVE  DlTyped' /\ dOk' = FALSE
BY DEF DlTyped, DlUndefined

(* prepend() puts the object in front.                                      *)
LEMMA PrependGives ==
  ASSUME NEW s \in Seq(Cells), NEW both \in BOOLEAN, DlState(s, both),
         NEW x \in Cells, DlPrepend(x)
  PROVE  DlState(Splice(s, 1, x), both)'
<1>0. DlTyped
  BY DEF DlState
<1>1. PICK nodes : DlIs(nodes, s) /\ (both => Back(nodes, prev) /\ tail \in used \cup {NULL})
  BY DEF DlState
<1>2. /\ Len(nodes) \in Nat
      /\ head = IF Len(nodes) = 0 THEN NULL ELSE nodes[1]
      /\ head = NULL <=> Len(nodes) = 0
  BY <1>1, DlFacts
<1>3. 1 \in 1..(Len(nodes) + 1) /\ (1 <= Len(nodes) <=> Len(nodes) # 0) /\ ~(1 > 1)
  BY <1>2
<1>4. PICK item \in Node :
        /\ NewItem(item, x, NULL, IF 1 <= Len(nodes) THEN nodes[1] ELSE NULL)
        /\ head' = item
        /\ tail' = item \/ tail' = tail
  BY <1>2, <1>3 DEF DlPrepend
<1>5. /\ item \in Node \ used
      /\ used' = used \cup {item} /\ used' \subseteq Node
      /\ data' \in [Node -> Cells]
      /\ next' \in [Node -> Node \cup {NULL}]
      /\ prev' \in [Node -> Node \cup {NULL}]
      /\ head' \in Node \cup {NULL}
      /\ len' \in Nat
      /\ DlIs(Splice(nodes, 1, item), Splice(s, 1, x))'
      /\ Back(nodes, prev) => Back(Splice(nodes, 1, item), prev')
  <2>1. NULL = IF 1 > 1 THEN nodes[1 - 1] ELSE NULL
    OBVIOUS
  <2>2. head' = IF 1 = 1 THEN item ELSE head
    BY <1>4
  <2> DEFINE q == IF 1 <= Len(nodes) THEN nodes[1] ELSE NULL
  <2>3. q = (IF 1 <= Len(nodes) THEN nodes[1] ELSE NULL) /\ NewItem(item, x, NULL, q)
    BY <1>4
  <2> HIDE DEF q
  <2> QED BY <1>0, <1>1, <1>3, <2>1, <2>2, <2>3, NewItemKeeps
<1>6. DlTyped'
  <2>1. tail \in Node \cup {NULL} /\ dOk \in BOOLEAN
    BY <1>0 DEF DlTyped
  <2>2. dOk' = dOk
    BY <1>4 DEF NewItem
  <2> QED BY <1>4, <1>5, <2>1, <2>2 DEF DlTyped
<1>7. both => Back(Splice(nodes, 1, item), prev') /\ tail' \in used' \cup {NULL}
  BY <1>1, <1>4, <1>5
<1> QED BY <1>5, <1>6, <1>7, DlStateNext

(* append() to a list whose tail is the last node puts it at the end,       *)
LEMMA AppendGives ==
  ASSUME NEW s \in Seq(Cells), NEW both \in BOOLEAN, DlState(s, both),
         NEW x \in Cells, DlAppend(x),
         tail = IF Len(Forward) = 0 THEN NULL ELSE Forward[Len(Forward)]
  PROVE  DlState(Splice(s, Len(s) + 1, x), both)'
<1>0. DlTyped
  BY DEF DlState
<1>1. PICK nodes : DlIs(nodes, s) /\ (both => Back(nodes, prev) /\ tail \in used \cup {NULL})
  BY DEF DlState
<1>2. /\ Len(nodes) \in Nat /\ Len(nodes) = Len(s) /\ Forward = nodes
      /\ \A i \in 1..Len(nodes) : nodes[i] \in Node /\ nodes[i] # NULL
      /\ head = NULL <=> Len(nodes) = 0
  BY <1>1, DlFacts
<1> DEFINE k == Len(nodes) + 1
           p == IF k > 1 THEN nodes[k - 1] ELSE NULL
<1>3. /\ k \in 1..(Len(nodes) + 1) /\ (k > 1 <=> Len(nodes) # 0) /\ ~(k <= Len(nodes))
      /\ k = 1 <=> Len(nodes) = 0
      /\ k - 1 = Len(nodes)
  BY <1>2
<1>4. p = tail
  BY <1>2, <1>3
<1>9. tail = NULL <=> Len(nodes) = 0
  <2>1. CASE Len(nodes) = 0
    BY <2>1, <1>2
  <2>2. CASE Len(nodes) # 0
    <3>1. Len(nodes) \in 1..Len(nodes)
      BY <2>2, <1>2
    <3> QED BY <3>1, <2>2, <1>2
  <2> QED BY <2>1, <2>2
<1>5. PICK item \in Node :
        /\ NewItem(item, x, p, NULL)
        /\ head' = IF k = 1 THEN item ELSE head
        /\ tail' = item
  <2>1. CASE tail = NULL
    BY <2>1, <1>9, <1>3, <1>4 DEF DlAppend
  <2>2. CASE tail # NULL
    BY <2>2, <1>9, <1>3, <1>4 DEF DlAppend
  <2> QED BY <2>1, <2>2
<1>6. /\ item \in Node \ used
      /\ used' = used \cup {item} /\ used' \subseteq Node
      /\ data' \in [Node -> Cells]
      /\ next' \in [Node -> Node \cup {NULL}]
      /\ prev' \in [Node -> Node \cup {NULL}]
      /\ head' \in Node \cup {NULL}
      /\ len' \in Nat
      /\ DlIs(Splice(nodes, k, item), Splice(s, k, x))'
      /\ Back(nodes, prev) => Back(Splice(nodes, k, item), prev')
  <2>1. p = IF k > 1 THEN nodes[k - 1] ELSE NULL
    OBVIOUS
  <2>2. NULL = IF k <= Len(nodes) THEN nodes[k] ELSE NULL
    BY <1>3
  <2> HIDE DEF p, k
  <2> QED BY <1>0, <1>1, <1>3, <1>5, <2>1, <2>2, NewItemKeeps
<1>7. DlTyped'
  <2>1. dOk \in BOOLEAN
    BY <1>0 DEF DlTyped
  <2>2. dOk' = dOk
    BY <1>5 DEF NewItem
  <2> QED BY <1>5, <1>6, <2>1, <2>2 DEF DlTyped
<1>8. both => Back(Splice(nodes, k, item), prev') /\ tail' \in used' \cup {NULL}
  BY <1>1, <1>5, <1>6
<1>10. k = Len(s) + 1
  BY <1>2
<1> HIDE DEF k, p
<1> QED BY <1>6, <1>7, <1>8, <1>10, DlStateNext

(* A new item has its links typed, and the other links stay but that of p.  *)
LEMMA NewItemTyped ==
  ASSUME DlTyped, NEW x \in Cells, NEW item, NEW p \in Node \cup {NULL},
         NEW q \in Node \cup {NULL}, NewItem(item, x, p, q)
  PROVE  /\ item \in Node \ used /\ used' = used \cup {item} /\ used' \subseteq Node
         /\ data' \in [Node -> Cells]
         /\ next' \in [Node -> Node \cup {NULL}]
         /\ prev' \in [Node -> Node \cup {NULL}]
         /\ len' \in Nat /\ dOk' \in BOOLEAN
         /\ \A l \in used : l # p => next'[l] = next[l]
<1>1. /\ item \in Node \ used /\ used' = used \cup {item}
      /\ data' = [data EXCEPT ![item] = x]
      /\ next' = [Put(next, p, item) EXCEPT ![item] = q]
      /\ prev' = [Put(prev, q, item) EXCEPT ![item] = p]
      /\ len' = len + 1
      /\ dOk' = dOk
  BY DEF NewItem
<1>2. /\ used \subseteq Node /\ data \in [Node -> Cells]
      /\ next \in [Node -> Node \cup {NULL}]
      /\ prev \in [Node -> Node \cup {NULL}]
      /\ len \in Nat /\ dOk \in BOOLEAN
  BY DEF DlTyped
<1>3. /\ next' \in [Node -> Node \cup {NULL}]
      /\ \A l \in used : l # p => next'[l] = next[l]
  <2>1. CASE p = NULL
    BY <2>1, <1>1, <1>2 DEF Put
  <2>2. CASE p # NULL
    BY <2>2, <1>1, <1>2 DEF Put
  <2> QED BY <2>1, <2>2
<1>4. prev' \in [Node -> Node \cup {NULL}]
  <2>1. CASE q = NULL
    BY <2>1, <1>1, <1>2 DEF Put
  <2>2. CASE q # NULL
    BY <2>2, <1>1, <1>2 DEF Put
  <2> QED BY <2>1, <2>2
<1> QED BY <1>1, <1>2, <1>3, <1>4

(* The last node of a list whose tail is another.                          *)
LEMMA LastNode ==
  ASSUME NEW s \in Seq(Cells), NEW both, DlState(s, both), head # NULL,
         tail # Forward[Len(Forward)]
  PROVE  \E l \in used : l \in Node /\ next[l] = NULL /\ tail # l /\ l = Forward[Len(Forward)]
<1>1. PICK nodes : DlIs(nodes, s)
  BY DEF DlState
<1>2. /\ Len(nodes) \in Nat /\ Forward = nodes
      /\ \A i \in 1..Len(nodes) : nodes[i] \in Node /\ nodes[i] \in used
      /\ \A i \in 1..Len(nodes) : next[nodes[i]] = IF i < Len(nodes) THEN nodes[i + 1] ELSE NULL
      /\ head = NULL <=> Len(nodes) = 0
  BY <1>1, DlFacts
<1>3. Len(nodes) \in 1..Len(nodes) /\ ~(Len(nodes) < Len(nodes))
  BY <1>2
<1> QED BY <1>2, <1>3

(* and to another it leaves a wrong link: the last node is not the tail.    *)
LEMMA AppendBreaks ==
  ASSUME NEW s \in Seq(Cells), NEW both, DlState(s, both), NEW x \in Cells,
         head # NULL, tail # Forward[Len(Forward)], DlAppend(x)
  PROVE  DlTyped' /\ ~LocalLinks'
<1>0. DlTyped
  BY DEF DlState
<1>1. PICK l \in used : l \in Node /\ next[l] = NULL /\ tail # l
  BY LastNode
<1>2. tail \in Node \cup {NULL} /\ NULL \in Node \cup {NULL} /\ head \in Node \cup {NULL}
  BY <1>0 DEF DlTyped
<1>3. PICK item \in Node : /\ NewItem(item, x, tail, NULL) /\ tail' = item
                           /\ head' = head \/ head' = item
  BY DEF DlAppend
<1>4. /\ item \in Node \ used /\ used' = used \cup {item} /\ used' \subseteq Node
      /\ data' \in [Node -> Cells]
      /\ next' \in [Node -> Node \cup {NULL}]
      /\ prev' \in [Node -> Node \cup {NULL}]
      /\ len' \in Nat /\ dOk' \in BOOLEAN
      /\ \A m \in used : m # tail => next'[m] = next[m]
  BY <1>0, <1>2, <1>3, NewItemTyped
<1>5. DlTyped'
  BY <1>2, <1>3, <1>4 DEF DlTyped
<1>6. l \in used' /\ next'[l] = NULL /\ tail' # l
  BY <1>1, <1>3, <1>4
<1> QED BY <1>5, <1>6, WrongTail

(* Insertion behind any node leaves a wrong tail as it was, or is undefined.*)
LEMMA InsertAfterBreaks ==
  ASSUME NEW s \in Seq(Cells), NEW both, DlState(s, both), NEW x \in Cells,
         head # NULL, tail # Forward[Len(Forward)], NEW c \in used, InsertAfter(c, x)
  PROVE  DlTyped' /\ (dOk' = FALSE \/ ~LocalLinks')
<1>0. DlTyped
  BY DEF DlState
<1>1. CASE next[c] = NULL
  <2>1. DlUndefined
    BY <1>1 DEF InsertAfter, NewItem
  <2> QED BY <1>0, <2>1, UndefinedBreaks
<1>2. CASE next[c] # NULL
  <2>1. PICK l \in used : l \in Node /\ next[l] = NULL /\ tail # l
    BY LastNode
  <2>2. /\ c \in Node /\ c \in Node \cup {NULL} /\ next[c] \in Node \cup {NULL}
        /\ head \in Node \cup {NULL} /\ tail \in Node \cup {NULL}
    BY <1>0 DEF DlTyped
  <2>3. PICK item \in Node : NewItem(item, x, c, next[c]) /\ tail' = tail /\ head' = head
    BY <1>2 DEF InsertAfter
  <2>4. /\ item \in Node \ used /\ used' = used \cup {item} /\ used' \subseteq Node
        /\ data' \in [Node -> Cells]
        /\ next' \in [Node -> Node \cup {NULL}]
        /\ prev' \in [Node -> Node \cup {NULL}]
        /\ len' \in Nat /\ dOk' \in BOOLEAN
        /\ \A m \in used : m # c => next'[m] = next[m]
    BY <1>0, <2>2, <2>3, NewItemTyped
  <2>5. DlTyped'
    BY <2>2, <2>3, <2>4 DEF DlTyped
  <2>6. l \in used' /\ next'[l] = NULL /\ tail' # l
    BY <1>2, <2>1, <2>3, <2>4
  <2> QED BY <2>5, <2>6, WrongTail
<1> QED BY <1>1, <1>2

(* Behind the last node there is no next node to tell: undefined.           *)
LEMMA InsertAfterLast ==
  ASSUME NEW s \in Seq(Cells), NEW both, DlState(s, both), NEW x,
         s # <<>>, InsertAfter(Forward[Len(s)], x)
  PROVE  DlTyped' /\ dOk' = FALSE
<1>1. PICK nodes : DlIs(nodes, s)
  BY DEF DlState
<1>2. /\ Len(nodes) \in Nat /\ Len(nodes) = Len(s) /\ Forward = nodes
      /\ \A i \in 1..Len(nodes) : next[nodes[i]] = IF i < Len(nodes) THEN nodes[i + 1] ELSE NULL
  BY <1>1, DlFacts
<1>3. Len(nodes) \in 1..Len(nodes) /\ ~(Len(nodes) < Len(nodes))
  BY <1>2
<1>4. DlTyped /\ DlUndefined
  BY <1>2, <1>3 DEF DlState, InsertAfter
<1> QED BY <1>4, UndefinedBreaks

(* Behind another one the object comes in as the next.                      *)
LEMMA InsertAfterGives ==
  ASSUME NEW s \in Seq(Cells), NEW both \in BOOLEAN, DlState(s, both), NEW x \in Cells,
         NEW j \in 1..(Len(s) - 1), InsertAfter(Forward[j], x)
  PROVE  DlState(Splice(s, j + 1, x), both)'
<1>0. DlTyped
  BY DEF DlState
<1>1. PICK nodes : DlIs(nodes, s) /\ (both => Back(nodes, prev) /\ tail \in used \cup {NULL})
  BY DEF DlState
<1>2. /\ Len(nodes) \in Nat /\ Len(nodes) = Len(s) /\ Forward = nodes
      /\ \A i \in 1..Len(nodes) : nodes[i] \in Node /\ nodes[i] # NULL
      /\ \A i \in 1..Len(nodes) : next[nodes[i]] = IF i < Len(nodes) THEN nodes[i + 1] ELSE NULL
  BY <1>1, DlFacts
<1> DEFINE k == j + 1
<1>3. /\ k \in 1..(Len(nodes) + 1) /\ k > 1 /\ k - 1 = j /\ j \in 1..Len(nodes)
      /\ k \in 1..Len(nodes) /\ k <= Len(nodes) /\ k # 1 /\ j < Len(nodes)
  BY <1>2
<1>4. next[Forward[j]] = nodes[k] /\ Forward[j] = nodes[k - 1] /\ nodes[k] # NULL
  BY <1>2, <1>3
<1>5. PICK item \in Node : /\ NewItem(item, x, nodes[k - 1], nodes[k])
                           /\ tail' = tail /\ head' = head
  BY <1>4 DEF InsertAfter
<1> HIDE DEF k
<1>6. /\ item \in Node \ used
      /\ used' = used \cup {item} /\ used' \subseteq Node
      /\ data' \in [Node -> Cells]
      /\ next' \in [Node -> Node \cup {NULL}]
      /\ prev' \in [Node -> Node \cup {NULL}]
      /\ head' \in Node \cup {NULL}
      /\ len' \in Nat
      /\ DlIs(Splice(nodes, k, item), Splice(s, k, x))'
      /\ Back(nodes, prev) => Back(Splice(nodes, k, item), prev')
  <2>1. nodes[k - 1] = IF k > 1 THEN nodes[k - 1] ELSE NULL
    BY <1>3
  <2>2. nodes[k] = IF k <= Len(nodes) THEN nodes[k] ELSE NULL
    BY <1>3
  <2>3. head' = IF k = 1 THEN item ELSE head
    BY <1>3, <1>5
  <2> QED BY <1>0, <1>1, <1>3, <1>5, <2>1, <2>2, <2>3, NewItemKeeps
<1>7. DlTyped'
  <2>1. tail \in Node \cup {NULL} /\ dOk \in BOOLEAN
    BY <1>0 DEF DlTyped
  <2>2. dOk' = dOk
    BY <1>5 DEF NewItem
  <2> QED BY <1>5, <1>6, <2>1, <2>2 DEF DlTyped
<1>8. both => Back(Splice(nodes, k, item), prev') /\ tail' \in used' \cup {NULL}
  BY <1>1, <1>5, <1>6
<1>9. k = j + 1
  BY DEF k
<1> QED BY <1>6, <1>7, <1>8, <1>9, DlStateNext

(* Taking a node out takes its object out, and mends no wrong tail.         *)
LEMMA UnlinkGives ==
  ASSUME NEW s \in Seq(Cells), DlState(s, TRUE), NEW k \in 1..Len(s), Unlink(Forward[k])
  PROVE  /\ DlState(Without(s, k), TRUE)'
         /\ (k < Len(s) /\ tail # Forward[Len(Forward)]) => ~LocalLinks'
<1>0. DlTyped
  BY DEF DlState
<1>1. PICK nodes : DlIs(nodes, s) /\ Back(nodes, prev) /\ tail \in used \cup {NULL}
  BY DEF DlState
<1>2. /\ Len(nodes) \in Nat /\ Len(nodes) = Len(s) /\ Forward = nodes
      /\ \A i \in 1..Len(nodes) : nodes[i] \in Node /\ nodes[i] \in used /\ nodes[i] # NULL
      /\ \A i, j \in 1..Len(nodes) : nodes[i] = nodes[j] => i = j
  BY <1>1, DlFacts
<1>3. k \in 1..Len(nodes) /\ Unlink(nodes[k])
  BY <1>2
<1>4. /\ DlTyped'
      /\ DlIs(Without(nodes, k), Without(s, k))'
      /\ Back(Without(nodes, k), prev')
      /\ tail' \in used' \cup {NULL}
  BY <1>0, <1>1, <1>3, UnlinkKeeps
<1>5. DlState(Without(s, k), TRUE)'
  BY <1>4, DlStateNext
<1>6. ASSUME k < Len(s), tail # Forward[Len(Forward)]
      PROVE  ~LocalLinks'
  <2> DEFINE t == Without(nodes, k)
             m == Len(nodes) - 1
             l == nodes[Len(nodes)]
  <2>1. /\ m \in Nat /\ m >= 1 /\ m \in 1..m /\ m >= k /\ m + 1 = Len(nodes)
        /\ Len(nodes) \in 1..Len(nodes)
    BY <1>2, <1>3, <1>6
  <2>5. nodes \in Seq(Node)
    BY <1>1, DlFacts
  <2>6. /\ Len(t) = Len(nodes) - 1
        /\ \A j \in 1..(Len(nodes) - 1) : t[j] = IF j < k THEN nodes[j] ELSE nodes[j + 1]
    BY <1>3, <2>5, WithoutElements
  <2>2. Len(t) = m /\ t[m] = l
    <3> HIDE DEF t
    <3> QED BY <1>2, <1>3, <2>1, <2>6
  <2>3. l \in used' /\ next'[l] = NULL
    <3>1. Row(t, used', head', next')
      BY <1>4 DEF DlIs
    <3> HIDE DEF t, m, l
    <3>2. next'[t[m]] = IF m < Len(t) THEN t[m + 1] ELSE NULL
      BY <2>1, <2>2, <3>1 DEF Row
    <3>3. t[m] \in used'
      BY <2>1, <2>2, <3>1, RowTyped
    <3> QED BY <2>1, <2>2, <3>2, <3>3
  <2>4. tail' # l
    <3>1. tail' = tail \/ tail' = prev[nodes[k]]
      BY <1>3 DEF Unlink
    <3>2. tail # l
      BY <1>2, <1>6
    <3>3. prev[nodes[k]] = IF k > 1 THEN nodes[k - 1] ELSE NULL
      BY <1>1, <1>3 DEF Back
    <3>4. k > 1 => nodes[k - 1] # l
      <4>1. k > 1 => k - 1 \in 1..Len(nodes) /\ k - 1 # Len(nodes)
        BY <1>2, <1>3
      <4> QED BY <4>1, <1>2, <2>1
    <3>5. l # NULL
      BY <1>2, <2>1
    <3> QED BY <3>1, <3>2, <3>3, <3>4, <3>5
  <2> HIDE DEF l
  <2> QED BY <2>3, <2>4, WrongTail
<1> QED BY <1>5, <1>6

(* A call that leaves the object alone.                                     *)
LEMMA UnchangedGives ==
  ASSUME NEW s, NEW both, DlState(s, both), UNCHANGED dlinked
  PROVE  DlState(s, both)'
<1>1. PICK nodes : DlIs(nodes, s) /\ (both => Back(nodes, prev) /\ tail \in used \cup {NULL})
  BY DEF DlState
<1>2. /\ used' = used /\ data' = data /\ next' = next /\ prev' = prev
      /\ head' = head /\ tail' = tail /\ len' = len /\ dOk' = dOk
  BY DEF dlinked
<1>3. DlTyped'
  BY <1>2 DEF DlState, DlTyped
<1>4. DlIs(nodes, s)'
  BY <1>1, <1>2 DEF DlIs
<1>5. both => Back(nodes, prev') /\ tail' \in used' \cup {NULL}
  BY <1>1, <1>2
<1> QED BY <1>3, <1>4, <1>5, DlStateNext

(* The list emptied,                                                        *)
LEMMA EmptyGives ==
  ASSUME DlEmpty, dOk' = TRUE
  PROVE  DlState(<<>>, TRUE)'
<1>1. /\ used' = {} /\ data' = [n \in Node |-> Null]
      /\ next' = [n \in Node |-> NULL] /\ prev' = [n \in Node |-> NULL]
      /\ head' = NULL /\ tail' = NULL /\ len' = 0
  BY DEF DlEmpty
<1>2. DlTyped'
  BY <1>1 DEF DlTyped, Cells
<1>3. DlIs(<<>>, <<>>)'
  BY <1>1 DEF DlIs, Row, Distinct, Holding
<1>4. Back(<<>>, prev') /\ tail' \in used' \cup {NULL}
  BY <1>1 DEF Back
<1> QED BY <1>2, <1>3, <1>4, DlStateNext

(* and a new one.                                                           *)
LEMMA InitGives ==
  ASSUME DlInit
  PROVE  DlState(<<>>, TRUE)
<1>2. DlTyped
  BY DEF DlInit, DlTyped, Cells
<1>3. DlIs(<<>>, <<>>)
  BY DEF DlInit, DlIs, Row, Distinct, Holding
<1>4. Back(<<>>, prev) /\ tail \in used \cup {NULL}
  BY DEF DlInit, Back
<1> QED BY <1>2, <1>3, <1>4 DEF DlState

(* set() of a map writes the pair in its node.                              *)
LEMMA SetGives ==
  ASSUME NEW s \in Seq(Cells), NEW both, DlState(s, both), NEW i \in 1..Len(s),
         NEW y \in Cells, data' = [data EXCEPT ![Forward[i]] = y],
         UNCHANGED <<used, next, prev, head, tail, len, dOk>>
  PROVE  DlState([s EXCEPT ![i] = y], both)'
<1>1. PICK nodes : DlIs(nodes, s) /\ (both => Back(nodes, prev) /\ tail \in used \cup {NULL})
  BY DEF DlState
<1>2. /\ Len(nodes) \in Nat /\ Len(nodes) = Len(s) /\ Forward = nodes
      /\ \A j \in 1..Len(nodes) : nodes[j] \in Node
      /\ \A j, m \in 1..Len(nodes) : nodes[j] = nodes[m] => j = m
      /\ \A j \in 1..Len(nodes) : data[nodes[j]] = s[j]
  BY <1>1, DlFacts
<1>3. /\ used' = used /\ next' = next /\ prev' = prev
      /\ head' = head /\ tail' = tail /\ len' = len /\ dOk' = dOk
  OBVIOUS
<1>4. data \in [Node -> Cells] /\ data' = [data EXCEPT ![nodes[i]] = y]
  BY <1>2 DEF DlState, DlTyped
<1> DEFINE t == [s EXCEPT ![i] = y]
<1>5. Len(t) = Len(s) /\ \A j \in 1..Len(s) : t[j] = IF j = i THEN y ELSE s[j]
  OBVIOUS
<1> HIDE DEF t
<1>6. Holding(nodes, data', t)
  <2>1. \A j \in 1..Len(nodes) : data'[nodes[j]] = t[j]
    <3> TAKE j \in 1..Len(nodes)
    <3>1. CASE j = i
      BY <3>1, <1>2, <1>4, <1>5
    <3>2. CASE j # i
      <4>1. nodes[j] # nodes[i] /\ nodes[j] \in Node
        BY <3>2, <1>2
      <4>2. data'[nodes[j]] = data[nodes[j]]
        BY <4>1, <1>4
      <4> QED BY <4>2, <3>2, <1>2, <1>5
    <3> QED BY <3>1, <3>2
  <2> QED BY <2>1, <1>2, <1>5 DEF Holding
<1>7. DlIs(nodes, t)'
  <2>1. Row(nodes, used, head, next) /\ len = Len(s) /\ dOk = TRUE
    BY <1>1 DEF DlIs
  <2> QED BY <2>1, <1>3, <1>5, <1>6 DEF DlIs
<1>8. DlTyped'
  BY <1>3, <1>4 DEF DlState, DlTyped
<1>9. both => Back(nodes, prev') /\ tail' \in used' \cup {NULL}
  BY <1>1, <1>3
<1> QED BY <1>7, <1>8, <1>9, DlStateNext DEF t

(* remove() of a map forgets the links back, and keeps those forward.       *)
LEMMA MapRemoveGives ==
  ASSUME NEW s \in Seq(Cells), DlState(s, FALSE), NEW k, DlMapRemove(k),
         FirstWith(s, k) \in 1..Len(s)
  PROVE  DlState(Without(s, FirstWith(s, k)), FALSE)'
<1>1. PICK nodes : DlIs(nodes, s)
  BY DEF DlState
<1>2. /\ Len(nodes) \in Nat /\ Len(nodes) = Len(s) /\ Forward = nodes /\ Contents = s
      /\ \A j \in 1..Len(nodes) : nodes[j] \in Node /\ nodes[j] \in used /\ nodes[j] # NULL
      /\ \A j, m \in 1..Len(nodes) : nodes[j] = nodes[m] => j = m
      /\ len = Len(s) /\ dOk = TRUE
  BY <1>1, DlFacts
<1>3. nodes \in Seq(Node)
  BY <1>1, DlFacts
<1> DEFINE i == FirstWith(s, k)
           c == nodes[i]
           p == IF i = 1 THEN NULL ELSE nodes[i - 1]
<1>4. i \in 1..Len(nodes) /\ ~(i > Len(s)) /\ i \in Nat /\ i >= 1 /\ i <= Len(nodes)
  BY <1>2
<1>5. /\ used' = used \ {c}
      /\ data' = [data EXCEPT ![c] = Null]
      /\ next' = [Put(next, p, next[c]) EXCEPT ![c] = NULL]
      /\ prev' = [prev EXCEPT ![c] = NULL]
      /\ head' = IF i = 1 THEN next[c] ELSE head
      /\ len' = len - 1
      /\ tail' = tail /\ dOk' = dOk
  BY <1>2, <1>4 DEF DlMapRemove
<1> HIDE DEF i
<1>6. /\ c \in Node /\ p \in Node \cup {NULL}
      /\ i > 1 => p = nodes[i - 1] /\ p # NULL /\ p # c /\ i - 1 \in 1..Len(nodes)
      /\ ~(i > 1) => p = NULL
  <2>1. i > 1 => i - 1 \in 1..Len(nodes) /\ i - 1 # i /\ i # 1
    BY <1>4
  <2>2. ~(i > 1) => i = 1
    BY <1>4
  <2> QED BY <1>2, <1>4, <2>1, <2>2
<1>7. c = nodes[i]
  OBVIOUS
<1> HIDE DEF c, p
<1>8. /\ used \subseteq Node /\ data \in [Node -> Cells]
      /\ next \in [Node -> Node \cup {NULL}]
      /\ prev \in [Node -> Node \cup {NULL}]
      /\ head \in Node \cup {NULL} /\ tail \in Node \cup {NULL}
  BY DEF DlState, DlTyped
<1>9. /\ next' \in [Node -> Node \cup {NULL}]
      /\ p # NULL => next'[p] = next[c]
      /\ \A m \in Node : m # p /\ m # c => next'[m] = next[m]
  <2>0. next[c] \in Node \cup {NULL}
    BY <1>6, <1>8
  <2>1. CASE p = NULL
    BY <2>0, <2>1, <1>5, <1>6, <1>8 DEF Put
  <2>2. CASE p # NULL
    <3>1. p # c
      BY <2>2, <1>6
    <3> QED BY <2>0, <2>2, <3>1, <1>5, <1>6, <1>8 DEF Put
  <2> QED BY <2>1, <2>2
<1>10. Row(Without(nodes, i), used', head', next')
  <2>1. i > 1 => next'[nodes[i - 1]] = next[nodes[i]]
    BY <1>6, <1>7, <1>9
  <2>2. \A j \in 1..Len(nodes) : j # i /\ j # i - 1 => next'[nodes[j]] = next[nodes[j]]
    <3> TAKE j \in 1..Len(nodes)
    <3> HAVE j # i /\ j # i - 1
    <3>1. nodes[j] # c
      BY <1>2, <1>4, <1>7
    <3>2. nodes[j] # p
      BY <1>2, <1>6
    <3> QED BY <3>1, <3>2, <1>2, <1>9
  <2>3. Row(nodes, used, head, next)
    BY <1>1 DEF DlIs
  <2>4. head' = (IF i = 1 THEN next[nodes[i]] ELSE head) /\ used' = used \ {nodes[i]}
    BY <1>5, <1>7
  <2>5. TakenOut(nodes, used, head, next, i, used', head', next')
    BY <1>4, <2>1, <2>2, <2>3, <2>4 DEF TakenOut
  <2> QED BY <2>5, RowTakeOut
<1>11. Holding(Without(nodes, i), data', Without(s, i))
  <2>1. Holding(nodes, data, s)
    BY <1>1 DEF DlIs
  <2>2. \A j \in 1..Len(nodes) : j # i => data'[nodes[j]] = data[nodes[j]]
    <3> TAKE j \in 1..Len(nodes)
    <3> HAVE j # i
    <3>1. nodes[j] # c
      BY <1>2, <1>4, <1>7
    <3> QED BY <3>1, <1>2, <1>5, <1>8
  <2> QED BY <1>3, <1>4, <2>1, <2>2, HoldingTakeOut
<1>12. len' = Len(Without(s, i)) /\ len' \in Nat
  <2>1. Len(Without(s, i)) = Len(s) - 1
    BY <1>2, <1>4, WithoutElements
  <2> QED BY <2>1, <1>2, <1>4, <1>5
<1>13. DlIs(Without(nodes, i), Without(s, i))'
  BY <1>2, <1>5, <1>10, <1>11, <1>12 DEF DlIs
<1>14. DlTyped'
  <2>1. next[c] \in Node \cup {NULL} /\ Null \in Cells
    BY <1>6, <1>8 DEF Cells
  <2>2. data' \in [Node -> Cells] /\ prev' \in [Node -> Node \cup {NULL}]
    BY <2>1, <1>5, <1>8
  <2>3. head' \in Node \cup {NULL} /\ used' \subseteq Node /\ dOk' \in BOOLEAN /\ tail' \in Node \cup {NULL}
    BY <2>1, <1>2, <1>5, <1>8
  <2> QED BY <2>2, <2>3, <1>9, <1>12 DEF DlTyped
<1>15. DlState(Without(s, i), FALSE)'
  BY <1>13, <1>14, DlStateNext
<1> QED BY <1>15 DEF i

(* A walk back from the t-th node meets those before it.                    *)
LEMMA BackWalk ==
  ASSUME NEW nodes \in Seq(Node), NEW pv, Back(nodes, pv), NEW t \in 1..Len(nodes),
         \A i, j \in 1..Len(nodes) : nodes[i] = nodes[j] => i = j
  PROVE  Chain(pv, nodes[t]) = [i \in 1..t |-> nodes[t + 1 - i]]
<1> DEFINE b == [i \in 1..t |-> nodes[t + 1 - i]]
<1>1. Len(nodes) \in Nat /\ t \in Nat /\ t >= 1 /\ t <= Len(nodes)
  OBVIOUS
<1>2. \A i \in 1..t : t + 1 - i \in 1..Len(nodes) /\ nodes[t + 1 - i] \in Node
  BY <1>1
<1>3. b \in Seq(Node) /\ Len(b) = t
  BY <1>1, <1>2
<1>4. \A i \in 1..t : b[i] = nodes[t + 1 - i]
  OBVIOUS
<1> HIDE DEF b
<1>5. \A i, j \in 1..Len(b) : b[i] = b[j] => i = j
  <2> TAKE i, j \in 1..Len(b)
  <2> HAVE b[i] = b[j]
  <2>1. t + 1 - i = t + 1 - j
    <3>1. i \in 1..t /\ j \in 1..t
      BY <1>3
    <3>2. nodes[t + 1 - i] = nodes[t + 1 - j]
      BY <3>1, <1>4
    <3>3. t + 1 - i \in 1..Len(nodes) /\ t + 1 - j \in 1..Len(nodes)
      BY <3>1, <1>2
    <3> QED BY <3>2, <3>3
  <2> QED BY <2>1, <1>1, <1>3
<1>6. nodes[t] = IF Len(b) = 0 THEN NULL ELSE b[1]
  <2>1. 1 \in 1..t /\ t + 1 - 1 = t
    BY <1>1
  <2> QED BY <2>1, <1>3, <1>4
<1>7. \A i \in 1..Len(b) : pv[b[i]] = IF i < Len(b) THEN b[i + 1] ELSE NULL
  <2> TAKE i \in 1..Len(b)
  <2>1. t + 1 - i \in 1..Len(nodes) /\ b[i] = nodes[t + 1 - i]
    BY <1>2, <1>3, <1>4
  <2>2. pv[b[i]] = IF t + 1 - i > 1 THEN nodes[(t + 1 - i) - 1] ELSE NULL
    BY <2>1 DEF Back
  <2>3. i < t => i + 1 \in 1..t /\ t + 1 - (i + 1) = (t + 1 - i) - 1 /\ t + 1 - i > 1
    BY <1>1, <1>3
  <2>4. ~(i < t) => ~(t + 1 - i > 1)
    BY <1>1, <1>3
  <2> QED BY <2>2, <2>3, <2>4, <1>3, <1>4
<1>8. Chain(pv, nodes[t]) = b
  BY <1>3, <1>5, <1>6, <1>7, WalkMeets
<1> QED BY <1>8 DEF b

(* A get in the lower half walks from the head to its node.                 *)
LEMMA NodeAtLower ==
  ASSUME NEW s \in Seq(Cells), NEW both, DlState(s, both),
         NEW idx \in 0..(Len(s) - 1), ~(idx > Len(s) \div 2)
  PROVE  NodeAt(idx) = Forward[idx + 1]
<1>1. PICK nodes : DlIs(nodes, s)
  BY DEF DlState
<1>2. Len(nodes) = Len(s) /\ Forward = nodes /\ len = Len(s)
  BY <1>1, DlFacts
<1>3. idx + 1 \in 1..Len(Forward) /\ ~(idx > len \div 2)
  BY <1>2
<1> QED BY <1>3 DEF NodeAt

(* One in the upper half walks from the tail: to its node if that is the last.*)
LEMMA NodeAtUpper ==
  ASSUME NEW s \in Seq(Cells), DlState(s, TRUE),
         NEW idx \in 0..(Len(s) - 1), idx > Len(s) \div 2
  PROVE  /\ tail = Forward[Len(Forward)] => NodeAt(idx) = Forward[idx + 1]
         /\ \/ NodeAt(idx) = NULL
            \/ \E k \in 1..Len(s) : /\ NodeAt(idx) = Forward[k]
                                    /\ tail # Forward[Len(Forward)] => k < Len(s)
<1>1. PICK nodes : DlIs(nodes, s) /\ Back(nodes, prev) /\ tail \in used \cup {NULL}
  BY DEF DlState
<1>2. /\ nodes \in Seq(Node)
      /\ Len(nodes) = Len(s) /\ Len(nodes) \in Nat /\ Forward = nodes /\ len = Len(s)
      /\ \A i \in 1..Len(nodes) : nodes[i] # NULL
      /\ \A i, j \in 1..Len(nodes) : nodes[i] = nodes[j] => i = j
      /\ \A m \in used : \E i \in 1..Len(nodes) : m = nodes[i]
  BY <1>1, DlFacts
<1>3. /\ idx \in Int /\ idx > len \div 2 /\ len - idx \in 1..Len(nodes)
      /\ Len(nodes) \in 1..Len(nodes) /\ idx + 1 \in 1..Len(nodes)
  <2>1. idx > 0 \/ Len(nodes) >= 1
    BY <1>2
  <2> QED BY <2>1, <1>2
<1> DEFINE back == Chain(prev, tail)
<1>4. NodeAt(idx) = IF len - idx \in 1..Len(back) THEN back[len - idx] ELSE NULL
  BY <1>3 DEF NodeAt
<1>5. CASE tail = NULL
  <2>1. back = <<>>
    <3>1. << >> \in Seq(Node) /\ Len(<< >>) = 0
      OBVIOUS
    <3> DEFINE none == << >>
    <3>2. /\ tail = IF Len(none) = 0 THEN NULL ELSE none[1]
          /\ \A i, j \in 1..Len(none) : none[i] = none[j] => i = j
          /\ \A i \in 1..Len(none) : prev[none[i]] = IF i < Len(none) THEN none[i + 1] ELSE NULL
          /\ none \in Seq(Node)
      BY <1>5
    <3> HIDE DEF none
    <3>3. Chain(prev, tail) = none
      BY <3>2, WalkMeets
    <3> QED BY <3>3 DEF none
  <2>2. NodeAt(idx) = NULL
    BY <2>1, <1>4
  <2> QED BY <2>2, <1>2, <1>3, <1>5
<1>6. CASE tail # NULL
  <2>1. PICK t \in 1..Len(nodes) : tail = nodes[t]
    BY <1>1, <1>2, <1>6
  <2>2. back = [i \in 1..t |-> nodes[t + 1 - i]]
    <3>1. /\ nodes \in Seq(Node) /\ Back(nodes, prev) /\ t \in 1..Len(nodes)
          /\ \A i, j \in 1..Len(nodes) : nodes[i] = nodes[j] => i = j
      BY <1>1, <1>2
    <3> HIDE DEF back
    <3>2. Chain(prev, nodes[t]) = [i \in 1..t |-> nodes[t + 1 - i]]
      <4>1. nodes \in Seq(Node) /\ Back(nodes, prev) /\ t \in 1..Len(nodes)
        BY <3>1
      <4>2. \A i, j \in 1..Len(nodes) : nodes[i] = nodes[j] => i = j
        BY <3>1
      <4> QED BY <4>1, <4>2, BackWalk, SMTT(30)
    <3> QED BY <2>1, <3>2 DEF back
  <2>3. Len(back) = t /\ \A i \in 1..t : back[i] = nodes[t + 1 - i]
    BY <2>2
  <2> HIDE DEF back
  <2>4. NodeAt(idx) = IF len - idx \in 1..t THEN nodes[t + 1 - (len - idx)] ELSE NULL
    BY <2>3, <1>4
  <2>5. tail = Forward[Len(Forward)] <=> t = Len(nodes)
    BY <2>1, <1>2, <1>3
  <2>6. CASE t = Len(nodes)
    <3>1. len - idx \in 1..t /\ t + 1 - (len - idx) = idx + 1
      BY <2>6, <1>2, <1>3
    <3>2. NodeAt(idx) = Forward[idx + 1]
      BY <3>1, <2>4, <1>2
    <3> QED BY <3>2, <2>5, <2>6, <1>2, <1>3
  <2>7. CASE t # Len(nodes)
    <3>1. CASE len - idx \in 1..t
      <4> DEFINE j == t + 1 - (len - idx)
      <4>1. j \in 1..Len(s) /\ j < Len(s)
        BY <2>7, <3>1, <1>2, <1>3
      <4>2. NodeAt(idx) = Forward[j]
        BY <3>1, <2>4, <1>2
      <4> HIDE DEF j
      <4> QED BY <4>1, <4>2, <2>5, <2>7
    <3>2. CASE len - idx \notin 1..t
      BY <3>2, <2>4, <2>5, <2>7
    <3> QED BY <3>1, <3>2
  <2> QED BY <2>6, <2>7
<1> QED BY <1>5, <1>6

(* A copy of a dlinked_list has a wrong link or is undefined: its tail.     *)
LEMMA DupBreaks ==
  ASSUME NEW s \in Seq(Cells), NEW both, DlState(s, both), DlDup
  PROVE  DlTyped' /\ (dOk' = FALSE \/ ~LocalLinks')
<1>0. DlTyped
  BY DEF DlState
<1>1. CASE head = NULL \/ \E i \in 1..Len(Contents) : Contents[i] = Null
  <2>1. DlUndefined
    BY <1>1 DEF DlDup
  <2> QED BY <2>1, <1>0, UndefinedBreaks
<1>2. CASE ~(head = NULL \/ \E i \in 1..Len(Contents) : Contents[i] = Null)
  <2>1. PICK nodes : DlIs(nodes, s)
    BY DEF DlState
  <2>2. /\ Len(nodes) \in Nat /\ Forward = nodes
        /\ \A i \in 1..Len(nodes) : nodes[i] \in Node /\ nodes[i] \in used /\ nodes[i] # NULL
        /\ \A i, j \in 1..Len(nodes) : nodes[i] = nodes[j] => i = j
        /\ \A i \in 1..Len(nodes) : next[nodes[i]] = IF i < Len(nodes) THEN nodes[i + 1] ELSE NULL
        /\ head = NULL <=> Len(nodes) = 0
    BY <2>1, DlFacts
  <2> DEFINE last == Len(Forward)
  <2>3. /\ prev' = [n \in Node |->
                       IF \E i \in 2..(last - 1) : n = Forward[i]
                         THEN Forward[(CHOOSE i \in 2..(last - 1) : n = Forward[i]) - 1]
                         ELSE NULL]
        /\ tail' = IF last = 1 THEN NULL ELSE Forward[last - 1]
        /\ used' = used /\ data' = data /\ next' = next /\ head' = head
        /\ len' = len /\ dOk' = dOk
    BY <1>2 DEF DlDup
  <2>4. /\ last \in 1..last /\ ~(last < last) /\ last \in Nat
        /\ last # 1 => last - 1 \in 1..last /\ last - 1 # last
        /\ last = Len(nodes)
    <3>1. last = Len(nodes) /\ last \in Nat /\ last # 0
      BY <1>2, <2>2
    <3> HIDE DEF last
    <3> QED BY <3>1
  <2>5. prev' \in [Node -> Node \cup {NULL}]
    <3>1. ASSUME NEW n \in Node
          PROVE  (IF \E i \in 2..(last - 1) : n = Forward[i]
                    THEN Forward[(CHOOSE i \in 2..(last - 1) : n = Forward[i]) - 1]
                    ELSE NULL) \in Node \cup {NULL}
      <4>1. CASE \E i \in 2..(last - 1) : n = Forward[i]
        <5> DEFINE c == CHOOSE i \in 2..(last - 1) : n = Forward[i]
        <5>1. c \in 2..(last - 1)
          BY <4>1
        <5> HIDE DEF c
        <5>2. c - 1 \in 1..last
          BY <5>1, <2>4
        <5>3. Forward[c - 1] \in Node
          BY <5>2, <2>2
        <5> QED BY <4>1, <5>3 DEF c
      <4>2. CASE ~ \E i \in 2..(last - 1) : n = Forward[i]
        BY <4>2
      <4> QED BY <4>1, <4>2
    <3> QED BY <3>1, <2>3
  <2>6. tail' \in Node \cup {NULL}
    BY <2>2, <2>3, <2>4
  <2>7. DlTyped'
    BY <1>0, <2>3, <2>5, <2>6 DEF DlTyped
  <2>8. nodes[last] \in used' /\ next'[nodes[last]] = NULL
    BY <2>2, <2>3, <2>4
  <2>9. tail' # nodes[last]
    BY <2>2, <2>3, <2>4
  <2> QED BY <2>7, <2>8, <2>9, WrongTail
<1> QED BY <1>1, <1>2

(* Appended one by one: fresh nodes in a row behind the tail, by the steps  *)
(* of the fold over z.                                                      *)
LEMMA AppendAllDoes ==
  ASSUME DlTyped, tail \in used, NEW z \in Seq(Cells), Len(z) # 0, DlAppendAll(z)
  PROVE  \E item \in [1..Len(z) -> Node \ used] :
           /\ \A i, j \in 1..Len(z) : item[i] = item[j] => i = j
           /\ used' = used \cup {item[i] : i \in 1..Len(z)}
           /\ next'[tail] = item[1]
           /\ \A i \in 1..Len(z) : next'[item[i]] = IF i < Len(z) THEN item[i + 1] ELSE NULL
           /\ \A m \in used : m # tail => next'[m] = next[m]
           /\ \A i \in 1..Len(z) : prev'[item[i]] = IF i > 1 THEN item[i - 1] ELSE tail
           /\ \A m \in used : prev'[m] = prev[m]
           /\ \A i \in 1..Len(z) : data'[item[i]] = z[i]
           /\ \A m \in used : data'[m] = data[m]
           /\ tail' = item[Len(z)] /\ head' = head /\ len' = len + Len(z) /\ dOk' = dOk
           /\ DlTyped'
<1> DEFINE k == Len(z)
<1>2. k \in Nat /\ k >= 1
  OBVIOUS
<1>1. PICK item \in [1..k -> Node \ used] :
        LET at(n) == CHOOSE i \in 1..k : item[i] = n
            new   == {item[i] : i \in 1..k}
        IN /\ \A i, j \in 1..k : item[i] = item[j] => i = j
           /\ used' = used \cup new
           /\ data' = [n \in Node |-> IF n \in new THEN z[at(n)] ELSE data[n]]
           /\ next' = [n \in Node |->
                         CASE n = tail                -> item[1]
                           [] n \in new /\ at(n) < k  -> item[at(n) + 1]
                           [] n \in new /\ at(n) = k  -> NULL
                           [] OTHER                   -> next[n]]
           /\ prev' = [n \in Node |->
                         CASE n \in new /\ at(n) = 1 -> tail
                           [] n \in new /\ at(n) > 1 -> item[at(n) - 1]
                           [] OTHER                  -> prev[n]]
           /\ tail' = item[k]
           /\ len' = len + k
           /\ head' = head /\ dOk' = dOk
  BY DEF DlAppendAll
<1> DEFINE at(n) == CHOOSE i \in 1..k : item[i] = n
           new   == {item[i] : i \in 1..k}
<1>20. \A i \in 1..k : z[i] \in Cells
  OBVIOUS
<1> HIDE DEF k
<1>3. \A i \in 1..k : item[i] \in Node /\ item[i] \notin used /\ item[i] \in new
  OBVIOUS
<1>4. \A i \in 1..k : at(item[i]) = i
  <2>1. TAKE i \in 1..k
  <2>2. at(item[i]) \in 1..k /\ item[at(item[i])] = item[i]
    OBVIOUS
  <2> QED BY <1>1, <2>2
<1>5. \A n \in new : \E i \in 1..k : n = item[i]
  OBVIOUS
<1>6. /\ used \subseteq Node /\ data \in [Node -> Cells]
      /\ next \in [Node -> Node \cup {NULL}]
      /\ prev \in [Node -> Node \cup {NULL}]
      /\ head \in Node \cup {NULL}
      /\ len \in Nat /\ dOk \in BOOLEAN
  BY DEF DlTyped
<1>7. tail \in Node /\ tail \notin new
  BY <1>3, <1>5, <1>6
<1>8. used' = used \cup new /\ tail' = item[k] /\ head' = head /\ len' = len + k /\ dOk' = dOk
  BY <1>1
<1>9. next' = [n \in Node |->
                 CASE n = tail                -> item[1]
                   [] n \in new /\ at(n) < k  -> item[at(n) + 1]
                   [] n \in new /\ at(n) = k  -> NULL
                   [] OTHER                   -> next[n]]
  BY <1>1
<1>10. prev' = [n \in Node |->
                 CASE n \in new /\ at(n) = 1 -> tail
                   [] n \in new /\ at(n) > 1 -> item[at(n) - 1]
                   [] OTHER                  -> prev[n]]
  BY <1>1
<1>21. data' = [n \in Node |-> IF n \in new THEN z[at(n)] ELSE data[n]]
  BY <1>1
<1>22. used' = used \cup {item[i] : i \in 1..k}
  BY <1>8
<1> HIDE DEF at, new
<1>11. /\ next'[tail] = item[1]
       /\ \A i \in 1..k : i < k => next'[item[i]] = item[i + 1]
       /\ next'[item[k]] = NULL
       /\ \A n \in used : n # tail => next'[n] = next[n]
  <2>1. next'[tail] = item[1]
    BY <1>7, <1>9
  <2>2. \A i \in 1..k : i < k => next'[item[i]] = item[i + 1]
    BY <1>2, <1>3, <1>4, <1>7, <1>9
  <2>3. next'[item[k]] = NULL
    BY <1>2, <1>3, <1>4, <1>7, <1>9
  <2>4. \A n \in used : n # tail => next'[n] = next[n]
    BY <1>3, <1>5, <1>6, <1>9
  <2> QED BY <2>1, <2>2, <2>3, <2>4
<1>12. /\ prev'[item[1]] = tail
       /\ \A i \in 1..k : i > 1 => prev'[item[i]] = item[i - 1]
       /\ \A n \in used : prev'[n] = prev[n]
  <2>1. prev'[item[1]] = tail
    BY <1>2, <1>3, <1>4, <1>10
  <2>2. \A i \in 1..k : i > 1 => prev'[item[i]] = item[i - 1]
    BY <1>2, <1>3, <1>4, <1>10
  <2>3. \A n \in used : prev'[n] = prev[n]
    BY <1>3, <1>5, <1>6, <1>10
  <2> QED BY <2>1, <2>2, <2>3
<1>23. /\ \A i \in 1..k : data'[item[i]] = z[i]
       /\ \A n \in used : data'[n] = data[n]
       /\ \A n \in Node : data'[n] \in Cells
  <2>1. \A i \in 1..k : data'[item[i]] = z[i]
    BY <1>3, <1>4, <1>21
  <2>2. \A n \in Node : n \notin new => data'[n] = data[n]
    BY <1>21
  <2>3. \A n \in used : n \notin new /\ n \in Node
    BY <1>3, <1>5, <1>6
  <2>4. \A n \in Node : data'[n] \in Cells
    <3> TAKE n \in Node
    <3>1. CASE n \in new
      BY <3>1, <2>1, <1>5, <1>20
    <3>2. CASE n \notin new
      BY <3>2, <2>2, <1>6
    <3> QED BY <3>1, <3>2
  <2> QED BY <2>1, <2>2, <2>3, <2>4
<1>13. DlTyped'
  <2>1. used' \subseteq Node /\ len' \in Nat /\ tail' \in Node
    BY <1>2, <1>3, <1>5, <1>6, <1>8
  <2>2. ASSUME NEW n \in Node
        PROVE  next'[n] \in Node \cup {NULL} /\ prev'[n] \in Node \cup {NULL}
    <3>1. CASE n \in new
      <4>1. PICK i \in 1..k : n = item[i]
        BY <3>1, <1>5
      <4>2. i < k => i + 1 \in 1..k
        BY <1>2
      <4>3. i > 1 => i - 1 \in 1..k
        BY <1>2
      <4>4. (i < k \/ i = k) /\ (i > 1 \/ i = 1)
        BY <1>2
      <4> QED BY <4>1, <4>2, <4>3, <4>4, <1>3, <1>7, <1>11, <1>12
    <3>2. CASE n \notin new
      <4>1. prev'[n] = prev[n]
        BY <3>2, <1>10
      <4>2. n # tail => next'[n] = next[n]
        BY <3>2, <1>9
      <4>3. item[1] \in Node
        BY <1>2, <1>3
      <4> QED BY <4>1, <4>2, <4>3, <1>6, <1>11
    <3> QED BY <3>1, <3>2
  <2>3. /\ next' \in [Node -> Node \cup {NULL}]
        /\ prev' \in [Node -> Node \cup {NULL}]
    <3>1. next' = [n \in Node |-> next'[n]] /\ prev' = [n \in Node |-> prev'[n]]
      BY <1>9, <1>10
    <3> QED BY <2>2, <3>1
  <2>4. data' \in [Node -> Cells]
    <3>1. data' = [n \in Node |-> data'[n]]
      BY <1>21
    <3> QED BY <3>1, <1>23
  <2> QED BY <2>1, <2>3, <2>4, <1>6, <1>8 DEF DlTyped
<1>14. \A i \in 1..k : next'[item[i]] = IF i < k THEN item[i + 1] ELSE NULL
  <2>1. \A i \in 1..k : i < k \/ i = k
    BY <1>2
  <2> QED BY <2>1, <1>11
<1>15. \A i \in 1..k : prev'[item[i]] = IF i > 1 THEN item[i - 1] ELSE tail
  <2>1. \A i \in 1..k : i > 1 \/ i = 1
    BY <1>2
  <2> QED BY <2>1, <1>12
<1>16. \A i, j \in 1..k : item[i] = item[j] => i = j
  BY <1>1
<1>17. item \in [1..k -> Node \ used]
  OBVIOUS
<1> QED BY <1>8, <1>11, <1>12, <1>13, <1>14, <1>15, <1>16, <1>17, <1>22, <1>23 DEF k

(* To a list with a wrong tail that leaves a wrong link,                    *)
LEMMA AppendAllBreaks ==
  ASSUME NEW s \in Seq(Cells), NEW both, DlState(s, both), head # NULL, tail \in used,
         tail # Forward[Len(Forward)],
         NEW z \in Seq(Cells), Len(z) # 0, DlAppendAll(z)
  PROVE  DlTyped' /\ ~LocalLinks'
<1>0. DlTyped
  BY DEF DlState
<1>1. PICK l \in used : l \in Node /\ next[l] = NULL /\ tail # l
  BY LastNode
<1>2. PICK item \in [1..Len(z) -> Node \ used] :
        /\ used' = used \cup {item[i] : i \in 1..Len(z)}
        /\ \A m \in used : m # tail => next'[m] = next[m]
        /\ tail' = item[Len(z)]
        /\ DlTyped'
  BY <1>0, AppendAllDoes
<1>3. Len(z) \in 1..Len(z)
  OBVIOUS
<1>4. l \in used' /\ next'[l] = NULL /\ tail' # l
  BY <1>1, <1>2, <1>3
<1> QED BY <1>2, <1>4, WrongTail

(* and to another the objects at its end.                                   *)
LEMMA AppendAllGives ==
  ASSUME NEW s \in Seq(Cells), DlState(s, TRUE), head # NULL,
         tail = Forward[Len(Forward)],
         NEW z \in Seq(Cells), Len(z) # 0, DlAppendAll(z)
  PROVE  DlState(s \o z, TRUE)'
<1>0. DlTyped
  BY DEF DlState
<1>1. PICK nodes : DlIs(nodes, s) /\ Back(nodes, prev) /\ tail \in used \cup {NULL}
  BY DEF DlState
<1>2. /\ nodes \in Seq(Node) /\ Len(nodes) \in Nat /\ Len(nodes) = Len(s) /\ Forward = nodes
      /\ \A i \in 1..Len(nodes) : nodes[i] \in Node /\ nodes[i] \in used /\ nodes[i] # NULL
      /\ \A i, j \in 1..Len(nodes) : nodes[i] = nodes[j] => i = j
      /\ \A m \in used : \E i \in 1..Len(nodes) : m = nodes[i]
      /\ head = IF Len(nodes) = 0 THEN NULL ELSE nodes[1]
      /\ head = NULL <=> Len(nodes) = 0
      /\ \A i \in 1..Len(nodes) : next[nodes[i]] = IF i < Len(nodes) THEN nodes[i + 1] ELSE NULL
      /\ \A i \in 1..Len(nodes) : data[nodes[i]] = s[i]
      /\ len = Len(s) /\ dOk = TRUE
  BY <1>1, DlFacts
<1>3. Len(nodes) >= 1 /\ Len(nodes) \in 1..Len(nodes) /\ 1 \in 1..Len(nodes)
  BY <1>2
<1>4. tail = nodes[Len(nodes)] /\ tail \in used
  BY <1>2, <1>3
<1>5. PICK item \in [1..Len(z) -> Node \ used] :
           /\ \A i, j \in 1..Len(z) : item[i] = item[j] => i = j
           /\ used' = used \cup {item[i] : i \in 1..Len(z)}
           /\ next'[tail] = item[1]
           /\ \A i \in 1..Len(z) : next'[item[i]] = IF i < Len(z) THEN item[i + 1] ELSE NULL
           /\ \A m \in used : m # tail => next'[m] = next[m]
           /\ \A i \in 1..Len(z) : prev'[item[i]] = IF i > 1 THEN item[i - 1] ELSE tail
           /\ \A m \in used : prev'[m] = prev[m]
           /\ \A i \in 1..Len(z) : data'[item[i]] = z[i]
           /\ \A m \in used : data'[m] = data[m]
           /\ tail' = item[Len(z)] /\ head' = head /\ len' = len + Len(z) /\ dOk' = dOk
           /\ DlTyped'
  BY <1>0, <1>4, AppendAllDoes
<1>6. /\ item \in Seq(Node) /\ Len(item) = Len(z) /\ Len(z) \in Nat /\ Len(z) >= 1
      /\ \A i \in 1..Len(z) : item[i] \in Node /\ item[i] \notin used
  BY <1>5
<1> DEFINE t == nodes \o item
           n == Len(nodes)
           k == Len(z)
<1>7. /\ t \in Seq(Node) /\ Len(t) = n + k
      /\ \A j \in 1..(n + k) : t[j] = IF j <= n THEN nodes[j] ELSE item[j - n]
  <2>1. nodes \in Seq(Node) /\ item \in Seq(Node) /\ Len(item) = Len(z)
    BY <1>2, <1>6
  <2>2. /\ nodes \o item \in Seq(Node) /\ Len(nodes \o item) = Len(nodes) + Len(item)
        /\ \A j \in 1..(Len(nodes) + Len(item)) :
             (nodes \o item)[j] = IF j <= Len(nodes) THEN nodes[j] ELSE item[j - Len(nodes)]
    BY <2>1, ConcatProperties
  <2> QED BY <2>1, <2>2
<1>8. /\ s \o z \in Seq(Cells) /\ Len(s \o z) = n + k
      /\ \A j \in 1..(n + k) : (s \o z)[j] = IF j <= n THEN s[j] ELSE z[j - n]
  BY <1>2, ConcatProperties
<1> HIDE DEF t, n, k
<1>9. /\ n \in Nat /\ k \in Nat /\ k >= 1 /\ n >= 1 /\ n = Len(nodes) /\ k = Len(z) /\ n = Len(s)
      /\ n \in 1..n
  BY <1>2, <1>3, <1>6 DEF n, k
<1>10. \A j \in 1..(n + k) : /\ j <= n => j \in 1..n /\ t[j] = nodes[j]
                             /\ ~(j <= n) => j - n \in 1..k /\ t[j] = item[j - n]
  BY <1>7, <1>9
<1>11. Distinct(t)
  <2> SUFFICES ASSUME NEW i \in 1..(n + k), NEW j \in 1..(n + k), t[i] = t[j]
               PROVE  i = j
    BY <1>7 DEF Distinct
  <2>1. CASE i <= n /\ j <= n
    BY <2>1, <1>2, <1>9, <1>10
  <2>2. CASE ~(i <= n) /\ ~(j <= n)
    <3>2. i - n \in 1..Len(z) /\ j - n \in 1..Len(z) /\ item[i - n] = item[j - n]
      BY <2>2, <1>9, <1>10
    <3>1. i - n = j - n
      BY <3>2, <1>5
    <3> QED BY <3>1, <1>9
  <2>5. /\ \A a \in 1..(n + k) : a <= n => t[a] \in used
        /\ \A a \in 1..(n + k) : ~(a <= n) => t[a] \notin used
    BY <1>2, <1>6, <1>9, <1>10
  <2>3. CASE i <= n /\ ~(j <= n)
    BY <2>3, <2>5
  <2>4. CASE ~(i <= n) /\ j <= n
    BY <2>4, <2>5
  <2> QED BY <2>1, <2>2, <2>3, <2>4
<1>12. used' = {t[j] : j \in 1..Len(t)}
  <2>1. \A m \in used' : \E j \in 1..(n + k) : m = t[j]
    <3> TAKE m \in used'
    <3>1. CASE m \in used
      <4>1. PICK i \in 1..n : m = nodes[i]
        BY <3>1, <1>2, <1>9
      <4>2. i \in 1..(n + k) /\ i <= n
        BY <1>9
      <4> QED BY <4>1, <4>2, <1>10
    <3>2. CASE m \notin used
      <4>1. PICK i \in 1..k : m = item[i]
        BY <3>2, <1>5, <1>9
      <4>2. n + i \in 1..(n + k) /\ ~(n + i <= n) /\ (n + i) - n = i
        BY <1>9
      <4> QED BY <4>1, <4>2, <1>10
    <3> QED BY <3>1, <3>2
  <2>2. \A j \in 1..(n + k) : t[j] \in used'
    <3> TAKE j \in 1..(n + k)
    <3>1. CASE j <= n
      BY <3>1, <1>2, <1>5, <1>9, <1>10
    <3>2. CASE ~(j <= n)
      BY <3>2, <1>5, <1>9, <1>10
    <3> QED BY <3>1, <3>2
  <2> QED BY <2>1, <2>2, <1>7
<1>13. head' = IF Len(t) = 0 THEN NULL ELSE t[1]
  <2>1. 1 \in 1..(n + k) /\ 1 <= n /\ n + k # 0 /\ n # 0
    BY <1>9
  <2> QED BY <2>1, <1>2, <1>5, <1>7, <1>9, <1>10
<1>14. \A j \in 1..Len(t) : next'[t[j]] = IF j < Len(t) THEN t[j + 1] ELSE NULL
  <2> TAKE j \in 1..Len(t)
  <2>0. j \in 1..(n + k) /\ Len(t) = n + k
    BY <1>7
  <2>1. CASE j < n
    <3>1. /\ j \in 1..n /\ j + 1 \in 1..(n + k) /\ j + 1 <= n /\ j < n + k /\ j <= n
          /\ j # n
      BY <2>0, <2>1, <1>9
    <3>2. nodes[j] # tail /\ nodes[j] \in used
      BY <3>1, <1>2, <1>4, <1>9
    <3>3. next'[nodes[j]] = next[nodes[j]]
      BY <3>2, <1>5
    <3>4. next[nodes[j]] = nodes[j + 1]
      BY <3>1, <2>1, <1>2, <1>9
    <3> QED BY <3>1, <3>3, <3>4, <2>0, <1>10
  <2>2. CASE j = n
    <3>1. j + 1 \in 1..(n + k) /\ ~(j + 1 <= n) /\ (j + 1) - n = 1 /\ j < n + k /\ j <= n
      BY <2>0, <2>2, <1>9
    <3>2. t[j] = tail /\ t[j + 1] = item[1]
      BY <3>1, <2>0, <2>2, <1>4, <1>9, <1>10
    <3> QED BY <3>1, <3>2, <2>0, <1>5
  <2>3. CASE j > n
    <3>1. /\ ~(j <= n) /\ j - n \in 1..k
          /\ j < n + k <=> j - n < k
          /\ j < n + k => j + 1 \in 1..(n + k) /\ ~(j + 1 <= n) /\ (j + 1) - n = (j - n) + 1
      BY <2>0, <2>3, <1>9
    <3>2. t[j] = item[j - n] /\ (j < n + k => t[j + 1] = item[(j - n) + 1])
      BY <3>1, <2>0, <1>10
    <3>3. next'[item[j - n]] = IF j - n < k THEN item[(j - n) + 1] ELSE NULL
      BY <3>1, <1>5, <1>9
    <3> QED BY <3>1, <3>2, <3>3, <2>0
  <2> QED BY <2>0, <2>1, <2>2, <2>3, <1>9
<1>15. Row(t, used', head', next')
  BY <1>7, <1>11, <1>12, <1>13, <1>14 DEF Row
<1>16. Holding(t, data', s \o z)
  <2>1. ASSUME NEW j \in 1..(n + k)
        PROVE  data'[t[j]] = (s \o z)[j]
    <3>1. CASE j <= n
      <4>1. j \in 1..n /\ t[j] = nodes[j] /\ (s \o z)[j] = s[j]
        BY <3>1, <1>8, <1>10
      <4>2. nodes[j] \in used /\ data[nodes[j]] = s[j]
        BY <4>1, <1>2, <1>9
      <4>3. data'[nodes[j]] = data[nodes[j]]
        BY <4>2, <1>5
      <4> QED BY <4>1, <4>2, <4>3
    <3>2. CASE ~(j <= n)
      <4>1. j - n \in 1..k /\ t[j] = item[j - n] /\ (s \o z)[j] = z[j - n]
        BY <3>2, <1>8, <1>10
      <4>2. data'[item[j - n]] = z[j - n]
        BY <4>1, <1>5, <1>9
      <4> QED BY <4>1, <4>2
    <3> QED BY <3>1, <3>2
  <2> QED BY <2>1, <1>7, <1>8 DEF Holding
<1>17. DlIs(t, s \o z)'
  <2>1. len' = Len(s \o z) /\ dOk' = TRUE
    BY <1>2, <1>5, <1>8, <1>9
  <2> QED BY <2>1, <1>15, <1>16 DEF DlIs
<1>18. Back(t, prev')
  <2> SUFFICES ASSUME NEW j \in 1..Len(t)
               PROVE  prev'[t[j]] = IF j > 1 THEN t[j - 1] ELSE NULL
    BY DEF Back
  <2>0. j \in 1..(n + k)
    BY <1>7
  <2>1. CASE j <= n
    <3>1. /\ j \in 1..n /\ t[j] = nodes[j]
          /\ j > 1 => j - 1 \in 1..(n + k) /\ j - 1 <= n
      BY <2>0, <2>1, <1>9, <1>10
    <3>3. prev[nodes[j]] = IF j > 1 THEN nodes[j - 1] ELSE NULL
      BY <3>1, <1>1, <1>9 DEF Back
    <3>4. nodes[j] \in used
      BY <3>1, <1>2, <1>9
    <3>5. prev'[nodes[j]] = prev[nodes[j]]
      BY <3>4, <1>5
    <3>2. prev'[nodes[j]] = IF j > 1 THEN nodes[j - 1] ELSE NULL
      BY <3>3, <3>5
    <3> QED BY <3>1, <3>2, <1>10
  <2>2. CASE ~(j <= n)
    <3>1. /\ j - n \in 1..k /\ t[j] = item[j - n] /\ j > 1 /\ j - 1 \in 1..(n + k)
          /\ j - n > 1 <=> ~(j - 1 <= n)
          /\ j - n > 1 => (j - 1) - n = (j - n) - 1
          /\ ~(j - n > 1) => j - 1 = n
      BY <2>0, <2>2, <1>9, <1>10
    <3>2. prev'[item[j - n]] = IF j - n > 1 THEN item[(j - n) - 1] ELSE tail
      BY <3>1, <1>5, <1>9
    <3>3. t[j - 1] = IF j - n > 1 THEN item[(j - n) - 1] ELSE nodes[n]
      BY <3>1, <1>10
    <3> QED BY <3>1, <3>2, <3>3, <1>4, <1>9
  <2> QED BY <2>1, <2>2
<1>19. tail' \in used' \cup {NULL}
  <2>1. k \in 1..k
    BY <1>9
  <2> QED BY <2>1, <1>5, <1>9
<1> QED BY <1>5, <1>17, <1>18, <1>19, DlStateNext

(* reverse() swaps the links of every node: the list backwards.             *)
LEMMA ReverseGives ==
  ASSUME NEW s \in Seq(Cells), DlState(s, TRUE), head # NULL, DlReverse
  PROVE  DlState(Backwards(s), TRUE)'
<1>0. DlTyped
  BY DEF DlState
<1>1. PICK nodes : DlIs(nodes, s) /\ Back(nodes, prev) /\ tail \in used \cup {NULL}
  BY DEF DlState
<1>2. /\ nodes \in Seq(Node) /\ Len(nodes) \in Nat /\ Len(nodes) = Len(s) /\ Forward = nodes
      /\ \A i \in 1..Len(nodes) : nodes[i] \in Node /\ nodes[i] \in used /\ nodes[i] # NULL
      /\ \A i, j \in 1..Len(nodes) : nodes[i] = nodes[j] => i = j
      /\ \A m \in used : \E i \in 1..Len(nodes) : m = nodes[i]
      /\ head = NULL <=> Len(nodes) = 0
      /\ \A i \in 1..Len(nodes) : next[nodes[i]] = IF i < Len(nodes) THEN nodes[i + 1] ELSE NULL
      /\ \A i \in 1..Len(nodes) : data[nodes[i]] = s[i]
      /\ len = Len(s) /\ dOk = TRUE
  BY <1>1, DlFacts
<1>3. \A i \in 1..Len(nodes) : prev[nodes[i]] = IF i > 1 THEN nodes[i - 1] ELSE NULL
  BY <1>1 DEF Back
<1> DEFINE met == {Forward[i] : i \in 1..Len(Forward)}
           n == Len(nodes)
           t == Backwards(nodes)
<1>4. /\ next' = [m \in Node |-> IF m \in met THEN prev[m] ELSE next[m]]
      /\ prev' = [m \in Node |-> IF m \in met THEN next[m] ELSE prev[m]]
      /\ head' = Forward[Len(Forward)] /\ used' = used /\ data' = data /\ tail' = tail
      /\ len' = len /\ dOk' = dOk
  BY DEF DlReverse
<1>5. (\A i \in 1..n : nodes[i] \in met) /\ head' = nodes[n]
  BY <1>2, <1>4
<1>6. n \in Nat /\ n >= 1 /\ n = Len(s) /\ n = Len(nodes) /\ n \in 1..n /\ 1 \in 1..n
  BY <1>2
<1>7. t \in Seq(Node) /\ Len(t) = n /\ \A j \in 1..n : t[j] = nodes[n + 1 - j]
  BY <1>2, BackwardsElements
<1>8. /\ Backwards(s) \in Seq(Cells) /\ Len(Backwards(s)) = n
      /\ \A j \in 1..n : Backwards(s)[j] = s[n + 1 - j]
  BY <1>6, BackwardsElements
<1> HIDE DEF met, n, t
<1>9. \A j \in 1..n : n + 1 - j \in 1..n /\ t[j] = nodes[n + 1 - j]
  BY <1>6, <1>7
<1>10. /\ \A i \in 1..n : next'[nodes[i]] = IF i > 1 THEN nodes[i - 1] ELSE NULL
       /\ \A i \in 1..n : prev'[nodes[i]] = IF i < n THEN nodes[i + 1] ELSE NULL
  BY <1>2, <1>3, <1>4, <1>5, <1>6
<1>11. Row(t, used', head', next')
  <2>1. Distinct(t)
    <3> SUFFICES ASSUME NEW i \in 1..n, NEW j \in 1..n, t[i] = t[j]
                 PROVE  i = j
      BY <1>7 DEF Distinct
    <3>1. n + 1 - i \in 1..Len(nodes) /\ n + 1 - j \in 1..Len(nodes)
          /\ nodes[n + 1 - i] = nodes[n + 1 - j]
      BY <1>6, <1>9
    <3>2. n + 1 - i = n + 1 - j
      BY <3>1, <1>2
    <3> QED BY <3>2, <1>6
  <2>2. used' = {t[j] : j \in 1..Len(t)}
    <3>1. \A m \in used' : \E j \in 1..n : m = t[j]
      <4> TAKE m \in used'
      <4>1. PICK i \in 1..n : m = nodes[i]
        BY <1>2, <1>4, <1>6
      <4>2. n + 1 - i \in 1..n /\ n + 1 - (n + 1 - i) = i
        BY <1>6
      <4>3. t[n + 1 - i] = nodes[n + 1 - (n + 1 - i)]
        BY <4>2, <1>9
      <4> QED BY <4>1, <4>2, <4>3
    <3>2. \A j \in 1..n : t[j] \in used'
      BY <1>2, <1>4, <1>6, <1>9
    <3> QED BY <3>1, <3>2, <1>7
  <2>3. head' = IF Len(t) = 0 THEN NULL ELSE t[1]
    <3>1. n + 1 - 1 = n /\ n # 0
      BY <1>6
    <3> QED BY <3>1, <1>5, <1>6, <1>7, <1>9
  <2>4. \A j \in 1..Len(t) : next'[t[j]] = IF j < Len(t) THEN t[j + 1] ELSE NULL
    <3> TAKE j \in 1..Len(t)
    <3>0. j \in 1..n
      BY <1>7
    <3>1. /\ j \in 1..n /\ n + 1 - j \in 1..n /\ t[j] = nodes[n + 1 - j]
          /\ j < n <=> n + 1 - j > 1
          /\ j < n => j + 1 \in 1..n /\ n + 1 - (j + 1) = (n + 1 - j) - 1
      BY <3>0, <1>6, <1>9
    <3>2. next'[nodes[n + 1 - j]] = IF n + 1 - j > 1 THEN nodes[(n + 1 - j) - 1] ELSE NULL
      BY <3>1, <1>10
    <3>3. j < n => t[j + 1] = nodes[(n + 1 - j) - 1]
      BY <3>1, <1>9
    <3> QED BY <3>1, <3>2, <3>3, <1>7
  <2> QED BY <1>7, <2>1, <2>2, <2>3, <2>4 DEF Row
<1>12. Holding(t, data', Backwards(s))
  <2>1. \A j \in 1..n : data'[t[j]] = Backwards(s)[j]
    <3> TAKE j \in 1..n
    <3>1. n + 1 - j \in 1..n /\ t[j] = nodes[n + 1 - j] /\ Backwards(s)[j] = s[n + 1 - j]
      BY <1>8, <1>9
    <3>2. data[nodes[n + 1 - j]] = s[n + 1 - j]
      BY <3>1, <1>2, <1>6
    <3> QED BY <3>1, <3>2, <1>4
  <2> QED BY <2>1, <1>7, <1>8 DEF Holding
<1>13. DlIs(t, Backwards(s))'
  <2>1. len' = Len(Backwards(s)) /\ dOk' = TRUE
    BY <1>2, <1>4, <1>6, <1>8
  <2> QED BY <2>1, <1>11, <1>12 DEF DlIs
<1>14. Back(t, prev')
  <2> SUFFICES ASSUME NEW j \in 1..Len(t)
               PROVE  prev'[t[j]] = IF j > 1 THEN t[j - 1] ELSE NULL
    BY DEF Back
  <2>0. j \in 1..n
    BY <1>7
  <2>4. n + 1 - j \in 1..n /\ t[j] = nodes[n + 1 - j]
    BY <2>0, <1>9
  <2>1. /\ j \in 1..n /\ n + 1 - j \in 1..n
        /\ j > 1 <=> n + 1 - j < n
        /\ j > 1 => j - 1 \in 1..n /\ n + 1 - (j - 1) = (n + 1 - j) + 1
    BY <2>0, <1>6
  <2>2. prev'[nodes[n + 1 - j]] = IF n + 1 - j < n THEN nodes[(n + 1 - j) + 1] ELSE NULL
    BY <2>1, <1>10
  <2>3. j > 1 => t[j - 1] = nodes[(n + 1 - j) + 1]
    BY <2>1, <1>9
  <2> QED BY <2>1, <2>2, <2>3, <2>4
<1>15. DlTyped'
  <2>0. /\ next \in [Node -> Node \cup {NULL}]
        /\ prev \in [Node -> Node \cup {NULL}]
    BY <1>0 DEF DlTyped
  <2>1. next' \in [Node -> Node \cup {NULL}] /\ prev' \in [Node -> Node \cup {NULL}]
    BY <1>4, <2>0
  <2>2. head' \in Node
    BY <1>2, <1>5, <1>6
  <2> QED BY <1>0, <1>4, <2>1, <2>2 DEF DlTyped
<1> QED BY <1>1, <1>4, <1>13, <1>14, <1>15, DlStateNext
=============================================================================
