--------------------------- MODULE ListImplsProofs --------------------------
(* The classes of the lists, whatever is called, for every number of       *)
(* nodes, objects and indexes. First the links of a dlinked_list stay      *)
(* right under every sequence of calls that neither reverses, copies nor   *)
(* removes from a map, the calls on which the classes part included. Then  *)
(* the three classes hold the same, sorted where the interface sorts, and  *)
(* answer alike, until one of them parts.                                  *)
EXTENDS ListChainProofs

-----------------------------------------------------------------------------
(* The links of a dlinked_list.                                            *)

(* The typed links, without which LocalLinks says nothing of a new node. *)
TypedLinks ==
  /\ used \subseteq Node
  /\ next \in [Node -> Node \cup {NULL}]
  /\ prev \in [Node -> Node \cup {NULL}]
  /\ len \in Int

Shape == TypedLinks /\ LocalLinks

ShapeInv == ~crooked => Shape

(* NULL is no node. *)
LEMMA NullIsNoNode == NULL \notin Node
BY NodeAssumption

(* What NewItem() writes between two nodes that may be NULL. *)
LinkedIn(item, p, q) ==
  /\ item \notin used /\ item # NULL
  /\ used' = used \cup {item}
  /\ TypedLinks'
  /\ next'[item] = q /\ prev'[item] = p
  /\ p # NULL => next'[p] = item
  /\ q # NULL => prev'[q] = item
  /\ \A n \in used : n # p => next'[n] = next[n]
  /\ \A n \in used : n # q => prev'[n] = prev[n]

LEMMA NewItemLinks ==
  ASSUME Shape, NEW item \in Node, NEW x,
         NEW p \in used \cup {NULL}, NEW q \in used \cup {NULL},
         NewItem(item, x, p, q)
  PROVE  LinkedIn(item, p, q)
<1>1. item \notin used /\ item # NULL /\ used' = used \cup {item}
  BY NullIsNoNode DEF NewItem
<1>2. next' = [Put(next, p, item) EXCEPT ![item] = q]
  BY DEF NewItem
<1>3. prev' = [Put(prev, q, item) EXCEPT ![item] = p]
  BY DEF NewItem
<1>4. /\ used \subseteq Node /\ p \in Node \cup {NULL} /\ q \in Node \cup {NULL}
      /\ next \in [Node -> Node \cup {NULL}] /\ prev \in [Node -> Node \cup {NULL}]
      /\ len' \in Int
  BY DEF Shape, TypedLinks, NewItem
<1>5. /\ next' \in [Node -> Node \cup {NULL}]
      /\ next'[item] = q
      /\ p # NULL => next'[p] = item
      /\ \A n \in used : n # p => next'[n] = next[n]
  <2>1. CASE p = NULL
    BY <2>1, <1>1, <1>2, <1>4 DEF Put
  <2>2. CASE p # NULL
    BY <2>2, <1>1, <1>2, <1>4 DEF Put
  <2> QED BY <2>1, <2>2
<1>6. /\ prev' \in [Node -> Node \cup {NULL}]
      /\ prev'[item] = p
      /\ q # NULL => prev'[q] = item
      /\ \A n \in used : n # q => prev'[n] = prev[n]
  <2>1. CASE q = NULL
    BY <2>1, <1>1, <1>3, <1>4 DEF Put
  <2>2. CASE q # NULL
    BY <2>2, <1>1, <1>3, <1>4 DEF Put
  <2> QED BY <2>1, <2>2
<1> QED BY <1>1, <1>4, <1>5, <1>6 DEF TypedLinks, LinkedIn

(* The first object of a list is both its head and its tail. *)
LEMMA FirstNode ==
  ASSUME Shape, head = NULL, NEW item \in Node, NEW x,
         NewItem(item, x, NULL, NULL), head' = item, tail' = item
  PROVE  Shape'
<1>1. LinkedIn(item, NULL, NULL)
  BY NewItemLinks
<1>2. LocalLinks /\ tail = NULL /\ NULL \notin used
  BY NullIsNoNode DEF Shape, LocalLinks, TypedLinks
<1>3. LocalLinks'
  BY <1>1, <1>2 DEF LocalLinks, LinkedIn
<1> QED BY <1>1, <1>3 DEF Shape, LinkedIn

(* An object behind the tail. *)
LEMMA AppendedNode ==
  ASSUME Shape, tail # NULL, NEW item \in Node, NEW x,
         NewItem(item, x, tail, NULL), tail' = item, head' = head
  PROVE  Shape'
<1>1. LocalLinks /\ tail \in used
  BY DEF Shape, LocalLinks
<1>3. NULL \notin used
  BY NullIsNoNode DEF Shape, TypedLinks
<1>5. PICK last \in used : last = tail
  BY <1>1
<1>6. NewItem(item, x, last, NULL)
  BY <1>5 DEF NewItem
<1>2. LinkedIn(item, last, NULL)
  BY <1>6, NewItemLinks
<1>4. LocalLinks'
  BY <1>1, <1>2, <1>3, <1>5 DEF LocalLinks, LinkedIn
<1> QED BY <1>2, <1>4 DEF Shape, LinkedIn

(* An object in front of the head. *)
LEMMA PrependedNode ==
  ASSUME Shape, head # NULL, NEW item \in Node, NEW x,
         NewItem(item, x, NULL, head), head' = item, tail' = tail
  PROVE  Shape'
<1>1. LocalLinks /\ head \in used
  BY DEF Shape, LocalLinks
<1>3. NULL \notin used
  BY NullIsNoNode DEF Shape, TypedLinks
<1>5. PICK first \in used : first = head
  BY <1>1
<1>6. NewItem(item, x, NULL, first)
  BY <1>5 DEF NewItem
<1>2. LinkedIn(item, NULL, first)
  BY <1>6, NewItemLinks
<1>4. LocalLinks'
  BY <1>1, <1>2, <1>3, <1>5 DEF LocalLinks, LinkedIn
<1> QED BY <1>2, <1>4 DEF Shape, LinkedIn

LEMMA AppendKeepsShape ==
  ASSUME Shape, NEW x, DlAppend(x)
  PROVE  Shape'
<1>1. CASE tail = NULL
  <2>1. head = NULL
    BY <1>1 DEF Shape, LocalLinks
  <2> QED BY <1>1, <2>1, FirstNode DEF DlAppend
<1>2. CASE tail # NULL
  BY <1>2, AppendedNode DEF DlAppend
<1> QED BY <1>1, <1>2

LEMMA PrependKeepsShape ==
  ASSUME Shape, NEW x, DlPrepend(x)
  PROVE  Shape'
<1>1. CASE head = NULL
  BY <1>1, FirstNode DEF DlPrepend
<1>2. CASE head # NULL
  BY <1>2, PrependedNode DEF DlPrepend
<1> QED BY <1>1, <1>2

(* A step that leaves the links alone. *)
LEMMA SameLinksKeepShape ==
  ASSUME Shape, UNCHANGED <<used, next, prev, head, tail, len>>
  PROVE  Shape'
BY DEF Shape, TypedLinks, LocalLinks

LEMMA InsertAfterKeepsShape ==
  ASSUME Shape, NEW current \in used, NEW x, InsertAfter(current, x)
  PROVE  Shape'
<1>1. CASE next[current] = NULL
  BY <1>1, SameLinksKeepShape DEF InsertAfter, DlUndefined
<1>2. CASE next[current] # NULL
  <2>0. PICK q \in used : q = next[current]
    BY <1>2 DEF Shape, LocalLinks
  <2>1. PICK item \in Node : NewItem(item, x, current, q)
    BY <1>2, <2>0 DEF InsertAfter, NewItem
  <2>2. head' = head /\ tail' = tail
    BY <1>2 DEF InsertAfter
  <2>3. LocalLinks /\ q \in used /\ prev[q] = current /\ q # NULL
    BY <1>2, <2>0 DEF Shape, LocalLinks
  <2>4. NULL \notin used
    BY NullIsNoNode DEF Shape, TypedLinks
  <2>5. LinkedIn(item, current, q)
    BY <2>1, NewItemLinks
  <2>7. LocalLinks'
    BY <2>2, <2>3, <2>4, <2>5, <2>0 DEF LocalLinks, LinkedIn
  <2> QED BY <2>5, <2>7 DEF Shape, LinkedIn
<1> QED BY <1>1, <1>2

LEMMA InsertKeepsShape ==
  ASSUME Shape, NEW x, DlInsert(x)
  PROVE  Shape'
<1>1. CASE DlPrepend(x)
  BY <1>1, PrependKeepsShape
<1>2. CASE DlUndefined
  BY <1>2, SameLinksKeepShape DEF DlUndefined
<1>3. CASE DlAppend(x)
  BY <1>3, AppendKeepsShape
<1>4. CASE \E current \in used : InsertAfter(current, x)
  BY <1>4, InsertAfterKeepsShape
<1> QED BY <1>1, <1>2, <1>3, <1>4 DEF DlInsert

(* The nodes of insert_at()'s padding, one behind the other. *)
LEMMA AppendAllKeepsShape ==
  ASSUME Shape, tail # NULL, NEW s, Len(s) \in Nat \ {0}, DlAppendAll(s)
  PROVE  Shape'
<1> DEFINE k == Len(s)
<1>1. PICK item \in [1..k -> Node \ used] :
        LET at(n) == CHOOSE i \in 1..k : item[i] = n
            new   == {item[i] : i \in 1..k}
        IN /\ \A i, j \in 1..k : item[i] = item[j] => i = j
           /\ used' = used \cup new
           /\ next' = [n \in Node |->
                         CASE n = tail                -> item[1]
                           [] n \in new /\ at(n) < k  -> item[at(n) + 1]
                           [] n \in new /\ at(n) = k  -> NULL
                           [] OTHER                   -> next[n]]
           /\ prev' = [n \in Node |->
                         CASE n \in new /\ at(n) = 1 -> tail
                           [] n \in new /\ at(n) > 1 -> item[at(n) - 1]
                           [] OTHER                  -> prev[n]]
           /\ tail' = item[k]
           /\ len' = len + k
           /\ head' = head
  BY DEF DlAppendAll
<1> DEFINE at(n) == CHOOSE i \in 1..k : item[i] = n
           new   == {item[i] : i \in 1..k}
<1>2. k \in Nat /\ k >= 1
  OBVIOUS
<1> HIDE DEF k
<1>3. \A i \in 1..k : item[i] \in Node /\ item[i] \notin used /\ item[i] \in new
  OBVIOUS
<1>4. \A i \in 1..k : at(item[i]) = i
  <2>1. TAKE i \in 1..k
  <2>2. at(item[i]) \in 1..k /\ item[at(item[i])] = item[i]
    OBVIOUS
  <2> QED BY <1>1, <2>2
<1>5. \A n \in new : \E i \in 1..k : n = item[i]
  OBVIOUS
<1>6. LocalLinks /\ TypedLinks /\ tail \in used /\ NULL \notin Node
  BY NullIsNoNode DEF Shape, LocalLinks
<1>7. tail \in Node /\ tail \notin new
  BY <1>3, <1>5, <1>6 DEF TypedLinks
<1>8. used' = used \cup new /\ tail' = item[k] /\ head' = head /\ len' = len + k
  BY <1>1
<1>9. next' = [n \in Node |->
                 CASE n = tail                -> item[1]
                   [] n \in new /\ at(n) < k  -> item[at(n) + 1]
                   [] n \in new /\ at(n) = k  -> NULL
                   [] OTHER                   -> next[n]]
  BY <1>1
<1>10. prev' = [n \in Node |->
                 CASE n \in new /\ at(n) = 1 -> tail
                   [] n \in new /\ at(n) > 1 -> item[at(n) - 1]
                   [] OTHER                  -> prev[n]]
  BY <1>1
<1> HIDE DEF at, new
<1>11. /\ next'[tail] = item[1]
       /\ \A i \in 1..k : i < k => next'[item[i]] = item[i + 1]
       /\ next'[item[k]] = NULL
       /\ \A n \in used : n # tail => next'[n] = next[n]
  <2>1. next'[tail] = item[1]
    BY <1>7, <1>9
  <2>2. \A i \in 1..k : i < k => next'[item[i]] = item[i + 1]
    BY <1>2, <1>3, <1>4, <1>7, <1>9
  <2>3. next'[item[k]] = NULL
    BY <1>2, <1>3, <1>4, <1>7, <1>9
  <2>4. \A n \in used : n # tail => next'[n] = next[n]
    BY <1>3, <1>5, <1>6, <1>9 DEF TypedLinks
  <2> QED BY <2>1, <2>2, <2>3, <2>4
<1>12. /\ prev'[item[1]] = tail
       /\ \A i \in 1..k : i > 1 => prev'[item[i]] = item[i - 1]
       /\ \A n \in used : prev'[n] = prev[n]
  <2>1. prev'[item[1]] = tail
    BY <1>2, <1>3, <1>4, <1>10
  <2>2. \A i \in 1..k : i > 1 => prev'[item[i]] = item[i - 1]
    BY <1>2, <1>3, <1>4, <1>10
  <2>3. \A n \in used : prev'[n] = prev[n]
    BY <1>3, <1>5, <1>6, <1>10 DEF TypedLinks
  <2> QED BY <2>1, <2>2, <2>3
<1>13. TypedLinks'
  <2>1. used' \subseteq Node /\ len' \in Int
    BY <1>2, <1>3, <1>5, <1>6, <1>8 DEF TypedLinks
  <2>2. ASSUME NEW n \in Node
        PROVE  next'[n] \in Node \cup {NULL} /\ prev'[n] \in Node \cup {NULL}
    <3>1. CASE n \in new
      <4>1. PICK i \in 1..k : n = item[i]
        BY <3>1, <1>5
      <4>2. i < k => i + 1 \in 1..k
        BY <1>2
      <4>3. i > 1 => i - 1 \in 1..k
        BY <1>2
      <4>4. (i < k \/ i = k) /\ (i > 1 \/ i = 1)
        BY <1>2
      <4> QED BY <4>1, <4>2, <4>3, <4>4, <1>3, <1>7, <1>11, <1>12
    <3>2. CASE n \notin new
      <4>1. prev'[n] = prev[n]
        BY <3>2, <1>10
      <4>2. n # tail => next'[n] = next[n]
        BY <3>2, <1>9
      <4>3. item[1] \in Node
        BY <1>2, <1>3
      <4> QED BY <4>1, <4>2, <4>3, <1>6, <1>11 DEF TypedLinks
    <3> QED BY <3>1, <3>2
  <2>3. /\ next' \in [Node -> Node \cup {NULL}]
        /\ prev' \in [Node -> Node \cup {NULL}]
    <3>1. next' = [n \in Node |-> next'[n]] /\ prev' = [n \in Node |-> prev'[n]]
      BY <1>9, <1>10
    <3> QED BY <2>2, <3>1
  <2> QED BY <2>1, <2>3 DEF TypedLinks
<1>14. LocalLinks'
  <2>1. /\ \A i \in 1..k : i < k => i + 1 \in 1..k /\ i + 1 > 1 /\ (i + 1) - 1 = i
        /\ \A i \in 1..k : i > 1 => i - 1 \in 1..k /\ i - 1 < k /\ (i - 1) + 1 = i
        /\ \A i \in 1..k : (i < k \/ i = k) /\ (i > 1 \/ i = 1)
        /\ 1 \in 1..k /\ k \in 1..k
    BY <1>2
  <2>2. \A n \in used' : n \in used \/ \E i \in 1..k : n = item[i]
    BY <1>5, <1>8
  <2>3. NULL \notin used /\ \A i \in 1..k : item[i] # NULL /\ item[i] \in used'
    BY <1>3, <1>6, <1>8 DEF TypedLinks
  <2>4. head \in used /\ tail' \in used'
    <3>1. tail # NULL
      BY <1>6 DEF TypedLinks
    <3> QED BY <3>1, <1>6, <1>8, <2>1, <2>3 DEF LocalLinks
  <2>5. ASSUME NEW n \in used
        PROVE  /\ next'[n] \in used' \cup {NULL} /\ prev'[n] \in used' \cup {NULL}
               /\ next'[n] # NULL => prev'[next'[n]] = n
               /\ prev'[n] # NULL => next'[prev'[n]] = n
               /\ prev'[n] = NULL <=> n = head'
               /\ next'[n] # NULL /\ n # tail'
    <3>1. prev'[n] = prev[n] /\ (n # tail => next'[n] = next[n])
      BY <1>11, <1>12
    <3>2. CASE n = tail
      <4>1. next'[n] = item[1] /\ prev'[item[1]] = n
        BY <3>2, <1>11, <1>12
      <4>2. prev[n] \in used \cup {NULL} /\ prev[n] # tail
        <5>1. prev[n] \in used \cup {NULL} /\ next[n] = NULL
          BY <3>2, <1>6 DEF LocalLinks
        <5>2. prev[n] # NULL => next[prev[n]] = n
          BY <1>6 DEF LocalLinks
        <5> QED BY <3>2, <5>1, <5>2, <2>3
      <4>3. prev[n] # NULL => next'[prev[n]] = n
        BY <4>2, <1>6, <1>11 DEF LocalLinks
      <4> QED BY <3>1, <4>1, <4>2, <4>3, <1>3, <1>6, <1>8, <2>1, <2>3 DEF LocalLinks
    <3>3. CASE n # tail
      <4>1. next'[n] = next[n] /\ next[n] \in used
        BY <3>1, <3>3, <1>6 DEF LocalLinks
      <4>2. prev'[next[n]] = n
        BY <4>1, <1>6, <1>12, <2>3 DEF LocalLinks
      <4>3. prev[n] # NULL => next'[prev[n]] = n
        <5>1. prev[n] # NULL => next[prev[n]] = n /\ prev[n] \in used
          BY <1>6 DEF LocalLinks
        <5>2. next[tail] = NULL /\ n # NULL
          BY <1>6, <2>3 DEF LocalLinks
        <5> QED BY <5>1, <5>2, <1>11
      <4>4. n # tail'
        BY <1>3, <1>8, <2>1
      <4>5. prev[n] \in used \cup {NULL} /\ (prev[n] = NULL <=> n = head)
        BY <1>6 DEF LocalLinks
      <4>6. /\ next'[n] \in used' \cup {NULL} /\ next'[n] # NULL
            /\ next'[n] # NULL => prev'[next'[n]] = n
        BY <4>1, <4>2, <1>8, <2>3
      <4>7. /\ prev'[n] \in used' \cup {NULL}
            /\ prev'[n] = NULL <=> n = head'
        BY <3>1, <4>5, <1>8
      <4>8. prev'[n] # NULL => next'[prev'[n]] = n
        BY <3>1, <4>3
      <4> QED BY <4>4, <4>6, <4>7, <4>8
    <3> QED BY <3>2, <3>3
  <2>6. ASSUME NEW i \in 1..k
        PROVE  LET n == item[i] IN
               /\ next'[n] \in used' \cup {NULL} /\ prev'[n] \in used' \cup {NULL}
               /\ next'[n] # NULL => prev'[next'[n]] = n
               /\ prev'[n] # NULL => next'[prev'[n]] = n
               /\ prev'[n] # NULL /\ n # head'
               /\ next'[n] = NULL <=> n = tail'
    <3>1. i < k => /\ next'[item[i]] = item[i + 1] /\ item[i + 1] \in used'
                   /\ prev'[item[i + 1]] = item[i] /\ item[i + 1] # NULL
      BY <1>11, <1>12, <2>1, <2>3
    <3>2. i > 1 => /\ prev'[item[i]] = item[i - 1] /\ item[i - 1] \in used'
                   /\ next'[item[i - 1]] = item[i] /\ item[i - 1] # NULL
      BY <1>11, <1>12, <2>1, <2>3
    <3>3. i = 1 => prev'[item[i]] = tail /\ next'[tail] = item[i] /\ tail # NULL
      BY <1>11, <1>12
    <3>4. i = k => next'[item[i]] = NULL /\ item[i] = tail'
      BY <1>8, <1>11
    <3>5. item[i] = tail' => i = k
      BY <1>4, <1>8, <2>1
    <3>6. item[i] # head'
      BY <1>3, <1>8, <2>4
    <3>7. i < k => next'[item[i]] # NULL /\ item[i] # tail'
      BY <3>1, <3>5, <1>2
    <3>8. /\ next'[item[i]] \in used' \cup {NULL}
          /\ next'[item[i]] # NULL => prev'[next'[item[i]]] = item[i]
          /\ next'[item[i]] = NULL <=> item[i] = tail'
      BY <3>1, <3>4, <3>7, <2>1
    <3>9. /\ prev'[item[i]] \in used' \cup {NULL}
          /\ prev'[item[i]] # NULL => next'[prev'[item[i]]] = item[i]
          /\ prev'[item[i]] # NULL
      BY <3>2, <3>3, <1>6, <1>8, <2>1
    <3> QED BY <3>6, <3>8, <3>9
  <2>7. ASSUME NEW n \in used'
        PROVE  /\ next'[n] \in used' \cup {NULL} /\ prev'[n] \in used' \cup {NULL}
               /\ next'[n] # NULL => prev'[next'[n]] = n
               /\ prev'[n] # NULL => next'[prev'[n]] = n
               /\ prev'[n] = NULL <=> n = head'
               /\ next'[n] = NULL <=> n = tail'
    <3>1. CASE n \in used
      BY <3>1, <2>5
    <3>2. CASE \E i \in 1..k : n = item[i]
      BY <3>2, <2>6
    <3> QED BY <3>1, <3>2, <2>2
  <2>8. used' # {} /\ head' \in used' /\ tail' \in used' /\ head' # NULL /\ tail' # NULL
    BY <1>8, <2>1, <2>3, <2>4
  <2> QED BY <2>7, <2>8 DEF LocalLinks
<1> QED BY <1>13, <1>14 DEF Shape

(* An index found in insert_at(). *)
LEMMA InsertAtKeepsShape ==
  ASSUME Shape, NEW x, NEW index \in Int, DlInsertAt(x, index)
  PROVE  Shape'
<1> DEFINE idx == FromEnd(index, len)
<1>1. idx \in Int /\ len \in Int
  BY DEF Shape, TypedLinks, FromEnd
<1>2. CASE UNCHANGED dlinked
  BY <1>2, SameLinksKeepShape DEF dlinked
<1>3. CASE DlPrepend(x)
  BY <1>3, PrependKeepsShape
<1>4. CASE DlAppend(x)
  BY <1>4, AppendKeepsShape
<1>5. CASE idx > len /\ tail # NULL /\ DlAppendAll(Nulls(idx - len) \o <<x>>)
  <2>1. PICK pad \in Nat : pad = idx - len
    BY <1>1, <1>5
  <2>2. Nulls(pad) \in Seq({Null}) /\ Len(Nulls(pad)) = pad
    BY DEF Nulls
  <2>3. Len(Nulls(pad) \o <<x>>) \in Nat \ {0}
    BY <2>2
  <2>4. DlAppendAll(Nulls(pad) \o <<x>>)
    BY <1>5, <2>1
  <2> QED BY <1>5, <2>3, <2>4, AppendAllKeepsShape
<1>6. CASE \E current \in used : InsertAfter(current, x)
  BY <1>6, InsertAfterKeepsShape
<1> QED BY <1>2, <1>3, <1>4, <1>5, <1>6 DEF DlInsertAt

(* A node taken out: its neighbours are each other's. *)
LEMMA UnlinkKeepsShape ==
  ASSUME Shape, NEW n \in used, Unlink(n)
  PROVE  Shape'
<1>1. LocalLinks /\ TypedLinks /\ NULL \notin used /\ n \in Node
  BY NullIsNoNode DEF Shape, TypedLinks
<1>2. PICK p \in used \cup {NULL} : p = prev[n]
  BY <1>1 DEF LocalLinks
<1>3. PICK q \in used \cup {NULL} : q = next[n]
  BY <1>1 DEF LocalLinks
<1>4. /\ used' = used \ {n}
      /\ next' = [Put(next, p, q) EXCEPT ![n] = NULL]
      /\ prev' = [Put(prev, q, p) EXCEPT ![n] = NULL]
      /\ head' = IF n = head THEN q ELSE head
      /\ tail' = IF n = tail THEN p ELSE tail
      /\ len' = len - 1
  BY <1>2, <1>3 DEF Unlink
<1>5. p \in Node \cup {NULL} /\ q \in Node \cup {NULL}
  BY <1>1 DEF TypedLinks
<1>6. /\ next' \in [Node -> Node \cup {NULL}]
      /\ p # NULL /\ p # n => next'[p] = q
      /\ \A m \in used : m # p /\ m # n => next'[m] = next[m]
  <2>1. CASE p = NULL
    BY <2>1, <1>1, <1>4, <1>5 DEF Put, TypedLinks
  <2>2. CASE p # NULL
    BY <2>2, <1>1, <1>4, <1>5 DEF Put, TypedLinks
  <2> QED BY <2>1, <2>2
<1>7. /\ prev' \in [Node -> Node \cup {NULL}]
      /\ q # NULL /\ q # n => prev'[q] = p
      /\ \A m \in used : m # q /\ m # n => prev'[m] = prev[m]
  <2>1. CASE q = NULL
    BY <2>1, <1>1, <1>4, <1>5 DEF Put, TypedLinks
  <2>2. CASE q # NULL
    BY <2>2, <1>1, <1>4, <1>5 DEF Put, TypedLinks
  <2> QED BY <2>1, <2>2
<1>8. TypedLinks'
  BY <1>1, <1>4, <1>6, <1>7 DEF TypedLinks
<1>9. LocalLinks'
  <2>1. /\ p # NULL => next[p] = n
        /\ q # NULL => prev[q] = n
        /\ p = NULL <=> n = head
        /\ q = NULL <=> n = tail
    BY <1>1, <1>2, <1>3 DEF LocalLinks
  <2>2. ASSUME NEW m \in used, m # n
        PROVE  /\ next'[m] \in used' \cup {NULL}
               /\ next'[m] # NULL => prev'[next'[m]] = m
               /\ next'[m] = NULL <=> m = tail'
    <3>1. CASE m = p
      <4>1. next'[m] = q /\ m # NULL /\ n # head
        BY <3>1, <2>1, <2>2, <1>1, <1>6
      <4>2. q # n
        <5>1. q = n => prev[n] = n
          BY <2>1, <1>1
        <5> QED BY <5>1, <3>1, <2>2, <1>2
      <4>3. q # NULL => prev'[q] = m
        BY <3>1, <4>2, <1>7
      <4>4. next[m] = n /\ m # tail
        BY <3>1, <2>1, <2>2, <4>1, <1>1 DEF LocalLinks
      <4> QED BY <3>1, <4>1, <4>2, <4>3, <4>4, <2>1, <1>4
    <3>2. CASE m # p
      <4>1. next'[m] = next[m] /\ next[m] \in used \cup {NULL}
        BY <3>2, <2>2, <1>1, <1>6 DEF LocalLinks
      <4>2. next[m] # NULL => prev[next[m]] = m
        BY <2>2, <1>1 DEF LocalLinks
      <4>3. next[m] # n /\ (next[m] = q => q = NULL)
        BY <4>2, <3>2, <2>1, <2>2, <1>1, <1>2
      <4>4. next[m] # NULL => prev'[next[m]] = prev[next[m]]
        BY <4>1, <4>3, <1>7
      <4>5. next[m] = NULL <=> m = tail
        BY <2>2, <1>1 DEF LocalLinks
      <4>6. m = tail' <=> m = tail
        <5>1. CASE n = tail
          BY <5>1, <3>2, <2>2, <1>4
        <5>2. CASE n # tail
          BY <5>2, <1>4
        <5> QED BY <5>1, <5>2
      <4> QED BY <4>1, <4>2, <4>3, <4>4, <4>5, <4>6, <1>4
    <3> QED BY <3>1, <3>2
  <2>3. ASSUME NEW m \in used, m # n
        PROVE  /\ prev'[m] \in used' \cup {NULL}
               /\ prev'[m] # NULL => next'[prev'[m]] = m
               /\ prev'[m] = NULL <=> m = head'
    <3>1. CASE m = q
      <4>1. prev'[m] = p /\ m # NULL /\ n # tail
        BY <3>1, <2>1, <2>3, <1>1, <1>7
      <4>2. p # n
        <5>1. p = n => next[n] = n
          BY <2>1, <1>1
        <5> QED BY <5>1, <3>1, <2>3, <1>3
      <4>3. p # NULL => next'[p] = m
        BY <3>1, <4>2, <1>6
      <4>4. prev[m] = n /\ m # head
        BY <3>1, <2>1, <2>3, <4>1, <1>1 DEF LocalLinks
      <4> QED BY <3>1, <4>1, <4>2, <4>3, <4>4, <2>1, <1>4
    <3>2. CASE m # q
      <4>1. prev'[m] = prev[m] /\ prev[m] \in used \cup {NULL}
        BY <3>2, <2>3, <1>1, <1>7 DEF LocalLinks
      <4>2. prev[m] # NULL => next[prev[m]] = m
        BY <2>3, <1>1 DEF LocalLinks
      <4>3. prev[m] # n /\ (prev[m] = p => p = NULL)
        BY <4>2, <3>2, <2>1, <2>3, <1>1, <1>3
      <4>4. prev[m] # NULL => next'[prev[m]] = next[prev[m]]
        BY <4>1, <4>3, <1>6
      <4>5. prev[m] = NULL <=> m = head
        BY <2>3, <1>1 DEF LocalLinks
      <4>6. m = head' <=> m = head
        <5>1. CASE n = head
          BY <5>1, <3>2, <2>3, <1>4
        <5>2. CASE n # head
          BY <5>2, <1>4
        <5> QED BY <5>1, <5>2
      <4> QED BY <4>1, <4>2, <4>3, <4>4, <4>5, <4>6, <1>4
    <3> QED BY <3>1, <3>2
  <2>4. head' \in used' \cup {NULL} /\ tail' \in used' \cup {NULL}
    <3>1. head \in used \cup {NULL} /\ tail \in used \cup {NULL}
      BY <1>1 DEF LocalLinks
    <3>2. n = head => q # n
      BY <2>1, <1>1, <1>2
    <3>3. n = tail => p # n
      BY <2>1, <1>1, <1>3
    <3> QED BY <3>1, <3>2, <3>3, <1>4
  <2>5. head' = NULL <=> tail' = NULL
    <3>1. head = NULL <=> tail = NULL
      BY <1>1 DEF LocalLinks
    <3>2. n = head /\ n = tail => head' = NULL /\ tail' = NULL
      BY <2>1, <1>4
    <3>3. n # head /\ n # tail => head' = head /\ tail' = tail
      BY <1>4
    <3>4. n = head /\ n # tail => head' # NULL /\ tail' # NULL
      BY <2>1, <3>1, <1>1, <1>4
    <3>5. n # head /\ n = tail => head' # NULL /\ tail' # NULL
      BY <2>1, <3>1, <1>1, <1>4
    <3> QED BY <3>1, <3>2, <3>3, <3>4, <3>5
  <2>6. \A m \in used' : m \in used /\ m # n
    BY <1>4
  <2> QED BY <2>2, <2>3, <2>4, <2>5, <2>6 DEF LocalLinks
<1> QED BY <1>8, <1>9 DEF Shape

LEMMA RemoveKeepsShape ==
  ASSUME Shape, NEW x, DlRemove(x)
  PROVE  Shape'
<1>1. UNCHANGED dlinked \/ \E n \in used : Unlink(n)
  BY DEF DlRemove
<1> QED BY <1>1, SameLinksKeepShape, UnlinkKeepsShape DEF dlinked

LEMMA RemoveAtKeepsShape ==
  ASSUME Shape, NEW index, DlRemoveAt(index)
  PROVE  Shape'
<1>1. UNCHANGED dlinked \/ \E n \in used : Unlink(n)
  BY DEF DlRemoveAt
<1> QED BY <1>1, SameLinksKeepShape, UnlinkKeepsShape DEF dlinked

LEMMA SetKeepsShape ==
  ASSUME Shape, NEW k, NEW v, DlSet(k, v)
  PROVE  Shape'
<1>1. DlInsert(<<k, v>>) \/ UNCHANGED <<used, next, prev, head, tail, len>>
  BY DEF DlSet
<1> QED BY <1>1, SameLinksKeepShape, InsertKeepsShape

LEMMA EmptyHasShape ==
  ASSUME DlEmpty
  PROVE  Shape'
BY NullIsNoNode DEF DlEmpty, Shape, TypedLinks, LocalLinks

LEMMA InitHasShape ==
  ASSUME Init
  PROVE  Shape
BY NullIsNoNode DEF Init, DlInit, Shape, TypedLinks, LocalLinks

(* Each call either keeps the shape or counts as crooked; new lists and    *)
(* done() have it again.                                                   *)
LEMMA NextKeepsShape ==
  ASSUME ShapeInv, [Next]_vars
  PROVE  ShapeInv'
<1>1. ASSUME NEW x \in Plain, DoAppend(x)
      PROVE  ShapeInv'
  BY <1>1, AppendKeepsShape DEF ShapeInv, DoAppend
<1>2. ASSUME NEW x \in Plain, DoPrepend(x)
      PROVE  ShapeInv'
  BY <1>2, PrependKeepsShape DEF ShapeInv, DoPrepend
<1>3. ASSUME NEW x \in Plain, DoInsert(x)
      PROVE  ShapeInv'
  BY <1>3, InsertKeepsShape DEF ShapeInv, DoInsert
<1>4. ASSUME NEW x \in Plain, NEW index \in Indexes, DoInsertAt(x, index)
      PROVE  ShapeInv'
  <2>1. index \in Int
    BY DEF Indexes
  <2> QED BY <1>4, <2>1, InsertAtKeepsShape DEF ShapeInv, DoInsertAt
<1>5. ASSUME NEW x \in Plain, DoRemove(x)
      PROVE  ShapeInv'
  BY <1>5, RemoveKeepsShape DEF ShapeInv, DoRemove
<1>6. ASSUME NEW index \in Indexes, DoRemoveAt(index)
      PROVE  ShapeInv'
  BY <1>6, RemoveAtKeepsShape DEF ShapeInv, DoRemoveAt
<1>7. CASE DoReverse
  <2>1. CASE head = NULL
    <3>1. DlUndefined /\ (~crooked' => ~crooked)
      BY <1>7, <2>1 DEF DoReverse, DlReverse
    <3> QED BY <3>1, SameLinksKeepShape DEF ShapeInv, DlUndefined
  <2>2. CASE head # NULL
    BY <1>7, <2>2 DEF ShapeInv, DoReverse
  <2> QED BY <2>1, <2>2
<1>8. ASSUME NEW k \in Keys, NEW v \in Values, DoSet(k, v)
      PROVE  ShapeInv'
  BY <1>8, SetKeepsShape DEF ShapeInv, DoSet
<1>9. ASSUME NEW k \in Keys, DoMapRemove(k)
      PROVE  ShapeInv'
  <2>1. UNCHANGED dlinked \/ used' # used
    BY <1>9 DEF DoMapRemove, DlMapRemove
  <2> QED BY <1>9, <2>1, SameLinksKeepShape DEF ShapeInv, DoMapRemove, dlinked
<1>10. CASE DoDup
  <2>1. CASE head = NULL
    <3>1. DlUndefined /\ (~crooked' => ~crooked)
      BY <1>10, <2>1 DEF DoDup, DlDup
    <3> QED BY <3>1, SameLinksKeepShape DEF ShapeInv, DlUndefined
  <2>2. CASE head # NULL
    BY <1>10, <2>2 DEF ShapeInv, DoDup
  <2> QED BY <2>1, <2>2
<1>11. CASE DoDone
  <2>1. CASE len = 0
    BY <1>11, <2>1, SameLinksKeepShape DEF ShapeInv, DoDone, DlDone, dlinked
  <2>2. CASE len # 0
    BY <1>11, <2>2, EmptyHasShape DEF ShapeInv, DoDone, DlDone
  <2> QED BY <2>1, <2>2
<1>12. CASE NewLists
  BY <1>12, EmptyHasShape DEF ShapeInv, NewLists, DlNew
<1>13. CASE UNCHANGED vars
  BY <1>13, SameLinksKeepShape DEF ShapeInv, vars, dlinked
<1> QED
  BY <1>1, <1>2, <1>3, <1>4, <1>5, <1>6, <1>7, <1>8, <1>9, <1>10, <1>11, <1>12, <1>13
     DEF Next

(* Whatever a client calls, in whatever order, on however many nodes, no   *)
(* link of a dlinked_list is wrong before the first reverse(), dup() or    *)
(* map removal (dlinked_list.c).                                           *)
THEOREM LinksStayRight == Spec => []Linked
<1>1. Init => ShapeInv
  BY InitHasShape DEF ShapeInv
<1>2. ShapeInv /\ [Next]_vars => ShapeInv'
  BY NextKeepsShape
<1>3. ShapeInv => Linked
  BY DEF ShapeInv, Shape, Linked
<1> QED BY <1>1, <1>2, <1>3, PTL DEF Spec

-----------------------------------------------------------------------------
(* The sequences of the three classes.                                     *)

(* Two sequences of cells with the same cells are the same.                *)
LEMMA SameCells ==
  ASSUME NEW s \in Seq(Cells), NEW t \in Seq(Cells), Len(s) = Len(t),
         \A i \in 1..Len(s) : s[i] = t[i]
  PROVE  s = t
BY SeqEqual

(* Keys and values are numbers, and no object is Null.                      *)
LEMMA CellTyped ==
  /\ \A c \in Cells : c[1] \in Nat /\ c[2] \in Nat
  /\ \A c \in Plain : c[1] \in Keys /\ c[1] \in Nat /\ c[1] > 0 /\ c[2] = 0 /\ c = <<c[1], 0>>
  /\ \A c \in Pairs : c[1] \in Keys /\ c[2] \in Values /\ c[1] \in Nat /\ c[1] > 0
  /\ Null \in Cells /\ Null[1] = 0 /\ Null[2] = 0 /\ Plain \subseteq Cells /\ Pairs \subseteq Cells
  /\ \A c \in Plain : c # Null
<1>1. /\ \A k \in Keys : k \in Nat /\ k > 0
      /\ \A v \in Values : v \in Nat
  BY ObjectsAssumption
<1>2. \A c \in Plain : /\ c[1] \in Keys /\ c[1] \in Nat /\ c[1] > 0 /\ c[2] = 0
                       /\ c = <<c[1], 0>> /\ c[2] \in Nat
  BY <1>1 DEF Plain
<1>3. \A c \in Pairs : c[1] \in Keys /\ c[2] \in Values /\ c[1] \in Nat /\ c[1] > 0 /\ c[2] \in Nat
  BY <1>1 DEF Pairs
<1>4. Null[1] = 0 /\ Null[2] = 0
  BY DEF Null
<1>5. Null \in Cells /\ Plain \subseteq Cells /\ Pairs \subseteq Cells
  BY DEF Cells, Objs
<1>6. \A c \in Cells : c \in Plain \/ c \in Pairs \/ c = Null
  BY DEF Cells, Objs
<1>7. \A c \in Cells : c[1] \in Nat /\ c[2] \in Nat
  BY <1>2, <1>3, <1>4, <1>6
<1>8. \A c \in Plain : c # Null
  BY <1>2, <1>4
<1> QED BY <1>2, <1>3, <1>4, <1>5, <1>7, <1>8

(* So are the keys of what a list holds.                                    *)
LEMMA KeyOf ==
  ASSUME NEW s \in Seq(Cells)
  PROVE  \A i \in 1..Len(s) : s[i] \in Cells /\ s[i][1] \in Nat
<1>1. \A i \in 1..Len(s) : s[i] \in Cells
  OBVIOUS
<1> QED BY <1>1, CellTyped

(* The loops over a list.                                                  *)
LEMMA PlaceIs ==
  ASSUME NEW s \in Seq(Cells), NEW x
  PROVE  /\ PlaceFor(s, x) \in 1..(Len(s) + 1)
         /\ PlaceFor(s, x) <= Len(s) => ~Less(s[PlaceFor(s, x)], x)
         /\ \A j \in 1..Len(s) : j < PlaceFor(s, x) => Less(s[j], x)
<1> DEFINE stops == {i \in 1..Len(s) : ~Less(s[i], x)}
           c == Scan(s, stops)
<1>1. stops \in SUBSET (1..Len(s))
  OBVIOUS
<1>2. c \in 1..(Len(s) + 1) /\ (c <= Len(s) => c \in stops) /\ \A j \in stops : c <= j
  <2> HIDE DEF stops
  <2> QED BY <1>1, ScanFirst
<1>3. PlaceFor(s, x) = c
  BY DEF PlaceFor
<1> HIDE DEF c
<1>4. \A j \in 1..Len(s) : j < c => Less(s[j], x)
  BY <1>2
<1> QED BY <1>2, <1>3, <1>4

(* That of index(), find() and remove(): the first equal one.               *)
LEMMA FirstSameIs ==
  ASSUME NEW s \in Seq(Cells), NEW x
  PROVE  /\ FirstSame(s, x) \in 1..(Len(s) + 1)
         /\ FirstSame(s, x) <= Len(s) => Same(x, s[FirstSame(s, x)])
         /\ \A j \in 1..Len(s) : j < FirstSame(s, x) => ~Same(x, s[j])
<1> DEFINE stops == {i \in 1..Len(s) : Same(x, s[i])}
           c == Scan(s, stops)
<1>1. stops \in SUBSET (1..Len(s))
  OBVIOUS
<1>2. c \in 1..(Len(s) + 1) /\ (c <= Len(s) => c \in stops) /\ \A j \in stops : c <= j
  <2> HIDE DEF stops
  <2> QED BY <1>1, ScanFirst
<1>3. FirstSame(s, x) = c
  BY DEF FirstSame
<1> HIDE DEF c
<1>4. \A j \in 1..Len(s) : j < c => ~Same(x, s[j])
  BY <1>2
<1> QED BY <1>2, <1>3, <1>4

(* That of a map's remove(): the first with the key.                        *)
LEMMA FirstWithIs ==
  ASSUME NEW s \in Seq(Cells), NEW k
  PROVE  /\ FirstWith(s, k) \in 1..(Len(s) + 1)
         /\ FirstWith(s, k) <= Len(s) => s[FirstWith(s, k)][1] = k
         /\ \A j \in 1..Len(s) : j < FirstWith(s, k) => s[j][1] # k
<1> DEFINE stops == {i \in 1..Len(s) : s[i][1] = k}
           c == Scan(s, stops)
<1>1. stops \in SUBSET (1..Len(s))
  OBVIOUS
<1>2. c \in 1..(Len(s) + 1) /\ (c <= Len(s) => c \in stops) /\ \A j \in stops : c <= j
  <2> HIDE DEF stops
  <2> QED BY <1>1, ScanFirst
<1>3. FirstWith(s, k) = c
  BY DEF FirstWith
<1> HIDE DEF c
<1>4. \A j \in 1..Len(s) : j < c => s[j][1] # k
  BY <1>2
<1> QED BY <1>2, <1>3, <1>4

(* That of a search which gives up at a greater key.                        *)
LEMMA FirstFromIs ==
  ASSUME NEW s \in Seq(Cells), NEW k
  PROVE  /\ FirstFrom(s, k) \in 1..(Len(s) + 1)
         /\ FirstFrom(s, k) <= Len(s) => s[FirstFrom(s, k)][1] >= k
         /\ \A j \in 1..Len(s) : j < FirstFrom(s, k) => ~(s[j][1] >= k)
<1> DEFINE stops == {i \in 1..Len(s) : s[i][1] >= k}
           c == Scan(s, stops)
<1>1. stops \in SUBSET (1..Len(s))
  OBVIOUS
<1>2. c \in 1..(Len(s) + 1) /\ (c <= Len(s) => c \in stops) /\ \A j \in stops : c <= j
  <2> HIDE DEF stops
  <2> QED BY <1>1, ScanFirst
<1>3. FirstFrom(s, k) = c
  BY DEF FirstFrom
<1> HIDE DEF c
<1>4. \A j \in 1..Len(s) : j < c => ~(s[j][1] >= k)
  BY <1>2
<1> QED BY <1>2, <1>3, <1>4

(* The walk that starts behind the first cell.                             *)
LEMMA TailPlaceIs ==
  ASSUME NEW s \in Seq(Cells), s # <<>>, NEW x
  PROVE  LET q == PlaceFor(Tail(s), x) IN
         /\ Tail(s) \in Seq(Cells) /\ Len(Tail(s)) = Len(s) - 1
         /\ q \in 1..Len(s)
         /\ q < Len(s) => ~Less(s[q + 1], x)
         /\ \A j \in 2..Len(s) : j <= q => Less(s[j], x)
<1> DEFINE t == Tail(s)
           q == PlaceFor(t, x)
<1>0. Len(s) \in Nat /\ Len(s) >= 1
  OBVIOUS
<1>1. t \in Seq(Cells) /\ Len(t) = Len(s) - 1 /\ \A j \in 1..(Len(s) - 1) : t[j] = s[j + 1]
  BY HeadTailProperties
<1> HIDE DEF t
<1>2. /\ q \in 1..(Len(t) + 1)
      /\ q <= Len(t) => ~Less(t[q], x)
      /\ \A j \in 1..Len(t) : j < q => Less(t[j], x)
  BY <1>1, PlaceIs
<1> HIDE DEF q
<1>3. q \in 1..Len(s) /\ (q < Len(s) => q <= Len(t) /\ t[q] = s[q + 1])
  BY <1>0, <1>1, <1>2
<1>4. ASSUME NEW j \in 2..Len(s), j <= q
      PROVE  Less(s[j], x)
  <2>1. j - 1 \in 1..Len(t) /\ j - 1 < q /\ (j - 1) + 1 = j
    BY <1>0, <1>1, <1>3, <1>4
  <2>2. t[j - 1] = s[j]
    BY <2>1, <1>1
  <2> QED BY <2>1, <2>2, <1>2
<1> QED BY <1>1, <1>2, <1>3, <1>4 DEF q, t

(* An unsorted list: the linked classes compare the first cell out of turn. *)
PassesHead(s, x) == Len(s) > 1 /\ Same(x, s[1]) /\ Less(s[2], x)

(* The place after the first cell is the array's, or holds an equal object. *)
LEMMA InsertSame ==
  ASSUME NEW s \in Seq(Cells), s # <<>>, NEW x \in Cells, ~Less(x, s[1]),
         Same(x, s[1]) => x = s[1], ~PassesHead(s, x)
  PROVE  Splice(s, PlaceFor(Tail(s), x) + 1, x) = Splice(s, PlaceFor(s, x), x)
<1> DEFINE n == Len(s)
           q == PlaceFor(Tail(s), x)
           p == PlaceFor(s, x)
<1>0. n \in Nat /\ n >= 1 /\ 1 \in 1..n
  OBVIOUS
<1>1. /\ q \in 1..n
      /\ q < n => ~Less(s[q + 1], x)
      /\ \A j \in 2..n : j <= q => Less(s[j], x)
  BY TailPlaceIs
<1>2. /\ p \in 1..(n + 1)
      /\ p <= n => ~Less(s[p], x)
      /\ \A j \in 1..n : j < p => Less(s[j], x)
  BY PlaceIs
<1>3. q + 1 \in 1..(n + 1)
  BY <1>0, <1>1
<1>4. x[1] \in Nat /\ \A i \in 1..n : s[i] \in Cells /\ s[i][1] \in Nat
  BY KeyOf, CellTyped
<1> HIDE DEF n, q, p
<1>5. CASE Less(s[1], x)
  <2>1. p # 1
    BY <1>0, <1>2, <1>5
  <2>2. ~(p < q + 1)
    <3> SUFFICES ASSUME p < q + 1 PROVE FALSE
      OBVIOUS
    <3>1. p \in 2..n /\ p <= q
      BY <2>1, <1>0, <1>1, <1>2
    <3> QED BY <3>1, <1>0, <1>1, <1>2
  <2>3. ~(q + 1 < p)
    <3> SUFFICES ASSUME q + 1 < p PROVE FALSE
      OBVIOUS
    <3>1. q + 1 \in 1..n /\ q < n
      BY <1>0, <1>1, <1>2
    <3> QED BY <3>1, <1>1, <1>2
  <2>4. p = q + 1
    BY <2>2, <2>3, <1>0, <1>1, <1>2
  <2> QED BY <2>4 DEF p, q
<1>6. CASE ~Less(s[1], x)
  <2>1. Same(x, s[1]) /\ x = s[1]
    BY <1>0, <1>4, <1>6 DEF Less, Same
  <2>2. p = 1
    <3> SUFFICES ASSUME p # 1 PROVE FALSE
      OBVIOUS
    <3>1. 1 < p
      BY <1>0, <1>2
    <3> QED BY <3>1, <1>0, <1>2, <1>6
  <2>3. q = 1
    <3> SUFFICES ASSUME q # 1 PROVE FALSE
      OBVIOUS
    <3>1. 2 \in 2..n /\ 2 <= q /\ n > 1
      BY <1>0, <1>1
    <3>2. Less(s[2], x)
      BY <3>1, <1>1
    <3> QED BY <2>1, <3>1, <3>2 DEF PassesHead, n
  <2>4. Splice(s, 2, x) = Splice(s, 1, x)
    <3>1. /\ Splice(s, 2, x) \in Seq(Cells) /\ Len(Splice(s, 2, x)) = n + 1
          /\ \A j \in 1..(n + 1) :
               Splice(s, 2, x)[j] = IF j < 2 THEN s[j] ELSE IF j = 2 THEN x ELSE s[j - 1]
      <4>1. 2 \in 1..(Len(s) + 1)
        BY <1>0 DEF n
      <4> QED BY <4>1, SpliceElements DEF n
    <3>2. /\ Splice(s, 1, x) \in Seq(Cells) /\ Len(Splice(s, 1, x)) = n + 1
          /\ \A j \in 1..(n + 1) :
               Splice(s, 1, x)[j] = IF j < 1 THEN s[j] ELSE IF j = 1 THEN x ELSE s[j - 1]
      <4>1. 1 \in 1..(Len(s) + 1)
        BY <1>0 DEF n
      <4> QED BY <4>1, SpliceElements DEF n
    <3>3. ASSUME NEW j \in 1..(n + 1)
          PROVE  Splice(s, 2, x)[j] = Splice(s, 1, x)[j]
      <4>1. CASE j = 1
        BY <4>1, <2>1, <3>1, <3>2
      <4>2. CASE j = 2
        BY <4>2, <2>1, <3>1, <3>2
      <4>3. CASE j > 2
        BY <4>3, <3>1, <3>2
      <4> QED BY <4>1, <4>2, <4>3, <1>0
    <3> QED BY <3>1, <3>2, <3>3, SameCells
  <2>5. q + 1 = 2
    BY <2>3
  <2> QED BY <2>2, <2>4, <2>5 DEF p, q
<1> QED BY <1>5, <1>6

(* After a first cell compared out of turn it is another place.             *)
LEMMA InsertDiffers ==
  ASSUME NEW s \in Seq(Cells), NEW x \in Cells, PassesHead(s, x)
  PROVE  Splice(s, PlaceFor(Tail(s), x) + 1, x) # Splice(s, PlaceFor(s, x), x)
<1> DEFINE n == Len(s)
           q == PlaceFor(Tail(s), x)
           p == PlaceFor(s, x)
<1>0. n \in Nat /\ n > 1 /\ 1 \in 1..n /\ 2 \in 1..n /\ Same(x, s[1]) /\ Less(s[2], x) /\ s # <<>>
  BY DEF PassesHead
<1>1. /\ q \in 1..n
      /\ q < n => ~Less(s[q + 1], x)
      /\ \A j \in 2..n : j <= q => Less(s[j], x)
  BY <1>0, TailPlaceIs
<1>2. /\ p \in 1..(n + 1)
      /\ p <= n => ~Less(s[p], x)
      /\ \A j \in 1..n : j < p => Less(s[j], x)
  BY PlaceIs
<1>4. x[1] \in Nat /\ \A i \in 1..n : s[i][1] \in Nat
  BY KeyOf, CellTyped
<1>5. n = Len(s)
  OBVIOUS
<1> HIDE DEF n, q, p
<1>6. p = 1
  <2> SUFFICES ASSUME p # 1 PROVE FALSE
    OBVIOUS
  <2>1. 1 < p
    BY <1>2
  <2>2. Less(s[1], x)
    BY <2>1, <1>0, <1>2
  <2> QED BY <2>2, <1>0, <1>4 DEF Less, Same
<1>7. q # 1
  <2> SUFFICES ASSUME q = 1 PROVE FALSE
    OBVIOUS
  <2>1. q + 1 = 2 /\ q < n
    BY <1>0
  <2> QED BY <2>1, <1>0, <1>1
<1>8. q + 1 \in 1..(Len(s) + 1) /\ q + 1 > 2 /\ 1 \in 1..(Len(s) + 1) /\ 2 \in 1..(Len(s) + 1)
  BY <1>0, <1>1, <1>5, <1>7
<1>9. Splice(s, q + 1, x)[2] = s[2]
  <2> DEFINE k == q + 1
  <2>0. k \in 1..(Len(s) + 1)
    BY <1>8
  <2> HIDE DEF k
  <2>1. /\ Splice(s, k, x) \in Seq(Cells) /\ Len(Splice(s, k, x)) = Len(s) + 1
        /\ \A j \in 1..(Len(s) + 1) :
             Splice(s, k, x)[j] = IF j < k THEN s[j] ELSE IF j = k THEN x ELSE s[j - 1]
    BY <2>0, SpliceElements
  <2> QED BY <2>1, <1>8 DEF k
<1>10. Splice(s, 1, x)[2] = s[1]
  <2>1. PICK k \in 1..(Len(s) + 1) : k = 1
    BY <1>8
  <2>2. \A j \in 1..(Len(s) + 1) :
          Splice(s, k, x)[j] = IF j < k THEN s[j] ELSE IF j = k THEN x ELSE s[j - 1]
    BY SpliceElements
  <2> QED BY <2>1, <2>2, <1>8
<1>11. s[1] # s[2]
  BY <1>0, <1>4 DEF Less, Same
<1> QED BY <1>6, <1>9, <1>10, <1>11 DEF p, q

(* One pair for a key.                                                     *)
OneEach(s) == \A i, j \in 1..Len(s) : s[i][1] = s[j][1] => i = j

(* insert() keeps a list ordered, and one pair for a key if there was none. *)
LEMMA InsertOrdered ==
  ASSUME NEW s \in Seq(Cells), Ascending(s), NEW x \in Cells
  PROVE  /\ Ascending(Splice(s, PlaceFor(s, x), x))
         /\ OneEach(s) /\ (\A i \in 1..Len(s) : s[i][1] # x[1])
              => OneEach(Splice(s, PlaceFor(s, x), x))
<1> DEFINE n == Len(s)
           p == PlaceFor(s, x)
           t == Splice(s, p, x)
<1>0. n \in Nat /\ n = Len(s)
  OBVIOUS
<1>1. /\ p \in 1..(n + 1)
      /\ p <= n => ~Less(s[p], x)
      /\ \A j \in 1..n : j < p => Less(s[j], x)
  BY PlaceIs
<1>2. x[1] \in Nat /\ \A i \in 1..n : s[i][1] \in Nat
  BY KeyOf, CellTyped
<1>3. /\ Len(t) = n + 1
      /\ \A j \in 1..(n + 1) : t[j] = IF j < p THEN s[j] ELSE IF j = p THEN x ELSE s[j - 1]
  <2> HIDE DEF p
  <2> QED BY <1>0, <1>1, SpliceElements
<1>4. \A i, j \in 1..n : i < j => s[i][1] <= s[j][1]
  BY <1>2 DEF Ascending, Less, n
<1> HIDE DEF n, p, t
<1>5. /\ \A j \in 1..n : j < p => s[j][1] < x[1]
      /\ \A j \in 1..n : j >= p => x[1] <= s[j][1]
  <2>1. \A j \in 1..n : j < p => s[j][1] < x[1]
    BY <1>1 DEF Less
  <2>2. ASSUME NEW j \in 1..n, j >= p
        PROVE  x[1] <= s[j][1]
    <3>1. p \in 1..n /\ x[1] <= s[p][1]
      BY <2>2, <1>0, <1>1, <1>2 DEF Less
    <3>2. s[p][1] <= s[j][1]
      BY <3>1, <2>2, <1>0, <1>2, <1>4
    <3> QED BY <3>1, <3>2, <1>2
  <2> QED BY <2>1, <2>2
<1>6. \A j \in 1..(n + 1) : /\ j < p => j \in 1..n /\ t[j] = s[j]
                            /\ j = p => t[j] = x
                            /\ j > p => j - 1 \in 1..n /\ t[j] = s[j - 1] /\ j - 1 >= p
  BY <1>0, <1>1, <1>3
<1>7. Ascending(t)
  <2> SUFFICES ASSUME NEW i \in 1..(n + 1), NEW j \in 1..(n + 1), i < j
               PROVE  ~(t[j][1] < t[i][1])
    BY <1>3 DEF Ascending, Less
  <2>1. CASE j < p
    BY <2>1, <1>2, <1>4, <1>6, <1>0, <1>1
  <2>2. CASE j = p
    <3>1. i < p
      BY <2>2, <1>1
    <3> QED BY <2>2, <3>1, <1>2, <1>5, <1>6
  <2>3. CASE j > p /\ i < p
    <3>1. i \in 1..n /\ t[i] = s[i] /\ j - 1 \in 1..n /\ t[j] = s[j - 1] /\ j - 1 >= p
      BY <2>3, <1>6
    <3>2. t[i][1] < x[1] /\ x[1] <= t[j][1]
      BY <3>1, <2>3, <1>5
    <3>3. t[i][1] \in Nat /\ t[j][1] \in Nat /\ x[1] \in Nat
      BY <3>1, <1>2
    <3> QED BY <3>2, <3>3
  <2>4. CASE j > p /\ i = p
    BY <2>4, <1>2, <1>5, <1>6
  <2>5. CASE j > p /\ i > p
    <3>1. i - 1 \in 1..n /\ j - 1 \in 1..n /\ i - 1 < j - 1
      BY <2>5, <1>6
    <3>2. s[i - 1][1] <= s[j - 1][1]
      BY <3>1, <1>4
    <3> QED BY <3>1, <3>2, <2>5, <1>2, <1>6
  <2> QED BY <2>1, <2>2, <2>3, <2>4, <2>5, <1>1
<1>8. ASSUME OneEach(s), \A i \in 1..Len(s) : s[i][1] # x[1]
      PROVE  OneEach(t)
  <2>0. \A i, j \in 1..n : s[i][1] = s[j][1] => i = j
    BY <1>8, <1>0 DEF OneEach
  <2>6. \A i \in 1..n : s[i][1] # x[1]
    BY <1>8, <1>0
  <2> SUFFICES ASSUME NEW i \in 1..(n + 1), NEW j \in 1..(n + 1), t[i][1] = t[j][1]
               PROVE  i = j
    BY <1>3 DEF OneEach
  <2>1. CASE i = p
    BY <2>1, <2>6, <1>1, <1>6
  <2>2. CASE j = p
    BY <2>2, <2>6, <1>1, <1>6
  <2>3. CASE i < p /\ j < p
    BY <2>0, <2>3, <1>6
  <2>4. CASE i > p /\ j > p
    <3>1. i - 1 = j - 1
      BY <2>0, <2>4, <1>6
    <3> QED BY <3>1
  <2>5. CASE i < p /\ j > p
    <3>1. i = j - 1 /\ j - 1 >= p
      BY <2>0, <2>5, <1>6
    <3> QED BY <3>1, <2>5, <1>1
  <2>7. CASE i > p /\ j < p
    <3>1. i - 1 = j /\ i - 1 >= p
      BY <2>0, <2>7, <1>6
    <3> QED BY <3>1, <2>7, <1>1
  <2> QED BY <2>1, <2>2, <2>3, <2>4, <2>5, <2>7, <1>1
<1> QED BY <1>7, <1>8 DEF t, p

(* So does taking one out,                                                  *)
LEMMA WithoutOrdered ==
  ASSUME NEW s \in Seq(Cells), Ascending(s), NEW k \in 1..Len(s)
  PROVE  /\ Ascending(Without(s, k))
         /\ OneEach(s) => OneEach(Without(s, k))
<1> DEFINE n == Len(s)
           t == Without(s, k)
<1>0. n \in Nat /\ n = Len(s) /\ k \in 1..n
  OBVIOUS
<1>1. Len(t) = n - 1 /\ \A j \in 1..(n - 1) : t[j] = IF j < k THEN s[j] ELSE s[j + 1]
  BY WithoutElements
<1>2. \A i, j \in 1..n : i < j => ~(s[j][1] < s[i][1])
  BY DEF Ascending, Less
<1>3. OneEach(s) => \A i, j \in 1..n : s[i][1] = s[j][1] => i = j
  BY DEF OneEach
<1> HIDE DEF n, t
<1> DEFINE at == [j \in 1..n |-> IF j < k THEN j ELSE j + 1]
<1>4. /\ \A j \in 1..(n - 1) : at[j] \in 1..n /\ t[j] = s[at[j]]
      /\ \A i, j \in 1..(n - 1) : i < j => at[i] < at[j]
      /\ \A i, j \in 1..(n - 1) : at[i] = at[j] => i = j
  BY <1>0, <1>1
<1> HIDE DEF at
<1>5. Ascending(t)
  BY <1>1, <1>2, <1>4 DEF Ascending, Less
<1>6. OneEach(s) => OneEach(t)
  <2> SUFFICES ASSUME OneEach(s), NEW i \in 1..(n - 1), NEW j \in 1..(n - 1), t[i][1] = t[j][1]
               PROVE  i = j
    BY <1>1 DEF OneEach
  <2>1. at[i] \in 1..n /\ at[j] \in 1..n /\ s[at[i]][1] = s[at[j]][1]
    BY <1>4
  <2>2. at[i] = at[j]
    BY <2>1, <1>3
  <2> QED BY <2>2, <1>4
<1> QED BY <1>5, <1>6 DEF t

(* and so does a pair replaced by one with its key.                         *)
LEMMA SetOrdered ==
  ASSUME NEW s \in Seq(Cells), Ascending(s), NEW i \in 1..Len(s), NEW y, s[i][1] = y[1]
  PROVE  /\ Ascending([s EXCEPT ![i] = y])
         /\ OneEach(s) => OneEach([s EXCEPT ![i] = y])
<1> DEFINE t == [s EXCEPT ![i] = y]
<1>1. Len(t) = Len(s) /\ \A j \in 1..Len(s) : t[j] = IF j = i THEN y ELSE s[j]
  OBVIOUS
<1> HIDE DEF t
<1>2. \A j \in 1..Len(s) : t[j][1] = s[j][1]
  BY <1>1
<1>3. Ascending(t)
  BY <1>1, <1>2 DEF Ascending, Less
<1>4. OneEach(s) => OneEach(t)
  BY <1>1, <1>2 DEF OneEach
<1> QED BY <1>3, <1>4 DEF t

(* What an interface lets a list hold.                                      *)
Held(f) == IF f = "map" THEN Pairs ELSE IF f = "vector" THEN Plain ELSE Plain \cup {Null}

(* The three classes hold s, as the interface leaves it.                   *)
Agreed(s) ==
  /\ s \in Seq(Cells) /\ \A i \in 1..Len(s) : s[i] \in Held(iface)
  /\ items = s /\ arrOk = TRUE
  /\ chain = s /\ llen = Len(s) /\ lnkOk = TRUE
  /\ DlState(s, FALSE) /\ (iface # "map" => DlState(s, TRUE))
  /\ iface # "list" => Ascending(s)
  /\ iface = "map" => OneEach(s)

(* What is left of it once a class has parted.                             *)
PartedWell ==
  /\ "dlinked" \in parted \/ parted = {"array", "linked"}
  /\ \A c \in parted : ReallyParts(c)
  /\ "array" \notin parted => arrOk = TRUE
  /\ "linked" \notin parted => lnkOk = TRUE /\ llen = Len(chain)
  /\ "dlinked" \notin parted => dOk = TRUE /\ len = Len(Contents) /\ Cardinality(used) = len
  /\ "array" \notin parted /\ "linked" \notin parted => chain = items
  /\ iface # "list" => /\ "array" \notin parted /\ Ascending(items)
                       /\ \A i \in 1..Len(items) : items[i] \in Held(iface)
  /\ iface = "map" => OneEach(items)

(* The invariant of the lists: what was put together before they parted, or *)
(* what is left of it.                                                      *)
ListInv ==
  /\ TypeOK
  /\ parted = {} => Agreed(items)
  /\ parted # {} => PartedWell

(* Linked both ways it is linked one way.                                   *)
LEMMA DlWeaker ==
  ASSUME NEW s, DlState(s, TRUE)'
  PROVE  DlState(s, FALSE)'
BY DEF DlState

(* A call after which the classes agree.                                   *)
LEMMA AgreedNext ==
  ASSUME NEW s \in Seq(Cells), parted' = {}, iface' \in Ifaces, crooked' \in BOOLEAN,
         \A i \in 1..Len(s) : s[i] \in Held(iface'),
         items' = s, arrOk' = TRUE, chain' = s, llen' = Len(s), lnkOk' = TRUE,
         DlState(s, FALSE)', iface' # "map" => DlState(s, TRUE)',
         iface' # "list" => Ascending(s), iface' = "map" => OneEach(s)
  PROVE  ListInv'
<1>1. DlTyped'
  BY DEF DlState
<1>2. TypeOK'
  BY <1>1 DEF TypeOK, DlTyped
<1>3. Agreed(s)'
  BY DEF Agreed
<1>4. Agreed(items)'
  BY <1>3
<1> QED BY <1>2, <1>4 DEF ListInv

(* What it takes to have parted.                                            *)
LEMMA ReallyPartsNext ==
  /\ arrOk' = FALSE => ReallyParts("array")'
  /\ lnkOk' = FALSE => ReallyParts("linked")'
  /\ dOk' = FALSE => ReallyParts("dlinked")'
  /\ ~LocalLinks' => ReallyParts("dlinked")'
  /\ chain' # items' => ReallyParts("linked")'
  /\ Contents' # items' => ReallyParts("dlinked")'
<1>1. arrOk' = FALSE => ReallyParts("array")'
  BY DEF ReallyParts, Sound
<1>2. lnkOk' = FALSE => ReallyParts("linked")'
  BY DEF ReallyParts, Sound
<1>3. dOk' = FALSE => ReallyParts("dlinked")'
  BY DEF ReallyParts, Sound
<1>4. ~LocalLinks' => ReallyParts("dlinked")'
  BY DEF ReallyParts
<1>0. /\ "array" \in Classes
      /\ Holds("array")' = items' /\ Holds("linked")' = chain' /\ Holds("dlinked")' = Contents'
  BY DEF Classes, Holds
<1>5. chain' # items' => ReallyParts("linked")'
  BY <1>0 DEF ReallyParts
<1>6. Contents' # items' => ReallyParts("dlinked")'
  BY <1>0 DEF ReallyParts
<1> QED BY <1>1, <1>2, <1>3, <1>4, <1>5, <1>6

(* A call after which the dlinked_list alone has parted.                   *)
LEMMA DlPartsNext ==
  ASSUME NEW s \in Seq(Cells), parted' = {"dlinked"}, iface' \in Ifaces, crooked' \in BOOLEAN,
         items' = s, arrOk' = TRUE, chain' = s, llen' = Len(s), lnkOk' = TRUE,
         DlTyped', dOk' = FALSE \/ ~LocalLinks' \/ Contents' # s,
         iface' # "list" => \A i \in 1..Len(s) : s[i] \in Held(iface'),
         iface' # "list" => Ascending(s), iface' = "map" => OneEach(s)
  PROVE  ListInv'
<1>2. TypeOK'
  BY DEF TypeOK, DlTyped, Classes
<1>3. ReallyParts("dlinked")'
  BY ReallyPartsNext
<1>4. \A c \in parted' : ReallyParts(c)'
  BY <1>3
<1>5. PartedWell'
  BY <1>4 DEF PartedWell
<1> QED BY <1>2, <1>5 DEF ListInv

(* What the calls start from.                                              *)
Starts(s) ==
  /\ s \in Seq(Cells) /\ Len(s) \in Nat
  /\ \A i \in 1..Len(s) : s[i] \in Held(iface) /\ s[i] \in Cells /\ s[i][1] \in Nat
  /\ items = s /\ arrOk = TRUE
  /\ chain = s /\ llen = Len(s) /\ lnkOk = TRUE
  /\ DlState(s, FALSE) /\ (iface # "map" => DlState(s, TRUE))
  /\ DlTyped /\ dOk = TRUE
  /\ iface # "list" => Ascending(s)
  /\ iface = "map" => OneEach(s)
  /\ Contents = s /\ len = Len(s) /\ Len(Forward) = Len(s)
  /\ head = NULL <=> s = <<>>
  /\ head = NULL => used = {}
  /\ iface \in Ifaces /\ crooked \in BOOLEAN
  /\ \A i \in 1..Len(s) : Forward[i] \in used /\ data[Forward[i]] = s[i]
  /\ iface # "map" => tail \in used \cup {NULL}
  /\ s # <<>> => data[head] = s[1] /\ Len(Forward) # 0 /\ Forward[1] = head

(* All of this follows from the invariant while the classes agree.          *)
LEMMA AgreedFacts ==
  ASSUME ListInv, parted = {}
  PROVE  \E s : Starts(s)
<1>1. Agreed(items) /\ TypeOK
  BY DEF ListInv
<1>0. PICK s : s = items
  OBVIOUS
<1>2. /\ s \in Seq(Cells) /\ \A i \in 1..Len(s) : s[i] \in Held(iface)
      /\ items = s /\ arrOk = TRUE /\ chain = s /\ llen = Len(s) /\ lnkOk = TRUE
      /\ DlState(s, FALSE) /\ (iface # "map" => DlState(s, TRUE))
      /\ iface # "list" => Ascending(s)
      /\ iface = "map" => OneEach(s)
  BY <1>0, <1>1 DEF Agreed
<1>3. DlTyped
  BY <1>2 DEF DlState
<1>4. PICK nodes : DlIs(nodes, s)
  BY <1>2 DEF DlState
<1>5. /\ Len(nodes) \in Nat /\ Len(nodes) = Len(s)
      /\ Forward = nodes /\ Contents = s /\ len = Len(s) /\ dOk = TRUE
      /\ \A i \in 1..Len(nodes) : nodes[i] \in used
      /\ \A m \in used : \E i \in 1..Len(nodes) : m = nodes[i]
      /\ head = IF Len(nodes) = 0 THEN NULL ELSE nodes[1]
      /\ head = NULL <=> Len(nodes) = 0
      /\ \A i \in 1..Len(nodes) : data[nodes[i]] = s[i]
  BY <1>2, <1>4, DlFacts
<1>6. \A i \in 1..Len(s) : s[i] \in Cells /\ s[i][1] \in Nat
  BY <1>2, KeyOf
<1>7. iface \in Ifaces /\ crooked \in BOOLEAN
  BY <1>1 DEF TypeOK
<1>8. s = <<>> <=> Len(s) = 0
  BY <1>2
<1>9. iface # "map" => tail \in used \cup {NULL}
  BY <1>2 DEF DlState
<1>10. s # <<>> => data[head] = s[1] /\ Len(Forward) # 0 /\ Forward[1] = head
  <2> HAVE s # <<>>
  <2>1. 1 \in 1..Len(nodes) /\ Len(nodes) # 0
    BY <1>5, <1>8
  <2> QED BY <2>1, <1>5
<1>11. head = NULL => used = {}
  BY <1>5
<1>12. Starts(s)
  BY <1>2, <1>3, <1>5, <1>6, <1>7, <1>8, <1>9, <1>10, <1>11 DEF Starts
<1> QED BY <1>12

(* Objects of the interface stay objects of the interface: put in,          *)
LEMMA SpliceCells ==
  ASSUME NEW s \in Seq(Cells), NEW k \in 1..(Len(s) + 1), NEW x \in Cells, NEW H,
         x \in H, \A i \in 1..Len(s) : s[i] \in H
  PROVE  /\ Splice(s, k, x) \in Seq(Cells) /\ Len(Splice(s, k, x)) = Len(s) + 1
         /\ \A i \in 1..Len(Splice(s, k, x)) : Splice(s, k, x)[i] \in H
<1>0. Len(s) \in Nat
  OBVIOUS
<1>1. /\ Splice(s, k, x) \in Seq(Cells)
      /\ Len(Splice(s, k, x)) = Len(s) + 1
      /\ \A j \in 1..(Len(s) + 1) :
           Splice(s, k, x)[j] = IF j < k THEN s[j] ELSE IF j = k THEN x ELSE s[j - 1]
  BY SpliceElements
<1>2. ASSUME NEW j \in 1..(Len(s) + 1)
      PROVE  Splice(s, k, x)[j] \in H
  <2>1. CASE j < k
    <3>1. j \in 1..Len(s)
      BY <2>1, <1>0
    <3> QED BY <3>1, <2>1, <1>1
  <2>2. CASE j = k
    BY <2>2, <1>1
  <2>3. CASE j > k
    <3>1. j - 1 \in 1..Len(s)
      BY <2>3, <1>0
    <3> QED BY <3>1, <2>3, <1>1
  <2> QED BY <2>1, <2>2, <2>3, <1>0
<1> QED BY <1>1, <1>2

(* and taken out.                                                           *)
LEMMA WithoutCells ==
  ASSUME NEW s \in Seq(Cells), NEW k \in 1..Len(s), NEW H, \A i \in 1..Len(s) : s[i] \in H
  PROVE  /\ Without(s, k) \in Seq(Cells) /\ Len(Without(s, k)) = Len(s) - 1
         /\ \A i \in 1..Len(Without(s, k)) : Without(s, k)[i] \in H
<1>0. Len(s) \in Nat
  OBVIOUS
<1>1. /\ Without(s, k) \in Seq(Cells)
      /\ Len(Without(s, k)) = Len(s) - 1
      /\ \A j \in 1..(Len(s) - 1) : Without(s, k)[j] = IF j < k THEN s[j] ELSE s[j + 1]
  BY WithoutElements
<1>2. ASSUME NEW j \in 1..(Len(s) - 1)
      PROVE  Without(s, k)[j] \in H
  <2>1. j \in 1..Len(s) /\ j + 1 \in 1..Len(s)
    BY <1>0
  <2> QED BY <2>1, <1>1
<1> QED BY <1>1, <1>2

(* The elements after a cell came in, for cells.                            *)
LEMMA SpliceAt ==
  ASSUME NEW s \in Seq(Cells), NEW k \in 1..(Len(s) + 1), NEW x \in Cells
  PROVE  /\ Splice(s, k, x) \in Seq(Cells)
         /\ Len(Splice(s, k, x)) = Len(s) + 1
         /\ \A j \in 1..(Len(s) + 1) :
              Splice(s, k, x)[j] = IF j < k THEN s[j] ELSE IF j = k THEN x ELSE s[j - 1]
BY SpliceElements

(* At the front and at the end it comes in as anywhere.                     *)
LEMMA EndsAreSplices ==
  ASSUME NEW s \in Seq(Cells), NEW x \in Cells
  PROVE  /\ Append(s, x) = Splice(s, Len(s) + 1, x)
         /\ <<x>> \o s = Splice(s, 1, x)
         /\ s \o <<x>> = Splice(s, Len(s) + 1, x)
<1> DEFINE n == Len(s)
           e == n + 1
           one == <<x>>
<1>0. n \in Nat /\ n = Len(s) /\ e \in 1..(Len(s) + 1) /\ 1 \in 1..(Len(s) + 1) /\ e = n + 1
  OBVIOUS
<1>3. /\ Append(s, x) \in Seq(Cells) /\ Len(Append(s, x)) = n + 1
      /\ \A j \in 1..n : Append(s, x)[j] = s[j]
      /\ Append(s, x)[n + 1] = x
  OBVIOUS
<1>4. one \in Seq(Cells) /\ Len(one) = 1 /\ one[1] = x
  OBVIOUS
<1> HIDE DEF e, one
<1>1. /\ Splice(s, e, x) \in Seq(Cells) /\ Len(Splice(s, e, x)) = Len(s) + 1
      /\ \A j \in 1..(Len(s) + 1) :
           Splice(s, e, x)[j] = IF j < e THEN s[j] ELSE IF j = e THEN x ELSE s[j - 1]
  <2>1. e \in 1..(Len(s) + 1)
    BY <1>0
  <2> QED BY <2>1, SpliceAt
<1>2. /\ Splice(s, 1, x) \in Seq(Cells) /\ Len(Splice(s, 1, x)) = Len(s) + 1
      /\ \A j \in 1..(Len(s) + 1) :
           Splice(s, 1, x)[j] = IF j < 1 THEN s[j] ELSE IF j = 1 THEN x ELSE s[j - 1]
  BY <1>0, SpliceAt
<1>5. /\ one \o s \in Seq(Cells) /\ Len(one \o s) = Len(one) + Len(s)
      /\ \A j \in 1..(Len(one) + Len(s)) :
           (one \o s)[j] = IF j <= Len(one) THEN one[j] ELSE s[j - Len(one)]
  BY <1>4, ConcatProperties
<1>6. /\ s \o one \in Seq(Cells) /\ Len(s \o one) = Len(s) + Len(one)
      /\ \A j \in 1..(Len(s) + Len(one)) :
           (s \o one)[j] = IF j <= Len(s) THEN s[j] ELSE one[j - Len(s)]
  BY <1>4, ConcatProperties
<1> HIDE DEF n
<1>7. Append(s, x) = Splice(s, e, x)
  <2>1. ASSUME NEW j \in 1..(n + 1)
        PROVE  Append(s, x)[j] = Splice(s, e, x)[j]
    <3>1. CASE j \in 1..n
      BY <3>1, <1>0, <1>1, <1>3
    <3>2. CASE j = n + 1
      BY <3>2, <1>0, <1>1, <1>3
    <3> QED BY <3>1, <3>2, <1>0
  <2> QED BY <2>1, <1>0, <1>1, <1>3, SameCells
<1>8. one \o s = Splice(s, 1, x)
  <2>1. ASSUME NEW j \in 1..(n + 1)
        PROVE  (one \o s)[j] = Splice(s, 1, x)[j]
    <3>1. CASE j = 1
      <4>1. j <= Len(one) /\ j \in 1..(Len(one) + Len(s)) /\ j \in 1..(Len(s) + 1)
        BY <3>1, <1>0, <1>4
      <4> QED BY <3>1, <4>1, <1>2, <1>4, <1>5
    <3>2. CASE j > 1
      <4>1. (one \o s)[j] = s[j - 1]
        BY <3>2, <1>0, <1>4, <1>5
      <4>2. Splice(s, 1, x)[j] = s[j - 1]
        BY <3>2, <1>0, <1>2
      <4> QED BY <4>1, <4>2
    <3>3. j = 1 \/ j > 1
      BY <1>0
    <3> QED BY <3>1, <3>2, <3>3
  <2>2. Len(one \o s) = n + 1
    BY <1>0, <1>4, <1>5
  <2> QED BY <2>1, <2>2, <1>0, <1>2, <1>5, SameCells
<1>9. s \o one = Splice(s, e, x)
  <2>1. ASSUME NEW j \in 1..(n + 1)
        PROVE  (s \o one)[j] = Splice(s, e, x)[j]
    <3>1. CASE j \in 1..n
      <4>1. j <= Len(s) /\ j \in 1..(Len(s) + Len(one)) /\ j < e /\ j \in 1..(Len(s) + 1)
        BY <3>1, <1>0, <1>4
      <4> QED BY <4>1, <1>1, <1>6
    <3>2. CASE j = n + 1
      <4>3. ~(j <= Len(s)) /\ j - Len(s) = 1 /\ j \in 1..(Len(s) + Len(one))
        BY <3>2, <1>0, <1>4
      <4>1. (s \o one)[j] = one[1]
        BY <4>3, <1>6
      <4>2. Splice(s, e, x)[j] = x
        BY <3>2, <1>0, <1>1
      <4> QED BY <4>1, <4>2, <1>4
    <3>3. j \in 1..n \/ j = n + 1
      BY <1>0
    <3> QED BY <3>1, <3>2, <3>3
  <2>2. Len(s \o one) = n + 1
    BY <1>0, <1>4, <1>6
  <2> QED BY <2>1, <2>2, <1>0, <1>1, <1>6, SameCells
<1> QED BY <1>0, <1>7, <1>8, <1>9 DEF n, e, one

(* ------------------------------ the calls ------------------------------ *)
LEMMA AppendAgrees ==
  ASSUME ListInv, NEW x \in Plain, DoAppend(x)
  PROVE  ListInv'
<1>1. /\ parted = {} /\ iface = "list" /\ iface' = iface /\ crooked' = crooked
      /\ ArrayAppend(x) /\ LnkAppend(x) /\ DlAppend(x)
      /\ parted' = Part("dlinked", Stale)
  BY DEF DoAppend, Call
<1>0. PICK s : Starts(s)
  BY <1>1, AgreedFacts
<1>2. /\ s \in Seq(Cells) /\ Len(s) \in Nat
      /\ \A i \in 1..Len(s) : s[i] \in Held(iface)
      /\ items = s /\ arrOk = TRUE /\ chain = s /\ llen = Len(s) /\ lnkOk = TRUE
      /\ DlState(s, FALSE) /\ DlState(s, TRUE)
      /\ iface \in Ifaces /\ crooked \in BOOLEAN
      /\ head = NULL <=> s = <<>>
      /\ head = NULL => used = {}
      /\ Len(Forward) = Len(s) /\ tail \in used \cup {NULL}
  BY <1>0, <1>1 DEF Starts
<1>3. x \in Cells /\ x \in Held(iface)
  BY <1>1, CellTyped DEF Held
<1>8. PICK t : t = Splice(s, Len(s) + 1, x)
  OBVIOUS
<1>4. t \in Seq(Cells) /\ Len(t) = Len(s) + 1 /\ \A i \in 1..Len(t) : t[i] \in Held(iface)
  <2>1. Len(s) + 1 \in 1..(Len(s) + 1)
    BY <1>2
  <2> QED BY <2>1, <1>2, <1>3, <1>8, SpliceCells
<1>5. items' = t /\ arrOk' = TRUE /\ chain' = t /\ llen' = Len(t) /\ lnkOk' = TRUE
  BY <1>1, <1>2, <1>3, <1>4, <1>8, EndsAreSplices DEF ArrayAppend, LnkAppend, LnkLinkIn
<1>6. CASE Stale
  <2>1. DlTyped' /\ ~LocalLinks'
    BY <1>1, <1>2, <1>3, <1>6, AppendBreaks DEF Stale
  <2>2. parted' = {"dlinked"}
    BY <1>1, <1>6 DEF Part
  <2> QED BY <2>1, <2>2, <1>1, <1>2, <1>4, <1>5, DlPartsNext
<1>7. CASE ~Stale
  <2>1. tail = IF Len(Forward) = 0 THEN NULL ELSE Forward[Len(Forward)]
    <3>1. CASE head = NULL
      <4>1. used = {} /\ Len(Forward) = 0
        BY <1>2, <3>1
      <4> QED BY <4>1, <1>2
    <3>2. CASE head # NULL
      <4>1. Len(Forward) # 0
        BY <1>2, <3>2
      <4> QED BY <3>2, <4>1, <1>7 DEF Stale
    <3> QED BY <3>1, <3>2
  <2>2. DlState(t, TRUE)'
    BY <2>1, <1>1, <1>2, <1>3, <1>8, AppendGives
  <2>3. parted' = {}
    BY <1>1, <1>7 DEF Part
  <2>4. DlState(t, FALSE)'
    BY <2>2, DlWeaker
  <2> QED BY <2>2, <2>3, <2>4, <1>1, <1>2, <1>4, <1>5, AgreedNext
<1> QED BY <1>6, <1>7

(* prepend()                                                                *)
LEMMA PrependAgrees ==
  ASSUME ListInv, NEW x \in Plain, DoPrepend(x)
  PROVE  ListInv'
<1>1. /\ parted = {} /\ iface = "list" /\ iface' = iface /\ crooked' = crooked
      /\ ArrayPrepend(x) /\ LnkPrepend(x) /\ DlPrepend(x)
      /\ parted' = {}
  BY DEF DoPrepend, Call
<1>0. PICK s : Starts(s)
  BY <1>1, AgreedFacts
<1>2. /\ s \in Seq(Cells) /\ Len(s) \in Nat
      /\ \A i \in 1..Len(s) : s[i] \in Held(iface)
      /\ items = s /\ arrOk = TRUE /\ chain = s /\ llen = Len(s) /\ lnkOk = TRUE
      /\ DlState(s, TRUE)
      /\ iface \in Ifaces /\ crooked \in BOOLEAN
  BY <1>0, <1>1 DEF Starts
<1>3. x \in Cells /\ x \in Held(iface)
  BY <1>1, CellTyped DEF Held
<1>8. PICK t : t = Splice(s, 1, x)
  OBVIOUS
<1>4. t \in Seq(Cells) /\ Len(t) = Len(s) + 1 /\ \A i \in 1..Len(t) : t[i] \in Held(iface)
  <2>1. 1 \in 1..(Len(s) + 1)
    BY <1>2
  <2> QED BY <2>1, <1>2, <1>3, <1>8, SpliceCells
<1>5. items' = t /\ arrOk' = TRUE /\ chain' = t /\ llen' = Len(t) /\ lnkOk' = TRUE
  BY <1>1, <1>2, <1>3, <1>4, <1>8, EndsAreSplices DEF ArrayPrepend, LnkPrepend, LnkLinkIn
<1>6. DlState(t, TRUE)'
  BY <1>1, <1>2, <1>3, <1>8, PrependGives
<1>7. DlState(t, FALSE)'
  BY <1>6, DlWeaker
<1> QED BY <1>1, <1>2, <1>4, <1>5, <1>6, <1>7, AgreedNext

(* remove() of an object equal to x                                         *)
LEMMA RemoveAgrees ==
  ASSUME ListInv, NEW x \in Plain, DoRemove(x)
  PROVE  ListInv'
<1>1. /\ parted = {} /\ iface \in {"list", "vector"} /\ iface' = iface /\ crooked' = crooked
      /\ ArrayRemove(x) /\ LnkRemove(x) /\ DlRemove(x)
      /\ parted' = {}
  BY DEF DoRemove, Call
<1>0. PICK s : Starts(s)
  BY <1>1, AgreedFacts
<1>2. /\ s \in Seq(Cells) /\ Len(s) \in Nat
      /\ \A i \in 1..Len(s) : s[i] \in Held(iface)
      /\ items = s /\ arrOk = TRUE /\ chain = s /\ llen = Len(s) /\ lnkOk = TRUE
      /\ DlState(s, TRUE) /\ DlState(s, FALSE)
      /\ iface \in Ifaces /\ crooked \in BOOLEAN
      /\ iface # "list" => Ascending(s)
      /\ Contents = s /\ iface # "map"
  BY <1>0, <1>1 DEF Starts
<1>3. PICK i : i = FirstSame(s, x)
  OBVIOUS
<1>4. i \in 1..(Len(s) + 1)
  BY <1>2, <1>3, FirstSameIs
<1>5. CASE i > Len(s)
  <2>1. items' = items /\ arrOk' = arrOk /\ chain' = chain /\ llen' = llen /\ lnkOk' = lnkOk
        /\ UNCHANGED dlinked
    BY <1>1, <1>2, <1>3, <1>5 DEF ArrayRemove, LnkRemove, DlRemove, array, linked
  <2>2. DlState(s, TRUE)' /\ DlState(s, FALSE)'
    BY <1>2, <2>1, UnchangedGives
  <2> QED BY <1>1, <1>2, <2>1, <2>2, AgreedNext
<1>6. CASE ~(i > Len(s))
  <2>0. i \in 1..Len(s)
    BY <1>2, <1>4, <1>6
  <2>1. PICK t : t = Without(s, i)
    OBVIOUS
  <2>2. t \in Seq(Cells) /\ Len(t) = Len(s) - 1 /\ \A j \in 1..Len(t) : t[j] \in Held(iface)
    BY <1>2, <2>0, <2>1, WithoutCells
  <2>3. items' = t /\ arrOk' = TRUE /\ chain' = t /\ llen' = Len(t) /\ lnkOk' = TRUE
    BY <1>1, <1>2, <1>3, <1>6, <2>1, <2>2 DEF ArrayRemove, ArrayTake, LnkRemove, LnkTakeOut
  <2>4. Unlink(Forward[i])
    BY <1>1, <1>2, <1>3, <1>6 DEF DlRemove
  <2>5. DlState(t, TRUE)'
    BY <1>2, <2>0, <2>1, <2>4, UnlinkGives
  <2>6. DlState(t, FALSE)'
    BY <2>5, DlWeaker
  <2>7. iface # "list" => Ascending(t)
    BY <1>2, <2>0, <2>1, WithoutOrdered
  <2> QED BY <1>1, <1>2, <2>2, <2>3, <2>5, <2>6, <2>7, AgreedNext
<1> QED BY <1>5, <1>6

(* remove() of a map                                                        *)
LEMMA MapRemoveAgrees ==
  ASSUME ListInv, NEW k \in Keys, DoMapRemove(k)
  PROVE  ListInv'
<1>1. /\ parted = {} /\ iface = "map" /\ iface' = iface /\ crooked' = (crooked \/ used' # used)
      /\ ArrayMapRemove(k) /\ LnkMapRemove(k) /\ DlMapRemove(k)
      /\ parted' = {}
  BY DEF DoMapRemove, Call
<1>0. PICK s : Starts(s)
  BY <1>1, AgreedFacts
<1>2. /\ s \in Seq(Cells) /\ Len(s) \in Nat
      /\ \A i \in 1..Len(s) : s[i] \in Held(iface)
      /\ items = s /\ arrOk = TRUE /\ chain = s /\ llen = Len(s) /\ lnkOk = TRUE
      /\ DlState(s, FALSE)
      /\ iface \in Ifaces
      /\ Ascending(s) /\ OneEach(s)
      /\ Contents = s
  BY <1>0, <1>1 DEF Starts
<1>7. crooked' \in BOOLEAN
  BY <1>1
<1>3. PICK i : i = FirstWith(s, k)
  OBVIOUS
<1>4. i \in 1..(Len(s) + 1)
  BY <1>2, <1>3, FirstWithIs
<1>5. CASE i > Len(s)
  <2>1. items' = items /\ arrOk' = arrOk /\ chain' = chain /\ llen' = llen /\ lnkOk' = lnkOk
        /\ UNCHANGED dlinked
    BY <1>1, <1>2, <1>3, <1>5 DEF ArrayMapRemove, LnkMapRemove, DlMapRemove, array, linked
  <2>2. DlState(s, FALSE)'
    BY <1>2, <2>1, UnchangedGives
  <2> QED BY <1>1, <1>2, <1>7, <2>1, <2>2, AgreedNext
<1>6. CASE ~(i > Len(s))
  <2>0. i \in 1..Len(s)
    BY <1>2, <1>4, <1>6
  <2>1. PICK t : t = Without(s, i)
    OBVIOUS
  <2>2. t \in Seq(Cells) /\ Len(t) = Len(s) - 1 /\ \A j \in 1..Len(t) : t[j] \in Held(iface)
    BY <1>2, <2>0, <2>1, WithoutCells
  <2>3. items' = t /\ arrOk' = TRUE /\ chain' = t /\ llen' = Len(t) /\ lnkOk' = TRUE
    BY <1>1, <1>2, <1>3, <1>6, <2>1, <2>2 DEF ArrayMapRemove, ArrayTake, LnkMapRemove, LnkTakeOut
  <2>4. DlState(t, FALSE)'
    BY <1>1, <1>2, <1>3, <2>0, <2>1, MapRemoveGives
  <2>5. Ascending(t) /\ OneEach(t)
    BY <1>2, <2>0, <2>1, WithoutOrdered
  <2> QED BY <1>1, <1>2, <1>7, <2>2, <2>3, <2>4, <2>5, AgreedNext
<1> QED BY <1>5, <1>6

(* remove_at(): the dlinked_list parts when its index is wrong by one       *)
LEMMA RemoveAtAgrees ==
  ASSUME ListInv, NEW index \in Int, DoRemoveAt(index)
  PROVE  ListInv'
<1>0. PICK s : Starts(s)
  BY AgreedFacts DEF DoRemoveAt, Call
<1>2. /\ s \in Seq(Cells) /\ Len(s) \in Nat
      /\ \A i \in 1..Len(s) : s[i] \in Held(iface)
      /\ items = s /\ arrOk = TRUE /\ chain = s /\ llen = Len(s) /\ lnkOk = TRUE
      /\ DlState(s, FALSE) /\ (iface # "map" => DlState(s, TRUE))
      /\ iface \in Ifaces /\ crooked \in BOOLEAN
      /\ Contents = s /\ len = Len(s) /\ Len(Forward) = Len(s)
      /\ head = NULL <=> s = <<>>
      /\ \A i \in 1..Len(s) : Forward[i] \in used
      /\ DlTyped /\ dOk = TRUE
  BY <1>0 DEF Starts
<1>3. PICK idx : idx = FromEnd(index, Len(s))
  OBVIOUS
<1>4. idx \in Int
  BY <1>2, <1>3 DEF FromEnd
<1>1. /\ parted = {} /\ iface = "list" /\ iface' = iface /\ crooked' = crooked
      /\ ArrayRemoveAt(index) /\ LnkRemoveAt(index) /\ DlRemoveAt(index)
      /\ parted' = Part("dlinked", idx \in 0..(Len(s) - 1) /\ Upper(idx) /\ Stale)
  BY <1>2, <1>3 DEF DoRemoveAt, Call
<1>5. CASE idx \notin 0..(Len(s) - 1)
  <2>1. items' = items /\ arrOk' = arrOk /\ chain' = chain /\ llen' = llen /\ lnkOk' = lnkOk
        /\ UNCHANGED dlinked
    BY <1>1, <1>2, <1>3, <1>5 DEF ArrayRemoveAt, LnkRemoveAt, DlRemoveAt, array, linked
  <2>2. DlState(s, TRUE)' /\ DlState(s, FALSE)'
    BY <1>1, <1>2, <2>1, UnchangedGives
  <2>3. parted' = {}
    BY <1>1, <1>5 DEF Part
  <2> QED BY <1>1, <1>2, <2>1, <2>2, <2>3, AgreedNext
<1>6. CASE idx \in 0..(Len(s) - 1)
  <2>0. idx + 1 \in 1..Len(s) /\ idx < Len(s) /\ s # <<>>
    BY <1>2, <1>6
  <2>1. PICK t : t = Without(s, idx + 1)
    OBVIOUS
  <2>2. t \in Seq(Cells) /\ Len(t) = Len(s) - 1 /\ \A j \in 1..Len(t) : t[j] \in Held(iface)
    <3>1. PICK k : k = idx + 1
      OBVIOUS
    <3>2. k \in 1..Len(s) /\ t = Without(s, k)
      BY <3>1, <2>0, <2>1
    <3> QED BY <1>2, <3>2, WithoutCells
  <2>3. items' = t /\ arrOk' = TRUE /\ chain' = t /\ llen' = Len(t) /\ lnkOk' = TRUE
    BY <1>1, <1>2, <1>3, <1>6, <2>0, <2>1, <2>2
    DEF ArrayRemoveAt, ArrayTake, LnkRemoveAt, LnkTakeOut
  <2>4. \/ NodeAt(idx) = NULL /\ UNCHANGED dlinked
        \/ NodeAt(idx) # NULL /\ NodeAt(idx) \in used /\ Unlink(NodeAt(idx))
    BY <1>1, <1>2, <1>3, <1>6, <2>0 DEF DlRemoveAt
  <2>5. head # NULL
    BY <1>2, <2>0
  <2>6. ASSUME NodeAt(idx) = Forward[idx + 1], ~(Upper(idx) /\ Stale)
        PROVE  ListInv'
    <3>1. Forward[idx + 1] # NULL
      <4>1. Forward[idx + 1] \in used /\ used \subseteq Node
        BY <1>2, <2>0 DEF DlTyped
      <4> QED BY <4>1, NodeAssumption
    <3>2. Unlink(Forward[idx + 1])
      BY <2>4, <2>6, <3>1
    <3>3. DlState(t, TRUE)'
      <4>1. PICK k : k = idx + 1
        OBVIOUS
      <4>2. k \in 1..Len(s) /\ t = Without(s, k) /\ Unlink(Forward[k])
        BY <4>1, <2>0, <2>1, <3>2
      <4> QED BY <1>1, <1>2, <4>2, UnlinkGives
    <3>4. DlState(t, FALSE)'
      BY <3>3, DlWeaker
    <3>5. parted' = {}
      BY <1>1, <2>6 DEF Part
    <3> QED BY <1>1, <1>2, <2>2, <2>3, <3>3, <3>4, <3>5, AgreedNext
  <2>7. CASE ~Upper(idx)
    <3>1. ~(idx > Len(s) \div 2)
      BY <1>2, <2>7 DEF Upper
    <3>2. NodeAt(idx) = Forward[idx + 1]
      BY <1>2, <1>6, <3>1, NodeAtLower
    <3> QED BY <2>6, <2>7, <3>2
  <2>8. CASE Upper(idx) /\ ~Stale
    <3>1. idx > Len(s) \div 2
      BY <1>2, <2>8 DEF Upper
    <3>2. tail = Forward[Len(Forward)]
      BY <2>5, <2>8 DEF Stale
    <3>3. NodeAt(idx) = Forward[idx + 1]
      BY <1>1, <1>2, <1>6, <3>1, <3>2, NodeAtUpper
    <3> QED BY <2>6, <2>8, <3>3
  <2>9. CASE Upper(idx) /\ Stale
    <3>1. idx > Len(s) \div 2
      BY <1>2, <2>9 DEF Upper
    <3>2. tail # Forward[Len(Forward)]
      BY <2>9 DEF Stale
    <3>3. parted' = {"dlinked"}
      BY <1>1, <1>6, <2>9 DEF Part
    <3>4. \/ NodeAt(idx) = NULL
          \/ \E k \in 1..Len(s) : NodeAt(idx) = Forward[k] /\ k < Len(s)
      BY <1>1, <1>2, <1>6, <3>1, <3>2, NodeAtUpper
    <3>5. CASE NodeAt(idx) = NULL
      <4>1. UNCHANGED dlinked
        BY <2>4, <3>5
      <4>2. DlState(s, TRUE)'
        BY <1>1, <1>2, <4>1, UnchangedGives
      <4>3. PICK nodes : DlIs(nodes, s)'
        BY <4>2 DEF DlState
      <4>6. Contents' = s
        BY <1>2, <4>3, DlSeenNext
      <4>7. s # t
        BY <1>2, <2>0, <2>2
      <4>4. Contents' = s /\ Contents' # t
        BY <4>6, <4>7
      <4>5. DlTyped'
        BY <4>2 DEF DlState
      <4> QED BY <1>1, <1>2, <2>2, <2>3, <3>3, <4>4, <4>5, DlPartsNext
    <3>6. CASE NodeAt(idx) # NULL
      <4>1. PICK k \in 1..Len(s) : NodeAt(idx) = Forward[k] /\ k < Len(s)
        BY <3>4, <3>6
      <4>2. Unlink(Forward[k])
        BY <2>4, <3>6, <4>1
      <4>3. DlState(Without(s, k), TRUE)' /\ ~LocalLinks'
        BY <1>1, <1>2, <3>2, <4>1, <4>2, UnlinkGives
      <4>4. DlTyped'
        BY <4>3 DEF DlState
      <4> QED BY <1>1, <1>2, <2>2, <2>3, <3>3, <4>3, <4>4, DlPartsNext
    <3> QED BY <3>5, <3>6
  <2> QED BY <2>7, <2>8, <2>9
<1> QED BY <1>5, <1>6

(* What is turned round holds the same objects.                             *)
LEMMA BackwardsCells ==
  ASSUME NEW s \in Seq(Cells), NEW H, \A i \in 1..Len(s) : s[i] \in H
  PROVE  /\ Backwards(s) \in Seq(Cells) /\ Len(Backwards(s)) = Len(s)
         /\ \A i \in 1..Len(Backwards(s)) : Backwards(s)[i] \in H
<1>0. Len(s) \in Nat
  OBVIOUS
<1>1. /\ Backwards(s) \in Seq(Cells) /\ Len(Backwards(s)) = Len(s)
      /\ \A j \in 1..Len(s) : Backwards(s)[j] = s[Len(s) + 1 - j]
  BY BackwardsElements
<1>2. ASSUME NEW j \in 1..Len(s)
      PROVE  Backwards(s)[j] \in H
  <2>1. Len(s) + 1 - j \in 1..Len(s)
    BY <1>0
  <2> QED BY <2>1, <1>1
<1> QED BY <1>1, <1>2

(* reverse()                                                                *)
LEMMA ReverseAgrees ==
  ASSUME ListInv, DoReverse
  PROVE  ListInv'
<1>0. PICK s : Starts(s)
  BY AgreedFacts DEF DoReverse, Call
<1>2. /\ s \in Seq(Cells) /\ Len(s) \in Nat
      /\ \A i \in 1..Len(s) : s[i] \in Held(iface)
      /\ items = s /\ arrOk = TRUE /\ chain = s /\ llen = Len(s) /\ lnkOk = TRUE
      /\ DlState(s, FALSE) /\ (iface # "map" => DlState(s, TRUE))
      /\ iface \in Ifaces /\ crooked \in BOOLEAN
      /\ head = NULL <=> s = <<>>
      /\ DlTyped
  BY <1>0 DEF Starts
<1>1. /\ parted = {} /\ iface = "list" /\ iface' = iface
      /\ ArrayReverse /\ LnkReverse /\ DlReverse
      /\ parted' = IF s = <<>> THEN {"linked", "dlinked"} ELSE {}
      /\ crooked' \in BOOLEAN
  BY <1>2 DEF DoReverse, Call
<1>3. PICK t : t = Backwards(s)
  OBVIOUS
<1>4. t \in Seq(Cells) /\ Len(t) = Len(s) /\ \A i \in 1..Len(t) : t[i] \in Held(iface)
  BY <1>2, <1>3, BackwardsCells
<1>5. items' = t /\ arrOk' = TRUE
  BY <1>1, <1>2, <1>3 DEF ArrayReverse
<1>6. CASE s = <<>>
  <2>1. LnkUndefined /\ DlUndefined
    BY <1>1, <1>2, <1>6 DEF LnkReverse, DlReverse
  <2>2. DlTyped' /\ dOk' = FALSE
    BY <2>1, <1>2, UndefinedBreaks
  <2>3. lnkOk' = FALSE /\ chain' = s /\ llen' = Len(s)
    BY <2>1, <1>2 DEF LnkUndefined
  <2>4. ReallyParts("linked")' /\ ReallyParts("dlinked")'
    BY <2>2, <2>3, ReallyPartsNext
  <2>5. parted' = {"linked", "dlinked"}
    BY <1>1, <1>6
  <2>6. TypeOK'
    BY <1>1, <1>2, <1>4, <1>5, <2>2, <2>3, <2>5 DEF TypeOK, DlTyped, Classes
  <2>7. PartedWell'
    BY <1>1, <1>5, <2>4, <2>5 DEF PartedWell
  <2> QED BY <2>5, <2>6, <2>7 DEF ListInv
<1>7. CASE s # <<>>
  <2>1. chain' = t /\ llen' = Len(t) /\ lnkOk' = TRUE
    BY <1>1, <1>2, <1>3, <1>4, <1>7 DEF LnkReverse
  <2>2. DlState(t, TRUE)'
    BY <1>1, <1>2, <1>3, <1>7, ReverseGives
  <2>3. DlState(t, FALSE)'
    BY <2>2, DlWeaker
  <2>4. parted' = {}
    BY <1>1, <1>7
  <2> QED BY <1>1, <1>2, <1>4, <1>5, <2>1, <2>2, <2>3, <2>4, AgreedNext
<1> QED BY <1>6, <1>7

(* dup(): the dlinked_list always parts                                     *)
LEMMA DupAgrees ==
  ASSUME ListInv, DoDup
  PROVE  ListInv'
<1>0. PICK s : Starts(s)
  BY AgreedFacts DEF DoDup, Call
<1>2. /\ s \in Seq(Cells) /\ Len(s) \in Nat
      /\ \A i \in 1..Len(s) : s[i] \in Held(iface) /\ s[i] \in Cells
      /\ items = s /\ arrOk = TRUE /\ chain = s /\ llen = Len(s) /\ lnkOk = TRUE
      /\ DlState(s, FALSE)
      /\ iface \in Ifaces /\ crooked \in BOOLEAN
      /\ iface # "list" => Ascending(s)
      /\ iface = "map" => OneEach(s)
  BY <1>0 DEF Starts
<1>1. /\ parted = {} /\ iface' = iface
      /\ ArrayDup /\ LnkDup /\ DlDup
      /\ parted' = {"dlinked"} \cup Part("linked", s = <<>>)
                     \cup Part("array", \E i \in 1..Len(s) : s[i] = Null)
      /\ crooked' \in BOOLEAN
  BY <1>2 DEF DoDup, Call
<1>3. DlTyped' /\ (dOk' = FALSE \/ ~LocalLinks')
  BY <1>1, <1>2, DupBreaks
<1>4. items' = s /\ chain' = s /\ llen' = Len(s)
      /\ arrOk' = (\A i \in 1..Len(s) : s[i] # Null)
      /\ lnkOk' = (s # <<>>)
  BY <1>1, <1>2 DEF ArrayDup, LnkDup, LnkUndefined, linked
<1>5. iface # "list" => \A i \in 1..Len(s) : s[i] # Null
  <2>1. \A c \in Plain \cup Pairs : c # Null
    <3>1. \A c \in Pairs : c[1] > 0
      BY CellTyped
    <3>2. Null[1] = 0
      BY CellTyped
    <3> QED BY <3>1, <3>2, CellTyped
  <2> QED BY <2>1, <1>2 DEF Held, Ifaces
<1>6. TypeOK'
  BY <1>1, <1>2, <1>3, <1>4 DEF TypeOK, DlTyped, Classes, Part
<1>7. ReallyParts("dlinked")'
  BY <1>3, ReallyPartsNext
<1>8. "linked" \in parted' => ReallyParts("linked")' /\ s = <<>>
  <2>1. "linked" \in parted' => s = <<>>
    BY <1>1 DEF Part
  <2> QED BY <2>1, <1>4, ReallyPartsNext
<1>9. "array" \in parted' => ReallyParts("array")' /\ iface = "list" /\ arrOk' = FALSE
  <2>1. "array" \in parted' => \E i \in 1..Len(s) : s[i] = Null
    BY <1>1 DEF Part
  <2>2. "array" \in parted' => iface = "list" /\ arrOk' = FALSE
    BY <2>1, <1>4, <1>5
  <2> QED BY <2>2, ReallyPartsNext
<1>10. \A c \in parted' : ReallyParts(c)'
  BY <1>1, <1>7, <1>8, <1>9 DEF Part
<1>11. "array" \notin parted' => arrOk' = TRUE
  <2>1. "array" \notin parted' => ~(\E i \in 1..Len(s) : s[i] = Null)
    BY <1>1 DEF Part
  <2> QED BY <2>1, <1>4
<1>12. "linked" \notin parted' => lnkOk' = TRUE
  <2>1. "linked" \notin parted' => ~(s = <<>>)
    BY <1>1 DEF Part
  <2> QED BY <2>1, <1>4
<1>13. "dlinked" \in parted'
  BY <1>1
<1>14. PartedWell'
  BY <1>1, <1>2, <1>4, <1>9, <1>10, <1>11, <1>12, <1>13 DEF PartedWell
<1> QED BY <1>6, <1>13, <1>14 DEF ListInv

(* Three empty objects agree.                                               *)
LEMMA EmptyAgrees ==
  ASSUME parted' = {}, iface' \in Ifaces, crooked' \in BOOLEAN,
         items' = <<>>, arrOk' = TRUE, chain' = <<>>, llen' = 0, lnkOk' = TRUE,
         DlState(<<>>, TRUE)'
  PROVE  ListInv'
<1>1. PICK s : s = <<>>
  OBVIOUS
<1>2. s \in Seq(Cells) /\ Len(s) = 0 /\ \A i \in 1..Len(s) : s[i] \in Held(iface')
  BY <1>1
<1>3. Ascending(s) /\ OneEach(s)
  BY <1>2 DEF Ascending, OneEach
<1>4. DlState(s, TRUE)' /\ DlState(s, FALSE)'
  BY <1>1, DlWeaker
<1> QED BY <1>1, <1>2, <1>3, <1>4, AgreedNext

(* done()                                                                   *)
LEMMA DoneAgrees ==
  ASSUME ListInv, DoDone
  PROVE  ListInv'
<1>0. PICK s : Starts(s)
  BY AgreedFacts DEF DoDone, Call
<1>2. /\ s \in Seq(Cells) /\ Len(s) \in Nat
      /\ items = s /\ arrOk = TRUE /\ chain = s /\ llen = Len(s) /\ lnkOk = TRUE
      /\ DlState(s, FALSE) /\ (iface # "map" => DlState(s, TRUE))
      /\ iface \in Ifaces /\ crooked \in BOOLEAN /\ dOk = TRUE /\ len = Len(s)
      /\ iface = "map" => DlState(s, FALSE)
      /\ head = NULL <=> s = <<>>
  BY <1>0 DEF Starts
<1>1. /\ parted' = {} /\ iface' = iface /\ crooked' \in BOOLEAN
      /\ ArrayDone /\ LnkDone /\ DlDone
  BY <1>2 DEF DoDone, Call
<1>3. items' = <<>> /\ arrOk' = TRUE /\ chain' = <<>> /\ llen' = 0 /\ lnkOk' = TRUE
  <2>1. CASE Len(s) = 0
    <3>1. s = <<>>
      BY <1>2, <2>1
    <3> QED BY <3>1, <2>1, <1>1, <1>2 DEF ArrayDone, LnkDone
  <2>2. CASE Len(s) # 0
    BY <2>2, <1>1, <1>2 DEF ArrayDone, LnkDone
  <2> QED BY <2>1, <2>2
<1>4. CASE Len(s) # 0
  <2>1. DlEmpty /\ dOk' = TRUE
    BY <1>1, <1>2, <1>4 DEF DlDone
  <2> QED BY <2>1, <1>1, <1>2, <1>3, EmptyGives, EmptyAgrees
<1>5. CASE Len(s) = 0
  <2>1. s = <<>> /\ UNCHANGED dlinked
    BY <1>1, <1>2, <1>5 DEF DlDone
  <2>2. DlState(s, FALSE)' /\ (iface # "map" => DlState(s, TRUE)')
    BY <2>1, <1>2, UnchangedGives
  <2>3. Ascending(s) /\ OneEach(s) /\ \A i \in 1..Len(s) : s[i] \in Held(iface')
    BY <1>5 DEF Ascending, OneEach
  <2>4. llen' = Len(s) /\ items' = s /\ chain' = s
    BY <1>3, <1>5, <2>1
  <2> QED BY <1>1, <1>2, <1>3, <2>2, <2>3, <2>4, AgreedNext
<1> QED BY <1>4, <1>5, <1>2

(* Other objects, of another interface                                      *)
LEMMA NewListsAgree ==
  ASSUME ListInv, NewLists
  PROVE  ListInv'
<1>1. /\ parted' = {} /\ iface' = iface /\ crooked' = FALSE
      /\ items' = <<>> /\ arrOk' = TRUE /\ chain' = <<>> /\ llen' = 0 /\ lnkOk' = TRUE
      /\ DlEmpty /\ dOk' = TRUE
  BY DEF NewLists, ArrayNew, LnkNew, DlNew
<1>2. iface \in Ifaces
  BY DEF ListInv, TypeOK
<1> QED BY <1>1, <1>2, EmptyGives, EmptyAgrees

(* The first ones.                                                          *)
LEMMA InitAgrees ==
  ASSUME Init
  PROVE  ListInv
<1>1. PICK s : s = <<>>
  OBVIOUS
<1>2. /\ parted = {} /\ iface \in Ifaces /\ crooked = FALSE
      /\ items = s /\ arrOk = TRUE /\ chain = s /\ llen = 0 /\ lnkOk = TRUE /\ DlInit
  BY <1>1 DEF Init, ArrayInit, LnkInit
<1>3. DlState(s, TRUE)
  BY <1>1, <1>2, InitGives
<1>4. DlState(s, FALSE) /\ DlTyped
  BY <1>3 DEF DlState
<1>5. s \in Seq(Cells) /\ Len(s) = 0 /\ Ascending(s) /\ OneEach(s)
      /\ \A i \in 1..Len(s) : s[i] \in Held(iface)
  BY <1>1 DEF Ascending, OneEach
<1>6. TypeOK
  BY <1>2, <1>4, <1>5 DEF TypeOK, DlTyped
<1>7. Agreed(s)
  BY <1>2, <1>3, <1>4, <1>5 DEF Agreed
<1>8. Agreed(items)
  BY <1>2, <1>7
<1> QED BY <1>2, <1>6, <1>8 DEF ListInv

(* What is less than the first cell comes in front.                         *)
LEMMA PlaceFirst ==
  ASSUME NEW s \in Seq(Cells), NEW x \in Cells, s = <<>> \/ Less(x, s[1])
  PROVE  PlaceFor(s, x) = 1
<1>0. Len(s) \in Nat
  OBVIOUS
<1>1. /\ PlaceFor(s, x) \in 1..(Len(s) + 1)
      /\ \A j \in 1..Len(s) : j < PlaceFor(s, x) => Less(s[j], x)
  BY PlaceIs
<1>2. CASE s = <<>>
  <2>1. Len(s) = 0
    BY <1>2
  <2> QED BY <1>1, <2>1
<1>3. CASE s # <<>> /\ Less(x, s[1])
  <2>1. 1 \in 1..Len(s)
    BY <1>0, <1>3
  <2>2. x[1] \in Nat /\ s[1][1] \in Nat
    BY <2>1, KeyOf, CellTyped
  <2>3. ~Less(s[1], x)
    BY <1>3, <2>2 DEF Less
  <2> QED BY <2>1, <2>3, <1>1
<1> QED BY <1>2, <1>3

(* What is linked in behind the last cell is not what the array holds.     *)
LEMMA LastDiffers ==
  ASSUME NEW s \in Seq(Cells), NEW x \in Cells, NEW i \in 1..Len(s), ~Less(s[i], x),
         Less(s[Len(s)], x)
  PROVE  Splice(s, Len(s) + 1, x) # Splice(s, PlaceFor(s, x), x)
<1> DEFINE n == Len(s)
           p == PlaceFor(s, x)
           e == n + 1
<1>0. n \in Nat /\ n = Len(s) /\ n \in 1..n /\ e = n + 1 /\ e \in 1..(Len(s) + 1) /\ i \in 1..n
  OBVIOUS
<1>1. p \in 1..(n + 1) /\ \A j \in 1..n : j < p => Less(s[j], x)
  BY PlaceIs
<1> HIDE DEF n, p, e
<1>2. p <= i
  BY <1>0, <1>1
<1>3. Splice(s, e, x)[e] = x
  <2>1. \A j \in 1..(Len(s) + 1) :
          Splice(s, e, x)[j] = IF j < e THEN s[j] ELSE IF j = e THEN x ELSE s[j - 1]
    <3>1. e \in 1..(Len(s) + 1)
      BY <1>0
    <3> QED BY <3>1, SpliceAt
  <2> QED BY <2>1, <1>0
<1>4. Splice(s, p, x)[e] = s[n]
  <2>1. p \in 1..(Len(s) + 1) /\ ~(e < p) /\ e # p /\ e - 1 = n
    BY <1>0, <1>1, <1>2
  <2>2. \A j \in 1..(Len(s) + 1) :
          Splice(s, p, x)[j] = IF j < p THEN s[j] ELSE IF j = p THEN x ELSE s[j - 1]
    BY <2>1, SpliceAt
  <2> QED BY <2>1, <2>2, <1>0
<1>5. s[n] # x
  <2>1. x[1] \in Nat
    BY CellTyped
  <2> QED BY <2>1, <1>0 DEF Less
<1> QED BY <1>3, <1>4, <1>5, <1>0 DEF p

(* insert() of a dlinked_list: in the array's place, or it parts.          *)
LEMMA DlInsertGives ==
  ASSUME NEW s, Starts(s), NEW x \in Cells, s # <<>> /\ Same(x, s[1]) => x = s[1],
         DlInsert(x), NEW t, t = Splice(s, PlaceFor(s, x), x)
  PROVE  /\ ~DlInsertParts(x) =>
              DlState(t, FALSE)' /\ (iface # "map" => DlState(t, TRUE)')
         /\ DlInsertParts(x) =>
              DlTyped' /\ (dOk' = FALSE \/ ~LocalLinks' \/ Contents' # t)
<1>1. /\ s \in Seq(Cells) /\ Len(s) \in Nat /\ items = s
      /\ \A i \in 1..Len(s) : s[i] \in Cells
      /\ DlState(s, FALSE) /\ (iface # "map" => DlState(s, TRUE))
      /\ DlTyped
      /\ Contents = s /\ Len(Forward) = Len(s)
      /\ head = NULL <=> s = <<>>
      /\ \A i \in 1..Len(s) : Forward[i] \in used /\ data[Forward[i]] = s[i]
      /\ s # <<>> => data[head] = s[1]
  BY DEF Starts
<1>2. CASE s = <<>> \/ Less(x, s[1])
  <2>1. DlPrepend(x)
    BY <1>1, <1>2 DEF DlInsert
  <2>2. ~DlInsertParts(x)
    BY <1>1, <1>2 DEF DlInsertParts
  <2>3. PlaceFor(s, x) = 1
    BY <1>1, <1>2, PlaceFirst
  <2>4. t = Splice(s, 1, x)
    BY <2>3
  <2>5. DlState(t, FALSE)' /\ (iface # "map" => DlState(t, TRUE)')
    BY <1>1, <2>1, <2>4, PrependGives
  <2> QED BY <2>2, <2>5
<1>3. CASE s # <<>> /\ ~Less(x, s[1]) /\ tail \notin used
  <2>1. DlUndefined
    BY <1>1, <1>3 DEF DlInsert
  <2>2. DlInsertParts(x)
    BY <1>1, <1>3 DEF DlInsertParts
  <2> QED BY <1>1, <2>1, <2>2, UndefinedBreaks
<1>4. CASE s # <<>> /\ ~Less(x, s[1]) /\ tail \in used /\ Less(data[tail], x)
  <2>0. head # NULL /\ Len(s) \in 1..Len(s) /\ Len(Forward) # 0
    BY <1>1, <1>4
  <2>1. DlAppend(x)
    BY <1>1, <1>4, <2>0 DEF DlInsert
  <2>2. CASE Stale
    <3>1. DlInsertParts(x)
      BY <1>1, <1>4, <2>2 DEF DlInsertParts
    <3>2. DlTyped' /\ ~LocalLinks'
      BY <1>1, <2>0, <2>1, <2>2, AppendBreaks DEF Stale
    <3> QED BY <3>1, <3>2
  <2>3. CASE ~Stale
    <3>1. tail = Forward[Len(Forward)]
      BY <2>0, <2>3 DEF Stale
    <3>2. data[tail] = s[Len(s)]
      BY <1>1, <2>0, <3>1
    <3>3. PICK u : u = Splice(s, Len(s) + 1, x)
      OBVIOUS
    <3>4. DlState(u, FALSE)' /\ (iface # "map" => DlState(u, TRUE)')
      BY <1>1, <2>0, <2>1, <3>1, <3>3, AppendGives
    <3>5. CASE \A i \in 1..Len(s) : Less(s[i], x)
      <4>1. PlaceFor(s, x) = Len(s) + 1
        BY <1>1, <3>5, PlaceIs
      <4>2. t = u
        BY <3>3, <4>1
      <4>3. ~DlInsertParts(x)
        BY <1>1, <1>4, <2>3, <3>5 DEF DlInsertParts
      <4> QED BY <3>4, <4>2, <4>3
    <3>6. CASE ~(\A i \in 1..Len(s) : Less(s[i], x))
      <4>1. PICK i \in 1..Len(s) : ~Less(s[i], x)
        BY <3>6
      <4>2. u # t
        BY <1>1, <1>4, <3>2, <3>3, <4>1, LastDiffers
      <4>3. DlInsertParts(x)
        BY <1>1, <1>4, <4>1 DEF DlInsertParts
      <4>4. u \in Seq(Cells)
        <5>1. PICK k : k = Len(s) + 1
          OBVIOUS
        <5>2. k \in 1..(Len(s) + 1)
          BY <1>1, <5>1
        <5> QED BY <1>1, <3>3, <5>1, <5>2, SpliceAt
      <4>5. DlTyped' /\ \E nodes : DlIs(nodes, u)'
        BY <3>4 DEF DlState
      <4>6. Contents' = u
        BY <4>4, <4>5, DlSeenNext
      <4> QED BY <4>2, <4>3, <4>5, <4>6
    <3> QED BY <3>5, <3>6
  <2> QED BY <2>2, <2>3
<1>5. CASE s # <<>> /\ ~Less(x, s[1]) /\ tail \in used /\ ~Less(data[tail], x)
  <2>0. head # NULL
    BY <1>1, <1>5
  <2>1. PICK q : q = PlaceFor(Tail(s), x)
    OBVIOUS
  <2>2. /\ q \in 1..Len(s)
        /\ q < Len(s) => ~Less(s[q + 1], x)
        /\ \A j \in 2..Len(s) : j <= q => Less(s[j], x)
    BY <1>1, <1>5, <2>1, TailPlaceIs
  <2>3. InsertAfter(Forward[q], x)
    BY <1>1, <1>5, <2>0, <2>1 DEF DlInsert
  <2>4. CASE q = Len(s)
    <3>1. \A i \in 2..Len(s) : Less(s[i], x)
      BY <1>1, <2>2, <2>4
    <3>2. DlInsertParts(x)
      BY <1>1, <1>5, <3>1 DEF DlInsertParts
    <3>3. DlTyped' /\ dOk' = FALSE
      BY <1>1, <1>5, <2>3, <2>4, InsertAfterLast
    <3> QED BY <3>2, <3>3
  <2>5. CASE q # Len(s)
    <3>0. q \in 1..(Len(s) - 1) /\ q + 1 \in 2..Len(s) /\ q + 1 \in 1..(Len(s) + 1)
      BY <1>1, <2>2, <2>5
    <3>1. PICK u : u = Splice(s, q + 1, x)
      OBVIOUS
    <3>2. DlState(u, FALSE)' /\ (iface # "map" => DlState(u, TRUE)')
      BY <1>1, <2>3, <3>0, <3>1, InsertAfterGives
    <3>3. ~(\A i \in 2..Len(s) : Less(s[i], x))
      BY <2>2, <3>0
    <3>4. PassesEqualHead(x) <=> PassesHead(s, x)
      BY <1>1 DEF PassesEqualHead, PassesHead
    <3>5. CASE PassesHead(s, x)
      <4>1. DlInsertParts(x)
        BY <1>1, <1>5, <3>4, <3>5 DEF DlInsertParts
      <4>2. u # t
        BY <1>1, <2>1, <3>1, <3>5, InsertDiffers
      <4>3. u \in Seq(Cells)
        <5>1. PICK k : k = q + 1
          OBVIOUS
        <5>2. k \in 1..(Len(s) + 1)
          BY <3>0, <5>1
        <5> QED BY <1>1, <3>1, <5>1, <5>2, SpliceAt
      <4>4. DlTyped' /\ \E nodes : DlIs(nodes, u)'
        BY <3>2 DEF DlState
      <4>5. Contents' = u
        BY <4>3, <4>4, DlSeenNext
      <4> QED BY <4>1, <4>2, <4>4, <4>5
    <3>6. CASE ~PassesHead(s, x)
      <4>1. ~DlInsertParts(x)
        BY <1>1, <1>5, <3>3, <3>4, <3>6 DEF DlInsertParts
      <4>2. u = t
        BY <1>1, <1>5, <2>1, <3>1, <3>6, InsertSame
      <4> QED BY <3>2, <4>1, <4>2
    <3> QED BY <3>5, <3>6
  <2> QED BY <2>4, <2>5
<1> QED BY <1>2, <1>3, <1>4, <1>5

(* insert() of a linked_list: in the array's place unless it passes the head.*)
LEMMA LnkInsertGives ==
  ASSUME NEW s, Starts(s), NEW x \in Cells, s # <<>> /\ Same(x, s[1]) => x = s[1],
         LnkInsert(x), NEW t, t = Splice(s, PlaceFor(s, x), x)
  PROVE  /\ llen' = Len(s) + 1 /\ lnkOk' = TRUE
         /\ chain' \in Seq(Cells) /\ Len(chain') = Len(s) + 1
         /\ chain' = t <=> ~PassesHead(s, x)
<1>1. /\ s \in Seq(Cells) /\ Len(s) \in Nat /\ chain = s /\ llen = Len(s) /\ lnkOk = TRUE
      /\ \A i \in 1..Len(s) : s[i] \in Cells /\ s[i][1] \in Nat
  BY DEF Starts
<1>2. CASE s = <<>> \/ Less(x, s[1])
  <2>1. LnkLinkIn(1, x)
    BY <1>1, <1>2 DEF LnkInsert
  <2>2. chain' = Splice(s, 1, x) /\ llen' = Len(s) + 1 /\ lnkOk' = TRUE
    BY <2>1, <1>1 DEF LnkLinkIn
  <2>3. chain' = t
    BY <1>1, <1>2, <2>2, PlaceFirst
  <2>4. ~PassesHead(s, x)
    <3>1. s # <<>> => 1 \in 1..Len(s)
      BY <1>1
    <3>2. x[1] \in Nat
      BY CellTyped
    <3>3. s = <<>> => ~(Len(s) > 1)
      BY <1>1
    <3> QED BY <1>1, <1>2, <3>1, <3>2, <3>3 DEF PassesHead, Less, Same
  <2>5. chain' \in Seq(Cells) /\ Len(chain') = Len(s) + 1
    <3>1. 1 \in 1..(Len(s) + 1)
      BY <1>1
    <3> QED BY <1>1, <2>2, <3>1, SpliceAt
  <2> QED BY <2>2, <2>3, <2>4, <2>5
<1>3. CASE s # <<>> /\ ~Less(x, s[1])
  <2>1. PICK q : q = PlaceFor(Tail(s), x)
    OBVIOUS
  <2>2. q \in 1..Len(s)
    BY <1>1, <1>3, <2>1, TailPlaceIs
  <2>3. LnkLinkIn(1 + q, x)
    BY <1>1, <1>3, <2>1 DEF LnkInsert
  <2>4. PICK k : k = q + 1
    OBVIOUS
  <2>5. k \in 1..(Len(s) + 1) /\ k = 1 + q
    BY <1>1, <2>2, <2>4
  <2>6. chain' = Splice(s, k, x) /\ llen' = Len(s) + 1 /\ lnkOk' = TRUE
    BY <2>3, <2>5, <1>1 DEF LnkLinkIn
  <2>7. chain' \in Seq(Cells) /\ Len(chain') = Len(s) + 1
    BY <1>1, <2>5, <2>6, SpliceAt
  <2>8. CASE PassesHead(s, x)
    BY <1>1, <2>1, <2>4, <2>6, <2>7, <2>8, InsertDiffers
  <2>9. CASE ~PassesHead(s, x)
    BY <1>1, <1>3, <2>1, <2>4, <2>6, <2>7, <2>9, InsertSame
  <2> QED BY <2>8, <2>9
<1> QED BY <1>2, <1>3

(* The insertion of the three classes.                                     *)
LEMMA InsertStep ==
  ASSUME NEW s, Starts(s), NEW x \in Held(iface), x \in Cells,
         s # <<>> /\ Same(x, s[1]) => x = s[1],
         iface = "map" => \A i \in 1..Len(s) : s[i][1] # x[1],
         items' = Splice(s, PlaceFor(s, x), x), arrOk' = TRUE, LnkInsert(x), DlInsert(x),
         iface' = iface, crooked' \in BOOLEAN,
         parted' = Part("linked", PassesHead(s, x)) \cup Part("dlinked", DlInsertParts(x))
  PROVE  ListInv'
<1>1. /\ s \in Seq(Cells) /\ Len(s) \in Nat
      /\ \A i \in 1..Len(s) : s[i] \in Held(iface)
      /\ items = s /\ iface \in Ifaces
      /\ iface # "list" => Ascending(s)
      /\ iface = "map" => OneEach(s)
  BY DEF Starts
<1>2. PICK t : t = Splice(s, PlaceFor(s, x), x)
  OBVIOUS
<1>3. t \in Seq(Cells) /\ Len(t) = Len(s) + 1 /\ \A i \in 1..Len(t) : t[i] \in Held(iface)
  <2>1. PICK p : p = PlaceFor(s, x)
    OBVIOUS
  <2>2. p \in 1..(Len(s) + 1)
    BY <1>1, <2>1, PlaceIs
  <2> QED BY <1>1, <1>2, <2>1, <2>2, SpliceCells
<1>4. (iface # "list" => Ascending(t)) /\ (iface = "map" => OneEach(t))
  BY <1>1, <1>2, InsertOrdered
<1>5. /\ llen' = Len(t) /\ lnkOk' = TRUE
      /\ chain' \in Seq(Cells) /\ Len(chain') = Len(t)
      /\ chain' = t <=> ~PassesHead(s, x)
  BY <1>2, <1>3, LnkInsertGives
<1>6. /\ ~DlInsertParts(x) =>
              DlState(t, FALSE)' /\ (iface # "map" => DlState(t, TRUE)')
      /\ DlInsertParts(x) =>
              DlTyped' /\ (dOk' = FALSE \/ ~LocalLinks' \/ Contents' # t)
  BY <1>2, DlInsertGives
<1>7. CASE ~PassesHead(s, x) /\ ~DlInsertParts(x)
  <2>1. parted' = {}
    BY <1>7 DEF Part
  <2> QED BY <1>1, <1>2, <1>3, <1>4, <1>5, <1>6, <1>7, <2>1, AgreedNext
<1>8. CASE ~PassesHead(s, x) /\ DlInsertParts(x)
  <2>1. parted' = {"dlinked"}
    BY <1>8 DEF Part
  <2> QED BY <1>1, <1>2, <1>3, <1>4, <1>5, <1>6, <1>8, <2>1, DlPartsNext
<1>9. CASE PassesHead(s, x)
  <2>1. DlInsertParts(x)
    <3>1. Len(s) > 1 /\ Same(x, s[1]) /\ Less(s[2], x) /\ s # <<>> /\ 1 \in 1..Len(s)
      BY <1>1, <1>9 DEF PassesHead
    <3>2. PassesEqualHead(x)
      BY <1>1, <3>1 DEF PassesEqualHead
    <3>3. x[1] \in Nat /\ s[1][1] \in Nat
      BY <1>1, <3>1, KeyOf, CellTyped
    <3>4. ~Less(x, s[1]) /\ ~Less(s[1], x)
      BY <3>1, <3>3 DEF Less, Same
    <3> QED BY <1>1, <3>1, <3>2, <3>4 DEF DlInsertParts
  <2>2. parted' = {"linked", "dlinked"}
    BY <1>9, <2>1 DEF Part
  <2>3. ReallyParts("linked")' /\ ReallyParts("dlinked")'
    BY <1>2, <1>5, <1>6, <1>9, <2>1, ReallyPartsNext
  <2>4. TypeOK'
    <3>1. DlTyped' /\ parted' \subseteq Classes
      BY <1>6, <2>1, <2>2 DEF Classes
    <3>2. items' \in Seq(Cells) /\ chain' \in Seq(Cells) /\ llen' \in Nat
      BY <1>2, <1>3, <1>5
    <3> QED BY <1>1, <1>5, <3>1, <3>2 DEF TypeOK, DlTyped
  <2>5. PartedWell'
    BY <1>2, <1>3, <1>4, <1>5, <2>2, <2>3 DEF PartedWell
  <2> QED BY <2>2, <2>4, <2>5 DEF ListInv
<1> QED BY <1>7, <1>8, <1>9

(* insert()                                                                 *)
LEMMA InsertAgrees ==
  ASSUME ListInv, NEW x \in Plain, DoInsert(x)
  PROVE  ListInv'
<1>0. PICK s : Starts(s)
  BY AgreedFacts DEF DoInsert, Call
<1>1. /\ s \in Seq(Cells) /\ Len(s) \in Nat
      /\ \A i \in 1..Len(s) : s[i] \in Held(iface)
      /\ items = s /\ arrOk = TRUE /\ crooked \in BOOLEAN
  BY <1>0 DEF Starts
<1>2. /\ iface \in {"list", "vector"} /\ iface' = iface /\ crooked' \in BOOLEAN
      /\ LnkInsert(x) /\ DlInsert(x)
      /\ items' = Splice(s, PlaceFor(s, x), x) /\ arrOk' = TRUE
      /\ parted' = Part("linked", PassesEqualHead(x)) \cup Part("dlinked", DlInsertParts(x))
  BY <1>1 DEF DoInsert, Call, ArrayInsert
<1>3. x \in Held(iface) /\ x \in Cells
  BY <1>2, CellTyped DEF Held
<1>4. s # <<>> /\ Same(x, s[1]) => x = s[1]
  <2> HAVE s # <<>> /\ Same(x, s[1])
  <2>1. 1 \in 1..Len(s)
    BY <1>1
  <2>2. s[1] \in Plain \cup {Null}
    BY <1>1, <1>2, <2>1 DEF Held
  <2>3. x[1] > 0 /\ Null[1] = 0 /\ x[1] = s[1][1]
    BY CellTyped DEF Same
  <2>4. s[1] \in Plain
    BY <2>2, <2>3
  <2>5. x = <<x[1], 0>> /\ s[1] = <<s[1][1], 0>>
    BY <2>4, CellTyped
  <2> QED BY <2>3, <2>5
<1>5. PassesEqualHead(x) <=> PassesHead(s, x)
  BY <1>1 DEF PassesEqualHead, PassesHead
<1>6. parted' = Part("linked", PassesHead(s, x)) \cup Part("dlinked", DlInsertParts(x))
  BY <1>2, <1>5 DEF Part
<1> QED BY <1>0, <1>2, <1>3, <1>4, <1>6, InsertStep

(* set() of a map: the pair of the key, or a new one in order               *)
LEMMA SetAgrees ==
  ASSUME ListInv, NEW k \in Keys, NEW v \in Values, DoSet(k, v)
  PROVE  ListInv'
<1>0. PICK s : Starts(s)
  BY AgreedFacts DEF DoSet, Call
<1>1. /\ s \in Seq(Cells) /\ Len(s) \in Nat
      /\ \A i \in 1..Len(s) : s[i] \in Held(iface)
      /\ items = s /\ arrOk = TRUE /\ chain = s /\ llen = Len(s) /\ lnkOk = TRUE
      /\ iface \in Ifaces /\ crooked \in BOOLEAN
      /\ DlState(s, FALSE) /\ Contents = s
      /\ iface # "list" => Ascending(s)
      /\ iface = "map" => OneEach(s)
      /\ \A i \in 1..Len(s) : Forward[i] \in used
  BY <1>0 DEF Starts
<1>2. PICK x : x = <<k, v>>
  OBVIOUS
<1>3. /\ iface = "map" /\ iface' = iface /\ crooked' \in BOOLEAN
      /\ ArraySet(k, v) /\ LnkSet(k, v) /\ DlSet(k, v)
      /\ parted' = Part("dlinked", (\A i \in 1..Len(s) : s[i][1] # k) /\ DlInsertParts(x))
  BY <1>1, <1>2 DEF DoSet, Call
<1>4. x \in Pairs /\ x \in Cells /\ x \in Held(iface) /\ x[1] = k
  BY <1>2, <1>3, CellTyped DEF Held, Pairs
<1>5. PICK i : i = FirstWith(s, k)
  OBVIOUS
<1>6. /\ i \in 1..(Len(s) + 1)
      /\ i <= Len(s) => s[i][1] = k
      /\ \A j \in 1..Len(s) : j < i => s[j][1] # k
  BY <1>1, <1>5, FirstWithIs
<1>7. CASE i > Len(s)
  <2>1. \A j \in 1..Len(s) : s[j][1] # x[1]
    BY <1>1, <1>4, <1>6, <1>7
  <2>2. items' = Splice(s, PlaceFor(s, x), x) /\ arrOk' = TRUE /\ LnkInsert(x) /\ DlInsert(x)
    BY <1>1, <1>2, <1>3, <1>5, <1>7 DEF ArraySet, ArrayInsert, LnkSet, DlSet
  <2>3. s # <<>> => ~Same(x, s[1])
    <3>1. s # <<>> => 1 \in 1..Len(s)
      BY <1>1
    <3> QED BY <2>1, <3>1 DEF Same
  <2>4. ~PassesHead(s, x)
    <3>1. Len(s) > 1 => s # <<>>
      BY <1>1
    <3> QED BY <2>3, <3>1 DEF PassesHead
  <2>5. parted' = Part("linked", PassesHead(s, x)) \cup Part("dlinked", DlInsertParts(x))
    BY <1>3, <1>4, <2>1, <2>4 DEF Part
  <2> QED BY <1>0, <1>3, <1>4, <2>1, <2>2, <2>3, <2>5, InsertStep
<1>8. CASE ~(i > Len(s))
  <2>1. i \in 1..Len(s) /\ s[i][1] = k
    BY <1>1, <1>6, <1>8
  <2>2. PICK t : t = [s EXCEPT ![i] = x]
    OBVIOUS
  <2>3. t \in Seq(Cells) /\ Len(t) = Len(s) /\ \A j \in 1..Len(t) : t[j] \in Held(iface)
    BY <1>1, <1>4, <2>1, <2>2
  <2>4. Ascending(t) /\ OneEach(t)
    BY <1>1, <1>3, <1>4, <2>1, <2>2, SetOrdered
  <2>5. items' = t /\ arrOk' = TRUE /\ chain' = t /\ llen' = Len(t) /\ lnkOk' = TRUE
    BY <1>1, <1>2, <1>3, <1>5, <1>8, <2>2, <2>3 DEF ArraySet, LnkSet
  <2>6. data' = [data EXCEPT ![Forward[i]] = x]
        /\ UNCHANGED <<used, next, prev, head, tail, len, dOk>>
    BY <1>1, <1>2, <1>3, <1>5, <1>8 DEF DlSet
  <2>7. DlState(t, FALSE)'
    BY <1>1, <1>4, <2>1, <2>2, <2>6, SetGives
  <2>8. parted' = {}
    BY <1>3, <2>1 DEF Part
  <2> QED BY <1>1, <1>3, <2>3, <2>4, <2>5, <2>7, <2>8, AgreedNext
<1> QED BY <1>7, <1>8

(* Linked in behind an equal cell or in front of it: the same.             *)
LEMMA ShiftSplice ==
  ASSUME NEW s \in Seq(Cells), NEW k \in 1..Len(s), NEW x \in Cells
  PROVE  Splice(s, k + 1, x) = Splice(s, k, x) <=> s[k] = x
<1> DEFINE n == Len(s)
           u == Splice(s, k + 1, x)
           t == Splice(s, k, x)
<1>0. n \in Nat /\ n = Len(s) /\ k \in 1..n /\ k \in 1..(Len(s) + 1) /\ k + 1 \in 1..(Len(s) + 1)
  OBVIOUS
<1>1. /\ u \in Seq(Cells) /\ Len(u) = n + 1
      /\ \A j \in 1..(n + 1) : u[j] = IF j < k + 1 THEN s[j] ELSE IF j = k + 1 THEN x ELSE s[j - 1]
  <2>1. PICK e : e = k + 1
    OBVIOUS
  <2>2. e \in 1..(Len(s) + 1)
    BY <1>0, <2>1
  <2>3. /\ Splice(s, e, x) \in Seq(Cells)
        /\ Len(Splice(s, e, x)) = Len(s) + 1
        /\ \A j \in 1..(Len(s) + 1) :
             Splice(s, e, x)[j] = IF j < e THEN s[j] ELSE IF j = e THEN x ELSE s[j - 1]
    <3> HIDE DEF n, u, t
    <3> QED BY <2>2, SpliceAt, SMTT(30)
  <2> QED BY <1>0, <2>1, <2>3
<1>2. /\ t \in Seq(Cells) /\ Len(t) = n + 1
      /\ \A j \in 1..(n + 1) : t[j] = IF j < k THEN s[j] ELSE IF j = k THEN x ELSE s[j - 1]
  <2>1. k \in 1..(Len(s) + 1)
    BY <1>0
  <2>2. /\ Splice(s, k, x) \in Seq(Cells)
        /\ Len(Splice(s, k, x)) = Len(s) + 1
        /\ \A j \in 1..(Len(s) + 1) :
             Splice(s, k, x)[j] = IF j < k THEN s[j] ELSE IF j = k THEN x ELSE s[j - 1]
    <3> HIDE DEF n, u, t
    <3> QED BY <2>1, SpliceAt
  <2> QED BY <1>0, <2>2
<1> HIDE DEF n, u, t
<1>3. ASSUME s[k] = x PROVE u = t
  <2>1. ASSUME NEW j \in 1..(n + 1) PROVE u[j] = t[j]
    <3>1. CASE j < k
      BY <3>1, <1>0, <1>1, <1>2
    <3>2. CASE j = k
      BY <3>2, <1>0, <1>1, <1>2, <1>3
    <3>3. CASE j = k + 1
      <4>1. j - 1 = k /\ ~(j < k) /\ j # k /\ ~(j < k + 1)
        BY <3>3, <1>0
      <4> QED BY <4>1, <3>3, <1>1, <1>2, <1>3
    <3>4. CASE j > k + 1
      BY <3>4, <1>0, <1>1, <1>2
    <3> QED BY <3>1, <3>2, <3>3, <3>4, <1>0
  <2> QED BY <2>1, <1>0, <1>1, <1>2, SameCells
<1>4. ASSUME u = t PROVE s[k] = x
  <2>1. k \in 1..(n + 1) /\ k < k + 1 /\ ~(k < k)
    BY <1>0
  <2> QED BY <2>1, <1>1, <1>2, <1>4
<1> QED BY <1>3, <1>4 DEF u, t

(* One list behind another.                                                 *)
LEMMA ConcatCells ==
  ASSUME NEW s \in Seq(Cells), NEW z \in Seq(Cells)
  PROVE  /\ s \o z \in Seq(Cells) /\ Len(s \o z) = Len(s) + Len(z)
         /\ \A j \in 1..(Len(s) + Len(z)) :
              (s \o z)[j] = IF j <= Len(s) THEN s[j] ELSE z[j - Len(s)]
BY ConcatProperties

(* A list padded with Null up to an index past its end.                     *)
LEMMA PaddedCells ==
  ASSUME NEW s \in Seq(Cells), Null \in Cells, NEW x \in Cells, NEW n \in Nat
  PROVE  LET t == s \o Nulls(n) \o <<x>> IN
         /\ t \in Seq(Cells)
         /\ Len(t) = Len(s) + n + 1
         /\ \A j \in 1..(Len(s) + n + 1) :
              t[j] = IF j <= Len(s) THEN s[j] ELSE IF j <= Len(s) + n THEN Null ELSE x
BY PaddedElements, ZenonT(60)

(* The padding alone.                                                       *)
LEMMA NullsCells ==
  ASSUME NEW n \in Nat, NEW x \in Cells
  PROVE  /\ Nulls(n) \in Seq(Cells) /\ Len(Nulls(n)) = n
         /\ Nulls(n) \o <<x>> \in Seq(Cells) /\ Len(Nulls(n) \o <<x>>) = n + 1
<1>1. Null \in Cells
  BY CellTyped
<1>2. Nulls(n) \in Seq(Cells) /\ Len(Nulls(n)) = n
  BY <1>1 DEF Nulls
<1>3. PICK p : p = Nulls(n)
  OBVIOUS
<1>4. PICK one : one = <<x>>
  OBVIOUS
<1>5. p \in Seq(Cells) /\ Len(p) = n /\ one \in Seq(Cells) /\ Len(one) = 1
  BY <1>2, <1>3, <1>4
<1>6. p \o one \in Seq(Cells) /\ Len(p \o one) = n + 1
  <2>1. n + 1 = Len(p) + Len(one)
    BY <1>5
  <2> QED BY <1>5, <2>1, ConcatCells
<1> QED BY <1>2, <1>3, <1>4, <1>6

(* No padding leaves a list as it is.                                       *)
LEMMA NoPadding ==
  ASSUME NEW s \in Seq(Cells)
  PROVE  s \o Nulls(0) = s
<1>1. Nulls(0) \in Seq(Cells) /\ Len(Nulls(0)) = 0
  BY NullsCells, CellTyped
<1>2. PICK p : p = Nulls(0)
  OBVIOUS
<1>3. /\ s \o p \in Seq(Cells) /\ Len(s \o p) = Len(s) + Len(p)
      /\ \A j \in 1..(Len(s) + Len(p)) : (s \o p)[j] = IF j <= Len(s) THEN s[j] ELSE p[j - Len(s)]
  BY <1>1, <1>2, ConcatProperties
<1>4. Len(s) \in Nat /\ Len(p) = 0
  BY <1>1, <1>2
<1>5. Len(s \o p) = Len(s) /\ \A j \in 1..Len(s) : (s \o p)[j] = s[j]
  BY <1>3, <1>4
<1> QED BY <1>2, <1>3, <1>5, SameCells

(* Padded and appended to: the array's, the chain's and the nodes'.        *)
LEMMA PaddedAlike ==
  ASSUME NEW s \in Seq(Cells), NEW n \in Nat, NEW x \in Cells, NEW H,
         \A i \in 1..Len(s) : s[i] \in H, x \in H, Null \in H
  PROVE  LET t == s \o Nulls(n) \o <<x>> IN
         /\ t \in Seq(Cells) /\ Len(t) = Len(s) + n + 1
         /\ \A i \in 1..Len(t) : t[i] \in H
         /\ Splice(s \o Nulls(n), Len(s) + n + 1, x) = t
         /\ s \o (Nulls(n) \o <<x>>) = t
<1>1. PICK p : p = Nulls(n)
  OBVIOUS
<1>2. PICK one : one = <<x>>
  OBVIOUS
<1>3. Null \in Cells
  BY CellTyped
<1>4. p \in Seq(Cells) /\ Len(p) = n /\ one \in Seq(Cells) /\ Len(one) = 1 /\ one[1] = x
  BY <1>1, <1>2, NullsCells
<1>5. PICK sp : sp = s \o p
  OBVIOUS
<1>6. sp \in Seq(Cells) /\ Len(sp) = Len(s) + n
  BY <1>4, <1>5, ConcatProperties
<1>7. PICK t : t = sp \o one
  OBVIOUS
<1>8. /\ t \in Seq(Cells) /\ Len(t) = Len(s) + n + 1
      /\ \A j \in 1..(Len(s) + n + 1) :
           t[j] = IF j <= Len(s) THEN s[j] ELSE IF j <= Len(s) + n THEN Null ELSE x
  <2>1. t = s \o Nulls(n) \o <<x>>
    BY <1>1, <1>2, <1>5, <1>7
  <2> QED BY <1>3, <2>1, PaddedCells
<1>0. Len(s) \in Nat
  OBVIOUS
<1>9. \A i \in 1..Len(t) : t[i] \in H
  <2> SUFFICES ASSUME NEW i \in 1..Len(t) PROVE t[i] \in H
    OBVIOUS
  <2>1. i \in 1..(Len(s) + n + 1)
    BY <1>8
  <2>2. CASE i <= Len(s)
    <3>1. i \in 1..Len(s)
      BY <1>0, <2>1, <2>2
    <3> QED BY <2>1, <2>2, <3>1, <1>8
  <2>3. CASE ~(i <= Len(s)) /\ i <= Len(s) + n
    BY <2>1, <2>3, <1>8
  <2>4. CASE ~(i <= Len(s)) /\ ~(i <= Len(s) + n)
    BY <2>1, <2>4, <1>8
  <2> QED BY <2>2, <2>3, <2>4
<1>10. Splice(sp, Len(s) + n + 1, x) = t
  <2>1. sp \o <<x>> = Splice(sp, Len(sp) + 1, x)
    BY <1>6, EndsAreSplices
  <2> QED BY <2>1, <1>2, <1>6, <1>7
<1>11. s \o (p \o one) = t
  <2>1. PICK z : z = p \o one
    OBVIOUS
  <2>2. /\ z \in Seq(Cells) /\ Len(z) = n + 1
        /\ \A j \in 1..(n + 1) : z[j] = IF j <= n THEN p[j] ELSE one[j - n]
    <3>1. PICK e : e = Len(p) + Len(one)
      OBVIOUS
    <3>2. /\ p \o one \in Seq(Cells) /\ Len(p \o one) = Len(p) + Len(one)
          /\ \A j \in 1..(Len(p) + Len(one)) :
               (p \o one)[j] = IF j <= Len(p) THEN p[j] ELSE one[j - Len(p)]
      BY <1>4, ConcatCells
    <3>3. e = n + 1
      BY <1>4, <3>1
    <3> QED BY <1>4, <2>1, <3>1, <3>2, <3>3
  <2>3. /\ s \o z \in Seq(Cells) /\ Len(s \o z) = Len(s) + (n + 1)
        /\ \A j \in 1..(Len(s) + (n + 1)) :
             (s \o z)[j] = IF j <= Len(s) THEN s[j] ELSE z[j - Len(s)]
    <3>1. PICK e : e = Len(s) + Len(z)
      OBVIOUS
    <3>2. /\ s \o z \in Seq(Cells) /\ Len(s \o z) = Len(s) + Len(z)
          /\ \A j \in 1..(Len(s) + Len(z)) :
               (s \o z)[j] = IF j <= Len(s) THEN s[j] ELSE z[j - Len(s)]
      BY <2>2, ConcatCells
    <3>3. e = Len(s) + (n + 1)
      BY <2>2, <3>1
    <3> QED BY <3>1, <3>2, <3>3
  <2>4. \A j \in 1..n : p[j] = Null
    BY <1>1 DEF Nulls
  <2>5. ASSUME NEW j \in 1..Len(t)
        PROVE  (s \o z)[j] = t[j]
    <3>1. j \in 1..(Len(s) + n + 1) /\ j \in 1..(Len(s) + (n + 1))
      BY <1>0, <1>8
    <3>2. CASE j <= Len(s)
      BY <3>1, <3>2, <1>8, <2>3
    <3>3. CASE ~(j <= Len(s)) /\ j <= Len(s) + n
      <4>1. PICK i : i = j - Len(s)
        OBVIOUS
      <4>2. i \in 1..n /\ i \in 1..(n + 1) /\ i <= n
        BY <1>0, <3>1, <3>3, <4>1
      <4> QED BY <3>1, <3>3, <4>1, <4>2, <1>8, <2>2, <2>3, <2>4
    <3>4. CASE ~(j <= Len(s)) /\ ~(j <= Len(s) + n)
      <4>1. PICK i : i = j - Len(s)
        OBVIOUS
      <4>2. i \in 1..(n + 1) /\ ~(i <= n) /\ i - n = 1
        BY <1>0, <3>1, <3>4, <4>1
      <4> QED BY <3>1, <3>4, <4>1, <4>2, <1>4, <1>8, <2>2, <2>3
    <3> QED BY <3>2, <3>3, <3>4
  <2>6. Len(s \o z) = Len(t)
    BY <1>0, <1>8, <2>3
  <2> QED BY <1>8, <2>1, <2>3, <2>5, <2>6, SameCells
<1> QED BY <1>1, <1>2, <1>5, <1>7, <1>8, <1>9, <1>10, <1>11

(* A call on lists: the dlinked_list's nodes hold u, the others t.         *)
LEMMA ListsAgree ==
  ASSUME iface' = "list", crooked' \in BOOLEAN,
         NEW t \in Seq(Cells), \A i \in 1..Len(t) : t[i] \in Held("list"),
         items' = t, arrOk' = TRUE, chain' = t, llen' = Len(t), lnkOk' = TRUE,
         NEW u \in Seq(Cells), DlState(u, TRUE)',
         parted' = IF u = t THEN {} ELSE {"dlinked"}
  PROVE  ListInv'
<1>0. iface' \in Ifaces
  BY DEF Ifaces
<1>1. CASE u = t
  <2>1. DlState(t, TRUE)' /\ parted' = {}
    BY <1>1
  <2>2. DlState(t, FALSE)'
    BY <2>1, DlWeaker
  <2> QED BY <1>0, <2>1, <2>2, AgreedNext
<1>2. CASE u # t
  <2>1. DlTyped' /\ \E nodes : DlIs(nodes, u)'
    BY DEF DlState
  <2>2. Contents' = u /\ parted' = {"dlinked"}
    BY <1>2, <2>1, DlSeenNext
  <2> QED BY <1>0, <1>2, <2>1, <2>2, DlPartsNext
<1> QED BY <1>1, <1>2

(* insert_at() of the three classes at an index of s.                      *)
LEMMA ArrayInsertAtIs ==
  ASSUME NEW s, items = s, arrOk = TRUE, NEW x, NEW index, NEW idx,
         idx = FromEnd(index, Len(s)), ArrayInsertAt(x, index)
  PROVE  \/ idx + 1 < 0 /\ items' = s /\ arrOk' = TRUE
         \/ idx + 1 = 0 /\ items' = s /\ arrOk' = FALSE
         \/ idx \in 0..Len(s) /\ items' = Splice(s, idx + 1, x) /\ arrOk' = TRUE
         \/ idx > Len(s) /\ items' = s \o Nulls(idx - Len(s)) \o <<x>> /\ arrOk' = TRUE
<1>1. /\ \/ idx + 1 < 0 /\ UNCHANGED array
         \/ idx + 1 = 0 /\ arrOk' = FALSE /\ UNCHANGED items
         \/ idx \in 0..Len(s) /\ items' = Splice(s, idx + 1, x) /\ UNCHANGED arrOk
         \/ idx > Len(s) /\ items' = s \o Nulls(idx - Len(s)) \o <<x>> /\ UNCHANGED arrOk
  BY Zenon DEF ArrayInsertAt
<1>2. UNCHANGED array => items' = s /\ arrOk' = TRUE
  BY DEF array
<1>3. UNCHANGED items => items' = s
  OBVIOUS
<1>4. UNCHANGED arrOk => arrOk' = TRUE
  OBVIOUS
<1> QED BY <1>1, <1>2, <1>3, <1>4, Zenon

(* The same of a linked_list: -1 is let through where there is a head.      *)
LEMMA LnkInsertAtIs ==
  ASSUME NEW s, chain = s, llen = Len(s), lnkOk = TRUE, NEW x, NEW index, NEW idx,
         idx = FromEnd(index, Len(s)), LnkInsertAt(x, index)
  PROVE  \/ idx + 1 < 0 /\ UNCHANGED linked
         \/ idx + 1 >= 0 /\ (idx = 0 \/ s = <<>>) /\ LnkLinkIn(1, x)
         \/ idx = -1 /\ s # <<>> /\ LnkLinkIn(2, x)
         \/ /\ idx > 0 /\ s # <<>>
            /\ chain' = Splice(s \o Nulls(IF idx > Len(s) THEN idx - Len(s) ELSE 0), idx + 1, x)
            /\ llen' = Len(s) + (IF idx > Len(s) THEN idx - Len(s) ELSE 0) + 1
            /\ lnkOk' = TRUE
<1>1. \/ idx + 1 < 0 /\ UNCHANGED linked
      \/ idx + 1 >= 0 /\ (idx = 0 \/ s = <<>>) /\ LnkPrepend(x)
      \/ idx = -1 /\ s # <<>> /\ LnkLinkIn(2, x)
      \/ /\ idx > 0 /\ s # <<>>
         /\ chain' = Splice(s \o Nulls(IF idx > Len(s) THEN idx - Len(s) ELSE 0), idx + 1, x)
         /\ llen' = Len(s) + (IF idx > Len(s) THEN idx - Len(s) ELSE 0) + 1
         /\ lnkOk' = lnkOk
  BY Zenon DEF LnkInsertAt
<1>2. LnkPrepend(x) => LnkLinkIn(1, x)
  BY DEF LnkPrepend
<1> QED BY <1>1, <1>2, Zenon

(* The same of a dlinked_list: it appends at the last index, does nothing at*)
(* the end, and walks to its node otherwise.                                *)
LEMMA DlInsertAtIs ==
  ASSUME NEW s, len = Len(s), NEW x, NEW index, NEW idx,
         idx = FromEnd(index, Len(s)), DlInsertAt(x, index)
  PROVE  \/ idx + 1 <= 0 /\ UNCHANGED dlinked
         \/ (idx = 0 \/ (idx > 0 /\ head = NULL)) /\ DlPrepend(x)
         \/ idx > 0 /\ head # NULL /\ (idx = Len(s) - 1 \/ tail = NULL) /\ DlAppend(x)
         \/ /\ idx > Len(s) /\ head # NULL /\ tail # NULL
            /\ DlAppendAll(Nulls(idx - Len(s)) \o <<x>>)
         \/ /\ idx \in 1..Len(s) /\ idx # Len(s) - 1 /\ head # NULL /\ tail # NULL
            /\ \/ idx = Len(s) /\ UNCHANGED dlinked
               \/ /\ idx # Len(s) /\ idx > Len(s) \div 2
                  /\ \/ NodeAt(idx) = NULL /\ UNCHANGED dlinked
                     \/ NodeAt(idx) # NULL /\ NodeAt(idx) \in used /\ InsertAfter(NodeAt(idx), x)
               \/ /\ idx # Len(s) /\ ~(idx > Len(s) \div 2)
                  /\ \/ NodeAt(idx - 1) = NULL /\ UNCHANGED dlinked
                     \/ /\ NodeAt(idx - 1) # NULL /\ NodeAt(idx - 1) \in used
                        /\ InsertAfter(NodeAt(idx - 1), x)
<1> DEFINE from == IF idx > Len(s) \div 2 THEN idx ELSE idx - 1
           Walk == IF idx = Len(s) \/ NodeAt(from) = NULL
                     THEN UNCHANGED dlinked
                     ELSE \E current \in used : current = NodeAt(from) /\ InsertAfter(current, x)
<1>1. \/ idx + 1 <= 0 /\ UNCHANGED dlinked
      \/ (idx = 0 \/ (idx > 0 /\ head = NULL)) /\ DlPrepend(x)
      \/ idx > 0 /\ head # NULL /\ (idx = Len(s) - 1 \/ tail = NULL) /\ DlAppend(x)
      \/ /\ idx > Len(s) /\ head # NULL /\ tail # NULL
         /\ DlAppendAll(Nulls(idx - Len(s)) \o <<x>>)
      \/ /\ idx \in 1..Len(s) /\ idx # Len(s) - 1 /\ head # NULL /\ tail # NULL
         /\ Walk
  BY Zenon DEF DlInsertAt
<1>2. Walk => \/ idx = Len(s) /\ UNCHANGED dlinked
              \/ idx # Len(s) /\ NodeAt(from) = NULL /\ UNCHANGED dlinked
              \/ idx # Len(s) /\ NodeAt(from) # NULL /\ NodeAt(from) \in used /\ InsertAfter(NodeAt(from), x)
  BY Zenon
<1>3. idx > Len(s) \div 2 => from = idx
  BY Zenon
<1>4. ~(idx > Len(s) \div 2) => from = idx - 1
  BY Zenon
<1> HIDE DEF from, Walk
<1>5. CASE idx > Len(s) \div 2
  BY <1>1, <1>2, <1>3, <1>5, Zenon
<1>6. CASE ~(idx > Len(s) \div 2)
  BY <1>1, <1>2, <1>4, <1>6, Zenon
<1> QED BY <1>5, <1>6

(* What insert_at() starts from, on a list.                                *)
InsertsAt(s, x, index, idx) ==
  /\ Starts(s) /\ iface = "list" /\ parted = {}
  /\ idx = FromEnd(index, Len(s)) /\ idx \in Int /\ x \in Plain
  /\ DoInsertAt(x, index)

(* The facts the cases need.                                                *)
LEMMA InsertAtFacts ==
  ASSUME NEW s, NEW x, NEW index, NEW idx, InsertsAt(s, x, index, idx)
  PROVE  /\ s \in Seq(Cells) /\ Len(s) \in Nat /\ idx \in Int
         /\ \A i \in 1..Len(s) : s[i] \in Held("list")
         /\ items = s /\ arrOk = TRUE /\ chain = s /\ llen = Len(s) /\ lnkOk = TRUE
         /\ DlState(s, TRUE) /\ DlTyped /\ dOk = TRUE
         /\ Contents = s /\ len = Len(s) /\ Len(Forward) = Len(s)
         /\ head = NULL <=> s = <<>>
         /\ \A i \in 1..Len(s) : Forward[i] \in used
         /\ tail \in used \cup {NULL}
         /\ s # <<>> <=> Len(s) > 0
         /\ iface' = "list" /\ crooked' \in BOOLEAN
         /\ x \in Cells /\ x \in Held("list") /\ Null \in Held("list")
         /\ ArrayInsertAt(x, index) /\ LnkInsertAt(x, index) /\ DlInsertAt(x, index)
         /\ parted' = Part("array", idx = -1)
                        \cup Part("linked", idx = -1 \/ (s = <<>> /\ idx > 0))
                        \cup Part("dlinked", DlInsertAtParts(x, idx))
<1>1. /\ s \in Seq(Cells) /\ Len(s) \in Nat
      /\ \A i \in 1..Len(s) : s[i] \in Held("list")
      /\ items = s /\ arrOk = TRUE /\ chain = s /\ llen = Len(s) /\ lnkOk = TRUE
      /\ DlState(s, TRUE) /\ DlTyped /\ dOk = TRUE
      /\ Contents = s /\ len = Len(s) /\ Len(Forward) = Len(s)
      /\ head = NULL <=> s = <<>>
      /\ \A i \in 1..Len(s) : Forward[i] \in used
      /\ tail \in used \cup {NULL} /\ crooked \in BOOLEAN
  BY DEF InsertsAt, Starts
<1>2. s # <<>> <=> Len(s) > 0
  BY <1>1
<1>3. x \in Cells /\ x \in Held("list") /\ Null \in Held("list")
  BY CellTyped DEF InsertsAt, Held
<1>4. idx = FromEnd(index, Len(items)) /\ DoInsertAt(x, index) /\ iface = "list" /\ idx \in Int
  BY <1>1 DEF InsertsAt
<1>5. /\ ArrayInsertAt(x, index) /\ LnkInsertAt(x, index) /\ DlInsertAt(x, index)
      /\ iface' = iface /\ crooked' = crooked
      /\ parted' = Part("array", idx = -1)
                     \cup Part("linked", idx = -1 \/ (items = <<>> /\ idx > 0))
                     \cup Part("dlinked", DlInsertAtParts(x, idx))
  BY <1>4 DEF DoInsertAt, Call
<1> QED BY <1>1, <1>2, <1>3, <1>4, <1>5

(* In front of the first cell and before it.                               *)
LEMMA InsertAtLow ==
  ASSUME NEW s, NEW x, NEW index, NEW idx, InsertsAt(s, x, index, idx), idx <= 0
  PROVE  ListInv'
<1>1. /\ s \in Seq(Cells) /\ Len(s) \in Nat /\ idx \in Int
      /\ \A i \in 1..Len(s) : s[i] \in Held("list")
      /\ items = s /\ arrOk = TRUE /\ chain = s /\ llen = Len(s) /\ lnkOk = TRUE
      /\ DlState(s, TRUE) /\ DlTyped /\ dOk = TRUE
      /\ Contents = s /\ len = Len(s)
      /\ head = NULL <=> s = <<>>
      /\ s # <<>> <=> Len(s) > 0
      /\ iface' = "list" /\ crooked' \in BOOLEAN
      /\ x \in Cells /\ x \in Held("list")
      /\ ArrayInsertAt(x, index) /\ LnkInsertAt(x, index) /\ DlInsertAt(x, index)
      /\ parted' = Part("array", idx = -1)
                     \cup Part("linked", idx = -1 \/ (s = <<>> /\ idx > 0))
                     \cup Part("dlinked", DlInsertAtParts(x, idx))
  BY InsertAtFacts
<1>2. idx = FromEnd(index, Len(s))
  BY DEF InsertsAt
<1>3. ~DlInsertAtParts(x, idx)
  BY <1>1 DEF DlInsertAtParts
<1>4. CASE idx < -1
  <2>0. idx + 1 < 0 /\ ~(idx \in 0..Len(s)) /\ ~(idx > Len(s)) /\ ~(idx + 1 >= 0) /\ idx # -1
        /\ ~(idx > 0) /\ idx # 0 /\ ~(idx \in 1..Len(s)) /\ idx + 1 # 0
    BY <1>1, <1>4
  <2>5. items' = s /\ arrOk' = TRUE
    BY <1>1, <1>2, <2>0, ArrayInsertAtIs, Zenon
  <2>6. UNCHANGED linked
    BY <1>1, <1>2, <2>0, LnkInsertAtIs, Zenon
  <2>1. UNCHANGED dlinked
    BY <1>1, <1>2, <2>0, DlInsertAtIs, Zenon
  <2>2. DlState(s, TRUE)'
    BY <1>1, <2>1, UnchangedGives
  <2>3. items' = s /\ arrOk' = TRUE /\ chain' = s /\ llen' = Len(s) /\ lnkOk' = TRUE
    BY <1>1, <2>5, <2>6 DEF linked
  <2>4. parted' = {}
    BY <1>1, <1>3, <1>4 DEF Part
  <2> QED BY <1>1, <2>2, <2>3, <2>4, ListsAgree
<1>5. CASE idx = -1
  <2>0. ~(idx + 1 < 0) /\ ~(idx \in 0..Len(s)) /\ ~(idx > Len(s)) /\ ~(idx > 0) /\ idx # 0
        /\ ~(idx \in 1..Len(s))
    BY <1>1, <1>5
  <2>12. arrOk' = FALSE /\ items' = s
    BY <1>1, <1>2, <2>0, ArrayInsertAtIs, Zenon
  <2>13. UNCHANGED dlinked
    BY <1>1, <1>2, <2>0, DlInsertAtIs, Zenon
  <2>1. arrOk' = FALSE /\ items' = s /\ UNCHANGED dlinked
    BY <2>12, <2>13
  <2>2. \/ s = <<>> /\ chain' = Splice(s, 1, x) /\ llen' = Len(s) + 1 /\ lnkOk' = TRUE
        \/ s # <<>> /\ chain' = Splice(s, 2, x) /\ llen' = Len(s) + 1 /\ lnkOk' = TRUE
    <3>1. \/ s = <<>> /\ LnkLinkIn(1, x)
          \/ s # <<>> /\ LnkLinkIn(2, x)
      BY <1>1, <1>2, <2>0, LnkInsertAtIs, Zenon
    <3> QED BY <3>1, <1>1 DEF LnkLinkIn
  <2>3. chain' \in Seq(Cells) /\ Len(chain') = Len(s) + 1
    <3>1. 1 \in 1..(Len(s) + 1) /\ (s # <<>> => 2 \in 1..(Len(s) + 1))
      BY <1>1
    <3> QED BY <1>1, <2>2, <3>1, SpliceAt
  <2>4. parted' = {"array", "linked"}
    BY <1>1, <1>3, <1>5 DEF Part
  <2>5. chain' # items'
    BY <1>1, <2>1, <2>3
  <2>6. \A c \in parted' : ReallyParts(c)'
    BY <2>1, <2>4, <2>5, ReallyPartsNext
  <2>7. DlState(s, TRUE)'
    BY <1>1, <2>1, UnchangedGives
  <2>8. DlTyped' /\ \E nodes : DlIs(nodes, s)'
    BY <2>7 DEF DlState
  <2>9. dOk' = TRUE /\ len' = Len(Contents') /\ Cardinality(used') = len'
    BY <1>1, <2>8, DlSeenNext
  <2>10. TypeOK'
    <3>1. parted' \subseteq Classes /\ iface' \in Ifaces
      BY <1>1, <2>4 DEF Classes, Ifaces
    <3>2. items' \in Seq(Cells) /\ arrOk' \in BOOLEAN
      BY <1>1, <2>1
    <3>4. llen' = Len(s) + 1 /\ lnkOk' = TRUE
      BY <2>2, Zenon
    <3>3. llen' \in Nat /\ lnkOk' \in BOOLEAN
      BY <1>1, <3>4
    <3> QED BY <1>1, <2>3, <2>8, <3>1, <3>2, <3>3 DEF TypeOK, DlTyped
  <2>11. PartedWell'
    BY <1>1, <2>4, <2>6, <2>9 DEF PartedWell
  <2> QED BY <2>4, <2>10, <2>11 DEF ListInv
<1>6. CASE idx = 0
  <2>0. idx + 1 = 1 /\ ~(idx + 1 < 0) /\ ~(idx + 1 = 0) /\ ~(idx + 1 <= 0) /\ ~(idx > Len(s))
        /\ ~(idx > 0) /\ idx # -1 /\ ~(idx \in 1..Len(s))
    BY <1>1, <1>6
  <2>1. items' = Splice(s, 1, x) /\ arrOk' = TRUE
    <3>1. items' = Splice(s, idx + 1, x) /\ arrOk' = TRUE
      BY <1>1, <1>2, <2>0, ArrayInsertAtIs, Zenon
    <3> QED BY <2>0, <3>1
  <2>8. LnkLinkIn(1, x)
    BY <1>1, <1>2, <2>0, LnkInsertAtIs, Zenon
  <2>9. DlPrepend(x)
    BY <1>1, <1>2, <2>0, DlInsertAtIs, Zenon
  <2>2. LnkLinkIn(1, x) /\ DlPrepend(x)
    BY <2>8, <2>9
  <2>3. PICK t : t = Splice(s, 1, x)
    OBVIOUS
  <2>4. t \in Seq(Cells) /\ Len(t) = Len(s) + 1 /\ \A i \in 1..Len(t) : t[i] \in Held("list")
    <3>1. 1 \in 1..(Len(s) + 1)
      BY <1>1
    <3> QED BY <1>1, <2>3, <3>1, SpliceCells
  <2>5. items' = t /\ arrOk' = TRUE /\ chain' = t /\ llen' = Len(t) /\ lnkOk' = TRUE
    BY <1>1, <2>1, <2>2, <2>3, <2>4 DEF LnkLinkIn
  <2>6. DlState(t, TRUE)'
    BY <1>1, <2>2, <2>3, PrependGives
  <2>7. parted' = {}
    BY <1>1, <1>3, <1>6 DEF Part
  <2> QED BY <1>1, <2>4, <2>5, <2>6, <2>7, ListsAgree
<1> QED BY <1>1, <1>4, <1>5, <1>6

(* Past the end: of an empty list.                                         *)
LEMMA InsertAtEmpty ==
  ASSUME NEW s, NEW x, NEW index, NEW idx, InsertsAt(s, x, index, idx), idx > 0, s = <<>>
  PROVE  ListInv'
<1>1. /\ s \in Seq(Cells) /\ Len(s) \in Nat /\ idx \in Int
      /\ \A i \in 1..Len(s) : s[i] \in Held("list")
      /\ items = s /\ arrOk = TRUE /\ chain = s /\ llen = Len(s) /\ lnkOk = TRUE
      /\ DlState(s, TRUE) /\ DlTyped /\ dOk = TRUE
      /\ Contents = s /\ len = Len(s)
      /\ head = NULL <=> s = <<>>
      /\ s # <<>> <=> Len(s) > 0
      /\ iface' = "list" /\ crooked' \in BOOLEAN
      /\ x \in Cells /\ x \in Held("list") /\ Null \in Held("list")
      /\ ArrayInsertAt(x, index) /\ LnkInsertAt(x, index) /\ DlInsertAt(x, index)
      /\ parted' = Part("array", idx = -1)
                     \cup Part("linked", idx = -1 \/ (s = <<>> /\ idx > 0))
                     \cup Part("dlinked", DlInsertAtParts(x, idx))
  BY InsertAtFacts
<1>2. idx = FromEnd(index, Len(s)) /\ Len(s) = 0
  BY <1>1 DEF InsertsAt
<1>3. PICK pad : pad = idx - Len(s)
  OBVIOUS
<1>4. pad \in Nat /\ pad > 0
  BY <1>1, <1>2, <1>3
<1>0. ~(idx + 1 < 0) /\ ~(idx + 1 = 0) /\ ~(idx \in 0..Len(s)) /\ idx # -1 /\ ~(idx + 1 <= 0)
      /\ idx # 0 /\ ~(idx \in 1..Len(s)) /\ idx > 0 /\ idx > Len(s)
  BY <1>1, <1>2
<1>5. items' = s \o Nulls(pad) \o <<x>> /\ arrOk' = TRUE
  BY <1>0, <1>1, <1>2, <1>3, ArrayInsertAtIs, Zenon
<1>6. items' \in Seq(Cells) /\ Len(items') = Len(s) + pad + 1
  BY <1>1, <1>4, <1>5, PaddedAlike
<1>20. LnkLinkIn(1, x)
  BY <1>0, <1>1, <1>2, LnkInsertAtIs, Zenon
<1>21. DlPrepend(x)
  BY <1>0, <1>1, <1>2, DlInsertAtIs, Zenon
<1>7. LnkLinkIn(1, x) /\ DlPrepend(x)
  BY <1>20, <1>21
<1>8. PICK u : u = Splice(s, 1, x)
  OBVIOUS
<1>9. u \in Seq(Cells) /\ Len(u) = Len(s) + 1
  <2>1. 1 \in 1..(Len(s) + 1)
    BY <1>1
  <2> QED BY <1>1, <1>8, <2>1, SpliceAt
<1>10. chain' = u /\ llen' = Len(u) /\ lnkOk' = TRUE
  BY <1>1, <1>7, <1>8, <1>9 DEF LnkLinkIn
<1>11. DlState(u, TRUE)'
  BY <1>1, <1>7, <1>8, PrependGives
<1>12. DlTyped' /\ \E nodes : DlIs(nodes, u)'
  BY <1>11 DEF DlState
<1>13. Contents' = u
  BY <1>9, <1>12, DlSeenNext
<1>14. Contents' # items' /\ chain' # items'
  <2>1. Len(items') # Len(u)
    BY <1>2, <1>4, <1>6, <1>9
  <2>2. items' # u
    BY <2>1
  <2> QED BY <2>2, <1>10, <1>13
<1>15. DlInsertAtParts(x, idx)
  BY <1>1, <1>2 DEF DlInsertAtParts
<1>16. parted' = {"linked", "dlinked"}
  BY <1>1, <1>15 DEF Part
<1>17. \A c \in parted' : ReallyParts(c)'
  BY <1>14, <1>16, ReallyPartsNext
<1>18. TypeOK'
  <2>1. parted' \subseteq Classes /\ iface' \in Ifaces
    BY <1>1, <1>16 DEF Classes, Ifaces
  <2>2. chain' \in Seq(Cells) /\ llen' \in Nat
    BY <1>9, <1>10
  <2> QED BY <1>1, <1>5, <1>6, <1>10, <1>12, <2>1, <2>2 DEF TypeOK, DlTyped
<1>19. PartedWell'
  BY <1>1, <1>5, <1>10, <1>16, <1>17 DEF PartedWell
<1> QED BY <1>16, <1>18, <1>19 DEF ListInv

(* At the end and past it.                                                 *)
LEMMA InsertAtHigh ==
  ASSUME NEW s, NEW x, NEW index, NEW idx, InsertsAt(s, x, index, idx), s # <<>>, idx >= Len(s)
  PROVE  ListInv'
<1>1. /\ s \in Seq(Cells) /\ Len(s) \in Nat /\ idx \in Int
      /\ \A i \in 1..Len(s) : s[i] \in Held("list")
      /\ items = s /\ arrOk = TRUE /\ chain = s /\ llen = Len(s) /\ lnkOk = TRUE
      /\ DlState(s, TRUE) /\ DlTyped /\ dOk = TRUE
      /\ Contents = s /\ len = Len(s) /\ Len(Forward) = Len(s)
      /\ head = NULL <=> s = <<>>
      /\ \A i \in 1..Len(s) : Forward[i] \in used
      /\ tail \in used \cup {NULL}
      /\ s # <<>> <=> Len(s) > 0
      /\ iface' = "list" /\ crooked' \in BOOLEAN
      /\ x \in Cells /\ x \in Held("list") /\ Null \in Held("list")
      /\ ArrayInsertAt(x, index) /\ LnkInsertAt(x, index) /\ DlInsertAt(x, index)
      /\ parted' = Part("array", idx = -1)
                     \cup Part("linked", idx = -1 \/ (s = <<>> /\ idx > 0))
                     \cup Part("dlinked", DlInsertAtParts(x, idx))
  BY InsertAtFacts
<1>2. idx = FromEnd(index, Len(s)) /\ idx > 0 /\ Len(s) > 0 /\ head # NULL /\ idx # Len(s) - 1
  BY <1>1 DEF InsertsAt
<1>3. PICK pad : pad = idx - Len(s)
  OBVIOUS
<1>4. pad \in Nat
  BY <1>1, <1>3
<1>5. PICK t : t = s \o Nulls(pad) \o <<x>>
  OBVIOUS
<1>6. /\ t \in Seq(Cells) /\ Len(t) = Len(s) + pad + 1
      /\ \A i \in 1..Len(t) : t[i] \in Held("list")
      /\ Splice(s \o Nulls(pad), Len(s) + pad + 1, x) = t
      /\ s \o (Nulls(pad) \o <<x>>) = t
  BY <1>1, <1>4, <1>5, PaddedAlike
<1>0. ~(idx + 1 < 0) /\ ~(idx + 1 = 0) /\ idx # -1 /\ ~(idx + 1 <= 0) /\ idx # 0
  BY <1>1, <1>2
<1>7. items' = t /\ arrOk' = TRUE
  <2>1. CASE idx > Len(s)
    <3>1. ~(idx \in 0..Len(s))
      BY <1>1, <2>1
    <3> QED BY <1>0, <1>1, <1>2, <1>3, <1>5, <2>1, <3>1, ArrayInsertAtIs, Zenon
  <2>2. CASE idx = Len(s)
    <3>4. ~(idx > Len(s))
      BY <1>1, <2>2
    <3>1. items' = Splice(s, idx + 1, x) /\ arrOk' = TRUE
      BY <1>0, <1>1, <1>2, <3>4, ArrayInsertAtIs, Zenon
    <3>2. pad = 0 /\ s \o Nulls(0) = s
      BY <1>1, <1>3, <2>2, NoPadding
    <3>3. Len(s) + pad + 1 = idx + 1
      BY <1>1, <1>3
    <3>5. t = Splice(s, idx + 1, x)
      BY <1>6, <3>2, <3>3
    <3> QED BY <3>1, <3>5
  <2>3. idx > Len(s) \/ idx = Len(s)
    BY <1>1
  <2> QED BY <2>1, <2>2, <2>3
<1>8. chain' = t /\ llen' = Len(t) /\ lnkOk' = TRUE
  <2>1. PICK p : p = IF idx > Len(s) THEN idx - Len(s) ELSE 0
    OBVIOUS
  <2>2. p = pad
    BY <1>1, <1>3, <2>1
  <2>3. chain' = Splice(s \o Nulls(p), idx + 1, x) /\ llen' = Len(s) + p + 1 /\ lnkOk' = TRUE
    BY <1>0, <1>1, <1>2, <2>1, LnkInsertAtIs, Zenon
  <2>4. idx + 1 = Len(s) + pad + 1
    BY <1>1, <1>3
  <2>5. Splice(s \o Nulls(p), idx + 1, x) = t /\ Len(s) + p + 1 = Len(t)
    BY <1>6, <2>2, <2>4
  <2> QED BY <2>3, <2>5
<1>9. Forward[Len(Forward)] \in used /\ Forward[Len(Forward)] # NULL
  <2>1. Len(Forward) \in 1..Len(s)
    BY <1>1, <1>2
  <2>2. NULL \notin used
    BY <1>1, NodeAssumption DEF DlTyped
  <2> QED BY <1>1, <2>1, <2>2
<1>10. tail = NULL => Stale
  BY <1>2, <1>9 DEF Stale
<1>11. Len(t) > Len(s) /\ t # s
  BY <1>1, <1>4, <1>6
<1>12. CASE tail = NULL
  <2>1. DlAppend(x)
    BY <1>0, <1>1, <1>2, <1>12, DlInsertAtIs, Zenon
  <2>2. DlTyped' /\ ~LocalLinks'
    BY <1>1, <1>10, <1>12, <2>1, AppendBreaks DEF Stale
  <2>3. DlInsertAtParts(x, idx)
    BY <1>1, <1>2, <1>10, <1>12 DEF DlInsertAtParts
  <2>4. parted' = {"dlinked"} /\ iface' \in Ifaces
    BY <1>1, <1>2, <2>3 DEF Part, Ifaces
  <2> QED BY <1>1, <1>6, <1>7, <1>8, <2>2, <2>4, DlPartsNext
<1>13. CASE tail # NULL /\ idx = Len(s)
  <2>0. ~(idx > Len(s))
    BY <1>1, <1>13
  <2>1. UNCHANGED dlinked
    BY <1>0, <1>1, <1>2, <1>13, <2>0, DlInsertAtIs, Zenon
  <2>2. DlState(s, TRUE)'
    BY <1>1, <2>1, UnchangedGives
  <2>3. DlInsertAtParts(x, idx)
    BY <1>1, <1>2, <1>13 DEF DlInsertAtParts
  <2>4. parted' = {"dlinked"}
    BY <1>1, <1>2, <2>3 DEF Part
  <2> QED BY <1>1, <1>6, <1>7, <1>8, <1>11, <2>2, <2>4, ListsAgree
<1>14. CASE tail # NULL /\ idx > Len(s)
  <2>1. PICK z : z = Nulls(pad) \o <<x>>
    OBVIOUS
  <2>2. z \in Seq(Cells) /\ Len(z) # 0
    BY <1>1, <1>4, <2>1, NullsCells
  <2>0. ~(idx \in 1..Len(s))
    BY <1>1, <1>14
  <2>3. DlAppendAll(z)
    BY <1>0, <1>1, <1>2, <1>3, <1>14, <2>0, <2>1, DlInsertAtIs, Zenon
  <2>4. DlInsertAtParts(x, idx) <=> Stale
    BY <1>1, <1>2, <1>14 DEF DlInsertAtParts
  <2>5. CASE Stale
    <3>1. DlTyped' /\ ~LocalLinks'
      BY <1>1, <1>2, <1>14, <2>2, <2>3, <2>5, AppendAllBreaks DEF Stale
    <3>2. parted' = {"dlinked"} /\ iface' \in Ifaces
      BY <1>1, <1>2, <2>4, <2>5 DEF Part, Ifaces
    <3> QED BY <1>1, <1>6, <1>7, <1>8, <3>1, <3>2, DlPartsNext
  <2>6. CASE ~Stale
    <3>1. DlState(s \o z, TRUE)'
      BY <1>1, <1>2, <2>2, <2>3, <2>6, AppendAllGives DEF Stale
    <3>2. DlState(t, TRUE)'
      BY <1>6, <2>1, <3>1
    <3>3. parted' = {}
      BY <1>1, <1>2, <2>4, <2>6 DEF Part
    <3> QED BY <1>1, <1>6, <1>7, <1>8, <3>2, <3>3, ListsAgree
  <2> QED BY <2>5, <2>6
<1> QED BY <1>1, <1>12, <1>13, <1>14

(* Between the first cell and the end.                                     *)
LEMMA InsertAtMiddle ==
  ASSUME NEW s, NEW x, NEW index, NEW idx, InsertsAt(s, x, index, idx), idx \in 1..(Len(s) - 1)
  PROVE  ListInv'
<1>1. /\ s \in Seq(Cells) /\ Len(s) \in Nat /\ idx \in Int
      /\ \A i \in 1..Len(s) : s[i] \in Held("list")
      /\ items = s /\ arrOk = TRUE /\ chain = s /\ llen = Len(s) /\ lnkOk = TRUE
      /\ DlState(s, TRUE) /\ DlTyped /\ dOk = TRUE
      /\ len = Len(s) /\ Len(Forward) = Len(s)
      /\ head = NULL <=> s = <<>>
      /\ \A i \in 1..Len(s) : Forward[i] \in used
      /\ tail \in used \cup {NULL}
      /\ s # <<>> <=> Len(s) > 0
      /\ iface' = "list" /\ crooked' \in BOOLEAN
      /\ x \in Cells /\ x \in Held("list")
      /\ ArrayInsertAt(x, index) /\ LnkInsertAt(x, index) /\ DlInsertAt(x, index)
      /\ parted' = Part("array", idx = -1)
                     \cup Part("linked", idx = -1 \/ (s = <<>> /\ idx > 0))
                     \cup Part("dlinked", DlInsertAtParts(x, idx))
  BY InsertAtFacts
<1>2. /\ idx > 0 /\ Len(s) > 0 /\ head # NULL /\ s # <<>> /\ idx # Len(s) /\ idx < Len(s)
      /\ idx + 1 \in 1..Len(s) /\ idx \in 1..Len(s) /\ idx \in 0..Len(s)
      /\ ~(idx + 1 < 0) /\ ~(idx + 1 = 0) /\ idx # -1 /\ ~(idx + 1 <= 0) /\ idx # 0
      /\ ~(idx > Len(s))
  BY <1>1
<1>3. idx = FromEnd(index, Len(s))
  BY DEF InsertsAt
<1>4. PICK k : k = idx + 1
  OBVIOUS
<1>5. k \in 1..(Len(s) + 1) /\ k \in 1..Len(s)
  BY <1>1, <1>2, <1>4
<1>6. PICK t : t = Splice(s, k, x)
  OBVIOUS
<1>7. t \in Seq(Cells) /\ Len(t) = Len(s) + 1 /\ \A i \in 1..Len(t) : t[i] \in Held("list")
  BY <1>1, <1>5, <1>6, SpliceCells
<1>8. items' = t /\ arrOk' = TRUE
  <2>1. items' = Splice(s, idx + 1, x) /\ arrOk' = TRUE
    BY <1>1, <1>2, <1>3, ArrayInsertAtIs, Zenon
  <2> QED BY <2>1, <1>4, <1>6
<1>9. chain' = t /\ llen' = Len(t) /\ lnkOk' = TRUE
  <2>1. PICK p : p = IF idx > Len(s) THEN idx - Len(s) ELSE 0
    OBVIOUS
  <2>2. p = 0 /\ s \o Nulls(0) = s
    BY <1>1, <1>2, <2>1, NoPadding
  <2>3. chain' = Splice(s \o Nulls(p), idx + 1, x) /\ llen' = Len(s) + p + 1 /\ lnkOk' = TRUE
    BY <1>1, <1>2, <1>3, <2>1, LnkInsertAtIs, Zenon
  <2>4. Splice(s \o Nulls(p), idx + 1, x) = t /\ Len(s) + p + 1 = Len(t)
    <3>1. s \o Nulls(p) = s
      BY <2>2
    <3>2. Splice(s, idx + 1, x) = t
      BY <1>4, <1>6
    <3>3. Len(s) + p + 1 = Len(t)
      BY <1>1, <1>7, <2>2
    <3> QED BY <3>1, <3>2, <3>3
  <2> QED BY <2>3, <2>4
<1>10. parted' = Part("dlinked", DlInsertAtParts(x, idx)) /\ iface' \in Ifaces
  BY <1>1, <1>2 DEF Part, Ifaces
<1>11. DlInsertAtParts(x, idx) <=>
         (tail = NULL \/ Upper(idx) \/ idx = Len(s) - 1) /\ (Stale \/ s[idx + 1] # x)
  BY <1>1, <1>2 DEF DlInsertAtParts
<1>12. Forward[Len(Forward)] \in used /\ Forward[Len(Forward)] # NULL
  <2>1. Len(Forward) \in 1..Len(s)
    BY <1>1, <1>2
  <2>2. NULL \notin used
    BY <1>1, NodeAssumption DEF DlTyped
  <2> QED BY <1>1, <2>1, <2>2
<1>13. tail = NULL => Stale
  BY <1>2, <1>12 DEF Stale
<1>14. t # s
  BY <1>1, <1>7
<1>20. ASSUME DlTyped', dOk' = FALSE \/ ~LocalLinks', DlInsertAtParts(x, idx)
       PROVE  ListInv'
  <2>1. parted' = {"dlinked"}
    BY <1>10, <1>20 DEF Part
  <2> QED BY <1>1, <1>7, <1>8, <1>9, <1>10, <1>20, <2>1, DlPartsNext
<1>21. ASSUME NEW u \in Seq(Cells), DlState(u, TRUE)', DlInsertAtParts(x, idx) <=> u # t
       PROVE  ListInv'
  <2>1. parted' = IF u = t THEN {} ELSE {"dlinked"}
    BY <1>10, <1>21 DEF Part
  <2> QED BY <1>1, <1>7, <1>8, <1>9, <1>21, <2>1, ListsAgree
<1>22. CASE idx = Len(s) - 1 \/ tail = NULL
  <2>0. ~(idx > Len(s)) /\ ~(idx # Len(s) - 1 /\ tail # NULL) /\ ~(idx > 0 /\ head = NULL)
    BY <1>2, <1>22
  <2>1. DlAppend(x)
    BY <1>1, <1>2, <1>3, <2>0, DlInsertAtIs, Zenon
  <2>2. CASE Stale
    <3>1. DlTyped' /\ ~LocalLinks'
      BY <1>1, <1>2, <2>1, <2>2, AppendBreaks DEF Stale
    <3>2. DlInsertAtParts(x, idx)
      BY <1>11, <1>22, <2>2
    <3> QED BY <1>20, <3>1, <3>2
  <2>3. CASE ~Stale
    <3>1. idx = Len(s) - 1 /\ tail = Forward[Len(Forward)] /\ Len(Forward) # 0
      BY <1>1, <1>2, <1>13, <1>22, <2>3 DEF Stale
    <3>2. PICK u : u = Splice(s, Len(s) + 1, x)
      OBVIOUS
    <3>3. DlState(u, TRUE)'
      BY <1>1, <2>1, <3>1, <3>2, AppendGives
    <3>4. k = Len(s)
      BY <1>1, <1>4, <3>1
    <3>5. u = Splice(s, k + 1, x)
      BY <3>2, <3>4
    <3>6. u = t <=> s[k] = x
      BY <1>1, <1>5, <1>6, <3>5, ShiftSplice
    <3>7. DlInsertAtParts(x, idx) <=> u # t
      BY <1>4, <1>11, <2>3, <3>1, <3>6
    <3>8. u \in Seq(Cells)
      <4>1. PICK e : e = Len(s) + 1
        OBVIOUS
      <4>2. e \in 1..(Len(s) + 1)
        BY <1>1, <4>1
      <4> QED BY <1>1, <3>2, <4>1, <4>2, SpliceAt
    <3> QED BY <1>21, <3>3, <3>7, <3>8
  <2> QED BY <2>2, <2>3
<1>23. CASE idx # Len(s) - 1 /\ tail # NULL /\ ~(idx > Len(s) \div 2)
  <2>1. \/ NodeAt(idx - 1) = NULL /\ UNCHANGED dlinked
        \/ NodeAt(idx - 1) # NULL /\ NodeAt(idx - 1) \in used /\ InsertAfter(NodeAt(idx - 1), x)
    BY <1>1, <1>2, <1>3, <1>23, DlInsertAtIs, Zenon
  <2>2. PICK j : j = idx - 1
    OBVIOUS
  <2>3. j \in 0..(Len(s) - 1) /\ ~(j > Len(s) \div 2) /\ j + 1 = idx
    BY <1>1, <1>2, <1>23, <2>2
  <2>4. NodeAt(j) = Forward[j + 1]
    BY <1>1, <2>3, NodeAtLower
  <2>5. Forward[idx] \in used /\ Forward[idx] # NULL
    <3>1. NULL \notin used
      BY <1>1, NodeAssumption DEF DlTyped
    <3> QED BY <1>1, <1>2, <3>1
  <2>6. InsertAfter(Forward[idx], x)
    BY <2>1, <2>2, <2>3, <2>4, <2>5
  <2>7. DlState(Splice(s, idx + 1, x), TRUE)'
    BY <1>1, <2>6, InsertAfterGives
  <2>8. DlState(t, TRUE)'
    BY <1>4, <1>6, <2>7
  <2>9. ~DlInsertAtParts(x, idx)
    BY <1>1, <1>11, <1>23 DEF Upper
  <2> QED BY <1>7, <1>21, <2>8, <2>9
<1>24. CASE idx # Len(s) - 1 /\ tail # NULL /\ idx > Len(s) \div 2
  <2>0. Upper(idx)
    BY <1>1, <1>24 DEF Upper
  <2>1. \/ NodeAt(idx) = NULL /\ UNCHANGED dlinked
        \/ NodeAt(idx) # NULL /\ NodeAt(idx) \in used /\ InsertAfter(NodeAt(idx), x)
    BY <1>1, <1>2, <1>3, <1>24, DlInsertAtIs, Zenon
  <2>2. idx \in 0..(Len(s) - 1)
    BY <1>1, <1>2
  <2>3. tail = Forward[Len(Forward)] => NodeAt(idx) = Forward[idx + 1]
    BY <1>1, <1>24, <2>2, NodeAtUpper
  <2>4. CASE Stale
    <3>1. DlInsertAtParts(x, idx) /\ tail # Forward[Len(Forward)]
      BY <1>11, <2>0, <2>4 DEF Stale
    <3>2. CASE NodeAt(idx) = NULL
      <4>1. UNCHANGED dlinked
        BY <2>1, <3>2
      <4>2. DlState(s, TRUE)'
        BY <1>1, <4>1, UnchangedGives
      <4> QED BY <1>1, <1>14, <1>21, <3>1, <4>2
    <3>3. CASE NodeAt(idx) # NULL
      <4>1. PICK c \in used : c = NodeAt(idx) /\ InsertAfter(c, x)
        BY <2>1, <3>3
      <4>2. DlTyped' /\ (dOk' = FALSE \/ ~LocalLinks')
        BY <1>1, <1>2, <3>1, <4>1, InsertAfterBreaks
      <4> QED BY <1>20, <3>1, <4>2
    <3> QED BY <3>2, <3>3
  <2>5. CASE ~Stale
    <3>1. tail = Forward[Len(Forward)]
      BY <1>2, <2>5 DEF Stale
    <3>2. Forward[k] # NULL
      <4>1. NULL \notin used
        BY <1>1, NodeAssumption DEF DlTyped
      <4> QED BY <1>1, <1>5, <4>1
    <3>3. InsertAfter(Forward[k], x)
      BY <1>4, <2>1, <2>3, <3>1, <3>2
    <3>4. k \in 1..(Len(s) - 1)
      BY <1>1, <1>2, <1>4, <1>24
    <3>5. PICK u : u = Splice(s, k + 1, x)
      OBVIOUS
    <3>6. DlState(u, TRUE)'
      BY <1>1, <3>3, <3>4, <3>5, InsertAfterGives
    <3>7. u = t <=> s[k] = x
      BY <1>1, <1>5, <1>6, <3>5, ShiftSplice
    <3>8. DlInsertAtParts(x, idx) <=> u # t
      BY <1>4, <1>11, <2>0, <2>5, <3>7
    <3>9. u \in Seq(Cells)
      <4>1. PICK e : e = k + 1
        OBVIOUS
      <4>2. e \in 1..(Len(s) + 1)
        BY <1>1, <1>5, <4>1
      <4> QED BY <1>1, <3>5, <4>1, <4>2, SpliceAt
    <3> QED BY <1>21, <3>6, <3>8, <3>9
  <2> QED BY <2>4, <2>5
<1> QED BY <1>22, <1>23, <1>24

(* insert_at()                                                              *)
LEMMA InsertAtAgrees ==
  ASSUME ListInv, NEW x \in Plain, NEW index \in Int, DoInsertAt(x, index)
  PROVE  ListInv'
<1>1. parted = {} /\ iface = "list"
  BY DEF DoInsertAt, Call
<1>2. PICK s : Starts(s)
  BY <1>1, AgreedFacts
<1>3. PICK idx : idx = FromEnd(index, Len(s))
  OBVIOUS
<1>4. s \in Seq(Cells) /\ Len(s) \in Nat /\ (s # <<>> <=> Len(s) > 0)
  BY <1>2 DEF Starts
<1>5. idx \in Int
  BY <1>3, <1>4 DEF FromEnd
<1>6. InsertsAt(s, x, index, idx)
  BY <1>1, <1>2, <1>3, <1>5 DEF InsertsAt
<1>7. CASE idx <= 0
  BY <1>6, <1>7, InsertAtLow
<1>8. CASE idx > 0 /\ s = <<>>
  BY <1>6, <1>8, InsertAtEmpty
<1>9. CASE s # <<>> /\ idx >= Len(s)
  BY <1>6, <1>9, InsertAtHigh
<1>10. CASE idx > 0 /\ s # <<>> /\ ~(idx >= Len(s))
  <2>1. idx \in 1..(Len(s) - 1)
    BY <1>4, <1>5, <1>10
  <2> QED BY <1>6, <2>1, InsertAtMiddle
<1>11. idx <= 0 \/ idx > 0
  BY <1>5
<1> QED BY <1>7, <1>8, <1>9, <1>10, <1>11

(* Every call keeps the invariant.                                          *)
LEMMA ListInvKept ==
  ASSUME ListInv, [Next]_vars
  PROVE  ListInv'
<1>1. ASSUME NEW x \in Plain, DoAppend(x) PROVE ListInv'
  BY <1>1, AppendAgrees
<1>2. ASSUME NEW x \in Plain, DoPrepend(x) PROVE ListInv'
  BY <1>2, PrependAgrees
<1>3. ASSUME NEW x \in Plain, DoInsert(x) PROVE ListInv'
  BY <1>3, InsertAgrees
<1>4. ASSUME NEW x \in Plain, NEW index \in Indexes, DoInsertAt(x, index) PROVE ListInv'
  <2>1. index \in Int
    BY DEF Indexes
  <2> QED BY <1>4, <2>1, InsertAtAgrees
<1>5. ASSUME NEW x \in Plain, DoRemove(x) PROVE ListInv'
  BY <1>5, RemoveAgrees
<1>6. ASSUME NEW index \in Indexes, DoRemoveAt(index) PROVE ListInv'
  <2>1. index \in Int
    BY DEF Indexes
  <2> QED BY <1>6, <2>1, RemoveAtAgrees
<1>7. ASSUME DoReverse PROVE ListInv'
  BY <1>7, ReverseAgrees
<1>8. ASSUME NEW k \in Keys, NEW v \in Values, DoSet(k, v) PROVE ListInv'
  BY <1>8, SetAgrees
<1>9. ASSUME NEW k \in Keys, DoMapRemove(k) PROVE ListInv'
  BY <1>9, MapRemoveAgrees
<1>10. ASSUME DoDup PROVE ListInv'
  BY <1>10, DupAgrees
<1>11. ASSUME DoDone PROVE ListInv'
  BY <1>11, DoneAgrees
<1>12. ASSUME NewLists PROVE ListInv'
  BY <1>12, NewListsAgree
<1>13. ASSUME UNCHANGED vars PROVE ListInv'
  <2>1. UNCHANGED dlinked /\ UNCHANGED array /\ UNCHANGED linked
        /\ iface' = iface /\ parted' = parted /\ crooked' = crooked
    BY <1>13 DEF vars
  <2>2. items' = items /\ arrOk' = arrOk /\ chain' = chain /\ llen' = llen /\ lnkOk' = lnkOk
    BY <2>1 DEF array, linked
  <2>3. TypeOK'
    <3>1. UNCHANGED <<used, data, next, prev, head, tail, len, dOk>>
      BY <2>1 DEF dlinked
    <3> QED BY <2>1, <2>2, <3>1 DEF ListInv, TypeOK
  <2>4. parted = {} => Agreed(items)'
    <3> HAVE parted = {}
    <3>1. PICK s : s = items
      OBVIOUS
    <3>2. Agreed(s)
      BY <3>1 DEF ListInv
    <3>3. /\ s \in Seq(Cells) /\ \A i \in 1..Len(s) : s[i] \in Held(iface)
          /\ items = s /\ arrOk = TRUE
          /\ chain = s /\ llen = Len(s) /\ lnkOk = TRUE
          /\ DlState(s, FALSE) /\ (iface # "map" => DlState(s, TRUE))
          /\ iface # "list" => Ascending(s)
          /\ iface = "map" => OneEach(s)
      BY <3>2 DEF Agreed
    <3>4. DlState(s, FALSE)' /\ (iface # "map" => DlState(s, TRUE)')
      BY <2>1, <3>3, UnchangedGives
    <3>5. Agreed(s)'
      BY <2>1, <2>2, <3>3, <3>4 DEF Agreed
    <3> QED BY <2>2, <3>1, <3>5
  <2>5. parted # {} => PartedWell'
    <3> HAVE parted # {}
    <3>1. PartedWell
      BY DEF ListInv
    <3>2. UNCHANGED <<used, data, next, prev, head, tail, len, dOk>>
      BY <2>1 DEF dlinked
    <3>3. Contents' = Contents
      BY <3>2 DEF Contents, Forward
    <3>4. LocalLinks' <=> LocalLinks
      BY <3>2 DEF LocalLinks
    <3>5. \A c : ReallyParts(c)' <=> ReallyParts(c)
      BY <2>2, <3>2, <3>3, <3>4 DEF ReallyParts, Sound, Holds
    <3> QED BY <2>1, <2>2, <3>1, <3>2, <3>3, <3>5 DEF PartedWell
  <2> QED BY <2>1, <2>3, <2>4, <2>5 DEF ListInv
<1> QED BY <1>1, <1>2, <1>3, <1>4, <1>5, <1>6, <1>7, <1>8, <1>9, <1>10, <1>11, <1>12, <1>13 DEF Next

(* The objects of the three classes hold the same sequence as long as no call*)
(* took one where its class behaves differently (the calls the parted set   *)
(* names), and the class that took one really parted: whatever the calls, for*)
(* any number of nodes, objects and indexes.                                *)
THEOREM ListInvHolds == Spec => []ListInv
<1>1. Init => ListInv
  BY InitAgrees
<1>2. ListInv /\ [Next]_vars => ListInv'
  BY ListInvKept
<1> QED BY <1>1, <1>2, PTL DEF Spec

(* Whatever is called, the three objects stay objects of their classes.     *)
THEOREM ListTypes == Spec => []TypeOK
<1>1. ListInv => TypeOK
  BY DEF ListInv
<1> QED BY <1>1, ListInvHolds, PTL

(* What ListInv says of the classes that have not parted.                  *)
LEMMA AgreeingHold ==
  ASSUME ListInv
  PROVE  /\ "array" \in Agreeing => arrOk = TRUE /\ items \in Seq(Cells)
         /\ "linked" \in Agreeing => lnkOk = TRUE /\ llen = Len(chain) /\ chain \in Seq(Cells)
         /\ "dlinked" \in Agreeing => dOk = TRUE /\ len = Len(Contents) /\ Cardinality(used) = len
         /\ "array" \in Agreeing /\ "linked" \in Agreeing => chain = items
         /\ "dlinked" \in Agreeing /\ ("array" \in Agreeing \/ "linked" \in Agreeing)
              => parted = {} /\ Starts(items)
         /\ iface # "list" => /\ "array" \in Agreeing => Ascending(items)
                              /\ "linked" \in Agreeing => Ascending(chain)
                              /\ "dlinked" \in Agreeing => Ascending(Contents)
         /\ iface = "map" => /\ "array" \in Agreeing => OneEach(items)
                             /\ "linked" \in Agreeing => OneEach(chain)
                             /\ "dlinked" \in Agreeing => OneEach(Contents)
         /\ \A c \in parted : ReallyParts(c)
         /\ parted \subseteq Classes
         /\ iface # "list" /\ "array" \in Agreeing
              => \A i \in 1..Len(items) : items[i] \in Held(iface)
<1>0. /\ TypeOK /\ parted \subseteq Classes /\ iface \in Ifaces
      /\ items \in Seq(Cells) /\ chain \in Seq(Cells)
  BY DEF ListInv, TypeOK
<1>1. \A c \in {"array", "linked", "dlinked"} : c \in Agreeing <=> c \notin parted
  BY DEF Agreeing, Classes
<1>2. CASE parted = {}
  <2>1. PICK s : Starts(s)
    BY <1>2, AgreedFacts
  <2>2. /\ s \in Seq(Cells) /\ Len(s) \in Nat /\ items = s /\ arrOk = TRUE
        /\ chain = s /\ llen = Len(s) /\ lnkOk = TRUE
        /\ DlState(s, FALSE) /\ dOk = TRUE /\ Contents = s /\ len = Len(s)
        /\ iface # "list" => Ascending(s)
        /\ iface = "map" => OneEach(s)
        /\ \A i \in 1..Len(s) : s[i] \in Held(iface)
    BY <2>1 DEF Starts
  <2>3. Cardinality(used) = len
    <3>1. PICK nodes : DlIs(nodes, s)
      BY <2>2 DEF DlState
    <3> QED BY <2>2, <3>1, DlSeen
  <2> QED BY <1>0, <1>2, <2>1, <2>2, <2>3
<1>3. CASE parted # {}
  <2>1. PartedWell
    BY <1>3 DEF ListInv
  <2>2. /\ "dlinked" \in parted \/ parted = {"array", "linked"}
        /\ \A c \in parted : ReallyParts(c)
        /\ "array" \notin parted => arrOk = TRUE
        /\ "linked" \notin parted => lnkOk = TRUE /\ llen = Len(chain)
        /\ "dlinked" \notin parted => dOk = TRUE /\ len = Len(Contents) /\ Cardinality(used) = len
        /\ "array" \notin parted /\ "linked" \notin parted => chain = items
        /\ iface # "list" => /\ "array" \notin parted /\ Ascending(items)
                             /\ \A i \in 1..Len(items) : items[i] \in Held(iface)
        /\ iface = "map" => OneEach(items)
    BY <2>1 DEF PartedWell
  <2>3. "dlinked" \notin parted => "array" \in parted /\ "linked" \in parted
    BY <2>2
  <2> QED BY <1>0, <1>1, <2>2, <2>3 DEF Ifaces
<1> QED BY <1>2, <1>3

(* The classes that have not parted hold the same objects in the same order,*)
(* and count them; one that has parted differs from them or is broken. The  *)
(* three implementations of the list, vector and map interfaces can stand for*)
(* one another but for the calls the model names.                           *)
THEOREM ContentsAgree == Spec => []SameContents
<1>1. ListInv => SameContents
  <2> SUFFICES ASSUME ListInv PROVE SameContents
    OBVIOUS
  <2>1. /\ "array" \in Agreeing => arrOk = TRUE
        /\ "linked" \in Agreeing => lnkOk = TRUE /\ llen = Len(chain)
        /\ "dlinked" \in Agreeing => dOk = TRUE /\ len = Len(Contents) /\ Cardinality(used) = len
        /\ "array" \in Agreeing /\ "linked" \in Agreeing => chain = items
        /\ "dlinked" \in Agreeing /\ ("array" \in Agreeing \/ "linked" \in Agreeing)
             => chain = items /\ Contents = items
        /\ \A c \in parted : ReallyParts(c)
    BY AgreeingHold DEF Starts
  <2>2. /\ Holds("array") = items /\ Holds("linked") = chain /\ Holds("dlinked") = Contents
        /\ Counts("array") = Len(items) /\ Counts("linked") = llen /\ Counts("dlinked") = len
        /\ Sound("array") = arrOk /\ Sound("linked") = lnkOk /\ Sound("dlinked") = dOk
    BY DEF Holds, Counts, Sound
  <2>3. \A c \in Agreeing : c = "array" \/ c = "linked" \/ c = "dlinked"
    BY DEF Agreeing, Classes
  <2>4. ASSUME NEW c \in Agreeing, NEW d \in Agreeing
        PROVE  Holds(c) = Holds(d)
    <3>1. CASE c = "array"
      BY <2>1, <2>2, <2>3, <3>1
    <3>2. CASE c = "linked"
      BY <2>1, <2>2, <2>3, <3>2
    <3>3. CASE c = "dlinked"
      BY <2>1, <2>2, <2>3, <3>3
    <3> QED BY <2>3, <3>1, <3>2, <3>3
  <2>5. ASSUME NEW c \in Agreeing
        PROVE  /\ Counts(c) = Len(Holds(c)) /\ Sound(c) = TRUE
               /\ c = "dlinked" => Cardinality(used) = len
    BY <2>1, <2>2, <2>3
  <2> QED BY <2>1, <2>4, <2>5 DEF SameContents
<1> QED BY <1>1, ListInvHolds, PTL

(* A vector and a map are sorted in every class that has not parted, and a map*)
(* has one pair for a key: insert() and set() need no sort behind them, and the*)
(* binary search of an array may rely on it.                                *)
THEOREM AlwaysSorted == Spec => []Sorted
<1>1. ListInv => Sorted
  <2> SUFFICES ASSUME ListInv, iface # "list", NEW c \in Agreeing
               PROVE  Ascending(Holds(c)) /\ (iface = "map" => OneEach(Holds(c)))
    BY DEF Sorted, OneEach
  <2>1. /\ "array" \in Agreeing => Ascending(items)
        /\ "linked" \in Agreeing => Ascending(chain)
        /\ "dlinked" \in Agreeing => Ascending(Contents)
        /\ iface = "map" => /\ "array" \in Agreeing => OneEach(items)
                            /\ "linked" \in Agreeing => OneEach(chain)
                            /\ "dlinked" \in Agreeing => OneEach(Contents)
    BY AgreeingHold
  <2>2. Holds("array") = items /\ Holds("linked") = chain /\ Holds("dlinked") = Contents
    BY DEF Holds
  <2>3. c = "array" \/ c = "linked" \/ c = "dlinked"
    BY DEF Agreeing, Classes
  <2>4. CASE c = "array"
    BY <2>1, <2>2, <2>4
  <2>5. CASE c = "linked"
    BY <2>1, <2>2, <2>5
  <2>6. CASE c = "dlinked"
    BY <2>1, <2>2, <2>6
  <2> QED BY <2>3, <2>4, <2>5, <2>6
<1> QED BY <1>1, ListInvHolds, PTL

(* Cells with one key are the same cell.                                   *)
Keyed(s) == \A i, j \in 1..Len(s) : s[i][1] = s[j][1] => s[i] = s[j]

(* What a search of the cells from the one to the other finds.             *)
Found(s, k, from, to) ==
  IF \E i \in from..to : s[i][1] = k
    THEN s[CHOOSE i \in 1..Len(s) : s[i][1] = k]
    ELSE Null

(* The pair of a key, whichever position names it.                          *)
LEMMA FoundIs ==
  ASSUME NEW s \in Seq(Cells), Keyed(s), NEW k, NEW i \in 1..Len(s), s[i][1] = k
  PROVE  s[CHOOSE j \in 1..Len(s) : s[j][1] = k] = s[i]
<1> DEFINE w == CHOOSE j \in 1..Len(s) : s[j][1] = k
<1>1. w \in 1..Len(s) /\ s[w][1] = k
  OBVIOUS
<1> QED BY <1>1 DEF Keyed

(* A walk that gives up at a greater key, over a sorted list.              *)
LEMMA WalkFinds ==
  ASSUME NEW s \in Seq(Cells), Keyed(s), Ascending(s), NEW k \in Nat
  PROVE  LET i == FirstFrom(s, k)
         IN (IF i > Len(s) \/ s[i][1] > k THEN Null ELSE s[i]) = Found(s, k, 1, Len(s))
<1>1. PICK i : i = FirstFrom(s, k)
  OBVIOUS
<1>2. /\ Len(s) \in Nat
      /\ i \in 1..(Len(s) + 1)
      /\ i <= Len(s) => s[i][1] >= k
      /\ \A j \in 1..Len(s) : j < i => ~(s[j][1] >= k)
  BY <1>1, FirstFromIs
<1>3. \A j \in 1..Len(s) : s[j][1] \in Nat
  BY KeyOf
<1>4. CASE i > Len(s)
  <2>1. \A j \in 1..Len(s) : s[j][1] # k
    BY <1>2, <1>3, <1>4
  <2>2. Found(s, k, 1, Len(s)) = Null
    BY <2>1 DEF Found
  <2> QED BY <1>1, <1>4, <2>2
<1>5. CASE i <= Len(s) /\ s[i][1] = k
  <2>1. i \in 1..Len(s)
    BY <1>2, <1>5
  <2>2. Found(s, k, 1, Len(s)) = s[i]
    BY <1>5, <2>1, FoundIs DEF Found
  <2>3. ~(i > Len(s)) /\ ~(s[i][1] > k)
    BY <1>2, <1>3, <1>5, <2>1
  <2> QED BY <1>1, <2>2, <2>3
<1>6. CASE i <= Len(s) /\ s[i][1] # k
  <2>1. i \in 1..Len(s) /\ s[i][1] > k
    BY <1>2, <1>3, <1>6
  <2>2. ASSUME NEW j \in 1..Len(s), s[j][1] = k
        PROVE  FALSE
    <3>1. ~(j < i) /\ j # i
      BY <1>2, <1>3, <2>1, <2>2
    <3>2. i < j
      BY <1>2, <2>1, <2>2, <3>1
    <3>3. ~(s[j][1] < s[i][1])
      BY <2>1, <3>2 DEF Ascending, Less
    <3> QED BY <1>3, <2>1, <2>2, <3>3
  <2>3. Found(s, k, 1, Len(s)) = Null
    BY <2>2 DEF Found
  <2> QED BY <1>1, <2>1, <2>3
<1> QED BY <1>2, <1>4, <1>5, <1>6

(* One step of the binary search narrows it without losing the key.        *)
LEMMA Narrows ==
  ASSUME NEW s \in Seq(Cells), Keyed(s), Ascending(s), NEW k \in Nat,
         NEW a \in Int, NEW b \in Int, 0 <= a, b < Len(s), NEW mid \in a..b
  PROVE  /\ mid + 1 \in 1..Len(s)
         /\ s[mid + 1][1] = k => Found(s, k, a + 1, b + 1) = s[mid + 1]
         /\ s[mid + 1][1] < k => Found(s, k, a + 1, b + 1) = Found(s, k, (mid + 1) + 1, b + 1)
         /\ s[mid + 1][1] # k /\ ~(s[mid + 1][1] < k)
              => Found(s, k, a + 1, b + 1) = Found(s, k, a + 1, (mid - 1) + 1)
<1>0. Len(s) \in Nat /\ mid \in Int
  OBVIOUS
<1>3. PICK m : m = mid + 1
  OBVIOUS
<1>4. m \in (a + 1)..(b + 1) /\ m \in 1..Len(s) /\ (mid - 1) + 1 = m - 1 /\ (mid + 1) + 1 = m + 1
      /\ m \in Int
  BY <1>0, <1>3
<1>5. \A j \in 1..Len(s) : s[j][1] \in Nat
  BY KeyOf
<1>6. \A i, j \in 1..Len(s) : i < j => s[i][1] <= s[j][1]
  BY <1>5 DEF Ascending, Less
<1>7. \A i \in (a + 1)..(b + 1) : i \in 1..Len(s) /\ i \in Int
  BY <1>0
<1>11. s[m][1] \in Nat
  BY <1>4, <1>5
<1>8. ASSUME s[m][1] = k PROVE Found(s, k, a + 1, b + 1) = s[m]
  <2>1. \E i \in (a + 1)..(b + 1) : s[i][1] = k
    BY <1>4, <1>8
  <2>2. s[CHOOSE j \in 1..Len(s) : s[j][1] = k] = s[m]
    BY <1>4, <1>8, FoundIs
  <2> QED BY <2>1, <2>2 DEF Found
<1>9. ASSUME s[m][1] < k
      PROVE  Found(s, k, a + 1, b + 1) = Found(s, k, m + 1, b + 1)
  <2>1. \A i \in (m + 1)..(b + 1) : i \in (a + 1)..(b + 1)
    BY <1>0, <1>4
  <2>2. ASSUME NEW i \in (a + 1)..(b + 1), s[i][1] = k
        PROVE  i \in (m + 1)..(b + 1)
    <3>0. i \in 1..Len(s) /\ i \in Int
      BY <1>7
    <3>1. i < m => s[i][1] <= s[m][1]
      BY <1>4, <1>6, <3>0
    <3>2. ~(i < m) /\ i # m
      BY <1>9, <1>11, <2>2, <3>1
    <3> QED BY <1>0, <1>4, <3>0, <3>2
  <2>3. (\E i \in (a + 1)..(b + 1) : s[i][1] = k) <=> (\E i \in (m + 1)..(b + 1) : s[i][1] = k)
    BY <2>1, <2>2
  <2> QED BY <2>3 DEF Found
<1>10. ASSUME s[m][1] # k, ~(s[m][1] < k)
       PROVE  Found(s, k, a + 1, b + 1) = Found(s, k, a + 1, m - 1)
  <2>1. \A i \in (a + 1)..(m - 1) : i \in (a + 1)..(b + 1)
    BY <1>0, <1>4
  <2>2. ASSUME NEW i \in (a + 1)..(b + 1), s[i][1] = k
        PROVE  i \in (a + 1)..(m - 1)
    <3>0. i \in 1..Len(s) /\ i \in Int
      BY <1>7
    <3>1. m < i => s[m][1] <= s[i][1]
      BY <1>4, <1>6, <3>0
    <3>2. ~(m < i) /\ i # m
      BY <1>10, <1>11, <2>2, <3>1
    <3> QED BY <1>0, <1>4, <3>0, <3>2
  <2>3. (\E i \in (a + 1)..(b + 1) : s[i][1] = k) <=> (\E i \in (a + 1)..(m - 1) : s[i][1] = k)
    BY <2>1, <2>2
  <2> QED BY <2>3 DEF Found
<1> QED BY <1>3, <1>4, <1>8, <1>9, <1>10

(* The binary search of an array finds what the walk finds.                *)
LEMMA SearchFinds ==
  ASSUME NEW s \in Seq(Cells), Keyed(s), Ascending(s), NEW k \in Nat, items = s
  PROVE  ArraySearch(k) = Found(s, k, 1, Len(s))
<1> DEFINE n == Len(s)
           D == (0..n) \X (-1..(n - 1))
           Mid(r) == (r[2] - r[1]) \div 2 + r[1]
           all == [r \in D |-> Found(s, k, r[1] + 1, r[2] + 1)]
           Answer(f, r) == CASE r[1] > r[2] -> Null
                             [] r[1] <= r[2] /\ s[Mid(r) + 1][1] = k -> s[Mid(r) + 1]
                             [] r[1] <= r[2] /\ s[Mid(r) + 1][1] < k -> f[<<Mid(r) + 1, r[2]>>]
                             [] OTHER -> f[<<r[1], Mid(r) - 1>>]
           find == CHOOSE f : f = [r \in D |-> Answer(f, r)]
<1>0. n \in Nat
  OBVIOUS
<1>1. ASSUME NEW r \in D
      PROVE  /\ r[1] \in 0..n /\ r[2] \in -1..(n - 1) /\ r[1] \in Int /\ r[2] \in Int
             /\ r[1] <= r[2] =>
                  /\ Mid(r) \in r[1]..r[2]
                  /\ <<Mid(r) + 1, r[2]>> \in D /\ <<r[1], Mid(r) - 1>> \in D
                  /\ s[Mid(r) + 1][1] = k => all[r] = s[Mid(r) + 1]
                  /\ s[Mid(r) + 1][1] < k => all[r] = all[<<Mid(r) + 1, r[2]>>]
                  /\ s[Mid(r) + 1][1] # k /\ ~(s[Mid(r) + 1][1] < k)
                       => all[r] = all[<<r[1], Mid(r) - 1>>]
             /\ r[1] > r[2] => all[r] = Null
  <2>1. PICK a, b : a = r[1] /\ b = r[2]
    OBVIOUS
  <2>2. a \in 0..n /\ b \in -1..(n - 1) /\ a \in Int /\ b \in Int
    BY <1>0, <2>1
  <2>3. PICK mid : mid = (b - a) \div 2 + a
    OBVIOUS
  <2>4. Mid(r) = mid
    BY <2>1, <2>3
  <2>5. all[r] = Found(s, k, a + 1, b + 1)
    BY <2>1
  <2>6. a > b => all[r] = Null
    <3>1. a > b => ~(\E i \in (a + 1)..(b + 1) : s[i][1] = k)
      BY <2>2
    <3> QED BY <2>5, <3>1 DEF Found
  <2>7. ASSUME a <= b
        PROVE  /\ mid \in a..b
               /\ <<mid + 1, b>> \in D /\ <<a, mid - 1>> \in D
               /\ s[mid + 1][1] = k => all[r] = s[mid + 1]
               /\ s[mid + 1][1] < k => all[r] = all[<<mid + 1, b>>]
               /\ s[mid + 1][1] # k /\ ~(s[mid + 1][1] < k) => all[r] = all[<<a, mid - 1>>]
    <3>5. mid \in a..b
      <4>1. b - a \in Nat
        BY <2>2, <2>7
      <4>2. (b - a) \div 2 \in 0..(b - a)
        BY <4>1
      <4> QED BY <2>2, <2>3, <4>2
    <3>6. mid + 1 \in 0..n /\ mid - 1 \in -1..(n - 1)
      BY <1>0, <2>2, <3>5
    <3>7. 0 <= a /\ b < Len(s)
      BY <1>0, <2>2
    <3>1. /\ s[mid + 1][1] = k => Found(s, k, a + 1, b + 1) = s[mid + 1]
          /\ s[mid + 1][1] < k => Found(s, k, a + 1, b + 1) = Found(s, k, (mid + 1) + 1, b + 1)
          /\ s[mid + 1][1] # k /\ ~(s[mid + 1][1] < k)
               => Found(s, k, a + 1, b + 1) = Found(s, k, a + 1, (mid - 1) + 1)
      <4> HIDE DEF n, D, Mid, all, Answer, find
      <4>1. a \in Int /\ b \in Int /\ 0 <= a /\ b < Len(s) /\ mid \in a..b
        BY <2>2, <3>5, <3>7
      <4> QED BY <4>1, Narrows, ZenonT(40)
    <3>2. <<mid + 1, b>> \in D /\ <<a, mid - 1>> \in D
      BY <2>2, <3>6
    <3>3. all[<<mid + 1, b>>] = Found(s, k, (mid + 1) + 1, b + 1)
      BY <3>2
    <3>4. all[<<a, mid - 1>>] = Found(s, k, a + 1, (mid - 1) + 1)
      BY <3>2
    <3> HIDE DEF all, D
    <3> QED BY <2>5, <3>1, <3>2, <3>3, <3>4, <3>5
  <2> HIDE DEF all, D, Mid
  <2> QED BY <2>1, <2>2, <2>4, <2>6, <2>7
<1> HIDE DEF Mid
<1>2. ASSUME NEW r \in D
      PROVE  all[r] = Answer(all, r)
  <2>1. r[1] > r[2] \/ r[1] <= r[2]
    BY <1>1
  <2>2. r[1] <= r[2] => ~(r[1] > r[2])
    BY <1>1
  <2> HIDE DEF all, D
  <2> QED BY <1>1, <2>1, <2>2
<1>3. all = [r \in D |-> Answer(all, r)]
  <2>1. all = [r \in D |-> all[r]]
    OBVIOUS
  <2> HIDE DEF all, D, Answer
  <2> QED BY <1>2, <2>1
<1>4. find = [r \in D |-> Answer(find, r)]
  <2> HIDE DEF all, D, Answer
  <2> QED BY <1>3
<1>5. \A r \in D : find[r] = Answer(find, r)
  <2> HIDE DEF D, Answer, find
  <2> QED BY <1>4
<1> DEFINE Size(r) == r[2] - r[1] + 1
           bad == {m \in Nat : \E r \in D : Size(r) <= m /\ find[r] # all[r]}
<1>6. bad = {}
  <2> SUFFICES ASSUME bad # {} PROVE FALSE
    OBVIOUS
  <2> HIDE DEF find, all, D, Answer
  <2>1. bad \in SUBSET Nat
    OBVIOUS
  <2>2. PICK m \in bad : \A y \in bad : m <= y
    <3> HIDE DEF bad
    <3> QED BY <2>1, SmallestExists
  <2>3. PICK r \in D : Size(r) <= m /\ find[r] # all[r]
    BY <2>2
  <2>4. m \in Nat
    BY <2>2
  <2>5. r[1] \in Int /\ r[2] \in Int
    BY <1>1
  <2>6. find[r] = Answer(find, r) /\ all[r] = Answer(all, r)
    BY <1>2, <1>5
  <2>7. ASSUME NEW q \in D, Size(q) < Size(r), Size(q) \in Int, Size(r) >= 1
        PROVE  find[q] = all[q]
    <3>1. Size(r) \in Int
      BY <2>5
    <3>2. m - 1 \in Nat /\ Size(q) <= m - 1 /\ ~(m <= m - 1)
      BY <2>3, <2>4, <2>7, <3>1
    <3>3. m - 1 \notin bad
      BY <2>2, <3>2
    <3> QED BY <3>2, <3>3
  <2>8. CASE r[1] > r[2]
    <3>1. ~(r[1] <= r[2])
      BY <2>5, <2>8
    <3>2. Answer(find, r) = Null /\ Answer(all, r) = Null
      BY <2>8, <3>1 DEF Answer
    <3> QED BY <2>3, <2>6, <3>2
  <2>9. CASE r[1] <= r[2]
    <3>1. /\ Mid(r) \in r[1]..r[2] /\ Mid(r) \in Int
          /\ <<Mid(r) + 1, r[2]>> \in D /\ <<r[1], Mid(r) - 1>> \in D
      BY <1>1, <2>5, <2>9
    <3>2. Size(r) >= 1
      BY <2>5, <2>9
    <3>3. find[<<Mid(r) + 1, r[2]>>] = all[<<Mid(r) + 1, r[2]>>]
      <4>1. Size(<<Mid(r) + 1, r[2]>>) < Size(r) /\ Size(<<Mid(r) + 1, r[2]>>) \in Int
        <5>1. Size(<<Mid(r) + 1, r[2]>>) = r[2] - (Mid(r) + 1) + 1
          OBVIOUS
        <5>2. Size(r) = r[2] - r[1] + 1
          OBVIOUS
        <5> HIDE DEF Size
        <5> QED BY <5>1, <5>2, <2>5, <3>1
      <4> QED BY <2>7, <3>1, <3>2, <4>1
    <3>4. find[<<r[1], Mid(r) - 1>>] = all[<<r[1], Mid(r) - 1>>]
      <4>2. PICK a, b, c : a = r[1] /\ b = r[2] /\ c = Mid(r)
        OBVIOUS
      <4>3. a \in Int /\ b \in Int /\ c \in Int /\ c <= b
        BY <2>5, <3>1, <4>2
      <4>4. Size(<<a, c - 1>>) < Size(r) /\ Size(<<a, c - 1>>) \in Int
        <5>1. Size(<<a, c - 1>>) = (c - 1) - a + 1 /\ Size(r) = b - a + 1
          BY <4>2
        <5> HIDE DEF Size
        <5> QED BY <5>1, <4>3
      <4>1. Size(<<r[1], Mid(r) - 1>>) < Size(r) /\ Size(<<r[1], Mid(r) - 1>>) \in Int
        BY <4>2, <4>4
      <4> QED BY <2>7, <3>1, <3>2, <4>1
    <3>5. Answer(find, r) = Answer(all, r)
      BY <3>3, <3>4 DEF Answer
    <3> QED BY <2>3, <2>6, <3>5
  <2>10. r[1] > r[2] \/ r[1] <= r[2]
    BY <2>5
  <2> QED BY <2>8, <2>9, <2>10
<1>7. ArraySearch(k) = find[<<0, n - 1>>]
  BY DEF ArraySearch, Mid
<1>8. <<0, n - 1>> \in D
  BY <1>0
<1>9. find[<<0, n - 1>>] = all[<<0, n - 1>>]
  <2> HIDE DEF find, all, D
  <2>1. PICK r : r = <<0, n - 1>>
    OBVIOUS
  <2>2. r \in D /\ Size(r) = n
    BY <1>0, <1>8, <2>1
  <2>3. n \notin bad
    BY <1>6
  <2>4. find[r] = all[r]
    BY <1>0, <2>2, <2>3
  <2> QED BY <2>1, <2>4
<1>10. all[<<0, n - 1>>] = Found(s, k, 1, n)
  <2>1. all[<<0, n - 1>>] = Found(s, k, 0 + 1, (n - 1) + 1)
    BY <1>8
  <2>2. 0 + 1 = 1 /\ (n - 1) + 1 = n
    BY <1>0
  <2> HIDE DEF all
  <2> QED BY <2>1, <2>2
<1> HIDE DEF find, all
<1> QED BY <1>7, <1>9, <1>10

(* The readings of a chain that holds what the array holds.                *)
LEMMA LnkReads ==
  ASSUME NEW s \in Seq(Cells), items = s, chain = s, llen = Len(s)
  PROVE  /\ LnkToArray = ArrayToArray /\ LnkIterate = ArrayIterate
         /\ \A x \in Plain : LnkIndex(x) = ArrayIndex(x) /\ LnkFind(x) = ArrayFind(x)
         /\ \A index \in Int : LnkGet(index) = ArrayGet(index)
         /\ Keyed(s) /\ Ascending(s) =>
              \A k \in Keys : LnkSearch(k) = ArraySearch(k) /\ LnkMapGet(k) = ArrayMapGet(k)
         /\ \A v \in Values : LnkHasValue(v) = ArrayHasValue(v)
         /\ LnkKeys = ArrayKeys /\ LnkValues = ArrayValues
<1>0. Len(s) \in Nat
  OBVIOUS
<1>1. LnkToArray = ArrayToArray
  BY DEF LnkToArray, ArrayToArray
<1>2. LnkIterate = ArrayIterate
  <2>1. \A i \in 1..Len(s) : ArrayGet(i - 1) = s[i]
    <3> TAKE i \in 1..Len(s)
    <3>1. PICK j : j = i - 1
      OBVIOUS
    <3>2. j \in 0..(Len(s) - 1) /\ ~(j < 0) /\ j + 1 = i
      BY <1>0, <3>1
    <3>3. FromEnd(j, Len(s)) = j
      BY <3>2 DEF FromEnd
    <3>4. ArrayGet(j) = s[j + 1]
      BY <3>2, <3>3 DEF ArrayGet
    <3> QED BY <3>1, <3>2, <3>4
  <2> QED BY <2>1 DEF LnkIterate, ArrayIterate
<1>3. ASSUME NEW x \in Plain PROVE LnkIndex(x) = ArrayIndex(x)
  BY DEF LnkIndex, ArrayIndex
<1>4. ASSUME NEW x \in Plain PROVE LnkFind(x) = ArrayFind(x)
  <2>1. \A i \in 1..Len(s) : Same(x, s[i]) => s[i] # Null
    <3>1. x[1] > 0 /\ Null[1] = 0 /\ x[1] \in Nat
      BY CellTyped
    <3> QED BY <3>1 DEF Same
  <2>2. {i \in 1..Len(s) : s[i] # Null /\ Same(x, s[i])} = {i \in 1..Len(s) : Same(x, s[i])}
    BY <2>1
  <2>3. Scan(s, {i \in 1..Len(s) : s[i] # Null /\ Same(x, s[i])}) = FirstSame(s, x)
    BY <2>2 DEF FirstSame
  <2>4. ArrayFind(x) = IF FirstSame(s, x) > Len(s) THEN Null ELSE s[FirstSame(s, x)]
    BY <2>3 DEF ArrayFind
  <2> QED BY <2>4 DEF LnkFind
<1>5. ASSUME NEW index \in Int PROVE LnkGet(index) = ArrayGet(index)
  <2>1. PICK idx : idx = FromEnd(index, Len(s))
    OBVIOUS
  <2>2. idx \in 0..(Len(s) - 1) => idx < Len(s)
    BY <1>0
  <2>3. LnkGet(index) = IF idx \in 0..(Len(s) - 1) /\ idx < Len(s) THEN s[idx + 1] ELSE Null
    BY <2>1 DEF LnkGet
  <2>4. ArrayGet(index) = IF idx \in 0..(Len(s) - 1) THEN s[idx + 1] ELSE Null
    BY <2>1 DEF ArrayGet
  <2> QED BY <2>2, <2>3, <2>4
<1>6. ASSUME Keyed(s), Ascending(s), NEW k \in Keys
      PROVE  LnkSearch(k) = ArraySearch(k)
  <2>1. k \in Nat
    BY ObjectsAssumption
  <2>2. ArraySearch(k) = Found(s, k, 1, Len(s))
    BY <1>6, <2>1, SearchFinds
  <2>3. LnkSearch(k) = IF FirstFrom(s, k) > Len(s) \/ s[FirstFrom(s, k)][1] > k
                         THEN Null ELSE s[FirstFrom(s, k)]
    BY DEF LnkSearch
  <2> QED BY <1>6, <2>1, <2>2, <2>3, WalkFinds
<1>7. \A v \in Values : LnkHasValue(v) = ArrayHasValue(v)
  BY DEF LnkHasValue, ArrayHasValue
<1>8. LnkKeys = ArrayKeys /\ LnkValues = ArrayValues
  BY DEF LnkKeys, ArrayKeys, LnkValues, ArrayValues
<1>9. Keyed(s) /\ Ascending(s) => \A k \in Keys : LnkMapGet(k) = ArrayMapGet(k)
  BY <1>6 DEF LnkMapGet, ArrayMapGet
<1> QED BY <1>1, <1>2, <1>3, <1>4, <1>5, <1>6, <1>7, <1>8, <1>9

(* The readings of the nodes of a dlinked_list.                            *)
LEMMA DlReads ==
  ASSUME NEW s, Starts(s)
  PROVE  /\ DlToArray = LnkToArray /\ DlIterate = LnkIterate
         /\ \A x \in Plain : DlIndex(x) = LnkIndex(x) /\ DlFind(x) = LnkFind(x)
         /\ iface = "list" /\ ~Stale => \A index \in Int : DlGet(index) = LnkGet(index)
         /\ \A k \in Keys : DlSearch(k) = LnkSearch(k) /\ DlMapGet(k) = LnkMapGet(k)
         /\ \A v \in Values : DlHasValue(v) = LnkHasValue(v)
         /\ DlKeys = LnkKeys /\ DlValues = LnkValues
<1>0. /\ s \in Seq(Cells) /\ Len(s) \in Nat /\ chain = s /\ llen = Len(s)
      /\ Contents = s /\ len = Len(s) /\ Len(Forward) = Len(s)
      /\ \A i \in 1..Len(s) : Forward[i] \in used /\ data[Forward[i]] = s[i]
      /\ DlTyped /\ DlState(s, FALSE)
      /\ iface # "map" => DlState(s, TRUE)
      /\ head = NULL <=> s = <<>>
  BY DEF Starts
<1>1. DlToArray = LnkToArray
  BY <1>0 DEF DlToArray, LnkToArray
<1>2. DlIterate = LnkIterate
  <2>1. s = [i \in 1..Len(s) |-> s[i]]
    BY <1>0
  <2> QED BY <1>0, <2>1 DEF DlIterate, LnkIterate
<1>3. \A x \in Plain : DlIndex(x) = LnkIndex(x) /\ DlFind(x) = LnkFind(x)
  BY <1>0 DEF DlIndex, LnkIndex, DlFind, LnkFind
<1>4. ASSUME iface = "list", ~Stale, NEW index \in Int
      PROVE  DlGet(index) = LnkGet(index)
  <2>1. PICK idx : idx = FromEnd(index, Len(s))
    OBVIOUS
  <2>2. LnkGet(index) = IF idx \in 0..(Len(s) - 1) /\ idx < Len(s) THEN s[idx + 1] ELSE Null
    BY <1>0, <2>1 DEF LnkGet
  <2>3. DlGet(index) = IF idx \in 0..(Len(s) - 1) /\ NodeAt(idx) # NULL
                         THEN data[NodeAt(idx)] ELSE Null
    BY <1>0, <2>1 DEF DlGet
  <2>4. ASSUME idx \in 0..(Len(s) - 1)
        PROVE  idx < Len(s) /\ NodeAt(idx) # NULL /\ data[NodeAt(idx)] = s[idx + 1]
    <3>1. idx < Len(s) /\ idx + 1 \in 1..Len(s) /\ s # <<>>
      BY <1>0, <2>4
    <3>2. DlState(s, TRUE)
      BY <1>0, <1>4
    <3>3. NodeAt(idx) = Forward[idx + 1]
      <4>1. CASE idx > Len(s) \div 2
        <5>1. tail = Forward[Len(Forward)]
          BY <1>0, <1>4, <3>1 DEF Stale
        <5> QED BY <1>0, <2>4, <3>2, <4>1, <5>1, NodeAtUpper
      <4>2. CASE ~(idx > Len(s) \div 2)
        BY <1>0, <2>4, <3>2, <4>2, NodeAtLower
      <4> QED BY <4>1, <4>2
    <3>4. NULL \notin used
      BY <1>0, NodeAssumption DEF DlTyped
    <3> QED BY <1>0, <3>1, <3>3, <3>4
  <2> QED BY <2>2, <2>3, <2>4
<1>5. \A k \in Keys : DlSearch(k) = LnkSearch(k) /\ DlMapGet(k) = LnkMapGet(k)
  BY <1>0 DEF DlSearch, LnkSearch, DlMapGet, LnkMapGet
<1>6. \A v \in Values : DlHasValue(v) = LnkHasValue(v)
  BY <1>0 DEF DlHasValue, LnkHasValue
<1>7. DlKeys = LnkKeys /\ DlValues = LnkValues
  BY <1>0 DEF DlKeys, LnkKeys, DlValues, LnkValues
<1> QED BY <1>1, <1>2, <1>3, <1>4, <1>5, <1>6, <1>7

(* The answers of the classes that agree.                                  *)
Answers(a, l, d) == Part(a, "array" \in Agreeing)
                      \cup Part(l, "linked" \in Agreeing)
                      \cup Part(d, "dlinked" \in Agreeing)

(* Classes that answer alike give one answer.                               *)
LEMMA OneAnswer ==
  ASSUME NEW a, NEW l, NEW d,
         "array" \in Agreeing /\ "linked" \in Agreeing => l = a,
         "dlinked" \in Agreeing /\ "linked" \in Agreeing => d = l,
         "dlinked" \in Agreeing /\ "array" \in Agreeing => d = a
  PROVE  Cardinality(Answers(a, l, d)) < 2
<1>1. \E v : Answers(a, l, d) \subseteq {v}
  <2>1. CASE "array" \in Agreeing
    <3>1. Answers(a, l, d) \subseteq {a}
      BY <2>1 DEF Answers, Part
    <3> QED BY <3>1
  <2>2. CASE "array" \notin Agreeing /\ "linked" \in Agreeing
    <3>1. Answers(a, l, d) \subseteq {l}
      BY <2>2 DEF Answers, Part
    <3> QED BY <3>1
  <2>3. CASE "array" \notin Agreeing /\ "linked" \notin Agreeing
    <3>1. Answers(a, l, d) \subseteq {d}
      BY <2>3 DEF Answers, Part
    <3> QED BY <3>1
  <2> QED BY <2>1, <2>2, <2>3
<1>2. PICK v : Answers(a, l, d) \subseteq {v}
  BY <1>1
<1>3. IsFiniteSet({v}) /\ Cardinality({v}) = 1
  BY FS_Singleton
<1>4. Cardinality(Answers(a, l, d)) <= 1 /\ Cardinality(Answers(a, l, d)) \in Nat
  BY <1>2, <1>3, FS_Subset, FS_CardinalityType
<1> QED BY <1>4

(* get(), index(), find(), contains(), the map's gets and searches, the     *)
(* iterators and to_array() answer alike in every class that has not parted:*)
(* the array's binary search finds what the linked classes find walking.    *)
THEOREM ReadingsAgree == Spec => []ReadsAgree
<1>1. ListInv => ReadsAgree
  <2> SUFFICES ASSUME ListInv PROVE ReadsAgree
    OBVIOUS
  <2> DEFINE al == "array" \in Agreeing /\ "linked" \in Agreeing
             dl == "dlinked" \in Agreeing /\ "linked" \in Agreeing
             da == "dlinked" \in Agreeing /\ "array" \in Agreeing
  <2>1. al => items \in Seq(Cells) /\ chain = items /\ llen = Len(items)
    BY AgreeingHold
  <2>2. dl \/ da => parted = {} /\ Starts(items)
    BY AgreeingHold
  <2>3. parted = {} => al
    BY DEF Agreeing, Classes
  <2>4. al /\ iface # "list" => Ascending(items)
    BY AgreeingHold
  <2>5. al /\ iface # "list" => Keyed(items)
    <3> HAVE al /\ iface # "list"
    <3>1. /\ \A i \in 1..Len(items) : items[i] \in Held(iface)
          /\ iface = "map" => OneEach(items)
          /\ iface \in Ifaces
      BY AgreeingHold DEF ListInv, TypeOK
    <3>2. CASE iface = "map"
      BY <3>1, <3>2 DEF Keyed, OneEach
    <3>3. CASE iface = "vector"
      <4>1. \A i \in 1..Len(items) : items[i] \in Plain
        BY <3>1, <3>3 DEF Held
      <4>2. \A i \in 1..Len(items) : items[i] = <<items[i][1], 0>>
        BY <4>1, CellTyped
      <4> QED BY <4>2 DEF Keyed
    <3> QED BY <3>1, <3>2, <3>3 DEF Ifaces
  <2>6. al => /\ LnkToArray = ArrayToArray /\ LnkIterate = ArrayIterate
              /\ \A x \in Plain : LnkIndex(x) = ArrayIndex(x) /\ LnkFind(x) = ArrayFind(x)
              /\ \A index \in Int : LnkGet(index) = ArrayGet(index)
              /\ iface # "list" =>
                   \A k \in Keys : LnkSearch(k) = ArraySearch(k) /\ LnkMapGet(k) = ArrayMapGet(k)
              /\ \A v \in Values : LnkHasValue(v) = ArrayHasValue(v)
              /\ LnkKeys = ArrayKeys /\ LnkValues = ArrayValues
    <3> HAVE al
    <3>1. PICK s : s = items
      OBVIOUS
    <3>2. /\ s \in Seq(Cells) /\ items = s /\ chain = s /\ llen = Len(s)
          /\ iface # "list" => Keyed(s) /\ Ascending(s)
      BY <2>1, <2>4, <2>5, <3>1
    <3> HIDE DEF al
    <3> QED BY <3>2, LnkReads
  <2>7. dl \/ da =>
              /\ DlToArray = LnkToArray /\ DlIterate = LnkIterate
              /\ \A x \in Plain : DlIndex(x) = LnkIndex(x) /\ DlFind(x) = LnkFind(x)
              /\ iface = "list" /\ ~Stale => \A index \in Int : DlGet(index) = LnkGet(index)
              /\ \A k \in Keys : DlSearch(k) = LnkSearch(k) /\ DlMapGet(k) = LnkMapGet(k)
              /\ \A v \in Values : DlHasValue(v) = LnkHasValue(v)
              /\ DlKeys = LnkKeys /\ DlValues = LnkValues
              /\ al
    BY <2>2, <2>3, DlReads
  <2>8. ASSUME NEW a, NEW l, NEW d, al => l = a, dl \/ da => d = l /\ al
        PROVE  Cardinality(Answers(a, l, d)) < 2
    BY <2>8, OneAnswer
  <2> HIDE DEF al, dl, da
  <2>9. Cardinality(Answers(ArrayToArray, LnkToArray, DlToArray)) < 2
    BY <2>6, <2>7, <2>8
  <2>10. Cardinality(Answers(ArrayIterate, LnkIterate, DlIterate)) < 2
    BY <2>6, <2>7, <2>8
  <2>11. ASSUME NEW x \in Plain
         PROVE  Cardinality(Answers(ArrayIndex(x), LnkIndex(x), DlIndex(x))) < 2
    BY <2>6, <2>7, <2>8
  <2>12. ASSUME NEW x \in Plain
         PROVE  Cardinality(Answers(ArrayFind(x), LnkFind(x), DlFind(x))) < 2
    BY <2>6, <2>7, <2>8
  <2>13. \A index \in Indexes : index \in Int
    BY DEF Indexes
  <2>14. ASSUME NEW index \in Indexes
         PROVE  ArrayGet(index) = LnkGet(index) \/ {"array", "linked"} \cap parted # {}
    <3>1. al \/ {"array", "linked"} \cap parted # {}
      BY DEF al, Agreeing, Classes
    <3> QED BY <2>6, <2>13, <3>1
  <2>15. ASSUME iface = "list", NEW index \in Indexes, ~Stale
         PROVE  Cardinality(Answers(ArrayGet(index), LnkGet(index), DlGet(index))) < 2
    BY <2>6, <2>7, <2>8, <2>13, <2>15
  <2>16. ASSUME iface = "vector", NEW k \in Keys
         PROVE  Cardinality(Answers(ArraySearch(k), LnkSearch(k), DlSearch(k))) < 2
    BY <2>6, <2>7, <2>8, <2>16
  <2>17. ASSUME iface = "map", NEW k \in Keys
         PROVE  Cardinality(Answers(ArrayMapGet(k), LnkMapGet(k), DlMapGet(k))) < 2
    BY <2>6, <2>7, <2>8, <2>17
  <2>18. ASSUME NEW v \in Values
         PROVE  Cardinality(Answers(ArrayHasValue(v), LnkHasValue(v), DlHasValue(v))) < 2
    BY <2>6, <2>7, <2>8
  <2>19. Cardinality(Answers(ArrayKeys, LnkKeys, DlKeys)) < 2
    BY <2>6, <2>7, <2>8
  <2>20. Cardinality(Answers(ArrayValues, LnkValues, DlValues)) < 2
    BY <2>6, <2>7, <2>8
  <2>21. ReadsAgree <=>
           /\ Cardinality(Answers(ArrayToArray, LnkToArray, DlToArray)) < 2
           /\ Cardinality(Answers(ArrayIterate, LnkIterate, DlIterate)) < 2
           /\ iface = "list" =>
                /\ \A x \in Plain : Cardinality(Answers(ArrayIndex(x), LnkIndex(x), DlIndex(x))) < 2
                /\ \A x \in Plain : Cardinality(Answers(ArrayFind(x), LnkFind(x), DlFind(x))) < 2
                /\ \A index \in Indexes :
                     /\ ArrayGet(index) = LnkGet(index) \/ {"array", "linked"} \cap parted # {}
                     /\ Stale \/ Cardinality(Answers(ArrayGet(index), LnkGet(index), DlGet(index))) < 2
           /\ iface = "vector" =>
                \A k \in Keys : Cardinality(Answers(ArraySearch(k), LnkSearch(k), DlSearch(k))) < 2
           /\ iface = "map" =>
                /\ \A k \in Keys :
                     Cardinality(Answers(ArrayMapGet(k), LnkMapGet(k), DlMapGet(k))) < 2
                /\ \A v \in Values :
                     Cardinality(Answers(ArrayHasValue(v), LnkHasValue(v), DlHasValue(v))) < 2
                /\ Cardinality(Answers(ArrayKeys, LnkKeys, DlKeys)) < 2
                /\ Cardinality(Answers(ArrayValues, LnkValues, DlValues)) < 2
    BY DEF ReadsAgree, Answers
  <2> QED BY <2>9, <2>10, <2>11, <2>12, <2>14, <2>15, <2>16, <2>17, <2>18, <2>19, <2>20, <2>21
<1> QED BY <1>1, ListInvHolds, PTL
=============================================================================
