---------------------------- MODULE DLinkedList -----------------------------
(***************************************************************************)
(* src/src/dlinked_list.c: the list, vector and map of doubly linked       *)
(* nodes, node by node.  used is the set of allocated nodes; a node taken  *)
(* from the rest is a fresh one, and a freed node can be taken again.  dOk *)
(* turns FALSE when a NULL, freed or uninitialised node pointer is used.   *)
(***************************************************************************)
EXTENDS ListSpec

CONSTANTS Node, NULL

ASSUME NodeAssumption == IsFiniteSet(Node) /\ NULL \notin Node

VARIABLES used, data, next, prev, head, tail, len, dOk

links   == <<next, prev, head, tail>>
dlinked == <<used, data, next, prev, head, tail, len, dOk>>

DlInit ==
  /\ used = {}
  /\ data = [n \in Node |-> Null]
  /\ next = [n \in Node |-> NULL]
  /\ prev = [n \in Node |-> NULL]
  /\ head = NULL
  /\ tail = NULL
  /\ len = 0
  /\ dOk = TRUE

(* The nodes met from start along link: start, link[start], ... *)
Chain(link, start) ==
  LET at[i \in 0..Cardinality(Node)] ==
        IF i = 0 THEN start
        ELSE IF at[i - 1] \in Node THEN link[at[i - 1]] ELSE NULL
  IN [i \in 1..Cardinality({j \in DOMAIN at : at[j] # NULL}) |-> at[i - 1]]

Forward  == Chain(next, head)
Contents == LET nodes == Forward IN [i \in 1..Len(nodes) |-> data[nodes[i]]]

DlUndefined == dOk' = FALSE /\ UNCHANGED <<used, data, next, prev, head, tail, len>>

(* Assignment through a pointer that may be NULL. *)
Put(f, n, v) == IF n = NULL THEN f ELSE [f EXCEPT ![n] = v]

(* spif_dlinked_list_item_new(), spif_dlinked_list_item_set_data() and the *)
(* count that follows: item is fresh, between p and q.                     *)
NewItem(item, x, p, q) ==
  /\ item \in Node \ used
  /\ used' = used \cup {item}
  /\ data' = [data EXCEPT ![item] = x]
  /\ next' = [Put(next, p, item) EXCEPT ![item] = q]
  /\ prev' = [Put(prev, q, item) EXCEPT ![item] = p]
  /\ len' = len + 1
  /\ UNCHANGED dOk

(* spif_dlinked_list_append() *)
DlAppend(x) ==
  \/ /\ tail = NULL
     /\ \E item \in Node :
          NewItem(item, x, NULL, NULL) /\ head' = item /\ tail' = item
  \/ /\ tail # NULL
     /\ \E item \in Node :
          NewItem(item, x, tail, NULL) /\ tail' = item /\ UNCHANGED head

(* spif_dlinked_list_prepend() *)
DlPrepend(x) ==
  \/ /\ head = NULL
     /\ \E item \in Node :
          NewItem(item, x, NULL, NULL) /\ head' = item /\ tail' = item
  \/ /\ head # NULL
     /\ \E item \in Node :
          NewItem(item, x, NULL, head) /\ head' = item /\ UNCHANGED tail

(* The end of insert() and insert_at(): current->next->prev is assigned.   *)
InsertAfter(current, x) ==
  \/ next[current] = NULL /\ DlUndefined
  \/ /\ next[current] # NULL
     /\ \E item \in Node : NewItem(item, x, current, next[current])
     /\ UNCHANGED <<head, tail>>

(* spif_dlinked_list_insert(): head, then tail, then the walk. *)
DlInsert(x) ==
  \/ /\ head = NULL
     /\ DlPrepend(x)
  \/ /\ head # NULL /\ Less(x, data[head])
     /\ DlPrepend(x)
  \/ /\ head # NULL /\ ~Less(x, data[head])
     /\ tail \notin used
     /\ DlUndefined
  \/ /\ head # NULL /\ ~Less(x, data[head])
     /\ tail \in used /\ Less(data[tail], x)
     /\ DlAppend(x)
  \/ /\ head # NULL /\ ~Less(x, data[head])
     /\ tail \in used /\ ~Less(data[tail], x)
     /\ \E current \in used :
          /\ current = Forward[PlaceFor(Tail(Contents), x)]
          /\ InsertAfter(current, x)

(* The appends of insert_at() past the end: the objects of s on the fresh  *)
(* nodes item[1], item[2], ... behind the tail.                            *)
DlAppendAll(s) ==
  \E item \in [1..Len(s) -> Node \ used] :
    LET at(n) == CHOOSE i \in 1..Len(s) : item[i] = n
        new   == {item[i] : i \in 1..Len(s)}
    IN /\ \A i, j \in 1..Len(s) : item[i] = item[j] => i = j
       /\ used' = used \cup new
       /\ data' = [n \in Node |-> IF n \in new THEN s[at(n)] ELSE data[n]]
       /\ next' = [n \in Node |->
                     CASE n = tail                      -> item[1]
                       [] n \in new /\ at(n) < Len(s)   -> item[at(n) + 1]
                       [] n \in new /\ at(n) = Len(s)   -> NULL
                       [] OTHER                         -> next[n]]
       /\ prev' = [n \in Node |->
                     CASE n \in new /\ at(n) = 1 -> tail
                       [] n \in new /\ at(n) > 1 -> item[at(n) - 1]
                       [] OTHER                  -> prev[n]]
       /\ tail' = item[Len(s)]
       /\ len' = len + Len(s)
       /\ UNCHANGED <<head, dOk>>

(* The walk of get() and remove_at() to an index: from the tail in the     *)
(* upper half, from the head in the lower one.                             *)
NodeAt(idx) ==
  IF idx > len \div 2
    THEN LET back == Chain(prev, tail)
         IN IF len - idx \in 1..Len(back) THEN back[len - idx] ELSE NULL
    ELSE IF idx + 1 \in 1..Len(Forward) THEN Forward[idx + 1] ELSE NULL

(* spif_dlinked_list_insert_at().  An index of len finds no node from the  *)
(* tail and is refused; in the upper half the object goes behind the node  *)
(* at the index, in the lower half in front of it.                         *)
DlInsertAt(x, index) ==
  LET idx == FromEnd(index, len) IN
  \/ /\ idx + 1 <= 0
     /\ UNCHANGED dlinked
  \/ /\ idx = 0 \/ (idx > 0 /\ head = NULL)
     /\ DlPrepend(x)
  \/ /\ idx > 0 /\ head # NULL
     /\ idx = len - 1 \/ tail = NULL
     /\ DlAppend(x)
  \/ /\ idx > len /\ head # NULL /\ tail # NULL
     /\ DlAppendAll(Nulls(idx - len) \o <<x>>)
  \/ /\ idx \in 1..len /\ idx # len - 1 /\ head # NULL /\ tail # NULL
     /\ LET from == IF idx > len \div 2 THEN idx ELSE idx - 1 IN
        IF idx = len \/ NodeAt(from) = NULL
          THEN UNCHANGED dlinked
          ELSE \E current \in used :
                 current = NodeAt(from) /\ InsertAfter(current, x)

(* Mutant: remove() looks after self->head only, as in linked_list.c. *)
UnlinkKeepsTail(n) ==
  /\ used' = used \ {n}
  /\ data' = [data EXCEPT ![n] = Null]
  /\ next' = [Put(next, prev[n], next[n]) EXCEPT ![n] = NULL]
  /\ prev' = [Put(prev, next[n], prev[n]) EXCEPT ![n] = NULL]
  /\ head' = IF n = head THEN next[n] ELSE head
  /\ len' = len - 1
  /\ UNCHANGED <<tail, dOk>>

(* The relinking of remove() and remove_at(), spif_dlinked_list_item_del(). *)
Unlink(n) ==
  /\ used' = used \ {n}
  /\ data' = [data EXCEPT ![n] = Null]
  /\ next' = [Put(next, prev[n], next[n]) EXCEPT ![n] = NULL]
  /\ prev' = [Put(prev, next[n], prev[n]) EXCEPT ![n] = NULL]
  /\ head' = IF n = head THEN next[n] ELSE head
  /\ tail' = IF n = tail THEN prev[n] ELSE tail
  /\ len' = len - 1
  /\ UNCHANGED dOk

(* spif_dlinked_list_remove() *)
DlRemove(x) ==
  LET i == FirstSame(Contents, x) IN
  IF i > Len(Contents)
    THEN UNCHANGED dlinked
    ELSE \E current \in used : current = Forward[i] /\ Unlink(current)

(* spif_dlinked_list_remove_at() *)
DlRemoveAt(index) ==
  LET idx == FromEnd(index, len) IN
  IF head = NULL \/ idx \notin 0..(len - 1) \/ NodeAt(idx) = NULL
    THEN UNCHANGED dlinked
    ELSE \E current \in used : current = NodeAt(idx) /\ Unlink(current)

(* spif_dlinked_list_map_remove(): the code of linked_list.c, which writes *)
(* neither prev of the following node nor self->tail.                      *)
DlMapRemove(k) ==
  LET i == FirstWith(Contents, k) IN
  IF i > Len(Contents)
    THEN UNCHANGED dlinked
    ELSE \E n \in used :
           /\ n = Forward[i]
           /\ used' = used \ {n}
           /\ data' = [data EXCEPT ![n] = Null]
           /\ next' = [Put(next, IF i = 1 THEN NULL ELSE Forward[i - 1], next[n])
                         EXCEPT ![n] = NULL]
           /\ prev' = [prev EXCEPT ![n] = NULL]
           /\ head' = IF i = 1 THEN next[n] ELSE head
           /\ len' = len - 1
           /\ UNCHANGED <<tail, dOk>>

(* spif_dlinked_list_reverse(): the links of every node met are swapped,   *)
(* the last one becomes the head and tail stays.                           *)
DlReverse ==
  \/ /\ head = NULL
     /\ DlUndefined
  \/ /\ head # NULL
     /\ LET met == {Forward[i] : i \in 1..Len(Forward)} IN
        /\ next' = [n \in Node |-> IF n \in met THEN prev[n] ELSE next[n]]
        /\ prev' = [n \in Node |-> IF n \in met THEN next[n] ELSE prev[n]]
     /\ head' = Forward[Len(Forward)]
     /\ UNCHANGED <<used, data, tail, len, dOk>>

(* spif_dlinked_list_set() *)
DlSet(k, v) ==
  LET i == FirstWith(Contents, k) IN
  IF i > Len(Contents)
    THEN DlInsert(<<k, v>>)
    ELSE /\ \E n \in used : n = Forward[i] /\ data' = [data EXCEPT ![n] = <<k, v>>]
         /\ UNCHANGED <<used, next, prev, head, tail, len, dOk>>

(* spif_dlinked_list_dup(), _vector_dup(), _map_dup(): the client goes on  *)
(* with the copy, whose nodes stand where the originals stood.  prev and   *)
(* tail lag one node behind; the last copy's prev is never set.  The dup   *)
(* method of a NULL datum, and src->next of no node, are read unchecked.   *)
DlDup ==
  IF head = NULL \/ \E i \in 1..Len(Contents) : Contents[i] = Null
    THEN DlUndefined
    ELSE LET last == Len(Forward) IN
         /\ prev' = [n \in Node |->
                       IF \E i \in 2..(last - 1) : n = Forward[i]
                         THEN Forward[(CHOOSE i \in 2..(last - 1) : n = Forward[i]) - 1]
                         ELSE NULL]
         /\ tail' = IF last = 1 THEN NULL ELSE Forward[last - 1]
         /\ UNCHANGED <<used, data, next, head, len, dOk>>

(* No node, and the fields as spif_dlinked_list_init() sets them. *)
DlEmpty ==
  /\ used' = {}
  /\ data' = [n \in Node |-> Null]
  /\ next' = [n \in Node |-> NULL]
  /\ prev' = [n \in Node |-> NULL]
  /\ head' = NULL
  /\ tail' = NULL
  /\ len' = 0

(* spif_dlinked_list_done() *)
DlDone == IF len = 0 THEN UNCHANGED dlinked ELSE DlEmpty /\ UNCHANGED dOk

(* spif_dlinked_list_new(), _vector_new(), _map_new() *)
DlNew == DlEmpty /\ dOk' = TRUE

-----------------------------------------------------------------------------
(* What the reading operations answer. *)

(* spif_dlinked_list_get() *)
DlGet(index) ==
  LET idx == FromEnd(index, len)
  IN IF idx \in 0..(len - 1) /\ NodeAt(idx) # NULL THEN data[NodeAt(idx)] ELSE Null

(* spif_dlinked_list_index() *)
DlIndex(x) ==
  LET i == FirstSame(Contents, x)
  IN IF i > Len(Contents) THEN -1 ELSE i - 1

(* spif_dlinked_list_find() *)
DlFind(x) ==
  LET i == FirstSame(Contents, x)
  IN IF i > Len(Contents) THEN Null ELSE Contents[i]

(* spif_dlinked_list_vector_find(), _map_get() *)
DlSearch(k) ==
  LET i == FirstFrom(Contents, k)
  IN IF i > Len(Contents) \/ Contents[i][1] > k THEN Null ELSE Contents[i]

DlMapGet(k) == DlSearch(k)[2]

(* spif_dlinked_list_has_value(), _get_keys(), _get_values() *)
DlHasValue(v) == \E i \in 1..Len(Contents) : Contents[i][2] = v
DlKeys   == [i \in 1..Len(Contents) |-> Contents[i][1]]
DlValues == [i \in 1..Len(Contents) |-> Contents[i][2]]

(* spif_dlinked_list_to_array(), which walks for len nodes *)
DlToArray == [i \in 1..len |-> data[Forward[i]]]

(* What spif_dlinked_list_iterator_next() answers while _has_next() holds. *)
DlIterate == Contents
=============================================================================
