----------------------------- MODULE LinkedList -----------------------------
(***************************************************************************)
(* src/src/linked_list.c: the list, vector and map of singly linked nodes. *)
(* Every node is reached from head alone, so chain, the data from head to  *)
(* the last node, is the whole of them; llen is self->len.  lnkOk turns    *)
(* FALSE when a NULL or uninitialised node pointer is used.                *)
(***************************************************************************)
EXTENDS ListSpec

VARIABLES chain, llen, lnkOk

linked == <<chain, llen, lnkOk>>

LnkInit == chain = <<>> /\ llen = 0 /\ lnkOk = TRUE

LnkUndefined == lnkOk' = FALSE /\ UNCHANGED <<chain, llen>>

(* A node with x is linked in as the i-th. *)
LnkLinkIn(i, x) ==
  /\ chain' = Splice(chain, i, x)
  /\ llen' = llen + 1
  /\ UNCHANGED lnkOk

(* The i-th node is unlinked and deleted. *)
LnkTakeOut(i) ==
  /\ chain' = Without(chain, i)
  /\ llen' = llen - 1
  /\ UNCHANGED lnkOk

(* spif_linked_list_append(), _prepend() *)
LnkAppend(x)  == LnkLinkIn(Len(chain) + 1, x)
LnkPrepend(x) == LnkLinkIn(1, x)

(* spif_linked_list_insert(): the first node is compared once, for a       *)
(* smaller object; after that the walk looks at current->next.             *)
LnkInsert(x) ==
  IF chain = <<>> \/ Less(x, chain[1])
    THEN LnkLinkIn(1, x)
    ELSE LnkLinkIn(1 + PlaceFor(Tail(chain), x), x)

(* spif_linked_list_insert_at(): the walk stands on the first node when    *)
(* idx is -1, and pads once the chain has ended.                           *)
LnkInsertAt(x, index) ==
  LET idx == FromEnd(index, llen) IN
  \/ /\ idx + 1 < 0
     /\ UNCHANGED linked
  \/ /\ idx + 1 >= 0
     /\ idx = 0 \/ chain = <<>>
     /\ LnkPrepend(x)
  \/ /\ idx = -1
     /\ chain # <<>>
     /\ LnkLinkIn(2, x)
  \/ /\ idx > 0
     /\ chain # <<>>
     /\ LET pad == IF idx > Len(chain) THEN idx - Len(chain) ELSE 0 IN
        /\ chain' = Splice(chain \o Nulls(pad), idx + 1, x)
        /\ llen' = llen + pad + 1
     /\ UNCHANGED lnkOk

(* spif_linked_list_remove(), _map_remove() *)
LnkRemove(x) ==
  LET i == FirstSame(chain, x)
  IN IF i > Len(chain) THEN UNCHANGED linked ELSE LnkTakeOut(i)

LnkMapRemove(k) ==
  LET i == FirstWith(chain, k)
  IN IF i > Len(chain) THEN UNCHANGED linked ELSE LnkTakeOut(i)

(* Mutant: an index of len passes. *)
LnkRemoveAtLen(index) ==
  LET idx == FromEnd(index, llen)
  IN IF idx \in 0..llen THEN LnkTakeOut(idx + 1) ELSE UNCHANGED linked

(* spif_linked_list_remove_at() *)
LnkRemoveAt(index) ==
  LET idx == FromEnd(index, llen)
  IN IF idx \in 0..(llen - 1) /\ idx < Len(chain)
       THEN LnkTakeOut(idx + 1)
       ELSE UNCHANGED linked

(* spif_linked_list_reverse(): head becomes the node turned last, which is *)
(* an uninitialised variable when there was none.                          *)
LnkReverse ==
  IF chain = <<>>
    THEN LnkUndefined
    ELSE chain' = Backwards(chain) /\ UNCHANGED <<llen, lnkOk>>

(* spif_linked_list_set() *)
LnkSet(k, v) ==
  LET i == FirstWith(chain, k)
  IN IF i > Len(chain)
       THEN LnkInsert(<<k, v>>)
       ELSE chain' = [chain EXCEPT ![i] = <<k, v>>] /\ UNCHANGED <<llen, lnkOk>>

(* spif_linked_list_dup(), _vector_dup(), _map_dup(): the client goes on   *)
(* with the copy.  The walk reads src->next of the first node.             *)
LnkDup == IF chain = <<>> THEN LnkUndefined ELSE UNCHANGED linked

(* spif_linked_list_done() *)
LnkDone ==
  /\ IF llen # 0 THEN chain' = <<>> /\ llen' = 0 ELSE UNCHANGED <<chain, llen>>
  /\ UNCHANGED lnkOk

(* spif_linked_list_new(), _vector_new(), _map_new() *)
LnkNew == chain' = <<>> /\ llen' = 0 /\ lnkOk' = TRUE

-----------------------------------------------------------------------------
(* What the reading operations answer. *)

(* spif_linked_list_get() *)
LnkGet(index) ==
  LET idx == FromEnd(index, llen)
  IN IF idx \in 0..(llen - 1) /\ idx < Len(chain) THEN chain[idx + 1] ELSE Null

(* spif_linked_list_index() *)
LnkIndex(x) ==
  LET i == FirstSame(chain, x)
  IN IF i > Len(chain) THEN -1 ELSE i - 1

(* spif_linked_list_find() *)
LnkFind(x) ==
  LET i == FirstSame(chain, x)
  IN IF i > Len(chain) THEN Null ELSE chain[i]

(* spif_linked_list_vector_find(), _map_get(): the walk gives up at the    *)
(* first object that is greater.                                           *)
LnkSearch(k) ==
  LET i == FirstFrom(chain, k)
  IN IF i > Len(chain) \/ chain[i][1] > k THEN Null ELSE chain[i]

LnkMapGet(k) == LnkSearch(k)[2]

(* spif_linked_list_has_value(), _get_keys(), _get_values() *)
LnkHasValue(v) == \E i \in 1..Len(chain) : chain[i][2] = v
LnkKeys   == [i \in 1..Len(chain) |-> chain[i][1]]
LnkValues == [i \in 1..Len(chain) |-> chain[i][2]]

(* spif_linked_list_to_array(), which walks for llen nodes *)
LnkToArray == [i \in 1..llen |-> chain[i]]

(* What spif_linked_list_iterator_next() answers while _has_next() holds. *)
LnkIterate == [i \in 1..Len(chain) |-> chain[i]]
=============================================================================
