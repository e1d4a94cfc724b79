----------------------------- MODULE SpifArray ------------------------------
(***************************************************************************)
(* src/src/array.c: the list, vector and map of one reallocated array.     *)
(* items is the array, arrOk turns FALSE when an element outside of it is  *)
(* written.  Objects handed over are not NULL, so the refusals of NULL do  *)
(* not show.                                                               *)
(***************************************************************************)
EXTENDS ListSpec

VARIABLES items, arrOk

array == <<items, arrOk>>

ArrayInit == items = <<>> /\ arrOk = TRUE

(* spif_array_append(), spif_array_prepend() *)
ArrayAppend(x)  == items' = Append(items, x) /\ UNCHANGED arrOk
ArrayPrepend(x) == items' = <<x>> \o items /\ UNCHANGED arrOk

(* spif_array_insert(): in front of the first element that is not smaller. *)
ArrayInsert(x) ==
  /\ items' = Splice(items, PlaceFor(items, x), x)
  /\ UNCHANGED arrOk

(* spif_array_insert_at(): -1, after counting from the end, passes the     *)
(* check (idx + 1) >= 0 and names the element in front of the array.       *)
ArrayInsertAt(x, index) ==
  LET idx == FromEnd(index, Len(items)) IN
  \/ /\ idx + 1 < 0
     /\ UNCHANGED array
  \/ /\ idx + 1 = 0
     /\ arrOk' = FALSE
     /\ UNCHANGED items
  \/ /\ idx \in 0..Len(items)
     /\ items' = Splice(items, idx + 1, x)
     /\ UNCHANGED arrOk
  \/ /\ idx > Len(items)
     /\ items' = items \o Nulls(idx - Len(items)) \o <<x>>
     /\ UNCHANGED arrOk

(* Mutant: the tail is moved down from the element removed. *)
ArrayTakeOff(i) ==
  /\ items' = IF i <= Len(items) - 1 THEN Without(items, i + 1) ELSE Without(items, i)
  /\ UNCHANGED arrOk

(* The memmove() and REALLOC() of the three removals. *)
ArrayTake(i) ==
  /\ items' = Without(items, i)
  /\ UNCHANGED arrOk

(* spif_array_remove(), spif_array_map_remove() *)
ArrayRemove(x) ==
  LET i == FirstSame(items, x)
  IN IF i > Len(items) THEN UNCHANGED array ELSE ArrayTake(i)

ArrayMapRemove(k) ==
  LET i == FirstWith(items, k)
  IN IF i > Len(items) THEN UNCHANGED array ELSE ArrayTake(i)

(* spif_array_remove_at() *)
ArrayRemoveAt(index) ==
  LET idx == FromEnd(index, Len(items))
  IN IF idx \in 0..(Len(items) - 1) THEN ArrayTake(idx + 1) ELSE UNCHANGED array

(* spif_array_reverse(): two indexes swap their elements until they meet. *)
ArrayReverse == items' = Backwards(items) /\ UNCHANGED arrOk

(* Mutant: a new pair goes to the end. *)
ArraySetAppends(k, v) ==
  LET i == FirstWith(items, k)
  IN IF i > Len(items)
       THEN ArrayAppend(<<k, v>>)
       ELSE items' = [items EXCEPT ![i] = <<k, v>>] /\ UNCHANGED arrOk

(* spif_array_set(): a linear search, then a new pair in its order or a new *)
(* value in place.                                                         *)
ArraySet(k, v) ==
  LET i == FirstWith(items, k)
  IN IF i > Len(items)
       THEN ArrayInsert(<<k, v>>)
       ELSE items' = [items EXCEPT ![i] = <<k, v>>] /\ UNCHANGED arrOk

(* spif_array_list_dup(), _vector_dup(), _map_dup(): the client goes on    *)
(* with the copy.  The dup method of a NULL element is called without a    *)
(* check.                                                                  *)
ArrayDup ==
  /\ arrOk' = (\A i \in 1..Len(items) : items[i] # Null)
  /\ UNCHANGED items

(* spif_array_done() *)
ArrayDone == items' = <<>> /\ UNCHANGED arrOk

(* spif_array_list_new(), _vector_new(), _map_new() *)
ArrayNew == items' = <<>> /\ arrOk' = TRUE

-----------------------------------------------------------------------------
(* What the reading operations answer. *)

(* spif_array_get() *)
ArrayGet(index) ==
  LET idx == FromEnd(index, Len(items))
  IN IF idx \in 0..(Len(items) - 1) THEN items[idx + 1] ELSE Null

(* spif_array_index() *)
ArrayIndex(x) ==
  LET i == FirstSame(items, x)
  IN IF i > Len(items) THEN -1 ELSE i - 1

(* spif_array_list_find(), which skips NULL elements. *)
ArrayFind(x) ==
  LET i == Scan(items, {i \in 1..Len(items) : items[i] # Null /\ Same(x, items[i])})
  IN IF i > Len(items) THEN Null ELSE items[i]

(* Mutant: the search goes on from mid, without the element at the end. *)
ArraySearchShort(k) ==
  LET find[r \in (0..Len(items)) \X (-1..(Len(items) - 1))] ==
        LET mid == (r[2] - r[1]) \div 2 + r[1]
            y   == items[mid + 1]
        IN CASE r[1] >= r[2] -> Null
             [] r[1] < r[2] /\ y[1] = k -> y
             [] r[1] < r[2] /\ y[1] < k -> find[<<mid + 1, r[2]>>]
             [] OTHER -> find[<<r[1], mid - 1>>]
  IN find[<<0, Len(items) - 1>>]

(* The binary search of spif_array_vector_find() and spif_array_map_get(): *)
(* r is <<start, end>>.                                                    *)
ArraySearch(k) ==
  LET find[r \in (0..Len(items)) \X (-1..(Len(items) - 1))] ==
        LET mid == (r[2] - r[1]) \div 2 + r[1]
            y   == items[mid + 1]
        IN CASE r[1] > r[2] -> Null
             [] r[1] <= r[2] /\ y[1] = k -> y
             [] r[1] <= r[2] /\ y[1] < k -> find[<<mid + 1, r[2]>>]
             [] OTHER -> find[<<r[1], mid - 1>>]
  IN find[<<0, Len(items) - 1>>]

ArrayMapGet(k) == ArraySearch(k)[2]

(* spif_array_has_value() *)
ArrayHasValue(v) == \E i \in 1..Len(items) : items[i][2] = v

(* spif_array_get_keys(), _get_values() *)
ArrayKeys   == [i \in 1..Len(items) |-> items[i][1]]
ArrayValues == [i \in 1..Len(items) |-> items[i][2]]

(* spif_array_to_array() *)
ArrayToArray == [i \in 1..Len(items) |-> items[i]]

(* What spif_array_iterator_next() answers while _has_next() holds: the    *)
(* iterator is an index.                                                   *)
ArrayIterate == [i \in 1..Len(items) |-> ArrayGet(i - 1)]
=============================================================================
