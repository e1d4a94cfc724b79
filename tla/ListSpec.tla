------------------------------ MODULE ListSpec ------------------------------
(***************************************************************************)
(* What the list, vector and map interfaces of LibAST (list_if.h,          *)
(* vector_if.h, map_if.h) hold: objects compared by their comp method.  An *)
(* object is a pair of the key it compares by and, in a map, its value;    *)
(* NULL, with which insert_at() pads, is less than any object              *)
(* (SPIF_OBJ_COMP_CHECK_NULL, obj.h).                                      *)
(***************************************************************************)
EXTENDS Integers, Sequences, FiniteSets

CONSTANTS
  Keys,    (* keys of the objects                                          *)
  Values   (* values a map gives them                                      *)

ASSUME ObjectsAssumption == Keys \subseteq Nat \ {0} /\ Values \subseteq Nat \ {0}

Null   == <<0, 0>>
Plain  == Keys \X {0}
Pairs  == Keys \X Values
Objs   == Plain \cup Pairs
Cells  == Objs \cup {Null}

Less(x, y) == x[1] < y[1]
Same(x, y) == x[1] = y[1]

Ascending(s) == \A i, j \in 1..Len(s) : i < j => ~Less(s[j], s[i])

(* Where a loop over s ends that stops at these positions: at the first of *)
(* them, or behind the last cell when there is none.                       *)
Scan(s, stops) ==
  CHOOSE i \in stops \cup {Len(s) + 1} : \A j \in stops \cup {Len(s) + 1} : i <= j

(* The first cell that is not smaller than x, that is equal to it, that has *)
(* the key k, and that has no smaller key.                                  *)
PlaceFor(s, x) == Scan(s, {i \in 1..Len(s) : ~Less(s[i], x)})
FirstSame(s, x) == Scan(s, {i \in 1..Len(s) : Same(x, s[i])})
FirstWith(s, k) == Scan(s, {i \in 1..Len(s) : s[i][1] = k})
FirstFrom(s, k) == Scan(s, {i \in 1..Len(s) : s[i][1] >= k})

Splice(s, i, x) == SubSeq(s, 1, i - 1) \o <<x>> \o SubSeq(s, i, Len(s))
Without(s, i)   == SubSeq(s, 1, i - 1) \o SubSeq(s, i + 1, Len(s))
Backwards(s)    == [i \in 1..Len(s) |-> s[Len(s) + 1 - i]]
Nulls(n)        == [i \in 1..n |-> Null]

(* "Negative indexes go backward from the end of the list." *)
FromEnd(idx, len) == IF idx < 0 THEN idx + len ELSE idx
=============================================================================
