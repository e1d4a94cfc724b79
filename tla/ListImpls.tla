----------------------------- MODULE ListImpls ------------------------------
(***************************************************************************)
(* The three classes behind one interface: a client that makes the same    *)
(* calls on an array, a linked_list and a dlinked_list, as src/src/test.c  *)
(* does with its list, vector and map tests.                               *)
(*                                                                         *)
(* iface is the interface used.  Each call names the classes that part on  *)
(* it, in parted: those whose answer or links the call leaves different    *)
(* from the others' (README.md says how).  After such a call the client    *)
(* takes new lists.  crooked says that the dlinked_list has been reversed, *)
(* copied or had a map node removed, none of which looks after all links.  *)
(***************************************************************************)
EXTENDS SpifArray, LinkedList, DLinkedList

CONSTANTS
  MaxLen,   (* most objects in a list                                      *)
  Far       (* the indexes of insert_at(), get() and remove_at(): -Far..Far *)

VARIABLES iface, parted, crooked

vars == <<array, linked, dlinked, iface, parted, crooked>>

Classes == {"array", "linked", "dlinked"}
Ifaces  == {"list", "vector", "map"}
Indexes == (-Far)..Far

Init ==
  /\ ArrayInit /\ LnkInit /\ DlInit
  /\ iface \in Ifaces
  /\ parted = {}
  /\ crooked = FALSE

(* The tail of the dlinked_list is not its last node. *)
Stale == head # NULL /\ tail # Forward[Len(Forward)]

Upper(idx) == idx > Len(items) \div 2

(* A call of the interfaces in ifaces that adds n objects at most. *)
Call(ifaces, n) ==
  /\ parted = {}
  /\ iface \in ifaces
  /\ Len(items) + n <= MaxLen
  /\ UNCHANGED iface

Part(class, when) == IF when THEN {class} ELSE {}

DoAppend(x) ==
  /\ Call({"list"}, 1)
  /\ ArrayAppend(x) /\ LnkAppend(x) /\ DlAppend(x)
  /\ parted' = Part("dlinked", Stale)
  /\ UNCHANGED crooked

DoPrepend(x) ==
  /\ Call({"list"}, 1)
  /\ ArrayPrepend(x) /\ LnkPrepend(x) /\ DlPrepend(x)
  /\ parted' = {}
  /\ UNCHANGED crooked

(* An unsorted list: the linked classes compare the first node, the        *)
(* dlinked_list also the tail, out of turn.                                *)
PassesEqualHead(x) ==
  /\ Len(items) > 1
  /\ Same(x, items[1])
  /\ Less(items[2], x)

DlInsertParts(x) ==
  /\ items # <<>>
  /\ ~Less(x, items[1])
  /\ \/ tail \notin used
     \/ /\ Less(data[tail], x)
        /\ Stale \/ \E i \in 1..Len(items) : ~Less(items[i], x)
     \/ /\ ~Less(data[tail], x)
        /\ \/ \A i \in 2..Len(items) : Less(items[i], x)
           \/ PassesEqualHead(x)

DoInsert(x) ==
  /\ Call({"list", "vector"}, 1)
  /\ ArrayInsert(x) /\ LnkInsert(x) /\ DlInsert(x)
  /\ parted' = Part("linked", PassesEqualHead(x)) \cup Part("dlinked", DlInsertParts(x))
  /\ UNCHANGED crooked

DlInsertAtParts(x, idx) ==
  LET n == Len(items) IN
  \/ n = 0 /\ idx > 0
  \/ n > 0 /\ idx = n
  \/ n > 0 /\ idx > n /\ Stale
  \/ /\ idx \in 1..(n - 1)
     /\ \/ tail = NULL
        \/ Upper(idx) \/ idx = n - 1
     /\ Stale \/ items[idx + 1] # x

DoInsertAt(x, index) ==
  LET idx == FromEnd(index, Len(items)) IN
  /\ Call({"list"}, 1 + IF idx > Len(items) THEN idx - Len(items) ELSE 0)
  /\ ArrayInsertAt(x, index) /\ LnkInsertAt(x, index) /\ DlInsertAt(x, index)
  /\ parted' = Part("array", idx = -1)
                 \cup Part("linked", idx = -1 \/ (items = <<>> /\ idx > 0))
                 \cup Part("dlinked", DlInsertAtParts(x, idx))
  /\ UNCHANGED crooked

DoRemove(x) ==
  /\ Call({"list", "vector"}, 0)
  /\ ArrayRemove(x) /\ LnkRemove(x) /\ DlRemove(x)
  /\ parted' = {}
  /\ UNCHANGED crooked

DoRemoveAt(index) ==
  LET idx == FromEnd(index, Len(items)) IN
  /\ Call({"list"}, 0)
  /\ ArrayRemoveAt(index) /\ LnkRemoveAt(index) /\ DlRemoveAt(index)
  /\ parted' = Part("dlinked", idx \in 0..(Len(items) - 1) /\ Upper(idx) /\ Stale)
  /\ UNCHANGED crooked

DoReverse ==
  /\ Call({"list"}, 0)
  /\ ArrayReverse /\ LnkReverse /\ DlReverse
  /\ parted' = IF items = <<>> THEN {"linked", "dlinked"} ELSE {}
  /\ crooked' = (crooked \/ head # NULL)

DoSet(k, v) ==
  /\ Call({"map"}, 1)
  /\ ArraySet(k, v) /\ LnkSet(k, v) /\ DlSet(k, v)
  /\ parted' = Part("dlinked", (\A i \in 1..Len(items) : items[i][1] # k)
                                 /\ DlInsertParts(<<k, v>>))
  /\ UNCHANGED crooked

DoMapRemove(k) ==
  /\ Call({"map"}, 0)
  /\ ArrayMapRemove(k) /\ LnkMapRemove(k) /\ DlMapRemove(k)
  /\ parted' = {}
  /\ crooked' = (crooked \/ used' # used)

(* The copies take the place of the originals. *)
DoDup ==
  /\ Call(Ifaces, 0)
  /\ ArrayDup /\ LnkDup /\ DlDup
  /\ parted' = {"dlinked"}
                 \cup Part("linked", items = <<>>)
                 \cup Part("array", \E i \in 1..Len(items) : items[i] = Null)
  /\ crooked' = (crooked \/ head # NULL)

DoDone ==
  /\ Call(Ifaces, 0)
  /\ ArrayDone /\ LnkDone /\ DlDone
  /\ parted' = {}
  /\ crooked' = (crooked /\ len = 0)

(* The client gives up lists that have parted and makes new ones.          *)
NewLists ==
  /\ parted # {}
  /\ ArrayNew /\ LnkNew /\ DlNew
  /\ parted' = {}
  /\ crooked' = FALSE
  /\ UNCHANGED iface

Next ==
  \/ \E x \in Plain : DoAppend(x)
  \/ \E x \in Plain : DoPrepend(x)
  \/ \E x \in Plain : DoInsert(x)
  \/ \E x \in Plain, index \in Indexes : DoInsertAt(x, index)
  \/ \E x \in Plain : DoRemove(x)
  \/ \E index \in Indexes : DoRemoveAt(index)
  \/ DoReverse
  \/ \E k \in Keys, v \in Values : DoSet(k, v)
  \/ \E k \in Keys : DoMapRemove(k)
  \/ DoDup
  \/ DoDone
  \/ NewLists

Spec == Init /\ [][Next]_vars
-----------------------------------------------------------------------------
Holds(class) == CASE class = "array"   -> items
                  [] class = "linked"  -> chain
                  [] class = "dlinked" -> Contents

Counts(class) == CASE class = "array"   -> Len(items)
                   [] class = "linked"  -> llen
                   [] class = "dlinked" -> len

Sound(class) == CASE class = "array"   -> arrOk
                  [] class = "linked"  -> lnkOk
                  [] class = "dlinked" -> dOk

Agreeing == Classes \ parted

TypeOK ==
  /\ items \in Seq(Cells) /\ arrOk \in BOOLEAN
  /\ chain \in Seq(Cells) /\ llen \in Nat /\ lnkOk \in BOOLEAN
  /\ used \subseteq Node
  /\ data \in [Node -> Cells]
  /\ next \in [Node -> Node \cup {NULL}]
  /\ prev \in [Node -> Node \cup {NULL}]
  /\ head \in Node \cup {NULL} /\ tail \in Node \cup {NULL}
  /\ len \in Nat /\ dOk \in BOOLEAN
  /\ iface \in Ifaces
  /\ parted \subseteq Classes
  /\ crooked \in BOOLEAN

(* The links of a dlinked_list, node by node: next and prev undo each      *)
(* other, only the first node has no prev and only the last no next, and   *)
(* head and tail are those two.                                            *)
LocalLinks ==
  /\ \A n \in used : next[n] \in used \cup {NULL} /\ prev[n] \in used \cup {NULL}
  /\ \A n \in used : next[n] # NULL => prev[next[n]] = n
  /\ \A n \in used : prev[n] # NULL => next[prev[n]] = n
  /\ \A n \in used : prev[n] = NULL <=> n = head
  /\ \A n \in used : next[n] = NULL <=> n = tail
  /\ head \in used \cup {NULL} /\ tail \in used \cup {NULL}
  /\ head = NULL <=> tail = NULL

(* The class holds something else than another class, has used a pointer   *)
(* it may not use, or has wrong links.                                     *)
ReallyParts(c) ==
  \/ ~Sound(c)
  \/ \E d \in Classes : Holds(c) # Holds(d)
  \/ c = "dlinked" /\ ~LocalLinks

(* However long a client has worked through one interface, the classes     *)
(* that have not parted hold the same objects in the same order and count  *)
(* them right, none of them has used a pointer it may not use and no node  *)
(* is lost, as test.c expects of the three; and those said to part do.     *)
SameContents ==
  /\ \A c, d \in Agreeing :
       /\ Holds(c) = Holds(d)
       /\ Counts(c) = Len(Holds(c))
       /\ Sound(c)
       /\ c = "dlinked" => Cardinality(used) = len
  /\ \A c \in parted : ReallyParts(c)

(* Up to the first reverse(), dup() or map removal no sequence of calls,   *)
(* parted or not, leaves a dlinked_list with a wrong link.                 *)
Linked == ~crooked => LocalLinks

(* A vector and a map are sorted, whatever the calls, and a map has one    *)
(* pair for a key: the binary searches of array.c and the early ends of    *)
(* the other two rest on it.                                               *)
Sorted ==
  iface # "list" =>
    \A c \in Agreeing :
      /\ Ascending(Holds(c))
      /\ iface = "map" => \A i, j \in 1..Len(Holds(c)) :
                            Holds(c)[i][1] = Holds(c)[j][1] => i = j

(* What the classes that agree answer to a reading call is the same: the   *)
(* index from either end, the linear and the binary searches, the keys,    *)
(* the values and the iterators.                                           *)
ReadsAgree ==
  LET Same3(a, l, d) == Cardinality(Part(a, "array" \in Agreeing)
                                      \cup Part(l, "linked" \in Agreeing)
                                      \cup Part(d, "dlinked" \in Agreeing)) < 2
  IN /\ Same3(ArrayToArray, LnkToArray, DlToArray)
     /\ Same3(ArrayIterate, LnkIterate, DlIterate)
     /\ iface = "list" =>
          /\ \A x \in Plain : Same3(ArrayIndex(x), LnkIndex(x), DlIndex(x))
          /\ \A x \in Plain : Same3(ArrayFind(x), LnkFind(x), DlFind(x))
          /\ \A index \in Indexes :
               /\ ArrayGet(index) = LnkGet(index) \/ {"array", "linked"} \cap parted # {}
               /\ Stale \/ Same3(ArrayGet(index), LnkGet(index), DlGet(index))
     /\ iface = "vector" =>
          \A k \in Keys : Same3(ArraySearch(k), LnkSearch(k), DlSearch(k))
     /\ iface = "map" =>
          /\ \A k \in Keys : Same3(ArrayMapGet(k), LnkMapGet(k), DlMapGet(k))
          /\ \A v \in Values : Same3(ArrayHasValue(v), LnkHasValue(v), DlHasValue(v))
          /\ Same3(ArrayKeys, LnkKeys, DlKeys)
          /\ Same3(ArrayValues, LnkValues, DlValues)
=============================================================================
