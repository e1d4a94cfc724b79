------------------------------ MODULE Version ------------------------------
(***************************************************************************)
(* spiftool_version_compare() of strings.c.  A version is the sequence of  *)
(* its runs: of digits (a number without leading zeros), of letters (a     *)
(* word, in lower case) or of other characters (a mark).  A run has fewer  *)
(* than 128 characters: the call copies it to a buffer of that size and    *)
(* looks for no end of it.                                                 *)
(***************************************************************************)
EXTENDS Integers, Sequences

CONSTANTS Versions        \* the versions that are compared

VARIABLE compared         \* the last three versions somebody compared

VLess == -1
VEqual == 0
VGreater == 1
Sign(n) == IF n < 0 THEN VLess ELSE IF n > 0 THEN VGreater ELSE VEqual

(* A run has a class, its rank within the class, and whether it begins like *)
(* snap, pre, alpha or beta.  Numbers rank by value and marks by their text; *)
(* words rank 1 to 5 if they are snap, pre, alpha, beta or rc, and from 6 on *)
(* otherwise, by their text.                                                 *)
Number(n) == [class |-> "digit", rank |-> n, early |-> FALSE]
Mark(n) == [class |-> "mark", rank |-> n, early |-> FALSE]
Special(n) == [class |-> "letter", rank |-> n, early |-> n < 5]
OtherWord(n, early) == [class |-> "letter", rank |-> n, early |-> early]

Run == [class : {"digit", "letter", "mark"}, rank : Nat, early : BOOLEAN]

(* Runs of one class and one rank are the same text. *)
ASSUME VersionAssumption ==
  /\ Versions \subseteq Seq(Run)
  /\ \A v, w \in Versions : \A i \in 1..Len(v), j \in 1..Len(w) :
       v[i].class = w[j].class /\ v[i].rank = w[j].rank => v[i] = w[j]

(* Mutant: the longer one is the later one. *)
LongerIsLater(r) == VGreater

(* One of the versions has ended and the other goes on with r. *)
Longer(r) == IF r.early THEN VLess ELSE VGreater

(* The place of the first runs that differ, or the first behind the shorter. *)
Place(v, w) ==
  LET apart == {k \in 1..Len(v) : k > Len(w) \/ v[k] # w[k]} \cup {Len(v) + 1}
  IN CHOOSE k \in apart : \A j \in apart : k <= j
Differ(v, w) == Place(v, w) <= Len(v) /\ Place(v, w) <= Len(w)

(* What the call may answer.  When a number, say, meets a word, it compares *)
(* the buffers of the runs before instead of these two, which are equal, or *)
(* have no value yet if there are none before.                              *)
Answers(v, w) ==
  LET k == Place(v, w)
  IN IF ~Differ(v, w)
     THEN {IF k <= Len(v) THEN Longer(v[k]) ELSE IF k <= Len(w) THEN -Longer(w[k]) ELSE VEqual}
     ELSE IF v[k].class = w[k].class THEN {Sign(v[k].rank - w[k].rank)}
     ELSE IF k > 1 THEN {VEqual} ELSE {VLess, VEqual, VGreater}

-----------------------------------------------------------------------------
VersionInit == compared = << <<>>, <<>>, <<>> >>
CompareNext == \E v \in Versions : compared' = Append(Tail(compared), v)
VersionSpec == VersionInit /\ [][CompareNext]_compared

(* The first runs that differ are of two kinds: 1.0.1 and 1.0pre2. *)
Mismatched(v, w) ==
  Differ(v, w) /\ v[Place(v, w)].class # w[Place(v, w)].class

(* One version ends where two others go on, one of them with a word that    *)
(* counts as earlier than the end and comes behind the other, which counts  *)
(* as later: 1.0, 1.0fix and 1.0prefix.                                     *)
Forked ==
  \E a, b, c \in 1..3 :
    LET n == Len(compared[a])
        Goes(k) == Len(compared[k]) > n /\ SubSeq(compared[k], 1, n) = compared[a]
    IN /\ Goes(b) /\ Goes(c)
       /\ compared[b][n + 1].early /\ ~compared[c][n + 1].early
       /\ compared[b][n + 1].rank > compared[c][n + 1].rank

AtMost(i, j) == VGreater \notin Answers(compared[i], compared[j])

(* Version comparison is an order that a sort may rely on, the same seen    *)
(* from either side, as long as runs of one kind meet: exactly the forked   *)
(* triples go round in a circle.  Where runs of two kinds meet, different   *)
(* versions are not told apart.                                             *)
VersionsOrdered ==
  /\ \A i, j \in 1..3 :
       LET v == compared[i]
           w == compared[j]
       IN /\ VEqual \in Answers(v, w) <=> (v = w \/ Mismatched(v, w))
          /\ \A a \in Answers(v, w) : -a \in Answers(w, v)
  /\ (\A i, j \in 1..3 : ~Mismatched(compared[i], compared[j])) =>
       ((\E i, j, k \in 1..3 : AtMost(i, j) /\ AtMost(j, k) /\ ~AtMost(i, k)) <=> Forked)
=============================================================================
