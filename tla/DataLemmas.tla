----------------------------- MODULE DataLemmas -----------------------------
(* Facts about sequences and numbers that the other proofs need.           *)
EXTENDS Integers, Sequences, SequencesExt, SequenceTheorems, WellFoundedInduction, TLAPS

(* The smallest of some natural numbers.                                   *)
LEMMA SmallestExists ==
  ASSUME NEW T \in SUBSET Nat, T # {}
  PROVE  \E x \in T : \A y \in T : x <= y
<1> DEFINE R == {p \in Nat \X Nat : p[1] < p[2]}
<1>1. IsWellFoundedOn(R, Nat)
  BY NatLessThanWellFounded DEF OpToRel
<1>2. PICK x \in T : \A y \in T : ~(<<y, x>> \in R)
  <2> HIDE DEF R
  <2> QED BY <1>1, WFMin
<1>3. \A y \in T : ~(y < x)
  BY <1>2
<1> QED BY <1>3

(* The new element comes last.                                             *)
LEMMA AppendElements ==
  ASSUME NEW S, NEW s \in Seq(S), NEW e \in S
  PROVE  Append(s, e) = [i \in 1..(Len(s) + 1) |-> IF i <= Len(s) THEN s[i] ELSE e]
<1>1. Append(s, e) \in Seq(S) /\ Len(Append(s, e)) = Len(s) + 1
  OBVIOUS
<1> DEFINE t == Append(s, e)
<1> HIDE DEF t
<1>2. t = [i \in 1..(Len(s) + 1) |-> t[i]]
  BY <1>1, LenProperties DEF t
<1>3. ASSUME NEW i \in 1..(Len(s) + 1)
      PROVE  Append(s, e)[i] = IF i <= Len(s) THEN s[i] ELSE e
  OBVIOUS
<1> QED BY <1>2, <1>3 DEF t

(* The i-th element leaves: those above it move down by one.               *)
LEMMA RemoveAtElements ==
  ASSUME NEW S, NEW s \in Seq(S), NEW i \in 1..Len(s)
  PROVE  /\ RemoveAt(s, i) \in Seq(S)
         /\ Len(RemoveAt(s, i)) = Len(s) - 1
         /\ \A j \in 1..(Len(s) - 1) :
              RemoveAt(s, i)[j] = IF j < i THEN s[j] ELSE s[j + 1]
<1> DEFINE below == SubSeq(s, 1, i - 1)
           above == SubSeq(s, i + 1, Len(s))
<1>1. below \in Seq(S) /\ Len(below) = i - 1 /\ \A j \in 1..(i - 1) : below[j] = s[j]
  OBVIOUS
<1>2. above \in Seq(S) /\ Len(above) = Len(s) - i /\ \A j \in 1..(Len(s) - i) : above[j] = s[i + j]
  OBVIOUS
<1>3. RemoveAt(s, i) = below \o above
  BY DEF RemoveAt
<1> HIDE DEF below, above
<1>4. below \o above \in Seq(S)
  BY <1>1, <1>2, ConcatProperties
<1>5. Len(below \o above) = Len(s) - 1
  <2>1. Len(below \o above) = Len(below) + Len(above)
    BY <1>1, <1>2, ConcatProperties
  <2> QED BY <1>1, <1>2, <2>1
<1>6. ASSUME NEW j \in 1..(Len(s) - 1)
      PROVE  (below \o above)[j] = IF j < i THEN s[j] ELSE s[j + 1]
  <2>1. (below \o above)[j] = IF j <= Len(below) THEN below[j] ELSE above[j - Len(below)]
    BY <1>1, <1>2, ConcatProperties
  <2>2. CASE j < i
    <3>1. (below \o above)[j] = below[j]
      BY <1>1, <2>1, <2>2
    <3> QED BY <1>1, <2>2, <3>1
  <2>3. CASE ~(j < i)
    <3>1. (below \o above)[j] = above[j - (i - 1)]
      BY <1>1, <2>1, <2>3
    <3>2. j - (i - 1) \in 1..(Len(s) - i)
      BY <2>3
    <3>3. i + (j - (i - 1)) = j + 1
      OBVIOUS
    <3> QED BY <1>2, <2>3, <3>1, <3>2, <3>3
  <2> QED BY <2>2, <2>3
<1> QED BY <1>3, <1>4, <1>5, <1>6

(* An element comes in as the k-th: those from there on move up by one.    *)
LEMMA InsertAtElements ==
  ASSUME NEW S, NEW s \in Seq(S), NEW k \in 1..(Len(s) + 1), NEW e \in S
  PROVE  /\ InsertAt(s, k, e) \in Seq(S)
         /\ Len(InsertAt(s, k, e)) = Len(s) + 1
         /\ \A j \in 1..(Len(s) + 1) :
              InsertAt(s, k, e)[j] = IF j < k THEN s[j] ELSE IF j = k THEN e ELSE s[j - 1]
<1> DEFINE below == SubSeq(s, 1, k - 1)
           upto == below \o <<e>>
           above == SubSeq(s, k, Len(s))
<1>0. Len(s) \in Nat /\ k \in Nat
  OBVIOUS
<1>1. below \in Seq(S) /\ Len(below) = k - 1 /\ \A j \in 1..(k - 1) : below[j] = s[j]
  OBVIOUS
<1>2. above \in Seq(S) /\ Len(above) = Len(s) + 1 - k
      /\ \A j \in 1..(Len(s) + 1 - k) : above[j] = s[k + j - 1]
  OBVIOUS
<1>3. InsertAt(s, k, e) = upto \o above
  BY DEF InsertAt
<1>4. upto \in Seq(S) /\ Len(upto) = k /\ upto[k] = e /\ \A j \in 1..(k - 1) : upto[j] = s[j]
  <2>1. <<e>> \in Seq(S) /\ Len(<<e>>) = 1 /\ <<e>>[1] = e
    OBVIOUS
  <2> DEFINE one == <<e>>
  <2> HIDE DEF below, one
  <2>2. /\ below \o one \in Seq(S) /\ Len(below \o one) = Len(below) + Len(one)
        /\ \A j \in 1..(Len(below) + Len(one)) :
             (below \o one)[j] = IF j <= Len(below) THEN below[j] ELSE one[j - Len(below)]
    BY <1>1, <2>1, ConcatProperties DEF one
  <2>3. one[1] = e /\ Len(one) = 1
    BY <2>1 DEF one
  <2>4. upto = below \o one
    BY DEF one
  <2> HIDE DEF upto
  <2> QED BY <1>0, <1>1, <2>2, <2>3, <2>4
<1> HIDE DEF below, upto, above
<1>5. /\ upto \o above \in Seq(S) /\ Len(upto \o above) = Len(upto) + Len(above)
      /\ \A j \in 1..(Len(upto) + Len(above)) :
           (upto \o above)[j] = IF j <= Len(upto) THEN upto[j] ELSE above[j - Len(upto)]
  BY <1>2, <1>4, ConcatProperties
<1>6. Len(upto) = k /\ Len(above) = Len(s) + 1 - k /\ Len(upto) + Len(above) = Len(s) + 1
  BY <1>0, <1>2, <1>4
<1>7. ASSUME NEW j \in 1..(Len(s) + 1)
      PROVE  (upto \o above)[j] = IF j < k THEN s[j] ELSE IF j = k THEN e ELSE s[j - 1]
  <2>1. (upto \o above)[j] = IF j <= k THEN upto[j] ELSE above[j - k]
    BY <1>5, <1>6
  <2>2. CASE j <= k
    BY <1>0, <1>4, <2>1, <2>2
  <2>3. CASE ~(j <= k)
    <3>1. j - k \in 1..(Len(s) + 1 - k) /\ k + (j - k) - 1 = j - 1
      BY <1>0, <2>3
    <3> QED BY <1>0, <1>2, <2>1, <2>3, <3>1
  <2> QED BY <2>2, <2>3
<1> QED BY <1>3, <1>5, <1>6, <1>7

(* A sequence without its last element.                                    *)
LEMMA FrontElements ==
  ASSUME NEW S, NEW u \in Seq(S), u # <<>>
  PROVE  /\ Front(u) \in Seq(S) /\ Len(Front(u)) = Len(u) - 1
         /\ \A i \in 1..(Len(u) - 1) : Front(u)[i] = u[i]
<1>0. Len(u) \in Nat /\ Len(u) >= 1
  BY EmptySeq
<1>1. Len(u) \in Nat /\ \A i \in 1..(Len(u) - 1) : u[i] \in S
  OBVIOUS
<1>2. /\ SubSeq(u, 1, Len(u) - 1) \in Seq(S)
      /\ Len(SubSeq(u, 1, Len(u) - 1)) = Len(u) - 1
      /\ \A i \in 1..(Len(u) - 1) : SubSeq(u, 1, Len(u) - 1)[i] = u[i]
  <2> DEFINE l == Len(u) - 1
  <2>1. l \in Int /\ l >= 0 /\ \A i \in 1..l : u[i] \in S
    BY <1>0, <1>1
  <2> HIDE DEF l
  <2>2. /\ SubSeq(u, 1, l) \in Seq(S)
        /\ Len(SubSeq(u, 1, l)) = IF 1 <= l THEN l - 1 + 1 ELSE 0
        /\ \A i \in 1..(l - 1 + 1) : SubSeq(u, 1, l)[i] = u[1 + i - 1]
    BY <2>1, SubSeqProperties
  <2>3. Len(SubSeq(u, 1, l)) = l /\ \A i \in 1..l : SubSeq(u, 1, l)[i] = u[i]
    BY <2>1, <2>2
  <2> QED BY <2>2, <2>3 DEF l
<1> QED BY <1>2 DEF Front

(* Without its last element, s \o t is s and t without its last.           *)
LEMMA FrontOfConcat ==
  ASSUME NEW S, NEW s \in Seq(S), NEW t \in Seq(S), t # <<>>
  PROVE  /\ Front(t) \in Seq(S) /\ Len(Front(t)) = Len(t) - 1
         /\ Front(s \o t) = s \o Front(t)
<1>0. Len(s) \in Nat /\ Len(t) \in Nat /\ Len(t) >= 1
  BY EmptySeq
<1>1. /\ s \o t \in Seq(S) /\ Len(s \o t) = Len(s) + Len(t)
      /\ \A i \in 1..(Len(s) + Len(t)) : (s \o t)[i] = IF i <= Len(s) THEN s[i] ELSE t[i - Len(s)]
  BY ConcatProperties
<1>3. /\ Front(t) \in Seq(S) /\ Len(Front(t)) = Len(t) - 1
      /\ \A i \in 1..(Len(t) - 1) : Front(t)[i] = t[i]
  BY FrontElements
<1> DEFINE st == s \o t
<1>4. st \in Seq(S) /\ Len(st) = Len(s) + Len(t)
      /\ \A i \in 1..(Len(s) + Len(t)) : st[i] = IF i <= Len(s) THEN s[i] ELSE t[i - Len(s)]
  BY <1>1
<1> HIDE DEF st
<1>5. /\ Front(st) \in Seq(S) /\ Len(Front(st)) = Len(s) + Len(t) - 1
      /\ \A i \in 1..(Len(s) + Len(t) - 1) : Front(st)[i] = st[i]
  <2>1. Len(st) >= 1 /\ st \in Seq(S)
    BY <1>0, <1>4
  <2>2. st # <<>>
    BY <2>1, EmptySeq
  <2>3. /\ Front(st) \in Seq(S) /\ Len(Front(st)) = Len(st) - 1
        /\ \A i \in 1..(Len(st) - 1) : Front(st)[i] = st[i]
    BY <2>1, <2>2, FrontElements
  <2> QED BY <1>4, <2>3
<1> DEFINE sf == s \o Front(t)
<1>6. /\ sf \in Seq(S) /\ Len(sf) = Len(s) + Len(Front(t))
      /\ \A i \in 1..(Len(s) + Len(Front(t))) :
           sf[i] = IF i <= Len(s) THEN s[i] ELSE Front(t)[i - Len(s)]
  BY <1>3, ConcatProperties
<1> HIDE DEF sf
<1>7. Len(sf) = Len(s) + Len(t) - 1
  BY <1>0, <1>3, <1>6
<1>8. ASSUME NEW i \in 1..(Len(s) + Len(t) - 1) PROVE Front(st)[i] = sf[i]
  <2>1. i \in 1..(Len(s) + Len(t)) /\ i \in 1..(Len(s) + Len(Front(t)))
    BY <1>0, <1>3
  <2>2. Front(st)[i] = IF i <= Len(s) THEN s[i] ELSE t[i - Len(s)]
    BY <1>4, <1>5, <2>1
  <2>3. sf[i] = IF i <= Len(s) THEN s[i] ELSE Front(t)[i - Len(s)]
    BY <1>6, <2>1
  <2>4. i <= Len(s) \/ i - Len(s) \in 1..(Len(t) - 1)
    BY <1>0
  <2> QED BY <1>3, <2>2, <2>3, <2>4
<1>9. Front(st) = sf
  BY <1>5, <1>6, <1>7, <1>8, SeqEqual
<1> QED BY <1>3, <1>9 DEF st, sf
=============================================================================
