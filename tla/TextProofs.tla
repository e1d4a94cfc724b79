----------------------------- MODULE TextProofs -----------------------------
(***************************************************************************)
(* The client of TextImpls, proved for texts and slack of any length: the  *)
(* classes that have not parted have its text, and those that have do not. *)
(* Each call of str.c and mbuff.c has a lemma that says what it leaves of  *)
(* an object with a text, bytes and fields; the steps of the client follow *)
(* from these.                                                             *)
(***************************************************************************)
EXTENDS TextImpls, DataLemmas

(* What is in a buffer, and a text object as it should be.                 *)
Bytes == Chars \cup {Nul, Junk}
Buffer == [buf : Seq(Bytes), size : Nat, len : Nat, wild : BOOLEAN]

(* The string has this text, with a NUL behind it within its size ...      *)
StrHolds(b, t) ==
  /\ b \in Buffer /\ b.wild = FALSE
  /\ b.len = Len(t) /\ b.len < b.size /\ b.size <= Len(b.buf)
  /\ \A i \in 1..Len(t) : b.buf[i] = t[i]
  /\ b.buf[Len(t) + 1] = Nul

(* ... or is the empty one that never had a buffer.                        *)
StrIs(b, t) == (b = NoText /\ t = <<>>) \/ StrHolds(b, t)

(* The mbuff has these bytes within its size.                              *)
MbIs(b, t) ==
  /\ b \in Buffer /\ b.wild = FALSE
  /\ b.len = Len(t) /\ b.len <= b.size /\ b.size <= Len(b.buf)
  /\ \A i \in 1..Len(t) : b.buf[i] = t[i]

(* A class is right for a text, as Right has it for the client.            *)
StrRight(b, t) == StrSound(b) /\ Content(b) = t
MbRight(b, t) == MbSound(b) /\ Content(b) = t

(* The least and the greatest of some positions.                           *)
LEMMA SmallestIs ==
  ASSUME NEW T \in SUBSET Nat, T # {}
  PROVE  Smallest(T) \in T /\ \A j \in T : Smallest(T) <= j
BY SmallestExists DEF Smallest

(* A position that none is below is the least.                             *)
LEMMA SmallestOf ==
  ASSUME NEW T \in SUBSET Nat, NEW i \in T, \A j \in T : i <= j
  PROVE  Smallest(T) = i
<1>1. Smallest(T) \in T /\ \A j \in T : Smallest(T) <= j
  BY SmallestIs
<1>2. Smallest(T) <= i /\ i <= Smallest(T)
  BY <1>1
<1> HIDE DEF Smallest
<1>3. Smallest(T) \in Nat /\ i \in Nat
  BY <1>1
<1> QED BY <1>2, <1>3

(* A position that none is above is the greatest.                          *)
LEMMA LargestOf ==
  ASSUME NEW T \in SUBSET Nat, NEW i \in T, \A j \in T : j <= i
  PROVE  Largest(T) = i
<1>1. Largest(T) \in T /\ \A j \in T : j <= Largest(T)
  BY DEF Largest
<1>2. Largest(T) <= i /\ i <= Largest(T)
  BY <1>1
<1>3. Largest(T) \in Nat /\ i \in Nat
  BY <1>1
<1> QED BY <1>2, <1>3

(* Bytes are what they are.                                                *)
LEMMA ByteKinds ==
  /\ Nul \in Bytes /\ Junk \in Bytes /\ Nul # Junk
  /\ \A c \in Chars : c \in Bytes /\ c # Nul /\ c # Junk
  /\ \A t \in Seq(Chars) : t \in Seq(Bytes)
<1>1. Nul # Junk
  BY DEF Nul, Junk
<1>2. \A c \in Chars : c \in Bytes /\ c # Nul /\ c # Junk
  BY TextAssumption DEF Bytes
<1>3. Nul \in Bytes /\ Junk \in Bytes
  BY DEF Bytes
<1> HIDE DEF Nul, Junk, Bytes
<1>4. \A t \in Seq(Chars) : t \in Seq(Bytes)
  BY <1>2
<1> QED BY <1>1, <1>2, <1>3, <1>4

(* The object that never had a buffer.                                     *)
LEMMA NoTextIs == /\ NoText \in Buffer /\ NoText.buf = <<>> /\ NoText.size = 0
                  /\ NoText.len = 0 /\ NoText.wild = FALSE
BY DEF NoText, Buffer

(* realloc(), memcpy() to and from a buffer.                               *)
LEMMA ResizedIs ==
  ASSUME NEW buf \in Seq(Bytes), NEW n \in Nat
  PROVE  /\ Resized(buf, n) \in Seq(Bytes) /\ Len(Resized(buf, n)) = n
         /\ \A i \in 1..n : Resized(buf, n)[i] = IF i <= Len(buf) THEN buf[i] ELSE Junk
BY ByteKinds DEF Resized

(* memcpy() to a place in a buffer.                                        *)
LEMMA PutIs ==
  ASSUME NEW buf \in Seq(Bytes), NEW at \in Nat, NEW t \in Seq(Bytes)
  PROVE  /\ Put(buf, at, t) \in Seq(Bytes) /\ Len(Put(buf, at, t)) = Len(buf)
         /\ \A i \in 1..Len(buf) :
              Put(buf, at, t)[i] = IF i > at /\ i <= at + Len(t) THEN t[i - at] ELSE buf[i]
<1> DEFINE p == Put(buf, at, t)
<1>1. \A i \in 1..Len(buf) : (IF i > at /\ i <= at + Len(t) THEN t[i - at] ELSE buf[i]) \in Bytes
  OBVIOUS
<1> QED BY <1>1 DEF Put

(* memcpy() from a place in a buffer.                                      *)
LEMMA PeekIs ==
  ASSUME NEW buf \in Seq(Bytes), NEW at \in Nat, NEW n \in Nat
  PROVE  /\ Peek(buf, at, n) \in Seq(Bytes) /\ Len(Peek(buf, at, n)) = n
         /\ \A i \in 1..n : Peek(buf, at, n)[i] = IF at + i <= Len(buf) THEN buf[at + i] ELSE Junk
<1>1. \A i \in 1..n : (IF at + i <= Len(buf) THEN buf[at + i] ELSE Junk) \in Bytes
  BY ByteKinds
<1> QED BY <1>1 DEF Peek

(* memset().                                                               *)
LEMMA FilledIs ==
  ASSUME NEW n \in Nat, NEW S, NEW c \in S
  PROVE  /\ Filled(n, c) \in Seq(S) /\ Len(Filled(n, c)) = n
         /\ \A i \in 1..n : Filled(n, c)[i] = c
BY DEF Filled

(* Sequences of the same elements are the same.                            *)
LEMMA SameElements ==
  ASSUME NEW S, NEW s \in Seq(S), NEW t \in Seq(S), Len(s) = Len(t),
         \A i \in 1..Len(s) : s[i] = t[i]
  PROVE  s = t
BY SeqEqual

(* A text read from a buffer.                                              *)
LEMMA PeekText ==
  ASSUME NEW buf \in Seq(Bytes), NEW t \in Seq(Chars), Len(t) <= Len(buf),
         \A i \in 1..Len(t) : buf[i] = t[i]
  PROVE  Peek(buf, 0, Len(t)) = t
<1>1. t \in Seq(Bytes) /\ Len(t) \in Nat /\ Len(buf) \in Nat
  BY ByteKinds
<1> DEFINE p == Peek(buf, 0, Len(t))
<1>2. /\ p \in Seq(Bytes) /\ Len(p) = Len(t)
      /\ \A i \in 1..Len(t) : p[i] = IF 0 + i <= Len(buf) THEN buf[0 + i] ELSE Junk
  BY <1>1, PeekIs
<1> HIDE DEF p
<1>3. \A i \in 1..Len(p) : p[i] = t[i]
  BY <1>1, <1>2
<1> QED BY <1>1, <1>2, <1>3, SameElements DEF p

(* Up to its first NUL a string is its text.                               *)
LEMMA TextUpToNul ==
  ASSUME NEW b \in Buffer, NEW t \in Seq(Chars), Len(t) < Len(b.buf),
         \A i \in 1..Len(t) : b.buf[i] = t[i], b.buf[Len(t) + 1] = Nul
  PROVE  CText(b) = t
<1> DEFINE buf == b.buf
           nuls == {i \in 1..Len(buf) : buf[i] = Nul} \cup {Len(buf) + 1}
<1>1. buf \in Seq(Bytes) /\ Len(t) \in Nat /\ Len(buf) \in Nat
  BY DEF Buffer
<1>2. nuls \in SUBSET Nat /\ Len(t) + 1 \in nuls
  BY <1>1
<1>3. \A i \in 1..Len(t) : buf[i] # Nul
  BY ByteKinds
<1>4. \A j \in nuls : Len(t) + 1 <= j
  BY <1>1, <1>3
<1>5. Smallest(nuls) = Len(t) + 1
  <2> HIDE DEF nuls
  <2> QED BY <1>2, <1>4, SmallestOf
<1>6. CText(b) = SubSeq(buf, 1, Len(t))
  <2>1. CText(b) = SubSeq(buf, 1, Smallest(nuls) - 1)
    BY DEF CText
  <2> HIDE DEF nuls, buf
  <2> QED BY <2>1, <1>1, <1>5
<1> HIDE DEF buf
<1>7. /\ SubSeq(buf, 1, Len(t)) \in Seq(Bytes) /\ Len(SubSeq(buf, 1, Len(t))) = Len(t)
      /\ \A i \in 1..Len(t) : SubSeq(buf, 1, Len(t))[i] = t[i]
  BY <1>1 DEF buf
<1> QED BY <1>6, <1>7, ByteKinds, SameElements

(* What there is of a string with a text.                                  *)
LEMMA StrFacts ==
  ASSUME NEW b, NEW t \in Seq(Chars), StrIs(b, t)
  PROVE  /\ b \in Buffer /\ b.buf \in Seq(Bytes) /\ b.size \in Nat /\ b.len \in Nat
         /\ b.wild = FALSE /\ b.len = Len(t) /\ Len(t) \in Nat /\ b.len <= b.size
         /\ b.size <= Len(b.buf) /\ Len(b.buf) \in Nat
         /\ \A i \in 1..Len(t) : b.buf[i] = t[i] /\ t[i] \in Chars
         /\ Content(b) = t /\ CText(b) = t
         /\ StrRight(b, t)
<1>1. CASE b = NoText /\ t = <<>>
  <2>1. Len(t) = 0 /\ b.buf = <<>> /\ b.len = 0 /\ b.size = 0 /\ b.wild = FALSE /\ b \in Buffer
    BY <1>1, NoTextIs
  <2>2. Content(b) = <<>>
    BY <2>1 DEF Content, Peek
  <2>3. CText(b) = <<>>
    <3>1. CText(b) = SubSeq(<<>>, 1, Smallest({1}) - 1)
      <4>1. {i \in 1..Len(b.buf) : b.buf[i] = Nul} \cup {Len(b.buf) + 1} = {1}
        BY <2>1
      <4> QED BY <2>1, <4>1 DEF CText
    <3>2. Smallest({1}) = 1
      BY SmallestOf
    <3> QED BY <3>1, <3>2
  <2>4. StrSound(b)
    BY <1>1, <2>1 DEF StrSound
  <2> QED BY <1>1, <2>1, <2>2, <2>3, <2>4 DEF StrRight, Buffer
<1>2. CASE StrHolds(b, t)
  <2>1. /\ b \in Buffer /\ b.buf \in Seq(Bytes) /\ b.size \in Nat /\ b.len \in Nat
        /\ b.wild = FALSE /\ b.len = Len(t) /\ Len(t) \in Nat /\ b.len < b.size
        /\ b.size <= Len(b.buf) /\ Len(b.buf) \in Nat
        /\ (\A i \in 1..Len(t) : b.buf[i] = t[i] /\ t[i] \in Chars) /\ b.buf[Len(t) + 1] = Nul
    BY <1>2 DEF StrHolds, Buffer
  <2>2. Content(b) = t
    BY <2>1, PeekText DEF Content
  <2>3. CText(b) = t
    BY <2>1, TextUpToNul
  <2>4. StrSound(b)
    BY <2>1, <2>3 DEF StrSound
  <2> QED BY <2>1, <2>2, <2>3, <2>4 DEF StrRight
<1> QED BY <1>1, <1>2 DEF StrIs

(* What there is of an mbuff with a text.                                  *)
LEMMA MbFacts ==
  ASSUME NEW b, NEW t \in Seq(Chars), MbIs(b, t)
  PROVE  /\ b \in Buffer /\ b.buf \in Seq(Bytes) /\ b.size \in Nat /\ b.len \in Nat
         /\ b.wild = FALSE /\ b.len = Len(t) /\ Len(t) \in Nat
         /\ b.len <= b.size /\ b.size <= Len(b.buf) /\ Len(b.buf) \in Nat
         /\ \A i \in 1..Len(t) : b.buf[i] = t[i] /\ t[i] \in Chars
         /\ Content(b) = t
         /\ MbRight(b, t)
<1>1. /\ b \in Buffer /\ b.buf \in Seq(Bytes) /\ b.size \in Nat /\ b.len \in Nat
      /\ b.wild = FALSE /\ b.len = Len(t) /\ Len(t) \in Nat /\ b.len <= b.size
      /\ b.size <= Len(b.buf) /\ Len(b.buf) \in Nat
      /\ \A i \in 1..Len(t) : b.buf[i] = t[i] /\ t[i] \in Chars
  BY DEF MbIs, Buffer
<1>2. Content(b) = t
  BY <1>1, PeekText DEF Content
<1>3. MbSound(b)
  BY <1>1 DEF MbSound
<1> QED BY <1>1, <1>2, <1>3 DEF MbRight

(* What is outside of its bytes is not right, nor is another text.         *)
LEMMA StrWrong ==
  ASSUME NEW b, NEW t
  PROVE  /\ b.wild = TRUE => ~StrRight(b, t)
         /\ \A u \in Seq(Chars) : StrIs(b, u) /\ u # t => ~StrRight(b, t)
<1>1. b.wild = TRUE => ~StrRight(b, t)
  BY DEF StrRight, StrSound
<1>2. ASSUME NEW u \in Seq(Chars), StrIs(b, u), u # t
      PROVE  ~StrRight(b, t)
  BY <1>2, StrFacts DEF StrRight
<1> QED BY <1>1, <1>2

(* The same of an mbuff.                                                   *)
LEMMA MbWrong ==
  ASSUME NEW b, NEW t
  PROVE  /\ b.wild = TRUE => ~MbRight(b, t)
         /\ \A u \in Seq(Chars) : MbIs(b, u) /\ u # t => ~MbRight(b, t)
<1>1. b.wild = TRUE => ~MbRight(b, t)
  BY DEF MbRight, MbSound
<1>2. ASSUME NEW u \in Seq(Chars), MbIs(b, u), u # t
      PROVE  ~MbRight(b, t)
  BY <1>2, MbFacts DEF MbRight
<1> QED BY <1>1, <1>2

(* A client's texts.                                                       *)
LEMMA TextsAre ==
  ASSUME NEW n \in Nat, NEW t
  PROVE  t \in Texts(n) <=> t \in Seq(Chars) /\ Len(t) <= n
<1>1. ASSUME t \in Texts(n)
      PROVE  t \in Seq(Chars) /\ Len(t) <= n
  <2>1. PICK k \in 0..n : t \in [1..k -> Chars]
    BY <1>1 DEF Texts
  <2>2. t \in Seq(Chars) /\ Len(t) = k
    BY <2>1
  <2> QED BY <2>1, <2>2
<1>2. ASSUME t \in Seq(Chars), Len(t) <= n
      PROVE  t \in Texts(n)
  <2>1. Len(t) \in 0..n /\ t \in [1..Len(t) -> Chars]
    BY <1>2
  <2> QED BY <2>1 DEF Texts
<1> QED BY <1>1, <1>2

(* A prefix of a text.                                                     *)
LEMMA PartOf ==
  ASSUME NEW S, NEW t \in Seq(S), NEW i \in Nat, NEW j \in Nat, i <= j, j <= Len(t)
  PROVE  /\ SubSeq(t, i + 1, j) \in Seq(S) /\ Len(SubSeq(t, i + 1, j)) = j - i
         /\ \A m \in 1..(j - i) : SubSeq(t, i + 1, j)[m] = t[i + m]
<1>1. \A m \in (i + 1)..j : t[m] \in S
  OBVIOUS
<1> QED BY <1>1

(* New objects.                                                            *)
LEMMA FromPtrHolds ==
  ASSUME NEW t \in Seq(Chars)
  PROVE  /\ StrHolds(StrFromPtr(t), t) /\ StrFromPtr(t).size = Len(t) + 1
         /\ MbIs(MbFromPtr(t), t)
<1>1. t \in Seq(Bytes) /\ Nul \in Bytes /\ Len(t) \in Nat
  BY ByteKinds
<1>2. /\ Append(t, Nul) \in Seq(Bytes) /\ Len(Append(t, Nul)) = Len(t) + 1
      /\ \A i \in 1..Len(t) : Append(t, Nul)[i] = t[i]
      /\ Append(t, Nul)[Len(t) + 1] = Nul
  BY <1>1
<1>3. StrHolds(StrFromPtr(t), t) /\ StrFromPtr(t).size = Len(t) + 1
  BY <1>1, <1>2 DEF StrHolds, StrFromPtr, Buffer
<1>4. MbIs(MbFromPtr(t), t)
  BY <1>1 DEF MbIs, MbFromPtr, Buffer
<1> QED BY <1>3, <1>4

(* spif_str_new_from_buff() takes as much of the text as it is told to.    *)
LEMMA StrFromBuffHolds ==
  ASSUME NEW t \in Seq(Chars), NEW size \in Nat, NEW n, n = IF Len(t) < size THEN Len(t) ELSE size
  PROVE  /\ SubSeq(t, 1, n) \in Seq(Chars) /\ Len(SubSeq(t, 1, n)) = n
         /\ StrHolds(StrFromBuff(t, size), SubSeq(t, 1, n))
         /\ StrFromBuff(t, size).size = IF size = n THEN size + 1 ELSE size
<1> DEFINE u == SubSeq(t, 1, n)
           room == IF size = n THEN size + 1 ELSE size
           ended == Append(u, Nul)
           buf == Put(Filled(room, Junk), 0, ended)
<1>0. Len(t) \in Nat /\ n \in Nat /\ n <= Len(t) /\ n <= size /\ room \in Nat /\ room >= n + 1
  OBVIOUS
<1>1. u \in Seq(Chars) /\ Len(u) = n
  BY <1>0
<1>2. u \in Seq(Bytes) /\ Nul \in Bytes /\ Junk \in Bytes
  BY <1>1, ByteKinds
<1> HIDE DEF u, room
<1>3. /\ ended \in Seq(Bytes) /\ Len(ended) = n + 1
      /\ (\A i \in 1..n : ended[i] = u[i]) /\ ended[n + 1] = Nul
  BY <1>1, <1>2
<1>4. Filled(room, Junk) \in Seq(Bytes) /\ Len(Filled(room, Junk)) = room
  BY <1>0, <1>2, FilledIs
<1> HIDE DEF ended
<1>5. /\ buf \in Seq(Bytes) /\ Len(buf) = room
      /\ \A i \in 1..room : buf[i] = IF i > 0 /\ i <= 0 + Len(ended) THEN ended[i - 0]
                                     ELSE Filled(room, Junk)[i]
  BY <1>3, <1>4, PutIs
<1> HIDE DEF buf
<1>6. \A i \in 1..(n + 1) : buf[i] = ended[i]
  BY <1>0, <1>3, <1>5
<1>7. StrFromBuff(t, size) = [buf |-> buf, size |-> room, len |-> n, wild |-> FALSE]
  BY DEF StrFromBuff, buf, room, ended, u
<1>8. StrHolds(StrFromBuff(t, size), u)
  BY <1>0, <1>1, <1>3, <1>5, <1>6, <1>7 DEF StrHolds, Buffer
<1> QED BY <1>1, <1>7, <1>8 DEF u, room

(* Read from an array of slack bytes more.                                 *)
LEMMA FromBuffHolds ==
  ASSUME NEW t \in Seq(Chars), NEW slack \in Nat
  PROVE  /\ StrHolds(StrFromBuff(t, Len(t) + slack), t)
         /\ StrFromBuff(t, Len(t) + slack).size = Len(t) + (IF slack = 0 THEN 1 ELSE slack)
         /\ MbIs(MbFromBuff(t, Len(t) + slack), t)
         /\ MbFromBuff(t, Len(t) + slack).size = Len(t) + slack
<1> DEFINE size == Len(t) + slack
<1>0. Len(t) \in Nat /\ size \in Nat /\ Len(t) <= size /\ (size = Len(t) <=> slack = 0)
  OBVIOUS
<1>1. Len(t) = IF Len(t) < size THEN Len(t) ELSE size
  BY <1>0
<1>2. SubSeq(t, 1, Len(t)) = t
  OBVIOUS
<1> HIDE DEF size
<1>3. /\ StrHolds(StrFromBuff(t, size), SubSeq(t, 1, Len(t)))
      /\ StrFromBuff(t, size).size = IF size = Len(t) THEN size + 1 ELSE size
  BY <1>0, <1>1, StrFromBuffHolds
<1>4. StrFromBuff(t, size).size = Len(t) + (IF slack = 0 THEN 1 ELSE slack)
  BY <1>0, <1>3 DEF size
<1> DEFINE buf == Put(Filled(size, Junk), 0, t)
<1>5. Filled(size, Junk) \in Seq(Bytes) /\ Len(Filled(size, Junk)) = size /\ t \in Seq(Bytes)
  BY <1>0, ByteKinds, FilledIs
<1>6. /\ buf \in Seq(Bytes) /\ Len(buf) = size
      /\ \A i \in 1..size : buf[i] = IF i > 0 /\ i <= 0 + Len(t) THEN t[i - 0]
                                     ELSE Filled(size, Junk)[i]
  BY <1>5, PutIs
<1>7. MbFromBuff(t, size) = [buf |-> buf, size |-> size, len |-> Len(t), wild |-> FALSE]
  <2>1. ~(size < Len(t))
    BY <1>0
  <2> HIDE DEF buf
  <2> QED BY <2>1 DEF MbFromBuff, buf
<1> HIDE DEF buf
<1>8. \A i \in 1..Len(t) : buf[i] = t[i]
  BY <1>0, <1>6
<1>9. MbIs(MbFromBuff(t, size), t) /\ MbFromBuff(t, size).size = size
  BY <1>0, <1>6, <1>7, <1>8 DEF MbIs, Buffer
<1> QED BY <1>2, <1>3, <1>4, <1>9 DEF size

(* A buffer with another one's fields.                                     *)
LEMMA BufferOf ==
  ASSUME NEW buf \in Seq(Bytes), NEW size \in Nat, NEW len \in Nat, NEW wild \in BOOLEAN
  PROVE  [buf |-> buf, size |-> size, len |-> len, wild |-> wild] \in Buffer
<1> DEFINE B == Seq(Bytes)
<1> HIDE DEF B
<1>1. buf \in B /\ Buffer = [buf : B, size : Nat, len : Nat, wild : BOOLEAN]
  BY DEF B, Buffer
<1> QED BY <1>1

(* The bytes up to the NUL stay as they are.                               *)
LEMMA SettledIs ==
  ASSUME NEW buf \in Seq(Bytes), NEW size \in Nat, NEW len \in Nat, NEW wild \in BOOLEAN,
         NEW b, b = [buf |-> buf, size |-> size, len |-> len, wild |-> wild]
  PROVE  /\ Settled(b) \in Buffer
         /\ Settled(b).size = size /\ Settled(b).len = len /\ Settled(b).wild = wild
         /\ Len(Settled(b).buf) = Len(buf)
         /\ \A i \in 1..Len(buf) : Settled(b).buf[i] = IF i <= len + 1 THEN buf[i] ELSE Junk
<1> DEFINE s == [i \in 1..Len(buf) |-> IF i <= len + 1 THEN buf[i] ELSE Junk]
<1>1. s \in Seq(Bytes) /\ Len(s) = Len(buf)
      /\ \A i \in 1..Len(buf) : s[i] = IF i <= len + 1 THEN buf[i] ELSE Junk
  BY ByteKinds
<1>2. b.buf = buf /\ b.len = len
  OBVIOUS
<1>3. Settled(b) = [b EXCEPT !.buf = s]
  BY <1>2 DEF Settled
<1> HIDE DEF s
<1>4. Settled(b) = [buf |-> s, size |-> size, len |-> len, wild |-> wild]
  BY <1>3
<1>5. Settled(b) \in Buffer
  BY <1>1, <1>4, BufferOf
<1> QED BY <1>1, <1>4, <1>5

(* The fields of a string that has grown.                                  *)
LEMMA GrownIs ==
  ASSUME NEW b \in Buffer, b.wild = FALSE, NEW n \in Nat, NEW more \in Nat
  PROVE  Grown(b, n, more) = [buf |-> Resized(b.buf, b.size + n), size |-> b.size + n,
                              len |-> b.len + more, wild |-> b.len + more + 1 > b.size + n]
<1> DEFINE buf == b.buf
           size == b.size
           len == b.len
<1>1. b = [buf |-> buf, size |-> size, len |-> len, wild |-> FALSE]
  BY DEF Buffer
<1> DEFINE w == len + more + 1 > size + n
<1>2. b.buf = buf /\ b.size = size /\ b.len = len /\ b.wild = FALSE
  OBVIOUS
<1>3. (b.wild \/ w) = w
  <2>1. w \in BOOLEAN
    BY <1>2
  <2> HIDE DEF w
  <2> QED BY <1>2, <2>1
<1> HIDE DEF buf, size, len
<1>4. Grown(b, n, more) = [b EXCEPT !.buf = Resized(buf, size + n), !.size = size + n,
                                    !.len = len + more, !.wild = b.wild \/ w]
  BY <1>2, Zenon DEF Grown, w
<1>5. Grown(b, n, more) = [buf |-> Resized(buf, size + n), size |-> size + n,
                           len |-> len + more, wild |-> w]
  <2> HIDE DEF w
  <2> QED BY <1>1, <1>3, <1>4
<1> QED BY <1>5 DEF buf, size, len, w

(* The text at the end, and as many bytes more.                            *)
LEMMA AppendTextIs ==
  ASSUME NEW b, NEW t \in Seq(Chars), StrIs(b, t), NEW x \in Seq(Chars), NEW n \in Nat,
         NEW r, r = StrAppendText(b, x, n)
  PROVE  /\ r \in Buffer /\ r.size = b.size + n
         /\ r.wild <=> Len(t) + Len(x) + 1 > b.size + n
         /\ r.wild = FALSE => StrHolds(r, t \o x)
<1> DEFINE old == Resized(b.buf, b.size + n)
           tail == Append(x, Nul)
           buf == Put(old, b.len, tail)
           size == b.size + n
           len == b.len + Len(x)
           wild == b.len + Len(x) + 1 > b.size + n
<1>1. /\ b \in Buffer /\ b.buf \in Seq(Bytes) /\ b.size \in Nat /\ b.len = Len(t)
      /\ b.wild = FALSE /\ Len(t) \in Nat /\ b.size <= Len(b.buf) /\ b.len <= b.size
      /\ \A i \in 1..Len(t) : b.buf[i] = t[i]
  BY StrFacts
<1>2. x \in Seq(Bytes) /\ Nul \in Bytes /\ Len(x) \in Nat
  BY ByteKinds
<1>3. /\ tail \in Seq(Bytes) /\ Len(tail) = Len(x) + 1
      /\ (\A i \in 1..Len(x) : tail[i] = x[i]) /\ tail[Len(x) + 1] = Nul
  BY <1>2
<1>4. size \in Nat /\ len \in Nat /\ wild \in BOOLEAN
  BY <1>1, <1>2
<1>5. /\ old \in Seq(Bytes) /\ Len(old) = size
      /\ \A i \in 1..size : old[i] = IF i <= Len(b.buf) THEN b.buf[i] ELSE Junk
  BY <1>1, <1>4, ResizedIs, ZenonT(30)
<1>6. Grown(b, n, Len(x)) = [buf |-> old, size |-> size, len |-> len, wild |-> wild]
  BY <1>1, <1>2, GrownIs
<1>7. r = Settled([buf |-> buf, size |-> size, len |-> len, wild |-> wild])
  BY <1>6 DEF StrAppendText
<1> HIDE DEF old, tail
<1>8. /\ buf \in Seq(Bytes) /\ Len(buf) = size
      /\ \A i \in 1..size : buf[i] = IF i > Len(t) /\ i <= Len(t) + Len(tail) THEN tail[i - Len(t)]
                                     ELSE old[i]
  <2>1. b.len \in Nat /\ b.len = Len(t)
    BY <1>1
  <2>2. /\ Put(old, b.len, tail) \in Seq(Bytes) /\ Len(Put(old, b.len, tail)) = Len(old)
        /\ \A i \in 1..Len(old) : Put(old, b.len, tail)[i] =
             IF i > b.len /\ i <= b.len + Len(tail) THEN tail[i - b.len] ELSE old[i]
    BY <1>3, <1>5, <2>1, PutIs
  <2> QED BY <1>5, <2>1, <2>2
<1> HIDE DEF buf
<1>9. /\ r \in Buffer /\ r.size = size /\ r.len = len /\ r.wild = wild /\ Len(r.buf) = size
      /\ \A i \in 1..size : r.buf[i] = IF i <= len + 1 THEN buf[i] ELSE Junk
  <2> HIDE DEF size, len, wild
  <2> QED BY <1>4, <1>7, <1>8, SettledIs
<1>10. ASSUME r.wild = FALSE
       PROVE  StrHolds(r, t \o x)
  <2>0. len + 1 <= size /\ len = Len(t) + Len(x) /\ len \in Nat /\ Len(t) <= b.size
    <3>1. ~wild
      <4> HIDE DEF wild
      <4> QED BY <1>9, <1>10
    <3> QED BY <1>1, <1>2, <1>4, <3>1
  <2>1. /\ t \o x \in Seq(Chars) /\ Len(t \o x) = len
        /\ \A i \in 1..len : (t \o x)[i] = IF i <= Len(t) THEN t[i] ELSE x[i - Len(t)]
    BY <2>0
  <2> HIDE DEF size, len
  <2>2. ASSUME NEW i \in 1..(len + 1)
        PROVE  i \in 1..size /\ r.buf[i] = IF i > Len(t) THEN tail[i - Len(t)] ELSE old[i]
    <3>1. i \in 1..size /\ i <= Len(t) + Len(tail)
      BY <1>1, <1>2, <1>3, <1>4, <2>0
    <3>2. r.buf[i] = buf[i]
      BY <1>9, <2>0, <3>1
    <3> QED BY <1>8, <3>1, <3>2
  <2>3. \A i \in 1..Len(t) : r.buf[i] = t[i]
    <3> SUFFICES ASSUME NEW i \in 1..Len(t) PROVE r.buf[i] = t[i]
      OBVIOUS
    <3>1. i \in 1..(len + 1) /\ ~(i > Len(t)) /\ i <= Len(b.buf)
      BY <1>1, <1>2, <2>0
    <3>2. r.buf[i] = old[i] /\ i \in 1..size
      BY <2>2, <3>1
    <3> QED BY <1>1, <1>5, <3>1, <3>2
  <2>4. \A i \in 1..(Len(x) + 1) : r.buf[Len(t) + i] = tail[i]
    <3> SUFFICES ASSUME NEW i \in 1..(Len(x) + 1) PROVE r.buf[Len(t) + i] = tail[i]
      OBVIOUS
    <3>1. Len(t) + i \in 1..(len + 1) /\ Len(t) + i > Len(t) /\ (Len(t) + i) - Len(t) = i
      BY <1>1, <1>2, <2>0
    <3> QED BY <2>2, <3>1
  <2>5. \A i \in 1..len : r.buf[i] = (t \o x)[i]
    <3> SUFFICES ASSUME NEW i \in 1..len PROVE r.buf[i] = (t \o x)[i]
      OBVIOUS
    <3>1. CASE i <= Len(t)
      BY <1>1, <2>1, <2>3, <3>1
    <3>2. CASE i > Len(t)
      <4>1. i - Len(t) \in 1..Len(x) /\ Len(t) + (i - Len(t)) = i
        BY <1>1, <1>2, <2>0, <3>2
      <4>2. r.buf[i] = tail[i - Len(t)]
        BY <1>2, <2>4, <4>1
      <4> QED BY <1>3, <2>1, <3>2, <4>1, <4>2
    <3> QED BY <1>1, <2>0, <3>1, <3>2
  <2>6. r.buf[len + 1] = Nul
    <3>1. Len(t) + (Len(x) + 1) = len + 1 /\ Len(x) + 1 \in 1..(Len(x) + 1)
      BY <1>1, <1>2, <2>0
    <3> QED BY <1>3, <2>4, <3>1
  <2>7. len < size /\ size <= Len(r.buf)
    BY <1>4, <1>9, <2>0
  <2> QED BY <1>9, <1>10, <2>1, <2>5, <2>6, <2>7 DEF StrHolds
<1> QED BY <1>1, <1>9, <1>10

(* What is left with a text, or parts.                                     *)
StrOut(b, t, parts) == b \in Buffer /\ (IF parts THEN ~StrRight(b, t) ELSE StrIs(b, t))
MbOut(b, t, parts) ==
  /\ b \in Buffer \/ (b = Unread /\ parts)
  /\ IF parts THEN ~MbRight(b, t) ELSE MbIs(b, t)

(* What is known of an object says whether it parts.                       *)
LEMMA Outs ==
  ASSUME NEW b \in Buffer, NEW t
  PROVE  /\ b.wild = TRUE => StrOut(b, t, TRUE) /\ MbOut(b, t, TRUE)
         /\ StrHolds(b, t) => StrOut(b, t, FALSE)
         /\ StrIs(b, t) => StrOut(b, t, FALSE)
         /\ MbIs(b, t) => MbOut(b, t, FALSE)
BY StrWrong, MbWrong DEF StrOut, MbOut, StrIs

(* Behind the NUL of a string nothing counts.                              *)
LEMMA SettledHolds ==
  ASSUME NEW b, NEW t \in Seq(Chars), StrHolds(b, t), NEW r, r = Settled(b)
  PROVE  StrHolds(r, t) /\ r.size = b.size /\ Len(r.buf) = Len(b.buf)
<1> DEFINE buf == b.buf
           size == b.size
           len == b.len
           wild == b.wild
<1>0. /\ buf \in Seq(Bytes) /\ size \in Nat /\ len \in Nat /\ wild \in BOOLEAN /\ wild = FALSE
      /\ len = Len(t) /\ len < size /\ size <= Len(buf) /\ Len(buf) \in Nat
      /\ (\A i \in 1..Len(t) : buf[i] = t[i]) /\ buf[Len(t) + 1] = Nul
  BY DEF StrHolds, Buffer
<1>1. b = [buf |-> buf, size |-> size, len |-> len, wild |-> wild]
  BY DEF StrHolds, Buffer
<1>2. r = Settled([buf |-> buf, size |-> size, len |-> len, wild |-> wild])
  BY <1>1
<1> HIDE DEF buf, size, len, wild
<1>3. /\ r \in Buffer /\ r.size = size /\ r.len = len /\ r.wild = wild /\ Len(r.buf) = Len(buf)
      /\ \A i \in 1..Len(buf) : r.buf[i] = IF i <= len + 1 THEN buf[i] ELSE Junk
  BY <1>0, <1>2, SettledIs
<1>4. ASSUME NEW i \in 1..(Len(t) + 1)
      PROVE  r.buf[i] = buf[i]
  <2>1. i \in 1..Len(buf) /\ i <= len + 1
    BY <1>0
  <2> QED BY <1>3, <2>1
<1>5. \A i \in 1..Len(t) : r.buf[i] = t[i]
  <2>1. ASSUME NEW i \in 1..Len(t) PROVE r.buf[i] = t[i]
    <3>1. i \in 1..(Len(t) + 1)
      BY <1>0
    <3> QED BY <1>0, <1>4, <3>1
  <2> QED BY <2>1
<1>6. r.buf[Len(t) + 1] = Nul
  <2>1. Len(t) + 1 \in 1..(Len(t) + 1)
    BY <1>0
  <2> QED BY <1>0, <1>4, <2>1
<1> QED BY <1>0, <1>3, <1>5, <1>6 DEF StrHolds, buf, size

(* Without a NUL where its text ends a string is longer than it says.      *)
LEMMA StrLonger ==
  ASSUME NEW b \in Buffer, NEW t, b.len < Len(b.buf), b.size > 0,
         \A i \in 1..(b.len + 1) : b.buf[i] # Nul
  PROVE  StrOut(b, t, TRUE)
<1> DEFINE buf == b.buf
           nuls == {i \in 1..Len(buf) : buf[i] = Nul} \cup {Len(buf) + 1}
<1>1. buf \in Seq(Bytes) /\ Len(buf) \in Nat /\ b.len \in Nat /\ b.size \in Nat
  BY DEF Buffer
<1>2. nuls \in SUBSET Nat /\ nuls # {}
  BY <1>1
<1>3. \A j \in nuls : j > b.len + 1 /\ j <= Len(buf) + 1
  BY <1>1
<1>4. CText(b) = SubSeq(buf, 1, Smallest(nuls) - 1)
  BY DEF CText
<1> HIDE DEF nuls, buf
<1>5. Smallest(nuls) \in nuls
  BY <1>2, SmallestIs
<1> DEFINE n == Smallest(nuls) - 1
<1>6. n \in Nat /\ n > b.len /\ n <= Len(buf)
  <2>1. Smallest(nuls) \in Nat
    BY <1>2, <1>5
  <2>2. Smallest(nuls) > b.len + 1 /\ Smallest(nuls) <= Len(buf) + 1
    BY <1>3, <1>5
  <2> QED BY <1>1, <2>1, <2>2
<1> HIDE DEF n
<1>7. Len(SubSeq(buf, 1, n)) = n
  BY <1>1, <1>6
<1>8. Len(CText(b)) # b.len
  BY <1>1, <1>4, <1>6, <1>7 DEF n
<1>9. b # NoText
  BY <1>1, NoTextIs
<1> QED BY <1>8, <1>9 DEF StrOut, StrRight, StrSound

(* All of a string and its NUL.                                            *)
LEMMA PeekAll ==
  ASSUME NEW b, NEW t \in Seq(Chars), StrHolds(b, t)
  PROVE  /\ b.buf \in Seq(Bytes) /\ b.size \in Nat /\ Len(b.buf) \in Nat
         /\ Peek(b.buf, 0, b.len + 1) \in Seq(Bytes)
         /\ Len(Peek(b.buf, 0, b.len + 1)) = Len(t) + 1
         /\ \A i \in 1..Len(t) : Peek(b.buf, 0, b.len + 1)[i] = t[i]
         /\ Peek(b.buf, 0, b.len + 1)[Len(t) + 1] = Nul
<1>1. /\ b.buf \in Seq(Bytes) /\ b.size \in Nat /\ Len(t) \in Nat /\ b.len = Len(t)
      /\ Len(b.buf) \in Nat /\ Len(t) + 1 <= Len(b.buf)
      /\ (\A i \in 1..Len(t) : b.buf[i] = t[i]) /\ b.buf[Len(t) + 1] = Nul
  BY DEF StrHolds, Buffer
<1> DEFINE p == Peek(b.buf, 0, b.len + 1)
<1>2. b.len + 1 \in Nat
  BY <1>1
<1>3. /\ p \in Seq(Bytes) /\ Len(p) = b.len + 1
      /\ \A i \in 1..(b.len + 1) : p[i] = IF 0 + i <= Len(b.buf) THEN b.buf[0 + i] ELSE Junk
  <2> DEFINE n == b.len + 1
             buf == b.buf
  <2>1. n \in Nat /\ buf \in Seq(Bytes)
    BY <1>1, <1>2
  <2> HIDE DEF n, buf
  <2>2. /\ Peek(buf, 0, n) \in Seq(Bytes) /\ Len(Peek(buf, 0, n)) = n
        /\ \A i \in 1..n : Peek(buf, 0, n)[i] = IF 0 + i <= Len(buf) THEN buf[0 + i] ELSE Junk
    BY <2>1, PeekIs
  <2> QED BY <2>2 DEF n, buf
<1> HIDE DEF p
<1>4. ASSUME NEW i \in 1..(Len(t) + 1)
      PROVE  p[i] = b.buf[i]
  BY <1>1, <1>3
<1>5. \A i \in 1..Len(t) : p[i] = t[i]
  BY <1>1, <1>4
<1>6. p[Len(t) + 1] = Nul
  BY <1>1, <1>4
<1> QED BY <1>1, <1>3, <1>5, <1>6 DEF p

(* What the strings grow by at their end.                                  *)
LEMMA AppendTextOut ==
  ASSUME NEW b, NEW t \in Seq(Chars), StrIs(b, t), NEW x \in Seq(Chars), NEW n \in Nat
  PROVE  StrOut(StrAppendText(b, x, n), t \o x, Len(t) + Len(x) + 1 > b.size + n)
<1> DEFINE r == StrAppendText(b, x, n)
           wild == Len(t) + Len(x) + 1 > b.size + n
<1>1. r \in Buffer /\ (r.wild <=> wild) /\ (r.wild = FALSE => StrHolds(r, t \o x))
  <2> DEFINE s == r
  <2>1. s = StrAppendText(b, x, n)
    OBVIOUS
  <2> HIDE DEF s
  <2> QED BY <2>1, AppendTextIs
<1> HIDE DEF r, wild
<1>2. r.wild \in BOOLEAN
  BY <1>1 DEF Buffer
<1>3. CASE wild
  <2>1. r.wild = TRUE
    BY <1>1, <1>2, <1>3
  <2>2. StrOut(r, t \o x, TRUE)
    BY <1>1, <2>1, Outs
  <2> QED BY <1>3, <2>2 DEF StrOut, r, wild
<1>4. CASE ~wild
  <2>1. r.wild = FALSE
    BY <1>1, <1>2, <1>4
  <2>2. StrOut(r, t \o x, FALSE)
    BY <1>1, <2>1, Outs
  <2> QED BY <1>4, <2>2 DEF StrOut, r, wild
<1> QED BY <1>3, <1>4

(* A string with a text has room for its NUL, or never had a buffer.       *)
LEMMA BareOrNot ==
  ASSUME NEW b, NEW t \in Seq(Chars), StrIs(b, t)
  PROVE  /\ b = NoText => b.size = 0 /\ b.len = 0 /\ Len(t) = 0 /\ t = <<>> /\ b.buf = <<>>
         /\ b # NoText => StrHolds(b, t) /\ b.size > Len(t) /\ b.buf # <<>> /\ b.size # 0
<1>1. b = NoText => b.size = 0 /\ b.len = 0 /\ Len(t) = 0 /\ t = <<>> /\ b.buf = <<>>
  <2>1. ASSUME b = NoText, StrHolds(b, t) PROVE FALSE
    BY <2>1, NoTextIs DEF StrHolds
  <2> QED BY <2>1, NoTextIs DEF StrIs
<1>2. b # NoText => StrHolds(b, t)
  BY DEF StrIs
<1>3. StrHolds(b, t) => b.size > Len(t) /\ b.size # 0 /\ b.buf # <<>>
  <2> SUFFICES ASSUME StrHolds(b, t) PROVE b.size > Len(t) /\ b.size # 0 /\ b.buf # <<>>
    OBVIOUS
  <2>1. Len(t) \in Nat /\ b.size \in Nat /\ Len(t) < b.size /\ b.size <= Len(b.buf)
        /\ Len(b.buf) \in Nat
    BY DEF StrHolds, Buffer
  <2>2. Len(b.buf) # 0
    BY <2>1
  <2>3. b.buf # <<>>
    BY <2>2
  <2> QED BY <2>1, <2>3
<1> QED BY <1>1, <1>2, <1>3

(* What the two calls that append characters leave.                        *)
LEMMA AppendsOut ==
  ASSUME NEW b, NEW t \in Seq(Chars), StrIs(b, t), NEW x \in Seq(Chars)
  PROVE  /\ StrOut(StrAppendFromPtr(b, x), t \o x, b = NoText /\ x # <<>>)
         /\ \A c \in Chars : StrOut(StrAppendChar(b, c), Append(t, c), b = NoText)
<1>0. b.size \in Nat /\ b.len = Len(t) /\ Len(t) \in Nat /\ b \in Buffer
  BY StrFacts
<1>1. ASSUME x = <<>>
      PROVE  StrOut(StrAppendFromPtr(b, x), t \o x, b = NoText /\ x # <<>>)
  <2>1. t \o x = t /\ StrAppendFromPtr(b, x) = b
    BY <1>1 DEF StrAppendFromPtr
  <2>2. StrOut(b, t, FALSE)
    BY <1>0, Outs
  <2> QED BY <1>1, <2>1, <2>2 DEF StrOut
<1>2. ASSUME x # <<>>
      PROVE  StrOut(StrAppendFromPtr(b, x), t \o x, b = NoText /\ x # <<>>)
  <2>1. StrAppendFromPtr(b, x) = StrAppendText(b, x, Len(x)) /\ Len(x) \in Nat /\ Len(x) > 0
    BY <1>2 DEF StrAppendFromPtr
  <2>2. StrOut(StrAppendText(b, x, Len(x)), t \o x, Len(t) + Len(x) + 1 > b.size + Len(x))
    BY <2>1, AppendTextOut
  <2>3. Len(t) + Len(x) + 1 > b.size + Len(x) <=> b = NoText
    BY <1>0, <2>1, BareOrNot
  <2> QED BY <1>2, <2>1, <2>2, <2>3 DEF StrOut
<1>3. ASSUME NEW c \in Chars
      PROVE  StrOut(StrAppendChar(b, c), Append(t, c), b = NoText)
  <2> DEFINE y == <<c>>
             n == IF b.size <= b.len + 1 THEN 1 ELSE 0
  <2>1. y \in Seq(Chars) /\ Len(y) = 1 /\ n \in Nat /\ t \o y = Append(t, c)
    OBVIOUS
  <2>2. StrAppendChar(b, c) = StrAppendText(b, y, n)
    BY DEF StrAppendChar
  <2>3. Len(t) + 1 + 1 > b.size + n <=> b = NoText
    BY <1>0, BareOrNot
  <2> HIDE DEF y, n
  <2>4. StrOut(StrAppendText(b, y, n), t \o y, Len(t) + Len(y) + 1 > b.size + n)
    BY <2>1, AppendTextOut
  <2> QED BY <2>1, <2>2, <2>3, <2>4 DEF StrOut
<1> QED BY <1>1, <1>2, <1>3

(* An object that was read from an array of slack bytes more.              *)
LEMMA ObjectIs ==
  ASSUME NEW x \in Seq(Chars), NEW slack \in Nat, NEW o, o = StrFromBuff(x, Len(x) + slack)
  PROVE  /\ o.size = Len(x) + (IF slack = 0 THEN 1 ELSE slack)
         /\ o.size \in Nat /\ o.size > 0 /\ o.len = Len(x) /\ Content(o) = x
<1>1. StrHolds(o, x) /\ o.size = Len(x) + (IF slack = 0 THEN 1 ELSE slack)
  BY FromBuffHolds
<1>2. StrIs(o, x)
  BY <1>1 DEF StrIs
<1>3. o.size \in Nat /\ o.len = Len(x) /\ Len(x) \in Nat /\ Content(o) = x
  BY <1>2, StrFacts
<1>4. o.size > 0
  BY <1>1, <1>3
<1> QED BY <1>1, <1>3, <1>4

(* What appending an object leaves.                                        *)
LEMMA AppendOut ==
  ASSUME NEW b, NEW t \in Seq(Chars), StrIs(b, t), NEW x \in Seq(Chars), NEW slack \in Nat,
         NEW o, o = StrFromBuff(x, Len(x) + slack)
  PROVE  StrOut(StrAppend(b, o), t \o x, b = NoText /\ x # <<>> /\ o.size = Len(x) + 1)
<1>0. b.size \in Nat /\ b.len = Len(t) /\ Len(t) \in Nat /\ b \in Buffer
  BY StrFacts
<1>1. /\ o.size = Len(x) + (IF slack = 0 THEN 1 ELSE slack)
      /\ o.size \in Nat /\ o.size > 0 /\ o.len = Len(x) /\ Content(o) = x /\ Len(x) \in Nat
  <2>1. /\ o.size = Len(x) + (IF slack = 0 THEN 1 ELSE slack)
        /\ o.size \in Nat /\ o.size > 0 /\ o.len = Len(x) /\ Content(o) = x
    BY ObjectIs
  <2> QED BY <2>1
<1>2. CASE x = <<>>
  <2>1. t \o x = t /\ StrAppend(b, o) = b
    BY <1>1, <1>2 DEF StrAppend
  <2>2. StrOut(b, t, FALSE)
    BY <1>0, Outs
  <2> QED BY <1>2, <2>1, <2>2 DEF StrOut
<1>3. CASE x # <<>>
  <2> DEFINE n == o.size - 1
  <2>1. Len(x) > 0 /\ n \in Nat /\ n >= Len(x)
    BY <1>1, <1>3
  <2>2. StrAppend(b, o) = StrAppendText(b, x, n)
    BY <1>1, <2>1 DEF StrAppend
  <2>3. Len(t) + Len(x) + 1 > b.size + n <=> (b = NoText /\ o.size = Len(x) + 1)
    BY <1>0, <1>1, <2>1, BareOrNot, SMTT(30)
  <2> HIDE DEF n
  <2>4. StrOut(StrAppendText(b, x, n), t \o x, Len(t) + Len(x) + 1 > b.size + n)
    BY <2>1, AppendTextOut
  <2> QED BY <1>3, <2>2, <2>3, <2>4 DEF StrOut
<1> QED BY <1>2, <1>3

(* What stands behind x when it is put in front of y.                      *)
LEMMA Joined ==
  ASSUME NEW S, NEW x \in Seq(S), NEW y \in Seq(S), NEW z, z = x \o y
  PROVE  /\ z \in Seq(S) /\ Len(z) = Len(x) + Len(y)
         /\ \A i \in 1..Len(x) : z[i] = x[i]
         /\ \A i \in 1..Len(y) : z[Len(x) + i] = y[i]
<1>1. /\ z \in Seq(S) /\ Len(z) = Len(x) + Len(y)
      /\ \A i \in 1..(Len(x) + Len(y)) : z[i] = IF i <= Len(x) THEN x[i] ELSE y[i - Len(x)]
  BY ConcatProperties
<1>2. Len(x) \in Nat /\ Len(y) \in Nat
  OBVIOUS
<1>3. ASSUME NEW i \in 1..Len(x) PROVE z[i] = x[i]
  BY <1>1, <1>2
<1>4. ASSUME NEW i \in 1..Len(y) PROVE z[Len(x) + i] = y[i]
  <2>1. /\ Len(x) + i \in 1..(Len(x) + Len(y)) /\ ~(Len(x) + i <= Len(x))
        /\ (Len(x) + i) - Len(x) = i
    BY <1>2
  <2> HIDE DEF Len
  <2> QED BY <1>1, <2>1
<1> QED BY <1>1, <1>3, <1>4

(* All of a text with its NUL.                                             *)
Ended(y, t) ==
  /\ y \in Seq(Bytes) /\ Len(y) = Len(t) + 1
  /\ \A i \in 1..Len(t) : y[i] = t[i]
  /\ y[Len(t) + 1] = Nul

(* A text object with these fields, and no access outside of its bytes.    *)
HasFields(b, buf, size, len) ==
  /\ b.buf = buf /\ b.size = size /\ b.len = len /\ b.wild = FALSE
  /\ b = [buf |-> b.buf, size |-> b.size, len |-> b.len, wild |-> b.wild]

(* A buffer over whose start all of a text with its NUL was written.       *)
LEMMA PutText ==
  ASSUME NEW buf \in Seq(Bytes), NEW y, NEW t \in Seq(Chars), Ended(y, t),
         NEW size \in Nat, Len(t) < size, size <= Len(buf),
         NEW b, HasFields(b, Put(buf, 0, y), size, Len(t))
  PROVE  StrHolds(b, t) /\ b.size = size /\ Len(b.buf) = Len(buf)
<1> DEFINE p == Put(buf, 0, y)
<1>0. /\ Len(t) \in Nat /\ Len(buf) \in Nat /\ 0 \in Nat
      /\ y \in Seq(Bytes) /\ Len(y) = Len(t) + 1
      /\ (\A i \in 1..Len(t) : y[i] = t[i]) /\ y[Len(t) + 1] = Nul
  BY DEF Ended
<1>1. /\ p \in Seq(Bytes) /\ Len(p) = Len(buf)
      /\ \A i \in 1..Len(buf) : p[i] = IF i > 0 /\ i <= 0 + Len(y) THEN y[i - 0] ELSE buf[i]
  BY <1>0, PutIs
<1>2. /\ b.buf = p /\ b.size = size /\ b.len = Len(t) /\ b.wild = FALSE
      /\ b = [buf |-> b.buf, size |-> b.size, len |-> b.len, wild |-> b.wild]
  BY DEF HasFields
<1> HIDE DEF p
<1>3. ASSUME NEW i \in 1..(Len(t) + 1) PROVE p[i] = y[i]
  <2>1. i \in 1..Len(buf) /\ i > 0 /\ i <= 0 + Len(y) /\ i - 0 = i
    BY <1>0
  <2> QED BY <1>1, <2>1
<1>4. \A i \in 1..Len(t) : p[i] = t[i]
  BY <1>0, <1>3
<1>5. p[Len(t) + 1] = Nul
  <2>1. Len(t) + 1 \in 1..(Len(t) + 1)
    BY <1>0
  <2> QED BY <1>0, <1>3, <2>1
<1>6. b \in Buffer
  <2> DEFINE B == Seq(Bytes)
  <2> HIDE DEF B
  <2>1. b.buf \in B /\ b.size \in Nat /\ b.len \in Nat /\ b.wild \in BOOLEAN
    BY <1>0, <1>1, <1>2 DEF B
  <2>2. Buffer = [buf : B, size : Nat, len : Nat, wild : BOOLEAN]
    BY DEF Buffer, B
  <2> QED BY <1>2, <2>1, <2>2
<1>7. b.size <= Len(b.buf)
  BY <1>1, <1>2
<1> QED BY <1>1, <1>2, <1>4, <1>5, <1>6, <1>7 DEF StrHolds

(* A string with another text, of this size, all of it its buffer.         *)
FillsUp(r, t, size) ==
  /\ r \in Buffer /\ StrHolds(r, t) /\ r.len = Len(t)
  /\ r.size = size /\ r.wild = FALSE /\ Len(r.buf) = size

(* The text in front, and as many bytes more.                              *)
LEMMA PrependTextIs ==
  ASSUME NEW b, NEW t \in Seq(Chars), StrHolds(b, t), NEW x \in Seq(Chars), NEW n \in Nat,
         Len(x) + Len(t) + 1 <= b.size + n, NEW r, r = StrPrependText(b, x, n)
  PROVE  FillsUp(r, x \o t, b.size + n)
<1> DEFINE all == Peek(b.buf, 0, b.len + 1)
           old == Resized(b.buf, b.size + n)
           y == x \o all
           size == b.size + n
           u == x \o t
<1>1. /\ b \in Buffer /\ b.buf \in Seq(Bytes) /\ b.size \in Nat /\ b.len = Len(t)
      /\ b.wild = FALSE /\ Len(t) \in Nat /\ b.size <= Len(b.buf) /\ Len(x) \in Nat
  BY DEF StrHolds, Buffer
<1>2. /\ all \in Seq(Bytes) /\ Len(all) = Len(t) + 1
      /\ (\A i \in 1..Len(t) : all[i] = t[i]) /\ all[Len(t) + 1] = Nul
  BY PeekAll
<1>3. x \in Seq(Bytes) /\ size \in Nat
  BY <1>1, ByteKinds
<1>4. old \in Seq(Bytes) /\ Len(old) = size
  BY <1>1, <1>3, ResizedIs
<1>5. Grown(b, n, Len(x)) = [buf |-> old, size |-> size, len |-> b.len + Len(x),
                             wild |-> b.len + Len(x) + 1 > size]
  BY <1>1, GrownIs
<1> HIDE DEF all, old
<1>6. /\ y \in Seq(Bytes) /\ Len(y) = Len(x) + (Len(t) + 1)
      /\ (\A i \in 1..Len(x) : y[i] = x[i])
      /\ \A i \in 1..(Len(t) + 1) : y[Len(x) + i] = all[i]
  <2>0. y = x \o all
    OBVIOUS
  <2> HIDE DEF y
  <2>1. /\ y \in Seq(Bytes) /\ Len(y) = Len(x) + Len(all)
        /\ (\A i \in 1..Len(x) : y[i] = x[i])
        /\ \A i \in 1..Len(all) : y[Len(x) + i] = all[i]
    <3>1. all \in Seq(Bytes) /\ x \in Seq(Bytes)
      BY <1>2, <1>3
    <3> QED BY <2>0, <3>1, Joined
  <2> QED BY <1>2, <2>1
<1>7. /\ u \in Seq(Chars) /\ Len(u) = Len(x) + Len(t)
      /\ (\A i \in 1..Len(x) : u[i] = x[i])
      /\ \A i \in 1..Len(t) : u[Len(x) + i] = t[i]
  <2>1. u = x \o t
    OBVIOUS
  <2> HIDE DEF u
  <2> QED BY <2>1, Joined
<1>8. Settled([buf |-> Put(old, 0, y), size |-> size, len |-> b.len + Len(x),
               wild |-> b.len + Len(x) + 1 > size]) = r
  BY <1>5 DEF StrPrependText, all
<1> HIDE DEF y, u
<1>9. /\ Len(y) = Len(u) + 1 /\ b.len + Len(x) = Len(u) /\ Len(u) < size
      /\ (b.len + Len(x) + 1 > size) = FALSE /\ Len(u) \in Nat
  BY <1>1, <1>3, <1>6, <1>7
<1>10. ASSUME NEW i \in 1..Len(u) PROVE y[i] = u[i]
  <2>1. CASE i <= Len(x)
    BY <1>1, <1>6, <1>7, <2>1
  <2>2. CASE ~(i <= Len(x))
    <3>1. PICK j \in 1..Len(t) : i = Len(x) + j
      <4>1. i - Len(x) \in 1..Len(t) /\ i = Len(x) + (i - Len(x))
        BY <1>1, <1>7, <2>2
      <4> QED BY <4>1
    <3>2. j \in 1..(Len(t) + 1)
      BY <1>1
    <3> QED BY <1>2, <1>6, <1>7, <3>1, <3>2
  <2> QED BY <2>1, <2>2
<1>11. y[Len(u) + 1] = Nul
  <2>1. Len(t) + 1 \in 1..(Len(t) + 1) /\ Len(u) + 1 = Len(x) + (Len(t) + 1)
    BY <1>1, <1>7
  <2> QED BY <1>2, <1>6, <2>1
<1> DEFINE g == [buf |-> Put(old, 0, y), size |-> size, len |-> Len(u), wild |-> FALSE]
<1>12. r = Settled(g)
  BY <1>8, <1>9
<1>13. HasFields(g, Put(old, 0, y), size, Len(u))
  BY DEF HasFields
<1> HIDE DEF g, size
<1>14. StrHolds(g, u) /\ g.size = size /\ Len(g.buf) = size
  <2>1. old \in Seq(Bytes) /\ u \in Seq(Chars) /\ Ended(y, u)
    BY <1>4, <1>6, <1>7, <1>9, <1>10, <1>11 DEF Ended
  <2>2. size \in Nat /\ Len(u) < size /\ size <= Len(old)
    BY <1>3, <1>4, <1>9
  <2>3. StrHolds(g, u) /\ g.size = size /\ Len(g.buf) = Len(old)
    BY <1>13, <2>1, <2>2, PutText
  <2> QED BY <1>4, <2>3
<1>15. StrHolds(r, u) /\ r.size = g.size /\ Len(r.buf) = Len(g.buf)
  BY <1>7, <1>12, <1>14, SettledHolds
<1>16. r.len = Len(u) /\ r \in Buffer /\ r.wild = FALSE
  BY <1>15 DEF StrHolds
<1> QED BY <1>14, <1>15, <1>16 DEF u, size, FillsUp

(* A string that never had a buffer gets one without a NUL.                *)
LEMMA PrependBare ==
  ASSUME NEW x \in Seq(Chars), x # <<>>, NEW n \in Nat, n >= Len(x), NEW t
  PROVE  StrOut(StrPrependText(NoText, x, n), t, TRUE)
<1> DEFINE old == Resized(NoText.buf, NoText.size + n)
           all == Peek(NoText.buf, 0, NoText.len + 1)
           y == x \o all
           wild == NoText.len + Len(x) + 1 > NoText.size + n
           buf == Put(old, 0, y)
           r == StrPrependText(NoText, x, n)
<1>0. Len(x) \in Nat /\ Len(x) > 0
  OBVIOUS
<1>1. x \in Seq(Bytes) /\ Junk \in Bytes /\ Nul # Junk /\ \A i \in 1..Len(x) : x[i] # Nul
  BY ByteKinds
<1>2. Grown(NoText, n, Len(x)) = [buf |-> old, size |-> NoText.size + n,
                                  len |-> NoText.len + Len(x), wild |-> wild]
  BY <1>0, NoTextIs, GrownIs
<1>3. NoText.buf \in Seq(Bytes)
  BY NoTextIs DEF Buffer
<1>4. r = Settled([buf |-> buf, size |-> NoText.size + n, len |-> NoText.len + Len(x), wild |-> wild])
  BY <1>2 DEF StrPrependText
<1>5. NoText.size + n = n /\ NoText.len + Len(x) = Len(x) /\ NoText.len + 1 = 1
      /\ (wild <=> Len(x) + 1 > n) /\ wild \in BOOLEAN
  BY <1>0, NoTextIs
<1>6. old \in Seq(Bytes) /\ Len(old) = n
  BY <1>3, <1>5, ResizedIs
<1>7. all \in Seq(Bytes) /\ Len(all) = 1 /\ all[1] = Junk
  <2> DEFINE none == NoText.buf
  <2>1. none \in Seq(Bytes) /\ Len(none) = 0
    BY <1>3, NoTextIs
  <2> HIDE DEF none
  <2>2. /\ Peek(none, 0, 1) \in Seq(Bytes) /\ Len(Peek(none, 0, 1)) = 1
        /\ \A i \in 1..1 : Peek(none, 0, 1)[i] = IF 0 + i <= Len(none) THEN none[0 + i] ELSE Junk
    BY <2>1, ByteKinds DEF Peek
  <2>3. all = Peek(none, 0, 1)
    BY <1>5 DEF none
  <2> HIDE DEF all
  <2> QED BY <2>1, <2>2, <2>3
<1> HIDE DEF old, all, wild
<1>8. /\ y \in Seq(Bytes) /\ Len(y) = Len(x) + 1
      /\ (\A i \in 1..Len(x) : y[i] = x[i]) /\ y[Len(x) + 1] = Junk
  <2>0. y = x \o all
    OBVIOUS
  <2> HIDE DEF y
  <2>1. /\ y \in Seq(Bytes) /\ Len(y) = Len(x) + Len(all)
        /\ (\A i \in 1..Len(x) : y[i] = x[i])
        /\ \A i \in 1..Len(all) : y[Len(x) + i] = all[i]
    <3>1. all \in Seq(Bytes) /\ x \in Seq(Bytes)
      BY <1>1, <1>7
    <3> QED BY <2>0, <3>1, Joined
  <2> QED BY <1>7, <2>1
<1> HIDE DEF y
<1>9. /\ buf \in Seq(Bytes) /\ Len(buf) = n
      /\ \A i \in 1..n : buf[i] = IF i > 0 /\ i <= 0 + Len(y) THEN y[i - 0] ELSE old[i]
  <2>1. 0 \in Nat
    OBVIOUS
  <2>2. /\ buf \in Seq(Bytes) /\ Len(buf) = Len(old)
        /\ \A i \in 1..Len(old) : buf[i] = IF i > 0 /\ i <= 0 + Len(y) THEN y[i - 0] ELSE old[i]
    BY <1>6, <1>8, <2>1, PutIs
  <2> QED BY <1>6, <2>2
<1> HIDE DEF buf
<1> DEFINE len == Len(x)
<1>10. r = Settled([buf |-> buf, size |-> n, len |-> len, wild |-> wild])
  BY <1>4, <1>5
<1> HIDE DEF r
<1>11. /\ r \in Buffer /\ r.size = n /\ r.len = len /\ r.wild = wild /\ Len(r.buf) = n
       /\ \A i \in 1..n : r.buf[i] = IF i <= len + 1 THEN buf[i] ELSE Junk
  <2>1. len \in Nat
    BY <1>0
  <2> HIDE DEF len
  <2>2. /\ r \in Buffer /\ r.size = n /\ r.len = len /\ r.wild = wild /\ Len(r.buf) = Len(buf)
        /\ \A i \in 1..Len(buf) : r.buf[i] = IF i <= len + 1 THEN buf[i] ELSE Junk
    BY <1>5, <1>9, <1>10, <2>1, SettledIs
  <2> QED BY <1>9, <2>2
<1>12. CASE wild
  <2>1. r.wild = TRUE
    BY <1>5, <1>11, <1>12
  <2> QED BY <1>11, <2>1, Outs DEF r
<1>13. CASE ~wild
  <2>1. len + 1 <= n
    BY <1>0, <1>5, <1>13
  <2>2. ASSUME NEW i \in 1..(len + 1) PROVE r.buf[i] # Nul
    <3>1. i \in 1..n /\ i <= len + 1 /\ i > 0 /\ i <= 0 + Len(y) /\ i - 0 = i
      BY <1>0, <1>8, <2>1
    <3>2. r.buf[i] = y[i]
      BY <1>9, <1>11, <3>1
    <3>3. i \in 1..Len(x) \/ i = Len(x) + 1
      BY <1>0
    <3> QED BY <1>1, <1>8, <3>2, <3>3
  <2>3. r.len < Len(r.buf) /\ r.size > 0 /\ \A i \in 1..(r.len + 1) : r.buf[i] # Nul
    BY <1>0, <1>11, <2>1, <2>2
  <2> QED BY <1>11, <2>3, StrLonger DEF r
<1> QED BY <1>12, <1>13

(* The length of two texts after each other.                               *)
LEMMA LenOfConcat ==
  ASSUME NEW x \in Seq(Chars), NEW y \in Seq(Chars)
  PROVE  Len(x \o y) = Len(x) + Len(y)
BY ConcatProperties

(* What the strings grow by at their front.                                *)
LEMMA PrependTextOut ==
  ASSUME NEW b, NEW t \in Seq(Chars), StrIs(b, t), NEW x \in Seq(Chars), x # <<>>,
         NEW n \in Nat, n >= Len(x)
  PROVE  StrOut(StrPrependText(b, x, n), x \o t, b = NoText)
<1>0. b.size \in Nat /\ Len(t) \in Nat /\ Len(x) \in Nat
  <2>1. b.size \in Nat
    BY StrFacts
  <2> QED BY <2>1
<1>1. CASE b = NoText
  <2>1. StrOut(StrPrependText(NoText, x, n), x \o t, TRUE)
    BY PrependBare
  <2> QED BY <1>1, <2>1 DEF StrOut
<1>2. CASE b # NoText
  <2>1. StrHolds(b, t) /\ b.size > Len(t)
    BY <1>2, BareOrNot
  <2>2. Len(x) + Len(t) + 1 <= b.size + n
    BY <1>0, <2>1
  <2> DEFINE r == StrPrependText(b, x, n)
  <2>3. r = StrPrependText(b, x, n)
    OBVIOUS
  <2> HIDE DEF r
  <2>4. FillsUp(r, x \o t, b.size + n)
    BY <2>1, <2>2, <2>3, PrependTextIs
  <2>5. StrOut(r, x \o t, FALSE)
    BY <2>4, Outs DEF FillsUp
  <2> QED BY <1>2, <2>3, <2>5 DEF StrOut
<1> QED BY <1>1, <1>2

(* What the call that prepends characters leaves.                          *)
LEMMA PrependFromPtrOut ==
  ASSUME NEW b, NEW t \in Seq(Chars), StrIs(b, t), NEW x \in Seq(Chars)
  PROVE  StrOut(StrPrependFromPtr(b, x), x \o t, b = NoText /\ x # <<>>)
<1>0. b \in Buffer /\ Len(x) \in Nat
  <2>1. b \in Buffer
    BY StrFacts
  <2> QED BY <2>1
<1>1. CASE x = <<>>
  <2>1. x \o t = t /\ StrPrependFromPtr(b, x) = b
    BY <1>1 DEF StrPrependFromPtr
  <2>2. StrOut(b, t, FALSE)
    BY <1>0, Outs
  <2> QED BY <1>1, <2>1, <2>2 DEF StrOut
<1>2. CASE x # <<>>
  <2>1. StrPrependFromPtr(b, x) = StrPrependText(b, x, Len(x)) /\ Len(x) >= Len(x)
    BY <1>0, <1>2 DEF StrPrependFromPtr
  <2>2. StrOut(StrPrependText(b, x, Len(x)), x \o t, b = NoText)
    BY <1>0, <1>2, <2>1, PrependTextOut
  <2> QED BY <1>2, <2>1, <2>2 DEF StrOut
<1> QED BY <1>1, <1>2

(* What prepending an object leaves.                                       *)
LEMMA PrependOut ==
  ASSUME NEW b, NEW t \in Seq(Chars), StrIs(b, t), NEW x \in Seq(Chars), NEW slack \in Nat,
         NEW o, o = StrFromBuff(x, Len(x) + slack)
  PROVE  StrOut(StrPrepend(b, o), x \o t, b = NoText /\ x # <<>>)
<1>0. b \in Buffer /\ Len(x) \in Nat
  <2>1. b \in Buffer
    BY StrFacts
  <2> QED BY <2>1
<1>1. /\ o.size = Len(x) + (IF slack = 0 THEN 1 ELSE slack)
      /\ o.size \in Nat /\ o.size > 0 /\ o.len = Len(x) /\ Content(o) = x
  BY ObjectIs
<1>2. CASE x = <<>>
  <2>1. x \o t = t /\ StrPrepend(b, o) = b
    BY <1>1, <1>2 DEF StrPrepend
  <2>2. StrOut(b, t, FALSE)
    BY <1>0, Outs
  <2> QED BY <1>2, <2>1, <2>2 DEF StrOut
<1>3. CASE x # <<>>
  <2> DEFINE n == o.size - 1
  <2>1. Len(x) > 0 /\ n \in Nat /\ n >= Len(x)
    BY <1>0, <1>1, <1>3
  <2>2. StrPrepend(b, o) = StrPrependText(b, x, n)
    BY <1>1, <2>1 DEF StrPrepend
  <2> HIDE DEF n
  <2>3. StrOut(StrPrependText(b, x, n), x \o t, b = NoText)
    BY <1>3, <2>1, PrependTextOut
  <2> QED BY <1>3, <2>2, <2>3 DEF StrOut
<1> QED BY <1>2, <1>3

(* One byte more than there is is moved unless two are left over.          *)
LEMMA PrependCharOut ==
  ASSUME NEW b, NEW t \in Seq(Chars), StrIs(b, t), NEW c \in Chars
  PROVE  StrOut(StrPrependChar(b, c), <<c>> \o t, b = NoText \/ b.size - b.len - 1 < 2)
<1> DEFINE x == <<c>>
           n == IF b.size <= b.len + 1 THEN 1 ELSE 0
           p == StrPrependText(b, x, n)
           r == StrPrependChar(b, c)
           parts == b = NoText \/ b.size - b.len - 1 < 2
           u == x \o t
<1>0. b \in Buffer /\ b.size \in Nat /\ b.len = Len(t) /\ Len(t) \in Nat
  BY StrFacts
<1>1. x \in Seq(Chars) /\ Len(x) = 1 /\ x # <<>> /\ n \in Nat
  OBVIOUS
<1>2. p = StrPrependText(b, x, n) /\ r = [p EXCEPT !.wild = p.wild \/ p.len + 2 > Len(p.buf)]
  BY DEF StrPrependChar
<1> HIDE DEF x, p, r
<1>3. CASE b = NoText
  <2>1. n = 1 /\ n >= Len(x)
    BY <1>1, <1>3, NoTextIs
  <2>2. StrOut(p, u, b = NoText)
    BY <1>1, <1>2, <2>1, PrependTextOut
  <2>3. p \in Buffer /\ ~StrRight(p, u)
    BY <1>3, <2>2 DEF StrOut
  <2>4. r \in Buffer /\ ~StrRight(r, u)
    <3> DEFINE buf == p.buf
               size == p.size
               len == p.len
               wild == p.wild
               over == p.len + 2 > Len(p.buf)
    <3>1. over \in BOOLEAN /\ wild \in BOOLEAN
      BY <2>3 DEF Buffer
    <3>2. p = [buf |-> buf, size |-> size, len |-> len, wild |-> wild]
      BY <2>3 DEF Buffer
    <3>3. r = [p EXCEPT !.wild = wild \/ over]
      BY <1>2
    <3> HIDE DEF over
    <3>4. CASE over
      <4>1. r = [p EXCEPT !.wild = TRUE]
        BY <3>1, <3>3, <3>4
      <4>2. r \in Buffer /\ r.wild = TRUE
        BY <2>3, <4>1 DEF Buffer
      <4> QED BY <4>2, StrWrong
    <3>5. CASE ~over
      <4>1. r = [p EXCEPT !.wild = wild]
        BY <3>1, <3>3, <3>5
      <4>2. r = p
        BY <3>2, <4>1
      <4> QED BY <2>3, <4>2
    <3> QED BY <3>4, <3>5
  <2> QED BY <1>3, <2>4 DEF StrOut, r, u, x
<1>4. CASE b # NoText
  <2>1. StrHolds(b, t) /\ b.size > Len(t)
    BY <1>4, BareOrNot
  <2>2. Len(x) + Len(t) + 1 <= b.size + n
    BY <1>0, <1>1, <2>1
  <2>3. /\ p \in Buffer /\ StrHolds(p, u) /\ p.size = b.size + n /\ p.wild = FALSE
        /\ Len(p.buf) = b.size + n /\ p.len = Len(x) + Len(t)
    <3>1. Len(u) = Len(x) + Len(t)
      <4>1. x \in Seq(Chars) /\ u = x \o t
        BY <1>1
      <4> HIDE DEF u, n
      <4> QED BY <4>1, LenOfConcat
    <3> HIDE DEF n, u
    <3>2. FillsUp(p, x \o t, b.size + n)
      BY <1>1, <1>2, <2>1, <2>2, PrependTextIs
    <3> QED BY <3>1, <3>2 DEF FillsUp, u
  <2> DEFINE over == p.len + 2 > Len(p.buf)
  <2>4. over <=> parts
    BY <1>0, <1>1, <1>4, <2>1, <2>3
  <2>5. over \in BOOLEAN
    BY <2>3
  <2>6. r = [p EXCEPT !.wild = p.wild \/ over]
    BY <1>2
  <2> HIDE DEF over, parts
  <2>7. CASE over
    <3>1. r = [p EXCEPT !.wild = TRUE]
      BY <2>6, <2>7
    <3>2. r \in Buffer /\ r.wild = TRUE
      BY <2>3, <3>1 DEF Buffer
    <3>3. StrOut(r, u, TRUE)
      BY <3>2, Outs
    <3> QED BY <2>4, <2>7, <3>3 DEF StrOut, r, u, x, parts
  <2>8. CASE ~over
    <3>1. (p.wild \/ over) = p.wild
      BY <2>3, <2>5, <2>8
    <3>2. p = [p EXCEPT !.wild = p.wild]
      BY <2>3 DEF Buffer
    <3>3. r = p
      BY <2>6, <3>1, <3>2
    <3>4. StrOut(p, u, FALSE)
      BY <2>3, Outs
    <3> QED BY <2>4, <2>8, <3>3, <3>4 DEF StrOut, r, u, x, parts
  <2> QED BY <2>7, <2>8
<1> QED BY <1>3, <1>4

(* An object of such fields is in Buffer.                                  *)
LEMMA FieldsInBuffer ==
  ASSUME NEW buf \in Seq(Bytes), NEW size \in Nat, NEW len \in Nat, NEW r, HasFields(r, buf, size, len)
  PROVE  r \in Buffer
<1> DEFINE B == Seq(Bytes)
<1>1. buf \in B /\ Buffer = [buf : B, size : Nat, len : Nat, wild : BOOLEAN]
  BY DEF B, Buffer
<1> HIDE DEF B
<1>2. /\ r.buf = buf /\ r.size = size /\ r.len = len /\ r.wild = FALSE
      /\ r = [buf |-> r.buf, size |-> r.size, len |-> r.len, wild |-> r.wild]
  BY DEF HasFields
<1> QED BY <1>1, <1>2

(* A byte buffer with these bytes at its start.                            *)
LEMMA MbBuilt ==
  ASSUME NEW buf \in Seq(Bytes), NEW u \in Seq(Chars), NEW size \in Nat,
         Len(u) <= size, size <= Len(buf), \A i \in 1..Len(u) : buf[i] = u[i],
         NEW r, HasFields(r, buf, size, Len(u))
  PROVE  r \in Buffer /\ MbIs(r, u) /\ r.size = size
<1>0. Len(u) \in Nat
  OBVIOUS
<1>1. /\ r.buf = buf /\ r.size = size /\ r.len = Len(u) /\ r.wild = FALSE
  BY DEF HasFields
<1>2. r \in Buffer
  <2> DEFINE len == Len(u)
  <2>1. HasFields(r, buf, size, len) /\ len \in Nat
    BY <1>0
  <2> HIDE DEF len
  <2> QED BY <2>1, FieldsInBuffer
<1> QED BY <1>1, <1>2 DEF MbIs

(* The same, written over a buffer from its start.                         *)
LEMMA MbPutText ==
  ASSUME NEW buf \in Seq(Bytes), NEW u \in Seq(Chars), NEW size \in Nat,
         Len(u) <= size, size <= Len(buf),
         NEW r, HasFields(r, Put(buf, 0, u), size, Len(u))
  PROVE  r \in Buffer /\ MbIs(r, u) /\ r.size = size
<1> DEFINE p == Put(buf, 0, u)
<1>0. Len(u) \in Nat /\ Len(buf) \in Nat /\ 0 \in Nat /\ u \in Seq(Bytes)
  BY ByteKinds
<1>1. /\ p \in Seq(Bytes) /\ Len(p) = Len(buf)
      /\ \A i \in 1..Len(buf) : p[i] = IF i > 0 /\ i <= 0 + Len(u) THEN u[i - 0] ELSE buf[i]
  BY <1>0, PutIs
<1>2. HasFields(r, p, size, Len(u))
  OBVIOUS
<1> HIDE DEF p
<1>3. ASSUME NEW i \in 1..Len(u) PROVE p[i] = u[i]
  <2>1. i \in 1..Len(buf) /\ i > 0 /\ i <= 0 + Len(u) /\ i - 0 = i
    BY <1>0
  <2> QED BY <1>1, <2>1
<1>4. \A i \in 1..Len(u) : p[i] = u[i]
  BY <1>3
<1>5. size <= Len(p) /\ p \in Seq(Bytes)
  BY <1>1
<1> QED BY <1>2, <1>4, <1>5, MbBuilt

(* The fields of an mbuff that has grown.                                  *)
LEMMA MbWiderIs ==
  ASSUME NEW b, NEW t \in Seq(Chars), MbIs(b, t), NEW n \in Nat, NEW more \in Nat,
         NEW g, g = MbWider(b, n, more)
  PROVE  /\ Resized(b.buf, b.size + n) \in Seq(Bytes)
         /\ Len(Resized(b.buf, b.size + n)) = b.size + n
         /\ \A i \in 1..Len(t) : Resized(b.buf, b.size + n)[i] = t[i]
         /\ HasFields(g, Resized(b.buf, b.size + n), b.size + n, Len(t) + more)
<1> DEFINE buf == b.buf
           size == b.size
           len == b.len
           new == size + n
<1>1. /\ buf \in Seq(Bytes) /\ size \in Nat /\ len = Len(t) /\ Len(t) \in Nat
      /\ Len(t) <= size /\ size <= Len(buf) /\ Len(buf) \in Nat /\ b.wild = FALSE
      /\ \A i \in 1..Len(t) : buf[i] = t[i]
  BY MbFacts
<1>2. b = [buf |-> buf, size |-> size, len |-> len, wild |-> FALSE]
  BY <1>1 DEF MbIs, Buffer
<1> HIDE DEF buf, size, len
<1>3. new \in Nat /\ Len(t) <= new
  BY <1>1
<1>4. g = [b EXCEPT !.buf = Resized(buf, new), !.size = new, !.len = len + more]
  <2>1. b.buf = buf /\ b.size = size /\ b.len = len
    BY <1>2
  <2> QED BY <2>1, Zenon DEF MbWider
<1>5. g = [buf |-> Resized(buf, new), size |-> new, len |-> Len(t) + more, wild |-> FALSE]
  BY <1>1, <1>2, <1>4
<1> HIDE DEF new
<1>6. /\ Resized(buf, new) \in Seq(Bytes) /\ Len(Resized(buf, new)) = new
      /\ \A i \in 1..new : Resized(buf, new)[i] = IF i <= Len(buf) THEN buf[i] ELSE Junk
  BY <1>1, <1>3, ResizedIs
<1> DEFINE old == Resized(buf, new)
<1> HIDE DEF old
<1>7. ASSUME NEW i \in 1..Len(t) PROVE old[i] = t[i]
  <2>1. i \in 1..new /\ i <= Len(buf)
    BY <1>1, <1>3
  <2> QED BY <1>1, <1>6, <2>1 DEF old
<1>8. HasFields(g, old, new, Len(t) + more)
  BY <1>5 DEF HasFields, old
<1> QED BY <1>6, <1>7, <1>8 DEF old, new, buf, size, len

(* What appending leaves in an mbuff.                                      *)
LEMMA MbAppendTextIs ==
  ASSUME NEW b, NEW t \in Seq(Chars), MbIs(b, t), NEW x \in Seq(Chars), NEW n \in Nat, n >= Len(x),
         NEW r, r = MbAppendText(b, x, n)
  PROVE  MbOut(r, t \o x, FALSE)
<1> DEFINE old == Resized(b.buf, b.size + n)
           g == MbWider(b, n, Len(x))
           u == t \o x
           size == b.size + n
           p == Put(old, b.len, x)
<1>0. b.len = Len(t) /\ b.len \in Nat /\ b.size \in Nat /\ Len(t) <= b.size
  BY MbFacts
<1>1. Len(x) \in Nat /\ Len(t) \in Nat /\ x \in Seq(Bytes)
  BY ByteKinds
<1>2. /\ old \in Seq(Bytes) /\ Len(old) = b.size + n
      /\ (\A i \in 1..Len(t) : old[i] = t[i])
      /\ HasFields(g, old, b.size + n, Len(t) + Len(x))
  <2> DEFINE h == g
             m == Len(x)
  <2>1. h = MbWider(b, n, m) /\ m \in Nat
    BY <1>1
  <2> HIDE DEF h, m
  <2>2. /\ Resized(b.buf, b.size + n) \in Seq(Bytes)
        /\ Len(Resized(b.buf, b.size + n)) = b.size + n
        /\ \A i \in 1..Len(t) : Resized(b.buf, b.size + n)[i] = t[i]
        /\ HasFields(h, Resized(b.buf, b.size + n), b.size + n, Len(t) + m)
    BY <2>1, MbWiderIs
  <2> QED BY <2>2 DEF h, m
<1>3. r = [g EXCEPT !.buf = Put(g.buf, b.len, x)]
  BY DEF MbAppendText
<1> HIDE DEF g, old
<1>4. r = [g EXCEPT !.buf = p]
  BY <1>2, <1>3 DEF HasFields
<1>5. /\ p \in Seq(Bytes) /\ Len(p) = Len(old)
      /\ \A i \in 1..Len(old) : p[i] = IF i > b.len /\ i <= b.len + Len(x) THEN x[i - b.len] ELSE old[i]
  BY <1>0, <1>1, <1>2, PutIs
<1>6. u \in Seq(Chars) /\ Len(u) = Len(t) + Len(x)
      /\ (\A i \in 1..Len(t) : u[i] = t[i])
      /\ \A i \in 1..Len(x) : u[Len(t) + i] = x[i]
  <2>1. u = t \o x
    OBVIOUS
  <2> HIDE DEF u
  <2> QED BY <2>1, Joined
<1> HIDE DEF u, p
<1>7. HasFields(r, p, size, Len(u))
  BY <1>2, <1>4, <1>6 DEF HasFields
<1>8. size \in Nat /\ Len(u) <= size /\ size <= Len(p) /\ Len(u) \in Nat
  BY <1>0, <1>1, <1>2, <1>5, <1>6
<1>9. ASSUME NEW i \in 1..Len(u) PROVE p[i] = u[i]
  <2>0. i \in 1..Len(old)
    BY <1>2, <1>5, <1>8
  <2>1. CASE i <= Len(t)
    BY <1>0, <1>1, <1>2, <1>5, <1>6, <2>0, <2>1
  <2>2. CASE ~(i <= Len(t))
    <3>1. PICK j \in 1..Len(x) : i = Len(t) + j
      <4>1. i - Len(t) \in 1..Len(x) /\ i = Len(t) + (i - Len(t))
        BY <1>1, <1>6, <2>2
      <4> QED BY <4>1
    <3>2. i > b.len /\ i <= b.len + Len(x) /\ i - b.len = j
      BY <1>0, <1>1, <3>1
    <3>3. p[i] = x[j]
      BY <1>5, <2>0, <3>2
    <3> QED BY <1>6, <3>1, <3>3
  <2> QED BY <2>1, <2>2
<1>10. \A i \in 1..Len(u) : p[i] = u[i]
  BY <1>9
<1> HIDE DEF size
<1>11. r \in Buffer /\ MbIs(r, u)
  BY <1>5, <1>6, <1>7, <1>8, <1>10, MbBuilt
<1> QED BY <1>11 DEF MbOut, u

(* What prepending leaves in an mbuff.                                     *)
LEMMA MbPrependTextIs ==
  ASSUME NEW b, NEW t \in Seq(Chars), MbIs(b, t), NEW x \in Seq(Chars), NEW n \in Nat, n >= Len(x),
         NEW r, r = MbPrependText(b, x, n)
  PROVE  MbOut(r, x \o t, FALSE)
<1> DEFINE old == Resized(b.buf, b.size + n)
           g == MbWider(b, n, Len(x))
           u == x \o t
           size == b.size + n
<1>0. b.len = Len(t) /\ b.len \in Nat /\ b.size \in Nat /\ Len(t) <= b.size /\ Content(b) = t
  BY MbFacts
<1>1. Len(x) \in Nat /\ Len(t) \in Nat
  OBVIOUS
<1>2. old \in Seq(Bytes) /\ Len(old) = b.size + n /\ HasFields(g, old, b.size + n, Len(t) + Len(x))
  <2> DEFINE h == g
             m == Len(x)
  <2>1. h = MbWider(b, n, m) /\ m \in Nat
    BY <1>1
  <2> HIDE DEF h, m
  <2>2. /\ Resized(b.buf, b.size + n) \in Seq(Bytes)
        /\ Len(Resized(b.buf, b.size + n)) = b.size + n
        /\ HasFields(h, Resized(b.buf, b.size + n), b.size + n, Len(t) + m)
    BY <2>1, MbWiderIs
  <2> QED BY <2>2 DEF h, m
<1>3. r = [g EXCEPT !.buf = Put(g.buf, 0, u)]
  BY <1>0 DEF MbPrependText
<1> HIDE DEF g, old
<1>4. r = [g EXCEPT !.buf = Put(old, 0, u)]
  BY <1>2, <1>3 DEF HasFields
<1>5. u \in Seq(Chars) /\ Len(u) = Len(t) + Len(x)
  BY <1>1
<1> HIDE DEF u
<1>6. HasFields(r, Put(old, 0, u), size, Len(u))
  BY <1>2, <1>4, <1>5 DEF HasFields
<1>7. size \in Nat /\ Len(u) <= size /\ size <= Len(old)
  BY <1>0, <1>1, <1>2, <1>5
<1> HIDE DEF size
<1>8. r \in Buffer /\ MbIs(r, u)
  BY <1>2, <1>5, <1>6, <1>7, MbPutText
<1> QED BY <1>8 DEF MbOut, u

(* What the mbuffs grow by.                                                *)
LEMMA MbGrowsOut ==
  ASSUME NEW b, NEW t \in Seq(Chars), MbIs(b, t), NEW x \in Seq(Chars)
  PROVE  /\ MbOut(MbAppendFromPtr(b, x), t \o x, FALSE)
         /\ MbOut(MbPrependFromPtr(b, x), x \o t, FALSE)
<1>0. b \in Buffer
  BY MbFacts
<1>1. CASE x = <<>>
  <2>1. t \o x = t /\ x \o t = t /\ MbAppendFromPtr(b, x) = b /\ MbPrependFromPtr(b, x) = b
    BY <1>1 DEF MbAppendFromPtr, MbPrependFromPtr
  <2>2. MbOut(b, t, FALSE)
    BY <1>0, Outs
  <2> QED BY <2>1, <2>2
<1>2. CASE x # <<>>
  <2> DEFINE r == MbAppendText(b, x, Len(x))
             s == MbPrependText(b, x, Len(x))
             n == Len(x)
  <2>1. n \in Nat /\ n >= Len(x) /\ r = MbAppendText(b, x, n) /\ s = MbPrependText(b, x, n)
    OBVIOUS
  <2>2. r = MbAppendFromPtr(b, x) /\ s = MbPrependFromPtr(b, x)
    BY <1>2 DEF MbAppendFromPtr, MbPrependFromPtr
  <2> HIDE DEF r, s, n
  <2>3. MbOut(r, t \o x, FALSE)
    BY <2>1, MbAppendTextIs
  <2>4. MbOut(s, x \o t, FALSE)
    BY <2>1, MbPrependTextIs
  <2> QED BY <2>2, <2>3, <2>4
<1> QED BY <1>1, <1>2

(* What appending or prepending an object leaves of an mbuff.              *)
LEMMA MbObjectsOut ==
  ASSUME NEW b, NEW t \in Seq(Chars), MbIs(b, t), NEW x \in Seq(Chars), NEW slack \in Nat,
         NEW o, o = MbFromBuff(x, Len(x) + slack)
  PROVE  MbOut(MbAppend(b, o), t \o x, FALSE) /\ MbOut(MbPrepend(b, o), x \o t, FALSE)
<1>0. b \in Buffer
  BY MbFacts
<1>1. MbIs(o, x) /\ o.size = Len(x) + slack
  BY FromBuffHolds
<1>2. o.len = Len(x) /\ Content(o) = x
  BY <1>1, MbFacts
<1>3. CASE x = <<>>
  <2>1. /\ t \o x = t /\ x \o t = t
        /\ MbAppend(b, o) = b /\ MbPrepend(b, o) = b
    BY <1>2, <1>3 DEF MbAppend, MbPrepend
  <2>2. MbOut(b, t, FALSE)
    BY <1>0, Outs
  <2> QED BY <2>1, <2>2
<1>4. CASE x # <<>>
  <2> DEFINE n == o.size
             r == MbAppendText(b, x, n)
             s == MbPrependText(b, x, n)
  <2>1. n \in Nat /\ n >= Len(x) /\ n > 0 /\ Len(x) > 0
    BY <1>1, <1>4
  <2>2. r = MbAppend(b, o) /\ s = MbPrepend(b, o)
    BY <1>2, <2>1 DEF MbAppend, MbPrepend
  <2>3. r = MbAppendText(b, x, n) /\ s = MbPrependText(b, x, n)
    OBVIOUS
  <2> HIDE DEF r, s, n
  <2>4. MbOut(r, t \o x, FALSE)
    BY <2>1, <2>3, MbAppendTextIs
  <2>5. MbOut(s, x \o t, FALSE)
    BY <2>1, <2>3, MbPrependTextIs
  <2> QED BY <2>2, <2>4, <2>5
<1> QED BY <1>3, <1>4

(* An object that is done is a new one.                                    *)
LEMMA DoneOut ==
  ASSUME NEW b, NEW m, NEW t \in Seq(Chars)
  PROVE  /\ StrIs(b, t) => StrOut(StrDone(b), <<>>, FALSE)
         /\ MbIs(m, t) => MbOut(MbDone(m), <<>>, FALSE)
<1>1. StrIs(NoText, <<>>) /\ MbIs(NoText, <<>>) /\ NoText \in Buffer
  BY NoTextIs DEF StrIs, MbIs
<1>2. StrOut(NoText, <<>>, FALSE) /\ MbOut(NoText, <<>>, FALSE)
  BY <1>1, Outs
<1>3. ASSUME StrIs(b, t) PROVE StrOut(StrDone(b), <<>>, FALSE)
  <2>1. b.size \in Nat /\ (b # NoText => b.size # 0)
    BY <1>3, StrFacts, BareOrNot
  <2>2. StrDone(b) = NoText
    BY <2>1 DEF StrDone
  <2> QED BY <1>2, <2>2
<1>4. ASSUME MbIs(m, t) PROVE MbOut(MbDone(m), <<>>, FALSE)
  <2>1. m.size \in Nat /\ m.len <= m.size /\ m.len = Len(t) /\ Len(t) \in Nat /\ m \in Buffer
    BY <1>4, MbFacts
  <2>2. CASE m.size > 0
    BY <1>2, <2>2 DEF MbDone
  <2>3. CASE ~(m.size > 0)
    <3>1. t = <<>> /\ MbDone(m) = m
      <4>1. Len(t) = 0
        BY <2>1, <2>3
      <4> QED BY <2>3, <4>1 DEF MbDone
    <3>2. MbOut(m, t, FALSE)
      BY <1>4, <2>1, Outs
    <3> QED BY <3>1, <3>2
  <2> QED BY <2>2, <2>3
<1> QED BY <1>3, <1>4

(* A duplicate has the size of the first, and the bytes of its text.       *)
LEMMA DupOut ==
  ASSUME NEW b, NEW t \in Seq(Chars), StrIs(b, t)
  PROVE  StrOut(StrDup(b), t, b = NoText \/ b.size - b.len - 1 > 0)
<1> DEFINE buf == b.buf
           size == b.size
           len == b.len
           new == Append(t, Nul)
           bare == buf = <<>>
           r == StrDup(b)
           parts == b = NoText \/ b.size - b.len - 1 > 0
<1>0. /\ b \in Buffer /\ size \in Nat /\ len = Len(t) /\ Len(t) \in Nat /\ b.wild = FALSE
      /\ CText(b) = t
  BY StrFacts
<1>1. b = [buf |-> buf, size |-> size, len |-> len, wild |-> FALSE]
  BY <1>0 DEF Buffer
<1>2. r = [b EXCEPT !.buf = new, !.wild = bare]
  BY <1>0 DEF StrDup
<1>3. /\ new \in Seq(Bytes) /\ Len(new) = Len(t) + 1
      /\ (\A i \in 1..Len(t) : new[i] = t[i]) /\ new[Len(t) + 1] = Nul
  BY ByteKinds
<1>4. /\ b = NoText => Len(t) = 0 /\ bare
      /\ b # NoText => ~bare /\ size > Len(t)
  BY BareOrNot
<1> HIDE DEF buf, size, len, new, bare
<1>5. r = [buf |-> new, size |-> size, len |-> Len(t), wild |-> bare] /\ bare \in BOOLEAN
  <2>1. bare \in BOOLEAN
    BY DEF bare
  <2>2. len = Len(t)
    BY <1>0 DEF len
  <2> HIDE DEF r
  <2> QED BY <1>1, <1>2, <2>1, <2>2
<1> HIDE DEF r
<1>6. r \in Buffer
  BY <1>0, <1>3, <1>5, BufferOf
<1>7. CASE b = NoText
  <2>1. r.wild = TRUE /\ parts
    BY <1>4, <1>5, <1>7
  <2> QED BY <1>6, <2>1, Outs DEF StrOut, r, size, len
<1>8. CASE b # NoText
  <2>1. ~bare /\ size > Len(t) /\ (parts <=> size > Len(t) + 1)
    BY <1>0, <1>4, <1>8 DEF size, len
  <2>2. r.buf = new /\ r.size = size /\ r.len = Len(t) /\ r.wild = FALSE
    BY <1>5, <2>1
  <2>3. CASE size > Len(t) + 1
    <3>1. ~StrSound(r)
      <4>1. r # NoText
        BY <1>0, <2>2, <2>3, NoTextIs
      <4>2. ~(r.size <= Len(r.buf))
        BY <1>0, <1>3, <2>2, <2>3
      <4> QED BY <4>1, <4>2 DEF StrSound
    <3>2. parts
      BY <2>1, <2>3
    <3> QED BY <1>6, <3>1, <3>2 DEF StrOut, StrRight, r
  <2>4. CASE ~(size > Len(t) + 1)
    <3>1. StrHolds(r, t)
      <4>1. size = Len(t) + 1
        BY <1>0, <2>1, <2>4
      <4> QED BY <1>0, <1>3, <1>6, <2>2, <4>1 DEF StrHolds
    <3>2. StrOut(r, t, FALSE)
      BY <1>6, <3>1, Outs
    <3>3. ~parts
      BY <2>1, <2>4
    <3> QED BY <3>2, <3>3 DEF StrOut, r
  <2> QED BY <2>3, <2>4
<1> QED BY <1>7, <1>8

(* A new object that was read with or without harm.                        *)
LEMMA WildOut ==
  ASSUME NEW q, NEW t \in Seq(Chars), NEW w \in BOOLEAN, NEW r, r = [q EXCEPT !.wild = w]
  PROVE  /\ StrHolds(q, t) => StrOut(r, t, w)
         /\ MbIs(q, t) => MbOut(r, t, w)
<1>1. ASSUME q \in Buffer, q.wild = FALSE
      PROVE  r \in Buffer /\ r.wild = w /\ (w = FALSE => r = q)
  BY <1>1 DEF Buffer
<1>2. ASSUME StrHolds(q, t) PROVE StrOut(r, t, w)
  <2>1. r \in Buffer /\ r.wild = w /\ (w = FALSE => r = q)
    BY <1>1, <1>2 DEF StrHolds
  <2>2. CASE w = TRUE
    BY <2>1, <2>2, Outs
  <2>3. CASE w = FALSE
    BY <1>2, <2>1, <2>3, Outs
  <2> QED BY <2>2, <2>3
<1>3. ASSUME MbIs(q, t) PROVE MbOut(r, t, w)
  <2>1. r \in Buffer /\ r.wild = w /\ (w = FALSE => r = q)
    BY <1>1, <1>3 DEF MbIs
  <2>2. CASE w = TRUE
    BY <2>1, <2>2, Outs
  <2>3. CASE w = FALSE
    BY <1>3, <2>1, <2>3, Outs
  <2> QED BY <2>2, <2>3
<1> QED BY <1>2, <1>3

(* The buffer of the readers holds more than its NUL.                      *)
LEMMA BuffIncIs == BuffInc \in Nat /\ BuffInc > 1
<1>1. BuffInc \in Nat \ {0, 1}
  BY TextAssumption
<1> QED BY <1>1

(* A line of a file.                                                       *)
LEMMA FromFpOut ==
  ASSUME NEW t \in Seq(Chars), NEW newline \in BOOLEAN, NEW start \in Nat, NEW moved \in BOOLEAN,
         moved => start = 0
  PROVE  /\ StrOut(StrFromFp(t, newline), t,
                   Len(t) + (IF newline THEN 1 ELSE 0) \notin 1..(BuffInc - 1))
         /\ MbOut(MbFromFp(t, ~moved, start, moved), t,
                  (start > 0 /\ t # <<>>) \/ (moved /\ Len(t) > BuffInc))
<1> DEFINE whole == Len(t) + (IF newline THEN 1 ELSE 0)
           cut == whole \notin 1..(BuffInc - 1)
           w == whole > BuffInc - 1 \/ whole = 0
           q == StrFromPtr(t)
           r == StrFromFp(t, newline)
<1>0. StrHolds(q, t) /\ MbIs(MbFromPtr(t), t)
  BY FromPtrHolds
<1>1. BuffInc \in Nat /\ BuffInc > 1 /\ Len(t) \in Nat
  BY BuffIncIs
<1>2. (w <=> cut) /\ w \in BOOLEAN /\ cut \in BOOLEAN
  BY <1>1
<1>3. StrOut(r, t, cut)
  <2>1. r = [q EXCEPT !.wild = w]
    BY DEF StrFromFp
  <2>2. w = cut
    <3> HIDE DEF w, cut
    <3> QED BY <1>2
  <2> HIDE DEF r, q, w, cut
  <2>3. StrOut(r, t, w)
    BY <1>0, <1>2, <2>1, WildOut
  <2> QED BY <2>2, <2>3
<1> DEFINE m == MbFromFp(t, ~moved, start, moved)
           over == moved /\ Len(t) > BuffInc
           parts == (start > 0 /\ t # <<>>) \/ over
<1>4. MbOut(m, t, parts)
  <2>1. over \in BOOLEAN /\ parts \in BOOLEAN
    OBVIOUS
  <2>2. CASE moved
    <3>1. m = [MbFromPtr(t) EXCEPT !.wild = over] /\ (parts <=> over)
      BY <2>2 DEF MbFromFp
    <3>2. parts = over
      <4> HIDE DEF parts, over
      <4> QED BY <2>1, <3>1
    <3> HIDE DEF m, over, parts
    <3>3. MbOut(m, t, over)
      BY <1>0, <2>1, <3>1, WildOut
    <3> QED BY <3>2, <3>3
  <2>3. CASE ~moved
    <3>1. (parts <=> (start > 0 /\ t # <<>>)) /\ ~over
      BY <2>3
    <3>2. CASE t = <<>> \/ start > 0
      <4>1. m = NoText
        BY <2>3, <3>2 DEF MbFromFp
      <4>2. MbIs(NoText, <<>>) /\ NoText \in Buffer /\ <<>> \in Seq(Chars)
        BY NoTextIs DEF MbIs
      <4>3. CASE t = <<>>
        <5>1. ~parts
          BY <3>1, <4>3
        <5> QED BY <4>1, <4>2, <4>3, <5>1 DEF MbOut
      <4>4. CASE t # <<>>
        <5>1. parts
          BY <3>1, <3>2, <4>4
        <5>2. ~MbRight(NoText, t)
          BY <4>2, <4>4, MbWrong
        <5> QED BY <4>1, <4>2, <5>1, <5>2 DEF MbOut
      <4> QED BY <4>3, <4>4
    <3>3. CASE ~(t = <<>> \/ start > 0)
      <4>1. m = MbFromPtr(t) /\ ~parts
        BY <2>3, <3>1, <3>3 DEF MbFromFp
      <4>2. MbFromPtr(t) \in Buffer
        BY <1>0 DEF MbIs
      <4> QED BY <1>0, <4>1, <4>2 DEF MbOut
    <3> QED BY <3>2, <3>3
  <2> QED BY <2>2, <2>3
<1> QED BY <1>3, <1>4

(* What an mbuff has read around a read that failed.                       *)
LEMMA FailedOut ==
  ASSUME NEW first \in Seq(Chars), NEW rest \in Seq(Chars), NEW moved \in BOOLEAN,
         NEW failed \in 1..2, failed = 2 => ~(Len(first) < BuffInc)
  PROVE  MbOut(MbFromFd(first, rest, FALSE, moved, failed), first \o rest, TRUE)
<1> DEFINE t == first \o rest
           more == IF Len(first) < BuffInc THEN <<>> ELSE rest
           hole == Filled(BuffInc, Junk)
           data == IF failed = 1 THEN hole \o (first \o more) ELSE first \o (hole \o more)
           len == Len(first) + Len(more) - 1
           behind == IF failed = 1 THEN first ELSE more
           m == MbFromFd(first, rest, FALSE, moved, failed)
           w == moved /\ behind # <<>>
<1>1. /\ more \in Seq(Chars) /\ Len(more) \in Nat /\ Len(more) <= Len(rest)
      /\ Len(first) \in Nat /\ Len(rest) \in Nat /\ Len(t) = Len(first) + Len(rest)
  BY LenOfConcat
<1>2. data \in Seq(Bytes)
  <2>1. Chars \subseteq Bytes /\ Junk \in Bytes
    BY DEF Bytes
  <2>2. hole \in Seq(Bytes)
    BY <2>1, BuffIncIs, FilledIs
  <2>3. first \in Seq(Bytes) /\ more \in Seq(Bytes)
    BY <1>1, <2>1
  <2> HIDE DEF hole, more
  <2>4. hole \o (first \o more) \in Seq(Bytes) /\ first \o (hole \o more) \in Seq(Bytes)
    BY <2>2, <2>3, ConcatProperties
  <2> QED BY <2>4
<1>3. m = IF len < 0 THEN Unread ELSE [buf |-> Resized(data, len), size |-> len, len |-> len, wild |-> w]
  <2>1. ~(failed = 0 \/ (failed = 2 /\ Len(first) < BuffInc))
    OBVIOUS
  <2> QED BY <2>1 DEF MbFromFd
<1>4. len \in Int /\ len < Len(t)
  BY <1>1
<1>5. w \in BOOLEAN
  OBVIOUS
<1> HIDE DEF more, data, len, m, t, w
<1>6. CASE len < 0
  <2>1. m = Unread /\ ~MbSound(m)
    BY <1>3, <1>6 DEF Unread, MbSound
  <2> QED BY <2>1 DEF MbOut, MbRight, m, t
<1>7. CASE ~(len < 0)
  <2>1. len \in Nat
    BY <1>4, <1>7
  <2>2. Resized(data, len) \in Seq(Bytes)
    BY <1>2, <2>1, ResizedIs
  <2>3. m \in Buffer /\ m.len = len /\ m.buf \in Seq(Bytes)
    BY <1>3, <1>5, <1>7, <2>1, <2>2 DEF Buffer
  <2>4. Len(Content(m)) = len
    BY <2>1, <2>3, PeekIs DEF Content
  <2>5. Content(m) # t
    BY <1>4, <2>4
  <2> QED BY <2>3, <2>5 DEF MbOut, MbRight, m, t
<1> QED BY <1>6, <1>7

(* Data of a descriptor.                                                   *)
LEMMA FromFdOut ==
  ASSUME NEW first \in Seq(Chars), NEW rest \in Seq(Chars), NEW seekable \in BOOLEAN,
         NEW moved \in BOOLEAN, NEW eintr \in BOOLEAN, NEW failed \in 0..2,
         Len(first) <= BuffInc, first = <<>> => rest = <<>> /\ failed # 2, seekable => failed = 0,
         NEW reads, reads = IF rest = <<>> THEN 1 ELSE 2
  PROVE  /\ \A sp \in BOOLEAN : (sp <=> eintr \/ (moved /\ reads = 2)) =>
              StrOut(StrFromFd(first \o rest, reads, moved, eintr), first \o rest, sp)
         /\ \A mp \in BOOLEAN :
              (mp <=> \/ seekable /\ first # <<>>
                      \/ failed = 1
                      \/ failed = 2 /\ Len(first) = BuffInc
                      \/ rest # <<>> /\ Len(first) < BuffInc
                      \/ rest # <<>> /\ moved)
              => MbOut(MbFromFd(first, rest, seekable, moved, failed), first \o rest, mp)
<1> DEFINE t == first \o rest
           r == StrFromFd(t, reads, moved, eintr)
           w == eintr \/ (moved /\ reads > 1)
           bad == eintr \/ (moved /\ reads = 2)
           m == MbFromFd(first, rest, seekable, moved, failed)
           parts == \/ seekable /\ first # <<>>
                    \/ failed = 1
                    \/ failed = 2 /\ Len(first) = BuffInc
                    \/ rest # <<>> /\ Len(first) < BuffInc
                    \/ rest # <<>> /\ moved
<1>0. t \in Seq(Chars) /\ BuffInc \in Nat /\ BuffInc > 1 /\ Len(first) \in Nat
  BY BuffIncIs
<1>1. rest = <<>> => t = first
  OBVIOUS
<1>2. rest # <<>> => t # first
  <2>1. Len(rest) # 0 => Len(t) # Len(first)
    BY LenOfConcat
  <2>2. rest # <<>> => Len(rest) # 0
    OBVIOUS
  <2> QED BY <2>1, <2>2
<1>3. (w <=> bad) /\ w \in BOOLEAN /\ bad \in BOOLEAN
  OBVIOUS
<1>4. r = [StrFromPtr(t) EXCEPT !.wild = w]
  BY DEF StrFromFd
<1> HIDE DEF t
<1>5. /\ StrHolds(StrFromPtr(t), t) /\ MbIs(MbFromPtr(t), t) /\ MbIs(MbFromPtr(first), first)
  BY <1>0, FromPtrHolds
<1>6. StrOut(r, t, bad)
  <2>1. w = bad
    <3> HIDE DEF w, bad
    <3> QED BY <1>3
  <2> HIDE DEF r, w, bad
  <2>2. StrOut(r, t, w)
    BY <1>0, <1>3, <1>4, <1>5, WildOut
  <2> QED BY <2>1, <2>2
<1>7. MbOut(m, t, parts)
  <2>1. CASE seekable /\ first # <<>>
    <3>1. m = [MbFromPtr(t) EXCEPT !.wild = TRUE] /\ parts
      BY <2>1 DEF MbFromFd, t
    <3> HIDE DEF m, parts
    <3>2. MbOut(m, t, TRUE)
      BY <1>0, <1>5, <3>1, WildOut
    <3> QED BY <3>1, <3>2 DEF MbOut
  <2>2. CASE seekable /\ first = <<>>
    <3>1. m = NoText /\ ~parts
      BY <1>0, <2>2 DEF MbFromFd
    <3>2. t = <<>>
      BY <1>1, <2>2
    <3> HIDE DEF m, parts
    <3>3. MbIs(m, t) /\ m \in Buffer
      BY <3>1, <3>2 DEF MbIs, NoText, Buffer
    <3> QED BY <3>1, <3>3 DEF MbOut
  <2>3. CASE ~seekable /\ (failed = 1 \/ (failed = 2 /\ ~(Len(first) < BuffInc)))
    <3>1. seekable = FALSE /\ failed \in 1..2 /\ (failed = 2 => ~(Len(first) < BuffInc))
      BY <2>3
    <3>2. parts
      BY <1>0, <2>3
    <3>3. MbOut(MbFromFd(first, rest, FALSE, moved, failed), t, TRUE)
      BY <3>1, FailedOut DEF t
    <3>4. MbOut(m, t, TRUE)
      BY <3>1, <3>3
    <3> HIDE DEF m, parts
    <3> QED BY <3>2, <3>4 DEF MbOut
  <2>4. CASE ~seekable /\ (failed = 0 \/ failed = 2) /\ Len(first) < BuffInc
    <3>0. first \o <<>> = first
      BY ConcatEmptySeq
    <3>1. m = [MbFromPtr(first) EXCEPT !.wild = FALSE] /\ (parts <=> rest # <<>>)
      <4>1. parts <=> rest # <<>>
        BY <1>0, <2>4
      <4>2. m = [MbFromPtr(first) EXCEPT !.wild = moved /\ <<>> # <<>>]
        BY <2>4, <3>0 DEF MbFromFd
      <4>3. (moved /\ <<>> # <<>>) = FALSE
        OBVIOUS
      <4> HIDE DEF m, parts
      <4> QED BY <4>1, <4>2, <4>3
    <3>2. m = MbFromPtr(first)
      BY <3>1 DEF MbFromPtr
    <3>3. MbIs(m, first) /\ m \in Buffer
      BY <1>5, <3>2 DEF MbIs
    <3> HIDE DEF m, parts
    <3>4. CASE rest = <<>>
      BY <1>1, <3>1, <3>3, <3>4 DEF MbOut
    <3>5. CASE rest # <<>>
      <4>1. ~MbRight(m, t)
        BY <1>2, <3>3, <3>5, MbWrong
      <4> QED BY <3>1, <3>3, <3>5, <4>1 DEF MbOut
    <3> QED BY <3>4, <3>5
  <2>5. CASE ~seekable /\ failed = 0 /\ ~(Len(first) < BuffInc)
    <3> DEFINE v == moved /\ rest # <<>>
    <3>1. m = [MbFromPtr(t) EXCEPT !.wild = v] /\ (parts <=> v) /\ v \in BOOLEAN
      BY <2>5 DEF MbFromFd, t
    <3> HIDE DEF m, parts, v
    <3>2. MbOut(m, t, v)
      BY <1>0, <1>5, <3>1, WildOut
    <3> QED BY <3>1, <3>2 DEF MbOut
  <2>6. failed = 0 \/ failed = 1 \/ failed = 2
    OBVIOUS
  <2> HIDE DEF m, parts
  <2> QED BY <2>1, <2>2, <2>3, <2>4, <2>5, <2>6
<1>8. ASSUME NEW sp \in BOOLEAN, sp <=> bad PROVE StrOut(r, t, sp)
  <2> HIDE DEF r, bad
  <2> QED BY <1>6, <1>8 DEF StrOut
<1>9. ASSUME NEW mp \in BOOLEAN, mp <=> parts PROVE MbOut(m, t, mp)
  <2> HIDE DEF m, parts
  <2> QED BY <1>7, <1>9 DEF MbOut
<1> QED BY <1>8, <1>9 DEF t

(* Another text of the same length over that of a string, and of an mbuff. *)
LEMMA OverWritten ==
  ASSUME NEW b, NEW t \in Seq(Chars), StrHolds(b, t), NEW u \in Seq(Chars), Len(u) = Len(t),
         NEW r, r = [b EXCEPT !.buf = Put(b.buf, 0, u)]
  PROVE  StrOut(r, u, FALSE)
<1> DEFINE buf == b.buf
           p == Put(buf, 0, u)
<1>0. /\ b \in Buffer /\ b.wild = FALSE /\ buf \in Seq(Bytes) /\ Len(buf) \in Nat /\ 0 \in Nat
      /\ b.len = Len(t) /\ Len(t) \in Nat /\ b.size \in Nat /\ b.len < b.size /\ b.size <= Len(buf)
      /\ buf[Len(t) + 1] = Nul /\ u \in Seq(Bytes)
  BY ByteKinds DEF StrHolds, Buffer
<1> HIDE DEF buf
<1>1. /\ p \in Seq(Bytes) /\ Len(p) = Len(buf)
      /\ \A i \in 1..Len(buf) : p[i] = IF i > 0 /\ i <= 0 + Len(u) THEN u[i - 0] ELSE buf[i]
  BY <1>0, PutIs
<1>2. r = [b EXCEPT !.buf = p]
  BY DEF buf
<1> HIDE DEF p
<1>3. ASSUME NEW i \in 1..Len(u) PROVE p[i] = u[i]
  <2>1. i \in 1..Len(buf) /\ i > 0 /\ i <= 0 + Len(u) /\ i - 0 = i
    BY <1>0
  <2> QED BY <1>1, <2>1
<1>4. p[Len(u) + 1] = Nul
  <2>1. Len(u) + 1 \in 1..Len(buf) /\ ~(Len(u) + 1 <= 0 + Len(u))
    BY <1>0
  <2>2. p[Len(u) + 1] = buf[Len(u) + 1]
    BY <1>1, <2>1
  <2>3. buf[Len(u) + 1] = Nul
    BY <1>0
  <2> QED BY <2>2, <2>3
<1>5. /\ r.buf = p /\ r.size = b.size /\ r.len = b.len /\ r.wild = FALSE
      /\ r = [buf |-> p, size |-> b.size, len |-> b.len, wild |-> FALSE]
  BY <1>0, <1>2 DEF Buffer
<1>6. HasFields(r, p, b.size, Len(u))
  BY <1>0, <1>5 DEF HasFields
<1>7. r \in Buffer
  <2> DEFINE size == b.size
             len == Len(u)
  <2>1. size \in Nat /\ len \in Nat /\ HasFields(r, p, size, len)
    BY <1>0, <1>6
  <2> HIDE DEF size, len
  <2> QED BY <1>1, <2>1, FieldsInBuffer
<1>8. b.size <= Len(p)
  BY <1>0, <1>1
<1>9. StrHolds(r, u)
  BY <1>0, <1>3, <1>4, <1>5, <1>7, <1>8 DEF StrHolds
<1> QED BY <1>7, <1>9, Outs

(* The same of an mbuff.                                                   *)
LEMMA MbOverWritten ==
  ASSUME NEW b, NEW t \in Seq(Chars), MbIs(b, t), NEW u \in Seq(Chars), Len(u) = Len(t),
         NEW r, r = [b EXCEPT !.buf = Put(b.buf, 0, u)]
  PROVE  MbOut(r, u, FALSE)
<1> DEFINE buf == b.buf
           size == b.size
<1>0. /\ b \in Buffer /\ b.wild = FALSE /\ buf \in Seq(Bytes) /\ b.len = Len(t)
      /\ size \in Nat /\ b.len <= size /\ size <= Len(buf)
  BY MbFacts
<1>1. r = [buf |-> Put(buf, 0, u), size |-> size, len |-> Len(u), wild |-> FALSE]
  BY <1>0 DEF Buffer
<1> HIDE DEF buf, size
<1>2. HasFields(r, Put(buf, 0, u), size, Len(u))
  <2> DEFINE p == Put(buf, 0, u)
             len == Len(u)
  <2>1. r = [buf |-> p, size |-> size, len |-> len, wild |-> FALSE]
    BY <1>1
  <2> HIDE DEF p, len
  <2>2. HasFields(r, p, size, len)
    <3>1. r.buf = p /\ r.size = size /\ r.len = len /\ r.wild = FALSE
      BY <2>1
    <3>2. r = [buf |-> r.buf, size |-> r.size, len |-> r.len, wild |-> r.wild]
      BY <2>1, <3>1
    <3> QED BY <3>1, <3>2 DEF HasFields
  <2> QED BY <2>2 DEF p, len
<1>3. Len(u) <= size
  BY <1>0
<1>4. r \in Buffer /\ MbIs(r, u)
  BY <1>0, <1>2, <1>3, MbPutText
<1> QED BY <1>4 DEF MbOut

(* The texts that are written.                                             *)
LEMMA TurnedIs ==
  ASSUME NEW t \in Seq(Chars)
  PROVE  Turned(t) \in Seq(Chars) /\ Len(Turned(t)) = Len(t)
<1>1. \A i \in 1..Len(t) : t[Len(t) + 1 - i] \in Chars
  OBVIOUS
<1> QED BY <1>1 DEF Turned

(* A text in one case is as long as it was.                                *)
LEMMA CaseIs ==
  ASSUME NEW t \in Seq(Chars)
  PROVE  /\ Mapped(t, ToUpper) \in Seq(Chars) /\ Len(Mapped(t, ToUpper)) = Len(t)
         /\ Mapped(t, ToLower) \in Seq(Chars) /\ Len(Mapped(t, ToLower)) = Len(t)
<1>1. "a" \in Chars /\ "A" \in Chars
  BY TextAssumption
<1>2. \A c \in Chars : ToUpper(c) \in Chars /\ ToLower(c) \in Chars
  BY <1>1 DEF ToUpper, ToLower
<1>3. Mapped(t, ToUpper) = [i \in 1..Len(t) |-> ToUpper(t[i])]
  BY DEF Mapped
<1>4. Mapped(t, ToLower) = [i \in 1..Len(t) |-> ToLower(t[i])]
  BY DEF Mapped
<1>5. \A i \in 1..Len(t) : ToUpper(t[i]) \in Chars /\ ToLower(t[i]) \in Chars
  BY <1>2
<1> HIDE DEF ToUpper, ToLower, Mapped
<1>6. /\ [i \in 1..Len(t) |-> ToUpper(t[i])] \in Seq(Chars)
      /\ Len([i \in 1..Len(t) |-> ToUpper(t[i])]) = Len(t)
  BY <1>5
<1>7. /\ [i \in 1..Len(t) |-> ToLower(t[i])] \in Seq(Chars)
      /\ Len([i \in 1..Len(t) |-> ToLower(t[i])]) = Len(t)
  BY <1>5
<1> QED BY <1>3, <1>4, <1>6, <1>7

(* spif_str_reverse() and its twins.                                       *)
LEMMA ReverseOut ==
  ASSUME NEW b, NEW m, NEW t \in Seq(Chars), StrIs(b, t), MbIs(m, t)
  PROVE  /\ StrOut(StrReverse(b), Turned(t), FALSE)
         /\ MbOut(MbReverse(m), Turned(t), FALSE)
<1> DEFINE u == Turned(t)
<1>0. u \in Seq(Chars) /\ Len(u) = Len(t)
  BY TurnedIs
<1>1. b \in Buffer /\ CText(b) = t
  BY StrFacts
<1>2. Content(m) = t
  BY MbFacts
<1>3. CASE b = NoText
  <2>1. StrReverse(b) = b /\ t = <<>>
    BY <1>3, BareOrNot DEF StrReverse
  <2>2. u = t
    BY <2>1 DEF Turned
  <2>3. StrOut(b, t, FALSE)
    BY <1>1, Outs
  <2> QED BY <1>0, <1>2, <2>1, <2>2, <2>3, MbOverWritten DEF MbReverse
<1>4. CASE b # NoText
  <2>1. StrHolds(b, t) /\ b.buf # <<>>
    BY <1>4, BareOrNot
  <2> DEFINE r == StrReverse(b)
             s == MbReverse(m)
  <2>2. r = [b EXCEPT !.buf = Put(b.buf, 0, u)]
    BY <1>1, <2>1 DEF StrReverse
  <2>3. s = [m EXCEPT !.buf = Put(m.buf, 0, u)]
    BY <1>2 DEF MbReverse
  <2> HIDE DEF r, s, u
  <2>4. StrOut(r, u, FALSE)
    BY <1>0, <2>1, <2>2, OverWritten
  <2>5. MbOut(s, u, FALSE)
    BY <1>0, <2>3, MbOverWritten
  <2> QED BY <2>4, <2>5 DEF r, s, u
<1> QED BY <1>3, <1>4

(* spif_str_upcase(), spif_str_downcase(); they write a NULL buffer.       *)
LEMMA CaseOut ==
  ASSUME NEW b, NEW t \in Seq(Chars), StrIs(b, t), NEW u \in Seq(Chars), Len(u) = Len(t),
         NEW r, r = [b EXCEPT !.buf = Put(@, 0, u), !.wild = @ \/ b.buf = <<>>]
  PROVE  StrOut(r, u, b = NoText)
<1>0. b \in Buffer /\ b.wild = FALSE
  BY StrFacts
<1>1. CASE b = NoText
  <2>1. b.buf = <<>> /\ b.buf \in Seq(Bytes)
    BY <1>0, <1>1, BareOrNot DEF Buffer
  <2>2. r = [b EXCEPT !.buf = Put(b.buf, 0, u), !.wild = TRUE]
    BY <2>1
  <2>3. Put(b.buf, 0, u) \in Seq(Bytes)
    <3> DEFINE buf == b.buf
    <3>1. buf \in Seq(Bytes) /\ u \in Seq(Bytes) /\ 0 \in Nat
      BY <2>1, ByteKinds
    <3> HIDE DEF buf
    <3>2. Put(buf, 0, u) \in Seq(Bytes)
      BY <3>1, PutIs
    <3> QED BY <3>2 DEF buf
  <2>4. r \in Buffer /\ r.wild = TRUE
    BY <1>0, <2>2, <2>3 DEF Buffer
  <2> QED BY <1>1, <2>4, Outs DEF StrOut
<1>2. CASE b # NoText
  <2>1. StrHolds(b, t) /\ b.buf # <<>>
    BY <1>2, BareOrNot
  <2>2. (b.wild \/ b.buf = <<>>) = b.wild
    BY <1>0, <2>1
  <2>3. r = [b EXCEPT !.buf = Put(b.buf, 0, u), !.wild = b.wild]
    BY <2>2
  <2>4. r = [b EXCEPT !.buf = Put(b.buf, 0, u)]
    BY <1>0, <2>3 DEF Buffer
  <2>5. StrOut(r, u, FALSE)
    BY <2>1, <2>4, OverWritten
  <2> QED BY <1>2, <2>5 DEF StrOut
<1> QED BY <1>1, <1>2

(* spif_str_clear(), which writes a NULL buffer, and spif_mbuff_clear().   *)
LEMMA ClearOut ==
  ASSUME NEW b, NEW t \in Seq(Chars), StrIs(b, t), NEW c \in Chars
  PROVE  StrOut(StrClear(b, c), Filled(Len(t), c), b = NoText)
<1> DEFINE buf == b.buf
           size == b.size
           len == b.len
           all == Filled(Len(buf), c)
           one == <<Nul>>
           p == Put(all, len, one)
           w == buf = <<>>
           u == Filled(Len(t), c)
           r == StrClear(b, c)
           g == [buf |-> p, size |-> size, len |-> len, wild |-> w]
<1>0. /\ b \in Buffer /\ b.wild = FALSE /\ buf \in Seq(Bytes) /\ Len(buf) \in Nat
      /\ len = Len(t) /\ Len(t) \in Nat /\ size \in Nat /\ len \in Nat /\ size <= Len(buf)
  BY StrFacts
<1>1. c \in Bytes /\ Nul \in Bytes /\ one \in Seq(Bytes) /\ Len(one) = 1 /\ one[1] = Nul
  BY ByteKinds
<1>2. u \in Seq(Chars) /\ Len(u) = Len(t) /\ \A i \in 1..Len(t) : u[i] = c
  BY <1>0, FilledIs
<1>3. w \in BOOLEAN /\ (b = NoText => w) /\ (b # NoText => ~w /\ size > Len(t))
  BY BareOrNot
<1>4. b = [buf |-> buf, size |-> size, len |-> len, wild |-> FALSE]
  BY <1>0 DEF Buffer
<1>5. r = Settled([b EXCEPT !.buf = p, !.wild = b.wild \/ w])
  BY DEF StrClear
<1> HIDE DEF buf, size, len, w, p, r
<1>6. r = Settled(g)
  <2>1. (b.wild \/ w) = w
    BY <1>0, <1>3
  <2>2. [b EXCEPT !.buf = p, !.wild = w] = g
    <3> DEFINE h == [b EXCEPT !.buf = p, !.wild = w]
    <3>1. h = [b EXCEPT !.buf = p, !.wild = w]
      OBVIOUS
    <3> HIDE DEF h
    <3>2. h = [buf |-> p, size |-> size, len |-> len, wild |-> w]
      BY <1>4, <3>1
    <3> QED BY <3>2 DEF h
  <2> QED BY <1>5, <2>1, <2>2
<1>7. all \in Seq(Bytes) /\ Len(all) = Len(buf) /\ \A i \in 1..Len(buf) : all[i] = c
  BY <1>0, <1>1, FilledIs
<1> HIDE DEF all, one
<1>8. /\ p \in Seq(Bytes) /\ Len(p) = Len(all)
      /\ \A i \in 1..Len(all) : p[i] = IF i > len /\ i <= len + Len(one) THEN one[i - len] ELSE all[i]
  BY <1>0, <1>1, <1>7, PutIs DEF p
<1>9. CASE b = NoText
  <2>1. /\ r \in Buffer /\ r.wild = w
    BY <1>0, <1>3, <1>6, <1>8, SettledIs
  <2>2. r.wild = TRUE
    BY <1>3, <1>9, <2>1
  <2> QED BY <1>9, <2>1, <2>2, Outs DEF StrOut, r
<1>10. CASE b # NoText
  <2>0. w = FALSE /\ size > Len(t) /\ size <= Len(p) /\ Len(p) = Len(buf)
    BY <1>0, <1>3, <1>7, <1>8, <1>10
  <2>1. g.buf = p /\ g.size = size /\ g.len = Len(u) /\ g.wild = FALSE
    BY <1>0, <1>2, <2>0
  <2>2. g \in Buffer
    BY <1>0, <1>3, <1>8, BufferOf
  <2> HIDE DEF g, u
  <2>3. ASSUME NEW i \in 1..Len(u) PROVE p[i] = u[i]
    <3>1. i \in 1..Len(all) /\ i \in 1..Len(buf) /\ ~(i > len)
      BY <1>0, <1>2, <1>7, <2>0
    <3>2. p[i] = all[i]
      BY <1>8, <3>1
    <3> QED BY <1>2, <1>7, <3>1, <3>2
  <2>4. p[Len(u) + 1] = Nul
    <3>1. /\ Len(u) + 1 \in 1..Len(all) /\ Len(u) + 1 > len /\ Len(u) + 1 <= len + Len(one)
          /\ (Len(u) + 1) - len = 1
      BY <1>0, <1>1, <1>2, <1>7, <2>0
    <3>2. p[Len(u) + 1] = one[1]
      BY <1>8, <3>1
    <3> QED BY <1>1, <3>2
  <2>5. StrHolds(g, u)
    BY <1>0, <1>2, <2>0, <2>1, <2>2, <2>3, <2>4 DEF StrHolds
  <2>6. StrHolds(r, u)
    BY <1>2, <1>6, <2>5, SettledHolds
  <2>7. StrOut(r, u, FALSE)
    BY <2>6, Outs DEF StrHolds
  <2> QED BY <1>10, <2>7 DEF StrOut, r, u
<1> QED BY <1>9, <1>10

(* What a clear leaves of an mbuff.                                        *)
LEMMA MbClearOut ==
  ASSUME NEW m, NEW t \in Seq(Chars), MbIs(m, t), NEW c \in Chars
  PROVE  MbOut(MbClear(m, c), Filled(Len(t), c), FALSE)
<1> DEFINE u == Filled(Len(t), c)
           r == MbClear(m, c)
<1>0. m.len = Len(t) /\ Len(t) \in Nat
  BY MbFacts
<1>1. u \in Seq(Chars) /\ Len(u) = Len(t)
  BY <1>0, FilledIs
<1>2. r = [m EXCEPT !.buf = Put(m.buf, 0, u)]
  BY <1>0 DEF MbClear
<1> HIDE DEF u, r
<1>3. MbOut(r, u, FALSE)
  BY <1>1, <1>2, MbOverWritten
<1> QED BY <1>3 DEF u, r

(* Some positions of a text have a greatest one.                           *)
LEMMA LargestIs ==
  ASSUME NEW n \in Nat, NEW T \in SUBSET (0..n), T # {}
  PROVE  Largest(T) \in T /\ \A j \in T : j <= Largest(T)
<1> DEFINE U == {u \in Nat : \A i \in T : i <= u}
<1>1. n \in U /\ U \in SUBSET Nat
  OBVIOUS
<1>2. PICK s \in U : \A u \in U : s <= u
  <2> HIDE DEF U
  <2> QED BY <1>1, SmallestExists
<1>3. s \in Nat /\ \A i \in T : i <= s
  BY <1>2
<1>4. s \in T
  <2>1. SUFFICES ASSUME s \notin T PROVE FALSE
    OBVIOUS
  <2>2. \A i \in T : i \in Nat /\ i <= s - 1
    BY <1>3, <2>1
  <2>3. PICK i \in T : TRUE
    OBVIOUS
  <2>4. s - 1 \in Nat
    BY <1>3, <2>2, <2>3
  <2>5. s - 1 \in U
    BY <2>2, <2>4
  <2> QED BY <1>2, <1>3, <2>5
<1>5. T \in SUBSET Nat
  OBVIOUS
<1>6. Largest(T) = s
  BY <1>3, <1>4, <1>5, LargestOf
<1> QED BY <1>3, <1>4, <1>6

(* The part of a text between its first and its last ink.                  *)
LEMMA StrippedIs ==
  ASSUME NEW t \in Seq(Chars),
         NEW ink, ink = {i \in 1..Len(t) : ~IsSpace(t[i])}
  PROVE  /\ ink = {} => Stripped(t) = <<>>
         /\ ink # {} => /\ Smallest(ink) \in 1..Len(t) /\ Largest(ink) \in 1..Len(t)
                        /\ Stripped(t) = SubSeq(t, Smallest(ink), Largest(ink))
                        /\ Stripped(t) \in Seq(Chars) /\ Stripped(t) # <<>>
<1>0. ink \in SUBSET Nat /\ ink \in SUBSET (0..Len(t)) /\ ink \in SUBSET (1..Len(t)) /\ Len(t) \in Nat
  OBVIOUS
<1>1. ink = {} => Stripped(t) = <<>>
  BY DEF Stripped
<1>2. ASSUME ink # {}
      PROVE  /\ Smallest(ink) \in 1..Len(t) /\ Largest(ink) \in 1..Len(t)
             /\ Stripped(t) = SubSeq(t, Smallest(ink), Largest(ink))
             /\ Stripped(t) \in Seq(Chars) /\ Stripped(t) # <<>>
  <2>1. Stripped(t) = SubSeq(t, Smallest(ink), Largest(ink))
    BY <1>2 DEF Stripped
  <2>2. Smallest(ink) \in ink /\ \A j \in ink : Smallest(ink) <= j
    BY <1>0, <1>2, SmallestIs
  <2>3. Largest(ink) \in ink
    BY <1>0, <1>2, LargestIs
  <2> DEFINE a == Smallest(ink) - 1
             z == Largest(ink)
  <2>4. a \in Nat /\ z \in Nat /\ a <= z /\ z <= Len(t) /\ Smallest(ink) = a + 1 /\ z - a > 0
    BY <1>0, <2>2, <2>3
  <2>5. Smallest(ink) \in 1..Len(t) /\ Largest(ink) \in 1..Len(t)
    BY <1>0, <2>2, <2>3
  <2> HIDE DEF a
  <2>6. SubSeq(t, a + 1, z) \in Seq(Chars) /\ Len(SubSeq(t, a + 1, z)) = z - a
    <3> HIDE DEF z
    <3> QED BY <2>4, PartOf
  <2>7. SubSeq(t, a + 1, z) # <<>>
    <3> HIDE DEF z
    <3> QED BY <2>4, <2>6
  <2> QED BY <2>1, <2>4, <2>5, <2>6, <2>7
<1> QED BY <1>1, <1>2

(* v is what a trim leaves of a text with its ink in these places.         *)
TrimLeaves(v, t, ink) ==
  /\ v \in Seq(Chars)
  /\ ink = {} => v # <<>>
  /\ ink # {} => v = Stripped(t)

(* What the two loops of a trim leave.                                     *)
LEMMA LoopsLeave ==
  ASSUME NEW t \in Seq(Chars), t # <<>>,
         NEW ink, ink = {i \in 1..Len(t) : ~IsSpace(t[i])},
         NEW start, start = Smallest(ink \cup {Len(t)}),
         NEW end, end = Largest({i \in ink : i >= start} \cup {start})
  PROVE  TrimLeaves(SubSeq(t, start, end), t, ink)
<1>0. Len(t) \in Nat /\ Len(t) >= 1 /\ ink \in SUBSET Nat /\ ink \in SUBSET (1..Len(t))
  OBVIOUS
<1>1. CASE ink = {}
  <2> DEFINE n == Len(t)
  <2>0. n \in Nat /\ n >= 1
    BY <1>0
  <2>1. ink \cup {Len(t)} = {n}
    BY <1>1
  <2> HIDE DEF n
  <2>2. Smallest({n}) = n
    BY <2>0, SmallestOf
  <2>3. start = n
    BY <2>1, <2>2
  <2>4. {i \in ink : i >= start} \cup {start} = {n}
    BY <1>1, <2>3
  <2>5. Largest({n}) = n
    BY <2>0, LargestOf
  <2>6. end = n
    BY <2>4, <2>5
  <2> DEFINE a == n - 1
  <2>7. a \in Nat /\ n = a + 1 /\ a <= n /\ n <= Len(t) /\ n - a = 1
    BY <2>0 DEF n
  <2> HIDE DEF a
  <2>8. SubSeq(t, a + 1, n) \in Seq(Chars) /\ Len(SubSeq(t, a + 1, n)) = n - a
    BY <2>0, <2>7, PartOf
  <2>9. SubSeq(t, start, end) \in Seq(Chars) /\ Len(SubSeq(t, start, end)) = 1
    BY <2>3, <2>6, <2>7, <2>8
  <2>10. SubSeq(t, start, end) # <<>>
    <3> DEFINE v == SubSeq(t, start, end)
    <3>1. v \in Seq(Chars) /\ Len(v) = 1
      BY <2>9
    <3> HIDE DEF v
    <3>2. v # <<>>
      <4>1. v = <<>> => Len(v) = 0
        OBVIOUS
      <4> QED BY <3>1, <4>1
    <3> QED BY <3>2 DEF v
  <2> QED BY <1>1, <2>9, <2>10 DEF TrimLeaves
<1>2. CASE ink # {}
  <2>1. Smallest(ink) \in ink /\ \A j \in ink : Smallest(ink) <= j
    BY <1>0, <1>2, SmallestIs
  <2> DEFINE s == Smallest(ink)
             both == ink \cup {Len(t)}
  <2>2. both \in SUBSET Nat /\ s \in both /\ \A j \in both : s <= j
    <3> HIDE DEF Smallest
    <3>1. s \in 1..Len(t)
      BY <1>0, <2>1
    <3> HIDE DEF s
    <3>2. s \in ink /\ \A j \in ink : s <= j
      BY <2>1 DEF s
    <3> QED BY <1>0, <3>1, <3>2
  <2>3. start = Smallest(both)
    OBVIOUS
  <2> HIDE DEF both, s
  <2>4. Smallest(both) = s
    BY <2>2, SmallestOf
  <2>5. start = s
    BY <2>3, <2>4
  <2>6. {i \in ink : i >= start} \cup {start} = ink
    BY <1>0, <2>1, <2>5 DEF s
  <2>7. end = Largest(ink)
    BY <2>6
  <2>8. SubSeq(t, start, end) = Stripped(t) /\ Stripped(t) \in Seq(Chars)
    BY <1>2, <2>5, <2>7, StrippedIs DEF s
  <2> QED BY <1>2, <2>8 DEF TrimLeaves
<1> QED BY <1>1, <1>2

(* What is all blank keeps one blank, and an empty object is read in front *)
(* of its start.                                                           *)
LEMMA TrimOut ==
  ASSUME NEW b, NEW m, NEW t \in Seq(Chars), StrIs(b, t), MbIs(m, t)
  PROVE  /\ Stripped(t) \in Seq(Chars)
         /\ StrOut(StrTrim(b), Stripped(t), Stripped(t) = <<>>)
         /\ MbOut(MbTrim(m), Stripped(t), Stripped(t) = <<>>)
<1> DEFINE ink == {i \in 1..Len(t) : ~IsSpace(t[i])}
           start == Smallest(ink \cup {Len(t)})
           end == Largest({i \in ink : i >= start} \cup {start})
           v == SubSeq(t, start, end)
           blank == Stripped(t) = <<>>
           u == Stripped(t)
<1>0. b.len = Len(t) /\ Content(b) = t /\ m.len = Len(t) /\ Content(m) = t
  BY StrFacts, MbFacts
<1>1. (ink = {} <=> blank) /\ u \in Seq(Chars)
  <2> DEFINE k == ink
  <2>1. k = {i \in 1..Len(t) : ~IsSpace(t[i])}
    OBVIOUS
  <2> HIDE DEF k
  <2>2. /\ k = {} => Stripped(t) = <<>>
        /\ k # {} => Stripped(t) \in Seq(Chars) /\ Stripped(t) # <<>>
    BY <2>1, StrippedIs
  <2>3. <<>> \in Seq(Chars)
    OBVIOUS
  <2> QED BY <2>2, <2>3 DEF k
<1>2. CASE t = <<>>
  <2> DEFINE none == [NoText EXCEPT !.wild = TRUE]
  <2>1. StrTrim(b) = none /\ MbTrim(m) = none
    BY <1>0, <1>2 DEF StrTrim, MbTrim
  <2>2. none \in Buffer /\ none.wild = TRUE
    BY NoTextIs DEF Buffer
  <2>3. ink = {}
    BY <1>2
  <2> HIDE DEF none, ink
  <2>4. StrOut(none, u, TRUE) /\ MbOut(none, u, TRUE)
    BY <2>2, Outs
  <2> QED BY <1>1, <2>1, <2>3, <2>4 DEF StrOut, MbOut
<1>3. CASE t # <<>>
  <2>0. b.len # 0 /\ m.len # 0
    BY <1>0, <1>3
  <2>1. StrTrim(b) = StrFromPtr(v)
    BY <1>0, <2>0, Zenon DEF StrTrim
  <2>2. MbTrim(m) = MbFromPtr(v)
    BY <1>0, <2>0, Zenon DEF MbTrim
  <2>3. v \in Seq(Chars) /\ (ink = {} => v # <<>>) /\ (ink # {} => v = u)
    <3> DEFINE k == ink
               s == start
               e == end
    <3>1. /\ k = {i \in 1..Len(t) : ~IsSpace(t[i])} /\ s = Smallest(k \cup {Len(t)})
          /\ e = Largest({i \in k : i >= s} \cup {s})
      OBVIOUS
    <3> HIDE DEF k, s, e
    <3>2. TrimLeaves(SubSeq(t, s, e), t, k)
      BY <1>3, <3>1, LoopsLeave
    <3> QED BY <3>2 DEF k, s, e, TrimLeaves
  <2> HIDE DEF v, ink, u, blank
  <2>4. StrHolds(StrFromPtr(v), v) /\ MbIs(MbFromPtr(v), v)
    BY <2>3, FromPtrHolds
  <2>5. StrFromPtr(v) \in Buffer /\ MbFromPtr(v) \in Buffer /\ StrIs(StrFromPtr(v), v)
    BY <2>4 DEF StrHolds, MbIs, StrIs
  <2>6. CASE ink = {}
    <3>1. u = <<>> /\ v # u
      BY <1>1, <2>3, <2>6 DEF u, blank
    <3>2. ~StrRight(StrFromPtr(v), u) /\ ~MbRight(MbFromPtr(v), u)
      BY <2>3, <2>4, <2>5, <3>1, StrWrong, MbWrong
    <3> QED BY <1>1, <2>1, <2>2, <2>5, <2>6, <3>2 DEF StrOut, MbOut, u, blank
  <2>7. CASE ink # {}
    <3>1. StrOut(StrFromPtr(v), v, FALSE) /\ MbOut(MbFromPtr(v), v, FALSE)
      BY <2>4, <2>5, Outs
    <3> QED BY <1>1, <2>1, <2>2, <2>3, <2>7, <3>1 DEF StrOut, MbOut, u, blank
  <2> QED BY <2>6, <2>7
<1> QED BY <1>1, <1>2, <1>3

(* A part of a buffer that holds that part of a text.                      *)
LEMMA PeekPart ==
  ASSUME NEW buf \in Seq(Bytes), NEW t \in Seq(Chars), Len(t) <= Len(buf),
         \A i \in 1..Len(t) : buf[i] = t[i],
         NEW at \in Nat, NEW n \in Nat, at + n <= Len(t)
  PROVE  /\ Peek(buf, at, n) \in Seq(Chars) /\ Len(Peek(buf, at, n)) = n
         /\ \A i \in 1..n : Peek(buf, at, n)[i] = t[at + i]
<1> DEFINE p == Peek(buf, at, n)
<1>0. Len(t) \in Nat /\ Len(buf) \in Nat
  OBVIOUS
<1>1. /\ p \in Seq(Bytes) /\ Len(p) = n
      /\ \A i \in 1..n : p[i] = IF at + i <= Len(buf) THEN buf[at + i] ELSE Junk
  BY PeekIs
<1> HIDE DEF p
<1>2. ASSUME NEW i \in 1..n PROVE p[i] = t[at + i] /\ p[i] \in Chars
  <2>1. at + i \in 1..Len(t) /\ at + i <= Len(buf)
    BY <1>0
  <2>2. p[i] = buf[at + i]
    BY <1>1, <2>1
  <2>3. buf[at + i] = t[at + i] /\ t[at + i] \in Chars
    BY <2>1
  <2> QED BY <2>2, <2>3
<1>3. p \in Seq(Chars)
  <2>1. \A i \in 1..Len(p) : p[i] \in Chars
    BY <1>1, <1>2
  <2> QED BY <1>1, <2>1
<1> QED BY <1>1, <1>2, <1>3 DEF p

(* The part of a string and of an mbuff.                                   *)
LEMMA PartOut ==
  ASSUME NEW b, NEW m, NEW t \in Seq(Chars), StrIs(b, t), MbIs(m, t),
         NEW i \in 0..(Len(t) - 1), NEW most \in 0..(Len(t) - i)
  PROVE  /\ SubSeq(t, i + 1, i + most) \in Seq(Chars)
         /\ StrOut(StrFromBuff(Peek(b.buf, i, b.len - i), most), SubSeq(t, i + 1, i + most), FALSE)
         /\ MbOut(MbFromPtr(SubSeq(m.buf, i + 1, i + most)), SubSeq(t, i + 1, i + most), FALSE)
<1> DEFINE n == Len(t) - i
           v == Peek(b.buf, i, n)
           u == SubSeq(t, i + 1, i + most)
           buf == m.buf
           z == i + most
<1>0. /\ Len(t) \in Nat /\ i \in Nat /\ most \in Nat /\ n \in Nat /\ most <= n /\ n + i = Len(t)
      /\ z \in Nat /\ i <= z /\ z <= Len(t) /\ z - i = most
  OBVIOUS
<1>1. /\ b.buf \in Seq(Bytes) /\ b.len = Len(t) /\ Len(t) <= Len(b.buf)
      /\ \A j \in 1..Len(t) : b.buf[j] = t[j]
  <2>1. /\ b.buf \in Seq(Bytes) /\ b.len = Len(t) /\ b.len <= b.size /\ b.size <= Len(b.buf)
        /\ b.size \in Nat /\ Len(b.buf) \in Nat /\ \A j \in 1..Len(t) : b.buf[j] = t[j]
    BY StrFacts
  <2> QED BY <2>1
<1>2. /\ buf \in Seq(Bytes) /\ Len(buf) \in Nat /\ Len(t) <= Len(buf)
      /\ \A j \in 1..Len(t) : buf[j] = t[j]
  <2>1. /\ m.buf \in Seq(Bytes) /\ m.len = Len(t) /\ m.len <= m.size /\ m.size <= Len(m.buf)
        /\ m.size \in Nat /\ Len(m.buf) \in Nat /\ \A j \in 1..Len(t) : m.buf[j] = t[j]
    BY MbFacts
  <2> QED BY <2>1
<1>3. v \in Seq(Chars) /\ Len(v) = n /\ \A j \in 1..n : v[j] = t[i + j]
  <2>1. i + n <= Len(t)
    BY <1>0
  <2> HIDE DEF n
  <2> QED BY <1>0, <1>1, <2>1, PeekPart, ZenonT(30)
<1>4. /\ SubSeq(t, i + 1, z) \in Seq(Chars) /\ Len(SubSeq(t, i + 1, z)) = most
      /\ \A j \in 1..most : SubSeq(t, i + 1, z)[j] = t[i + j]
  <2> HIDE DEF z
  <2>1. /\ SubSeq(t, i + 1, z) \in Seq(Chars) /\ Len(SubSeq(t, i + 1, z)) = z - i
        /\ \A j \in 1..(z - i) : SubSeq(t, i + 1, z)[j] = t[i + j]
    BY <1>0, PartOf
  <2> QED BY <1>0, <2>1
<1> HIDE DEF v, buf, n
<1>5. u \in Seq(Chars) /\ Len(u) = most /\ \A j \in 1..most : u[j] = t[i + j]
  BY <1>4
<1> HIDE DEF u, z
<1>6. StrOut(StrFromBuff(v, most), u, FALSE)
  <2> DEFINE w == SubSeq(v, 1, most)
  <2>1. most = IF Len(v) < most THEN Len(v) ELSE most
    BY <1>0, <1>3
  <2>2. w \in Seq(Chars) /\ Len(w) = most /\ StrHolds(StrFromBuff(v, most), w)
    BY <1>0, <1>3, <2>1, StrFromBuffHolds
  <2>3. \A j \in 1..most : w[j] = v[j]
    BY <1>0, <1>3
  <2> HIDE DEF w
  <2>4. \A j \in 1..most : w[j] = u[j]
    BY <1>0, <1>3, <1>5, <2>3, SMTT(30)
  <2>5. w = u
    BY <1>5, <2>2, <2>4, SameElements
  <2> QED BY <2>2, <2>5, Outs DEF StrHolds
<1>7. MbOut(MbFromPtr(SubSeq(buf, i + 1, z)), u, FALSE)
  <2> DEFINE w == SubSeq(buf, i + 1, z)
  <2>1. w \in Seq(Bytes) /\ Len(w) = most /\ \A j \in 1..most : w[j] = buf[i + j]
    <3>1. z <= Len(buf)
      BY <1>0, <1>2
    <3>2. /\ w \in Seq(Bytes) /\ Len(w) = z - i /\ \A j \in 1..(z - i) : w[j] = buf[i + j]
      BY <1>0, <1>2, <3>1, PartOf
    <3> QED BY <1>0, <3>2
  <2> HIDE DEF w
  <2>2. ASSUME NEW j \in 1..most PROVE w[j] = u[j]
    <3>1. i + j \in 1..Len(t)
      BY <1>0
    <3> QED BY <1>2, <1>5, <2>1, <3>1
  <2>3. u \in Seq(Bytes)
    BY <1>5, ByteKinds
  <2>4. w = u
    BY <1>5, <2>1, <2>2, <2>3, SameElements
  <2>5. MbIs(MbFromPtr(u), u)
    BY <1>5, FromPtrHolds
  <2> QED BY <2>4, <2>5 DEF MbOut, MbIs, w
<1> QED BY <1>1, <1>5, <1>6, <1>7 DEF u, v, n, z, buf

(* The end of a text with the NUL behind it.                               *)
LEMMA PeekEnd ==
  ASSUME NEW b, NEW t \in Seq(Chars), StrHolds(b, t), NEW at \in 0..Len(t),
         NEW n, n = Len(t) - at + 1
  PROVE  /\ SubSeq(t, at + 1, Len(t)) \in Seq(Chars)
         /\ Ended(Peek(b.buf, at, n), SubSeq(t, at + 1, Len(t)))
<1> DEFINE buf == b.buf
           p == Peek(buf, at, n)
           len == Len(t)
           u == SubSeq(t, at + 1, len)
<1>0. /\ buf \in Seq(Bytes) /\ Len(buf) \in Nat /\ len \in Nat /\ len + 1 <= Len(buf)
      /\ (\A i \in 1..Len(t) : buf[i] = t[i]) /\ buf[len + 1] = Nul
      /\ at \in Nat /\ n \in Nat /\ at <= len /\ at + n = len + 1 /\ n - 1 = len - at
  BY DEF StrHolds, Buffer
<1> HIDE DEF buf
<1>1. /\ p \in Seq(Bytes) /\ Len(p) = n
      /\ \A i \in 1..n : p[i] = IF at + i <= Len(buf) THEN buf[at + i] ELSE Junk
  BY <1>0, PeekIs
<1>2. /\ u \in Seq(Chars) /\ Len(u) = len - at
      /\ \A i \in 1..(len - at) : u[i] = t[at + i]
  <2>1. len <= Len(t)
    BY <1>0
  <2>2. len \in Nat /\ at <= len
    BY <1>0
  <2> HIDE DEF len
  <2> QED BY <1>0, <2>1, <2>2, PartOf, SMTT(30)
<1> HIDE DEF p, u
<1>3. ASSUME NEW i \in 1..n PROVE p[i] = buf[at + i]
  <2>1. at + i <= Len(buf)
    BY <1>0
  <2> QED BY <1>1, <2>1
<1>4. ASSUME NEW i \in 1..Len(u) PROVE p[i] = u[i]
  <2>1. i \in 1..n /\ i \in 1..(len - at) /\ at + i \in 1..Len(t)
    BY <1>0, <1>2
  <2>2. p[i] = buf[at + i] /\ u[i] = t[at + i]
    BY <1>2, <1>3, <2>1
  <2> QED BY <1>0, <2>1, <2>2
<1>5. p[Len(u) + 1] = Nul
  <2>1. Len(u) + 1 = n /\ n \in 1..n /\ at + n = len + 1
    BY <1>0, <1>2
  <2> QED BY <1>0, <1>3, <2>1
<1>6. Len(p) = Len(u) + 1
  BY <1>0, <1>1, <1>2
<1>7. Ended(p, u)
  BY <1>1, <1>4, <1>5, <1>6 DEF Ended
<1> QED BY <1>2, <1>7 DEF u, p, buf, len

(* What ends in a NUL still does behind another text.                      *)
LEMMA EndedJoined ==
  ASSUME NEW x \in Seq(Chars), NEW y \in Seq(Chars), NEW z, Ended(z, y),
         NEW xz, xz = x \o z, NEW xy, xy = x \o y
  PROVE  xy \in Seq(Chars) /\ Len(xy) = Len(x) + Len(y) /\ Ended(xz, xy)
<1>0. /\ z \in Seq(Bytes) /\ Len(z) = Len(y) + 1 /\ (\A i \in 1..Len(y) : z[i] = y[i])
      /\ z[Len(y) + 1] = Nul /\ Len(x) \in Nat /\ Len(y) \in Nat /\ x \in Seq(Bytes)
  BY ByteKinds DEF Ended
<1>1. /\ xz \in Seq(Bytes) /\ Len(xz) = Len(x) + Len(z)
      /\ (\A i \in 1..Len(x) : xz[i] = x[i])
      /\ \A i \in 1..Len(z) : xz[Len(x) + i] = z[i]
  <2>1. z \in Seq(Bytes) /\ x \in Seq(Bytes)
    BY <1>0
  <2> QED BY <2>1, Joined
<1>2. /\ xy \in Seq(Chars) /\ Len(xy) = Len(x) + Len(y)
      /\ (\A i \in 1..Len(x) : xy[i] = x[i])
      /\ \A i \in 1..Len(y) : xy[Len(x) + i] = y[i]
  BY Joined
<1>3. Len(xz) = Len(xy) + 1
  BY <1>0, <1>1, <1>2
<1>4. ASSUME NEW i \in 1..Len(xy) PROVE xz[i] = xy[i]
  <2>1. CASE i <= Len(x)
    BY <1>0, <1>1, <1>2, <2>1
  <2>2. CASE ~(i <= Len(x))
    <3>1. PICK j \in 1..Len(y) : i = Len(x) + j
      <4>1. i - Len(x) \in 1..Len(y) /\ i = Len(x) + (i - Len(x))
        BY <1>0, <1>2, <2>2
      <4> QED BY <4>1
    <3>2. j \in 1..Len(z)
      BY <1>0
    <3> QED BY <1>0, <1>1, <1>2, <3>1, <3>2
  <2> QED BY <2>1, <2>2
<1>5. xz[Len(xy) + 1] = Nul
  <2>1. Len(xy) + 1 = Len(x) + Len(z) /\ Len(z) \in 1..Len(z)
    BY <1>0, <1>2
  <2>2. xz[Len(x) + Len(z)] = z[Len(z)]
    BY <1>1, <2>1
  <2>3. z[Len(z)] = Nul
    BY <1>0
  <2> QED BY <2>1, <2>2, <2>3
<1> QED BY <1>1, <1>2, <1>3, <1>4, <1>5 DEF Ended

(* What a splice of an accepted part makes of a text.                      *)
Spliced(t, i, c, x) == SubSeq(t, 1, i) \o x \o SubSeq(t, i + c + 1, Len(t))

(* It is a text, and so are its ends.                                      *)
LEMMA SplicedIs ==
  ASSUME NEW t \in Seq(Chars), NEW i \in Nat, NEW c \in Nat, i + c <= Len(t), NEW x \in Seq(Chars)
  PROVE  /\ Spliced(t, i, c, x) \in Seq(Chars)
         /\ Len(Spliced(t, i, c, x)) = Len(t) + Len(x) - c
         /\ SubSeq(t, 1, i) \in Seq(Chars) /\ Len(SubSeq(t, 1, i)) = i
         /\ SubSeq(t, i + c + 1, Len(t)) \in Seq(Chars)
<1> DEFINE head == SubSeq(t, 1, i)
           at == i + c
           len == Len(t)
           tail == SubSeq(t, at + 1, len)
<1>0. len \in Nat /\ at \in Nat /\ at <= len /\ len <= Len(t) /\ 0 \in Nat /\ 0 <= i /\ i <= Len(t)
  OBVIOUS
<1>1. head \in Seq(Chars) /\ Len(head) = i
  <2>1. SubSeq(t, 0 + 1, i) \in Seq(Chars) /\ Len(SubSeq(t, 0 + 1, i)) = i - 0
    BY <1>0, PartOf
  <2> QED BY <2>1
<1> HIDE DEF at, len
<1>2. tail \in Seq(Chars) /\ Len(tail) = len - at
  BY <1>0, PartOf
<1> HIDE DEF head, tail
<1> DEFINE front == head \o x
<1>3. front \in Seq(Chars) /\ Len(front) = i + Len(x)
  BY <1>1, LenOfConcat
<1> HIDE DEF front
<1>4. front \o tail \in Seq(Chars) /\ Len(front \o tail) = i + Len(x) + (len - at)
  BY <1>2, <1>3, LenOfConcat, SMTT(30)
<1>5. Spliced(t, i, c, x) = front \o tail
  BY DEF Spliced, front, head, tail, at, len
<1>6. i + Len(x) + (len - at) = Len(t) + Len(x) - c
  BY DEF len, at
<1> QED BY <1>1, <1>2, <1>4, <1>5, <1>6 DEF head, tail, at, len

(* spif_str_splice() of an accepted part.                                  *)
LEMMA SpliceHolds ==
  ASSUME NEW b, NEW t \in Seq(Chars), StrHolds(b, t), NEW x \in Seq(Chars),
         NEW i \in Nat, NEW c \in Nat, i + c <= Len(t), NEW n, n = Len(t) - i - c + 1
  PROVE  Ended(Peek(b.buf, 0, i) \o x \o Peek(b.buf, i + c, n), Spliced(t, i, c, x))
<1> DEFINE buf == b.buf
           head == SubSeq(t, 1, i)
           at == i + c
           tail == SubSeq(t, at + 1, Len(t))
           end == Peek(buf, at, n)
           front == head \o x
<1>0. /\ buf \in Seq(Bytes) /\ Len(buf) \in Nat /\ Len(t) \in Nat /\ Len(t) <= Len(buf)
      /\ (\A j \in 1..Len(t) : buf[j] = t[j])
      /\ at \in Nat /\ at \in 0..Len(t) /\ n = Len(t) - at + 1 /\ i <= Len(t)
  BY DEF StrHolds, Buffer
<1>1. head \in Seq(Chars) /\ Len(head) = i /\ tail \in Seq(Chars)
  BY SplicedIs
<1>2. Peek(buf, 0, i) = head
  <2> DEFINE p == Peek(buf, 0, i)
  <2>1. 0 \in Nat /\ 0 + i <= Len(t)
    BY <1>0
  <2> HIDE DEF buf
  <2>2. p \in Seq(Chars) /\ Len(p) = i /\ \A j \in 1..i : p[j] = t[0 + j]
    BY <1>0, <2>1, PeekPart
  <2>3. \A j \in 1..i : head[j] = t[j]
    BY <1>0
  <2> HIDE DEF p, head
  <2>4. \A j \in 1..i : p[j] = head[j]
    BY <2>2, <2>3
  <2> QED BY <1>1, <2>2, <2>4, SameElements DEF p
<1>3. Ended(end, tail)
  <2> HIDE DEF at
  <2>1. Ended(Peek(b.buf, at, n), SubSeq(t, at + 1, Len(t)))
    BY <1>0, PeekEnd
  <2> QED BY <2>1
<1> HIDE DEF head, tail, end, buf, at
<1>4. front \in Seq(Chars)
  BY <1>1
<1> DEFINE xz == front \o end
           xy == front \o tail
<1>5. xz = front \o end /\ xy = front \o tail
  OBVIOUS
<1> HIDE DEF xz, xy, front
<1>6. Ended(xz, xy)
  BY <1>1, <1>3, <1>4, <1>5, EndedJoined
<1>7. xz = Peek(b.buf, 0, i) \o x \o Peek(b.buf, i + c, n)
  BY <1>2, <1>5 DEF front, end, buf, at
<1>8. xy = Spliced(t, i, c, x)
  BY <1>5 DEF front, tail, head, at, Spliced
<1> QED BY <1>6, <1>7, <1>8

(* The string that an accepted part leaves.                                *)
StrSpliced(b, i, c, x, new, all) ==
  [b EXCEPT !.buf = Put(IF b.size < new THEN Resized(@, new) ELSE @, 0, all),
            !.size = IF b.size < new THEN new ELSE b.size, !.len = new - 1,
            !.wild = @ \/ new > IF b.size < new THEN new ELSE Len(b.buf)]

(* A part of n places that begins at i.                                    *)
LEMMA WithinIs ==
  ASSUME NEW n \in Nat, NEW i \in 0..(n - 1), NEW c \in 0..(n - i)
  PROVE  i \in Nat /\ c \in Nat /\ i + c <= n /\ n > 0
OBVIOUS

(* It has the text that a splice should give.                              *)
LEMMA StrSplicedIs ==
  ASSUME NEW b, NEW t \in Seq(Chars), StrHolds(b, t), NEW x \in Seq(Chars),
         NEW i \in Nat, NEW c \in Nat, i + c <= Len(t),
         NEW new, new = Len(t) + Len(x) - c + 1,
         NEW all, all = Peek(b.buf, 0, i) \o x \o Peek(b.buf, i + c, Len(t) - i - c + 1),
         NEW r, r = Settled(StrSpliced(b, i, c, x, new, all))
  PROVE  StrOut(r, Spliced(t, i, c, x), FALSE)
<1> DEFINE buf == b.buf
           size == b.size
           u == Spliced(t, i, c, x)
           more == size < new
           room == IF more THEN new ELSE size
           old == IF more THEN Resized(buf, new) ELSE buf
           over == new > (IF more THEN new ELSE Len(buf))
           g == StrSpliced(b, i, c, x, new, all)
           p == Put(old, 0, all)
<1>0. /\ b \in Buffer /\ buf \in Seq(Bytes) /\ size \in Nat /\ Len(buf) \in Nat
      /\ size <= Len(buf) /\ b.wild = FALSE
  BY DEF StrHolds, Buffer
<1>1. u \in Seq(Chars) /\ Len(u) = Len(t) + Len(x) - c
  <2> HIDE DEF u
  <2>1. Spliced(t, i, c, x) \in Seq(Chars) /\ Len(Spliced(t, i, c, x)) = Len(t) + Len(x) - c
    BY SplicedIs
  <2> QED BY <2>1 DEF u
<1>2. Ended(all, u)
  <2> DEFINE n == Len(t) - i - c + 1
  <2>1. n = Len(t) - i - c + 1 /\ all = Peek(b.buf, 0, i) \o x \o Peek(b.buf, i + c, n)
    OBVIOUS
  <2> HIDE DEF n
  <2>2. Ended(Peek(b.buf, 0, i) \o x \o Peek(b.buf, i + c, n), Spliced(t, i, c, x))
    BY <2>1, SpliceHolds
  <2> QED BY <2>1, <2>2
<1> HIDE DEF u, buf, size
<1>3. new \in Nat /\ Len(u) \in Nat /\ new = Len(u) + 1 /\ new - 1 = Len(u)
  <2>1. Len(u) \in Nat
    BY <1>1
  <2> QED BY <1>1, <2>1
<1>4. Resized(buf, new) \in Seq(Bytes) /\ Len(Resized(buf, new)) = new
  BY <1>0, <1>3, ResizedIs
<1>5. old \in Seq(Bytes) /\ room \in Nat /\ Len(u) < room /\ room <= Len(old)
  <2>1. CASE more
    BY <1>3, <1>4, <2>1
  <2>2. CASE ~more
    BY <1>0, <1>3, <2>2
  <2> QED BY <2>1, <2>2
<1>6. over \in BOOLEAN /\ ~over
  BY <1>0, <1>3
<1>7. g = [b EXCEPT !.buf = p, !.size = room, !.len = new - 1, !.wild = b.wild \/ over]
  BY Zenon DEF StrSpliced, buf, size
<1> HIDE DEF g, p, room, over, old
<1>8. (b.wild \/ over) = FALSE
  BY <1>0, <1>6
<1> DEFINE len == Len(u)
<1>9. g = [b EXCEPT !.buf = p, !.size = room, !.len = len, !.wild = FALSE]
  BY <1>3, <1>7, <1>8
<1> HIDE DEF len
<1>10. HasFields(g, p, room, len)
  <2>1. g.buf = p /\ g.size = room /\ g.len = len /\ g.wild = FALSE
    BY <1>0, <1>9 DEF Buffer
  <2>2. g = [buf |-> g.buf, size |-> g.size, len |-> g.len, wild |-> g.wild]
    BY <1>0, <1>9, <2>1 DEF Buffer
  <2> QED BY <2>1, <2>2 DEF HasFields
<1>11. StrHolds(g, u)
  <2>1. HasFields(g, Put(old, 0, all), room, Len(u))
    BY <1>10 DEF p, len
  <2>2. u \in Seq(Chars)
    BY <1>1
  <2> QED BY <1>2, <1>5, <2>1, <2>2, PutText
<1>12. r = Settled(g) /\ u \in Seq(Chars)
  BY <1>1 DEF g
<1>13. StrHolds(r, u)
  BY <1>11, <1>12, SettledHolds
<1> QED BY <1>13, Outs DEF StrHolds, u

(* spif_str_splice(): an accepted part is replaced, and nothing else is.   *)
LEMMA StrSpliceOut ==
  ASSUME NEW b, NEW t \in Seq(Chars), StrIs(b, t), NEW x \in Seq(Chars),
         NEW idx \in Int, NEW count \in Int,
         NEW i, i = IF idx < 0 THEN Len(t) + idx ELSE idx,
         NEW c, c = IF count < 0 THEN i + Len(t) + count ELSE count
  PROVE  /\ i \in 0..(Len(t) - 1) /\ c \in 0..(Len(t) - i) =>
              StrOut(StrSplice(b, idx, count, x), Spliced(t, i, c, x), FALSE)
         /\ ~(i \in 0..(Len(t) - 1) /\ c \in 0..(Len(t) - i)) =>
              StrOut(StrSplice(b, idx, count, x), t, FALSE)
<1> DEFINE r == StrSplice(b, idx, count, x)
           I == IF idx < 0 THEN b.len + idx ELSE idx
           C == IF count < 0 THEN I + b.len + count ELSE count
           new == b.len + Len(x) - C + 1
           all == Peek(b.buf, 0, I) \o x \o Peek(b.buf, I + C, b.len - I - C + 1)
           fits == I \in 0..(b.len - 1) /\ C \in 0..(b.len - I)
<1>0. b \in Buffer /\ b.len = Len(t)
  BY StrFacts
<1>1. I = i /\ C = c
  BY <1>0
<1>2. r = IF I \notin 0..(b.len - 1) \/ C \notin 0..(b.len - I) THEN b
          ELSE Settled(StrSpliced(b, I, C, x, new, all))
  BY Zenon DEF StrSplice, StrSpliced
<1> HIDE DEF r, I, C
<1>3. ASSUME ~(i \in 0..(Len(t) - 1) /\ c \in 0..(Len(t) - i)) PROVE StrOut(r, t, FALSE)
  <2>1. r = b
    BY <1>0, <1>1, <1>2, <1>3
  <2>2. StrOut(b, t, FALSE)
    BY <1>0, Outs
  <2> QED BY <2>1, <2>2
<1>4. ASSUME i \in 0..(Len(t) - 1), c \in 0..(Len(t) - i) PROVE StrOut(r, Spliced(t, i, c, x), FALSE)
  <2>0. new = Len(t) + Len(x) - c + 1
    BY <1>0, <1>1
  <2>1. all = Peek(b.buf, 0, i) \o x \o Peek(b.buf, i + c, Len(t) - i - c + 1)
    BY <1>0, <1>1
  <2> HIDE DEF new, all
  <2>2. r = Settled(StrSpliced(b, i, c, x, new, all))
    BY <1>0, <1>1, <1>2, <1>4
  <2>3. Len(t) \in Nat
    OBVIOUS
  <2>4. i \in Nat /\ c \in Nat /\ i + c <= Len(t) /\ Len(t) > 0
    BY <1>4, <2>3, WithinIs
  <2>5. StrHolds(b, t)
    <3>1. t # <<>>
      BY <2>4
    <3> QED BY <3>1 DEF StrIs
  <2> QED BY <2>0, <2>1, <2>2, <2>4, <2>5, StrSplicedIs, ZenonT(30)
<1> QED BY <1>3, <1>4 DEF r

(* Two sequences have the same part where they have the same elements.     *)
LEMMA SamePart ==
  ASSUME NEW buf \in Seq(Bytes), NEW t \in Seq(Chars), Len(t) <= Len(buf),
         \A j \in 1..Len(t) : buf[j] = t[j],
         NEW i \in Nat, NEW z \in Nat, i <= z, z <= Len(t)
  PROVE  SubSeq(buf, i + 1, z) = SubSeq(t, i + 1, z)
<1> DEFINE p == SubSeq(buf, i + 1, z)
           u == SubSeq(t, i + 1, z)
<1>0. Len(t) \in Nat /\ Len(buf) \in Nat /\ z <= Len(buf) /\ t \in Seq(Bytes)
  BY ByteKinds
<1>1. p \in Seq(Bytes) /\ Len(p) = z - i /\ \A j \in 1..(z - i) : p[j] = buf[i + j]
  BY <1>0, PartOf
<1>2. u \in Seq(Bytes) /\ Len(u) = z - i /\ \A j \in 1..(z - i) : u[j] = t[i + j]
  BY <1>0, PartOf
<1> HIDE DEF p, u
<1>3. ASSUME NEW j \in 1..(z - i) PROVE p[j] = u[j]
  <2>1. i + j \in 1..Len(t)
    BY <1>0
  <2> QED BY <1>1, <1>2, <2>1
<1>4. p = u
  BY <1>1, <1>2, <1>3, SameElements
<1> QED BY <1>4 DEF p, u

(* The mbuff that an accepted part leaves.                                 *)
MbSpliced(b, new, all) ==
  [b EXCEPT !.buf = Put(IF b.size < new THEN Resized(@, new) ELSE @, 0, all),
            !.size = IF b.size < new THEN new ELSE @, !.len = new]

(* It has the text that a splice should give.                              *)
LEMMA MbSplicedIs ==
  ASSUME NEW b, NEW t \in Seq(Chars), MbIs(b, t), NEW x \in Seq(Chars),
         NEW i \in Nat, NEW c \in Nat, i + c <= Len(t),
         NEW new, new = Len(t) + Len(x) - c,
         NEW all, all = SubSeq(b.buf, 1, i) \o x \o SubSeq(b.buf, i + c + 1, Len(t)),
         NEW r, r = MbSpliced(b, new, all)
  PROVE  MbOut(r, Spliced(t, i, c, x), FALSE)
<1> DEFINE buf == b.buf
           size == b.size
           u == Spliced(t, i, c, x)
           more == size < new
           room == IF more THEN new ELSE size
           old == IF more THEN Resized(buf, new) ELSE buf
           p == Put(old, 0, all)
<1>0. /\ b \in Buffer /\ buf \in Seq(Bytes) /\ size \in Nat /\ Len(buf) \in Nat
      /\ Len(t) <= size /\ size <= Len(buf) /\ b.wild = FALSE /\ \A j \in 1..Len(t) : buf[j] = t[j]
  BY MbFacts
<1>1. u \in Seq(Chars) /\ Len(u) = Len(t) + Len(x) - c
  <2> HIDE DEF u
  <2>1. Spliced(t, i, c, x) \in Seq(Chars) /\ Len(Spliced(t, i, c, x)) = Len(t) + Len(x) - c
    BY SplicedIs
  <2> QED BY <2>1 DEF u
<1>2. all = u
  <2> DEFINE at == i + c
             len == Len(t)
  <2>1. Len(t) <= Len(buf) /\ len \in Nat /\ len <= Len(t) /\ at \in Nat /\ at <= len
        /\ 0 \in Nat /\ 0 <= i /\ i <= Len(t)
    BY <1>0
  <2> HIDE DEF at, len, buf
  <2>2. SubSeq(buf, 0 + 1, i) = SubSeq(t, 0 + 1, i)
    BY <1>0, <2>1, SamePart
  <2>3. SubSeq(buf, at + 1, len) = SubSeq(t, at + 1, len)
    BY <1>0, <2>1, SamePart
  <2>4. SubSeq(buf, 1, i) = SubSeq(t, 1, i)
    BY <2>2
  <2>5. all = SubSeq(buf, 1, i) \o x \o SubSeq(buf, at + 1, len)
    BY DEF buf, at, len
  <2>6. u = SubSeq(t, 1, i) \o x \o SubSeq(t, at + 1, len)
    BY DEF Spliced, at, len
  <2> QED BY <2>3, <2>4, <2>5, <2>6
<1> HIDE DEF u, buf, size
<1>3. new \in Nat /\ new = Len(u)
  <2>1. Len(u) \in Nat
    BY <1>1
  <2> QED BY <1>1, <2>1
<1>4. Resized(buf, new) \in Seq(Bytes) /\ Len(Resized(buf, new)) = new
  BY <1>0, <1>3, ResizedIs
<1>5. old \in Seq(Bytes) /\ room \in Nat /\ new <= room /\ room <= Len(old)
  <2>1. CASE more
    BY <1>3, <1>4, <2>1
  <2>2. CASE ~more
    BY <1>0, <1>3, <2>2
  <2> QED BY <2>1, <2>2
<1>6. r = [b EXCEPT !.buf = p, !.size = room, !.len = new]
  BY Zenon DEF MbSpliced, buf, size
<1> HIDE DEF p, room, old
<1>7. HasFields(r, p, room, new)
  <2> DEFINE g == r
  <2>0. g = [b EXCEPT !.buf = p, !.size = room, !.len = new]
    BY <1>6
  <2> HIDE DEF g
  <2>1. g.buf = p /\ g.size = room /\ g.len = new /\ g.wild = FALSE
    BY <1>0, <2>0 DEF Buffer
  <2>2. g = [buf |-> g.buf, size |-> g.size, len |-> g.len, wild |-> g.wild]
    BY <1>0, <2>0, <2>1 DEF Buffer
  <2>3. HasFields(g, p, room, new)
    BY <2>1, <2>2 DEF HasFields
  <2> QED BY <2>3 DEF g
<1>8. r \in Buffer /\ MbIs(r, u)
  <2>1. HasFields(r, Put(old, 0, u), room, Len(u))
    BY <1>2, <1>3, <1>7 DEF p
  <2>2. u \in Seq(Chars) /\ old \in Seq(Bytes) /\ room \in Nat /\ Len(u) <= room /\ room <= Len(old)
    BY <1>1, <1>3, <1>5
  <2> QED BY <2>1, <2>2, MbPutText
<1> QED BY <1>8 DEF MbOut, u

(* spif_mbuff_splice_from_ptr(), and spif_mbuff_splice(), which writes     *)
(* behind its temporary.                                                   *)
LEMMA MbSpliceOut ==
  ASSUME NEW b, NEW t \in Seq(Chars), MbIs(b, t), NEW x \in Seq(Chars),
         NEW idx \in Int, NEW count \in Int,
         NEW i, i = IF idx < 0 THEN Len(t) + idx ELSE idx,
         NEW c, c = IF count < 0 THEN i + Len(t) + count ELSE count, NEW v
  PROVE  /\ i \in 0..(Len(t) - 1) /\ c \in 0..(Len(t) - i) =>
              /\ MbOut(MbSpliceFromPtr(b, idx, count, x), Spliced(t, i, c, x), FALSE)
              /\ MbOut(MbSplice(b, idx, count, x), v, TRUE)
         /\ ~(i \in 0..(Len(t) - 1) /\ c \in 0..(Len(t) - i)) =>
              /\ MbOut(MbSpliceFromPtr(b, idx, count, x), t, FALSE)
              /\ MbOut(MbSplice(b, idx, count, x), t, FALSE)
<1> DEFINE r == MbSpliceFromPtr(b, idx, count, x)
           s == MbSplice(b, idx, count, x)
           I == IF idx < 0 THEN b.len + idx ELSE idx
           C == IF count < 0 THEN I + b.len + count ELSE count
           new == b.len + Len(x) - C
           all == SubSeq(b.buf, 1, I) \o x \o SubSeq(b.buf, I + C + 1, b.len)
           accepted == I \in 0..(b.len - 1) /\ C \in 0..(b.len - I)
<1>0. b \in Buffer /\ b.len = Len(t) /\ b.wild = FALSE
  BY MbFacts
<1>1. I = i /\ C = c
  BY <1>0
<1>2. r = IF I \notin 0..(b.len - 1) \/ C \notin 0..(b.len - I) THEN b ELSE MbSpliced(b, new, all)
  BY Zenon DEF MbSpliceFromPtr, MbSpliced
<1>3. s = [r EXCEPT !.wild = r.wild \/ accepted]
  BY Zenon DEF MbSplice
<1>4. accepted \in BOOLEAN /\ (accepted <=> i \in 0..(Len(t) - 1) /\ c \in 0..(Len(t) - i))
  BY <1>0, <1>1
<1> HIDE DEF r, s, I, C, accepted
<1>5. ASSUME ~(i \in 0..(Len(t) - 1) /\ c \in 0..(Len(t) - i))
      PROVE  MbOut(r, t, FALSE) /\ MbOut(s, t, FALSE)
  <2>1. r = b
    BY <1>0, <1>1, <1>2, <1>5
  <2>2. (r.wild \/ accepted) = r.wild
    BY <1>0, <1>4, <1>5, <2>1
  <2>3. s = [b EXCEPT !.wild = b.wild]
    BY <1>3, <2>1, <2>2
  <2>4. s = b
    BY <1>0, <2>3 DEF Buffer
  <2>5. MbOut(b, t, FALSE)
    BY <1>0, Outs
  <2> QED BY <2>1, <2>4, <2>5
<1>6. ASSUME i \in 0..(Len(t) - 1), c \in 0..(Len(t) - i)
      PROVE  MbOut(r, Spliced(t, i, c, x), FALSE) /\ MbOut(s, v, TRUE)
  <2>0. new = Len(t) + Len(x) - c
    BY <1>0, <1>1
  <2>1. all = SubSeq(b.buf, 1, i) \o x \o SubSeq(b.buf, i + c + 1, Len(t))
    BY <1>0, <1>1
  <2> HIDE DEF new, all
  <2>2. r = MbSpliced(b, new, all)
    BY <1>0, <1>1, <1>2, <1>6
  <2>3. Len(t) \in Nat
    OBVIOUS
  <2>4. i \in Nat /\ c \in Nat /\ i + c <= Len(t)
    BY <1>6, <2>3, WithinIs
  <2>5. MbOut(r, Spliced(t, i, c, x), FALSE) /\ r.wild = FALSE
    <3>1. MbOut(r, Spliced(t, i, c, x), FALSE)
      BY <2>0, <2>1, <2>2, <2>4, MbSplicedIs
    <3> QED BY <3>1 DEF MbOut, MbIs
  <2>6. (r.wild \/ accepted) = TRUE
    BY <1>4, <1>6
  <2>7. s = [r EXCEPT !.wild = TRUE]
    BY <1>3, <2>6
  <2>8. s \in Buffer /\ s.wild = TRUE
    BY <2>5, <2>7 DEF MbOut, Buffer
  <2>9. MbOut(s, v, TRUE)
    BY <2>8, Outs
  <2> QED BY <2>5, <2>9
<1> QED BY <1>5, <1>6 DEF r, s

(* Whoever has not parted has the text, and whoever has is wrong: the      *)
(* inductive invariant of the client.                                      *)
TextInv ==
  /\ text \in Seq(Chars) /\ Len(text) <= MaxText
  /\ ustr = str
  /\ textParted \subseteq {"str", "ustr", "mbuff"}
  /\ "ustr" \in textParted <=> "str" \in textParted
  /\ StrOut(str, text, "str" \in textParted)
  /\ MbOut(mbuff, text, "mbuff" \in textParted)

(* The two strings part together.                                          *)
LEMMA PartsAre ==
  ASSUME NEW sp \in BOOLEAN, NEW mp \in BOOLEAN,
         NEW parts, parts = Both(sp) \cup When("mbuff", mp)
  PROVE  /\ parts \subseteq {"str", "ustr", "mbuff"}
         /\ ("str" \in parts <=> sp) /\ ("ustr" \in parts <=> sp) /\ ("mbuff" \in parts <=> mp)
BY DEF Both, When

(* A call on which no class parts, or no mbuff.                            *)
LEMMA PartsNone ==
  /\ {} = Both(FALSE) \cup When("mbuff", FALSE)
  /\ \A sp \in BOOLEAN : Both(sp) = Both(sp) \cup When("mbuff", FALSE)
BY DEF Both, When

(* A step with an outcome that is as it says.                              *)
LEMMA StepKeeps ==
  ASSUME NEW t \in Seq(Chars), NEW s, NEW m, NEW sp \in BOOLEAN, NEW mp \in BOOLEAN,
         NEW parts, parts = Both(sp) \cup When("mbuff", mp),
         Becomes(t, s, s, m, parts), StrOut(s, t, sp), MbOut(m, t, mp)
  PROVE  TextInv'
<1>1. /\ Len(t) <= MaxText
      /\ text' = t /\ str' = s /\ ustr' = s /\ mbuff' = m /\ textParted' = parts
  BY DEF Becomes
<1>2. /\ parts \subseteq {"str", "ustr", "mbuff"}
      /\ ("str" \in parts <=> sp) /\ ("ustr" \in parts <=> sp) /\ ("mbuff" \in parts <=> mp)
  BY PartsAre
<1>3. StrOut(s, t, "str" \in parts)
  BY <1>2 DEF StrOut
<1>4. MbOut(m, t, "mbuff" \in parts)
  BY <1>2 DEF MbOut
<1>5. StrOut(str', text', "str" \in textParted')
  BY <1>1, <1>3
<1>6. MbOut(mbuff', text', "mbuff" \in textParted')
  BY <1>1, <1>4
<1>7. /\ text' \in Seq(Chars) /\ Len(text') <= MaxText /\ ustr' = str'
      /\ textParted' \subseteq {"str", "ustr", "mbuff"}
      /\ ("ustr" \in textParted' <=> "str" \in textParted')
  BY <1>1, <1>2
<1>8. StrOut(str, text, "str" \in textParted)'
  BY <1>5 DEF StrOut, StrIs, StrHolds, StrRight, StrSound, Content, CText
<1>9. MbOut(mbuff, text, "mbuff" \in textParted)'
  BY <1>6 DEF MbOut, MbIs, MbRight, MbSound, Content
<1> QED BY <1>7, <1>8, <1>9 DEF TextInv

(* Before a step the classes have the client's text.                       *)
LEMMA StillTogether ==
  ASSUME TextInv, textParted = {}
  PROVE  /\ text \in Seq(Chars) /\ ustr = str
         /\ StrIs(str, text) /\ MbIs(mbuff, text) /\ str.size \in Nat /\ str.len \in Nat
<1>1. /\ text \in Seq(Chars) /\ ustr = str /\ StrIs(str, text) /\ MbIs(mbuff, text)
  BY DEF TextInv, StrOut, MbOut
<1>2. str.size \in Nat /\ str.len \in Nat
  BY <1>1, StrFacts
<1> QED BY <1>1, <1>2

(* If a call is made, no class has parted yet.                             *)
LEMMA BecomesTogether ==
  ASSUME NEW t, NEW s, NEW u, NEW m, NEW parts, Becomes(t, s, u, m, parts)
  PROVE  textParted = {}
BY DEF Becomes

(* A step none parts on, and one only the strings part on.                 *)
LEMMA StepTogether ==
  ASSUME NEW t \in Seq(Chars), NEW s, NEW m,
         Becomes(t, s, s, m, {}), StrOut(s, t, FALSE), MbOut(m, t, FALSE)
  PROVE  TextInv'
<1>1. FALSE \in BOOLEAN
  OBVIOUS
<1> QED BY <1>1, PartsNone, StepKeeps

(* A step only the strings part on.                                        *)
LEMMA StepStrings ==
  ASSUME NEW t \in Seq(Chars), NEW s, NEW m, NEW sp \in BOOLEAN,
         Becomes(t, s, s, m, Both(sp)), StrOut(s, t, sp), MbOut(m, t, FALSE)
  PROVE  TextInv'
<1>1. FALSE \in BOOLEAN
  OBVIOUS
<1> QED BY <1>1, PartsNone, StepKeeps

(* Every call keeps the invariant: new objects.                            *)
LEMMA NewKeep ==
  ASSUME TextInv, NEW t \in Seq(Chars), NEW slack \in Nat, DoFromBuff(t, slack) \/ DoFromPtr(t)
  PROVE  TextInv'
<1>1. ASSUME DoFromBuff(t, slack) PROVE TextInv'
  <2> DEFINE s == StrFromBuff(t, Len(t) + slack)
             m == MbFromBuff(t, Len(t) + slack)
  <2>1. Becomes(t, s, s, m, {})
    BY <1>1 DEF DoFromBuff, UstrFromBuff
  <2>2. StrHolds(s, t) /\ MbIs(m, t)
    BY FromBuffHolds
  <2> HIDE DEF s, m
  <2>3. StrOut(s, t, FALSE) /\ MbOut(m, t, FALSE)
    BY <2>2, Outs DEF StrHolds, MbIs
  <2> QED BY <2>1, <2>3, StepTogether
<1>2. ASSUME DoFromPtr(t) PROVE TextInv'
  <2> DEFINE s == StrFromPtr(t)
             m == MbFromPtr(t)
  <2>1. Becomes(t, s, s, m, {})
    BY <1>2 DEF DoFromPtr, UstrFromPtr
  <2>2. StrHolds(s, t) /\ MbIs(m, t)
    BY FromPtrHolds
  <2> HIDE DEF s, m
  <2>3. StrOut(s, t, FALSE) /\ MbOut(m, t, FALSE)
    BY <2>2, Outs DEF StrHolds, MbIs
  <2> QED BY <2>1, <2>3, StepTogether
<1> QED BY <1>1, <1>2

(* A line of a file.                                                       *)
LEMMA FromFpKeeps ==
  ASSUME TextInv, NEW line \in Seq(Chars), NEW newline \in BOOLEAN, NEW start \in Nat,
         NEW moved \in BOOLEAN, DoFromFp(line, newline, start, moved)
  PROVE  TextInv'
<1> DEFINE sp == Len(line) + (IF newline THEN 1 ELSE 0) \notin 1..(BuffInc - 1)
           mp == (start > 0 /\ line # <<>>) \/ (moved /\ Len(line) > BuffInc)
           s == StrFromFp(line, newline)
           m == MbFromFp(line, ~moved, start, moved)
           parts == Both(sp) \cup When("mbuff", mp)
<1>1. Becomes(line, s, s, m, parts) /\ (moved => start = 0)
  BY DEF DoFromFp, UstrFromFp
<1>2. StrOut(s, line, sp) /\ MbOut(m, line, mp)
  BY <1>1, FromFpOut
<1>3. sp \in BOOLEAN /\ mp \in BOOLEAN
  OBVIOUS
<1>4. parts = Both(sp) \cup When("mbuff", mp)
  OBVIOUS
<1> HIDE DEF sp, mp, s, m, parts
<1> QED BY <1>1, <1>2, <1>3, <1>4, StepKeeps

(* What two reads of a descriptor bring.                                   *)
LEMMA FromFdKeeps ==
  ASSUME TextInv, NEW first \in Seq(Chars), NEW rest \in Seq(Chars), NEW seekable \in BOOLEAN,
         NEW moved \in BOOLEAN, NEW failed \in 0..2, NEW stale \in BOOLEAN,
         DoFromFd(first, rest, seekable, moved, failed, stale)
  PROVE  TextInv'
<1> DEFINE reads == IF rest = <<>> THEN 1 ELSE 2
           t == first \o rest
           eintr == failed > 0 \/ stale
           sp == eintr \/ (moved /\ reads = 2)
           mp == \/ seekable /\ first # <<>>
                 \/ failed = 1
                 \/ failed = 2 /\ Len(first) = BuffInc
                 \/ rest # <<>> /\ Len(first) < BuffInc
                 \/ rest # <<>> /\ moved
           s == StrFromFd(t, reads, moved, eintr)
           m == MbFromFd(first, rest, seekable, moved, failed)
           parts == Both(sp) \cup When("mbuff", mp)
<1>1. /\ Becomes(t, s, s, m, parts) /\ Len(first) <= BuffInc
      /\ (first = <<>> => rest = <<>> /\ failed # 2) /\ (seekable => failed = 0)
  BY DEF DoFromFd, UstrFromFd
<1>2. StrOut(s, t, sp) /\ MbOut(m, t, mp)
  <2> DEFINE r == reads
             e == eintr
  <2>1. r = (IF rest = <<>> THEN 1 ELSE 2) /\ e \in BOOLEAN
    OBVIOUS
  <2>2. sp \in BOOLEAN /\ mp \in BOOLEAN /\ (sp <=> e \/ (moved /\ r = 2))
    OBVIOUS
  <2>3. mp <=> \/ seekable /\ first # <<>>
               \/ failed = 1
               \/ failed = 2 /\ Len(first) = BuffInc
               \/ rest # <<>> /\ Len(first) < BuffInc
               \/ rest # <<>> /\ moved
    OBVIOUS
  <2> HIDE DEF r, e, sp, mp
  <2>4. StrOut(StrFromFd(first \o rest, r, moved, e), first \o rest, sp)
    BY <1>1, <2>1, <2>2, FromFdOut
  <2>5. MbOut(MbFromFd(first, rest, seekable, moved, failed), first \o rest, mp)
    BY <1>1, <2>1, <2>2, <2>3, FromFdOut
  <2> QED BY <2>4, <2>5 DEF r, e
<1>3. sp \in BOOLEAN /\ mp \in BOOLEAN /\ t \in Seq(Chars)
  OBVIOUS
<1>4. parts = Both(sp) \cup When("mbuff", mp)
  OBVIOUS
<1> HIDE DEF sp, mp, s, m, parts, t
<1> QED BY <1>1, <1>2, <1>3, <1>4, StepKeeps

(* An object that is done with or copied.                                  *)
LEMMA DoneKeeps ==
  ASSUME TextInv, DoDone \/ DoDup
  PROVE  TextInv'
<1>1. ASSUME DoDone PROVE TextInv'
  <2> DEFINE t == <<>>
             s == StrDone(str)
             m == MbDone(mbuff)
  <2>1. Becomes(t, s, UstrDone(ustr), m, {})
    BY <1>1 DEF DoDone
  <2>2. textParted = {}
    BY <2>1, BecomesTogether
  <2>3. ustr = str /\ StrIs(str, text) /\ MbIs(mbuff, text) /\ text \in Seq(Chars)
    BY <2>2, StillTogether
  <2>4. Becomes(t, s, s, m, {})
    BY <2>1, <2>3 DEF UstrDone
  <2>5. StrOut(s, t, FALSE) /\ MbOut(m, t, FALSE) /\ t \in Seq(Chars)
    <3>1. StrOut(StrDone(str), <<>>, FALSE) /\ MbOut(MbDone(mbuff), <<>>, FALSE)
      BY <2>3, DoneOut
    <3>2. <<>> \in Seq(Chars)
      OBVIOUS
    <3> QED BY <3>1, <3>2
  <2> HIDE DEF s, m, t
  <2> QED BY <2>4, <2>5, StepTogether
<1>2. ASSUME DoDup PROVE TextInv'
  <2> DEFINE s == StrDup(str)
             m == MbDup(mbuff)
             sp == Bare \/ Slack > 0
  <2>1. Becomes(text, s, UstrDup(ustr), m, Both(sp))
    BY <1>2 DEF DoDup
  <2>2. textParted = {}
    BY <2>1, BecomesTogether
  <2>3. ustr = str /\ StrIs(str, text) /\ MbIs(mbuff, text) /\ text \in Seq(Chars)
    BY <2>2, StillTogether
  <2>4. Becomes(text, s, s, m, Both(sp))
    BY <2>1, <2>3 DEF UstrDup
  <2>5. StrOut(s, text, sp) /\ sp \in BOOLEAN
    BY <2>3, DupOut DEF Bare, Slack
  <2>6. MbOut(m, text, FALSE)
    BY <2>3, MbFacts, Outs DEF MbDup
  <2> HIDE DEF s, m, sp
  <2> QED BY <2>3, <2>4, <2>5, <2>6, StepStrings
<1> QED BY <1>1, <1>2

(* The calls that add an object ...                                        *)
LEMMA AppendKeeps ==
  ASSUME TextInv, NEW x \in Seq(Chars), NEW slack \in Nat, DoAppend(x, slack) \/ DoPrepend(x, slack)
  PROVE  TextInv'
<1> DEFINE o == StrFromBuff(x, Len(x) + slack)
           p == MbFromBuff(x, Len(x) + slack)
<1>1. ASSUME DoAppend(x, slack) PROVE TextInv'
  <2> DEFINE t == text \o x
             s == StrAppend(str, o)
             m == MbAppend(mbuff, p)
             sp == Bare /\ x # <<>> /\ o.size = Len(x) + 1
  <2>1. Becomes(t, s, UstrAppend(ustr, o), m, Both(sp))
    BY <1>1 DEF DoAppend
  <2>2. textParted = {}
    BY <2>1, BecomesTogether
  <2>3. ustr = str /\ StrIs(str, text) /\ MbIs(mbuff, text) /\ text \in Seq(Chars)
    BY <2>2, StillTogether
  <2>4. Becomes(t, s, s, m, Both(sp))
    BY <2>1, <2>3 DEF UstrAppend
  <2>5. StrOut(s, t, sp)
    <3>1. o = StrFromBuff(x, Len(x) + slack)
      OBVIOUS
    <3> HIDE DEF o
    <3> QED BY <2>3, <3>1, AppendOut DEF Bare
  <2>6. MbOut(m, t, FALSE)
    <3>1. p = MbFromBuff(x, Len(x) + slack)
      OBVIOUS
    <3> HIDE DEF p
    <3> QED BY <2>3, <3>1, MbObjectsOut
  <2>7. t \in Seq(Chars) /\ sp \in BOOLEAN
    BY <2>3
  <2> HIDE DEF s, m, sp, t
  <2> QED BY <2>4, <2>5, <2>6, <2>7, StepStrings
<1>2. ASSUME DoPrepend(x, slack) PROVE TextInv'
  <2> DEFINE t == x \o text
             s == StrPrepend(str, o)
             m == MbPrepend(mbuff, p)
             sp == Bare /\ x # <<>>
  <2>1. Becomes(t, s, UstrPrepend(ustr, o), m, Both(sp))
    BY <1>2 DEF DoPrepend
  <2>2. textParted = {}
    BY <2>1, BecomesTogether
  <2>3. ustr = str /\ StrIs(str, text) /\ MbIs(mbuff, text) /\ text \in Seq(Chars)
    BY <2>2, StillTogether
  <2>4. Becomes(t, s, s, m, Both(sp))
    BY <2>1, <2>3 DEF UstrPrepend
  <2>5. StrOut(s, t, sp)
    <3>1. o = StrFromBuff(x, Len(x) + slack)
      OBVIOUS
    <3> HIDE DEF o
    <3> QED BY <2>3, <3>1, PrependOut DEF Bare
  <2>6. MbOut(m, t, FALSE)
    <3>1. p = MbFromBuff(x, Len(x) + slack)
      OBVIOUS
    <3> HIDE DEF p
    <3> QED BY <2>3, <3>1, MbObjectsOut
  <2>7. t \in Seq(Chars) /\ sp \in BOOLEAN
    BY <2>3
  <2> HIDE DEF s, m, sp, t
  <2> QED BY <2>4, <2>5, <2>6, <2>7, StepStrings
<1> QED BY <1>1, <1>2

(* ... characters ...                                                      *)
LEMMA FromPtrKeeps ==
  ASSUME TextInv, NEW x \in Seq(Chars), DoAppendFromPtr(x) \/ DoPrependFromPtr(x)
  PROVE  TextInv'
<1> DEFINE sp == Bare /\ x # <<>>
<1>1. ASSUME DoAppendFromPtr(x) PROVE TextInv'
  <2> DEFINE t == text \o x
             s == StrAppendFromPtr(str, x)
             m == MbAppendFromPtr(mbuff, x)
  <2>1. Becomes(t, s, UstrAppendFromPtr(ustr, x), m, Both(sp))
    BY <1>1 DEF DoAppendFromPtr
  <2>2. textParted = {}
    BY <2>1, BecomesTogether
  <2>3. ustr = str /\ StrIs(str, text) /\ MbIs(mbuff, text) /\ text \in Seq(Chars)
    BY <2>2, StillTogether
  <2>4. Becomes(t, s, s, m, Both(sp))
    BY <2>1, <2>3 DEF UstrAppendFromPtr
  <2>5. StrOut(s, t, sp) /\ MbOut(m, t, FALSE)
    BY <2>3, AppendsOut, MbGrowsOut DEF Bare
  <2>6. t \in Seq(Chars) /\ sp \in BOOLEAN
    BY <2>3
  <2> HIDE DEF s, m, sp, t
  <2> QED BY <2>4, <2>5, <2>6, StepStrings
<1>2. ASSUME DoPrependFromPtr(x) PROVE TextInv'
  <2> DEFINE t == x \o text
             s == StrPrependFromPtr(str, x)
             m == MbPrependFromPtr(mbuff, x)
  <2>1. Becomes(t, s, UstrPrependFromPtr(ustr, x), m, Both(sp))
    BY <1>2 DEF DoPrependFromPtr
  <2>2. textParted = {}
    BY <2>1, BecomesTogether
  <2>3. ustr = str /\ StrIs(str, text) /\ MbIs(mbuff, text) /\ text \in Seq(Chars)
    BY <2>2, StillTogether
  <2>4. Becomes(t, s, s, m, Both(sp))
    BY <2>1, <2>3 DEF UstrPrependFromPtr
  <2>5. StrOut(s, t, sp) /\ MbOut(m, t, FALSE)
    BY <2>3, PrependFromPtrOut, MbGrowsOut DEF Bare
  <2>6. t \in Seq(Chars) /\ sp \in BOOLEAN
    BY <2>3
  <2> HIDE DEF s, m, sp, t
  <2> QED BY <2>4, <2>5, <2>6, StepStrings
<1> QED BY <1>1, <1>2

(* ... or one character, and the one that fills.                           *)
LEMMA CharKeeps ==
  ASSUME TextInv, NEW c \in Chars, DoAppendChar(c) \/ DoPrependChar(c) \/ DoClear(c)
  PROVE  TextInv'
<1> DEFINE x == <<c>>
<1>0. x \in Seq(Chars)
  OBVIOUS
<1>1. ASSUME DoAppendChar(c) PROVE TextInv'
  <2> DEFINE t == Append(text, c)
             s == StrAppendChar(str, c)
             m == MbAppendFromPtr(mbuff, x)
             sp == Bare
  <2>1. Becomes(t, s, UstrAppendChar(ustr, c), m, Both(sp))
    BY <1>1 DEF DoAppendChar
  <2>2. textParted = {}
    BY <2>1, BecomesTogether
  <2>3. ustr = str /\ StrIs(str, text) /\ MbIs(mbuff, text) /\ text \in Seq(Chars)
    BY <2>2, StillTogether
  <2>4. Becomes(t, s, s, m, Both(sp))
    BY <2>1, <2>3 DEF UstrAppendChar
  <2>5. StrOut(s, t, sp)
    BY <1>0, <2>3, AppendsOut DEF Bare
  <2>6. MbOut(m, t, FALSE)
    <3>1. text \o x = t
      BY <2>3
    <3> HIDE DEF x, t
    <3>2. MbOut(MbAppendFromPtr(mbuff, x), text \o x, FALSE)
      BY <1>0, <2>3, MbGrowsOut
    <3> QED BY <3>1, <3>2
  <2>7. t \in Seq(Chars) /\ sp \in BOOLEAN
    BY <2>3 DEF Bare
  <2> HIDE DEF s, m, sp, t
  <2> QED BY <2>4, <2>5, <2>6, <2>7, StepStrings
<1>2. ASSUME DoPrependChar(c) PROVE TextInv'
  <2> DEFINE t == x \o text
             s == StrPrependChar(str, c)
             m == MbPrependFromPtr(mbuff, x)
             sp == Bare \/ Slack < 2
  <2>1. Becomes(t, s, UstrPrependChar(ustr, c), m, Both(sp))
    BY <1>2 DEF DoPrependChar
  <2>2. textParted = {}
    BY <2>1, BecomesTogether
  <2>3. /\ ustr = str /\ StrIs(str, text) /\ MbIs(mbuff, text) /\ text \in Seq(Chars)
        /\ str.size \in Nat /\ str.len \in Nat
    BY <2>2, StillTogether
  <2>4. Becomes(t, s, s, m, Both(sp))
    BY <2>1, <2>3 DEF UstrPrependChar
  <2>5. StrOut(s, t, sp)
    BY <2>3, PrependCharOut DEF Bare, Slack
  <2>6. MbOut(m, t, FALSE)
    BY <1>0, <2>3, MbGrowsOut
  <2>7. t \in Seq(Chars) /\ sp \in BOOLEAN
    BY <2>3 DEF Bare, Slack
  <2> HIDE DEF s, m, sp, t
  <2> QED BY <2>4, <2>5, <2>6, <2>7, StepStrings
<1>3. ASSUME DoClear(c) PROVE TextInv'
  <2> DEFINE t == Filled(Len(text), c)
             s == StrClear(str, c)
             m == MbClear(mbuff, c)
             sp == Bare
  <2>1. Becomes(t, s, UstrClear(ustr, c), m, Both(sp))
    BY <1>3 DEF DoClear
  <2>2. textParted = {}
    BY <2>1, BecomesTogether
  <2>3. ustr = str /\ StrIs(str, text) /\ MbIs(mbuff, text) /\ text \in Seq(Chars)
    BY <2>2, StillTogether
  <2>4. Becomes(t, s, s, m, Both(sp))
    BY <2>1, <2>3 DEF UstrClear
  <2>5. StrOut(s, t, sp) /\ MbOut(m, t, FALSE)
    BY <2>3, ClearOut, MbClearOut DEF Bare
  <2>6. t \in Seq(Chars) /\ sp \in BOOLEAN
    <3>1. Len(text) \in Nat
      BY <2>3
    <3>2. t \in Seq(Chars)
      BY <3>1, FilledIs
    <3> QED BY <3>2 DEF Bare
  <2> HIDE DEF s, m, sp, t
  <2> QED BY <2>4, <2>5, <2>6, StepStrings
<1> QED BY <1>1, <1>2, <1>3

(* The calls that change or leave what is there: without blanks,           *)
LEMMA TrimKeeps ==
  ASSUME TextInv, DoTrim
  PROVE  TextInv'
<1> DEFINE t == Stripped(text)
           blank == Stripped(text) = <<>>
           s == StrTrim(str)
           m == MbTrim(mbuff)
           parts == Both(blank) \cup When("mbuff", blank)
<1>1. Becomes(t, s, UstrTrim(ustr), m, parts)
  BY DEF DoTrim
<1>2. textParted = {}
  BY <1>1, BecomesTogether
<1>3. ustr = str /\ StrIs(str, text) /\ MbIs(mbuff, text) /\ text \in Seq(Chars)
  BY <1>2, StillTogether
<1>4. Becomes(t, s, s, m, parts)
  BY <1>1, <1>3 DEF UstrTrim
<1>5. t \in Seq(Chars) /\ StrOut(s, t, blank) /\ MbOut(m, t, blank)
  BY <1>3, TrimOut
<1>6. blank \in BOOLEAN /\ parts = Both(blank) \cup When("mbuff", blank)
  OBVIOUS
<1> HIDE DEF t, blank, s, m, parts
<1> QED BY <1>4, <1>5, <1>6, StepKeeps

(* from the end,                                                           *)
LEMMA ReverseKeeps ==
  ASSUME TextInv, DoReverse
  PROVE  TextInv'
<1> DEFINE t == Turned(text)
           s == StrReverse(str)
           m == MbReverse(mbuff)
<1>1. Becomes(t, s, UstrReverse(ustr), m, {})
  BY DEF DoReverse
<1>2. textParted = {}
  BY <1>1, BecomesTogether
<1>3. ustr = str /\ StrIs(str, text) /\ MbIs(mbuff, text) /\ text \in Seq(Chars)
  BY <1>2, StillTogether
<1>4. Becomes(t, s, s, m, {})
  BY <1>1, <1>3 DEF UstrReverse
<1>5. StrOut(s, t, FALSE) /\ MbOut(m, t, FALSE)
  BY <1>3, ReverseOut
<1>6. t \in Seq(Chars)
  BY <1>3, TurnedIs
<1> HIDE DEF t, s, m
<1> QED BY <1>4, <1>5, <1>6, StepTogether

(* in one case,                                                            *)
LEMMA CaseKeeps ==
  ASSUME TextInv, DoUpcase \/ DoDowncase
  PROVE  TextInv'
<1>1. ASSUME DoUpcase PROVE TextInv'
  <2> DEFINE t == Mapped(text, ToUpper)
             s == StrUpcase(str)
             m == MbFromPtr(t)
             sp == Bare
  <2>1. Becomes(t, s, UstrUpcase(ustr), m, Both(sp))
    BY <1>1 DEF DoUpcase
  <2>2. textParted = {}
    BY <2>1, BecomesTogether
  <2>3. ustr = str /\ StrIs(str, text) /\ MbIs(mbuff, text) /\ text \in Seq(Chars)
    BY <2>2, StillTogether
  <2>4. Becomes(t, s, s, m, Both(sp))
    BY <2>1, <2>3 DEF UstrUpcase
  <2>5. t \in Seq(Chars) /\ Len(t) = Len(text)
    BY <2>3, CaseIs
  <2>6. CText(str) = text
    BY <2>3, StrFacts
  <2>7. s = [str EXCEPT !.buf = Put(@, 0, t), !.wild = @ \/ str.buf = <<>>]
    BY <2>6 DEF StrUpcase
  <2>8. sp \in BOOLEAN /\ sp = (str = NoText)
    BY DEF Bare
  <2> HIDE DEF s, t, sp
  <2>9. StrOut(s, t, str = NoText)
    BY <2>3, <2>5, <2>7, CaseOut
  <2>10. StrOut(s, t, sp)
    BY <2>8, <2>9
  <2>11. MbOut(m, t, FALSE)
    <3>1. MbIs(m, t)
      BY <2>5, FromPtrHolds
    <3> HIDE DEF m
    <3> QED BY <3>1, Outs DEF MbIs
  <2> HIDE DEF m
  <2> QED BY <2>4, <2>5, <2>8, <2>10, <2>11, StepStrings
<1>2. ASSUME DoDowncase PROVE TextInv'
  <2> DEFINE t == Mapped(text, ToLower)
             s == StrDowncase(str)
             m == MbFromPtr(t)
             sp == Bare
  <2>1. Becomes(t, s, UstrDowncase(ustr), m, Both(sp))
    BY <1>2 DEF DoDowncase
  <2>2. textParted = {}
    BY <2>1, BecomesTogether
  <2>3. ustr = str /\ StrIs(str, text) /\ MbIs(mbuff, text) /\ text \in Seq(Chars)
    BY <2>2, StillTogether
  <2>4. Becomes(t, s, s, m, Both(sp))
    BY <2>1, <2>3 DEF UstrDowncase
  <2>5. t \in Seq(Chars) /\ Len(t) = Len(text)
    BY <2>3, CaseIs
  <2>6. CText(str) = text
    BY <2>3, StrFacts
  <2>7. s = [str EXCEPT !.buf = Put(@, 0, t), !.wild = @ \/ str.buf = <<>>]
    BY <2>6 DEF StrDowncase
  <2>8. sp \in BOOLEAN /\ sp = (str = NoText)
    BY DEF Bare
  <2> HIDE DEF s, t, sp
  <2>9. StrOut(s, t, str = NoText)
    BY <2>3, <2>5, <2>7, CaseOut
  <2>10. StrOut(s, t, sp)
    BY <2>8, <2>9
  <2>11. MbOut(m, t, FALSE)
    <3>1. MbIs(m, t)
      BY <2>5, FromPtrHolds
    <3> HIDE DEF m
    <3> QED BY <3>1, Outs DEF MbIs
  <2> HIDE DEF m
  <2> QED BY <2>4, <2>5, <2>8, <2>10, <2>11, StepStrings
<1> QED BY <1>1, <1>2

(* The count of a part, no further than the end.                           *)
LEMMA CountIs ==
  ASSUME NEW len \in Nat, NEW i \in 0..(len - 1), NEW cnt \in Int,
         NEW n, n = IF cnt <= 0 THEN len - i + cnt ELSE cnt, n >= 0,
         NEW most, most = IF n > len - i THEN len - i ELSE n
  PROVE  /\ n \in Nat /\ most \in 0..(len - i)
         /\ ~(i \notin 0..(len - 1) \/ n < 0)
<1>1. n \in Int
  OBVIOUS
<1> QED BY <1>1

(* A part that there is of b: from i, n bytes of it and no more than most.  *)
PartAsked(b, idx, cnt, i, n, most) ==
  /\ i = IF idx < 0 THEN b.len + idx ELSE idx
  /\ n = IF cnt <= 0 THEN b.len - i + cnt ELSE cnt
  /\ most = IF n > b.len - i THEN b.len - i ELSE n
  /\ ~(i \notin 0..(b.len - 1) \/ n < 0)

(* What substr and subbuff answer for such a part.                         *)
LEMMA SubstrIs ==
  ASSUME NEW b, NEW m, NEW idx, NEW cnt, NEW i, NEW n, NEW most,
         PartAsked(b, idx, cnt, i, n, most), m.len = b.len,
         NEW s, s = StrSubstr(b, idx, cnt)[1], NEW u, u = MbSubbuff(m, idx, cnt)[1]
  PROVE  /\ s = StrFromBuff(Peek(b.buf, i, b.len - i), most)
         /\ u = MbFromPtr(SubSeq(m.buf, i + 1, i + most))
<1> DEFINE I == IF idx < 0 THEN b.len + idx ELSE idx
           C == IF cnt <= 0 THEN b.len - I + cnt ELSE cnt
           M == IF C > b.len - I THEN b.len - I ELSE C
           x == StrFromBuff(Peek(b.buf, I, b.len - I), M)
           y == MbFromPtr(SubSeq(m.buf, I + 1, I + M))
           ok == ~(I \notin 0..(b.len - 1) \/ C < 0)
<1>1. StrSubstr(b, idx, cnt) = IF I \notin 0..(b.len - 1) \/ C < 0 THEN <<>> ELSE <<x>>
  BY Zenon DEF StrSubstr
<1>2. MbSubbuff(m, idx, cnt) = IF I \notin 0..(b.len - 1) \/ C < 0 THEN <<>> ELSE <<y>>
  <2>1. m.len = b.len
    OBVIOUS
  <2> QED BY <2>1, Zenon DEF MbSubbuff
<1>3. I = i /\ C = n /\ M = most
  BY DEF PartAsked
<1>4. /\ x = StrFromBuff(Peek(b.buf, i, b.len - i), most)
      /\ y = MbFromPtr(SubSeq(m.buf, i + 1, i + most))
  BY <1>3, Zenon
<1>5. ~(I \notin 0..(b.len - 1) \/ C < 0)
  BY <1>3, Zenon DEF PartAsked
<1> HIDE DEF x, y, I, C, M
<1>6. StrSubstr(b, idx, cnt) = <<x>> /\ MbSubbuff(m, idx, cnt) = <<y>>
  BY <1>1, <1>2, <1>5
<1>7. StrSubstr(b, idx, cnt)[1] = x /\ MbSubbuff(m, idx, cnt)[1] = y
  BY <1>6
<1> QED BY <1>4, <1>7

(* or a part of it.                                                        *)
LEMMA SubstrKeeps ==
  ASSUME TextInv, NEW idx \in Int, NEW cnt \in Int, DoSubstr(idx, cnt)
  PROVE  TextInv'
<1> DEFINE i == Start(text, idx)
           n == IF cnt <= 0 THEN Room(text, idx) + cnt ELSE cnt
           most == IF n > Room(text, idx) THEN Room(text, idx) ELSE n
           t == SubSeq(text, i + 1, i + most)
           s == StrSubstr(str, idx, cnt)[1]
           m == MbSubbuff(mbuff, idx, cnt)[1]
<1>1. Becomes(t, s, UstrSubstr(ustr, idx, cnt)[1], m, {}) /\ Within(text, idx) /\ n >= 0
  BY DEF DoSubstr
<1>2. textParted = {}
  BY <1>1, BecomesTogether
<1>3. ustr = str /\ StrIs(str, text) /\ MbIs(mbuff, text) /\ text \in Seq(Chars)
  BY <1>2, StillTogether
<1>4. Becomes(t, s, s, m, {})
  BY <1>1, <1>3 DEF UstrSubstr
<1>5. str.len = Len(text) /\ mbuff.len = Len(text) /\ Len(text) \in Nat
  BY <1>3, StrFacts, MbFacts
<1>6. i = (IF idx < 0 THEN Len(text) + idx ELSE idx) /\ i \in 0..(Len(text) - 1)
  BY <1>1 DEF Within, Start
<1>7. Room(text, idx) = Len(text) - i
  BY DEF Room
<1>8. /\ n = (IF cnt <= 0 THEN Len(text) - i + cnt ELSE cnt) /\ n >= 0
      /\ most = IF n > Len(text) - i THEN Len(text) - i ELSE n
  BY <1>1, <1>7
<1> HIDE DEF i, n, most
<1>9. /\ n \in Nat /\ most \in 0..(Len(text) - i)
      /\ ~(i \notin 0..(Len(text) - 1) \/ n < 0)
  BY <1>5, <1>6, <1>8, CountIs
<1>10. /\ s = StrFromBuff(Peek(str.buf, i, str.len - i), most)
       /\ m = MbFromPtr(SubSeq(mbuff.buf, i + 1, i + most))
  <2>1. PartAsked(str, idx, cnt, i, n, most) /\ mbuff.len = str.len
    BY <1>5, <1>6, <1>8, <1>9 DEF PartAsked
  <2>2. s = StrSubstr(str, idx, cnt)[1] /\ m = MbSubbuff(mbuff, idx, cnt)[1]
    OBVIOUS
  <2> HIDE DEF s, m
  <2> QED BY <2>1, <2>2, SubstrIs
<1> HIDE DEF s, m
<1>11. t \in Seq(Chars) /\ StrOut(s, t, FALSE) /\ MbOut(m, t, FALSE)
  BY <1>3, <1>6, <1>9, <1>10, PartOut
<1> HIDE DEF t
<1> QED BY <1>4, <1>11, StepTogether

(* A class that has one text is right for another only if it is the same.  *)
LEMMA OtherText ==
  ASSUME NEW b, NEW v \in Seq(Chars), NEW t, NEW parts, parts = (t # v)
  PROVE  /\ StrOut(b, v, FALSE) => StrOut(b, t, parts)
         /\ MbOut(b, v, FALSE) => MbOut(b, t, parts)
<1>1. CASE t = v
  BY <1>1 DEF StrOut, MbOut
<1>2. CASE t # v
  BY <1>2, StrWrong, MbWrong DEF StrOut, MbOut
<1> QED BY <1>1, <1>2

(* The counts of a splice are those of a part or leave the text alone.     *)
SpliceFits(len, i, c) == i \in 0..(len - 1) /\ c \in 0..(len - i)

(* The text that a splice should give is one.                              *)
LEMMA OutcomeIs ==
  ASSUME text \in Seq(Chars), NEW idx \in Int, NEW x \in Seq(Chars), NEW n,
         NEW i, i = Start(text, idx)
  PROVE  /\ Splices(idx, n) <=> SpliceFits(Len(text), i, n)
         /\ SpliceFits(Len(text), i, n) => Outcome(idx, n, x) = Spliced(text, i, n, x)
         /\ ~SpliceFits(Len(text), i, n) => Outcome(idx, n, x) = text
         /\ Outcome(idx, n, x) \in Seq(Chars)
<1>1. Splices(idx, n) <=> SpliceFits(Len(text), i, n)
  BY DEF Splices, SpliceFits, Within, Room
<1>2. Replaced(text, idx, n, x) = Spliced(text, i, n, x)
  BY DEF Replaced, Spliced
<1>3. /\ SpliceFits(Len(text), i, n) => Outcome(idx, n, x) = Spliced(text, i, n, x)
      /\ ~SpliceFits(Len(text), i, n) => Outcome(idx, n, x) = text
  BY <1>1, <1>2 DEF Outcome
<1>4. ASSUME SpliceFits(Len(text), i, n)
      PROVE  Spliced(text, i, n, x) \in Seq(Chars)
  <2>1. Len(text) \in Nat
    OBVIOUS
  <2>2. i \in Nat /\ n \in Nat /\ i + n <= Len(text)
    <3> DEFINE len == Len(text)
    <3>1. len \in Nat /\ i \in 0..(len - 1) /\ n \in 0..(len - i)
      BY <1>4, <2>1 DEF SpliceFits
    <3> HIDE DEF len
    <3>2. i \in Nat /\ n \in Nat /\ i + n <= len
      BY <3>1, WithinIs
    <3> QED BY <3>2 DEF len
  <2> QED BY <2>2, SplicedIs
<1> QED BY <1>1, <1>3, <1>4

(* A splice, where the classes read a negative count in their own way.     *)
LEMMA SpliceKeeps ==
  ASSUME TextInv, NEW idx \in Int, NEW cnt \in Int, NEW x \in Seq(Chars), NEW object \in BOOLEAN,
         DoSplice(idx, cnt, x, object)
  PROVE  TextInv'
<1> DEFINE i == Start(text, idx)
           k == Count(idx, cnt)
           c == AddedCount(idx, cnt)
           t == Outcome(idx, k, x)
           v == Outcome(idx, c, x)
           sp == t # v
           mp == sp \/ (object /\ Splices(idx, c))
           s == StrSplice(str, idx, cnt, x)
           m1 == MbSplice(mbuff, idx, cnt, x)
           m2 == MbSpliceFromPtr(mbuff, idx, cnt, x)
           m == IF object THEN m1 ELSE m2
           parts == Both(sp) \cup When("mbuff", mp)
           fits == SpliceFits(Len(text), i, c)
<1>1. Becomes(t, s, UstrSplice(ustr, idx, cnt, x), m, parts)
  BY DEF DoSplice
<1>2. textParted = {}
  BY <1>1, BecomesTogether
<1>3. ustr = str /\ StrIs(str, text) /\ MbIs(mbuff, text) /\ text \in Seq(Chars)
  BY <1>2, StillTogether
<1>4. Becomes(t, s, s, m, parts)
  BY <1>1, <1>3 DEF UstrSplice
<1>5. /\ i = (IF idx < 0 THEN Len(text) + idx ELSE idx)
      /\ c = (IF cnt < 0 THEN i + Len(text) + cnt ELSE cnt)
  BY DEF Start, AddedCount
<1>6. parts = Both(sp) \cup When("mbuff", mp) /\ sp = (t # v) /\ sp \in BOOLEAN /\ mp \in BOOLEAN
      /\ mp = (sp \/ (object /\ Splices(idx, c))) /\ m = (IF object THEN m1 ELSE m2)
  OBVIOUS
<1>7. t \in Seq(Chars)
  <2>1. i = Start(text, idx)
    OBVIOUS
  <2> HIDE DEF i, k
  <2> QED BY <1>3, <2>1, OutcomeIs
<1>8. /\ Splices(idx, c) <=> fits
      /\ fits => v = Spliced(text, i, c, x)
      /\ ~fits => v = text
      /\ v \in Seq(Chars)
  <2>1. i = Start(text, idx)
    OBVIOUS
  <2> HIDE DEF i, c
  <2> QED BY <1>3, <2>1, OutcomeIs
<1>9. /\ fits => StrOut(s, Spliced(text, i, c, x), FALSE)
      /\ ~fits => StrOut(s, text, FALSE)
  <2> HIDE DEF i, c
  <2>1. /\ i \in 0..(Len(text) - 1) /\ c \in 0..(Len(text) - i) =>
              StrOut(s, Spliced(text, i, c, x), FALSE)
        /\ ~(i \in 0..(Len(text) - 1) /\ c \in 0..(Len(text) - i)) => StrOut(s, text, FALSE)
    BY <1>3, <1>5, StrSpliceOut
  <2> QED BY <2>1 DEF SpliceFits
<1>10. /\ fits => MbOut(m2, Spliced(text, i, c, x), FALSE) /\ MbOut(m1, t, TRUE)
       /\ ~fits => MbOut(m2, text, FALSE) /\ MbOut(m1, text, FALSE)
  <2> HIDE DEF i, c, t
  <2>1. /\ i \in 0..(Len(text) - 1) /\ c \in 0..(Len(text) - i) =>
              MbOut(m2, Spliced(text, i, c, x), FALSE) /\ MbOut(m1, t, TRUE)
        /\ ~(i \in 0..(Len(text) - 1) /\ c \in 0..(Len(text) - i)) =>
              MbOut(m2, text, FALSE) /\ MbOut(m1, text, FALSE)
    BY <1>3, <1>5, MbSpliceOut
  <2> QED BY <2>1 DEF SpliceFits
<1> HIDE DEF i, k, c, s, m1, m2, m, fits, t, v, sp, mp, parts
<1>11. StrOut(s, t, sp)
  <2>1. StrOut(s, v, FALSE)
    BY <1>8, <1>9
  <2> QED BY <1>6, <1>8, <2>1, OtherText
<1>12. MbOut(m, t, mp)
  <2>1. CASE object /\ fits
    <3>1. m = m1 /\ mp = TRUE
      BY <1>6, <1>8, <2>1
    <3> QED BY <1>10, <2>1, <3>1
  <2>2. CASE ~(object /\ fits)
    <3>1. MbOut(m, v, FALSE)
      BY <1>6, <1>8, <1>10, <2>2
    <3>2. mp = sp
      BY <1>6, <1>8, <2>2
    <3> QED BY <1>6, <1>8, <3>1, <3>2, OtherText
  <2> QED BY <2>1, <2>2
<1> QED BY <1>4, <1>6, <1>7, <1>11, <1>12, StepKeeps

(* The invariant at the start.                                             *)
LEMMA TextInvInit ==
  ASSUME TextInit
  PROVE  TextInv
<1>1. StrIs(str, text) /\ str \in Buffer
  BY NoTextIs DEF TextInit, StrIs
<1>2. MbIs(mbuff, text)
  <2>1. NoText.buf = <<>> /\ NoText.size = 0 /\ NoText.len = 0 /\ NoText.wild = FALSE /\ NoText \in Buffer
    BY NoTextIs
  <2>2. mbuff = NoText /\ text = <<>>
    BY DEF TextInit
  <2> QED BY <2>1, <2>2 DEF MbIs
<1>3. mbuff \in Buffer
  BY <1>2 DEF MbIs
<1>4. text \in Seq(Chars) /\ Len(text) <= MaxText /\ ustr = str /\ textParted = {}
  BY TextBounds DEF TextInit
<1>5. StrOut(str, text, FALSE) /\ MbOut(mbuff, text, FALSE)
  BY <1>1, <1>2, <1>3 DEF StrOut, MbOut
<1>6. StrOut(str, text, "str" \in textParted) /\ MbOut(mbuff, text, "mbuff" \in textParted)
  BY <1>4, <1>5 DEF StrOut, MbOut
<1> QED BY <1>4, <1>6 DEF TextInv

(* The texts a client hands over are texts.                                *)
LEMMA HandedAre ==
  /\ \A t \in Texts(MaxText) : t \in Seq(Chars)
  /\ \A t \in Handed : t \in Seq(Chars)
  /\ \A t \in Texts(1) : t \in Seq(Chars)
  /\ \A n \in Numbers : n \in Int
  /\ \A n \in 0..MaxSlack : n \in Nat
  /\ \A n \in 0..1 : n \in Nat
<1>1. \A n \in Nat : \A t \in Texts(n) : t \in Seq(Chars)
  BY TextsAre
<1>2. MaxText \in Nat /\ MaxSlack \in Nat /\ 1 \in Nat /\ 2 \in Nat
  BY TextBounds
<1>3. /\ \A t \in Texts(MaxText) : t \in Seq(Chars)
      /\ \A t \in Texts(2) : t \in Seq(Chars)
      /\ \A t \in Texts(1) : t \in Seq(Chars)
  BY <1>1, <1>2
<1> QED BY <1>2, <1>3 DEF Handed, Numbers

(* Every step of the client keeps the invariant.                           *)
LEMMA TextInvNext ==
  ASSUME TextInv, [TextNext]_textVars
  PROVE  TextInv'
<1> USE HandedAre
<1>1. CASE \E t \in Texts(MaxText), slack \in 0..MaxSlack : DoFromBuff(t, slack)
  <2>1. PICK t \in Texts(MaxText), slack \in 0..MaxSlack : DoFromBuff(t, slack)
    BY <1>1
  <2>2. t \in Seq(Chars) /\ slack \in Nat
    OBVIOUS
  <2> QED BY <2>1, <2>2, NewKeep
<1>2. CASE \E t \in Texts(MaxText) : DoFromPtr(t)
  <2>1. PICK t \in Texts(MaxText) : DoFromPtr(t)
    BY <1>2
  <2>2. t \in Seq(Chars) /\ 0 \in Nat
    OBVIOUS
  <2> QED BY <2>1, <2>2, NewKeep
<1>3. CASE \E line \in Texts(MaxText), start \in 0..1, newline, moved \in BOOLEAN :
             DoFromFp(line, newline, start, moved)
  <2>1. PICK line \in Texts(MaxText), start \in 0..1, newline \in BOOLEAN, moved \in BOOLEAN :
          DoFromFp(line, newline, start, moved)
    BY <1>3
  <2>2. line \in Seq(Chars) /\ start \in Nat
    OBVIOUS
  <2> QED BY <2>1, <2>2, FromFpKeeps
<1>4. CASE \E first, rest \in Handed, seekable, moved, stale \in BOOLEAN, failed \in 0..2 :
             DoFromFd(first, rest, seekable, moved, failed, stale)
  <2>1. PICK first \in Handed, rest \in Handed, seekable \in BOOLEAN, moved \in BOOLEAN,
             stale \in BOOLEAN, failed \in 0..2 : DoFromFd(first, rest, seekable, moved, failed, stale)
    BY <1>4
  <2>2. first \in Seq(Chars) /\ rest \in Seq(Chars)
    OBVIOUS
  <2> QED BY <2>1, <2>2, FromFdKeeps
<1>5. CASE DoDone \/ DoDup \/ DoTrim \/ DoReverse \/ DoUpcase \/ DoDowncase
  BY <1>5, DoneKeeps, TrimKeeps, ReverseKeeps, CaseKeeps
<1>6. CASE \E t \in Handed, slack \in 0..MaxSlack : DoAppend(t, slack) \/ DoPrepend(t, slack)
  <2>1. PICK t \in Handed, slack \in 0..MaxSlack : DoAppend(t, slack) \/ DoPrepend(t, slack)
    BY <1>6
  <2>2. t \in Seq(Chars) /\ slack \in Nat
    OBVIOUS
  <2> QED BY <2>1, <2>2, AppendKeeps
<1>7. CASE \E t \in Handed : DoAppendFromPtr(t) \/ DoPrependFromPtr(t)
  <2>1. PICK t \in Handed : DoAppendFromPtr(t) \/ DoPrependFromPtr(t)
    BY <1>7
  <2>2. t \in Seq(Chars)
    OBVIOUS
  <2> QED BY <2>1, <2>2, FromPtrKeeps
<1>8. CASE \E c \in Chars : DoAppendChar(c) \/ DoPrependChar(c) \/ DoClear(c)
  BY <1>8, CharKeeps
<1>9. CASE \E idx, cnt \in Numbers, t \in Texts(1), object \in BOOLEAN :
             DoSplice(idx, cnt, t, object)
  <2>1. PICK idx \in Numbers, cnt \in Numbers, t \in Texts(1), object \in BOOLEAN :
          DoSplice(idx, cnt, t, object)
    BY <1>9
  <2>2. t \in Seq(Chars) /\ idx \in Int /\ cnt \in Int
    OBVIOUS
  <2> QED BY <2>1, <2>2, SpliceKeeps
<1>10. CASE \E idx, cnt \in Numbers : DoSubstr(idx, cnt)
  <2>1. PICK idx \in Numbers, cnt \in Numbers : DoSubstr(idx, cnt)
    BY <1>10
  <2>2. idx \in Int /\ cnt \in Int
    OBVIOUS
  <2> QED BY <2>1, <2>2, SubstrKeeps
<1>11. CASE UNCHANGED textVars
  <2>1. text' = text /\ str' = str /\ ustr' = ustr /\ mbuff' = mbuff /\ textParted' = textParted
    BY <1>11 DEF textVars
  <2>2. /\ text' \in Seq(Chars) /\ Len(text') <= MaxText /\ ustr' = str'
        /\ textParted' \subseteq {"str", "ustr", "mbuff"}
        /\ ("ustr" \in textParted' <=> "str" \in textParted')
    BY <2>1 DEF TextInv
  <2>3. StrOut(str', text', "str" \in textParted') /\ MbOut(mbuff', text', "mbuff" \in textParted')
    BY <2>1 DEF TextInv
  <2>4. StrOut(str, text, "str" \in textParted)'
    BY <2>3 DEF StrOut, StrIs, StrHolds, StrRight, StrSound, Content, CText
  <2>5. MbOut(mbuff, text, "mbuff" \in textParted)'
    BY <2>3 DEF MbOut, MbIs, MbRight, MbSound, Content
  <2> QED BY <2>2, <2>4, <2>5 DEF TextInv
<1> QED BY <1>1, <1>2, <1>3, <1>4, <1>5, <1>6, <1>7, <1>8, <1>9, <1>10, <1>11 DEF TextNext

(* What the invariant is for.                                              *)
LEMMA TextInvTypes == TextInv => TextTypeOK
<1> SUFFICES ASSUME TextInv PROVE TextTypeOK
  OBVIOUS
<1>1. text \in Texts(MaxText)
  BY TextBounds, TextsAre DEF TextInv
<1>2. /\ str \in Buffer /\ ustr \in Buffer
      /\ mbuff \in Buffer \/ (mbuff = Unread /\ "mbuff" \in textParted)
  BY DEF TextInv, StrOut, MbOut
<1>3. \A b \in Buffer : b.size \in Nat /\ b.len \in Nat /\ b.wild \in BOOLEAN
  BY DEF Buffer
<1>4. textParted \subseteq {"str", "ustr", "mbuff"}
  BY DEF TextInv
<1>5. Unread.wild \in BOOLEAN
  BY DEF Unread
<1> QED BY <1>1, <1>2, <1>3, <1>4, <1>5 DEF TextTypeOK

(* The invariant says that the classes agree.                              *)
LEMMA TextInvSame == TextInv => SameText
<1> SUFFICES ASSUME TextInv PROVE SameText
  OBVIOUS
<1>1. text \in Seq(Chars) /\ ustr = str /\ ("ustr" \in textParted <=> "str" \in textParted)
  BY DEF TextInv
<1>2. StrRight(str, text) <=> "str" \notin textParted
  BY <1>1, StrFacts DEF TextInv, StrOut
<1>3. MbRight(mbuff, text) <=> "mbuff" \notin textParted
  BY <1>1, MbFacts DEF TextInv, MbOut
<1>4. /\ Right("str") <=> StrRight(str, text)
      /\ Right("ustr") <=> StrRight(ustr, text)
      /\ Right("mbuff") <=> MbRight(mbuff, text)
  BY DEF Right, StrRight, MbRight
<1>5. StrRight(ustr, text) <=> "ustr" \notin textParted
  BY <1>1, <1>2
<1> QED BY <1>2, <1>3, <1>4, <1>5 DEF SameText

(* Where a character is, counted from 1, and what the searches make of it. *)
PlacesOf(t, c) == {i \in 1..Len(t) : t[i] = c}

(* If there are such places, there is a first and a last.                  *)
LEMMA PlacesAre ==
  ASSUME NEW t \in Seq(Chars), NEW c, NEW at, at = PlacesOf(t, c), at # {}
  PROVE  /\ Smallest(at) \in at /\ \A j \in at : Smallest(at) <= j
         /\ Largest(at) \in at /\ \A j \in at : j <= Largest(at)
         /\ at \in SUBSET (1..Len(t)) /\ Len(t) \in Nat
<1>1. Len(t) \in Nat /\ at \in SUBSET (1..Len(t))
  BY DEF PlacesOf
<1>2. at \in SUBSET Nat /\ at \in SUBSET (0..Len(t))
  BY <1>1
<1>3. Smallest(at) \in at /\ \A j \in at : Smallest(at) <= j
  BY <1>2, SmallestIs
<1>4. Largest(at) \in at /\ \A j \in at : j <= Largest(at)
  BY <1>1, <1>2, LargestIs
<1> QED BY <1>1, <1>3, <1>4

(* The search from the front.                                              *)
LEMMA FirstOfIs ==
  ASSUME NEW t \in Seq(Chars), NEW c
  PROVE  FirstOf(t, c) = IF PlacesOf(t, c) = {} THEN Len(t) ELSE Smallest(PlacesOf(t, c)) - 1
<1> DEFINE at == PlacesOf(t, c)
           T == {i \in 0..(Len(t) - 1) : t[i + 1] = c} \cup {Len(t)}
           first == IF at = {} THEN Len(t) ELSE Smallest(at) - 1
<1>1. Len(t) \in Nat /\ T \in SUBSET Nat
  OBVIOUS
<1>2. first \in T /\ \A j \in T : first <= j
  <2>1. CASE at = {}
    <3>1. \A i \in 1..Len(t) : t[i] # c
      BY <2>1 DEF PlacesOf
    <3>2. ASSUME NEW j \in 0..(Len(t) - 1), t[j + 1] = c PROVE FALSE
      <4>1. j + 1 \in 1..Len(t)
        BY <1>1
      <4> QED BY <3>1, <3>2, <4>1
    <3>3. T = {Len(t)}
      BY <3>2
    <3> HIDE DEF T
    <3> QED BY <1>1, <2>1, <3>3
  <2>2. CASE at # {}
    <3> DEFINE s == Smallest(at)
    <3>1. s \in at /\ (\A j \in at : s <= j) /\ at \in SUBSET (1..Len(t))
      <4>1. at = PlacesOf(t, c)
        OBVIOUS
      <4> HIDE DEF at
      <4> QED BY <2>2, <4>1, PlacesAre
    <3>2. s \in 1..Len(t) /\ t[s] = c
      BY <3>1 DEF PlacesOf
    <3> HIDE DEF s
    <3>3. s - 1 \in 0..(Len(t) - 1) /\ (s - 1) + 1 = s
      BY <1>1, <3>2
    <3>4. s - 1 \in T
      BY <3>2, <3>3
    <3>5. ASSUME NEW j \in T PROVE s - 1 <= j
      <4>1. CASE j = Len(t)
        BY <1>1, <3>2, <4>1
      <4>2. CASE j \in 0..(Len(t) - 1) /\ t[j + 1] = c
        <5>1. j + 1 \in 1..Len(t)
          BY <1>1, <4>2
        <5>2. j + 1 \in at
          BY <4>2, <5>1 DEF PlacesOf
        <5>3. s <= j + 1
          BY <3>1, <5>2
        <5> QED BY <1>1, <3>2, <4>2, <5>3
      <4> QED BY <4>1, <4>2
    <3>6. first = s - 1
      BY <2>2 DEF s
    <3> QED BY <3>4, <3>5, <3>6
  <2> QED BY <2>1, <2>2
<1>3. FirstOf(t, c) = Smallest(T)
  BY DEF FirstOf
<1> HIDE DEF T, first, at
<1>4. Smallest(T) = first
  BY <1>1, <1>2, SmallestOf
<1> QED BY <1>3, <1>4 DEF first, at

(* The search from the end.                                                *)
LEMMA LastOfIs ==
  ASSUME NEW t \in Seq(Chars), NEW c
  PROVE  LastOf(t, c) = IF PlacesOf(t, c) = {} THEN Len(t) ELSE Largest(PlacesOf(t, c)) - 1
<1> DEFINE at == PlacesOf(t, c)
           T == {i - 1 : i \in at}
           l == Largest(at)
<1>1. LastOf(t, c) = IF \E i \in 1..Len(t) : t[i] = c THEN Largest(T) ELSE Len(t)
  BY DEF LastOf, PlacesOf
<1>2. (\E i \in 1..Len(t) : t[i] = c) <=> at # {}
  BY DEF PlacesOf
<1>3. ASSUME at # {} PROVE Largest(T) = l - 1
  <2>1. l \in at /\ (\A j \in at : j <= l) /\ at \in SUBSET (1..Len(t)) /\ Len(t) \in Nat
    <3>1. at = PlacesOf(t, c)
      OBVIOUS
    <3> HIDE DEF at
    <3> QED BY <1>3, <3>1, PlacesAre
  <2> HIDE DEF at, l
  <2>2. T \in SUBSET Nat /\ l - 1 \in T
    BY <2>1
  <2>3. \A j \in T : j <= l - 1
    BY <2>1
  <2> HIDE DEF T
  <2> QED BY <2>2, <2>3, LargestOf
<1> HIDE DEF T, at
<1> QED BY <1>1, <1>2, <1>3 DEF at, l

(* Where another text begins in it.                                        *)
MatchesOf(t, o) == {i \in 0..(Len(t) - Len(o)) : SubSeq(t, i + 1, i + Len(o)) = o}

(* The search for a text.                                                  *)
LEMMA FirstMatchIs ==
  ASSUME NEW t \in Seq(Chars), NEW o \in Seq(Chars)
  PROVE  FirstMatch(t, o) = IF MatchesOf(t, o) = {} THEN Len(t) ELSE Smallest(MatchesOf(t, o))
<1> DEFINE at == MatchesOf(t, o)
           T == at \cup {Len(t)}
           s == Smallest(at)
<1>1. FirstMatch(t, o) = Smallest(T)
  BY DEF FirstMatch, MatchesOf
<1>2. Len(t) \in Nat /\ Len(o) \in Nat
  OBVIOUS
<1>3. at \in SUBSET Nat /\ \A i \in at : i <= Len(t)
  BY <1>2 DEF MatchesOf
<1> HIDE DEF at
<1>4. T \in SUBSET Nat
  BY <1>2, <1>3
<1>5. CASE at = {}
  <2>1. T = {Len(t)}
    BY <1>5
  <2> HIDE DEF T
  <2>2. Smallest(T) = Len(t)
    BY <1>2, <1>4, <2>1, SmallestOf
  <2> QED BY <1>1, <1>5, <2>2 DEF at
<1>6. CASE at # {}
  <2>1. s \in at /\ \A j \in at : s <= j
    BY <1>3, <1>6, SmallestIs
  <2> HIDE DEF s
  <2>2. s \in T /\ \A j \in T : s <= j
    BY <1>3, <2>1
  <2> HIDE DEF T
  <2>3. Smallest(T) = s
    BY <1>4, <2>2, SmallestOf
  <2> QED BY <1>1, <1>6, <2>3 DEF at, s
<1> QED BY <1>5, <1>6

(* What a string answers about its text.                                   *)
LEMMA StrReads ==
  ASSUME NEW b, NEW t \in Seq(Chars), StrIs(b, t)
  PROVE  /\ \A c : StrIndex(b, c) = FirstOf(t, c) /\ StrRindex(b, c) = LastOf(t, c)
         /\ \A o \in Seq(Chars) : StrFind(b, o) = FirstMatch(t, o) /\ (StrEqual(b, o) <=> t = o)
<1>1. /\ CText(b) = t /\ b.len = Len(t)
      /\ \A i \in 1..Len(t) : b.buf[i] = t[i]
  BY StrFacts
<1>2. ASSUME NEW c PROVE StrIndex(b, c) = FirstOf(t, c) /\ StrRindex(b, c) = LastOf(t, c)
  <2>1. {i \in 1..Len(CText(b)) : b.buf[i] = c} = PlacesOf(t, c)
    BY <1>1 DEF PlacesOf
  <2>2. StrIndex(b, c) = IF PlacesOf(t, c) = {} THEN Len(t) ELSE Smallest(PlacesOf(t, c)) - 1
    BY <1>1, <2>1 DEF StrIndex
  <2>3. StrRindex(b, c) = IF PlacesOf(t, c) = {} THEN Len(t) ELSE Largest(PlacesOf(t, c)) - 1
    BY <1>1, <2>1 DEF StrRindex
  <2> QED BY <2>2, <2>3, FirstOfIs, LastOfIs
<1>3. ASSUME NEW o \in Seq(Chars)
      PROVE  StrFind(b, o) = FirstMatch(t, o) /\ (StrEqual(b, o) <=> t = o)
  <2>1. StrFind(b, o) = IF MatchesOf(t, o) = {} THEN Len(t) ELSE Smallest(MatchesOf(t, o))
    BY <1>1 DEF StrFind, MatchesOf
  <2>2. StrEqual(b, o) <=> t = o
    BY <1>1 DEF StrEqual
  <2> QED BY <2>1, <2>2, FirstMatchIs
<1> QED BY <1>2, <1>3

(* What an mbuff answers about its bytes.                                  *)
LEMMA MbFinds ==
  ASSUME NEW b, NEW t \in Seq(Chars), MbIs(b, t), NEW o \in Seq(Chars)
  PROVE  MbFind(b, o) = FirstMatch(t, o)
<1> DEFINE at == {i \in 0..(b.len - Len(o)) : SubSeq(b.buf, i + 1, i + Len(o)) = o}
<1>1. /\ b.len = Len(t) /\ b.buf \in Seq(Bytes) /\ Len(t) <= Len(b.buf)
      /\ (\A i \in 1..Len(t) : b.buf[i] = t[i]) /\ Len(t) \in Nat /\ Len(o) \in Nat
  <2>1. /\ b.buf \in Seq(Bytes) /\ b.size \in Nat /\ b.len = Len(t) /\ Len(t) \in Nat
        /\ b.len <= b.size /\ b.size <= Len(b.buf) /\ Len(b.buf) \in Nat
        /\ \A i \in 1..Len(t) : b.buf[i] = t[i]
    BY MbFacts
  <2> QED BY <2>1
<1>2. ASSUME NEW i \in 0..(Len(t) - Len(o))
      PROVE  SubSeq(b.buf, i + 1, i + Len(o)) = SubSeq(t, i + 1, i + Len(o))
  <2> DEFINE z == i + Len(o)
  <2>1. i \in Nat /\ z \in Nat /\ i <= z /\ z <= Len(t)
    BY <1>1
  <2> HIDE DEF z
  <2>2. SubSeq(b.buf, i + 1, z) = SubSeq(t, i + 1, z)
    BY <1>1, <2>1, SamePart
  <2> QED BY <2>2 DEF z
<1>3. at = MatchesOf(t, o)
  BY <1>1, <1>2 DEF MatchesOf
<1>4. MbFind(b, o) = IF MatchesOf(t, o) = {} THEN Len(t) ELSE Smallest(MatchesOf(t, o))
  <2>1. MbFind(b, o) = IF at = {} THEN b.len ELSE Smallest(at)
    BY DEF MbFind
  <2> HIDE DEF at
  <2> QED BY <1>1, <1>3, <2>1
<1> QED BY <1>4, FirstMatchIs

(* The comparison of an mbuff, as far as the shorter goes.                 *)
LEMMA MbCompares ==
  ASSUME NEW b, NEW t \in Seq(Chars), MbIs(b, t), NEW o \in Seq(Chars)
  PROVE  (MbEqual(b, o) /\ Len(o) = Len(t)) <=> t = o
<1> DEFINE len == Len(t)
<1>1. /\ b.len = len /\ b.buf \in Seq(Bytes) /\ len <= Len(b.buf)
      /\ (\A i \in 1..Len(t) : b.buf[i] = t[i]) /\ len \in Nat
  <2>1. /\ b.buf \in Seq(Bytes) /\ b.size \in Nat /\ b.len = Len(t) /\ Len(t) \in Nat
        /\ b.len <= b.size /\ b.size <= Len(b.buf) /\ Len(b.buf) \in Nat
        /\ \A i \in 1..Len(t) : b.buf[i] = t[i]
    BY MbFacts
  <2> QED BY <2>1
<1>2. SubSeq(b.buf, 1, len) = SubSeq(t, 1, len)
  <2>1. SubSeq(b.buf, 0 + 1, len) = SubSeq(t, 0 + 1, len)
    <3>1. 0 \in Nat /\ 0 <= len /\ len <= Len(t) /\ Len(t) <= Len(b.buf)
      BY <1>1
    <3>2. len \in Nat
      BY <1>1
    <3> HIDE DEF len
    <3> QED BY <1>1, <3>1, <3>2, SamePart
  <2> QED BY <2>1
<1>3. \A u \in Seq(Chars) : SubSeq(u, 1, Len(u)) = u
  OBVIOUS
<1>4. ASSUME Len(o) = len PROVE MbEqual(b, o) <=> t = o
  <2>1. MbEqual(b, o) <=> SubSeq(b.buf, 1, len) = SubSeq(o, 1, len)
    <3>1. (IF b.len < Len(o) THEN b.len ELSE Len(o)) = len
      BY <1>1, <1>4
    <3> HIDE DEF len
    <3> QED BY <3>1 DEF MbEqual
  <2>2. SubSeq(o, 1, len) = o /\ SubSeq(t, 1, len) = t
    BY <1>3, <1>4
  <2> QED BY <1>2, <2>1, <2>2
<1> QED BY <1>4

(* Its searches for a byte: what they answer, and how far they read.       *)
LEMMA MbReads ==
  ASSUME NEW b, NEW t \in Seq(Chars), MbIs(b, t), NEW c
  PROVE  LET there == FirstOf(t, c) < Len(t)
             forth == InBounds(b, MbIndexReads(b, c))
             back == InBounds(b, MbRindexReads(b, c))
         IN /\ forth <=> there \/ Len(t) < Len(b.buf)
            /\ forth => MbIndex(b, c) = FirstOf(t, c)
            /\ back <=> there
            /\ back => MbRindex(b, c) = LastOf(t, c)
<1> DEFINE there == FirstOf(t, c) < Len(t)
           forth == InBounds(b, MbIndexReads(b, c))
           back == InBounds(b, MbRindexReads(b, c))
           Answers == /\ forth <=> there \/ Len(t) < Len(b.buf)
                      /\ forth => MbIndex(b, c) = FirstOf(t, c)
                      /\ back <=> there
                      /\ back => MbRindex(b, c) = LastOf(t, c)
           at == PlacesOf(t, c)
           n == Len(t)
           z == Len(b.buf)
           low == Smallest(at)
           high == Largest(at)
<1>1. b.len = n /\ n \in Nat /\ z \in Nat /\ n <= z /\ \A i \in 1..Len(t) : b.buf[i] = t[i]
  <2>1. /\ b.len = Len(t) /\ Len(t) \in Nat /\ b.size \in Nat /\ Len(b.buf) \in Nat
        /\ b.len <= b.size /\ b.size <= Len(b.buf) /\ \A i \in 1..Len(t) : b.buf[i] = t[i]
    BY MbFacts
  <2> QED BY <2>1
<1>2. {i \in 1..b.len : b.buf[i] = c} = at
  BY <1>1 DEF PlacesOf
<1>3. MbIndex(b, c) = IF at = {} THEN n ELSE low - 1
  BY <1>1, <1>2 DEF MbIndex
<1>4. MbRindex(b, c) = IF at = {} THEN -1 ELSE high - 1
  BY <1>1, <1>2 DEF MbRindex
<1>5. at # {} => low \in 1..n /\ high \in 1..n
  <2> SUFFICES ASSUME at # {} PROVE low \in 1..n /\ high \in 1..n
    OBVIOUS
  <2>1. at = PlacesOf(t, c)
    OBVIOUS
  <2> HIDE DEF at
  <2>2. /\ Largest(at) \in at /\ Smallest(at) \in at /\ at \in SUBSET (1..Len(t))
    BY <2>1, PlacesAre
  <2>3. Largest(at) \in 1..Len(t) /\ Smallest(at) \in 1..Len(t)
    BY <2>2
  <2> QED BY <2>3
<1>6. /\ FirstOf(t, c) = IF at = {} THEN n ELSE low - 1
      /\ LastOf(t, c) = IF at = {} THEN n ELSE high - 1
  BY FirstOfIs, LastOfIs
<1>7. /\ forth <=> 0..MbIndex(b, c) \subseteq 0..(z - 1)
      /\ back <=> MbRindex(b, c)..(n - 1) \subseteq 0..(z - 1)
      /\ there <=> FirstOf(t, c) < n
  BY <1>1 DEF InBounds, MbIndexReads, MbRindexReads
<1> HIDE DEF at, n, z, low, high, there, forth, back
<1>8. ASSUME at = {} PROVE Answers
  <2>1. ~there /\ MbIndex(b, c) = n /\ FirstOf(t, c) = n
    BY <1>1, <1>3, <1>6, <1>7, <1>8
  <2>2. forth <=> n < z
    <3>1. 0..n \subseteq 0..(z - 1) <=> n < z
      BY <1>1
    <3> QED BY <1>7, <2>1, <3>1
  <2>3. ~back
    <3>1. -1 \in (-1)..(n - 1) /\ -1 \notin 0..(z - 1)
      BY <1>1
    <3> QED BY <1>4, <1>7, <1>8, <3>1
  <2> QED BY <2>1, <2>2, <2>3 DEF n, z
<1>9. ASSUME at # {} PROVE Answers
  <2>1. low \in 1..n /\ high \in 1..n
    BY <1>5, <1>9
  <2>2. there /\ MbIndex(b, c) = low - 1 /\ FirstOf(t, c) = low - 1
    <3>1. low - 1 < n
      BY <1>1, <2>1
    <3> QED BY <1>3, <1>6, <1>7, <1>9, <3>1
  <2>3. forth
    <3>1. 0..(low - 1) \subseteq 0..(z - 1)
      BY <1>1, <2>1
    <3> QED BY <1>7, <2>2, <3>1
  <2>4. back
    <3>1. (high - 1)..(n - 1) \subseteq 0..(z - 1)
      BY <1>1, <2>1
    <3> QED BY <1>4, <1>7, <1>9, <3>1
  <2>5. MbRindex(b, c) = LastOf(t, c)
    BY <1>4, <1>6, <1>9
  <2> QED BY <2>2, <2>3, <2>4, <2>5
<1>10. Answers
  <2> HIDE DEF Answers
  <2> QED BY <1>8, <1>9
<1> QED BY <1>10 DEF there, forth, back

(* The invariant says that the searches and comparisons answer for the text. *)
LEMMA TextInvReads == TextInv => TextReadsAgree
<1> SUFFICES ASSUME TextInv PROVE TextReadsAgree
  OBVIOUS
<1>1. text \in Seq(Chars) /\ ustr = str
  BY DEF TextInv
<1>2. \A t \in Handed : t \in Seq(Chars)
  BY HandedAre
<1>3. ASSUME "str" \notin textParted
      PROVE  /\ \A c : /\ StrIndex(str, c) = FirstOf(text, c) /\ StrRindex(str, c) = LastOf(text, c)
                       /\ UstrIndex(ustr, c) = FirstOf(text, c)
                       /\ UstrRindex(ustr, c) = LastOf(text, c)
             /\ \A t \in Handed :
                  /\ StrFind(str, t) = FirstMatch(text, t) /\ UstrFind(ustr, t) = FirstMatch(text, t)
                  /\ (StrEqual(str, t) <=> text = t) /\ (UstrEqual(ustr, t) <=> text = t)
  <2>1. StrIs(str, text)
    BY <1>3 DEF TextInv, StrOut
  <2>2. /\ \A c : StrIndex(str, c) = FirstOf(text, c) /\ StrRindex(str, c) = LastOf(text, c)
        /\ \A o \in Seq(Chars) :
             StrFind(str, o) = FirstMatch(text, o) /\ (StrEqual(str, o) <=> text = o)
    BY <1>1, <2>1, StrReads
  <2>3. /\ \A c : UstrIndex(ustr, c) = StrIndex(str, c) /\ UstrRindex(ustr, c) = StrRindex(str, c)
        /\ \A o : UstrFind(ustr, o) = StrFind(str, o) /\ UstrEqual(ustr, o) = StrEqual(str, o)
    BY <1>1, Zenon DEF UstrIndex, UstrRindex, UstrFind, UstrEqual
  <2> QED BY <1>2, <2>2, <2>3
<1>4. ASSUME "mbuff" \notin textParted
      PROVE  /\ \A c :
                  LET there == FirstOf(text, c) < Len(text)
                      forth == InBounds(mbuff, MbIndexReads(mbuff, c))
                      back == InBounds(mbuff, MbRindexReads(mbuff, c))
                  IN /\ forth <=> there \/ Len(text) < Len(mbuff.buf)
                     /\ forth => MbIndex(mbuff, c) = FirstOf(text, c)
                     /\ back <=> there
                     /\ back => MbRindex(mbuff, c) = LastOf(text, c)
             /\ \A t \in Handed :
                  /\ MbFind(mbuff, t) = FirstMatch(text, t)
                  /\ (MbEqual(mbuff, t) /\ Len(t) = Len(text)) <=> text = t
  <2>1. MbIs(mbuff, text)
    BY <1>4 DEF TextInv, MbOut
  <2>2. ASSUME NEW c
        PROVE  LET there == FirstOf(text, c) < Len(text)
                   forth == InBounds(mbuff, MbIndexReads(mbuff, c))
                   back == InBounds(mbuff, MbRindexReads(mbuff, c))
               IN /\ forth <=> there \/ Len(text) < Len(mbuff.buf)
                  /\ forth => MbIndex(mbuff, c) = FirstOf(text, c)
                  /\ back <=> there
                  /\ back => MbRindex(mbuff, c) = LastOf(text, c)
    BY <1>1, <2>1, MbReads
  <2> QED BY <1>1, <1>2, <2>1, <2>2, MbFinds, MbCompares
<1> QED BY <1>3, <1>4, Zenon DEF TextReadsAgree

(* TextTypeOK holds: whatever calls a client makes of the classes of       *)
(* str.c, ustr.c and mbuff.c, their sizes and lengths are no less than 0,  *)
(* but for an mbuff that found the end of its data behind a read that      *)
(* failed.                                                                 *)
THEOREM TextTypes == TextsSpec => []TextTypeOK
<1>1. TextInit => TextInv
  BY TextInvInit
<1>2. TextInv /\ [TextNext]_textVars => TextInv'
  BY TextInvNext
<1>3. TextInv => TextTypeOK
  BY TextInvTypes
<1> QED BY <1>1, <1>2, <1>3, PTL DEF TextsSpec

(* SameText holds: after any calls in any order, for texts and slack of    *)
(* any length, exactly the classes that have not parted have the text.     *)
THEOREM TextsStaySame == TextsSpec => []SameText
<1>1. TextInit => TextInv
  BY TextInvInit
<1>2. TextInv /\ [TextNext]_textVars => TextInv'
  BY TextInvNext
<1>3. TextInv => SameText
  BY TextInvSame
<1> QED BY <1>1, <1>2, <1>3, PTL DEF TextsSpec

(* TextReadsAgree holds: spif_str_find(), index, rindex and cmp answer for *)
(* that text, and those of mbuff.c where they stay in their bytes, which   *)
(* is where TextReadsAgree says.                                           *)
THEOREM TextReadings == TextsSpec => []TextReadsAgree
<1>1. TextInit => TextInv
  BY TextInvInit
<1>2. TextInv /\ [TextNext]_textVars => TextInv'
  BY TextInvNext
<1>3. TextInv => TextReadsAgree
  BY TextInvReads
<1> QED BY <1>1, <1>2, <1>3, PTL DEF TextsSpec
=============================================================================
