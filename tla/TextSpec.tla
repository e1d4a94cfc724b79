------------------------------ MODULE TextSpec ------------------------------
(***************************************************************************)
(* What the strings and byte buffers of LibAST promise (strclass and       *)
(* mbuffclass): a sequence of bytes with the calls of a scripting          *)
(* language.  The second half is what the three classes share below that:  *)
(* allocated bytes.  A text object is [buf, size, len, wild]: the bytes    *)
(* allocated, the size and length it keeps, and whether a call that made   *)
(* or changed it read or wrote outside of the bytes allocated, or never    *)
(* returned.                                                               *)
(***************************************************************************)
EXTENDS Integers, Sequences

CONSTANTS Chars,          \* the characters in use
          BuffInc         \* buff_inc, by which the readers grow their buffer

Nul == "NUL"
Junk == "junk"            \* a byte nobody has written

ASSUME TextAssumption ==
  /\ {"a", "A", " "} \subseteq Chars /\ Nul \notin Chars /\ Junk \notin Chars
  /\ BuffInc \in Nat \ {0, 1}

IsSpace(c) == c = " "
ToLower(c) == IF c = "A" THEN "a" ELSE c
ToUpper(c) == IF c = "a" THEN "A" ELSE c

Mapped(t, F(_)) == [i \in 1..Len(t) |-> F(t[i])]
Turned(t) == [i \in 1..Len(t) |-> t[Len(t) + 1 - i]]
Filled(n, c) == [i \in 1..n |-> c]

Smallest(S) == CHOOSE i \in S : \A j \in S : i <= j
Largest(S) == CHOOSE i \in S : \A j \in S : j <= i

(* Positions count from 0; the length says that there is none. *)
FirstOf(t, c) == Smallest({i \in 0..(Len(t) - 1) : t[i + 1] = c} \cup {Len(t)})
LastOf(t, c) ==
  IF \E i \in 1..Len(t) : t[i] = c THEN Largest({i - 1 : i \in {j \in 1..Len(t) : t[j] = c}}) ELSE Len(t)
FirstMatch(t, o) ==
  Smallest({i \in 0..(Len(t) - Len(o)) : SubSeq(t, i + 1, i + Len(o)) = o} \cup {Len(t)})

(* A negative index counts from the end, and so does a negative count: -1 *)
(* leaves the last character.                                              *)
Start(t, idx) == IF idx < 0 THEN Len(t) + idx ELSE idx
Within(t, idx) == Start(t, idx) \in 0..(Len(t) - 1)
Room(t, idx) == Len(t) - Start(t, idx)

Replaced(t, idx, cnt, o) ==
  SubSeq(t, 1, Start(t, idx)) \o o \o SubSeq(t, Start(t, idx) + cnt + 1, Len(t))

Stripped(t) ==
  LET ink == {i \in 1..Len(t) : ~IsSpace(t[i])}
  IN IF ink = {} THEN <<>> ELSE SubSeq(t, Smallest(ink), Largest(ink))

-----------------------------------------------------------------------------
NoText == [buf |-> <<>>, size |-> 0, len |-> 0, wild |-> FALSE]

(* realloc(3): what does not fit is lost, what is new is junk. *)
Resized(buf, n) == [i \in 1..n |-> IF i <= Len(buf) THEN buf[i] ELSE Junk]

(* memcpy(3) of t to offset at, as far as it fits. *)
Put(buf, at, t) ==
  [i \in 1..Len(buf) |-> IF i > at /\ i <= at + Len(t) THEN t[i - at] ELSE buf[i]]

(* The n bytes from offset at, and junk where there are none. *)
Peek(buf, at, n) == [i \in 1..n |-> IF at + i <= Len(buf) THEN buf[at + i] ELSE Junk]

Content(b) == Peek(b.buf, 0, b.len)

(* Whether all of these offsets are those of bytes allocated. *)
InBounds(b, offsets) == offsets \subseteq 0..(Len(b.buf) - 1)

(* The bytes behind the text and its NUL are of no more interest. *)
Settled(b) == [b EXCEPT !.buf = [i \in 1..Len(@) |-> IF i <= b.len + 1 THEN @[i] ELSE Junk]]
=============================================================================
