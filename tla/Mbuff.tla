------------------------------- MODULE Mbuff --------------------------------
(***************************************************************************)
(* src/src/mbuff.c: bytes with a length, and nothing behind them.          *)
(***************************************************************************)
EXTENDS TextSpec

(* spif_mbuff_init_from_ptr() *)
MbFromPtr(t) == [buf |-> t, size |-> Len(t), len |-> Len(t), wild |-> FALSE]

(* spif_mbuff_init_from_buff() *)
MbFromBuff(t, size) ==
  LET room == IF size < Len(t) THEN Len(t) ELSE size
  IN [buf |-> Put(Filled(room, Junk), 0, t), size |-> room, len |-> Len(t), wild |-> FALSE]

(* spif_mbuff_init_from_fp(): a file is read in one go, and only from its *)
(* start; a pipe by BuffInc through a pointer that REALLOC() may leave    *)
(* behind.                                                                *)
MbFromFp(t, seekable, start, moved) ==
  IF seekable THEN IF t = <<>> \/ start > 0 THEN NoText ELSE MbFromPtr(t)
  ELSE [MbFromPtr(t) EXCEPT !.wild = moved /\ Len(t) > BuffInc]

(* What is left when a read fails and the next finds the end of the data:  *)
(* the length is -1, and REALLOC() to that size gives NULL.                *)
Unread == [buf |-> <<>>, size |-> -1, len |-> -1, wild |-> FALSE]

(* spif_mbuff_init_from_fd(): a file is read to a pointer that has no value. *)
(* A pipe is read up to the first read that brings less than BuffInc; one    *)
(* that fails (the first or the second, or 0 for none) is the size_t of -1,  *)
(* which is not less: it is added to the length, the buffer grows, and what  *)
(* comes next is written BuffInc further on.                                 *)
MbFromFd(first, rest, seekable, moved, failed) ==
  LET more == IF Len(first) < BuffInc THEN <<>> ELSE rest
      hole == Filled(BuffInc, Junk)
      data == IF failed = 1 THEN hole \o (first \o more) ELSE first \o (hole \o more)
      len == Len(first) + Len(more) - 1
      behind == IF failed = 1 THEN first ELSE more
  IN IF seekable THEN IF first = <<>> THEN NoText ELSE [MbFromPtr(first \o rest) EXCEPT !.wild = TRUE]
     ELSE IF failed = 0 \/ (failed = 2 /\ Len(first) < BuffInc)
     THEN [MbFromPtr(first \o more) EXCEPT !.wild = moved /\ more # <<>>]
     ELSE IF len < 0 THEN Unread
     ELSE [buf |-> Resized(data, len), size |-> len, len |-> len, wild |-> moved /\ behind # <<>>]

MbDone(b) == IF b.size > 0 THEN NoText ELSE b

MbDup(b) == b

MbWider(b, n, more) ==
  [b EXCEPT !.buf = Resized(@, b.size + n), !.size = @ + n, !.len = @ + more]
MbAppendText(b, t, n) == [MbWider(b, n, Len(t)) EXCEPT !.buf = Put(@, b.len, t)]
MbPrependText(b, t, n) == [MbWider(b, n, Len(t)) EXCEPT !.buf = Put(@, 0, t \o Content(b))]

MbAppend(b, o) == IF o.size > 0 /\ o.len > 0 THEN MbAppendText(b, Content(o), o.size) ELSE b
MbAppendFromPtr(b, t) == IF t = <<>> THEN b ELSE MbAppendText(b, t, Len(t))
MbPrepend(b, o) == IF o.size > 0 /\ o.len > 0 THEN MbPrependText(b, Content(o), o.size) ELSE b
MbPrependFromPtr(b, t) == IF t = <<>> THEN b ELSE MbPrependText(b, t, Len(t))

MbSpliceFromPtr(b, idx, count, t) ==
  LET i == IF idx < 0 THEN b.len + idx ELSE idx
      cnt == IF count < 0 THEN i + b.len + count ELSE count
      new == b.len + Len(t) - cnt
      spliced == SubSeq(b.buf, 1, i) \o t \o SubSeq(b.buf, i + cnt + 1, b.len)
  IN IF i \notin 0..(b.len - 1) \/ cnt \notin 0..(b.len - i) THEN b
     ELSE [b EXCEPT !.buf = Put(IF b.size < new THEN Resized(@, new) ELSE @, 0, spliced),
                    !.size = IF b.size < new THEN new ELSE @, !.len = new]

(* spif_mbuff_splice() copies, as if there were a NUL, one byte more than *)
(* its temporary has room for.                                            *)
MbSplice(b, idx, count, t) ==
  LET s == MbSpliceFromPtr(b, idx, count, t)
      i == IF idx < 0 THEN b.len + idx ELSE idx
      cnt == IF count < 0 THEN i + b.len + count ELSE count
  IN [s EXCEPT !.wild = @ \/ (i \in 0..(b.len - 1) /\ cnt \in 0..(b.len - i))]

(* spif_mbuff_subbuff(), spif_mbuff_subbuff_to_ptr(); <<>> is a NULL answer. *)
MbSubbuff(b, idx, count) ==
  LET i == IF idx < 0 THEN b.len + idx ELSE idx
      cnt == IF count <= 0 THEN b.len - i + count ELSE count
      most == IF cnt > b.len - i THEN b.len - i ELSE cnt
  IN IF i \notin 0..(b.len - 1) \/ cnt < 0 THEN <<>>
     ELSE <<MbFromPtr(SubSeq(b.buf, i + 1, i + most))>>

(* Mutant: blanks at the front only. *)
MbTrimLeft(b) ==
  LET ink == {i \in 1..b.len : ~IsSpace(b.buf[i])}
  IN IF b.len = 0 THEN [NoText EXCEPT !.wild = TRUE]
     ELSE MbFromPtr(SubSeq(b.buf, Smallest(ink \cup {b.len}), b.len))

(* spif_mbuff_trim(): as in str.c. *)
MbTrim(b) ==
  LET t == Content(b)
      ink == {i \in 1..Len(t) : ~IsSpace(t[i])}
      start == Smallest(ink \cup {b.len})
      end == Largest({i \in ink : i >= start} \cup {start})
  IN IF b.len = 0 THEN [NoText EXCEPT !.wild = TRUE]
     ELSE MbFromPtr(SubSeq(t, start, end))

MbReverse(b) == [b EXCEPT !.buf = Put(@, 0, Turned(Content(b)))]
MbClear(b, c) == [b EXCEPT !.buf = Put(@, 0, Filled(b.len, c))]

MbFind(b, t) ==
  LET at == {i \in 0..(b.len - Len(t)) : SubSeq(b.buf, i + 1, i + Len(t)) = t}
  IN IF at = {} THEN b.len ELSE Smallest(at)
MbIndex(b, c) ==
  LET at == {i \in 1..b.len : b.buf[i] = c} IN IF at = {} THEN b.len ELSE Smallest(at) - 1

(* spif_mbuff_rindex(): the loop ends in front of the buffer, not at its start. *)
MbRindex(b, c) ==
  LET at == {i \in 1..b.len : b.buf[i] = c} IN IF at = {} THEN -1 ELSE Largest(at) - 1

(* The offsets the two searches read: each looks at the byte before it asks *)
(* whether it is one of the buffer's.                                       *)
MbIndexReads(b, c) == 0..MbIndex(b, c)
MbRindexReads(b, c) == MbRindex(b, c)..(b.len - 1)

(* spif_mbuff_cmp(): as far as the shorter one goes. *)
MbEqual(b, t) ==
  LET n == IF b.len < Len(t) THEN b.len ELSE Len(t)
  IN SubSeq(b.buf, 1, n) = SubSeq(t, 1, n)
=============================================================================
