-------------------------------- MODULE Str ---------------------------------
(***************************************************************************)
(* src/src/str.c: text with a NUL behind it.                               *)
(***************************************************************************)
EXTENDS TextSpec

(* The text up to the first NUL, as the C library sees it. *)
CText(b) == SubSeq(b.buf, 1, Smallest({i \in 1..Len(b.buf) : b.buf[i] = Nul} \cup {Len(b.buf) + 1}) - 1)

(* spif_str_init_from_ptr(), spif_str_init_from_num(), and spif_str_sprintf() *)
(* with what it prints                                                        *)
StrFromPtr(t) ==
  [buf |-> Append(t, Nul), size |-> Len(t) + 1, len |-> Len(t), wild |-> FALSE]

(* spif_str_init_from_buff() *)
StrFromBuff(t, size) ==
  LET len == IF Len(t) < size THEN Len(t) ELSE size
      room == IF size = len THEN size + 1 ELSE size
  IN [buf |-> Put(Filled(room, Junk), 0, Append(SubSeq(t, 1, len), Nul)),
      size |-> room, len |-> len, wild |-> FALSE]

(* spif_str_init_from_fp() of a line and its newline, if the file has one: *)
(* each fgets() takes BuffInc - 1 characters and ends them with a NUL, but *)
(* the next goes BuffInc further, through a pointer that REALLOC() leaves  *)
(* behind; with nothing to read the length is that of junk.                *)
StrFromFp(line, newline) ==
  LET whole == Len(line) + (IF newline THEN 1 ELSE 0)
  IN [StrFromPtr(line) EXCEPT !.wild = whole > BuffInc - 1 \/ whole = 0]

(* spif_str_init_from_fd() with the data in this many reads: REALLOC() may *)
(* move the buffer under the pointer of the next read, and an interrupted  *)
(* one (-1) is counted.  While errno is EINTR, from that read or from      *)
(* before the call, the end of the data does not end the loop.             *)
StrFromFd(t, reads, moved, eintr) ==
  [StrFromPtr(t) EXCEPT !.wild = eintr \/ (moved /\ reads > 1)]

StrDone(b) == IF b.size > 0 THEN NoText ELSE b

(* spif_str_dup(): the size is copied, the bytes are those of a strdup(3). *)
StrDup(b) ==
  [b EXCEPT !.buf = Append(CText(b), Nul), !.wild = b.buf = <<>>]

(* The end of the four that add: grown by n, the tail written at offset at. *)
Grown(b, n, more) ==
  [b EXCEPT !.buf = Resized(@, b.size + n), !.size = @ + n, !.len = @ + more,
            !.wild = @ \/ b.len + more + 1 > b.size + n]

StrAppendText(b, t, n) ==
  LET g == Grown(b, n, Len(t))
  IN Settled([g EXCEPT !.buf = Put(@, b.len, Append(t, Nul))])
StrPrependText(b, t, n) ==
  LET g == Grown(b, n, Len(t))
  IN Settled([g EXCEPT !.buf = Put(@, 0, t \o Peek(b.buf, 0, b.len + 1))])

StrAppend(b, o) ==
  IF o.size > 0 /\ o.len > 0 THEN StrAppendText(b, Content(o), o.size - 1) ELSE b
StrAppendFromPtr(b, t) == IF t = <<>> THEN b ELSE StrAppendText(b, t, Len(t))
StrAppendChar(b, c) == StrAppendText(b, <<c>>, IF b.size <= b.len + 1 THEN 1 ELSE 0)

StrPrepend(b, o) ==
  IF o.size > 0 /\ o.len > 0 THEN StrPrependText(b, Content(o), o.size - 1) ELSE b
StrPrependFromPtr(b, t) == IF t = <<>> THEN b ELSE StrPrependText(b, t, Len(t))

(* spif_str_prepend_char() moves as many bytes as the new length has, and *)
(* the one behind them: one more than there are.                          *)
StrPrependChar(b, c) ==
  LET p == StrPrependText(b, <<c>>, IF b.size <= b.len + 1 THEN 1 ELSE 0)
  IN [p EXCEPT !.wild = @ \/ p.len + 2 > Len(p.buf)]

(* spif_str_splice(), spif_str_splice_from_ptr(): a negative count is taken *)
(* from the length plus the index, not less the index.                      *)
StrSplice(b, idx, count, t) ==
  LET i == IF idx < 0 THEN b.len + idx ELSE idx
      cnt == IF count < 0 THEN i + b.len + count ELSE count
      new == b.len + Len(t) - cnt + 1
      room == IF b.size < new THEN new ELSE b.size
      spliced == Peek(b.buf, 0, i) \o t \o Peek(b.buf, i + cnt, b.len - i - cnt + 1)
  IN IF i \notin 0..(b.len - 1) \/ cnt \notin 0..(b.len - i) THEN b
     ELSE Settled([b EXCEPT !.buf = Put(IF b.size < new THEN Resized(@, new) ELSE @, 0, spliced),
                            !.size = room, !.len = new - 1,
                            !.wild = @ \/ new > IF b.size < new THEN new ELSE Len(b.buf)])

(* spif_str_substr(), spif_str_substr_to_ptr(); <<>> is a NULL answer. *)
StrSubstr(b, idx, count) ==
  LET i == IF idx < 0 THEN b.len + idx ELSE idx
      cnt == IF count <= 0 THEN b.len - i + count ELSE count
      most == IF cnt > b.len - i THEN b.len - i ELSE cnt
  IN IF i \notin 0..(b.len - 1) \/ cnt < 0 THEN <<>>
     ELSE <<StrFromBuff(Peek(b.buf, i, b.len - i), most)>>

(* spif_str_trim(): the two loops stop where they meet, and an empty string *)
(* has its end in front of its start.                                       *)
StrTrim(b) ==
  LET t == Content(b)
      ink == {i \in 1..Len(t) : ~IsSpace(t[i])}
      start == Smallest(ink \cup {b.len})
      end == Largest({i \in ink : i >= start} \cup {start})
  IN IF b.len = 0 THEN [NoText EXCEPT !.wild = TRUE]
     ELSE StrFromPtr(SubSeq(t, start, end))

StrReverse(b) ==
  IF b.buf = <<>> THEN b ELSE [b EXCEPT !.buf = Put(@, 0, Turned(CText(b)))]

(* spif_str_clear() writes a NULL buffer, and so do the two below. *)
StrClear(b, c) ==
  Settled([b EXCEPT !.buf = Put(Filled(Len(@), c), b.len, <<Nul>>), !.wild = @ \/ b.buf = <<>>])
StrDowncase(b) ==
  [b EXCEPT !.buf = Put(@, 0, Mapped(CText(b), ToLower)), !.wild = @ \/ b.buf = <<>>]
StrUpcase(b) ==
  [b EXCEPT !.buf = Put(@, 0, Mapped(CText(b), ToUpper)), !.wild = @ \/ b.buf = <<>>]

(* Mutant: the first one instead of the last. *)
StrRindexFirst(b, c) ==
  LET at == {i \in 1..Len(CText(b)) : b.buf[i] = c} IN IF at = {} THEN b.len ELSE Smallest(at) - 1

(* strstr(3), index(3) and rindex(3); what is not found is at the length. *)
StrFind(b, t) ==
  LET at == {i \in 0..(Len(CText(b)) - Len(t)) : SubSeq(CText(b), i + 1, i + Len(t)) = t}
  IN IF at = {} THEN b.len ELSE Smallest(at)
StrIndex(b, c) ==
  LET at == {i \in 1..Len(CText(b)) : b.buf[i] = c} IN IF at = {} THEN b.len ELSE Smallest(at) - 1
StrRindex(b, c) ==
  LET at == {i \in 1..Len(CText(b)) : b.buf[i] = c} IN IF at = {} THEN b.len ELSE Largest(at) - 1
StrEqual(b, t) == CText(b) = t
=============================================================================
