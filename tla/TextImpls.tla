----------------------------- MODULE TextImpls ------------------------------
(***************************************************************************)
(* A client that makes the same calls on a str, a ustr and an mbuff, as    *)
(* src/test/test.c does with each.  Each call names the classes that part  *)
(* on it, in textParted: those it leaves with another text, or with an     *)
(* access outside of their bytes (README.md says how).  After such a call  *)
(* the client ends.                                                        *)
(***************************************************************************)
EXTENDS Ustr, Mbuff

CONSTANTS MaxText,        \* the longest text
          MaxSlack        \* the most bytes an object has behind its text

ASSUME TextBounds == MaxText \in Nat /\ MaxSlack \in Nat

VARIABLES text,           \* the text the client expects
          str, ustr, mbuff,
          textParted

textVars == <<text, str, ustr, mbuff, textParted>>

Texts(n) == UNION {[1..k -> Chars] : k \in 0..n}

When(class, cond) == IF cond THEN {class} ELSE {}
Both(cond) == When("str", cond) \cup When("ustr", cond)

(* A call whose outcome is t for the client and s, u and m for the classes. *)
Becomes(t, s, u, m, parts) ==
  /\ textParted = {}
  /\ Len(t) <= MaxText
  /\ s.size <= MaxText + MaxSlack + 1
  /\ m.size <= MaxText + MaxSlack + 1
  /\ text' = t /\ str' = s /\ ustr' = u /\ mbuff' = m
  /\ textParted' = parts

Bare == str = NoText
Slack == str.size - str.len - 1

(* The init functions, of new objects.  Here the text is read from an array *)
(* of slack bytes more.                                                     *)
DoFromBuff(t, slack) ==
  Bare /\ Becomes(t, StrFromBuff(t, Len(t) + slack), UstrFromBuff(t, Len(t) + slack),
                  MbFromBuff(t, Len(t) + slack), {})
DoFromPtr(t) == Bare /\ Becomes(t, StrFromPtr(t), UstrFromPtr(t), MbFromPtr(t), {})

(* A line of a file, read with fgets() by the strings; the mbuff has the file. *)
DoFromFp(line, newline, start, moved) ==
  LET cut == Len(line) + (IF newline THEN 1 ELSE 0) \notin 1..(BuffInc - 1)
      seekable == ~moved
  IN /\ Bare
     /\ moved => start = 0
     /\ Becomes(line, StrFromFp(line, newline), UstrFromFp(line, newline),
                MbFromFp(line, seekable, start, moved),
                Both(cut) \cup When("mbuff", (start > 0 /\ line # <<>>)
                                              \/ (moved /\ Len(line) > BuffInc)))

(* Data that arrives in up to two reads, of a file or of a pipe, where a    *)
(* signal may interrupt one of them (the first or the second; 0 is none).   *)
(* errno may still be EINTR from before the call.                           *)
DoFromFd(first, rest, seekable, moved, failed, stale) ==
  LET reads == IF rest = <<>> THEN 1 ELSE 2
      eintr == failed > 0 \/ stale
      bad == eintr \/ (moved /\ reads = 2)
  IN /\ Bare
     /\ Len(first) <= BuffInc /\ Len(rest) <= BuffInc
     /\ first = <<>> => rest = <<>> /\ failed # 2
     /\ seekable => failed = 0
     /\ Becomes(first \o rest,
                StrFromFd(first \o rest, reads, moved, eintr),
                UstrFromFd(first \o rest, reads, moved, eintr),
                MbFromFd(first, rest, seekable, moved, failed),
                Both(bad) \cup When("mbuff", \/ seekable /\ first # <<>>
                                             \/ failed = 1
                                             \/ failed = 2 /\ Len(first) = BuffInc
                                             \/ rest # <<>> /\ Len(first) < BuffInc
                                             \/ rest # <<>> /\ moved))

DoDone == Becomes(<<>>, StrDone(str), UstrDone(ustr), MbDone(mbuff), {})

(* The client goes on with the duplicate. *)
DoDup == Becomes(text, StrDup(str), UstrDup(ustr), MbDup(mbuff), Both(Bare \/ Slack > 0))

(* t is handed over as an object that has slack bytes more. *)
DoAppend(t, slack) ==
  LET o == StrFromBuff(t, Len(t) + slack)
  IN Becomes(text \o t, StrAppend(str, o), UstrAppend(ustr, o),
             MbAppend(mbuff, MbFromBuff(t, Len(t) + slack)),
             Both(Bare /\ t # <<>> /\ o.size = Len(t) + 1))
DoAppendFromPtr(t) ==
  Becomes(text \o t, StrAppendFromPtr(str, t), UstrAppendFromPtr(ustr, t),
          MbAppendFromPtr(mbuff, t), Both(Bare /\ t # <<>>))
DoAppendChar(c) ==
  Becomes(Append(text, c), StrAppendChar(str, c), UstrAppendChar(ustr, c),
          MbAppendFromPtr(mbuff, <<c>>), Both(Bare))

(* The NUL of a bare string that grows at its front is a byte nobody wrote. *)
DoPrepend(t, slack) ==
  LET o == StrFromBuff(t, Len(t) + slack)
  IN Becomes(t \o text, StrPrepend(str, o), UstrPrepend(ustr, o),
             MbPrepend(mbuff, MbFromBuff(t, Len(t) + slack)), Both(Bare /\ t # <<>>))
DoPrependFromPtr(t) ==
  Becomes(t \o text, StrPrependFromPtr(str, t), UstrPrependFromPtr(ustr, t),
          MbPrependFromPtr(mbuff, t), Both(Bare /\ t # <<>>))
DoPrependChar(c) ==
  Becomes(<<c>> \o text, StrPrependChar(str, c), UstrPrependChar(ustr, c),
          MbPrependFromPtr(mbuff, <<c>>), Both(Bare \/ Slack < 2))

(* A negative count means the same to splice as to substr: all but so many.  *)
(* The classes add the index to it, so that the two agree only at the start. *)
Count(idx, cnt) == IF cnt < 0 THEN Room(text, idx) + cnt ELSE cnt
AddedCount(idx, cnt) == IF cnt < 0 THEN Start(text, idx) + Len(text) + cnt ELSE cnt

Splices(idx, n) == Within(text, idx) /\ n \in 0..Room(text, idx)
Outcome(idx, n, t) == IF Splices(idx, n) THEN Replaced(text, idx, n, t) ELSE text

DoSplice(idx, cnt, t, object) ==
  LET misread == Outcome(idx, Count(idx, cnt), t) # Outcome(idx, AddedCount(idx, cnt), t)
  IN Becomes(Outcome(idx, Count(idx, cnt), t),
             StrSplice(str, idx, cnt, t), UstrSplice(ustr, idx, cnt, t),
             IF object THEN MbSplice(mbuff, idx, cnt, t) ELSE MbSpliceFromPtr(mbuff, idx, cnt, t),
             Both(misread)
               \cup When("mbuff", misread \/ (object /\ Splices(idx, AddedCount(idx, cnt)))))

(* The client goes on with the part. *)
DoSubstr(idx, cnt) ==
  LET n == IF cnt <= 0 THEN Room(text, idx) + cnt ELSE cnt
      most == IF n > Room(text, idx) THEN Room(text, idx) ELSE n
  IN /\ Within(text, idx) /\ n >= 0
     /\ Becomes(SubSeq(text, Start(text, idx) + 1, Start(text, idx) + most),
                StrSubstr(str, idx, cnt)[1], UstrSubstr(ustr, idx, cnt)[1],
                MbSubbuff(mbuff, idx, cnt)[1], {})

(* What is all blank keeps one blank. *)
DoTrim ==
  LET blank == Stripped(text) = <<>>
  IN Becomes(Stripped(text), StrTrim(str), UstrTrim(ustr), MbTrim(mbuff),
             Both(blank) \cup When("mbuff", blank))

DoReverse == Becomes(Turned(text), StrReverse(str), UstrReverse(ustr), MbReverse(mbuff), {})
DoClear(c) ==
  Becomes(Filled(Len(text), c), StrClear(str, c), UstrClear(ustr, c), MbClear(mbuff, c), Both(Bare))

(* A byte buffer has no case; its client makes a new one. *)
DoUpcase ==
  LET t == Mapped(text, ToUpper)
  IN Becomes(t, StrUpcase(str), UstrUpcase(ustr), MbFromPtr(t), Both(Bare))
DoDowncase ==
  LET t == Mapped(text, ToLower)
  IN Becomes(t, StrDowncase(str), UstrDowncase(ustr), MbFromPtr(t), Both(Bare))

-----------------------------------------------------------------------------
Handed == Texts(2)
Numbers == (-MaxText)..MaxText

TextInit ==
  /\ text = <<>>
  /\ str = NoText /\ ustr = NoText /\ mbuff = NoText
  /\ textParted = {}

TextNext ==
  \/ \E t \in Texts(MaxText), slack \in 0..MaxSlack : DoFromBuff(t, slack)
  \/ \E t \in Texts(MaxText) : DoFromPtr(t)
  \/ \E line \in Texts(MaxText), start \in 0..1, newline, moved \in BOOLEAN :
       DoFromFp(line, newline, start, moved)
  \/ \E first, rest \in Handed, seekable, moved, stale \in BOOLEAN, failed \in 0..2 :
       DoFromFd(first, rest, seekable, moved, failed, stale)
  \/ DoDone \/ DoDup \/ DoTrim \/ DoReverse \/ DoUpcase \/ DoDowncase
  \/ \E t \in Handed, slack \in 0..MaxSlack : DoAppend(t, slack) \/ DoPrepend(t, slack)
  \/ \E t \in Handed : DoAppendFromPtr(t) \/ DoPrependFromPtr(t)
  \/ \E c \in Chars : DoAppendChar(c) \/ DoPrependChar(c) \/ DoClear(c)
  \/ \E idx, cnt \in Numbers, t \in Texts(1), object \in BOOLEAN : DoSplice(idx, cnt, t, object)
  \/ \E idx, cnt \in Numbers : DoSubstr(idx, cnt)

TextsSpec == TextInit /\ [][TextNext]_textVars

-----------------------------------------------------------------------------
TextTypeOK ==
  /\ text \in Texts(MaxText)
  /\ textParted \subseteq {"str", "ustr", "mbuff"}
  /\ \A b \in {str, ustr} : b.size \in Nat /\ b.len \in Nat /\ b.wild \in BOOLEAN
  /\ mbuff.wild \in BOOLEAN
  /\ \/ mbuff.size \in Nat /\ mbuff.len \in Nat
     \/ mbuff = Unread /\ "mbuff" \in textParted

(* A string ends in a NUL behind its length and has none before, within the *)
(* size it keeps, which is no more than the bytes it has.                   *)
StrSound(b) ==
  /\ ~b.wild
  /\ b # NoText => /\ b.len < b.size /\ b.size <= Len(b.buf)
                   /\ Len(CText(b)) = b.len

MbSound(b) == ~b.wild /\ 0 <= b.len /\ b.len <= b.size /\ b.size <= Len(b.buf)

Right(class) ==
  CASE class = "str" -> StrSound(str) /\ Content(str) = text
    [] class = "ustr" -> StrSound(ustr) /\ Content(ustr) = text
    [] class = "mbuff" -> MbSound(mbuff) /\ Content(mbuff) = text

(* However a client has built its text, the classes that have that text,    *)
(* with the length and size they keep right, are exactly those that have    *)
(* not parted: test.c expects the same of the three, one short sequence of  *)
(* calls at a time.                                                         *)
SameText == \A class \in {"str", "ustr", "mbuff"} : Right(class) <=> class \notin textParted

(* The searches and comparisons answer for the text the client expects, and *)
(* what is not found is at the length; an mbuff compares as far as the      *)
(* shorter goes.  Its search for a byte that is not there reads behind its  *)
(* bytes, unless it has some to spare (mbuff.c:491), and that from the end  *)
(* in front of them (mbuff.c:565): in these cases, and no others, there is  *)
(* no saying what happens.                                                  *)
TextReadsAgree ==
  LET strings == str # NoText /\ "str" \notin textParted
  IN /\ \A c \in Chars :
          /\ strings => /\ StrIndex(str, c) = FirstOf(text, c)
                          /\ StrRindex(str, c) = LastOf(text, c)
                          /\ UstrIndex(ustr, c) = FirstOf(text, c)
                          /\ UstrRindex(ustr, c) = LastOf(text, c)
          /\ "mbuff" \notin textParted =>
               LET there == FirstOf(text, c) < Len(text)
                   forth == InBounds(mbuff, MbIndexReads(mbuff, c))
                   back == InBounds(mbuff, MbRindexReads(mbuff, c))
               IN /\ forth <=> there \/ Len(text) < Len(mbuff.buf)
                  /\ forth => MbIndex(mbuff, c) = FirstOf(text, c)
                  /\ back <=> there
                  /\ back => MbRindex(mbuff, c) = LastOf(text, c)
     /\ \A t \in Handed :
          /\ strings => /\ StrFind(str, t) = FirstMatch(text, t)
                          /\ UstrFind(ustr, t) = FirstMatch(text, t)
                          /\ (StrEqual(str, t) <=> text = t)
                          /\ (UstrEqual(ustr, t) <=> text = t)
          /\ "mbuff" \notin textParted =>
               /\ MbFind(mbuff, t) = FirstMatch(text, t)
               /\ (MbEqual(mbuff, t) /\ Len(t) = Len(text)) <=> text = t
=============================================================================
