---------------------------- MODULE ShellExpand -----------------------------
(***************************************************************************)
(* spifconf_shell_expand() of conf.c: what becomes of a line before it is  *)
(* given to a context's handler.  The line is copied to newbuff, byte by   *)
(* byte or by spiftool_safe_strncpy(), and back.  There is one variable in *)
(* the environment, x, and one built-in function, f, whose output does not *)
(* depend on the text it is given; <<>> is no output.                      *)
(***************************************************************************)
EXTENDS Words, FiniteSets

CONSTANTS
  Pieces,         \* what a configuration file is written with
  MaxPieces,      \* bound: pieces in a line
  ConfBuff,       \* CONFIG_BUFF
  Worlds          \* [home, var, output, backquotes]: $HOME, $x, the output
                  \* of f and of commands, and ALLOW_BACKQUOTE_EXEC

VARIABLES
  confLine,       \* a line, as the pieces it has been written with
  world

Tick == "backquote"
Most == ConfBuff - 1
LineText == FlattenSeq(confLine)

(* Where the scan is in the line, how far newbuff is filled, the quotes it *)
(* is within, and "done", "past" the end of the line, or "null".           *)
Scanning == [at |-> 1, buff |-> Filled(ConfBuff, Junk), j |-> 0,
             single |-> FALSE, double |-> FALSE, status |-> "done"]

Shorter(m, n) == IF m < n THEN m ELSE n

(* spiftool_safe_strncpy() *)
SafeCopy(buff, at, t, size) ==
  Put(buff, at, Append(SubSeq(t, 1, Shorter(Len(t), size - 1)), Nul))

(* One byte for n characters of the line. *)
Wrote(e, c, n) == [e EXCEPT !.buff = Put(@, e.j, <<c>>), !.j = @ + 1, !.at = @ + n]

(* Mutant: the copy is not cut to the room there is. *)
InsertedWhole(e, t, where, next) ==
  [e EXCEPT !.buff = IF t = <<>> THEN @ ELSE SafeCopy(@, where, t, Most - e.j),
            !.j = @ + Len(t), !.at = next]

(* Text t for what ends before next; no text takes back the byte. *)
Inserted(e, t, where, next) ==
  [e EXCEPT !.buff = IF t = <<>> THEN @ ELSE SafeCopy(@, where, t, Most - e.j),
            !.j = @ + Shorter(Len(t), Most - e.j), !.at = next]

(* The first of these positions that holds c, or that behind the line. *)
NextOf(t, c, from) == Smallest({k \in from..Len(t) : t[k] = c} \cup {Len(t) + 1})

IsTilde(e, t, w) == t[e.at] = "~" /\ ~e.single /\ ~e.double /\ w.home # <<>>
Escapes(e, t) == t[e.at] = Escape /\ (~e.single \/ Char(t, e.at + 1) = "'")
Copies(e, t) == t[e.at] = Escape /\ ~Escapes(e, t)

(* %f( or, as the code has it, %f ), which makes what is behind it the     *)
(* parameter.                                                              *)
IsCall(t, at) ==
  /\ t[at] = "%" /\ Char(t, at + 1) = "f"
  /\ Char(t, at + 2) = "(" \/ (Char(t, at + 2) = " " /\ Char(t, at + 3) = ")")
ParamStart(t, at) == at + (IF t[at + 2] = "(" THEN 3 ELSE 4)
ParamEnd(t, from) ==
  LET Opened(k) == Cardinality({i \in from..k : t[i] = "("})
      Shut1(k) == Cardinality({i \in from..k : t[i] = ")"})
  IN Smallest({k \in from..Len(t) : Shut1(k) > Opened(k)} \cup {Len(t) + 1})

(* The name at a $, and where the scan goes on: at a closing brace, which  *)
(* is then copied.                                                         *)
Braced(t, at) == Char(t, at + 1) \in {"{", "("}
Brace(t, at) == IF t[at + 1] = "{" THEN "}" ELSE ")"
NameEnd(t, at) ==
  IF Braced(t, at) THEN NextOf(t, Brace(t, at), at + 2)
  ELSE Smallest({k \in (at + 1)..Len(t) : t[k] \notin {"x", "f"}} \cup {Len(t) + 1})
VarName(t, at) == SubSeq(t, at + (IF Braced(t, at) THEN 2 ELSE 1), NameEnd(t, at) - 1)
Getenv(name, w) == IF name = <<"x">> THEN w.var ELSE <<>>

(* A value is copied to the front of newbuff; without one a byte is left   *)
(* as it was.                                                              *)
Valued(e, value, end) ==
  IF value = <<>> THEN [e EXCEPT !.j = @ + 1, !.at = end] ELSE Inserted(e, value, 0, end)
Dollar(e, t, w) ==
  [Valued(e, Getenv(VarName(t, e.at), w), NameEnd(t, e.at)) EXCEPT
     !.status = IF Braced(t, e.at) /\ NameEnd(t, e.at) > Len(t) THEN "past" ELSE @]

RECURSIVE Expanded(_, _)
(* A call with the parameter from..until - 1, which is expanded first; *)
(* given NULL, functions and commands return NULL.                     *)
Answered(e, status, until, w) ==
  IF status = "past" THEN [e EXCEPT !.status = "past"]
  ELSE Inserted(e, IF status = "null" THEN <<>> ELSE w.output, e.j, until + 1)
Command(e, t, from, until, w) ==
  Answered(e, Expanded(SubSeq(t, from, until - 1), w).status, until, w)

CallFunction(e, t, from, until, w) ==
  IF until <= Len(t) THEN Command(e, t, from, until, w)
  ELSE [e EXCEPT !.status = IF from > Len(t) THEN "past" ELSE "null"]

Backquote(e, t, until, w) ==
  [Command(e, t, e.at + 1, until, w) EXCEPT !.status = IF until > Len(t) THEN "past" ELSE @]

(* The character at e.at.  Control characters are left as letters. *)
ScanStep(e, t, w) ==
  LET c == t[e.at]
      d == Char(t, e.at + 1)
  IN CASE IsTilde(e, t, w) -> Inserted(e, w.home, e.j, e.at + 1)
       [] Escapes(e, t) -> Wrote(e, d, 2)
       [] Copies(e, t) -> Wrote(Wrote(e, c, 1), d, 1)
       [] IsCall(t, e.at) -> CallFunction(e, t, ParamStart(t, e.at), ParamEnd(t, ParamStart(t, e.at)), w)
       [] c = "%" /\ ~IsCall(t, e.at) -> Wrote(e, d, 2)
       [] c = Tick /\ w.backquotes /\ ~e.single -> Backquote(e, t, NextOf(t, Tick, e.at + 1), w)
       [] c = "$" /\ ~e.single -> Dollar(e, t, w)
       [] c = "\"" /\ ~e.single -> [Wrote(e, c, 1) EXCEPT !.double = ~e.double]
       [] c = "'" -> [Wrote(e, c, 1) EXCEPT !.single = ~e.single]
       [] OTHER -> Wrote(e, c, 1)

InLine(e, t) == [e EXCEPT !.status = IF e.at > Len(t) + 1 THEN "past" ELSE @]

RECURSIVE Scan(_, _, _)
Scan(e, t, w) ==
  IF e.status # "done" \/ e.at = Len(t) + 1 \/ e.j >= Most THEN e
  ELSE Scan(InLine(ScanStep(e, t, w), t), t, w)

(* The line that is given back; the last assertion fails if the last two   *)
(* bytes written at once were one too many.                                *)
UpToNul(buff) == SubSeq(buff, 1, Smallest({k \in 1..ConfBuff : buff[k] = Nul}) - 1)
GivenBack(e) ==
  IF e.status = "done" /\ e.j >= ConfBuff THEN [text |-> <<>>, status |-> "null"]
  ELSE IF e.status # "done" THEN [text |-> <<>>, status |-> e.status]
  ELSE [text |-> UpToNul(Put(e.buff, e.j, <<Nul>>)), status |-> "done"]
Expanded(t, w) == GivenBack(Scan(Scanning, t, w))

ExpandInit == confLine = <<>> /\ world \in Worlds

(* A line is shorter than the buffer it is read to. *)
WritePiece ==
  /\ Len(confLine) < MaxPieces
  /\ \E p \in Pieces :
       /\ Len(LineText) + Len(p) < Most
       /\ confLine' = Append(confLine, p)
  /\ UNCHANGED world

-----------------------------------------------------------------------------
(* The line as it is meant: a sequence of elements, each with the text it  *)
(* stands for.  One is troubled if the code has something else for it: a   *)
(* value in braces, of which the closing brace stays; a variable without a *)
(* value, for which a byte of junk stays; an open escape, %, brace, call   *)
(* or backquote, or a call whose parameter goes wrong; and a value behind  *)
(* other text, which is copied over the front of the line.                 *)
Element(text, troubled, value) == [text |-> text, troubled |-> troubled, value |-> value]
Plainly(text) == Element(text, FALSE, FALSE)
Literal(c) == Element(<<c>>, c = Nul, FALSE)

(* The element at q.at, and where the next one is. *)
ElementAt(q, t, w) ==
  LET c == t[q.at]
      d == Char(t, q.at + 1)
      Upto(element, n) == [q EXCEPT !.element = element, !.at = n]
      (* A call with the parameter from..until - 1. *)
      Called(from, until) ==
        LET status == Expanded(SubSeq(t, from, until - 1), w).status
        IN Upto(Element(w.output, until > Len(t) \/ status = "past" \/ (status = "null" /\ w.output # <<>>), FALSE),
                until + 1)
      DollarAt(value, end) ==
        Upto(Element(value, Braced(t, q.at) \/ value = <<>>, value # <<>>),
             IF Braced(t, q.at) THEN end + 1 ELSE end)
  IN CASE IsTilde(q, t, w) -> Upto(Plainly(w.home), q.at + 1)
       [] Escapes(q, t) -> Upto(Literal(d), q.at + 2)
       [] Copies(q, t) -> Upto(Element(<<c, d>>, d = Nul, FALSE), q.at + 2)
       [] IsCall(t, q.at) -> Called(ParamStart(t, q.at), ParamEnd(t, ParamStart(t, q.at)))
       [] c = "%" /\ ~IsCall(t, q.at) -> Upto(Literal(d), q.at + 2)
       [] c = Tick /\ w.backquotes /\ ~q.single -> Called(q.at + 1, NextOf(t, Tick, q.at + 1))
       [] c = "$" /\ ~q.single -> DollarAt(Getenv(VarName(t, q.at), w), NameEnd(t, q.at))
       [] c = "\"" /\ ~q.single -> [Upto(Plainly(<<c>>), q.at + 1) EXCEPT !.double = ~q.double]
       [] c = "'" -> [Upto(Plainly(<<c>>), q.at + 1) EXCEPT !.single = ~q.single]
       [] OTHER -> Upto(Plainly(<<c>>), q.at + 1)

RECURSIVE ElementsFrom(_, _, _)
ElementsFrom(q, t, w) ==
  IF q.at > Len(t) THEN <<>>
  ELSE LET next == ElementAt(q, t, w)
       IN << next.element >> \o ElementsFrom(next, t, w)

Elements(t, w) ==
  ElementsFrom([at |-> 1, single |-> FALSE, double |-> FALSE, element |-> Plainly(<<>>)], t, w)

(* What r should be for these elements. *)
Intended(es, r) ==
  LET meant == FlattenSeq([k \in 1..Len(es) |-> es[k].text])
      troubled == {k \in 1..Len(es) :
                     \/ es[k].troubled
                     \/ es[k].value /\ \E i \in 1..(k - 1) : es[i].text # <<>> \/ es[i].troubled}
      whole == [text |-> meant, status |-> "done"]
      UnsetLast == Len(es) > 1 /\ es[Len(es)].text = <<>>
  IN /\ troubled = {} =>
          IF Len(meant) < Most THEN r = whole
          ELSE \/ r.status = "null" /\ Len(meant) > Most /\ meant[Most] = Escape
               \/ r.status = "done" /\ IsPrefix(r.text, meant) /\ Len(r.text) \in (Most - 1)..Most
     /\ Cardinality(troubled) = 1 /\ ~UnsetLast => r # whole
(* A line is expanded to what is meant, whatever it combines, as long as   *)
(* none of its elements is troubled; one that does not fit is cut, or,     *)
(* where the last two bytes are written at once, refused; and no such line *)
(* makes the scan read behind it.  A single troubled element does spoil    *)
(* the line, but for a variable without a value at its end, which may find *)
(* the NUL of a value there.                                               *)
ExpandsAsMeant == Intended(Elements(LineText, world), Expanded(LineText, world))
=============================================================================
