----------------------------- MODULE MCClients -----------------------------
(***************************************************************************)
(* Programs that use one part of LibAST each: sockets, the text classes,   *)
(* the option parser, the tokenizers, URLs, version comparison, or one of  *)
(* three parts of conf.c: its tables, the expansion of lines, the search   *)
(* for files.  The parts share no state, so each program leaves the        *)
(* others' alone.                                                          *)
(***************************************************************************)
EXTENDS Socket, TextImpls, Options, UrlText, Version, ConfTables, ShellExpand, ConfFiles, TLC

VARIABLE part

confParts == <<tableVars, confLine, world, fileVars>>
clientVars == <<part, sockVars, textVars, optVars, source, urlText, compared, confParts>>

(* Sockets: a listener or a client by host, and a pair of both kinds. *)
Tcp == [proto |-> "tcp", host |-> TRUE, path |-> FALSE]
Local == [proto |-> "unix", host |-> FALSE, path |-> TRUE]
Pairs == {<<Tcp, None>>, <<Local, Tcp>>}

(* Options: each type, one of them for the first pass. *)
Opt(s, l, t, p) == [short |-> s, long |-> l, type |-> t, pre |-> p]
Table == << Opt("b", <<"b", "o">>, "bool", FALSE), Opt("s", <<"s", "t">>, "string", FALSE),
            Opt("p", <<"p", "r">>, "integer", TRUE), Opt("l", <<"l", "i">>, "list", FALSE),
            Opt("a", <<"a", "b">>, "abstract", FALSE) >>

Item(kind, words, sets, left) == [kind |-> kind, words |-> words, sets |-> sets, left |-> left]
Option(words, sets) == Item("option", words, sets, <<>>)
X == <<"x">>
PlainWord == Item("plain", <<X>>, <<>>, <<X>>)
BareA == Option(<< <<"-", "a">> >>, << <<5, <<>>>> >>)
Middle == {
  PlainWord, BareA,
  Option(<< <<"-", "-", "b", "o">> >>, << <<1, <<"1">>>> >>),
  Option(<< <<"-", "-", "b", "o", "=", "0">> >>, << <<1, <<"0">>>> >>),
  Option(<< <<"-", "-", "b", "o">>, <<"0">> >>, << <<1, <<"0">>>> >>),
  Option(<< <<"-", "b">>, <<"0">> >>, << <<1, <<"1">>>> >>),
  Option(<< <<"-", "b", "s", "x">> >>, << <<1, <<"1">>>>, <<2, X>> >>),
  Option(<< <<"-", "s">>, X >>, << <<2, X>> >>),
  Option(<< <<"-", "-", "s", "t">>, <<"-", "b">> >>, << <<2, <<"-", "b">>>> >>),
  Option(<< <<"-", "-", "p", "r">>, X >>, << <<3, X>> >>),
  Option(<< <<"-", "b", "p", "x">> >>, << <<1, <<"1">>>>, <<3, X>> >>),
  Option(<< <<"-", "-", "l", "i", "=", "x">> >>, << <<4, X>> >>),
  Option(<< <<"-", "a">>, X >>, << <<5, X>> >>),
  Item("unknown", << <<"-", "q">> >>, <<>>, << <<"-", "q">> >>),
  Item("unknown", << <<"-", "-", "q">> >>, <<>>, << <<"-", "-", "q">> >>) }
Final == {
  Option(<< <<"-", "l">>, X, <<"-", "b">> >>, << <<4, <<"x", "-", "b">>>> >>),
  Item("joined", << <<"-", "l", "x">>, X >>, << <<4, <<"-", "l", "x", "x">>>> >>, <<>>),
  Item("joined", << <<"-", "b", "l", "x">> >>, << <<1, <<"1">>>>, <<4, <<"-", "b", "l", "x">>>> >>, <<>>),
  Item("missing", << <<"-", "s">> >>, <<>>, <<>>),
  Item("missing", << <<"-", "-", "s", "t">> >>, <<>>, <<>>) }

(* An abstract option without a value is followed by an option, or by nothing; *)
(* a third item is one that ends a line.                                       *)
Sensible(items) ==
  \A k \in 1..(Len(items) - 1) :
    /\ items[k] \in Middle
    /\ items[k] = BareA => items[k + 1].kind \notin {"plain", "unknown"}
AllLines == {items \in UNION {[1..n -> Middle \cup Final] : n \in 1..3} :
               Sensible(items) /\ (Len(items) = 3 => items[3] \in Final)}

(* Versions: a number and what follows it, two runs deep. *)
Pre == Special(2)
Rc == Special(5)
Fix == OtherWord(6, FALSE)
Prefix == OtherWord(7, TRUE)
Dot == Mark(1)
Tilde == Mark(2)
Behind == {Pre, Rc, Fix, Prefix, Dot, Tilde}
SomeVersions ==
  {<<>>, <<Number(1)>>, <<Number(2)>>, <<Pre>>, <<Dot>>, <<Number(1), Dot, Pre>>,
   <<Number(1), Dot, Number(1), Pre>>, <<Number(1), Dot, Number(1), Rc>>}
  \cup {<<Number(1), r>> : r \in Behind}
  \cup {<<Number(1), r, Number(n)>> : r \in Behind, n \in 1..2}

(* Configuration lines, and what is around when they are read. *)
SomePieces ==
  {<<"x">>, <<"~">>, <<Escape>>, <<Escape, "x">>, <<"%">>, <<"%", "f", "(">>, <<"%", "f", " ", ")">>,
   <<")">>, <<"$">>, <<"$", "x">>, <<"$", "{", "x">>, <<"$", "(">>, <<"}">>, <<"'">>, <<"\"">>, <<Tick>>}
World(h, v, o, b) ==
  [home |-> Filled(h, "h"), var |-> Filled(v, "v"), output |-> Filled(o, "o"), backquotes |-> b]
SomeWorlds ==
  {World(5, 2, 2, TRUE), World(0, 0, 0, FALSE), World(5, 0, 2, FALSE), World(0, 2, 0, TRUE)}

(* Files in the root directory, /d and /d/d; dir "", "/", "d" and "/d". *)
Down(slashes, n) == PathOf(slashes, Filled(n, "d"))
File(slashes, n) == PathOf(slashes, Append(Filled(n, "d"), "f"))
SomePlaces == {Append(Filled(n, "d"), "f") : n \in 0..2}
SomeHomes == {Filled(n, "d") : n \in 0..1}
SomeNames == {File(slashes, n) : slashes, n \in 0..1}
SomeDirs == {None} \cup {Down(slashes, n) : slashes, n \in 0..1}
SomePaths == {None, <<>>, << Down(0, 0), Down(0, 1), Down(1, 0) >>, << Down(1, 1), Down(1, 2) >>}

-----------------------------------------------------------------------------
OneLine == CHOOSE items \in AllLines : Len(items) = 1

(* A program that uses another part has fixed values here. *)
Init ==
  /\ part \in {"sockets", "texts", "options", "words", "urls", "versions", "tables", "lines", "files"}
  /\ part # "options" => line = OneLine /\ preparse = FALSE /\ removeArgs = FALSE
  /\ part # "tables" => table = "contexts"
  /\ part # "lines" => world = World(0, 0, 0, FALSE)
  /\ part # "files" => cwd = <<>> /\ disk = [place \in SomePlaces |-> "none"]
  /\ SockInit /\ TextInit /\ WordsInit /\ UrlInit /\ VersionInit
  /\ OptInit /\ TablesInit /\ ExpandInit /\ FilesInit

NextSockets ==
  /\ part = "sockets" /\ SockNext
  /\ UNCHANGED <<part, textVars, optVars, source, urlText, compared, confParts>>
NextTexts ==
  /\ part = "texts" /\ TextNext
  /\ UNCHANGED <<part, sockVars, optVars, source, urlText, compared, confParts>>
NextOptions ==
  /\ part = "options" /\ OptNext
  /\ UNCHANGED <<part, sockVars, textVars, source, urlText, compared, confParts>>
NextWords ==
  /\ part = "words" /\ TypeWord
  /\ UNCHANGED <<part, sockVars, textVars, optVars, urlText, compared, confParts>>
NextUrls ==
  /\ part = "urls" /\ TypeUrl
  /\ UNCHANGED <<part, sockVars, textVars, optVars, source, compared, confParts>>
NextVersions ==
  /\ part = "versions" /\ CompareNext
  /\ UNCHANGED <<part, sockVars, textVars, optVars, source, urlText, confParts>>

Elsewhere == <<part, sockVars, textVars, optVars, source, urlText, compared>>
NextTables ==
  /\ part = "tables" /\ TablesNext
  /\ UNCHANGED <<Elsewhere, confLine, world, fileVars>>
NextLines ==
  /\ part = "lines" /\ WritePiece
  /\ UNCHANGED <<Elsewhere, tableVars, fileVars>>
NextFiles ==
  /\ part = "files" /\ FilesNext
  /\ UNCHANGED <<Elsewhere, tableVars, confLine, world>>

Next ==
  \/ NextSockets \/ NextTexts \/ NextOptions \/ NextWords \/ NextUrls \/ NextVersions
  \/ NextTables \/ NextLines \/ NextFiles

Spec == Init /\ [][Next]_clientVars

(* The variables of the parts are well formed. *)
TypesOK == SocketTypeOK /\ TextTypeOK

Objects == Permutations(Object)
=============================================================================
