------------------------------- MODULE Words -------------------------------
(***************************************************************************)
(* How LibAST takes a text apart into words: spif_tok_eval() of tok.c, and *)
(* spiftool_split(), join(), get_word(), get_pword(), num_words(), chomp() *)
(* and condense_whitespace() of strings.c.  A NULL answer is NoWord; a     *)
(* scan that runs past the NUL ends in OffTheEnd.                          *)
(***************************************************************************)
EXTENDS Str, SequencesExt

CONSTANTS MaxSource       \* the longest text looked at

VARIABLE source           \* a text, as far as a user has typed it

Typed == {"a", " ", "\"", "'", "\\", ":"}
Quotes == {"\"", "'"}
Escape == "\\"
NoSep == {}               \* no delimiters given: whitespace is meant
NoWord == <<Nul>>
OffTheEnd == <<Junk>>

From(s, n) == SubSeq(s, n, Len(s))
Char(s, n) == IF n \in 1..Len(s) THEN s[n] ELSE Nul

(* Mutant: the NUL is no delimiter. *)
IsDelimButNul(c, sep) == IF sep = NoSep THEN IsSpace(c) ELSE c \in sep

(* IS_DELIM(): strchr(3) also finds the NUL that ends the delimiters. *)
IsDelim(c, sep) == IF sep = NoSep THEN IsSpace(c) ELSE c \in sep \cup {Nul}

RECURSIVE SkipDelims(_, _)
SkipDelims(s, sep) ==
  IF s # <<>> /\ IsDelim(s[1], sep) THEN SkipDelims(Tail(s), sep) ELSE s

(* The loop over one word that spif_tok_eval() and spiftool_split() share.  *)
(* How far split() goes behind a quote within quotes of the other kind is   *)
(* one more than tok_eval(): it steps over the next character as well.      *)
RECURSIVE ReadWord(_, _, _, _, _)
ReadWord(s, sep, quote, word, stray) ==
  LET c == Char(s, 1)
      d == Char(s, 2)
      inside == quote # Nul
  IN IF c = Nul \/ (~inside /\ IsDelim(c, sep)) THEN [word |-> word, rest |-> s]
     ELSE IF c \in Quotes /\ (~inside \/ c = quote)
       THEN ReadWord(Tail(s), sep, IF inside THEN Nul ELSE c, word, stray)
     ELSE IF c \in Quotes
       THEN IF stray > Len(s) THEN [word |-> OffTheEnd, rest |-> <<>>]
            ELSE ReadWord(From(s, stray + 1), sep, quote, Append(word, c), stray)
     ELSE IF c = Escape /\ (IsDelim(d, sep) \/ (inside /\ d = quote))
       THEN IF d = Nul THEN [word |-> OffTheEnd, rest |-> <<>>]
            ELSE ReadWord(From(s, 3), sep, quote, Append(word, d), stray)
     ELSE ReadWord(Tail(s), sep, quote, Append(word, c), stray)

RECURSIVE ReadWords(_, _, _)
ReadWords(s, sep, stray) ==
  LET t == SkipDelims(s, sep)
      r == ReadWord(t, sep, Nul, <<>>, stray)
  IN IF t = <<>> THEN <<>> ELSE <<r.word>> \o ReadWords(r.rest, sep, stray)

Split(s, sep) == ReadWords(s, sep, 2)

(* The tokens are trimmed by spif_str_trim(), also those that were quoted. *)
Trimmed(t) == IF t = OffTheEnd THEN t ELSE Content(StrTrim(StrFromPtr(t)))
(* Mutant: the step behind a stray quote that split() makes. *)
EvalAsSplit(s, sep) ==
  LET words == ReadWords(s, sep, 2) IN [k \in 1..Len(words) |-> Trimmed(words[k])]

Eval(s, sep) ==
  LET words == ReadWords(s, sep, 1) IN [k \in 1..Len(words) |-> Trimmed(words[k])]

RECURSIVE Join(_, _)
Join(sep, words) ==
  IF Len(words) = 1 THEN words[1] ELSE words[1] \o sep \o Join(sep, Tail(words))

-----------------------------------------------------------------------------
(* The word at the front of s, up to delim, or to a blank if there is none. *)
RECURSIVE CopyWord(_, _, _)
CopyWord(s, delim, word) ==
  LET c == Char(s, 1)
      escaped == c = Escape /\ Char(s, 2) \in Quotes
  IN IF c = Nul \/ (IF delim = Nul THEN IsSpace(c) ELSE c = delim) THEN [word |-> word, rest |-> s]
     ELSE IF escaped THEN CopyWord(From(s, 3), delim, Append(word, s[2]))
     ELSE CopyWord(Tail(s), delim, Append(word, c))

PastQuote(s) == IF Char(s, 1) \in Quotes THEN Tail(s) ELSE s
Delim(s) == IF Char(s, 1) \in Quotes THEN s[1] ELSE Nul

RECURSIVE GetWord(_, _)
GetWord(index, s) ==
  LET t == SkipDelims(s, NoSep)
      r == CopyWord(PastQuote(t), Delim(t), <<>>)
  IN IF s = <<>> THEN NoWord
     ELSE IF index = 1 THEN r.word ELSE GetWord(index - 1, PastQuote(r.rest))

(* spiftool_get_pword() goes by blanks alone. *)
RECURSIVE SkipInk(_)
SkipInk(s) == IF s # <<>> /\ ~IsSpace(s[1]) THEN SkipInk(Tail(s)) ELSE s

RECURSIVE Onward(_, _)
Onward(n, s) ==
  IF n = 0 \/ s = <<>> THEN s ELSE Onward(n - 1, SkipDelims(SkipInk(s), NoSep))

(* Mutant: one word too far. *)
GetPwordNext(index, s) ==
  LET t == PastQuote(Onward(index, SkipDelims(s, NoSep))) IN IF t = <<>> THEN NoWord ELSE t

GetPword(index, s) ==
  LET t == PastQuote(Onward(index - 1, SkipDelims(s, NoSep))) IN IF t = <<>> THEN NoWord ELSE t

(* spiftool_num_words() knows no escapes. *)
RECURSIVE SkipWordTo(_, _)
SkipWordTo(s, delim) ==
  IF s = <<>> \/ (IF delim = Nul THEN IsSpace(s[1]) ELSE s[1] = delim) THEN s
  ELSE SkipWordTo(Tail(s), delim)

RECURSIVE NumWords(_)
NumWords(s) ==
  LET t == SkipDelims(s, NoSep)
  IN IF t = <<>> THEN 0 ELSE 1 + NumWords(PastQuote(SkipWordTo(PastQuote(t), Delim(t))))

-----------------------------------------------------------------------------
(* spiftool_chomp() *)
Chomp(s) ==
  LET t == SkipDelims(s, NoSep)
  IN SubSeq(t, 1, Largest({0} \cup {i \in 1..Len(t) : ~IsSpace(t[i])}))

(* spiftool_condense_whitespace(): a blank for each run of them, but none at *)
(* the end; of an empty text it looks at the byte in front.                  *)
CondenseWhitespace(s) ==
  LET first == {i \in 1..Len(s) : IsSpace(s[i]) => i = 1 \/ ~IsSpace(s[i - 1])}
      RECURSIVE Kept(_)
      Kept(i) == IF i > Len(s) THEN <<>>
                 ELSE (IF i \in first THEN <<s[i]>> ELSE <<>>) \o Kept(i + 1)
      t == Kept(1)
  IN IF s = <<>> THEN OffTheEnd
     ELSE IF IsSpace(t[Len(t)]) THEN SubSeq(t, 1, Len(t) - 1) ELSE t

-----------------------------------------------------------------------------
WordsInit == source = <<>>
TypeWord == \E c \in Typed : Len(source) < MaxSource /\ source' = Append(source, c)

Uses(S) == \E i \in 1..Len(source) : source[i] \in S

(* How somebody writes a word in quotes q: an escape in front of what would *)
(* end it or be taken for a delimiter.                                      *)
Quoted(q, word, sep) ==
  LET special == {q} \cup (IF sep = NoSep THEN {" "} ELSE sep)
      written == [i \in 1..Len(word) |->
                    IF word[i] \in special THEN <<Escape, word[i]>> ELSE <<word[i]>>]
  IN <<q>> \o FlattenSeq(written) \o <<q>>

(* Every word that does not end in the escape character can be written in   *)
(* either kind of quotes, with default or other delimiters, and comes back  *)
(* from spif_tok_eval() between its neighbours, blanks at its ends trimmed; *)
(* from split() if it also has no quote of the other kind in it.            *)
QuotedWordsComeBack ==
  Char(source, Len(source)) # Escape =>
    \A q \in Quotes, sep \in {NoSep, {":"}} :
      LET gap == IF sep = NoSep THEN <<" ">> ELSE <<":">>
          line == <<"a">> \o gap \o Quoted(q, source, sep) \o gap \o <<"a">>
      IN /\ Eval(line, sep) = << <<"a">>, Trimmed(source), <<"a">> >>
         /\ ~Uses(Quotes \ {q}) => Split(line, sep) = << <<"a">>, source, <<"a">> >>

(* spif_tok_eval() never reads past the end of a text, whatever quotes and *)
(* escapes are open there, except when delimiters are given and the text   *)
(* ends in an escape: strchr(3) then finds the NUL to be a delimiter.      *)
ScansStopAtTheEnd ==
  \A sep \in {NoSep, {":"}} :
    (\E k \in 1..Len(Eval(source, sep)) : Eval(source, sep)[k] = OffTheEnd)
      <=> (sep # NoSep /\ Char(source, Len(source)) = Escape)

(* num_words() counts the words that get_word() gives, as conf.c relies on, *)
(* as long as no escape is among them (a blank at the end gives one more,   *)
(* which is empty); without quotes these are the words of split() and the   *)
(* starts of what get_pword() gives, also after condense_whitespace().      *)
WordsCounted ==
  ~Uses({Escape}) =>
    LET n == NumWords(source)
        blankEnd == IsSpace(Char(source, Len(source)))
    IN /\ \A k \in 1..n : GetWord(k, source) # NoWord
       /\ GetWord(n + 1, source) = NoWord \/ (blankEnd /\ GetWord(n + 1, source) = <<>>)
       /\ ~Uses(Quotes) =>
            /\ Split(source, NoSep) = [k \in 1..n |-> GetWord(k, source)]
            /\ \A k \in 1..n : IsPrefix(GetWord(k, source), GetPword(k, source))
            /\ source # <<>> => Split(CondenseWhitespace(source), NoSep) = Split(source, NoSep)
            /\ Chomp(source) = Stripped(source)
=============================================================================
