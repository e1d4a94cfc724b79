------------------------------ MODULE Options -------------------------------
(***************************************************************************)
(* spifopt_parse() of options.c over the words of a command line.  A word  *)
(* is the sequence of its characters; Gone is a NULL in argv.  A client    *)
(* may first have the options marked PREPARSE parsed and then the others,  *)
(* and may have what was parsed removed from argv.  One step is one pass   *)
(* through the loop.                                                       *)
(***************************************************************************)
EXTENDS Integers, Sequences, SequencesExt

CONSTANTS Opts,          \* the table: [short, long, type, pre]
          AllowBad,      \* SPIFOPT_ALLOWBAD, after which the help handler exits
          Lines          \* the command lines, as sequences of items

(* An item is what somebody writes for one purpose: its words, what they   *)
(* set, in order, and those of its words that are to stay in argv.         *)
VARIABLES line,          \* the items on the command line
          argv, i, opt,  \* opt is <<word, offset>>, or NullOpt
          preparse, removeArgs, bad,
          handled,       \* the options handled, with their values
          phase,         \* "call", "loop", "again" (called once), "done" or "exit"
          passes         \* through the loop, in this call; only a property reads it

optVars == <<line, argv, i, opt, preparse, removeArgs, bad, handled, phase, passes>>

Gone == <<>>
EndOfWord == "end"
NullOpt == <<0, 0>>
NoValue == [how |-> "none", text |-> <<>>]

Words(items) == FlattenSeq([k \in 1..Len(items) |-> items[k].words])
args == Words(line)
argc == Len(args) + 1
Argv(k) == IF k < argc THEN argv[k] ELSE Gone

At(p) == IF p[2] < Len(args[p[1]]) THEN args[p[1]][p[2] + 1] ELSE EndOfWord
Rest(p) == SubSeq(args[p[1]], p[2] + 1, Len(args[p[1]]))
Forth(p, n) == <<p[1], p[2] + n>>

Indexes(S) == {0} \cup S
First(S) == IF S = {} THEN 0 ELSE CHOOSE j \in S : \A k \in S : j <= k

(* The first option of the table with this letter, or with this name in *)
(* front of the end of the word or an =; 0 is none.                     *)
FindShort(c) == First({j \in 1..Len(Opts) : Opts[j].short = c})
FindLong(w) ==
  First({j \in 1..Len(Opts) :
           /\ IsPrefix(Opts[j].long, w)
           /\ Len(w) = Len(Opts[j].long) \/ w[Len(Opts[j].long) + 1] = "="})

IsBoolean(text) == text \in {<<"1">>, <<"0">>}
IsValid(w) ==
  /\ w[1] = "-"
  /\ IF Len(w) > 1 /\ w[2] = "-" THEN FindLong(SubSeq(w, 3, Len(w))) > 0
     ELSE FindShort(IF Len(w) > 1 THEN w[2] ELSE EndOfWord) > 0

NextWord(text) == [how |-> "next", text |-> text]
FindValueLong(p) ==
  LET eq == First({k \in 1..Len(Rest(p)) : Rest(p)[k] = "="})
  IN IF eq > 0 THEN [how |-> "equal", text |-> Rest(Forth(p, eq))]
     ELSE IF Argv(i + 1) # Gone THEN NextWord(Argv(i + 1)) ELSE NoValue
FindValueShort(p) ==
  IF At(Forth(p, 1)) # EndOfWord THEN [how |-> "joined", text |-> Rest(Forth(p, 1))]
  ELSE IF Argv(i + 1) # Gone THEN NextWord(Argv(i + 1)) ELSE NoValue

(* Mutant: any value will do. *)
TakenAnyway(j, v) == v

(* A boolean takes only a boolean value, an abstract option no option. *)
Taken(j, v) ==
  IF v.how # "none" /\ \/ Opts[j].type = "bool" /\ ~IsBoolean(v.text)
                       \/ Opts[j].type = "abstract" /\ v.text # <<>> /\ IsValid(v.text)
  THEN NoValue ELSE v

(* is_valid_option() reports an unknown option, also as a value. *)
Misnamed(j, v) ==
  /\ Opts[j].type = "abstract" /\ v.how # "none"
  /\ v.text # <<>> /\ v.text[1] = "-" /\ ~IsValid(v.text)

ShouldParse(j) == Opts[j].pre = preparse
NeedsValue(j) == Opts[j].type \in {"string", "integer", "list"}

-----------------------------------------------------------------------------
NextArg(k) ==
  /\ i' = k + 1
  /\ opt' = IF Argv(k + 1) = Gone THEN NullOpt ELSE <<k + 1, 0>>
NextLetter(p) ==
  IF At(Forth(p, 1)) # EndOfWord THEN opt' = Forth(p, 1) /\ UNCHANGED i ELSE NextArg(i)

(* Mutant: nobody counts. *)
CheckNothing == UNCHANGED <<bad, phase>>

(* CHECK_BAD(): above the threshold the help handler ends the program. *)
CheckBad == bad' = bad + 1 /\ phase' = IF bad + 1 > AllowBad THEN "exit" ELSE phase
NotBad == UNCHANGED <<bad, phase>>

Removing == ~preparse /\ removeArgs
(* Mutant: the value stays. *)
RemovedName(ks) ==
  argv' = IF Removing THEN [k \in 1..Len(argv) |-> IF k = i THEN Gone ELSE argv[k]] ELSE argv

Removed(ks) == argv' = IF Removing THEN [k \in 1..Len(argv) |-> IF k \in ks THEN Gone ELSE argv[k]]
                       ELSE argv

Looping == phase = "loop" /\ i < argc /\ opt # NullOpt
AtStart == opt = <<i, 0>> /\ Argv(i) # Gone
Inside == IF AtStart THEN Forth(opt, 1) ELSE opt
IsLong == At(Inside) = "-"
Name == IF IsLong THEN Forth(Inside, 1) ELSE Inside
Found == IF IsLong THEN FindLong(Rest(Name)) ELSE FindShort(At(Name))
Value == Taken(Found, IF IsLong THEN FindValueLong(Name) ELSE FindValueShort(Name))
RawValue == IF IsLong THEN FindValueLong(Name) ELSE FindValueShort(Name)

IsOption == Looping /\ (AtStart => At(opt) = "-")
Pass == passes' = passes + 1

(* A word that is no option is left alone. *)
SkipWord ==
  /\ Looping /\ AtStart /\ At(opt) # "-"
  /\ NextArg(i)
  /\ NotBad
  /\ Pass
  /\ UNCHANGED <<line, argv, preparse, removeArgs, handled>>

(* find_long_option() or find_short_option() fails. *)
UnknownOption ==
  /\ IsOption /\ Found = 0
  /\ CheckBad
  /\ Pass
  /\ IF IsLong THEN NextArg(i) ELSE NextLetter(Name)
  /\ UNCHANGED <<line, argv, preparse, removeArgs, handled>>

(* A value is missing: an error, and round the loop with opt on the name, *)
(* whose letters are then taken for short options.                        *)
MissingValue ==
  /\ IsOption /\ Found > 0 /\ NeedsValue(Found) /\ Value = NoValue
  /\ CheckBad
  /\ Pass
  /\ Removed({i})
  /\ opt' = Name
  /\ UNCHANGED <<line, i, preparse, removeArgs, handled>>

(* The word that the value of the option ends in. *)
LastWord == IF Value.how = "next" THEN i + 1 ELSE i

(* handle_boolean(): a short one is TRUE, whatever value it takes. *)
Truth == IF Value # NoValue /\ IsLong THEN Value.text ELSE <<"1">>

Proceed == IF IsLong \/ Value # NoValue THEN NextArg(LastWord) ELSE NextLetter(Name)
Handles(text) ==
  handled' = IF ShouldParse(Found) THEN Append(handled, <<Found, text>>) ELSE handled

HandleOption ==
  /\ IsOption /\ Found > 0 /\ Opts[Found].type # "list"
  /\ NeedsValue(Found) => Value # NoValue
  /\ Handles(IF Opts[Found].type = "bool" THEN Truth ELSE Value.text)
  /\ IF Misnamed(Found, RawValue) THEN CheckBad ELSE NotBad
  /\ Removed({i, LastWord})
  /\ Proceed
  /\ Pass
  /\ UNCHANGED <<line, preparse, removeArgs>>

(* spifopt_parse() after the loop: what was removed closes up. *)
Kept(words) == SelectSeq(words, LAMBDA w : w # Gone)
Ended(words) ==
  /\ preparse' = FALSE
  /\ argv' = IF Removing THEN Kept(words) ELSE words
  /\ phase' = IF preparse THEN "again" ELSE "done"

(* handle_arglist(): after an = the words of the value; otherwise all that *)
(* is in argv from the word of the value on, and the loop ends.  For -lX   *)
(* that is the word -lX itself, and where it was removed a NULL: strdup()  *)
(* of that ends the program, or (spifmem_strdup()) puts a NULL in front,   *)
(* where the client finds the list at its end.                             *)
UpToNull(words) ==
  SubSeq(words, 1, First({k \in 1..Len(words) : words[k] = Gone} \cup {Len(words) + 1}) - 1)

HandleList ==
  /\ IsOption /\ Found > 0 /\ Opts[Found].type = "list" /\ Value # NoValue
  /\ Pass
  /\ UNCHANGED <<line, removeArgs, bad>>
  /\ LET now == [k \in 1..Len(argv) |-> IF Removing /\ k = i THEN Gone ELSE argv[k]]
         rest == SubSeq(now, LastWord, argc - 1)
         emptied == [k \in 1..Len(now) |->
                       IF removeArgs /\ ShouldParse(Found) /\ k >= LastWord THEN Gone ELSE now[k]]
     IN \/ /\ Value.how = "equal"
           /\ Handles(Value.text)
           /\ Removed({i})
           /\ Proceed
           /\ UNCHANGED <<preparse, phase>>
        \/ /\ Value.how # "equal"
           /\ Handles(FlattenSeq(UpToNull(rest)))
           /\ Ended(emptied)
           /\ UNCHANGED <<i, opt>>
        \/ /\ Value.how # "equal" /\ ShouldParse(Found) /\ \E k \in 1..Len(rest) : rest[k] = Gone
           /\ phase' = "exit"
           /\ UNCHANGED <<i, opt, argv, preparse, handled>>

EndOfLoop ==
  /\ phase = "loop" /\ ~Looping
  /\ Ended(argv)
  /\ UNCHANGED <<line, i, opt, removeArgs, bad, handled, passes>>

(* A call: nothing happens without arguments. *)
Call ==
  /\ phase \in {"call", "again"}
  /\ argc > 1
  /\ phase' = "loop"
  /\ i' = 1 /\ passes' = 0
  /\ opt' = IF Argv(1) = Gone THEN NullOpt ELSE <<1, 0>>
  /\ UNCHANGED <<line, argv, preparse, removeArgs, bad, handled>>

OptInit ==
  /\ line \in Lines
  /\ argv = args
  /\ i = 1 /\ opt = NullOpt
  /\ preparse \in BOOLEAN /\ removeArgs \in BOOLEAN
  /\ bad = 0
  /\ handled = <<>>
  /\ phase = "call"
  /\ passes = 0

OptNext ==
  \/ Call \/ SkipWord \/ UnknownOption \/ MissingValue
  \/ HandleOption \/ HandleList \/ EndOfLoop

-----------------------------------------------------------------------------
Complete == \A k \in 1..Len(line) : line[k].kind # "missing"

(* What an item sets.  A list joined to its option loses all when argv is  *)
(* cleared.                                                                *)
SetBy(item) ==
  [k \in 1..Len(item.sets) |->
     IF item.kind = "joined" /\ removeArgs /\ Opts[item.sets[k][1]].type = "list"
     THEN <<item.sets[k][1], <<>>>> ELSE item.sets[k]]
Sets(pre) ==
  SelectSeq(FlattenSeq([k \in 1..Len(line) |-> SetBy(line[k])]), LAMBDA s : Opts[s[1]].pre = pre)
Unknown == Len(SelectSeq(line, LAMBDA it : it.kind = "unknown"))

(* Whatever options, values and other words are put together, and in        *)
(* whatever of the forms (-b, -sX, -s X, --st=X, --st X, bundles), each is  *)
(* handled once, in order and with its value, those marked PREPARSE in the  *)
(* first pass and the others in the second, and each unknown one reported.  *)
(* Two forms do not mean what is written: -b 0 takes the 0 and sets TRUE    *)
(* (options.c:393), and the list of -lX is the word -lX itself and what     *)
(* follows (options.c:495), or, with SPIFOPT_SETTING_REMOVE_ARGS, empty,    *)
(* where strdup(NULL) does not end the program (options.c:562).             *)
HandledAsWritten ==
  phase \in {"again", "done"} /\ Complete =>
    \/ /\ phase = "again" /\ handled = Sets(TRUE) /\ bad = Unknown
    \/ /\ phase = "done" /\ bad \in {Unknown, 2 * Unknown}
       /\ handled \in {Sets(FALSE), Sets(TRUE) \o Sets(FALSE)}

(* With SPIFOPT_SETTING_REMOVE_ARGS, argv ends up with the words that are no *)
(* option and no value of one, and with unknown options, in their order.     *)
LeftAsWritten ==
  phase = "done" /\ Complete =>
    argv = IF removeArgs THEN FlattenSeq([k \in 1..Len(line) |-> line[k].left]) ELSE args

(* The loop comes to its end: each pass gets past a character of the command *)
(* line or counts an error, and of these only so many are allowed, also when *)
(* a value is missing and the same letters are looked at again.              *)
EndsInTime ==
  /\ passes <= Len(FlattenSeq(args)) + bad
  /\ bad <= AllowBad + 1
=============================================================================
