----------------------------- MODULE ConfTables -----------------------------
(***************************************************************************)
(* What conf.c keeps by name: the contexts and built-in functions that a   *)
(* client registers, and the variables of %put() and %get().               *)
(***************************************************************************)
EXTENDS Integers, Sequences, SequencesExt

CONSTANTS
  CtxNames,       \* names of contexts besides "null"
  NullCtx,        \* the name "null"
  Handlers,       \* what contexts and functions are registered with
  ParseNull,      \* parse_null, the handler context 0 begins with
  NoEntry,        \* a NULL name, handler or value
  FuncNames, FuncRoom,      \* names of functions, and slots before the table grows
  VarNames, VarValues,      \* variables, numbered in the order of strcmp(3)
  MaxTable        \* bound: entries a client registers

ASSUME TablesAssumption ==
  /\ NullCtx \notin CtxNames /\ NoEntry \notin CtxNames \cup {NullCtx}
  /\ NoEntry \notin Handlers \cup VarValues
  /\ VarNames \subseteq Int
  /\ FuncRoom \in Nat \ {0}

VARIABLES
  table,          \* which of the three the client works with
  context,        \* context[k + 1] is the context with the number k
  builtins,
  confVars,       \* spifconf_vars, from the first to the last
  staleVars,      \* spifconf_vars points to variables that have been freed
  told,           \* history: the contexts or functions registered, in order
  puts            \* history: what was put last of each variable

tableVars == <<table, context, builtins, confVars, staleVars, told, puts>>

Entry(name, value) == [name |-> name, value |-> value]

(* The first entry of that name; behind the last one if there is none. *)
FirstNamed(entries, name) ==
  LET named == {k \in 1..Len(entries) : entries[k].name = name} \cup {Len(entries) + 1}
  IN CHOOSE k \in named : \A j \in named : k <= j

(* spifconf_init_subsystem() *)
FreshContexts == << Entry(NullCtx, ParseNull) >>

(* spifconf_register_context(): "null" gives up the name of context 0 and  *)
(* is written to the context registered last.  (The doubling of the array, *)
(* whose count is an unsigned char, is ConfStack's.)                       *)
RegisterContext(name, handler) ==
  context' = IF name # NullCtx
             THEN Append(context, Entry(name, handler))
             ELSE [[context EXCEPT ![1].name = NoEntry]
                            EXCEPT ![Len(context)] = Entry(NullCtx, handler)]

(* ctx_name_to_id() and ctx_id_to_func(): NoEntry if the search compares   *)
(* with the name that context 0 has given up.                              *)
ContextHandler(name) ==
  LET k == FirstNamed(context, name)
  IN IF context[1].name = NoEntry THEN NoEntry
     ELSE context[IF k > Len(context) THEN 1 ELSE k].value

(* spifconf_register_builtin() *)
RegisterBuiltin(name, f) == builtins' = Append(builtins, Entry(name, f))

(* The search for the function of %name(): it ends at the first NULL name, *)
(* and only the slots the table began with have been cleared.              *)
FindBuiltin(name) ==
  LET k == FirstNamed(builtins, name)
  IN IF k <= Len(builtins) THEN {builtins[k].value}
     ELSE IF Len(builtins) < FuncRoom THEN {NoEntry} ELSE {NoEntry} \cup Handlers

(* spifconf_get_var() *)
GetVar(name) ==
  LET k == FirstNamed(confVars, name)
  IN IF k > Len(confVars) THEN NoEntry ELSE confVars[k].value

(* %get(name fallback) *)
BuiltinGet(name, fallback) == IF GetVar(name) # NoEntry THEN GetVar(name) ELSE fallback

(* Mutant: the search does not stop in front of a larger name. *)
PlaceOfBehind(name) ==
  LET there == {k \in 1..Len(confVars) : confVars[k].name > name} \cup {Len(confVars) + 1}
  IN CHOOSE k \in there : \A j \in there : k <= j

(* Where the search of spifconf_put_var() ends. *)
PlaceOf(name) ==
  LET there == {k \in 1..Len(confVars) : confVars[k].name >= name} \cup {Len(confVars) + 1}
  IN CHOOSE k \in there : \A j \in there : k <= j

(* spifconf_put_var(): without a value the variable is deleted. *)
PutVar(name, value) ==
  LET k == PlaceOf(name)
      known == k <= Len(confVars) /\ confVars[k].name = name
  IN confVars' =
       IF known /\ value # NoEntry THEN [confVars EXCEPT ![k].value = value]
       ELSE IF known THEN RemoveAt(confVars, k)
       ELSE IF value = NoEntry THEN confVars
       ELSE InsertAt(confVars, k, Entry(name, value))

-----------------------------------------------------------------------------
TablesInit ==
  /\ table \in {"contexts", "functions", "variables"}
  /\ context = FreshContexts
  /\ builtins = <<>>
  /\ confVars = <<>> /\ staleVars = FALSE
  /\ told = <<>> /\ puts = [name \in VarNames |-> NoEntry]

Says(name, value) == told' = Append(told, Entry(name, value))

DoContext(name, handler) ==
  /\ table = "contexts" /\ Len(told) < MaxTable
  /\ RegisterContext(name, handler)
  /\ Says(name, handler)
  /\ UNCHANGED <<table, builtins, confVars, staleVars, puts>>

DoBuiltin(name, f) ==
  /\ table = "functions" /\ Len(told) < MaxTable
  /\ RegisterBuiltin(name, f)
  /\ Says(name, f)
  /\ UNCHANGED <<table, context, confVars, staleVars, puts>>

(* %put(name value) with two words; num_words() counts two and get_word()   *)
(* finds one where a quote within the name is escaped and the name's own   *)
(* never closed.                                                           *)
BuiltinPut(name, value) ==
  /\ table = "variables" /\ ~staleVars
  /\ PutVar(name, value)
  /\ puts' = [puts EXCEPT ![name] = value]
  /\ UNCHANGED <<table, context, builtins, staleVars, told>>

(* spifconf_free_subsystem() and spifconf_init_subsystem(): the contexts   *)
(* and functions are new, spifconf_vars still points where it did.         *)
Restart ==
  /\ context' = FreshContexts /\ builtins' = <<>>
  /\ staleVars' = (staleVars \/ confVars # <<>>)
  /\ told' = <<>> /\ puts' = [name \in VarNames |-> NoEntry]
  /\ UNCHANGED <<table, confVars>>

TablesNext ==
  \/ \E name \in CtxNames \cup {NullCtx}, h \in Handlers : DoContext(name, h)
  \/ \E name \in FuncNames, h \in Handlers : DoBuiltin(name, h)
  \/ \E name \in VarNames, value \in VarValues \cup {NoEntry} : BuiltinPut(name, value)
  \/ Restart

TablesSpec == TablesInit /\ [][TablesNext]_tableVars

-----------------------------------------------------------------------------
(* "null" was registered when there were other contexts. *)
NullWasLate ==
  \E i, j \in 1..Len(told) : i < j /\ told[i].name # NullCtx /\ told[j].name = NullCtx

Said(name) == told[FirstNamed(told, name)].value
WasTold(name) == FirstNamed(told, name) <= Len(told)
LastNull ==
  LET nulls == {k \in 1..Len(told) : told[k].name = NullCtx}
  IN IF nulls = {} THEN ParseNull
     ELSE told[CHOOSE k \in nulls : \A j \in nulls : j <= k].value

(* However many names a client has registered, and variables been put,     *)
(* replaced and deleted in any order, each name answers what was said: the *)
(* first that was registered, the last that was put, and for a name nobody *)
(* gave the null context, no function and the fallback.  It goes wrong     *)
(* exactly where "null" is registered behind other contexts (conf.c:118),  *)
(* where the search for an unknown function runs into slots the growing    *)
(* table did not clear (conf.c:157), and where the variables outlive       *)
(* spifconf_free_subsystem() (conf.c:183).                                 *)
TablesAnswer ==
  /\ table = "contexts" =>
       IF NullWasLate THEN ContextHandler(NullCtx) = NoEntry
       ELSE \A name \in CtxNames :
              ContextHandler(name) = IF WasTold(name) THEN Said(name) ELSE LastNull
  /\ table = "functions" =>
       \A name \in FuncNames :
         IF WasTold(name) THEN FindBuiltin(name) = {Said(name)}
         ELSE FindBuiltin(name) = {NoEntry} <=> Len(told) < FuncRoom
  /\ table = "variables" /\ ~staleVars =>
       \A name \in VarNames, fallback \in VarValues \cup {NoEntry} :
         BuiltinGet(name, fallback) = IF puts[name] # NoEntry THEN puts[name] ELSE fallback
=============================================================================
