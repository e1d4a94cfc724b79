----------------------------- MODULE ConfClient -----------------------------
(***************************************************************************)
(* The parser with clients that keep an object per open context, as the    *)
(* "Context Handling" notes at the end of src/src/conf.c describe: BEGIN   *)
(* allocates it, each line hands it on, END frees it.  What END returns is *)
(* the convention: the notes say NULL; the parser makes it the state of    *)
(* the enclosing context, so a client that nests contexts must return the  *)
(* state that BEGIN was given.                                             *)
(***************************************************************************)
EXTENDS SpifConf

CONSTANT Convention   (* "documented" or "nesting" *)

ASSUME ConventionAssumption == Convention \in {"documented", "nesting"}

VARIABLES
  live,    (* objects allocated and not freed                              *)
  outer    (* object -> the state its BEGIN was called with                *)

cvars == <<vars, live, outer>>

ClientInit ==
  /\ Init
  /\ live = {}
  /\ outer = [s \in State |-> NULL]

(* BEGIN allocates an object. *)
Allocates ==
  /\ call'.what = "BEGIN"
  /\ call'.ret \in State \ live
  /\ live' = live \cup {call'.ret}
  /\ outer' = [outer EXCEPT ![call'.ret] = call'.arg]

(* A line gets the object and hands it back. *)
HandsBack ==
  /\ call'.what = "LINE"
  /\ call'.ret = call'.arg
  /\ UNCHANGED <<live, outer>>

(* END frees the object. *)
Frees ==
  /\ call'.what = "END"
  /\ live' = live \ {call'.arg}
  /\ outer' = IF call'.arg \in State THEN [outer EXCEPT ![call'.arg] = NULL] ELSE outer
  /\ call'.ret = IF Convention = "nesting" /\ call'.arg \in State
                   THEN outer[call'.arg] ELSE NULL

(* No client handler runs. *)
NoHandler ==
  /\ call'.ctx = Null
  /\ UNCHANGED <<live, outer>>

Handlers ==
  \/ NoHandler
  \/ call'.ctx \in Ctx /\ (Allocates \/ HandsBack \/ Frees)

ClientNext == Next /\ Handlers
ClientSpec == ClientInit /\ [][ClientNext]_cvars

-----------------------------------------------------------------------------
(* Every line and every END reaches its handler with an object that a      *)
(* BEGIN allocated and no END has freed (conf.c:1128 "the second parameter *)
(* will contain the handler's previous return value").                     *)
CallsGetLiveState ==
  [][call'.what \in {"LINE", "END"} /\ call'.ctx \in Ctx => call'.arg \in live]_cvars

(* The live objects are the states of the open contexts, one each: the     *)
(* stack never loses an object before its END, whatever is skipped or      *)
(* included, and when no context is open nothing is left allocated.        *)
LiveAreOpen ==
  /\ live = {ctx_state[i].state : i \in 1..ctx_state_idx}
  /\ \A i, j \in 1..ctx_state_idx : ctx_state[i].state = ctx_state[j].state => i = j
  /\ ctx_state[0].state = NULL
=============================================================================
