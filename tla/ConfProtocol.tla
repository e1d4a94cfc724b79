---------------------------- MODULE ConfProtocol ----------------------------
(***************************************************************************)
(* What the configuration parser promises a client's context handlers: the *)
(* calls they see, whatever files, includes, preprocessors and skipped     *)
(* stretches the calls come from.  BEGIN and END calls nest; a line goes   *)
(* to the innermost open context, or to the null context when none is      *)
(* open.                                                                   *)
(***************************************************************************)
EXTENDS Integers, Sequences

CONSTANTS
  Ctx,   (* the contexts with a client handler *)
  Null   (* the null context                   *)

VARIABLES
  begun,  (* the contexts begun and not yet ended, innermost last *)
  last    (* the call of the last step: its context and its kind  *)

None == [ctx |-> Null, what |-> "none"]
Innermost == IF begun = <<>> THEN Null ELSE begun[Len(begun)]

Init == begun = <<>> /\ last = None

(* A context begins inside the innermost one. *)
Begin(c) ==
  /\ last' = [ctx |-> c, what |-> "BEGIN"]
  /\ begun' = Append(begun, c)

(* A directive for the innermost context. *)
Line ==
  /\ last' = [ctx |-> Innermost, what |-> "LINE"]
  /\ UNCHANGED begun

(* The innermost context, and no other, ends. *)
End ==
  /\ begun # <<>>
  /\ last' = [ctx |-> Innermost, what |-> "END"]
  /\ begun' = SubSeq(begun, 1, Len(begun) - 1)

(* The parser works without calling anybody. *)
Quiet == last' = None /\ UNCHANGED begun

Next == (\E c \in Ctx \cup {Null} : Begin(c)) \/ Line \/ End \/ Quiet

Spec == Init /\ [][Next]_<<begun, last>>
=============================================================================
