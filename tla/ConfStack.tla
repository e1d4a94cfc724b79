----------------------------- MODULE ConfStack ------------------------------
(***************************************************************************)
(* How the arrays of src/src/conf.c grow: fstate, ctx_state and context    *)
(* start with 10 or 20 elements and double when their index reaches their  *)
(* count.  Index and count are unsigned chars.                             *)
(***************************************************************************)
EXTENDS Integers

CONSTANTS
  Byte,    (* values of an unsigned char: 256                              *)
  First,   (* elements of the first allocation                             *)
  Limit    (* bound: the highest index the client and its files reach      *)

ASSUME SizesAssumption ==
  /\ Byte \in Nat \ {0}
  /\ First \in 1..(Byte - 1)
  /\ Limit \in 0..(Byte - 1)

VARIABLES
  idx,   (* fstate_idx, ctx_state_idx or ctx_idx                           *)
  cnt,   (* fstate_cnt, ctx_state_cnt or ctx_cnt                           *)
  cap    (* elements the last MALLOC or REALLOC gave the array             *)

stack == <<idx, cnt, cap>>

Init == idx = 0 /\ cnt = First /\ cap = First

(* Mutant: the array grows one element late.                               *)
RegisterLate ==
  /\ idx < Limit
  /\ idx' = (idx + 1) % Byte
  /\ IF idx' > cnt
       THEN cnt' = (cnt * 2) % Byte /\ cap' = cnt'
       ELSE UNCHANGED <<cnt, cap>>

(* spifconf_register_fstate(), _context_state(), _context(): the element   *)
(* written is the one idx comes to.                                        *)
Register ==
  /\ idx < Limit
  /\ idx' = (idx + 1) % Byte
  /\ IF idx' = cnt
       THEN cnt' = (cnt * 2) % Byte /\ cap' = cnt'
       ELSE UNCHANGED <<cnt, cap>>

(* file_pop(), ctx_pop() of an element there is. *)
Pop ==
  /\ idx > 0
  /\ idx' = idx - 1
  /\ UNCHANGED <<cnt, cap>>

Next == Register \/ Pop

Spec == Init /\ [][Next]_stack

-----------------------------------------------------------------------------
(* The element on top, the one every push writes and every peek reads, is  *)
(* inside the array (conf.c:135-143, 166-172; libast.h:1528 a push "adds a *)
(* new file state structure to the top of the stack").                     *)
TopInArray == idx < cap

(* The inductive invariant behind it while the count cannot wrap. *)
GrowthInv ==
  /\ idx \in 0..Limit
  /\ cnt \in 1..(Byte - 1)
  /\ cap = cnt
  /\ idx < cnt
=============================================================================
