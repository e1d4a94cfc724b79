------------------------------ MODULE SpifConf ------------------------------
(***************************************************************************)
(* The configuration-file parser of src/src/conf.c: the file state stack   *)
(* (fstate), the context state stack (ctx_state), spifconf_parse(), and    *)
(* spifconf_parse_line() called on the lines of a file or, with a NULL     *)
(* stream, on one line taken from the command line.                        *)
(*                                                                         *)
(* The text of a line is abstracted to its kind; what a context handler    *)
(* answers, and whether it asks for the rest of its file to be skipped, is *)
(* chosen freely.  One step is one line, or one handler call where a line  *)
(* makes several (command line only).                                      *)
(***************************************************************************)
EXTENDS Integers, Sequences

CONSTANTS
  Ctx,        (* contexts the client registered a handler for              *)
  Null,       (* context 0, "null", whose handler is parse_null            *)
  Names,      (* names a "begin" line may carry; one outside Ctx is Null's *)
  State,      (* state pointers a client handler may return                *)
  NULL,       (* the null state pointer                                    *)
  FD,         (* streams the process can have open at once                 *)
  NoFp,       (* a NULL FILE pointer                                       *)
  MaxFiles,   (* bound: slots of fstate above slot 0                       *)
  MaxDepth,   (* bound: open contexts                                      *)
  MaxLines,   (* bound: lines of one stream                                *)
  Byte,       (* values of an unsigned char: 256; a run whose index goes   *)
              (* round takes fewer, to get round within its bounds         *)
  Lines,      (* kinds of lines the files hold                             *)
  ArgvLines,  (* kinds of lines handed over with a NULL stream             *)
  StaleFp,    (* what the uninitialized `fp` of %preproc may hold: is it   *)
              (* NULL?  FALSE, TRUE or either                              *)
  OnAssert    (* what a failed ASSERT_RVAL does in this build              *)

Kinds == {"blank", "include", "preproc", "begin", "end", "text"}

ASSUME ConstantsAssumption ==
  /\ Null \notin Ctx
  /\ NULL \notin State
  /\ NoFp \notin FD
  /\ Byte \in Nat /\ MaxFiles \in 1..(Byte - 2)
  /\ MaxDepth \in Nat /\ MaxLines \in Nat
  /\ Lines \subseteq Kinds /\ ArgvLines \subseteq Kinds
  /\ StaleFp \subseteq BOOLEAN
  /\ OnAssert \in {"ignore", "return", "fatal"}

VARIABLES
  mode,           (* where the program is, see Modes                       *)
  fstate,         (* the file state stack: slot -> stream and flags        *)
  fstate_idx,     (* its top, an unsigned char                             *)
  ctx_state,      (* the context state stack: frame -> context and state   *)
  ctx_state_idx,  (* its top                                               *)
  open,           (* streams and bare descriptors open in the process      *)
  stray,          (* those a failed %preproc left: no slot holds them      *)
  temps,          (* streams whose temporary file is still on disk         *)
  left,           (* stream -> lines not yet read from it                  *)
  round,          (* did the index ever come back into the array from      *)
                  (* above?  (history)                                     *)
  call            (* the handler call the last step made                   *)

streams == <<open, stray, temps>>
files == <<fstate, fstate_idx, streams, left, round>>
contexts == <<ctx_state, ctx_state_idx>>
vars == <<mode, files, contexts, call>>

(* "idle": in the client.  "parse": in the loop of spifconf_parse.         *)
(* "argv" and "ret": in a command-line spifconf_parse_line, before its     *)
(* switch and before its return.  "dead": the process has stopped.         *)
Modes == {"idle", "parse", "argv", "ret", "dead"}

CtxIds == Ctx \cup {Null}
Pointers == State \cup {NULL}
Slots == 0..MaxFiles
Frames == 0..MaxDepth

(* fstate_idx is an unsigned char: 0 - 1 is 255 and 255 + 1 is 0.          *)
Inc(i) == IF i = Byte - 1 THEN 0 ELSE i + 1
Dec(i) == IF i = 0 THEN Byte - 1 ELSE i - 1

(* A slot: its stream, its two flags, and the stream whose temporary file  *)
(* `outfile` names.                                                        *)
Slot == [fp : FD \cup {NoFp}, skip : BOOLEAN, preproc : BOOLEAN, out : FD \cup {NoFp}]
EmptySlot == [fp |-> NoFp, skip |-> FALSE, preproc |-> FALSE, out |-> NoFp]
Frame == [id : CtxIds, state : Pointers]
EmptyFrame == [id |-> Null, state |-> NULL]

(* A handler's answer: the pointer it returns, and whether it called       *)
(* file_skip_to_end().                                                     *)
Answer == [ret : Pointers, skip : BOOLEAN]
Call == [ctx : CtxIds, what : {"BEGIN", "LINE", "END"}, arg : Pointers, ret : Pointers]
NoCall == [ctx |-> Null, what |-> "none"]

TypeOK ==
  /\ mode \in Modes
  /\ fstate \in [Slots -> Slot]
  /\ fstate_idx \in 0..(Byte - 1)
  /\ ctx_state \in [Frames -> Frame]
  /\ ctx_state_idx \in Frames
  /\ open \subseteq FD /\ stray \subseteq FD /\ temps \subseteq FD
  /\ left \in [FD -> 0..MaxLines]
  /\ round \in BOOLEAN
  /\ call \in Call \cup {NoCall}

(* spifconf_init_subsystem(): both stacks empty, frame 0 in the null       *)
(* context, every slot zeroed.                                             *)
Init ==
  /\ mode = "idle"
  /\ fstate = [i \in Slots |-> EmptySlot] /\ fstate_idx = 0
  /\ ctx_state = [i \in Frames |-> EmptyFrame] /\ ctx_state_idx = 0
  /\ open = {} /\ stray = {} /\ temps = {}
  /\ left = [f \in FD |-> 0]
  /\ round = FALSE
  /\ call = NoCall

-----------------------------------------------------------------------------
(* The file state stack.                                                   *)

Top == fstate[fstate_idx]

(* What file_peek_skip() may answer: a wrapped index reads outside the     *)
(* array and finds any bit there.                                          *)
MaySkip == fstate_idx \in Slots => Top.skip
MayNotSkip == fstate_idx \in Slots => ~Top.skip

(* The slot on top is in the array and holds a stream pointer; the stream  *)
(* is still open.  (A slot off the stack keeps its pointer, and the index  *)
(* can come round to it.)                                                  *)
Held == fstate_idx \in Slots /\ Top.fp # NoFp
Readable == Held /\ Top.fp \in open \ stray

(* The lines left once the one under the cursor has been read (a line      *)
(* given with a NULL stream is read from no stream).                       *)
Remaining == IF mode = "parse" THEN [left EXCEPT ![Top.fp] = @ - 1] ELSE left

(* fclose(file_peek_fp()), of a stream that may be closed already.         *)
Closed == IF Readable THEN open \ {Top.fp} ELSE open

(* A handler called file_skip_to_end() (or not) with slot k of fs on top.  *)
Skipped(fs, k, skip) ==
  IF skip /\ k \in Slots THEN [fs EXCEPT ![k].skip = TRUE] ELSE fs

(* spifconf_register_fstate() into slot k.  A write outside the array      *)
(* leaves the slots as they were.                                          *)
Pushed(fs, k, f) ==
  IF k \in Slots THEN [fs EXCEPT ![k] = [EmptySlot EXCEPT !.fp = f]] ELSE fs

(* The index goes up, short of the slots of the instance...                *)
Raised ==
  /\ fstate_idx # MaxFiles
  /\ fstate_idx' = Inc(fstate_idx)
  /\ UNCHANGED round

(* ...and down, which is all file_pop() does: the slot stays as it is.     *)
Lowered ==
  /\ fstate_idx' = Dec(fstate_idx)
  /\ round' = (round \/ fstate_idx = MaxFiles + 1)

(* The program goes on in mode m, or an access to slot k outside the array *)
(* stops it.                                                               *)
GoOn(m, k) == mode' \in IF k \in Slots THEN {m} ELSE {m, "dead"}

-----------------------------------------------------------------------------
(* The context state stack.                                                *)

(* ctx_name_to_id(): a name nobody registered is the null context.         *)
NameToId(n) == IF n \in Ctx THEN n ELSE Null

(* Context c's handler is called.  parse_null answers NULL to BEGIN and    *)
(* END, hands a line's state back, and never skips.                        *)
Called(c, what, arg, ans) ==
  /\ c = Null => ans = [ret |-> IF what = "LINE" THEN arg ELSE NULL, skip |-> FALSE]
  /\ call' = [ctx |-> c, what |-> what, arg |-> arg, ret |-> ans.ret]

(* Mutant: ctx_begin() that does not keep the handler's answer.            *)
CtxBeginForgets(n, ans) ==
  /\ ctx_state_idx < MaxDepth
  /\ Called(NameToId(n), "BEGIN", ctx_state[ctx_state_idx].state, ans)
  /\ ctx_state_idx' = ctx_state_idx + 1
  /\ ctx_state' = [ctx_state EXCEPT ![ctx_state_idx + 1] =
                     [id |-> NameToId(n), state |-> NULL]]

(* ctx_begin(): push, call the handler with the enclosing frame's state,   *)
(* keep its answer as the new frame's state.                               *)
CtxBegin(n, ans) ==
  /\ ctx_state_idx < MaxDepth
  /\ Called(NameToId(n), "BEGIN", ctx_state[ctx_state_idx].state, ans)
  /\ ctx_state_idx' = ctx_state_idx + 1
  /\ ctx_state' = [ctx_state EXCEPT ![ctx_state_idx + 1] =
                     [id |-> NameToId(n), state |-> ans.ret]]

(* Mutants: ctx_end() that does not look whether a context is open; that   *)
(* pops before it looks up the handler; that pops before it reads the      *)
(* state.                                                                  *)
CtxEndUnguarded(c, ans) ==
  /\ Called(c, "END", ctx_state[ctx_state_idx].state, ans)
  /\ ctx_state_idx' = ctx_state_idx - 1
  /\ ctx_state' = [ctx_state EXCEPT ![ctx_state_idx] = EmptyFrame]

CtxEndsEnclosing(c, ans) ==
  IF ctx_state_idx = 0
    THEN call' = NoCall /\ UNCHANGED contexts
    ELSE LET d == ctx_state_idx IN
         /\ Called(ctx_state[d - 1].id, "END", ctx_state[d].state, ans)
         /\ ctx_state_idx' = d - 1
         /\ ctx_state' = [ctx_state EXCEPT ![d] = EmptyFrame, ![d - 1].state = ans.ret]

CtxEndPopsFirst(c, ans) ==
  IF ctx_state_idx = 0
    THEN call' = NoCall /\ UNCHANGED contexts
    ELSE LET d == ctx_state_idx IN
         /\ Called(c, "END", ctx_state[d - 1].state, ans)
         /\ ctx_state_idx' = d - 1
         /\ ctx_state' = [ctx_state EXCEPT ![d] = EmptyFrame, ![d - 1].state = ans.ret]

(* ctx_end() with `id` = c: call the handler with the top state, pop, and  *)
(* make its answer the enclosing frame's state.  With no context open it   *)
(* does nothing.                                                           *)
CtxEnd(c, ans) ==
  IF ctx_state_idx = 0
    THEN call' = NoCall /\ UNCHANGED contexts
    ELSE LET d == ctx_state_idx IN
         /\ Called(c, "END", ctx_state[d].state, ans)
         /\ ctx_state_idx' = d - 1
         /\ ctx_state' = [ctx_state EXCEPT ![d] = EmptyFrame, ![d - 1].state = ans.ret]

(* Mutant: the skip flag is cleared in every file.                         *)
SkipClearedEverywhere(fs, k) ==
  IF ctx_state_idx > 0 THEN [i \in Slots |-> [fs[i] EXCEPT !.skip = FALSE]] ELSE fs

(* The file_poke_skip(0) that ends ctx_end(), on slot k of fs.             *)
SkipCleared(fs, k) ==
  IF ctx_state_idx > 0 /\ k \in Slots THEN [fs EXCEPT ![k].skip = FALSE] ELSE fs

-----------------------------------------------------------------------------
(* The body of spifconf_parse_line().                                      *)

(* A line of this kind is under the parser: the next one of the file on    *)
(* top, or what follows the context name of a command-line line.           *)
At(kind) ==
  \/ mode = "parse" /\ Readable /\ left[Top.fp] > 0 /\ kind \in Lines
  \/ mode = "argv" /\ kind \in ArgvLines

LineDone == GoOn(IF mode = "argv" THEN "ret" ELSE "parse", fstate_idx)

(* SPIFCONF_PARSE_RET() with a NULL stream: file_pop(), ctx_end() with     *)
(* `id` = c, and back to mode m.                                           *)
ParseRet(c, ans, m) ==
  LET k == Dec(fstate_idx) IN
  /\ Lowered
  /\ CtxEnd(c, ans)
  /\ fstate' = SkipCleared(fstate, k)
  /\ IF ctx_state_idx > 0 THEN GoOn(m, k) ELSE mode' = m
  /\ UNCHANGED streams

(* The `id` of the line: the context on top.                               *)
TopCtx == ctx_state[ctx_state_idx].id

(* Preprocessed already?  A wrapped index may find either.                 *)
MayBePreproc == fstate_idx \in Slots => Top.preproc
MayNotBePreproc == fstate_idx \in Slots => ~Top.preproc

(* A line that calls nobody: a comment or an empty line, a line too long   *)
(* for the buffer or with no newline, a %-line that is only expanded, an   *)
(* %include whose file cannot be opened.                                   *)
IgnoredLine ==
  /\ At("blank") \/ At("include")
  /\ left' = Remaining /\ call' = NoCall
  /\ LineDone
  /\ UNCHANGED <<fstate, fstate_idx, streams, round, contexts>>

(* A begin or a directive while the rest of the file is being skipped.     *)
SkippedLine ==
  /\ At("begin") \/ At("text")
  /\ MaySkip
  /\ left' = Remaining /\ call' = NoCall
  /\ LineDone
  /\ UNCHANGED <<fstate, fstate_idx, streams, round, contexts>>

(* %include of a file that opens: it goes on top of the stack, skipping or *)
(* not.                                                                    *)
IncludeLine(f, lines) ==
  LET k == Inc(fstate_idx) IN
  /\ At("include")
  /\ f \notin open
  /\ Raised
  /\ fstate' = Pushed(fstate, k, f)
  /\ left' = [Remaining EXCEPT ![f] = lines]
  /\ open' = open \cup {f}
  /\ call' = NoCall
  /\ GoOn(IF mode = "argv" THEN "ret" ELSE "parse", k)
  /\ UNCHANGED <<stray, temps, contexts>>

(* Mutants: the preprocessed flag is not looked at; the closed stream      *)
(* stays on the stack.                                                     *)
PreprocTwice(f, lines) ==
  /\ At("preproc") /\ Readable
  /\ f \notin open
  /\ fstate' = [fstate EXCEPT ![fstate_idx] = [@ EXCEPT !.fp = f, !.preproc = TRUE, !.out = f]]
  /\ left' = [left EXCEPT ![Top.fp] = 0, ![f] = lines]
  /\ open' = Closed \cup {f}
  /\ temps' = temps \cup {f}
  /\ call' = NoCall /\ LineDone
  /\ UNCHANGED <<fstate_idx, stray, round, contexts>>

PreprocKeepsStream(f, lines) ==
  /\ At("preproc") /\ MayNotBePreproc /\ Held
  /\ f \notin open
  /\ fstate' = [fstate EXCEPT ![fstate_idx] = [@ EXCEPT !.preproc = TRUE, !.out = f]]
  /\ left' = [left EXCEPT ![Top.fp] = 0, ![f] = lines]
  /\ open' = Closed \cup {f}
  /\ temps' = temps \cup {f}
  /\ call' = NoCall /\ LineDone
  /\ UNCHANGED <<fstate_idx, stray, round, contexts>>

(* %preproc: the stream on top is closed and replaced with the output of   *)
(* the preprocessor, kept in a temporary file.                             *)
PreprocLine(f, lines) ==
  /\ At("preproc") /\ MayNotBePreproc /\ Held
  /\ f \notin open
  /\ fstate' = [fstate EXCEPT ![fstate_idx] = [@ EXCEPT !.fp = f, !.preproc = TRUE, !.out = f]]
  /\ left' = [left EXCEPT ![Top.fp] = 0, ![f] = lines]
  /\ open' = Closed \cup {f}
  /\ temps' = temps \cup {f}
  /\ call' = NoCall /\ LineDone
  /\ UNCHANGED <<fstate_idx, stray, round, contexts>>

(* ...closing a NULL stream, or one closed already, stops the process.     *)
PreprocCloses ==
  /\ At("preproc") /\ MayNotBePreproc /\ ~Readable
  /\ mode' = "dead" /\ call' = NoCall
  /\ UNCHANGED <<files, contexts>>

(* %preproc with no stream to show for it, and the line is ignored: no     *)
(* temporary file could be made; or one was, and fchmod() or fdopen()      *)
(* failed.  Nobody keeps that file or its descriptor then.  (The memory of *)
(* its name is not followed, nor the file "Eterm-preproc-" of the current  *)
(* directory, which the shell writes to when there is no other name.)      *)
PreprocFails ==
  /\ At("preproc") /\ MayNotBePreproc
  /\ \E made \in {{}} \cup {{f} : f \in FD \ open} :
       /\ open' = open \cup made
       /\ stray' = stray \cup made
       /\ temps' = temps \cup made
  /\ left' = Remaining /\ call' = NoCall
  /\ LineDone
  /\ UNCHANGED <<fstate, fstate_idx, round, contexts>>

(* A second %preproc in one file: SPIFCONF_PARSE_RET() tests the `fp` of   *)
(* the block, which shadows the parameter and has no value yet.  If the    *)
(* garbage is NULL the file and the context on top are popped, else        *)
(* nothing is, not even the file of a command-line line.                   *)
PreprocReturn ==
  /\ At("preproc") /\ MayBePreproc /\ FALSE \in StaleFp
  /\ left' = Remaining /\ call' = NoCall
  /\ GoOn(IF mode = "argv" THEN "idle" ELSE "parse", fstate_idx)
  /\ UNCHANGED <<fstate, fstate_idx, streams, round, contexts>>

PreprocAgain(ans) ==
  /\ At("preproc") /\ MayBePreproc /\ TRUE \in StaleFp
  /\ left' = Remaining
  /\ ParseRet(TopCtx, ans, IF mode = "argv" THEN "idle" ELSE "parse")

(* begin NAME *)
BeginLine(n, ans) ==
  /\ At("begin") /\ MayNotSkip
  /\ CtxBegin(n, ans)
  /\ fstate' = Skipped(fstate, fstate_idx, ans.skip)
  /\ left' = Remaining
  /\ LineDone
  /\ UNCHANGED <<fstate_idx, streams, round>>

(* end, honoured even while the file is being skipped.                     *)
EndLine(ans) ==
  /\ At("end")
  /\ CtxEnd(TopCtx, ans)
  /\ fstate' = SkipCleared(fstate, fstate_idx)
  /\ left' = Remaining
  /\ LineDone
  /\ UNCHANGED <<fstate_idx, streams, round>>

(* Any other line goes to the handler of the context on top, whose answer  *)
(* becomes its state.                                                      *)
TextLine(ans) ==
  /\ At("text") /\ MayNotSkip
  /\ Called(TopCtx, "LINE", ctx_state[ctx_state_idx].state, ans)
  /\ ctx_state' = [ctx_state EXCEPT ![ctx_state_idx].state = ans.ret]
  /\ fstate' = Skipped(fstate, fstate_idx, ans.skip)
  /\ left' = Remaining
  /\ LineDone
  /\ UNCHANGED <<fstate_idx, ctx_state_idx, streams, round>>

-----------------------------------------------------------------------------
(* spifconf_parse() and the command-line entry of spifconf_parse_line().   *)

(* The client parses a file that opens.  The loop is not entered when the  *)
(* index comes out as 0.                                                   *)
Parse(f, lines) ==
  LET k == Inc(fstate_idx) IN
  /\ mode = "idle"
  /\ f \notin open
  /\ Raised
  /\ fstate' = Pushed(fstate, k, f)
  /\ left' = [left EXCEPT ![f] = lines]
  /\ open' = open \cup {f}
  /\ call' = NoCall
  /\ GoOn(IF k = 0 THEN "idle" ELSE "parse", k)
  /\ UNCHANGED <<stray, temps, contexts>>

(* One that does not.                                                      *)
ParseNothing ==
  /\ mode = "idle"
  /\ call' = NoCall
  /\ UNCHANGED <<mode, files, contexts>>

(* Mutant: the temporary file is not removed.                              *)
EofKeepsTemp ==
  /\ mode = "parse" /\ Held /\ (Readable => left[Top.fp] = 0)
  /\ open' = Closed
  /\ fstate' = IF Top.preproc THEN [fstate EXCEPT ![fstate_idx].out = NoFp] ELSE fstate
  /\ Lowered
  /\ mode' = IF Dec(fstate_idx) = 0 THEN "idle" ELSE "parse"
  /\ call' = NoCall
  /\ UNCHANGED <<stray, temps, left, contexts>>

(* End of the file on top: close it, remove its temporary file and forget  *)
(* that file's name, pop it.  (Reading and closing a stream that is closed *)
(* already may look like this too.)                                        *)
Eof ==
  /\ mode = "parse" /\ Held /\ (Readable => left[Top.fp] = 0)
  /\ open' = Closed
  /\ IF Top.preproc
       THEN /\ temps' = temps \ {Top.out}
            /\ fstate' = [fstate EXCEPT ![fstate_idx].out = NoFp]
       ELSE UNCHANGED <<temps, fstate>>
  /\ Lowered
  /\ mode' = IF Dec(fstate_idx) = 0 THEN "idle" ELSE "parse"
  /\ call' = NoCall
  /\ UNCHANGED <<stray, left, contexts>>

(* fgets() on a slot that holds no open stream.                            *)
ReadNoStream ==
  /\ mode = "parse" /\ ~Readable
  /\ mode' = "dead" /\ call' = NoCall
  /\ UNCHANGED <<files, contexts>>

(* A command-line line that is empty or a comment: returned from before    *)
(* anything was pushed, with `id` uninitialized.                           *)
ArgvBlank(garbage, ans) ==
  /\ mode = "idle" /\ "blank" \in ArgvLines
  /\ \/ UNCHANGED left /\ ParseRet(garbage, ans, "idle")
     \/ /\ ctx_state_idx > 0
        /\ mode' = "dead" /\ call' = NoCall
        /\ UNCHANGED <<files, contexts>>

(* A command-line line NAME ...: the push of the stream-less "<argv>" file *)
(* meets ASSERT_RVAL(fp), then context NAME begins; the line is over when  *)
(* nothing follows the name.                                               *)
ArgvLine(n, ans) ==
  /\ mode = "idle" /\ ArgvLines # {}
  /\ IF OnAssert = "fatal"
       THEN mode' = "dead" /\ call' = NoCall /\ UNCHANGED <<files, contexts>>
       ELSE LET k == IF OnAssert = "ignore" THEN Inc(fstate_idx) ELSE fstate_idx
                fs == IF OnAssert = "ignore" THEN Pushed(fstate, k, NoFp) ELSE fstate
            IN /\ IF OnAssert = "ignore" THEN Raised ELSE UNCHANGED <<fstate_idx, round>>
               /\ CtxBegin(n, ans)
               /\ fstate' = Skipped(fs, k, ans.skip)
               /\ \E m \in {"argv", "ret"} :
                    IF OnAssert = "ignore" \/ ans.skip THEN GoOn(m, k) ELSE mode' = m
               /\ UNCHANGED <<streams, left>>

(* The end of a command-line line: drop its file and its context.          *)
ArgvReturn(ans) ==
  /\ mode = "ret"
  /\ UNCHANGED left
  /\ ParseRet(TopCtx, ans, "idle")

-----------------------------------------------------------------------------
ParseStep ==
  \/ IgnoredLine \/ SkippedLine \/ PreprocReturn
  \/ \E f \in FD, lines \in 0..MaxLines : IncludeLine(f, lines)
  \/ \E f \in FD, lines \in 0..MaxLines : PreprocLine(f, lines)
  \/ PreprocCloses
  \/ PreprocFails
  \/ \E n \in Names, ans \in Answer : BeginLine(n, ans)
  \/ \E ans \in Answer : EndLine(ans)
  \/ \E ans \in Answer : TextLine(ans)
  \/ \E ans \in Answer : PreprocAgain(ans)
  \/ Eof
  \/ ReadNoStream

ClientStep ==
  \/ \E f \in FD, lines \in 0..MaxLines : Parse(f, lines)
  \/ ParseNothing
  \/ \E c \in CtxIds, ans \in Answer : ArgvBlank(c, ans)
  \/ \E n \in Names, ans \in Answer : ArgvLine(n, ans)

Next == ParseStep \/ ClientStep \/ \E ans \in Answer : ArgvReturn(ans)

Spec == Init /\ [][Next]_vars

(* spifconf_parse() runs its loop until it returns: the caller is blocked  *)
(* in it, reads of regular files and the handlers return.                  *)
FairSpec == Spec /\ WF_vars(ParseStep)

-----------------------------------------------------------------------------
(* Properties.                                                             *)

(* No stream on the file stack has been closed: fgets() and fclose() are   *)
(* never given a stream that Eof or %preproc closed before                 *)
(* (conf.c:889-911 and 989-994).  Until the index comes round: file_pop()  *)
(* leaves the closed streams in their slots, and command-line lines pop    *)
(* what was never pushed, until the byte is back at the end of the array.  *)
NoUseAfterClose ==
  ~round /\ fstate_idx \in Slots =>
    \A i \in Slots : i <= fstate_idx => fstate[i].fp \in (open \ stray) \cup {NoFp}

(* In file mode, the streams open in the process are those of the slots    *)
(* 1..fstate_idx, each in one slot, the temporary files on disk are those  *)
(* of its preprocessed slots, and back in the client nothing is left:      *)
(* %include, %preproc and Eof leak and double-close nothing.  What a       *)
(* %preproc that fails half-way leaves, and nobody ever closes or removes, *)
(* is all there is beside them (conf.c:901-912, file.c:81).                *)
StreamsOwned ==
  /\ fstate_idx \in Slots
  /\ mode = "idle" <=> fstate_idx = 0
  /\ \A i \in 1..fstate_idx : fstate[i].fp \in FD \ stray
  /\ \A i, j \in 1..fstate_idx : fstate[i].fp = fstate[j].fp => i = j
  /\ open = {fstate[i].fp : i \in 1..fstate_idx} \cup stray
  /\ temps = {fstate[i].out : i \in {j \in 1..fstate_idx : fstate[j].preproc}} \cup stray

(* While an included file is read, and when it ends, the files below it    *)
(* keep their stream, position and flags: the inner file's end and skip    *)
(* requests touch the inner file only.                                     *)
FilesBelowUntouched ==
  [][\A i \in Slots : i < fstate_idx /\ i <= fstate_idx' =>
       /\ fstate'[i] = fstate[i]
       /\ fstate[i].fp \in FD => left'[fstate[i].fp] = left[fstate[i].fp]]_vars

(* The handler calls of a parse nest and go to the innermost context       *)
(* (ConfProtocol), across files: a context may begin in one file and end   *)
(* in another, a begin may be skipped whose end is not.                    *)
Protocol == INSTANCE ConfProtocol WITH
  begun <- [i \in 1..ctx_state_idx |-> ctx_state[i].id],
  last <- [ctx |-> call.ctx, what |-> call.what]
CallsNest == Protocol!Spec

(* A parse ends, whatever the files hold, include and preprocess.          *)
Terminates == mode = "parse" ~> mode # "parse"

-----------------------------------------------------------------------------
(* What the documentation in the code promises and the code does not keep. *)

(* conf.c:1051 "the information for that file is pushed onto the empty     *)
(* stack".                                                                 *)
ParseStartsEmpty ==
  [][mode = "idle" /\ mode' \in {"idle", "parse"} /\ open' # open => fstate_idx = 0]_vars

(* conf.c:1057 a file is "parsed in its entirety [...] before its          *)
(* information is popped off the stack".                                   *)
ReadToEnd == [][mode = "parse" /\ fstate_idx' < fstate_idx => left[Top.fp] = 0]_vars
=============================================================================
