----------------------------- MODULE ConfProofs -----------------------------
(* Proofs about SpifConf and ConfClient: what the parser keeps of its      *)
(* files, that it implements ConfProtocol, and what its clients get.       *)
EXTENDS ConfClient, DataLemmas

(* The unsigned char arithmetic of the file index.                         *)
LEMMA ByteArithmetic ==
  ASSUME NEW i \in 0..(Byte - 1)
  PROVE  /\ Inc(i) \in 0..(Byte - 1) /\ Dec(i) \in 0..(Byte - 1)
         /\ i < Byte - 1 => Inc(i) = i + 1
         /\ i = Byte - 1 => Inc(i) = 0
         /\ i > 0 => Dec(i) = i - 1
         /\ i = 0 => Dec(i) = Byte - 1
  BY ConstantsAssumption DEF Inc, Dec

(* The index of a push or a pop, in the array or not.                      *)
LEMMA RaisedIndex ==
  ASSUME TypeOK, Raised
  PROVE  /\ fstate_idx' = Inc(fstate_idx) /\ fstate_idx' \in 0..(Byte - 1) /\ round' = round
         /\ fstate_idx \in Slots => fstate_idx' = fstate_idx + 1 /\ fstate_idx' \in Slots
         /\ fstate_idx \notin Slots /\ fstate_idx' \in Slots => fstate_idx' = 0
<1>1. fstate_idx \in 0..(Byte - 1) /\ Byte \in Nat /\ MaxFiles \in 1..(Byte - 2)
  BY ConstantsAssumption DEF TypeOK
<1>2. fstate_idx \in Slots => fstate_idx < MaxFiles
  BY <1>1 DEF Raised, Slots
<1> QED BY <1>1, <1>2, ByteArithmetic DEF Raised, Slots

LEMMA LoweredIndex ==
  ASSUME TypeOK, Lowered
  PROVE  /\ fstate_idx' = Dec(fstate_idx) /\ fstate_idx' \in 0..(Byte - 1) /\ round' \in BOOLEAN
         /\ ~round' /\ fstate_idx' \in Slots =>
              /\ ~round
              /\ fstate_idx \in Slots /\ fstate_idx # 0 /\ fstate_idx' = fstate_idx - 1
<1>1. fstate_idx \in 0..(Byte - 1) /\ Byte \in Nat /\ MaxFiles \in 1..(Byte - 2)
  BY ConstantsAssumption DEF TypeOK
<1>2. round' \in BOOLEAN
  BY DEF Lowered, TypeOK
<1>3. fstate_idx' = Dec(fstate_idx) /\ fstate_idx' \in 0..(Byte - 1)
  BY <1>1, ByteArithmetic DEF Lowered
<1>4. ~round' => ~round /\ fstate_idx # MaxFiles + 1
  BY DEF Lowered
<1>5. ASSUME fstate_idx # MaxFiles + 1, fstate_idx' \in Slots
      PROVE  fstate_idx \in Slots /\ fstate_idx # 0 /\ fstate_idx' = fstate_idx - 1
  BY <1>1, <1>3, <1>5, ByteArithmetic DEF Slots
<1> QED BY <1>2, <1>3, <1>4, <1>5

(* What the helpers do to the slots keeps them slots.                      *)
LEMMA SlotsTyped ==
  ASSUME NEW fs \in [Slots -> Slot], NEW k, NEW f \in FD \cup {NoFp}, NEW b \in BOOLEAN
  PROVE  /\ Pushed(fs, k, f) \in [Slots -> Slot]
         /\ Skipped(fs, k, b) \in [Slots -> Slot]
         /\ SkipCleared(fs, k) \in [Slots -> Slot]
<1>1. [EmptySlot EXCEPT !.fp = f] \in Slot
  BY DEF EmptySlot, Slot
<1>2. Pushed(fs, k, f) \in [Slots -> Slot]
  BY <1>1 DEF Pushed
<1>3. Skipped(fs, k, b) \in [Slots -> Slot] /\ SkipCleared(fs, k) \in [Slots -> Slot]
  BY DEF Skipped, SkipCleared, Slot
<1> QED BY <1>2, <1>3

(* Reading a line leaves the streams their lines.                          *)
LEMMA LineTyped ==
  ASSUME TypeOK, NEW kind \in Kinds, At(kind)
  PROVE  /\ mode \in {"parse", "argv"}
         /\ Remaining \in [FD -> 0..MaxLines]
         /\ mode = "parse" => Readable /\ fstate_idx \in Slots /\ Top.fp \in FD
<1>1. CASE mode = "parse"
  <2>1. Readable /\ fstate_idx \in Slots /\ Top.fp \in FD /\ left[Top.fp] > 0
    BY <1>1 DEF At, Readable, Held, TypeOK
  <2>2. left[Top.fp] - 1 \in 0..MaxLines
    BY <2>1, ConstantsAssumption DEF TypeOK
  <2> QED BY <1>1, <2>1, <2>2 DEF Remaining, TypeOK
<1>2. CASE mode # "parse"
  BY <1>2 DEF At, Remaining, TypeOK
<1> QED BY <1>1, <1>2

(* A handler call is well typed, and so is the context stack that a begin, *)
(* an end or a line leaves.                                                *)
LEMMA CallTyped ==
  ASSUME NEW c \in CtxIds, NEW w \in {"BEGIN", "LINE", "END"},
         NEW arg \in Pointers, NEW ans \in Answer, Called(c, w, arg, ans)
  PROVE  call' \in Call
  BY DEF Called, Call, Answer

LEMMA CtxBeginTyped ==
  ASSUME TypeOK, NEW n \in Names, NEW ans \in Answer, CtxBegin(n, ans)
  PROVE  ctx_state' \in [Frames -> Frame] /\ ctx_state_idx' \in Frames /\ call' \in Call
<1>1. NameToId(n) \in CtxIds
  BY DEF NameToId, CtxIds
<1>2. ctx_state[ctx_state_idx].state \in Pointers
  BY DEF TypeOK, Frame
<1>3. call' \in Call
  BY <1>1, <1>2, CallTyped DEF CtxBegin
<1>4. ctx_state_idx' \in Frames
  BY ConstantsAssumption DEF CtxBegin, TypeOK, Frames
<1>5. ctx_state' \in [Frames -> Frame]
  BY <1>1, ConstantsAssumption DEF CtxBegin, TypeOK, Frames, Frame, Answer
<1> QED BY <1>3, <1>4, <1>5

LEMMA CtxEndTyped ==
  ASSUME TypeOK, NEW c \in CtxIds, NEW ans \in Answer, CtxEnd(c, ans)
  PROVE  ctx_state' \in [Frames -> Frame] /\ ctx_state_idx' \in Frames
         /\ call' \in Call \cup {NoCall}
<1>1. CASE ctx_state_idx = 0
  BY <1>1 DEF CtxEnd, TypeOK, contexts
<1>2. CASE ctx_state_idx # 0
  <2>1. ctx_state[ctx_state_idx].state \in Pointers
    BY DEF TypeOK, Frame
  <2>2. call' \in Call
    BY <1>2, <2>1, CallTyped DEF CtxEnd
  <2>3. ctx_state_idx - 1 \in Frames
    BY <1>2, ConstantsAssumption DEF TypeOK, Frames
  <2>4. EmptyFrame \in Frame
    BY DEF EmptyFrame, Frame, CtxIds, Pointers
  <2>5. ctx_state' \in [Frames -> Frame]
    BY <1>2, <2>3, <2>4 DEF CtxEnd, TypeOK, Frame, Answer
  <2> QED BY <1>2, <2>2, <2>3, <2>5 DEF CtxEnd
<1> QED BY <1>1, <1>2

(* The common return of spifconf_parse_line() is well typed.               *)
LEMMA ParseRetTyped ==
  ASSUME TypeOK, NEW c \in CtxIds, NEW ans \in Answer, NEW m \in Modes,
         ParseRet(c, ans, m), left' \in [FD -> 0..MaxLines]
  PROVE  TypeOK'
<1>1. fstate_idx' \in 0..(Byte - 1) /\ round' \in BOOLEAN
  BY LoweredIndex DEF ParseRet
<1>2. /\ ctx_state' \in [Frames -> Frame] /\ ctx_state_idx' \in Frames
      /\ call' \in Call \cup {NoCall}
  BY CtxEndTyped DEF ParseRet
<1>3. mode' \in Modes
  BY DEF ParseRet, GoOn, Modes
<1>4. fstate' \in [Slots -> Slot]
  BY DEF ParseRet, SkipCleared, Slot, TypeOK
<1> QED BY <1>1, <1>2, <1>3, <1>4 DEF ParseRet, streams, TypeOK

-----------------------------------------------------------------------------
(* Each action of the parser preserves the types.                          *)

LEMMA IgnoredTyped ==
  ASSUME TypeOK, IgnoredLine \/ SkippedLine \/ PreprocReturn
  PROVE  TypeOK'
<1>1. Remaining \in [FD -> 0..MaxLines]
  BY LineTyped DEF IgnoredLine, SkippedLine, PreprocReturn, Kinds
<1>2. mode' \in Modes
  BY DEF IgnoredLine, SkippedLine, PreprocReturn, LineDone, GoOn, Modes
<1> QED BY <1>1, <1>2 DEF IgnoredLine, SkippedLine, PreprocReturn, TypeOK, contexts, streams

LEMMA FailsTyped ==
  ASSUME TypeOK, PreprocFails \/ PreprocCloses
  PROVE  TypeOK'
<1>1. CASE PreprocFails
  <2>1. Remaining \in [FD -> 0..MaxLines]
    BY <1>1, LineTyped DEF PreprocFails, Kinds
  <2>2. mode' \in Modes
    BY <1>1 DEF PreprocFails, LineDone, GoOn, Modes
  <2>3. open' \subseteq FD /\ stray' \subseteq FD /\ temps' \subseteq FD
    BY <1>1 DEF PreprocFails, TypeOK
  <2> QED BY <1>1, <2>1, <2>2, <2>3 DEF PreprocFails, TypeOK, contexts
<1>2. CASE PreprocCloses
  BY <1>2 DEF PreprocCloses, files, streams, contexts, TypeOK, Modes
<1> QED BY <1>1, <1>2

LEMMA IncludeTyped ==
  ASSUME TypeOK, NEW f \in FD, NEW n \in 0..MaxLines, IncludeLine(f, n)
  PROVE  TypeOK'
<1>1. Remaining \in [FD -> 0..MaxLines]
  BY LineTyped DEF IncludeLine, Kinds
<1>2. left' \in [FD -> 0..MaxLines]
  BY <1>1 DEF IncludeLine
<1>3. fstate_idx' \in 0..(Byte - 1) /\ round' = round
  BY RaisedIndex DEF IncludeLine
<1>4. fstate' \in [Slots -> Slot]
  BY SlotsTyped DEF IncludeLine, TypeOK
<1>5. mode' \in Modes
  BY DEF IncludeLine, GoOn, Modes
<1> QED BY <1>2, <1>3, <1>4, <1>5 DEF IncludeLine, TypeOK, contexts

LEMMA PreprocTyped ==
  ASSUME TypeOK, NEW f \in FD, NEW n \in 0..MaxLines, PreprocLine(f, n)
  PROVE  TypeOK'
<1>1. fstate_idx \in Slots /\ Top.fp \in FD
  BY DEF PreprocLine, Held, TypeOK, Slot, Top
<1>2. [fstate[fstate_idx] EXCEPT !.fp = f, !.preproc = TRUE, !.out = f] \in Slot
  BY <1>1 DEF TypeOK, Slot
<1>3. fstate' \in [Slots -> Slot]
  BY <1>2 DEF PreprocLine, TypeOK
<1>4. left' \in [FD -> 0..MaxLines]
  BY ConstantsAssumption DEF PreprocLine, TypeOK
<1>5. mode' \in Modes
  BY DEF PreprocLine, LineDone, GoOn, Modes
<1>6. open' \subseteq FD /\ temps' \subseteq FD
  BY DEF PreprocLine, Closed, TypeOK
<1> QED BY <1>3, <1>4, <1>5, <1>6 DEF PreprocLine, TypeOK, contexts

LEMMA PreprocAgainTyped ==
  ASSUME TypeOK, NEW ans \in Answer, PreprocAgain(ans)
  PROVE  TypeOK'
<1>1. Remaining \in [FD -> 0..MaxLines]
  BY LineTyped DEF PreprocAgain, Kinds
<1>2. TopCtx \in CtxIds
  BY DEF TopCtx, TypeOK, Frame
<1> QED BY <1>1, <1>2, ParseRetTyped DEF PreprocAgain, Modes

LEMMA BeginTyped ==
  ASSUME TypeOK, NEW n \in Names, NEW ans \in Answer, BeginLine(n, ans)
  PROVE  TypeOK'
<1>1. Remaining \in [FD -> 0..MaxLines]
  BY LineTyped DEF BeginLine, Kinds
<1>2. fstate' \in [Slots -> Slot]
  BY DEF BeginLine, Skipped, Slot, TypeOK
<1>3. mode' \in Modes
  BY DEF BeginLine, LineDone, GoOn, Modes
<1>4. ctx_state' \in [Frames -> Frame] /\ ctx_state_idx' \in Frames /\ call' \in Call
  BY CtxBeginTyped DEF BeginLine
<1> QED BY <1>1, <1>2, <1>3, <1>4 DEF BeginLine, streams, TypeOK

LEMMA EndTyped ==
  ASSUME TypeOK, NEW ans \in Answer, EndLine(ans)
  PROVE  TypeOK'
<1>1. Remaining \in [FD -> 0..MaxLines]
  BY LineTyped DEF EndLine, Kinds
<1>2. fstate' \in [Slots -> Slot]
  BY DEF EndLine, SkipCleared, Slot, TypeOK
<1>3. mode' \in Modes
  BY DEF EndLine, LineDone, GoOn, Modes
<1>4. TopCtx \in CtxIds
  BY DEF TopCtx, TypeOK, Frame
<1>5. /\ ctx_state' \in [Frames -> Frame] /\ ctx_state_idx' \in Frames
      /\ call' \in Call \cup {NoCall}
  BY <1>4, CtxEndTyped DEF EndLine
<1> QED BY <1>1, <1>2, <1>3, <1>5 DEF EndLine, streams, TypeOK

LEMMA TextTyped ==
  ASSUME TypeOK, NEW ans \in Answer, TextLine(ans)
  PROVE  TypeOK'
<1>1. Remaining \in [FD -> 0..MaxLines]
  BY LineTyped DEF TextLine, Kinds
<1>2. fstate' \in [Slots -> Slot]
  BY DEF TextLine, Skipped, Slot, TypeOK
<1>3. mode' \in Modes
  BY DEF TextLine, LineDone, GoOn, Modes
<1>4. TopCtx \in CtxIds /\ ctx_state[ctx_state_idx].state \in Pointers
  BY DEF TopCtx, TypeOK, Frame
<1>5. call' \in Call
  BY <1>4, CallTyped DEF TextLine
<1>6. ctx_state' \in [Frames -> Frame]
  BY DEF TextLine, TypeOK, Frame, Answer
<1> QED BY <1>1, <1>2, <1>3, <1>5, <1>6 DEF TextLine, streams, TypeOK

LEMMA ParseTyped ==
  ASSUME TypeOK, NEW f \in FD, NEW n \in 0..MaxLines, Parse(f, n)
  PROVE  TypeOK'
<1>1. fstate_idx' \in 0..(Byte - 1) /\ round' = round
  BY RaisedIndex DEF Parse
<1>2. fstate' \in [Slots -> Slot]
  BY SlotsTyped DEF Parse, TypeOK
<1>3. mode' \in Modes
  BY DEF Parse, GoOn, Modes
<1>4. left' \in [FD -> 0..MaxLines]
  BY DEF Parse, TypeOK
<1> QED BY <1>1, <1>2, <1>3, <1>4 DEF Parse, TypeOK, contexts

LEMMA EofTyped == ASSUME TypeOK, Eof \/ ReadNoStream \/ ParseNothing PROVE TypeOK'
<1>1. CASE Eof
  <2>1. fstate_idx' \in 0..(Byte - 1) /\ round' \in BOOLEAN
    BY <1>1, LoweredIndex DEF Eof
  <2>2. fstate' \in [Slots -> Slot]
    BY <1>1 DEF Eof, TypeOK, Slot
  <2>3. open' \subseteq FD /\ temps' \subseteq FD
    BY <1>1 DEF Eof, Closed, TypeOK
  <2> QED BY <1>1, <2>1, <2>2, <2>3 DEF Eof, TypeOK, contexts, Modes
<1>2. CASE ReadNoStream \/ ParseNothing
  BY <1>2 DEF ReadNoStream, ParseNothing, files, streams, contexts, TypeOK, Modes
<1> QED BY <1>1, <1>2

(* What a command-line line leaves of the file stack, where it goes on.    *)
LEMMA ArgvPush ==
  ASSUME TypeOK, NEW n \in Names, NEW ans \in Answer, ArgvLine(n, ans), OnAssert # "fatal"
  PROVE  /\ fstate' \in [Slots -> Slot] /\ mode' \in Modes
         /\ fstate_idx' \in 0..(Byte - 1) /\ round' = round
         /\ \/ /\ UNCHANGED fstate_idx
               /\ \A i \in Slots : fstate'[i].fp = fstate[i].fp
            \/ /\ Raised
               /\ \A i \in Slots :
                    fstate'[i].fp = IF i = fstate_idx' THEN NoFp ELSE fstate[i].fp
<1> DEFINE k == IF OnAssert = "ignore" THEN Inc(fstate_idx) ELSE fstate_idx
           fs == IF OnAssert = "ignore" THEN Pushed(fstate, k, NoFp) ELSE fstate
<1>1. /\ fstate' = Skipped(fs, k, ans.skip)
      /\ IF OnAssert = "ignore" THEN Raised ELSE UNCHANGED <<fstate_idx, round>>
      /\ mode' \in Modes
  BY DEF ArgvLine, GoOn, Modes
<1>2. fs \in [Slots -> Slot] /\ ans.skip \in BOOLEAN
  <2>1. fstate \in [Slots -> Slot] /\ ans.skip \in BOOLEAN
    BY DEF TypeOK, Answer
  <2> HIDE DEF k
  <2>2. Pushed(fstate, k, NoFp) \in [Slots -> Slot]
    BY <2>1, SlotsTyped
  <2> QED BY <2>1, <2>2
<1>3. \A i \in Slots : fstate'[i].fp = fs[i].fp
  <2> HIDE DEF k, fs
  <2> QED BY <1>1, <1>2 DEF Skipped, Slot
<1>4. fstate' \in [Slots -> Slot]
  <2> HIDE DEF k, fs
  <2> QED BY <1>1, <1>2 DEF Skipped, Slot
<1>5. CASE OnAssert = "ignore"
  <2>1. Raised
    BY <1>1, <1>5
  <2>2. /\ fstate_idx' \in 0..(Byte - 1) /\ round' = round
    BY <2>1, RaisedIndex
  <2>3. \A i \in Slots : fs[i].fp = IF i = fstate_idx' THEN NoFp ELSE fstate[i].fp
    BY <1>5, <2>1 DEF Pushed, EmptySlot, TypeOK, Raised
  <2> HIDE DEF k, fs
  <2> QED BY <1>1, <1>3, <1>4, <2>1, <2>2, <2>3
<1>6. CASE OnAssert # "ignore"
  <2>1. fs = fstate
    BY <1>6
  <2> HIDE DEF k, fs
  <2> QED BY <1>1, <1>3, <1>4, <1>6, <2>1 DEF TypeOK
<1> QED BY <1>5, <1>6

LEMMA ArgvTyped ==
  ASSUME TypeOK, NEW ans \in Answer,
         \/ \E c \in CtxIds : ArgvBlank(c, ans)
         \/ \E n \in Names : ArgvLine(n, ans)
         \/ ArgvReturn(ans)
  PROVE  TypeOK'
<1>0. UNCHANGED left => left' \in [FD -> 0..MaxLines]
  BY DEF TypeOK
<1>1. ASSUME NEW c \in CtxIds, ArgvBlank(c, ans) PROVE TypeOK'
  <2>1. CASE UNCHANGED left /\ ParseRet(c, ans, "idle")
    BY <1>0, <2>1, ParseRetTyped DEF Modes
  <2>2. CASE mode' = "dead" /\ call' = NoCall /\ UNCHANGED <<files, contexts>>
    BY <2>2 DEF files, streams, contexts, TypeOK, Modes
  <2> QED BY <1>1, <2>1, <2>2 DEF ArgvBlank
<1>2. ASSUME NEW n \in Names, ArgvLine(n, ans) PROVE TypeOK'
  <2>1. CASE OnAssert = "fatal"
    BY <1>2, <2>1 DEF ArgvLine, files, streams, contexts, TypeOK, Modes
  <2>2. CASE OnAssert # "fatal"
    <3>1. /\ fstate' \in [Slots -> Slot] /\ mode' \in Modes
          /\ fstate_idx' \in 0..(Byte - 1) /\ round' = round
      BY <1>2, <2>2, ArgvPush
    <3>2. CtxBegin(n, ans) /\ UNCHANGED <<streams, left>>
      BY <1>2, <2>2 DEF ArgvLine
    <3>3. ctx_state' \in [Frames -> Frame] /\ ctx_state_idx' \in Frames /\ call' \in Call
      BY <3>2, CtxBeginTyped
    <3> QED BY <3>1, <3>2, <3>3 DEF TypeOK, streams
  <2> QED BY <2>1, <2>2
<1>3. CASE ArgvReturn(ans)
  <2>1. TopCtx \in CtxIds
    BY DEF TopCtx, TypeOK, Frame
  <2> QED BY <1>0, <1>3, <2>1, ParseRetTyped DEF ArgvReturn, Modes
<1> QED BY <1>1, <1>2, <1>3

LEMMA InitTyped == Init => TypeOK
<1>1. 0 \in Slots /\ 0 \in Frames /\ 0 \in 0..(Byte - 1) /\ 0 \in 0..MaxLines
  BY ConstantsAssumption DEF Slots, Frames
<1>2. EmptySlot \in Slot /\ EmptyFrame \in Frame
  BY DEF Slot, EmptySlot, Frame, EmptyFrame, CtxIds, Pointers
<1> QED BY <1>1, <1>2 DEF Init, TypeOK, Modes

(* Every variable keeps its type in every build, for every file, every     *)
(* command line and every answer of the handlers; in particular the file   *)
(* index stays an unsigned char and the context index in its stack.        *)
THEOREM TypeCorrect == Spec => []TypeOK
<1>1. TypeOK /\ [Next]_vars => TypeOK'
  <2> SUFFICES ASSUME TypeOK, [Next]_vars PROVE TypeOK'
    OBVIOUS
  <2>1. CASE ParseStep
    BY <2>1, IgnoredTyped, FailsTyped, IncludeTyped, PreprocTyped, PreprocAgainTyped,
       BeginTyped, EndTyped, TextTyped, EofTyped DEF ParseStep
  <2>2. CASE ClientStep
    BY <2>2, ParseTyped, EofTyped, ArgvTyped DEF ClientStep
  <2>3. CASE \E ans \in Answer : ArgvReturn(ans)
    BY <2>3, ArgvTyped
  <2>4. CASE UNCHANGED vars
    BY <2>4 DEF vars, files, streams, contexts, TypeOK
  <2> QED BY <2>1, <2>2, <2>3, <2>4 DEF Next
<1> QED BY <1>1, InitTyped, PTL DEF Spec

-----------------------------------------------------------------------------
(* Closed streams: until the index comes round, every stream of the slots  *)
(* 0..fstate_idx is open and in one of them only.                          *)
LiveOpen ==
  /\ stray \subseteq open
  /\ ~round /\ fstate_idx \in Slots =>
       /\ \A i \in 0..fstate_idx : fstate[i].fp \in (open \ stray) \cup {NoFp}
       /\ \A i, j \in 0..fstate_idx :
            fstate[i].fp = fstate[j].fp => i = j \/ fstate[i].fp = NoFp

(* The slots up to the top are slots of the array.                         *)
LEMMA BelowTop ==
  ASSUME NEW k \in Slots
  PROVE  /\ k \in Nat /\ k \in 0..k
         /\ \A i \in 0..k : i \in Slots
         /\ k # 0 => k - 1 \in Slots /\ \A i \in 0..(k - 1) : i \in 0..k /\ i # k
         /\ k + 1 \in Slots => \A i \in 0..(k + 1) : i \in 0..k \/ i = k + 1
  BY ConstantsAssumption DEF Slots

(* A slot of the stack keeps its stream, which stays open, holds none, or  *)
(* is the only one to get a stream that was not open.                      *)
LEMMA StreamMoves ==
  ASSUME LiveOpen, stray' \subseteq open', NEW k, fstate_idx' = k,
         ~round' /\ k \in Slots =>
           /\ ~round
           /\ \A i \in 0..k :
                \/ /\ fstate_idx \in Slots /\ i \in 0..fstate_idx
                   /\ fstate'[i].fp = fstate[i].fp
                   /\ fstate[i].fp \in (open' \ stray') \cup {NoFp}
                \/ fstate'[i].fp = NoFp
                \/ fstate'[i].fp \in open' \ (open \cup stray')
           /\ \A i, j \in 0..k :
                fstate'[i].fp \in open' \ open /\ fstate'[j].fp = fstate'[i].fp => i = j
  PROVE  LiveOpen'
<1> SUFFICES ASSUME ~round', k \in Slots
             PROVE  /\ \A i \in 0..k : fstate'[i].fp \in (open' \ stray') \cup {NoFp}
                    /\ \A i, j \in 0..k :
                         fstate'[i].fp = fstate'[j].fp => i = j \/ fstate'[i].fp = NoFp
  BY DEF LiveOpen
<1>1. ASSUME NEW i \in 0..k, NEW j \in 0..k, fstate'[i].fp = fstate'[j].fp, i # j
      PROVE  fstate'[i].fp = NoFp
  <2>1. CASE fstate'[i].fp \in open' \ open
    BY <1>1, <2>1
  <2>2. CASE fstate'[i].fp \notin open' \ open
    BY <1>1, <2>2 DEF LiveOpen
  <2> QED BY <2>1, <2>2
<1> QED BY <1>1

(* A line that pushes and pops nothing.                                    *)
LEMMA LineKeepsOpen ==
  ASSUME TypeOK, LiveOpen,
         \/ IgnoredLine \/ SkippedLine \/ PreprocReturn \/ PreprocFails
         \/ \E n \in Names, ans \in Answer : BeginLine(n, ans)
         \/ \E ans \in Answer : EndLine(ans) \/ TextLine(ans)
  PROVE  LiveOpen'
<1>1. ASSUME NEW i \in Slots PROVE fstate'[i].fp = fstate[i].fp
  <2>1. \/ fstate' = fstate
        \/ \E b \in BOOLEAN : fstate' = Skipped(fstate, fstate_idx, b)
        \/ fstate' = SkipCleared(fstate, fstate_idx)
    BY DEF IgnoredLine, SkippedLine, PreprocReturn, PreprocFails, BeginLine, EndLine, TextLine,
           Answer
  <2> QED BY <2>1 DEF Skipped, SkipCleared, TypeOK, Slot
<1>2. /\ UNCHANGED <<fstate_idx, round>>
      /\ \E made : /\ made \cap open = {} /\ open' = open \cup made
                   /\ stray' = stray \cup made
  <2>1. CASE PreprocFails
    BY <2>1 DEF PreprocFails
  <2>2. CASE ~PreprocFails
    <3>1. UNCHANGED <<fstate_idx, round, open, stray>>
      BY <2>2 DEF IgnoredLine, SkippedLine, PreprocReturn, BeginLine, EndLine, TextLine, streams
    <3>2. {} \cap open = {} /\ open' = open \cup {} /\ stray' = stray \cup {}
      BY <3>1
    <3> QED BY <3>1, <3>2
  <2> QED BY <2>1, <2>2
<1>3. fstate_idx \in Slots => \A i \in 0..fstate_idx : i \in Slots
  BY BelowTop
<1>4. /\ stray' \subseteq open' /\ open \subseteq open'
      /\ \A f : f \in open \ stray => f \in open' \ stray'
  BY <1>2 DEF LiveOpen
<1> QED BY <1>1, <1>2, <1>3, <1>4, ConstantsAssumption DEF LiveOpen, TypeOK

(* A new stream goes into a new slot on top, or out of the array.          *)
LEMMA PushKeepsOpen ==
  ASSUME TypeOK, LiveOpen, NEW f \in FD, f \notin open, open' = open \cup {f},
         Raised, fstate' = Pushed(fstate, Inc(fstate_idx), f), UNCHANGED stray
  PROVE  LiveOpen'
<1> DEFINE k == fstate_idx'
<1>1. \A i \in Slots : fstate'[i].fp = IF i = k THEN f ELSE fstate[i].fp
  BY DEF Pushed, EmptySlot, Raised, TypeOK
<1>2. f \notin stray /\ f # NoFp
  BY ConstantsAssumption DEF LiveOpen
<1>3. /\ round' = round
      /\ fstate_idx \in Slots => k = fstate_idx + 1 /\ k \in Slots
      /\ fstate_idx \notin Slots /\ k \in Slots => k = 0
  BY RaisedIndex
<1>4. CASE k \in Slots /\ ~round
  <2>1. \A i \in 0..k : i \in Slots /\ (i # k => fstate_idx \in Slots /\ i \in 0..fstate_idx)
    <3>1. CASE fstate_idx \in Slots
      BY <1>3, <1>4, <3>1, BelowTop
    <3>2. CASE fstate_idx \notin Slots
      <4>1. k = 0
        BY <1>3, <1>4, <3>2
      <4>2. 0 \in Slots /\ \A i \in 0..0 : i = 0
        BY <1>4, <4>1
      <4> QED BY <4>1, <4>2
    <3> QED BY <3>1, <3>2
  <2>2. ASSUME NEW i \in 0..k, i # k
        PROVE  /\ fstate'[i].fp = fstate[i].fp /\ fstate[i].fp # f
               /\ fstate[i].fp \in (open \ stray) \cup {NoFp}
    BY <1>1, <1>2, <1>4, <2>1, <2>2 DEF LiveOpen
  <2>3. fstate'[k].fp = f
    BY <1>1, <1>4
  <2> HIDE DEF k
  <2>4. ASSUME NEW i \in 0..k
        PROVE  \/ /\ fstate_idx \in Slots /\ i \in 0..fstate_idx
                  /\ fstate'[i].fp = fstate[i].fp
                  /\ fstate[i].fp \in (open' \ stray') \cup {NoFp}
               \/ fstate'[i].fp \in open' \ (open \cup stray')
    BY <1>2, <2>1, <2>2, <2>3
  <2>5. ASSUME NEW i \in 0..k, NEW j \in 0..k, fstate'[i].fp \in open' \ open,
               fstate'[j].fp = fstate'[i].fp
        PROVE  i = j
    BY <1>2, <2>2, <2>3, <2>5
  <2>6. stray' \subseteq open'
    BY DEF LiveOpen
  <2>7. fstate_idx' = k
    BY DEF k
  <2> QED BY <1>4, <2>4, <2>5, <2>6, <2>7, StreamMoves
<1>5. CASE ~(k \in Slots /\ ~round)
  BY <1>3, <1>5 DEF LiveOpen
<1> QED BY <1>4, <1>5

LEMMA PreprocKeepsOpen ==
  ASSUME TypeOK, LiveOpen, NEW f \in FD, NEW n \in 0..MaxLines, PreprocLine(f, n)
  PROVE  LiveOpen'
<1> DEFINE k == fstate_idx
<1>1. /\ k \in Slots /\ Top.fp # NoFp /\ f \notin open /\ f \notin stray /\ f # NoFp
      /\ UNCHANGED <<fstate_idx, stray, round>>
  BY ConstantsAssumption DEF PreprocLine, Held, LiveOpen
<1>2. \A i \in Slots : fstate'[i].fp = IF i = k THEN f ELSE fstate[i].fp
  BY <1>1 DEF PreprocLine, TypeOK, Slot
<1>3. open' = Closed \cup {f} /\ Closed \subseteq open /\ open \ {Top.fp} \subseteq Closed
  BY DEF PreprocLine, Closed
<1>4. stray' \subseteq open'
  BY <1>1, <1>3 DEF LiveOpen, Closed, Readable
<1>5. CASE ~round
  <2>1. ASSUME NEW i \in 0..k, i # k
        PROVE  /\ fstate'[i].fp = fstate[i].fp /\ fstate[i].fp # f
               /\ fstate[i].fp \in (open' \ stray) \cup {NoFp}
    <3>1. i \in Slots /\ k \in 0..k
      BY <1>1, BelowTop
    <3>2. fstate[i].fp \in (open \ stray) \cup {NoFp} /\ fstate[i].fp # Top.fp
      BY <1>1, <1>5, <2>1, <3>1 DEF LiveOpen, Top
    <3> QED BY <1>1, <1>2, <1>3, <2>1, <3>1, <3>2
  <2>2. fstate'[k].fp = f
    BY <1>1, <1>2
  <2> HIDE DEF k
  <2>3. ASSUME NEW i \in 0..k
        PROVE  \/ /\ fstate_idx \in Slots /\ i \in 0..fstate_idx
                  /\ fstate'[i].fp = fstate[i].fp
                  /\ fstate[i].fp \in (open' \ stray') \cup {NoFp}
               \/ fstate'[i].fp \in open' \ (open \cup stray')
    BY <1>1, <1>3, <2>1, <2>2 DEF k
  <2>4. ASSUME NEW i \in 0..k, NEW j \in 0..k, fstate'[i].fp \in open' \ open,
               fstate'[j].fp = fstate'[i].fp
        PROVE  i = j
    BY <1>1, <1>3, <2>1, <2>2, <2>4
  <2>5. fstate_idx' = k /\ ~round
    BY <1>1, <1>5 DEF k
  <2> QED BY <1>4, <2>3, <2>4, <2>5, StreamMoves
<1>6. CASE round
  BY <1>1, <1>4, <1>6 DEF LiveOpen
<1> QED BY <1>5, <1>6 DEF TypeOK

(* A pop that closes the stream on top, or none.                           *)
LEMMA PopKeepsOpen ==
  ASSUME TypeOK, LiveOpen, Lowered, UNCHANGED stray,
         open' = open \/ (fstate_idx \in Slots /\ Top.fp # NoFp /\ open' = Closed),
         \A i \in Slots : fstate'[i].fp = fstate[i].fp
  PROVE  LiveOpen'
<1> DEFINE k == fstate_idx'
<1>1. stray' \subseteq open' /\ open' \subseteq open
  BY DEF LiveOpen, Closed, Readable
<1>2. CASE ~round' /\ k \in Slots
  <2>1. ~round /\ fstate_idx \in Slots /\ fstate_idx # 0 /\ k = fstate_idx - 1
    BY <1>2, LoweredIndex
  <2>2. ASSUME NEW i \in 0..k
        PROVE  /\ fstate_idx \in Slots /\ i \in 0..fstate_idx
               /\ fstate'[i].fp = fstate[i].fp
               /\ fstate[i].fp \in (open' \ stray') \cup {NoFp}
    <3>1. i \in 0..fstate_idx /\ i # fstate_idx /\ i \in Slots /\ fstate_idx \in 0..fstate_idx
      BY <1>2, <2>1, <2>2, BelowTop
    <3>2. fstate[i].fp \in (open \ stray) \cup {NoFp}
      BY <2>1, <3>1 DEF LiveOpen
    <3>3. Top.fp # NoFp => fstate[i].fp # Top.fp
      BY <2>1, <3>1 DEF LiveOpen, Top
    <3> QED BY <2>1, <3>1, <3>2, <3>3 DEF Closed
  <2> HIDE DEF k
  <2>3. fstate_idx' = k
    BY DEF k
  <2> QED BY <1>1, <2>1, <2>2, <2>3, StreamMoves
<1>3. CASE ~(~round' /\ k \in Slots)
  BY <1>1, <1>3 DEF LiveOpen
<1> QED BY <1>2, <1>3

LEMMA EofKeepsOpen ==
  ASSUME TypeOK, LiveOpen, Eof
  PROVE  LiveOpen'
<1>1. \A i \in Slots : fstate'[i].fp = fstate[i].fp
  BY DEF Eof, TypeOK, Slot
<1> QED BY <1>1, PopKeepsOpen DEF Eof, Held

(* The common return of spifconf_parse_line() closes nothing: it may       *)
(* forget a stream, never keep a closed one.                               *)
LEMMA ParseRetKeepsOpen ==
  ASSUME TypeOK, LiveOpen, NEW c, NEW ans, NEW m, ParseRet(c, ans, m)
  PROVE  LiveOpen'
<1>1. \A i \in Slots : fstate'[i].fp = fstate[i].fp
  BY DEF ParseRet, SkipCleared, TypeOK, Slot
<1> QED BY <1>1, PopKeepsOpen DEF ParseRet, streams

LEMMA ArgvKeepsOpen ==
  ASSUME TypeOK, LiveOpen, NEW n \in Names, NEW ans \in Answer, ArgvLine(n, ans)
  PROVE  LiveOpen'
<1>1. CASE OnAssert = "fatal"
  BY <1>1 DEF ArgvLine, files, streams, LiveOpen
<1>2. CASE OnAssert # "fatal"
  <2>1. UNCHANGED <<open, stray>> /\ round' = round
    BY <1>2, ArgvPush DEF ArgvLine, streams
  <2>2. CASE UNCHANGED fstate_idx /\ \A i \in Slots : fstate'[i].fp = fstate[i].fp
    BY <2>1, <2>2, BelowTop DEF LiveOpen
  <2>3. CASE Raised /\ \A i \in Slots :
                         fstate'[i].fp = IF i = fstate_idx' THEN NoFp ELSE fstate[i].fp
    <3> DEFINE k == fstate_idx'
    <3>1. ASSUME k \in Slots, NEW i \in 0..k
          PROVE  \/ fstate'[i].fp = NoFp
                 \/ /\ fstate_idx \in Slots /\ i \in 0..fstate_idx
                    /\ fstate'[i].fp = fstate[i].fp
      <4>1. i \in Slots
        BY <3>1, BelowTop
      <4>2. CASE fstate_idx \in Slots
        <5>1. k = fstate_idx + 1
          BY <2>3, <4>2, RaisedIndex
        <5>2. i \in 0..fstate_idx \/ i = k
          BY <3>1, <4>2, <5>1, BelowTop
        <5> QED BY <2>3, <4>1, <4>2, <5>2
      <4>3. CASE fstate_idx \notin Slots
        <5>1. k = 0
          BY <2>3, <3>1, <4>3, RaisedIndex
        <5>2. i = k
          BY <3>1, <5>1
        <5> QED BY <2>3, <4>1, <5>2
      <4> QED BY <4>2, <4>3
    <3> HIDE DEF k
    <3>2. fstate_idx' = k
      BY DEF k
    <3> QED BY <2>1, <3>1, <3>2 DEF LiveOpen
  <2> QED BY <1>2, <2>2, <2>3, ArgvPush
<1> QED BY <1>1, <1>2

(* Until the file index comes round into the array from above, fgets() and *)
(* fclose() never see a stream that was closed before: not after a second  *)
(* %preproc, not after one that failed half-way, and not after             *)
(* command-line lines popped files that were never pushed.                 *)
THEOREM NothingReadAfterClose == Spec => []NoUseAfterClose
<1>1. Init => LiveOpen
  <2>1. 0 \in Slots /\ \A i \in 0..0 : i = 0
    BY ConstantsAssumption DEF Slots
  <2> QED BY <2>1 DEF Init, LiveOpen, EmptySlot
<1>2. TypeOK /\ LiveOpen /\ [Next]_vars => LiveOpen'
  <2> SUFFICES ASSUME TypeOK, LiveOpen, [Next]_vars PROVE LiveOpen'
    OBVIOUS
  <2>1. CASE IgnoredLine \/ SkippedLine \/ PreprocReturn \/ PreprocFails
             \/ (\E n \in Names, ans \in Answer : BeginLine(n, ans))
             \/ (\E ans \in Answer : EndLine(ans) \/ TextLine(ans))
    BY <2>1, LineKeepsOpen
  <2>2. ASSUME NEW f \in FD, NEW n \in 0..MaxLines, IncludeLine(f, n) PROVE LiveOpen'
    BY <2>2, PushKeepsOpen DEF IncludeLine
  <2>3. ASSUME NEW f \in FD, NEW n \in 0..MaxLines, PreprocLine(f, n) PROVE LiveOpen'
    BY <2>3, PreprocKeepsOpen
  <2>4. ASSUME NEW ans \in Answer, PreprocAgain(ans) PROVE LiveOpen'
    BY <2>4, ParseRetKeepsOpen DEF PreprocAgain
  <2>5. CASE Eof
    BY <2>5, EofKeepsOpen
  <2>6. CASE PreprocCloses \/ ReadNoStream \/ ParseNothing
    BY <2>6 DEF PreprocCloses, ReadNoStream, ParseNothing, files, streams, LiveOpen
  <2>7. ASSUME NEW f \in FD, NEW n \in 0..MaxLines, Parse(f, n) PROVE LiveOpen'
    BY <2>7, PushKeepsOpen DEF Parse
  <2>8. ASSUME NEW c \in CtxIds, NEW ans \in Answer, ArgvBlank(c, ans) PROVE LiveOpen'
    <3>1. CASE ParseRet(c, ans, "idle")
      BY <3>1, ParseRetKeepsOpen
    <3>2. CASE UNCHANGED files
      BY <3>2 DEF files, streams, LiveOpen
    <3> QED BY <2>8, <3>1, <3>2 DEF ArgvBlank
  <2>9. ASSUME NEW n \in Names, NEW ans \in Answer, ArgvLine(n, ans) PROVE LiveOpen'
    BY <2>9, ArgvKeepsOpen
  <2>10. ASSUME NEW ans \in Answer, ArgvReturn(ans) PROVE LiveOpen'
    BY <2>10, ParseRetKeepsOpen DEF ArgvReturn
  <2>11. CASE UNCHANGED vars
    BY <2>11 DEF vars, files, streams, LiveOpen
  <2> QED BY <2>1, <2>2, <2>3, <2>4, <2>5, <2>6, <2>7, <2>8, <2>9, <2>10, <2>11
          DEF Next, ParseStep, ClientStep
<1>3. LiveOpen => NoUseAfterClose
  <2>1. ASSUME fstate_idx \in Slots, NEW i \in Slots, i <= fstate_idx
        PROVE  i \in 0..fstate_idx
    BY <2>1, ConstantsAssumption DEF Slots
  <2> QED BY <2>1 DEF LiveOpen, NoUseAfterClose
<1> QED BY <1>1, <1>2, <1>3, TypeCorrect, PTL DEF Spec

-----------------------------------------------------------------------------
(* The streams of spifconf_parse(), when no line comes from the command    *)
(* line and the uninitialized `fp` of a second %preproc is not NULL.       *)

FileMode == ArgvLines = {} /\ TRUE \notin StaleFp

(* StreamsOwned, strengthened with the places file mode visits: slot 0     *)
(* holds no stream, and the temporary file of a preprocessed slot is its   *)
(* stream's.                                                               *)
StreamsInv ==
  /\ TypeOK
  /\ StreamsOwned
  /\ mode \in {"idle", "parse"}
  /\ fstate[0].fp = NoFp
  /\ \A i \in 1..fstate_idx : fstate[i].preproc => fstate[i].out = fstate[i].fp

(* While parsing, the slot on top holds an open stream and is not slot 0.  *)
LEMMA TopHasStream ==
  ASSUME StreamsInv, mode = "parse"
  PROVE  /\ fstate_idx \in 1..MaxFiles /\ fstate_idx \in Slots /\ fstate_idx \in Nat
         /\ fstate_idx \in 1..fstate_idx
         /\ Top.fp \in FD /\ Top.fp \notin stray /\ Held /\ Readable /\ Closed = open \ {Top.fp}
<1>1. /\ fstate_idx \in 1..MaxFiles /\ fstate_idx \in Slots /\ fstate_idx \in Nat
      /\ fstate_idx \in 1..fstate_idx
  BY ConstantsAssumption DEF StreamsInv, StreamsOwned, Slots
<1>2. Top.fp \in FD /\ Top.fp \notin stray /\ Top.fp \in open
  BY <1>1 DEF StreamsInv, StreamsOwned, Top
<1> QED BY <1>1, <1>2, ConstantsAssumption DEF Held, Readable, Closed

(* A step that moves no stream and stays where it is; a %preproc that      *)
(* failed may have left some.                                              *)
LEMMA KeptStreams ==
  ASSUME StreamsInv, TypeOK', mode' = mode, UNCHANGED fstate_idx,
         \A i \in Slots : /\ fstate'[i].fp = fstate[i].fp
                          /\ fstate'[i].preproc = fstate[i].preproc
                          /\ fstate'[i].out = fstate[i].out,
         NEW made, made \cap open = {},
         open' = open \cup made, stray' = stray \cup made, temps' = temps \cup made
  PROVE  StreamsInv'
<1>1. 1..fstate_idx \subseteq Slots /\ 0 \in Slots
  BY ConstantsAssumption DEF StreamsInv, StreamsOwned, Slots
<1>2. \A i \in 1..fstate_idx : /\ fstate'[i].fp = fstate[i].fp
                               /\ fstate'[i].preproc = fstate[i].preproc
                               /\ fstate'[i].out = fstate[i].out
  BY <1>1
<1>3. \A i \in 1..fstate_idx : fstate'[i].fp \in FD \ stray'
  BY <1>2 DEF StreamsInv, StreamsOwned
<1>4. open' = {fstate'[i].fp : i \in 1..fstate_idx} \cup stray'
  BY <1>2 DEF StreamsInv, StreamsOwned
<1>5. temps' = {fstate'[i].out : i \in {j \in 1..fstate_idx : fstate'[j].preproc}} \cup stray'
  BY <1>2 DEF StreamsInv, StreamsOwned
<1>6. StreamsOwned'
  BY <1>2, <1>3, <1>4, <1>5 DEF StreamsInv, StreamsOwned
<1> QED BY <1>1, <1>2, <1>6 DEF StreamsInv

LEMMA LineKeepsStreams ==
  ASSUME StreamsInv, TypeOK', FileMode,
         \/ IgnoredLine \/ SkippedLine \/ PreprocReturn \/ PreprocFails
         \/ \E n \in Names, ans \in Answer : BeginLine(n, ans)
         \/ \E ans \in Answer : EndLine(ans) \/ TextLine(ans)
  PROVE  StreamsInv'
<1>1. mode = "parse" /\ UNCHANGED fstate_idx /\ GoOn("parse", fstate_idx)
  BY DEF IgnoredLine, SkippedLine, PreprocReturn, PreprocFails, BeginLine, EndLine, TextLine, At,
         StreamsInv, LineDone
<1>2. mode' = mode
  BY <1>1, TopHasStream DEF GoOn
<1>3. ASSUME NEW i \in Slots
      PROVE  /\ fstate'[i].fp = fstate[i].fp /\ fstate'[i].preproc = fstate[i].preproc
             /\ fstate'[i].out = fstate[i].out
  <2>1. \/ fstate' = fstate
        \/ \E b \in BOOLEAN : fstate' = Skipped(fstate, fstate_idx, b)
        \/ fstate' = SkipCleared(fstate, fstate_idx)
    BY DEF IgnoredLine, SkippedLine, PreprocReturn, PreprocFails, BeginLine, EndLine, TextLine,
           Answer
  <2> QED BY <2>1 DEF Skipped, SkipCleared, StreamsInv, TypeOK, Slot
<1>4. CASE PreprocFails
  BY <1>1, <1>2, <1>3, <1>4, KeptStreams DEF PreprocFails
<1>5. CASE ~PreprocFails
  <2>1. UNCHANGED streams
    BY <1>5 DEF IgnoredLine, SkippedLine, PreprocReturn, BeginLine, EndLine, TextLine
  <2>2. /\ {} \cap open = {} /\ open' = open \cup {} /\ stray' = stray \cup {}
        /\ temps' = temps \cup {}
    BY <2>1 DEF streams
  <2> QED BY <1>1, <1>2, <1>3, <2>2, KeptStreams
<1> QED BY <1>4, <1>5

(* A stream that was not open goes into a new top slot.                    *)
LEMMA PushOwnsStream ==
  ASSUME StreamsInv, TypeOK', NEW f \in FD, f \notin open, Raised,
         fstate' = Pushed(fstate, Inc(fstate_idx), f),
         open' = open \cup {f}, UNCHANGED <<stray, temps>>,
         mode' = "parse"
  PROVE  StreamsInv'
<1> DEFINE k == fstate_idx + 1
<1>1. fstate_idx \in Nat /\ fstate_idx \in Slots
  BY ConstantsAssumption DEF StreamsInv, StreamsOwned, Slots
<1>2. fstate_idx' = k /\ Inc(fstate_idx) = k /\ k \in Slots /\ k # 0
  BY <1>1, RaisedIndex DEF StreamsInv
<1>3. /\ fstate'[k].fp = f /\ ~fstate'[k].preproc
      /\ \A i \in 0..fstate_idx : fstate'[i] = fstate[i]
  <2>1. fstate' = [fstate EXCEPT ![k] = [EmptySlot EXCEPT !.fp = f]]
    BY <1>2 DEF Pushed
  <2>2. fstate'[k] = [EmptySlot EXCEPT !.fp = f]
    BY <1>2, <2>1 DEF StreamsInv, TypeOK
  <2>3. fstate'[k].fp = f /\ ~fstate'[k].preproc
    BY <2>2 DEF EmptySlot
  <2>4. \A i \in 0..fstate_idx : i \in Slots /\ i # k
    BY <1>1, BelowTop
  <2>5. \A i \in Slots : i # k => fstate'[i] = fstate[i]
    BY <2>1 DEF StreamsInv, TypeOK
  <2> QED BY <2>3, <2>4, <2>5
<1>4. 1..k = 1..fstate_idx \cup {k} /\ 1..fstate_idx \subseteq 0..fstate_idx /\ 0 \in 0..fstate_idx
  BY <1>1
<1>5. \A i \in 1..fstate_idx : fstate[i].fp # f
  BY DEF StreamsInv, StreamsOwned
<1>6. f \notin stray
  BY DEF StreamsInv, StreamsOwned
<1>7. \A i, j \in 1..k : fstate'[i].fp = fstate'[j].fp => i = j
  BY <1>3, <1>4, <1>5 DEF StreamsInv, StreamsOwned
<1>8. open' = {fstate'[i].fp : i \in 1..k} \cup stray'
  BY <1>3, <1>4 DEF StreamsInv, StreamsOwned
<1>9. temps' = {fstate'[i].out : i \in {j \in 1..k : fstate'[j].preproc}} \cup stray'
  BY <1>3, <1>4 DEF StreamsInv, StreamsOwned
<1>10. \A i \in 1..k : fstate'[i].fp \in FD \ stray'
  BY <1>3, <1>4, <1>6 DEF StreamsInv, StreamsOwned
<1>11. \A i \in 1..k : fstate'[i].preproc => fstate'[i].out = fstate'[i].fp
  BY <1>3, <1>4 DEF StreamsInv
<1>12. fstate'[0].fp = NoFp
  BY <1>3, <1>4 DEF StreamsInv
<1>13. k \in Slots /\ k # 0 /\ fstate_idx' = k
  BY <1>2
<1> HIDE DEF k
<1> QED BY <1>7, <1>8, <1>9, <1>10, <1>11, <1>12, <1>13 DEF StreamsInv, StreamsOwned

LEMMA PreprocOwnsStream ==
  ASSUME StreamsInv, TypeOK', NEW f \in FD, NEW n \in 0..MaxLines, PreprocLine(f, n), FileMode
  PROVE  StreamsInv'
<1> DEFINE d == fstate_idx
           I == 1..fstate_idx
<1>1. mode = "parse"
  BY DEF PreprocLine, At, StreamsInv
<1>2. /\ d \in Slots /\ d \in I /\ d # 0 /\ Top = fstate[d]
      /\ Top.fp \in FD /\ Top.fp \notin stray /\ ~Top.preproc /\ Closed = open \ {Top.fp}
  BY <1>1, TopHasStream DEF PreprocLine, MayNotBePreproc, Top
<1>3. mode' = "parse" /\ UNCHANGED <<fstate_idx, stray>>
  BY <1>1, <1>2 DEF PreprocLine, LineDone, GoOn
<1>4. /\ fstate'[d].fp = f /\ fstate'[d].preproc /\ fstate'[d].out = f
      /\ \A i \in Slots : i # d => fstate'[i] = fstate[i]
  BY <1>2 DEF PreprocLine, StreamsInv, TypeOK, Slot
<1>5. /\ f \notin open /\ f \notin stray
      /\ open' = (open \ {Top.fp}) \cup {f} /\ temps' = temps \cup {f}
  BY <1>2 DEF PreprocLine, StreamsInv, StreamsOwned
<1>6. I \subseteq Slots /\ 0 \in Slots
  BY <1>2, ConstantsAssumption DEF Slots
<1>7. \A i \in I : i # d => fstate'[i] = fstate[i] /\ fstate[i].fp # f /\ fstate[i].fp # Top.fp
  BY <1>2, <1>4, <1>5, <1>6 DEF StreamsInv, StreamsOwned
<1>8. fstate'[0].fp = NoFp
  BY <1>2, <1>4, <1>6 DEF StreamsInv
<1>9. StreamsOwned /\ \A i \in I : fstate[i].preproc => fstate[i].out = fstate[i].fp
  BY DEF StreamsInv
<1>10. open = {fstate[i].fp : i \in I} \cup stray
       /\ temps = {fstate[i].out : i \in {j \in I : fstate[j].preproc}} \cup stray
  BY <1>9 DEF StreamsOwned
<1>11. \A i, j \in I : fstate'[i].fp = fstate'[j].fp => i = j
  BY <1>4, <1>7, <1>9 DEF StreamsOwned
<1>12. \A i \in I : fstate'[i].fp \in FD \ stray'
  BY <1>3, <1>4, <1>5, <1>7, <1>9 DEF StreamsOwned
<1>13. \A i \in I : fstate'[i].preproc => fstate'[i].out = fstate'[i].fp
  BY <1>4, <1>7, <1>9
<1>14. fstate_idx' = d /\ d \in Slots /\ I = 1..d /\ mode' = "parse" /\ d # 0
  BY <1>2, <1>3
<1> HIDE DEF I, d
<1>15. open' = {fstate'[i].fp : i \in I} \cup stray'
  BY <1>2, <1>3, <1>4, <1>5, <1>7, <1>10
<1>16. temps' = {fstate'[i].out : i \in {j \in I : fstate'[j].preproc}} \cup stray'
  <2>1. \A i \in I : fstate'[i].preproc <=> (i = d \/ fstate[i].preproc)
    BY <1>4, <1>7
  <2>2. ~fstate[d].preproc
    BY <1>2
  <2> QED BY <1>2, <1>3, <1>4, <1>5, <1>7, <1>10, <2>1, <2>2
<1> QED BY <1>8, <1>11, <1>12, <1>13, <1>14, <1>15, <1>16 DEF StreamsInv, StreamsOwned

LEMMA EofClosesStream ==
  ASSUME StreamsInv, TypeOK', Eof
  PROVE  StreamsInv'
<1> DEFINE d == fstate_idx
           k == fstate_idx - 1
<1>1. /\ d \in Slots /\ Top = fstate[d] /\ d \in Nat /\ d # 0 /\ d \in 1..d
      /\ Top.fp \notin stray /\ Closed = open \ {Top.fp}
  BY TopHasStream DEF Eof, Top
<1>2. fstate_idx' = k /\ Dec(fstate_idx) = k
  BY <1>1, ByteArithmetic DEF StreamsInv, TypeOK, Eof, Lowered
<1>3. k \in Slots /\ UNCHANGED stray
  BY <1>1, BelowTop DEF Eof
<1>4. \A i \in Slots : i # d => fstate'[i] = fstate[i]
  BY DEF Eof, StreamsInv, TypeOK
<1>5. /\ 1..d = 1..k \cup {d} /\ 0 \in Slots
      /\ \A i \in 1..k : i \in 1..d /\ i # d /\ i \in Slots
  BY <1>1, ConstantsAssumption DEF Slots
<1>6. \A i \in 1..k : fstate'[i] = fstate[i] /\ fstate[i].fp # Top.fp
  BY <1>1, <1>4, <1>5 DEF StreamsInv, StreamsOwned
<1>7. StreamsOwned /\ \A i \in 1..d : fstate[i].preproc => fstate[i].out = fstate[i].fp
  BY DEF StreamsInv
<1>8. open = {fstate[i].fp : i \in 1..d} \cup stray
      /\ temps = {fstate[i].out : i \in {j \in 1..d : fstate[j].preproc}} \cup stray
  BY <1>7 DEF StreamsOwned
<1>9. open' = open \ {Top.fp} /\ temps' = IF Top.preproc THEN temps \ {Top.fp} ELSE temps
  BY <1>1, <1>7 DEF Eof
<1>10. fstate'[0].fp = NoFp
  BY <1>1, <1>4, <1>5 DEF StreamsInv
<1>11. mode' \in {"idle", "parse"} /\ (mode' = "idle" <=> k = 0)
  BY <1>2 DEF Eof
<1>12. \A i \in 1..k : fstate'[i].fp \in FD \ stray'
  BY <1>3, <1>5, <1>6, <1>7 DEF StreamsOwned
<1>13. \A i, j \in 1..k : fstate'[i].fp = fstate'[j].fp => i = j
  BY <1>5, <1>6, <1>7 DEF StreamsOwned
<1>14. \A i \in 1..k : fstate'[i].preproc => fstate'[i].out = fstate'[i].fp
  BY <1>5, <1>6, <1>7
<1> HIDE DEF k, d
<1>15. open' = {fstate'[i].fp : i \in 1..k} \cup stray'
  BY <1>1, <1>3, <1>5, <1>6, <1>8, <1>9
<1>16. temps' = {fstate'[i].out : i \in {j \in 1..k : fstate'[j].preproc}} \cup stray'
  <2>1. temps = {fstate[i].fp : i \in {j \in 1..d : fstate[j].preproc}} \cup stray
    BY <1>7, <1>8 DEF d
  <2>2. {fstate'[i].out : i \in {j \in 1..k : fstate'[j].preproc}}
          = {fstate[i].fp : i \in {j \in 1..k : fstate[j].preproc}}
    BY <1>5, <1>6, <1>7
  <2>3. CASE Top.preproc
    BY <1>1, <1>3, <1>5, <1>6, <1>9, <2>1, <2>2, <2>3
  <2>4. CASE ~Top.preproc
    BY <1>1, <1>3, <1>5, <1>6, <1>9, <2>1, <2>2, <2>4
  <2> QED BY <2>3, <2>4
<1> QED BY <1>2, <1>3, <1>10, <1>11, <1>12, <1>13, <1>14, <1>15, <1>16
    DEF StreamsInv, StreamsOwned

(* The strengthened invariant is inductive together with the types.        *)
LEMMA StreamsInvInFileMode ==
  ASSUME FileMode
  PROVE  Spec => []StreamsInv
<1>1. Init => StreamsInv
  <2> SUFFICES ASSUME Init PROVE StreamsInv
    OBVIOUS
  <2>1. TypeOK
    BY InitTyped
  <2>2. 1..0 = {} /\ 0 \in Slots
    BY ConstantsAssumption DEF Slots
  <2>3. StreamsOwned
    BY <2>2 DEF Init, StreamsOwned
  <2> QED BY <2>1, <2>2, <2>3 DEF StreamsInv, Init, EmptySlot
<1>2. StreamsInv /\ TypeOK' /\ [Next]_vars => StreamsInv'
  <2> SUFFICES ASSUME StreamsInv, TypeOK', [Next]_vars PROVE StreamsInv'
    OBVIOUS
  <2>0. Raised => Inc(fstate_idx) \in Slots /\ Inc(fstate_idx) # 0
    <3>1. fstate_idx \in Slots /\ fstate_idx \in Nat
      BY ConstantsAssumption DEF StreamsInv, StreamsOwned, Slots
    <3> QED BY <3>1, RaisedIndex DEF StreamsInv
  <2>1. CASE IgnoredLine \/ SkippedLine \/ PreprocReturn \/ PreprocFails
             \/ (\E n \in Names, ans \in Answer : BeginLine(n, ans))
             \/ (\E ans \in Answer : EndLine(ans) \/ TextLine(ans))
    BY <2>1, LineKeepsStreams
  <2>2. ASSUME NEW f \in FD, NEW n \in 0..MaxLines, IncludeLine(f, n) PROVE StreamsInv'
    <3>1. mode = "parse"
      BY <2>2 DEF IncludeLine, At, StreamsInv
    <3>2. mode' = "parse"
      BY <2>0, <2>2, <3>1 DEF IncludeLine, GoOn
    <3> QED BY <2>2, <3>2, PushOwnsStream DEF IncludeLine
  <2>3. ASSUME NEW f \in FD, NEW n \in 0..MaxLines, PreprocLine(f, n) PROVE StreamsInv'
    BY <2>3, PreprocOwnsStream
  <2>4. ASSUME NEW ans \in Answer, PreprocAgain(ans) PROVE StreamsInv'
    BY <2>4 DEF PreprocAgain, FileMode
  <2>5. CASE Eof
    BY <2>5, EofClosesStream
  <2>6. CASE ReadNoStream \/ PreprocCloses
    <3>1. mode = "parse"
      BY <2>6 DEF ReadNoStream, PreprocCloses, At, FileMode
    <3> QED BY <2>6, <3>1, TopHasStream DEF ReadNoStream, PreprocCloses
  <2>7. ASSUME NEW f \in FD, NEW n \in 0..MaxLines, Parse(f, n) PROVE StreamsInv'
    <3>1. mode' = "parse"
      BY <2>0, <2>7 DEF Parse, GoOn
    <3> QED BY <2>7, <3>1, PushOwnsStream DEF Parse
  <2>8. ASSUME NEW c \in CtxIds, NEW ans \in Answer, ArgvBlank(c, ans) PROVE StreamsInv'
    BY <2>8 DEF ArgvBlank, FileMode
  <2>9. ASSUME NEW n \in Names, NEW ans \in Answer, ArgvLine(n, ans) PROVE StreamsInv'
    BY <2>9 DEF ArgvLine, FileMode
  <2>10. ASSUME NEW ans \in Answer, ArgvReturn(ans) PROVE StreamsInv'
    BY <2>10 DEF ArgvReturn, StreamsInv
  <2>11. CASE ParseNothing \/ UNCHANGED vars
    BY <2>11 DEF ParseNothing, vars, files, streams, contexts, StreamsInv, StreamsOwned
  <2> QED BY <2>1, <2>2, <2>3, <2>4, <2>5, <2>6, <2>7, <2>8, <2>9, <2>10, <2>11
          DEF Next, ParseStep, ClientStep
<1> QED BY <1>1, <1>2, TypeCorrect, PTL DEF Spec

(* spifconf_parse() leaks no stream and no temporary file but those of a   *)
(* %preproc that fails after it made them, and closes none twice, however  *)
(* files include and preprocess one another.                               *)
THEOREM StreamsOwnedInFileMode ==
  ASSUME FileMode
  PROVE  Spec => []StreamsOwned
<1>1. StreamsInv => StreamsOwned
  BY DEF StreamsInv
<1> QED BY <1>1, StreamsInvInFileMode, PTL

(* In file mode a step changes the slot on top and, by an %include, the    *)
(* one above it, and reads from the stream on top only.                    *)
LEMMA StepTouchesTop ==
  ASSUME StreamsInv, FileMode, [Next]_vars, NEW i \in Slots, i < fstate_idx
  PROVE  /\ fstate'[i] = fstate[i]
         /\ fstate[i].fp \in FD => left'[fstate[i].fp] = left[fstate[i].fp]
<1> DEFINE s == fstate[i].fp
           Kept == fstate'[i] = fstate[i] /\ (s \in FD => left'[s] = left[s])
<1>1. /\ fstate_idx \in Slots /\ fstate_idx \in Nat /\ i \in Nat /\ i # fstate_idx
      /\ i \in 0..fstate_idx /\ fstate_idx \in 1..fstate_idx
  BY ConstantsAssumption DEF StreamsInv, StreamsOwned, Slots
<1>2. s \in FD => s # Top.fp /\ s \in open
  <2>1. CASE i = 0
    BY <2>1, ConstantsAssumption DEF StreamsInv
  <2>2. CASE i # 0
    <3>1. i \in 1..fstate_idx
      BY <1>1, <2>2
    <3> QED BY <1>1, <3>1 DEF StreamsInv, StreamsOwned, Top
  <2> QED BY <2>1, <2>2
<1>3. left \in [FD -> 0..MaxLines] /\ fstate \in [Slots -> Slot]
  BY DEF StreamsInv, TypeOK
<1>4. s \in FD => Remaining[s] = left[s]
  BY <1>2, <1>3 DEF Remaining
<1>5. Raised => Inc(fstate_idx) = fstate_idx + 1 /\ i # fstate_idx + 1
  BY <1>1, RaisedIndex DEF StreamsInv
<1>6. CASE IgnoredLine \/ SkippedLine \/ PreprocReturn \/ PreprocFails
  BY <1>4, <1>6 DEF IgnoredLine, SkippedLine, PreprocReturn, PreprocFails
<1>7. ASSUME NEW f \in FD, NEW n \in 0..MaxLines, IncludeLine(f, n) PROVE Kept
  <2>1. fstate'[i] = fstate[i]
    BY <1>3, <1>5, <1>7 DEF IncludeLine, Pushed
  <2>2. Remaining \in [FD -> 0..MaxLines]
    BY <1>7, LineTyped DEF IncludeLine, Kinds, StreamsInv
  <2>3. s \in FD => left'[s] = Remaining[s]
    BY <1>2, <1>7, <2>2 DEF IncludeLine
  <2> QED BY <1>4, <2>1, <2>3
<1>8. ASSUME NEW f \in FD, NEW n \in 0..MaxLines, PreprocLine(f, n) PROVE Kept
  BY <1>1, <1>2, <1>3, <1>8 DEF PreprocLine
<1>9. ASSUME NEW n \in Names, NEW ans \in Answer, BeginLine(n, ans) PROVE Kept
  BY <1>1, <1>3, <1>4, <1>9 DEF BeginLine, Skipped
<1>10. ASSUME NEW ans \in Answer, EndLine(ans) \/ TextLine(ans) PROVE Kept
  BY <1>1, <1>3, <1>4, <1>10 DEF EndLine, TextLine, Skipped, SkipCleared
<1>11. CASE Eof
  BY <1>1, <1>3, <1>11 DEF Eof
<1>12. ASSUME NEW f \in FD, NEW n \in 0..MaxLines, Parse(f, n) PROVE Kept
  BY <1>1, <1>12 DEF Parse, StreamsInv, StreamsOwned
<1>13. CASE (\E ans \in Answer : PreprocAgain(ans)) \/ (\E ans \in Answer : ArgvReturn(ans))
            \/ (\E c \in CtxIds, ans \in Answer : ArgvBlank(c, ans))
            \/ (\E n \in Names, ans \in Answer : ArgvLine(n, ans))
  BY <1>13 DEF PreprocAgain, ArgvReturn, ArgvBlank, ArgvLine, FileMode, StreamsInv
<1>14. CASE PreprocCloses \/ ReadNoStream \/ ParseNothing \/ UNCHANGED vars
  BY <1>14 DEF PreprocCloses, ReadNoStream, ParseNothing, vars, files
<1> QED BY <1>6, <1>7, <1>8, <1>9, <1>10, <1>11, <1>12, <1>13, <1>14
        DEF Next, ParseStep, ClientStep

(* Whatever an included file holds, the files below it are read on where   *)
(* they were, with the flags they had.                                     *)
THEOREM FilesBelowKept ==
  ASSUME FileMode
  PROVE  Spec => FilesBelowUntouched
<1>1. StreamsInv /\ [Next]_vars =>
        [\A i \in Slots : i < fstate_idx /\ i <= fstate_idx' =>
           /\ fstate'[i] = fstate[i]
           /\ fstate[i].fp \in FD => left'[fstate[i].fp] = left[fstate[i].fp]]_vars
  BY StepTouchesTop
<1> QED BY <1>1, StreamsInvInFileMode, PTL DEF Spec, FilesBelowUntouched

-----------------------------------------------------------------------------
(* The protocol, and the clients.                                          *)

(* The refinement mapping. *)
Begun == [i \in 1..ctx_state_idx |-> ctx_state[i].id]
LastCall == [ctx |-> call.ctx, what |-> call.what]

(* Frame 0 is the null context's for good. *)
BottomIsNull == ctx_state[0].id = Null

LEMMA BegunTyped ==
  ASSUME TypeOK
  PROVE  /\ ctx_state_idx \in Nat /\ ctx_state_idx \in Frames
         /\ Begun \in Seq(CtxIds) /\ Len(Begun) = ctx_state_idx
         /\ \A i \in 1..ctx_state_idx : Begun[i] = ctx_state[i].id
<1>1. ctx_state_idx \in Nat /\ ctx_state_idx \in Frames
  BY ConstantsAssumption DEF TypeOK, Frames
<1>2. \A i \in 1..ctx_state_idx : ctx_state[i].id \in CtxIds
  BY <1>1, ConstantsAssumption DEF TypeOK, Frames, Frame
<1> QED BY <1>1, <1>2 DEF Begun

(* The context on top is the innermost one of the protocol. *)
LEMMA TopIsInnermost ==
  ASSUME TypeOK, BottomIsNull
  PROVE  Protocol!Innermost = TopCtx
<1>1. CASE ctx_state_idx = 0
  BY <1>1, BegunTyped DEF Protocol!Innermost, TopCtx, Begun, BottomIsNull
<1>2. CASE ctx_state_idx # 0
  <2>1. Begun # <<>> /\ Begun[Len(Begun)] = ctx_state[ctx_state_idx].id
    BY <1>2, BegunTyped
  <2> QED BY <2>1 DEF Protocol!Innermost, TopCtx, Begun
<1> QED BY <1>1, <1>2

LEMMA QuietStep ==
  ASSUME UNCHANGED contexts, call' = NoCall, BottomIsNull
  PROVE  Protocol!Next /\ BottomIsNull'
<1>1. UNCHANGED Begun /\ LastCall' = Protocol!None
  BY DEF contexts, Begun, LastCall, NoCall, Protocol!None
<1> QED BY <1>1 DEF Protocol!Next, Protocol!Quiet, Begun, LastCall, contexts, BottomIsNull

LEMMA BeginStep ==
  ASSUME TypeOK, TypeOK', NEW n \in Names, NEW ans \in Answer, CtxBegin(n, ans), BottomIsNull
  PROVE  Protocol!Next /\ BottomIsNull'
<1> DEFINE d == ctx_state_idx
           c == NameToId(n)
<1>1. c \in CtxIds
  BY DEF NameToId, CtxIds
<1>2. d \in Nat /\ ctx_state_idx' = d + 1
  BY BegunTyped DEF CtxBegin
<1>3. /\ ctx_state'[d + 1].id = c
      /\ \A i \in 0..d : ctx_state'[i].id = ctx_state[i].id
  BY <1>2, ConstantsAssumption DEF CtxBegin, TypeOK, Frames
<1>4. Begun' = Append(Begun, c)
  <2>1. Append(Begun, c) = [i \in 1..(d + 1) |-> IF i <= d THEN Begun[i] ELSE c]
    BY <1>1, BegunTyped, AppendElements
  <2>2. \A i \in 1..(d + 1) : ctx_state'[i].id = IF i <= d THEN Begun[i] ELSE c
    <3> SUFFICES ASSUME NEW i \in 1..(d + 1)
                 PROVE  ctx_state'[i].id = IF i <= d THEN Begun[i] ELSE c
      OBVIOUS
    <3>1. CASE i <= d
      <4>1. i \in 1..d /\ i \in 0..d
        BY <1>2, <3>1
      <4>2. Begun[i] = ctx_state[i].id
        BY <4>1, BegunTyped
      <4> QED BY <1>3, <3>1, <4>1, <4>2
    <3>2. CASE ~(i <= d)
      <4>1. i = d + 1
        BY <1>2, <3>2
      <4> QED BY <1>3, <3>2, <4>1
    <3> QED BY <3>1, <3>2
  <2>3. Begun' = [i \in 1..(d + 1) |-> ctx_state'[i].id]
    BY <1>2 DEF Begun
  <2> QED BY <2>1, <2>2, <2>3
<1>5. LastCall' = [ctx |-> c, what |-> "BEGIN"]
  BY DEF LastCall, CtxBegin, Called
<1>6. Protocol!Begin(c)
  BY <1>4, <1>5 DEF Protocol!Begin, Begun, LastCall
<1>7. ctx_state'[0].id = Null
  BY <1>2, <1>3 DEF BottomIsNull
<1> QED BY <1>1, <1>6, <1>7 DEF Protocol!Next, CtxIds, BottomIsNull

LEMMA EndStep ==
  ASSUME TypeOK, TypeOK', NEW ans \in Answer, CtxEnd(TopCtx, ans), BottomIsNull
  PROVE  Protocol!Next /\ BottomIsNull'
<1> DEFINE d == ctx_state_idx
<1>1. CASE d = 0
  BY <1>1, QuietStep DEF CtxEnd
<1>2. CASE d # 0
  <2>1. d \in Nat /\ d \in 1..MaxDepth /\ ctx_state_idx' = d - 1
    BY <1>2, BegunTyped, ConstantsAssumption DEF CtxEnd, Frames
  <2>2. ctx_state' = [ctx_state EXCEPT ![d] = EmptyFrame, ![d - 1].state = ans.ret]
    BY <1>2 DEF CtxEnd
  <2>3. \A i \in 0..(d - 1) : ctx_state'[i].id = ctx_state[i].id
    <3> SUFFICES ASSUME NEW i \in 0..(d - 1) PROVE ctx_state'[i].id = ctx_state[i].id
      OBVIOUS
    <3>1. i \in Frames /\ i # d /\ d \in Frames /\ d - 1 \in Frames /\ d - 1 # d
      BY <2>1, ConstantsAssumption DEF Frames
    <3>2. ctx_state \in [Frames -> Frame] /\ ctx_state[i] \in Frame
      BY <3>1 DEF TypeOK
    <3>3. ctx_state'[i] = IF i = d - 1 THEN [ctx_state[i] EXCEPT !.state = ans.ret]
                                       ELSE ctx_state[i]
      BY <2>2, <3>1, <3>2
    <3> QED BY <3>2, <3>3 DEF Frame
  <2>4. Begun' = SubSeq(Begun, 1, Len(Begun) - 1)
    <3>1. Begun' = [i \in 1..(d - 1) |-> ctx_state'[i].id]
      BY <2>1 DEF Begun
    <3>2. SubSeq(Begun, 1, d - 1) = [i \in 1..(d - 1) |-> Begun[i]]
      BY <2>1, BegunTyped
    <3>3. \A i \in 1..(d - 1) : ctx_state'[i].id = Begun[i]
      BY <2>1, <2>3, BegunTyped
    <3> QED BY <3>1, <3>2, <3>3, BegunTyped
  <2>5. LastCall' = [ctx |-> Protocol!Innermost, what |-> "END"]
    BY <1>2, TopIsInnermost DEF LastCall, CtxEnd, Called
  <2>6. Begun # <<>>
    BY <1>2, BegunTyped
  <2>7. Protocol!End
    BY <2>4, <2>5, <2>6 DEF Protocol!End, Begun, LastCall
  <2>8. ctx_state'[0].id = Null
    BY <2>1, <2>3 DEF BottomIsNull
  <2> QED BY <2>7, <2>8 DEF Protocol!Next, BottomIsNull
<1> QED BY <1>1, <1>2

LEMMA LineStep ==
  ASSUME TypeOK, NEW ans \in Answer, TextLine(ans), BottomIsNull
  PROVE  Protocol!Next /\ BottomIsNull'
<1>1. /\ ctx_state_idx' = ctx_state_idx
      /\ \A i \in Frames : ctx_state'[i].id = ctx_state[i].id
  BY DEF TextLine, TypeOK, Frame
<1>2. UNCHANGED Begun
  BY <1>1, ConstantsAssumption, BegunTyped DEF Begun, Frames
<1>3. LastCall' = [ctx |-> Protocol!Innermost, what |-> "LINE"]
  BY TopIsInnermost DEF LastCall, TextLine, Called
<1>4. Protocol!Line
  BY <1>2, <1>3 DEF Protocol!Line, Begun, LastCall
<1>5. ctx_state'[0].id = Null
  BY <1>1, ConstantsAssumption DEF Frames, BottomIsNull
<1> QED BY <1>4, <1>5 DEF Protocol!Next, BottomIsNull

(* Unless the client hands over empty lines without a stream, for which    *)
(* the parser ends a context it chose by an uninitialized variable, the    *)
(* calls its handlers see are those of ConfProtocol.                       *)
THEOREM CallsNestProved ==
  ASSUME "blank" \notin ArgvLines
  PROVE  Spec => CallsNest
<1>1. Init => Protocol!Init /\ BottomIsNull
  <2> SUFFICES ASSUME Init PROVE Begun = <<>> /\ LastCall = Protocol!None /\ BottomIsNull
    BY DEF Protocol!Init, Begun, LastCall
  <2>1. Begun = <<>>
    BY DEF Init, Begun
  <2>2. LastCall = Protocol!None
    BY DEF Init, LastCall, NoCall, Protocol!None
  <2>3. BottomIsNull
    BY ConstantsAssumption DEF Init, BottomIsNull, EmptyFrame, Frames
  <2> QED BY <2>1, <2>2, <2>3
<1>2. TypeOK /\ TypeOK' /\ BottomIsNull /\ [Next]_vars
        => BottomIsNull' /\ [Protocol!Next]_<<Begun, LastCall>>
  <2> SUFFICES ASSUME TypeOK, TypeOK', BottomIsNull, [Next]_vars
               PROVE  (Protocol!Next /\ BottomIsNull')
                      \/ (UNCHANGED <<Begun, LastCall>> /\ BottomIsNull')
    OBVIOUS
  <2>1. CASE IgnoredLine \/ SkippedLine \/ PreprocReturn \/ PreprocFails \/ PreprocCloses
             \/ Eof \/ ReadNoStream \/ ParseNothing
    BY <2>1, QuietStep
       DEF IgnoredLine, SkippedLine, PreprocReturn, PreprocFails, PreprocCloses, Eof,
           ReadNoStream, ParseNothing, contexts
  <2>2. ASSUME NEW f \in FD, NEW lines \in 0..MaxLines,
               IncludeLine(f, lines) \/ PreprocLine(f, lines) \/ Parse(f, lines)
        PROVE  Protocol!Next /\ BottomIsNull'
    BY <2>2, QuietStep DEF IncludeLine, PreprocLine, Parse, contexts
  <2>3. ASSUME NEW n \in Names, NEW ans \in Answer, BeginLine(n, ans)
        PROVE  Protocol!Next /\ BottomIsNull'
    BY <2>3, BeginStep DEF BeginLine
  <2>4. ASSUME NEW ans \in Answer, EndLine(ans) PROVE Protocol!Next /\ BottomIsNull'
    BY <2>4, EndStep DEF EndLine
  <2>5. ASSUME NEW ans \in Answer, TextLine(ans) PROVE Protocol!Next /\ BottomIsNull'
    BY <2>5, LineStep
  <2>6. ASSUME NEW ans \in Answer, PreprocAgain(ans) \/ ArgvReturn(ans)
        PROVE  Protocol!Next /\ BottomIsNull'
    BY <2>6, EndStep DEF PreprocAgain, ArgvReturn, ParseRet
  <2>7. ASSUME NEW c \in CtxIds, NEW ans \in Answer, ArgvBlank(c, ans) PROVE FALSE
    BY <2>7 DEF ArgvBlank
  <2>8. ASSUME NEW n \in Names, NEW ans \in Answer, ArgvLine(n, ans)
        PROVE  Protocol!Next /\ BottomIsNull'
    <3>1. CASE OnAssert = "fatal"
      BY <2>8, <3>1, QuietStep DEF ArgvLine
    <3>2. CASE OnAssert # "fatal"
      BY <2>8, <3>2, BeginStep DEF ArgvLine
    <3> QED BY <3>1, <3>2
  <2>9. CASE UNCHANGED vars
    BY <2>9 DEF vars, contexts, Begun, LastCall, BottomIsNull
  <2> QED BY <2>1, <2>2, <2>3, <2>4, <2>5, <2>6, <2>7, <2>8, <2>9
          DEF Next, ParseStep, ClientStep
<1> QED BY <1>1, <1>2, TypeCorrect, PTL DEF Spec, CallsNest, Protocol!Spec, Begun, LastCall

-----------------------------------------------------------------------------
(* Clients that keep an object per open context (ConfClient).              *)

(* Every name that begins a context has a client handler, and END answers  *)
(* with what BEGIN was given.                                              *)
Nesting ==
  /\ Convention = "nesting"
  /\ Names \subseteq Ctx
  /\ "blank" \notin ArgvLines

(* The states of the open contexts are the live objects, and each object   *)
(* remembers the state of the frame below its own: what its END gives back.*)
ClientInv ==
  /\ outer \in [State -> Pointers]
  /\ ctx_state[0] = EmptyFrame
  /\ \A i \in 1..ctx_state_idx : /\ ctx_state[i].id \in Ctx
                                 /\ ctx_state[i].state \in State
                                 /\ outer[ctx_state[i].state] = ctx_state[i - 1].state
  /\ live = {ctx_state[i].state : i \in 1..ctx_state_idx}
  /\ \A i, j \in 1..ctx_state_idx : ctx_state[i].state = ctx_state[j].state => i = j

(* What CallsGetLiveState says of a step. *)
CallIsLive == call'.what \in {"LINE", "END"} /\ call'.ctx \in Ctx => call'.arg \in live

LEMMA QuietClient ==
  ASSUME ClientInv, UNCHANGED contexts, call' = NoCall, Handlers
  PROVE  ClientInv' /\ CallIsLive
<1>1. UNCHANGED <<live, outer>>
  BY ConstantsAssumption DEF Handlers, NoHandler, NoCall
<1> QED BY <1>1 DEF ClientInv, CallIsLive, NoCall, contexts

LEMMA BeginClient ==
  ASSUME TypeOK, ClientInv, Nesting, Handlers,
         NEW n \in Names, NEW ans \in Answer, CtxBegin(n, ans)
  PROVE  ClientInv' /\ CallIsLive
<1> DEFINE d == ctx_state_idx
           new == ans.ret
<1>1. /\ d \in Nat /\ d \in Frames /\ d + 1 \in Frames /\ ctx_state_idx' = d + 1
      /\ \A i \in 0..d : i \in Frames /\ i # d + 1
  BY BegunTyped, ConstantsAssumption DEF CtxBegin, Frames
<1>2. n \in Ctx /\ NameToId(n) = n
  BY DEF Nesting, NameToId
<1>3. call' = [ctx |-> n, what |-> "BEGIN", arg |-> ctx_state[d].state, ret |-> new]
  BY <1>2 DEF CtxBegin, Called
<1>4. /\ new \in State \ live /\ live' = live \cup {new}
      /\ outer' = [outer EXCEPT ![new] = ctx_state[d].state]
  BY <1>2, <1>3, ConstantsAssumption DEF Handlers, NoHandler, Allocates, HandsBack, Frees
<1>5. /\ ctx_state'[d + 1] = [id |-> n, state |-> new]
      /\ \A i \in 0..d : ctx_state'[i] = ctx_state[i]
  BY <1>1, <1>2 DEF CtxBegin, TypeOK
<1>6. outer' \in [State -> Pointers]
  <2>1. ctx_state[d].state \in Pointers
    BY <1>1 DEF TypeOK, Frame
  <2> QED BY <1>4, <2>1 DEF ClientInv
<1>7. 1..(d + 1) = 1..d \cup {d + 1} /\ 1..d \subseteq 0..d /\ d \in 0..d /\ d + 1 \notin 1..d
  BY <1>1
<1>8. \A i \in 1..d : ctx_state'[i] = ctx_state[i] /\ ctx_state[i].state # new
  BY <1>4, <1>5, <1>7 DEF ClientInv
<1>9. live' = {ctx_state'[i].state : i \in 1..(d + 1)}
  BY <1>4, <1>5, <1>7, <1>8 DEF ClientInv
<1>10. \A i, j \in 1..(d + 1) : ctx_state'[i].state = ctx_state'[j].state => i = j
  BY <1>5, <1>7, <1>8 DEF ClientInv
<1>11. ASSUME NEW i \in 1..(d + 1)
       PROVE  /\ ctx_state'[i].id \in Ctx /\ ctx_state'[i].state \in State
              /\ outer'[ctx_state'[i].state] = ctx_state'[i - 1].state
  <2>1. CASE i = d + 1
    <3>1. i - 1 = d
      BY <1>1, <2>1
    <3> QED BY <1>2, <1>4, <1>5, <1>7, <2>1, <3>1 DEF ClientInv
  <2>2. CASE i # d + 1
    <3>1. i \in 1..d /\ i - 1 \in 0..d
      BY <1>1, <2>2
    <3> QED BY <1>4, <1>5, <1>8, <3>1 DEF ClientInv
  <2> QED BY <2>1, <2>2
<1>12. ctx_state'[0] = EmptyFrame
  BY <1>1, <1>5 DEF ClientInv
<1>13. CallIsLive
  BY <1>3 DEF CallIsLive
<1> QED BY <1>1, <1>6, <1>9, <1>10, <1>11, <1>12, <1>13 DEF ClientInv

LEMMA EndClient ==
  ASSUME TypeOK, ClientInv, Nesting, Handlers, NEW ans \in Answer, CtxEnd(TopCtx, ans)
  PROVE  ClientInv' /\ CallIsLive
<1> DEFINE d == ctx_state_idx
           old == ctx_state[d].state
<1>1. CASE d = 0
  BY <1>1, QuietClient DEF CtxEnd
<1>2. CASE d # 0
  <2>1. /\ d \in Nat /\ d \in 1..d /\ ctx_state_idx' = d - 1 /\ d - 1 \in 0..d
        /\ \A i \in 0..d : i \in Frames
        /\ \A i \in 1..(d - 1) : i \in 1..d /\ i # d
        /\ 1..d = 1..(d - 1) \cup {d}
    BY <1>2, BegunTyped, ConstantsAssumption DEF CtxEnd, Frames
  <2>2. TopCtx \in Ctx /\ TopCtx # Null /\ old \in State
        /\ outer[old] = ctx_state[d - 1].state /\ old \in live
    BY <2>1, ConstantsAssumption DEF ClientInv, TopCtx
  <2>3. call' = [ctx |-> TopCtx, what |-> "END", arg |-> old, ret |-> ans.ret]
    BY <1>2 DEF CtxEnd, Called
  <2>4. /\ live' = live \ {old} /\ outer' = [outer EXCEPT ![old] = NULL]
        /\ ans.ret = ctx_state[d - 1].state
    BY <2>2, <2>3 DEF Handlers, NoHandler, Allocates, HandsBack, Frees, Nesting
  <2>5. \A i \in 0..(d - 1) : ctx_state'[i] = ctx_state[i]
    <3>1. ctx_state' = [ctx_state EXCEPT ![d] = EmptyFrame, ![d - 1].state = ans.ret]
      BY <1>2 DEF CtxEnd
    <3>2. \A i \in 0..(d - 1) : i \in Frames /\ i # d /\ ctx_state[i] \in Frame
      BY <2>1 DEF TypeOK
    <3>3. ASSUME NEW i \in 0..(d - 1) PROVE ctx_state'[i] = ctx_state[i]
      <4>1. i \in Frames /\ i # d /\ ctx_state[i] \in Frame
        BY <3>2
      <4>2. CASE i = d - 1
        BY <2>1, <2>4, <3>1, <4>1, <4>2 DEF TypeOK, Frame
      <4>3. CASE i # d - 1
        BY <3>1, <4>1, <4>3 DEF TypeOK
      <4> QED BY <4>2, <4>3
    <3> QED BY <3>3
  <2>6. \A i \in 1..(d - 1) : /\ ctx_state'[i] = ctx_state[i] /\ ctx_state[i].state # old
                             /\ ctx_state'[i - 1] = ctx_state[i - 1]
    <3>1. \A i \in 1..(d - 1) : i \in 0..(d - 1) /\ i - 1 \in 0..(d - 1)
      BY <2>1
    <3> QED BY <2>1, <2>5, <3>1 DEF ClientInv
  <2>7. live' = {ctx_state'[i].state : i \in 1..(d - 1)}
    BY <2>1, <2>4, <2>6 DEF ClientInv
  <2>8. \A i \in 1..(d - 1) : /\ ctx_state'[i].id \in Ctx /\ ctx_state'[i].state \in State
                             /\ outer'[ctx_state'[i].state] = ctx_state'[i - 1].state
    BY <2>1, <2>2, <2>4, <2>6 DEF ClientInv
  <2>9. \A i, j \in 1..(d - 1) : ctx_state'[i].state = ctx_state'[j].state => i = j
    BY <2>1, <2>6 DEF ClientInv
  <2>10. outer' \in [State -> Pointers] /\ ctx_state'[0] = EmptyFrame
    <3>1. NULL \in Pointers /\ 0 \in 0..(d - 1)
      BY <2>1 DEF Pointers
    <3> QED BY <2>4, <2>5, <3>1 DEF ClientInv
  <2>11. CallIsLive
    BY <2>2, <2>3 DEF CallIsLive
  <2> HIDE DEF d
  <2>12. ctx_state_idx' = d - 1
    BY <2>1
  <2> QED BY <2>7, <2>8, <2>9, <2>10, <2>11, <2>12 DEF ClientInv
<1> QED BY <1>1, <1>2

LEMMA LineClient ==
  ASSUME TypeOK, ClientInv, Nesting, Handlers, NEW ans \in Answer, TextLine(ans)
  PROVE  ClientInv' /\ CallIsLive
<1> DEFINE d == ctx_state_idx
           s == ctx_state[d].state
<1>1. d \in Nat /\ d \in Frames /\ ctx_state[d] \in Frame
  BY BegunTyped DEF TypeOK
<1>2. /\ call' = [ctx |-> TopCtx, what |-> "LINE", arg |-> s, ret |-> ans.ret]
      /\ TopCtx = Null => ans.ret = s
      /\ ctx_state' = [ctx_state EXCEPT ![d].state = ans.ret] /\ ctx_state_idx' = d
  BY DEF TextLine, Called
<1>3. ans.ret = s /\ UNCHANGED <<live, outer>>
  <2>1. CASE TopCtx = Null
    BY <1>2, <2>1, ConstantsAssumption DEF Handlers, NoHandler
  <2>2. CASE TopCtx # Null
    BY <1>2, <2>2 DEF Handlers, NoHandler, Allocates, HandsBack, Frees
  <2> QED BY <2>1, <2>2
<1>4. ctx_state' = ctx_state
  BY <1>1, <1>2, <1>3 DEF TypeOK, Frame
<1>5. CallIsLive
  <2>1. CASE d = 0
    BY <1>2, <2>1, ConstantsAssumption DEF ClientInv, TopCtx, EmptyFrame, CallIsLive
  <2>2. CASE d # 0
    <3>1. d \in 1..d
      BY <1>1, <2>2
    <3> QED BY <1>2, <3>1 DEF ClientInv, CallIsLive
  <2> QED BY <2>1, <2>2
<1> QED BY <1>2, <1>3, <1>4, <1>5 DEF ClientInv

(* A step of the parser with its client. *)
LEMMA ClientStepKeeps ==
  ASSUME TypeOK, ClientInv, Nesting, ClientNext
  PROVE  ClientInv' /\ CallIsLive
<1> USE DEF ClientNext
<1>1. CASE IgnoredLine \/ SkippedLine \/ PreprocReturn \/ PreprocFails \/ PreprocCloses
           \/ Eof \/ ReadNoStream \/ ParseNothing
  BY <1>1, QuietClient
     DEF IgnoredLine, SkippedLine, PreprocReturn, PreprocFails, PreprocCloses, Eof,
         ReadNoStream, ParseNothing, contexts
<1>2. ASSUME NEW f \in FD, NEW lines \in 0..MaxLines,
             IncludeLine(f, lines) \/ PreprocLine(f, lines) \/ Parse(f, lines)
      PROVE  ClientInv' /\ CallIsLive
  BY <1>2, QuietClient DEF IncludeLine, PreprocLine, Parse, contexts
<1>3. ASSUME NEW n \in Names, NEW ans \in Answer, BeginLine(n, ans)
      PROVE  ClientInv' /\ CallIsLive
  BY <1>3, BeginClient DEF BeginLine
<1>4. ASSUME NEW ans \in Answer, EndLine(ans) PROVE ClientInv' /\ CallIsLive
  BY <1>4, EndClient DEF EndLine
<1>5. ASSUME NEW ans \in Answer, TextLine(ans) PROVE ClientInv' /\ CallIsLive
  BY <1>5, LineClient
<1>6. ASSUME NEW ans \in Answer, PreprocAgain(ans) \/ ArgvReturn(ans)
      PROVE  ClientInv' /\ CallIsLive
  BY <1>6, EndClient DEF PreprocAgain, ArgvReturn, ParseRet
<1>7. ASSUME NEW c \in CtxIds, NEW ans \in Answer, ArgvBlank(c, ans) PROVE FALSE
  BY <1>7 DEF ArgvBlank, Nesting
<1>8. ASSUME NEW n \in Names, NEW ans \in Answer, ArgvLine(n, ans)
      PROVE  ClientInv' /\ CallIsLive
  <2>1. CASE OnAssert = "fatal"
    BY <1>8, <2>1, QuietClient DEF ArgvLine
  <2>2. CASE OnAssert # "fatal"
    BY <1>8, <2>2, BeginClient DEF ArgvLine
  <2> QED BY <2>1, <2>2
<1> QED BY <1>1, <1>2, <1>3, <1>4, <1>5, <1>6, <1>7, <1>8 DEF Next, ParseStep, ClientStep

LEMMA ClientInvHolds ==
  ASSUME Nesting
  PROVE  ClientSpec => []TypeOK /\ []ClientInv
<1>1. ClientSpec => []TypeOK
  <2>1. ClientInit => Init
    BY DEF ClientInit
  <2>2. [ClientNext]_cvars => [Next]_vars
    BY DEF ClientNext, cvars
  <2> QED BY <2>1, <2>2, TypeCorrect, PTL DEF ClientSpec, Spec
<1>2. ClientInit => ClientInv
  <2> SUFFICES ASSUME ClientInit PROVE ClientInv
    OBVIOUS
  <2>1. 1..0 = {} /\ 0 \in Frames /\ NULL \in Pointers
    BY ConstantsAssumption DEF Frames, Pointers
  <2> QED BY <2>1 DEF ClientInit, Init, ClientInv
<1>3. TypeOK /\ ClientInv /\ [ClientNext]_cvars => ClientInv'
  <2>1. CASE UNCHANGED cvars
    BY <2>1 DEF cvars, vars, contexts, ClientInv
  <2> QED BY <2>1, ClientStepKeeps
<1> QED BY <1>1, <1>2, <1>3, PTL DEF ClientSpec

(* A client that nests contexts the way the parser threads the states      *)
(* never loses an object: in every build, with command-line lines, with    *)
(* either reading of a second %preproc, and whatever is skipped.           *)
THEOREM LiveObjectsAreOpen ==
  ASSUME Nesting
  PROVE  ClientSpec => []LiveAreOpen
<1>1. ClientInv => LiveAreOpen
  BY DEF ClientInv, LiveAreOpen, EmptyFrame
<1> QED BY <1>1, ClientInvHolds, PTL

(* No handler of such a client is given an object that an END has freed,   *)
(* nor the object of another context's frame.                              *)
THEOREM CallsAreLive ==
  ASSUME Nesting
  PROVE  ClientSpec => CallsGetLiveState
<1>1. TypeOK /\ ClientInv /\ [ClientNext]_cvars =>
        [call'.what \in {"LINE", "END"} /\ call'.ctx \in Ctx => call'.arg \in live]_cvars
  BY ClientStepKeeps DEF CallIsLive
<1> QED BY <1>1, ClientInvHolds, PTL DEF ClientSpec, CallsGetLiveState
=============================================================================
