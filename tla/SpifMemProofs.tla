---------------------------- MODULE SpifMemProofs ---------------------------
(* Proofs about SpifMem. *)
EXTENDS SpifMem, DataLemmas, TLAPS

-----------------------------------------------------------------------------
(* Every variable keeps its type.                                          *)

LEMMA RemovedTyped ==
  ASSUME TypeOK, NEW a, Removed(a)
  PROVE  recs' \in Seq(Rec)
BY RemoveAtElements DEF Removed, NotFound, TypeOK

LEMMA ChangedTyped ==
  ASSUME TypeOK, NEW a, NEW b \in Addr, NEW s \in Sizes, Changed(a, b, s)
  PROVE  /\ recs' \in Seq(Rec)
         /\ DOMAIN recs' = DOMAIN recs
<1>1. [ptr |-> b, size |-> s] \in Rec
  BY DEF Rec
<1>2. CASE NotFound(a)
  BY <1>2 DEF NotFound, TypeOK
<1>3. ASSUME NEW i \in DOMAIN recs, recs' = [recs EXCEPT ![i] = [ptr |-> b, size |-> s]]
      PROVE  recs' \in Seq(Rec) /\ DOMAIN recs' = DOMAIN recs
  BY <1>1, <1>3 DEF TypeOK
<1> QED BY <1>2, <1>3 DEF Changed

(* Whatever the client calls and whatever level it sets.                   *)
THEOREM MemTypeCorrect == Spec => []TypeOK
<1>1. Init => TypeOK
  BY DEF Init, TypeOK
<1>2. TypeOK /\ [Next]_vars => TypeOK'
  <2> SUFFICES ASSUME TypeOK, [Next]_vars PROVE TypeOK'
    OBVIOUS
  <2>1. ASSUME NEW a \in Addr, NEW s \in Sizes, Allocate(a, s) PROVE TypeOK'
    <3>1. [ptr |-> a, size |-> s] \in Rec
      BY DEF Rec
    <3>2. recs' \in Seq(Rec)
      BY <2>1, <3>1 DEF Allocate, Added, TypeOK
    <3>3. live' \in [Addr -> Sizes \cup {NoBlock}] /\ tracked' \subseteq Addr
      BY <2>1 DEF Allocate, TypeOK
    <3>4. level' \in BOOLEAN /\ gap' \in BOOLEAN
      BY <2>1 DEF Allocate, TypeOK
    <3> QED BY <3>2, <3>3, <3>4 DEF TypeOK
  <2>2. ASSUME NEW p \in Addr \cup {NULL}, Free(p) PROVE TypeOK'
    <3>1. CASE p = NULL
      BY <2>2, <3>1 DEF Free, TypeOK
    <3>2. CASE p # NULL
      <4>1. recs' \in Seq(Rec)
        BY <2>2, <3>2, RemovedTyped DEF Free, TypeOK
      <4>2. live' \in [Addr -> Sizes \cup {NoBlock}] /\ tracked' \subseteq Addr
        BY <2>2, <3>2 DEF Free, TypeOK
      <4>3. level' \in BOOLEAN /\ gap' \in BOOLEAN
        BY <2>2 DEF Free, TypeOK
      <4> QED BY <4>1, <4>2, <4>3 DEF TypeOK
    <3> QED BY <3>1, <3>2
  <2>3. ASSUME NEW p \in Addr, NEW a \in Addr, NEW s \in Sizes, Resize(p, a, s) PROVE TypeOK'
    <3>1. recs' \in Seq(Rec)
      BY <2>3, ChangedTyped DEF Resize, TypeOK
    <3>2. live' \in [Addr -> Sizes \cup {NoBlock}]
      BY <2>3 DEF Resize, TypeOK
    <3>3. tracked' \subseteq Addr
      BY <2>3 DEF Resize, TypeOK
    <3>4. level' \in BOOLEAN /\ gap' \in BOOLEAN
      BY <2>3 DEF Resize, TypeOK
    <3> QED BY <3>1, <3>2, <3>3, <3>4 DEF TypeOK
  <2>4. CASE SetLevel
    BY <2>4 DEF SetLevel, TypeOK
  <2>5. CASE UNCHANGED vars
    BY <2>5 DEF vars, TypeOK
  <2> QED BY <2>1, <2>2, <2>3, <2>4, <2>5 DEF Next, Malloc, Strdup, Calloc, Realloc
<1> QED BY <1>1, <1>2, PTL DEF Spec

-----------------------------------------------------------------------------
(* Tracked blocks are on record.                                           *)

Recorded(rs, a, s) == \E i \in DOMAIN rs : rs[i] = [ptr |-> a, size |-> s]

TrackedInv ==
  /\ TypeOK
  /\ \A a \in tracked : live[a] # NoBlock /\ Recorded(recs, a, live[a])

(* Removing a record of one address leaves those of the others.            *)
LEMMA RemovedKeepsOthers ==
  ASSUME TypeOK, NEW p, Removed(p), NEW a \in Addr, NEW s \in Sizes, a # p,
         Recorded(recs, a, s)
  PROVE  Recorded(recs', a, s)
<1>1. PICK k \in 1..Len(recs) : recs[k] = [ptr |-> a, size |-> s]
  BY DEF Recorded, TypeOK
<1>2. CASE NotFound(p)
  BY <1>2 DEF NotFound
<1>3. ASSUME NEW i \in DOMAIN recs, Found(i, p), recs' = RemoveAt(recs, i)
      PROVE  Recorded(recs', a, s)
  <2>1. i \in 1..Len(recs) /\ i # k
    BY <1>1, <1>3 DEF Found, TypeOK
  <2>2. /\ recs' \in Seq(Rec) /\ Len(recs') = Len(recs) - 1
        /\ \A j \in 1..(Len(recs) - 1) : recs'[j] = IF j < i THEN recs[j] ELSE recs[j + 1]
    BY <1>3, <2>1, RemoveAtElements DEF TypeOK
  <2>3. CASE k < i
    BY <1>1, <2>1, <2>2, <2>3 DEF Recorded
  <2>4. CASE k > i
    <3>1. k - 1 \in 1..(Len(recs) - 1) /\ ~(k - 1 < i) /\ (k - 1) + 1 = k
      BY <1>1, <2>1, <2>4
    <3>2. recs'[k - 1] = recs[k] /\ k - 1 \in DOMAIN recs'
      BY <2>2, <3>1
    <3> QED BY <1>1, <3>2 DEF Recorded
  <2> QED BY <1>1, <2>1, <2>3, <2>4
<1> QED BY <1>2, <1>3 DEF Removed

(* So does changing one.                                                   *)
LEMMA ChangedKeepsOthers ==
  ASSUME TypeOK, NEW p, NEW b, NEW t, Changed(p, b, t), NEW a, NEW s, a # p,
         Recorded(recs, a, s)
  PROVE  Recorded(recs', a, s)
<1>1. PICK k \in DOMAIN recs : recs[k] = [ptr |-> a, size |-> s]
  BY DEF Recorded
<1>2. CASE NotFound(p)
  BY <1>2 DEF NotFound
<1>3. ASSUME NEW i \in DOMAIN recs, Found(i, p),
             recs' = [recs EXCEPT ![i] = [ptr |-> b, size |-> t]]
      PROVE  Recorded(recs', a, s)
  <2>1. i # k
    BY <1>1, <1>3 DEF Found
  <2>2. k \in DOMAIN recs' /\ recs'[k] = recs[k]
    BY <1>1, <1>3, <2>1 DEF TypeOK
  <2> QED BY <1>1, <2>2 DEF Recorded
<1> QED BY <1>2, <1>3 DEF Changed

(* A block on record that is resized stays on record.                      *)
LEMMA ChangedRecords ==
  ASSUME TypeOK, NEW p, NEW b, NEW t, Changed(p, b, t), NEW s, Recorded(recs, p, s)
  PROVE  Recorded(recs', b, t)
<1>1. ~NotFound(p)
  BY DEF Recorded, NotFound
<1>2. PICK i \in DOMAIN recs : recs' = [recs EXCEPT ![i] = [ptr |-> b, size |-> t]]
  BY <1>1 DEF Changed
<1>3. i \in DOMAIN recs' /\ recs'[i] = [ptr |-> b, size |-> t]
  BY <1>2 DEF TypeOK
<1> QED BY <1>3 DEF Recorded

LEMMA AddedRecords ==
  ASSUME TypeOK, NEW a \in Addr, NEW s \in Sizes, Added(a, s)
  PROVE  /\ Recorded(recs', a, s)
         /\ \A b, t : Recorded(recs, b, t) => Recorded(recs', b, t)
<1> DEFINE r == [ptr |-> a, size |-> s]
<1>1. r \in Rec
  BY DEF Rec
<1>2. recs' = Append(recs, r)
  BY DEF Added
<1> HIDE DEF r
<1>3. /\ Len(recs) + 1 \in DOMAIN recs' /\ recs'[Len(recs) + 1] = r
      /\ \A i \in DOMAIN recs : i \in DOMAIN recs' /\ recs'[i] = recs[i]
  BY <1>1, <1>2 DEF TypeOK
<1> QED BY <1>3 DEF Recorded, r

(* A block allocated and used at DEBUG_MEM is dumped with its size,        *)
(* whatever happened to other blocks below that level.                     *)
THEOREM TrackedStayRecorded == Spec => []TrackedRecorded
<1>1. Init => TrackedInv
  BY DEF Init, TypeOK, TrackedInv
<1>2. TrackedInv /\ TypeOK' /\ [Next]_vars => TrackedInv'
  <2> SUFFICES ASSUME TrackedInv, TypeOK', [Next]_vars,
                      NEW b \in tracked'
               PROVE  live'[b] # NoBlock /\ Recorded(recs', b, live'[b])
    BY DEF TrackedInv
  <2>0. /\ TypeOK /\ b \in Addr /\ NoBlock \notin Sizes
        /\ b \in tracked => live[b] \in Sizes /\ Recorded(recs, b, live[b])
    BY DEF TrackedInv, TypeOK, NoBlock, Sizes
  <2>1. ASSUME NEW a \in Addr, NEW s \in Sizes, Allocate(a, s)
        PROVE  live'[b] # NoBlock /\ Recorded(recs', b, live'[b])
    <3>1. CASE b = a /\ level
      <4>1. live'[b] = s
        BY <2>0, <2>1, <3>1 DEF Allocate, TypeOK
      <4> QED BY <2>0, <2>1, <3>1, <4>1, AddedRecords DEF Allocate
    <3>2. CASE ~(b = a /\ level)
      <4>1. b \in tracked
        BY <2>1, <3>2 DEF Allocate
      <4>2. b # a /\ live'[b] = live[b]
        BY <2>0, <2>1, <4>1 DEF Allocate, TypeOK
      <4> QED BY <2>0, <2>1, <4>1, <4>2, AddedRecords DEF Allocate
    <3> QED BY <3>1, <3>2
  <2>2. ASSUME NEW p \in Addr \cup {NULL}, Free(p)
        PROVE  live'[b] # NoBlock /\ Recorded(recs', b, live'[b])
    <3>1. CASE p = NULL
      BY <2>0, <2>2, <3>1 DEF Free
    <3>2. CASE p # NULL
      <4>1. b \in tracked /\ b # p /\ live'[b] = live[b]
        BY <2>0, <2>2, <3>2 DEF Free, TypeOK
      <4> QED BY <2>0, <2>2, <3>2, <4>1, RemovedKeepsOthers DEF Free
    <3> QED BY <3>1, <3>2
  <2>3. ASSUME NEW p \in Addr, NEW a \in Addr, NEW s \in Sizes, Resize(p, a, s)
        PROVE  live'[b] # NoBlock /\ Recorded(recs', b, live'[b])
    <3>0. live'[a] = s
      BY <2>0, <2>3 DEF Resize, TypeOK
    <3>1. CASE b = a /\ level /\ p \in tracked
      <4>1. Recorded(recs, p, live[p])
        BY <3>1 DEF TrackedInv
      <4> QED BY <2>0, <2>3, <3>0, <3>1, <4>1, ChangedRecords DEF Resize
    <3>2. CASE ~(b = a /\ level /\ p \in tracked)
      <4>1. b \in tracked /\ b # p
        BY <2>3, <3>2 DEF Resize
      <4>2. b # a /\ live'[b] = live[b]
        BY <2>0, <2>3, <4>1 DEF Resize, TypeOK
      <4> QED BY <2>0, <2>3, <4>1, <4>2, ChangedKeepsOthers DEF Resize
    <3> QED BY <3>1, <3>2
  <2>4. CASE SetLevel
    BY <2>0, <2>4 DEF SetLevel
  <2>5. CASE UNCHANGED vars
    BY <2>0, <2>5 DEF vars
  <2> QED BY <2>1, <2>2, <2>3, <2>4, <2>5 DEF Next, Malloc, Strdup, Calloc, Realloc
<1>3. TrackedInv => TrackedRecorded
  BY DEF TrackedInv, TrackedRecorded, Recorded
<1> QED BY <1>1, <1>2, <1>3, MemTypeCorrect, PTL DEF Spec

-----------------------------------------------------------------------------
(* At a level that never drops, the records are the live blocks.           *)

(* One record per address, and each that of a live block. *)
OnePerBlock(rs, blocks) ==
  /\ \A i \in DOMAIN rs : blocks[rs[i].ptr] = rs[i].size
  /\ \A i, j \in DOMAIN rs : rs[i].ptr = rs[j].ptr => i = j

AllRecorded(rs, blocks) ==
  \A a \in Addr : blocks[a] # NoBlock => Recorded(rs, a, blocks[a])

RecordsInv ==
  /\ TypeOK
  /\ ~gap => level /\ OnePerBlock(recs, live) /\ AllRecorded(recs, live)

LEMMA RecsTyped ==
  ASSUME TypeOK
  PROVE  /\ DOMAIN recs = 1..Len(recs)
         /\ \A i \in DOMAIN recs : recs[i].ptr \in Addr /\ recs[i].size \in Sizes
<1>1. DOMAIN recs = 1..Len(recs) /\ \A i \in DOMAIN recs : recs[i] \in Rec
  BY DEF TypeOK
<1>2. \A r \in Rec : r.ptr \in Addr /\ r.size \in Sizes
  BY DEF Rec
<1> QED BY <1>1, <1>2

LEMMA RemovedLeavesOnePerBlock ==
  ASSUME TypeOK, NEW p \in Addr, Removed(p), OnePerBlock(recs, live)
  PROVE  OnePerBlock(recs', [live EXCEPT ![p] = NoBlock])
<1> DEFINE blocks == [live EXCEPT ![p] = NoBlock]
<1>1. \A a \in Addr : a # p => blocks[a] = live[a]
  BY DEF TypeOK
<1> HIDE DEF blocks
<1>2. CASE NotFound(p)
  <2>1. recs' = recs /\ \A i \in DOMAIN recs : recs[i].ptr # p /\ recs[i].ptr \in Addr
    BY <1>2, RecsTyped DEF NotFound
  <2> QED BY <1>1, <2>1 DEF OnePerBlock, blocks
<1>3. ASSUME NEW i \in DOMAIN recs, Found(i, p), recs' = RemoveAt(recs, i)
      PROVE  OnePerBlock(recs', [live EXCEPT ![p] = NoBlock])
  <2> DEFINE Old(j) == IF j < i THEN j ELSE j + 1
  <2>1. i \in 1..Len(recs)
    BY DEF TypeOK
  <2>2. DOMAIN recs' = 1..(Len(recs) - 1)
        /\ \A j \in DOMAIN recs' : recs'[j] = recs[Old(j)]
    <3>1. /\ recs' \in Seq(Rec) /\ Len(recs') = Len(recs) - 1
          /\ \A j \in 1..(Len(recs) - 1) : recs'[j] = IF j < i THEN recs[j] ELSE recs[j + 1]
      BY <1>3, <2>1, RemoveAtElements DEF TypeOK
    <3>2. DOMAIN recs' = 1..(Len(recs) - 1)
      BY <3>1
    <3> QED BY <3>1, <3>2
  <2>3. \A j \in DOMAIN recs' : Old(j) \in DOMAIN recs /\ Old(j) # i
    BY <2>1, <2>2 DEF TypeOK
  <2>4. \A j, k \in DOMAIN recs' : Old(j) = Old(k) => j = k
    BY <2>1, <2>2
  <2> HIDE DEF Old
  <2>5. \A j \in DOMAIN recs : j # i => recs[j].ptr # p /\ recs[j].ptr \in Addr
    BY <1>3, RecsTyped DEF Found, OnePerBlock
  <2>6. \A j \in DOMAIN recs' : recs'[j].ptr # p /\ recs'[j].ptr \in Addr
                               /\ recs'[j].size = live[recs'[j].ptr]
    BY <2>2, <2>3, <2>5 DEF OnePerBlock
  <2>7. \A j \in DOMAIN recs' : blocks[recs'[j].ptr] = recs'[j].size
    BY <1>1, <2>6
  <2>8. \A j, k \in DOMAIN recs' : recs'[j].ptr = recs'[k].ptr => j = k
    BY <2>2, <2>3, <2>4 DEF OnePerBlock
  <2> QED BY <2>7, <2>8 DEF OnePerBlock, blocks
<1> QED BY <1>2, <1>3 DEF Removed

(* p moves to an address with no block, or stays. *)
LEMMA ChangedLeavesOnePerBlock ==
  ASSUME TypeOK, NEW p \in Addr, NEW a \in Addr, NEW s \in Sizes, Changed(p, a, s),
         a = p \/ live[a] = NoBlock,
         OnePerBlock(recs, live), \E i \in DOMAIN recs : recs[i].ptr = p
  PROVE  OnePerBlock(recs', [[live EXCEPT ![p] = NoBlock] EXCEPT ![a] = s])
<1> DEFINE blocks == [[live EXCEPT ![p] = NoBlock] EXCEPT ![a] = s]
<1>1. blocks[a] = s /\ \A b \in Addr : b # p /\ b # a => blocks[b] = live[b]
  BY DEF TypeOK
<1> HIDE DEF blocks
<1>2. PICK i \in DOMAIN recs :
        Found(i, p) /\ recs' = [recs EXCEPT ![i] = [ptr |-> a, size |-> s]]
  BY DEF Changed, NotFound
<1>3. /\ DOMAIN recs' = DOMAIN recs
      /\ recs'[i] = [ptr |-> a, size |-> s]
      /\ \A j \in DOMAIN recs : j # i => recs'[j] = recs[j]
  BY <1>2 DEF TypeOK
<1>4. \A j \in DOMAIN recs : /\ recs[j].ptr \in Addr /\ recs[j].size \in Sizes
                             /\ live[recs[j].ptr] = recs[j].size
  BY RecsTyped DEF OnePerBlock
<1>5. ASSUME NEW j \in DOMAIN recs, j # i
      PROVE  recs[j].ptr # p /\ recs[j].ptr # a
  <2>1. recs[j].ptr # p
    BY <1>2, <1>5 DEF Found, OnePerBlock
  <2>2. NoBlock \notin Sizes
    BY DEF NoBlock, Sizes
  <2> QED BY <1>4, <1>5, <2>1, <2>2
<1>6. \A j \in DOMAIN recs' : blocks[recs'[j].ptr] = recs'[j].size
  BY <1>1, <1>3, <1>4, <1>5
<1>7. \A j, k \in DOMAIN recs' : recs'[j].ptr = recs'[k].ptr => j = k
  BY <1>3, <1>5 DEF OnePerBlock
<1> QED BY <1>6, <1>7 DEF OnePerBlock, blocks

LEMMA AddedLeavesOnePerBlock ==
  ASSUME TypeOK, NEW a \in Addr, NEW s \in Sizes, Added(a, s), live[a] = NoBlock,
         OnePerBlock(recs, live)
  PROVE  OnePerBlock(recs', [live EXCEPT ![a] = s])
<1> DEFINE r == [ptr |-> a, size |-> s]
           blocks == [live EXCEPT ![a] = s]
<1>1. blocks[a] = s /\ \A b \in Addr : b # a => blocks[b] = live[b]
  BY DEF TypeOK
<1>2. r \in Rec /\ r.ptr = a /\ r.size = s
  BY DEF Rec
<1>3. recs' = Append(recs, r)
  BY DEF Added
<1> HIDE DEF blocks, r
<1>4. /\ DOMAIN recs' = 1..(Len(recs) + 1) /\ recs'[Len(recs) + 1] = r
      /\ \A i \in 1..Len(recs) : recs'[i] = recs[i]
  BY <1>2, <1>3 DEF TypeOK
<1>5. \A i \in 1..Len(recs) :
        recs[i].ptr \in Addr /\ recs[i].ptr # a /\ live[recs[i].ptr] = recs[i].size
  BY RecsTyped DEF OnePerBlock, NoBlock, Sizes
<1>6. \A i \in DOMAIN recs' : i = Len(recs) + 1 \/ i \in 1..Len(recs)
  BY <1>4 DEF TypeOK
<1>7. \A i \in DOMAIN recs' : blocks[recs'[i].ptr] = recs'[i].size
  BY <1>1, <1>2, <1>4, <1>5, <1>6
<1>8. \A i, j \in DOMAIN recs' : recs'[i].ptr = recs'[j].ptr => i = j
  BY <1>2, <1>4, <1>5, <1>6, RecsTyped DEF OnePerBlock
<1> QED BY <1>7, <1>8 DEF OnePerBlock, blocks

(* With the level at DEBUG_MEM from the start, MALLOC_DUMP() shows every   *)
(* live block once, with its size, and nothing else.                       *)
THEOREM RecordsStayLive == Spec => []RecordsAreLive
<1>1. Init => RecordsInv
  <2> SUFFICES ASSUME Init PROVE RecordsInv
    OBVIOUS
  <2>1. TypeOK
    BY DEF Init, TypeOK
  <2>2. DOMAIN recs = {}
    BY DEF Init
  <2>3. OnePerBlock(recs, live) /\ AllRecorded(recs, live) /\ (~gap => level)
    BY <2>2 DEF Init, OnePerBlock, AllRecorded
  <2> QED BY <2>1, <2>3 DEF RecordsInv
<1>2. RecordsInv /\ TypeOK' /\ [Next]_vars => RecordsInv'
  <2> SUFFICES ASSUME RecordsInv, TypeOK', [Next]_vars, ~gap'
               PROVE  level' /\ OnePerBlock(recs', live') /\ AllRecorded(recs', live')
    BY DEF RecordsInv
  <2>0. ASSUME ~gap
        PROVE  TypeOK /\ level /\ OnePerBlock(recs, live) /\ AllRecorded(recs, live)
    BY <2>0 DEF RecordsInv
  <2>1. ASSUME NEW a \in Addr, NEW s \in Sizes, Allocate(a, s)
        PROVE  level' /\ OnePerBlock(recs', live') /\ AllRecorded(recs', live')
    <3>1. ~gap /\ level' /\ live[a] = NoBlock /\ live' = [live EXCEPT ![a] = s] /\ Added(a, s)
      BY <2>0, <2>1 DEF Allocate
    <3>2. OnePerBlock(recs', live')
      BY <2>0, <3>1, AddedLeavesOnePerBlock
    <3>3. ASSUME NEW b \in Addr, live'[b] # NoBlock PROVE Recorded(recs', b, live'[b])
      BY <2>0, <3>1, <3>3, AddedRecords DEF AllRecorded, TypeOK
    <3> QED BY <3>1, <3>2, <3>3 DEF AllRecorded
  <2>2. ASSUME NEW p \in Addr \cup {NULL}, Free(p)
        PROVE  level' /\ OnePerBlock(recs', live') /\ AllRecorded(recs', live')
    <3>1. CASE p = NULL
      BY <2>0, <2>2, <3>1 DEF Free
    <3>2. CASE p # NULL
      <4>1. p \in Addr /\ ~gap /\ level' /\ live' = [live EXCEPT ![p] = NoBlock] /\ Removed(p)
        BY <2>0, <2>2, <3>2 DEF Free
      <4>2. OnePerBlock(recs', live')
        BY <2>0, <4>1, RemovedLeavesOnePerBlock
      <4>3. ASSUME NEW b \in Addr, live'[b] # NoBlock PROVE Recorded(recs', b, live'[b])
        <5>1. b # p /\ live'[b] = live[b] /\ live[b] \in Sizes
          BY <2>0, <4>1, <4>3 DEF TypeOK
        <5> QED BY <2>0, <4>1, <4>3, <5>1, RemovedKeepsOthers DEF AllRecorded
      <4> QED BY <4>1, <4>2, <4>3 DEF AllRecorded
    <3> QED BY <3>1, <3>2
  <2>3. ASSUME NEW p \in Addr, NEW a \in Addr, NEW s \in Sizes, Resize(p, a, s)
        PROVE  level' /\ OnePerBlock(recs', live') /\ AllRecorded(recs', live')
    <3>1. /\ ~gap /\ level' /\ live[p] # NoBlock /\ (a = p \/ live[a] = NoBlock)
          /\ live' = [[live EXCEPT ![p] = NoBlock] EXCEPT ![a] = s] /\ Changed(p, a, s)
      BY <2>0, <2>3 DEF Resize
    <3>2. Recorded(recs, p, live[p])
      BY <2>0, <3>1 DEF AllRecorded
    <3>3. \E i \in DOMAIN recs : recs[i].ptr = p
      BY <3>2 DEF Recorded
    <3>4. OnePerBlock(recs', live')
      BY <2>0, <3>1, <3>3, ChangedLeavesOnePerBlock
    <3>5. ASSUME NEW b \in Addr, live'[b] # NoBlock PROVE Recorded(recs', b, live'[b])
      <4>1. CASE b = a
        <5>1. live'[b] = s
          BY <2>0, <3>1, <4>1 DEF TypeOK
        <5> QED BY <2>0, <3>1, <3>2, <4>1, <5>1, ChangedRecords
      <4>2. CASE b # a
        <5>1. b # p /\ live'[b] = live[b]
          BY <2>0, <3>1, <3>5, <4>2 DEF TypeOK
        <5> QED BY <2>0, <3>1, <3>5, <5>1, ChangedKeepsOthers DEF AllRecorded
      <4> QED BY <4>1, <4>2
    <3> QED BY <3>1, <3>4, <3>5 DEF AllRecorded
  <2>4. CASE SetLevel
    BY <2>0, <2>4 DEF SetLevel, RecordsInv, TypeOK
  <2>5. CASE UNCHANGED vars
    BY <2>0, <2>5 DEF vars
  <2> QED BY <2>1, <2>2, <2>3, <2>4, <2>5 DEF Next, Malloc, Strdup, Calloc, Realloc
<1>3. RecordsInv => RecordsAreLive
  <2> SUFFICES ASSUME RecordsInv, ~gap, NEW a \in Addr, live[a] # NoBlock
               PROVE  \E i \in DOMAIN recs : recs[i].ptr = a
    BY DEF RecordsInv, RecordsAreLive, OnePerBlock
  <2>1. Recorded(recs, a, live[a])
    BY DEF RecordsInv, AllRecorded
  <2> QED BY <2>1 DEF Recorded
<1> QED BY <1>1, <1>2, <1>3, MemTypeCorrect, PTL DEF Spec
=============================================================================
