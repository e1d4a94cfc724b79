------------------------------ MODULE SpifMem -------------------------------
(***************************************************************************)
(* The memory management of src/src/mem.c: spifmem_malloc() and its        *)
(* siblings, which the MALLOC(), REALLOC(), CALLOC(), STRDUP() and FREE()  *)
(* macros call, and malloc_rec, the record they keep of every block for    *)
(* MALLOC_DUMP() to print the contents of.  They keep it only while the    *)
(* debug level is DEBUG_MEM or above, and the client may change the level  *)
(* at any time.  The C allocator is external: it returns any address that  *)
(* no block holds, reuses the addresses of freed blocks, and may fail,     *)
(* which changes nothing here.                                             *)
(***************************************************************************)
EXTENDS Integers, Sequences, SequencesExt

CONSTANTS
  Addr,      (* addresses the C allocator hands out                        *)
  NULL,      (* the null pointer                                           *)
  SizeMax,   (* values of a size_t: a size is 0..SizeMax-1                 *)
  MaxRecs    (* bound: records                                             *)

ASSUME MemAssumption ==
  /\ NULL \notin Addr
  /\ SizeMax \in Nat \ {0}
  /\ MaxRecs \in Nat

VARIABLES
  level,    (* DEBUG_LEVEL >= DEBUG_MEM                                    *)
  live,     (* address -> bytes of its block, NoBlock when it has none     *)
  recs,     (* malloc_rec.ptrs[0..malloc_rec.cnt-1]                        *)
  gap,      (* history: the level has been below DEBUG_MEM                 *)
  tracked   (* history: live blocks whose every call found the level high  *)

vars == <<level, live, recs, gap, tracked>>

Sizes == 0..(SizeMax - 1)
NoBlock == -1
Rec == [ptr : Addr, size : Sizes]

TypeOK ==
  /\ level \in BOOLEAN /\ gap \in BOOLEAN
  /\ live \in [Addr -> Sizes \cup {NoBlock}]
  /\ recs \in Seq(Rec)
  /\ tracked \subseteq Addr

(* spifmem_init(), before any other call.                                  *)
Init ==
  /\ level \in BOOLEAN /\ gap = ~level
  /\ live = [a \in Addr |-> NoBlock]
  /\ recs = <<>>
  /\ tracked = {}

-----------------------------------------------------------------------------
(* The records.                                                            *)

(* memrec_add_var(); when the list itself cannot grow it writes the record *)
(* through a null pointer, and the process stops: no step follows here.    *)
Added(a, s) == recs' = Append(recs, [ptr |-> a, size |-> s])

(* memrec_find_var() returns the first record of an address, here the      *)
(* i-th, or NULL.                                                          *)
Found(i, a) == recs[i].ptr = a /\ \A j \in 1..(i - 1) : recs[j].ptr # a
NotFound(a) == (\A i \in DOMAIN recs : recs[i].ptr # a) /\ UNCHANGED recs

(* Mutant: the record is dropped at the end instead of closing the gap.    *)
RemovedLast(a) ==
  \/ NotFound(a)
  \/ \E i \in DOMAIN recs : Found(i, a) /\ recs' = Front(recs)

(* memrec_rem_var(): the records above it move down.                       *)
Removed(a) ==
  \/ NotFound(a)
  \/ \E i \in DOMAIN recs : Found(i, a) /\ recs' = RemoveAt(recs, i)

(* Mutant: the record keeps the old size.                                  *)
ChangedAddress(a, b, s) ==
  \/ NotFound(a)
  \/ \E i \in DOMAIN recs : Found(i, a) /\ recs' = [recs EXCEPT ![i].ptr = b]

(* memrec_chg_var()                                                        *)
Changed(a, b, s) ==
  \/ NotFound(a)
  \/ \E i \in DOMAIN recs : Found(i, a) /\ recs' = [recs EXCEPT ![i] = [ptr |-> b, size |-> s]]

-----------------------------------------------------------------------------
(* The calls.                                                              *)

(* A block of s bytes at the address a.                                    *)
Allocate(a, s) ==
  /\ live[a] = NoBlock
  /\ live' = [live EXCEPT ![a] = s]
  /\ IF level THEN Len(recs) < MaxRecs /\ Added(a, s) ELSE UNCHANGED recs
  /\ tracked' = IF level THEN tracked \cup {a} ELSE tracked
  /\ UNCHANGED <<level, gap>>

(* spifmem_malloc()                                                        *)
Malloc(a, s) == Allocate(a, s)

(* spifmem_strdup() of a string of n characters.                           *)
Strdup(a, n) == n + 1 \in Sizes /\ Malloc(a, n + 1)

(* Mutant: the product is not checked for overflow, as malloc(total_size)  *)
(* would not.                                                              *)
CallocUnchecked(a, n, s) == Allocate(a, n * s)

(* spifmem_calloc() of n elements of s bytes: calloc() fails when the      *)
(* product overflows, so total_size, computed beforehand, is exact.        *)
Calloc(a, n, s) == n * s \in Sizes /\ Allocate(a, n * s)

(* spifmem_free(): the record goes before the block.  NULL is reported.    *)
Free(p) ==
  /\ IF p = NULL
       THEN UNCHANGED <<live, recs, tracked>>
       ELSE /\ live[p] # NoBlock
            /\ IF level THEN Removed(p) ELSE UNCHANGED recs
            /\ live' = [live EXCEPT ![p] = NoBlock]
            /\ tracked' = tracked \ {p}
  /\ UNCHANGED <<level, gap>>

(* Mutant: a resize in place leaves the record alone.                      *)
ResizeInPlaceUnrecorded(p, a, s) ==
  /\ live[p] # NoBlock
  /\ a = p \/ live[a] = NoBlock
  /\ live' = [[live EXCEPT ![p] = NoBlock] EXCEPT ![a] = s]
  /\ IF level /\ a # p THEN Changed(p, a, s) ELSE UNCHANGED recs
  /\ tracked' = IF level /\ p \in tracked THEN (tracked \ {p}) \cup {a} ELSE tracked \ {p}
  /\ UNCHANGED <<level, gap>>

(* spifmem_realloc() of the block p to s bytes, in place or moved to a.    *)
Resize(p, a, s) ==
  /\ live[p] # NoBlock
  /\ a = p \/ live[a] = NoBlock
  /\ live' = [[live EXCEPT ![p] = NoBlock] EXCEPT ![a] = s]
  /\ IF level THEN Changed(p, a, s) ELSE UNCHANGED recs
  /\ tracked' = IF level /\ p \in tracked THEN (tracked \ {p}) \cup {a} ELSE tracked \ {p}
  /\ UNCHANGED <<level, gap>>

(* spifmem_realloc(): of NULL it is a malloc, to 0 bytes a free.           *)
Realloc(p, a, s) ==
  \/ p = NULL /\ Malloc(a, s)
  \/ p # NULL /\ s = 0 /\ Free(p)
  \/ p # NULL /\ s # 0 /\ Resize(p, a, s)

(* The client raises or lowers the debug level past DEBUG_MEM.             *)
SetLevel ==
  /\ level' = ~level
  /\ gap' = (gap \/ level)
  /\ UNCHANGED <<live, recs, tracked>>

Next ==
  \/ \E a \in Addr, s \in Sizes : Malloc(a, s)
  \/ \E a \in Addr, n \in Sizes : Strdup(a, n)
  \/ \E a \in Addr, n, s \in Sizes : Calloc(a, n, s)
  \/ \E p \in Addr \cup {NULL}, a \in Addr, s \in Sizes : Realloc(p, a, s)
  \/ \E p \in Addr \cup {NULL} : Free(p)
  \/ SetLevel

Spec == Init /\ [][Next]_vars

-----------------------------------------------------------------------------
(* Properties.                                                             *)

(* A live block whose own calls all found the level at DEBUG_MEM is on     *)
(* record with its size, whatever stale records of other blocks that were  *)
(* freed or moved at a lower level are in the way of memrec_find_var()     *)
(* (mem.c:167-182).                                                        *)
TrackedRecorded ==
  \A a \in tracked : \E i \in DOMAIN recs : recs[i] = [ptr |-> a, size |-> live[a]]

(* While the level has never been lower the records are the live blocks,   *)
(* one each: MALLOC_DUMP(), which reads size bytes at ptr of every record  *)
(* (mem.c:322-345), reads no freed memory and misses no leak.              *)
RecordsAreLive ==
  ~gap =>
    /\ \A i \in DOMAIN recs : live[recs[i].ptr] = recs[i].size
    /\ \A i, j \in DOMAIN recs : recs[i].ptr = recs[j].ptr => i = j
    /\ \A a \in Addr : live[a] # NoBlock => \E i \in DOMAIN recs : recs[i].ptr = a
=============================================================================
