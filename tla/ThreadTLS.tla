------------------------------ MODULE ThreadTLS -----------------------------
(***************************************************************************)
(* Thread-local storage of src/src/pthreads.c: the tls_*() methods of one  *)
(* thread object, called by any thread of the process.  The object keeps a *)
(* list of POSIX keys, an array of array.c; the handle of a storage is the *)
(* place of its key in that list, counted from 0.  The methods take no     *)
(* lock, so clients that share an object are assumed to call one method at *)
(* a time; threads come and go in between.  Keys and their values belong   *)
(* to POSIX and are external, as is the C heap; both reuse what was given  *)
(* back.  What a block holds is left out, and sizes are positive.          *)
(***************************************************************************)
EXTENDS Integers, FiniteSets, Sequences, SequencesExt

CONSTANTS
  Threads,
  Keys,     (* the keys a process may have, PTHREAD_KEYS_MAX of them        *)
  Blocks,   (* bound: addresses of the C heap                              *)
  NULL

ASSUME TLSAssumption == NULL \notin Threads \cup Blocks

VARIABLES
  tls_keys,  (* self->tls_keys; <<>> also before there is a list           *)
  created,   (* keys that exist                                            *)
  value,     (* thread -> key -> pthread_getspecific()                     *)
  owner,     (* block -> the thread that obtained it, NULL when it is free *)
  lost,      (* history: blocks of calls of tls_malloc() that failed       *)
  given,     (* history: the handles clients were given and have not freed *)
  crashed    (* the process was stopped by a NULL pointer                  *)

vars == <<tls_keys, created, value, owner, lost, given, crashed>>

(* What callers pass: any handle they may have been given, or -1.          *)
Handles == -1..Cardinality(Keys)

(* A handle, the storage it was given for, and whether no smaller handle   *)
(* has been freed since.                                                   *)
Grant == [by : Threads, handle : Int, block : Blocks, sure : BOOLEAN]

TypeOK ==
  /\ tls_keys \in Seq(Keys)
  /\ created \subseteq Keys
  /\ value \in [Threads -> [Keys -> Blocks \cup {NULL}]]
  /\ owner \in [Blocks -> Threads \cup {NULL}]
  /\ lost \subseteq Blocks
  /\ given \subseteq Grant
  /\ crashed \in BOOLEAN

(* spif_pthreads_init()                                                    *)
Init ==
  /\ tls_keys = <<>> /\ created = {}
  /\ value = [t \in Threads |-> [k \in Keys |-> NULL]]
  /\ owner = [b \in Blocks |-> NULL]
  /\ lost = {} /\ given = {} /\ crashed = FALSE

-----------------------------------------------------------------------------
(* The list: negative indexes count from its end.                          *)

Place(h) == IF h < 0 THEN Len(tls_keys) + h + 1 ELSE h + 1
Listed(h) == Place(h) \in DOMAIN tls_keys

(* spif_pthreads_tls_get() called by t                                     *)
Stored(t, h) == IF Listed(h) THEN value[t][tls_keys[Place(h)]] ELSE NULL

-----------------------------------------------------------------------------
(* The methods.                                                            *)

Obtain(t, b) == owner[b] = NULL /\ owner' = [owner EXCEPT ![b] = t]

(* Mutant: the handle is the count.                                        *)
StoreCount(t, k, b) ==
  /\ k \in Keys \ created
  /\ created' = created \cup {k}
  /\ value' = [value EXCEPT ![t][k] = b]
  /\ tls_keys' = Append(tls_keys, k)
  /\ given' = given \cup {[by |-> t, handle |-> Len(tls_keys) + 1, block |-> b, sure |-> TRUE]}
  /\ UNCHANGED lost

(* pthread_key_create(), pthread_setspecific(), and the key is listed; the *)
(* handle is the list's new count minus one.                               *)
Store(t, k, b) ==
  /\ k \in Keys \ created
  /\ created' = created \cup {k}
  /\ value' = [value EXCEPT ![t][k] = b]
  /\ tls_keys' = Append(tls_keys, k)
  /\ given' = given \cup {[by |-> t, handle |-> Len(tls_keys), block |-> b, sure |-> TRUE]}
  /\ UNCHANGED lost

(* pthread_key_create() fails and the handle is -1.  Nobody frees b.       *)
NoKey(b) ==
  /\ created = Keys
  /\ lost' = lost \cup {b}
  /\ UNCHANGED <<tls_keys, created, value, given>>

(* spif_pthreads_tls_malloc()                                              *)
Malloc(t) ==
  /\ \E b \in Blocks : Obtain(t, b) /\ (NoKey(b) \/ \E k \in Keys : Store(t, k, b))
  /\ UNCHANGED crashed

(* spif_pthreads_tls_calloc() clears what tls_get() returns for the handle.*)
(* When it is -1 that is the storage of the last key of the list, or NULL. *)
Calloc(t) ==
  \E b \in Blocks :
    /\ Obtain(t, b)
    /\ \/ NoKey(b) /\ crashed' = (Stored(t, -1) = NULL)
       \/ \E k \in Keys : Store(t, k, b) /\ UNCHANGED crashed

(* What is left of the grants when the key at handle i has left the list.  *)
(* tls_free() then inserts a placeholder, NULL, at i, which                *)
(* spif_array_insert_at() refuses, so the keys above i move down by one.   *)
Revoked(i) ==
  {[g EXCEPT !.sure = g.sure /\ g.handle < i] : g \in {f \in given : f.handle # i}}

(* Mutant: the key is deleted, the block is not freed.                     *)
DiscardKey(k, b) ==
  /\ created' = created \ {k}
  /\ value' = [u \in Threads |-> [value[u] EXCEPT ![k] = NULL]]
  /\ UNCHANGED owner

(* pthread_key_delete() and FREE(). A deleted key has no value anywhere.   *)
Discard(k, b) ==
  /\ created' = created \ {k}
  /\ value' = [u \in Threads |-> [value[u] EXCEPT ![k] = NULL]]
  /\ owner' = [owner EXCEPT ![b] = NULL]

(* Mutant: the key stays in the list.                                      *)
StaysListed(i) == UNCHANGED tls_keys

(* Mutant: the array takes the placeholder.                                *)
PlaceholderListed(i) == tls_keys' = [tls_keys EXCEPT ![i] = NULL]

(* The i-th key leaves the list.                                           *)
Unlisted(i) == tls_keys' = RemoveAt(tls_keys, i)

(* spif_pthreads_tls_free(): a caller without a value there takes the key  *)
(* out of the list and no more, which nobody can free but at a thread's    *)
(* exit.  Without such a handle nothing happens.                           *)
Free(t, h) ==
  /\ Listed(h)
  /\ Unlisted(Place(h))
  /\ given' = Revoked(Place(h) - 1)
  /\ IF Stored(t, h) = NULL
       THEN UNCHANGED <<created, value, owner>>
       ELSE Discard(tls_keys[Place(h)], Stored(t, h))
  /\ UNCHANGED <<lost, crashed>>

(* Mutant: the new address is not stored.                                  *)
ReallocUnstored(t, h, c) ==
  LET b == Stored(t, h) IN
  /\ b # NULL /\ (c = b \/ owner[c] = NULL)
  /\ owner' = [[owner EXCEPT ![b] = NULL] EXCEPT ![c] = t]
  /\ given' = {[g EXCEPT !.block = IF g.by = t /\ @ = b THEN c ELSE @] : g \in given}
  /\ UNCHANGED <<tls_keys, created, value, lost, crashed>>

(* spif_pthreads_tls_realloc(), which may move the block to c; the grants  *)
(* of the block follow it.                                                 *)
Realloc(t, h, c) ==
  LET b == Stored(t, h) IN
  /\ b # NULL /\ (c = b \/ owner[c] = NULL)
  /\ owner' = [[owner EXCEPT ![b] = NULL] EXCEPT ![c] = t]
  /\ value' = [value EXCEPT ![t][tls_keys[Place(h)]] = c]
  /\ given' = {[g EXCEPT !.block = IF g.by = t /\ @ = b THEN c ELSE @] : g \in given}
  /\ UNCHANGED <<tls_keys, created, lost, crashed>>

(* The thread t ends: POSIX calls spif_pthreads_tls_destructor() on every  *)
(* value it has.  From here on, t is another thread.                       *)
Exit(t) ==
  /\ value' = [value EXCEPT ![t] = [k \in Keys |-> NULL]]
  /\ owner' = [b \in Blocks |-> IF \E k \in Keys : value[t][k] = b THEN NULL ELSE owner[b]]
  /\ given' = {g \in given : g.by # t}
  /\ UNCHANGED <<tls_keys, created, lost, crashed>>

(* spif_pthreads_done() drops the list and deletes no key.                 *)
Done ==
  /\ tls_keys' = <<>> /\ given' = {}
  /\ UNCHANGED <<created, value, owner, lost, crashed>>

Next ==
  /\ ~crashed
  /\ \/ Done
     \/ \E t \in Threads :
          \/ Malloc(t) \/ Calloc(t) \/ Exit(t)
          \/ \E h \in Handles : Free(t, h) \/ \E c \in Blocks : Realloc(t, h, c)

Spec == Init /\ [][Next]_vars

-----------------------------------------------------------------------------
(* Properties.                                                             *)

(* Every block in use will be freed exactly once, by tls_free() or at its  *)
(* thread's exit: it is the value of one key in the thread that obtained   *)
(* it, whatever keys left the list, except the blocks that tls_malloc()    *)
(* lost when there were no more keys (pthreads.c:390-419).                 *)
HeldOnce ==
  \A b \in Blocks : owner[b] # NULL /\ b \notin lost =>
    \E t \in Threads, k \in Keys :
      \A u \in Threads, l \in Keys : value[u][l] = b <=> u = t /\ l = k

(* Whatever handle a thread uses, one of another thread, a stale one or    *)
(* that of a failure, it gets NULL or a block in use that it obtained      *)
(* itself ("it cannot be retrieved by any other thread",                   *)
(* pthreads.c:411-413).                                                    *)
OnlyOwnStorage ==
  \A t \in Threads, h \in Handles : Stored(t, h) # NULL => owner[Stored(t, h)] = t

(* The listed keys exist and differ, so no method asks POSIX for the value *)
(* of a deleted key, or of one that it has since given to another list     *)
(* place (pthreads.c:365, 384, 439).                                       *)
ListedExist ==
  /\ Range(tls_keys) \subseteq created
  /\ \A i, j \in DOMAIN tls_keys : tls_keys[i] = tls_keys[j] => i = j

Names(g) == Stored(g.by, g.handle) = g.block

(* A handle keeps naming its storage, through resizes, exits of other      *)
(* threads and the freeing of larger handles (pthreads.c:358-359).         *)
SureHandlesName == \A g \in given : g.sure => Names(g)

(* "numeric indexes which have already been given out will remain valid",  *)
(* pthreads.c:358-359.                                                     *)
HandlesStayValid == \A g \in given : Names(g)
=============================================================================
