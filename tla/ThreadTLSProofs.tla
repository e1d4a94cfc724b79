--------------------------- MODULE ThreadTLSProofs --------------------------
(* What holds of thread-local storage for any threads, keys and blocks.    *)
EXTENDS ThreadTLS, DataLemmas, TLAPS

(* The type invariant, one lemma for each method.                          *)

LEMMA StoreTyped ==
  ASSUME TypeOK, NEW t \in Threads, NEW b \in Blocks, NEW k \in Keys,
         Obtain(t, b), Store(t, k, b), crashed' \in BOOLEAN
  PROVE  TypeOK'
<1>1. [by |-> t, handle |-> Len(tls_keys), block |-> b, sure |-> TRUE] \in Grant
  BY DEF Grant, TypeOK
<1>2. given' \subseteq Grant
  BY <1>1 DEF Store, TypeOK
<1>3. value' \in [Threads -> [Keys -> Blocks \cup {NULL}]]
  BY DEF Store, TypeOK
<1>4. tls_keys' \in Seq(Keys)
  BY DEF Store, TypeOK
<1> QED BY <1>2, <1>3, <1>4 DEF Store, Obtain, TypeOK

LEMMA NoKeyTyped ==
  ASSUME TypeOK, NEW t \in Threads, NEW b \in Blocks,
         Obtain(t, b), NoKey(b), crashed' \in BOOLEAN
  PROVE  TypeOK'
BY DEF NoKey, Obtain, TypeOK

LEMMA RevokedTyped ==
  ASSUME TypeOK, NEW i \in Int
  PROVE  Revoked(i) \subseteq Grant
<1>1. ASSUME NEW g \in Grant PROVE [g EXCEPT !.sure = g.sure /\ g.handle < i] \in Grant
  BY DEF Grant
<1> QED BY <1>1 DEF Revoked, TypeOK

LEMMA FreeTyped ==
  ASSUME TypeOK, NEW t \in Threads, NEW h \in Int, Free(t, h)
  PROVE  TypeOK'
<1>1. Place(h) \in 1..Len(tls_keys) /\ tls_keys[Place(h)] \in Keys
  BY DEF Free, Listed, Place, TypeOK
<1>2. tls_keys' \in Seq(Keys)
  BY <1>1, RemoveAtElements DEF Free, Unlisted, TypeOK
<1>3. given' \subseteq Grant
  <2>1. Place(h) - 1 \in Int
    BY <1>1
  <2> QED BY <2>1, RevokedTyped DEF Free
<1>4. /\ created' \subseteq Keys
      /\ value' \in [Threads -> [Keys -> Blocks \cup {NULL}]]
      /\ owner' \in [Blocks -> Threads \cup {NULL}]
  <2>1. /\ created \subseteq Keys /\ value \in [Threads -> [Keys -> Blocks \cup {NULL}]]
        /\ owner \in [Blocks -> Threads \cup {NULL}]
    BY DEF TypeOK
  <2>2. CASE UNCHANGED <<created, value, owner>>
    BY <2>1, <2>2
  <2>3. CASE Discard(tls_keys[Place(h)], Stored(t, h))
    <3> DEFINE k == tls_keys[Place(h)]
               b == Stored(t, h)
    <3>1. Discard(k, b)
      BY <2>3
    <3> HIDE DEF k, b
    <3> QED BY <2>1, <3>1 DEF Discard
  <2> QED BY <2>2, <2>3 DEF Free
<1> QED BY <1>2, <1>3, <1>4 DEF Free, TypeOK

LEMMA ReallocTyped ==
  ASSUME TypeOK, NEW t \in Threads, NEW h \in Int, NEW c \in Blocks, Realloc(t, h, c)
  PROVE  TypeOK'
<1>1. value' \in [Threads -> [Keys -> Blocks \cup {NULL}]]
  BY DEF Realloc, TypeOK
<1>2. owner' \in [Blocks -> Threads \cup {NULL}]
  BY DEF Realloc, TypeOK
<1>3. given' \subseteq Grant
  <2> DEFINE b == Stored(t, h)
             moved(g) == [g EXCEPT !.block = IF g.by = t /\ @ = b THEN c ELSE @]
  <2>1. ASSUME NEW g \in Grant PROVE moved(g) \in Grant
    BY DEF Grant
  <2>2. given' = {moved(g) : g \in given}
    BY DEF Realloc
  <2> HIDE DEF moved
  <2> QED BY <2>1, <2>2 DEF TypeOK
<1> QED BY <1>1, <1>2, <1>3 DEF Realloc, TypeOK

LEMMA ExitTyped ==
  ASSUME TypeOK, NEW t \in Threads, Exit(t)
  PROVE  TypeOK'
BY DEF Exit, TypeOK

(* Whatever the threads call, with whatever handles.                       *)
THEOREM TLSTypeCorrect == Spec => []TypeOK
<1>1. Init => TypeOK
  <2>1. <<>> \in Seq(Keys)
    OBVIOUS
  <2>2. [b \in Blocks |-> NULL] \in [Blocks -> Threads \cup {NULL}]
    OBVIOUS
  <2>3. [t \in Threads |-> [k \in Keys |-> NULL]] \in [Threads -> [Keys -> Blocks \cup {NULL}]]
    OBVIOUS
  <2> QED BY <2>1, <2>2, <2>3 DEF Init, TypeOK
<1>2. TypeOK /\ [Next]_vars => TypeOK'
  <2> SUFFICES ASSUME TypeOK, [Next]_vars PROVE TypeOK'
    OBVIOUS
  <2>1. ASSUME NEW t \in Threads, Malloc(t) PROVE TypeOK'
    BY <2>1, StoreTyped, NoKeyTyped DEF Malloc, TypeOK
  <2>2. ASSUME NEW t \in Threads, Calloc(t) PROVE TypeOK'
    BY <2>2, StoreTyped, NoKeyTyped DEF Calloc, TypeOK
  <2>3. ASSUME NEW t \in Threads, Exit(t) PROVE TypeOK'
    BY <2>3, ExitTyped
  <2>4. ASSUME NEW t \in Threads, NEW h \in Int, Free(t, h) PROVE TypeOK'
    BY <2>4, FreeTyped
  <2>5. ASSUME NEW t \in Threads, NEW h \in Int, NEW c \in Blocks, Realloc(t, h, c) PROVE TypeOK'
    BY <2>5, ReallocTyped
  <2>6. CASE Done
    BY <2>6 DEF Done, TypeOK
  <2>7. CASE UNCHANGED vars
    BY <2>7 DEF vars, TypeOK
  <2> QED BY <2>1, <2>2, <2>3, <2>4, <2>5, <2>6, <2>7 DEF Next, Handles
<1> QED BY <1>1, <1>2, PTL DEF Spec

-----------------------------------------------------------------------------
(* Values, and who holds which block.                                      *)

(* A value belongs to a key that exists and to the thread that obtained it.*)
OwnValues ==
  \A t \in Threads, k \in Keys :
    value[t][k] # NULL => k \in created /\ owner[value[t][k]] = t

(* Only the thread that created a key ever has a value for it, or deleting *)
(* the key would strand the others'.                                       *)
OneHolder ==
  \A t, u \in Threads, k \in Keys : value[t][k] # NULL /\ value[u][k] # NULL => t = u

OneKey ==
  \A t \in Threads, k, l \in Keys : value[t][k] # NULL /\ value[t][k] = value[t][l] => k = l

Held ==
  \A b \in Blocks :
    owner[b] # NULL /\ b \notin lost => \E t \in Threads, k \in Keys : value[t][k] = b

ValuesInv == TypeOK /\ OwnValues /\ OneHolder /\ OneKey /\ Held

LEMMA StoreHeld ==
  ASSUME ValuesInv, NEW t \in Threads, NEW b \in Blocks, NEW k \in Keys,
         Obtain(t, b), Store(t, k, b)
  PROVE  OwnValues' /\ OneHolder' /\ OneKey' /\ Held'
<1>1. \A u \in Threads, l \in Keys :
        value'[u][l] = IF u = t /\ l = k THEN b ELSE value[u][l]
  BY DEF Store, ValuesInv, TypeOK
<1>2. \A c \in Blocks : owner'[c] = IF c = b THEN t ELSE owner[c]
  BY DEF Obtain, ValuesInv, TypeOK
<1>3. \A u \in Threads, l \in Keys : value[u][l] \in Blocks \cup {NULL} /\ value[u][l] # b
  BY TLSAssumption DEF Obtain, ValuesInv, OwnValues, TypeOK
<1>4. \A u \in Threads : value[u][k] = NULL
  BY DEF Store, ValuesInv, OwnValues
<1>5. OwnValues'
  BY <1>1, <1>2, <1>3 DEF Store, ValuesInv, OwnValues
<1>6. OneHolder'
  BY <1>1, <1>4 DEF ValuesInv, OneHolder
<1>7. OneKey'
  BY <1>1, <1>3 DEF ValuesInv, OneKey
<1>8. Held'
  <2> SUFFICES ASSUME NEW c \in Blocks, owner'[c] # NULL, c \notin lost'
               PROVE  \E u \in Threads, l \in Keys : value'[u][l] = c
    BY DEF Held
  <2>1. CASE c = b
    BY <1>1, <2>1
  <2>2. CASE c # b
    <3>1. PICK u \in Threads, l \in Keys : value[u][l] = c
      BY <1>2, <2>2 DEF Store, ValuesInv, Held
    <3>2. ~(u = t /\ l = k)
      BY <1>4, <3>1, TLSAssumption
    <3> QED BY <1>1, <3>1, <3>2
  <2> QED BY <2>1, <2>2
<1> QED BY <1>5, <1>6, <1>7, <1>8

LEMMA NoKeyHeld ==
  ASSUME ValuesInv, NEW t \in Threads, NEW b \in Blocks, Obtain(t, b), NoKey(b)
  PROVE  OwnValues' /\ OneHolder' /\ OneKey' /\ Held'
<1>1. \A c \in Blocks : owner'[c] = IF c = b THEN t ELSE owner[c]
  BY DEF Obtain, ValuesInv, TypeOK
<1>2. \A u \in Threads, l \in Keys : value[u][l] \in Blocks \cup {NULL} /\ value[u][l] # b
  BY TLSAssumption DEF Obtain, ValuesInv, OwnValues, TypeOK
<1>3. OwnValues'
  BY <1>1, <1>2 DEF NoKey, ValuesInv, OwnValues
<1>4. OneHolder' /\ OneKey'
  BY DEF NoKey, ValuesInv, OneHolder, OneKey
<1>5. Held'
  BY <1>1 DEF NoKey, ValuesInv, Held
<1> QED BY <1>3, <1>4, <1>5

LEMMA DiscardHeld ==
  ASSUME ValuesInv, NEW t \in Threads, NEW k \in Keys,
         value[t][k] # NULL, Discard(k, value[t][k]), UNCHANGED lost
  PROVE  OwnValues' /\ OneHolder' /\ OneKey' /\ Held'
<1> DEFINE b == value[t][k]
<1>1. b \in Blocks
  BY DEF ValuesInv, TypeOK
<1>2. \A u \in Threads, l \in Keys : value'[u][l] = IF l = k THEN NULL ELSE value[u][l]
  BY DEF Discard, ValuesInv, TypeOK
<1>3. \A c \in Blocks : owner'[c] = IF c = b THEN NULL ELSE owner[c]
  BY DEF Discard, ValuesInv, TypeOK
<1>4. \A u \in Threads, l \in Keys : value[u][l] \in Blocks \cup {NULL}
  BY DEF ValuesInv, TypeOK
<1>5. \A u \in Threads, l \in Keys : value[u][l] = b => u = t /\ l = k
  BY <1>1 DEF ValuesInv, OwnValues, OneKey
<1> HIDE DEF b
<1>6. OwnValues'
  BY <1>2, <1>3, <1>4, <1>5 DEF Discard, ValuesInv, OwnValues
<1>7. OneHolder' /\ OneKey'
  BY <1>2 DEF ValuesInv, OneHolder, OneKey
<1>8. Held'
  <2> SUFFICES ASSUME NEW c \in Blocks, owner'[c] # NULL, c \notin lost'
               PROVE  \E u \in Threads, l \in Keys : value'[u][l] = c
    BY DEF Held
  <2>1. c # b /\ owner[c] # NULL
    BY <1>3
  <2>2. PICK u \in Threads, l \in Keys : value[u][l] = c
    BY <2>1 DEF ValuesInv, Held
  <2>3. value[t][k] = b
    BY DEF b
  <2>4. CASE l = k
    <3>1. u = t
      BY <2>2, <2>4, TLSAssumption DEF ValuesInv, OneHolder
    <3> QED BY <2>1, <2>2, <2>3, <2>4, <3>1
  <2>5. CASE l # k
    BY <1>2, <2>2, <2>5
  <2> QED BY <2>4, <2>5
<1> QED BY <1>6, <1>7, <1>8

LEMMA ReallocHeld ==
  ASSUME ValuesInv, NEW t \in Threads, NEW h \in Int, NEW c \in Blocks, Realloc(t, h, c)
  PROVE  OwnValues' /\ OneHolder' /\ OneKey' /\ Held'
<1> DEFINE k == tls_keys[Place(h)]
           b == value[t][k]
<1>1. Place(h) \in 1..Len(tls_keys) /\ k \in Keys /\ Stored(t, h) = b
  BY DEF Realloc, Stored, Listed, Place, ValuesInv, TypeOK
<1>2. b \in Blocks /\ b # NULL /\ (c = b \/ owner[c] = NULL) /\ c # NULL
  BY <1>1, TLSAssumption DEF Realloc, ValuesInv, TypeOK
<1>3. \A u \in Threads, l \in Keys :
        value'[u][l] = IF u = t /\ l = k THEN c ELSE value[u][l]
  BY <1>1 DEF Realloc, ValuesInv, TypeOK
<1>4. \A d \in Blocks : owner'[d] = IF d = c THEN t ELSE IF d = b THEN NULL ELSE owner[d]
  BY <1>1, <1>2 DEF Realloc, ValuesInv, TypeOK
<1>5. value[t][k] = b
  OBVIOUS
<1> HIDE DEF k, b
<1>6. \A u \in Threads, l \in Keys : value[u][l] \in Blocks \cup {NULL}
  BY DEF ValuesInv, TypeOK
<1>7. \A u \in Threads, l \in Keys : value[u][l] \in {b, c} => u = t /\ l = k
  <2> SUFFICES ASSUME NEW u \in Threads, NEW l \in Keys, value[u][l] \in {b, c}
               PROVE  u = t /\ l = k
    OBVIOUS
  <2>1. value[u][l] # NULL /\ owner[value[u][l]] = u
    BY <1>2 DEF ValuesInv, OwnValues
  <2>2. value[u][l] = b
    BY <1>2, <2>1, TLSAssumption
  <2>3. owner[b] = t
    BY <1>1, <1>2, <1>5 DEF ValuesInv, OwnValues
  <2> QED BY <1>1, <1>5, <2>1, <2>2, <2>3 DEF ValuesInv, OneKey
<1>8. created' = created /\ lost' = lost
  BY DEF Realloc
<1>9. k \in created
  BY <1>1, <1>2, <1>5 DEF ValuesInv, OwnValues
<1>10. OwnValues'
  <2> SUFFICES ASSUME NEW u \in Threads, NEW l \in Keys, value'[u][l] # NULL
               PROVE  l \in created' /\ owner'[value'[u][l]] = u
    BY DEF OwnValues
  <2>1. CASE u = t /\ l = k
    BY <1>3, <1>4, <1>8, <1>9, <2>1
  <2>2. CASE ~(u = t /\ l = k)
    <3>1. value'[u][l] = value[u][l] /\ value[u][l] \in Blocks \ {b, c}
      BY <1>3, <1>6, <1>7, <2>2
    <3> QED BY <1>4, <1>8, <3>1 DEF ValuesInv, OwnValues
  <2> QED BY <2>1, <2>2
<1>11. OneHolder'
  <2>1. \A u \in Threads, l \in Keys : value'[u][l] # NULL <=> value[u][l] # NULL
    BY <1>2, <1>3, <1>5
  <2> QED BY <2>1 DEF ValuesInv, OneHolder
<1>12. OneKey'
  <2> SUFFICES ASSUME NEW u \in Threads, NEW l \in Keys, NEW m \in Keys,
                      value'[u][l] # NULL, value'[u][l] = value'[u][m]
               PROVE  l = m
    BY DEF OneKey
  <2>1. CASE u = t /\ (l = k \/ m = k)
    BY <1>3, <1>7, <2>1
  <2>2. CASE ~(u = t /\ (l = k \/ m = k))
    <3>1. value'[u][l] = value[u][l] /\ value'[u][m] = value[u][m]
      BY <1>3, <2>2
    <3> QED BY <3>1 DEF ValuesInv, OneKey
  <2> QED BY <2>1, <2>2
<1>13. Held'
  <2> SUFFICES ASSUME NEW d \in Blocks, owner'[d] # NULL, d \notin lost'
               PROVE  \E u \in Threads, l \in Keys : value'[u][l] = d
    BY DEF Held
  <2>1. CASE d = c
    BY <1>1, <1>3, <2>1
  <2>2. CASE d # c
    <3>1. d # b /\ owner[d] # NULL
      BY <1>4, <2>2
    <3>2. PICK u \in Threads, l \in Keys : value[u][l] = d
      BY <1>8, <3>1 DEF ValuesInv, Held
    <3> QED BY <1>3, <1>5, <3>1, <3>2
  <2> QED BY <2>1, <2>2
<1> QED BY <1>10, <1>11, <1>12, <1>13

LEMMA ExitHeld ==
  ASSUME ValuesInv, NEW t \in Threads, Exit(t)
  PROVE  OwnValues' /\ OneHolder' /\ OneKey' /\ Held'
<1>1. \A u \in Threads, l \in Keys : value'[u][l] = IF u = t THEN NULL ELSE value[u][l]
  BY DEF Exit, ValuesInv, TypeOK
<1>2. \A b \in Blocks :
        owner'[b] = IF \E k \in Keys : value[t][k] = b THEN NULL ELSE owner[b]
  BY DEF Exit, ValuesInv, TypeOK
<1>3. \A u \in Threads, l \in Keys : value[u][l] \in Blocks \cup {NULL}
  BY DEF ValuesInv, TypeOK
<1>4. created' = created /\ lost' = lost
  BY DEF Exit
<1>5. OwnValues'
  <2> SUFFICES ASSUME NEW u \in Threads, NEW l \in Keys, value'[u][l] # NULL
               PROVE  l \in created' /\ owner'[value'[u][l]] = u
    BY DEF OwnValues
  <2>1. u # t /\ value'[u][l] = value[u][l] /\ value[u][l] \in Blocks
    BY <1>1, <1>3
  <2>2. owner[value[u][l]] = u /\ l \in created
    BY <2>1 DEF ValuesInv, OwnValues
  <2>3. \A k \in Keys : value[t][k] # value[u][l]
    BY <2>1, <2>2 DEF ValuesInv, OwnValues
  <2> QED BY <1>2, <1>4, <2>1, <2>2, <2>3
<1>6. OneHolder' /\ OneKey'
  BY <1>1 DEF ValuesInv, OneHolder, OneKey
<1>7. Held'
  BY <1>1, <1>2, <1>4 DEF ValuesInv, Held
<1> QED BY <1>5, <1>6, <1>7

LEMMA FreeHeld ==
  ASSUME ValuesInv, NEW t \in Threads, NEW h \in Int, Free(t, h)
  PROVE  OwnValues' /\ OneHolder' /\ OneKey' /\ Held'
<1> DEFINE k == tls_keys[Place(h)]
<1>1. k \in Keys /\ Stored(t, h) = value[t][k]
  BY DEF Free, Stored, Listed, Place, ValuesInv, TypeOK
<1>2. CASE value[t][k] = NULL
  BY <1>1, <1>2 DEF Free, ValuesInv, OwnValues, OneHolder, OneKey, Held
<1>3. CASE value[t][k] # NULL
  <2>1. Discard(k, value[t][k]) /\ UNCHANGED lost
    BY <1>1, <1>3 DEF Free
  <2> HIDE DEF k
  <2> QED BY <1>1, <1>3, <2>1, DiscardHeld
<1> QED BY <1>2, <1>3

LEMMA ValuesInductive == Spec => []ValuesInv
<1>1. Init => ValuesInv
  <2>1. <<>> \in Seq(Keys)
    OBVIOUS
  <2>2. Init => TypeOK
    BY <2>1 DEF Init, TypeOK
  <2> QED BY <2>2 DEF Init, ValuesInv, OwnValues, OneHolder, OneKey, Held
<1>2. ValuesInv /\ TypeOK' /\ [Next]_vars => ValuesInv'
  <2> SUFFICES ASSUME ValuesInv, [Next]_vars
               PROVE  OwnValues' /\ OneHolder' /\ OneKey' /\ Held'
    BY DEF ValuesInv
  <2>1. ASSUME NEW t \in Threads, Malloc(t) \/ Calloc(t)
        PROVE  OwnValues' /\ OneHolder' /\ OneKey' /\ Held'
    BY <2>1, StoreHeld, NoKeyHeld DEF Malloc, Calloc
  <2>2. ASSUME NEW t \in Threads, Exit(t)
        PROVE  OwnValues' /\ OneHolder' /\ OneKey' /\ Held'
    BY <2>2, ExitHeld
  <2>3. ASSUME NEW t \in Threads, NEW h \in Int, Free(t, h)
        PROVE  OwnValues' /\ OneHolder' /\ OneKey' /\ Held'
    BY <2>3, FreeHeld
  <2>4. ASSUME NEW t \in Threads, NEW h \in Int, NEW c \in Blocks, Realloc(t, h, c)
        PROVE  OwnValues' /\ OneHolder' /\ OneKey' /\ Held'
    BY <2>4, ReallocHeld
  <2>5. CASE Done \/ UNCHANGED vars
    BY <2>5 DEF Done, vars, ValuesInv, OwnValues, OneHolder, OneKey, Held
  <2> QED BY <2>1, <2>2, <2>3, <2>4, <2>5 DEF Next, Handles
<1> QED BY <1>1, <1>2, TLSTypeCorrect, PTL DEF Spec

(* A thread that reads or resizes by any handle only ever reaches a block  *)
(* in use that it obtained itself.                                         *)
THEOREM StorageStaysOwn == Spec => []OnlyOwnStorage
<1>1. ValuesInv => OnlyOwnStorage
  <2> SUFFICES ASSUME ValuesInv, NEW t \in Threads, NEW h \in Handles, Stored(t, h) # NULL
               PROVE  owner[Stored(t, h)] = t
    BY DEF OnlyOwnStorage
  <2>1. Place(h) \in DOMAIN tls_keys /\ Stored(t, h) = value[t][tls_keys[Place(h)]]
    BY DEF Stored, Listed
  <2>2. tls_keys[Place(h)] \in Keys
    BY <2>1 DEF ValuesInv, TypeOK
  <2> QED BY <2>1, <2>2 DEF ValuesInv, OwnValues
<1> QED BY <1>1, ValuesInductive, PTL

(* No block is lost, or freed twice, but those of failed allocations.      *)
THEOREM BlocksStayHeld == Spec => []HeldOnce
<1>1. ValuesInv => HeldOnce
  <2> SUFFICES ASSUME ValuesInv, NEW b \in Blocks, owner[b] # NULL, b \notin lost
               PROVE  \E t \in Threads, k \in Keys :
                        \A u \in Threads, l \in Keys : value[u][l] = b <=> u = t /\ l = k
    BY DEF HeldOnce
  <2>1. PICK t \in Threads, k \in Keys : value[t][k] = b
    BY DEF ValuesInv, Held
  <2>2. ASSUME NEW u \in Threads, NEW l \in Keys, value[u][l] = b
        PROVE  u = t /\ l = k
    <3>1. b # NULL
      BY TLSAssumption
    <3>2. owner[b] = u /\ owner[b] = t
      BY <2>1, <2>2, <3>1 DEF ValuesInv, OwnValues
    <3>3. u = t
      BY <3>2
    <3> QED BY <2>1, <2>2, <3>1, <3>3 DEF ValuesInv, OneKey
  <2>3. \A u \in Threads, l \in Keys : value[u][l] = b <=> u = t /\ l = k
    BY <2>1, <2>2
  <2> QED BY <2>3
<1> QED BY <1>1, ValuesInductive, PTL

-----------------------------------------------------------------------------
(* The list of keys.                                                       *)

LEMMA StoreListed ==
  ASSUME TypeOK, ListedExist, NEW t \in Threads, NEW b \in Blocks, NEW k \in Keys, Store(t, k, b)
  PROVE  ListedExist'
<1> DEFINE n == Len(tls_keys)
<1>1. n \in Nat /\ DOMAIN tls_keys = 1..n
  BY DEF TypeOK
<1>2. tls_keys' = [i \in 1..(n + 1) |-> IF i <= n THEN tls_keys[i] ELSE k]
  BY AppendElements DEF Store, TypeOK
<1> HIDE DEF n
<1>3. \A i \in 1..n : tls_keys[i] \in created /\ tls_keys[i] # k
  BY <1>1 DEF ListedExist, Range, Store
<1>4. \A i \in 1..(n + 1) : i <= n \/ i = n + 1
  BY <1>1
<1>5. Range(tls_keys') \subseteq created'
  BY <1>1, <1>2, <1>3 DEF Range, Store
<1>6. ASSUME NEW i \in 1..(n + 1), NEW j \in 1..(n + 1), tls_keys'[i] = tls_keys'[j]
      PROVE  i = j
  <2>1. CASE i <= n /\ j <= n
    <3>1. i \in 1..n /\ j \in 1..n
      BY <1>1, <2>1
    <3>2. tls_keys[i] = tls_keys[j]
      BY <1>2, <1>6, <2>1
    <3> QED BY <1>1, <3>1, <3>2 DEF ListedExist
  <2>2. CASE i <= n /\ ~(j <= n)
    BY <1>1, <1>2, <1>3, <1>6, <2>2
  <2>3. CASE ~(i <= n) /\ j <= n
    BY <1>1, <1>2, <1>3, <1>6, <2>3
  <2>4. CASE ~(i <= n) /\ ~(j <= n)
    BY <1>4, <2>4
  <2> QED BY <2>1, <2>2, <2>3, <2>4
<1> QED BY <1>2, <1>5, <1>6 DEF ListedExist

LEMMA FreeListedExist ==
  ASSUME TypeOK, ListedExist, NEW t \in Threads, NEW h \in Int, Free(t, h)
  PROVE  ListedExist'
<1> DEFINE n == Len(tls_keys)
           p == Place(h)
<1>1. n \in Nat /\ DOMAIN tls_keys = 1..n /\ p \in 1..n
  BY DEF Free, Listed, TypeOK
<1>2. /\ Len(tls_keys') = n - 1 /\ DOMAIN tls_keys' = 1..(n - 1)
      /\ \A j \in 1..(n - 1) : tls_keys'[j] = IF j < p THEN tls_keys[j] ELSE tls_keys[j + 1]
  <2>1. tls_keys \in Seq(Keys) /\ p \in 1..Len(tls_keys)
    BY <1>1 DEF TypeOK
  <2>2. tls_keys' = RemoveAt(tls_keys, p)
    BY DEF Free, Unlisted
  <2> HIDE DEF p
  <2>3. /\ RemoveAt(tls_keys, p) \in Seq(Keys)
        /\ Len(RemoveAt(tls_keys, p)) = Len(tls_keys) - 1
        /\ \A j \in 1..(Len(tls_keys) - 1) :
             RemoveAt(tls_keys, p)[j] = IF j < p THEN tls_keys[j] ELSE tls_keys[j + 1]
    BY <2>1, RemoveAtElements
  <2>4. tls_keys' \in Seq(Keys) /\ Len(tls_keys') = n - 1
    BY <2>2, <2>3
  <2>5. DOMAIN tls_keys' = 1..(n - 1)
    BY <2>4
  <2> QED BY <2>2, <2>3, <2>4, <2>5
<1>3. created \ {tls_keys[p]} \subseteq created'
  BY DEF Free, Discard
<1> HIDE DEF n, p
<1>4. ASSUME NEW j \in 1..(n - 1)
      PROVE  \E i \in (1..n) \ {p} : tls_keys'[j] = tls_keys[i] /\ i = IF j < p THEN j ELSE j + 1
  <2>1. CASE j < p
    BY <1>1, <1>2, <2>1
  <2>2. CASE ~(j < p)
    <3>1. j + 1 \in (1..n) \ {p}
      BY <1>1, <2>2
    <3> QED BY <1>2, <2>2, <3>1
  <2> QED BY <2>1, <2>2
<1>5. \A i \in (1..n) \ {p} : tls_keys[i] \in created'
  <2>1. \A i \in 1..n : tls_keys[i] \in created
    BY <1>1 DEF ListedExist, Range
  <2>2. \A i \in (1..n) \ {p} : tls_keys[i] # tls_keys[p]
    BY <1>1 DEF ListedExist
  <2> QED BY <1>3, <2>1, <2>2
<1>6. Range(tls_keys') \subseteq created'
  BY <1>2, <1>4, <1>5 DEF Range
<1>7. ASSUME NEW i \in 1..(n - 1), NEW j \in 1..(n - 1), tls_keys'[i] = tls_keys'[j]
      PROVE  i = j
  <2>1. PICK a \in (1..n) \ {p} : tls_keys'[i] = tls_keys[a] /\ a = IF i < p THEN i ELSE i + 1
    BY <1>4
  <2>2. PICK b \in (1..n) \ {p} : tls_keys'[j] = tls_keys[b] /\ b = IF j < p THEN j ELSE j + 1
    BY <1>4
  <2>3. a = b
    BY <1>1, <1>7, <2>1, <2>2 DEF ListedExist
  <2> QED BY <1>1, <2>1, <2>2, <2>3
<1> QED BY <1>2, <1>6, <1>7 DEF ListedExist

(* No method ever passes a deleted key to POSIX.                           *)
THEOREM ListedStayExisting == Spec => []ListedExist
<1>1. Init => ListedExist
  BY DEF Init, ListedExist, Range
<1>2. TypeOK /\ ListedExist /\ [Next]_vars => ListedExist'
  <2> SUFFICES ASSUME TypeOK, ListedExist, [Next]_vars PROVE ListedExist'
    OBVIOUS
  <2>1. ASSUME NEW t \in Threads, Malloc(t) \/ Calloc(t) PROVE ListedExist'
    <3>1. ASSUME NEW b \in Blocks, NoKey(b) PROVE ListedExist'
      BY <3>1 DEF NoKey, ListedExist, Range
    <3> QED BY <2>1, <3>1, StoreListed DEF Malloc, Calloc
  <2>2. ASSUME NEW t \in Threads, NEW h \in Int, Free(t, h) PROVE ListedExist'
    BY <2>2, FreeListedExist
  <2>3. ASSUME NEW t \in Threads, NEW h \in Int, NEW c \in Blocks, Realloc(t, h, c)
        PROVE  ListedExist'
    BY <2>3 DEF Realloc, ListedExist, Range
  <2>4. ASSUME NEW t \in Threads, Exit(t) PROVE ListedExist'
    BY <2>4 DEF Exit, ListedExist, Range
  <2>5. CASE Done
    BY <2>5 DEF Done, ListedExist, Range
  <2>6. CASE UNCHANGED vars
    BY <2>6 DEF vars, ListedExist, Range
  <2> QED BY <2>1, <2>2, <2>3, <2>4, <2>5, <2>6 DEF Next, Handles
<1> QED BY <1>1, <1>2, TLSTypeCorrect, PTL DEF Spec

-----------------------------------------------------------------------------
(* Handles.                                                                *)

(* A handle below which none was freed is the place of the key of its      *)
(* storage.                                                                *)
SureInv ==
  \A g \in given : g.sure =>
    /\ g.handle + 1 \in DOMAIN tls_keys /\ g.handle >= 0
    /\ value[g.by][tls_keys[g.handle + 1]] = g.block

LEMMA SureNames == ASSUME TypeOK, SureInv PROVE SureHandlesName
<1> SUFFICES ASSUME NEW g \in given, g.sure PROVE Names(g)
  BY DEF SureHandlesName
<1>1. g.handle \in Int
  BY DEF TypeOK, Grant
<1>2. Place(g.handle) = g.handle + 1
  BY <1>1 DEF SureInv, Place
<1> QED BY <1>2 DEF SureInv, Names, Stored, Listed

LEMMA StoreSure ==
  ASSUME ValuesInv, SureInv, NEW t \in Threads, NEW b \in Blocks, NEW k \in Keys,
         Obtain(t, b), Store(t, k, b)
  PROVE  SureInv'
<1> DEFINE n == Len(tls_keys)
           new == [by |-> t, handle |-> n, block |-> b, sure |-> TRUE]
<1>1. n \in Nat /\ DOMAIN tls_keys = 1..n
  BY DEF ValuesInv, TypeOK
<1>2. tls_keys' = [i \in 1..(n + 1) |-> IF i <= n THEN tls_keys[i] ELSE k]
  BY AppendElements DEF Store, ValuesInv, TypeOK
<1>3. \A u \in Threads, l \in Keys :
        value'[u][l] = IF u = t /\ l = k THEN b ELSE value[u][l]
  BY DEF Store, ValuesInv, TypeOK
<1>4. \A u \in Threads : value[u][k] = NULL
  BY DEF Store, ValuesInv, OwnValues
<1>5. given' = given \cup {new}
  BY DEF Store
<1>6. new.by = t /\ new.handle = n /\ new.block = b
  OBVIOUS
<1> HIDE DEF n, new
<1> SUFFICES ASSUME NEW g \in given', g.sure
             PROVE  /\ g.handle + 1 \in DOMAIN tls_keys' /\ g.handle >= 0
                    /\ value'[g.by][tls_keys'[g.handle + 1]] = g.block
  BY DEF SureInv
<1>7. CASE g = new
  BY <1>1, <1>2, <1>3, <1>6, <1>7
<1>8. CASE g \in given
  <2>1. g.handle + 1 \in 1..n /\ g.handle >= 0 /\ g.by \in Threads /\ g.block # NULL
    BY <1>1, <1>8, TLSAssumption DEF SureInv, ValuesInv, TypeOK, Grant
  <2>2. /\ tls_keys[g.handle + 1] \in Keys
        /\ value[g.by][tls_keys[g.handle + 1]] = g.block
    BY <1>1, <1>8, <2>1 DEF SureInv, ValuesInv, TypeOK
  <2>3. tls_keys'[g.handle + 1] = tls_keys[g.handle + 1] /\ g.handle + 1 \in DOMAIN tls_keys'
    BY <1>1, <1>2, <2>1
  <2> QED BY <1>3, <1>4, <2>1, <2>2, <2>3
<1> QED BY <1>5, <1>7, <1>8

LEMMA FreeSure ==
  ASSUME ValuesInv, ListedExist, SureInv, NEW t \in Threads, NEW h \in Int, Free(t, h)
  PROVE  SureInv'
<1> DEFINE n == Len(tls_keys)
           p == Place(h)
<1>1. n \in Nat /\ DOMAIN tls_keys = 1..n /\ p \in 1..n /\ tls_keys \in Seq(Keys)
  BY DEF Free, Listed, ValuesInv, TypeOK
<1>2. tls_keys' = RemoveAt(tls_keys, p)
  BY DEF Free, Unlisted
<1>3. given' = Revoked(p - 1)
  BY DEF Free
<1>4. \A u \in Threads, l \in Keys \ {tls_keys[p]} : value'[u][l] = value[u][l]
  BY <1>1 DEF Free, Discard, ValuesInv, TypeOK
<1>5. n = Len(tls_keys)
  OBVIOUS
<1> HIDE DEF n, p
<1>6. /\ DOMAIN tls_keys' = 1..(n - 1)
      /\ \A j \in 1..(n - 1) : tls_keys'[j] = IF j < p THEN tls_keys[j] ELSE tls_keys[j + 1]
  <2>1. RemoveAt(tls_keys, p) \in Seq(Keys)
    BY <1>1, <1>5, RemoveAtElements
  <2>2. /\ Len(RemoveAt(tls_keys, p)) = n - 1
        /\ \A j \in 1..(n - 1) :
             RemoveAt(tls_keys, p)[j] = IF j < p THEN tls_keys[j] ELSE tls_keys[j + 1]
    BY <1>1, <1>5, RemoveAtElements
  <2>3. DOMAIN RemoveAt(tls_keys, p) = 1..(n - 1)
    BY <2>1, <2>2, LenProperties
  <2> QED BY <1>2, <2>2, <2>3
<1> SUFFICES ASSUME NEW g \in given', g.sure
             PROVE  /\ g.handle + 1 \in DOMAIN tls_keys' /\ g.handle >= 0
                    /\ value'[g.by][tls_keys'[g.handle + 1]] = g.block
  BY DEF SureInv
<1>7. PICK f \in given : f.handle # p - 1 /\ g = [f EXCEPT !.sure = f.sure /\ f.handle < p - 1]
  BY <1>3 DEF Revoked
<1>8. f \in Grant
  BY DEF ValuesInv, TypeOK
<1>9. /\ g.by = f.by /\ g.handle = f.handle /\ g.block = f.block
      /\ g.sure = (f.sure /\ f.handle < p - 1)
  BY <1>7, <1>8 DEF Grant
<1>10. f.sure /\ f.handle < p - 1 /\ f.handle \in Int /\ f.by \in Threads
  BY <1>8, <1>9 DEF Grant
<1>11. /\ f.handle + 1 \in 1..n /\ f.handle >= 0
       /\ value[f.by][tls_keys[f.handle + 1]] = f.block
  BY <1>1, <1>10 DEF SureInv
<1>12. f.handle + 1 \in 1..(n - 1) /\ f.handle + 1 < p
  BY <1>1, <1>10, <1>11
<1>13. tls_keys[f.handle + 1] \in Keys \ {tls_keys[p]}
  BY <1>1, <1>11, <1>12 DEF ListedExist
<1> QED BY <1>4, <1>6, <1>9, <1>10, <1>11, <1>12, <1>13

LEMMA ReallocSure ==
  ASSUME ValuesInv, SureInv, NEW t \in Threads, NEW h \in Int, NEW c \in Blocks,
         Realloc(t, h, c)
  PROVE  SureInv'
<1> DEFINE k == tls_keys[Place(h)]
           b == value[t][k]
<1>1. k \in Keys /\ Stored(t, h) = b /\ b # NULL
  BY DEF Realloc, Stored, Listed, ValuesInv, TypeOK
<1>2. \A u \in Threads, l \in Keys :
        value'[u][l] = IF u = t /\ l = k THEN c ELSE value[u][l]
  BY <1>1 DEF Realloc, ValuesInv, TypeOK
<1>3. given' = {[g EXCEPT !.block = IF g.by = t /\ g.block = b THEN c ELSE g.block] : g \in given}
  BY <1>1 DEF Realloc
<1>4. \A l \in Keys : value[t][l] = b => l = k
  BY <1>1 DEF ValuesInv, OneKey
<1>5. tls_keys' = tls_keys /\ value[t][k] = b
  BY DEF Realloc
<1> HIDE DEF k, b
<1> SUFFICES ASSUME NEW g \in given', g.sure
             PROVE  /\ g.handle + 1 \in DOMAIN tls_keys' /\ g.handle >= 0
                    /\ value'[g.by][tls_keys'[g.handle + 1]] = g.block
  BY DEF SureInv
<1>6. PICK f \in given :
        g = [f EXCEPT !.block = IF f.by = t /\ f.block = b THEN c ELSE f.block]
  BY <1>3
<1>7. f \in Grant
  BY DEF ValuesInv, TypeOK
<1>8. /\ g.by = f.by /\ g.handle = f.handle /\ g.sure = f.sure
      /\ g.block = IF f.by = t /\ f.block = b THEN c ELSE f.block
  BY <1>6, <1>7 DEF Grant
<1>9. /\ f.handle + 1 \in DOMAIN tls_keys /\ f.handle >= 0
      /\ value[f.by][tls_keys[f.handle + 1]] = f.block
  BY <1>8 DEF SureInv
<1>10. tls_keys[f.handle + 1] \in Keys /\ f.by \in Threads
  BY <1>7, <1>9 DEF ValuesInv, TypeOK, Grant
<1> QED BY <1>2, <1>4, <1>5, <1>8, <1>9, <1>10

LEMMA ExitSure ==
  ASSUME ValuesInv, SureInv, NEW t \in Threads, Exit(t)
  PROVE  SureInv'
<1>1. \A u \in Threads \ {t} : value'[u] = value[u]
  BY DEF Exit, ValuesInv, TypeOK
<1>2. \A g \in given : g.by \in Threads
  BY DEF ValuesInv, TypeOK, Grant
<1> QED BY <1>1, <1>2 DEF Exit, SureInv

(* A handle keeps naming its storage until it, or a smaller one, is freed. *)
THEOREM SureHandlesKeepNaming == Spec => []SureHandlesName
<1>1. Init => SureInv
  BY DEF Init, SureInv
<1>2. ValuesInv /\ ListedExist /\ SureInv /\ [Next]_vars => SureInv'
  <2> SUFFICES ASSUME ValuesInv, ListedExist, SureInv, [Next]_vars PROVE SureInv'
    OBVIOUS
  <2>1. ASSUME NEW t \in Threads, Malloc(t) \/ Calloc(t) PROVE SureInv'
    <3>1. ASSUME NEW b \in Blocks, NoKey(b) PROVE SureInv'
      BY <3>1 DEF NoKey, SureInv
    <3>2. PICK b \in Blocks : Obtain(t, b) /\ (NoKey(b) \/ \E k \in Keys : Store(t, k, b))
      BY <2>1 DEF Malloc, Calloc
    <3> QED BY <3>1, <3>2, StoreSure
  <2>2. ASSUME NEW t \in Threads, NEW h \in Int, Free(t, h) PROVE SureInv'
    BY <2>2, FreeSure
  <2>3. ASSUME NEW t \in Threads, NEW h \in Int, NEW c \in Blocks, Realloc(t, h, c)
        PROVE  SureInv'
    BY <2>3, ReallocSure
  <2>4. ASSUME NEW t \in Threads, Exit(t) PROVE SureInv'
    BY <2>4, ExitSure
  <2>5. CASE Done
    BY <2>5 DEF Done, SureInv
  <2>6. CASE UNCHANGED vars
    BY <2>6 DEF vars, SureInv
  <2> QED BY <2>1, <2>2, <2>3, <2>4, <2>5, <2>6 DEF Next, Handles
<1>3. ValuesInv => TypeOK
  BY DEF ValuesInv
<1> QED BY <1>1, <1>2, <1>3, ValuesInductive, ListedStayExisting, SureNames, PTL DEF Spec
=============================================================================
