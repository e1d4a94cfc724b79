---------------------------- MODULE PartsProofs ----------------------------
(* Proofs about the smaller parts: the growing arrays of conf.c, its       *)
(* tables of names and its search for a file, how versions compare, what   *)
(* URLs are parsed and unparsed to, and the sockets: who owns a descriptor, *)
(* and what its owner's flags say.                                         *)
EXTENDS ConfStack, ConfTables, ConfFiles, Version, UrlText, Socket, FiniteSetTheorems, DataLemmas

(* As long as no nesting goes beyond half the range of an unsigned char,   *)
(* the arrays of conf.c grow in time, whatever their first size: pushes    *)
(* and peeks stay in bounds.                                               *)
THEOREM TopStaysInArray ==
  ASSUME 2 * Limit < Byte
  PROVE  Spec => []TopInArray
<1>1. Init => GrowthInv
  BY SizesAssumption DEF Init, GrowthInv
<1>2. GrowthInv /\ [Next]_stack => GrowthInv'
  <2> SUFFICES ASSUME GrowthInv, [Next]_stack PROVE GrowthInv'
    OBVIOUS
  <2>1. CASE Register
    <3>1. idx' = idx + 1
      BY <2>1, SizesAssumption DEF Register, GrowthInv
    <3>2. CASE idx' = cnt
      <4>1. cnt * 2 < Byte
        BY <3>1, <3>2, <2>1, SizesAssumption DEF Register, GrowthInv
      <4>2. cnt' = cnt * 2 /\ cap' = cnt'
        BY <4>1, <3>2, <2>1, SizesAssumption DEF Register, GrowthInv
      <4> QED BY <4>1, <4>2, <3>1, <3>2, <2>1, SizesAssumption DEF Register, GrowthInv
    <3>3. CASE idx' # cnt
      BY <3>1, <3>3, <2>1, SizesAssumption DEF Register, GrowthInv
    <3> QED BY <3>2, <3>3
  <2>2. CASE Pop
    BY <2>2, SizesAssumption DEF Pop, GrowthInv
  <2>3. CASE UNCHANGED stack
    BY <2>3 DEF stack, GrowthInv
  <2> QED BY <2>1, <2>2, <2>3 DEF Next
<1>3. GrowthInv => TopInArray
  BY DEF GrowthInv, TopInArray
<1> QED BY <1>1, <1>2, <1>3, PTL DEF Spec

-----------------------------------------------------------------------------
(* Tables: searches by name.                                               *)

(* The search ends at the first entry of that name, or behind the last.    *)
LEMMA FirstNamedFound ==
  ASSUME NEW S, NEW entries \in Seq(S), NEW name
  PROVE  /\ FirstNamed(entries, name) \in 1..(Len(entries) + 1)
         /\ FirstNamed(entries, name) <= Len(entries) =>
              entries[FirstNamed(entries, name)].name = name
         /\ \A j \in 1..Len(entries) : j < FirstNamed(entries, name) => entries[j].name # name
<1> DEFINE named == {k \in 1..Len(entries) : entries[k].name = name} \cup {Len(entries) + 1}
           k == FirstNamed(entries, name)
<1>0. Len(entries) \in Nat
  OBVIOUS
<1>1. PICK x \in named : \A y \in named : x <= y
  <2>1. named \in SUBSET Nat /\ named # {}
    BY <1>0
  <2> HIDE DEF named
  <2> QED BY <2>1, SmallestExists
<1>2. k \in named /\ \A y \in named : k <= y
  BY <1>1 DEF FirstNamed
<1> HIDE DEF k
<1>3. \A j \in 1..Len(entries) : j < k => entries[j].name # name
  BY <1>0, <1>2
<1>4. k \in 1..(Len(entries) + 1) /\ (k <= Len(entries) => entries[k].name = name)
  BY <1>0, <1>2
<1> QED BY <1>3, <1>4 DEF k

LEMMA FirstNamedIs ==
  ASSUME NEW S, NEW entries \in Seq(S), NEW name, NEW i \in 1..(Len(entries) + 1),
         i <= Len(entries) => entries[i].name = name,
         \A j \in 1..Len(entries) : j < i => entries[j].name # name
  PROVE  FirstNamed(entries, name) = i
<1> DEFINE k == FirstNamed(entries, name)
<1>1. k \in 1..(Len(entries) + 1) /\ (k <= Len(entries) => entries[k].name = name)
      /\ \A j \in 1..Len(entries) : j < k => entries[j].name # name
  BY FirstNamedFound
<1> HIDE DEF k
<1>2. Len(entries) \in Nat
  OBVIOUS
<1>3. ~(i < k) /\ ~(k < i)
  BY <1>1, <1>2
<1>4. k = i
  BY <1>1, <1>2, <1>3
<1> QED BY <1>4 DEF k

-----------------------------------------------------------------------------
(* Tables: their state.                                                    *)

EntryRec(N, V) == [name : N, value : V]
CtxRec == EntryRec(CtxNames \cup {NullCtx, NoEntry}, Handlers \cup {ParseNull})
ToldRec == EntryRec(CtxNames \cup {NullCtx} \cup FuncNames, Handlers)
VarRec == EntryRec(VarNames, VarValues)

(* The client's first m registrations are the leading ones of "null", each *)
(* of which replaced context 0; the others follow it in order.  Once       *)
(* "null" came late, context 0 has no name.                                *)
LeadingNulls(m) ==
  /\ \A i \in 1..Len(told) : told[i].name = NullCtx <=> i <= m
  /\ Len(context) = 1 + Len(told) - m
  /\ context[1] = Entry(NullCtx, IF m = 0 THEN ParseNull ELSE told[m].value)
  /\ \A k \in 1..(Len(told) - m) : context[k + 1] = told[m + k]

ContextsInv ==
  IF NullWasLate THEN Len(context) >= 2 /\ context[1].name = NoEntry
  ELSE \E m \in 0..Len(told) : LeadingNulls(m)

(* The variables are sorted, each is there once, with what was put last.   *)
VariablesInv ==
  /\ confVars \in Seq(VarRec)
  /\ \A i, j \in 1..Len(confVars) : i < j => confVars[i].name < confVars[j].name
  /\ \A i \in 1..Len(confVars) : puts[confVars[i].name] = confVars[i].value
  /\ \A n \in VarNames : puts[n] # NoEntry => \E i \in 1..Len(confVars) : confVars[i].name = n

TablesInv ==
  /\ context \in Seq(CtxRec) /\ Len(context) >= 1
  /\ told \in Seq(ToldRec)
  /\ puts \in [VarNames -> VarValues \cup {NoEntry}]
  /\ table = "contexts" => ContextsInv
  /\ table = "functions" => builtins = told
  /\ table = "variables" /\ ~staleVars => VariablesInv

-----------------------------------------------------------------------------
(* Tables: contexts.                                                       *)

LEMMA FreshContextsKept ==
  ASSUME context' = FreshContexts, told' = <<>>
  PROVE  context' \in Seq(CtxRec) /\ Len(context') = 1 /\ ContextsInv'
<1>1. context' \in Seq(CtxRec) /\ Len(context') = 1 /\ context'[1] = Entry(NullCtx, ParseNull)
  BY DEF FreshContexts, CtxRec, EntryRec, Entry
<1>2. Len(told') = 0 /\ told' \in Seq(ToldRec)
  OBVIOUS
<1>3. ~NullWasLate'
  BY <1>2 DEF NullWasLate
<1>4. LeadingNulls(0)'
  BY <1>1, <1>2 DEF LeadingNulls
<1> QED BY <1>1, <1>2, <1>3, <1>4 DEF ContextsInv

(* What a registration adds to what the client has said.                   *)
LEMMA ToldGrows ==
  ASSUME told \in Seq(ToldRec), NEW name \in CtxNames \cup {NullCtx} \cup FuncNames,
         NEW h \in Handlers, Says(name, h)
  PROVE  /\ told' \in Seq(ToldRec) /\ Len(told') = Len(told) + 1
         /\ told'[Len(told) + 1] = Entry(name, h)
         /\ \A i \in 1..Len(told) : told'[i] = told[i]
<1>1. Entry(name, h) \in ToldRec
  BY DEF Entry, ToldRec, EntryRec
<1> QED BY <1>1 DEF Says

LEMMA RegisterKeepsContexts ==
  ASSUME TablesInv, table = "contexts", NEW name \in CtxNames \cup {NullCtx}, NEW h \in Handlers,
         RegisterContext(name, h), Says(name, h)
  PROVE  context' \in Seq(CtxRec) /\ Len(context') >= 1 /\ ContextsInv'
<1> DEFINE n == Len(told)
           l == Len(context)
           e == Entry(name, h)
<1>1. /\ told' \in Seq(ToldRec) /\ Len(told') = n + 1 /\ told'[n + 1] = e
      /\ \A i \in 1..n : told'[i] = told[i]
  BY ToldGrows DEF TablesInv
<1>2. n \in Nat /\ l \in Nat /\ l >= 1 /\ e \in CtxRec /\ e.name = name
  BY DEF TablesInv, Entry, CtxRec, EntryRec
<1>3. name # NullCtx => /\ context' \in Seq(CtxRec) /\ Len(context') = l + 1
                        /\ context'[l + 1] = e
                        /\ \A k \in 1..l : context'[k] = context[k]
  BY <1>2 DEF RegisterContext, TablesInv
<1>4. name = NullCtx => /\ context' \in Seq(CtxRec) /\ Len(context') = l
                        /\ context'[l] = e
                        /\ l > 1 => context'[1].name = NoEntry
  <2> SUFFICES ASSUME name = NullCtx
               PROVE  /\ context' \in Seq(CtxRec) /\ Len(context') = l
                      /\ context'[l] = e
                      /\ l > 1 => context'[1].name = NoEntry
    OBVIOUS
  <2> DEFINE unnamed == [context EXCEPT ![1].name = NoEntry]
  <2>1. context[1] \in CtxRec
    BY <1>2 DEF TablesInv
  <2>2. [context[1] EXCEPT !.name = NoEntry] \in CtxRec
        /\ [context[1] EXCEPT !.name = NoEntry].name = NoEntry
    BY <2>1 DEF CtxRec, EntryRec
  <2>3. unnamed \in Seq(CtxRec) /\ Len(unnamed) = l /\ unnamed[1].name = NoEntry
    <3>1. unnamed = [context EXCEPT ![1] = [context[1] EXCEPT !.name = NoEntry]]
      BY DEF TablesInv
    <3> HIDE DEF unnamed
    <3> QED BY <1>2, <2>2, <3>1 DEF TablesInv
  <2>4. context' = [unnamed EXCEPT ![l] = e]
    BY DEF RegisterContext
  <2> HIDE DEF unnamed, e
  <2> QED BY <1>2, <2>3, <2>4
<1> HIDE DEF e
<1>5. context' \in Seq(CtxRec) /\ Len(context') >= 1
  BY <1>2, <1>3, <1>4
<1>6. NullWasLate' <=> NullWasLate \/ (name = NullCtx /\ \E i \in 1..n : told[i].name # NullCtx)
  <2>1. ASSUME NullWasLate PROVE NullWasLate'
    <3>1. PICK i \in 1..n, j \in 1..n : i < j /\ told[i].name # NullCtx /\ told[j].name = NullCtx
      BY <2>1 DEF NullWasLate
    <3>2. i \in 1..(n + 1) /\ j \in 1..(n + 1)
      BY <1>2
    <3> HIDE DEF n
    <3>3. told'[i].name # NullCtx /\ told'[j].name = NullCtx
      BY <1>1, <3>1
    <3> QED BY <1>1, <3>1, <3>2, <3>3 DEF NullWasLate
  <2>2. ASSUME name = NullCtx, NEW i \in 1..n, told[i].name # NullCtx PROVE NullWasLate'
    <3>1. i \in 1..(n + 1) /\ n + 1 \in 1..(n + 1) /\ i < n + 1
      BY <1>2
    <3> QED BY <1>1, <1>2, <2>2, <3>1 DEF NullWasLate
  <2>3. ASSUME NullWasLate', ~NullWasLate
        PROVE  name = NullCtx /\ \E i \in 1..n : told[i].name # NullCtx
    <3>1. PICK i \in 1..(n + 1), j \in 1..(n + 1) :
            i < j /\ told'[i].name # NullCtx /\ told'[j].name = NullCtx
      BY <1>1, <2>3 DEF NullWasLate
    <3>2. i \in 1..n /\ told[i].name # NullCtx
      BY <1>1, <1>2, <3>1
    <3>3. j = n + 1
      <4> SUFFICES ASSUME j # n + 1 PROVE FALSE
        OBVIOUS
      <4>1. j \in 1..n /\ told'[j] = told[j]
        BY <1>1, <1>2, <3>1
      <4> QED BY <2>3, <3>1, <3>2, <4>1 DEF NullWasLate
    <3>4. name = NullCtx
      BY <1>1, <1>2, <3>1, <3>3
    <3> QED BY <3>2, <3>4
  <2> QED BY <2>1, <2>2, <2>3
<1>7. CASE NullWasLate
  <2>1. l >= 2 /\ context[1].name = NoEntry
    BY <1>7 DEF TablesInv, ContextsInv
  <2>2. Len(context') >= 2 /\ context'[1].name = NoEntry
    BY <1>2, <1>3, <1>4, <2>1
  <2> QED BY <1>5, <1>6, <1>7, <2>2 DEF ContextsInv
<1>8. CASE ~NullWasLate
  <2>1. PICK m \in 0..n : LeadingNulls(m)
    BY <1>8 DEF TablesInv, ContextsInv
  <2>2. l = 1 + n - m
    BY <2>1 DEF LeadingNulls
  <2>3. CASE name # NullCtx
    <3>1. LeadingNulls(m)'
      <4>1. \A i \in 1..(n + 1) : told'[i].name = NullCtx <=> i <= m
        <5> SUFFICES ASSUME NEW i \in 1..(n + 1) PROVE told'[i].name = NullCtx <=> i <= m
          OBVIOUS
        <5>1. CASE i \in 1..n
          BY <1>1, <2>1, <5>1 DEF LeadingNulls
        <5>2. CASE i = n + 1
          <6>1. told'[i].name # NullCtx /\ ~(i <= m)
            BY <1>1, <1>2, <2>3, <5>2
          <6> QED BY <6>1
        <5> QED BY <1>2, <5>1, <5>2
      <4>2. Len(context') = 1 + (n + 1) - m
        BY <1>2, <1>3, <2>2, <2>3
      <4>3. context'[1] = context[1] /\ (m > 0 => told'[m] = told[m])
        BY <1>1, <1>2, <1>3, <2>3
      <4>4. ASSUME NEW k \in 1..((n + 1) - m) PROVE context'[k + 1] = told'[m + k]
        <5>1. CASE k = n + 1 - m
          BY <1>1, <1>2, <1>3, <2>2, <2>3, <5>1
        <5>2. CASE k # n + 1 - m
          <6>1. k \in 1..(n - m) /\ k + 1 \in 1..l /\ m + k \in 1..n
            BY <1>2, <2>2, <5>2
          <6>2. context[k + 1] = told[m + k]
            BY <2>1, <6>1 DEF LeadingNulls
          <6> QED BY <1>1, <1>3, <2>3, <6>1, <6>2
        <5> QED BY <5>1, <5>2
      <4>5. context'[1] = Entry(NullCtx, IF m = 0 THEN ParseNull ELSE told'[m].value)
        BY <1>2, <2>1, <4>3 DEF LeadingNulls
      <4>6. Len(told') = n + 1
        BY <1>1
      <4> HIDE DEF n
      <4>7. \A i \in 1..Len(told') : told'[i].name = NullCtx <=> i <= m
        BY <4>1, <4>6, Zenon
      <4>8. Len(context') = 1 + Len(told') - m
        BY <4>2, <4>6, Zenon
      <4>9. \A k \in 1..(Len(told') - m) : context'[k + 1] = told'[m + k]
        BY <4>4, <4>6, Zenon
      <4> QED BY <4>5, <4>7, <4>8, <4>9, Zenon DEF LeadingNulls
    <3>2. m \in 0..Len(told')
      BY <1>1, <1>2
    <3>3. ~NullWasLate'
      BY <1>6, <1>8, <2>3
    <3>4. \E k \in 0..Len(told') : LeadingNulls(k)'
      BY <3>1, <3>2
    <3> QED BY <1>5, <3>3, <3>4 DEF ContextsInv
  <2>4. CASE name = NullCtx /\ m = n
    <3>1. l = 1
      BY <1>2, <2>2, <2>4
    <3>2. \A i \in 1..n : told[i].name = NullCtx
      BY <1>2, <2>1, <2>4 DEF LeadingNulls
    <3>3. LeadingNulls(m + 1)'
      <4>1. \A i \in 1..(n + 1) : told'[i].name = NullCtx <=> i <= m + 1
        BY <1>1, <1>2, <2>4, <3>2
      <4>2. Len(context') = 1 + (n + 1) - (m + 1) /\ context'[1] = e
        BY <1>2, <1>4, <2>4, <3>1
      <4>3. context'[1] = Entry(NullCtx, IF m + 1 = 0 THEN ParseNull ELSE told'[m + 1].value)
        BY <1>1, <1>2, <2>4, <4>2 DEF Entry, e
      <4>4. \A k \in 1..((n + 1) - (m + 1)) : context'[k + 1] = told'[(m + 1) + k]
        BY <1>2, <2>4
      <4>5. Len(told') = n + 1
        BY <1>1
      <4> HIDE DEF n
      <4>6. \A i \in 1..Len(told') : told'[i].name = NullCtx <=> i <= m + 1
        BY <4>1, <4>5, Zenon
      <4>7. Len(context') = 1 + Len(told') - (m + 1)
        BY <4>2, <4>5, Zenon
      <4>8. \A k \in 1..(Len(told') - (m + 1)) : context'[k + 1] = told'[(m + 1) + k]
        BY <4>4, <4>5, Zenon
      <4> QED BY <4>3, <4>6, <4>7, <4>8, Zenon DEF LeadingNulls
    <3>4. m + 1 \in 0..Len(told')
      BY <1>1, <1>2, <2>4
    <3>5. ~NullWasLate'
      BY <1>6, <1>8, <3>2
    <3>6. \E k \in 0..Len(told') : LeadingNulls(k)'
      BY <3>3, <3>4
    <3> QED BY <1>5, <3>5, <3>6 DEF ContextsInv
  <2>5. CASE name = NullCtx /\ m # n
    <3>1. l > 1 /\ m + 1 \in 1..n
      BY <1>2, <2>2, <2>5
    <3>2. told[m + 1].name # NullCtx
      BY <1>2, <2>1, <3>1 DEF LeadingNulls
    <3>3. NullWasLate'
      BY <1>6, <2>5, <3>1, <3>2
    <3> QED BY <1>2, <1>4, <1>5, <2>5, <3>1, <3>3 DEF ContextsInv
  <2> QED BY <2>3, <2>4, <2>5
<1> QED BY <1>5, <1>7, <1>8

-----------------------------------------------------------------------------
(* Tables: variables.                                                      *)

LEMMA VariablesTyped ==
  ASSUME VariablesInv
  PROVE  /\ Len(confVars) \in Nat /\ VarNames \subseteq Int
         /\ \A i \in 1..Len(confVars) :
              /\ confVars[i] \in VarRec
              /\ confVars[i].name \in VarNames /\ confVars[i].value \in VarValues
              /\ confVars[i].name \in Int
<1>1. Len(confVars) \in Nat /\ \A i \in 1..Len(confVars) : confVars[i] \in VarRec
  BY DEF VariablesInv
<1>2. ASSUME NEW v \in VarRec PROVE v.name \in VarNames /\ v.value \in VarValues
  BY DEF VarRec, EntryRec
<1>3. VarNames \subseteq Int
  BY TablesAssumption
<1> QED BY <1>1, <1>2, <1>3

(* spifconf_put_var() searches up to where the name is or belongs.         *)
LEMMA PlaceFound ==
  ASSUME VariablesInv, NEW name \in VarNames
  PROVE  /\ PlaceOf(name) \in 1..(Len(confVars) + 1)
         /\ PlaceOf(name) <= Len(confVars) => confVars[PlaceOf(name)].name >= name
         /\ \A j \in 1..Len(confVars) : j < PlaceOf(name) => confVars[j].name < name
<1> DEFINE there == {k \in 1..Len(confVars) : confVars[k].name >= name} \cup {Len(confVars) + 1}
           k == PlaceOf(name)
<1>0. Len(confVars) \in Nat /\ \A i \in 1..Len(confVars) : confVars[i].name \in Int
  BY VariablesTyped
<1>1. PICK x \in there : \A y \in there : x <= y
  <2>1. there \in SUBSET Nat /\ there # {}
    BY <1>0
  <2> HIDE DEF there
  <2> QED BY <2>1, SmallestExists
<1>2. k \in there /\ \A y \in there : k <= y
  BY <1>1 DEF PlaceOf
<1> HIDE DEF k
<1>3. k \in 1..(Len(confVars) + 1) /\ (k <= Len(confVars) => confVars[k].name >= name)
  BY <1>0, <1>2
<1>4. ASSUME NEW j \in 1..Len(confVars), j < k PROVE confVars[j].name < name
  <2>1. ~(j \in there)
    BY <1>0, <1>2, <1>4
  <2>2. ~(confVars[j].name >= name) /\ name \in Int
    BY <2>1, TablesAssumption
  <2> QED BY <1>0, <2>2
<1> QED BY <1>3, <1>4 DEF k

LEMMA PutKeepsVariables ==
  ASSUME VariablesInv, puts \in [VarNames -> VarValues \cup {NoEntry}],
         NEW name \in VarNames, NEW value \in VarValues \cup {NoEntry},
         PutVar(name, value), puts' = [puts EXCEPT ![name] = value]
  PROVE  VariablesInv'
<1> DEFINE k == PlaceOf(name)
           n == Len(confVars)
           known == k <= n /\ confVars[k].name = name
<1>1. k \in 1..(n + 1) /\ (k <= n => confVars[k].name >= name)
      /\ \A j \in 1..n : j < k => confVars[j].name < name
  BY PlaceFound
<1>2. confVars' = IF known /\ value # NoEntry THEN [confVars EXCEPT ![k].value = value]
                  ELSE IF known THEN RemoveAt(confVars, k)
                  ELSE IF value = NoEntry THEN confVars
                  ELSE InsertAt(confVars, k, Entry(name, value))
  BY DEF PutVar
<1>3. /\ n \in Nat /\ name \in Int /\ VarNames \subseteq Int
      /\ confVars \in Seq(VarRec)
      /\ \A i \in 1..n : confVars[i].name \in VarNames /\ confVars[i].value \in VarValues
      /\ \A i \in 1..n : confVars[i].name \in Int
      /\ \A i, j \in 1..n : i < j => confVars[i].name < confVars[j].name
  BY VariablesTyped DEF VariablesInv
<1>4. /\ \A i \in 1..n : puts[confVars[i].name] = confVars[i].value
      /\ \A x \in VarNames : puts[x] # NoEntry => \E i \in 1..n : confVars[i].name = x
  BY DEF VariablesInv
<1>5. puts'[name] = value /\ \A x \in VarNames : x # name => puts'[x] = puts[x]
  OBVIOUS
<1>6. \A i \in 1..n : confVars[i].name = name => known /\ i = k
  <2> SUFFICES ASSUME NEW i \in 1..n, confVars[i].name = name PROVE known /\ i = k
    OBVIOUS
  <2> HIDE DEF k, n
  <2>1. ~(i < k)
    BY <1>1, <1>3
  <2>2. k <= n
    BY <1>1, <1>3, <2>1
  <2>3. ~(k < i)
    BY <1>1, <1>3, <2>2
  <2>4. i = k
    BY <1>1, <1>3, <2>1, <2>3
  <2> QED BY <2>2, <2>4
<1> HIDE DEF k
<1>7. CASE known /\ value # NoEntry
  <2>1. confVars' = [confVars EXCEPT ![k] = [confVars[k] EXCEPT !.value = value]] /\ k \in 1..n
    BY <1>1, <1>2, <1>3, <1>7
  <2> DEFINE e == [confVars[k] EXCEPT !.value = value]
  <2>2. confVars[k] \in VarRec
    BY <1>3, <2>1
  <2>3. e \in VarRec /\ e.name = name /\ e.value = value
    BY <1>7, <2>2 DEF VarRec, EntryRec
  <2> HIDE DEF e
  <2>4. /\ confVars' \in Seq(VarRec) /\ Len(confVars') = n /\ confVars'[k] = e
        /\ \A i \in 1..n : i # k => confVars'[i] = confVars[i]
    <3>1. confVars' = [confVars EXCEPT ![k] = e]
      BY <2>1 DEF e
    <3>2. confVars \in Seq(VarRec) /\ k \in 1..Len(confVars)
      BY <1>3, <2>1
    <3>3. /\ [confVars EXCEPT ![k] = e] \in Seq(VarRec)
          /\ Len([confVars EXCEPT ![k] = e]) = Len(confVars)
          /\ \A i \in 1..Len(confVars) :
               [confVars EXCEPT ![k] = e][i] = IF i = k THEN e ELSE confVars[i]
      BY <2>3, <3>2, ExceptSeq
    <3> QED BY <2>1, <3>1, <3>3
  <2>5. \A i \in 1..n : confVars'[i].name = confVars[i].name
    BY <1>7, <2>3, <2>4
  <2>6. \A i \in 1..n : puts'[confVars'[i].name] = confVars'[i].value
    <3> SUFFICES ASSUME NEW i \in 1..n PROVE puts'[confVars'[i].name] = confVars'[i].value
      OBVIOUS
    <3>1. CASE i = k
      BY <1>5, <2>3, <2>4, <3>1
    <3>2. CASE i # k
      BY <1>3, <1>4, <1>5, <1>6, <2>4, <3>2
    <3> QED BY <3>1, <3>2
  <2>7. \A x \in VarNames : puts'[x] # NoEntry => \E i \in 1..n : confVars'[i].name = x
    BY <1>4, <1>5, <1>7, <2>1, <2>5
  <2>8. \A i, j \in 1..n : i < j => confVars'[i].name < confVars'[j].name
    BY <1>3, <2>5
  <2>9. n = Len(confVars')
    BY <2>4
  <2> HIDE DEF n
  <2> QED BY <2>4, <2>6, <2>7, <2>8, <2>9 DEF VariablesInv
<1>8. CASE known /\ value = NoEntry
  <2>1. k \in 1..n /\ confVars' = RemoveAt(confVars, k)
    BY <1>1, <1>2, <1>3, <1>8
  <2>2. /\ confVars' \in Seq(VarRec) /\ Len(confVars') = n - 1
        /\ \A j \in 1..(n - 1) : confVars'[j] = IF j < k THEN confVars[j] ELSE confVars[j + 1]
    BY <1>3, <2>1, RemoveAtElements
  <2>3. n - 1 = Len(confVars')
    BY <2>2
  <2> HIDE DEF n
  <2>4. \A i, j \in 1..(n - 1) : i < j => confVars'[i].name < confVars'[j].name
    <3> SUFFICES ASSUME NEW i \in 1..(n - 1), NEW j \in 1..(n - 1), i < j
                 PROVE  confVars'[i].name < confVars'[j].name
      OBVIOUS
    <3> DEFINE f == IF i < k THEN i ELSE i + 1
               g == IF j < k THEN j ELSE j + 1
    <3>1. f \in 1..n /\ g \in 1..n /\ f < g
      BY <1>3, <2>1
    <3>2. confVars'[i] = confVars[f] /\ confVars'[j] = confVars[g]
      BY <2>2
    <3> HIDE DEF f, g
    <3> QED BY <1>3, <3>1, <3>2
  <2>5. \A i \in 1..(n - 1) : puts'[confVars'[i].name] = confVars'[i].value
    <3> SUFFICES ASSUME NEW i \in 1..(n - 1)
                 PROVE  puts'[confVars'[i].name] = confVars'[i].value
      OBVIOUS
    <3> DEFINE f == IF i < k THEN i ELSE i + 1
    <3>1. f \in 1..n /\ f # k /\ confVars'[i] = confVars[f]
      BY <1>3, <2>1, <2>2
    <3> HIDE DEF f
    <3>2. confVars[f].name # name /\ confVars[f].name \in VarNames
      BY <1>3, <1>6, <3>1
    <3> QED BY <1>4, <1>5, <3>1, <3>2
  <2>6. ASSUME NEW x \in VarNames, puts'[x] # NoEntry
        PROVE  \E i \in 1..(n - 1) : confVars'[i].name = x
    <3>1. x # name /\ puts[x] # NoEntry
      BY <1>5, <1>8, <2>6
    <3>2. PICK f \in 1..n : confVars[f].name = x
      BY <1>4, <3>1
    <3>3. f # k
      BY <1>8, <3>1, <3>2
    <3>4. CASE f < k
      <4>1. f \in 1..(n - 1)
        BY <1>3, <2>1, <3>4
      <4>2. confVars'[f] = confVars[f]
        BY <2>2, <3>4, <4>1
      <4> QED BY <3>2, <4>1, <4>2
    <3>5. CASE ~(f < k)
      <4>1. f - 1 \in 1..(n - 1) /\ ~(f - 1 < k) /\ (f - 1) + 1 = f
        BY <1>3, <2>1, <3>3, <3>5
      <4>2. confVars'[f - 1] = confVars[f]
        BY <2>2, <4>1
      <4> QED BY <3>2, <4>1, <4>2
    <3> QED BY <3>4, <3>5
  <2> QED BY <2>2, <2>3, <2>4, <2>5, <2>6 DEF VariablesInv
<1>9. CASE ~known /\ value = NoEntry
  <2>1. confVars' = confVars
    BY <1>2, <1>9
  <2>2. \A i \in 1..n : puts'[confVars[i].name] = puts[confVars[i].name]
    BY <1>3, <1>5, <1>6, <1>9
  <2>3. \A x \in VarNames : puts'[x] # NoEntry => puts[x] # NoEntry
    BY <1>5, <1>9
  <2>4. n' = n
    BY <2>1
  <2> QED BY <1>3, <1>4, <2>1, <2>2, <2>3 DEF VariablesInv
<1>10. CASE ~known /\ value # NoEntry
  <2> DEFINE e == Entry(name, value)
  <2>1. e \in VarRec /\ e.name = name /\ e.value = value
    BY <1>10 DEF VarRec, EntryRec, Entry
  <2>2. confVars' = InsertAt(confVars, k, e)
    BY <1>2, <1>10
  <2> HIDE DEF e
  <2>3. /\ confVars' \in Seq(VarRec) /\ Len(confVars') = n + 1
        /\ \A j \in 1..(n + 1) :
             confVars'[j] = IF j < k THEN confVars[j] ELSE IF j = k THEN e ELSE confVars[j - 1]
    <3>1. confVars \in Seq(VarRec) /\ k \in 1..(Len(confVars) + 1)
      BY <1>1, <1>3
    <3>2. /\ InsertAt(confVars, k, e) \in Seq(VarRec)
          /\ Len(InsertAt(confVars, k, e)) = Len(confVars) + 1
          /\ \A j \in 1..(Len(confVars) + 1) :
               InsertAt(confVars, k, e)[j] =
                 IF j < k THEN confVars[j] ELSE IF j = k THEN e ELSE confVars[j - 1]
      BY <2>1, <3>1, InsertAtElements
    <3> QED BY <2>2, <3>2
  <2>4. n + 1 = Len(confVars')
    BY <2>3
  <2> HIDE DEF n
  <2>5. \A j \in 1..n : ~(j < k) => confVars[j].name > name
    <3> SUFFICES ASSUME NEW j \in 1..n, ~(j < k) PROVE confVars[j].name > name
      OBVIOUS
    <3>1. k <= n /\ k \in 1..n
      BY <1>1, <1>3
    <3>2. confVars[k].name > name
      BY <1>1, <1>3, <1>10, <3>1
    <3>3. CASE j = k
      BY <3>2, <3>3
    <3>4. CASE j # k
      <4>1. confVars[k].name < confVars[j].name
        BY <1>3, <3>1, <3>4
      <4> QED BY <1>3, <3>1, <3>2, <4>1
    <3> QED BY <3>3, <3>4
  <2>6. \A i, j \in 1..(n + 1) : i < j => confVars'[i].name < confVars'[j].name
    <3> SUFFICES ASSUME NEW i \in 1..(n + 1), NEW j \in 1..(n + 1), i < j
                 PROVE  confVars'[i].name < confVars'[j].name
      OBVIOUS
    <3>1. CASE j < k
      BY <1>1, <1>3, <2>3, <3>1
    <3>2. CASE j = k
      BY <1>1, <1>3, <2>1, <2>3, <3>2
    <3>3. CASE k < j
      <4>1. confVars'[j] = confVars[j - 1] /\ j - 1 \in 1..n /\ ~(j - 1 < k)
        BY <1>1, <1>3, <2>3, <3>3
      <4>2. CASE i < k
        <5>1. i \in 1..n /\ confVars'[i] = confVars[i] /\ i < j - 1
          BY <1>1, <1>3, <2>3, <4>2, <3>3
        <5> QED BY <1>3, <4>1, <5>1
      <4>3. CASE i = k
        BY <2>1, <2>3, <2>5, <4>1, <4>3, <1>3
      <4>4. CASE k < i
        <5>1. i - 1 \in 1..n /\ confVars'[i] = confVars[i - 1] /\ i - 1 < j - 1
          BY <1>1, <1>3, <2>3, <4>4
        <5> QED BY <1>3, <4>1, <5>1
      <4> QED BY <1>1, <1>3, <4>2, <4>3, <4>4
    <3> QED BY <1>1, <1>3, <3>1, <3>2, <3>3
  <2>7. \A i \in 1..(n + 1) : puts'[confVars'[i].name] = confVars'[i].value
    <3> SUFFICES ASSUME NEW i \in 1..(n + 1)
                 PROVE  puts'[confVars'[i].name] = confVars'[i].value
      OBVIOUS
    <3>1. CASE i = k
      BY <1>5, <2>1, <2>3, <3>1
    <3>2. CASE i # k
      <4> DEFINE f == IF i < k THEN i ELSE i - 1
      <4>1. f \in 1..n /\ confVars'[i] = confVars[f]
        BY <1>1, <1>3, <2>3, <3>2
      <4> HIDE DEF f
      <4>2. confVars[f].name # name /\ confVars[f].name \in VarNames
        BY <1>3, <1>6, <1>10, <4>1
      <4> QED BY <1>4, <1>5, <4>1, <4>2
    <3> QED BY <3>1, <3>2
  <2>8. ASSUME NEW x \in VarNames, puts'[x] # NoEntry
        PROVE  \E i \in 1..(n + 1) : confVars'[i].name = x
    <3>1. CASE x = name
      <4>1. confVars'[k] = e
        BY <1>1, <2>3
      <4> QED BY <1>1, <2>1, <3>1, <4>1
    <3>2. CASE x # name
      <4>1. PICK f \in 1..n : confVars[f].name = x
        BY <1>4, <1>5, <2>8, <3>2
      <4>2. CASE f < k
        <5>1. f \in 1..(n + 1) /\ confVars'[f] = confVars[f]
          BY <1>3, <2>3, <4>2
        <5> QED BY <4>1, <5>1
      <4>3. CASE ~(f < k)
        <5>1. f + 1 \in 1..(n + 1) /\ ~(f + 1 < k) /\ f + 1 # k /\ (f + 1) - 1 = f
          BY <1>1, <1>3, <4>3
        <5>2. confVars'[f + 1] = confVars[f]
          BY <2>3, <5>1
        <5> QED BY <4>1, <5>1, <5>2
      <4> QED BY <4>2, <4>3
    <3> QED BY <3>1, <3>2
  <2> QED BY <2>3, <2>4, <2>6, <2>7, <2>8 DEF VariablesInv
<1> QED BY <1>7, <1>8, <1>9, <1>10

-----------------------------------------------------------------------------
(* Tables: the inductive invariant and what it says of the answers.        *)

LEMMA FreshVariablesKept ==
  ASSUME confVars' = <<>>, puts' = [name \in VarNames |-> NoEntry]
  PROVE  VariablesInv'
<1>1. confVars' \in Seq(VarRec) /\ Len(confVars') = 0
  OBVIOUS
<1>2. \A n \in VarNames : puts'[n] = NoEntry
  OBVIOUS
<1> QED BY <1>1, <1>2 DEF VariablesInv

LEMMA TablesInvInit == TablesInit => TablesInv
<1> SUFFICES ASSUME TablesInit PROVE TablesInv
  OBVIOUS
<1>1. context \in Seq(CtxRec) /\ Len(context) = 1 /\ context[1] = Entry(NullCtx, ParseNull)
  BY DEF TablesInit, FreshContexts, CtxRec, EntryRec, Entry
<1>2. told \in Seq(ToldRec) /\ Len(told) = 0
  BY DEF TablesInit
<1>3. ~NullWasLate /\ LeadingNulls(0)
  BY <1>1, <1>2 DEF NullWasLate, LeadingNulls
<1>4. ContextsInv
  BY <1>2, <1>3 DEF ContextsInv
<1>5. builtins = told /\ puts \in [VarNames -> VarValues \cup {NoEntry}]
  BY DEF TablesInit
<1>6. VariablesInv
  <2>1. confVars \in Seq(VarRec) /\ Len(confVars) = 0
    BY DEF TablesInit
  <2>2. \A n \in VarNames : puts[n] = NoEntry
    BY DEF TablesInit
  <2> QED BY <2>1, <2>2 DEF VariablesInv
<1> QED BY <1>1, <1>2, <1>4, <1>5, <1>6 DEF TablesInv

LEMMA TablesInvNext == TablesInv /\ [TablesNext]_tableVars => TablesInv'
<1> SUFFICES ASSUME TablesInv, [TablesNext]_tableVars PROVE TablesInv'
  OBVIOUS
<1>1. ASSUME NEW name \in CtxNames \cup {NullCtx}, NEW h \in Handlers, DoContext(name, h)
      PROVE  TablesInv'
  <2>1. /\ table = "contexts" /\ table' = table /\ puts' = puts
        /\ RegisterContext(name, h) /\ Says(name, h)
    BY <1>1 DEF DoContext
  <2>2. context' \in Seq(CtxRec) /\ Len(context') >= 1 /\ ContextsInv'
    BY <2>1, RegisterKeepsContexts
  <2>3. told' \in Seq(ToldRec)
    BY <2>1, ToldGrows DEF TablesInv
  <2> QED BY <2>1, <2>2, <2>3 DEF TablesInv
<1>2. ASSUME NEW name \in FuncNames, NEW h \in Handlers, DoBuiltin(name, h)
      PROVE  TablesInv'
  <2>1. /\ table = "functions" /\ table' = table /\ puts' = puts /\ context' = context
        /\ builtins' = Append(builtins, Entry(name, h)) /\ Says(name, h)
    BY <1>2 DEF DoBuiltin, RegisterBuiltin
  <2>2. told' \in Seq(ToldRec)
    BY <2>1, ToldGrows DEF TablesInv
  <2>3. builtins' = told'
    BY <2>1 DEF Says, TablesInv
  <2> QED BY <2>1, <2>2, <2>3 DEF TablesInv
<1>3. ASSUME NEW name \in VarNames, NEW value \in VarValues \cup {NoEntry},
             BuiltinPut(name, value)
      PROVE  TablesInv'
  <2>1. /\ table = "variables" /\ ~staleVars /\ PutVar(name, value)
        /\ puts' = [puts EXCEPT ![name] = value]
        /\ table' = table /\ context' = context /\ told' = told
    BY <1>3 DEF BuiltinPut
  <2>2. VariablesInv'
    BY <2>1, PutKeepsVariables DEF TablesInv
  <2>3. puts' \in [VarNames -> VarValues \cup {NoEntry}]
    BY <2>1 DEF TablesInv
  <2> QED BY <2>1, <2>2, <2>3 DEF TablesInv
<1>4. CASE Restart
  <2>1. /\ context' = FreshContexts /\ builtins' = <<>> /\ told' = <<>>
        /\ puts' = [name \in VarNames |-> NoEntry] /\ confVars' = confVars
        /\ ~staleVars' => confVars = <<>>
    BY <1>4 DEF Restart
  <2>2. context' \in Seq(CtxRec) /\ Len(context') = 1 /\ ContextsInv'
    BY <2>1, FreshContextsKept
  <2>3. ~staleVars' => VariablesInv'
    BY <2>1, FreshVariablesKept
  <2>4. told' \in Seq(ToldRec) /\ puts' \in [VarNames -> VarValues \cup {NoEntry}]
    BY <2>1
  <2> QED BY <2>1, <2>2, <2>3, <2>4 DEF TablesInv
<1>5. CASE UNCHANGED tableVars
  <2>1. /\ table' = table /\ context' = context /\ builtins' = builtins /\ told' = told
        /\ puts' = puts /\ confVars' = confVars /\ staleVars' = staleVars
    BY <1>5 DEF tableVars
  <2>2. ContextsInv' <=> ContextsInv
    BY <2>1 DEF ContextsInv, NullWasLate, LeadingNulls
  <2>3. VariablesInv' <=> VariablesInv
    BY <2>1 DEF VariablesInv
  <2> QED BY <2>1, <2>2, <2>3 DEF TablesInv
<1> QED BY <1>1, <1>2, <1>3, <1>4, <1>5 DEF TablesNext

LEMMA ContextsAnswer ==
  ASSUME TablesInv, table = "contexts"
  PROVE  IF NullWasLate THEN ContextHandler(NullCtx) = NoEntry
         ELSE \A name \in CtxNames :
                ContextHandler(name) = IF WasTold(name) THEN Said(name) ELSE LastNull
<1>1. CASE NullWasLate
  BY <1>1 DEF TablesInv, ContextsInv, ContextHandler
<1>2. CASE ~NullWasLate
  <2> SUFFICES ASSUME NEW name \in CtxNames
               PROVE  ContextHandler(name) = IF WasTold(name) THEN Said(name) ELSE LastNull
    BY <1>2
  <2> DEFINE n == Len(told)
             f == FirstNamed(told, name)
  <2>1. PICK m \in 0..n : LeadingNulls(m)
    BY <1>2 DEF TablesInv, ContextsInv
  <2>2. /\ \A i \in 1..n : told[i].name = NullCtx <=> i <= m
        /\ Len(context) = 1 + n - m
        /\ context[1] = Entry(NullCtx, IF m = 0 THEN ParseNull ELSE told[m].value)
        /\ \A k \in 1..(n - m) : context[k + 1] = told[m + k]
    BY <2>1 DEF LeadingNulls
  <2>3. n \in Nat /\ name # NullCtx /\ NullCtx # NoEntry
        /\ told \in Seq(ToldRec) /\ context \in Seq(CtxRec)
    BY TablesAssumption DEF TablesInv
  <2>4. /\ f \in 1..(n + 1) /\ (f <= n => told[f].name = name)
        /\ \A j \in 1..n : j < f => told[j].name # name
    BY <2>3, FirstNamedFound
  <2> HIDE DEF f
  <2>5. f > m
    BY <2>2, <2>3, <2>4
  <2>6. context[1].name = NullCtx
    BY <2>2 DEF Entry
  <2>7. FirstNamed(context, name) = f - m + 1
    <3> DEFINE i == f - m + 1
    <3>1. i \in 1..(Len(context) + 1)
      BY <2>2, <2>3, <2>4, <2>5
    <3>2. i <= Len(context) => context[i].name = name
      <4> SUFFICES ASSUME i <= Len(context) PROVE context[i].name = name
        OBVIOUS
      <4>1. f - m \in 1..(n - m) /\ m + (f - m) = f /\ f <= n
        BY <2>2, <2>3, <2>4, <2>5
      <4>2. context[i] = told[f]
        BY <2>2, <4>1
      <4> QED BY <2>4, <4>1, <4>2
    <3>3. ASSUME NEW j \in 1..Len(context), j < i PROVE context[j].name # name
      <4>1. CASE j = 1
        BY <2>3, <2>6, <4>1
      <4>2. CASE j # 1
        <5> HIDE DEF n
        <5>1. j - 1 \in 1..(n - m) /\ (j - 1) + 1 = j
              /\ m + (j - 1) \in 1..n /\ m + (j - 1) < f
          BY <2>2, <2>3, <2>4, <2>5, <3>3, <4>2
        <5>2. context[j] = told[m + (j - 1)]
          BY <2>2, <5>1
        <5> QED BY <2>4, <5>1, <5>2
      <4> QED BY <4>1, <4>2
    <3> HIDE DEF i
    <3>4. FirstNamed(context, name) = i
      BY <2>3, <3>1, <3>2, <3>3, FirstNamedIs
    <3> QED BY <3>4 DEF i
  <2>8. CASE f <= n
    <3>1. FirstNamed(context, name) <= Len(context) /\ f - m \in 1..(n - m) /\ m + (f - m) = f
      BY <2>2, <2>3, <2>4, <2>5, <2>7, <2>8
    <3>2. context[f - m + 1] = told[f]
      BY <2>2, <3>1
    <3>3. ContextHandler(name) = told[f].value
      BY <2>3, <2>6, <2>7, <3>1, <3>2 DEF ContextHandler
    <3>4. WasTold(name) /\ Said(name) = told[f].value
      BY <2>8 DEF WasTold, Said, f
    <3> QED BY <3>3, <3>4
  <2>9. CASE ~(f <= n)
    <3>1. FirstNamed(context, name) > Len(context)
      BY <2>2, <2>3, <2>4, <2>5, <2>7, <2>9
    <3>2. ContextHandler(name) = context[1].value
      BY <2>3, <2>6, <3>1 DEF ContextHandler
    <3>3. ~WasTold(name)
      BY <2>9 DEF WasTold, f
    <3>4. LastNull = IF m = 0 THEN ParseNull ELSE told[m].value
      <4> DEFINE nulls == {k \in 1..n : told[k].name = NullCtx}
      <4>1. nulls = 1..m
        BY <2>2, <2>3
      <4>2. CASE m = 0
        BY <4>1, <4>2 DEF LastNull
      <4>3. CASE m # 0
        <5>1. m \in nulls /\ \A j \in nulls : j <= m
          BY <4>1, <4>3
        <5>2. (CHOOSE k \in nulls : \A j \in nulls : j <= k) = m
          BY <4>1, <4>3, <5>1
        <5> QED BY <4>1, <4>3, <5>2 DEF LastNull
      <4> QED BY <4>2, <4>3
    <3>5. context[1].value = IF m = 0 THEN ParseNull ELSE told[m].value
      BY <2>2 DEF Entry
    <3> QED BY <3>2, <3>3, <3>4, <3>5
  <2> QED BY <2>8, <2>9
<1> QED BY <1>1, <1>2

LEMMA FunctionsAnswer ==
  ASSUME TablesInv, table = "functions", NEW name \in FuncNames
  PROVE  IF WasTold(name) THEN FindBuiltin(name) = {Said(name)}
         ELSE FindBuiltin(name) = {NoEntry} <=> Len(told) < FuncRoom
<1>1. builtins = told /\ told \in Seq(ToldRec)
  BY DEF TablesInv
<1>2. CASE WasTold(name)
  BY <1>1, <1>2 DEF WasTold, Said, FindBuiltin
<1>3. CASE ~WasTold(name)
  <2>1. FindBuiltin(name) = IF Len(told) < FuncRoom THEN {NoEntry} ELSE {NoEntry} \cup Handlers
    BY <1>1, <1>3 DEF WasTold, FindBuiltin
  <2>2. CASE Len(told) < FuncRoom
    BY <1>3, <2>1, <2>2
  <2>3. CASE ~(Len(told) < FuncRoom)
    <3>1. 1 \in 1..Len(told)
      BY <1>1, <2>3, TablesAssumption
    <3>2. told[1] \in ToldRec
      BY <1>1, <3>1
    <3>3. told[1].value \in Handlers
      BY <3>2 DEF ToldRec, EntryRec
    <3>4. {NoEntry} \cup Handlers # {NoEntry}
      BY <3>3, TablesAssumption
    <3> QED BY <1>3, <2>1, <2>3, <3>4
  <2> QED BY <2>2, <2>3
<1> QED BY <1>2, <1>3

LEMMA VariablesAnswer ==
  ASSUME VariablesInv, NEW name \in VarNames, NEW fallback \in VarValues \cup {NoEntry}
  PROVE  BuiltinGet(name, fallback) = IF puts[name] # NoEntry THEN puts[name] ELSE fallback
<1> DEFINE k == FirstNamed(confVars, name)
<1>1. confVars \in Seq(VarRec) /\ Len(confVars) \in Nat
  BY DEF VariablesInv
<1>2. /\ k \in 1..(Len(confVars) + 1) /\ (k <= Len(confVars) => confVars[k].name = name)
      /\ \A j \in 1..Len(confVars) : j < k => confVars[j].name # name
  BY <1>1, FirstNamedFound
<1>3. GetVar(name) = IF k > Len(confVars) THEN NoEntry ELSE confVars[k].value
  BY DEF GetVar
<1> HIDE DEF k
<1>4. CASE k <= Len(confVars)
  <2>1. k \in 1..Len(confVars)
    BY <1>1, <1>2, <1>4
  <2>2. puts[name] = confVars[k].value /\ GetVar(name) = confVars[k].value
    BY <1>1, <1>2, <1>3, <1>4, <2>1 DEF VariablesInv
  <2> QED BY <2>2 DEF BuiltinGet
<1>5. CASE ~(k <= Len(confVars))
  <2>1. \A j \in 1..Len(confVars) : confVars[j].name # name
    BY <1>1, <1>2, <1>5
  <2>2. puts[name] = NoEntry
    BY <2>1 DEF VariablesInv
  <2>3. GetVar(name) = NoEntry
    BY <1>1, <1>2, <1>3, <1>5
  <2> QED BY <2>2, <2>3 DEF BuiltinGet
<1> QED BY <1>4, <1>5

(* Contexts, functions and variables answer what was last said of them,    *)
(* whatever the client registers, puts, deletes and frees, and in whatever *)
(* order: tables of any size, with any names.                              *)
THEOREM TablesAnswerAlways == TablesSpec => []TablesAnswer
<1>1. TablesInv => TablesAnswer
  <2> SUFFICES ASSUME TablesInv PROVE TablesAnswer
    OBVIOUS
  <2>1. table = "contexts" =>
          IF NullWasLate THEN ContextHandler(NullCtx) = NoEntry
          ELSE \A name \in CtxNames :
                 ContextHandler(name) = IF WasTold(name) THEN Said(name) ELSE LastNull
    BY ContextsAnswer
  <2>2. table = "functions" =>
          \A name \in FuncNames :
            IF WasTold(name) THEN FindBuiltin(name) = {Said(name)}
            ELSE FindBuiltin(name) = {NoEntry} <=> Len(told) < FuncRoom
    BY FunctionsAnswer
  <2>3. table = "variables" /\ ~staleVars =>
          \A name \in VarNames, fallback \in VarValues \cup {NoEntry} :
            BuiltinGet(name, fallback) = IF puts[name] # NoEntry THEN puts[name] ELSE fallback
    BY VariablesAnswer DEF TablesInv
  <2> QED BY <2>1, <2>2, <2>3 DEF TablesAnswer
<1> QED BY TablesInvInit, TablesInvNext, <1>1, PTL DEF TablesSpec

-----------------------------------------------------------------------------
(* Files.                                                                  *)

Names == Seq(STRING)

(* What both the file's name and what was tried end with.                  *)
EndsWith(names, asked) == \E front \in Names : names = front \o asked

LEMMA NamesConcat ==
  ASSUME NEW s \in Names, NEW t \in Names
  PROVE  s \o t \in Names /\ Len(s \o t) = Len(s) + Len(t) /\ Len(s) \in Nat /\ Len(t) \in Nat
BY ConcatProperties, LenProperties DEF Names

LEMMA NamesAssociative ==
  ASSUME NEW s \in Names, NEW t \in Names, NEW u \in Names
  PROVE  s \o (t \o u) = (s \o t) \o u
BY ConcatAssociative DEF Names

LEMMA NamesFront ==
  ASSUME NEW s \in Names, s # <<>>
  PROVE  /\ Front(s) \in Names /\ Len(Front(s)) = Len(s) - 1
         /\ Len(s) \in Nat /\ Len(s) >= 1
         /\ Len(s) = 1 => Front(s) = <<>>
<1>1. Front(s) \in Names /\ Len(Front(s)) = Len(s) - 1
  BY FrontElements DEF Names
<1>2. \A t \in Names : Len(t) \in Nat /\ (t # <<>> => Len(t) >= 1)
  BY EmptySeq DEF Names
<1>3. Len(s) = 1 => ~(Len(Front(s)) >= 1)
  BY <1>1, <1>2
<1> QED BY <1>1, <1>2, <1>3

LEMMA JoinedEndsWith ==
  ASSUME NEW asked \in Names, NEW dir \in Path, NEW put \in 0..1, NEW path \in Path,
         EndsWith(path.names, asked)
  PROVE  Joined(dir, put, path) \in Path /\ EndsWith(Joined(dir, put, path).names, asked)
<1> DEFINE before == IF dir.names = <<>> THEN dir.slashes + put + path.slashes ELSE dir.slashes
           slashes == IF before > 2 THEN 2 ELSE before
<1>1. dir.names \in Names /\ path.names \in Names /\ dir.slashes \in 0..2 /\ path.slashes \in 0..2
  BY DEF Path, Names
<1>2. PICK front \in Names : path.names = front \o asked
  BY DEF EndsWith
<1>3. dir.names \o path.names \in Names /\ dir.names \o front \in Names
  BY <1>1, NamesConcat
<1>4. dir.names \o path.names = (dir.names \o front) \o asked
  <2> DEFINE d == dir.names
  <2>1. d \in Names
    BY <1>1
  <2> HIDE DEF d
  <2>2. d \o (front \o asked) = (d \o front) \o asked
    BY <2>1, NamesAssociative
  <2> QED BY <1>2, <2>2 DEF d
<1>5. Joined(dir, put, path) = [slashes |-> slashes, names |-> dir.names \o path.names]
  BY DEF Joined, PathOf
<1>6. slashes \in 0..2
  BY <1>1
<1> HIDE DEF slashes
<1>7. Joined(dir, put, path) \in Path
  BY <1>3, <1>5, <1>6 DEF Path, Names
<1>8. Joined(dir, put, path).names = (dir.names \o front) \o asked
  BY <1>4, <1>5
<1> QED BY <1>3, <1>7, <1>8 DEF EndsWith

LEMMA EndsWithItself ==
  ASSUME NEW asked \in Names
  PROVE  EndsWith(asked, asked)
<1>1. <<>> \in Names /\ <<>> \o asked = asked
  BY ConcatEmptySeq DEF Names
<1> QED BY <1>1 DEF EndsWith

(* spifconf_find_file() returns a path to a file there is, which ends with *)
(* the name that was asked for.                                            *)
LEMMA FoundFile ==
  ASSUME NEW asked \in FileNames, NEW dir \in FileDirs, NEW path \in PathLists, path # NoPath,
         FindFile(asked, dir, path) # NoPath
  PROVE  /\ FindFile(asked, dir, path) \in Path
         /\ EndsWith(FindFile(asked, dir, path).names, asked.names)
         /\ KindOf(Resolved(cwd, FindFile(asked, dir, path))) # "none"
<1> DEFINE name == IF dir = NoPath THEN asked ELSE InDir(dir, asked)
           behind == [k \in 1..Len(path) |-> InListed(path[k], name)]
           tried == <<name>> \o behind
           found == {k \in 1..Len(tried) : KindOf(Resolved(cwd, tried[k])) # "none"}
           F == FindFile(asked, dir, path)
           Ends == {p \in Path : EndsWith(p.names, asked.names)}
<1>1. asked \in Path /\ asked.names \in Names /\ path \in Seq(Path) /\ (dir # NoPath => dir \in Path)
  BY FilesAssumption DEF Path, Names
<1>2. name \in Ends
  BY <1>1, EndsWithItself, JoinedEndsWith DEF InDir
<1>3. behind \in Seq(Ends)
  <2>1. \A k \in 1..Len(path) : InListed(path[k], name) \in Ends
    BY <1>1, <1>2, JoinedEndsWith DEF InListed
  <2>2. Len(path) \in Nat
    BY <1>1
  <2> HIDE DEF name, Ends
  <2> QED BY <2>1, <2>2
<1>4. tried \in Seq(Ends)
  <2> HIDE DEF name, behind, Ends
  <2>1. <<name>> \in Seq(Ends)
    BY <1>2
  <2> QED BY <1>3, <2>1, ConcatProperties
<1>5. F = IF found = {} THEN NoPath ELSE tried[CHOOSE k \in found : \A j \in found : k <= j]
  BY DEF FindFile
<1> HIDE DEF tried, F, Ends
<1>6. found # {} /\ found \in SUBSET Nat
  BY <1>4, <1>5 DEF F
<1>7. PICK x \in found : \A y \in found : x <= y
  <2> HIDE DEF found
  <2> QED BY <1>6, SmallestExists
<1>8. PICK k \in found : F = tried[k]
  BY <1>5, <1>6, <1>7
<1>9. F \in Ends /\ KindOf(Resolved(cwd, F)) # "none"
  BY <1>4, <1>8
<1> QED BY <1>9 DEF F, Ends

(* Where the program is when it opens the file: in its directory, unless   *)
(* that is cut to nothing.                                                 *)
LEMMA ChdirFolder ==
  ASSUME cwd \in Names, NEW F \in Path, F.names # <<>>
  PROVE  /\ Chdir(F) \in Names /\ Resolved(cwd, F) \in Names /\ Resolved(cwd, F) # <<>>
         /\ Folder(Resolved(cwd, F)) \in Names
         /\ Chdir(F) = IF CutToNothing(F) THEN cwd ELSE Folder(Resolved(cwd, F))
         /\ CutToNothing(F) => Rooted(F) /\ Len(F.names) = 1
<1>1. F.names \in Names /\ F.slashes \in 0..2
  BY DEF Path, Names
<1>2. Front(F.names) \in Names /\ Front(cwd \o F.names) = cwd \o Front(F.names)
  BY <1>1, NamesFront, FrontOfConcat DEF Names
<1>3. cwd \o F.names \in Names /\ cwd \o Front(F.names) \in Names
  BY <1>1, <1>2, NamesConcat
<1>4. cwd \o F.names # <<>>
  <2>1. /\ Len(cwd \o F.names) = Len(cwd) + Len(F.names)
        /\ Len(cwd) \in Nat /\ Len(F.names) \in Nat /\ Len(F.names) # 0
    BY <1>1, NamesConcat, EmptySeq DEF Names
  <2>2. Len(cwd \o F.names) # 0
    BY <2>1
  <2> QED BY <1>3, <2>2, EmptySeq DEF Names
<1>5. Resolved(cwd, F) = IF Rooted(F) THEN F.names ELSE cwd \o F.names
  BY DEF Resolved
<1>6. Rooted(DirName(F)) = Rooted(F) /\ DirName(F).names = Front(F.names)
  BY <1>1 DEF DirName, PathOf, Rooted
<1>7. Chdir(F) = IF CutToNothing(F) THEN cwd
                 ELSE IF Rooted(F) THEN Front(F.names) ELSE cwd \o Front(F.names)
  BY <1>6 DEF Chdir, Resolved
<1>8. Folder(Resolved(cwd, F)) = IF Rooted(F) THEN Front(F.names) ELSE cwd \o Front(F.names)
  BY <1>2, <1>5 DEF Folder
<1>9. CutToNothing(F) => Rooted(F) /\ Len(F.names) = 1
  BY DEF CutToNothing, Rooted
<1> QED BY <1>1, <1>2, <1>3, <1>4, <1>5, <1>7, <1>8, <1>9

FilesInv ==
  /\ cwd \in Names
  /\ DirectoryComesBack

LEMMA ParseFileComesBack ==
  ASSUME cwd \in Names, NEW asked \in FileNames, NEW dir \in FileDirs, NEW path \in PathLists,
         ParseFile(asked, dir, path)
  PROVE  FilesInv'
<1> DEFINE F == IF path = NoPath THEN NoPath ELSE FindFile(asked, dir, path)
           there == IF F = NoPath THEN cwd ELSE Chdir(F)
           opened == IF path # NoPath /\ F = NoPath THEN NoPath ELSE OpenFile(there, asked)
           R == Resolved(cwd, F)
           O == Resolved(there, asked)
           away == IF Rooted(asked) THEN R # asked.names
                   ELSE Len(asked.names) > 1 \/ (CutToNothing(F) /\ cwd # <<>>)
<1>1. /\ cwd' = IF opened = NoPath THEN there ELSE cwd
      /\ disk' = disk
      /\ parsed' = [file |-> asked, from |-> cwd, opened |-> opened, by |-> F,
                    found |-> IF F = NoPath THEN NoPath ELSE R]
  BY DEF ParseFile
<1>2. /\ asked \in Path /\ asked.names \in Names /\ asked.names # <<>>
      /\ Len(asked.names) \in Nat /\ Len(asked.names) >= 1 /\ Len(cwd) \in Nat
  BY FilesAssumption, EmptySeq DEF Path, Names
<1>3. NoPath \notin Names /\ NoPath \notin Path /\ Places \subseteq Names
  BY FilesAssumption DEF Names
<1> HIDE DEF F
<1>5. CASE F = NoPath
  <2>1. cwd' = cwd /\ parsed'.found = NoPath /\ parsed'.from = cwd
    BY <1>1, <1>5
  <2> QED BY <2>1 DEF FilesInv, DirectoryComesBack
<1>6. CASE F # NoPath
  <2>1. F \in Path /\ EndsWith(F.names, asked.names) /\ KindOf(R) # "none"
    BY <1>6, FoundFile DEF F
  <2>2. PICK front \in Names : F.names = front \o asked.names
    BY <2>1 DEF EndsWith
  <2>3. /\ F.names \in Names /\ F.names # <<>>
        /\ Len(F.names) = Len(front) + Len(asked.names) /\ Len(front) \in Nat
    <3>1. F.names \in Names /\ Len(F.names) = Len(front) + Len(asked.names) /\ Len(front) \in Nat
      BY <1>2, <2>2, NamesConcat
    <3>2. Len(F.names) # 0
      BY <1>2, <3>1
    <3> QED BY <3>1, <3>2, EmptySeq
  <2>4. /\ there \in Names /\ R \in Names /\ R # <<>> /\ Folder(R) \in Names
        /\ there = IF CutToNothing(F) THEN cwd ELSE Folder(R)
        /\ CutToNothing(F) => Rooted(F) /\ Len(F.names) = 1
    BY <1>6, <2>1, <2>3, ChdirFolder
  <2>5. R \in Places /\ R # NoPath
    BY <1>3, <2>1, <2>4 DEF KindOf
  <2>6. opened = IF KindOf(O) = "magic" THEN O ELSE NoPath
    BY <1>6 DEF OpenFile
  <2>7. O = IF Rooted(asked) THEN asked.names ELSE there \o asked.names
    BY DEF Resolved
  <2>8. PICK front2 \in Names : R = front2 \o asked.names
    <3>1. CASE Rooted(F)
      BY <2>2, <3>1 DEF Resolved
    <3>2. CASE ~Rooted(F)
      <4>1. R = cwd \o (front \o asked.names)
        BY <2>2, <3>2 DEF Resolved
      <4>2. R = (cwd \o front) \o asked.names
        BY <1>2, <4>1, NamesAssociative
      <4>3. cwd \o front \in Names
        BY NamesConcat
      <4> QED BY <4>2, <4>3
    <3> QED BY <3>1, <3>2
  <2>9. Rooted(F) => R = F.names
    BY DEF Resolved
  <2> HIDE DEF there, R, O, opened
  <2>10. cwd' = IF opened = NoPath /\ ~CutToNothing(F) THEN Folder(R) ELSE cwd
    BY <1>1, <2>4
  <2>11. /\ Len(Folder(R)) = Len(R) - 1 /\ Len(R) \in Nat
         /\ Folder(R) = front2 \o Front(asked.names)
    <3>1. Folder(R) = front2 \o Front(asked.names)
      BY <1>2, <2>8, FrontOfConcat DEF Names, Folder
    <3> QED BY <2>4, <3>1, NamesFront DEF Folder
  <2>12. CutToNothing(F) => Len(R) = 1 /\ Len(asked.names) = 1
    <3>1. CutToNothing(F) => Len(F.names) = 1 /\ Len(R) = Len(F.names)
      BY <2>4, <2>9
    <3>2. Len(F.names) = 1 => Len(asked.names) = 1
      <4> DEFINE l == Len(F.names)
                 n == Len(asked.names)
                 m == Len(front)
      <4>1. l = m + n /\ m \in Nat /\ n \in Nat /\ n >= 1
        BY <1>2, <2>3
      <4> HIDE DEF l, n, m
      <4>2. l = 1 => n = 1
        BY <4>1
      <4> QED BY <4>2 DEF l, n
    <3> QED BY <3>1, <3>2
  <2>13. away => opened # R
    <3>1. CASE Rooted(asked)
      BY <2>5, <2>6, <2>7, <3>1
    <3>2. CASE ~Rooted(asked) /\ Len(asked.names) > 1
      <4>1. there = Folder(R)
        <5>1. Len(asked.names) # 1
          <6> DEFINE n == Len(asked.names)
          <6>1. n \in Nat /\ n > 1
            BY <1>2, <3>2
          <6> HIDE DEF n
          <6>2. n # 1
            BY <6>1
          <6> QED BY <6>2 DEF n
        <5> QED BY <2>4, <2>12, <5>1
      <4>2. Len(O) = Len(Folder(R)) + Len(asked.names)
        BY <1>2, <2>4, <2>7, <3>2, <4>1, NamesConcat
      <4>3. O # R
        BY <1>2, <2>11, <3>2, <4>2
      <4> QED BY <2>5, <2>6, <4>3
    <3>3. CASE ~Rooted(asked) /\ CutToNothing(F) /\ cwd # <<>>
      <4>1. Len(R) = 1 /\ O = cwd \o asked.names
        BY <2>4, <2>7, <2>12, <3>3
      <4>2. Len(O) = Len(cwd) + Len(asked.names)
        BY <1>2, <4>1, NamesConcat
      <4>3. Len(O) # 1
        <5>1. Len(cwd) # 0
          BY <3>3, EmptySeq DEF Names
        <5> QED BY <5>1, <1>2, <4>2
      <4>4. O # R
        BY <4>1, <4>3, Zenon
      <4> QED BY <2>5, <2>6, <4>4
    <3> QED BY <3>1, <3>2, <3>3
  <2>14. ~away => O = R
    <3> SUFFICES ASSUME ~away PROVE O = R
      OBVIOUS
    <3>1. CASE Rooted(asked)
      BY <2>7, <3>1
    <3>2. CASE ~Rooted(asked)
      <4>0. ~(Len(asked.names) > 1) /\ (~CutToNothing(F) \/ cwd = <<>>)
        BY <3>2
      <4>1. Len(asked.names) = 1
        <5>1. Len(asked.names) \in Nat /\ Len(asked.names) >= 1
          BY <1>2
        <5>2. ~(Len(asked.names) > 1)
          BY <4>0
        <5> DEFINE l == Len(asked.names)
        <5> HIDE DEF l
        <5>3. l \in Nat /\ l >= 1 /\ ~(l > 1) => l = 1
          OBVIOUS
        <5> QED BY <5>1, <5>2, <5>3 DEF l
      <4>2. Front(asked.names) = <<>>
        BY <1>2, <4>1, NamesFront
      <4>3. Folder(R) = front2
        BY <2>11, <4>2, ConcatEmptySeq DEF Names
      <4>4. there = Folder(R)
        <5>1. CASE ~CutToNothing(F)
          BY <2>4, <5>1
        <5>2. CASE CutToNothing(F)
          <6>1. Len(Folder(R)) = 0 /\ Folder(R) \in Names
            <7>1. Len(R) = 1
              BY <2>12, <5>2
            <7> QED BY <2>4, <2>11, <7>1
          <6>2. Folder(R) = <<>>
            BY <6>1, EmptySeq DEF Names
          <6> QED BY <2>4, <4>0, <5>2, <6>2
        <5> QED BY <5>1, <5>2
      <4> QED BY <2>7, <2>8, <3>2, <4>3, <4>4
    <3> QED BY <3>1, <3>2
  <2>15. KindOf(R) = disk[R]
    BY <2>5 DEF KindOf
  <2>16. IF away THEN opened # R
         ELSE opened = IF disk[R] = "magic" THEN R ELSE NoPath
    BY <2>6, <2>13, <2>14, <2>15
  <2>17. /\ parsed'.file = asked /\ parsed'.from = cwd /\ parsed'.opened = opened
         /\ parsed'.by = F /\ parsed'.found = R /\ disk' = disk
    BY <1>1, <1>6
  <2>18. cwd' \in Names
    BY <2>4, <2>10
  <2>19. DirectoryComesBack'
    BY <2>5, <2>10, <2>16, <2>17 DEF DirectoryComesBack, Folder
  <2> QED BY <2>18, <2>19 DEF FilesInv
<1> QED BY <1>5, <1>6

(* The file that was found is the one that is opened and the program is    *)
(* back where it was, with the exceptions that DirectoryComesBack names:   *)
(* for any files, names, directories and path lists, and however many      *)
(* calls there are.                                                        *)
THEOREM DirectoryComesBackAlways == FilesSpec => []DirectoryComesBack
<1>1. FilesInit => FilesInv
  BY FilesAssumption DEF FilesInit, FilesInv, DirectoryComesBack, Names
<1>2. FilesInv /\ [FilesNext]_fileVars => FilesInv'
  <2>1. CASE FilesInv /\ FilesNext
    BY <2>1, ParseFileComesBack DEF FilesNext, FilesInv
  <2>2. CASE FilesInv /\ UNCHANGED fileVars
    BY <2>2 DEF fileVars, FilesInv, DirectoryComesBack
  <2> QED BY <2>1, <2>2
<1>3. FilesInv => DirectoryComesBack
  BY DEF FilesInv
<1> QED BY <1>1, <1>2, <1>3, PTL DEF FilesSpec

-----------------------------------------------------------------------------
(* Versions.                                                               *)

AnyVersion == Versions \cup {<<>>}

(* The run at place k, or the end of the version.                          *)
End == [class |-> "digit", rank |-> 0 - 1, early |-> FALSE]
At(v, k) == IF k <= Len(v) THEN v[k] ELSE End

(* The versions are the same in front of k, and there they part or end.    *)
Parts(v, w, k) ==
  /\ k \in 1..(Len(v) + 1) /\ k \in 1..(Len(w) + 1)
  /\ \A j \in 1..(k - 1) : v[j] = w[j]
  /\ At(v, k) # At(w, k) \/ At(v, k) = End

(* What a run or an end may come before, among those of one kind.          *)
Before(x, y) ==
  IF x = End THEN y = End \/ ~y.early ELSE IF y = End THEN x.early ELSE x.rank <= y.rank

LEMMA VersionTypes ==
  ASSUME NEW v \in AnyVersion
  PROVE  /\ v \in Seq(Run) /\ Len(v) \in Nat
         /\ \A k \in 1..Len(v) : /\ v[k] \in Run /\ v[k] # End
                                 /\ v[k].rank \in Nat /\ v[k].early \in BOOLEAN
<1>1. v \in Seq(Run)
  <2>1. <<>> \in Seq(Run)
    OBVIOUS
  <2>2. Versions \subseteq Seq(Run)
    BY VersionAssumption
  <2> QED BY <2>1, <2>2 DEF AnyVersion
<1>2. ASSUME NEW r \in Run PROVE r # End /\ r.rank \in Nat /\ r.early \in BOOLEAN
  <2>1. r.rank \in Nat /\ r.early \in BOOLEAN
    BY DEF Run
  <2>2. End.rank = 0 - 1
    BY DEF End
  <2> QED BY <2>1, <2>2
<1> QED BY <1>1, <1>2

(* Runs of one class and one rank are the same.                            *)
LEMMA SameRun ==
  ASSUME NEW v \in AnyVersion, NEW w \in AnyVersion,
         NEW i \in 1..Len(v), NEW j \in 1..Len(w),
         v[i].class = w[j].class, v[i].rank = w[j].rank
  PROVE  v[i] = w[j]
<1>1. Len(<<>>) = 0
  OBVIOUS
<1>2. v # <<>> /\ w # <<>>
  BY <1>1
<1> QED BY <1>2, VersionAssumption DEF AnyVersion

LEMMA PlaceFoundInVersions ==
  ASSUME NEW v \in AnyVersion, NEW w \in AnyVersion
  PROVE  /\ Place(v, w) \in 1..(Len(v) + 1)
         /\ \A j \in 1..Len(v) : j < Place(v, w) => j <= Len(w) /\ v[j] = w[j]
         /\ Place(v, w) <= Len(v) => Place(v, w) > Len(w) \/ v[Place(v, w)] # w[Place(v, w)]
<1> DEFINE apart == {k \in 1..Len(v) : k > Len(w) \/ v[k] # w[k]} \cup {Len(v) + 1}
           p == Place(v, w)
<1>0. Len(v) \in Nat /\ Len(w) \in Nat
  BY VersionTypes
<1>1. PICK x \in apart : \A y \in apart : x <= y
  <2>1. apart \in SUBSET Nat /\ apart # {}
    BY <1>0
  <2> HIDE DEF apart
  <2> QED BY <2>1, SmallestExists
<1>2. p \in apart /\ \A y \in apart : p <= y
  BY <1>1 DEF Place
<1> HIDE DEF p
<1>3. p \in 1..(Len(v) + 1) /\ (p <= Len(v) => p > Len(w) \/ v[p] # w[p])
  BY <1>0, <1>2
<1>4. ASSUME NEW j \in 1..Len(v), j < p PROVE j <= Len(w) /\ v[j] = w[j]
  <2>1. ~(j \in apart)
    BY <1>0, <1>2, <1>4
  <2>2. ~(j > Len(w)) /\ v[j] = w[j]
    BY <2>1
  <2> QED BY <1>0, <2>2
<1> QED BY <1>3, <1>4 DEF p

LEMMA PlaceParts ==
  ASSUME NEW v \in AnyVersion, NEW w \in AnyVersion
  PROVE  Parts(v, w, Place(v, w))
<1> DEFINE p == Place(v, w)
<1>0. Len(v) \in Nat /\ Len(w) \in Nat
  BY VersionTypes
<1>1. /\ p \in 1..(Len(v) + 1)
      /\ \A j \in 1..Len(v) : j < p => j <= Len(w) /\ v[j] = w[j]
      /\ p <= Len(v) => p > Len(w) \/ v[p] # w[p]
  BY PlaceFoundInVersions
<1> HIDE DEF p
<1>2. p \in 1..(Len(w) + 1)
  <2>1. ~(p > Len(w) + 1)
    <3> SUFFICES ASSUME p > Len(w) + 1 PROVE FALSE
      OBVIOUS
    <3>1. Len(w) + 1 \in 1..Len(v) /\ Len(w) + 1 < p
      BY <1>0, <1>1
    <3>2. Len(w) + 1 <= Len(w)
      BY <1>1, <3>1
    <3> QED BY <1>0, <3>2
  <2> QED BY <1>0, <1>1, <2>1
<1>3. \A j \in 1..(p - 1) : v[j] = w[j]
  BY <1>0, <1>1
<1>4. At(v, p) # At(w, p) \/ At(v, p) = End
  <2>1. CASE p <= Len(v) /\ p <= Len(w)
    BY <1>0, <1>1, <2>1 DEF At
  <2>2. CASE p <= Len(v) /\ ~(p <= Len(w))
    <3>1. v[p] # End
      BY <1>1, <2>2, VersionTypes
    <3> QED BY <2>2, <3>1 DEF At
  <2>3. CASE ~(p <= Len(v))
    BY <2>3 DEF At
  <2> QED BY <2>1, <2>2, <2>3
<1>5. Parts(v, w, p)
  BY <1>1, <1>2, <1>3, <1>4 DEF Parts
<1> QED BY <1>5 DEF p

LEMMA PartsSymmetric ==
  ASSUME NEW v \in AnyVersion, NEW w \in AnyVersion, NEW k \in Nat, Parts(v, w, k)
  PROVE  Parts(w, v, k)
BY DEF Parts

(* There is one such place.                                                *)
LEMMA PartsOnce ==
  ASSUME NEW v \in AnyVersion, NEW w \in AnyVersion, NEW k \in Nat, Parts(v, w, k)
  PROVE  Place(v, w) = k
<1> DEFINE p == Place(v, w)
<1>0. Len(v) \in Nat /\ Len(w) \in Nat
  BY VersionTypes
<1>1. Parts(v, w, p)
  BY PlaceParts
<1> HIDE DEF p
<1>2. p \in Nat
  BY <1>0, <1>1 DEF Parts
<1>3. ASSUME NEW i \in Nat, NEW j \in Nat, Parts(v, w, i), Parts(v, w, j), i < j PROVE FALSE
  <2>1. i \in 1..(j - 1) /\ i <= Len(v) /\ i <= Len(w)
    BY <1>0, <1>3 DEF Parts
  <2>2. v[i] = w[i] /\ v[i] # End
    BY <1>0, <1>3, <2>1, VersionTypes DEF Parts
  <2> QED BY <1>3, <2>1, <2>2 DEF Parts, At
<1>4. ~(p < k) /\ ~(k < p)
  BY <1>1, <1>2, <1>3
<1>5. p = k
  BY <1>2, <1>4
<1> QED BY <1>5 DEF p

LEMMA SameWhenBothEnd ==
  ASSUME NEW v \in AnyVersion, NEW w \in AnyVersion, NEW k \in Nat, Parts(v, w, k)
  PROVE  v = w <=> At(v, k) = End /\ At(w, k) = End
<1>0. Len(v) \in Nat /\ Len(w) \in Nat /\ v \in Seq(Run) /\ w \in Seq(Run)
  BY VersionTypes
<1>1. ASSUME At(v, k) = End, At(w, k) = End PROVE v = w
  <2>1. ~(k <= Len(v)) /\ ~(k <= Len(w))
    BY <1>0, <1>1, VersionTypes DEF At, Parts
  <2>2. Len(v) = k - 1 /\ Len(w) = k - 1
    BY <1>0, <2>1 DEF Parts
  <2> QED BY <1>0, <2>2, SeqEqual DEF Parts
<1>2. ASSUME v = w PROVE At(v, k) = End /\ At(w, k) = End
  BY <1>2 DEF Parts
<1> QED BY <1>1, <1>2

(* What is answered, told from the two runs alone.                         *)
LEMMA AnswersTold ==
  ASSUME NEW v \in AnyVersion, NEW w \in AnyVersion, NEW k \in Nat, Parts(v, w, k)
  PROVE  /\ Differ(v, w) <=> At(v, k) # End /\ At(w, k) # End
         /\ Mismatched(v, w) <=> /\ At(v, k) # End /\ At(w, k) # End
                                 /\ At(v, k).class # At(w, k).class
         /\ ~Differ(v, w) =>
              Answers(v, w) = {IF At(v, k) # End THEN Longer(At(v, k))
                               ELSE IF At(w, k) # End THEN -Longer(At(w, k)) ELSE VEqual}
         /\ Differ(v, w) /\ ~Mismatched(v, w) =>
              Answers(v, w) = {Sign(At(v, k).rank - At(w, k).rank)}
         /\ Mismatched(v, w) => Answers(v, w) = IF k > 1 THEN {VEqual} ELSE {VLess, VEqual, VGreater}
<1>1. Place(v, w) = k
  BY PartsOnce
<1>2. k \in 1..(Len(v) + 1) /\ k \in 1..(Len(w) + 1) /\ Len(v) \in Nat /\ Len(w) \in Nat
  BY VersionTypes DEF Parts
<1>3. /\ At(v, k) # End <=> k <= Len(v)
      /\ At(w, k) # End <=> k <= Len(w)
      /\ k <= Len(v) => At(v, k) = v[k]
      /\ k <= Len(w) => At(w, k) = w[k]
  BY <1>2, VersionTypes DEF At
<1>4. Differ(v, w) <=> At(v, k) # End /\ At(w, k) # End
  BY <1>1, <1>3 DEF Differ
<1>5. Mismatched(v, w) <=> At(v, k) # End /\ At(w, k) # End /\ At(v, k).class # At(w, k).class
  BY <1>1, <1>3, <1>4 DEF Mismatched
<1>6. ~Differ(v, w) =>
        Answers(v, w) = {IF At(v, k) # End THEN Longer(At(v, k))
                         ELSE IF At(w, k) # End THEN -Longer(At(w, k)) ELSE VEqual}
  BY <1>1, <1>3 DEF Answers
<1>7. Differ(v, w) /\ ~Mismatched(v, w) =>
        Answers(v, w) = {Sign(At(v, k).rank - At(w, k).rank)}
  BY <1>1, <1>3, <1>4, <1>5 DEF Answers
<1>8. Mismatched(v, w) => Answers(v, w) = IF k > 1 THEN {VEqual} ELSE {VLess, VEqual, VGreater}
  BY <1>1, <1>3, <1>4, <1>5 DEF Answers
<1> QED BY <1>4, <1>5, <1>6, <1>7, <1>8

LEMMA EqualWhenSame ==
  ASSUME NEW v \in AnyVersion, NEW w \in AnyVersion
  PROVE  /\ VEqual \in Answers(v, w) <=> (v = w \/ Mismatched(v, w))
         /\ \A a \in Answers(v, w) : -a \in Answers(w, v)
<1> DEFINE k == Place(v, w)
           x == At(v, k)
           y == At(w, k)
<1>0. Parts(v, w, k) /\ Parts(w, v, k) /\ k \in Nat
  <2>1. Parts(v, w, k)
    BY PlaceParts
  <2>2. k \in Nat
    BY <2>1, VersionTypes DEF Parts
  <2> QED BY <2>1, <2>2, PartsSymmetric
<1> HIDE DEF k
<1>1. v = w <=> x = End /\ y = End
  BY <1>0, SameWhenBothEnd
<1>2. /\ x # End => k \in 1..Len(v) /\ x = v[k] /\ x.rank \in Nat
      /\ y # End => k \in 1..Len(w) /\ y = w[k] /\ y.rank \in Nat
  BY <1>0, VersionTypes DEF At, Parts
<1>3. x # y \/ x = End
  BY <1>0 DEF Parts
<1>4. x # End /\ y # End /\ x.class = y.class => x.rank # y.rank
  BY <1>2, <1>3, SameRun
<1> HIDE DEF x, y
<1>5. /\ Differ(v, w) <=> x # End /\ y # End
      /\ Mismatched(v, w) <=> x # End /\ y # End /\ x.class # y.class
      /\ ~Differ(v, w) => Answers(v, w) = {IF x # End THEN Longer(x)
                                           ELSE IF y # End THEN -Longer(y) ELSE VEqual}
      /\ Differ(v, w) /\ ~Mismatched(v, w) => Answers(v, w) = {Sign(x.rank - y.rank)}
      /\ Mismatched(v, w) => Answers(v, w) = IF k > 1 THEN {VEqual} ELSE {VLess, VEqual, VGreater}
  BY <1>0, AnswersTold DEF x, y
<1>6. /\ Differ(w, v) <=> x # End /\ y # End
      /\ Mismatched(w, v) <=> x # End /\ y # End /\ y.class # x.class
      /\ ~Differ(w, v) => Answers(w, v) = {IF y # End THEN Longer(y)
                                           ELSE IF x # End THEN -Longer(x) ELSE VEqual}
      /\ Differ(w, v) /\ ~Mismatched(w, v) => Answers(w, v) = {Sign(y.rank - x.rank)}
      /\ Mismatched(w, v) => Answers(w, v) = IF k > 1 THEN {VEqual} ELSE {VLess, VEqual, VGreater}
  BY <1>0, AnswersTold DEF x, y
<1>7. \A r : Longer(r) \in {VLess, VGreater}
  BY DEF Longer
<1>8. CASE ~Differ(v, w)
  <2>1. x = End \/ y = End
    BY <1>5, <1>8
  <2>2. CASE x = End /\ y = End
    BY <1>1, <1>5, <1>6, <2>2 DEF VEqual
  <2>3. CASE x # End /\ y = End
    <3>1. Answers(v, w) = {Longer(x)} /\ Answers(w, v) = {-Longer(x)} /\ v # w /\ ~Mismatched(v, w)
      BY <1>1, <1>5, <1>6, <2>3
    <3> QED BY <1>7, <3>1 DEF VEqual, VLess, VGreater
  <2>4. CASE x = End /\ y # End
    <3>1. Answers(v, w) = {-Longer(y)} /\ Answers(w, v) = {Longer(y)} /\ v # w /\ ~Mismatched(v, w)
      BY <1>1, <1>5, <1>6, <2>4
    <3>2. Longer(y) = -1 \/ Longer(y) = 1
      BY <1>7 DEF VLess, VGreater
    <3> QED BY <3>1, <3>2 DEF VEqual
  <2> QED BY <2>1, <2>2, <2>3, <2>4
<1>9. CASE Differ(v, w) /\ ~Mismatched(v, w)
  <2>1. x # End /\ y # End /\ x.class = y.class /\ v # w
    BY <1>1, <1>5, <1>9
  <2>2. Answers(v, w) = {Sign(x.rank - y.rank)} /\ Answers(w, v) = {Sign(y.rank - x.rank)}
    BY <1>5, <1>6, <1>9, <2>1
  <2>3. x.rank \in Nat /\ y.rank \in Nat /\ x.rank # y.rank
    BY <1>2, <1>4, <2>1
  <2>4. Sign(x.rank - y.rank) # VEqual /\ Sign(y.rank - x.rank) = -Sign(x.rank - y.rank)
    BY <2>3 DEF Sign, VEqual, VLess, VGreater
  <2> QED BY <1>9, <2>1, <2>2, <2>4
<1>10. CASE Mismatched(v, w)
  <2>1. Mismatched(w, v)
    BY <1>5, <1>6, <1>10
  <2>2. CASE k > 1
    BY <1>5, <1>6, <1>10, <2>1, <2>2 DEF VEqual
  <2>3. CASE ~(k > 1)
    BY <1>5, <1>6, <1>10, <2>1, <2>3 DEF VEqual, VLess, VGreater
  <2> QED BY <2>2, <2>3
<1> QED BY <1>8, <1>9, <1>10

(* v does not count as later than w.                                       *)
NotLater(v, w) == VGreater \notin Answers(v, w)

LEMMA NotLaterTold ==
  ASSUME NEW v \in AnyVersion, NEW w \in AnyVersion, NEW k \in Nat, Parts(v, w, k),
         ~Mismatched(v, w)
  PROVE  NotLater(v, w) <=> Before(At(v, k), At(w, k))
<1> DEFINE x == At(v, k)
           y == At(w, k)
<1>1. /\ x # End => x.rank \in Nat /\ x.early \in BOOLEAN
      /\ y # End => y.rank \in Nat /\ y.early \in BOOLEAN
  BY VersionTypes DEF At, Parts
<1> HIDE DEF x, y
<1>2. /\ Differ(v, w) <=> x # End /\ y # End
      /\ ~Differ(v, w) => Answers(v, w) = {IF x # End THEN Longer(x)
                                           ELSE IF y # End THEN -Longer(y) ELSE VEqual}
      /\ Differ(v, w) => Answers(v, w) = {Sign(x.rank - y.rank)}
  BY AnswersTold DEF x, y
<1>3. CASE x = End /\ y = End
  BY <1>2, <1>3 DEF NotLater, Before, VEqual, VGreater, x, y
<1>4. CASE x # End /\ y = End
  <2>1. Answers(v, w) = {Longer(x)}
    BY <1>2, <1>4
  <2>2. VGreater # Longer(x) <=> x.early
    BY <1>1, <1>4 DEF Longer, VLess, VGreater
  <2> QED BY <1>4, <2>1, <2>2 DEF NotLater, Before, x, y
<1>5. CASE x = End /\ y # End
  <2>1. Answers(v, w) = {-Longer(y)}
    BY <1>2, <1>5
  <2>2. VGreater # -Longer(y) <=> ~y.early
    <3>1. CASE y.early
      <4>1. Longer(y) = -1
        BY <3>1 DEF Longer, VLess
      <4>2. \A l \in Int : -l = 0 - l
        OBVIOUS
      <4>3. Longer(y) \in Int /\ 0 - Longer(y) = 1
        BY <4>1
      <4>4. -Longer(y) = 1
        BY <4>2, <4>3
      <4> QED BY <3>1, <4>4 DEF VGreater
    <3>2. CASE ~y.early
      BY <3>2 DEF Longer, VLess, VGreater
    <3> QED BY <3>1, <3>2
  <2> QED BY <1>5, <2>1, <2>2 DEF NotLater, Before, x, y
<1>6. CASE x # End /\ y # End
  <2>1. Answers(v, w) = {Sign(x.rank - y.rank)}
    BY <1>2, <1>6
  <2>2. VGreater # Sign(x.rank - y.rank) <=> x.rank <= y.rank
    BY <1>1, <1>6 DEF Sign, VLess, VGreater, VEqual
  <2> QED BY <1>6, <2>1, <2>2 DEF NotLater, Before, x, y
<1> QED BY <1>3, <1>4, <1>5, <1>6

(* a ends where b goes on with an early run and c with a later one of     *)
(* lower rank.                                                             *)
ForkedAt(a, b, c) ==
  LET n == Len(a)
      Goes(v) == Len(v) > n /\ SubSeq(v, 1, n) = a
  IN /\ Goes(b) /\ Goes(c)
     /\ b[n + 1].early /\ ~c[n + 1].early
     /\ b[n + 1].rank > c[n + 1].rank

(* Whoever goes on behind a parts from it there.                           *)
LEMMA PartsBehind ==
  ASSUME NEW a \in AnyVersion, NEW v \in AnyVersion
  PROVE  Len(v) > Len(a) /\ SubSeq(v, 1, Len(a)) = a
           <=> Parts(v, a, Len(a) + 1) /\ At(v, Len(a) + 1) # End
<1> DEFINE n == Len(a)
<1>0. n \in Nat /\ Len(v) \in Nat /\ a \in Seq(Run) /\ v \in Seq(Run)
  BY VersionTypes
<1>1. At(a, n + 1) = End
  BY <1>0 DEF At
<1>2. ASSUME Len(v) > n, SubSeq(v, 1, n) = a
      PROVE  Parts(v, a, n + 1) /\ At(v, n + 1) # End
  <2>1. \A j \in 1..n : v[j] = a[j]
    <3> SUFFICES ASSUME NEW j \in 1..n PROVE v[j] = a[j]
      OBVIOUS
    <3>1. SubSeq(v, 1, n)[j] = v[j]
      BY <1>0, <1>2
    <3> QED BY <1>2, <3>1
  <2>2. n + 1 \in 1..Len(v) /\ n + 1 \in 1..(Len(v) + 1) /\ n + 1 \in 1..(n + 1) /\ (n + 1) - 1 = n
    BY <1>0, <1>2
  <2>3. At(v, n + 1) # End
    BY <2>2, VersionTypes DEF At
  <2> QED BY <1>1, <2>1, <2>2, <2>3 DEF Parts
<1>3. ASSUME Parts(v, a, n + 1), At(v, n + 1) # End
      PROVE  Len(v) > n /\ SubSeq(v, 1, n) = a
  <2>1. n + 1 <= Len(v)
    BY <1>3 DEF At
  <2>2. \A j \in 1..n : v[j] = a[j]
    BY <1>0, <1>3 DEF Parts
  <2>3. /\ SubSeq(v, 1, n) \in Seq(Run) /\ Len(SubSeq(v, 1, n)) = n
        /\ \A j \in 1..n : SubSeq(v, 1, n)[j] = v[j]
    BY <1>0, <2>1
  <2> QED BY <1>0, <2>1, <2>2, <2>3, SeqEqual
<1> QED BY <1>2, <1>3

LEMMA ForkedTold ==
  ASSUME NEW a \in AnyVersion, NEW b \in AnyVersion, NEW c \in AnyVersion
  PROVE  ForkedAt(a, b, c) <=>
           LET k == Len(a) + 1
           IN /\ Parts(b, a, k) /\ At(b, k) # End /\ Parts(c, a, k) /\ At(c, k) # End
              /\ At(b, k).early /\ ~At(c, k).early /\ At(b, k).rank > At(c, k).rank
<1> DEFINE k == Len(a) + 1
<1>1. Len(b) > Len(a) => At(b, k) = b[k]
  BY VersionTypes DEF At
<1>2. Len(c) > Len(a) => At(c, k) = c[k]
  BY VersionTypes DEF At
<1>3. /\ Len(b) > Len(a) /\ SubSeq(b, 1, Len(a)) = a <=> Parts(b, a, k) /\ At(b, k) # End
      /\ Len(c) > Len(a) /\ SubSeq(c, 1, Len(a)) = a <=> Parts(c, a, k) /\ At(c, k) # End
  BY PartsBehind
<1> QED BY <1>1, <1>2, <1>3 DEF ForkedAt

(* A fork makes a circle.                                                  *)
LEMMA ForkTurns ==
  ASSUME NEW a \in AnyVersion, NEW b \in AnyVersion, NEW c \in AnyVersion, ForkedAt(a, b, c),
         ~Mismatched(b, a), ~Mismatched(a, c), ~Mismatched(b, c)
  PROVE  NotLater(b, a) /\ NotLater(a, c) /\ ~NotLater(b, c)
<1> DEFINE k == Len(a) + 1
           x == At(b, k)
           y == At(c, k)
<1>1. /\ Parts(b, a, k) /\ x # End /\ Parts(c, a, k) /\ y # End
      /\ x.early /\ ~y.early /\ x.rank > y.rank
  BY ForkedTold
<1>2. Len(a) \in Nat /\ k \in Nat /\ At(a, k) = End
  BY VersionTypes DEF At
<1>3. x.rank \in Nat /\ y.rank \in Nat
  BY <1>1, <1>2, VersionTypes DEF At, Parts
<1>4. Parts(b, c, k)
  <2>1. x # y
    BY <1>1
  <2>2. k \in 1..(Len(b) + 1) /\ k \in 1..(Len(c) + 1) /\ \A j \in 1..(k - 1) : b[j] = c[j]
    BY <1>1 DEF Parts
  <2> QED BY <2>1, <2>2 DEF Parts
<1>5. Parts(a, c, k)
  BY <1>1, <1>2, PartsSymmetric
<1> HIDE DEF k
<1>6. NotLater(b, a) <=> Before(x, End)
  BY <1>1, <1>2, NotLaterTold
<1>7. NotLater(a, c) <=> Before(End, y)
  BY <1>2, <1>5, NotLaterTold
<1>8. NotLater(b, c) <=> Before(x, y)
  BY <1>2, <1>4, NotLaterTold
<1> HIDE DEF x, y
<1>9. Before(x, End) /\ Before(End, y)
  BY <1>1 DEF Before
<1>10. ~Before(x, y)
  BY <1>1, <1>3 DEF Before
<1> QED BY <1>6, <1>7, <1>8, <1>9, <1>10

(* Where three versions are the same in front of k.                        *)
LEMMA PartsLater ==
  ASSUME NEW v \in AnyVersion, NEW w \in AnyVersion, NEW u \in AnyVersion,
         NEW p \in Nat, NEW q \in Nat, Parts(v, w, p), Parts(w, u, q), p < q, v # w
  PROVE  At(u, p) = At(w, p) /\ Parts(v, u, p)
<1>0. Len(v) \in Nat /\ Len(w) \in Nat /\ Len(u) \in Nat
  BY VersionTypes
<1>1. p \in 1..(q - 1) /\ p <= Len(w) /\ p <= Len(u)
  BY <1>0 DEF Parts
<1>2. w[p] = u[p]
  BY <1>1 DEF Parts
<1>3. At(u, p) = At(w, p)
  BY <1>1, <1>2 DEF At
<1>4. At(v, p) # At(w, p)
  BY SameWhenBothEnd DEF Parts
<1>5. \A j \in 1..(p - 1) : v[j] = w[j]
  BY DEF Parts
<1>6. \A j \in 1..(p - 1) : w[j] = u[j]
  BY DEF Parts
<1>7. p \in 1..(Len(v) + 1) /\ p \in 1..(Len(u) + 1)
  BY <1>0, <1>1 DEF Parts
<1> QED BY <1>3, <1>4, <1>5, <1>6, <1>7 DEF Parts

(* A circle is a fork.                                                     *)
LEMMA TurnForks ==
  ASSUME NEW v \in AnyVersion, NEW w \in AnyVersion, NEW u \in AnyVersion,
         ~Mismatched(v, w), ~Mismatched(w, u), ~Mismatched(v, u),
         NotLater(v, w), NotLater(w, u), ~NotLater(v, u)
  PROVE  ForkedAt(v, u, w) \/ ForkedAt(w, v, u) \/ ForkedAt(u, w, v)
<1> DEFINE p == Place(v, w)
           q == Place(w, u)
<1>1. Parts(v, w, p) /\ Parts(w, u, q) /\ p \in Nat /\ q \in Nat
  <2>1. Parts(v, w, p) /\ Parts(w, u, q)
    BY PlaceParts
  <2> QED BY <2>1, VersionTypes DEF Parts
<1> HIDE DEF p, q
<1>2. v # w /\ w # u
  OBVIOUS
<1>3. ~(p < q)
  <2> SUFFICES ASSUME p < q PROVE FALSE
    OBVIOUS
  <2>1. At(u, p) = At(w, p) /\ Parts(v, u, p)
    BY <1>1, <1>2, PartsLater
  <2>2. NotLater(v, w) <=> Before(At(v, p), At(w, p))
    BY <1>1, NotLaterTold
  <2>3. NotLater(v, u) <=> Before(At(v, p), At(u, p))
    BY <1>1, <2>1, NotLaterTold
  <2> QED BY <2>1, <2>2, <2>3
<1>4. ~(q < p)
  <2> SUFFICES ASSUME q < p PROVE FALSE
    OBVIOUS
  <2>1. Parts(u, w, q) /\ Parts(w, v, p)
    BY <1>1, PartsSymmetric
  <2>2. At(v, q) = At(w, q) /\ Parts(u, v, q)
    BY <1>1, <1>2, <2>1, PartsLater
  <2>3. Parts(v, u, q)
    BY <1>1, <2>2, PartsSymmetric
  <2>4. NotLater(w, u) <=> Before(At(w, q), At(u, q))
    BY <1>1, NotLaterTold
  <2>5. NotLater(v, u) <=> Before(At(v, q), At(u, q))
    BY <1>1, <2>3, NotLaterTold
  <2> QED BY <2>2, <2>4, <2>5
<1>5. p = q
  BY <1>1, <1>3, <1>4
<1> DEFINE x == At(v, p)
           y == At(w, p)
           z == At(u, p)
<1>6. x # y /\ y # z
  BY <1>1, <1>2, <1>5, SameWhenBothEnd DEF Parts
<1>7. /\ x # End => p \in 1..Len(v) /\ x = v[p] /\ x.rank \in Nat /\ x.early \in BOOLEAN
      /\ y # End => p \in 1..Len(w) /\ y = w[p] /\ y.rank \in Nat /\ y.early \in BOOLEAN
      /\ z # End => p \in 1..Len(u) /\ z = u[p] /\ z.rank \in Nat /\ z.early \in BOOLEAN
  BY <1>1, <1>5, VersionTypes DEF At, Parts
<1>8. Before(x, y) /\ Before(y, z)
  <2>1. NotLater(v, w) <=> Before(x, y)
    BY <1>1, NotLaterTold
  <2>2. NotLater(w, u) <=> Before(y, z)
    BY <1>1, <1>5, NotLaterTold
  <2> QED BY <2>1, <2>2
<1>9. x # End /\ y # End => x.class = y.class /\ x.rank # y.rank
  <2>1. x # End /\ y # End => x.class = y.class
    BY <1>1, AnswersTold
  <2> QED BY <1>6, <1>7, <2>1, SameRun
<1>10. y # End /\ z # End => y.class = z.class /\ y.rank # z.rank
  <2>1. y # End /\ z # End => y.class = z.class
    BY <1>1, <1>5, AnswersTold
  <2> QED BY <1>6, <1>7, <2>1, SameRun
<1> HIDE DEF x, y, z
<1>11. x # z
  <2> SUFFICES ASSUME x = z PROVE FALSE
    OBVIOUS
  <2>1. CASE x = End
    BY <1>6, <1>8, <2>1 DEF Before
  <2>2. CASE y = End
    BY <1>6, <1>8, <2>2 DEF Before
  <2>3. CASE x # End /\ y # End
    <3>1. x.rank <= y.rank /\ y.rank <= x.rank
      BY <1>8, <2>3 DEF Before
    <3> QED BY <1>7, <1>9, <2>3, <3>1
  <2> QED BY <2>1, <2>2, <2>3
<1>12. Parts(v, u, p)
  <2>1. p \in 1..(Len(v) + 1) /\ p \in 1..(Len(u) + 1)
    BY <1>1, <1>5 DEF Parts
  <2>2. \A j \in 1..(p - 1) : v[j] = u[j]
    BY <1>1, <1>5 DEF Parts
  <2> QED BY <1>11, <2>1, <2>2 DEF Parts, x, z
<1>13. ~Before(x, z)
  BY <1>1, <1>12, NotLaterTold DEF x, z
<1>14. /\ Parts(v, w, p) /\ Parts(w, v, p) /\ Parts(w, u, p) /\ Parts(u, w, p)
       /\ Parts(v, u, p) /\ Parts(u, v, p)
  BY <1>1, <1>5, <1>12, PartsSymmetric
<1>15. ASSUME NEW a \in AnyVersion, NEW b \in AnyVersion, Parts(b, a, p), At(a, p) = End
       PROVE  p = Len(a) + 1
  <2>1. Len(a) \in Nat /\ \A k \in 1..Len(a) : a[k] # End
    BY VersionTypes
  <2>2. p \in 1..(Len(a) + 1) /\ (p <= Len(a) => a[p] = End)
    BY <1>15 DEF Parts, At
  <2> QED BY <2>1, <2>2
<1>16. CASE x = End
  <2>1. y # End /\ z # End
    BY <1>6, <1>11, <1>16
  <2>2. ~y.early /\ z.early /\ y.rank <= z.rank
    BY <1>7, <1>8, <1>13, <1>16, <2>1 DEF Before
  <2>3. z.rank > y.rank
    BY <1>7, <1>10, <2>1, <2>2
  <2>4. p = Len(v) + 1
    BY <1>14, <1>15, <1>16 DEF x
  <2> QED BY <1>14, <2>1, <2>2, <2>3, <2>4, ForkedTold DEF y, z
<1>17. CASE y = End
  <2>1. x # End /\ z # End
    BY <1>6, <1>17
  <2>2. x.early /\ ~z.early
    BY <1>7, <1>8, <1>17, <2>1 DEF Before
  <2>3. ~(x.rank <= z.rank)
    BY <1>13, <2>1 DEF Before
  <2>4. x.rank > z.rank
    BY <1>7, <2>1, <2>3
  <2>5. p = Len(w) + 1
    BY <1>14, <1>15, <1>17 DEF y
  <2> QED BY <1>14, <2>1, <2>2, <2>4, <2>5, ForkedTold DEF x, z
<1>18. CASE z = End
  <2>1. x # End /\ y # End
    BY <1>6, <1>11, <1>18
  <2>2. y.early /\ ~x.early /\ x.rank <= y.rank
    BY <1>7, <1>8, <1>13, <1>18, <2>1 DEF Before
  <2>3. y.rank > x.rank
    BY <1>7, <1>9, <2>1, <2>2
  <2>4. p = Len(u) + 1
    BY <1>14, <1>15, <1>18 DEF z
  <2> QED BY <1>14, <2>1, <2>2, <2>3, <2>4, ForkedTold DEF x, y
<1>19. CASE x # End /\ y # End /\ z # End
  <2>1. x.rank <= y.rank /\ y.rank <= z.rank /\ ~(x.rank <= z.rank)
    BY <1>8, <1>13, <1>19 DEF Before
  <2> QED BY <1>7, <1>19, <2>1
<1> QED BY <1>16, <1>17, <1>18, <1>19

(* Three versions are somebody's.                                          *)
VersionsInv == compared \in Seq(AnyVersion) /\ Len(compared) = 3

LEMMA OrderedThree ==
  ASSUME VersionsInv
  PROVE  VersionsOrdered
<1>1. \A i \in 1..3 : compared[i] \in AnyVersion
  BY DEF VersionsInv
<1>2. \A i, j \in 1..3 :
        /\ VEqual \in Answers(compared[i], compared[j]) <=>
             (compared[i] = compared[j] \/ Mismatched(compared[i], compared[j]))
        /\ \A a \in Answers(compared[i], compared[j]) : -a \in Answers(compared[j], compared[i])
  BY <1>1, EqualWhenSame
<1>3. \A i, j \in 1..3 : AtMost(i, j) <=> NotLater(compared[i], compared[j])
  BY DEF AtMost, NotLater
<1>4. Forked <=> \E a, b, c \in 1..3 : ForkedAt(compared[a], compared[b], compared[c])
  BY DEF Forked, ForkedAt
<1>5. ASSUME \A i, j \in 1..3 : ~Mismatched(compared[i], compared[j])
      PROVE  (\E i, j, k \in 1..3 : AtMost(i, j) /\ AtMost(j, k) /\ ~AtMost(i, k)) <=> Forked
  <2>1. ASSUME NEW i \in 1..3, NEW j \in 1..3, NEW k \in 1..3,
               AtMost(i, j), AtMost(j, k), ~AtMost(i, k)
        PROVE  Forked
    <3>1. \/ ForkedAt(compared[i], compared[k], compared[j])
          \/ ForkedAt(compared[j], compared[i], compared[k])
          \/ ForkedAt(compared[k], compared[j], compared[i])
      BY <1>1, <1>3, <1>5, <2>1, TurnForks
    <3> QED BY <1>4, <3>1
  <2>2. ASSUME NEW a \in 1..3, NEW b \in 1..3, NEW c \in 1..3,
               ForkedAt(compared[a], compared[b], compared[c])
        PROVE  AtMost(b, a) /\ AtMost(a, c) /\ ~AtMost(b, c)
    BY <1>1, <1>3, <1>5, <2>2, ForkTurns
  <2>3. Forked => \E i, j, k \in 1..3 : AtMost(i, j) /\ AtMost(j, k) /\ ~AtMost(i, k)
    BY <1>4, <2>2
  <2> QED BY <2>1, <2>3
<1> QED BY <1>2, <1>5 DEF VersionsOrdered

(* The comparison is an order, but for the forks: for any versions made of *)
(* any runs, as long as runs of one kind meet.                             *)
THEOREM VersionsAlwaysOrdered == VersionSpec => []VersionsOrdered
<1>1. VersionInit => VersionsInv
  BY DEF VersionInit, VersionsInv, AnyVersion
<1>2. VersionsInv /\ [CompareNext]_compared => VersionsInv'
  <2> SUFFICES ASSUME VersionsInv, [CompareNext]_compared PROVE VersionsInv'
    OBVIOUS
  <2>1. CASE CompareNext
    <3>1. PICK v \in Versions : compared' = Append(Tail(compared), v)
      BY <2>1 DEF CompareNext
    <3>2. compared # <<>> /\ v \in AnyVersion
      <4>1. compared # <<>>
        BY EmptySeq DEF VersionsInv
      <4>2. v \in AnyVersion
        BY DEF AnyVersion
      <4> QED BY <4>1, <4>2
    <3>3. Tail(compared) \in Seq(AnyVersion) /\ Len(Tail(compared)) = 2
      <4>1. compared \in Seq(AnyVersion) /\ Len(compared) = 3 /\ compared # <<>>
        BY <3>2 DEF VersionsInv
      <4>2. Tail(compared) \in Seq(AnyVersion) /\ Len(Tail(compared)) = Len(compared) - 1
        BY <4>1, HeadTailProperties
      <4> QED BY <4>1, <4>2
    <3> QED BY <3>1, <3>2, <3>3 DEF VersionsInv
  <2>2. CASE UNCHANGED compared
    BY <2>2 DEF VersionsInv
  <2> QED BY <2>1, <2>2
<1> QED BY <1>1, <1>2, OrderedThree, PTL DEF VersionSpec

-----------------------------------------------------------------------------
(* URLs: what parsing and unparsing do with texts of any length.           *)

(* What is in the text of a URL that has been put together.                *)
UrlMarks == {":", "/", "@", "?"}
AllUrlChars == UrlChars \cup {"l", "p"}
UrlParts == Seq(AllUrlChars) \cup {NoPart}

(* None of these characters is in the part.                                *)
Lacks(x, S) == \A i \in 1..Len(x) : x[i] \notin S

(* NoPart is no text, but has none of the marks either.                    *)
LEMMA NoPartIs ==
  /\ NoPart \notin Seq(AllUrlChars) /\ Len(NoPart) = 1
  /\ Lacks(NoPart, UrlMarks)
  /\ Localhost \in Seq(AllUrlChars) /\ Len(Localhost) = 1 /\ Lacks(Localhost, UrlMarks)
  /\ SomePort \in Seq(AllUrlChars) /\ Len(SomePort) = 1 /\ Lacks(SomePort, UrlMarks)
<1>1. NoPart \notin Seq(AllUrlChars)
  <2>1. NoPart[1] = "NULL" /\ Len(NoPart) = 1
    BY DEF NoPart
  <2>2. "NULL" \notin AllUrlChars
    BY DEF AllUrlChars, UrlChars
  <2>3. ASSUME NoPart \in Seq(AllUrlChars) PROVE FALSE
    <3>1. NoPart[1] \in AllUrlChars
      BY <2>1, <2>3
    <3> QED BY <2>1, <2>2, <3>1
  <2> QED BY <2>3
<1>2. Len(NoPart) = 1 /\ Lacks(NoPart, UrlMarks)
  BY DEF NoPart, Lacks, UrlMarks
<1>3. Localhost \in Seq(AllUrlChars) /\ Len(Localhost) = 1 /\ Lacks(Localhost, UrlMarks)
  BY DEF Localhost, Lacks, UrlMarks, AllUrlChars
<1>4. SomePort \in Seq(AllUrlChars) /\ Len(SomePort) = 1 /\ Lacks(SomePort, UrlMarks)
  BY DEF SomePort, Lacks, UrlMarks, AllUrlChars
<1> QED BY <1>1, <1>2, <1>3, <1>4

(* strchr() is at the first such character from there on.                  *)
IsFirst(t, c, n, p) ==
  /\ p \in n..(Len(t) + 1)
  /\ p <= Len(t) => t[p] = c
  /\ \A i \in n..(p - 1) : t[i] # c

(* strchr() finds the first such character, and nothing else is that.      *)
LEMMA StrchrIs ==
  ASSUME NEW S, NEW t \in Seq(S), NEW c, NEW n \in Nat, n >= 1, n <= Len(t) + 1
  PROVE  /\ IsFirst(t, c, n, Strchr(t, c, n)) /\ Strchr(t, c, n) \in Nat
         /\ \A p : IsFirst(t, c, n, p) => Strchr(t, c, n) = p
<1> DEFINE at == {i \in n..Len(t) : t[i] = c}
           p == Strchr(t, c, n)
<1>0. Len(t) \in Nat /\ at \in SUBSET Nat
  OBVIOUS
<1>1. p = IF at = {} THEN Len(t) + 1 ELSE CHOOSE i \in at : \A j \in at : i <= j
  BY DEF Strchr
<1>2. at = {} => IsFirst(t, c, n, p)
  BY <1>0, <1>1 DEF IsFirst
<1>3. at # {} => IsFirst(t, c, n, p)
  <2> SUFFICES ASSUME at # {} PROVE IsFirst(t, c, n, p)
    OBVIOUS
  <2>1. \E i \in at : \A j \in at : i <= j
    <3> HIDE DEF at
    <3> QED BY <1>0, SmallestExists
  <2>2. p \in at /\ \A j \in at : p <= j
    BY <1>1, <2>1
  <2> HIDE DEF p
  <2>3. p \in n..Len(t) /\ t[p] = c
    BY <2>2
  <2>4. ASSUME NEW i \in n..(p - 1), t[i] = c PROVE FALSE
    <3>1. i \in at
      BY <1>0, <2>3, <2>4
    <3>2. p <= i
      BY <2>2, <3>1
    <3> QED BY <2>3, <3>2
  <2> QED BY <1>0, <2>3, <2>4 DEF IsFirst
<1>4. IsFirst(t, c, n, p)
  BY <1>2, <1>3
<1> HIDE DEF p
<1>5. p \in Nat
  BY <1>0, <1>4 DEF IsFirst
<1>6. ASSUME NEW q, IsFirst(t, c, n, q) PROVE p = q
  <2>1. p \in Nat /\ q \in Nat
    BY <1>0, <1>4, <1>6 DEF IsFirst
  <2>2. ~(p < q)
    BY <1>0, <1>4, <1>6, <2>1 DEF IsFirst
  <2>3. ~(q < p)
    BY <1>0, <1>4, <1>6, <2>1 DEF IsFirst
  <2> QED BY <2>1, <2>2, <2>3
<1> QED BY <1>4, <1>5, <1>6 DEF p

(* A part of a text.                                                       *)
LEMMA PieceIs ==
  ASSUME NEW S, NEW t \in Seq(S), NEW i \in Nat, NEW j \in Nat, 1 <= i, i <= j + 1, j <= Len(t)
  PROVE  /\ SubSeq(t, i, j) \in Seq(S) /\ Len(SubSeq(t, i, j)) = j - i + 1
         /\ \A m \in 1..(j - i + 1) : SubSeq(t, i, j)[m] = t[i + m - 1]
<1>1. \A m \in i..j : t[m] \in S
  OBVIOUS
<1>2. /\ SubSeq(t, i, j) \in Seq(S)
      /\ Len(SubSeq(t, i, j)) = IF i <= j THEN j - i + 1 ELSE 0
      /\ \A m \in 1..(j - i + 1) : SubSeq(t, i, j)[m] = t[i + m - 1]
  BY <1>1, SubSeqProperties
<1>3. (IF i <= j THEN j - i + 1 ELSE 0) = j - i + 1
  OBVIOUS
<1> QED BY <1>2, <1>3

(* The part that begins behind off is x.                                   *)
Holds(t, off, x) == off + Len(x) <= Len(t) /\ \A i \in 1..Len(x) : t[off + i] = x[i]

(* Cut out of the text, that part is x.                                    *)
LEMMA HeldPiece ==
  ASSUME NEW S, NEW t \in Seq(S), NEW x \in Seq(S), NEW off \in Nat, Holds(t, off, x),
         NEW i, i = off + 1, NEW j, j = off + Len(x)
  PROVE  SubSeq(t, i, j) = x
<1> DEFINE y == SubSeq(t, i, j)
<1>0. Len(x) \in Nat /\ Len(t) \in Nat /\ off + Len(x) <= Len(t)
  BY DEF Holds
<1>1. /\ y \in Seq(S) /\ Len(y) = j - i + 1 /\ \A m \in 1..(j - i + 1) : y[m] = t[i + m - 1]
  <2>1. i \in Nat /\ j \in Nat /\ 1 <= i /\ i <= j + 1 /\ j <= Len(t)
    BY <1>0
  <2> QED BY <2>1, PieceIs
<1> HIDE DEF y
<1>2. Len(y) = Len(x)
  BY <1>0, <1>1
<1>3. ASSUME NEW m \in 1..Len(x) PROVE y[m] = x[m]
  <2>1. i + m - 1 = off + m /\ m \in 1..(j - i + 1)
    BY <1>0
  <2> QED BY <1>1, <2>1 DEF Holds
<1> QED BY <1>1, <1>2, <1>3, SeqEqual DEF y

(* Where the parts of a text are.                                          *)
LEMMA ProtoAt ==
  ASSUME NEW S, NEW t \in Seq(S)
  PROVE  /\ PastProto(t) \in 1..(Len(t) + 1) /\ Len(t) \in Nat
         /\ HasProto(t) => /\ PastProto(t) >= 2 /\ t[PastProto(t) - 1] = ":"
                           /\ \A i \in 1..(PastProto(t) - 2) : IsAlnum(t[i])
         /\ ~HasProto(t) => PastProto(t) = 1
<1> DEFINE p == Strchr(t, ":", 1)
<1>1. Len(t) \in Nat /\ 1 \in Nat /\ 1 <= Len(t) + 1
  OBVIOUS
<1>2. IsFirst(t, ":", 1, p) /\ p \in Nat
  BY <1>1, StrchrIs
<1>3. /\ HasProto(t) <=> p <= Len(t) /\ \A i \in 1..(p - 1) : IsAlnum(t[i])
      /\ PastProto(t) = IF HasProto(t) THEN p + 1 ELSE 1
  BY DEF HasProto, PastProto, StrchrFinds
<1> HIDE DEF p
<1>4. HasProto(t) => p \in 1..Len(t) /\ t[p] = ":"
  BY <1>1, <1>2, <1>3 DEF IsFirst
<1>5. CASE HasProto(t)
  <2>1. PastProto(t) = p + 1 /\ p + 1 - 1 = p /\ p + 1 - 2 = p - 1
    BY <1>2, <1>3, <1>5
  <2> QED BY <1>1, <1>3, <1>4, <1>5, <2>1
<1>6. CASE ~HasProto(t)
  BY <1>1, <1>3, <1>6
<1> QED BY <1>5, <1>6

(* Where the text goes on behind the protocol and its slashes.             *)
LEMMA SlashesAt ==
  ASSUME NEW S, NEW t \in Seq(S), NEW p, p = PastProto(t)
  PROVE  /\ PastSlashes(t) \in 1..(Len(t) + 1)
         /\ PastSlashes(t) = IF p < Len(t) /\ t[p] = "/" /\ t[p + 1] = "/" THEN p + 2 ELSE p
<1>1. p \in 1..(Len(t) + 1) /\ Len(t) \in Nat
  BY ProtoAt
<1>2. PastSlashes(t) = IF p < Len(t) /\ t[p] = "/" /\ t[p + 1] = "/" THEN p + 2 ELSE p
  BY DEF PastSlashes
<1> QED BY <1>1, <1>2

(* The end of the part with user, password, host and port.                 *)
EndsAuthority(t, start, end) ==
  /\ end \in start..(Len(t) + 1)
  /\ \A i \in start..(end - 1) : t[i] # "/"
  /\ IF \E i \in start..Len(t) : t[i] = "/" THEN end <= Len(t) /\ t[end] = "/"
     ELSE /\ \A i \in start..(end - 1) : t[i] # "?"
          /\ end <= Len(t) => t[end] = "?"

(* The part with user, password, host and port ends there, and nowhere     *)
(* else; there is a path just when there is a slash.                       *)
LEMMA AuthorityAt ==
  ASSUME NEW S, NEW t \in Seq(S), NEW start, start = PastSlashes(t)
  PROVE  /\ EndsAuthority(t, start, AuthorityEnd(t))
         /\ StrchrFinds(t, "/", start) <=> \E i \in start..Len(t) : t[i] = "/"
         /\ \A end : EndsAuthority(t, start, end) => AuthorityEnd(t) = end
<1> DEFINE s == Strchr(t, "/", start)
           q == Strchr(t, "?", start)
           finds == \E i \in start..Len(t) : t[i] = "/"
<1>1. start \in Nat /\ 1 <= start /\ start <= Len(t) + 1 /\ Len(t) \in Nat
  BY SlashesAt
<1>2. /\ IsFirst(t, "/", start, s) /\ s \in Nat
      /\ \A p : IsFirst(t, "/", start, p) => s = p
  BY <1>1, StrchrIs
<1>3. /\ IsFirst(t, "?", start, q) /\ q \in Nat
      /\ \A p : IsFirst(t, "?", start, p) => q = p
  BY <1>1, StrchrIs
<1>4. /\ StrchrFinds(t, "/", start) <=> s <= Len(t)
      /\ AuthorityEnd(t) = IF StrchrFinds(t, "/", start) THEN s ELSE q
  BY DEF StrchrFinds, AuthorityEnd
<1> HIDE DEF s, q
<1>5. s <= Len(t) <=> finds
  BY <1>1, <1>2 DEF IsFirst
<1>6. ASSUME finds PROVE EndsAuthority(t, start, s)
  BY <1>1, <1>2, <1>5, <1>6 DEF IsFirst, EndsAuthority
<1>7. ASSUME ~finds PROVE EndsAuthority(t, start, q)
  BY <1>1, <1>3, <1>7 DEF IsFirst, EndsAuthority
<1>8. ASSUME NEW end, EndsAuthority(t, start, end), finds PROVE s = end
  BY <1>1, <1>2, <1>8 DEF IsFirst, EndsAuthority
<1>9. ASSUME NEW end, EndsAuthority(t, start, end), ~finds PROVE q = end
  BY <1>1, <1>3, <1>9 DEF IsFirst, EndsAuthority
<1> HIDE DEF finds
<1> QED BY <1>4, <1>5, <1>6, <1>7, <1>8, <1>9 DEF finds

(* The positions at which spif_url_parse() cuts a text ...                 *)
Cuts(t, start, end, query, at, colon, host, port) ==
  /\ start \in 1..(Len(t) + 1) /\ EndsAuthority(t, start, end)
  /\ IsFirst(t, "?", end, query)
  /\ IsFirst(t, "@", start, at) /\ IsFirst(t, ":", start, colon)
  /\ host = IF at < end THEN at + 1 ELSE start
  /\ IsFirst(t, ":", host, port)

(* ... and what it cuts out.                                               *)
Cut(t, known, proto, start, end, query, at, colon, host, port) ==
  [proto |-> proto,
   user |-> IF at < end THEN SubSeq(t, start, (IF at < end /\ colon < at THEN colon ELSE at) - 1)
            ELSE NoPart,
   passwd |-> IF at < end /\ colon < at THEN SubSeq(t, colon + 1, at - 1) ELSE NoPart,
   host |-> IF port < end THEN SubSeq(t, host, port - 1)
            ELSE IF host # end THEN SubSeq(t, host, end - 1) ELSE NoPart,
   port |-> IF port < end THEN SubSeq(t, port + 1, end - 1)
            ELSE IF proto # NoPart THEN ResolvedPort(known) ELSE NoPart,
   path |-> IF \E i \in start..Len(t) : t[i] = "/" THEN SubSeq(t, end, query - 1) ELSE NoPart,
   query |-> IF query <= Len(t) THEN SubSeq(t, query + 1, Len(t)) ELSE NoPart]

(* The protocol of a text.                                                 *)
ProtoOf(t) == IF HasProto(t) THEN SubSeq(t, 1, PastProto(t) - 2) ELSE NoPart

(* Parsing cuts a text at these positions, and at no others.               *)
LEMMA ParseIs ==
  ASSUME NEW S, NEW t \in Seq(S), NEW known, NEW start, start = PastSlashes(t)
  PROVE  /\ \E end, query, at, colon, host, port :
              /\ Cuts(t, start, end, query, at, colon, host, port)
              /\ Parse(t, known) =
                   Cut(t, known, ProtoOf(t), start, end, query, at, colon, host, port)
         /\ \A end, query, at, colon, host, port :
              Cuts(t, start, end, query, at, colon, host, port) =>
                Parse(t, known) =
                  Cut(t, known, ProtoOf(t), start, end, query, at, colon, host, port)
<1> DEFINE end == AuthorityEnd(t)
           query == Strchr(t, "?", end)
           at == Strchr(t, "@", start)
           colon == Strchr(t, ":", start)
           host == IF at < end THEN at + 1 ELSE start
           port == Strchr(t, ":", host)
           finds == \E i \in start..Len(t) : t[i] = "/"
<1>1. start \in Nat /\ 1 <= start /\ start <= Len(t) + 1 /\ Len(t) \in Nat
  BY SlashesAt
<1>2. /\ EndsAuthority(t, start, end) /\ (StrchrFinds(t, "/", start) <=> finds)
      /\ \A e : EndsAuthority(t, start, e) => end = e
  BY AuthorityAt
<1>3. Parse(t, known) = Cut(t, known, ProtoOf(t), start, end, query, at, colon, host, port)
  <2>1. start = PastSlashes(t) /\ (StrchrFinds(t, "/", start) <=> finds)
    BY <1>2
  <2>2. ProtoOf(t) = IF HasProto(t) THEN SubSeq(t, 1, PastProto(t) - 2) ELSE NoPart
    BY DEF ProtoOf
  <2> QED BY <2>1, <2>2 DEF Parse, Cut, UrlFrom
<1> HIDE DEF end
<1>4. end \in Nat /\ 1 <= end /\ end <= Len(t) + 1
  BY <1>1, <1>2 DEF EndsAuthority
<1>5. /\ IsFirst(t, "?", end, query)
      /\ \A p : IsFirst(t, "?", end, p) => query = p
  BY <1>4, StrchrIs
<1>6. /\ IsFirst(t, "@", start, at) /\ at \in Nat
      /\ \A p : IsFirst(t, "@", start, p) => at = p
  BY <1>1, StrchrIs
<1>7. /\ IsFirst(t, ":", start, colon)
      /\ \A p : IsFirst(t, ":", start, p) => colon = p
  BY <1>1, StrchrIs
<1> HIDE DEF query, at, colon
<1>8. host \in Nat /\ 1 <= host /\ host <= Len(t) + 1
  BY <1>1, <1>4, <1>6 DEF IsFirst
<1>9. host = IF at < end THEN at + 1 ELSE start
  OBVIOUS
<1> HIDE DEF host
<1>10. /\ IsFirst(t, ":", host, port)
       /\ \A p : IsFirst(t, ":", host, p) => port = p
  BY <1>8, StrchrIs
<1> HIDE DEF port, finds
<1>11. Cuts(t, start, end, query, at, colon, host, port)
  BY <1>1, <1>2, <1>5, <1>6, <1>7, <1>9, <1>10 DEF Cuts
<1>12. ASSUME NEW e, NEW q, NEW a, NEW c, NEW h, NEW p, Cuts(t, start, e, q, a, c, h, p)
       PROVE  e = end /\ q = query /\ a = at /\ c = colon /\ h = host /\ p = port
  <2>1. /\ EndsAuthority(t, start, e) /\ IsFirst(t, "?", e, q) /\ IsFirst(t, "@", start, a)
        /\ IsFirst(t, ":", start, c) /\ h = (IF a < e THEN a + 1 ELSE start) /\ IsFirst(t, ":", h, p)
    BY <1>12 DEF Cuts
  <2>2. e = end /\ a = at /\ c = colon
    BY <1>2, <1>6, <1>7, <2>1
  <2>3. h = host
    BY <1>9, <2>1, <2>2
  <2> QED BY <1>5, <1>10, <2>1, <2>2, <2>3
<1> QED BY <1>3, <1>11, <1>12

(* The parts of a URL.                                                     *)
UrlRec == [proto : UrlParts, user : UrlParts, passwd : UrlParts, host : UrlParts,
           port : UrlParts, path : UrlParts, query : UrlParts]

(* A part has no mark that its stretch of the text does not have.          *)
LEMMA PieceLacks ==
  ASSUME NEW S, NEW t \in Seq(S), NEW i \in Nat, NEW j \in Nat, 1 <= i, i <= j + 1, j <= Len(t),
         NEW M, \A m \in i..j : t[m] \notin M
  PROVE  Lacks(SubSeq(t, i, j), M)
<1> DEFINE y == SubSeq(t, i, j)
<1>1. Len(y) = j - i + 1 /\ \A m \in 1..(j - i + 1) : y[m] = t[i + m - 1]
  BY PieceIs
<1> HIDE DEF y
<1>2. ASSUME NEW m \in 1..Len(y) PROVE y[m] \notin M
  <2>1. m \in 1..(j - i + 1) /\ i + m - 1 \in i..j
    BY <1>1
  <2> QED BY <1>1, <2>1
<1>3. Lacks(y, M)
  BY <1>2 DEF Lacks
<1> QED BY <1>3 DEF y

(* Nor have the texts that stand for something else.                       *)
LEMMA MarksLacked ==
  ASSUME NEW M, M \subseteq UrlMarks
  PROVE  Lacks(NoPart, M) /\ Lacks(Localhost, M) /\ Lacks(SomePort, M)
BY NoPartIs DEF Lacks

(* The positions are in order.                                             *)
Ordered(n, start, end, query, at, colon, host, port) ==
  /\ n \in Nat /\ start \in Nat /\ end \in Nat /\ query \in Nat /\ at \in Nat /\ colon \in Nat
  /\ host \in Nat /\ port \in Nat
  /\ 1 <= start /\ start <= host /\ host <= end /\ end <= query /\ query <= n + 1
  /\ start <= at /\ at <= n + 1 /\ start <= colon /\ colon <= n + 1
  /\ host <= port /\ port <= n + 1
  /\ host = IF at < end THEN at + 1 ELSE start

(* What lies between them.                                                 *)
Between(t, start, end, query, at, colon, host, port) ==
  /\ \A i \in start..(end - 1) : t[i] # "/"
  /\ \A i \in end..(query - 1) : t[i] # "?"
  /\ \A i \in start..(at - 1) : t[i] # "@"
  /\ \A i \in start..(colon - 1) : t[i] # ":"
  /\ \A i \in host..(port - 1) : t[i] # ":"
  /\ query <= Len(t) => t[query] = "?"

(* The positions where parsing cuts are in order, and what lies between    *)
(* them is without the marks that were looked for.                         *)
LEMMA CutsTold ==
  ASSUME NEW S, NEW t \in Seq(S), NEW start, NEW end, NEW query, NEW at, NEW colon, NEW host, NEW port,
         Cuts(t, start, end, query, at, colon, host, port)
  PROVE  /\ Ordered(Len(t), start, end, query, at, colon, host, port)
         /\ Between(t, start, end, query, at, colon, host, port)
         /\ IF \E i \in start..Len(t) : t[i] = "/" THEN end < query /\ t[end] = "/"
            ELSE \A i \in start..(end - 1) : t[i] # "?"
<1> DEFINE finds == \E i \in start..Len(t) : t[i] = "/"
<1>0. Len(t) \in Nat
  OBVIOUS
<1>1. /\ start \in 1..(Len(t) + 1) /\ EndsAuthority(t, start, end)
      /\ IsFirst(t, "?", end, query)
      /\ IsFirst(t, "@", start, at) /\ IsFirst(t, ":", start, colon)
      /\ host = (IF at < end THEN at + 1 ELSE start)
      /\ IsFirst(t, ":", host, port)
  BY DEF Cuts
<1>2. /\ end \in start..(Len(t) + 1) /\ \A i \in start..(end - 1) : t[i] # "/"
      /\ IF finds THEN end <= Len(t) /\ t[end] = "/"
         ELSE \A i \in start..(end - 1) : t[i] # "?"
  BY <1>1 DEF EndsAuthority
<1> HIDE DEF finds
<1>3. /\ query \in end..(Len(t) + 1) /\ (query <= Len(t) => t[query] = "?")
      /\ \A i \in end..(query - 1) : t[i] # "?"
  BY <1>1 DEF IsFirst
<1>4. /\ at \in start..(Len(t) + 1) /\ \A i \in start..(at - 1) : t[i] # "@"
      /\ colon \in start..(Len(t) + 1) /\ \A i \in start..(colon - 1) : t[i] # ":"
  BY <1>1 DEF IsFirst
<1>5. port \in host..(Len(t) + 1) /\ \A i \in host..(port - 1) : t[i] # ":"
  BY <1>1 DEF IsFirst
<1>6. start \in Nat /\ end \in Nat /\ at \in Nat /\ colon \in Nat /\ query \in Nat
  BY <1>0, <1>1, <1>2, <1>3, <1>4
<1>7. host \in Nat /\ start <= host /\ host <= end
  BY <1>1, <1>2, <1>4, <1>6
<1>8. Ordered(Len(t), start, end, query, at, colon, host, port)
  BY <1>0, <1>1, <1>2, <1>3, <1>4, <1>5, <1>6, <1>7 DEF Ordered
<1>9. Between(t, start, end, query, at, colon, host, port)
  BY <1>2, <1>3, <1>4, <1>5 DEF Between
<1>10. finds => end < query
  BY <1>2, <1>3, <1>6
<1> QED BY <1>2, <1>8, <1>9, <1>10 DEF finds

(* What can be said of each part that parsing gives, and what two of them  *)
(* say of one another.                                                     *)
Named(u) ==
  /\ Lacks(u.proto, UrlMarks)
  /\ Lacks(u.user, {":", "@", "/"})
  /\ Lacks(u.passwd, {"@", "/"}) /\ (u.passwd # NoPart => u.user # NoPart)
Placed(u) ==
  /\ Lacks(u.host, {":", "/"}) /\ Lacks(u.port, {"/"})
  /\ u.host # NoPart /\ u.port = NoPart => Len(u.host) > 0
  /\ u.user = NoPart => Lacks(u.host, {"@"}) /\ Lacks(u.port, {"@"})
Ended(u) ==
  /\ Lacks(u.path, {"?"})
  /\ u.path # NoPart => Len(u.path) >= 1 /\ u.path[1] = "/"
  /\ u.path = NoPart => /\ Lacks(u.user, {"?"}) /\ Lacks(u.passwd, {"?"})
                        /\ Lacks(u.host, {"?"}) /\ Lacks(u.port, {"?"}) /\ Lacks(u.query, {"/"})
WellParted(u, known) ==
  /\ u \in UrlRec /\ Named(u) /\ Placed(u) /\ Ended(u)
  /\ u.proto # NoPart /\ u.port = NoPart => known = "nothing"

(* The protocol has no marks, and is there when the text has one.          *)
LEMMA ProtoIs ==
  ASSUME NEW t \in Seq(AllUrlChars)
  PROVE  ProtoOf(t) \in UrlParts /\ Lacks(ProtoOf(t), UrlMarks) /\ (HasProto(t) <=> ProtoOf(t) # NoPart)
<1> DEFINE j == PastProto(t) - 2
<1>1. /\ PastProto(t) \in 1..(Len(t) + 1) /\ Len(t) \in Nat
      /\ HasProto(t) => /\ PastProto(t) >= 2
                        /\ \A i \in 1..(PastProto(t) - 2) : IsAlnum(t[i])
  BY ProtoAt
<1>2. CASE HasProto(t)
  <2>1. j \in Nat /\ 1 <= j + 1 /\ j <= Len(t) /\ \A i \in 1..j : IsAlnum(t[i])
    BY <1>1, <1>2
  <2>2. \A i \in 1..j : t[i] \notin UrlMarks
    BY <2>1 DEF IsAlnum, UrlMarks
  <2>3. ProtoOf(t) = SubSeq(t, 1, j)
    BY <1>2 DEF ProtoOf
  <2> HIDE DEF j
  <2>4. SubSeq(t, 1, j) \in Seq(AllUrlChars) /\ Lacks(SubSeq(t, 1, j), UrlMarks)
    BY <2>1, <2>2, PieceIs, PieceLacks
  <2>5. NoPart \notin Seq(AllUrlChars)
    BY NoPartIs
  <2> QED BY <1>2, <2>3, <2>4, <2>5 DEF UrlParts
<1>3. CASE ~HasProto(t)
  BY <1>3, NoPartIs DEF ProtoOf, UrlParts
<1> QED BY <1>2, <1>3

(* The parts that spif_url_parse() makes of a text are like that.          *)
LEMMA CutParted ==
  ASSUME NEW t \in Seq(AllUrlChars), NEW known \in {"nothing", "service"}, NEW proto \in UrlParts,
         Lacks(proto, UrlMarks),
         NEW start, NEW end, NEW query, NEW at, NEW colon, NEW host, NEW port,
         Cuts(t, start, end, query, at, colon, host, port),
         NEW u, u = Cut(t, known, proto, start, end, query, at, colon, host, port)
  PROVE  WellParted(u, known)
<1> DEFINE n == Len(t)
           finds == \E i \in start..Len(t) : t[i] = "/"
           Seqs == Seq(AllUrlChars)
           uend == (IF at < end /\ colon < at THEN colon ELSE at) - 1
<1>0. /\ Ordered(n, start, end, query, at, colon, host, port)
      /\ Between(t, start, end, query, at, colon, host, port)
      /\ IF finds THEN end < query /\ t[end] = "/" ELSE \A i \in start..(end - 1) : t[i] # "?"
  BY CutsTold
<1>1. /\ u.proto = proto
      /\ u.user = IF at < end THEN SubSeq(t, start, uend) ELSE NoPart
      /\ u.passwd = IF at < end /\ colon < at THEN SubSeq(t, colon + 1, at - 1) ELSE NoPart
      /\ u.host = IF port < end THEN SubSeq(t, host, port - 1)
                  ELSE IF host # end THEN SubSeq(t, host, end - 1) ELSE NoPart
      /\ u.port = IF port < end THEN SubSeq(t, port + 1, end - 1)
                  ELSE IF proto # NoPart THEN ResolvedPort(known) ELSE NoPart
      /\ u.path = IF finds THEN SubSeq(t, end, query - 1) ELSE NoPart
      /\ u.query = IF query <= Len(t) THEN SubSeq(t, query + 1, Len(t)) ELSE NoPart
  BY DEF Cut
<1>2. u = [proto |-> u.proto, user |-> u.user, passwd |-> u.passwd, host |-> u.host,
           port |-> u.port, path |-> u.path, query |-> u.query]
  BY DEF Cut
<1>3. finds \/ \A i \in start..Len(t) : t[i] # "/"
  OBVIOUS
<1> HIDE DEF finds
<1>4. NoPart \notin Seqs /\ NoPart \in UrlParts /\ Seqs \subseteq UrlParts
  BY NoPartIs DEF UrlParts
<1>5. /\ n \in Nat /\ start \in Nat /\ end \in Nat /\ query \in Nat /\ at \in Nat /\ colon \in Nat
      /\ host \in Nat /\ port \in Nat
      /\ 1 <= start /\ start <= host /\ host <= end /\ end <= query /\ query <= n + 1
      /\ start <= at /\ at <= n + 1 /\ start <= colon /\ colon <= n + 1
      /\ host <= port /\ port <= n + 1
      /\ host = IF at < end THEN at + 1 ELSE start
  BY <1>0 DEF Ordered
<1>6. /\ \A i \in start..(end - 1) : t[i] # "/"
      /\ \A i \in end..(query - 1) : t[i] # "?"
      /\ \A i \in start..(at - 1) : t[i] # "@"
      /\ \A i \in start..(colon - 1) : t[i] # ":"
      /\ \A i \in host..(port - 1) : t[i] # ":"
  BY <1>0 DEF Between
<1>7. /\ u.user \in UrlParts /\ Lacks(u.user, {":", "@", "/"}) /\ (~finds => Lacks(u.user, {"?"}))
      /\ (u.user # NoPart <=> at < end)
  <2>1. CASE at < end
    <3>1. /\ uend \in Nat /\ start <= uend + 1 /\ uend <= n /\ uend <= at - 1 /\ uend <= colon - 1
          /\ uend <= end - 1
      BY <1>5, <2>1
    <3>2. u.user = SubSeq(t, start, uend)
      BY <1>1, <2>1
    <3> HIDE DEF uend
    <3>3. \A m \in start..uend : t[m] \notin {":", "@", "/"}
      BY <1>5, <1>6, <3>1
    <3>4. SubSeq(t, start, uend) \in Seqs
      BY <1>5, <3>1, PieceIs
    <3>5. Lacks(SubSeq(t, start, uend), {":", "@", "/"})
      BY <1>5, <3>1, <3>3, PieceLacks
    <3>6. ~finds => Lacks(SubSeq(t, start, uend), {"?"})
      <4>1. ~finds => \A m \in start..uend : t[m] \notin {"?"}
        BY <1>0, <1>5, <3>1
      <4> QED BY <1>5, <3>1, <4>1, PieceLacks
    <3> QED BY <1>4, <2>1, <3>2, <3>4, <3>5, <3>6
  <2>2. CASE ~(at < end)
    <3>1. u.user = NoPart
      BY <1>1, <2>2
    <3> QED BY <1>4, <2>2, <3>1, MarksLacked DEF UrlMarks
  <2> QED BY <2>1, <2>2
<1>8. /\ u.passwd \in UrlParts /\ Lacks(u.passwd, {"@", "/"}) /\ (~finds => Lacks(u.passwd, {"?"}))
      /\ (u.passwd # NoPart => u.user # NoPart)
  <2>1. CASE at < end /\ colon < at
    <3>1. /\ colon + 1 \in Nat /\ at - 1 \in Nat /\ 1 <= colon + 1 /\ colon + 1 <= at - 1 + 1
          /\ at - 1 <= n
      BY <1>5, <2>1
    <3>2. u.passwd = SubSeq(t, colon + 1, at - 1)
      BY <1>1, <2>1
    <3>3. \A m \in (colon + 1)..(at - 1) : t[m] \notin {"@", "/"}
      BY <1>5, <1>6, <2>1
    <3>4. ~finds => \A m \in (colon + 1)..(at - 1) : t[m] \notin {"?"}
      BY <1>0, <1>5, <2>1
    <3>5. SubSeq(t, colon + 1, at - 1) \in Seqs
      BY <3>1, PieceIs
    <3>6. Lacks(SubSeq(t, colon + 1, at - 1), {"@", "/"})
      BY <3>1, <3>3, PieceLacks
    <3>7. ~finds => Lacks(SubSeq(t, colon + 1, at - 1), {"?"})
      BY <3>1, <3>4, PieceLacks
    <3> QED BY <1>4, <1>7, <2>1, <3>2, <3>5, <3>6, <3>7
  <2>2. CASE ~(at < end /\ colon < at)
    <3>1. u.passwd = NoPart
      BY <1>1, <2>2
    <3> QED BY <1>4, <3>1, MarksLacked DEF UrlMarks
  <2> QED BY <2>1, <2>2
<1>9. /\ u.host \in UrlParts /\ Lacks(u.host, {":", "/"}) /\ (~finds => Lacks(u.host, {"?"}))
      /\ (u.user = NoPart => Lacks(u.host, {"@"}))
      /\ (port >= end /\ u.host # NoPart => Len(u.host) > 0)
  <2> DEFINE j == (IF port < end THEN port ELSE end) - 1
  <2>1. CASE port < end \/ host # end
    <3>1. j \in Nat /\ host <= j + 1 /\ 1 <= host /\ j <= n /\ j <= port - 1 /\ j <= end - 1
      BY <1>5, <2>1
    <3>2. u.host = SubSeq(t, host, j)
      BY <1>1, <2>1
    <3>9. port >= end => j - host + 1 > 0
      BY <1>5, <2>1
    <3> HIDE DEF j
    <3>3. \A m \in host..j : t[m] \notin {":", "/"}
      BY <1>5, <1>6, <3>1
    <3>4. ~finds => \A m \in host..j : t[m] \notin {"?"}
      BY <1>0, <1>5, <3>1
    <3>5. ~(at < end) => \A m \in host..j : t[m] \notin {"@"}
      BY <1>5, <1>6, <3>1
    <3>6. SubSeq(t, host, j) \in Seqs /\ Len(SubSeq(t, host, j)) = j - host + 1
      BY <1>5, <3>1, PieceIs
    <3>7. Lacks(SubSeq(t, host, j), {":", "/"})
      BY <1>5, <3>1, <3>3, PieceLacks
    <3>8. ~finds => Lacks(SubSeq(t, host, j), {"?"})
      BY <1>5, <3>1, <3>4, PieceLacks
    <3>10. ~(at < end) => Lacks(SubSeq(t, host, j), {"@"})
      BY <1>5, <3>1, <3>5, PieceLacks
    <3> QED BY <1>4, <1>7, <3>2, <3>6, <3>7, <3>8, <3>9, <3>10
  <2>2. CASE ~(port < end \/ host # end)
    <3>1. u.host = NoPart
      BY <1>1, <2>2
    <3> QED BY <1>4, <3>1, MarksLacked DEF UrlMarks
  <2> QED BY <2>1, <2>2
<1>10. /\ u.port \in UrlParts /\ Lacks(u.port, {"/"}) /\ (~finds => Lacks(u.port, {"?"}))
       /\ (u.user = NoPart => Lacks(u.port, {"@"}))
       /\ (port < end => u.port # NoPart)
       /\ (u.proto # NoPart /\ u.port = NoPart => known = "nothing")
  <2>1. CASE port < end
    <3>1. /\ port + 1 \in Nat /\ end - 1 \in Nat /\ 1 <= port + 1 /\ port + 1 <= end - 1 + 1
          /\ end - 1 <= n
      BY <1>5, <2>1
    <3>2. u.port = SubSeq(t, port + 1, end - 1)
      BY <1>1, <2>1
    <3>3. \A m \in (port + 1)..(end - 1) : t[m] \notin {"/"}
      BY <1>5, <1>6, <2>1
    <3>4. ~finds => \A m \in (port + 1)..(end - 1) : t[m] \notin {"?"}
      BY <1>0, <1>5, <2>1
    <3>5. ~(at < end) => \A m \in (port + 1)..(end - 1) : t[m] \notin {"@"}
      BY <1>5, <1>6, <2>1
    <3>6. SubSeq(t, port + 1, end - 1) \in Seqs
      BY <3>1, PieceIs
    <3>7. Lacks(SubSeq(t, port + 1, end - 1), {"/"})
      BY <3>1, <3>3, PieceLacks
    <3>8. ~finds => Lacks(SubSeq(t, port + 1, end - 1), {"?"})
      BY <3>1, <3>4, PieceLacks
    <3>10. ~(at < end) => Lacks(SubSeq(t, port + 1, end - 1), {"@"})
      BY <3>1, <3>5, PieceLacks
    <3> QED BY <1>4, <1>7, <3>2, <3>6, <3>7, <3>8, <3>10
  <2>2. CASE ~(port < end)
    <3>1. /\ u.port = IF proto # NoPart THEN ResolvedPort(known) ELSE NoPart
          /\ ResolvedPort(known) = IF known = "nothing" THEN NoPart ELSE SomePort
      BY <1>1, <2>2 DEF ResolvedPort
    <3>2. SomePort # NoPart /\ SomePort \in Seqs
      BY NoPartIs
    <3>3. u.port \in {NoPart, SomePort} /\ (proto # NoPart /\ u.port = NoPart => known = "nothing")
      BY <3>1, <3>2
    <3>4. \A x \in {NoPart, SomePort} : Lacks(x, {"/"}) /\ Lacks(x, {"?"}) /\ Lacks(x, {"@"})
      BY MarksLacked DEF UrlMarks
    <3> QED BY <1>1, <1>4, <2>2, <3>2, <3>3, <3>4
  <2> QED BY <2>1, <2>2
<1>11. /\ u.path \in UrlParts /\ Lacks(u.path, {"?"}) /\ (u.path = NoPart <=> ~finds)
       /\ (u.path # NoPart => Len(u.path) >= 1 /\ u.path[1] = "/")
  <2>1. CASE finds
    <3>1. /\ query - 1 \in Nat /\ 1 <= end /\ end <= query - 1 + 1 /\ query - 1 <= n
          /\ 1 \in 1..(query - 1 - end + 1) /\ end + 1 - 1 = end /\ query - 1 - end + 1 >= 1
      BY <1>0, <1>5, <2>1
    <3>2. u.path = SubSeq(t, end, query - 1)
      BY <1>1, <2>1
    <3>3. \A m \in end..(query - 1) : t[m] \notin {"?"}
      BY <1>6
    <3>4. /\ SubSeq(t, end, query - 1) \in Seqs
          /\ Len(SubSeq(t, end, query - 1)) = query - 1 - end + 1
          /\ \A m \in 1..(query - 1 - end + 1) : SubSeq(t, end, query - 1)[m] = t[end + m - 1]
      BY <1>5, <3>1, PieceIs
    <3>5. Lacks(SubSeq(t, end, query - 1), {"?"})
      BY <1>5, <3>1, <3>3, PieceLacks
    <3>6. SubSeq(t, end, query - 1)[1] = "/"
      BY <1>0, <2>1, <3>1, <3>4
    <3> QED BY <1>4, <2>1, <3>1, <3>2, <3>4, <3>5, <3>6
  <2>2. CASE ~finds
    <3>1. u.path = NoPart
      BY <1>1, <2>2
    <3> QED BY <1>4, <2>2, <3>1, MarksLacked DEF UrlMarks
  <2> QED BY <2>1, <2>2
<1>12. u.query \in UrlParts /\ (~finds => Lacks(u.query, {"/"}))
  <2>1. CASE query <= n
    <3>1. /\ query + 1 \in Nat /\ 1 <= query + 1 /\ query + 1 <= n + 1 /\ n <= Len(t)
      BY <1>5, <2>1
    <3>2. u.query = SubSeq(t, query + 1, n)
      BY <1>1, <2>1
    <3>3. ~finds => \A m \in (query + 1)..n : t[m] \notin {"/"}
      BY <1>3, <1>5
    <3>4. n \in Nat
      BY <1>5
    <3> HIDE DEF n
    <3>5. SubSeq(t, query + 1, n) \in Seqs
      BY <3>1, <3>4, PieceIs
    <3>6. ~finds => Lacks(SubSeq(t, query + 1, n), {"/"})
      BY <3>1, <3>3, <3>4, PieceLacks
    <3> QED BY <1>4, <3>2, <3>5, <3>6
  <2>2. CASE ~(query <= n)
    <3>1. u.query = NoPart
      BY <1>1, <2>2
    <3> QED BY <1>4, <3>1, MarksLacked DEF UrlMarks
  <2> QED BY <2>1, <2>2
<1>13. u \in UrlRec
  BY <1>1, <1>2, <1>7, <1>8, <1>9, <1>10, <1>11, <1>12 DEF UrlRec
<1>14. Named(u)
  BY <1>1, <1>7, <1>8 DEF Named
<1>15. Placed(u)
  BY <1>5, <1>7, <1>9, <1>10 DEF Placed
<1>16. Ended(u)
  BY <1>7, <1>8, <1>9, <1>10, <1>11, <1>12 DEF Ended
<1> QED BY <1>10, <1>13, <1>14, <1>15, <1>16 DEF WellParted

(* They still are when a URL with a port and no host is given one.         *)
LEMMA HostedIs ==
  ASSUME NEW known, NEW v, WellParted(v, known), NEW u, u = Hosted(v)
  PROVE  WellParted(u, known) /\ (u.port # NoPart => u.host # NoPart) /\ Hosted(u) = u
<1>1. CASE v.port # NoPart /\ v.host = NoPart
  <2>1. u = [v EXCEPT !.host = Localhost]
    BY <1>1 DEF Hosted
  <2>2. v \in UrlRec /\ Localhost \in UrlParts /\ Localhost # NoPart
    BY NoPartIs DEF WellParted, UrlParts
  <2>3. /\ u \in UrlRec /\ u.host = Localhost /\ u.proto = v.proto /\ u.user = v.user
        /\ u.passwd = v.passwd /\ u.port = v.port /\ u.path = v.path /\ u.query = v.query
    BY <2>1, <2>2 DEF UrlRec
  <2>4. Named(v) /\ Placed(v) /\ Ended(v) /\ (v.proto # NoPart /\ v.port = NoPart => known = "nothing")
    BY DEF WellParted
  <2>5. /\ Lacks(Localhost, {":", "/"}) /\ Lacks(Localhost, {"@"}) /\ Lacks(Localhost, {"?"})
    BY MarksLacked DEF UrlMarks
  <2>6. Named(u)
    BY <2>3, <2>4 DEF Named
  <2>7. Placed(u)
    BY <1>1, <2>3, <2>4, <2>5 DEF Placed
  <2>8. Ended(u)
    BY <2>3, <2>4, <2>5 DEF Ended
  <2>9. Hosted(u) = u
    BY <2>2, <2>3 DEF Hosted
  <2> QED BY <2>2, <2>3, <2>4, <2>6, <2>7, <2>8, <2>9 DEF WellParted
<1>2. CASE ~(v.port # NoPart /\ v.host = NoPart)
  BY <1>2 DEF Hosted
<1> QED BY <1>1, <1>2

(* Texts of URLs.                                                          *)
UrlTexts == Seq(AllUrlChars)

(* A text that is two texts in a row.                                      *)
Joins(w, x, y) == x \in UrlTexts /\ y \in UrlTexts /\ w = x \o y

(* Two texts in a row are a text.                                          *)
LEMMA JoinedIs ==
  ASSUME NEW x, NEW y, NEW w, Joins(w, x, y)
  PROVE  w \in UrlTexts /\ Len(w) = Len(x) + Len(y) /\ Len(x) \in Nat /\ Len(y) \in Nat
BY DEF Joins, UrlTexts

(* What a text holds, it holds in two parts.                               *)
LEMMA HeldWithin ==
  ASSUME NEW t \in UrlTexts, NEW x, NEW y, NEW w, Joins(w, x, y),
         NEW off \in Nat, Holds(t, off, w), NEW next, next = off + Len(x)
  PROVE  Holds(t, off, x) /\ Holds(t, next, y)
<1>1. Len(x) \in Nat /\ Len(y) \in Nat /\ Len(t) \in Nat
  BY DEF Joins, UrlTexts
<1>2. w \in UrlTexts /\ Len(w) = Len(x) + Len(y)
  BY JoinedIs
<1>3. /\ \A i \in 1..Len(x) : w[i] = x[i]
      /\ \A i \in 1..Len(y) : w[Len(x) + i] = y[i]
  BY DEF Joins, UrlTexts
<1>4. off + Len(w) <= Len(t) /\ \A i \in 1..Len(w) : t[off + i] = w[i]
  BY DEF Holds
<1>5. Holds(t, off, x)
  <2>1. off + Len(x) <= Len(t) /\ \A i \in 1..Len(x) : i \in 1..Len(w)
    BY <1>1, <1>2, <1>4
  <2> QED BY <1>3, <1>4, <2>1 DEF Holds
<1>6. Holds(t, next, y)
  <2>1. next + Len(y) <= Len(t)
    BY <1>1, <1>2, <1>4
  <2>2. ASSUME NEW i \in 1..Len(y) PROVE t[next + i] = y[i]
    <3>1. Len(x) + i \in 1..Len(w) /\ off + (Len(x) + i) = next + i
      BY <1>1, <1>2
    <3> QED BY <1>3, <1>4, <3>1
  <2> QED BY <2>1, <2>2 DEF Holds
<1> QED BY <1>5, <1>6

(* Six pieces in a row, and where each of them then is.                    *)
SixJoined(t, A, B, C, D, E, F) == t = A \o B \o C \o D \o E \o F
SixPlaced(t, A, B, C, D, E, F, a, s, b, c, d) ==
  /\ t \in UrlTexts /\ Len(t) = a + s + b + c + d + Len(F)
  /\ Holds(t, 0, A) /\ Holds(t, a, B) /\ Holds(t, a + s, C) /\ Holds(t, a + s + b, D)
  /\ Holds(t, a + s + b + c, E) /\ Holds(t, a + s + b + c + d, F)

(* A text of six pieces holds each of them behind those before it.         *)
LEMMA SixHeld ==
  ASSUME NEW A \in UrlTexts, NEW B \in UrlTexts, NEW C \in UrlTexts, NEW D \in UrlTexts,
         NEW E \in UrlTexts, NEW F \in UrlTexts, NEW t, SixJoined(t, A, B, C, D, E, F),
         NEW a, a = Len(A), NEW s, s = Len(B), NEW b, b = Len(C), NEW c, c = Len(D), NEW d, d = Len(E)
  PROVE  SixPlaced(t, A, B, C, D, E, F, a, s, b, c, d)
<1> DEFINE t2 == A \o B
           t3 == t2 \o C
           t4 == t3 \o D
           t5 == t4 \o E
<1>1. /\ a \in Nat /\ s \in Nat /\ b \in Nat /\ c \in Nat /\ d \in Nat /\ Len(F) \in Nat
  BY DEF UrlTexts
<1>2. Joins(t2, A, B)
  BY DEF Joins
<1>3. t2 \in UrlTexts /\ Len(t2) = a + s
  BY <1>2, JoinedIs
<1> HIDE DEF t2
<1>4. Joins(t3, t2, C)
  BY <1>3 DEF Joins
<1>5. t3 \in UrlTexts /\ Len(t3) = a + s + b
  BY <1>3, <1>4, JoinedIs
<1>6. t = t3 \o D \o E \o F
  BY DEF t2, SixJoined
<1> HIDE DEF t3
<1>7. Joins(t4, t3, D)
  BY <1>5 DEF Joins
<1>8. t4 \in UrlTexts /\ Len(t4) = a + s + b + c
  BY <1>5, <1>7, JoinedIs
<1> HIDE DEF t4
<1>9. Joins(t5, t4, E)
  BY <1>8 DEF Joins
<1>10. t5 \in UrlTexts /\ Len(t5) = a + s + b + c + d
  BY <1>8, <1>9, JoinedIs
<1>11. Joins(t, t5, F)
  BY <1>6, <1>10 DEF Joins, t4
<1>12. t \in UrlTexts /\ Len(t) = a + s + b + c + d + Len(F)
  BY <1>10, <1>11, JoinedIs
<1>13. Holds(t, 0, t)
  BY <1>12 DEF Holds, UrlTexts
<1> HIDE DEF t5
<1>14. Holds(t, 0, t5) /\ Holds(t, a + s + b + c + d, F)
  <2>1. 0 \in Nat /\ a + s + b + c + d = 0 + Len(t5)
    BY <1>1, <1>10
  <2> QED BY ONLY <1>11, <1>12, <1>13, <2>1, HeldWithin
<1>15. Holds(t, 0, t4) /\ Holds(t, a + s + b + c, E)
  <2>1. 0 \in Nat /\ a + s + b + c = 0 + Len(t4)
    BY <1>1, <1>8
  <2> QED BY ONLY <1>9, <1>12, <1>14, <2>1, HeldWithin
<1>16. Holds(t, 0, t3) /\ Holds(t, a + s + b, D)
  <2>1. 0 \in Nat /\ a + s + b = 0 + Len(t3)
    BY <1>1, <1>5
  <2> QED BY ONLY <1>7, <1>12, <1>15, <2>1, HeldWithin
<1>17. Holds(t, 0, t2) /\ Holds(t, a + s, C)
  <2>1. 0 \in Nat /\ a + s = 0 + Len(t2)
    BY <1>1, <1>3
  <2> QED BY ONLY <1>4, <1>12, <1>16, <2>1, HeldWithin
<1>18. Holds(t, 0, A) /\ Holds(t, a, B)
  <2>1. 0 \in Nat /\ a = 0 + Len(A)
    BY <1>1
  <2> QED BY ONLY <1>2, <1>12, <1>17, <2>1, HeldWithin
<1> QED BY <1>12, <1>14, <1>15, <1>16, <1>17, <1>18 DEF SixPlaced

(* Where spif_url_unparse() writes the parts: the protocol in a places, the *)
(* slashes in s, user and password in b, host and port in c, the path in d. *)
Laid(t, u, a, s, b, c, d) ==
  /\ a \in Nat /\ s \in Nat /\ b \in Nat /\ c \in Nat /\ d \in Nat
  /\ t \in Seq(AllUrlChars) /\ a + s + b + c + d <= Len(t)
LaidProto(t, u, a, s) ==
  /\ IF u.proto = NoPart THEN a = 0
     ELSE a = Len(u.proto) + 1 /\ Holds(t, 0, u.proto) /\ t[a] = ":"
  /\ IF u.host = NoPart THEN s = 0 ELSE s = 2 /\ t[a + 1] = "/" /\ t[a + 2] = "/"
LaidUserAt(t, o, user, passwd, b) ==
  /\ Holds(t, o, user) /\ t[o + b] = "@"
  /\ IF passwd = NoPart THEN b = Len(user) + 1
     ELSE /\ b = Len(user) + Len(passwd) + 2
          /\ t[o + Len(user) + 1] = ":" /\ Holds(t, o + Len(user) + 1, passwd)
LaidUser(t, u, o, b) ==
  IF u.user = NoPart THEN b = 0 ELSE LaidUserAt(t, o, u.user, u.passwd, b)
LaidHostAt(t, h, host, port, c) ==
  /\ Holds(t, h, host)
  /\ IF port = NoPart THEN c = Len(host)
     ELSE /\ c = Len(host) + Len(port) + 1
          /\ t[h + Len(host) + 1] = ":" /\ Holds(t, h + Len(host) + 1, port)
LaidHost(t, u, h, c) ==
  IF u.host = NoPart THEN c = 0 ELSE LaidHostAt(t, h, u.host, u.port, c)
LaidPath(t, u, p, d) ==
  IF u.path = NoPart THEN d = 0 ELSE d = Len(u.path) /\ Holds(t, p, u.path)
LaidQuery(t, u, q) ==
  IF u.query = NoPart THEN Len(t) = q
  ELSE Len(t) = q + 1 + Len(u.query) /\ t[q + 1] = "?" /\ Holds(t, q + 1, u.query)

(* The marks are texts.                                                    *)
LEMMA CharsAre ==
  /\ \A x \in {":", "/", "@", "?"} : <<x>> \in UrlTexts /\ Len(<<x>>) = 1 /\ <<x>>[1] = x
  /\ <<"/", "/">> \in UrlTexts /\ Len(<<"/", "/">>) = 2
  /\ <<"/", "/">>[1] = "/" /\ <<"/", "/">>[2] = "/"
  /\ <<>> \in UrlTexts /\ Len(<<>>) = 0
BY DEF AllUrlChars, UrlChars, UrlTexts

(* What is written for a user.                                             *)
WithUser(w, user, passwd) == w = user \o Led(<<":">>, passwd) \o <<"@">>

(* User and password, with their marks, are where they have been put ...   *)
LEMMA UserLaid ==
  ASSUME NEW t \in UrlTexts, NEW o \in Nat, NEW user \in UrlTexts, NEW passwd \in UrlParts,
         NEW w, WithUser(w, user, passwd),
         NEW b, b = Len(w)
  PROVE  w \in UrlTexts /\ (Holds(t, o, w) => LaidUserAt(t, o, user, passwd, b))
<1> DEFINE AtSign == <<"@">>
           Colon == <<":">>
           m == Led(Colon, passwd)
           x == user \o m
<1>1. /\ AtSign \in UrlTexts /\ Len(AtSign) = 1 /\ AtSign[1] = "@"
      /\ Colon \in UrlTexts /\ Len(Colon) = 1 /\ Colon[1] = ":"
      /\ <<>> \in UrlTexts /\ Len(<<>>) = 0
  BY CharsAre
<1>2. w = x \o AtSign /\ x = user \o m
  BY DEF WithUser
<1>3. passwd # NoPart => passwd \in UrlTexts
  BY DEF UrlParts, UrlTexts
<1> HIDE DEF AtSign, Colon
<1>4. /\ passwd = NoPart => m = <<>>
      /\ passwd # NoPart => Joins(m, Colon, passwd)
  BY <1>1, <1>3 DEF Joins, Led
<1> HIDE DEF m, x
<1>5. m \in UrlTexts
  BY <1>1, <1>4, JoinedIs
<1>6. Joins(x, user, m)
  BY <1>2, <1>5 DEF Joins
<1>7. x \in UrlTexts
  BY <1>6, JoinedIs
<1>8. Joins(w, x, AtSign)
  BY <1>1, <1>2, <1>7 DEF Joins
<1>9. w \in UrlTexts
  BY <1>8, JoinedIs
<1>10. /\ Len(x) \in Nat /\ Len(user) \in Nat /\ Len(m) \in Nat
       /\ Len(w) = Len(x) + 1 /\ Len(x) = Len(user) + Len(m)
  BY <1>1, <1>6, <1>8, JoinedIs
<1>11. ASSUME Holds(t, o, w)
       PROVE  /\ Holds(t, o, user) /\ t[o + Len(w)] = "@"
              /\ IF passwd = NoPart THEN Len(w) = Len(user) + 1
                 ELSE /\ Len(w) = Len(user) + Len(passwd) + 2
                      /\ t[o + Len(user) + 1] = ":" /\ Holds(t, o + Len(user) + 1, passwd)
  <2>1. Holds(t, o, x) /\ Holds(t, o + Len(x), AtSign)
    <3>1. t \in UrlTexts /\ o \in Nat /\ o + Len(x) = o + Len(x)
      OBVIOUS
    <3> QED BY ONLY <1>8, <1>11, <3>1, HeldWithin
  <2>2. Holds(t, o, user) /\ Holds(t, o + Len(user), m)
    <3>1. t \in UrlTexts /\ o \in Nat /\ o + Len(user) = o + Len(user)
      OBVIOUS
    <3> QED BY ONLY <1>6, <2>1, <3>1, HeldWithin
  <2>3. t[o + Len(w)] = "@"
    <3>1. o + Len(w) = (o + Len(x)) + 1
      <4>1. o \in Nat
        OBVIOUS
      <4> QED BY ONLY <1>10, <4>1
    <3>2. 1 \in 1..Len(AtSign)
      BY <1>1
    <3>3. t[(o + Len(x)) + 1] = AtSign[1]
      BY <2>1, <3>2 DEF Holds
    <3> QED BY <1>1, <3>1, <3>3
  <2>4. CASE passwd = NoPart
    <3>1. Len(w) = Len(user) + 1
      BY <1>1, <1>4, <1>10, <2>4
    <3> QED BY <2>2, <2>3, <2>4, <3>1
  <2>5. CASE passwd # NoPart
    <3>1. Joins(m, Colon, passwd)
      BY <1>4, <2>5
    <3>2. /\ Len(passwd) \in Nat /\ Len(m) = 1 + Len(passwd)
      BY <1>1, <3>1, JoinedIs
    <3>3. Holds(t, o + Len(user), Colon) /\ Holds(t, o + Len(user) + 1, passwd)
      <4>1. t \in UrlTexts /\ o + Len(user) \in Nat /\ o + Len(user) + 1 = (o + Len(user)) + Len(Colon)
        BY <1>1, <1>10
      <4> QED BY ONLY <2>2, <3>1, <4>1, HeldWithin
    <3>4. t[o + Len(user) + 1] = ":"
      <4>1. 1 \in 1..Len(Colon)
        BY <1>1
      <4> QED BY <1>1, <3>3, <4>1 DEF Holds
    <3>5. Len(w) = Len(user) + Len(passwd) + 2
      BY <1>10, <3>2
    <3> QED BY <2>2, <2>3, <2>5, <3>3, <3>4, <3>5
  <2> QED BY <2>4, <2>5
<1> QED BY <1>9, <1>11 DEF LaidUserAt

(* What is written for a host.                                             *)
WithHost(w, host, port) == w = host \o Led(<<":">>, port)

(* ... and so are host and port.                                           *)
LEMMA HostLaid ==
  ASSUME NEW t \in UrlTexts, NEW o \in Nat, NEW host \in UrlTexts, NEW port \in UrlParts,
         NEW w, WithHost(w, host, port),
         NEW c, c = Len(w)
  PROVE  w \in UrlTexts /\ (Holds(t, o, w) => LaidHostAt(t, o, host, port, c))
<1> DEFINE Colon == <<":">>
           m == Led(Colon, port)
<1>1. /\ Colon \in UrlTexts /\ Len(Colon) = 1 /\ Colon[1] = ":"
      /\ <<>> \in UrlTexts /\ Len(<<>>) = 0
  BY CharsAre
<1>2. w = host \o m
  BY DEF WithHost
<1>3. port # NoPart => port \in UrlTexts
  BY DEF UrlParts, UrlTexts
<1> HIDE DEF Colon
<1>4. /\ port = NoPart => m = <<>>
      /\ port # NoPart => Joins(m, Colon, port)
  BY <1>1, <1>3 DEF Joins, Led
<1> HIDE DEF m
<1>5. m \in UrlTexts
  BY <1>1, <1>4, JoinedIs
<1>6. Joins(w, host, m)
  BY <1>2, <1>5 DEF Joins
<1>7. w \in UrlTexts /\ Len(host) \in Nat /\ Len(m) \in Nat /\ Len(w) = Len(host) + Len(m)
  BY <1>6, JoinedIs
<1>8. ASSUME Holds(t, o, w)
      PROVE  /\ Holds(t, o, host)
             /\ IF port = NoPart THEN Len(w) = Len(host)
                ELSE /\ Len(w) = Len(host) + Len(port) + 1
                     /\ t[o + Len(host) + 1] = ":" /\ Holds(t, o + Len(host) + 1, port)
  <2>1. Holds(t, o, host) /\ Holds(t, o + Len(host), m)
    <3>1. t \in UrlTexts /\ o \in Nat /\ o + Len(host) = o + Len(host)
      OBVIOUS
    <3> QED BY ONLY <1>6, <1>8, <3>1, HeldWithin
  <2>2. CASE port = NoPart
    <3>1. Len(w) = Len(host)
      BY <1>1, <1>4, <1>7, <2>2
    <3> QED BY <2>1, <2>2, <3>1
  <2>3. CASE port # NoPart
    <3>1. Joins(m, Colon, port)
      BY <1>4, <2>3
    <3>2. Len(port) \in Nat /\ Len(m) = 1 + Len(port)
      BY <1>1, <3>1, JoinedIs
    <3>3. Holds(t, o + Len(host), Colon) /\ Holds(t, o + Len(host) + 1, port)
      <4>1. t \in UrlTexts /\ o + Len(host) \in Nat /\ o + Len(host) + 1 = (o + Len(host)) + Len(Colon)
        BY <1>1, <1>7
      <4> QED BY ONLY <2>1, <3>1, <4>1, HeldWithin
    <3>4. t[o + Len(host) + 1] = ":"
      <4>1. 1 \in 1..Len(Colon)
        BY <1>1
      <4> QED BY <1>1, <3>3, <4>1 DEF Holds
    <3>5. Len(w) = Len(host) + Len(port) + 1
      BY <1>7, <3>2
    <3> QED BY <2>1, <2>3, <3>3, <3>4, <3>5
  <2> QED BY <2>2, <2>3
<1> QED BY <1>7, <1>8 DEF LaidHostAt

(* A part with a mark in front of it or behind it, and nothing for NULL.   *)
LEMMA LeadIs ==
  ASSUME NEW part \in UrlParts, NEW c \in {":", "?"}
  PROVE  /\ Led(<<c>>, part) \in UrlTexts /\ Following(part, <<c>>) \in UrlTexts
         /\ part = NoPart => Led(<<c>>, part) = <<>> /\ Following(part, <<c>>) = <<>>
         /\ part # NoPart => /\ part \in UrlTexts
                             /\ Joins(Led(<<c>>, part), <<c>>, part)
                             /\ Joins(Following(part, <<c>>), part, <<c>>)
<1> DEFINE C == <<c>>
<1>1. C \in UrlTexts /\ <<>> \in UrlTexts
  BY CharsAre
<1> HIDE DEF C
<1>2. part = NoPart => Led(C, part) = <<>> /\ Following(part, C) = <<>>
  BY DEF Led, Following
<1>3. part # NoPart => /\ part \in UrlTexts /\ Joins(Led(C, part), C, part)
                       /\ Joins(Following(part, C), part, C)
  <2>1. part # NoPart => part \in UrlTexts
    BY DEF UrlParts, UrlTexts
  <2> QED BY <1>1, <2>1 DEF Led, Following, Joins
<1>4. Led(C, part) \in UrlTexts /\ Following(part, C) \in UrlTexts
  BY <1>1, <1>2, <1>3, JoinedIs
<1> QED BY <1>2, <1>3, <1>4 DEF C

(* The pieces that spif_url_unparse() puts one behind the other.           *)
ProtoText(u) == Following(u.proto, <<":">>)
SlashText(u) == IF u.host # NoPart THEN <<"/", "/">> ELSE <<>>
UserText(u) == IF u.user # NoPart THEN u.user \o Led(<<":">>, u.passwd) \o <<"@">> ELSE <<>>
HostText(u) == IF u.host # NoPart THEN u.host \o Led(<<":">>, u.port) ELSE <<>>
PathText(u) == Led(<<>>, u.path)
QueryText(u) == Led(<<"?">>, u.query)

(* The parts of a URL are texts, or NULL.                                  *)
LEMMA PartsTyped ==
  ASSUME NEW u \in UrlRec
  PROVE  /\ u.proto \in UrlParts /\ u.user \in UrlParts /\ u.passwd \in UrlParts
         /\ u.host \in UrlParts /\ u.port \in UrlParts /\ u.path \in UrlParts
         /\ u.query \in UrlParts
         /\ \A part \in UrlParts : part # NoPart => part \in UrlTexts
BY DEF UrlRec, UrlParts, UrlTexts

(* Where the protocol is written.                                          *)
LEMMA ProtoLaid ==
  ASSUME NEW u \in UrlRec, NEW t \in UrlTexts, NEW a, a = Len(ProtoText(u))
  PROVE  /\ ProtoText(u) \in UrlTexts
         /\ Holds(t, 0, ProtoText(u)) =>
              IF u.proto = NoPart THEN a = 0
              ELSE a = Len(u.proto) + 1 /\ Holds(t, 0, u.proto) /\ t[a] = ":"
<1> DEFINE A == ProtoText(u)
           Colon == <<":">>
<1>1. u.proto \in UrlParts
  BY PartsTyped
<1>2. /\ A \in UrlTexts /\ (u.proto = NoPart => A = <<>>)
      /\ u.proto # NoPart => u.proto \in UrlTexts /\ Joins(A, u.proto, Colon)
  BY <1>1, LeadIs DEF ProtoText
<1>3. /\ Colon \in UrlTexts /\ Len(Colon) = 1 /\ Colon[1] = ":" /\ Len(<<>>) = 0
  BY CharsAre
<1> HIDE DEF Colon, A
<1>4. CASE u.proto = NoPart
  BY <1>2, <1>3, <1>4 DEF A
<1>5. ASSUME u.proto # NoPart, Holds(t, 0, A)
      PROVE  a = Len(u.proto) + 1 /\ Holds(t, 0, u.proto) /\ t[a] = ":"
  <2>1. Joins(A, u.proto, Colon)
    BY <1>2, <1>5
  <2>2. Len(u.proto) \in Nat /\ a = Len(u.proto) + 1
    BY <1>3, <2>1, JoinedIs DEF A
  <2>3. Holds(t, 0, u.proto) /\ Holds(t, Len(u.proto), Colon)
    <3>1. 0 \in Nat /\ Len(u.proto) = 0 + Len(u.proto) /\ t \in UrlTexts
      BY <2>2
    <3> QED BY ONLY <1>5, <2>1, <3>1, HeldWithin
  <2>4. t[Len(u.proto) + 1] = ":"
    <3>1. 1 \in 1..Len(Colon)
      BY <1>3
    <3> QED BY <1>3, <2>3, <3>1 DEF Holds
  <2> QED BY <2>2, <2>3, <2>4
<1> QED BY <1>2, <1>4, <1>5 DEF A

(* Where the two slashes are written, which stand for a host.              *)
LEMMA SlashesLaid ==
  ASSUME NEW u \in UrlRec, NEW t \in UrlTexts, NEW a \in Nat, NEW s, s = Len(SlashText(u))
  PROVE  /\ SlashText(u) \in UrlTexts
         /\ Holds(t, a, SlashText(u)) =>
              IF u.host = NoPart THEN s = 0 ELSE s = 2 /\ t[a + 1] = "/" /\ t[a + 2] = "/"
<1> DEFINE Slashes == <<"/", "/">>
<1>1. /\ Slashes \in UrlTexts /\ Len(Slashes) = 2 /\ Slashes[1] = "/" /\ Slashes[2] = "/"
      /\ <<>> \in UrlTexts /\ Len(<<>>) = 0
  BY CharsAre
<1>2. SlashText(u) = IF u.host # NoPart THEN Slashes ELSE <<>>
  BY DEF SlashText
<1> HIDE DEF Slashes
<1>3. Holds(t, a, Slashes) => t[a + 1] = "/" /\ t[a + 2] = "/"
  <2>1. 1 \in 1..Len(Slashes) /\ 2 \in 1..Len(Slashes)
    BY <1>1
  <2> QED BY <1>1, <2>1 DEF Holds
<1> QED BY <1>1, <1>2, <1>3

(* Where user and password are written.                                    *)
LEMMA UserTextLaid ==
  ASSUME NEW u \in UrlRec, NEW t \in UrlTexts, NEW o \in Nat, NEW b, b = Len(UserText(u))
  PROVE  /\ UserText(u) \in UrlTexts
         /\ Holds(t, o, UserText(u)) => LaidUser(t, u, o, b)
<1> DEFINE C == UserText(u)
<1>1. CASE u.user # NoPart
  <2>1. WithUser(C, u.user, u.passwd) /\ b = Len(C)
    BY <1>1 DEF UserText, WithUser
  <2>2. u.user \in UrlTexts /\ u.passwd \in UrlParts
    BY <1>1, PartsTyped
  <2>3. C \in UrlTexts /\ (Holds(t, o, C) => LaidUserAt(t, o, u.user, u.passwd, b))
    <3> HIDE DEF C
    <3> QED BY <2>1, <2>2, UserLaid
  <2> QED BY <1>1, <2>3 DEF LaidUser
<1>2. CASE u.user = NoPart
  <2>1. C = <<>>
    BY <1>2 DEF UserText
  <2> QED BY <1>2, <2>1, CharsAre DEF LaidUser
<1> QED BY <1>1, <1>2

(* Where host and port are written.                                        *)
LEMMA HostTextLaid ==
  ASSUME NEW u \in UrlRec, NEW t \in UrlTexts, NEW o \in Nat, NEW c, c = Len(HostText(u))
  PROVE  /\ HostText(u) \in UrlTexts
         /\ Holds(t, o, HostText(u)) => LaidHost(t, u, o, c)
<1> DEFINE D == HostText(u)
<1>1. CASE u.host # NoPart
  <2>1. WithHost(D, u.host, u.port) /\ c = Len(D)
    BY <1>1 DEF HostText, WithHost
  <2>2. u.host \in UrlTexts /\ u.port \in UrlParts
    BY <1>1, PartsTyped
  <2>3. D \in UrlTexts /\ (Holds(t, o, D) => LaidHostAt(t, o, u.host, u.port, c))
    <3> HIDE DEF D
    <3> QED BY <2>1, <2>2, HostLaid
  <2> QED BY <1>1, <2>3 DEF LaidHost
<1>2. CASE u.host = NoPart
  <2>1. D = <<>>
    BY <1>2 DEF HostText
  <2> QED BY <1>2, <2>1, CharsAre DEF LaidHost
<1> QED BY <1>1, <1>2

(* Where the path is written.                                              *)
LEMMA PathLaid ==
  ASSUME NEW u \in UrlRec, NEW t \in UrlTexts, NEW o \in Nat, NEW d, d = Len(PathText(u))
  PROVE  /\ PathText(u) \in UrlTexts
         /\ Holds(t, o, PathText(u)) => LaidPath(t, u, o, d)
<1>1. u.path = NoPart => PathText(u) = <<>>
  BY DEF PathText, Led
<1>2. u.path # NoPart => u.path \in UrlTexts /\ PathText(u) = u.path
  <2>1. u.path # NoPart => u.path \in UrlTexts
    BY PartsTyped
  <2>2. \A x \in UrlTexts : <<>> \o x = x
    BY DEF UrlTexts
  <2> QED BY <2>1, <2>2 DEF PathText, Led
<1> QED BY <1>1, <1>2, CharsAre DEF LaidPath

(* Where the query is written.                                             *)
LEMMA QueryLaid ==
  ASSUME NEW u \in UrlRec, NEW t \in UrlTexts, NEW o \in Nat
  PROVE  /\ QueryText(u) \in UrlTexts
         /\ Holds(t, o, QueryText(u)) /\ Len(t) = o + Len(QueryText(u)) => LaidQuery(t, u, o)
<1> DEFINE F == QueryText(u)
           QMark == <<"?">>
<1>1. u.query \in UrlParts
  BY PartsTyped
<1>2. /\ F \in UrlTexts /\ (u.query = NoPart => F = <<>>)
      /\ u.query # NoPart => u.query \in UrlTexts /\ Joins(F, QMark, u.query)
  BY <1>1, LeadIs DEF QueryText
<1>3. QMark \in UrlTexts /\ Len(QMark) = 1 /\ QMark[1] = "?" /\ Len(<<>>) = 0
  BY CharsAre
<1> HIDE DEF QMark, F
<1>4. ASSUME u.query = NoPart, Len(t) = o + Len(F) PROVE LaidQuery(t, u, o)
  BY <1>2, <1>3, <1>4 DEF LaidQuery
<1>5. ASSUME u.query # NoPart, Holds(t, o, F), Len(t) = o + Len(F) PROVE LaidQuery(t, u, o)
  <2>1. Joins(F, QMark, u.query)
    BY <1>2, <1>5
  <2>2. Len(u.query) \in Nat /\ Len(F) = 1 + Len(u.query)
    BY <1>3, <2>1, JoinedIs
  <2>3. Holds(t, o, QMark) /\ Holds(t, o + 1, u.query)
    <3>1. o + 1 = o + Len(QMark) /\ o \in Nat /\ t \in UrlTexts
      BY <1>3
    <3> QED BY ONLY <1>5, <2>1, <3>1, HeldWithin
  <2>4. t[o + 1] = "?"
    <3>1. 1 \in 1..Len(QMark)
      BY <1>3
    <3> QED BY <1>3, <2>3, <3>1 DEF Holds
  <2>5. Len(t) = o + 1 + Len(u.query)
    <3>1. o \in Nat
      OBVIOUS
    <3>2. Len(t) = o + Len(F)
      BY <1>5
    <3>3. \A n, m, l : o \in Nat /\ l \in Nat /\ n = o + m /\ m = 1 + l => n = o + 1 + l
      OBVIOUS
    <3> QED BY ONLY <2>2, <3>1, <3>2, <3>3
  <2> QED BY <1>5, <2>3, <2>4, <2>5 DEF LaidQuery
<1> QED BY <1>2, <1>4, <1>5 DEF F

(* So there is a place for each part in the text of a URL.                 *)
LEMMA UnparseLaid ==
  ASSUME NEW u \in UrlRec, Hosted(u) = u, NEW t, t = Unparse(u)
  PROVE  \E a, s, b, c, d :
           /\ Laid(t, u, a, s, b, c, d)
           /\ LaidProto(t, u, a, s) /\ LaidUser(t, u, a + s, b) /\ LaidHost(t, u, a + s + b, c)
           /\ LaidPath(t, u, a + s + b + c, d) /\ LaidQuery(t, u, a + s + b + c + d)
<1> DEFINE a == Len(ProtoText(u))
           s == Len(SlashText(u))
           b == Len(UserText(u))
           c == Len(HostText(u))
           d == Len(PathText(u))
           f == Len(QueryText(u))
<1>1. SixJoined(t, ProtoText(u), SlashText(u), UserText(u), HostText(u), PathText(u), QueryText(u))
  BY DEF SixJoined, Unparse, ProtoText, SlashText, UserText, HostText, PathText, QueryText
<1>2. /\ ProtoText(u) \in UrlTexts /\ SlashText(u) \in UrlTexts /\ UserText(u) \in UrlTexts
      /\ HostText(u) \in UrlTexts /\ PathText(u) \in UrlTexts /\ QueryText(u) \in UrlTexts
  <2>1. <<>> \in UrlTexts /\ 0 \in Nat
    BY CharsAre
  <2> QED BY <2>1, ProtoLaid, SlashesLaid, UserTextLaid, HostTextLaid, PathLaid, QueryLaid
<1>3. a \in Nat /\ s \in Nat /\ b \in Nat /\ c \in Nat /\ d \in Nat /\ f \in Nat
  BY <1>2 DEF UrlTexts
<1>4. /\ a = Len(ProtoText(u)) /\ s = Len(SlashText(u)) /\ b = Len(UserText(u))
      /\ c = Len(HostText(u)) /\ d = Len(PathText(u)) /\ f = Len(QueryText(u))
  OBVIOUS
<1> HIDE DEF a, s, b, c, d, f
<1>5. /\ t \in UrlTexts /\ Len(t) = a + s + b + c + d + f
      /\ Holds(t, 0, ProtoText(u)) /\ Holds(t, a, SlashText(u)) /\ Holds(t, a + s, UserText(u))
      /\ Holds(t, a + s + b, HostText(u)) /\ Holds(t, a + s + b + c, PathText(u))
      /\ Holds(t, a + s + b + c + d, QueryText(u))
  <2>1. SixPlaced(t, ProtoText(u), SlashText(u), UserText(u), HostText(u), PathText(u), QueryText(u),
                  a, s, b, c, d)
    BY ONLY <1>1, <1>2, <1>4, SixHeld
  <2> QED BY <1>4, <2>1 DEF SixPlaced
<1>6. /\ a + s \in Nat /\ a + s + b \in Nat /\ a + s + b + c \in Nat /\ a + s + b + c + d \in Nat
  BY <1>3
<1>7. Laid(t, u, a, s, b, c, d)
  BY <1>5, <1>3 DEF Laid, UrlTexts
<1>8. LaidProto(t, u, a, s)
  <2>1. IF u.proto = NoPart THEN a = 0
        ELSE a = Len(u.proto) + 1 /\ Holds(t, 0, u.proto) /\ t[a] = ":"
    BY ONLY <1>5, <1>4, ProtoLaid, u \in UrlRec
  <2>2. IF u.host = NoPart THEN s = 0 ELSE s = 2 /\ t[a + 1] = "/" /\ t[a + 2] = "/"
    BY ONLY <1>5, <1>3, <1>4, SlashesLaid, u \in UrlRec
  <2> QED BY <2>1, <2>2 DEF LaidProto
<1>9. LaidUser(t, u, a + s, b)
  BY ONLY <1>5, <1>4, <1>6, UserTextLaid, u \in UrlRec
<1>10. LaidHost(t, u, a + s + b, c)
  BY ONLY <1>5, <1>4, <1>6, HostTextLaid, u \in UrlRec
<1>11. LaidPath(t, u, a + s + b + c, d)
  BY ONLY <1>5, <1>4, <1>6, PathLaid, u \in UrlRec
<1>12. LaidQuery(t, u, a + s + b + c + d)
  <2>1. Len(t) = (a + s + b + c + d) + Len(QueryText(u))
    BY <1>5, <1>4
  <2> QED BY ONLY <1>5, <1>6, <2>1, QueryLaid, u \in UrlRec
<1> QED BY <1>7, <1>8, <1>9, <1>10, <1>11, <1>12

(* A stretch of the text has no mark that its part does not have.          *)
LEMMA HeldLacks ==
  ASSUME NEW t, NEW off \in Nat, NEW x, Len(x) \in Nat, Holds(t, off, x), NEW M, Lacks(x, M),
         NEW last, last = off + Len(x)
  PROVE  \A i \in (off + 1)..last : t[i] \notin M
<1> SUFFICES ASSUME NEW i \in (off + 1)..last PROVE t[i] \notin M
  OBVIOUS
<1>1. i - off \in 1..Len(x) /\ off + (i - off) = i
  OBVIOUS
<1>2. t[off + (i - off)] = x[i - off]
  BY <1>1 DEF Holds
<1> QED BY <1>1, <1>2 DEF Lacks

(* What the user's and the host's place, the path and the query hold.      *)
UserBlock(t, u, o, b) ==
  /\ u.user = NoPart => b = 0
  /\ \A i \in (o + 1)..(o + b) : t[i] # "/"
  /\ u.user # NoPart => /\ b >= 1 /\ t[o + b] = "@" /\ \A i \in (o + 1)..(o + b - 1) : t[i] # "@"
                        /\ Len(u.user) \in Nat /\ Holds(t, o, u.user)
                        /\ \A i \in (o + 1)..(o + Len(u.user)) : t[i] # ":"
  /\ u.user # NoPart /\ u.passwd = NoPart => b = Len(u.user) + 1
  /\ u.passwd # NoPart => /\ b = Len(u.user) + Len(u.passwd) + 2 /\ Len(u.passwd) \in Nat
                          /\ t[o + Len(u.user) + 1] = ":" /\ Holds(t, o + Len(u.user) + 1, u.passwd)
  /\ u.path = NoPart => \A i \in (o + 1)..(o + b) : t[i] # "?"

HostBlock(t, u, h, c) ==
  /\ u.host = NoPart => c = 0
  /\ \A i \in (h + 1)..(h + c) : t[i] # "/"
  /\ u.user = NoPart => \A i \in (h + 1)..(h + c) : t[i] # "@"
  /\ u.path = NoPart => \A i \in (h + 1)..(h + c) : t[i] # "?"
  /\ u.host # NoPart => /\ c >= 1 /\ Len(u.host) \in Nat /\ Holds(t, h, u.host)
                        /\ \A i \in (h + 1)..(h + Len(u.host)) : t[i] # ":"
  /\ u.host # NoPart /\ u.port = NoPart => c = Len(u.host)
  /\ u.port # NoPart => /\ c = Len(u.host) + Len(u.port) + 1 /\ Len(u.port) \in Nat
                        /\ t[h + Len(u.host) + 1] = ":" /\ Holds(t, h + Len(u.host) + 1, u.port)

(* So it is with the parts that parsing has made.                          *)
LEMMA UserBlockIs ==
  ASSUME NEW u, NEW known, WellParted(u, known), NEW t, NEW o \in Nat, NEW b \in Nat,
         LaidUser(t, u, o, b)
  PROVE  UserBlock(t, u, o, b)
<1>1. u \in UrlRec /\ Named(u) /\ Ended(u)
  BY DEF WellParted
<1>2. /\ Lacks(u.user, {":", "@", "/"}) /\ Lacks(u.passwd, {"@", "/"})
      /\ (u.passwd # NoPart => u.user # NoPart)
  BY <1>1 DEF Named
<1>3. u.path = NoPart => Lacks(u.user, {"?"}) /\ Lacks(u.passwd, {"?"})
  BY <1>1 DEF Ended
<1>4. /\ u.user # NoPart => Len(u.user) \in Nat
      /\ u.passwd # NoPart => Len(u.passwd) \in Nat
  <2>1. \A x \in UrlTexts : Len(x) \in Nat
    BY DEF UrlTexts
  <2> QED BY <1>1, <2>1, PartsTyped
<1>5. CASE u.user = NoPart
  BY <1>2, <1>5 DEF LaidUser, UserBlock
<1>6. CASE u.user # NoPart /\ u.passwd = NoPart
  <2> DEFINE l == Len(u.user)
             e == o + l
  <2>1. l \in Nat /\ Holds(t, o, u.user) /\ t[o + b] = "@" /\ b = l + 1
    BY <1>4, <1>6 DEF LaidUser, LaidUserAt
  <2>2. e = o + Len(u.user)
    OBVIOUS
  <2>3. \A i \in (o + 1)..e : t[i] \notin {":", "@", "/"}
    <3> HIDE DEF e
    <3> QED BY <1>2, <2>1, <2>2, HeldLacks
  <2>4. u.path = NoPart => \A i \in (o + 1)..e : t[i] \notin {"?"}
    <3> HIDE DEF e
    <3> QED BY <1>3, <2>1, <2>2, HeldLacks
  <2>5. \A i \in (o + 1)..(o + b) : i \in (o + 1)..e \/ i = o + b
    BY <2>1
  <2>6. \A i \in (o + 1)..(o + b) : t[i] # "/" /\ (u.path = NoPart => t[i] # "?")
    BY <2>1, <2>3, <2>4, <2>5
  <2>7. \A i \in (o + 1)..(o + b - 1) : t[i] # "@"
    BY <2>1, <2>3
  <2>8. \A i \in (o + 1)..(o + Len(u.user)) : t[i] # ":"
    BY <2>3
  <2>9. b >= 1 /\ b = Len(u.user) + 1
    BY <2>1
  <2> HIDE DEF l, e
  <2> QED BY <1>4, <1>6, <2>1, <2>6, <2>7, <2>8, <2>9 DEF UserBlock
<1>7. CASE u.user # NoPart /\ u.passwd # NoPart
  <2> DEFINE l == Len(u.user)
             k == Len(u.passwd)
             e == o + l
             n == o + l + 1
             f == n + k
  <2>1. /\ l \in Nat /\ k \in Nat /\ Holds(t, o, u.user) /\ t[o + b] = "@" /\ b = l + k + 2
        /\ t[n] = ":" /\ Holds(t, n, u.passwd)
    BY <1>4, <1>7 DEF LaidUser, LaidUserAt
  <2>2. e = o + Len(u.user) /\ f = n + Len(u.passwd) /\ l = Len(u.user) /\ k = Len(u.passwd)
    OBVIOUS
  <2> HIDE DEF l, k
  <2>3. n \in Nat /\ e \in Nat /\ f \in Nat /\ n = e + 1 /\ o + b = f + 1
    BY <2>1
  <2> HIDE DEF e, n, f
  <2>4. \A i \in (o + 1)..e : t[i] \notin {":", "@", "/"}
    BY <1>2, <2>1, <2>2, HeldLacks
  <2>5. u.path = NoPart => \A i \in (o + 1)..e : t[i] \notin {"?"}
    BY <1>3, <2>1, <2>2, HeldLacks
  <2>6. \A i \in (n + 1)..f : t[i] \notin {"@", "/"}
    BY <1>2, <2>1, <2>2, <2>3, HeldLacks
  <2>7. u.path = NoPart => \A i \in (n + 1)..f : t[i] \notin {"?"}
    BY <1>3, <2>1, <2>2, <2>3, HeldLacks
  <2>8. \A i \in (o + 1)..(o + b) : i \in (o + 1)..e \/ i = n \/ i \in (n + 1)..f \/ i = o + b
    BY <2>3
  <2>9. \A i \in (o + 1)..(o + b) : t[i] # "/" /\ (u.path = NoPart => t[i] # "?")
    BY <2>1, <2>4, <2>5, <2>6, <2>7, <2>8
  <2>10. \A i \in (o + 1)..(o + b - 1) : t[i] # "@"
    <3>1. \A i \in (o + 1)..(o + b - 1) : i \in (o + 1)..e \/ i = n \/ i \in (n + 1)..f
      BY <2>3
    <3> QED BY <2>1, <2>4, <2>6, <3>1
  <2>11. \A i \in (o + 1)..(o + Len(u.user)) : t[i] # ":"
    BY <2>2, <2>4
  <2>12. b >= 1 /\ b = Len(u.user) + Len(u.passwd) + 2
    <3>1. b >= 1
      BY <2>1
    <3> QED BY <2>1, <3>1 DEF l, k
  <2>13. t[o + Len(u.user) + 1] = ":" /\ Holds(t, o + Len(u.user) + 1, u.passwd)
    BY <2>1, <2>2 DEF n
  <2> QED BY <1>4, <1>7, <2>1, <2>9, <2>10, <2>11, <2>12, <2>13 DEF UserBlock
<1> QED BY <1>5, <1>6, <1>7

(* Host and port of such parts.                                            *)
LEMMA HostBlockIs ==
  ASSUME NEW u, NEW known, WellParted(u, known), u.port # NoPart => u.host # NoPart,
         NEW t, NEW o \in Nat, NEW c \in Nat, LaidHost(t, u, o, c)
  PROVE  HostBlock(t, u, o, c)
<1>1. u \in UrlRec /\ Placed(u) /\ Ended(u)
  BY DEF WellParted
<1>2. /\ Lacks(u.host, {":", "/"}) /\ Lacks(u.port, {"/"})
      /\ u.host # NoPart /\ u.port = NoPart => Len(u.host) > 0
      /\ u.user = NoPart => Lacks(u.host, {"@"}) /\ Lacks(u.port, {"@"})
  BY <1>1 DEF Placed
<1>3. u.path = NoPart => Lacks(u.host, {"?"}) /\ Lacks(u.port, {"?"})
  BY <1>1 DEF Ended
<1>4. /\ u.host # NoPart => Len(u.host) \in Nat
      /\ u.port # NoPart => Len(u.port) \in Nat
  <2>1. \A x \in UrlTexts : Len(x) \in Nat
    BY DEF UrlTexts
  <2> QED BY <1>1, <2>1, PartsTyped
<1>5. CASE u.host = NoPart
  BY <1>5 DEF LaidHost, HostBlock
<1>6. CASE u.host # NoPart /\ u.port = NoPart
  <2> DEFINE e == o + c
  <2>1. c = Len(u.host) /\ Holds(t, o, u.host) /\ e = o + Len(u.host) /\ Len(u.host) \in Nat
    BY <1>4, <1>6 DEF LaidHost, LaidHostAt
  <2> HIDE DEF e
  <2>2. \A i \in (o + 1)..e : t[i] \notin {":", "/"}
    BY <1>2, <2>1, HeldLacks
  <2>3. u.path = NoPart => \A i \in (o + 1)..e : t[i] \notin {"?"}
    BY <1>3, <2>1, HeldLacks
  <2>4. u.user = NoPart => \A i \in (o + 1)..e : t[i] \notin {"@"}
    BY <1>2, <2>1, HeldLacks
  <2>5. c >= 1 /\ \A i \in (o + 1)..(o + Len(u.host)) : t[i] # ":"
    BY <1>2, <1>6, <2>1, <2>2
  <2> QED BY <1>6, <2>1, <2>2, <2>3, <2>4, <2>5 DEF HostBlock, e
<1>7. CASE u.host # NoPart /\ u.port # NoPart
  <2> DEFINE l == Len(u.host)
             k == Len(u.port)
             e == o + l
             n == o + l + 1
             f == n + k
  <2>1. /\ l \in Nat /\ k \in Nat /\ Holds(t, o, u.host) /\ c = l + k + 1
        /\ t[n] = ":" /\ Holds(t, n, u.port)
    BY <1>4, <1>7 DEF LaidHost, LaidHostAt
  <2>2. e = o + Len(u.host) /\ f = n + Len(u.port) /\ l = Len(u.host) /\ k = Len(u.port)
    OBVIOUS
  <2> HIDE DEF l, k
  <2>3. n \in Nat /\ e \in Nat /\ f \in Nat /\ n = e + 1 /\ o + c = f
    BY <2>1
  <2> HIDE DEF e, n, f
  <2>4. \A i \in (o + 1)..e : t[i] \notin {":", "/"}
    BY <1>2, <2>1, <2>2, HeldLacks
  <2>5. u.path = NoPart => \A i \in (o + 1)..e : t[i] \notin {"?"}
    BY <1>3, <2>1, <2>2, HeldLacks
  <2>6. u.user = NoPart => \A i \in (o + 1)..e : t[i] \notin {"@"}
    BY <1>2, <2>1, <2>2, HeldLacks
  <2>7. \A i \in (n + 1)..f : t[i] \notin {"/"}
    BY <1>2, <2>1, <2>2, <2>3, HeldLacks
  <2>8. u.path = NoPart => \A i \in (n + 1)..f : t[i] \notin {"?"}
    BY <1>3, <2>1, <2>2, <2>3, HeldLacks
  <2>9. u.user = NoPart => \A i \in (n + 1)..f : t[i] \notin {"@"}
    BY <1>2, <2>1, <2>2, <2>3, HeldLacks
  <2>10. \A i \in (o + 1)..(o + c) : i \in (o + 1)..e \/ i = n \/ i \in (n + 1)..f
    BY <2>3
  <2>11. \A i \in (o + 1)..(o + c) : t[i] # "/" /\ (u.path = NoPart => t[i] # "?")
                                     /\ (u.user = NoPart => t[i] # "@")
    BY <2>1, <2>4, <2>5, <2>6, <2>7, <2>8, <2>9, <2>10
  <2>12. \A i \in (o + 1)..(o + Len(u.host)) : t[i] # ":"
    BY <2>2, <2>4
  <2>13. c >= 1 /\ c = Len(u.host) + Len(u.port) + 1
    <3>1. c >= 1
      BY <2>1
    <3> QED BY <2>1, <3>1 DEF l, k
  <2>14. t[o + Len(u.host) + 1] = ":" /\ Holds(t, o + Len(u.host) + 1, u.port)
    BY <2>1, <2>2 DEF n
  <2> QED BY <1>4, <1>7, <2>1, <2>11, <2>12, <2>13, <2>14 DEF HostBlock
<1> QED BY <1>5, <1>6, <1>7

(* The path, which begins with its slash, and the query behind it.         *)
PathBlock(t, u, p, d) ==
  /\ u.path = NoPart => d = 0
  /\ \A i \in (p + 1)..(p + d) : t[i] # "?"
  /\ u.path # NoPart => d >= 1 /\ d = Len(u.path) /\ t[p + 1] = "/" /\ Holds(t, p, u.path)
QueryBlock(t, u, q) ==
  /\ q <= Len(t)
  /\ u.query = NoPart => Len(t) = q
  /\ u.query # NoPart => /\ Len(u.query) \in Nat /\ Len(t) = q + 1 + Len(u.query)
                         /\ t[q + 1] = "?" /\ Holds(t, q + 1, u.query)
  /\ u.path = NoPart => \A i \in (q + 1)..Len(t) : t[i] # "/"

(* The path of such parts.                                                 *)
LEMMA PathBlockIs ==
  ASSUME NEW u, NEW known, WellParted(u, known), NEW t, NEW p \in Nat, NEW d \in Nat,
         LaidPath(t, u, p, d)
  PROVE  PathBlock(t, u, p, d)
<1>1. u \in UrlRec /\ Lacks(u.path, {"?"}) /\ (u.path # NoPart => Len(u.path) >= 1 /\ u.path[1] = "/")
  BY DEF WellParted, Ended
<1>2. CASE u.path = NoPart
  BY <1>2 DEF LaidPath, PathBlock
<1>3. CASE u.path # NoPart
  <2> DEFINE e == p + d
  <2>1. d = Len(u.path) /\ Holds(t, p, u.path) /\ e = p + Len(u.path) /\ d >= 1 /\ 1 \in 1..Len(u.path)
    BY <1>1, <1>3 DEF LaidPath
  <2> HIDE DEF e
  <2>2. \A i \in (p + 1)..e : t[i] \notin {"?"}
    BY <1>1, <2>1, HeldLacks
  <2>3. t[p + 1] = "/"
    BY <1>1, <1>3, <2>1 DEF Holds
  <2> QED BY <1>3, <2>1, <2>2, <2>3 DEF PathBlock, e
<1> QED BY <1>2, <1>3

(* The query of such parts.                                                *)
LEMMA QueryBlockIs ==
  ASSUME NEW u, NEW known, WellParted(u, known), NEW t, Len(t) \in Nat,
         NEW q \in Nat, LaidQuery(t, u, q)
  PROVE  QueryBlock(t, u, q)
<1>1. u \in UrlRec /\ (u.path = NoPart => Lacks(u.query, {"/"}))
  BY DEF WellParted, Ended
<1>2. CASE u.query = NoPart
  BY <1>2 DEF LaidQuery, QueryBlock
<1>3. CASE u.query # NoPart
  <2> DEFINE n == q + 1
             l == Len(t)
  <2>1. Len(u.query) \in Nat
    <3>1. u.query \in UrlTexts
      BY <1>1, <1>3, PartsTyped
    <3> QED BY <3>1 DEF UrlTexts
  <2>2. l = n + Len(u.query) /\ t[n] = "?" /\ Holds(t, n, u.query)
    BY ONLY <1>3, LaidQuery(t, u, q), Zenon DEF LaidQuery
  <2>3. n = q + 1 /\ l = Len(t) /\ n \in Nat
    OBVIOUS
  <2> HIDE DEF n, l
  <2>4. u.path = NoPart => \A i \in (n + 1)..l : t[i] \notin {"/"}
    BY <1>1, <2>1, <2>2, <2>3, HeldLacks
  <2>5. u.path = NoPart => \A i \in (q + 1)..Len(t) : t[i] # "/"
    <3>1. \A i \in (q + 1)..Len(t) : i = n \/ i \in (n + 1)..l
      BY <2>3
    <3> QED BY <2>2, <2>4, <3>1
  <2>6. q <= Len(t)
    <3>1. \A m, k : q \in Nat /\ k \in Nat /\ n = q + 1 /\ m = n + k => q <= m
      OBVIOUS
    <3> QED BY ONLY <2>1, <2>2, <2>3, <3>1, q \in Nat
  <2> QED BY <1>3, <2>1, <2>2, <2>5, <2>6 DEF QueryBlock, n, l
<1> QED BY <1>2, <1>3

(* What is known of the text of a URL.                                     *)
Read(t, u, a, s, b, c, d, o, h, p, q) ==
  /\ a \in Nat /\ s \in Nat /\ b \in Nat /\ c \in Nat /\ d \in Nat
  /\ o \in Nat /\ h \in Nat /\ p \in Nat /\ q \in Nat
  /\ o = a + s /\ h = o + b /\ p = h + c /\ q = p + d
  /\ t \in UrlTexts /\ Len(t) \in Nat /\ LaidProto(t, u, a, s)
  /\ UserBlock(t, u, o, b) /\ HostBlock(t, u, h, c) /\ PathBlock(t, u, p, d) /\ QueryBlock(t, u, q)

(* The URL has a host if it has a port.                                    *)
Whole(u, known) == WellParted(u, known) /\ Hosted(u) = u /\ (u.port # NoPart => u.host # NoPart)

(* All this holds of the text that unparsing gives.                        *)
LEMMA TextRead ==
  ASSUME NEW u, NEW known, Whole(u, known), NEW t, t = Unparse(u)
  PROVE  \E a, s, b, c, d, o, h, p, q : Read(t, u, a, s, b, c, d, o, h, p, q)
<1>1. u \in UrlRec /\ WellParted(u, known) /\ Hosted(u) = u /\ (u.port # NoPart => u.host # NoPart)
  BY DEF Whole, WellParted
<1>2. PICK a, s, b, c, d :
           /\ Laid(t, u, a, s, b, c, d)
           /\ LaidProto(t, u, a, s) /\ LaidUser(t, u, a + s, b) /\ LaidHost(t, u, a + s + b, c)
           /\ LaidPath(t, u, a + s + b + c, d) /\ LaidQuery(t, u, a + s + b + c + d)
  BY <1>1, UnparseLaid
<1> DEFINE o == a + s
           h == o + b
           p == h + c
           q == p + d
<1>3. /\ a \in Nat /\ s \in Nat /\ b \in Nat /\ c \in Nat /\ d \in Nat
      /\ t \in UrlTexts /\ Len(t) \in Nat
  BY <1>2 DEF Laid, UrlTexts
<1>4. /\ LaidUser(t, u, o, b) /\ LaidHost(t, u, h, c) /\ LaidPath(t, u, p, d) /\ LaidQuery(t, u, q)
  BY <1>2
<1>5. o = a + s /\ h = o + b /\ p = h + c /\ q = p + d
  OBVIOUS
<1> HIDE DEF o, h, p, q
<1>6. o \in Nat /\ h \in Nat /\ p \in Nat /\ q \in Nat
  <2>1. o \in Nat
    BY <1>3, <1>5
  <2>2. h \in Nat
    BY <1>3, <1>5, <2>1
  <2>3. p \in Nat
    BY <1>3, <1>5, <2>2
  <2> QED BY <1>3, <1>5, <2>1, <2>2, <2>3
<1>7. UserBlock(t, u, o, b)
  BY <1>1, <1>3, <1>4, <1>6, UserBlockIs
<1>8. HostBlock(t, u, h, c)
  BY <1>1, <1>3, <1>4, <1>6, HostBlockIs
<1>9. PathBlock(t, u, p, d)
  BY <1>1, <1>3, <1>4, <1>6, PathBlockIs
<1>10. QueryBlock(t, u, q)
  BY <1>1, <1>3, <1>4, <1>6, QueryBlockIs
<1>11. Read(t, u, a, s, b, c, d, o, h, p, q)
  BY <1>2, <1>3, <1>5, <1>6, <1>7, <1>8, <1>9, <1>10 DEF Read
<1> QED BY <1>11

(* How a URL without a host is read as having a protocol, or a host.       *)
TakenForProto(u) ==
  /\ u.host = NoPart /\ u.passwd # NoPart /\ u.proto = NoPart
  /\ \A i \in 1..Len(u.user) : IsAlnum(u.user[i])
TakenForHost(u) ==
  u.host = NoPart /\ u.user = NoPart /\ u.path # NoPart /\ Len(u.path) > 1 /\ u.path[2] = "/"

(* Those are the ambiguous ones.                                           *)
LEMMA AmbiguousIs ==
  ASSUME NEW u
  PROVE  Ambiguous(u) <=> TakenForProto(u) \/ TakenForHost(u)
BY DEF Ambiguous, TakenForProto, TakenForHost

(* A text has a protocol when its first colon has only letters before it.  *)
LEMMA ProtoFound ==
  ASSUME NEW t \in UrlTexts, NEW p \in 1..Len(t), t[p] = ":", \A i \in 1..(p - 1) : t[i] \notin UrlMarks
  PROVE  HasProto(t) /\ PastProto(t) = p + 1
<1>1. Len(t) \in Nat /\ p \in Nat /\ t \in Seq(AllUrlChars) /\ 1 \in Nat /\ 1 <= Len(t) + 1
  BY DEF UrlTexts
<1>2. IsFirst(t, ":", 1, p)
  BY <1>1 DEF IsFirst, UrlMarks
<1>3. Strchr(t, ":", 1) = p
  BY <1>1, <1>2, StrchrIs
<1>4. \A i \in 1..(p - 1) : IsAlnum(t[i])
  BY DEF IsAlnum, UrlMarks
<1>5. HasProto(t)
  BY <1>3, <1>4 DEF HasProto, StrchrFinds
<1> QED BY <1>3, <1>5 DEF PastProto

(* It has none when another mark, or the end, comes before any colon.      *)
LEMMA NoProtoFound ==
  ASSUME NEW t \in UrlTexts, NEW k \in Nat, k >= 1, k <= Len(t) => t[k] \in UrlMarks \ {":"},
         k = Len(t) + 1 \/ k <= Len(t), \A i \in 1..(k - 1) : t[i] # ":"
  PROVE  ~HasProto(t)
<1>1. Len(t) \in Nat /\ t \in Seq(AllUrlChars) /\ 1 \in Nat /\ 1 <= Len(t) + 1
  BY DEF UrlTexts
<1> DEFINE p == Strchr(t, ":", 1)
<1>2. IsFirst(t, ":", 1, p) /\ p \in Nat
  BY <1>1, StrchrIs
<1>3. HasProto(t) => p <= Len(t) /\ \A i \in 1..(p - 1) : IsAlnum(t[i])
  BY DEF HasProto, StrchrFinds
<1> HIDE DEF p
<1>4. SUFFICES ASSUME p <= Len(t), \A i \in 1..(p - 1) : IsAlnum(t[i]) PROVE FALSE
  BY <1>3
<1>5. p \in 1..Len(t) /\ t[p] = ":"
  BY <1>1, <1>2, <1>4 DEF IsFirst
<1>6. ~(p < k)
  BY <1>1, <1>5
<1>7. k <= Len(t) /\ k # p
  BY <1>1, <1>5, <1>6
<1>8. k \in 1..(p - 1)
  BY <1>1, <1>5, <1>6, <1>7
<1> QED BY <1>4, <1>7, <1>8 DEF IsAlnum, UrlMarks

(* Where the text of a URL begins, if there is no protocol and no host.    *)
LEMMA HeadOfRest ==
  ASSUME NEW u, NEW known, Whole(u, known), NEW t,
         NEW a, NEW s, NEW b, NEW c, NEW d, NEW o, NEW h, NEW p, NEW q,
         Read(t, u, a, s, b, c, d, o, h, p, q),
         u.host = NoPart, u.user = NoPart
  PROVE  /\ s = 0 /\ b = 0 /\ c = 0 /\ o = a /\ h = a /\ p = a
         /\ IF u.path # NoPart THEN a + d <= Len(t) /\ d >= 1 /\ t[a + 1] = "/"
            ELSE /\ d = 0 /\ (u.query = NoPart => Len(t) = a)
                 /\ u.query # NoPart => t[a + 1] = "?" /\ a + 1 <= Len(t)
<1>1. /\ a \in Nat /\ s \in Nat /\ b \in Nat /\ c \in Nat /\ d \in Nat /\ Len(t) \in Nat
      /\ o = a + s /\ h = o + b /\ p = h + c /\ q = p + d
  BY DEF Read
<1>2. /\ LaidProto(t, u, a, s) /\ UserBlock(t, u, o, b) /\ HostBlock(t, u, h, c)
      /\ PathBlock(t, u, p, d) /\ QueryBlock(t, u, q)
  BY DEF Read
<1>3. s = 0
  BY <1>2 DEF LaidProto
<1>4. b = 0
  BY <1>2 DEF UserBlock
<1>5. c = 0
  BY <1>2 DEF HostBlock
<1>6. o = a /\ h = a /\ p = a /\ q = a + d
  BY <1>1, <1>3, <1>4, <1>5
<1>7. u.path # NoPart => d >= 1 /\ t[a + 1] = "/"
  BY <1>2, <1>6 DEF PathBlock
<1>8. u.path = NoPart => d = 0
  BY <1>2 DEF PathBlock
<1>9. q <= Len(t)
  BY <1>2 DEF QueryBlock
<1>10. u.query = NoPart => Len(t) = q
  BY <1>2 DEF QueryBlock
<1>11. u.query # NoPart => t[q + 1] = "?" /\ q + 1 <= Len(t)
  <2>1. u.query # NoPart => t[q + 1] = "?" /\ Len(u.query) \in Nat /\ Len(t) = q + 1 + Len(u.query)
    BY <1>2 DEF QueryBlock
  <2>2. q \in Nat
    BY <1>1, <1>6
  <2>3. \A n, l : q \in Nat /\ l \in Nat /\ n = q + 1 + l => q + 1 <= n
    OBVIOUS
  <2> QED BY ONLY <2>1, <2>2, <2>3
<1>12. CASE u.path # NoPart
  BY <1>3, <1>4, <1>5, <1>6, <1>7, <1>9, <1>12
<1>13. CASE u.path = NoPart
  <2>1. q = a
    BY <1>1, <1>6, <1>8, <1>13
  <2> QED BY <1>3, <1>4, <1>5, <1>6, <1>8, <1>10, <1>11, <1>13, <2>1
<1> QED BY <1>12, <1>13

(* The protocol comes back, except for a user taken for one.               *)
LEMMA ProtoRead ==
  ASSUME NEW u, NEW known, Whole(u, known), NEW t,
         NEW a, NEW s, NEW b, NEW c, NEW d, NEW o, NEW h, NEW p, NEW q,
         Read(t, u, a, s, b, c, d, o, h, p, q)
  PROVE  /\ TakenForProto(u) => HasProto(t) /\ u.proto = NoPart
         /\ ~TakenForProto(u) => PastProto(t) = a + 1 /\ ProtoOf(t) = u.proto
<1>1. /\ a \in Nat /\ s \in Nat /\ b \in Nat /\ c \in Nat /\ d \in Nat /\ Len(t) \in Nat
      /\ o = a + s /\ h = o + b /\ p = h + c /\ q = p + d
      /\ o \in Nat /\ h \in Nat /\ p \in Nat /\ q \in Nat
      /\ t \in UrlTexts
  BY DEF Read
<1>2. /\ LaidProto(t, u, a, s) /\ UserBlock(t, u, o, b) /\ HostBlock(t, u, h, c)
      /\ PathBlock(t, u, p, d) /\ QueryBlock(t, u, q)
  BY DEF Read
<1>3. /\ u \in UrlRec /\ Named(u) /\ (u.port # NoPart => u.host # NoPart)
  BY DEF Whole, WellParted
<1>4. /\ Lacks(u.proto, UrlMarks) /\ Lacks(u.user, {":", "@", "/"})
      /\ (u.passwd # NoPart => u.user # NoPart)
  BY <1>3 DEF Named
<1>5. p + d <= Len(t)
  BY <1>1, <1>2 DEF QueryBlock
<1>6. CASE u.proto # NoPart
  <2> DEFINE l == Len(u.proto)
  <2>1. u.proto \in UrlTexts
    BY <1>3, <1>6, PartsTyped
  <2>2. l \in Nat
    BY <2>1 DEF UrlTexts
  <2>3. a = l + 1 /\ Holds(t, 0, u.proto) /\ t[a] = ":"
    BY <1>2, <1>6 DEF LaidProto
  <2>4. \A i \in (0 + 1)..(0 + l) : t[i] \notin UrlMarks
    <3>1. 0 + l = 0 + Len(u.proto) /\ Len(u.proto) \in Nat /\ 0 \in Nat
      BY <2>2
    <3> HIDE DEF l
    <3> QED BY <1>4, <2>3, <3>1, HeldLacks
  <2> HIDE DEF l
  <2>5. a \in 1..Len(t) /\ \A i \in 1..(a - 1) : t[i] \notin UrlMarks
    BY <1>1, <1>5, <2>2, <2>3, <2>4
  <2>6. HasProto(t) /\ PastProto(t) = a + 1
    BY <1>1, <2>3, <2>5, ProtoFound
  <2>7. SubSeq(t, 1, l) = u.proto
    <3>1. /\ t \in Seq(AllUrlChars) /\ u.proto \in Seq(AllUrlChars) /\ 0 \in Nat /\ 1 = 0 + 1
          /\ l = 0 + Len(u.proto)
      BY <1>1, <2>1, <2>2 DEF UrlTexts, l
    <3> QED BY <2>3, <3>1, HeldPiece
  <2>8. PastProto(t) - 2 = l
    BY <1>1, <2>2, <2>3, <2>6
  <2>9. ProtoOf(t) = u.proto
    BY <2>6, <2>7, <2>8 DEF ProtoOf
  <2> QED BY <1>6, <2>6, <2>9 DEF TakenForProto
<1>7. CASE u.proto = NoPart
  <2>1. a = 0
    BY <1>2, <1>7 DEF LaidProto
  <2>2. ASSUME ~HasProto(t) PROVE PastProto(t) = a + 1 /\ ProtoOf(t) = u.proto
    BY <1>7, <2>1, <2>2 DEF PastProto, ProtoOf
  <2>3. CASE u.host # NoPart
    <3>1. s = 2 /\ t[1] = "/"
      BY <1>2, <2>1, <2>3 DEF LaidProto
    <3>2. 1 <= Len(t) /\ 1 \in Nat /\ \A i \in 1..(1 - 1) : t[i] # ":"
      BY <1>1, <1>5, <2>1, <3>1
    <3>3. ~HasProto(t)
      BY <1>1, <3>1, <3>2, NoProtoFound DEF UrlMarks
    <3> QED BY <2>2, <2>3, <3>3 DEF TakenForProto
  <2>4. CASE u.host = NoPart /\ u.user = NoPart
    <3>1. /\ IF u.path # NoPart THEN a + d <= Len(t) /\ d >= 1 /\ t[a + 1] = "/"
             ELSE /\ u.query = NoPart => Len(t) = a
                  /\ u.query # NoPart => t[a + 1] = "?" /\ a + 1 <= Len(t)
      BY <2>4, HeadOfRest
    <3>2. 1 <= Len(t) => t[1] \in UrlMarks \ {":"}
      BY <1>1, <2>1, <3>1 DEF UrlMarks
    <3>3. 1 \in Nat /\ (1 = Len(t) + 1 \/ 1 <= Len(t)) /\ \A i \in 1..(1 - 1) : t[i] # ":"
      BY <1>1
    <3>4. ~HasProto(t)
      BY <1>1, <3>2, <3>3, NoProtoFound
    <3> QED BY <1>4, <2>2, <2>4, <3>4 DEF TakenForProto
  <2>5. CASE u.host = NoPart /\ u.user # NoPart
    <3> DEFINE l == Len(u.user)
    <3>0. u.user \in UrlTexts
      BY <1>3, <2>5, PartsTyped
    <3>1. s = 0 /\ o = 0
      BY <1>1, <1>2, <2>1, <2>5 DEF LaidProto
    <3>2. /\ b >= 1 /\ t[o + b] = "@" /\ l \in Nat /\ Holds(t, o, u.user)
          /\ \A i \in (o + 1)..(o + l) : t[i] # ":"
          /\ u.passwd = NoPart => b = l + 1
          /\ u.passwd # NoPart => /\ t[o + l + 1] = ":" /\ b = l + Len(u.passwd) + 2
                                  /\ Len(u.passwd) \in Nat
      BY <1>2, <2>5 DEF UserBlock
    <3>3. l = Len(u.user)
      OBVIOUS
    <3>4. u.passwd # NoPart => b >= l + 2
      <4>1. \A k : l \in Nat /\ k \in Nat /\ b = l + k + 2 => b >= l + 2
        OBVIOUS
      <4> QED BY ONLY <3>2, <4>1
    <3> HIDE DEF l
    <3>5. /\ t[b] = "@" /\ (\A i \in 1..l : t[i] # ":") /\ b <= Len(t) /\ b \in 1..Len(t)
      BY <1>1, <1>5, <3>1, <3>2
    <3>6. \A i \in 1..l : t[i] = u.user[i]
      BY <3>1, <3>2, <3>3 DEF Holds
    <3>7. CASE u.passwd = NoPart
      <4>1. \A i \in 1..(b - 1) : t[i] # ":"
        BY <3>2, <3>5, <3>7
      <4>2. ~HasProto(t)
        BY <1>1, <3>5, <4>1, NoProtoFound DEF UrlMarks
      <4> QED BY <2>2, <3>7, <4>2 DEF TakenForProto
    <3>8. CASE u.passwd # NoPart /\ ~ \A i \in 1..l : IsAlnum(u.user[i])
      <4>1. PICK k \in 1..l : ~IsAlnum(u.user[k])
        BY <3>8
      <4>2. t[k] \in UrlMarks /\ t[k] # ":"
        BY <3>5, <3>6, <4>1 DEF IsAlnum, UrlMarks
      <4>3. k \in Nat /\ k >= 1 /\ k <= Len(t) /\ \A i \in 1..(k - 1) : t[i] # ":"
        BY <1>1, <3>2, <3>4, <3>5, <3>8
      <4>4. ~HasProto(t)
        BY <1>1, <4>2, <4>3, NoProtoFound
      <4> QED BY <2>2, <3>3, <3>8, <4>4 DEF TakenForProto
    <3>9. CASE u.passwd # NoPart /\ \A i \in 1..l : IsAlnum(u.user[i])
      <4>1. t[l + 1] = ":" /\ l + 1 \in 1..Len(t) /\ l + 1 - 1 = l
        BY <1>1, <3>1, <3>2, <3>4, <3>5, <3>9
      <4>2. \A i \in 1..l : t[i] \notin UrlMarks
        BY <3>6, <3>9 DEF IsAlnum, UrlMarks
      <4>3. HasProto(t)
        <5> DEFINE k == l + 1
        <5>1. k - 1 = l
          BY <3>2
        <5>2. k \in 1..Len(t) /\ t[k] = ":" /\ \A i \in 1..(k - 1) : t[i] \notin UrlMarks
          BY <4>1, <4>2, <5>1
        <5> HIDE DEF k
        <5> QED BY <1>1, <5>2, ProtoFound
      <4>4. TakenForProto(u)
        BY <1>7, <2>5, <3>3, <3>9 DEF TakenForProto
      <4> QED BY <1>7, <4>3, <4>4
    <3> QED BY <3>7, <3>8, <3>9
  <2> QED BY <2>3, <2>4, <2>5
<1> QED BY <1>6, <1>7

(* So does what the slashes say, except for a path taken for a host.       *)
LEMMA SlashesRead ==
  ASSUME NEW u, NEW known, Whole(u, known), NEW t,
         NEW a, NEW s, NEW b, NEW c, NEW d, NEW o, NEW h, NEW p, NEW q,
         Read(t, u, a, s, b, c, d, o, h, p, q), ~TakenForProto(u)
  PROVE  /\ TakenForHost(u) => PastSlashes(t) = a + 3
         /\ ~TakenForHost(u) => PastSlashes(t) = o + 1
<1>1. /\ a \in Nat /\ s \in Nat /\ b \in Nat /\ c \in Nat /\ d \in Nat /\ Len(t) \in Nat
      /\ o = a + s /\ h = o + b /\ p = h + c /\ q = p + d
      /\ o \in Nat /\ h \in Nat /\ p \in Nat /\ q \in Nat
      /\ t \in UrlTexts
  BY DEF Read
<1>2. /\ LaidProto(t, u, a, s) /\ UserBlock(t, u, o, b) /\ HostBlock(t, u, h, c)
      /\ PathBlock(t, u, p, d) /\ QueryBlock(t, u, q)
  BY DEF Read
<1>3. q <= Len(t) /\ p + d <= Len(t)
  BY <1>1, <1>2 DEF QueryBlock
<1>4. PastProto(t) = a + 1
  BY ProtoRead
<1>5. PastSlashes(t) = IF a + 1 < Len(t) /\ t[a + 1] = "/" /\ t[a + 2] = "/" THEN a + 3 ELSE a + 1
  <2>1. a + 1 + 1 = a + 2 /\ a + 1 + 2 = a + 3
    BY <1>1
  <2> QED BY <1>4, <2>1 DEF PastSlashes
<1>6. CASE u.host # NoPart
  <2>1. s = 2 /\ t[a + 1] = "/" /\ t[a + 2] = "/"
    BY <1>2, <1>6 DEF LaidProto
  <2>2. a + 1 < Len(t) /\ o + 1 = a + 3
    BY <1>1, <1>3, <2>1
  <2> QED BY <1>5, <1>6, <2>1, <2>2 DEF TakenForHost
<1>7. CASE u.host = NoPart /\ u.user # NoPart
  <2>1. s = 0 /\ o = a
    BY <1>1, <1>2, <1>7 DEF LaidProto
  <2>2. b >= 1 /\ \A i \in (o + 1)..(o + b) : t[i] # "/"
    BY <1>2, <1>7 DEF UserBlock
  <2>3. t[a + 1] # "/"
    BY <1>1, <2>1, <2>2
  <2> QED BY <1>5, <1>7, <2>1, <2>3 DEF TakenForHost
<1>8. CASE u.host = NoPart /\ u.user = NoPart
  <2>1. /\ s = 0 /\ b = 0 /\ c = 0 /\ o = a /\ h = a /\ p = a
        /\ IF u.path # NoPart THEN a + d <= Len(t) /\ d >= 1 /\ t[a + 1] = "/"
           ELSE /\ d = 0 /\ (u.query = NoPart => Len(t) = a)
                /\ u.query # NoPart => t[a + 1] = "?" /\ a + 1 <= Len(t)
    BY <1>8, HeadOfRest
  <2>2. CASE u.path = NoPart
    <3>1. ~(a + 1 < Len(t) /\ t[a + 1] = "/")
      BY <1>1, <2>1, <2>2
    <3> QED BY <1>5, <2>1, <2>2, <3>1 DEF TakenForHost
  <2>3. CASE u.path # NoPart
    <3>1. d = Len(u.path) /\ Holds(t, p, u.path) /\ d >= 1
      BY <1>2, <2>3 DEF PathBlock
    <3>2. CASE d = 1
      <4>1. q = a + 1
        BY <1>1, <2>1, <3>2
      <4>2. a + 1 < Len(t) => t[a + 2] = "?"
        <5>1. /\ u.query = NoPart => Len(t) = q
              /\ u.query # NoPart => t[q + 1] = "?"
          BY <1>2 DEF QueryBlock
        <5>2. q + 1 = a + 2
          BY <1>1, <4>1
        <5> QED BY <1>1, <4>1, <5>1, <5>2
      <4>3. t[a + 2] = "?" => t[a + 2] # "/"
        OBVIOUS
      <4> QED BY <1>5, <2>1, <3>1, <3>2, <4>2, <4>3 DEF TakenForHost
    <3>3. CASE d > 1
      <4>1. t[p + 2] = u.path[2]
        <5>1. 2 \in 1..Len(u.path)
          BY <1>1, <3>1, <3>3
        <5> QED BY <3>1, <5>1 DEF Holds
      <4>2. a + 1 < Len(t)
        BY <1>1, <2>1, <2>3, <3>3
      <4>3. TakenForHost(u) <=> u.path[2] = "/"
        BY <1>8, <2>3, <3>1, <3>3 DEF TakenForHost
      <4>4. t[a + 1] = "/" /\ t[a + 2] = u.path[2] /\ o = a
        BY <2>1, <2>3, <4>1
      <4>5. PastSlashes(t) = IF u.path[2] = "/" THEN a + 3 ELSE a + 1
        BY ONLY <1>5, <4>2, <4>4
      <4>6. TakenForHost(u) => PastSlashes(t) = a + 3
        BY <4>3, <4>5
      <4>7. ~TakenForHost(u) => PastSlashes(t) = o + 1
        <5>1. ASSUME ~TakenForHost(u) PROVE PastSlashes(t) = a + 1
          BY <4>3, <4>5, <5>1
        <5> QED BY <4>4, <5>1
      <4> QED BY <4>6, <4>7
    <3>4. d = 1 \/ d > 1
      <4>1. d \in Nat /\ d >= 1
        BY <1>1, <3>1
      <4> QED BY ONLY <4>1
    <3> QED BY <3>2, <3>3, <3>4
  <2> QED BY <2>2, <2>3
<1> QED BY <1>6, <1>7, <1>8

(* There is one first position only.                                       *)
LEMMA OneFirst ==
  ASSUME NEW t, Len(t) \in Nat, NEW c, NEW n \in Nat, NEW p, NEW r,
         IsFirst(t, c, n, p), IsFirst(t, c, n, r)
  PROVE  p = r
<1>1. p \in Nat /\ r \in Nat
  BY DEF IsFirst
<1>2. ~(p < r)
  BY <1>1 DEF IsFirst
<1>3. ~(r < p)
  BY <1>1 DEF IsFirst
<1> QED BY <1>1, <1>2, <1>3

(* There is one end only.                                                  *)
LEMMA OneEnd ==
  ASSUME NEW t, Len(t) \in Nat, NEW start \in Nat, NEW e, NEW f,
         EndsAuthority(t, start, e), EndsAuthority(t, start, f)
  PROVE  e = f
<1>1. e \in Nat /\ f \in Nat
  BY DEF EndsAuthority
<1>2. ~(e < f)
  BY <1>1 DEF EndsAuthority
<1>3. ~(f < e)
  BY <1>1 DEF EndsAuthority
<1> QED BY <1>1, <1>2, <1>3

(* User, password, host and port end where the path begins, and the path   *)
(* where the query begins.                                                 *)
LEMMA EndRead ==
  ASSUME NEW u, NEW known, Whole(u, known), NEW t,
         NEW a, NEW s, NEW b, NEW c, NEW d, NEW o, NEW h, NEW p, NEW q,
         Read(t, u, a, s, b, c, d, o, h, p, q)
  PROVE  /\ EndsAuthority(t, o + 1, p + 1) /\ IsFirst(t, "?", p + 1, q + 1)
         /\ u.path # NoPart <=> \E i \in (o + 1)..Len(t) : t[i] = "/"
<1>1. /\ a \in Nat /\ s \in Nat /\ b \in Nat /\ c \in Nat /\ d \in Nat /\ Len(t) \in Nat
      /\ o = a + s /\ h = o + b /\ p = h + c /\ q = p + d
      /\ o \in Nat /\ h \in Nat /\ p \in Nat /\ q \in Nat
  BY DEF Read
<1>2. /\ UserBlock(t, u, o, b) /\ HostBlock(t, u, h, c)
      /\ PathBlock(t, u, p, d) /\ QueryBlock(t, u, q)
  BY DEF Read
<1>3. q <= Len(t)
  BY <1>2 DEF QueryBlock
<1>4. /\ \A i \in (o + 1)..h : t[i] # "/"
      /\ u.path = NoPart => \A i \in (o + 1)..h : t[i] # "?"
  BY <1>1, <1>2 DEF UserBlock
<1>5. /\ \A i \in (h + 1)..p : t[i] # "/"
      /\ u.path = NoPart => \A i \in (h + 1)..p : t[i] # "?"
  BY <1>1, <1>2 DEF HostBlock
<1>6. /\ \A i \in (p + 1)..q : t[i] # "?"
      /\ u.path = NoPart => d = 0
      /\ u.path # NoPart => d >= 1 /\ t[p + 1] = "/"
  BY <1>1, <1>2 DEF PathBlock
<1>7. /\ u.query = NoPart => Len(t) = q
      /\ u.query # NoPart => t[q + 1] = "?"
      /\ u.path = NoPart => \A i \in (q + 1)..Len(t) : t[i] # "/"
  BY <1>2 DEF QueryBlock
<1>8. \A i \in (o + 1)..p : t[i] # "/"
  <2>1. \A i \in (o + 1)..p : i \in (o + 1)..h \/ i \in (h + 1)..p
    BY <1>1
  <2> QED BY <1>4, <1>5, <2>1
<1>9. IsFirst(t, "?", p + 1, q + 1)
  <2>1. q + 1 <= Len(t) => t[q + 1] = "?"
    BY <1>1, <1>7
  <2> DEFINE n == p + 1
             r == q + 1
  <2>2. r \in n..(Len(t) + 1) /\ r - 1 = q
    BY <1>1, <1>3
  <2>3. r <= Len(t) => t[r] = "?"
    BY <2>1
  <2>4. \A i \in n..(r - 1) : t[i] # "?"
    BY <1>6, <2>2
  <2> HIDE DEF n, r
  <2>5. IsFirst(t, "?", n, r)
    BY <2>2, <2>3, <2>4 DEF IsFirst
  <2> QED BY <2>5 DEF n, r
<1> DEFINE start == o + 1
           end == p + 1
<1>10. end \in start..(Len(t) + 1) /\ \A i \in start..(end - 1) : t[i] # "/"
  <2>1. end \in start..(Len(t) + 1) /\ end - 1 = p
    BY <1>1, <1>3
  <2> QED BY <1>8, <2>1
<1>11. CASE u.path # NoPart
  <2>1. t[p + 1] = "/" /\ p + 1 <= Len(t) /\ p + 1 \in (o + 1)..Len(t)
    BY <1>1, <1>3, <1>6, <1>11
  <2>2. \E i \in (o + 1)..Len(t) : t[i] = "/"
    BY <2>1
  <2>3. EndsAuthority(t, start, end)
    <3>1. end <= Len(t) /\ t[end] = "/" /\ \E i \in start..Len(t) : t[i] = "/"
      BY <2>1, <2>2
    <3> HIDE DEF start, end
    <3> QED BY <1>10, <3>1 DEF EndsAuthority
  <2> QED BY <1>9, <1>11, <2>2, <2>3
<1>12. CASE u.path = NoPart
  <2>1. q = p
    BY <1>1, <1>6, <1>12
  <2>2. \A i \in (o + 1)..Len(t) : t[i] # "/"
    <3>1. \A i \in (o + 1)..Len(t) : i \in (o + 1)..p \/ i \in (q + 1)..Len(t)
      BY <1>1, <2>1
    <3> QED BY <1>7, <1>8, <1>12, <3>1
  <2>3. \A i \in (o + 1)..p : t[i] # "?"
    <3>1. \A i \in (o + 1)..p : i \in (o + 1)..h \/ i \in (h + 1)..p
      BY <1>1
    <3> QED BY <1>4, <1>5, <1>12, <3>1
  <2>4. p + 1 <= Len(t) => t[p + 1] = "?"
    BY <1>1, <1>7, <2>1
  <2>5. EndsAuthority(t, start, end)
    <3>1. end - 1 = p
      BY <1>1
    <3>2. /\ end <= Len(t) => t[end] = "?"
          /\ ~ \E i \in start..Len(t) : t[i] = "/"
          /\ \A i \in start..(end - 1) : t[i] # "?"
      BY <2>2, <2>3, <2>4, <3>1
    <3> HIDE DEF start, end
    <3> QED BY <1>10, <3>2 DEF EndsAuthority
  <2> QED BY <1>9, <1>12, <2>2, <2>5
<1> QED BY <1>11, <1>12

(* The part behind off is cut out from i to j.                             *)
PieceAt(t, off, x, i, j) ==
  /\ t \in Seq(AllUrlChars) /\ x \in Seq(AllUrlChars) /\ off \in Nat
  /\ Holds(t, off, x) /\ i = off + 1 /\ j = off + Len(x)

(* What is cut out there is that part.                                     *)
LEMMA PieceBack ==
  ASSUME NEW t, NEW off, NEW x, NEW i, NEW j, PieceAt(t, off, x, i, j)
  PROVE  SubSeq(t, i, j) = x
BY HeldPiece DEF PieceAt

(* What is cut out of the text of a URL is what was put in.                *)
LEMMA PartsComeBack ==
  ASSUME NEW u, NEW known \in {"nothing", "service"}, Whole(u, known), NEW t,
         NEW a, NEW s, NEW b, NEW c, NEW d, NEW o, NEW h, NEW p, NEW q,
         Read(t, u, a, s, b, c, d, o, h, p, q),
         NEW start, start = o + 1, NEW end, NEW query, NEW at, NEW colon, NEW host, NEW port,
         Cuts(t, start, end, query, at, colon, host, port)
  PROVE  Cut(t, known, u.proto, start, end, query, at, colon, host, port) = u
<1> DEFINE w == Cut(t, known, u.proto, start, end, query, at, colon, host, port)
           finds == \E i \in start..Len(t) : t[i] = "/"
<1>1. /\ a \in Nat /\ s \in Nat /\ b \in Nat /\ c \in Nat /\ d \in Nat /\ Len(t) \in Nat
      /\ o = a + s /\ h = o + b /\ p = h + c /\ q = p + d
      /\ o \in Nat /\ h \in Nat /\ p \in Nat /\ q \in Nat
      /\ t \in Seq(AllUrlChars)
  BY DEF Read, UrlTexts
<1>2. /\ UserBlock(t, u, o, b) /\ HostBlock(t, u, h, c)
      /\ PathBlock(t, u, p, d) /\ QueryBlock(t, u, q)
  BY DEF Read
<1>3. /\ u \in UrlRec /\ Named(u) /\ (u.port # NoPart => u.host # NoPart)
      /\ (u.proto # NoPart /\ u.port = NoPart => known = "nothing")
      /\ (u.passwd # NoPart => u.user # NoPart)
  BY DEF Whole, WellParted, Named
<1>4. Ordered(Len(t), start, end, query, at, colon, host, port)
  BY <1>1, CutsTold
<1>5. /\ start \in Nat /\ end \in Nat /\ query \in Nat /\ at \in Nat /\ colon \in Nat
      /\ host \in Nat /\ port \in Nat
      /\ host <= port /\ start <= at /\ at <= Len(t) + 1 /\ start <= colon
  BY <1>4 DEF Ordered
<1>6. /\ EndsAuthority(t, start, end) /\ IsFirst(t, "?", end, query)
      /\ IsFirst(t, "@", start, at) /\ IsFirst(t, ":", start, colon)
      /\ host = (IF at < end THEN at + 1 ELSE start)
      /\ IsFirst(t, ":", host, port)
  BY DEF Cuts
<1>7. end = p + 1
  <2>1. EndsAuthority(t, start, p + 1)
    BY EndRead
  <2> QED BY <1>1, <1>5, <1>6, <2>1, OneEnd
<1>8. query = q + 1
  <2>1. IsFirst(t, "?", end, q + 1)
    BY <1>7, EndRead
  <2> QED BY <1>1, <1>5, <1>6, <2>1, OneFirst
<1>9. u.path # NoPart <=> finds
  BY EndRead
<1>10. /\ w.user = IF at < end THEN SubSeq(t, start, (IF at < end /\ colon < at THEN colon ELSE at) - 1)
                   ELSE NoPart
       /\ w.passwd = IF at < end /\ colon < at THEN SubSeq(t, colon + 1, at - 1) ELSE NoPart
       /\ w.host = IF port < end THEN SubSeq(t, host, port - 1)
                   ELSE IF host # end THEN SubSeq(t, host, end - 1) ELSE NoPart
       /\ w.port = IF port < end THEN SubSeq(t, port + 1, end - 1)
                   ELSE IF u.proto # NoPart THEN ResolvedPort(known) ELSE NoPart
       /\ w.path = IF finds THEN SubSeq(t, end, query - 1) ELSE NoPart
       /\ w.query = IF query <= Len(t) THEN SubSeq(t, query + 1, Len(t)) ELSE NoPart
       /\ w.proto = u.proto
  BY DEF Cut
<1>11. w = [proto |-> w.proto, user |-> w.user, passwd |-> w.passwd, host |-> w.host,
            port |-> w.port, path |-> w.path, query |-> w.query]
  BY DEF Cut
<1>12. u = [proto |-> u.proto, user |-> u.user, passwd |-> u.passwd, host |-> u.host,
            port |-> u.port, path |-> u.path, query |-> u.query]
  BY <1>3 DEF UrlRec
<1> HIDE DEF w, finds
<1>13. /\ u.user # NoPart => u.user \in Seq(AllUrlChars)
       /\ u.passwd # NoPart => u.passwd \in Seq(AllUrlChars)
       /\ u.host # NoPart => u.host \in Seq(AllUrlChars)
       /\ u.port # NoPart => u.port \in Seq(AllUrlChars)
       /\ u.path # NoPart => u.path \in Seq(AllUrlChars)
       /\ u.query # NoPart => u.query \in Seq(AllUrlChars)
  BY <1>3, PartsTyped DEF UrlTexts
<1>14. u.user # NoPart => at = h /\ at < end /\ host = h + 1
  <2> SUFFICES ASSUME u.user # NoPart PROVE at = h /\ at < end /\ host = h + 1
    OBVIOUS
  <2>1. b >= 1 /\ t[o + b] = "@" /\ \A i \in (o + 1)..(o + b - 1) : t[i] # "@"
    BY <1>2 DEF UserBlock
  <2>2. h \in start..(Len(t) + 1) /\ t[h] = "@" /\ \A i \in start..(h - 1) : t[i] # "@"
    <3>1. p + d <= Len(t)
      BY <1>1, <1>2 DEF QueryBlock
    <3>2. h \in start..(Len(t) + 1) /\ h - 1 = o + b - 1
      BY <1>1, <2>1, <3>1
    <3> QED BY <1>1, <2>1, <3>2
  <2>3. IsFirst(t, "@", start, h)
    BY <2>2 DEF IsFirst
  <2>4. at = h
    BY <1>1, <1>5, <1>6, <2>3, OneFirst
  <2> QED BY <1>1, <1>6, <1>7, <2>4
<1>15. u.user = NoPart => ~(at < end) /\ host = h + 1 /\ h = o
  <2> SUFFICES ASSUME u.user = NoPart PROVE ~(at < end) /\ host = h + 1 /\ h = o
    OBVIOUS
  <2>1. b = 0 /\ h = o
    BY <1>1, <1>2 DEF UserBlock
  <2>2. \A i \in (h + 1)..p : t[i] # "@"
    BY <1>1, <1>2 DEF HostBlock
  <2>3. ~(at < end)
    <3>1. ASSUME at < end PROVE FALSE
      <4>1. at \in (h + 1)..p
        BY <1>1, <1>5, <1>7, <2>1, <3>1
      <4>2. at <= Len(t)
        <5>1. p + d <= Len(t)
          BY <1>1, <1>2 DEF QueryBlock
        <5> QED BY <1>1, <4>1, <5>1
      <4>3. t[at] = "@"
        BY <1>6, <4>2 DEF IsFirst
      <4> QED BY <2>2, <4>1, <4>3
    <3> QED BY <3>1
  <2> QED BY <1>6, <2>1, <2>3
<1>16. host = h + 1
  BY <1>14, <1>15
<1>17. w.user = u.user /\ w.passwd = u.passwd
  <2>1. CASE u.user = NoPart
    BY <1>3, <1>10, <1>15, <2>1
  <2>2. CASE u.user # NoPart /\ u.passwd = NoPart
    <3> DEFINE l == Len(u.user)
               j == at - 1
    <3>1. /\ l \in Nat /\ Holds(t, o, u.user) /\ b = l + 1
          /\ \A i \in (o + 1)..(o + l) : t[i] # ":"
      BY <1>2, <2>2 DEF UserBlock
    <3>2. l = Len(u.user)
      OBVIOUS
    <3> HIDE DEF l
    <3>3. at = h /\ at < end
      BY <1>14, <2>2
    <3>4. j = o + l
      BY <1>1, <3>1, <3>3
    <3>5. ~(colon < at)
      <4>1. ASSUME colon < at PROVE FALSE
        <5>1. colon \in (o + 1)..(o + l)
          BY <1>1, <1>5, <3>1, <3>3, <4>1
        <5>2. colon <= Len(t)
          BY <1>1, <1>5, <4>1
        <5>3. t[colon] = ":"
          BY <1>6, <5>2 DEF IsFirst
        <5> QED BY <3>1, <5>1, <5>3
      <4> QED BY <4>1
    <3>6. w.user = SubSeq(t, start, j) /\ w.passwd = NoPart
      BY <1>10, <3>3, <3>5
    <3> HIDE DEF j
    <3>7. SubSeq(t, start, j) = u.user
      <4>1. PieceAt(t, o, u.user, start, j)
        BY <1>1, <1>13, <2>2, <3>2, <3>4, <3>1 DEF PieceAt
      <4> QED BY <4>1, PieceBack
    <3> QED BY <2>2, <3>6, <3>7
  <2>3. CASE u.user # NoPart /\ u.passwd # NoPart
    <3> DEFINE l == Len(u.user)
               k == Len(u.passwd)
               n == o + l + 1
               i1 == n - 1
               i2 == n + 1
               j == at - 1
    <3>1. /\ l \in Nat /\ Holds(t, o, u.user)
          /\ \A i \in (o + 1)..(o + l) : t[i] # ":"
          /\ b = l + k + 2 /\ k \in Nat
          /\ t[n] = ":" /\ Holds(t, n, u.passwd)
      BY <1>2, <2>3 DEF UserBlock
    <3>2. l = Len(u.user) /\ k = Len(u.passwd)
      OBVIOUS
    <3> HIDE DEF l, k
    <3>3. at = h /\ at < end
      BY <1>14, <2>3
    <3>4. n \in Nat /\ i1 = o + l /\ n < h /\ start <= n
      BY <1>1, <3>1
    <3>5. j = n + k
      BY <1>1, <3>1, <3>3
    <3>6. \A i \in start..i1 : t[i] # ":"
      BY <3>1, <3>4
    <3> HIDE DEF n
    <3>7. IsFirst(t, ":", start, n)
      <4>1. n \in start..(Len(t) + 1)
        BY <1>1, <1>5, <3>3, <3>4
      <4> QED BY <3>1, <3>6, <4>1 DEF IsFirst
    <3>8. colon = n
      BY <1>1, <1>5, <1>6, <3>7, OneFirst
    <3>9. w.user = SubSeq(t, start, i1) /\ w.passwd = SubSeq(t, i2, j)
      BY <1>10, <3>3, <3>4, <3>8
    <3>10. i2 = n + 1
      OBVIOUS
    <3> HIDE DEF i1, i2, j
    <3>11. SubSeq(t, start, i1) = u.user
      <4>1. PieceAt(t, o, u.user, start, i1)
        BY <1>1, <1>13, <2>3, <3>2, <3>4, <3>1 DEF PieceAt
      <4> QED BY <4>1, PieceBack
    <3>12. SubSeq(t, i2, j) = u.passwd
      <4>1. PieceAt(t, n, u.passwd, i2, j)
        BY <1>1, <1>13, <2>3, <3>2, <3>4, <3>5, <3>10, <3>1 DEF PieceAt
      <4> QED BY <4>1, PieceBack
    <3> QED BY <3>9, <3>11, <3>12
  <2> QED BY <2>1, <2>2, <2>3
<1>18. w.host = u.host /\ w.port = u.port
  <2>0. p + d <= Len(t)
    BY <1>1, <1>2 DEF QueryBlock
  <2>1. CASE u.port = NoPart
    <3>1. /\ u.host = NoPart => c = 0
          /\ u.host # NoPart => /\ c >= 1 /\ c = Len(u.host) /\ Holds(t, h, u.host)
                                /\ \A i \in (h + 1)..(h + Len(u.host)) : t[i] # ":"
      BY <1>2, <2>1 DEF HostBlock
    <3>2. ~(port < end)
      <4>1. ASSUME port < end PROVE FALSE
        <5>1. port \in (h + 1)..p /\ port <= Len(t)
          BY <1>1, <1>5, <1>7, <1>16, <2>0, <4>1
        <5>2. u.host # NoPart
          BY <1>1, <3>1, <5>1
        <5>3. t[port] = ":"
          BY <1>6, <5>1 DEF IsFirst
        <5>4. port \in (h + 1)..(h + Len(u.host))
          BY <1>1, <3>1, <5>1, <5>2
        <5> QED BY <3>1, <5>2, <5>3, <5>4
      <4> QED BY <4>1
    <3>3. w.port = NoPart
      <4>1. u.proto # NoPart => ResolvedPort(known) = NoPart
        BY <1>3, <2>1 DEF ResolvedPort
      <4> QED BY <1>10, <3>2, <4>1
    <3> DEFINE j == end - 1
    <3>4. w.host = IF host # end THEN SubSeq(t, host, j) ELSE NoPart
      BY <1>10, <3>2
    <3>5. CASE u.host = NoPart
      <4>1. c = 0
        BY <3>1, <3>5
      <4>2. host = end
        BY <1>1, <1>7, <1>16, <4>1
      <4> QED BY <2>1, <3>3, <3>4, <3>5, <4>2
    <3>6. CASE u.host # NoPart
      <4> DEFINE l == Len(u.host)
      <4>1. c >= 1 /\ c = l /\ Holds(t, h, u.host)
        BY <3>1, <3>6
      <4>2. l = Len(u.host)
        OBVIOUS
      <4> HIDE DEF l
      <4>3. host # end /\ j = h + l
        BY <1>1, <1>7, <1>16, <4>1
      <4> HIDE DEF j
      <4>4. SubSeq(t, host, j) = u.host
        <5>1. PieceAt(t, h, u.host, host, j)
          BY <1>1, <1>13, <1>16, <3>6, <4>2, <4>3, <4>1 DEF PieceAt
        <5> QED BY <5>1, PieceBack
      <4> QED BY <2>1, <3>3, <3>4, <4>3, <4>4
    <3> QED BY <3>5, <3>6
  <2>2. CASE u.port # NoPart
    <3> DEFINE l == Len(u.host)
               k == Len(u.port)
               n == h + l + 1
               i1 == n - 1
               i2 == n + 1
               j == end - 1
    <3>0. u.host # NoPart
      BY <1>3, <2>2
    <3>1. /\ l \in Nat /\ Holds(t, h, u.host)
          /\ \A i \in (h + 1)..(h + l) : t[i] # ":"
          /\ c = l + k + 1 /\ k \in Nat
          /\ t[n] = ":" /\ Holds(t, n, u.port)
      BY <1>2, <2>2, <3>0 DEF HostBlock
    <3>2. l = Len(u.host) /\ k = Len(u.port)
      OBVIOUS
    <3> HIDE DEF l, k
    <3>3. n \in Nat /\ i1 = h + l /\ host <= n
      <4>1. h \in Nat /\ l \in Nat
        BY <1>1, <3>1
      <4>2. n \in Nat /\ i1 = h + l /\ h + 1 <= n
        BY <4>1
      <4> QED BY <1>16, <4>2
    <3>4. n < end /\ j = n + k
      BY <1>1, <1>7, <3>1
    <3>5. \A i \in host..i1 : t[i] # ":"
      BY <1>16, <3>1, <3>3
    <3> HIDE DEF n
    <3>6. IsFirst(t, ":", host, n)
      <4>1. n \in host..(Len(t) + 1)
        <5>1. p <= Len(t)
          BY <1>1, <2>0
        <5> QED BY <1>1, <1>5, <1>7, <3>3, <3>4, <5>1
      <4> QED BY <3>1, <3>5, <4>1 DEF IsFirst
    <3>7. port = n
      BY <1>1, <1>5, <1>6, <3>6, OneFirst
    <3>8. w.host = SubSeq(t, host, i1) /\ w.port = SubSeq(t, i2, j)
      BY <1>10, <3>4, <3>7
    <3>9. i2 = n + 1
      OBVIOUS
    <3> HIDE DEF i1, i2, j
    <3>10. SubSeq(t, host, i1) = u.host
      <4>1. PieceAt(t, h, u.host, host, i1)
        BY <1>1, <1>13, <1>16, <3>0, <3>2, <3>3, <3>1 DEF PieceAt
      <4> QED BY <4>1, PieceBack
    <3>11. SubSeq(t, i2, j) = u.port
      <4>1. PieceAt(t, n, u.port, i2, j)
        BY <1>1, <1>13, <2>2, <3>2, <3>3, <3>4, <3>9, <3>1 DEF PieceAt
      <4> QED BY <4>1, PieceBack
    <3> QED BY <3>8, <3>10, <3>11
  <2> QED BY <2>1, <2>2
<1>19. w.path = u.path
  <2>1. CASE u.path = NoPart
    BY <1>9, <1>10, <2>1
  <2>2. CASE u.path # NoPart
    <3> DEFINE j == query - 1
    <3>1. d = Len(u.path) /\ Holds(t, p, u.path)
      BY <1>2, <2>2 DEF PathBlock
    <3>2. j = p + d
      BY <1>1, <1>8
    <3>3. w.path = SubSeq(t, end, j)
      BY <1>9, <1>10, <2>2
    <3> HIDE DEF j
    <3>4. SubSeq(t, end, j) = u.path
      <4>1. PieceAt(t, p, u.path, end, j)
        BY <1>1, <1>7, <1>13, <2>2, <3>1, <3>2, <3>1 DEF PieceAt
      <4> QED BY <4>1, PieceBack
    <3> QED BY <3>3, <3>4
  <2> QED BY <2>1, <2>2
<1>20. w.query = u.query
  <2>1. CASE u.query = NoPart
    <3>1. Len(t) = q
      BY <1>2, <2>1 DEF QueryBlock
    <3>2. ~(query <= Len(t))
      BY <1>1, <1>8, <3>1
    <3> QED BY <1>10, <2>1, <3>2
  <2>2. CASE u.query # NoPart
    <3> DEFINE l == Len(t)
               k == Len(u.query)
               i2 == query + 1
    <3>1. k \in Nat /\ l = q + 1 + k /\ Holds(t, q + 1, u.query)
      BY <1>2, <2>2 DEF QueryBlock
    <3>2. l = Len(t) /\ k = Len(u.query) /\ i2 = query + 1 /\ q \in Nat /\ t \in Seq(AllUrlChars)
      BY <1>1
    <3>3. w.query = IF query <= l THEN SubSeq(t, i2, l) ELSE NoPart
      BY <1>10
    <3> HIDE DEF l, k, i2
    <3>4. query \in Nat /\ query <= l /\ l = query + k
      <4>1. \A m : k \in Nat /\ q \in Nat /\ m = q + 1 + k /\ query = q + 1
                     => query \in Nat /\ query <= m /\ m = query + k
        OBVIOUS
      <4> QED BY ONLY <1>8, <3>1, <3>2, <4>1
    <3>5. Holds(t, query, u.query)
      BY <1>8, <3>1
    <3>6. SubSeq(t, i2, l) = u.query
      <4>1. PieceAt(t, query, u.query, i2, l)
        BY <1>13, <2>2, <3>2, <3>4, <3>5 DEF PieceAt
      <4> QED BY <4>1, PieceBack
    <3> QED BY <3>3, <3>4, <3>6
  <2> QED BY <2>1, <2>2
<1>21. w.proto = u.proto
  BY <1>10
<1>22. w = u
  BY <1>11, <1>12, <1>17, <1>18, <1>19, <1>20, <1>21
<1> QED BY <1>22 DEF w

(* A URL that is not ambiguous comes back.                                 *)
LEMMA UrlComesBackSame ==
  ASSUME NEW u, NEW known \in {"nothing", "service"}, Whole(u, known), ~Ambiguous(u),
         NEW t, t = Unparse(u)
  PROVE  Parse(t, known) = u
<1>1. PICK a, s, b, c, d, o, h, p, q : Read(t, u, a, s, b, c, d, o, h, p, q)
  BY TextRead
<1>2. ~TakenForProto(u) /\ ~TakenForHost(u)
  BY AmbiguousIs
<1> DEFINE start == PastSlashes(t)
<1>3. start = o + 1 /\ ProtoOf(t) = u.proto
  BY <1>1, <1>2, SlashesRead, ProtoRead
<1>4. t \in Seq(AllUrlChars)
  BY <1>1 DEF Read, UrlTexts
<1>5. PICK end, query, at, colon, host, port :
        /\ Cuts(t, start, end, query, at, colon, host, port)
        /\ Parse(t, known) = Cut(t, known, ProtoOf(t), start, end, query, at, colon, host, port)
  BY <1>4, ParseIs
<1> HIDE DEF start
<1>6. Cut(t, known, u.proto, start, end, query, at, colon, host, port) = u
  BY <1>1, <1>3, <1>5, PartsComeBack
<1> QED BY <1>3, <1>5, <1>6

(* A user with letters only and a password, without protocol and host,     *)
(* comes back as a protocol.                                               *)
LEMMA UserIsProto ==
  ASSUME NEW u, NEW known \in {"nothing", "service"}, Whole(u, known), TakenForProto(u),
         NEW t, t = Unparse(u)
  PROVE  Parse(t, known) # u
<1>1. PICK a, s, b, c, d, o, h, p, q : Read(t, u, a, s, b, c, d, o, h, p, q)
  BY TextRead
<1>2. HasProto(t) /\ u.proto = NoPart
  BY <1>1, ProtoRead
<1>3. t \in Seq(AllUrlChars)
  BY <1>1 DEF Read, UrlTexts
<1>4. ProtoOf(t) # NoPart
  BY <1>2, <1>3, ProtoIs
<1>5. Parse(t, known).proto = ProtoOf(t)
  BY Zenon DEF Parse, ProtoOf
<1> QED BY <1>2, <1>4, <1>5

(* A path with two slashes in front, without user and host, comes back     *)
(* without them.                                                           *)
LEMMA PathIsHost ==
  ASSUME NEW u, NEW known \in {"nothing", "service"}, Whole(u, known), TakenForHost(u),
         NEW t, t = Unparse(u)
  PROVE  Parse(t, known) # u
<1>1. PICK a, s, b, c, d, o, h, p, q : Read(t, u, a, s, b, c, d, o, h, p, q)
  BY TextRead
<1>2. /\ u.host = NoPart /\ u.user = NoPart /\ u.path # NoPart /\ Len(u.path) > 1
  BY DEF TakenForHost
<1>3. ~TakenForProto(u)
  BY <1>2 DEF Whole, WellParted, Named, TakenForProto
<1> DEFINE start == PastSlashes(t)
<1>4. start = a + 3
  BY <1>1, <1>3, SlashesRead
<1>5. /\ t \in Seq(AllUrlChars) /\ Len(t) \in Nat /\ a \in Nat /\ d \in Nat /\ q \in Nat /\ q = p + d
      /\ PathBlock(t, u, p, d) /\ QueryBlock(t, u, q)
  BY <1>1 DEF Read, UrlTexts
<1>6. p = a
  BY <1>1, <1>2, HeadOfRest
<1>7. PICK end, query, at, colon, host, port :
        /\ Cuts(t, start, end, query, at, colon, host, port)
        /\ Parse(t, known) = Cut(t, known, ProtoOf(t), start, end, query, at, colon, host, port)
  BY <1>5, ParseIs
<1> HIDE DEF start
<1> DEFINE w == Cut(t, known, ProtoOf(t), start, end, query, at, colon, host, port)
           e1 == (IF at < end /\ colon < at THEN colon ELSE at) - 1
<1>8. /\ w.user = IF at < end THEN SubSeq(t, start, e1) ELSE NoPart
      /\ w.host = IF port < end THEN SubSeq(t, host, port - 1)
                  ELSE IF host # end THEN SubSeq(t, host, end - 1) ELSE NoPart
      /\ w.path = IF \E i \in start..Len(t) : t[i] = "/" THEN SubSeq(t, end, query - 1) ELSE NoPart
  BY DEF Cut
<1> HIDE DEF w
<1>9. Ordered(Len(t), start, end, query, at, colon, host, port)
  BY <1>5, <1>7, CutsTold
<1>10. /\ start \in Nat /\ end \in Nat /\ query \in Nat /\ at \in Nat /\ colon \in Nat
       /\ host \in Nat /\ port \in Nat /\ Len(t) \in Nat
       /\ 1 <= start /\ start <= host /\ host <= end /\ end <= query /\ query <= Len(t) + 1
       /\ start <= at /\ at <= Len(t) + 1 /\ start <= colon /\ colon <= Len(t) + 1
       /\ host <= port /\ port <= Len(t) + 1
       /\ host = IF at < end THEN at + 1 ELSE start
  BY <1>9 DEF Ordered
<1>11. NoPart \notin Seq(AllUrlChars)
  BY NoPartIs
<1> SUFFICES ASSUME w = u PROVE FALSE
  BY <1>7 DEF w
<1>12. ~(at < end)
  <2> SUFFICES ASSUME at < end PROVE FALSE
    OBVIOUS
  <2>1. e1 \in Nat /\ start <= e1 + 1 /\ e1 <= Len(t)
    BY <1>10
  <2> HIDE DEF e1
  <2>2. SubSeq(t, start, e1) \in Seq(AllUrlChars)
    BY <1>5, <1>10, <2>1, PieceIs
  <2> QED BY <1>2, <1>8, <1>11, <2>2
<1>13. ~(port < end)
  <2> SUFFICES ASSUME port < end PROVE FALSE
    OBVIOUS
  <2> DEFINE j == port - 1
  <2>1. j \in Nat /\ host <= j + 1 /\ j <= Len(t) /\ 1 <= host
    BY <1>10
  <2>2. w.host = SubSeq(t, host, j)
    BY <1>8
  <2> HIDE DEF j
  <2>3. SubSeq(t, host, j) \in Seq(AllUrlChars)
    BY <1>5, <1>10, <2>1, PieceIs
  <2> QED BY <1>2, <1>11, <2>2, <2>3
<1>14. host = end
  <2> SUFFICES ASSUME host # end PROVE FALSE
    OBVIOUS
  <2> DEFINE j == end - 1
  <2>1. j \in Nat /\ host <= j + 1 /\ j <= Len(t) /\ 1 <= host
    BY <1>10
  <2>2. w.host = SubSeq(t, host, j)
    BY <1>8, <1>13
  <2> HIDE DEF j
  <2>3. SubSeq(t, host, j) \in Seq(AllUrlChars)
    BY <1>5, <1>10, <2>1, PieceIs
  <2> QED BY <1>2, <1>11, <2>2, <2>3
<1>15. end = a + 3
  BY <1>4, <1>10, <1>12, <1>14
<1>16. d >= 2 /\ d = Len(u.path) /\ \A i \in (a + 1)..(a + d) : t[i] # "?"
  <2>1. d = Len(u.path) /\ \A i \in (a + 1)..(a + d) : t[i] # "?"
    BY <1>2, <1>5, <1>6 DEF PathBlock
  <2>2. d \in Nat /\ d > 1
    BY <1>2, <1>5, <2>1
  <2> QED BY <2>1, <2>2
<1>17. query = a + d + 1
  <2> DEFINE n == a + 3
             r == a + d + 1
  <2>1. q = a + d /\ q <= Len(t) /\ (q + 1 <= Len(t) => t[q + 1] = "?")
    <3>1. q <= Len(t) /\ (u.query = NoPart => Len(t) = q) /\ (u.query # NoPart => t[q + 1] = "?")
      BY <1>5 DEF QueryBlock
    <3> QED BY <1>5, <1>6, <3>1
  <2>2. r \in n..(Len(t) + 1) /\ (r <= Len(t) => t[r] = "?")
    BY <1>5, <1>16, <2>1
  <2>3. \A i \in n..(r - 1) : t[i] # "?"
    BY <1>5, <1>16
  <2>4. n \in Nat /\ end = n
    BY <1>5, <1>15
  <2> HIDE DEF n, r
  <2>5. IsFirst(t, "?", n, r)
    BY <2>2, <2>3 DEF IsFirst
  <2>6. IsFirst(t, "?", n, query)
    BY <1>7, <2>4 DEF Cuts
  <2>7. query = r
    BY <1>5, <2>4, <2>5, <2>6, OneFirst
  <2> QED BY <2>7 DEF r
<1>18. u.path = SubSeq(t, end, query - 1)
  BY <1>2, <1>8
<1>19. Len(u.path) = d - 2
  <2> DEFINE j == query - 1
  <2>1. j \in Nat /\ 1 <= end /\ end <= j + 1 /\ j <= Len(t) /\ j - end + 1 = d - 2
    BY <1>5, <1>10, <1>15, <1>16, <1>17
  <2>2. u.path = SubSeq(t, end, j)
    BY <1>18
  <2> HIDE DEF j
  <2>3. Len(SubSeq(t, end, j)) = j - end + 1
    BY <1>5, <1>10, <2>1, PieceIs
  <2> QED BY <2>1, <2>2, <2>3
<1>20. d = d - 2
  BY <1>16, <1>19
<1> QED BY <1>5, <1>20

(* What parsing makes of a text, with a host if there is a port, is a URL  *)
(* as above.                                                               *)
LEMMA ParsedWhole ==
  ASSUME NEW t \in Seq(UrlChars), NEW known \in {"nothing", "service"},
         NEW u, u = Hosted(Parse(t, known))
  PROVE  Whole(u, known)
<1>1. t \in Seq(AllUrlChars)
  BY DEF AllUrlChars
<1> DEFINE start == PastSlashes(t)
           v == Parse(t, known)
<1>2. PICK end, query, at, colon, host, port :
        /\ Cuts(t, start, end, query, at, colon, host, port)
        /\ v = Cut(t, known, ProtoOf(t), start, end, query, at, colon, host, port)
  BY <1>1, ParseIs
<1>3. ProtoOf(t) \in UrlParts /\ Lacks(ProtoOf(t), UrlMarks)
  BY <1>1, ProtoIs
<1> HIDE DEF start, v
<1>4. WellParted(v, known)
  BY <1>1, <1>2, <1>3, CutParted
<1>5. u = Hosted(v)
  BY DEF v
<1>6. WellParted(u, known) /\ (u.port # NoPart => u.host # NoPart) /\ Hosted(u) = u
  BY <1>4, <1>5, HostedIs
<1> QED BY <1>6 DEF Whole

(* What a user types is a text.                                            *)
UrlInv == urlText \in Seq(UrlChars)

(* Whatever a user has typed, spif_url_unparse() writes a text of which    *)
(* spif_url_parse() makes the same parts, with the host that it gives to a *)
(* URL without one; this fails for the ambiguous URLs and for no others.   *)
THEOREM UrlsComeBack == UrlSpec => []UrlComesBack
<1>1. UrlInit => UrlInv
  BY DEF UrlInit, UrlInv
<1>2. UrlInv /\ [TypeUrl]_urlText => UrlInv'
  <2>1. ASSUME UrlInv, TypeUrl PROVE UrlInv'
    <3>1. PICK c \in UrlChars : urlText' = Append(urlText, c)
      BY <2>1 DEF TypeUrl
    <3> QED BY <2>1, <3>1 DEF UrlInv
  <2>2. ASSUME UrlInv, UNCHANGED urlText PROVE UrlInv'
    BY <2>2 DEF UrlInv
  <2> QED BY <2>1, <2>2
<1>3. UrlInv => UrlComesBack
  <2> SUFFICES ASSUME UrlInv, NEW known \in {"nothing", "service"},
                      NEW u, u = Hosted(Parse(urlText, known))
               PROVE  Parse(Unparse(u), known) = u <=> ~Ambiguous(u)
    <3>1. Lookup \ {"protocol"} = {"nothing", "service"}
      BY DEF Lookup
    <3> QED BY <3>1, Zenon DEF UrlComesBack
  <2>1. Whole(u, known)
    BY ParsedWhole DEF UrlInv
  <2>2. ~Ambiguous(u) => Parse(Unparse(u), known) = u
    BY <2>1, UrlComesBackSame
  <2>3. Ambiguous(u) => Parse(Unparse(u), known) # u
    BY <2>1, AmbiguousIs, UserIsProto, PathIsHost
  <2> QED BY <2>2, <2>3
<1> QED BY <1>1, <1>2, <1>3, PTL DEF UrlSpec

-----------------------------------------------------------------------------
(* The sockets.                                                            *)

Urls == Url \cup {None}
SockRec == [fd : Fd \cup {NoFd}, fam : {"INET", "UNIX"}, type : {"STREAM", "DGRAM", "RAW"},
            addr : BOOLEAN, flags : SUBSET Flag, local : Urls, remote : Urls, doubt : BOOLEAN]
DescRec == [bound : Urls, listening : BOOLEAN, connected : BOOLEAN,
            nbio : BOOLEAN, shared : BOOLEAN, refused : BOOLEAN]

(* Objects, descriptors and descriptions are what they should be. *)
Typed ==
  /\ sock \in [Object -> SockRec \cup {Free}]
  /\ file \in [Fd -> Desc \cup {Closed, Lost}]
  /\ desc \in [Desc -> DescRec]

(* Every descriptor of an object is open, and every descriptor that is     *)
(* open and not lost is exactly one object's.                              *)
Owned ==
  /\ \A o \in Object : HasFd(o) => file[sock[o].fd] \in Desc
  /\ \A o, p \in Object : HasFd(o) /\ HasFd(p) /\ sock[o].fd = sock[p].fd => o = p
  /\ \A f \in Fd : file[f] \in Desc => \E o \in Object : HasFd(o) /\ sock[o].fd = f

(* Two descriptors name one description only by dup(2). *)
SharedByDup ==
  \A f, g \in Fd : f # g /\ file[f] = file[g] /\ file[f] \in Desc => desc[file[f]].shared

(* What the object s says of the description d it holds. *)
Truthful(s, d) ==
  /\ ~s.doubt =>
       /\ "LISTEN" \in s.flags => d.listening /\ s.remote = None
       /\ "CONNECTED" \in s.flags => d.connected
       /\ ~d.shared => (d.nbio <=> "NBIO" \in s.flags)
  /\ s.remote = None => d.bound = s.local \/ d.refused

(* An object without a descriptor says nothing of one. *)
Silent(s) ==
  ~s.doubt => "LISTEN" \notin s.flags /\ "CONNECTED" \notin s.flags /\ "NBIO" \notin s.flags

SockInv ==
  /\ Typed
  /\ Owned
  /\ SharedByDup
  /\ \A o \in Object : HasFd(o) => Truthful(sock[o], desc[file[sock[o].fd]])
  /\ \A o \in Object : Live(o) /\ ~HasFd(o) => Silent(sock[o])

-----------------------------------------------------------------------------
(* The kernel's choices.                                                   *)

LEMMA FdNumbers ==
  /\ 0 \notin Fd \cup {NoFd} /\ NoFd \notin Fd
  /\ Closed \notin Desc /\ Lost \notin Desc /\ Closed # Lost
  /\ Fd \in SUBSET Nat /\ Desc \in SUBSET Nat
<1>1. Cardinality(Object) \in Nat
  BY SocketAssumption, FS_CardinalityType
<1> QED BY <1>1, SocketAssumption DEF Fd, NoFd, Desc, Closed, Lost

LEMMA LowestIn ==
  ASSUME NEW S \in SUBSET Nat, S # {}
  PROVE  Lowest(S) \in S
  BY SmallestExists DEF Lowest

(* The descriptor that socket(), dup() and accept() get.                   *)
LEMMA NewFd ==
  ASSUME FreeFds # {}
  PROVE  Lowest(FreeFds) \in Fd /\ file[Lowest(FreeFds)] = Closed
<1>1. FreeFds \in SUBSET Nat
  BY FdNumbers DEF FreeFds
<1>2. Lowest(FreeFds) \in FreeFds
  BY <1>1, LowestIn
<1> QED BY <1>2 DEF FreeFds

(* There is a description for it, which no descriptor names: as many       *)
(* descriptions as objects, and c has none.                                *)
LEMMA NewDesc ==
  ASSUME SockInv, NEW c \in Object, ~HasFd(c)
  PROVE  UnusedDesc \in Desc /\ \A f \in Fd : file[f] # UnusedDesc
<1> DEFINE unused == {d \in Desc : \A f \in Fd : file[f] # d}
           others == Object \ {c}
           of(d) == CHOOSE o \in others : HasFd(o) /\ file[sock[o].fd] = d
           holder == [d \in Desc |-> of(d)]
<1>1. ASSUME unused = {} PROVE FALSE
  <2>1. ASSUME NEW d \in Desc
        PROVE  of(d) \in others /\ file[sock[of(d)].fd] = d
    <3>1. PICK f \in Fd : file[f] = d
      BY <1>1
    <3>2. PICK o \in Object : HasFd(o) /\ sock[o].fd = f
      BY <3>1 DEF SockInv, Owned
    <3>3. o \in others /\ HasFd(o) /\ file[sock[o].fd] = d
      BY <3>1, <3>2
    <3> QED BY <3>3
  <2> HIDE DEF of, others
  <2>2. holder \in [Desc -> others]
    BY <2>1
  <2>3. \A d, e \in Desc : holder[d] = holder[e] => d = e
    BY <2>1
  <2>4. IsFiniteSet(others) /\ Cardinality(others) = Cardinality(Object) - 1
    BY SocketAssumption, FS_RemoveElement DEF others
  <2>5. Cardinality(Object) \in Nat
    BY SocketAssumption, FS_CardinalityType
  <2>6. IsFiniteSet(Desc) /\ Cardinality(Desc) = Cardinality(Object)
    <3> DEFINE size == Cardinality(Object)
    <3>1. size \in Nat /\ Desc = 1..size
      BY <2>5 DEF Desc
    <3> HIDE DEF size
    <3>2. 1 \in Int /\ size \in Int
      BY <3>1
    <3>3. IsFiniteSet(1..size) /\ Cardinality(1..size) = IF 1 > size THEN 0 ELSE size - 1 + 1
      BY <3>2, FS_Interval
    <3>4. Cardinality(1..size) = size
      BY <3>1, <3>3
    <3> QED BY <3>1, <3>3, <3>4 DEF size
  <2>7. Cardinality(others) < Cardinality(Desc)
    BY <2>4, <2>5, <2>6
  <2> HIDE DEF holder
  <2> QED BY <2>2, <2>3, <2>4, <2>6, <2>7, FS_PigeonHole
<1>2. Lowest(unused) \in unused
  BY <1>1, FdNumbers, LowestIn
<1> QED BY <1>2 DEF UnusedDesc

-----------------------------------------------------------------------------
(* What the objects are made of.                                           *)

LEMMA RecIsLive ==
  ASSUME NEW s \in SockRec
  PROVE  s # Free
  BY FdNumbers DEF SockRec, Free

LEMMA ObjectTyped ==
  ASSUME Typed, NEW o \in Object
  PROVE  /\ Live(o) <=> sock[o] \in SockRec
         /\ HasFd(o) => sock[o] \in SockRec /\ sock[o].fd \in Fd
         /\ ~HasFd(o) /\ Live(o) => sock[o].fd = NoFd
<1>1. Live(o) <=> sock[o] \in SockRec
  BY RecIsLive DEF Typed, Live
<1> QED BY <1>1, FdNumbers DEF HasFd, SockRec

(* An object after a step that gives it the value s.                       *)
LEMMA Stored ==
  ASSUME Typed, NEW o \in Object, NEW s \in SockRec \cup {Free}, Store(o, s)
  PROVE  /\ sock' \in [Object -> SockRec \cup {Free}]
         /\ sock'[o] = s
         /\ \A p \in Object \ {o} : sock'[p] = sock[p] /\ (HasFd(p)' <=> HasFd(p))
                                    /\ (Live(p)' <=> Live(p))
         /\ Live(o)' <=> s \in SockRec
         /\ HasFd(o)' <=> s \in SockRec /\ s.fd \in Fd
<1>1. sock' \in [Object -> SockRec \cup {Free}] /\ sock'[o] = s
  BY DEF Typed, Store
<1>2. \A p \in Object \ {o} : sock'[p] = sock[p]
  BY DEF Typed, Store
<1>3. \A p \in Object \ {o} : (HasFd(p)' <=> HasFd(p)) /\ (Live(p)' <=> Live(p))
  BY <1>2 DEF HasFd, Live
<1>4. Live(o)' <=> s \in SockRec
  BY <1>1, RecIsLive DEF Live
<1> QED BY <1>1, <1>2, <1>3, <1>4 DEF HasFd

-----------------------------------------------------------------------------
(* What an operation does to the descriptors: nothing, or it changes what  *)
(* one is in, takes one, shares one, or gives one up.                      *)

LEMMA NoFdStep ==
  ASSUME SockInv, NEW o \in Object, ~HasFd(o), NEW s \in SockRec \cup {Free},
         s \in SockRec => s.fd = NoFd /\ Silent(s),
         Store(o, s), UNCHANGED <<file, desc>>
  PROVE  SockInv'
<1>1. Typed
  BY DEF SockInv
<1>2. Typed'
  BY <1>1, Stored DEF Typed
<1>3. ~HasFd(o)' /\ \A p \in Object : HasFd(p)' <=> HasFd(p)
  BY <1>1, Stored, FdNumbers
<1>4. \A p \in Object : HasFd(p) => p # o /\ sock'[p] = sock[p]
  BY <1>1, Stored
<1>5. Owned' /\ SharedByDup'
  BY <1>3, <1>4 DEF SockInv, Owned, SharedByDup
<1>6. ASSUME NEW p \in Object, HasFd(p)'
      PROVE  Truthful(sock'[p], desc'[file'[sock'[p].fd]])
  BY <1>3, <1>4, <1>6 DEF SockInv
<1>7. ASSUME NEW p \in Object, Live(p)', ~HasFd(p)' PROVE Silent(sock'[p])
  BY <1>1, <1>3, <1>7, Stored DEF SockInv
<1> QED BY <1>2, <1>5, <1>6, <1>7 DEF SockInv

(* o becomes s, and the description i that it holds becomes d.             *)
Keeps(o, s, i, d) ==
  /\ o \in Object /\ HasFd(o)
  /\ s \in SockRec /\ s.fd = sock[o].fd /\ Store(o, s)
  /\ i = file[s.fd] /\ UNCHANGED file
  /\ d \in DescRec /\ desc' = [desc EXCEPT ![i] = d]
  /\ d.shared = desc[i].shared /\ d.bound = desc[i].bound /\ d.refused = desc[i].refused
  /\ desc[i].listening => d.listening
  /\ desc[i].connected => d.connected
  /\ Truthful(s, d)

LEMMA KeepFdStep ==
  ASSUME SockInv, NEW o, NEW s, NEW i, NEW d, Keeps(o, s, i, d)
  PROVE  SockInv'
<1>1. Typed /\ i \in Desc
  BY DEF SockInv, Owned, Keeps
<1>2. Typed'
  <2>1. sock' \in [Object -> SockRec \cup {Free}]
    BY <1>1, Stored DEF Keeps
  <2>2. file' \in [Fd -> Desc \cup {Closed, Lost}] /\ desc' \in [Desc -> DescRec]
    BY <1>1 DEF Typed, Keeps
  <2> QED BY <2>1, <2>2 DEF Typed
<1>3. sock'[o] = s /\ HasFd(o)' /\ \A p \in Object : HasFd(p)' <=> HasFd(p)
  BY <1>1, Stored, ObjectTyped DEF Keeps
<1>4. \A p \in Object : sock'[p].fd = sock[p].fd /\ (p # o => sock'[p] = sock[p])
  BY <1>1, Stored DEF Keeps
<1>5. Owned'
  <2>1. Owned /\ file' = file
    BY DEF SockInv, Keeps
  <2> QED BY <1>3, <1>4, <2>1 DEF Owned
<1>6. desc'[i] = d /\ \A e \in Desc \ {i} : desc'[e] = desc[e]
  BY <1>1 DEF Typed, Keeps
<1>7. SharedByDup'
  <2>1. SharedByDup /\ file' = file
    BY DEF SockInv, Keeps
  <2>2. \A e \in Desc : desc'[e].shared = desc[e].shared
    BY <1>6 DEF Keeps
  <2> QED BY <2>1, <2>2 DEF SharedByDup
<1> USE DEF Keeps
<1>8. ASSUME NEW p \in Object, HasFd(p)'
      PROVE  Truthful(sock'[p], desc'[file'[sock'[p].fd]])
  <2>1. CASE p = o
    BY <1>3, <1>6, <2>1
  <2>2. CASE p # o
    <3>1. HasFd(p) /\ sock'[p] = sock[p] /\ file[sock[p].fd] \in Desc
          /\ Truthful(sock[p], desc[file[sock[p].fd]])
      BY <1>3, <1>4, <1>8, <2>2 DEF SockInv, Owned
    <3>2. CASE file[sock[p].fd] = i
      <4>1. sock[p].fd # sock[o].fd /\ sock[p].fd \in Fd /\ sock[o].fd \in Fd
        BY <1>1, <2>2, <3>1, ObjectTyped DEF SockInv, Owned
      <4>2. desc[i].shared
        BY <1>1, <3>2, <4>1 DEF SockInv, SharedByDup
      <4>3. Truthful(sock[p], desc[i]) => Truthful(sock[p], d)
        BY <4>2 DEF Truthful
      <4> QED BY <1>6, <3>1, <3>2, <4>3
    <3>3. CASE file[sock[p].fd] # i
      <4>1. desc'[file[sock[p].fd]] = desc[file[sock[p].fd]]
        BY <1>6, <3>1, <3>3
      <4> QED BY <3>1, <4>1
    <3> QED BY <3>2, <3>3
  <2> QED BY <2>1, <2>2
<1>9. ASSUME NEW p \in Object, Live(p)', ~HasFd(p)' PROVE Silent(sock'[p])
  BY <1>1, <1>3, <1>9, Stored DEF SockInv
<1> QED BY <1>2, <1>5, <1>7, <1>8, <1>9 DEF SockInv

(* o becomes s, with the descriptor f on the new description u, d.         *)
Takes(o, s, f, u, d) ==
  /\ o \in Object /\ ~HasFd(o)
  /\ s \in SockRec /\ s.fd = f /\ Store(o, s)
  /\ f \in Fd /\ file[f] = Closed /\ file'[f] = u
  /\ file' \in [Fd -> Desc \cup {Closed, Lost}]
  /\ \A g \in Fd \ {f} : file'[g] = file[g] \/ (file[g] = Closed /\ file'[g] = Lost)
  /\ u \in Desc /\ \A g \in Fd : file[g] # u
  /\ d \in DescRec /\ desc' = [desc EXCEPT ![u] = d]
  /\ Truthful(s, d)

LEMMA TakeFdStep ==
  ASSUME SockInv, NEW o, NEW s, NEW f, NEW u, NEW d, Takes(o, s, f, u, d)
  PROVE  SockInv'
<1> USE DEF Takes
<1>1. Typed
  BY DEF SockInv
<1>2. Typed'
  BY <1>1, Stored DEF Typed
<1>3. /\ sock'[o] = s /\ HasFd(o)' /\ Live(o)'
      /\ \A p \in Object \ {o} : sock'[p] = sock[p] /\ (HasFd(p)' <=> HasFd(p))
                                 /\ (Live(p)' <=> Live(p))
  BY <1>1, Stored
<1>4. ASSUME NEW p \in Object, HasFd(p), p # o
      PROVE  /\ sock[p].fd \in Fd \ {f} /\ file'[sock[p].fd] = file[sock[p].fd]
             /\ file[sock[p].fd] \in Desc \ {u}
  <2>1. sock[p].fd \in Fd /\ file[sock[p].fd] \in Desc
    BY <1>1, <1>4, ObjectTyped DEF SockInv, Owned
  <2> QED BY <2>1, FdNumbers
<1>5. \A g \in Fd : file'[g] \in Desc => g = f \/ file'[g] = file[g]
  BY FdNumbers
<1>6. Owned'
  <2>1. \A p \in Object : HasFd(p)' => file'[sock'[p].fd] \in Desc
    BY <1>3, <1>4
  <2>2. \A p, q \in Object : HasFd(p)' /\ HasFd(q)' /\ sock'[p].fd = sock'[q].fd => p = q
    <3> SUFFICES ASSUME NEW p \in Object, NEW q \in Object, HasFd(p)', HasFd(q)',
                        sock'[p].fd = sock'[q].fd
                 PROVE  p = q
      OBVIOUS
    <3>1. CASE p # o /\ q # o
      BY <1>3, <3>1 DEF SockInv, Owned
    <3>2. CASE p = o \/ q = o
      BY <1>3, <1>4, <3>2
    <3> QED BY <3>1, <3>2
  <2>3. \A g \in Fd : file'[g] \in Desc => \E p \in Object : HasFd(p)' /\ sock'[p].fd = g
    <3> SUFFICES ASSUME NEW g \in Fd, file'[g] \in Desc, g # f
                 PROVE  \E p \in Object : HasFd(p)' /\ sock'[p].fd = g
      BY <1>3
    <3>1. PICK p \in Object : HasFd(p) /\ sock[p].fd = g
      BY <1>5 DEF SockInv, Owned
    <3> QED BY <1>3, <3>1
  <2> QED BY <2>1, <2>2, <2>3 DEF Owned
<1>7. desc'[u] = d /\ \A e \in Desc \ {u} : desc'[e] = desc[e]
  BY <1>1 DEF Typed
<1>8. SharedByDup'
  <2> SUFFICES ASSUME NEW g \in Fd, NEW h \in Fd, g # h, file'[g] = file'[h], file'[g] \in Desc
               PROVE  desc'[file'[g]].shared
    BY DEF SharedByDup
  <2>1. g # f /\ h # f
    BY <1>5
  <2>2. file'[g] = file[g] /\ file'[h] = file[h] /\ file[g] # u
    BY <1>5, <2>1
  <2>3. desc[file[g]].shared
    BY <2>2 DEF SockInv, SharedByDup
  <2>4. desc'[file[g]] = desc[file[g]]
    BY <1>7, <2>2
  <2> QED BY <2>2, <2>3, <2>4
<1>9. ASSUME NEW p \in Object, HasFd(p)'
      PROVE  Truthful(sock'[p], desc'[file'[sock'[p].fd]])
  <2>1. CASE p = o
    BY <1>3, <1>7, <2>1
  <2>2. CASE p # o
    BY <1>3, <1>4, <1>7, <1>9, <2>2 DEF SockInv
  <2> QED BY <2>1, <2>2
<1>10. ASSUME NEW p \in Object, Live(p)', ~HasFd(p)' PROVE Silent(sock'[p])
  BY <1>3, <1>10 DEF SockInv
<1> QED BY <1>2, <1>6, <1>8, <1>9, <1>10 DEF SockInv

LEMMA ShareFdStep ==
  ASSUME SockInv, NEW o \in Object, HasFd(o), NEW c \in Object, ~HasFd(c),
         NEW f \in Fd, file[f] = Closed, NEW i, i = file[sock[o].fd],
         file' = [file EXCEPT ![f] = i], desc' = [desc EXCEPT ![i].shared = TRUE],
         Store(c, [sock[o] EXCEPT !.fd = f])
  PROVE  SockInv'
<1> DEFINE s == [sock[o] EXCEPT !.fd = f]
           d == [desc[i] EXCEPT !.shared = TRUE]
<1>1. Typed /\ i \in Desc /\ sock[o] \in SockRec /\ Truthful(sock[o], desc[i]) /\ c # o
  BY ObjectTyped DEF SockInv, Owned
<1>2. /\ s \in SockRec /\ s.fd = f /\ s.flags = sock[o].flags /\ s.local = sock[o].local
      /\ s.remote = sock[o].remote /\ s.doubt = sock[o].doubt
  BY <1>1 DEF SockRec
<1>3. /\ d \in DescRec /\ d.shared /\ d.bound = desc[i].bound /\ d.refused = desc[i].refused
      /\ d.listening = desc[i].listening /\ d.connected = desc[i].connected
  BY <1>1 DEF Typed, DescRec
<1>4. desc' = [desc EXCEPT ![i] = d]
  BY <1>1 DEF Typed
<1>5. Store(c, s)
  OBVIOUS
<1>6. \A r : Truthful(r, desc[i]) => Truthful(r, d)
  <2> HIDE DEF d
  <2> QED BY <1>3 DEF Truthful
<1>7. Truthful(s, d)
  <2> HIDE DEF s, d
  <2>1. Truthful(s, desc[i])
    BY <1>1, <1>2 DEF Truthful
  <2> QED BY <1>6, <2>1
<1> HIDE DEF s, d
<1>8. Typed'
  <2>1. sock' \in [Object -> SockRec \cup {Free}]
    BY <1>1, <1>2, <1>5, Stored
  <2>2. desc' \in [Desc -> DescRec]
    BY <1>1, <1>3, <1>4 DEF Typed
  <2>3. file' \in [Fd -> Desc \cup {Closed, Lost}]
    BY <1>1 DEF Typed
  <2> QED BY <2>1, <2>2, <2>3 DEF Typed
<1>9. /\ sock'[c] = s /\ HasFd(c)' /\ Live(c)'
      /\ \A p \in Object \ {c} : sock'[p] = sock[p] /\ (HasFd(p)' <=> HasFd(p))
                                 /\ (Live(p)' <=> Live(p))
  BY <1>1, <1>2, <1>5, Stored
<1>10. file'[f] = i /\ \A g \in Fd \ {f} : file'[g] = file[g]
  BY <1>1 DEF Typed
<1>11. ASSUME NEW p \in Object, HasFd(p), p # c
       PROVE  /\ sock[p].fd \in Fd \ {f} /\ file'[sock[p].fd] = file[sock[p].fd]
              /\ file[sock[p].fd] \in Desc
  <2>1. sock[p].fd \in Fd /\ file[sock[p].fd] \in Desc
    BY <1>1, <1>11, ObjectTyped DEF SockInv, Owned
  <2> QED BY <1>10, <2>1, FdNumbers
<1>12. Owned'
  <2>1. \A p \in Object : HasFd(p)' => file'[sock'[p].fd] \in Desc
    BY <1>1, <1>2, <1>9, <1>10, <1>11
  <2>2. \A p, q \in Object : HasFd(p)' /\ HasFd(q)' /\ sock'[p].fd = sock'[q].fd => p = q
    <3> SUFFICES ASSUME NEW p \in Object, NEW q \in Object, HasFd(p)', HasFd(q)',
                        sock'[p].fd = sock'[q].fd
                 PROVE  p = q
      OBVIOUS
    <3>1. CASE p # c /\ q # c
      BY <1>9, <3>1 DEF SockInv, Owned
    <3>2. CASE p = c \/ q = c
      BY <1>2, <1>9, <1>11, <3>2
    <3> QED BY <3>1, <3>2
  <2>3. \A g \in Fd : file'[g] \in Desc => \E p \in Object : HasFd(p)' /\ sock'[p].fd = g
    <3> SUFFICES ASSUME NEW g \in Fd, file'[g] \in Desc, g # f
                 PROVE  \E p \in Object : HasFd(p)' /\ sock'[p].fd = g
      BY <1>2, <1>9
    <3>1. PICK p \in Object : HasFd(p) /\ sock[p].fd = g
      BY <1>10 DEF SockInv, Owned
    <3> QED BY <1>9, <3>1
  <2> QED BY <2>1, <2>2, <2>3 DEF Owned
<1>13. desc'[i] = d /\ \A e \in Desc \ {i} : desc'[e] = desc[e]
  BY <1>1, <1>4 DEF Typed
<1>14. SharedByDup'
  <2> SUFFICES ASSUME NEW g \in Fd, NEW h \in Fd, g # h, file'[g] = file'[h], file'[g] \in Desc,
                      file'[g] # i
               PROVE  desc'[file'[g]].shared
    BY <1>3, <1>13 DEF SharedByDup
  <2>1. file'[g] = file[g] /\ file'[h] = file[h]
    BY <1>10
  <2>2. desc[file[g]].shared
    BY <2>1 DEF SockInv, SharedByDup
  <2>3. desc'[file[g]] = desc[file[g]]
    BY <1>13, <2>1
  <2> QED BY <2>1, <2>2, <2>3
<1>15. ASSUME NEW p \in Object, HasFd(p)'
       PROVE  Truthful(sock'[p], desc'[file'[sock'[p].fd]])
  <2>1. CASE p = c
    BY <1>2, <1>7, <1>9, <1>10, <1>13, <2>1
  <2>2. CASE p # c
    <3>1. /\ HasFd(p) /\ sock'[p] = sock[p] /\ file'[sock[p].fd] = file[sock[p].fd]
          /\ file[sock[p].fd] \in Desc
          /\ Truthful(sock[p], desc[file[sock[p].fd]])
      BY <1>9, <1>11, <1>15, <2>2 DEF SockInv
    <3> QED BY <1>6, <1>13, <3>1
  <2> QED BY <2>1, <2>2
<1>16. ASSUME NEW p \in Object, Live(p)', ~HasFd(p)' PROVE Silent(sock'[p])
  BY <1>9, <1>16 DEF SockInv
<1> QED BY <1>8, <1>12, <1>14, <1>15, <1>16 DEF SockInv

LEMMA GiveFdStep ==
  ASSUME SockInv, NEW o \in Object, HasFd(o), NEW s \in SockRec \cup {Free},
         s \in SockRec => s.fd = NoFd /\ Silent(s),
         NEW how \in {Closed, Lost}, Store(o, s), Leave(sock[o].fd, how)
  PROVE  SockInv'
<1> DEFINE f == sock[o].fd
           i == file[f]
<1>1. Typed /\ f \in Fd /\ i \in Desc
  BY ObjectTyped DEF SockInv, Owned
<1>2. file' = [file EXCEPT ![f] = how]
      /\ desc' = IF \E g \in Fd \ {f} : file[g] = i THEN desc ELSE [desc EXCEPT ![i] = Fresh]
  BY DEF Leave
<1> HIDE DEF f, i
<1>3. Fresh \in DescRec
  BY DEF Fresh, DescRec, Urls
<1>4. Typed'
  BY <1>1, <1>2, <1>3, Stored DEF Typed
<1>5. /\ ~HasFd(o)' /\ sock'[o] = s
      /\ \A p \in Object \ {o} : sock'[p] = sock[p] /\ (HasFd(p)' <=> HasFd(p))
                                 /\ (Live(p)' <=> Live(p))
      /\ Live(o)' => s \in SockRec
  BY <1>1, Stored, FdNumbers
<1>6. file'[f] \notin Desc /\ \A g \in Fd \ {f} : file'[g] = file[g]
  BY <1>1, <1>2, FdNumbers DEF Typed
<1>7. ASSUME NEW p \in Object, HasFd(p), p # o
      PROVE  /\ sock[p].fd \in Fd \ {f} /\ file'[sock[p].fd] = file[sock[p].fd]
             /\ file[sock[p].fd] \in Desc
  <2>1. sock[p].fd \in Fd /\ file[sock[p].fd] \in Desc /\ sock[p].fd # f
    BY <1>1, <1>7, ObjectTyped DEF SockInv, Owned, f
  <2> QED BY <1>6, <2>1
<1>8. Owned'
  <2>1. \A p \in Object : HasFd(p)' => p # o /\ HasFd(p) /\ sock'[p] = sock[p]
    BY <1>5
  <2>2. \A g \in Fd : file'[g] \in Desc => \E p \in Object : HasFd(p)' /\ sock'[p].fd = g
    <3> SUFFICES ASSUME NEW g \in Fd, file'[g] \in Desc
                 PROVE  \E p \in Object : HasFd(p)' /\ sock'[p].fd = g
      OBVIOUS
    <3>1. g # f /\ file[g] \in Desc
      BY <1>6
    <3>2. PICK p \in Object : HasFd(p) /\ sock[p].fd = g
      BY <3>1 DEF SockInv, Owned
    <3>3. p # o
      BY <3>1, <3>2 DEF f
    <3> QED BY <1>5, <3>2, <3>3
  <2> QED BY <1>7, <2>1, <2>2 DEF Owned, SockInv
<1>9. \A g \in Fd \ {f} : file[g] \in Desc => desc'[file[g]] = desc[file[g]]
  BY <1>1, <1>2 DEF Typed
<1>10. SharedByDup'
  <2> SUFFICES ASSUME NEW g \in Fd, NEW h \in Fd, g # h, file'[g] = file'[h], file'[g] \in Desc
               PROVE  desc'[file'[g]].shared
    BY DEF SharedByDup
  <2>1. g # f /\ h # f /\ file'[g] = file[g] /\ file'[h] = file[h]
    BY <1>6
  <2> QED BY <1>9, <2>1 DEF SockInv, SharedByDup
<1>11. ASSUME NEW p \in Object, HasFd(p)'
       PROVE  Truthful(sock'[p], desc'[file'[sock'[p].fd]])
  <2>1. p # o /\ HasFd(p) /\ sock'[p] = sock[p]
    BY <1>5, <1>11
  <2> QED BY <1>7, <1>9, <2>1 DEF SockInv
<1>12. ASSUME NEW p \in Object, Live(p)', ~HasFd(p)' PROVE Silent(sock'[p])
  BY <1>5, <1>12 DEF SockInv
<1> QED BY <1>4, <1>8, <1>10, <1>11, <1>12 DEF SockInv

-----------------------------------------------------------------------------
(* Each operation is one of these.                                         *)

(* spif_socket_get_proto() and the address add to an object only its       *)
(* family, its type and its address.                                       *)
LEMMA AddressedKeeps ==
  ASSUME NEW s \in SockRec, NEW r \in BOOLEAN
  PROVE  LET t == Addressed(s, r) IN
         /\ t \in SockRec /\ t.fd = s.fd /\ t.local = s.local /\ t.remote = s.remote
         /\ t.doubt = s.doubt
         /\ "LISTEN" \in t.flags <=> "LISTEN" \in s.flags
         /\ "CONNECTED" \in t.flags <=> "CONNECTED" \in s.flags
         /\ "NBIO" \in t.flags <=> "NBIO" \in s.flags
<1> DEFINE p == GetProto(s)
<1>1. \E more \in SUBSET {"INET", "UNIX", "STREAM", "DGRAM", "RAW"} :
        p = [s EXCEPT !.flags = @ \cup more]
  <2> DEFINE u == IF s.remote = None THEN s.local ELSE s.remote
             family == CASE u.proto = "raw" -> IF u.host THEN {"INET"}
                                               ELSE IF u.path THEN {"UNIX"} ELSE {}
                         [] u.proto \in {"", "unix"} -> {"UNIX"}
                         [] OTHER -> {"INET"}
             type == CASE u.proto = "raw" -> {"RAW"}
                       [] u.proto \in {"", "unix", "tcp"} -> {"STREAM"}
                       [] u.proto = "udp" -> {"DGRAM"}
                       [] OTHER -> {}
  <2>1. CASE u = None
    <3>1. p = [s EXCEPT !.flags = @ \cup {}]
      BY <2>1 DEF GetProto, SockRec
    <3> QED BY <3>1
  <2>2. CASE u # None
    <3>1. u \in Url
      BY <2>2 DEF SockRec, Urls
    <3>2. family \subseteq {"INET", "UNIX"} /\ type \subseteq {"STREAM", "DGRAM", "RAW"}
      <4> HIDE DEF u
      <4> QED BY <3>1 DEF Url
    <3>3. p = [s EXCEPT !.flags = @ \cup family \cup type]
      BY <2>2 DEF GetProto
    <3> HIDE DEF family, type, p
    <3>4. family \cup type \in SUBSET {"INET", "UNIX", "STREAM", "DGRAM", "RAW"}
      BY <3>2
    <3>5. s.flags \cup family \cup type = s.flags \cup (family \cup type)
      OBVIOUS
    <3>6. p = [s EXCEPT !.flags = @ \cup (family \cup type)]
      BY <3>3, <3>5
    <3> QED BY <3>4, <3>6
  <2> QED BY <2>1, <2>2
<1> HIDE DEF p
<1>2. PICK more \in SUBSET {"INET", "UNIX", "STREAM", "DGRAM", "RAW"} :
        p = [s EXCEPT !.flags = @ \cup more]
  BY <1>1
<1>3. /\ p \in SockRec /\ p.fd = s.fd /\ p.local = s.local /\ p.remote = s.remote
      /\ p.doubt = s.doubt /\ p.flags = s.flags \cup more
  BY <1>2 DEF SockRec, Flag
<1>4. GetAddr(p, p.remote, r) \in BOOLEAN
  BY DEF GetAddr
<1>5. /\ Addressed(s, r) \in SockRec /\ Addressed(s, r).fd = s.fd
      /\ Addressed(s, r).local = s.local /\ Addressed(s, r).remote = s.remote
      /\ Addressed(s, r).doubt = s.doubt
      /\ Addressed(s, r).flags \in {s.flags, p.flags}
  <2> DEFINE b == GetAddr(p, p.remote, r)
             q(fam) == [p EXCEPT !.fam = fam, !.addr = b]
  <2>1. GetProto(s) = p
    BY DEF p
  <2>2. \/ Addressed(s, r) = s \/ Addressed(s, r) = p
        \/ Addressed(s, r) = q("INET") \/ Addressed(s, r) = q("UNIX")
    BY <2>1 DEF Addressed
  <2>3. b \in BOOLEAN
    BY <1>4
  <2> HIDE DEF b
  <2>4. ASSUME NEW fam \in {"INET", "UNIX"}
        PROVE  /\ q(fam) \in SockRec /\ q(fam).fd = p.fd /\ q(fam).local = p.local
               /\ q(fam).remote = p.remote /\ q(fam).doubt = p.doubt
               /\ q(fam).flags = p.flags
    BY <1>3, <2>3 DEF SockRec
  <2> HIDE DEF q
  <2>5. CASE Addressed(s, r) = s
    BY <2>5
  <2>6. CASE Addressed(s, r) = p
    BY <1>3, <2>6
  <2>7. CASE Addressed(s, r) = q("INET") \/ Addressed(s, r) = q("UNIX")
    BY <1>3, <2>4, <2>7
  <2> QED BY <2>2, <2>5, <2>6, <2>7
<1> QED BY <1>3, <1>5

(* connect() and listen() on a description, and the flags that say so.     *)
LEMMA ReachWrites ==
  ASSUME NEW o \in Object, NEW s \in SockRec, NEW f \in Fd, NEW d \in DescRec, Truthful(s, d), Reach(o, s, f, d)
  PROVE  \E t \in SockRec, e \in DescRec :
           /\ Store(o, t) /\ desc' = [desc EXCEPT ![file'[f]] = e]
           /\ t.fd = s.fd /\ Truthful(t, e)
           /\ e.shared = d.shared /\ e.bound = d.bound /\ e.refused = d.refused
           /\ d.listening => e.listening
           /\ d.connected => e.connected
<1> DEFINE quiet == [s EXCEPT !.flags = @ \ {"NBIO"}]
           joined == [quiet EXCEPT !.flags = @ \cup {"CONNECTED"}]
           heard == [s EXCEPT !.flags = @ \cup {"LISTEN"}]
           awake == [d EXCEPT !.nbio = FALSE]
<1> DEFINE Goal(t, e) ==
           /\ t \in SockRec /\ e \in DescRec
           /\ t.fd = s.fd /\ Truthful(t, e)
           /\ e.shared = d.shared /\ e.bound = d.bound /\ e.refused = d.refused
           /\ d.listening => e.listening
           /\ d.connected => e.connected
<1>1. s.remote # None => Goal(quiet, awake)
  BY DEF SockRec, DescRec, Truthful
<1>2. s.remote # None => Goal(joined, [awake EXCEPT !.connected = TRUE])
  BY DEF SockRec, DescRec, Truthful, Flag
<1>3. s.remote = None => Goal(heard, [d EXCEPT !.listening = TRUE])
  BY DEF SockRec, DescRec, Truthful, Flag
<1>4. Goal(s, d)
  OBVIOUS
<1>5. \E t, e : Goal(t, e) /\ Store(o, t) /\ desc' = [desc EXCEPT ![file'[f]] = e]
  <2>1. CASE s.remote # None
    <3> HIDE DEF Goal
    <3> QED BY <1>1, <1>2, <2>1 DEF Reach
  <2>2. CASE s.remote = None
    <3> HIDE DEF Goal
    <3> QED BY <1>3, <1>4, <2>2 DEF Reach
  <2> QED BY <2>1, <2>2
<1> QED BY <1>5

(* The type and the descriptor that socket() gives to an object.           *)
LEMMA MadeSockets ==
  ASSUME NEW s \in SockRec, NEW f \in Fd
  PROVE  LET typed == [s EXCEPT !.type = SockType(s)]
             made == [typed EXCEPT !.fd = f]
             open == [made EXCEPT !.flags = @ \cup {"OPEN"}]
         IN /\ typed \in SockRec /\ typed.fd = s.fd /\ typed.flags = s.flags
            /\ typed.doubt = s.doubt
            /\ typed.local = s.local /\ typed.remote = s.remote
            /\ made \in SockRec /\ made.fd = f /\ made.flags = s.flags
            /\ made.doubt = s.doubt
            /\ made.local = s.local /\ made.remote = s.remote
            /\ open \in SockRec /\ open.fd = f /\ open.flags = s.flags \cup {"OPEN"}
            /\ open.doubt = s.doubt
            /\ open.local = s.local /\ open.remote = s.remote
<1>1. SockType(s) \in {"STREAM", "DGRAM", "RAW"}
  BY DEF SockType
<1> QED BY <1>1 DEF SockRec, Flag

(* A new descriptor for o, on a description that no other one names.       *)
LEMMA CreateKeeps ==
  ASSUME SockInv, NEW o \in Object, Live(o), ~HasFd(o),
         NEW s \in SockRec, s.fd = NoFd, Silent(s), NEW r \in BOOLEAN, Create(o, s, r)
  PROVE  SockInv'
<1> DEFINE typed == [s EXCEPT !.type = SockType(s)]
           f == Lowest(FreeFds)
           made == [typed EXCEPT !.fd = f]
           open == [made EXCEPT !.flags = @ \cup {"OPEN"}]
           u == UnusedDesc
<1>1. typed \in SockRec /\ typed.fd = NoFd /\ Silent(typed)
  <2>1. SockType(s) \in {"STREAM", "DGRAM", "RAW"}
    BY DEF SockType
  <2> QED BY <2>1 DEF SockRec, Silent
<1>2. CASE Store(o, typed) /\ UNCHANGED <<file, desc>>
  <2> HIDE DEF typed
  <2> QED BY <1>1, <1>2, NoFdStep
<1>3. CASE FreeFds # {} /\ file' = [file EXCEPT ![f] = u]
           /\ \/ /\ s.local # None /\ GetAddr(s, s.local, r)
                 /\ Reach(o, open, f, [Fresh EXCEPT !.bound = s.local])
              \/ /\ s.local # None
                 /\ Store(o, made)
                 /\ desc' = [desc EXCEPT ![u] = [Fresh EXCEPT !.refused = TRUE]]
              \/ s.local = None /\ Reach(o, open, f, Fresh)
  <2>1. /\ f \in Fd /\ file[f] = Closed /\ u \in Desc /\ (\A g \in Fd : file[g] # u)
    BY <1>3, NewFd, NewDesc
  <2>2. /\ file' \in [Fd -> Desc \cup {Closed, Lost}] /\ file'[f] = u
        /\ \A g \in Fd \ {f} : file'[g] = file[g]
    <3> HIDE DEF f, u
    <3> QED BY <1>3, <2>1 DEF SockInv, Typed
  <2>3. /\ made \in SockRec /\ made.fd = f /\ made.flags = s.flags
        /\ made.doubt = s.doubt /\ made.local = s.local /\ made.remote = s.remote
        /\ open \in SockRec /\ open.fd = f /\ open.flags = s.flags \cup {"OPEN"}
        /\ open.doubt = s.doubt /\ open.local = s.local /\ open.remote = s.remote
    <3> HIDE DEF f
    <3> QED BY <2>1, MadeSockets
  <2> HIDE DEF f, u, made, open, typed
  <2>4. Fresh \in DescRec /\ [Fresh EXCEPT !.bound = s.local] \in DescRec
        /\ [Fresh EXCEPT !.refused = TRUE] \in DescRec
    BY DEF Fresh, DescRec, Urls, SockRec
  <2>5. CASE \E d \in DescRec : Truthful(open, d) /\ Reach(o, open, f, d)
    <3>1. PICK d \in DescRec : Truthful(open, d) /\ Reach(o, open, f, d)
      BY <2>5
    <3>2. PICK t \in SockRec, e \in DescRec :
            /\ Store(o, t) /\ desc' = [desc EXCEPT ![file'[f]] = e]
            /\ t.fd = open.fd /\ Truthful(t, e)
      BY <2>1, <2>3, <3>1, ReachWrites
    <3>3. desc' = [desc EXCEPT ![u] = e] /\ t.fd = f
      BY <2>2, <2>3, <3>2
    <3>4. Takes(o, t, f, u, e)
      BY <2>1, <2>2, <3>2, <3>3 DEF Takes
    <3> QED BY <3>4, TakeFdStep
  <2>6. Truthful(made, [Fresh EXCEPT !.refused = TRUE])
        /\ Truthful(open, [Fresh EXCEPT !.bound = s.local])
        /\ (s.local = None => Truthful(open, Fresh))
    <3>1. Truthful(made, [Fresh EXCEPT !.refused = TRUE])
      BY <2>3 DEF Truthful, Fresh, Silent
    <3>2. Truthful(open, [Fresh EXCEPT !.bound = s.local])
      BY <2>3 DEF Truthful, Fresh, Silent
    <3>3. s.local = None => Truthful(open, Fresh)
      BY <2>3 DEF Truthful, Fresh, Silent
    <3> QED BY <3>1, <3>2, <3>3
  <2>7. CASE Store(o, made) /\ desc' = [desc EXCEPT ![u] = [Fresh EXCEPT !.refused = TRUE]]
    <3> DEFINE d == [Fresh EXCEPT !.refused = TRUE]
    <3>1. Takes(o, made, f, u, d)
      BY <2>1, <2>2, <2>3, <2>4, <2>6, <2>7 DEF Takes
    <3> QED BY <3>1, TakeFdStep
  <2> QED BY <1>3, <2>4, <2>5, <2>6, <2>7
<1> QED BY <1>2, <1>3 DEF Create

LEMMA OpenKeeps ==
  ASSUME SockInv, NEW o \in Object, Open(o)
  PROVE  SockInv'
<1>1. PICK r \in BOOLEAN, l \in BOOLEAN :
        LET s == Addressed(sock[o], r)
            lost == s.flags \cap {"INET", "UNIX"} = {}
            untyped == s.flags \cap {"STREAM", "DGRAM", "RAW"} = {}
        IN \/ Store(o, s) /\ UNCHANGED <<file, desc>>
           \/ s.fd = NoFd /\ Create(o, s, l)
           \/ s.fd # NoFd /\ UNCHANGED file /\ Reach(o, s, s.fd, desc[file[s.fd]])
  BY DEF Open
<1> DEFINE s == Addressed(sock[o], r)
<1>2. Live(o) /\ Typed /\ sock[o] \in SockRec
  BY ObjectTyped DEF Open, SockInv
<1>3. /\ s \in SockRec /\ s.fd = sock[o].fd /\ s.local = sock[o].local
      /\ s.remote = sock[o].remote /\ s.doubt = sock[o].doubt
      /\ "LISTEN" \in s.flags <=> "LISTEN" \in sock[o].flags
      /\ "CONNECTED" \in s.flags <=> "CONNECTED" \in sock[o].flags
      /\ "NBIO" \in s.flags <=> "NBIO" \in sock[o].flags
  BY <1>2, AddressedKeeps
<1>4. \/ Store(o, s) /\ UNCHANGED <<file, desc>>
      \/ s.fd = NoFd /\ Create(o, s, l)
      \/ s.fd # NoFd /\ UNCHANGED file /\ Reach(o, s, s.fd, desc[file[s.fd]])
  BY <1>1
<1> HIDE DEF s
<1>5. CASE HasFd(o)
  <2> DEFINE i == file[s.fd]
  <2>1. s.fd \in Fd /\ s.fd # NoFd /\ i \in Desc /\ Truthful(sock[o], desc[i])
    BY <1>2, <1>3, <1>5, ObjectTyped, FdNumbers DEF SockInv, Owned
  <2>2. desc[i] \in DescRec /\ Truthful(s, desc[i])
    BY <1>2, <1>3, <2>1 DEF Truthful, Typed
  <2>3. CASE Store(o, s) /\ UNCHANGED <<file, desc>>
    <3>1. desc' = [desc EXCEPT ![i] = desc[i]]
      BY <1>2, <2>1, <2>3 DEF Typed
    <3> HIDE DEF i
    <3>2. i = file[s.fd]
      BY DEF i
    <3>3. Keeps(o, s, i, desc[i])
      BY <1>3, <1>5, <2>2, <2>3, <3>1, <3>2 DEF Keeps
    <3> QED BY <3>3, KeepFdStep
  <2>4. CASE UNCHANGED file /\ Reach(o, s, s.fd, desc[i])
    <3>0. i = file[s.fd]
      OBVIOUS
    <3> HIDE DEF i
    <3>1. PICK t \in SockRec, e \in DescRec :
            /\ Store(o, t) /\ desc' = [desc EXCEPT ![file'[s.fd]] = e]
            /\ t.fd = s.fd /\ Truthful(t, e)
            /\ e.shared = desc[i].shared /\ e.bound = desc[i].bound
            /\ e.refused = desc[i].refused
            /\ desc[i].listening => e.listening
            /\ desc[i].connected => e.connected
      BY <1>3, <2>1, <2>2, <2>4, ReachWrites
    <3>2. i = file[t.fd] /\ desc' = [desc EXCEPT ![i] = e]
      BY <2>4, <3>0, <3>1
    <3>3. t.fd = sock[o].fd /\ UNCHANGED file
      BY <1>3, <2>4, <3>1
    <3>4. Keeps(o, t, i, e)
      BY <1>5, <3>1, <3>2, <3>3 DEF Keeps
    <3> QED BY <3>4, KeepFdStep
  <2> QED BY <1>4, <2>1, <2>3, <2>4
<1>6. CASE ~HasFd(o)
  <2>1. sock[o].fd = NoFd /\ Silent(sock[o])
    BY <1>2, <1>6, ObjectTyped DEF SockInv
  <2>2. s.fd = NoFd /\ Silent(s)
    BY <1>3, <2>1 DEF Silent
  <2>3. CASE Store(o, s) /\ UNCHANGED <<file, desc>>
    BY <1>3, <1>6, <2>2, <2>3, NoFdStep
  <2>4. CASE Create(o, s, l)
    BY <1>2, <1>3, <1>6, <2>2, <2>4, CreateKeeps
  <2> QED BY <1>4, <2>2, <2>3, <2>4
<1> QED BY <1>5, <1>6

LEMMA NewKeeps ==
  ASSUME SockInv, NEW o \in Object, NEW urls \in UrlPairs, New(o, urls)
  PROVE  SockInv'
<1> DEFINE s == [Blank EXCEPT !.local = urls[1], !.remote = urls[2]]
<1>1. urls[1] \in Urls /\ urls[2] \in Urls
  BY SocketAssumption DEF Urls
<1>2. s \in SockRec /\ s.fd = NoFd /\ Silent(s)
  BY <1>1 DEF Blank, SockRec, Silent
<1>3. ~HasFd(o) /\ Store(o, s) /\ UNCHANGED <<file, desc>>
  BY DEF New, HasFd
<1> HIDE DEF s
<1> QED BY <1>2, <1>3, NoFdStep

(* The value an object is left with when its descriptor goes.              *)
LEMMA ShutTyped ==
  /\ \A s \in SockRec : Shut(s) \in SockRec /\ Shut(s).fd = NoFd /\ Silent(Shut(s))
  /\ Blank \in SockRec /\ Blank.fd = NoFd /\ Silent(Blank)
  BY DEF Shut, Blank, SockRec, Silent, IoState, Urls

LEMMA ReleaseKeeps ==
  ASSUME SockInv, NEW o \in Object, Close(o) \/ Done(o) \/ Del(o)
  PROVE  SockInv'
<1>1. Free \notin SockRec
  BY RecIsLive
<1>2. ASSUME NEW s \in {Blank, Free}, Release(o, s) PROVE SockInv'
  <2>1. s \in SockRec \cup {Free} /\ (s \in SockRec => s.fd = NoFd /\ Silent(s))
    BY <1>1, ShutTyped
  <2>2. CASE HasFd(o)
    BY <1>2, <2>1, <2>2, GiveFdStep DEF Release
  <2>3. CASE ~HasFd(o)
    BY <1>2, <2>1, <2>3, NoFdStep DEF Release
  <2> QED BY <2>2, <2>3
<1>3. CASE Close(o)
  <2>1. HasFd(o) /\ sock[o] \in SockRec
    BY <1>3, ObjectTyped DEF Close, SockInv
  <2> QED BY <1>3, <2>1, ShutTyped, GiveFdStep DEF Close
<1> QED BY <1>2, <1>3 DEF Done, Del

LEMMA SendKeeps ==
  ASSUME SockInv, NEW o \in Object, NEW broken \in BOOLEAN, SendFails(o, broken)
  PROVE  SockInv'
<1>1. sock[o] \in SockRec
  BY ObjectTyped DEF SendFails, SockInv
<1>2. CASE HasFd(o)
  <2>1. (IF broken THEN Closed ELSE Lost) \in {Closed, Lost}
    OBVIOUS
  <2> QED BY <1>1, <1>2, <2>1, ShutTyped, GiveFdStep DEF SendFails
<1>3. CASE ~HasFd(o)
  BY <1>1, <1>3, ShutTyped, NoFdStep DEF SendFails
<1> QED BY <1>2, <1>3

LEMMA DupKeeps ==
  ASSUME SockInv, NEW o \in Object, NEW c \in Object, Dup(o, c)
  PROVE  SockInv'
<1>1. Typed /\ sock[o] \in SockRec /\ ~HasFd(c)
  BY ObjectTyped DEF Dup, SockInv, HasFd
<1>2. CASE HasFd(o) /\ FreeFds # {} /\ file' = [file EXCEPT ![Lowest(FreeFds)] = file[sock[o].fd]]
           /\ desc' = [desc EXCEPT ![file[sock[o].fd]].shared = TRUE]
           /\ Store(c, [sock[o] EXCEPT !.fd = Lowest(FreeFds)])
  BY <1>1, <1>2, NewFd, ShareFdStep
<1>3. CASE UNCHANGED <<file, desc>>
           /\ Store(c, [sock[o] EXCEPT !.fd = NoFd, !.doubt = @ \/ HasFd(o)])
  <2> DEFINE s == [sock[o] EXCEPT !.fd = NoFd, !.doubt = @ \/ HasFd(o)]
  <2>1. HasFd(o) \in BOOLEAN
    BY DEF HasFd
  <2>2. s \in SockRec /\ s.fd = NoFd /\ s.flags = sock[o].flags
        /\ s.doubt = (sock[o].doubt \/ HasFd(o))
    BY <1>1, <2>1 DEF SockRec
  <2>3. ~HasFd(o) => Silent(sock[o])
    BY DEF Dup, SockInv
  <2>4. Silent(s)
    BY <2>2, <2>3 DEF Silent
  <2> HIDE DEF s
  <2>5. Store(c, s)
    BY <1>3 DEF s
  <2> QED BY <1>1, <1>3, <2>2, <2>4, <2>5, NoFdStep
<1> QED BY <1>2, <1>3 DEF Dup

LEMMA AcceptKeeps ==
  ASSUME SockInv, NEW o \in Object, NEW c \in Object, Accept(o, c)
  PROVE  SockInv'
<1> DEFINE s == sock[o]
           l == file[s.fd]
           f == Lowest(FreeFds)
           copies == FreeFds \ {f}
           u == UnusedDesc
           t == [s EXCEPT !.fd = f, !.flags = @ \ {"LISTEN"}, !.remote = PeerUrl(s)]
           d == [Fresh EXCEPT !.bound = desc[l].bound, !.connected = TRUE,
                              !.nbio = "NBIO" \in s.flags]
<1>1. Typed /\ s \in SockRec /\ HasFd(o) /\ ~HasFd(c) /\ l \in Desc
  BY ObjectTyped DEF Accept, SockInv, HasFd, Owned
<1>2. f \in Fd /\ file[f] = Closed /\ u \in Desc /\ \A g \in Fd : file[g] # u
  BY <1>1, NewFd, NewDesc DEF Accept
<1>3. copies # {} => Lowest(copies) \in copies
  <2>1. copies \in SUBSET Nat
    BY FdNumbers DEF FreeFds
  <2> QED BY <2>1, LowestIn
<1>4. /\ file' = [g \in Fd |-> IF g = f THEN u
                             ELSE IF copies # {} /\ g = Lowest(copies) THEN Lost ELSE file[g]]
      /\ desc' = [desc EXCEPT ![u] = d]
      /\ Store(c, t)
  BY DEF Accept
<1>5. PeerUrl(s) \in Url /\ PeerUrl(s) # None
  <2>1. ("INET" \in s.flags) \in BOOLEAN /\ ("INET" \notin s.flags) \in BOOLEAN
    OBVIOUS
  <2>2. \A a, b \in BOOLEAN : [proto |-> "", host |-> a, path |-> b] \in Url
    BY DEF Url
  <2> HIDE DEF s
  <2> QED BY <2>1, <2>2, SocketAssumption DEF PeerUrl
<1>6. /\ t \in SockRec /\ t.fd = f /\ t.flags = s.flags \ {"LISTEN"} /\ t.remote # None
      /\ t.doubt = s.doubt
  <2> HIDE DEF f
  <2> QED BY <1>1, <1>2, <1>5 DEF SockRec, Urls
<1>7. desc[l] \in DescRec
  BY <1>1 DEF Typed
<1>8. d \in DescRec /\ d.connected /\ d.nbio = ("NBIO" \in s.flags)
  <2>1. ("NBIO" \in s.flags) \in BOOLEAN /\ desc[l].bound \in Urls
    BY <1>7 DEF DescRec
  <2> HIDE DEF l, s
  <2> QED BY <2>1 DEF DescRec, Fresh, Urls
<1>9. Truthful(t, d)
  <2> HIDE DEF t, d, s
  <2> QED BY <1>6, <1>8 DEF Truthful
<1>10. \A g \in copies : g \in Fd /\ file[g] = Closed
  BY DEF FreeFds
<1> HIDE DEF s, l, f, copies, u, t, d
<1>11. /\ file' \in [Fd -> Desc \cup {Closed, Lost}] /\ file'[f] = u
       /\ \A g \in Fd \ {f} : file'[g] = file[g] \/ (file[g] = Closed /\ file'[g] = Lost)
  BY <1>1, <1>2, <1>3, <1>4, <1>10 DEF Typed
<1>12. Takes(c, t, f, u, d)
  BY <1>1, <1>2, <1>4, <1>6, <1>8, <1>9, <1>11 DEF Takes
<1> QED BY <1>12, TakeFdStep

LEMMA NbioKeeps ==
  ASSUME SockInv, NEW o \in Object, SetNbio(o) \/ ClearNbio(o)
  PROVE  SockInv'
<1> DEFINE i == file[sock[o].fd]
<1>1. HasFd(o) /\ Typed /\ sock[o] \in SockRec /\ i \in Desc /\ desc[i] \in DescRec
      /\ Truthful(sock[o], desc[i])
  BY ObjectTyped DEF SetNbio, ClearNbio, SockInv, Owned, Typed
<1>2. \E flags \in SUBSET Flag, b \in BOOLEAN :
        /\ Store(o, [sock[o] EXCEPT !.flags = flags])
        /\ desc' = [desc EXCEPT ![i] = [desc[i] EXCEPT !.nbio = b]]
        /\ b <=> "NBIO" \in flags
        /\ "LISTEN" \in flags <=> "LISTEN" \in sock[o].flags
        /\ "CONNECTED" \in flags <=> "CONNECTED" \in sock[o].flags
        /\ UNCHANGED file
  <2>1. sock[o].flags \in SUBSET Flag /\ "NBIO" \in Flag
    BY <1>1 DEF SockRec, Flag
  <2> HIDE DEF i
  <2>2. CASE SetNbio(o)
    <3>1. /\ Store(o, [sock[o] EXCEPT !.flags = sock[o].flags \cup {"NBIO"}])
          /\ desc' = [desc EXCEPT ![i] = [desc[i] EXCEPT !.nbio = TRUE]]
          /\ UNCHANGED file
      BY <1>1, <2>2 DEF SetNbio, i, Typed
    <3> QED BY <2>1, <3>1
  <2>3. CASE ClearNbio(o)
    <3>1. /\ Store(o, [sock[o] EXCEPT !.flags = sock[o].flags \ {"NBIO"}])
          /\ desc' = [desc EXCEPT ![i] = [desc[i] EXCEPT !.nbio = FALSE]]
          /\ UNCHANGED file
      BY <1>1, <2>3 DEF ClearNbio, i, Typed
    <3> QED BY <2>1, <3>1
  <2> QED BY <2>2, <2>3
<1>3. PICK flags \in SUBSET Flag, b \in BOOLEAN :
        /\ Store(o, [sock[o] EXCEPT !.flags = flags])
        /\ desc' = [desc EXCEPT ![i] = [desc[i] EXCEPT !.nbio = b]]
        /\ b <=> "NBIO" \in flags
        /\ "LISTEN" \in flags <=> "LISTEN" \in sock[o].flags
        /\ "CONNECTED" \in flags <=> "CONNECTED" \in sock[o].flags
        /\ UNCHANGED file
  BY <1>2
<1> DEFINE s == [sock[o] EXCEPT !.flags = flags]
           d == [desc[i] EXCEPT !.nbio = b]
<1>4. /\ s \in SockRec /\ s.fd = sock[o].fd /\ s.flags = flags /\ s.local = sock[o].local
      /\ s.remote = sock[o].remote /\ s.doubt = sock[o].doubt
  BY <1>1 DEF SockRec
<1>5. /\ d \in DescRec /\ d.nbio = b /\ d.shared = desc[i].shared /\ d.bound = desc[i].bound
      /\ d.refused = desc[i].refused /\ d.listening = desc[i].listening
      /\ d.connected = desc[i].connected
  BY <1>1 DEF DescRec
<1>6. Store(o, s) /\ desc' = [desc EXCEPT ![i] = d] /\ i = file[s.fd]
  BY <1>3, <1>4
<1> HIDE DEF s, d, i
<1>7. Truthful(s, d)
  BY <1>1, <1>3, <1>4, <1>5 DEF Truthful
<1>8. /\ HasFd(o) /\ UNCHANGED file
      /\ desc[i].listening => d.listening
      /\ desc[i].connected => d.connected
  BY <1>1, <1>3, <1>5
<1>9. Keeps(o, s, i, d)
  BY <1>4, <1>5, <1>6, <1>7, <1>8 DEF Keeps
<1> QED BY <1>9, KeepFdStep

-----------------------------------------------------------------------------
(* The theorems.                                                           *)

LEMMA StepKeeps == SockInv /\ [SockNext]_sockVars => SockInv'
<1> SUFFICES ASSUME SockInv, [SockNext]_sockVars PROVE SockInv'
  OBVIOUS
<1>1. CASE UNCHANGED sockVars
  BY <1>1 DEF sockVars, SockInv, Typed, Owned, SharedByDup, HasFd, Live
<1>2. CASE SockNext
  BY <1>2, NewKeeps, OpenKeeps, ReleaseKeeps, DupKeeps, AcceptKeeps, SendKeeps, NbioKeeps
     DEF SockNext
<1> QED BY <1>1, <1>2

LEMMA SockInvHolds == SockSpec => []SockInv
<1>1. SockInit => SockInv
  <2> SUFFICES ASSUME SockInit PROVE SockInv
    OBVIOUS
  <2>1. \A o \in Object : ~Live(o) /\ ~HasFd(o)
    BY DEF SockInit, Live, HasFd
  <2>2. \A f \in Fd : file[f] \notin Desc
    BY FdNumbers DEF SockInit
  <2>3. Fresh \in DescRec
    BY DEF Fresh, DescRec, Urls
  <2> QED BY <2>1, <2>2, <2>3 DEF SockInit, SockInv, Typed, Owned, SharedByDup
<1> QED BY <1>1, StepKeeps, PTL DEF SockSpec

(* Objects and the descriptor table stay well formed, for every number of  *)
(* objects and descriptors and all URLs.                                   *)
THEOREM SocketTypes == SockSpec => []SocketTypeOK
<1>1. SockInv => SocketTypeOK
  <2> SUFFICES ASSUME SockInv PROVE SocketTypeOK
    OBVIOUS
  <2>1. \A o \in Object : Live(o) => sock[o] \in SockRec
    BY ObjectTyped DEF SockInv
  <2> QED BY <2>1 DEF SocketTypeOK, SockInv, Typed, SockRec, Urls
<1> QED BY <1>1, SockInvHolds, PTL

(* No descriptor has two owners and no owner a closed descriptor, whatever *)
(* is opened, duplicated, accepted, closed and lost in whatever order.     *)
THEOREM DescriptorsHaveOneOwner == SockSpec => []OneOwner
<1>1. SockInv => OneOwner
  <2> SUFFICES ASSUME SockInv, NEW o \in Object, HasFd(o)
               PROVE  /\ file[sock[o].fd] \in Desc
                      /\ \A p \in Object \ {o} : Live(p) => sock[p].fd # sock[o].fd
    BY DEF OneOwner
  <2>1. file[sock[o].fd] \in Desc /\ sock[o].fd \in Fd
    BY ObjectTyped DEF SockInv, Owned
  <2>2. ASSUME NEW p \in Object \ {o}, Live(p) PROVE sock[p].fd # sock[o].fd
    <3>1. CASE HasFd(p)
      BY <2>2, <3>1 DEF SockInv, Owned
    <3>2. CASE ~HasFd(p)
      BY <2>1, <2>2, <3>2, ObjectTyped, FdNumbers DEF SockInv
    <3> QED BY <3>1, <3>2
  <2> QED BY <2>1, <2>2
<1> QED BY <1>1, SockInvHolds, PTL

(* LISTEN, CONNECTED and NBIO say what the kernel would, except where a    *)
(* duplicate shares the description or was made without a descriptor.      *)
THEOREM FlagsTellTheTruth == SockSpec => []FlagsTrue
<1>1. SockInv => FlagsTrue
  BY DEF SockInv, Truthful, FlagsTrue
<1> QED BY <1>1, SockInvHolds, PTL

(* A listening object is bound to its local URL unless bind() refused it.  *)
THEOREM ListenersAreBound == SockSpec => []BoundWhereAsked
<1>1. SockInv => BoundWhereAsked
  BY DEF SockInv, Truthful, BoundWhereAsked
<1> QED BY <1>1, SockInvHolds, PTL

(* The descriptors no object can close are the lost ones.                  *)
LEMMA OrphansAreLost == SockInv => Orphans = {f \in Fd : file[f] = Lost}
<1> SUFFICES ASSUME SockInv PROVE Orphans = {f \in Fd : file[f] = Lost}
  OBVIOUS
<1>1. ASSUME NEW f \in Fd, file[f] = Lost PROVE f \in Orphans
  <2>1. ASSUME NEW o \in Object, Live(o), sock[o].fd = f PROVE FALSE
    BY <1>1, <2>1, FdNumbers DEF SockInv, Owned, HasFd
  <2> QED BY <1>1, <2>1, FdNumbers DEF Orphans
<1>2. ASSUME NEW f \in Fd, f \in Orphans PROVE file[f] = Lost
  <2>1. file[f] \notin Desc
    BY <1>2 DEF Orphans, SockInv, Owned, HasFd
  <2> QED BY <1>2, <2>1 DEF Orphans, SockInv, Typed
<1> QED BY <1>1, <1>2 DEF Orphans

(* What the other operations write to the descriptor table is not Lost.    *)
LEMMA LosesNothing ==
  ASSUME SockInv, NEW o \in Object,
         \/ \E urls \in UrlPairs : New(o, urls)
         \/ Open(o) \/ Close(o) \/ Done(o) \/ Del(o)
         \/ \E c \in Object : Dup(o, c)
         \/ SendFails(o, TRUE)
         \/ SetNbio(o) \/ ClearNbio(o),
         NEW f \in Fd, file'[f] = Lost
  PROVE  file[f] = Lost
<1> USE FdNumbers
<1>1. Typed
  BY DEF SockInv
<1>2. CASE UNCHANGED file
  BY <1>2
<1>3. CASE \E g \in Fd : Leave(g, Closed)
  BY <1>1, <1>3 DEF Leave, Typed
<1>4. CASE \E g \in Fd, d \in Desc : file' = [file EXCEPT ![g] = d]
  BY <1>1, <1>4 DEF Typed
<1>5. HasFd(o) => sock[o].fd \in Fd /\ file[sock[o].fd] \in Desc
  BY <1>1, ObjectTyped DEF SockInv, Owned
<1>6. CASE Open(o)
  <2>1. UNCHANGED file \/ \E r, l \in BOOLEAN : Addressed(sock[o], r).fd = NoFd
                                                /\ Create(o, Addressed(sock[o], r), l)
    BY <1>6 DEF Open
  <2>2. CASE \E r, l \in BOOLEAN : Addressed(sock[o], r).fd = NoFd
                                  /\ Create(o, Addressed(sock[o], r), l)
    <3>1. sock[o] \in SockRec
      BY <1>1, <1>6, ObjectTyped DEF Open
    <3>2. \A r \in BOOLEAN : Addressed(sock[o], r).fd = sock[o].fd
      BY <3>1, AddressedKeeps
    <3>3. ~HasFd(o)
      BY <2>2, <3>2 DEF HasFd
    <3>4. UNCHANGED file \/ (FreeFds # {} /\ file' = [file EXCEPT ![Lowest(FreeFds)] = UnusedDesc])
      BY <2>2 DEF Create
    <3>5. UnusedDesc \in Desc
      BY <3>3, NewDesc
    <3> QED BY <1>2, <1>4, <3>4, <3>5, NewFd
  <2> QED BY <1>2, <2>1, <2>2
<1>7. CASE \E c \in Object : Dup(o, c)
  <2>1. UNCHANGED file \/ (HasFd(o) /\ FreeFds # {}
                            /\ file' = [file EXCEPT ![Lowest(FreeFds)] = file[sock[o].fd]])
    BY <1>7 DEF Dup
  <2> QED BY <1>2, <1>4, <1>5, <2>1, NewFd
<1>8. CASE (\E urls \in UrlPairs : New(o, urls)) \/ SetNbio(o) \/ ClearNbio(o)
  BY <1>2, <1>8 DEF New, SetNbio, ClearNbio
<1>9. CASE Close(o) \/ Done(o) \/ Del(o) \/ SendFails(o, TRUE)
  BY <1>2, <1>3, <1>5, <1>9 DEF Close, Done, Del, Release, SendFails
<1> QED BY <1>6, <1>7, <1>8, <1>9

(* No failure of open, no close and no dup leaks a descriptor.             *)
THEOREM OnlySendAndAcceptLose == SockSpec => LostOnlyBySendOrAccept
<1>1. (SockInv => Orphans = {f \in Fd : file[f] = Lost})'
  BY OrphansAreLost, PTL
<1>2. SockInv /\ SockInv' /\ [SockNext]_sockVars =>
        [Orphans' \subseteq Orphans
         \/ \E o, c \in Object : Accept(o, c) \/ SendFails(o, FALSE)]_sockVars
  <2> SUFFICES ASSUME SockInv, SockInv', SockNext,
                      ~ \E o, c \in Object : Accept(o, c) \/ SendFails(o, FALSE)
               PROVE  Orphans' \subseteq Orphans
    OBVIOUS
  <2>1. \A f \in Fd : file'[f] = Lost => file[f] = Lost
    BY LosesNothing DEF SockNext
  <2>2. Orphans = {f \in Fd : file[f] = Lost} /\ Orphans' = {f \in Fd : file'[f] = Lost}
    BY <1>1, OrphansAreLost
  <2> QED BY <2>1, <2>2
<1> QED BY <1>2, SockInvHolds, PTL DEF SockSpec, LostOnlyBySendOrAccept
=============================================================================
