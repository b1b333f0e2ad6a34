---------------------------- MODULE LoopsProofs ----------------------------
(***************************************************************************)
(* What is proved of Loops.tla and ForLoop.tla, for all integers, tables,  *)
(* orders of their entries, keys, values and loops: a numeric loop visits  *)
(* its range and is the loop that opcodes.h describes, a traversal runs    *)
(* its body for each key once, a constructor's table holds its elements,   *)
(* and what a numeric loop filled in is traversed.                         *)
(***************************************************************************)
EXTENDS Loops, TLAPS

AnyKey == TableKeys \cup Int \cup Assigned
AnyEntry == [key : AnyKey, value : TableValues]

OneEntryPerKey(s) ==
  \A p, q \in DOMAIN s : s[p].key = s[q].key => p = q \/ s[p].key = NIL

-----------------------------------------------------------------------------
(* The operators on entries.                                               *)

LEMMA RehashedProps ==
  ASSUME NEW s \in Seq(AnyEntry), NEW t \in Rehashed(s)
  PROVE  /\ t \in Seq(AnyEntry) /\ Len(t) = Len(s)
         /\ \A p \in DOMAIN s : \E q \in DOMAIN t : t[q] = s[p]
         /\ OneEntryPerKey(s) => OneEntryPerKey(t)
<1>1. PICK f \in Bijection(DOMAIN s, DOMAIN s) : t = [p \in DOMAIN s |-> s[f[p]]]
  BY DEF Rehashed
<1>2. /\ f \in [DOMAIN s -> DOMAIN s]
      /\ \A p, q \in DOMAIN s : f[p] = f[q] => p = q
      /\ \A q \in DOMAIN s : \E p \in DOMAIN s : f[p] = q
  BY DEF Bijection, Injection, Surjection, IsInjective
<1>3. DOMAIN s = 1 .. Len(s) /\ Len(s) \in Nat /\ \A p \in DOMAIN s : s[p] \in AnyEntry
  OBVIOUS
<1>4. t \in Seq(AnyEntry) /\ Len(t) = Len(s) /\ DOMAIN t = DOMAIN s
  BY <1>1, <1>2, <1>3
<1>5. \A p \in DOMAIN s : \E q \in DOMAIN t : t[q] = s[p]
  BY <1>1, <1>2, <1>4
<1>6. OneEntryPerKey(s) => OneEntryPerKey(t)
  BY <1>1, <1>2, <1>4 DEF OneEntryPerKey
<1> QED
  BY <1>4, <1>5, <1>6

(* What an assignment does to the entries: it changes at most the one of   *)
(* its key, and leaves every key in its place unless it adds one.          *)
LEMMA WithKeyProps ==
  ASSUME NEW s \in Seq(AnyEntry), NEW k \in AnyKey, NEW v \in TableValues,
         NEW t \in WithKey(s, k, v), OneEntryPerKey(s)
  PROVE  /\ t \in Seq(AnyEntry) /\ OneEntryPerKey(t)
         /\ Len(t) = Len(s) \/ Len(t) = Len(s) + 1
         /\ Len(t) = Len(s) => \A p \in DOMAIN s : t[p].key = s[p].key
         /\ \A p \in DOMAIN s : \E q \in DOMAIN t :
              t[q].key = s[p].key /\ (s[p].key # k => t[q] = s[p])
         /\ \E q \in DOMAIN t : t[q].key = k /\ t[q].value = v
<1>1. DOMAIN s = 1 .. Len(s) /\ Len(s) \in Nat /\ \A p \in DOMAIN s : s[p] \in AnyEntry
  OBVIOUS
<1>2. Entry(k, v) \in AnyEntry /\ Entry(k, v).key = k /\ Entry(k, v).value = v
  BY DEF Entry, AnyEntry
<1>3. CASE \E p \in DOMAIN s : s[p].key = k /\ k # NIL
  <2>1. t = [p \in DOMAIN s |-> IF s[p].key = k THEN Entry(k, v) ELSE s[p]]
    BY <1>3 DEF WithKey
  <2>2. t \in Seq(AnyEntry) /\ Len(t) = Len(s) /\ DOMAIN t = DOMAIN s
    BY <1>1, <1>2, <2>1
  <2>3. \A p \in DOMAIN s : t[p].key = s[p].key /\ (s[p].key # k => t[p] = s[p])
    BY <1>2, <2>1
  <2>4. \E q \in DOMAIN t : t[q].key = k /\ t[q].value = v
    BY <1>2, <1>3, <2>1, <2>2
  <2>5. OneEntryPerKey(t)
    BY <2>2, <2>3 DEF OneEntryPerKey
  <2> QED
    BY <2>2, <2>3, <2>4, <2>5
<1>4. CASE ~ \E p \in DOMAIN s : s[p].key = k /\ k # NIL
  <2> DEFINE u == Append(s, Entry(k, v))
  <2>1. t \in Rehashed(u)
    BY <1>4 DEF WithKey
  <2>2. /\ u \in Seq(AnyEntry) /\ Len(u) = Len(s) + 1 /\ DOMAIN u = 1 .. Len(s) + 1
        /\ \A p \in DOMAIN s : u[p] = s[p]
        /\ u[Len(s) + 1] = Entry(k, v)
    BY <1>1, <1>2
  <2>3. OneEntryPerKey(u)
    <3> SUFFICES ASSUME NEW p \in DOMAIN u, NEW q \in DOMAIN u, u[p].key = u[q].key, p # q
                 PROVE  u[p].key = NIL
      BY DEF OneEntryPerKey
    <3>1. CASE p \in DOMAIN s /\ q \in DOMAIN s
      BY <2>2, <3>1 DEF OneEntryPerKey
    <3>2. CASE p \notin DOMAIN s \/ q \notin DOMAIN s
      BY <1>1, <1>2, <1>4, <2>2, <3>2
    <3> QED
      BY <3>1, <3>2
  <2>4. /\ t \in Seq(AnyEntry) /\ Len(t) = Len(s) + 1
        /\ \A p \in DOMAIN u : \E q \in DOMAIN t : t[q] = u[p]
        /\ OneEntryPerKey(t)
    BY <2>1, <2>2, <2>3, RehashedProps
  <2>5. \A p \in DOMAIN s : \E q \in DOMAIN t : t[q] = s[p]
    BY <1>1, <2>2, <2>4
  <2>6. \E q \in DOMAIN t : t[q].key = k /\ t[q].value = v
    BY <1>1, <1>2, <2>2, <2>4
  <2>7. Len(t) # Len(s)
    <3>1. Len(t) = Len(s) + 1 /\ Len(s) \in Nat
      BY <1>1, <2>4
    <3> QED
      BY <3>1
  <2>8. \A p \in DOMAIN s : \E q \in DOMAIN t :
          t[q].key = s[p].key /\ (s[p].key # k => t[q] = s[p])
    BY <2>5
  <2> QED
    BY <2>4, <2>6, <2>7, <2>8
<1> QED
  BY <1>3, <1>4

-----------------------------------------------------------------------------
(* The invariant.                                                          *)

Held(e, v) == \E p \in DOMAIN entries : entries[p].key = e /\ entries[p].value = v

TableInv ==
  /\ entries \in Seq(AnyEntry) /\ OneEntryPerKey(entries) /\ Len(entries) <= MaxEntries
  /\ elements \in Seq(TableValues)
  /\ batch \in Nat /\ i \in Nat
  /\ turns \in Seq(AnyKey)
  /\ result \in AnyKey \cup {NIL}
  /\ due \in {"any", "setlist", "tforcall", "tforloop", "body"}

(* How far a constructor has come.                                         *)
ListInv ==
  /\ due = "setlist" =>
       /\ batch >= 1 /\ Flushed \in Nat /\ Flushed < Len(elements)
       /\ 1 <= i /\ i <= InBatch
       /\ Len(elements) <= LFIELDS_PER_FLUSH => batch = 1
       /\ \A e \in Int : 1 <= e /\ e < Flushed + i => Held(e, elements[e])
       /\ grown
  /\ due # "setlist" =>
       /\ \A e \in DOMAIN elements : Held(e, elements[e])
       /\ elements # <<>> /\ Len(elements) <= LFIELDS_PER_FLUSH => len = Len(elements)

(* How far a traversal has come.                                           *)
TraversalInv ==
  ~grown /\ NoNilKey =>
    /\ Len(turns) <= Len(entries)
    /\ \A p \in DOMAIN turns : turns[p] = entries[p].key
    /\ due = "any" => Len(turns) = Len(entries)
    /\ due # "any" => control = IF turns = <<>> THEN NIL ELSE turns[Len(turns)]
    /\ due = "tforloop" =>
         result = IF Len(turns) < Len(entries) THEN entries[Len(turns) + 1].key ELSE NIL

(* What a numeric loop has filled in: all but the turn that is due.        *)
FillInv ==
  /\ variable \in Assigned \cup Int
  /\ fills /\ batch = 0 =>
       \A n \in visited : (at = "body" /\ n = variable)
                          \/ \E p \in DOMAIN entries : entries[p].key = n

Inv == TableInv /\ ListInv /\ TraversalInv /\ FillInv

(* The table is left alone until the numeric loop is over.                 *)
Idle == at # "done" => due = "any" /\ elements = <<>> /\ grown

LEMMA SetProps ==
  ASSUME TableInv, NEW k \in AnyKey, NEW v \in TableValues, Set(k, v)
  PROVE  /\ entries' \in Seq(AnyEntry) /\ OneEntryPerKey(entries') /\ Len(entries') <= MaxEntries
         /\ Len(entries') = Len(entries) \/ Len(entries') = Len(entries) + 1
         /\ Len(entries') = Len(entries) =>
              \A p \in DOMAIN entries : entries'[p].key = entries[p].key
         /\ \A p \in DOMAIN entries : \E q \in DOMAIN entries' : entries'[q].key = entries[p].key
         /\ \E q \in DOMAIN entries' : entries'[q].key = k
         /\ Held(k, v)'
         /\ \A e, w : e # k /\ Held(e, w) => Held(e, w)'
<1>1. entries \in Seq(AnyEntry) /\ OneEntryPerKey(entries)
  BY DEF TableInv
<1>2. entries' \in WithKey(entries, k, v) /\ Len(entries') <= MaxEntries
  BY DEF Set
<1>3. /\ entries' \in Seq(AnyEntry) /\ OneEntryPerKey(entries')
      /\ Len(entries') = Len(entries) \/ Len(entries') = Len(entries) + 1
      /\ Len(entries') = Len(entries) =>
           \A p \in DOMAIN entries : entries'[p].key = entries[p].key
      /\ \A p \in DOMAIN entries : \E q \in DOMAIN entries' :
           entries'[q].key = entries[p].key /\ (entries[p].key # k => entries'[q] = entries[p])
      /\ \E q \in DOMAIN entries' : entries'[q].key = k /\ entries'[q].value = v
  BY <1>1, <1>2, WithKeyProps
<1>4. Held(k, v)' /\ \E q \in DOMAIN entries' : entries'[q].key = k
  BY <1>3 DEF Held
<1>5. \A e, w : e # k /\ Held(e, w) => Held(e, w)'
  BY <1>3 DEF Held
<1>6. \A p \in DOMAIN entries : \E q \in DOMAIN entries' : entries'[q].key = entries[p].key
  BY <1>3
<1> QED
  BY <1>2, <1>3, <1>4, <1>5, <1>6

(* A step that only adds to the entries keeps what was filled in.          *)
LEMMA FillKept ==
  ASSUME FillInv, UNCHANGED <<forVars, fills>>, batch \in Nat,
         batch' = batch \/ batch' >= 1,
         batch' = 0 => \A p \in DOMAIN entries : \E q \in DOMAIN entries' :
                         entries'[q].key = entries[p].key
  PROVE  FillInv'
BY DEF FillInv, forVars

LEMMA StepNewTable == Inv /\ NewTable /\ UNCHANGED <<forVars, fills>> => Inv'
<1> SUFFICES ASSUME Inv, NewTable, UNCHANGED <<forVars, fills>> PROVE Inv'
  OBVIOUS
<1> USE DEF Inv, NewTable
<1>1. elements' \in Seq(TableValues)
  <2>1. PICK n \in 0 .. MaxElements : elements' \in [1 .. n -> TableValues \ {NIL}]
    OBVIOUS
  <2>2. n \in Nat
    BY <2>1
  <2> QED
    BY <2>1, <2>2
<1>2. TableInv'
  BY <1>1, TableAssumption DEF TableInv, OneEntryPerKey
<1>3. ListInv'
  BY <1>1, FlushAssumption DEF ListInv, Flushed, InBatch
<1>4. TraversalInv'
  BY DEF TraversalInv
<1>5. FillInv'
  BY FillKept DEF TableInv
<1> QED
  BY <1>2, <1>3, <1>4, <1>5

LEMMA StepPairs == Inv /\ Pairs /\ UNCHANGED <<forVars, fills>> => Inv'
<1> SUFFICES ASSUME Inv, Pairs, UNCHANGED <<forVars, fills>> PROVE Inv'
  OBVIOUS
<1> USE DEF Inv, Pairs, constructor
<1>1. TableInv'
  BY DEF TableInv
<1>2. ListInv'
  BY DEF ListInv, Held
<1>3. TraversalInv'
  BY DEF TraversalInv, TableInv
<1>4. FillInv'
  BY FillKept DEF TableInv
<1> QED
  BY <1>1, <1>2, <1>3, <1>4

(* next finds the entry after the last one visited, since its key is in no *)
(* other place.                                                            *)
LEMMA NextOfLast ==
  ASSUME TableInv, TraversalInv, ~grown, NoNilKey, due = "tforcall"
  PROVE  NextOf(control) =
           IF Len(turns) < Len(entries) THEN entries[Len(turns) + 1].key ELSE NIL
<1>1. /\ entries \in Seq(AnyEntry) /\ OneEntryPerKey(entries) /\ turns \in Seq(AnyKey)
      /\ Len(entries) \in Nat /\ DOMAIN entries = 1 .. Len(entries)
      /\ Len(turns) \in Nat /\ DOMAIN turns = 1 .. Len(turns)
  BY DEF TableInv
<1>2. /\ Len(turns) <= Len(entries)
      /\ \A p \in DOMAIN turns : turns[p] = entries[p].key
      /\ control = IF turns = <<>> THEN NIL ELSE turns[Len(turns)]
  BY DEF TraversalInv
<1>3. NextPlace(control) = {Len(turns) + 1}
  <2>1. CASE turns = <<>>
    BY <1>2, <2>1 DEF NextPlace
  <2>2. CASE turns # <<>>
    <3>1. Len(turns) \in DOMAIN turns /\ Len(turns) \in DOMAIN entries
      BY <1>1, <1>2, <2>2
    <3>2. control = entries[Len(turns)].key /\ control # NIL
      BY <1>2, <2>2, <3>1 DEF NoNilKey
    <3>3. Places(control) = {Len(turns)}
      BY <1>1, <3>1, <3>2 DEF Places, OneEntryPerKey, NoNilKey
    <3> QED
      BY <3>2, <3>3 DEF NextPlace
  <2> QED
    BY <2>1, <2>2
<1>4. CASE Len(turns) < Len(entries)
  <2>1. NextPlace(control) \cap DOMAIN entries = {Len(turns) + 1}
    BY <1>1, <1>3, <1>4
  <2> QED
    BY <1>4, <2>1 DEF NextOf
<1>5. CASE ~(Len(turns) < Len(entries))
  <2>1. NextPlace(control) \cap DOMAIN entries = {}
    BY <1>1, <1>3, <1>5
  <2> QED
    BY <1>5, <2>1 DEF NextOf
<1> QED
  BY <1>4, <1>5

LEMMA NextOfTyped == TableInv => NextOf(control) \in AnyKey \cup {NIL}
<1> SUFFICES ASSUME TableInv PROVE NextOf(control) \in AnyKey \cup {NIL}
  OBVIOUS
<1> DEFINE next == NextPlace(control) \cap DOMAIN entries
<1>1. CASE next = {}
  BY <1>1 DEF NextOf
<1>2. CASE next # {}
  <2>1. (CHOOSE p \in next : TRUE) \in DOMAIN entries
    BY <1>2
  <2>2. \A p \in DOMAIN entries : entries[p].key \in AnyKey
    <3>1. entries \in Seq(AnyEntry)
      BY DEF TableInv
    <3>2. \A p \in DOMAIN entries : entries[p] \in AnyEntry
      BY <3>1
    <3> QED
      BY <3>2 DEF AnyEntry
  <2> QED
    BY <1>2, <2>1, <2>2 DEF NextOf
<1> QED
  BY <1>1, <1>2

LEMMA AppendProps ==
  ASSUME NEW S, NEW s \in Seq(S), NEW e \in S
  PROVE  /\ Len(Append(s, e)) = Len(s) + 1 /\ DOMAIN Append(s, e) = 1 .. Len(s) + 1
         /\ \A p \in DOMAIN s : Append(s, e)[p] = s[p]
         /\ Append(s, e)[Len(s) + 1] = e
OBVIOUS

LEMMA StepTForCall == Inv /\ TForCall /\ UNCHANGED <<forVars, fills>> => Inv'
<1> SUFFICES ASSUME Inv, TForCall, UNCHANGED <<forVars, fills>> PROVE Inv'
  OBVIOUS
<1> USE DEF Inv, TForCall, hash_part, constructor
<1>1. TableInv'
  BY NextOfTyped DEF TableInv
<1>2. ListInv'
  BY DEF ListInv, Held
<1>3. TraversalInv'
  <2> SUFFICES ASSUME ~grown, NoNilKey PROVE TraversalInv'
    BY DEF TraversalInv, NoNilKey
  <2>1. result' = IF Len(turns) < Len(entries) THEN entries[Len(turns) + 1].key ELSE NIL
    BY NextOfLast
  <2> QED
    BY <2>1 DEF TraversalInv
<1>4. FillInv'
  BY FillKept DEF TableInv
<1> QED
  BY <1>1, <1>2, <1>3, <1>4

LEMMA StepTForLoop == Inv /\ TForLoop /\ UNCHANGED <<forVars, fills>> => Inv'
<1> SUFFICES ASSUME Inv, TForLoop, UNCHANGED <<forVars, fills>> PROVE Inv'
  OBVIOUS
<1> USE DEF Inv, TForLoop, hash_part, constructor
<1>1. TableInv'
  <2>1. turns' \in Seq(AnyKey)
    BY DEF TableInv
  <2> QED
    BY <2>1 DEF TableInv
<1>2. ListInv'
  BY DEF ListInv, Held
<1>3. TraversalInv'
  <2> SUFFICES ASSUME ~grown, NoNilKey PROVE TraversalInv'
    BY DEF TraversalInv, NoNilKey
  <2>1. /\ Len(entries) \in Nat /\ DOMAIN entries = 1 .. Len(entries)
        /\ Len(turns) \in Nat /\ DOMAIN turns = 1 .. Len(turns)
        /\ turns \in Seq(AnyKey) /\ Len(entries) <= MaxEntries
    BY DEF TableInv
  <2>2. /\ Len(turns) <= Len(entries)
        /\ \A p \in DOMAIN turns : turns[p] = entries[p].key
        /\ result = IF Len(turns) < Len(entries) THEN entries[Len(turns) + 1].key ELSE NIL
    BY DEF TraversalInv
  <2>3. CASE result = NIL
    <3>1. Len(turns) = Len(entries)
      <4>1. Len(turns) < Len(entries) => Len(turns) + 1 \in DOMAIN entries
        BY <2>1
      <4>2. ~(Len(turns) < Len(entries))
        BY <2>2, <2>3, <4>1 DEF NoNilKey
      <4>3. Len(turns) \in Nat /\ Len(entries) \in Nat /\ Len(turns) <= Len(entries)
        BY <2>1, <2>2
      <4> QED
        BY <4>2, <4>3
    <3> QED
      BY <2>2, <2>3, <3>1 DEF TraversalInv
  <2>4. CASE result # NIL
    <3>1. Len(turns) < Len(entries) /\ result = entries[Len(turns) + 1].key
      BY <2>2, <2>4
    <3>2. turns' = Append(turns, result)
      BY <2>1, <2>4, <3>1, TableAssumption
    <3>3. result \in AnyKey
      BY <2>4 DEF TableInv
    <3>4. /\ Len(turns') = Len(turns) + 1 /\ DOMAIN turns' = 1 .. Len(turns) + 1
          /\ \A p \in DOMAIN turns : turns'[p] = turns[p]
          /\ turns'[Len(turns) + 1] = result
      <4>1. turns \in Seq(AnyKey)
        BY <2>1
      <4> HIDE DEF Inv, TForLoop
      <4>2. /\ Len(Append(turns, result)) = Len(turns) + 1
            /\ DOMAIN Append(turns, result) = 1 .. Len(turns) + 1
            /\ \A p \in DOMAIN turns : Append(turns, result)[p] = turns[p]
            /\ Append(turns, result)[Len(turns) + 1] = result
        BY <3>3, <4>1, AppendProps
      <4> QED
        BY <3>2, <4>2, Zenon
    <3>5. turns' # <<>> /\ \A p \in DOMAIN turns' : turns'[p] = entries[p].key
      BY <2>1, <2>2, <3>1, <3>4
    <3>6. control' = turns'[Len(turns')] /\ due' = "body" /\ Len(turns') <= Len(entries)
      BY <2>1, <2>4, <3>1, <3>4
    <3> QED
      BY <3>5, <3>6 DEF TraversalInv
  <2> QED
    BY <2>3, <2>4
<1>4. FillInv'
  BY FillKept DEF TableInv
<1> QED
  BY <1>1, <1>2, <1>3, <1>4

LEMMA StepEndOfBody == Inv /\ EndOfBody /\ UNCHANGED <<forVars, fills>> => Inv'
<1> SUFFICES ASSUME Inv, EndOfBody, UNCHANGED <<forVars, fills>> PROVE Inv'
  OBVIOUS
<1> USE DEF Inv, EndOfBody, hash_part, constructor, loop
<1>1. TableInv' /\ ListInv'
  BY DEF TableInv, ListInv, Held
<1>2. TraversalInv'
  BY DEF TraversalInv, NoNilKey
<1>3. FillInv'
  BY FillKept DEF TableInv
<1> QED
  BY <1>1, <1>2, <1>3

LEMMA StepAssign == Inv /\ Assign /\ UNCHANGED <<forVars, fills>> => Inv'
<1> SUFFICES ASSUME Inv, Assign, UNCHANGED <<forVars, fills>> PROVE Inv'
  OBVIOUS
<1> USE DEF Inv, Assign
<1>1. PICK k \in TableKeys, v \in TableValues : Set(k, v)
  OBVIOUS
<1>2. /\ entries' \in Seq(AnyEntry) /\ OneEntryPerKey(entries') /\ Len(entries') <= MaxEntries
      /\ Len(entries') = Len(entries) \/ Len(entries') = Len(entries) + 1
      /\ Len(entries') = Len(entries) =>
           \A p \in DOMAIN entries : entries'[p].key = entries[p].key
      /\ \A p \in DOMAIN entries : \E q \in DOMAIN entries' : entries'[q].key = entries[p].key
  BY <1>1, SetProps DEF AnyKey
<1>3. TableInv'
  BY <1>2 DEF TableInv
<1>4. ListInv'
  BY DEF ListInv
<1>5. TraversalInv'
  <2> SUFFICES ASSUME ~grown', NoNilKey' PROVE TraversalInv'
    BY DEF TraversalInv
  <2>1. /\ due = "body" /\ ~grown /\ ~(Len(entries') > Len(entries))
        /\ turns' = turns /\ control' = control /\ due' = due
    OBVIOUS
  <2>2. Len(entries) \in Nat /\ DOMAIN entries = 1 .. Len(entries)
    BY DEF TableInv
  <2>3. /\ Len(entries') = Len(entries) /\ DOMAIN entries' = DOMAIN entries
        /\ \A p \in DOMAIN entries : entries'[p].key = entries[p].key
    BY <1>2, <2>1, <2>2
  <2>4. NoNilKey
    BY <2>3 DEF NoNilKey
  <2>5. \A p \in DOMAIN turns : p \in DOMAIN entries
    BY <2>1, <2>2, <2>4 DEF TraversalInv, TableInv
  <2> QED
    BY <2>1, <2>3, <2>4, <2>5 DEF TraversalInv
<1>6. FillInv'
  BY <1>2, FillKept DEF TableInv
<1> QED
  BY <1>3, <1>4, <1>5, <1>6

LEMMA StepSetList == Inv /\ SetList /\ UNCHANGED <<forVars, fills>> => Inv'
<1> SUFFICES ASSUME Inv, SetList, UNCHANGED <<forVars, fills>> PROVE Inv'
  OBVIOUS
<1>1. /\ elements' = elements /\ grown' = grown
      /\ Set(Flushed + i, elements[Flushed + i]) /\ due = "setlist"
      /\ turns' = turns /\ result' = result /\ control' = control
  BY DEF SetList, Start, Flushed, loop
<1>2. /\ elements \in Seq(TableValues) /\ DOMAIN elements = 1 .. Len(elements)
      /\ Len(elements) <= LFIELDS_PER_FLUSH => batch = 1
      /\ \A e \in Int : 1 <= e /\ e < Flushed + i => Held(e, elements[e])
      /\ grown
  BY <1>1 DEF Inv, TableInv, ListInv
<1>3. /\ batch \in Nat /\ batch >= 1 /\ Flushed \in Nat /\ Flushed < Len(elements)
      /\ Len(elements) \in Nat
      /\ i \in Nat /\ 1 <= i /\ i <= InBatch
  BY <1>1 DEF Inv, TableInv, ListInv
<1>4. LFIELDS_PER_FLUSH \in Nat /\ LFIELDS_PER_FLUSH > 0
  BY FlushAssumption
<1>5. /\ InBatch \in Nat /\ Flushed + InBatch <= Len(elements)
      /\ InBatch # LFIELDS_PER_FLUSH => Flushed + InBatch = Len(elements)
  BY <1>3, <1>4 DEF InBatch
<1>6. Flushed + i \in Int /\ Flushed + i \in 1 .. Len(elements)
  BY <1>3, <1>5
<1>7. elements[Flushed + i] \in TableValues /\ Flushed + i \in AnyKey
  BY <1>2, <1>6 DEF AnyKey
<1>8. PICK k \in Int : k = Flushed + i
  BY <1>6
<1>9. PICK w \in TableValues : w = elements[k]
  BY <1>7, <1>8
<1>10. Set(k, w) /\ k \in AnyKey
  BY <1>1, <1>8, <1>9 DEF AnyKey
<1>11. /\ entries' \in Seq(AnyEntry) /\ OneEntryPerKey(entries') /\ Len(entries') <= MaxEntries
       /\ Held(k, w)'
       /\ \A e, v : e # k /\ Held(e, v) => Held(e, v)'
  BY <1>10, SetProps DEF Inv
<1>12. \A e \in Int : 1 <= e /\ e <= k => Held(e, elements[e])'
  <2> SUFFICES ASSUME NEW e \in Int, 1 <= e, e <= k PROVE Held(e, elements[e])'
    OBVIOUS
  <2>1. CASE e = k
    <3>1. elements'[e] = w
      BY <1>1, <1>9, <2>1
    <3> QED
      BY <1>11, <2>1, <3>1 DEF Held
  <2>2. CASE e # k
    <3>1. e < Flushed + i
      BY <1>8, <2>2
    <3>2. Held(e, elements[e])
      BY <1>2, <3>1
    <3>3. Held(e, elements[e])' <=> \E p \in DOMAIN entries' :
            entries'[p].key = e /\ entries'[p].value = elements[e]
      BY <1>1 DEF Held
    <3> QED
      BY <1>11, <2>2, <3>2, <3>3 DEF Held
  <2> QED
    BY <2>1, <2>2
<1>13. \/ /\ i < InBatch /\ i' = i + 1 /\ batch' = batch /\ due' = "setlist"
       \/ /\ i = InBatch /\ len' = InBatch /\ batch' = batch + 1 /\ i' = 1
          /\ due' = IF k = Len(elements) THEN "any" ELSE "setlist"
  <2>1. i < InBatch \/ i = InBatch
    BY <1>3, <1>5
  <2>2. i = InBatch => ~(i < InBatch)
    BY <1>3, <1>5
  <2> QED
    BY <1>1, <1>8, <2>1, <2>2 DEF SetList
<1>14. TableInv'
  <2>1. batch' \in Nat /\ i' \in Nat /\ due' \in {"any", "setlist"}
    BY <1>3, <1>13
  <2> QED
    BY <1>1, <1>2, <1>11, <2>1 DEF Inv, TableInv
<1>15. ListInv'
  <2>1. CASE i < InBatch /\ i' = i + 1 /\ batch' = batch /\ due' = "setlist"
    <3>1. Flushed' = Flushed /\ InBatch' = InBatch
      BY <1>1, <2>1 DEF Flushed, InBatch
    <3>2. 1 <= i' /\ i' <= InBatch'
      BY <1>3, <1>5, <2>1, <3>1
    <3>3. \A e \in Int : 1 <= e /\ e < Flushed' + i' => Held(e, elements[e])'
      <4> SUFFICES ASSUME NEW e \in Int, 1 <= e, e < Flushed' + i' PROVE Held(e, elements[e])'
        OBVIOUS
      <4>1. e <= k
        BY <1>3, <1>8, <2>1, <3>1
      <4> QED
        BY <1>12, <4>1
    <3> QED
      BY <1>1, <1>2, <1>3, <2>1, <3>1, <3>2, <3>3 DEF ListInv
  <2>2. CASE /\ i = InBatch /\ len' = InBatch /\ batch' = batch + 1 /\ i' = 1
             /\ due' = IF k = Len(elements) THEN "any" ELSE "setlist"
    <3>1. Flushed' = Flushed + LFIELDS_PER_FLUSH
      BY <1>3, <1>4, <2>2 DEF Flushed
    <3>2. k = Flushed + InBatch
      BY <1>8, <2>2
    <3>3. CASE k = Len(elements)
      <4>1. due' = "any"
        BY <2>2, <3>3
      <4>2. \A e \in DOMAIN elements : Held(e, elements[e])'
        BY <1>2, <1>3, <1>12, <3>3
      <4>3. Len(elements) <= LFIELDS_PER_FLUSH => InBatch = Len(elements)
        <5>1. batch = 1 => Flushed = 0
          BY <1>4 DEF Flushed
        <5>2. Flushed + InBatch = Len(elements)
          BY <3>2, <3>3
        <5>3. batch = 1 => InBatch = Len(elements)
          BY <1>5, <5>1, <5>2
        <5> QED
          BY <1>2, <5>3
      <4> QED
        BY <1>1, <2>2, <4>1, <4>2, <4>3 DEF ListInv
    <3>4. CASE k # Len(elements)
      <4>1. InBatch = LFIELDS_PER_FLUSH
        BY <1>5, <3>2, <3>4
      <4>2. Flushed' = k /\ Flushed' \in Nat /\ Flushed' < Len(elements)
        BY <1>3, <1>4, <1>5, <3>1, <3>2, <3>4, <4>1
      <4>3. 1 <= InBatch'
        <5>1. Len(elements) - Flushed' >= 1
          BY <1>3, <4>2
        <5>2. InBatch' = IF Len(elements) - Flushed' < LFIELDS_PER_FLUSH
                         THEN Len(elements) - Flushed' ELSE LFIELDS_PER_FLUSH
          BY <1>1 DEF InBatch
        <5> QED
          BY <1>4, <5>1, <5>2
      <4>4. ~(Len(elements) <= LFIELDS_PER_FLUSH)
        BY <1>3, <1>4, <3>1, <4>2
      <4>5. \A e \in Int : 1 <= e /\ e < Flushed' + i' => Held(e, elements[e])'
        <5> SUFFICES ASSUME NEW e \in Int, 1 <= e, e < Flushed' + i' PROVE Held(e, elements[e])'
          OBVIOUS
        <5>1. e <= k
          BY <1>3, <2>2, <4>2
        <5> QED
          BY <1>12, <5>1
      <4>6. due' = "setlist" /\ batch' >= 1 /\ i' = 1
        BY <1>3, <2>2, <3>4
      <4> QED
        BY <1>1, <1>2, <4>2, <4>3, <4>4, <4>5, <4>6 DEF ListInv
    <3> QED
      BY <3>3, <3>4
  <2> QED
    BY <1>13, <2>1, <2>2
<1>16. TraversalInv'
  BY <1>1, <1>2 DEF TraversalInv
<1>17. FillInv'
  <2>1. batch' \in Nat /\ batch' >= 1
    BY <1>3, <1>13
  <2> QED
    BY <1>3, <2>1, FillKept DEF Inv
<1> QED
  BY <1>14, <1>15, <1>16, <1>17 DEF Inv

LEMMA StepFillBody == Inv /\ Idle /\ FillBody => Inv'
<1> SUFFICES ASSUME Inv, Idle, FillBody PROVE Inv'
  OBVIOUS
<1>1. PICK v \in TableValues : Set(variable, v)
  BY DEF FillBody
<1>2. variable \in AnyKey
  BY DEF Inv, FillInv, AnyKey
<1>3. /\ entries' \in Seq(AnyEntry) /\ OneEntryPerKey(entries') /\ Len(entries') <= MaxEntries
      /\ \A p \in DOMAIN entries : \E q \in DOMAIN entries' : entries'[q].key = entries[p].key
      /\ \E q \in DOMAIN entries' : entries'[q].key = variable
  BY <1>1, <1>2, SetProps DEF Inv
<1>4. /\ UNCHANGED <<len, elements, batch, i, due, control, result, turns, grown, fills>>
      /\ fills /\ at = "body" /\ at' = "forloop" /\ visited' = visited
      /\ variable' \in Assigned \cup {variable}
  BY DEF FillBody, Body, constructor, loop
<1>5. due = "any" /\ elements = <<>> /\ grown
  BY <1>4 DEF Idle
<1>6. TableInv'
  BY <1>3, <1>4 DEF Inv, TableInv
<1>7. ListInv' /\ TraversalInv'
  BY <1>4, <1>5 DEF ListInv, TraversalInv
<1>8. FillInv'
  BY <1>3, <1>4 DEF Inv, FillInv
<1> QED
  BY <1>6, <1>7, <1>8 DEF Inv

LEMMA StepForNext == Inv /\ ForNext /\ ~(Body /\ fills) /\ UNCHANGED <<tableVars, fills>> => Inv'
<1> SUFFICES ASSUME Inv, ForNext, ~(Body /\ fills), UNCHANGED <<tableVars, fills>> PROVE Inv'
  OBVIOUS
<1>1. TableInv' /\ ListInv' /\ TraversalInv'
  BY DEF Inv, TableInv, ListInv, TraversalInv, tableVars, Held, Flushed, InBatch, NoNilKey
<1>2. FillInv'
  <2>1. CASE ForPrep
    BY <2>1 DEF Inv, FillInv, ForPrep, Registers, tableVars
  <2>2. CASE ForLoopOfFloats
    BY <2>2 DEF Inv, FillInv, ForLoopOfFloats, Registers, tableVars
  <2>3. CASE Body
    <3>1. ~fills' /\ variable' \in Assigned \cup Int
      BY <2>3 DEF Inv, FillInv, Body
    <3> QED
      BY <3>1 DEF FillInv
  <2>4. CASE ForLoop
    <3>1. counter \in Int
      BY <2>4, LongLongAssumption DEF ForLoop, AreInts, IsInt, LongLong
    <3>2. at = "forloop" /\ UNCHANGED <<entries, batch, fills>>
      BY <2>4 DEF ForLoop, tableVars
    <3>3. \/ at' = "body" /\ variable' = counter /\ visited' = visited \cup {counter}
          \/ UNCHANGED <<variable, visited>>
      BY <2>4 DEF ForLoop
    <3> QED
      BY <3>1, <3>2, <3>3 DEF Inv, FillInv
  <2> QED
    BY <2>1, <2>2, <2>3, <2>4 DEF ForNext
<1> QED
  BY <1>1, <1>2 DEF Inv

-----------------------------------------------------------------------------
(* The invariant holds.                                                    *)

LEMMA InitInv == Init => Inv /\ Idle
<1> SUFFICES ASSUME Init PROVE Inv /\ Idle
  OBVIOUS
<1>1. TableInv
  BY TableAssumption DEF Init, TableInit, TableInv, OneEntryPerKey
<1>2. ListInv /\ TraversalInv /\ Idle
  BY DEF Init, TableInit, ListInv, TraversalInv, Idle
<1>3. FillInv
  BY DEF Init, ForInit, FillInv
<1> QED
  BY <1>1, <1>2, <1>3 DEF Inv

LEMMA StepIdle == Inv /\ Idle /\ Next => Idle'
<1> SUFFICES ASSUME Idle, Next PROVE Idle'
  OBVIOUS
<1>1. CASE Generic
  BY <1>1 DEF Generic, Idle, forVars
<1>2. CASE Numeric
  <2>1. at # "done"
    BY <1>2 DEF Numeric, ForNext, FillBody, ForPrep, ForLoop, ForLoopOfFloats, Body
  <2>2. UNCHANGED <<due, elements, grown>>
    BY <1>2 DEF Numeric, FillBody, tableVars, constructor
  <2> QED
    BY <2>1, <2>2 DEF Idle
<1> QED
  BY <1>1, <1>2 DEF Next

LEMMA StepInv == Inv /\ Idle /\ [Next]_vars => Inv' /\ Idle'
<1> SUFFICES ASSUME Inv, Idle, [Next]_vars PROVE Inv' /\ Idle'
  OBVIOUS
<1>1. CASE Numeric
  BY <1>1, StepForNext, StepFillBody, StepIdle DEF Numeric, Next
<1>2. CASE Generic
  BY <1>2, StepNewTable, StepSetList, StepAssign, StepPairs, StepTForCall, StepTForLoop,
     StepEndOfBody, StepIdle DEF Generic, GenericFor, TableNext, Next
<1>3. CASE UNCHANGED vars
  BY <1>3 DEF vars, forVars, tableVars, Inv, Idle, TableInv, ListInv, TraversalInv, FillInv,
     Held, Flushed, InBatch, NoNilKey
<1> QED
  BY <1>1, <1>2, <1>3 DEF Next

LEMMA InvHolds == Spec => [](Inv /\ Idle)
<1>1. Init => Inv /\ Idle
  BY InitInv
<1>2. (Inv /\ Idle) /\ [Next]_vars => (Inv /\ Idle)'
  BY StepInv
<1> QED
  BY <1>1, <1>2, PTL DEF Spec

(* A traversal whose body adds no key runs it for every key of the table,  *)
(* once for each, whatever the order of the iterators.                     *)
THEOREM EachKeyOnceHolds == Spec => []EachKeyOnce
<1>1. Inv /\ Idle => EachKeyOnce
  BY DEF Inv, TraversalInv, EachKeyOnce
<1> QED
  BY <1>1, InvHolds, PTL

(* However many elements a constructor has and whatever LFIELDS_PER_FLUSH  *)
(* is, its batches leave each element under its index.                     *)
THEOREM ConstructorFillsHolds == Spec => []ConstructorFills
<1>1. ASSUME Inv, due = "any", NEW e \in DOMAIN elements PROVE Get(e) = elements[e]
  <2>1. PICK p \in DOMAIN entries : entries[p].key = e /\ entries[p].value = elements[e]
    BY <1>1 DEF Inv, ListInv, Held
  <2>2. e # NIL
    <3>1. e \in Int
      BY <1>1 DEF Inv, TableInv
    <3> QED
      BY <3>1, TableAssumption
  <2>3. Places(e) = {p}
    BY <1>1, <2>1, <2>2 DEF Inv, TableInv, OneEntryPerKey, Places
  <2> QED
    BY <2>1, <2>3 DEF Get
<1>2. Inv /\ Idle => ConstructorFills
  BY <1>1 DEF ConstructorFills, Inv, ListInv
<1> QED
  BY <1>2, InvHolds, PTL

(* What a numeric loop has put into a table is traversed by the generic    *)
(* loop that follows.                                                      *)
THEOREM FilledIsTraversedHolds == Spec => []FilledIsTraversed
<1>1. ASSUME Inv, fills, at = "done", batch = 0, due = "any", ~grown, NoNilKey,
             NEW n \in visited
      PROVE  n \in ToSet(turns)
  <2>1. PICK p \in DOMAIN entries : entries[p].key = n
    BY <1>1 DEF Inv, FillInv
  <2>2. DOMAIN turns = DOMAIN entries
    BY <1>1 DEF Inv, TableInv, TraversalInv
  <2>3. turns[p] = n
    BY <1>1, <2>1, <2>2 DEF Inv, TraversalInv
  <2> QED
    BY <2>2, <2>3 DEF ToSet
<1>2. Inv /\ Idle => FilledIsTraversed
  BY <1>1 DEF FilledIsTraversed
<1> QED
  BY <1>2, InvHolds, PTL

-----------------------------------------------------------------------------
(* The numeric loop, for every width of integers and all operands: it      *)
(* visits its range, and it implements the documented loop of              *)
(* NumericFor.tla.                                                         *)

(* The values that were visited and the one that comes next make one       *)
(* progression from start on.                                              *)
Progression ==
  /\ \A v \in visited :
       /\ InRange(v)
       /\ v = start \/ v - step \in visited
       /\ v = counter - step \/ v + step \in visited
       /\ step > 0 => v < counter
       /\ step < 0 => v > counter
  /\ IF visited = {} THEN counter = start
     ELSE start \in visited /\ counter - step \in visited

ForInv ==
  /\ ForTypeOK
  /\ at = "forprep" => counter = start /\ visited = {}
  /\ NoOverflow /\ at # "done" => Progression
  /\ VisitsTheRange

(* An addition that the test let through does not leave the 64 bits when   *)
(* limit + step does not.                                                  *)
LEMMA AddedIsSum ==
  ASSUME NEW v \in LongLong, NEW to \in LongLong, NEW by \in LongLong,
         to + by \in LongLong, Continues(v, to, by)
  PROVE  v + by \in LongLong /\ Added(v, by) = v + by
  BY LongLongAssumption DEF LongLong, Continues, Added, Wrap

LEMMA WrapInRange ==
  ASSUME NEW v \in LongLong, NEW by \in LongLong
  PROVE  /\ Wrap(v + by) \in LongLong
         /\ Wrap(v - by) \in LongLong
         /\ Wrap(Wrap(v - by) + by) = v
         /\ Wrap(Wrap(v + by) - by) = v
  BY LongLongAssumption DEF LongLong, Wrap

LEMMA LongLongInts == LongLong \subseteq Int
BY DEF LongLong

LEMMA StepForLoop == ForInv /\ ForLoop => ForInv'
<1> SUFFICES ASSUME ForInv, ForLoop PROVE ForInv'
  OBVIOUS
<1> USE DEF ForLoop, ForInv
<1>1. counter \in LongLong /\ limit \in LongLong /\ step \in LongLong
  BY DEF AreInts, IsInt
<1>2. counter' \in LongLong
  BY <1>1, WrapInRange DEF Added
<1>3. AreInts' /\ (at' = "forprep" => FALSE)
  BY <1>1, <1>2 DEF AreInts, IsInt
<1>4. ForTypeOK'
  BY <1>1, <1>3 DEF ForTypeOK
<1>5. ASSUME NoOverflow' PROVE NoOverflow /\ limit + step \in LongLong /\ start \in LongLong
  BY <1>5 DEF NoOverflow, IsInt
<1>6. ASSUME NoOverflow', at' = "body" PROVE Progression' /\ VisitsTheRange'
  <2>1. Progression /\ Continues(counter, limit, step)
    BY <1>5, <1>6
  <2>2. counter' = counter + step /\ visited' = visited \cup {counter}
    BY <1>1, <1>5, <1>6, AddedIsSum
  <2>3. visited \subseteq LongLong
    BY DEF ForTypeOK
  <2>4. ASSUME NEW v \in visited'
        PROVE  /\ InRange(v)
               /\ v = start \/ v - step \in visited'
               /\ v = counter' - step \/ v + step \in visited'
               /\ step > 0 => v < counter'
               /\ step < 0 => v > counter'
    <3>1. CASE v \in visited
      <4>1. v \in Int /\ counter \in Int /\ step \in Int
        BY <1>1, <2>3, <3>1, LongLongInts
      <4>2. /\ InRange(v)
            /\ v = start \/ v - step \in visited
            /\ v = counter - step \/ v + step \in visited
            /\ step > 0 => v < counter
            /\ step < 0 => v > counter
        BY <2>1, <3>1 DEF Progression
      <4>3. v = counter - step => v + step = counter
        BY <4>1
      <4> QED
        BY <2>2, <4>1, <4>2, <4>3
    <3>2. CASE v = counter
      BY <1>1, <2>1, <2>2, <2>3, <3>2 DEF Progression, LongLong, InRange, Continues
    <3> QED
      BY <2>2, <3>1, <3>2
  <2>5. start \in visited' /\ counter' - step \in visited' /\ visited' # {}
    BY <1>1, <2>1, <2>2 DEF Progression, LongLong
  <2>6. Progression'
    BY <2>4, <2>5 DEF Progression, InRange
  <2>7. VisitsTheRange'
    BY <1>6, <2>4 DEF VisitsTheRange, InRange
  <2> QED
    BY <2>6, <2>7
<1>7. ASSUME NoOverflow', at' = "done" PROVE VisitsTheRange'
  <2>1. Progression /\ ~Continues(counter, limit, step) /\ visited' = visited
    BY <1>5, <1>7
  <2>2. visited \subseteq LongLong
    BY DEF ForTypeOK
  <2>3. InRange(start) => start \in visited
    BY <2>1 DEF Progression, InRange, Continues
  <2>4. ASSUME NEW v \in visited, InRange(v + step)
        PROVE  v + step \in visited
    <3>1. v # counter - step
      BY <1>1, <2>1, <2>2, <2>4 DEF LongLong, InRange, Continues
    <3> QED
      BY <2>1, <3>1 DEF Progression
  <2> QED
    BY <1>7, <2>1, <2>3, <2>4 DEF VisitsTheRange, Progression, InRange
<1> QED
  BY <1>3, <1>4, <1>6, <1>7 DEF VisitsTheRange

LEMMA StepBody == ForInv /\ Body => ForInv'
<1> SUFFICES ASSUME ForInv, Body PROVE ForInv'
  OBVIOUS
<1> USE DEF Body
<1>1. ForTypeOK' /\ (NoOverflow' => NoOverflow) /\ at' = "forloop"
  BY DEF ForInv, ForTypeOK, NoOverflow, AreInts
<1>2. NoOverflow' => Progression'
  BY <1>1 DEF ForInv, Progression, InRange
<1>3. NoOverflow' => VisitsTheRange'
  <2> SUFFICES ASSUME NoOverflow' PROVE VisitsTheRange'
    OBVIOUS
  <2>1. counter \in LongLong /\ step \in LongLong /\ visited \subseteq LongLong
    BY DEF ForInv, ForTypeOK, AreInts, IsInt
  <2>2. step # 0 => counter \notin visited
    BY <1>1, <2>1 DEF ForInv, Progression, LongLong
  <2> QED
    BY <1>1, <2>2 DEF ForInv, VisitsTheRange, InRange
<1> QED
  BY <1>1, <1>2, <1>3 DEF ForInv, VisitsTheRange

LEMMA StepOther ==
  ForInv /\ (ForPrep \/ ForLoopOfFloats \/ UNCHANGED forVars) => ForInv'
<1> SUFFICES ASSUME ForInv, ForPrep \/ ForLoopOfFloats \/ UNCHANGED forVars
             PROVE ForInv'
  OBVIOUS
<1>1. UNCHANGED Registers
  BY DEF ForPrep, ForLoopOfFloats, forVars, Registers
<1>2. CASE UNCHANGED forVars
  BY <1>2 DEF forVars, ForInv, ForTypeOK, AreInts, NoOverflow, VisitsTheRange, Progression, InRange
<1>3. CASE ForPrep
  BY <1>1, <1>3 DEF ForPrep, Registers, ForInv, ForTypeOK, AreInts, NoOverflow,
                    VisitsTheRange, Progression, InRange
<1>4. CASE ForLoopOfFloats
  BY <1>1, <1>4 DEF ForLoopOfFloats, Registers, ForInv, ForTypeOK, AreInts, NoOverflow,
                    VisitsTheRange, InRange
<1> QED
  BY <1>2, <1>3, <1>4

LEMMA ForInvHolds == ForSpec => []ForInv
<1>1. ForInit => ForInv
  BY DEF ForInit, ForInv, ForTypeOK, VisitsTheRange, Progression
<1>2. ForInv /\ [ForNext]_forVars => ForInv'
  BY StepForLoop, StepBody, StepOther DEF ForNext
<1> QED
  BY <1>1, <1>2, PTL DEF ForSpec

(* For all operands whose sums stay within 64 bits, the loop visits the    *)
(* range, the whole range and nothing else.                                *)
THEOREM VisitsTheRangeHolds == ForSpec => []VisitsTheRange
<1>1. ForInv => VisitsTheRange
  BY DEF ForInv
<1> QED
  BY <1>1, ForInvHolds, PTL

-----------------------------------------------------------------------------
(* The documented R(A).                                                    *)
Behind == IF at = "forprep" \/ ~(IsInt(counter) /\ IsInt(step)) THEN counter
          ELSE Wrap(counter - step)

LEMMA DocumentedForLoop == ForLoop => Documented!ForLoop
<1> SUFFICES ASSUME ForLoop PROVE Documented!ForLoop
  OBVIOUS
<1> USE DEF ForLoop
<1>1. counter \in LongLong /\ limit \in LongLong /\ step \in LongLong
  BY DEF AreInts, IsInt
<1>2. counter' = Wrap(counter + step) /\ counter' \in LongLong
  BY <1>1, WrapInRange DEF Added
<1>3. Behind = Wrap(counter - step) /\ Behind \in LongLong /\ Behind' = counter
  BY <1>1, <1>2, WrapInRange DEF Behind, IsInt
<1>4. Wrap(Behind + step) = counter
  BY <1>1, <1>3, WrapInRange
<1>5. Documented!Reaches(counter, limit, step) = Continues(counter, limit, step)
  BY DEF Documented!Reaches, Continues
<1>6. Documented!Wrap(Behind + step) = Wrap(Behind + step)
  BY DEF Documented!Wrap, Wrap
<1> QED
  BY <1>1, <1>3, <1>4, <1>5, <1>6
  DEF Documented!ForLoop, Documented!IsInt, Documented!LongLong, Behind, LongLong

LEMMA DocumentedStep == [ForNext]_forVars => [Documented!Next]_(Documented!vars)
<1> SUFFICES ASSUME [ForNext]_forVars PROVE [Documented!Next]_(Documented!vars)
  OBVIOUS
<1>1. CASE ForPrep
  BY <1>1 DEF ForPrep, Registers, AreNumeric, IsNumeric, IsInt, LongLong, Documented!Next,
     Documented!ForPrep, Documented!Abort, Documented!IsInt, Documented!LongLong,
     Documented!Wrap, Wrap
<1>2. CASE ForLoop
  BY <1>2, DocumentedForLoop DEF Documented!Next
<1>3. CASE ForLoopOfFloats
  BY <1>3 DEF ForLoopOfFloats, Registers, AreInts, IsInt, LongLong, Documented!Next,
     Documented!Abort, Documented!IsInt, Documented!LongLong
<1>4. CASE Body
  BY <1>4 DEF Body, Documented!Next, Documented!Body
<1>5. CASE UNCHANGED forVars
  BY <1>5 DEF forVars, Documented!vars
<1> QED
  BY <1>1, <1>2, <1>3, <1>4, <1>5 DEF ForNext

(* FORPREP and FORLOOP, which test before they add, implement the loop of  *)
(* the comments, which adds before it tests: for every width of integers.  *)
THEOREM ForLoopImplementsDocumented == ForSpec => DocumentedSpec
<1>1. ForInit => Documented!Init
  BY DEF ForInit, Documented!Init
<1> QED
  BY <1>1, DocumentedStep, PTL DEF ForSpec, DocumentedSpec, Documented!Spec
=============================================================================
