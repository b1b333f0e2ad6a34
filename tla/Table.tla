------------------------------- MODULE Table -------------------------------
(***************************************************************************)
(* A Lua table and the instructions that go through it as a whole: the     *)
(* constructor with OP_SETLIST and the generic for with pairs, next,       *)
(* OP_TFORCALL and OP_TFORLOOP, between any other assignments of the       *)
(* program.                                                                *)
(*                                                                         *)
(* hash_part, an unordered_map, is the sequence of its entries in the      *)
(* order of its iterators.  Nothing is known of that order, except that    *)
(* only an insertion may change it.                                        *)
(***************************************************************************)
EXTENDS Integers, SequencesExt

CONSTANTS
  TableKeys,          (* The keys the program uses, NIL may be among them.  *)
  TableValues,        (* The values it assigns, NIL may be among them.      *)
  NIL,
  LFIELDS_PER_FLUSH,  (* Elements that one OP_SETLIST stores at most.       *)
  MaxElements,        (* Elements in a constructor at most.                 *)
  MaxEntries          (* Entries of the table at most.                      *)

VARIABLES
  entries,    (* hash_part.                                                 *)
  len,        (* The field that OP_LEN reads.                               *)
  due,        (* What the program is at: "any" statement, "setlist",        *)
              (* "tforcall", "tforloop" or the "body" of the loop.          *)
  elements,   (* The elements of the last constructor; <<>> when there was  *)
              (* an assignment since.                                       *)
  batch,      (* The OP_SETLIST of it that is due,                          *)
  i,          (* and the element of the batch it stores next.               *)
  control,    (* R(A + 2) of the loop: the key of the turn before.          *)
  result,     (* R(A + 3) of the loop: the key that next returned.          *)
  turns,      (* The keys the body of the last loop has been run for (the   *)
              (* first MaxEntries + 1 of them).                             *)
  grown       (* Whether that loop is over and forgotten, or an entry was   *)
              (* added in it.                                               *)

tableVars == <<entries, len, due, elements, batch, i, control, result, turns, grown>>
hash_part == <<entries, grown>>
constructor == <<len, elements, batch, i>>
loop == <<control, result, turns>>

ASSUME FlushAssumption == LFIELDS_PER_FLUSH \in Nat \ {0}
ASSUME TableAssumption == MaxEntries \in Nat /\ NIL \in TableValues \ Int

Entry(k, v) == [key |-> k, value |-> v]

-----------------------------------------------------------------------------
(* Where a key is found: nil equals nothing, not even nil.                 *)
Places(k) == {p \in DOMAIN entries : entries[p].key = k /\ k # NIL}

Get(k) ==
  IF Places(k) = {} THEN NIL ELSE entries[CHOOSE p \in Places(k) : TRUE].value

(* The entries in another order.                                           *)
Rehashed(s) ==
  {[p \in DOMAIN s |-> s[order[p]]] : order \in Bijection(DOMAIN s, DOMAIN s)}

WithKeyErased(s, k, v) ==
  Rehashed(Append(SelectSeq(s, LAMBDA e : e.key # k), Entry(k, v)))

(* The entries after operator[] has found the key or added it.             *)
WithKey(s, k, v) ==
  IF \E p \in DOMAIN s : s[p].key = k /\ k # NIL
  THEN {[p \in DOMAIN s |-> IF s[p].key = k THEN Entry(k, v) ELSE s[p]]}
  ELSE Rehashed(Append(s, Entry(k, v)))

Set(k, v) ==
  /\ entries' \in WithKey(entries, k, v)
  /\ Len(entries') <= MaxEntries

NextPlaceSecond(k) == IF k = NIL THEN {2} ELSE {p + 1 : p \in Places(k)}
NextPlaceStuck(k) == IF k = NIL THEN {1} ELSE Places(k)
NextPlace(k) == IF k = NIL THEN {1} ELSE {p + 1 : p \in Places(k)}

(* The key of the entry after that of the key, of the first one for nil;   *)
(* nil where the iterator is at the end or the key is not found.           *)
NextOf(k) ==
  LET next == NextPlace(k) \cap DOMAIN entries
  IN IF next = {} THEN NIL ELSE entries[CHOOSE p \in next : TRUE].key

-----------------------------------------------------------------------------
(* The constructor.                                                        *)

NewTable ==
  /\ due = "any"
  /\ \E n \in 0 .. MaxElements : elements' \in [1 .. n -> TableValues \ {NIL}]
  /\ entries' = <<>> /\ len' = 0 /\ grown' = TRUE
  /\ due' = IF elements' = <<>> THEN "any" ELSE "setlist"
  /\ batch' = 1 /\ i' = 1
  /\ turns' = <<>>
  /\ UNCHANGED <<control, result>>

StartOneLate(c) == c * LFIELDS_PER_FLUSH
Start(c) == (c - 1) * LFIELDS_PER_FLUSH

(* luac: full batches of elements, and the rest in the last one.           *)
Flushed == (batch - 1) * LFIELDS_PER_FLUSH
InBatch == IF Len(elements) - Flushed < LFIELDS_PER_FLUSH
           THEN Len(elements) - Flushed ELSE LFIELDS_PER_FLUSH

(* One turn of the loop of OP_SETLIST; the last one sets the length, to    *)
(* that of the batch.                                                      *)
SetList ==
  /\ due = "setlist"
  /\ Set(Start(batch) + i, elements[Flushed + i])
  /\ IF i < InBatch
     THEN i' = i + 1 /\ UNCHANGED <<len, batch, due>>
     ELSE /\ len' = InBatch
          /\ batch' = batch + 1 /\ i' = 1
          /\ due' = IF Flushed + i = Len(elements) THEN "any" ELSE "setlist"
  /\ UNCHANGED <<elements, grown, loop>>

-----------------------------------------------------------------------------
(* The loop.                                                               *)

Assign ==
  /\ due \in {"any", "body"}
  /\ \E k \in TableKeys, v \in TableValues : Set(k, v)
  /\ grown' = (due = "any" \/ grown \/ Len(entries') > Len(entries))
  /\ elements' = <<>>
  /\ turns' = IF due = "any" THEN <<>> ELSE turns
  /\ UNCHANGED <<len, due, batch, i, control, result>>

(* for k, v in pairs(t): next, the table and nil are in R(A) .. R(A + 2).  *)
Pairs ==
  /\ due = "any"
  /\ due' = "tforcall"
  /\ control' = NIL
  /\ turns' = <<>>
  /\ grown' = FALSE
  /\ UNCHANGED <<entries, constructor, result>>

TForCall ==
  /\ due = "tforcall"
  /\ result' = NextOf(control)
  /\ due' = "tforloop"
  /\ UNCHANGED <<hash_part, constructor, control, turns>>

TForLoop ==
  /\ due = "tforloop"
  /\ \/ /\ result # NIL
        /\ control' = result
        /\ turns' = IF Len(turns) <= MaxEntries THEN Append(turns, result) ELSE turns
        /\ due' = "body"
     \/ /\ result = NIL
        /\ due' = "any"
        /\ control' = NIL
        /\ UNCHANGED turns
  /\ UNCHANGED <<hash_part, constructor, result>>

EndOfBody ==
  /\ due = "body"
  /\ due' = "tforcall"
  /\ UNCHANGED <<hash_part, constructor, loop>>
TableInit ==
  /\ entries = <<>> /\ len = 0 /\ grown = TRUE
  /\ due = "any"
  /\ elements = <<>> /\ batch = 0 /\ i = 1
  /\ control = NIL /\ result = NIL /\ turns = <<>>

GenericFor == TForCall \/ TForLoop \/ EndOfBody

TableNext == NewTable \/ SetList \/ Assign \/ Pairs \/ GenericFor

TableSpec == TableInit /\ [][TableNext]_tableVars /\ WF_tableVars(GenericFor)

-----------------------------------------------------------------------------
NoNilKey == \A p \in DOMAIN entries : entries[p].key # NIL

TableTypeOK ==
  /\ \A p, q \in DOMAIN entries :
       entries[p].key = entries[q].key => p = q \/ entries[p].key = NIL
  /\ len \in 0 .. LFIELDS_PER_FLUSH
  /\ due \in {"any", "setlist", "tforcall", "tforloop", "body"}

(* "gets table and key, returns next key and value" (native.cpp:93): the   *)
(* loop has no iterator but looks the last key up again; so long as its    *)
(* body adds no key, it is run for every key, once for each, those that    *)
(* got the value nil included.                                             *)
EachKeyOnce ==
  ~grown /\ NoNilKey =>
    /\ Len(turns) <= Len(entries)
    /\ \A p \in DOMAIN turns : turns[p] = entries[p].key
    /\ due = "any" => Len(turns) = Len(entries)

(* "R(A)[(C-1)*FPF+i] := R(A+i), 1 <= i <= B" (opcodes.h:70): after all of *)
(* its batches the constructor's table has the elements under 1, 2, ...,   *)
(* and, when there was no more than one batch, their number as its length. *)
ConstructorFills ==
  due = "any" =>
    /\ \A e \in DOMAIN elements : Get(e) = elements[e]
    /\ elements # <<>> /\ Len(elements) <= LFIELDS_PER_FLUSH => len = Len(elements)

(* A loop whose body adds no key comes to an end.                          *)
TraversalEnds == due = "tforcall" /\ ~grown ~> due = "any" \/ grown
=============================================================================
