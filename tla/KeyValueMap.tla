---------------------------- MODULE KeyValueMap -----------------------------
(***************************************************************************)
(* What the key-value store promises its user: a map.  Inserting a key     *)
(* that is there already changes nothing, deleting a key takes away its    *)
(* record and no other, finding a key gives the value it was inserted      *)
(* with.  Every step is one of a command, which the state names.           *)
(*                                                                         *)
(* This module translates no code: BPlusTree.tla (the B+ tree of           *)
(* src/prg/key_value_storage.lua) is shown to implement it.                *)
(***************************************************************************)
EXTENDS Functions

CONSTANTS
  Commands,   (* What the user may ask for: records with the fields do and *)
              (* key and, to insert, value.                                *)
  NoValue

VARIABLES
  store,      (* Key |-> value, for the keys that are present.             *)
  command,    (* The command that was carried out last.                    *)
  found       (* What it found.                                            *)

vars == <<store, command, found>>

Init ==
  /\ store = [k \in {} |-> NoValue]
  /\ command = NoValue
  /\ found = NoValue

(* A present key keeps its value.                                          *)
Insert(c) ==
  /\ c.do = "i"
  /\ store' = [k \in DOMAIN store \cup {c.key} |->
                 IF k \in DOMAIN store THEN store[k] ELSE c.value]
  /\ found' = NoValue

Delete(c) ==
  /\ c.do = "d"
  /\ store' = Restrict(store, DOMAIN store \ {c.key})
  /\ found' = NoValue

Find(c) ==
  /\ c.do = "f"
  /\ found' = IF c.key \in DOMAIN store THEN store[c.key] ELSE NoValue
  /\ UNCHANGED store

Next ==
  \E c \in Commands :
    /\ command' = c
    /\ Insert(c) \/ Delete(c) \/ Find(c)

Spec == Init /\ [][Next]_vars
=============================================================================
