------------------------------- MODULE Loops -------------------------------
(***************************************************************************)
(* Numeric and generic for statements together:                            *)
(*                                                                         *)
(*   for i = start, limit, step do t[i] = value end                        *)
(*   for k, v in pairs(t) do ... end                                       *)
(*                                                                         *)
(* and whatever else the program does to the table afterwards.             *)
(***************************************************************************)
EXTENDS ForLoop, Table

CONSTANT FillLoops     (* The loops <<start, limit, step>> that fill a table.  *)

VARIABLE fills         (* Whether the numeric loop does.                       *)

vars == <<forVars, tableVars, fills>>

Init ==
  /\ ForInit /\ TableInit
  /\ fills \in BOOLEAN
  /\ fills => <<counter, limit, step>> \in FillLoops

(* t[i] = value, then anything that may be done to i.                      *)
FillBody ==
  /\ fills
  /\ Body
  /\ \E v \in TableValues : Set(variable, v)
  /\ UNCHANGED <<constructor, due, loop, grown, fills>>

Numeric ==
  \/ ForNext /\ ~(Body /\ fills) /\ UNCHANGED <<tableVars, fills>>
  \/ FillBody

Generic == fills /\ at = "done" /\ TableNext /\ UNCHANGED <<forVars, fills>>

Next == Numeric \/ Generic

(* VM::execute runs one instruction after another; the body of a numeric   *)
(* loop is taken to come to its end.                                       *)
Fairness ==
  /\ WF_vars(Numeric)
  /\ WF_vars(Generic /\ GenericFor)

Spec == Init /\ [][Next]_vars /\ Fairness

(* Every index the numeric loop runs through is a key that the generic     *)
(* loop runs through, in whatever order, unless the table was replaced or  *)
(* has grown in between.                                                   *)
FilledIsTraversed ==
  fills /\ at = "done" /\ batch = 0 /\ due = "any" /\ ~grown /\ NoNilKey =>
    visited \subseteq ToSet(turns)
=============================================================================
