------------------------------ MODULE MCLoops -------------------------------
(* The loops that Loops.tla is checked with: all over integers of four     *)
(* bits with a float and a value that is no number among the operands; a   *)
(* few of them fill the table.                                             *)
EXTENDS Loops

CONSTANTS float, text, v1

MCOperands == {-8, -7, -2, -1, 0, 1, 2, 3, 6, 7} \cup {float, text}
MCFloats == {float}
MCAssigned == {text}
MCFillLoops == {<<3, 1, -1>>}
MCTableKeys == {1, 2, NIL}
MCTableValues == {v1, NIL}
=============================================================================
