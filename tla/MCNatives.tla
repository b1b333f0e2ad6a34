----------------------------- MODULE MCNatives -----------------------------
(* A file that can be written, and two that are there: one with whole      *)
(* lines, one with a line too long and a last line without an end.         *)
EXTENDS Natives

StoredFiles == ("whole" :> <<"a", NL, NL>>) @@ ("cut" :> <<"a", "b", NL, "c">>)

(* What the next steps and the properties depend on: the registers only    *)
(* while a statement is under way, the top only in an outer call, nothing  *)
(* once the program has stopped.                                           *)
Relevant ==
  <<due,
    IF due = "aborted" THEN <<>> ELSE <<metatable, files, content>>,
    IF due \in {"inner", "outer", "call"} THEN <<registers, given, wanted>> ELSE <<>>,
    IF due = "outer" THEN <<top, written>> ELSE <<>>>>

TextsWritten == {<<"1">>, <<NL>>}
=============================================================================
