----------------------------- MODULE NumericFor -----------------------------
(***************************************************************************)
(* The numeric for statement as the comments of opcodes.h describe its two *)
(* instructions:                                                           *)
(*                                                                         *)
(*   OP_FORPREP  R(A)-=R(A+2); pc+=sBx                                     *)
(*   OP_FORLOOP  R(A)+=R(A+2);                                             *)
(*               if R(A) <?= R(A+1) then { pc+=sBx; R(A+3)=R(A) }          *)
(*                                                                         *)
(* The code does otherwise: FORPREP subtracts nothing, and FORLOOP tests   *)
(* first and adds afterwards.  ForLoop.tla (what it does) is shown to      *)
(* implement this module.                                                  *)
(***************************************************************************)
EXTENDS Integers

CONSTANT LLONG_MAX

VARIABLES
  at,         (* What is due: "forprep", "forloop", the "body", or nothing *)
              (* any more: "done" or "aborted".                            *)
  counter,    (* R(A).                                                     *)
  limit,      (* R(A + 1).                                                 *)
  step,       (* R(A + 2).                                                 *)
  variable    (* R(A + 3), the variable that the body sees.                *)

vars == <<at, counter, limit, step, variable>>

LongLong == -LLONG_MAX - 1 .. LLONG_MAX

(* A sum or difference of two integers in the 64 bits it is stored in.     *)
Wrap(i) ==
  IF i > LLONG_MAX THEN i - 2 * (LLONG_MAX + 1)
  ELSE IF i < -LLONG_MAX - 1 THEN i + 2 * (LLONG_MAX + 1)
  ELSE i

IsInt(v) == v \in LongLong

(* "<?=".                                                                  *)
Reaches(i, to, by) == IF by > 0 THEN i <= to ELSE to <= i

Init == at = "forprep"

ForPrep ==
  /\ at = "forprep"
  /\ at' = "forloop"
  /\ counter' = IF IsInt(counter) /\ IsInt(step) THEN Wrap(counter - step) ELSE counter
  /\ UNCHANGED <<limit, step, variable>>

ForLoop ==
  /\ at = "forloop"
  /\ IsInt(counter) /\ IsInt(limit) /\ IsInt(step)
  /\ counter' = Wrap(counter + step)
  /\ IF Reaches(counter', limit, step)
     THEN at' = "body" /\ variable' = counter'
     ELSE at' = "done" /\ UNCHANGED variable
  /\ UNCHANGED <<limit, step>>

(* The body may assign to its variable.                                    *)
Body ==
  /\ at = "body"
  /\ at' = "forloop"
  /\ UNCHANGED <<counter, limit, step>>

(* Operands that are not numbers, or not integers; what R(A) is then is of *)
(* no use to anybody.                                                      *)
Abort ==
  /\ at \in {"forprep", "forloop"}
  /\ ~(IsInt(counter) /\ IsInt(limit) /\ IsInt(step))
  /\ at' = "aborted"
  /\ UNCHANGED <<limit, step, variable>>

Next == ForPrep \/ ForLoop \/ Body \/ Abort

Spec == Init /\ [][Next]_vars
=============================================================================
