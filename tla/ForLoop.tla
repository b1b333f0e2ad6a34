------------------------------ MODULE ForLoop -------------------------------
(***************************************************************************)
(* A numeric for statement as VM::execute runs it: OP_FORPREP once, then   *)
(* OP_FORLOOP before each turn of the body and once more at the end.       *)
(* Registers R(A) .. R(A+3) are variables; a long long is a bounded        *)
(* integer, a float and a value that is no number are themselves.          *)
(***************************************************************************)
EXTENDS Integers

CONSTANTS
  LLONG_MAX,   (* The largest long long.                                   *)
  Operands,    (* What start, limit and step of the statement may be.      *)
  Floats,      (* The floats among them.                                   *)
  Assigned     (* What the body may assign to its variable.                *)

VARIABLES
  at,         (* What is due: "forprep", "forloop", the "body", or nothing *)
              (* any more: "done" or "aborted".                            *)
  counter,    (* R(A).                                                     *)
  limit,      (* R(A + 1).                                                 *)
  step,       (* R(A + 2).                                                 *)
  variable,   (* R(A + 3), the variable that the body sees.                *)
  start,      (* What the statement starts from: R(A) at first.            *)
  visited     (* What the variable was each time the body was entered.     *)

forVars == <<at, counter, limit, step, variable, start, visited>>

LongLong == -LLONG_MAX - 1 .. LLONG_MAX

ASSUME LongLongAssumption == LLONG_MAX \in Nat \ {0}
ASSUME FloatsAssumption == Floats \cap LongLong = {}

(* The overflow of a signed addition is undefined in C++; this is what the *)
(* machine's addition gives, when the compiler makes nothing of that.      *)
Wrap(i) ==
  IF i > LLONG_MAX THEN i - 2 * (LLONG_MAX + 1)
  ELSE IF i < -LLONG_MAX - 1 THEN i + 2 * (LLONG_MAX + 1)
  ELSE i

IsInt(v) == v \in LongLong
IsNumeric(v) == IsInt(v) \/ v \in Floats

AreInts == IsInt(counter) /\ IsInt(limit) /\ IsInt(step)
AreNumeric == IsNumeric(counter) /\ IsNumeric(limit) /\ IsNumeric(step)

Registers == <<counter, limit, step, variable, start, visited>>

ForInit ==
  /\ at = "forprep"
  /\ counter \in Operands /\ limit \in Operands /\ step \in Operands
  /\ variable \in Assigned
  /\ start = counter
  /\ visited = {}

(* Nothing is subtracted: the test comes before the addition.              *)
ForPrep ==
  /\ at = "forprep"
  /\ at' = IF AreNumeric THEN "forloop" ELSE "aborted"
  /\ UNCHANGED Registers

ContinuesBelow(i, to, by) == IF by > 0 THEN i < to ELSE to < i
ContinuesUp(i, to, by) == i <= to
Continues(i, to, by) == IF by > 0 THEN i <= to ELSE to <= i

AddedNothing(i, by) == i
Added(i, by) == Wrap(i + by)

(* The addition also happens when the loop ends.                           *)
ForLoop ==
  /\ at = "forloop"
  /\ AreInts
  /\ \/ /\ Continues(counter, limit, step)
        /\ at' = "body"
        /\ variable' = counter
        /\ visited' = visited \cup {counter}
     \/ /\ ~Continues(counter, limit, step)
        /\ at' = "done"
        /\ UNCHANGED <<variable, visited>>
  /\ counter' = Added(counter, step)
  /\ UNCHANGED <<limit, step, start>>

ForLoopOfFloats ==
  /\ at = "forloop"
  /\ ~AreInts
  /\ at' = "aborted"
  /\ UNCHANGED Registers

Body ==
  /\ at = "body"
  /\ at' = "forloop"
  /\ variable' \in Assigned \cup {variable}
  /\ UNCHANGED <<counter, limit, step, start, visited>>

ForNext == ForPrep \/ ForLoop \/ ForLoopOfFloats \/ Body

ForSpec == ForInit /\ [][ForNext]_forVars /\ WF_forVars(ForNext)

-----------------------------------------------------------------------------
(* "R(A) <?= R(A+1)" (opcodes.h:64).                                       *)
InRange(i) == IF step > 0 THEN i <= limit ELSE limit <= i

(* A loop whose last addition stays within 64 bits.                        *)
NoOverflow == AreInts /\ IsInt(start) /\ limit + step \in LongLong

ForTypeOK ==
  /\ at \in {"forprep", "forloop", "body", "done", "aborted"}
  /\ visited \subseteq LongLong
  /\ at \in {"body", "done"} => AreInts

(* The body runs for start, start + step, ..., once for each, and neither  *)
(* goes beyond the limit nor stops before it (opcodes.h: "R(A)+=R(A+2); if *)
(* R(A) <?= R(A+1)"), whatever it assigns to its variable.                 *)
VisitsTheRange ==
  NoOverflow =>
    /\ \A i \in visited :
         InRange(i) /\ (i = start \/ i - step \in visited)
    /\ at = "forloop" /\ step # 0 => counter \notin visited
    /\ at = "done" =>
         /\ InRange(start) => start \in visited
         /\ \A i \in visited :
              InRange(i + step) => i + step \in visited

(* R(A) of the comments is one step behind.                                *)
Documented ==
  INSTANCE NumericFor WITH
    counter <- IF at = "forprep" \/ ~(IsInt(counter) /\ IsInt(step)) THEN counter
               ELSE Wrap(counter - step)

(* The instructions together do what the comments on them say, in 64-bit   *)
(* arithmetic, overflow included.                                          *)
DocumentedSpec == Documented!Spec

(* A loop with a step whose sums do not overflow ends.                     *)
LoopEnds == [](NoOverflow /\ step # 0) => <>(at = "done")
=============================================================================
