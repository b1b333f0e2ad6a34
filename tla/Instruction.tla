---------------------------- MODULE Instruction ----------------------------
(***************************************************************************)
(* Instructions: 32 bits with an opcode and its arguments, as luac packs   *)
(* them and Instruction::decode takes them apart.                          *)
(***************************************************************************)
EXTENDS Integers

(* Opcodes in the order of the enumeration OpCode, and those whose format  *)
(* in OpCodeInfoList is not iABC.                                          *)
OpCode == 0 .. 46

OP_LOADK == 1
OP_JMP == 30
OP_FORLOOP == 39
OP_FORPREP == 40
OP_TFORLOOP == 42
OP_CLOSURE == 44
OP_EXTRAARG == 46

Type(op) ==
  IF op \in {OP_LOADK, OP_CLOSURE} THEN "ABX"
  ELSE IF op \in {OP_JMP, OP_FORLOOP, OP_FORPREP, OP_TFORLOOP} THEN "ASBX"
  ELSE IF op = OP_EXTRAARG THEN "AX"
  ELSE "ABC"

(* 2 ^ SIZE_OP and so on, and 2 ^ POS_A, ...                               *)
OPs == 64
As == 256
Cs == 512
Bs == 512
Bxs == 262144
Axs == 67108864

UnitA == 64
UnitC == 16384
UnitB == 8388608

MAXARG_sBx == 131071

(* An argument of n values, in the word i, an int that is shifted with its *)
(* sign.                                                                   *)
getarg(i, unit, n) == (i \div unit) % n

GETARG_A(i) == getarg(i, UnitA, As)
GETARG_B(i) == getarg(i, UnitB, Bs)
GETARG_C(i) == getarg(i, UnitC, Cs)
GETARG_Bx(i) == getarg(i, UnitC, Bxs)
GETARG_Ax(i) == getarg(i, UnitA, Axs)
GETARG_sBxOff(i) == GETARG_Bx(i) - (MAXARG_sBx + 1)
GETARG_sBx(i) == GETARG_Bx(i) - MAXARG_sBx

(* args has as many elements as the opcode's format sets.                  *)
Decode(inst) ==
  LET op == inst % OPs
  IN [instruction |-> op,
      args |-> IF Type(op) = "ABX" THEN <<GETARG_A(inst), GETARG_Bx(inst)>>
               ELSE IF Type(op) = "ASBX" THEN <<GETARG_A(inst), GETARG_sBx(inst)>>
               ELSE IF Type(op) = "AX" THEN <<GETARG_Ax(inst)>>
               ELSE <<GETARG_A(inst), GETARG_B(inst), GETARG_C(inst)>>]

(* An argument that is a register, or a constant: bit BITRK is set.        *)
BITRK == 256
ISK(x) == (x \div BITRK) % 2 = 1
INDEXK(r) == IF ISK(r) THEN r - BITRK ELSE r
RKASK(x) == IF ISK(x) THEN x ELSE x + BITRK

-----------------------------------------------------------------------------
(* luac.  The word is an unsigned int there, and the same bits as an int   *)
(* here.                                                                   *)

InstructionOf(op) ==
  [instruction : {op},
   args : IF Type(op) = "ABX" THEN (0 .. As - 1) \X (0 .. Bxs - 1)
          ELSE IF Type(op) = "ASBX" THEN (0 .. As - 1) \X (-MAXARG_sBx .. MAXARG_sBx + 1)
          ELSE IF Type(op) = "AX" THEN {<<ax>> : ax \in 0 .. Axs - 1}
          ELSE (0 .. As - 1) \X (0 .. Bs - 1) \X (0 .. Cs - 1)]

(* x units, the highest bit of the word being its sign.                    *)
Put(x, unit, n) == IF x < n \div 2 THEN x * unit ELSE (x - n) * unit

Encode(ins) ==
  LET op == ins.instruction
      a == ins.args
  IN op + IF Type(op) = "ABX" THEN a[1] * UnitA + Put(a[2], UnitC, Bxs)
          ELSE IF Type(op) = "ASBX" THEN a[1] * UnitA + Put(a[2] + MAXARG_sBx, UnitC, Bxs)
          ELSE IF Type(op) = "AX" THEN Put(a[1], UnitA, Axs)
          ELSE a[1] * UnitA + a[3] * UnitC + Put(a[2], UnitB, Bs)
=============================================================================
