------------------------- MODULE InstructionProofs -------------------------
(***************************************************************************)
(* What is proved of Instruction.tla: an instruction is the same after it  *)
(* has been packed into a word and taken apart, for every opcode and all   *)
(* of its arguments.                                                       *)
(***************************************************************************)
EXTENDS Instruction, TLAPS

LEMMA Sizes ==
  As \in Nat /\ Bs \in Nat /\ Cs \in Nat /\ Bxs \in Nat /\ Axs \in Nat /\ MAXARG_sBx \in Nat
  BY DEF As, Bs, Cs, Bxs, Axs, MAXARG_sBx

LEMMA ThreeArguments ==
  ASSUME NEW op \in Nat, op < 64, NEW a \in Nat, a < 256, NEW b \in Nat, b < 512,
         NEW c \in Nat, c < 512,
         NEW w, w = op + (a * UnitA + c * UnitC + Put(b, UnitB, Bs))
  PROVE  w % OPs = op /\ GETARG_A(w) = a /\ GETARG_B(w) = b /\ GETARG_C(w) = c
<1>1. PICK y \in Int : Put(b, UnitB, Bs) = (y * 512 + b) * 8388608
  <2>1. CASE b < 256
    <3>1. Put(b, UnitB, Bs) = (0 * 512 + b) * 8388608
      BY <2>1 DEF Put, UnitB, Bs
    <3> QED
      BY <3>1
  <2>2. CASE ~(b < 256)
    <3>1. Put(b, UnitB, Bs) = ((-1) * 512 + b) * 8388608
      BY <2>2 DEF Put, UnitB, Bs
    <3> QED
      BY <3>1
  <2> QED
    BY <2>1, <2>2
<1>2. w = op + (a * 64 + c * 16384 + (y * 512 + b) * 8388608)
  BY <1>1 DEF UnitA, UnitC
<1>3. w \in Int
  BY <1>2
<1>4. w % OPs = op
  <2>1. PICK q \in Int : q = a + c * 256 + (y * 512 + b) * 131072
    OBVIOUS
  <2>2. w = q * 64 + op
    BY <1>2, <2>1
  <2> QED
    BY <1>3, <2>2 DEF OPs
<1>5. GETARG_A(w) = a
  <2>1. PICK q \in Int : q = (c + (y * 512 + b) * 512) * 256 + a
    OBVIOUS
  <2>2. w = q * 64 + op
    BY <1>2, <2>1
  <2>3. c + (y * 512 + b) * 512 \in Int
    OBVIOUS
  <2>4. w \div 64 = q
    BY <1>3, <2>1, <2>2, <2>3
  <2> QED
    BY <2>1, <2>4 DEF GETARG_A, UnitA, As, getarg
<1>6. GETARG_C(w) = c
  <2>1. PICK q \in Int : q = (y * 512 + b) * 512 + c
    OBVIOUS
  <2>2. PICK below \in Nat : below = op + a * 64 /\ below < 16384
    OBVIOUS
  <2>3. w = q * 16384 + below
    BY <1>2, <2>1, <2>2
  <2>4. y * 512 + b \in Int
    OBVIOUS
  <2>5. w \div 16384 = q
    BY <1>3, <2>1, <2>2, <2>3
  <2> QED
    BY <2>1, <2>5 DEF GETARG_C, UnitC, Cs, getarg
<1>7. GETARG_B(w) = b
  <2>1. PICK q \in Int : q = y * 512 + b
    OBVIOUS
  <2>2. PICK below \in Nat : below = op + (a * 64 + c * 16384) /\ below < 8388608
    OBVIOUS
  <2>3. w = q * 8388608 + below
    BY <1>2, <2>1, <2>2
  <2>4. w \div 8388608 = q
    BY <1>3, <2>1, <2>2, <2>3
  <2> QED
    BY <2>1, <2>4 DEF GETARG_B, UnitB, Bs, getarg
<1> QED
  BY <1>4, <1>5, <1>6, <1>7

LEMMA TwoArguments ==
  ASSUME NEW op \in Nat, op < 64, NEW a \in Nat, a < 256, NEW bx \in Nat, bx < 262144,
         NEW w, w = op + (a * UnitA + Put(bx, UnitC, Bxs))
  PROVE  w % OPs = op /\ GETARG_A(w) = a /\ GETARG_Bx(w) = bx
<1>1. PICK y \in Int : Put(bx, UnitC, Bxs) = (y * 262144 + bx) * 16384
  <2>1. CASE bx < 131072
    <3>1. Put(bx, UnitC, Bxs) = (0 * 262144 + bx) * 16384
      BY <2>1 DEF Put, UnitC, Bxs
    <3> QED
      BY <3>1
  <2>2. CASE ~(bx < 131072)
    <3>1. Put(bx, UnitC, Bxs) = ((-1) * 262144 + bx) * 16384
      BY <2>2 DEF Put, UnitC, Bxs
    <3> QED
      BY <3>1
  <2> QED
    BY <2>1, <2>2
<1>2. w = op + (a * 64 + (y * 262144 + bx) * 16384)
  BY <1>1 DEF UnitA
<1>3. w \in Int
  BY <1>2
<1>4. w % OPs = op
  <2>1. PICK q \in Int : q = a + (y * 262144 + bx) * 256
    OBVIOUS
  <2>2. w = q * 64 + op
    BY <1>2, <2>1
  <2> QED
    BY <1>3, <2>2 DEF OPs
<1>5. GETARG_A(w) = a
  <2>1. PICK q \in Int : q = (y * 262144 + bx) * 256 + a
    OBVIOUS
  <2>2. w = q * 64 + op
    BY <1>2, <2>1
  <2>3. y * 262144 + bx \in Int
    OBVIOUS
  <2>4. w \div 64 = q
    BY <1>3, <2>1, <2>2, <2>3
  <2> QED
    BY <2>1, <2>4 DEF GETARG_A, UnitA, As, getarg
<1>6. GETARG_Bx(w) = bx
  <2>1. PICK q \in Int : q = y * 262144 + bx
    OBVIOUS
  <2>2. PICK below \in Nat : below = op + a * 64 /\ below < 16384
    OBVIOUS
  <2>3. w = q * 16384 + below
    BY <1>2, <2>1, <2>2
  <2>4. w \div 16384 = q
    BY <1>3, <2>1, <2>2, <2>3
  <2> QED
    BY <2>1, <2>4 DEF GETARG_Bx, UnitC, Bxs, getarg
<1> QED
  BY <1>4, <1>5, <1>6

LEMMA OneArgument ==
  ASSUME NEW op \in Nat, op < 64, NEW ax \in Nat, ax < 67108864, NEW w, w = op + Put(ax, UnitA, Axs)
  PROVE  w % OPs = op /\ GETARG_Ax(w) = ax
<1>1. PICK y \in Int : Put(ax, UnitA, Axs) = (y * 67108864 + ax) * 64
  <2>1. CASE ax < 33554432
    <3>1. Put(ax, UnitA, Axs) = (0 * 67108864 + ax) * 64
      BY <2>1 DEF Put, UnitA, Axs
    <3> QED
      BY <3>1
  <2>2. CASE ~(ax < 33554432)
    <3>1. Put(ax, UnitA, Axs) = ((-1) * 67108864 + ax) * 64
      BY <2>2 DEF Put, UnitA, Axs
    <3> QED
      BY <3>1
  <2> QED
    BY <2>1, <2>2
<1>2. w = (y * 67108864 + ax) * 64 + op
  BY <1>1
<1>3. PICK q \in Int : q = y * 67108864 + ax
  OBVIOUS
<1>4. w = q * 64 + op /\ w \in Int
  BY <1>2, <1>3
<1>5. w % OPs = op
  BY <1>4 DEF OPs
<1>6. GETARG_Ax(w) = ax
  <2>1. w \div 64 = q
    BY <1>4
  <2> QED
    BY <1>3, <2>1 DEF GETARG_Ax, UnitA, Axs, getarg
<1> QED
  BY <1>5, <1>6

-----------------------------------------------------------------------------
(* decode finds in the word of an instruction the opcode and the arguments *)
(* that luac put there: arguments share no bits, and an argument that sets *)
(* the sign of the word comes out as large as it went in.                  *)
THEOREM DecodeInvertsEncode ==
  \A op \in OpCode : \A ins \in InstructionOf(op) : Decode(Encode(ins)) = ins
<1> SUFFICES ASSUME NEW op \in OpCode, NEW ins \in InstructionOf(op)
             PROVE  Decode(Encode(ins)) = ins
  OBVIOUS
<1> DEFINE w == Encode(ins)
<1>1. op \in Nat /\ op < 64 /\ ins.instruction = op
  BY DEF OpCode, InstructionOf
<1>2. ins = [instruction |-> op, args |-> ins.args]
  BY DEF InstructionOf
<1>3. CASE Type(op) = "ABX"
  <2>1. PICK a, bx : /\ ins.args = <<a, bx>>
                     /\ a \in Nat /\ a < As /\ bx \in Nat /\ bx < Bxs
    BY <1>3, Sizes DEF InstructionOf
  <2>2. a < 256 /\ bx < 262144
    BY <2>1 DEF As, Bxs
  <2>3. w = op + (a * UnitA + Put(bx, UnitC, Bxs))
    BY <1>1, <1>3, <2>1 DEF Encode
  <2> HIDE DEF w
  <2>4. w % OPs = op /\ GETARG_A(w) = a /\ GETARG_Bx(w) = bx
    BY <1>1, <2>1, <2>2, <2>3, TwoArguments
  <2>5. Decode(w) = [instruction |-> op, args |-> <<a, bx>>]
    BY <1>3, <2>4 DEF Decode
  <2> QED
    BY <1>2, <2>1, <2>5 DEF w
<1>4. CASE Type(op) = "ASBX"
  <2>1. PICK a, sbx : /\ ins.args = <<a, sbx>>
                      /\ a \in Nat /\ a < As
                      /\ sbx \in Int /\ -MAXARG_sBx <= sbx /\ sbx <= MAXARG_sBx + 1
    BY <1>4, Sizes DEF InstructionOf
  <2>2. a < 256 /\ -131071 <= sbx /\ sbx <= 131072
    BY <2>1 DEF As, MAXARG_sBx
  <2>3. PICK bx \in Nat : bx = sbx + 131071 /\ bx < 262144
    BY <2>1, <2>2
  <2>4. w = op + (a * UnitA + Put(bx, UnitC, Bxs))
    BY <1>1, <1>4, <2>1, <2>3 DEF Encode, MAXARG_sBx
  <2> HIDE DEF w
  <2>5. w % OPs = op /\ GETARG_A(w) = a /\ GETARG_Bx(w) = bx
    BY <1>1, <2>1, <2>2, <2>3, <2>4, TwoArguments
  <2>6. GETARG_sBx(w) = sbx
    BY <2>1, <2>3, <2>5 DEF GETARG_sBx, MAXARG_sBx
  <2>7. Decode(w) = [instruction |-> op, args |-> <<a, sbx>>]
    BY <1>4, <2>5, <2>6 DEF Decode
  <2> QED
    BY <1>2, <2>1, <2>7 DEF w
<1>5. CASE Type(op) = "AX"
  <2>1. PICK ax : ins.args = <<ax>> /\ ax \in Nat /\ ax < Axs
    BY <1>5, Sizes DEF InstructionOf
  <2>2. ax < 67108864
    BY <2>1 DEF Axs
  <2>3. w = op + Put(ax, UnitA, Axs)
    BY <1>1, <1>5, <2>1 DEF Encode
  <2> HIDE DEF w
  <2>4. w % OPs = op /\ GETARG_Ax(w) = ax
    BY <1>1, <2>1, <2>2, <2>3, OneArgument
  <2>5. Decode(w) = [instruction |-> op, args |-> <<ax>>]
    BY <1>5, <2>4 DEF Decode
  <2> QED
    BY <1>2, <2>1, <2>5 DEF w
<1>6. CASE Type(op) = "ABC"
  <2>1. PICK a, b, c : /\ ins.args = <<a, b, c>>
                       /\ a \in Nat /\ a < As /\ b \in Nat /\ b < Bs /\ c \in Nat /\ c < Cs
    BY <1>6, Sizes DEF InstructionOf
  <2>2. a < 256 /\ b < 512 /\ c < 512
    BY <2>1 DEF As, Bs, Cs
  <2>3. w = op + (a * UnitA + c * UnitC + Put(b, UnitB, Bs))
    BY <1>1, <1>6, <2>1 DEF Encode
  <2> HIDE DEF w
  <2>4. w % OPs = op /\ GETARG_A(w) = a /\ GETARG_B(w) = b /\ GETARG_C(w) = c
    BY <1>1, <2>1, <2>2, <2>3, ThreeArguments
  <2>5. Decode(w) = [instruction |-> op, args |-> <<a, b, c>>]
    BY <1>6, <2>4 DEF Decode
  <2> QED
    BY <1>2, <2>1, <2>5 DEF w
<1> QED
  BY <1>3, <1>4, <1>5, <1>6 DEF Type
=============================================================================
