------------------------------ MODULE VMProofs ------------------------------
(***************************************************************************)
(* Every program that luac may write keeps to its registers: whatever is   *)
(* called in whatever order, an activation leaves those of its callers     *)
(* alone.  The second half is about the list of open upvalues, which calls *)
(* prolong, returns shorten and the collector has to keep.                 *)
(***************************************************************************)
EXTENDS VM, SequenceTheorems, FiniteSetTheorems, WellFoundedInduction, TLAPS

(* A call reads the prototype of the closure that it finds in a register.  *)
HasProto(o) ==
  /\ "kind" \in DOMAIN o
  /\ o.kind = "closure" => "proto" \in DOMAIN o /\ o.proto \in DOMAIN Proto

ClosuresHaveProtos(objects) == \A a \in DOMAIN objects : HasProto(objects[a])

FrameFields == {"closure", "proto", "base", "top", "size", "npar", "nres",
                "stack_max", "ip", "target", "id"}

FrameOK(f) ==
  /\ DOMAIN f = FrameFields
  /\ f.proto \in DOMAIN Proto
  /\ f.base \in Nat \ {0}
  /\ f.size = Proto[f.proto].maxstack
  /\ f.top \in Int
  /\ f.ip \in DOMAIN Proto[f.proto].code

(* The caller stands at the instruction that made the call, which tells    *)
(* where the callee's registers start and where its results go.            *)
CalledFrom(caller, callee) ==
  \E i \in Proto[caller.proto].code[caller.ip] :
    \/ /\ i.op = "CALL"
       /\ callee.base = caller.base + i.a + 1
       /\ callee.nres = i.c - 1
       /\ callee.target = NULL
    \/ /\ i.op = "ADD"
       /\ callee.base = caller.base + caller.size
       /\ callee.nres = 1
       /\ callee.target = caller.base + i.a

(* When a call takes its arguments up to top, top lies above the function. *)
ArgumentsBelowTop(f) ==
  \A i \in Proto[f.proto].code[f.ip] :
    i.op = "CALL" /\ i.b = 0 => f.top >= f.base + i.a + 1

IsList(s) == Len(s) \in Nat /\ s = [k \in 1 .. Len(s) |-> s[k]]

FramesOK(fs) ==
  /\ IsList(fs) /\ fs # <<>> /\ Len(fs) > 0
  /\ \A k \in 1 .. Len(fs) : FrameOK(fs[k])
  /\ \A k \in 1 .. Len(fs) - 1 : CalledFrom(fs[k], fs[k + 1])
  /\ ArgumentsBelowTop(fs[Len(fs)])

StackInv ==
  phase = "run" =>
    /\ DOMAIN stack = Slots
    /\ ClosuresHaveProtos(object)
    /\ FramesOK(frames)

-----------------------------------------------------------------------------
(* The sequence of frames                                                  *)

LEMMA SequenceIsList ==
  ASSUME NEW S, NEW s \in Seq(S)
  PROVE  IsList(s)
<1>1. Len(s) \in Nat /\ s \in [1 .. Len(s) -> S]
  BY LenProperties
<1> QED
  BY <1>1 DEF IsList

WithLast(s, x) == [s EXCEPT ![Len(s)] = x]

LEMMA ListChanged ==
  ASSUME NEW s, IsList(s), Len(s) > 0, NEW x
  PROVE  LET t == WithLast(s, x) IN
         /\ IsList(t) /\ Len(t) = Len(s)
         /\ t # <<>> /\ t[Len(t)] = x
         /\ \A k \in 1 .. Len(t) - 1 : t[k] = s[k]
<1> DEFINE S == {s[k] : k \in 1 .. Len(s)} \cup {x}
           t == WithLast(s, x)
<1>1. s \in Seq(S) /\ Len(s) \in 1 .. Len(s) /\ x \in S
  BY DEF IsList
<1> HIDE DEF S
<1>2. t \in Seq(S) /\ Len(t) = Len(s) /\ t[Len(s)] = x
  BY <1>1, ExceptSeq DEF WithLast
<1>3. \A k \in 1 .. Len(t) - 1 : t[k] = s[k]
  BY <1>1, <1>2 DEF WithLast
<1> HIDE DEF t
<1>4. IsList(t)
  BY <1>2, SequenceIsList
<1>5. t # <<>>
  BY <1>1, <1>2
<1> QED
  BY <1>2, <1>3, <1>4, <1>5 DEF t

LEMMA ListExtended ==
  ASSUME NEW s, IsList(s), NEW x
  PROVE  LET t == Append(s, x) IN
         /\ IsList(t) /\ Len(t) = Len(s) + 1
         /\ t # <<>> /\ t[Len(t)] = x
         /\ \A k \in 1 .. Len(s) : t[k] = s[k]
<1> DEFINE S == {s[k] : k \in 1 .. Len(s)} \cup {x}
           t == Append(s, x)
<1>1. s \in Seq(S) /\ x \in S
  BY DEF IsList
<1> HIDE DEF S
<1>2. /\ t \in Seq(S) /\ Len(t) = Len(s) + 1
      /\ t[Len(s) + 1] = x
      /\ \A k \in 1 .. Len(s) : t[k] = s[k]
      /\ t # <<>>
  BY <1>1, AppendProperties
<1> HIDE DEF t
<1>3. IsList(t)
  BY <1>2, SequenceIsList
<1> QED
  BY <1>2, <1>3 DEF t

(* What OP_RETURN makes of the frames: the last is gone, the one before it *)
(* is x.                                                                   *)
WithoutLast(s, x) ==
  [k \in 1 .. Len(s) - 1 |-> IF k < Len(s) - 1 THEN s[k] ELSE x]

LEMMA ListReturned ==
  ASSUME NEW s, IsList(s), Len(s) > 1, NEW x
  PROVE  LET t == WithoutLast(s, x) IN
         /\ IsList(t) /\ Len(t) = Len(s) - 1
         /\ t # <<>> /\ t[Len(t)] = x
         /\ \A k \in 1 .. Len(t) - 1 : t[k] = s[k]
<1> DEFINE S == {s[k] : k \in 1 .. Len(s)} \cup {x}
           t == WithoutLast(s, x)
<1>1. Len(s) - 1 \in Nat
  BY DEF IsList
<1>2. t \in Seq(S) /\ Len(t) = Len(s) - 1
  BY <1>1 DEF WithoutLast
<1> QED
  BY <1>1, <1>2 DEF IsList, WithoutLast

(* The first m frames, of which the last goes on where it is.              *)
LEMMA FramesGoOn ==
  ASSUME NEW fs, FramesOK(fs), NEW m \in 1 .. Len(fs),
         NEW gs, IsList(gs), Len(gs) = m, \A k \in 1 .. m - 1 : gs[k] = fs[k],
         FrameOK(gs[m]), ArgumentsBelowTop(gs[m]),
         gs[m].base = fs[m].base, gs[m].nres = fs[m].nres, gs[m].target = fs[m].target
  PROVE  FramesOK(gs)
<1>1. gs # <<>> /\ Len(fs) \in Nat
  BY DEF FramesOK, IsList
<1>2. \A k \in 1 .. m : FrameOK(gs[k])
  BY DEF FramesOK
<1>3. ASSUME NEW k \in 1 .. m - 1
      PROVE  CalledFrom(gs[k], gs[k + 1])
  <2>1. CalledFrom(fs[k], fs[k + 1]) /\ gs[k] = fs[k]
    BY <1>1, <1>3 DEF FramesOK
  <2>2. /\ gs[k + 1].base = fs[k + 1].base /\ gs[k + 1].nres = fs[k + 1].nres
        /\ gs[k + 1].target = fs[k + 1].target
    <3>1. CASE k + 1 = m
      BY <3>1
    <3>2. CASE k + 1 \in 1 .. m - 1
      BY <3>2
    <3> QED
      BY <3>1, <3>2, <1>1, <1>3
  <2> QED
    BY <2>1, <2>2 DEF CalledFrom
<1> QED
  BY <1>1, <1>2, <1>3 DEF FramesOK

LEMMA FrameEntered ==
  ASSUME NEW fs, FramesOK(fs), NEW f, FrameOK(f), ArgumentsBelowTop(f),
         CalledFrom(fs[Len(fs)], f)
  PROVE  FramesOK(Append(fs, f))
<1> DEFINE gs == Append(fs, f)
<1>0. IsList(fs)
  BY DEF FramesOK
<1>1. /\ IsList(gs) /\ Len(gs) = Len(fs) + 1 /\ gs # <<>> /\ gs[Len(gs)] = f
      /\ \A k \in 1 .. Len(fs) : gs[k] = fs[k]
  BY <1>0, ListExtended
<1> HIDE DEF gs
<1>2. Len(fs) \in Nat
  BY DEF FramesOK, IsList
<1>3. \A k \in 1 .. Len(gs) : FrameOK(gs[k])
  BY <1>1, <1>2 DEF FramesOK
<1>4. \A k \in 1 .. Len(gs) - 1 : CalledFrom(gs[k], gs[k + 1])
  <2> SUFFICES ASSUME NEW k \in 1 .. Len(gs) - 1
               PROVE  CalledFrom(gs[k], gs[k + 1])
    OBVIOUS
  <2>1. CASE k = Len(fs)
    BY <2>1, <1>1, <1>2 DEF FramesOK
  <2>2. CASE k \in 1 .. Len(fs) - 1
    <3>1. gs[k] = fs[k] /\ gs[k + 1] = fs[k + 1]
      BY <2>2, <1>1, <1>2
    <3> QED
      BY <2>2, <3>1 DEF FramesOK
  <2> QED
    BY <2>1, <2>2, <1>1, <1>2
<1> QED
  BY <1>1, <1>2, <1>3, <1>4 DEF FramesOK, gs

(* What is known of the running frame and the instruction it stands at.    *)
LEMMA Running ==
  ASSUME StackInv, phase = "run", NEW i \in Code[Top.ip]
  PROVE  /\ DOMAIN stack = Slots /\ ClosuresHaveProtos(object) /\ FramesOK(frames)
         /\ Len(frames) \in Nat \ {0} /\ FrameOK(Top) /\ ArgumentsBelowTop(Top)
         /\ Top.base \in Nat \ {0} /\ Top.size \in Nat \ {0, 1} /\ Top.top \in Int
         /\ Top.proto \in DOMAIN Proto /\ Top.ip \in DOMAIN Code /\ Top.ip \in Nat
         /\ WellFormed(Code) /\ i.a \in Nat
         /\ i.op \in {"CALL", "RETURN", "LOADNIL"} => i.b \in Nat
         /\ i.op = "CALL" => i.c \in Nat
<1>1. /\ DOMAIN stack = Slots /\ ClosuresHaveProtos(object) /\ FramesOK(frames)
  BY DEF StackInv
<1>2. Len(frames) \in Nat \ {0} /\ FrameOK(Top) /\ ArgumentsBelowTop(Top)
  BY <1>1 DEF FramesOK, IsList, Top
<1>3. WellFormed(Code) /\ Top.proto \in DOMAIN Proto /\ Top.ip \in DOMAIN Code
  BY <1>2, ProgramAssumption DEF FrameOK, Code
<1>4. Top.base \in Nat \ {0} /\ Top.size \in Nat \ {0, 1} /\ Top.top \in Int
  BY <1>2, VMAssumption DEF FrameOK
<1> QED
  BY <1>1, <1>2, <1>3, <1>4 DEF WellFormed

(* The next instruction is one of those that may follow; none of them is a *)
(* call with arguments up to top unless this is the call that set it.      *)
LEMMA FramesMove ==
  ASSUME StackInv, phase = "run", NEW i \in Code[Top.ip], i.op # "CALL",
         NEW next \in Successors(Top.ip, i),
         frames' = [frames EXCEPT ![Len(frames)].ip = next]
  PROVE  FramesOK(frames')
<1> DEFINE f == [Top EXCEPT !.ip = next]
<1>1. frames' = WithLast(frames, f)
  BY DEF Top, WithLast
<1>2. /\ FramesOK(frames) /\ Len(frames) \in Nat \ {0} /\ FrameOK(Top)
      /\ WellFormed(Code) /\ Top.ip \in DOMAIN Code
  BY Running
<1>3. /\ f.base = Top.base /\ f.nres = Top.nres /\ f.target = Top.target
      /\ f.proto = Top.proto /\ f.size = Top.size /\ f.top = Top.top /\ f.ip = next
      /\ DOMAIN f = FrameFields
  BY <1>2 DEF FrameOK, FrameFields
<1>4. next \in DOMAIN Code
  BY <1>2 DEF WellFormed
<1>5. FrameOK(f)
  BY <1>2, <1>3, <1>4 DEF FrameOK, Code
<1>6. ArgumentsBelowTop(f)
  <2> SUFFICES ASSUME NEW j \in Code[next], j.op = "CALL", j.b = 0
               PROVE  FALSE
    BY <1>3 DEF ArgumentsBelowTop, Code
  <2> QED
    BY <1>2, <1>4 DEF WellFormed
<1> HIDE DEF f
<1>0. IsList(frames) /\ Len(frames) > 0
  BY <1>2 DEF FramesOK
<1> DEFINE gs == WithLast(frames, f)
<1>7. /\ IsList(gs) /\ Len(gs) = Len(frames) /\ gs[Len(gs)] = f
      /\ \A k \in 1 .. Len(gs) - 1 : gs[k] = frames[k]
  BY <1>0, ListChanged
<1>8. Len(frames) \in 1 .. Len(frames) /\ Top = frames[Len(frames)]
  BY <1>2 DEF Top
<1> HIDE DEF gs
<1>9. FramesOK(gs)
  BY <1>2, <1>3, <1>5, <1>6, <1>7, <1>8, FramesGoOn
<1> QED
  BY <1>1, <1>9 DEF gs

(* A frame after a call: the results of one with C = 0 end at or above the *)
(* register of the function, which lies above that of the call that takes  *)
(* them as its arguments.                                                  *)
LEMMA CallEnds ==
  ASSUME NEW f, FrameOK(f), NEW i \in Proto[f.proto].code[f.ip], i.op \in {"CALL", "ADD"},
         NEW g, DOMAIN g = FrameFields, g.proto = f.proto, g.base = f.base,
         g.size = f.size, g.ip = f.ip + 1, g.top \in Int,
         i.op = "CALL" /\ i.c = 0 => g.top >= g.base + i.a
  PROVE  FrameOK(g) /\ ArgumentsBelowTop(g)
<1> DEFINE code == Proto[f.proto].code
<1>1. WellFormed(code) /\ f.ip \in DOMAIN code /\ f.base \in Nat
  BY ProgramAssumption DEF FrameOK
<1>2. Successors(f.ip, i) = {f.ip + 1}
  BY DEF Successors
<1>3. g.ip \in DOMAIN code
  BY <1>1, <1>2 DEF WellFormed
<1>4. FrameOK(g)
  BY <1>1, <1>3 DEF FrameOK
<1>5. ASSUME NEW j \in code[g.ip], j.op = "CALL", j.b = 0
      PROVE  g.top >= g.base + j.a + 1
  <2>1. i.op = "CALL" /\ i.c = 0 /\ i.a > j.a
    BY <1>1, <1>2, <1>3, <1>5 DEF WellFormed
  <2>2. i.a \in Nat /\ j.a \in Nat
    BY <1>1, <1>3, <1>5 DEF WellFormed
  <2> QED
    BY <1>1, <2>1, <2>2
<1> QED
  BY <1>4, <1>5 DEF ArgumentsBelowTop

LEMMA NativeCallEnds ==
  ASSUME StackInv, phase = "run", NEW i \in Code[Top.ip], CallNative(i)
  PROVE  FramesOK(frames')
<1> DEFINE results == IF R(i.a) = LUA_NAT_TYPE THEN 1 ELSE 0
           top == IF i.c = 0 THEN Top.base + i.a + results ELSE Top.top
           f == [Top EXCEPT !.ip = @ + 1,
                            !.top = IF i.c = 0 THEN Top.base + i.a + results ELSE @]
           gs == WithLast(frames, f)
<1>1. frames' = gs /\ i.op = "CALL"
  BY DEF CallNative, WithLast
<1>2. /\ FramesOK(frames) /\ Len(frames) \in Nat \ {0} /\ FrameOK(Top)
      /\ i.a \in Nat /\ Top.base \in Nat /\ Top.top \in Int
  BY Running
<1>3. top \in Int /\ (i.c = 0 => top >= Top.base + i.a)
  BY <1>2
<1> HIDE DEF top
<1>4. /\ DOMAIN f = FrameFields /\ f.proto = Top.proto /\ f.base = Top.base
      /\ f.size = Top.size /\ f.ip = Top.ip + 1 /\ f.top = top
      /\ f.nres = Top.nres /\ f.target = Top.target
  BY <1>2 DEF FrameOK, FrameFields, top
<1> HIDE DEF f
<1>5. FrameOK(f) /\ ArgumentsBelowTop(f)
  BY <1>1, <1>2, <1>3, <1>4, CallEnds DEF Code
<1>0. IsList(frames) /\ Len(frames) > 0 /\ Len(frames) \in 1 .. Len(frames)
  BY <1>2 DEF FramesOK
<1>6. /\ IsList(gs) /\ Len(gs) = Len(frames) /\ gs[Len(gs)] = f
      /\ \A k \in 1 .. Len(gs) - 1 : gs[k] = frames[k]
  BY <1>0, ListChanged
<1> HIDE DEF gs
<1>7. Top = frames[Len(frames)]
  BY DEF Top
<1>8. FramesOK(gs)
  BY <1>0, <1>2, <1>4, <1>5, <1>6, <1>7, FramesGoOn
<1> QED
  BY <1>1, <1>8

(* A new activation: its registers start where the instruction says.       *)
LEMMA FramesEnter ==
  ASSUME StackInv, phase = "run", NEW i \in Code[Top.ip],
         NEW c \in Live, object[c].kind = "closure",
         NEW base \in Nat \ {0}, NEW npar \in Nat, NEW nres, NEW target,
         \/ /\ i.op = "CALL" /\ base = CalleeBase(i) /\ nres = i.c - 1 /\ target = NULL
         \/ /\ i.op = "ADD" /\ base = Top.base + Top.size /\ nres = 1
            /\ target = Top.base + i.a,
         frames' = Append(frames, Frame(c, base, base + npar, npar, nres, target))
  PROVE  FramesOK(frames')
<1> DEFINE f == Frame(c, base, base + npar, npar, nres, target)
<1>1. FramesOK(frames) /\ ClosuresHaveProtos(object)
  BY Running
<1>2. object[c].proto \in DOMAIN Proto
  BY <1>1 DEF ClosuresHaveProtos, HasProto, Live
<1>3. /\ DOMAIN f = FrameFields /\ f.proto = object[c].proto /\ f.base = base
      /\ f.size = Proto[f.proto].maxstack /\ f.ip = 1 /\ f.top = base + npar
      /\ f.nres = nres /\ f.target = target
  BY DEF Frame, FrameFields
<1> HIDE DEF f
<1>4. WellFormed(Proto[f.proto].code)
  BY <1>2, <1>3, ProgramAssumption
<1>5. FrameOK(f)
  BY <1>2, <1>3, <1>4 DEF FrameOK, WellFormed
<1>6. ArgumentsBelowTop(f)
  BY <1>3, <1>4 DEF ArgumentsBelowTop, WellFormed
<1>7. CalledFrom(frames[Len(frames)], f)
  BY <1>3 DEF CalledFrom, Code, Top, CalleeBase
<1>8. FramesOK(Append(frames, f))
  BY <1>1, <1>5, <1>6, <1>7, FrameEntered
<1> QED
  BY <1>8 DEF f

(* OP_RETURN: the caller goes on after the instruction that made the call. *)
LEMMA FramesReturn ==
  ASSUME StackInv, phase = "run", Len(frames) > 1, NEW n \in Nat,
         NEW stk, Deliver(frames[Len(frames) - 1], stk, Top.base - 2 + n)
  PROVE  FramesOK(frames')
<1> DEFINE m == Len(frames) - 1
           caller == frames[m]
           f == IF Top.target = NULL
                THEN [caller EXCEPT !.ip = @ + 1,
                                    !.top = IF Top.nres = -1 THEN Top.base - 2 + n + 1
                                            ELSE @]
                ELSE [caller EXCEPT !.ip = @ + 1]
           gs == WithoutLast(frames, f)
<1>1. FramesOK(frames) /\ IsList(frames) /\ Len(frames) \in Nat
  BY DEF StackInv, FramesOK, IsList
<1>2. m \in 1 .. Len(frames) - 1 /\ m \in 1 .. Len(frames) /\ m + 1 = Len(frames)
  BY <1>1
<1>3. frames' = gs
  BY DEF Deliver, WithoutLast
<1>4. FrameOK(caller) /\ FrameOK(Top)
  BY <1>1, <1>2 DEF FramesOK, Top
<1>5. CalledFrom(caller, Top)
  BY <1>1, <1>2 DEF FramesOK, Top
<1>6. /\ IsList(gs) /\ Len(gs) = m /\ gs[Len(gs)] = f
      /\ \A k \in 1 .. Len(gs) - 1 : gs[k] = frames[k]
  BY <1>1, ListReturned
<1> HIDE DEF gs, m, caller
<1>7. PICK i \in Proto[caller.proto].code[caller.ip] :
        \/ /\ i.op = "CALL" /\ Top.base = caller.base + i.a + 1
           /\ Top.nres = i.c - 1 /\ Top.target = NULL
        \/ /\ i.op = "ADD" /\ Top.target = caller.base + i.a
  BY <1>5 DEF CalledFrom
<1>8. i.a \in Nat /\ (i.op = "CALL" => i.c \in Nat)
  BY <1>4, ProgramAssumption DEF FrameOK, WellFormed
<1>9. caller.base \in Nat \ {0} /\ Top.base \in Nat /\ caller.top \in Int
  BY <1>4 DEF FrameOK
<1>10. /\ DOMAIN f = FrameFields /\ f.proto = caller.proto /\ f.base = caller.base
       /\ f.size = caller.size /\ f.ip = caller.ip + 1
       /\ f.nres = caller.nres /\ f.target = caller.target
  BY <1>4 DEF FrameOK, FrameFields
<1>11. f.top \in Int /\ (i.op = "CALL" /\ i.c = 0 => f.top >= f.base + i.a)
  <2>1. CASE i.op = "CALL" /\ i.c = 0
    <3>1. f.top = Top.base - 2 + n + 1
      BY <1>4, <1>7, <1>8, <2>1 DEF FrameOK, FrameFields
    <3>2. Top.base = caller.base + i.a + 1
      BY <1>7, <2>1
    <3> DEFINE t == f.top
               b == f.base
               a == i.a
    <3> HIDE DEF f
    <3>3. /\ b \in Nat /\ a \in Nat /\ Top.base = b + a + 1
          /\ t = Top.base - 2 + n + 1
      BY <1>8, <1>9, <1>10, <3>1, <3>2
    <3> HIDE DEF a, b, t
    <3>4. t \in Int /\ t >= b + a
      BY <3>3
    <3> QED
      BY <3>4 DEF a, b, t
  <2>2. CASE ~(i.op = "CALL" /\ i.c = 0)
    <3>1. f.top \in Int
      BY <1>4, <1>9 DEF FrameOK, FrameFields
    <3> QED
      BY <2>2, <3>1
  <2> QED
    BY <2>1, <2>2
<1> HIDE DEF f
<1>12. FrameOK(f) /\ ArgumentsBelowTop(f)
  BY <1>4, <1>7, <1>10, <1>11, CallEnds
<1>13. FramesOK(gs)
  BY <1>1, <1>2, <1>6, <1>10, <1>12, FramesGoOn DEF caller
<1> QED
  BY <1>3, <1>13

-----------------------------------------------------------------------------
(* The loops over upvalue descriptors and registers                        *)

LEMMA LeastNatural ==
  ASSUME NEW S, S \subseteq Nat, S # {}
  PROVE  \E n \in S : \A m \in S : n <= m
<1> DEFINE Less == OpToRel(<, Nat)
<1>1. IsWellFoundedOn(Less, Nat)
  BY NatLessThanWellFounded
<1>2. PICK n \in S : \A m \in S : ~(<<m, n>> \in Less)
  BY <1>1, WFMin
<1>3. \A m \in S : ~(m < n)
  BY <1>2 DEF OpToRel
<1> QED
  BY <1>3

LEMMA CountingUp ==
  ASSUME NEW N \in Nat, NEW S, 0 \in S, \A k \in 0 .. N - 1 : k \in S => k + 1 \in S
  PROVE  0 .. N \subseteq S
<1> DEFINE T == {k \in 0 .. N : k \notin S}
<1>1. SUFFICES ASSUME T # {}
               PROVE  FALSE
  OBVIOUS
<1>2. PICK k \in T : \A m \in T : k <= m
  <2>1. T \subseteq Nat
    OBVIOUS
  <2> HIDE DEF T
  <2> QED
    BY <1>1, <2>1, LeastNatural
<1>3. k # 0 /\ k - 1 \in 0 .. N - 1
  OBVIOUS
<1>4. k - 1 \in S
  BY <1>2, <1>3
<1> QED
  BY <1>3, <1>4

(* Capturing is the loop of OP_CLOSURE.                                    *)
LEMMA CapturingLoops ==
  ASSUME NEW f \in DOMAIN Proto
  PROVE  \E after :
           /\ after[0] = [object |-> With(object, FirstFree(object),
                                          [kind |-> "closure", proto |-> f,
                                           upvalues |-> <<>>]),
                          last |-> lastUpval, full |-> FALSE]
           /\ \A n \in 1 .. Len(Proto[f].upvalues) :
                after[n] = Capture(after[n - 1], FirstFree(object), Proto[f].upvalues[n])
           /\ Capturing(f) = after[Len(Proto[f].upvalues)]
<1> DEFINE N == Len(Proto[f].upvalues)
           first == [object |-> With(object, FirstFree(object),
                                     [kind |-> "closure", proto |-> f, upvalues |-> <<>>]),
                     last |-> lastUpval, full |-> FALSE]
           Loop(g, m) == g = [n \in 0 .. m |->
                                IF n = 0 THEN first
                                ELSE Capture(g[n - 1], FirstFree(object), Proto[f].upvalues[n])]
           S == {m \in 0 .. N : \E g : Loop(g, m)}
           after == CHOOSE g : Loop(g, N)
<1>1. Capturing(f) = after[N]
  BY DEF Capturing
<1>2. N \in Nat
  BY VMAssumption
<1> HIDE DEF N, first
<1>3. 0 \in S
  <2> DEFINE g == [n \in 0 .. 0 |-> first]
  <2>1. Loop(g, 0)
    OBVIOUS
  <2> HIDE DEF Loop, g
  <2> QED
    BY <1>2, <2>1
<1>4. ASSUME NEW k \in 0 .. N - 1, k \in S
      PROVE  k + 1 \in S
  <2>1. PICK g : Loop(g, k)
    BY <1>4
  <2> DEFINE h == [n \in 0 .. k + 1 |->
                     IF n <= k THEN g[n]
                     ELSE Capture(g[k], FirstFree(object), Proto[f].upvalues[k + 1])]
  <2>2. \A n \in 0 .. k + 1 :
          h[n] = IF n = 0 THEN first
                 ELSE Capture(h[n - 1], FirstFree(object), Proto[f].upvalues[n])
    BY <1>2, <2>1
  <2>3. Loop(h, k + 1)
    BY <2>2
  <2> HIDE DEF Loop, h
  <2> QED
    BY <1>2, <2>3
<1>5. N \in S
  <2> HIDE DEF S
  <2>1. 0 .. N \subseteq S
    BY <1>2, <1>3, <1>4, CountingUp
  <2> QED
    BY <1>2, <2>1
<1>6. Loop(after, N)
  <2> HIDE DEF Loop
  <2> QED
    BY <1>5
<1>7. /\ after[0] = first
      /\ \A n \in 1 .. N : after[n] = Capture(after[n - 1], FirstFree(object),
                                              Proto[f].upvalues[n])
  <2> HIDE DEF after
  <2> QED
    BY <1>2, <1>6
<1> HIDE DEF after
<1> QED
  BY <1>1, <1>7 DEF N, first

(* CloseCaptured is the inner loop of closeUpvals, CloseUpvals the outer.  *)
LEMMA CloseCapturedLoops ==
  ASSUME NEW st, NEW c, object[c].proto \in DOMAIN Proto
  PROVE  \E after :
           LET descs == Proto[object[c].proto].upvalues
           IN /\ after[0] = st
              /\ \A n \in 1 .. Len(descs) :
                   after[n] = IF descs[n].instack
                              THEN Close(after[n - 1], object[c].upvalues[n])
                              ELSE after[n - 1]
              /\ CloseCaptured(st, c) = after[Len(descs)]
<1> DEFINE descs == Proto[object[c].proto].upvalues
           N == Len(descs)
           Step(before, n) == IF descs[n].instack THEN Close(before, object[c].upvalues[n])
                              ELSE before
           Loop(g, m) == g = [n \in 0 .. m |-> IF n = 0 THEN st ELSE Step(g[n - 1], n)]
           S == {m \in 0 .. N : \E g : Loop(g, m)}
           after == CHOOSE g : Loop(g, N)
<1>1. CloseCaptured(st, c) = after[N]
  BY DEF CloseCaptured
<1>2. N \in Nat
  BY VMAssumption
<1> HIDE DEF N, Step
<1>3. 0 \in S
  <2> DEFINE g == [n \in 0 .. 0 |-> st]
  <2>1. Loop(g, 0)
    OBVIOUS
  <2> HIDE DEF Loop, g
  <2> QED
    BY <1>2, <2>1
<1>4. ASSUME NEW k \in 0 .. N - 1, k \in S
      PROVE  k + 1 \in S
  <2>1. PICK g : Loop(g, k)
    BY <1>4
  <2> DEFINE h == [n \in 0 .. k + 1 |-> IF n <= k THEN g[n] ELSE Step(g[k], k + 1)]
  <2>2. \A n \in 0 .. k + 1 : h[n] = IF n = 0 THEN st ELSE Step(h[n - 1], n)
    BY <1>2, <2>1
  <2>3. Loop(h, k + 1)
    BY <2>2
  <2> HIDE DEF Loop, h
  <2> QED
    BY <1>2, <2>3
<1>5. N \in S
  <2> HIDE DEF S
  <2>1. 0 .. N \subseteq S
    BY <1>2, <1>3, <1>4, CountingUp
  <2> QED
    BY <1>2, <2>1
<1>6. Loop(after, N)
  <2> HIDE DEF Loop
  <2> QED
    BY <1>5
<1>7. after[0] = st /\ \A n \in 1 .. N : after[n] = Step(after[n - 1], n)
  <2> HIDE DEF after
  <2> QED
    BY <1>2, <1>6
<1> HIDE DEF after
<1> QED
  BY <1>1, <1>7 DEF N, Step

Registers(Rst) == IF Rst < CloseEnd THEN CloseEnd - Rst ELSE 0

LEMMA CloseUpvalsLoops ==
  ASSUME NEW Rst \in Int, CloseEnd \in Int
  PROVE  /\ Registers(Rst) \in Nat
         /\ \E after :
              /\ after[0] = [object |-> object, last |-> lastUpval, gray |-> gray]
              /\ \A n \in 1 .. Registers(Rst) :
                   after[n] = IF IsClosure(stack[Rst + n - 1])
                              THEN CloseCaptured(after[n - 1], stack[Rst + n - 1])
                              ELSE after[n - 1]
              /\ CloseUpvals(Rst) = after[Registers(Rst)]
<1> DEFINE N == Registers(Rst)
           first == [object |-> object, last |-> lastUpval, gray |-> gray]
           Step(before, n) == IF IsClosure(stack[Rst + n - 1])
                              THEN CloseCaptured(before, stack[Rst + n - 1])
                              ELSE before
           Loop(g, m) == g = [n \in 0 .. m |-> IF n = 0 THEN first ELSE Step(g[n - 1], n)]
           S == {m \in 0 .. N : \E g : Loop(g, m)}
           after == CHOOSE g : Loop(g, N)
<1>1. CloseUpvals(Rst) = after[N]
  BY DEF CloseUpvals, Registers
<1>2. N \in Nat
  BY DEF Registers
<1> HIDE DEF N, Step, first
<1>3. 0 \in S
  <2> DEFINE g == [n \in 0 .. 0 |-> first]
  <2>1. Loop(g, 0)
    OBVIOUS
  <2> HIDE DEF Loop, g
  <2> QED
    BY <1>2, <2>1
<1>4. ASSUME NEW k \in 0 .. N - 1, k \in S
      PROVE  k + 1 \in S
  <2>1. PICK g : Loop(g, k)
    BY <1>4
  <2> DEFINE h == [n \in 0 .. k + 1 |-> IF n <= k THEN g[n] ELSE Step(g[k], k + 1)]
  <2>2. \A n \in 0 .. k + 1 : h[n] = IF n = 0 THEN first ELSE Step(h[n - 1], n)
    BY <1>2, <2>1
  <2>3. Loop(h, k + 1)
    BY <2>2
  <2> HIDE DEF Loop, h
  <2> QED
    BY <1>2, <2>3
<1>5. N \in S
  <2> HIDE DEF S
  <2>1. 0 .. N \subseteq S
    BY <1>2, <1>3, <1>4, CountingUp
  <2> QED
    BY <1>2, <2>1
<1>6. Loop(after, N)
  <2> HIDE DEF Loop
  <2> QED
    BY <1>5
<1>7. after[0] = first /\ \A n \in 1 .. N : after[n] = Step(after[n - 1], n)
  <2> HIDE DEF after
  <2> QED
    BY <1>2, <1>6
<1> HIDE DEF after
<1> QED
  BY <1>1, <1>2, <1>7 DEF N, Step, first

-----------------------------------------------------------------------------
(* Closures keep their prototypes *)

LEMMA FieldUpdated ==
  ASSUME NEW o, HasProto(o), NEW v
  PROVE  /\ HasProto([o EXCEPT !.next = v]) /\ HasProto([o EXCEPT !.prev = v])
         /\ HasProto([o EXCEPT !.value = v]) /\ HasProto([o EXCEPT !.voPointer = v])
         /\ HasProto([o EXCEPT !.upvalues = v]) /\ HasProto([o EXCEPT !.field = v])
         /\ HasProto([o EXCEPT !.metatable = v]) /\ HasProto([o EXCEPT !.unfound = v])
  BY DEF HasProto

LEMMA ObjectReplaced ==
  ASSUME NEW objects, ClosuresHaveProtos(objects), NEW a, NEW o, HasProto(o)
  PROVE  /\ ClosuresHaveProtos(With(objects, a, o))
         /\ ClosuresHaveProtos([objects EXCEPT ![a] = o])
  BY DEF ClosuresHaveProtos, With

(* The updates of one field of an object.                                  *)
LEMMA ObjectUpdated ==
  ASSUME NEW objects, ClosuresHaveProtos(objects), NEW a, NEW v
  PROVE  /\ ClosuresHaveProtos([objects EXCEPT ![a].next = v])
         /\ ClosuresHaveProtos([objects EXCEPT ![a].prev = v])
         /\ ClosuresHaveProtos([objects EXCEPT ![a].value = v])
         /\ ClosuresHaveProtos([objects EXCEPT ![a].voPointer = v])
         /\ ClosuresHaveProtos([objects EXCEPT ![a].upvalues = v])
         /\ ClosuresHaveProtos([objects EXCEPT ![a].field = v])
         /\ ClosuresHaveProtos([objects EXCEPT ![a].unfound = v])
         /\ ClosuresHaveProtos([objects EXCEPT ![a].metatable = v])
  BY FieldUpdated DEF ClosuresHaveProtos

LEMMA CaptureKeeps ==
  ASSUME NEW st, DOMAIN st = {"object", "last", "full"}, ClosuresHaveProtos(st.object),
         NEW c, NEW desc
  PROVE  /\ DOMAIN Capture(st, c, desc) = {"object", "last", "full"}
         /\ ClosuresHaveProtos(Capture(st, c, desc).object)
<1> DEFINE s     == Top.base + desc.idx
           u     == FirstFree(st.object)
           new   == NewUpval(s, st.last, [frame |-> Top.id, idx |-> desc.idx])
           made  == With(st.object, u, new)
           linked == IF st.last = NULL THEN made ELSE [made EXCEPT ![st.last].prev = u]
           Push(objects, upv) == [objects EXCEPT ![c].upvalues = Append(@, upv)]
<1>1. \A objects, upv : ClosuresHaveProtos(objects) => ClosuresHaveProtos(Push(objects, upv))
  BY ObjectUpdated
<1>2. HasProto(new)
  BY DEF HasProto, NewUpval
<1> HIDE DEF new
<1>3. ClosuresHaveProtos(made)
  BY <1>2, ObjectReplaced
<1> HIDE DEF made
<1>4. ClosuresHaveProtos(linked)
  BY <1>3, ObjectUpdated
<1> HIDE DEF linked, Push
<1>0. DOMAIN Capture(st, c, desc) = {"object", "last", "full"}
  BY DEF Capture
<1>5. \/ Capture(st, c, desc).object = Push(st.object, Upvalue(desc.idx))
      \/ Capture(st, c, desc).object = Push(st.object, FindUpval(st.object, st.last, s))
      \/ Capture(st, c, desc).object = Push(linked, u)
      \/ Capture(st, c, desc).object = st.object
  BY DEF Capture, Push, linked, made, new
<1> QED
  BY <1>0, <1>1, <1>4, <1>5

LEMMA CapturingKeeps ==
  ASSUME ClosuresHaveProtos(object), NEW f \in DOMAIN Proto
  PROVE  ClosuresHaveProtos(Capturing(f).object)
<1> DEFINE N == Len(Proto[f].upvalues)
           c == FirstFree(object)
           Good(st) == /\ DOMAIN st = {"object", "last", "full"}
                       /\ ClosuresHaveProtos(st.object)
<1>1. PICK after :
        /\ after[0] = [object |-> With(object, c, [kind |-> "closure", proto |-> f,
                                                   upvalues |-> <<>>]),
                       last |-> lastUpval, full |-> FALSE]
        /\ \A n \in 1 .. N : after[n] = Capture(after[n - 1], c, Proto[f].upvalues[n])
        /\ Capturing(f) = after[N]
  BY CapturingLoops
<1> HIDE DEF c
<1>2. N \in Nat
  BY VMAssumption
<1>3. Good(after[0])
  <2>1. HasProto([kind |-> "closure", proto |-> f, upvalues |-> <<>>])
    BY DEF HasProto
  <2> DEFINE first == With(object, c, [kind |-> "closure", proto |-> f, upvalues |-> <<>>])
  <2>2. ClosuresHaveProtos(first)
    BY <2>1, ObjectReplaced
  <2>3. after[0] = [object |-> first, last |-> lastUpval, full |-> FALSE]
    BY <1>1
  <2> HIDE DEF first
  <2> QED
    BY <2>2, <2>3
<1>4. \A n \in 0 .. N - 1 : Good(after[n]) => Good(after[n + 1])
  <2> SUFFICES ASSUME NEW n \in 0 .. N - 1, Good(after[n])
               PROVE  Good(after[n + 1])
    OBVIOUS
  <2>1. after[n + 1] = Capture(after[n], c, Proto[f].upvalues[n + 1])
    BY <1>1, <1>2
  <2> QED
    BY <2>1, CaptureKeeps
<1> DEFINE S == {n \in 0 .. N : Good(after[n])}
<1>5. 0 \in S /\ \A n \in 0 .. N - 1 : n \in S => n + 1 \in S
  <2> HIDE DEF Good
  <2> QED
    BY <1>2, <1>3, <1>4
<1>6. 0 .. N \subseteq S
  <2> HIDE DEF S, N
  <2> QED
    BY <1>2, <1>5, CountingUp
<1>7. Good(after[N])
  <2> HIDE DEF Good, N
  <2> QED
    BY <1>2, <1>6
<1> QED
  BY <1>1, <1>7

Closing == {"object", "last", "gray"}

LEMMA CloseKeeps ==
  ASSUME NEW st, DOMAIN st = Closing, ClosuresHaveProtos(st.object), NEW u
  PROVE  DOMAIN Close(st, u) = Closing /\ ClosuresHaveProtos(Close(st, u).object)
<1>1. ClosuresHaveProtos(Unlinked(st.object, u))
  BY FieldUpdated DEF ClosuresHaveProtos, Unlinked
<1> DEFINE rest == Unlinked(st.object, u)
           value == stack[st.object[u].voPointer]
           changed == [rest EXCEPT ![u].value = value, ![u].voPointer = NULL]
<1>2. ClosuresHaveProtos(changed)
  <2>1. ClosuresHaveProtos([rest EXCEPT ![u].value = value])
    BY <1>1, ObjectUpdated
  <2>2. changed = [[rest EXCEPT ![u].value = value] EXCEPT ![u].voPointer = NULL]
    OBVIOUS
  <2> QED
    BY <2>1, <2>2, ObjectUpdated
<1> HIDE DEF rest
<1>3. Close(st, u).object \in {st.object, changed}
  BY DEF Close, Closing, rest
<1>4. DOMAIN Close(st, u) = Closing
  BY DEF Close, Closing
<1> QED
  BY <1>2, <1>3, <1>4

LEMMA CloseCapturedKeeps ==
  ASSUME NEW st, DOMAIN st = Closing, ClosuresHaveProtos(st.object),
         NEW c, object[c].proto \in DOMAIN Proto
  PROVE  /\ DOMAIN CloseCaptured(st, c) = Closing
         /\ ClosuresHaveProtos(CloseCaptured(st, c).object)
<1> DEFINE descs == Proto[object[c].proto].upvalues
           N == Len(descs)
           Good(s) == DOMAIN s = Closing /\ ClosuresHaveProtos(s.object)
<1>1. PICK after :
        /\ after[0] = st
        /\ \A n \in 1 .. N : after[n] = IF descs[n].instack
                                        THEN Close(after[n - 1], object[c].upvalues[n])
                                        ELSE after[n - 1]
        /\ CloseCaptured(st, c) = after[N]
  BY CloseCapturedLoops
<1>2. N \in Nat
  BY VMAssumption
<1> HIDE DEF N, descs
<1>3. Good(after[0])
  BY <1>1
<1>4. \A n \in 0 .. N - 1 : Good(after[n]) => Good(after[n + 1])
  <2> SUFFICES ASSUME NEW n \in 0 .. N - 1, Good(after[n])
               PROVE  Good(after[n + 1])
    OBVIOUS
  <2>1. after[n + 1] = IF descs[n + 1].instack
                       THEN Close(after[n], object[c].upvalues[n + 1])
                       ELSE after[n]
    BY <1>1, <1>2
  <2> QED
    BY <2>1, CloseKeeps
<1> DEFINE S == {n \in 0 .. N : Good(after[n])}
<1>5. 0 \in S /\ \A n \in 0 .. N - 1 : n \in S => n + 1 \in S
  <2> HIDE DEF Good
  <2> QED
    BY <1>2, <1>3, <1>4
<1>6. 0 .. N \subseteq S
  <2> HIDE DEF S
  <2> QED
    BY <1>2, <1>5, CountingUp
<1>7. Good(after[N])
  <2> HIDE DEF Good
  <2> QED
    BY <1>2, <1>6
<1> QED
  BY <1>1, <1>7

LEMMA CloseUpvalsKeeps ==
  ASSUME ClosuresHaveProtos(object), NEW Rst \in Int, CloseEnd \in Int
  PROVE  ClosuresHaveProtos(CloseUpvals(Rst).object)
<1> DEFINE N == Registers(Rst)
           Good(s) == DOMAIN s = Closing /\ ClosuresHaveProtos(s.object)
<1>1. PICK after :
        /\ after[0] = [object |-> object, last |-> lastUpval, gray |-> gray]
        /\ \A n \in 1 .. N : after[n] = IF IsClosure(stack[Rst + n - 1])
                                        THEN CloseCaptured(after[n - 1], stack[Rst + n - 1])
                                        ELSE after[n - 1]
        /\ CloseUpvals(Rst) = after[N]
  BY CloseUpvalsLoops
<1>2. N \in Nat
  BY CloseUpvalsLoops
<1> HIDE DEF N
<1>3. Good(after[0])
  BY <1>1 DEF Closing
<1>4. \A n \in 0 .. N - 1 : Good(after[n]) => Good(after[n + 1])
  <2> SUFFICES ASSUME NEW n \in 0 .. N - 1, Good(after[n])
               PROVE  Good(after[n + 1])
    OBVIOUS
  <2> DEFINE c == stack[Rst + (n + 1) - 1]
  <2>1. after[n + 1] = IF IsClosure(c) THEN CloseCaptured(after[n], c) ELSE after[n]
    BY <1>1, <1>2
  <2>2. IsClosure(c) => object[c].proto \in DOMAIN Proto
    BY DEF IsClosure, Is, Live, ClosuresHaveProtos, HasProto
  <2> HIDE DEF c
  <2> QED
    BY <2>1, <2>2, CloseCapturedKeeps
<1> DEFINE S == {n \in 0 .. N : Good(after[n])}
<1>5. 0 \in S /\ \A n \in 0 .. N - 1 : n \in S => n + 1 \in S
  <2> HIDE DEF Good
  <2> QED
    BY <1>2, <1>3, <1>4
<1>6. 0 .. N \subseteq S
  <2> HIDE DEF S
  <2> QED
    BY <1>2, <1>5, CountingUp
<1>7. Good(after[N])
  <2> HIDE DEF Good
  <2> QED
    BY <1>2, <1>6
<1> QED
  BY <1>1, <1>7

-----------------------------------------------------------------------------
(* The instructions                                                        *)

(* What the property says of a step, and what holds of all instructions    *)
(* but OP_RETURN: nothing below the frame is written.                      *)
Undisturbed ==
  \A s \in Slots :
    \/ s < Top.base - 1 /\ s # Top.target
    \/ Len(frames) > 1 /\ s < frames[Len(frames) - 1].base
    => stack'[s] = stack[s]

KeepsBelow ==
  /\ DOMAIN stack' = Slots
  /\ \A s \in Slots : s < Top.base => stack'[s] = stack[s]

(* The caller's registers start below the callee's.                        *)
LEMMA CallerBelow ==
  ASSUME StackInv, phase = "run", frames # <<>>, Len(frames) > 1
  PROVE  LET caller == frames[Len(frames) - 1]
         IN /\ FrameOK(caller) /\ FrameOK(Top)
            /\ caller.base \in Nat \ {0} /\ Top.base \in Nat
            /\ caller.base <= Top.base - 1
            /\ Top.target = NULL \/ (Top.target >= caller.base /\ Top.target \in Nat)
<1> DEFINE caller == frames[Len(frames) - 1]
<1>1. FramesOK(frames) /\ Len(frames) \in Nat
  BY DEF StackInv, FramesOK, IsList
<1>2. FrameOK(caller) /\ FrameOK(Top) /\ CalledFrom(caller, Top)
  BY <1>1 DEF FramesOK, Top
<1> HIDE DEF caller
<1>3. PICK i \in Proto[caller.proto].code[caller.ip] :
        \/ i.op = "CALL" /\ Top.base = caller.base + i.a + 1 /\ Top.target = NULL
        \/ i.op = "ADD" /\ Top.base = caller.base + caller.size
           /\ Top.target = caller.base + i.a
  BY <1>2 DEF CalledFrom
<1>4. /\ caller.base \in Nat \ {0} /\ caller.size \in Nat \ {0, 1} /\ Top.base \in Nat
      /\ caller.ip \in DOMAIN Proto[caller.proto].code /\ caller.proto \in DOMAIN Proto
  BY <1>2, VMAssumption DEF FrameOK
<1>5. i.a \in Nat
  BY <1>4, ProgramAssumption DEF WellFormed
<1>6. /\ caller.base <= Top.base - 1
      /\ Top.target = NULL \/ (Top.target >= caller.base /\ Top.target \in Nat)
  <2> DEFINE b == caller.base
             a == i.a
  <2>1. b \in Nat \ {0} /\ a \in Nat /\ caller.size \in Nat \ {0, 1}
    BY <1>4, <1>5
  <2>2. CASE Top.base = b + a + 1 /\ Top.target = NULL
    <3> HIDE DEF a, b
    <3>1. b <= Top.base - 1
      BY <2>1, <2>2
    <3> QED
      BY <2>2, <3>1 DEF b
  <2>3. CASE Top.base = b + caller.size /\ Top.target = b + a
    <3> HIDE DEF a, b
    <3>1. b <= Top.base - 1 /\ Top.target >= b /\ Top.target \in Nat
      BY <2>1, <2>3
    <3> QED
      BY <3>1 DEF b
  <2> QED
    BY <1>3, <2>2, <2>3
<1> QED
  BY <1>2, <1>4, <1>6 DEF caller

LEMMA KeepsBelowIsEnough ==
  ASSUME StackInv, phase = "run", NEW i \in Code[Top.ip], KeepsBelow
  PROVE  Undisturbed
<1>1. Top.base \in Nat /\ Len(frames) \in Nat \ {0} /\ FramesOK(frames)
  BY Running
<1> SUFFICES ASSUME NEW s \in Slots,
                    \/ s < Top.base - 1 /\ s # Top.target
                    \/ Len(frames) > 1 /\ s < frames[Len(frames) - 1].base
             PROVE  stack'[s] = stack[s]
  BY DEF Undisturbed
<1>2. s < Top.base
  <2>1. CASE s < Top.base - 1
    BY <2>1, <1>1 DEF Slots
  <2>2. CASE Len(frames) > 1 /\ s < frames[Len(frames) - 1].base
    BY <2>2, <1>1, CallerBelow DEF Slots, FramesOK
  <2> QED
    BY <2>1, <2>2
<1> QED
  BY <1>2 DEF KeepsBelow

LEMMA RegisterSet ==
  ASSUME StackInv, phase = "run", NEW i \in Code[Top.ip], NEW v, SetR(i.a, v)
  PROVE  KeepsBelow
<1>1. DOMAIN stack = Slots /\ i.a \in Nat /\ Top.base \in Nat
  BY Running
<1> QED
  BY <1>1 DEF SetR, KeepsBelow, Slots

LEMMA StackUnchanged ==
  ASSUME StackInv, phase = "run", NEW i \in Code[Top.ip], UNCHANGED stack
  PROVE  KeepsBelow
  BY Running DEF KeepsBelow

Kept == StackInv' /\ Undisturbed

(* For an instruction that goes on within its function.                    *)
LEMMA GoesOn ==
  ASSUME StackInv, phase = "run", NEW i \in Code[Top.ip], i.op # "CALL",
         NEW n, Top.ip + 1 + n \in Successors(Top.ip, i),
         frames' = [frames EXCEPT ![Len(frames)].ip = @ + 1 + n],
         KeepsBelow, ClosuresHaveProtos(object')
  PROVE  Kept
<1>1. frames' = [frames EXCEPT ![Len(frames)].ip = Top.ip + 1 + n]
  BY DEF Top
<1>2. FramesOK(frames')
  BY <1>1, FramesMove
<1> QED
  BY <1>2, KeepsBelowIsEnough DEF Kept, KeepsBelow, StackInv

LEMMA LoadKeeps ==
  ASSUME StackInv, phase = "run", NEW i \in Code[Top.ip], Load(i)
  PROVE  Kept
<1>1. Top.base \in Nat /\ DOMAIN stack = Slots /\ ClosuresHaveProtos(object) /\ i.a \in Nat
  BY Running
<1>2. Top.ip + 1 + 0 \in Successors(Top.ip, i) /\ i.op # "CALL"
  BY Running DEF Load, Successors
<1>3. KeepsBelow
  <2>1. CASE i.op = "LOADK"
    BY <2>1, RegisterSet DEF Load
  <2>2. CASE i.op = "MOVE"
    BY <2>2, RegisterSet DEF Load
  <2>3. CASE i.op = "GETUPVAL"
    BY <2>3, RegisterSet DEF Load
  <2>4. CASE i.op = "LOADNIL"
    BY <2>4, <1>1 DEF Load, KeepsBelow, Slots
  <2> QED
    BY <2>1, <2>2, <2>3, <2>4 DEF Load
<1>4. object' = object /\ frames' = [frames EXCEPT ![Len(frames)].ip = @ + 1 + 0]
  BY DEF Load, Continue
<1> QED
  BY <1>1, <1>2, <1>3, <1>4, GoesOn

LEMMA LoadBoolKeeps ==
  ASSUME StackInv, phase = "run", NEW i \in Code[Top.ip], LoadBool(i)
  PROVE  Kept
<1>1. ClosuresHaveProtos(object)
  BY Running
<1>2. Top.ip + 1 + i.c \in Successors(Top.ip, i) /\ i.op # "CALL"
  BY DEF LoadBool, Successors
<1>3. KeepsBelow
  BY RegisterSet DEF LoadBool
<1>4. object' = object /\ frames' = [frames EXCEPT ![Len(frames)].ip = @ + 1 + i.c]
  BY DEF LoadBool, Continue
<1> QED
  BY <1>1, <1>2, <1>3, <1>4, GoesOn

LEMMA SetUpvalKeeps ==
  ASSUME StackInv, phase = "run", NEW i \in Code[Top.ip], SetUpval(i)
  PROVE  Kept
<1>1. ClosuresHaveProtos(object')
  BY Running, ObjectUpdated DEF SetUpval
<1>2. Top.ip + 1 + 0 \in Successors(Top.ip, i) /\ i.op # "CALL"
  BY Running DEF SetUpval, Successors
<1>3. KeepsBelow
  BY StackUnchanged DEF SetUpval
<1>4. frames' = [frames EXCEPT ![Len(frames)].ip = @ + 1 + 0]
  BY DEF SetUpval, Continue
<1> QED
  BY <1>1, <1>2, <1>3, <1>4, GoesOn

LEMMA GetKeeps ==
  ASSUME StackInv, phase = "run", NEW i \in Code[Top.ip], Get(i)
  PROVE  Kept
<1>1. Top.base \in Nat /\ DOMAIN stack = Slots /\ ClosuresHaveProtos(object) /\ i.a \in Nat
  BY Running
<1>2. Top.ip + 1 + 0 \in Successors(Top.ip, i) /\ i.op # "CALL"
  BY Running DEF Get, Successors
<1>3. KeepsBelow
  <2>1. CASE i.op \in {"GETTABUP", "GETTABLE"}
    BY <2>1, RegisterSet DEF Get
  <2>2. CASE i.op = "SELF"
    BY <2>2, <1>1 DEF Get, KeepsBelow, Slots
  <2> QED
    BY <2>1, <2>2 DEF Get
<1>4. object' = object /\ frames' = [frames EXCEPT ![Len(frames)].ip = @ + 1 + 0]
  BY DEF Get, Continue
<1> QED
  BY <1>1, <1>2, <1>3, <1>4, GoesOn

LEMMA SetKeeps ==
  ASSUME StackInv, phase = "run", NEW i \in Code[Top.ip], Set(i)
  PROVE  Kept
<1>1. ClosuresHaveProtos(object')
  <2>1. \E t, k, v : SetField(t, k, v)
    BY DEF Set
  <2>2. PICK t, k, v : \/ object' = [object EXCEPT ![t].field = With(@, k, v)]
                       \/ object' = [object EXCEPT ![t].unfound = @ \cup {v}]
    BY <2>1 DEF SetField
  <2>3. ClosuresHaveProtos(object)
    BY Running
  <2>4. /\ ClosuresHaveProtos([object EXCEPT ![t].field = With(object[t].field, k, v)])
        /\ ClosuresHaveProtos([object EXCEPT ![t].unfound = object[t].unfound \cup {v}])
    BY <2>3, ObjectUpdated
  <2> QED
    BY <2>2, <2>4
<1>2. Top.ip + 1 + 0 \in Successors(Top.ip, i) /\ i.op # "CALL"
  BY Running DEF Set, Successors
<1>3. KeepsBelow
  BY StackUnchanged DEF Set
<1>4. frames' = [frames EXCEPT ![Len(frames)].ip = @ + 1 + 0]
  BY DEF Set, Continue
<1> QED
  BY <1>1, <1>2, <1>3, <1>4, GoesOn

LEMMA MakeKeeps ==
  ASSUME StackInv, phase = "run", NEW i \in Code[Top.ip], Make(i)
  PROVE  Kept
<1>1. ClosuresHaveProtos(object')
  <2>1. HasProto(NewTable) /\ HasProto(NewString)
    BY DEF HasProto, NewTable, NewString
  <2>2. ClosuresHaveProtos(object)
    BY Running
  <2>3. /\ ClosuresHaveProtos(With(object, FirstFree(object), NewTable))
        /\ ClosuresHaveProtos(With(object, FirstFree(object), NewString))
    BY <2>1, <2>2, ObjectReplaced
  <2> QED
    BY <2>3 DEF Make
<1>2. Top.ip + 1 + 0 \in Successors(Top.ip, i) /\ i.op # "CALL"
  BY Running DEF Make, Successors
<1>3. KeepsBelow
  BY RegisterSet DEF Make
<1>4. frames' = [frames EXCEPT ![Len(frames)].ip = @ + 1 + 0]
  BY DEF Make, Continue
<1> QED
  BY <1>1, <1>2, <1>3, <1>4, GoesOn

LEMMA CompareKeeps ==
  ASSUME StackInv, phase = "run", NEW i \in Code[Top.ip], Compare(i)
  PROVE  Kept
<1>1. ClosuresHaveProtos(object) /\ Top.ip \in Nat
  BY Running
<1>2. PICK n \in {0, 1} : Continue(n)
  BY DEF Compare
<1>3. Top.ip + 1 + n \in Successors(Top.ip, i) /\ i.op # "CALL"
  BY <1>1 DEF Compare, Successors
<1>4. KeepsBelow
  BY StackUnchanged DEF Compare
<1>5. object' = object /\ frames' = [frames EXCEPT ![Len(frames)].ip = @ + 1 + n]
  BY <1>2 DEF Compare, Continue
<1> QED
  BY <1>1, <1>3, <1>4, <1>5, GoesOn

LEMMA MakeClosureKeeps ==
  ASSUME StackInv, phase = "run", NEW i \in Code[Top.ip], MakeClosure(i)
  PROVE  Kept
<1>1. ClosuresHaveProtos(object')
  <2>1. WellFormed(Code) /\ Top.ip \in DOMAIN Code /\ ClosuresHaveProtos(object)
    BY Running
  <2>2. i.b \in DOMAIN Proto /\ object' = Capturing(i.b).object
    BY <2>1 DEF MakeClosure, WellFormed
  <2> QED
    BY <2>1, <2>2, CapturingKeeps
<1>2. Top.ip + 1 + 0 \in Successors(Top.ip, i) /\ i.op # "CALL"
  BY Running DEF MakeClosure, Successors
<1>3. KeepsBelow
  BY RegisterSet DEF MakeClosure
<1>4. frames' = [frames EXCEPT ![Len(frames)].ip = @ + 1 + 0]
  BY DEF MakeClosure, Continue
<1> QED
  BY <1>1, <1>2, <1>3, <1>4, GoesOn

LEMMA JumpKeeps ==
  ASSUME StackInv, phase = "run", NEW i \in Code[Top.ip], Jump(i)
  PROVE  Kept
<1>1. /\ ClosuresHaveProtos(object) /\ Top.base \in Nat /\ Top.size \in Nat /\ i.a \in Nat
  BY Running
<1>2. ClosuresHaveProtos(object')
  <2>1. CloseEnd \in Int /\ JumpStart(i) \in Int
    BY <1>1 DEF CloseEnd, JumpStart
  <2> QED
    BY <1>1, <2>1, CloseUpvalsKeeps DEF Jump, Closed
<1>3. Top.ip + 1 + i.b \in Successors(Top.ip, i) /\ i.op # "CALL"
  BY DEF Jump, Successors
<1>4. KeepsBelow
  BY StackUnchanged DEF Jump
<1>5. frames' = [frames EXCEPT ![Len(frames)].ip = @ + 1 + i.b]
  BY DEF Jump
<1> QED
  BY <1>2, <1>3, <1>4, <1>5, GoesOn

(* The machine stops without a step, or goes on without a stack written.   *)
LEMMA StopKeeps ==
  ASSUME StackInv, phase = "run", NEW i \in Code[Top.ip], phase' # "run", UNCHANGED stack
  PROVE  Kept
  BY StackUnchanged, KeepsBelowIsEnough DEF Kept, StackInv

LEMMA EnterKeeps ==
  ASSUME StackInv, phase = "run", NEW i \in Code[Top.ip],
         NEW c, IsClosure(c), NEW base \in Nat \ {0}, base >= Top.base,
         NEW npar \in Nat, NEW nres, NEW target,
         \/ /\ i.op = "CALL" /\ base = CalleeBase(i) /\ nres = i.c - 1 /\ target = NULL
         \/ /\ i.op = "ADD" /\ base = Top.base + Top.size /\ nres = 1
            /\ target = Top.base + i.a,
         NEW stk, \A s \in Slots : s < Top.base => stk[s] = stack[s],
         Enter(c, base, npar, nres, target, stk), UNCHANGED object
  PROVE  Kept
<1>1. ClosuresHaveProtos(object) /\ Top.base \in Nat
  BY Running
<1>2. c \in Live /\ object[c].kind = "closure"
  BY DEF IsClosure, Is
<1> DEFINE end == base + Proto[object[c].proto].maxstack
<1>3. CASE end > STACK_SIZE
  <2>1. phase' = "undefined" /\ UNCHANGED stack
    BY <1>3 DEF Enter
  <2> QED
    BY <2>1, StopKeeps
<1>4. CASE ~(end > STACK_SIZE)
  <2>1. /\ stack' = [s \in Slots |-> IF s \in base + npar .. end - 1 THEN NIL ELSE stk[s]]
        /\ frames' = Append(frames, Frame(c, base, base + npar, npar, nres, target))
    BY <1>4 DEF Enter
  <2>2. FramesOK(frames')
    BY <1>2, <2>1, FramesEnter
  <2>3. KeepsBelow
    BY <1>1, <2>1 DEF KeepsBelow, Slots
  <2> QED
    BY <1>1, <2>2, <2>3, KeepsBelowIsEnough DEF Kept, KeepsBelow, StackInv
<1> QED
  BY <1>3, <1>4

LEMMA CallKeeps ==
  ASSUME StackInv, phase = "run", NEW i \in Code[Top.ip], Call(i)
  PROVE  Kept
<1>1. /\ i.op = "CALL" /\ IsClosure(R(i.a)) /\ UNCHANGED object
      /\ Enter(R(i.a), CalleeBase(i), Arguments(i), i.c - 1, NULL, stack)
  BY DEF Call
<1>2. /\ Top.base \in Nat \ {0} /\ Top.top \in Int /\ i.a \in Nat /\ i.b \in Nat
      /\ ArgumentsBelowTop(Top)
  BY <1>1, Running
<1>3. CalleeBase(i) \in Nat \ {0} /\ CalleeBase(i) >= Top.base
  BY <1>2 DEF CalleeBase
<1>4. Arguments(i) \in Nat
  BY <1>1, <1>2 DEF Arguments, ArgumentsBelowTop, Code
<1> QED
  BY <1>1, <1>3, <1>4, EnterKeeps

LEMMA CallNativeKeeps ==
  ASSUME StackInv, phase = "run", NEW i \in Code[Top.ip], CallNative(i)
  PROVE  Kept
<1>1. ClosuresHaveProtos(object)
  BY Running
<1>2. FramesOK(frames')
  BY NativeCallEnds
<1>3. KeepsBelow /\ ClosuresHaveProtos(object')
  <2>1. CASE /\ object' = With(object, FirstFree(object), NewString)
             /\ SetR(i.a, FirstFree(object))
    <3>1. HasProto(NewString)
      BY DEF HasProto, NewString
    <3>2. ClosuresHaveProtos(object')
      BY <1>1, <2>1, <3>1, ObjectReplaced
    <3> QED
      BY <2>1, <3>2, RegisterSet
  <2>2. CASE /\ object' = [object EXCEPT ![R(i.a + 1)].metatable = Metatable(R(i.a + 2))]
             /\ UNCHANGED stack
    BY <1>1, <2>2, ObjectUpdated, StackUnchanged
  <2> QED
    BY <2>1, <2>2 DEF CallNative
<1> QED
  BY <1>2, <1>3, KeepsBelowIsEnough DEF Kept, KeepsBelow, StackInv

LEMMA CallMKeeps ==
  ASSUME StackInv, phase = "run", NEW i \in Code[Top.ip], i.op = "ADD",
         NEW x, NEW y, CallM(x, y, Top.base + i.a), UNCHANGED object
  PROVE  Kept
<1> DEFINE newbase == Top.base + Top.size
           stk == [s \in Slots |-> IF s = newbase THEN x
                                   ELSE IF s = newbase + 1 THEN y ELSE stack[s]]
<1>1. /\ IsClosure(Handler(x, y))
      /\ Enter(Handler(x, y), newbase, 2, 1, Top.base + i.a, stk)
  BY DEF CallM
<1>2. Top.base \in Nat \ {0} /\ Top.size \in Nat \ {0, 1}
  BY Running
<1>3. newbase \in Nat \ {0} /\ newbase >= Top.base
  BY <1>2
<1>4. \A s \in Slots : s < Top.base => stk[s] = stack[s]
  BY <1>2 DEF Slots
<1> HIDE DEF stk
<1> QED
  BY <1>1, <1>3, <1>4, EnterKeeps

LEMMA ArithmeticKeeps ==
  ASSUME StackInv, phase = "run", NEW i \in Code[Top.ip], Arithmetic(i)
  PROVE  Kept
<1> DEFINE B == RK(i.b)
           C == RK(i.c)
<1>1. i.op = "ADD" /\ UNCHANGED object
  BY DEF Arithmetic
<1>2. CASE \E n \in Numbers : SetR(i.a, n) /\ Continue(0)
  <2>1. Top.ip + 1 + 0 \in Successors(Top.ip, i) /\ ClosuresHaveProtos(object)
    BY <1>1, Running DEF Successors
  <2>2. KeepsBelow /\ frames' = [frames EXCEPT ![Len(frames)].ip = @ + 1 + 0]
    BY <1>2, RegisterSet DEF Continue
  <2> QED
    BY <1>1, <2>1, <2>2, GoesOn
<1>3. CASE CallM(B, C, Top.base + i.a) \/ CallM(C, B, Top.base + i.a)
  BY <1>1, <1>3, CallMKeeps
<1> QED
  BY <1>2, <1>3 DEF Arithmetic

LEMMA ReturnKeeps ==
  ASSUME StackInv, phase = "run", NEW i \in Code[Top.ip], Return(i)
  PROVE  Kept
<1>1. /\ i.op = "RETURN" /\ i.b > 0 /\ Len(frames) > 1
      /\ Closed(CloseUpvals(ReturnStart))
      /\ Deliver(frames[Len(frames) - 1], Returned(i, i.b - 1), Top.base - 3 + i.b)
  BY DEF Return
<1>2. /\ Top.base \in Nat \ {0} /\ Top.size \in Nat /\ i.b \in Nat
      /\ ClosuresHaveProtos(object) /\ frames # <<>> /\ DOMAIN stack = Slots
  BY <1>1, Running DEF FramesOK
<1>3. ClosuresHaveProtos(object')
  <2>1. CloseEnd \in Int /\ ReturnStart \in Int
    BY <1>2 DEF CloseEnd, ReturnStart
  <2> QED
    BY <1>1, <1>2, <2>1, CloseUpvalsKeeps DEF Closed
<1> DEFINE n == i.b - 1
           stk == Returned(i, n)
<1>4. n \in Nat /\ Top.base - 3 + i.b = Top.base - 2 + n
  <2>1. \A b \in Nat \ {0}, c \in Nat : c > 0 => c - 1 \in Nat /\ b - 3 + c = b - 2 + (c - 1)
    OBVIOUS
  <2> HIDE DEF stk
  <2> QED
    BY <1>1, <1>2, <2>1
<1>5. FramesOK(frames')
  BY <1>1, <1>4, FramesReturn
<1>6. DOMAIN stk = Slots /\ \A s \in Slots : s < Top.base - 1 => stk[s] = stack[s]
  BY <1>2, <1>4 DEF Returned, Cleaned, Slots
<1>7. /\ DOMAIN stack' = Slots
      /\ \A s \in Slots : s # Top.target => stack'[s] = stk[s]
      /\ Top.target = NULL => stack' = stk
  BY <1>1, <1>6 DEF Deliver
<1> HIDE DEF stk, n
<1>8. Undisturbed
  <2> SUFFICES ASSUME NEW s \in Slots,
                      \/ s < Top.base - 1 /\ s # Top.target
                      \/ Len(frames) > 1 /\ s < frames[Len(frames) - 1].base
               PROVE  stack'[s] = stack[s]
    BY DEF Undisturbed
  <2>1. s < Top.base - 1 /\ (s # Top.target \/ Top.target = NULL)
    <3>1. CASE s < Top.base - 1 /\ s # Top.target
      BY <3>1
    <3>2. CASE s < frames[Len(frames) - 1].base
      BY <1>1, <1>2, <3>2, CallerBelow DEF Slots
    <3> QED
      BY <3>1, <3>2
  <2> QED
    BY <1>6, <1>7, <2>1
<1> QED
  BY <1>3, <1>5, <1>7, <1>8 DEF Kept, StackInv

LEMMA ExecuteKeeps ==
  ASSUME StackInv, phase = "run", NEW i \in Code[Top.ip], Execute(i)
  PROVE  Kept
<1>1. CASE Exit(i)
  BY <1>1, StopKeeps DEF Exit
<1>2. CASE OutOfMemory(i) \/ Misuse(i)
  BY <1>2, StopKeeps DEF OutOfMemory, Misuse, Stop, Misused
<1> QED
  BY <1>1, <1>2, LoadKeeps, LoadBoolKeeps, SetUpvalKeeps, GetKeeps, SetKeeps, MakeKeeps,
     CompareKeeps, MakeClosureKeeps, JumpKeeps, CallKeeps, CallNativeKeeps,
     ArithmeticKeeps, ReturnKeeps DEF Execute

LEMMA CollectKeeps ==
  ASSUME StackInv, Collect
  PROVE  StackInv' /\ UNCHANGED stack
<1>1. phase = "run" /\ UNCHANGED stack
  BY DEF Collect, Stop
<1>2. CASE phase' # "run"
  BY <1>1, <1>2 DEF StackInv
<1>3. CASE phase' = "run"
  <2>1. frames' = frames /\ (object' = object \/ object' = [a \in Reached |-> object[a]])
    BY DEF Collect, Stop
  <2>2. Reached \subseteq Live \/ object' = object
    BY <1>3 DEF Collect, Stop, MarkOutcome
  <2>3. ClosuresHaveProtos(object')
    BY <1>1, <2>1, <2>2 DEF StackInv, ClosuresHaveProtos, Live
  <2> QED
    BY <1>1, <2>1, <2>3 DEF StackInv
<1> QED
  BY <1>1, <1>2, <1>3

-----------------------------------------------------------------------------
LEMMA InitialFrames ==
  Init => StackInv
<1> SUFFICES ASSUME Init
             PROVE  StackInv
  OBVIOUS
<1>1. PICK f \in Chunks :
        /\ stack = [s \in Slots |-> IF s = 0 THEN 1 ELSE NIL]
        /\ object = [a \in 1 .. 3 |->
             CASE a = 1 -> [NewTable EXCEPT !.field =
                              [k \in {LUA_NAT_SETMETATABLE, LUA_NAT_TYPE} |-> k]]
               [] a = 2 -> NewUpval(0, NULL, [frame |-> 0, idx |-> -1])
               [] a = 3 -> [kind |-> "closure", proto |-> f, upvalues |-> <<2>>]]
        /\ frames = <<[closure |-> 3, proto |-> f, base |-> 1, top |-> 2, npar |-> 0,
                       nres |-> 0, size |-> Proto[f].maxstack,
                       stack_max |-> 1 + Proto[f].maxstack,
                       ip |-> 1, target |-> NULL, id |-> 0]>>
  BY DEF Init
<1>2. f \in DOMAIN Proto /\ WellFormed(Proto[f].code)
  BY VMAssumption, ProgramAssumption
<1>3. ClosuresHaveProtos(object)
  <2>1. HasProto([NewTable EXCEPT !.field = [k \in {LUA_NAT_SETMETATABLE, LUA_NAT_TYPE} |-> k]])
    BY DEF HasProto, NewTable
  <2>2. HasProto(NewUpval(0, NULL, [frame |-> 0, idx |-> -1]))
    BY DEF HasProto, NewUpval
  <2>3. HasProto([kind |-> "closure", proto |-> f, upvalues |-> <<2>>])
    BY <1>2 DEF HasProto
  <2>4. object[1] = [NewTable EXCEPT !.field =
                       [k \in {LUA_NAT_SETMETATABLE, LUA_NAT_TYPE} |-> k]]
    BY <1>1
  <2>5. object[2] = NewUpval(0, NULL, [frame |-> 0, idx |-> -1])
    BY <1>1
  <2>6. object[3] = [kind |-> "closure", proto |-> f, upvalues |-> <<2>>]
    BY <1>1
  <2>7. DOMAIN object = 1 .. 3
    BY <1>1
  <2>8. \A a \in 1 .. 3 : a = 1 \/ a = 2 \/ a = 3
    OBVIOUS
  <2> QED
    BY <2>1, <2>2, <2>3, <2>4, <2>5, <2>6, <2>7, <2>8 DEF ClosuresHaveProtos
<1>4. IsList(frames) /\ frames # <<>> /\ Len(frames) = 1
  BY <1>1 DEF IsList
<1>5. FrameOK(frames[1]) /\ ArgumentsBelowTop(frames[1])
  BY <1>1, <1>2 DEF FrameOK, FrameFields, ArgumentsBelowTop, WellFormed
<1>6. FramesOK(frames)
  BY <1>4, <1>5 DEF FramesOK
<1>7. DOMAIN stack = Slots
  BY <1>1
<1> QED
  BY <1>3, <1>6, <1>7 DEF StackInv

LEMMA StackInvHolds ==
  Spec => []StackInv
<1>1. StackInv /\ [Next]_vmVars => StackInv'
  <2> SUFFICES ASSUME StackInv, [Next]_vmVars
               PROVE  StackInv'
    OBVIOUS
  <2>1. ASSUME phase = "run", NEW i \in Code[Top.ip], Execute(i)
        PROVE  StackInv'
    BY <2>1, ExecuteKeeps DEF Kept
  <2>2. CASE Collect
    BY <2>2, CollectKeeps
  <2>3. CASE UNCHANGED vmVars
    BY <2>3 DEF vmVars, StackInv
  <2> QED
    BY <2>1, <2>2, <2>3 DEF Next
<1> QED
  BY InitialFrames, <1>1, PTL DEF Spec

(* A function cannot reach the registers of its callers: OP_CALL           *)
(* (vm.cpp:205), callM (vm.cpp:460) and OP_RETURN (vm.cpp:252) hand over   *)
(* arguments and results, and nothing below is written, for every program, *)
(* depth of calls and order of instructions.                               *)
THEOREM CallersUndisturbedHolds ==
  Spec => CallersUndisturbed
<1>1. StackInv /\ [Next]_vmVars => [phase = "run" => Undisturbed]_vmVars
  <2> SUFFICES ASSUME StackInv, [Next]_vmVars, phase = "run"
               PROVE  Undisturbed \/ UNCHANGED vmVars
    OBVIOUS
  <2>1. ASSUME NEW i \in Code[Top.ip], Execute(i)
        PROVE  Undisturbed
    BY <2>1, ExecuteKeeps DEF Kept
  <2>2. CASE Collect
    BY <2>2, CollectKeeps DEF Undisturbed
  <2> QED
    BY <2>1, <2>2 DEF Next
<1> QED
  BY StackInvHolds, <1>1, PTL DEF Spec, CallersUndisturbed, Undisturbed

-----------------------------------------------------------------------------
(* Upvalues                                                                *)

(* The upvalue of the environment, which VM::init puts into the list       *)
(* (vm.cpp:29).                                                            *)
ENV == 2

UpvalueFields == {"kind", "voPointer", "value", "next", "prev", "home"}

IsUpvalue(objects, u) == u \in DOMAIN objects /\ objects[u].kind = "upvalue"

OpenIn(objects) ==
  {u \in DOMAIN objects : objects[u].kind = "upvalue" /\ objects[u].voPointer # NULL}

ObjectOK(o) ==
  /\ "kind" \in DOMAIN o
  /\ o.kind = "closure" =>
       /\ o = [kind |-> "closure", proto |-> o.proto, upvalues |-> o.upvalues]
       /\ o.proto \in DOMAIN Proto
       /\ IsList(o.upvalues)
  /\ o.kind = "upvalue" => DOMAIN o = UpvalueFields

(* The first n upvalues of a closure: no descriptor for a register of the  *)
(* stack stands for the environment, which is in none of a function's.     *)
Captured(objects, o, n) ==
  /\ Len(o.upvalues) >= n
  /\ \A k \in 1 .. n : IsUpvalue(objects, o.upvalues[k])
  /\ \A k \in 1 .. n :
       k <= Len(Proto[o.proto].upvalues) /\ Proto[o.proto].upvalues[k].instack =>
         o.upvalues[k] # ENV

(* The list of open upvalues, from last to the environment's.              *)
Linked(objects, last, N, list) ==
  /\ N \in Nat \ {0} /\ list = [k \in 1 .. N |-> list[k]]
  /\ \A k \in 1 .. N : list[k] \in OpenIn(objects)
  /\ \A u \in OpenIn(objects) : \E k \in 1 .. N : list[k] = u
  /\ \A j, k \in 1 .. N : j # k => list[j] # list[k]
  /\ last = list[1] /\ list[N] = ENV
  /\ \A k \in 1 .. N : objects[list[k]].next = IF k = N THEN NULL ELSE list[k + 1]
  /\ \A k \in 1 .. N : objects[list[k]].prev = IF k = 1 THEN NULL ELSE list[k - 1]

-----------------------------------------------------------------------------
(* There are no more open upvalues than objects.                           *)
LEMMA ListFits ==
  ASSUME NEW objects, DOMAIN objects \subseteq Addresses,
         NEW last, NEW N, NEW list, Linked(objects, last, N, list)
  PROVE  N <= HEAP_OBJECTS
<1>1. /\ N \in Nat \ {0} /\ list = [k \in 1 .. N |-> list[k]]
      /\ \A k \in 1 .. N : list[k] \in OpenIn(objects)
      /\ \A j, k \in 1 .. N : j # k => list[j] # list[k]
  BY DEF Linked
<1>2. HEAP_OBJECTS \in Nat /\ Addresses = 1 .. HEAP_OBJECTS
  BY VMAssumption DEF Addresses
<1>3. OpenIn(objects) \subseteq Addresses
  BY DEF OpenIn
<1>4. SUFFICES ASSUME ~(N <= HEAP_OBJECTS) PROVE FALSE
  OBVIOUS
<1> DEFINE S == 1 .. N
           T == 1 .. HEAP_OBJECTS
<1>5. IsFiniteSet(S) /\ Cardinality(S) = N
  BY <1>1, FS_Interval
<1>6. IsFiniteSet(T) /\ Cardinality(T) = HEAP_OBJECTS
  <2>1. IsFiniteSet(T) /\ Cardinality(T) = IF 1 > HEAP_OBJECTS THEN 0 ELSE HEAP_OBJECTS - 1 + 1
    BY <1>2, FS_Interval
  <2> QED
    BY <1>2, <2>1
<1>7. list \in [S -> T]
  BY <1>1, <1>2, <1>3
<1>8. Cardinality(T) < Cardinality(S)
  BY <1>1, <1>2, <1>4, <1>5, <1>6
<1> HIDE DEF S, T
<1>9. \E x, y \in S : x # y /\ list[x] = list[y]
  BY <1>5, <1>6, <1>7, <1>8, FS_PigeonHole
<1> QED
  BY <1>1, <1>9 DEF S

(* The walk along next passes the list, and then stays at its end.         *)
LEMMA ChainIs ==
  ASSUME NEW objects, DOMAIN objects \subseteq Addresses,
         NEW last, NEW N, NEW list, Linked(objects, last, N, list)
  PROVE  \A n \in 0 .. HEAP_OBJECTS :
           Chain(objects, last)[n] = IF n < N THEN list[n + 1] ELSE NULL
<1> DEFINE H == HEAP_OBJECTS
           after(before) == IF before \in DOMAIN objects THEN objects[before].next ELSE NULL
           step(g, n) == IF n = 0 THEN last ELSE after(g[n - 1])
           chain == CHOOSE g : g = [n \in 0 .. H |-> step(g, n)]
           at(n) == IF n < N THEN list[n + 1] ELSE NULL
<1>1. /\ N \in Nat \ {0} /\ last = list[1]
      /\ \A k \in 1 .. N : list[k] \in DOMAIN objects
      /\ \A k \in 1 .. N : objects[list[k]].next = IF k = N THEN NULL ELSE list[k + 1]
  BY DEF Linked, OpenIn
<1>2. H \in Nat /\ NULL \notin DOMAIN objects
  BY VMAssumption DEF Addresses, NULL
<1>3. Chain(objects, last) = chain
  BY DEF Chain
<1>4. \A n \in 1 .. H : after(at(n - 1)) = at(n)
  <2> SUFFICES ASSUME NEW n \in 1 .. H PROVE after(at(n - 1)) = at(n)
    OBVIOUS
  <2>1. CASE n <= N
    <3>1. n \in 1 .. N /\ n - 1 < N /\ n - 1 + 1 = n
      BY <1>1, <1>2, <2>1
    <3>2. at(n - 1) = list[n]
      BY <3>1
    <3>3. after(list[n]) = IF n = N THEN NULL ELSE list[n + 1]
      BY <1>1, <3>1
    <3>4. (n < N) = (n # N)
      BY <1>1, <3>1
    <3> QED
      BY <3>2, <3>3, <3>4
  <2>2. CASE ~(n <= N)
    <3>1. ~(n - 1 < N) /\ ~(n < N)
      BY <1>1, <1>2, <2>2
    <3> QED
      BY <1>2, <3>1
  <2> QED
    BY <2>1, <2>2
<1>5. at(0) = last
  BY <1>1
<1> HIDE DEF at, after, H
<1>6. \E g : g = [n \in 0 .. H |-> step(g, n)]
  <2> DEFINE g == [n \in 0 .. H |-> at(n)]
  <2>1. ASSUME NEW n \in 0 .. H PROVE g[n] = step(g, n)
    <3>1. CASE n = 0
      BY <1>5, <3>1
    <3>2. CASE n # 0
      <4>1. n \in 1 .. H /\ n - 1 \in 0 .. H
        BY <1>2, <3>2
      <4>2. g[n - 1] = at(n - 1) /\ g[n] = at(n)
        BY <4>1
      <4> HIDE DEF g
      <4> QED
        BY <1>4, <3>2, <4>1, <4>2
    <3> QED
      BY <3>1, <3>2
  <2>2. g = [n \in 0 .. H |-> g[n]]
    OBVIOUS
  <2> HIDE DEF g, step
  <2>3. g = [n \in 0 .. H |-> step(g, n)]
    BY <2>1, <2>2
  <2> QED
    BY <2>3
<1>7. \A n \in 0 .. H : chain[n] = step(chain, n)
  <2>1. chain = [n \in 0 .. H |-> step(chain, n)]
    BY <1>6
  <2> HIDE DEF chain, step
  <2> QED
    BY <2>1
<1> HIDE DEF chain
<1> DEFINE S == {n \in 0 .. H : chain[n] = at(n)}
<1>8. 0 \in S
  BY <1>2, <1>5, <1>7
<1>9. ASSUME NEW n \in 0 .. H - 1, n \in S PROVE n + 1 \in S
  <2> DEFINE q == n + 1
  <2>1. q \in 1 .. H /\ q \in 0 .. H /\ q # 0 /\ q - 1 = n
    BY <1>2
  <2> HIDE DEF q
  <2>2. chain[q] = after(chain[n])
    BY <1>7, <2>1
  <2>3. after(at(n)) = at(q)
    BY <1>4, <2>1
  <2>4. chain[n] = at(n)
    BY <1>9
  <2>5. q \in S
    BY <2>1, <2>2, <2>3, <2>4
  <2> QED
    BY <2>5 DEF q
<1>10. 0 .. H \subseteq S
  <2> HIDE DEF S
  <2> QED
    BY <1>2, <1>8, <1>9, CountingUp
<1> QED
  BY <1>3, <1>10 DEF at, H

(* What OP_CLOSURE finds for a register.                                   *)
LEMMA FoundIsOpen ==
  ASSUME NEW objects, DOMAIN objects \subseteq Addresses,
         NEW last, NEW N, NEW list, Linked(objects, last, N, list), NEW s
  PROVE  LET u == FindUpval(objects, last, s)
         IN /\ u # NULL => u \in OpenIn(objects) /\ objects[u].voPointer = s
            /\ u = NULL => \A v \in OpenIn(objects) : objects[v].voPointer # s
<1> DEFINE H == HEAP_OBJECTS
           chain == Chain(objects, last)
           hits == {n \in 0 .. H : chain[n] # NULL /\ objects[chain[n]].voPointer = s}
           first == CHOOSE n \in hits : \A m \in hits : n <= m
           u == FindUpval(objects, last, s)
<1>1. /\ N \in Nat \ {0} /\ N <= H /\ H \in Nat
      /\ \A k \in 1 .. N : list[k] \in OpenIn(objects) /\ list[k] # NULL
      /\ \A v \in OpenIn(objects) : \E k \in 1 .. N : list[k] = v
  <2>1. N <= H /\ H \in Nat
    BY ListFits, VMAssumption
  <2>2. NULL \notin OpenIn(objects)
    BY DEF OpenIn, NULL, Addresses
  <2> QED
    BY <2>1, <2>2 DEF Linked
<1>2. \A n \in 0 .. H : chain[n] = IF n < N THEN list[n + 1] ELSE NULL
  BY ChainIs
<1>3. u = IF hits = {} THEN NULL ELSE chain[first]
  BY DEF FindUpval
<1> HIDE DEF chain, u
<1>4. ASSUME hits # {} PROVE first \in hits
  <2>1. hits \subseteq Nat
    OBVIOUS
  <2> HIDE DEF hits
  <2>2. \E n \in hits : \A m \in hits : n <= m
    BY <1>4, <2>1, LeastNatural
  <2> QED
    BY <2>2
<1>5. ASSUME NEW n \in hits PROVE chain[n] \in OpenIn(objects) /\ chain[n] # NULL
  <2>1. n \in 0 .. H /\ chain[n] # NULL
    OBVIOUS
  <2>2. n < N /\ chain[n] = list[n + 1]
    BY <1>2, <2>1
  <2>3. n + 1 \in 1 .. N
    BY <1>1, <2>1, <2>2
  <2> QED
    BY <1>1, <2>2, <2>3
<1>6. ASSUME NEW v \in OpenIn(objects), objects[v].voPointer = s PROVE hits # {}
  <2>1. PICK k \in 1 .. N : list[k] = v
    BY <1>1
  <2> DEFINE n == k - 1
  <2>2. n \in 0 .. H /\ n < N /\ n + 1 = k
    BY <1>1
  <2> HIDE DEF n
  <2>3. chain[n] = v /\ v # NULL
    BY <1>1, <1>2, <2>1, <2>2
  <2>4. n \in hits
    BY <1>6, <2>2, <2>3
  <2> QED
    BY <2>4
<1>7. ASSUME u # NULL PROVE u \in OpenIn(objects) /\ objects[u].voPointer = s
  <2>1. hits # {} /\ u = chain[first]
    BY <1>3, <1>7
  <2>2. first \in hits
    BY <1>4, <2>1
  <2> HIDE DEF first
  <2>3. objects[chain[first]].voPointer = s
    BY <2>2
  <2> QED
    BY <1>5, <2>1, <2>2, <2>3
<1>8. ASSUME u = NULL, NEW v \in OpenIn(objects) PROVE objects[v].voPointer # s
  <2>1. hits = {}
    <3> SUFFICES ASSUME hits # {} PROVE FALSE
      OBVIOUS
    <3>1. u = chain[first] /\ first \in hits
      BY <1>3, <1>4
    <3> HIDE DEF first
    <3> QED
      BY <1>5, <1>8, <3>1
  <2> QED
    BY <1>6, <2>1
<1> QED
  BY <1>7, <1>8 DEF u

LEMMA OnChainIs ==
  ASSUME NEW objects, DOMAIN objects \subseteq Addresses,
         NEW last, NEW N, NEW list, Linked(objects, last, N, list)
  PROVE  OnChain(objects, last) = OpenIn(objects)
<1> DEFINE H == HEAP_OBJECTS
           chain == Chain(objects, last)
<1>1. /\ N \in Nat \ {0} /\ N <= H /\ H \in Nat
      /\ \A k \in 1 .. N : list[k] \in OpenIn(objects) /\ list[k] # NULL
      /\ \A v \in OpenIn(objects) : \E k \in 1 .. N : list[k] = v
  <2>1. N <= H /\ H \in Nat
    BY ListFits, VMAssumption
  <2>2. NULL \notin OpenIn(objects)
    BY DEF OpenIn, NULL, Addresses
  <2> QED
    BY <2>1, <2>2 DEF Linked
<1>2. \A n \in 0 .. H : chain[n] = IF n < N THEN list[n + 1] ELSE NULL
  BY ChainIs
<1>3. OnChain(objects, last) = {chain[n] : n \in 0 .. H} \ {NULL}
  BY DEF OnChain
<1> HIDE DEF chain, H
<1>4. ASSUME NEW n \in 0 .. H, chain[n] # NULL PROVE chain[n] \in OpenIn(objects)
  <2>1. n < N /\ n + 1 \in 1 .. N
    BY <1>1, <1>2, <1>4
  <2> QED
    BY <1>1, <1>2, <2>1
<1>5. ASSUME NEW v \in OpenIn(objects) PROVE v # NULL /\ \E n \in 0 .. H : chain[n] = v
  <2>1. PICK k \in 1 .. N : list[k] = v
    BY <1>1
  <2> DEFINE n == k - 1
  <2>2. n \in 0 .. H /\ n < N /\ n + 1 = k
    BY <1>1
  <2> HIDE DEF n
  <2>3. chain[n] = v /\ v # NULL
    BY <1>1, <1>2, <2>1, <2>2
  <2> QED
    BY <2>2, <2>3
<1> QED
  BY <1>3, <1>4, <1>5

(* A heap with a list of open upvalues.  The closures in new do not have   *)
(* all their upvalues yet.                                                 *)
EnvironmentOK(objects) ==
  /\ objects[ENV].voPointer = 0
  /\ \A u \in OpenIn(objects) \ {ENV} : objects[u].voPointer \in Nat \ {0}

HeapOK(objects, last, new) ==
  /\ DOMAIN objects \subseteq Addresses
  /\ \A a \in DOMAIN objects : ObjectOK(objects[a])
  /\ \A a \in DOMAIN objects \ new :
       objects[a].kind = "closure" =>
         Captured(objects, objects[a], UpvalueCount(objects[a].proto))
  /\ \E N, list : Linked(objects, last, N, list)
  /\ EnvironmentOK(objects)

(* What closing upvalues does to the heap.                                 *)
SameOrClosed(before, after) ==
  /\ DOMAIN after = DOMAIN before
  /\ \A a \in DOMAIN before :
       /\ after[a].kind = before[a].kind
       /\ before[a].kind = "closure" => after[a] = before[a]
       /\ before[a].kind = "upvalue" =>
            /\ after[a].home = before[a].home
            /\ after[a].voPointer \in {before[a].voPointer, NULL}

(* u out of the list.                                                      *)
ClosedOne(objects, u, v) ==
  [Unlinked(objects, u) EXCEPT ![u].value = v, ![u].voPointer = NULL]

OneClosed(objects, u, v, p, q, t) ==
  /\ DOMAIN t = DOMAIN objects
  /\ t[u] = [objects[u] EXCEPT !.value = v, !.voPointer = NULL]
  /\ \A b \in DOMAIN objects \ {u} :
       t[b] = IF b = p THEN [objects[b] EXCEPT !.next = q]
              ELSE IF b = q THEN [objects[b] EXCEPT !.prev = p]
              ELSE objects[b]

LEMMA ClosedOneIs ==
  ASSUME NEW objects, NEW u \in DOMAIN objects, objects[u].prev # u, objects[u].next # u,
         NEW v
  PROVE  OneClosed(objects, u, v, objects[u].prev, objects[u].next, ClosedOne(objects, u, v))
<1> DEFINE o == objects[u]
           w == Unlinked(objects, u)
           t == ClosedOne(objects, u, v)
<1>1. /\ DOMAIN w = DOMAIN objects
      /\ \A b \in DOMAIN objects :
           w[b] = IF b = o.prev THEN [objects[b] EXCEPT !.next = o.next]
                  ELSE IF b = o.next THEN [objects[b] EXCEPT !.prev = o.prev]
                  ELSE objects[b]
  BY DEF Unlinked
<1>2. w[u] = o
  BY <1>1
<1> HIDE DEF w
<1>3. t = [w EXCEPT ![u].value = v, ![u].voPointer = NULL]
  BY DEF ClosedOne, w
<1>4. /\ DOMAIN t = DOMAIN objects
      /\ t[u] = [w[u] EXCEPT !.value = v, !.voPointer = NULL]
      /\ \A b \in DOMAIN objects \ {u} : t[b] = w[b]
  BY <1>1, <1>3
<1> HIDE DEF t
<1>5. OneClosed(objects, u, v, o.prev, o.next, t)
  BY <1>1, <1>2, <1>4 DEF OneClosed
<1> QED
  BY <1>5 DEF t

LEMMA ListWithout ==
  ASSUME NEW objects, DOMAIN objects \subseteq Addresses,
         \A a \in DOMAIN objects : ObjectOK(objects[a]),
         NEW last, NEW N, NEW list, Linked(objects, last, N, list),
         NEW u \in OpenIn(objects), u # ENV, NEW v
  PROVE  /\ SameOrClosed(objects, ClosedOne(objects, u, v))
         /\ \A a \in DOMAIN objects : ObjectOK(ClosedOne(objects, u, v)[a])
         /\ OpenIn(ClosedOne(objects, u, v)) = OpenIn(objects) \ {u}
         /\ \E M, l : Linked(ClosedOne(objects, u, v),
                             IF u = last THEN objects[u].next ELSE last, M, l)
<1> DEFINE o == objects[u]
           p == o.prev
           q == o.next
           t == ClosedOne(objects, u, v)
<1>1. /\ N \in Nat \ {0} /\ last = list[1] /\ list[N] = ENV
      /\ \A k \in 1 .. N : list[k] \in OpenIn(objects)
      /\ \A w \in OpenIn(objects) : \E k \in 1 .. N : list[k] = w
      /\ \A j, k \in 1 .. N : j # k => list[j] # list[k]
      /\ \A k \in 1 .. N : objects[list[k]].next = IF k = N THEN NULL ELSE list[k + 1]
      /\ \A k \in 1 .. N : objects[list[k]].prev = IF k = 1 THEN NULL ELSE list[k - 1]
  BY DEF Linked
<1>2. PICK k \in 1 .. N : list[k] = u
  BY <1>1
<1>3. k \in 1 .. N - 1 /\ k \in Nat
  BY <1>1, <1>2
<1>4. u \in DOMAIN objects /\ o.kind = "upvalue" /\ o.voPointer # NULL /\ NULL \notin DOMAIN objects
      /\ DOMAIN o = UpvalueFields
  BY DEF OpenIn, Addresses, NULL, ObjectOK
<1>5. q = list[k + 1] /\ p = IF k = 1 THEN NULL ELSE list[k - 1]
  BY <1>1, <1>2, <1>3
<1>6. p # u /\ q # u
  <2>1. k + 1 \in 1 .. N /\ (k # 1 => k - 1 \in 1 .. N) /\ k + 1 # k /\ k - 1 # k
    BY <1>1, <1>3
  <2> QED
    BY <1>1, <1>2, <1>4, <1>5, <2>1
<1>7. /\ DOMAIN t = DOMAIN objects
      /\ t[u] = [o EXCEPT !.value = v, !.voPointer = NULL]
      /\ \A b \in DOMAIN objects \ {u} :
           t[b] = IF b = p THEN [objects[b] EXCEPT !.next = q]
                  ELSE IF b = q THEN [objects[b] EXCEPT !.prev = p]
                  ELSE objects[b]
  <2>1. OneClosed(objects, u, v, p, q, t)
    BY <1>4, <1>6, ClosedOneIs
  <2> QED
    BY <2>1 DEF OneClosed
<1> HIDE DEF t, o, p, q
<1>8. /\ p \in DOMAIN objects => objects[p].kind = "upvalue"
      /\ q \in DOMAIN objects /\ objects[q].kind = "upvalue"
  <2>1. k + 1 \in 1 .. N /\ (k # 1 => k - 1 \in 1 .. N)
    BY <1>1, <1>3
  <2>2. q \in OpenIn(objects) /\ (p # NULL => p \in OpenIn(objects))
    BY <1>1, <1>5, <2>1
  <2> QED
    BY <1>4, <2>2 DEF OpenIn
<1>9. ASSUME NEW b \in DOMAIN objects \ {u}, objects[b].kind = "upvalue"
      PROVE  /\ DOMAIN t[b] = UpvalueFields /\ t[b].kind = "upvalue"
             /\ t[b].home = objects[b].home /\ t[b].voPointer = objects[b].voPointer
             /\ t[b].next = IF b = p THEN q ELSE objects[b].next
             /\ b # p => t[b].prev = IF b = q THEN p ELSE objects[b].prev
             /\ b = p => t[b].prev = objects[b].prev
  <2>1. DOMAIN objects[b] = UpvalueFields
    BY <1>9 DEF ObjectOK
  <2>2. CASE b = p
    BY <1>7, <1>9, <2>1, <2>2 DEF UpvalueFields
  <2>3. CASE b # p /\ b = q
    BY <1>7, <1>9, <2>1, <2>3 DEF UpvalueFields
  <2>4. CASE b # p /\ b # q
    BY <1>7, <1>9, <2>1, <2>4
  <2> QED
    BY <2>2, <2>3, <2>4
<1>10. /\ DOMAIN t[u] = UpvalueFields /\ t[u].kind = "upvalue"
       /\ t[u].home = o.home /\ t[u].voPointer = NULL
  BY <1>4, <1>7 DEF UpvalueFields
<1>11. ASSUME NEW b \in DOMAIN objects, objects[b].kind # "upvalue" PROVE t[b] = objects[b]
  <2>1. b # u /\ b # p /\ b # q
    BY <1>4, <1>8, <1>11 DEF o
  <2> QED
    BY <1>7, <2>1
<1>12. SameOrClosed(objects, t)
  BY <1>7, <1>9, <1>10, <1>11 DEF SameOrClosed, o
<1>13. \A a \in DOMAIN objects : ObjectOK(t[a])
  <2> SUFFICES ASSUME NEW a \in DOMAIN objects PROVE ObjectOK(t[a])
    OBVIOUS
  <2>1. CASE objects[a].kind # "upvalue"
    BY <1>11, <2>1
  <2>2. CASE objects[a].kind = "upvalue"
    <3>1. DOMAIN t[a] = UpvalueFields /\ t[a].kind = "upvalue"
      BY <1>9, <1>10, <2>2
    <3> QED
      BY <3>1 DEF ObjectOK, UpvalueFields
  <2> QED
    BY <2>1, <2>2
<1>14. OpenIn(t) = OpenIn(objects) \ {u}
  <2>1. ASSUME NEW b \in DOMAIN objects
        PROVE  (t[b].kind = "upvalue" /\ t[b].voPointer # NULL)
                 <=> objects[b].kind = "upvalue" /\ objects[b].voPointer # NULL /\ b # u
    <3>1. CASE b = u
      BY <1>10, <3>1
    <3>2. CASE b # u /\ objects[b].kind = "upvalue"
      BY <1>9, <3>2
    <3>3. CASE b # u /\ objects[b].kind # "upvalue"
      BY <1>11, <3>3
    <3> QED
      BY <3>1, <3>2, <3>3
  <2> QED
    BY <1>7, <2>1 DEF OpenIn
<1> DEFINE M == N - 1
           at(j) == IF j < k THEN j ELSE j + 1
           l == [j \in 1 .. M |-> list[at(j)]]
           newLast == IF u = last THEN objects[u].next ELSE last
<1>15. /\ M \in Nat \ {0} /\ k <= M /\ M \in 1 .. M /\ 1 \in 1 .. M
       /\ \A j \in 1 .. M : at(j) \in 1 .. N /\ at(j) # k
       /\ \A i, j \in 1 .. M : i # j => at(i) # at(j)
       /\ \A i \in 1 .. N : i # k => \E j \in 1 .. M : at(j) = i
       /\ at(M) = N /\ at(1) = IF k = 1 THEN 2 ELSE 1
  <2>1. /\ M \in Nat \ {0} /\ k <= M /\ M \in 1 .. M /\ 1 \in 1 .. M
        /\ \A j \in 1 .. M : at(j) \in 1 .. N /\ at(j) # k
        /\ \A i, j \in 1 .. M : i # j => at(i) # at(j)
        /\ at(M) = N /\ at(1) = IF k = 1 THEN 2 ELSE 1
    BY <1>1, <1>3
  <2>2. ASSUME NEW i \in 1 .. N, i # k PROVE \E j \in 1 .. M : at(j) = i
    <3>1. CASE i < k
      BY <1>1, <1>3, <3>1
    <3>2. CASE ~(i < k)
      <4>1. i - 1 \in 1 .. M /\ at(i - 1) = i
        BY <1>1, <1>3, <2>2, <3>2
      <4> HIDE DEF at, M
      <4> QED
        BY <4>1
    <3> QED
      BY <3>1, <3>2
  <2> QED
    BY <2>1, <2>2
<1>16. \A j \in 1 .. M : /\ (j = M) = (at(j) = N)
                         /\ (j = 1) = (at(j) = IF k = 1 THEN 2 ELSE 1)
                         /\ j # M /\ at(j) = k - 1 => at(j + 1) = k + 1
                         /\ j # M /\ at(j) # k - 1 => at(j + 1) = at(j) + 1
                         /\ j # 1 /\ at(j) = k + 1 => at(j - 1) = k - 1
                         /\ j # 1 /\ at(j) # k + 1 => at(j - 1) = at(j) - 1
                         /\ at(j) = k - 1 => j # M
  BY <1>1, <1>3
<1>17. \A j \in 1 .. M : (j # M => j + 1 \in 1 .. M) /\ (j # 1 => j - 1 \in 1 .. M)
  BY <1>15
<1>18. DOMAIN l = 1 .. M /\ \A j \in 1 .. M : l[j] = list[at(j)]
  OBVIOUS
<1>19. l = [j \in 1 .. M |-> l[j]]
  OBVIOUS
<1> HIDE DEF l, M, at
<1>20. ASSUME NEW j \in 1 .. M
       PROVE  /\ l[j] = list[at(j)] /\ at(j) \in 1 .. N /\ at(j) # k
              /\ l[j] \in OpenIn(objects) /\ l[j] \in OpenIn(t)
              /\ l[j] # u /\ l[j] \in DOMAIN objects /\ objects[l[j]].kind = "upvalue"
              /\ (l[j] = p) = (at(j) = k - 1)
              /\ (l[j] = q) = (at(j) = k + 1)
  <2>1. l[j] = list[at(j)] /\ at(j) \in 1 .. N /\ at(j) # k
    BY <1>15, <1>18
  <2>2. l[j] \in OpenIn(objects) /\ l[j] # u
    BY <1>1, <1>2, <2>1
  <2>3. l[j] \in OpenIn(t) /\ l[j] \in DOMAIN objects /\ objects[l[j]].kind = "upvalue"
    BY <1>14, <2>2 DEF OpenIn
  <2>4. (l[j] = q) = (at(j) = k + 1)
    <3>1. k + 1 \in 1 .. N
      BY <1>1, <1>3
    <3> QED
      BY <1>1, <1>5, <2>1, <3>1
  <2>5. (l[j] = p) = (at(j) = k - 1)
    <3>1. CASE k = 1
      <4>1. p = NULL /\ l[j] # NULL
        BY <1>4, <1>5, <2>3, <3>1
      <4>2. at(j) # k - 1
        BY <1>1, <2>1, <3>1
      <4> QED
        BY <4>1, <4>2
    <3>2. CASE k # 1
      <4>1. k - 1 \in 1 .. N
        BY <1>1, <1>3, <3>2
      <4> QED
        BY <1>1, <1>5, <2>1, <3>2, <4>1
    <3> QED
      BY <3>1, <3>2
  <2> QED
    BY <2>1, <2>2, <2>3, <2>4, <2>5
<1>21. \A w \in OpenIn(t) : \E j \in 1 .. M : l[j] = w
  <2> SUFFICES ASSUME NEW w \in OpenIn(t) PROVE \E j \in 1 .. M : l[j] = w
    OBVIOUS
  <2>1. w \in OpenIn(objects) /\ w # u
    BY <1>14
  <2>2. PICK i \in 1 .. N : list[i] = w
    BY <1>1, <2>1
  <2>3. i # k
    BY <1>2, <2>1, <2>2
  <2>4. PICK j \in 1 .. M : at(j) = i
    BY <1>15, <2>3
  <2> QED
    BY <1>18, <2>2, <2>4
<1>22. ASSUME NEW i \in 1 .. M, NEW j \in 1 .. M, i # j
       PROVE  l[i] # l[j]
  <2>1. at(i) \in 1 .. N /\ at(j) \in 1 .. N /\ at(i) # at(j)
    BY <1>15, <1>22
  <2>2. list[at(i)] # list[at(j)]
    BY <1>1, <2>1
  <2> QED
    BY <1>18, <2>2
<1>23. newLast = l[1] /\ l[M] = ENV
  <2>1. l[M] = ENV
    BY <1>1, <1>15, <1>18
  <2>2. l[1] = IF k = 1 THEN list[2] ELSE list[1]
    BY <1>15, <1>18
  <2>3. (u = last) = (k = 1)
    BY <1>1, <1>2
  <2>4. k = 1 => objects[u].next = list[2]
    BY <1>5 DEF q, o
  <2> QED
    BY <1>1, <2>1, <2>2, <2>3, <2>4
<1>24. ASSUME NEW j \in 1 .. M
       PROVE  t[l[j]].next = IF j = M THEN NULL ELSE l[j + 1]
  <2>1. t[l[j]].next = IF l[j] = p THEN q ELSE objects[l[j]].next
    BY <1>9, <1>20
  <2>2. objects[l[j]].next = IF at(j) = N THEN NULL ELSE list[at(j) + 1]
    BY <1>1, <1>20
  <2>3. CASE at(j) = k - 1
    <3>1. j # M /\ l[j + 1] = list[k + 1]
      BY <1>16, <1>17, <1>18, <2>3
    <3> QED
      BY <1>5, <1>20, <2>1, <2>3, <3>1
  <2>4. CASE at(j) # k - 1
    <3>1. (j = M) = (at(j) = N)
      BY <1>16
    <3>2. j # M => l[j + 1] = list[at(j) + 1]
      BY <1>16, <1>17, <1>18, <2>4
    <3> QED
      BY <1>20, <2>1, <2>2, <2>4, <3>1, <3>2
  <2> QED
    BY <2>3, <2>4
<1>25. ASSUME NEW j \in 1 .. M
       PROVE  t[l[j]].prev = IF j = 1 THEN NULL ELSE l[j - 1]
  <2>1. /\ l[j] # p => t[l[j]].prev = IF l[j] = q THEN p ELSE objects[l[j]].prev
        /\ l[j] = p => t[l[j]].prev = objects[l[j]].prev
    BY <1>9, <1>20
  <2>2. objects[l[j]].prev = IF at(j) = 1 THEN NULL ELSE list[at(j) - 1]
    BY <1>1, <1>20
  <2>3. CASE at(j) = k + 1
    <3>1. l[j] # p /\ l[j] = q
      BY <1>3, <1>20, <2>3
    <3>2. t[l[j]].prev = p
      BY <2>1, <3>1
    <3>3. (j = 1) = (k = 1)
      <4>1. (j = 1) = (at(j) = IF k = 1 THEN 2 ELSE 1)
        BY <1>16
      <4> QED
        BY <1>3, <2>3, <4>1
    <3>4. j # 1 => l[j - 1] = list[k - 1]
      BY <1>16, <1>17, <1>18, <2>3
    <3> QED
      BY <1>5, <3>2, <3>3, <3>4
  <2>4. CASE at(j) # k + 1
    <3>1. t[l[j]].prev = objects[l[j]].prev
      BY <1>20, <2>1, <2>4
    <3>2. (j = 1) = (at(j) = 1)
      <4>1. (j = 1) = (at(j) = IF k = 1 THEN 2 ELSE 1)
        BY <1>16
      <4> QED
        BY <1>20, <2>4, <4>1
    <3>3. j # 1 => l[j - 1] = list[at(j) - 1]
      BY <1>16, <1>17, <1>18, <2>4
    <3> QED
      BY <2>2, <3>1, <3>2, <3>3
  <2> QED
    BY <2>3, <2>4
<1>26. Linked(t, newLast, M, l)
  BY <1>15, <1>19, <1>20, <1>21, <1>22, <1>23, <1>24, <1>25 DEF Linked
<1> QED
  BY <1>12, <1>13, <1>14, <1>26 DEF t

LEMMA ClosedTwice ==
  ASSUME NEW a, NEW b, NEW c, SameOrClosed(a, b), SameOrClosed(b, c)
  PROVE  SameOrClosed(a, c)
BY DEF SameOrClosed

LEMMA SameIsSame ==
  ASSUME NEW a
  PROVE  SameOrClosed(a, a)
BY DEF SameOrClosed

(* Closures have what they captured as long as closures and the kinds of   *)
(* objects stay.                                                           *)
LEMMA CapturedStays ==
  ASSUME NEW before, NEW after, NEW o, NEW n, Captured(before, o, n),
         \A a \in DOMAIN before : a \in DOMAIN after /\ after[a].kind = before[a].kind
  PROVE  Captured(after, o, n)
BY DEF Captured, IsUpvalue

LEMMA ClosedOneKeepsHeap ==
  ASSUME NEW objects, NEW last, NEW new, HeapOK(objects, last, new),
         NEW u \in OpenIn(objects), u # ENV, NEW v
  PROVE  /\ SameOrClosed(objects, ClosedOne(objects, u, v))
         /\ HeapOK(ClosedOne(objects, u, v), IF u = last THEN objects[u].next ELSE last, new)
<1> DEFINE t == ClosedOne(objects, u, v)
           l == IF u = last THEN objects[u].next ELSE last
<1>1. /\ DOMAIN objects \subseteq Addresses
      /\ \A a \in DOMAIN objects : ObjectOK(objects[a])
      /\ \E N, list : Linked(objects, last, N, list)
  BY DEF HeapOK
<1>2. PICK N, list : Linked(objects, last, N, list)
  BY <1>1
<1>3. /\ SameOrClosed(objects, t)
      /\ \A a \in DOMAIN objects : ObjectOK(t[a])
      /\ OpenIn(t) = OpenIn(objects) \ {u}
      /\ \E M, m : Linked(t, l, M, m)
  BY <1>1, <1>2, ListWithout
<1> HIDE DEF t, l
<1>4. DOMAIN t = DOMAIN objects
  BY <1>3 DEF SameOrClosed
<1>5. ASSUME NEW a \in DOMAIN t \ new, t[a].kind = "closure"
      PROVE  Captured(t, t[a], UpvalueCount(t[a].proto))
  <2>1. a \in DOMAIN objects /\ objects[a].kind = "closure" /\ t[a] = objects[a]
    BY <1>3, <1>4, <1>5 DEF SameOrClosed
  <2>2. Captured(objects, objects[a], UpvalueCount(objects[a].proto))
    BY <1>5, <2>1 DEF HeapOK
  <2>3. \A b \in DOMAIN objects : b \in DOMAIN t /\ t[b].kind = objects[b].kind
    BY <1>3, <1>4 DEF SameOrClosed
  <2>4. Captured(t, objects[a], UpvalueCount(objects[a].proto))
    BY <2>2, <2>3, CapturedStays
  <2> QED
    BY <2>1, <2>4
<1>6. EnvironmentOK(t)
  <2>1. ASSUME NEW w \in OpenIn(t)
        PROVE  w \in OpenIn(objects) /\ t[w].voPointer = objects[w].voPointer
    <3>1. w \in OpenIn(objects)
      BY <1>3
    <3>2. w \in DOMAIN objects /\ objects[w].kind = "upvalue" /\ t[w].voPointer # NULL
      BY <3>1 DEF OpenIn
    <3> QED
      BY <1>3, <3>1, <3>2 DEF SameOrClosed
  <2>2. ENV \in OpenIn(t)
    BY <1>3 DEF Linked
  <2> QED
    BY <2>1, <2>2 DEF EnvironmentOK, HeapOK
<1>7. HeapOK(t, l, new)
  BY <1>1, <1>3, <1>4, <1>5, <1>6 DEF HeapOK
<1> QED
  BY <1>3, <1>7 DEF t, l

(* How far a loop that closes upvalues has got.                            *)
ClosedSome(before, st) ==
  /\ DOMAIN st = Closing
  /\ HeapOK(st.object, st.last, {})
  /\ SameOrClosed(before, st.object)

LEMMA CloseKeepsHeap ==
  ASSUME NEW before, NEW st, ClosedSome(before, st),
         NEW u \in DOMAIN before, before[u].kind = "upvalue", u # ENV
  PROVE  ClosedSome(before, Close(st, u))
<1> DEFINE o == st.object[u]
           last == IF u = st.last THEN o.next ELSE st.last
           v == stack[o.voPointer]
           t == ClosedOne(st.object, u, v)
<1>1. u \in DOMAIN st.object /\ o.kind = "upvalue"
  BY DEF ClosedSome, SameOrClosed
<1>2. DOMAIN st = Closing /\ HeapOK(st.object, st.last, {}) /\ SameOrClosed(before, st.object)
  BY DEF ClosedSome
<1>3. CASE o.voPointer = NULL
  <2>1. Close(st, u) = [st EXCEPT !.last = last]
    BY <1>3 DEF Close
  <2>2. u # st.last
    <3>1. PICK N, list : Linked(st.object, st.last, N, list)
      BY <1>2 DEF HeapOK
    <3>2. st.last \in OpenIn(st.object)
      BY <3>1 DEF Linked
    <3> QED
      BY <1>3, <3>2 DEF OpenIn
  <2> DEFINE s == Close(st, u)
  <2>3. DOMAIN s = Closing /\ s.object = st.object /\ s.last = st.last
    BY <1>2, <2>1, <2>2 DEF Closing
  <2> HIDE DEF s
  <2>4. ClosedSome(before, s)
    BY <1>2, <2>3 DEF ClosedSome
  <2> QED
    BY <2>4 DEF s
<1>4. CASE o.voPointer # NULL
  <2>1. Close(st, u) = [object |-> t, last |-> last,
                        gray |-> st.gray \cup ({v} \cap Addresses)]
    BY <1>4 DEF Close, ClosedOne
  <2>2. u \in OpenIn(st.object)
    BY <1>1, <1>4 DEF OpenIn
  <2>3. SameOrClosed(st.object, t) /\ HeapOK(t, last, {})
    BY <1>2, <2>2, ClosedOneKeepsHeap
  <2>4. SameOrClosed(before, t)
    BY <1>2, <2>3, ClosedTwice
  <2> HIDE DEF t, last, v
  <2>5. ClosedSome(before, [object |-> t, last |-> last,
                            gray |-> st.gray \cup ({v} \cap Addresses)])
    BY <2>3, <2>4 DEF ClosedSome, Closing
  <2> QED
    BY <2>1, <2>5
<1> QED
  BY <1>3, <1>4

LEMMA CloseCapturedKeepsHeap ==
  ASSUME NEW st, ClosedSome(object, st), HeapOK(object, lastUpval, {}),
         NEW c \in Live, object[c].kind = "closure"
  PROVE  ClosedSome(object, CloseCaptured(st, c))
<1> DEFINE descs == Proto[object[c].proto].upvalues
           N == Len(descs)
           Good(s) == ClosedSome(object, s)
<1>0. object[c].proto \in DOMAIN Proto
  BY DEF HeapOK, ObjectOK, Live
<1>1. PICK after :
        /\ after[0] = st
        /\ \A n \in 1 .. N : after[n] = IF descs[n].instack
                                        THEN Close(after[n - 1], object[c].upvalues[n])
                                        ELSE after[n - 1]
        /\ CloseCaptured(st, c) = after[N]
  BY <1>0, CloseCapturedLoops
<1>2. N \in Nat
  BY <1>0, VMAssumption
<1>3. \A n \in 1 .. N : descs[n].instack =>
        LET u == object[c].upvalues[n]
        IN u \in DOMAIN object /\ object[u].kind = "upvalue" /\ u # ENV
  <2>1. Captured(object, object[c], UpvalueCount(object[c].proto))
    BY DEF HeapOK, Live
  <2>2. N <= UpvalueCount(object[c].proto) /\ UpvalueCount(object[c].proto) \in Nat
    BY <1>0, <1>2, UpvaluesAssumption DEF UpvalueCount
  <2>3. \A n \in 1 .. N : n \in 1 .. UpvalueCount(object[c].proto) /\ n <= N
    BY <1>2, <2>2
  <2> QED
    BY <2>1, <2>3 DEF Captured, IsUpvalue
<1> HIDE DEF N, descs
<1>4. Good(after[0])
  BY <1>1
<1>5. \A n \in 0 .. N - 1 : Good(after[n]) => Good(after[n + 1])
  <2> SUFFICES ASSUME NEW n \in 0 .. N - 1, Good(after[n])
               PROVE  Good(after[n + 1])
    OBVIOUS
  <2> DEFINE m == n + 1
  <2>1. m \in 1 .. N /\ m - 1 = n
    BY <1>2
  <2> HIDE DEF m
  <2>2. after[m] = IF descs[m].instack THEN Close(after[n], object[c].upvalues[m])
                   ELSE after[n]
    BY <1>1, <2>1
  <2>3. Good(after[m])
    BY <1>3, <2>1, <2>2, CloseKeepsHeap
  <2> QED
    BY <2>3 DEF m
<1> DEFINE S == {n \in 0 .. N : Good(after[n])}
<1>6. 0 \in S /\ \A n \in 0 .. N - 1 : n \in S => n + 1 \in S
  <2> HIDE DEF Good
  <2> QED
    BY <1>2, <1>4, <1>5
<1>7. 0 .. N \subseteq S
  <2> HIDE DEF S
  <2> QED
    BY <1>2, <1>6, CountingUp
<1>8. Good(after[N])
  <2> HIDE DEF Good
  <2> QED
    BY <1>2, <1>7
<1> QED
  BY <1>1, <1>8

(* closeUpvals, from whatever register on: what it closes is not the       *)
(* environment's upvalue.                                                  *)
LEMMA CloseUpvalsKeepsHeap ==
  ASSUME HeapOK(object, lastUpval, {}), NEW Rst \in Int, CloseEnd \in Int
  PROVE  ClosedSome(object, CloseUpvals(Rst))
<1> DEFINE N == Registers(Rst)
           Good(s) == ClosedSome(object, s)
<1>1. PICK after :
        /\ after[0] = [object |-> object, last |-> lastUpval, gray |-> gray]
        /\ \A n \in 1 .. N : after[n] = IF IsClosure(stack[Rst + n - 1])
                                        THEN CloseCaptured(after[n - 1], stack[Rst + n - 1])
                                        ELSE after[n - 1]
        /\ CloseUpvals(Rst) = after[N]
  BY CloseUpvalsLoops
<1>2. N \in Nat
  BY CloseUpvalsLoops
<1> HIDE DEF N
<1>3. Good(after[0])
  BY <1>1, SameIsSame DEF Closing, ClosedSome
<1>4. \A n \in 0 .. N - 1 : Good(after[n]) => Good(after[n + 1])
  <2> SUFFICES ASSUME NEW n \in 0 .. N - 1, Good(after[n])
               PROVE  Good(after[n + 1])
    OBVIOUS
  <2> DEFINE c == stack[Rst + (n + 1) - 1]
  <2>1. after[n + 1] = IF IsClosure(c) THEN CloseCaptured(after[n], c) ELSE after[n]
    BY <1>1, <1>2
  <2>2. IsClosure(c) => c \in Live /\ object[c].kind = "closure"
    BY DEF IsClosure, Is
  <2> HIDE DEF c
  <2> QED
    BY <2>1, <2>2, CloseCapturedKeepsHeap
<1> DEFINE S == {n \in 0 .. N : Good(after[n])}
<1>5. 0 \in S /\ \A n \in 0 .. N - 1 : n \in S => n + 1 \in S
  <2> HIDE DEF Good
  <2> QED
    BY <1>2, <1>3, <1>4
<1>6. 0 .. N \subseteq S
  <2> HIDE DEF S
  <2> QED
    BY <1>2, <1>5, CountingUp
<1>7. Good(after[N])
  <2> HIDE DEF Good
  <2> QED
    BY <1>2, <1>6
<1> QED
  BY <1>1, <1>7

(* The links between the open upvalues are all that the list is made of.   *)
LEMMA SameLinksSameList ==
  ASSUME NEW before, NEW after, NEW last, NEW N, NEW list,
         Linked(before, last, N, list), OpenIn(after) = OpenIn(before),
         \A w \in OpenIn(before) :
           after[w].next = before[w].next /\ after[w].prev = before[w].prev
  PROVE  Linked(after, last, N, list)
<1>1. \A k \in 1 .. N : list[k] \in OpenIn(before)
  BY DEF Linked
<1>2. /\ \A k \in 1 .. N : after[list[k]].next = before[list[k]].next
      /\ \A k \in 1 .. N : after[list[k]].prev = before[list[k]].prev
  BY <1>1
<1> QED
  BY <1>2 DEF Linked

LEMMA FirstFreeIsFree ==
  ASSUME NEW objects, FreeAddresses(objects) # {}
  PROVE  FirstFree(objects) \in FreeAddresses(objects)
<1>1. FreeAddresses(objects) \subseteq Nat
  BY VMAssumption DEF FreeAddresses, Addresses
<1>2. \E a \in FreeAddresses(objects) : \A b \in FreeAddresses(objects) : a <= b
  BY <1>1, LeastNatural
<1> QED
  BY <1>2 DEF FirstFree

(* The upvalues stay as they are, and no other objects become upvalues.    *)
SameUpvalues(before, after) ==
  /\ DOMAIN before \subseteq DOMAIN after /\ DOMAIN after \subseteq Addresses
  /\ \A a \in DOMAIN before :
       /\ after[a].kind = before[a].kind
       /\ before[a].kind = "upvalue" => after[a] = before[a]
  /\ \A a \in DOMAIN after \ DOMAIN before : after[a].kind # "upvalue"

LEMMA SameUpvaluesSameList ==
  ASSUME NEW before, NEW after, SameUpvalues(before, after), EnvironmentOK(before),
         NEW last, NEW N, NEW list, Linked(before, last, N, list)
  PROVE  /\ OpenIn(after) = OpenIn(before)
         /\ \A u \in OpenIn(before) : after[u] = before[u]
         /\ Linked(after, last, N, list) /\ EnvironmentOK(after)
<1>1. \A u \in OpenIn(before) : after[u] = before[u]
  BY DEF OpenIn, SameUpvalues
<1>2. OpenIn(after) = OpenIn(before)
  <2>1. ASSUME NEW u \in OpenIn(after) PROVE u \in OpenIn(before)
    BY DEF OpenIn, SameUpvalues
  <2>2. ASSUME NEW u \in OpenIn(before) PROVE u \in OpenIn(after)
    BY DEF OpenIn, SameUpvalues
  <2> QED
    BY <2>1, <2>2
<1>3. Linked(after, last, N, list)
  BY <1>1, <1>2, SameLinksSameList
<1>4. ENV \in OpenIn(before)
  BY DEF Linked
<1> QED
  BY <1>1, <1>2, <1>3, <1>4 DEF EnvironmentOK

(* A new upvalue at the head of the list.                                  *)
Headed(objects, last, u, s, home) ==
  [With(objects, u, NewUpval(s, last, home)) EXCEPT ![last].prev = u]

IsHeaded(objects, last, u, o, t) ==
  /\ DOMAIN t = DOMAIN objects \cup {u}
  /\ t[u] = o
  /\ t[last] = [objects[last] EXCEPT !.prev = u]
  /\ \A a \in DOMAIN objects \ {last} : t[a] = objects[a]

LEMMA HeadedIs ==
  ASSUME NEW objects, NEW last \in DOMAIN objects, NEW u, u \notin DOMAIN objects,
         NEW s, NEW home
  PROVE  IsHeaded(objects, last, u, NewUpval(s, last, home),
                  Headed(objects, last, u, s, home))
<1> DEFINE w == With(objects, u, NewUpval(s, last, home))
           t == Headed(objects, last, u, s, home)
<1>1. /\ DOMAIN w = DOMAIN objects \cup {u} /\ w[u] = NewUpval(s, last, home)
      /\ \A a \in DOMAIN objects : w[a] = objects[a]
  BY DEF With
<1>2. t = [w EXCEPT ![last].prev = u]
  BY DEF Headed
<1>3. last # u
  OBVIOUS
<1> HIDE DEF t, w
<1>4. DOMAIN t = DOMAIN w /\ t[last] = [w[last] EXCEPT !.prev = u]
      /\ \A a \in DOMAIN w \ {last} : t[a] = w[a]
  BY <1>1, <1>2
<1>5. /\ DOMAIN t = DOMAIN objects \cup {u}
      /\ t[u] = NewUpval(s, last, home)
      /\ t[last] = [objects[last] EXCEPT !.prev = u]
      /\ \A a \in DOMAIN objects \ {last} : t[a] = objects[a]
  BY <1>1, <1>3, <1>4
<1> QED
  BY <1>5 DEF t, IsHeaded

(* What a new upvalue u for slot s leaves of the others.                   *)
Prepended(before, after, u, s, home) ==
  /\ DOMAIN after = DOMAIN before \cup {u} /\ DOMAIN after \subseteq Addresses
  /\ \A a \in DOMAIN after : ObjectOK(after[a])
  /\ after[u].kind = "upvalue" /\ after[u].voPointer = s /\ after[u].home = home
  /\ \A a \in DOMAIN before :
       /\ after[a].kind = before[a].kind
       /\ before[a].kind # "upvalue" => after[a] = before[a]
       /\ before[a].kind = "upvalue" =>
            after[a].home = before[a].home /\ after[a].voPointer = before[a].voPointer
  /\ OpenIn(after) = OpenIn(before) \cup {u}

LEMMA ListHeaded ==
  ASSUME NEW objects, NEW last, NEW new, HeapOK(objects, last, new),
         NEW u \in FreeAddresses(objects), NEW s \in Nat \ {0}, NEW home
  PROVE  /\ Prepended(objects, Headed(objects, last, u, s, home), u, s, home)
         /\ HeapOK(Headed(objects, last, u, s, home), u, new)
<1> DEFINE t == Headed(objects, last, u, s, home)
<1>1. PICK N, list : Linked(objects, last, N, list)
  BY DEF HeapOK
<1>2. /\ N \in Nat \ {0} /\ last = list[1] /\ list[N] = ENV
      /\ \A k \in 1 .. N : list[k] \in OpenIn(objects)
      /\ \A w \in OpenIn(objects) : \E k \in 1 .. N : list[k] = w
      /\ \A j, k \in 1 .. N : j # k => list[j] # list[k]
      /\ \A k \in 1 .. N : objects[list[k]].next = IF k = N THEN NULL ELSE list[k + 1]
      /\ \A k \in 1 .. N : objects[list[k]].prev = IF k = 1 THEN NULL ELSE list[k - 1]
  BY <1>1 DEF Linked
<1>3. /\ DOMAIN objects \subseteq Addresses
      /\ \A a \in DOMAIN objects : ObjectOK(objects[a])
      /\ EnvironmentOK(objects)
      /\ u \in Addresses /\ u \notin DOMAIN objects /\ s # NULL
  BY DEF HeapOK, FreeAddresses, NULL
<1>4. last \in OpenIn(objects) /\ last \in DOMAIN objects /\ objects[last].kind = "upvalue"
      /\ objects[last].voPointer # NULL /\ last # u
  <2>1. 1 \in 1 .. N
    BY <1>2
  <2> QED
    BY <1>2, <1>3, <2>1 DEF OpenIn
<1>5. /\ DOMAIN t = DOMAIN objects \cup {u}
      /\ t[u] = NewUpval(s, last, home)
      /\ t[last] = [objects[last] EXCEPT !.prev = u]
      /\ \A a \in DOMAIN objects \ {last} : t[a] = objects[a]
  <2>1. IsHeaded(objects, last, u, NewUpval(s, last, home), t)
    BY <1>3, <1>4, HeadedIs
  <2> QED
    BY <2>1 DEF IsHeaded
<1> HIDE DEF t
<1>6. /\ DOMAIN t[last] = UpvalueFields /\ t[last].kind = "upvalue" /\ t[last].prev = u
      /\ t[last].home = objects[last].home /\ t[last].voPointer = objects[last].voPointer
      /\ t[last].next = objects[last].next
  <2>1. DOMAIN objects[last] = UpvalueFields
    BY <1>3, <1>4 DEF ObjectOK
  <2> QED
    BY <1>4, <1>5, <2>1 DEF UpvalueFields
<1>7. /\ DOMAIN t[u] = UpvalueFields /\ t[u].kind = "upvalue" /\ t[u].prev = NULL
      /\ t[u].next = last /\ t[u].voPointer = s /\ t[u].home = home
  BY <1>5 DEF NewUpval, UpvalueFields
<1>8. \A a \in DOMAIN t : ObjectOK(t[a])
  <2> SUFFICES ASSUME NEW a \in DOMAIN t PROVE ObjectOK(t[a])
    OBVIOUS
  <2>1. CASE a \in {u, last}
    BY <1>6, <1>7, <2>1 DEF ObjectOK, UpvalueFields
  <2>2. CASE a \notin {u, last}
    BY <1>3, <1>5, <2>2
  <2> QED
    BY <2>1, <2>2
<1>9. \A a \in DOMAIN objects :
        /\ t[a].kind = objects[a].kind
        /\ objects[a].kind # "upvalue" => t[a] = objects[a]
        /\ objects[a].kind = "upvalue" =>
             t[a].home = objects[a].home /\ t[a].voPointer = objects[a].voPointer
        /\ t[a].kind = "upvalue" => t[a].next = objects[a].next
        /\ a # last => t[a].prev = objects[a].prev
  <2> SUFFICES ASSUME NEW a \in DOMAIN objects
               PROVE  /\ t[a].kind = objects[a].kind
                      /\ objects[a].kind # "upvalue" => t[a] = objects[a]
                      /\ objects[a].kind = "upvalue" =>
                           t[a].home = objects[a].home /\ t[a].voPointer = objects[a].voPointer
                      /\ t[a].kind = "upvalue" => t[a].next = objects[a].next
                      /\ a # last => t[a].prev = objects[a].prev
    OBVIOUS
  <2>1. CASE a = last
    BY <1>4, <1>6, <2>1
  <2>2. CASE a # last
    BY <1>5, <2>2
  <2> QED
    BY <2>1, <2>2
<1>10. OpenIn(t) = OpenIn(objects) \cup {u}
  <2>1. ASSUME NEW a \in DOMAIN objects
        PROVE  (t[a].kind = "upvalue" /\ t[a].voPointer # NULL)
                 <=> objects[a].kind = "upvalue" /\ objects[a].voPointer # NULL
    BY <1>9
  <2> QED
    BY <1>3, <1>5, <1>7, <2>1 DEF OpenIn
<1>11. Prepended(objects, t, u, s, home)
  BY <1>3, <1>5, <1>7, <1>8, <1>9, <1>10 DEF Prepended
<1> DEFINE M == N + 1
           l == [k \in 1 .. M |-> IF k = 1 THEN u ELSE list[k - 1]]
<1>12. /\ M \in Nat \ {0} /\ M \in 1 .. M /\ M # 1 /\ M - 1 = N
       /\ \A k \in 1 .. M : k # 1 => k - 1 \in 1 .. N
       /\ \A k \in 1 .. N : k + 1 \in 1 .. M /\ k + 1 # 1 /\ k + 1 - 1 = k
       /\ \A k \in 1 .. M : k # M => k + 1 \in 1 .. M /\ k + 1 # 1 /\ k + 1 - 1 = k
       /\ \A k \in 1 .. M : k # 1 => (k = M) = (k - 1 = N)
       /\ \A j, k \in 1 .. M : j # k => j - 1 # k - 1
       /\ 1 \in 1 .. M
  BY <1>2
<1>13. DOMAIN l = 1 .. M /\ l[1] = u /\ (\A k \in 1 .. M : k # 1 => l[k] = list[k - 1])
       /\ l = [k \in 1 .. M |-> l[k]]
  BY <1>12
<1> HIDE DEF l, M
<1>14. ASSUME NEW k \in 1 .. M PROVE l[k] \in OpenIn(t)
  <2>1. CASE k = 1
    BY <1>10, <1>13, <2>1
  <2>2. CASE k # 1
    <3>1. k - 1 \in 1 .. N /\ l[k] = list[k - 1]
      BY <1>12, <1>13, <2>2
    <3> QED
      BY <1>2, <1>10, <3>1
  <2> QED
    BY <2>1, <2>2
<1>15. ASSUME NEW w \in OpenIn(t) PROVE \E k \in 1 .. M : l[k] = w
  <2>1. CASE w = u
    BY <1>12, <1>13, <2>1
  <2>2. CASE w # u
    <3>1. PICK k \in 1 .. N : list[k] = w
      BY <1>2, <1>10, <2>2
    <3>2. l[k + 1] = w /\ k + 1 \in 1 .. M
      BY <1>12, <1>13, <3>1
    <3> QED
      BY <3>2
  <2> QED
    BY <2>1, <2>2
<1>16. ASSUME NEW j \in 1 .. M, NEW k \in 1 .. M, j # k PROVE l[j] # l[k]
  <2>1. \A i \in 1 .. N : list[i] # u
    BY <1>2, <1>3 DEF OpenIn
  <2>0. \A i \in 1 .. M : i # 1 => l[i] # u
    <3> SUFFICES ASSUME NEW i \in 1 .. M, i # 1 PROVE l[i] # u
      OBVIOUS
    <3>1. i - 1 \in 1 .. N /\ l[i] = list[i - 1]
      BY <1>12, <1>13
    <3> QED
      BY <2>1, <3>1
  <2>2. CASE j = 1
    BY <1>13, <1>16, <2>0, <2>2
  <2>3. CASE k = 1
    BY <1>13, <1>16, <2>0, <2>3
  <2>4. CASE j # 1 /\ k # 1
    <3> DEFINE a == j - 1
               b == k - 1
    <3>1. a \in 1 .. N /\ b \in 1 .. N /\ a # b
      BY <1>12, <1>16, <2>4
    <3>2. l[j] = list[a] /\ l[k] = list[b]
      BY <1>13, <2>4
    <3> HIDE DEF a, b
    <3>3. list[a] # list[b]
      BY <1>2, <3>1
    <3> QED
      BY <3>2, <3>3
  <2> QED
    BY <2>2, <2>3, <2>4
<1>17. l[M] = ENV
  BY <1>2, <1>12, <1>13
<1>18. ASSUME NEW k \in 1 .. M
       PROVE  t[l[k]].next = IF k = M THEN NULL ELSE l[k + 1]
  <2>1. CASE k = 1
    <3>1. k # M /\ l[k + 1] = list[1]
      <4> DEFINE q == k + 1
      <4>1. k # M /\ q \in 1 .. M /\ q # 1 /\ q - 1 = k
        BY <1>12, <2>1
      <4> HIDE DEF q
      <4>2. l[q] = list[1]
        BY <1>13, <2>1, <4>1
      <4> QED
        BY <4>1, <4>2 DEF q
    <3> QED
      BY <1>2, <1>7, <1>13, <2>1, <3>1
  <2>2. CASE k # 1
    <3> DEFINE j == k - 1
    <3>1. j \in 1 .. N /\ l[k] = list[j] /\ (k = M) = (j = N)
      BY <1>12, <1>13, <2>2
    <3>2. k # M => l[k + 1] = list[j + 1]
      <4>1. j + 1 = k
        OBVIOUS
      <4> QED
        BY <1>12, <1>13, <4>1
    <3> HIDE DEF j
    <3>3. list[j] \in DOMAIN objects /\ objects[list[j]].kind = "upvalue"
      BY <1>2, <3>1 DEF OpenIn
    <3>4. t[list[j]].next = objects[list[j]].next
      BY <1>9, <3>3
    <3> QED
      BY <1>2, <3>1, <3>2, <3>4
  <2> QED
    BY <2>1, <2>2
<1>19. ASSUME NEW k \in 1 .. M
       PROVE  t[l[k]].prev = IF k = 1 THEN NULL ELSE l[k - 1]
  <2>1. CASE k = 1
    BY <1>7, <1>13, <2>1
  <2>2. CASE k = 2
    <3>1. 1 \in 1 .. N /\ k # 1 /\ k - 1 = 1
      BY <1>2, <2>2
    <3>2. l[k] = last /\ l[k - 1] = u
      BY <1>2, <1>13, <3>1
    <3>3. t[l[k]].prev = u
      BY <1>6, <3>2
    <3>4. (IF k = 1 THEN NULL ELSE l[k - 1]) = u
      BY <3>1, <3>2
    <3> QED
      BY <3>3, <3>4
  <2>3. CASE k # 1 /\ k # 2
    <3> DEFINE j == k - 1
    <3>0. j \in 1 .. N /\ j # 1 /\ j \in 1 .. M /\ j - 1 \in 1 .. N
      BY <1>2, <1>12, <2>3
    <3>1. j \in 1 .. N /\ l[k] = list[j] /\ j # 1 /\ j \in 1 .. M /\ j - 1 \in 1 .. N
      BY <1>13, <2>3, <3>0
    <3> HIDE DEF j
    <3>2. l[j] = list[j - 1]
      BY <1>13, <3>1
    <3>3. 1 \in 1 .. N
      BY <1>2
    <3>4. list[j] # last /\ list[j] \in DOMAIN objects
      BY <1>2, <3>1, <3>3 DEF OpenIn
    <3>5. t[list[j]].prev = list[j - 1]
      BY <1>2, <1>9, <3>1, <3>4
    <3> QED
      BY <2>3, <3>1, <3>2, <3>5 DEF j
  <2> QED
    BY <2>1, <2>2, <2>3
<1>20. Linked(t, u, M, l)
  BY <1>12, <1>13, <1>14, <1>15, <1>16, <1>17, <1>18, <1>19 DEF Linked
<1>21. EnvironmentOK(t)
  <2>1. ENV \in OpenIn(objects) /\ ENV \in DOMAIN objects /\ ENV # u
    <3>1. N \in 1 .. N
      BY <1>2
    <3> QED
      BY <1>2, <1>3, <3>1 DEF OpenIn
  <2>2. \A w \in OpenIn(objects) : t[w].voPointer = objects[w].voPointer
    BY <1>9 DEF OpenIn
  <2> QED
    BY <1>3, <1>7, <1>10, <2>1, <2>2 DEF EnvironmentOK
<1>22. ASSUME NEW a \in DOMAIN t \ new, t[a].kind = "closure"
       PROVE  Captured(t, t[a], UpvalueCount(t[a].proto))
  <2>1. a \in DOMAIN objects /\ objects[a].kind = "closure" /\ t[a] = objects[a]
    BY <1>5, <1>7, <1>9, <1>22
  <2>2. Captured(objects, objects[a], UpvalueCount(objects[a].proto))
    BY <1>22, <2>1 DEF HeapOK
  <2>3. \A b \in DOMAIN objects : b \in DOMAIN t /\ t[b].kind = objects[b].kind
    BY <1>5, <1>9
  <2>4. Captured(t, objects[a], UpvalueCount(objects[a].proto))
    BY <2>2, <2>3, CapturedStays
  <2> QED
    BY <2>1, <2>4
<1>23. HeapOK(t, u, new)
  BY <1>3, <1>5, <1>8, <1>20, <1>21, <1>22 DEF HeapOK
<1> QED
  BY <1>11, <1>23 DEF t

LEMMA SameUpvaluesSameHeap ==
  ASSUME NEW before, NEW after, SameUpvalues(before, after),
         NEW last, NEW new, HeapOK(before, last, new),
         \A a \in DOMAIN after : ObjectOK(after[a]),
         \A a \in DOMAIN after \ new :
           after[a].kind = "closure" => a \in DOMAIN before /\ after[a] = before[a]
  PROVE  HeapOK(after, last, new)
<1>1. PICK N, list : Linked(before, last, N, list)
  BY DEF HeapOK
<1>2. EnvironmentOK(before)
  BY DEF HeapOK
<1>3. Linked(after, last, N, list) /\ EnvironmentOK(after)
  BY <1>1, <1>2, SameUpvaluesSameList
<1>4. ASSUME NEW a \in DOMAIN after \ new, after[a].kind = "closure"
      PROVE  Captured(after, after[a], UpvalueCount(after[a].proto))
  <2>1. a \in DOMAIN before /\ after[a] = before[a]
    BY <1>4
  <2>2. Captured(before, before[a], UpvalueCount(before[a].proto))
    BY <1>4, <2>1 DEF HeapOK
  <2>3. \A b \in DOMAIN before : b \in DOMAIN after /\ after[b].kind = before[b].kind
    BY DEF SameUpvalues
  <2>4. Captured(after, before[a], UpvalueCount(before[a].proto))
    BY <2>2, <2>3, CapturedStays
  <2> QED
    BY <2>1, <2>4
<1>5. DOMAIN after \subseteq Addresses
  BY DEF SameUpvalues
<1> QED
  BY <1>3, <1>4, <1>5 DEF HeapOK

(* The new closure gets one upvalue more.                                  *)
Pushed(objects, c, v) == [objects EXCEPT ![c].upvalues = Append(@, v)]

IsPushed(objects, c, v, t) ==
  /\ SameUpvalues(objects, t)
  /\ DOMAIN t = DOMAIN objects /\ \A a \in DOMAIN objects \ {c} : t[a] = objects[a]
  /\ t[c].kind = "closure" /\ t[c].proto = objects[c].proto
  /\ t[c].upvalues = Append(objects[c].upvalues, v)

LEMMA PushKeepsHeap ==
  ASSUME NEW objects, NEW last, NEW c \in DOMAIN objects, HeapOK(objects, last, {c}),
         objects[c].kind = "closure", NEW v
  PROVE  /\ HeapOK(Pushed(objects, c, v), last, {c})
         /\ IsPushed(objects, c, v, Pushed(objects, c, v))
<1> DEFINE t == Pushed(objects, c, v)
           o == objects[c]
<1>1. /\ o = [kind |-> "closure", proto |-> o.proto, upvalues |-> o.upvalues]
      /\ o.proto \in DOMAIN Proto
      /\ IsList(o.upvalues) /\ DOMAIN objects \subseteq Addresses
      /\ \A a \in DOMAIN objects : ObjectOK(objects[a])
  BY DEF HeapOK, ObjectOK
<1>2. /\ DOMAIN t = DOMAIN objects /\ \A a \in DOMAIN objects \ {c} : t[a] = objects[a]
      /\ t[c] = [o EXCEPT !.upvalues = Append(@, v)]
  BY DEF Pushed
<1> HIDE DEF t
<1>3. /\ t[c] = [kind |-> "closure", proto |-> o.proto, upvalues |-> Append(o.upvalues, v)]
      /\ t[c].kind = "closure"
      /\ t[c].proto = o.proto /\ t[c].upvalues = Append(o.upvalues, v)
  <2> DEFINE w == Append(o.upvalues, v)
  <2>1. t[c] = [o EXCEPT !.upvalues = w]
    BY <1>2
  <2> HIDE DEF w
  <2>2. t[c] = [kind |-> "closure", proto |-> o.proto, upvalues |-> w]
    BY <1>1, <2>1
  <2> QED
    BY <2>2 DEF w
<1>4. IsList(t[c].upvalues)
  BY <1>1, <1>3, ListExtended
<1>5. \A a \in DOMAIN t : ObjectOK(t[a])
  <2>1. ObjectOK(t[c])
    BY <1>1, <1>3, <1>4 DEF ObjectOK
  <2> QED
    BY <1>1, <1>2, <2>1
<1>6. SameUpvalues(objects, t)
  BY <1>1, <1>2, <1>3 DEF SameUpvalues
<1>7. HeapOK(t, last, {c})
  BY <1>2, <1>5, <1>6, SameUpvaluesSameHeap
<1>8. IsPushed(objects, c, v, t)
  BY <1>2, <1>3, <1>6 DEF IsPushed
<1> QED
  BY <1>7, <1>8 DEF t

(* Only one open upvalue for each register.                                *)
OneEach(objects) ==
  \A u, v \in OpenIn(objects) : objects[u].voPointer = objects[v].voPointer => u = v

(* What the loop of OP_CLOSURE leaves of the objects that there were.      *)
Grown(before, after) ==
  \A a \in DOMAIN before :
    /\ a \in DOMAIN after /\ after[a].kind = before[a].kind
    /\ before[a].kind = "closure" => after[a] = before[a]
    /\ before[a].kind = "upvalue" =>
         after[a].home = before[a].home /\ after[a].voPointer = before[a].voPointer

(* The loop after n descriptors of the new closure c of f.                 *)
CapturedSome(f, c, n, st) ==
  /\ st = [object |-> st.object, last |-> st.last, full |-> st.full]
  /\ HeapOK(st.object, st.last, {c})
  /\ c \in DOMAIN st.object /\ st.object[c].kind = "closure" /\ st.object[c].proto = f
  /\ st.full \in BOOLEAN
  /\ ~st.full => Len(st.object[c].upvalues) = n /\ Captured(st.object, st.object[c], n)
  /\ Grown(object, st.object)
  /\ OneEach(object) => OneEach(st.object)

LEMMA PushedSome ==
  ASSUME NEW f \in DOMAIN Proto, NEW c, c \notin DOMAIN object, NEW n \in Nat,
         NEW objects, NEW last, NEW full, full \in BOOLEAN,
         HeapOK(objects, last, {c}),
         c \in DOMAIN objects, objects[c].kind = "closure", objects[c].proto = f,
         ~full => Len(objects[c].upvalues) = n /\ Captured(objects, objects[c], n),
         Grown(object, objects),
         OneEach(object) => OneEach(objects),
         NEW v, IsUpvalue(objects, v),
         Proto[f].upvalues[n + 1].instack => v # ENV
  PROVE  CapturedSome(f, c, n + 1,
                      [object |-> Pushed(objects, c, v), last |-> last, full |-> full])
<1> DEFINE t == Pushed(objects, c, v)
           s == [object |-> t, last |-> last, full |-> full]
<1>1. /\ HeapOK(t, last, {c}) /\ SameUpvalues(objects, t)
      /\ DOMAIN t = DOMAIN objects /\ \A a \in DOMAIN objects \ {c} : t[a] = objects[a]
      /\ t[c].kind = "closure" /\ t[c].proto = objects[c].proto
      /\ t[c].upvalues = Append(objects[c].upvalues, v)
  <2>1. HeapOK(t, last, {c}) /\ IsPushed(objects, c, v, t)
    BY PushKeepsHeap
  <2> HIDE DEF t
  <2> QED
    BY <2>1 DEF IsPushed
<1> HIDE DEF t
<1>2. ASSUME ~full PROVE Len(t[c].upvalues) = n + 1 /\ Captured(t, t[c], n + 1)
  <2> DEFINE up == objects[c].upvalues
             w == t[c].upvalues
             m == n + 1
  <2>1. IsList(up)
    BY DEF HeapOK, ObjectOK
  <2>2. Len(up) = n /\ \A k \in 1 .. n : IsUpvalue(objects, up[k])
    BY <1>2 DEF Captured
  <2>3. \A k \in 1 .. n :
          k <= Len(Proto[f].upvalues) /\ Proto[f].upvalues[k].instack => up[k] # ENV
    BY <1>2 DEF Captured
  <2>4. w = Append(up, v)
    BY <1>1
  <2>5. \A b : IsUpvalue(objects, b) => IsUpvalue(t, b)
    BY <1>1 DEF IsUpvalue, SameUpvalues
  <2>6. t[c].proto = f
    BY <1>1
  <2> HIDE DEF up, w
  <2>7. Len(w) = m /\ w[m] = v /\ \A k \in 1 .. n : w[k] = up[k]
    BY <2>1, <2>2, <2>4, ListExtended
  <2>8. \A k \in 1 .. m : k = m \/ k \in 1 .. n
    OBVIOUS
  <2>9. Proto[f].upvalues[m].instack => v # ENV
    OBVIOUS
  <2> HIDE DEF m
  <2>10. \A k \in 1 .. m : IsUpvalue(t, w[k])
    BY <2>2, <2>5, <2>7, <2>8
  <2>11. \A k \in 1 .. m :
           k <= Len(Proto[f].upvalues) /\ Proto[f].upvalues[k].instack => w[k] # ENV
    BY <2>3, <2>7, <2>8, <2>9
  <2>12. Len(w) >= m
    BY <2>7 DEF m
  <2>13. Captured(t, t[c], m)
    BY <2>6, <2>10, <2>11, <2>12 DEF Captured, w
  <2> QED
    BY <2>7, <2>13 DEF w, m
<1>3. OpenIn(t) = OpenIn(objects) /\ \A u \in OpenIn(objects) : t[u] = objects[u]
  <2>1. PICK N, list : Linked(objects, last, N, list)
    BY DEF HeapOK
  <2>2. EnvironmentOK(objects)
    BY DEF HeapOK
  <2> QED
    BY <1>1, <2>1, <2>2, SameUpvaluesSameList
<1>4. Grown(object, t)
  BY <1>1 DEF Grown
<1>5. OneEach(object) => OneEach(t)
  BY <1>3 DEF OneEach
<1>6. /\ s = [object |-> s.object, last |-> s.last, full |-> s.full]
      /\ s.object = t /\ s.last = last /\ s.full = full
  OBVIOUS
<1> HIDE DEF s
<1>7. CapturedSome(f, c, n + 1, s)
  BY <1>1, <1>2, <1>4, <1>5, <1>6 DEF CapturedSome
<1> QED
  BY <1>7 DEF s, t

(* The running closure's upvalues, which the descriptors refer to.         *)
LEMMA CaptureKeepsHeap ==
  ASSUME NEW f \in DOMAIN Proto, NEW c, c \notin DOMAIN object, NEW n \in Nat,
         NEW st, CapturedSome(f, c, n, st),
         NEW desc, desc = Proto[f].upvalues[n + 1], desc.instack \in BOOLEAN,
         desc.idx \in Nat, Top.base \in Nat \ {0},
         ~desc.instack => IsUpvalue(object, Upvalue(desc.idx))
  PROVE  CapturedSome(f, c, n + 1, Capture(st, c, desc))
<1> DEFINE objects == st.object
           last == st.last
           s == Top.base + desc.idx
           found == FindUpval(objects, last, s)
           u == FirstFree(objects)
           home == [frame |-> Top.id, idx |-> desc.idx]
<1>1. /\ HeapOK(objects, last, {c})
      /\ c \in DOMAIN objects /\ objects[c].kind = "closure" /\ objects[c].proto = f
      /\ st.full \in BOOLEAN
      /\ ~st.full => Len(objects[c].upvalues) = n /\ Captured(objects, objects[c], n)
      /\ Grown(object, objects)
      /\ OneEach(object) => OneEach(objects)
  BY DEF CapturedSome
<1>2. s \in Nat \ {0}
  OBVIOUS
<1>3. PICK N, list : Linked(objects, last, N, list)
  BY <1>1 DEF HeapOK
<1>4. DOMAIN objects \subseteq Addresses /\ EnvironmentOK(objects) /\ NULL \notin DOMAIN objects
  BY <1>1 DEF HeapOK, Addresses, NULL
<1>5. last # NULL /\ last \in OpenIn(objects)
  BY <1>3, <1>4 DEF Linked, OpenIn
<1>6. st = [object |-> objects, last |-> last, full |-> st.full]
  BY DEF CapturedSome
<1> HIDE DEF s
<1>7. CASE ~desc.instack
  <2>1. Capture(st, c, desc) = [st EXCEPT !.object = Pushed(@, c, Upvalue(desc.idx))]
    BY <1>7 DEF Capture, Pushed
  <2>2. Capture(st, c, desc) = [object |-> Pushed(objects, c, Upvalue(desc.idx)),
                                last |-> last, full |-> st.full]
    BY <1>1, <2>1, <1>6
  <2>3. IsUpvalue(objects, Upvalue(desc.idx))
    BY <1>1, <1>7 DEF IsUpvalue, Grown
  <2> DEFINE v == Upvalue(desc.idx)
  <2>4. Proto[f].upvalues[n + 1].instack => v # ENV
    BY <1>7
  <2> HIDE DEF v
  <2>5. CapturedSome(f, c, n + 1,
                     [object |-> Pushed(objects, c, v), last |-> last, full |-> st.full])
    BY <1>1, <2>3, <2>4, PushedSome DEF v
  <2> QED
    BY <2>2, <2>5 DEF v
<1>8. CASE desc.instack /\ found # NULL
  <2>1. Capture(st, c, desc) = [st EXCEPT !.object = Pushed(@, c, found)]
    BY <1>8 DEF Capture, Pushed, s
  <2>2. Capture(st, c, desc) = [object |-> Pushed(objects, c, found),
                                last |-> last, full |-> st.full]
    BY <1>1, <2>1, <1>6
  <2>3. found \in OpenIn(objects) /\ objects[found].voPointer = s
    BY <1>3, <1>4, <1>8, FoundIsOpen
  <2>4. IsUpvalue(objects, found) /\ found # ENV
    BY <1>2, <1>4, <2>3 DEF OpenIn, IsUpvalue, EnvironmentOK
  <2> HIDE DEF found
  <2>5. CapturedSome(f, c, n + 1,
                     [object |-> Pushed(objects, c, found), last |-> last, full |-> st.full])
    BY <1>1, <2>4, PushedSome
  <2> QED
    BY <2>2, <2>5
<1>9. CASE desc.instack /\ found = NULL /\ FreeAddresses(objects) = {}
  <2> DEFINE r == Capture(st, c, desc)
  <2>1. r = [st EXCEPT !.full = TRUE]
    BY <1>9 DEF Capture, s
  <2>2. /\ r = [object |-> r.object, last |-> r.last, full |-> r.full]
        /\ r.object = objects /\ r.last = last /\ r.full = TRUE
    BY <1>6, <2>1
  <2> HIDE DEF r
  <2>3. CapturedSome(f, c, n + 1, r)
    BY <1>1, <2>2 DEF CapturedSome
  <2> QED
    BY <2>3 DEF r
<1>10. CASE desc.instack /\ found = NULL /\ FreeAddresses(objects) # {}
  <2> DEFINE t == Headed(objects, last, u, s, home)
             r == Capture(st, c, desc)
  <2>1. r = [object |-> Pushed(t, c, u), last |-> u, full |-> st.full]
    BY <1>5, <1>10 DEF Capture, Pushed, Headed, s
  <2>2. u \in FreeAddresses(objects)
    BY <1>10, FirstFreeIsFree
  <2>3. Prepended(objects, t, u, s, home) /\ HeapOK(t, u, {c})
    BY <1>1, <1>2, <2>2, ListHeaded
  <2>4. \A v \in OpenIn(objects) : objects[v].voPointer # s
    BY <1>3, <1>4, <1>10, FoundIsOpen
  <2> HIDE DEF t, found, r, home
  <2>5. /\ DOMAIN t = DOMAIN objects \cup {u} /\ u \notin DOMAIN objects
        /\ t[u].kind = "upvalue" /\ t[u].voPointer = s /\ t[u].home = home
        /\ \A a \in DOMAIN objects :
             /\ t[a].kind = objects[a].kind
             /\ objects[a].kind # "upvalue" => t[a] = objects[a]
             /\ objects[a].kind = "upvalue" =>
                  t[a].home = objects[a].home /\ t[a].voPointer = objects[a].voPointer
        /\ OpenIn(t) = OpenIn(objects) \cup {u}
    BY <2>2, <2>3 DEF Prepended, FreeAddresses
  <2> HIDE DEF u
  <2>6. Grown(object, t)
    BY <1>1, <2>5 DEF Grown
  <2>7. OneEach(object) => OneEach(t)
    <3> SUFFICES ASSUME OneEach(objects), NEW v \in OpenIn(t), NEW w \in OpenIn(t),
                        t[v].voPointer = t[w].voPointer
                 PROVE  v = w
      BY <1>1 DEF OneEach
    <3>1. \A a \in OpenIn(objects) : t[a].voPointer = objects[a].voPointer
      BY <2>5 DEF OpenIn
    <3> QED
      BY <2>4, <2>5, <3>1 DEF OneEach
  <2>8. /\ c \in DOMAIN t /\ t[c] = objects[c] /\ IsUpvalue(t, u) /\ u # ENV
    <3>1. ENV \in OpenIn(objects)
      BY <1>3 DEF Linked
    <3> QED
      BY <1>1, <2>5, <3>1 DEF IsUpvalue, OpenIn
  <2>9. ASSUME ~st.full
         PROVE  Len(t[c].upvalues) = n /\ Captured(t, t[c], n)
    <3>1. \A a \in DOMAIN objects : a \in DOMAIN t /\ t[a].kind = objects[a].kind
      BY <2>5
    <3>2. Captured(t, objects[c], n)
      BY <1>1, <2>9, <3>1, CapturedStays
    <3> QED
      BY <1>1, <2>8, <2>9, <3>2
  <2>10. CapturedSome(f, c, n + 1, [object |-> Pushed(t, c, u), last |-> u, full |-> st.full])
    BY <1>1, <2>3, <2>6, <2>7, <2>8, <2>9, PushedSome
  <2> QED
    BY <2>1, <2>10 DEF r
<1> QED
  BY <1>7, <1>8, <1>9, <1>10

(* The closures stay as they are, others may come.                         *)
SameClosures(before, after) ==
  \A a \in DOMAIN before :
    before[a].kind = "closure" => a \in DOMAIN after /\ after[a] = before[a]

(* There is still only one open upvalue for each register.                 *)
OneEachStays(before, after) == OneEach(before) => OneEach(after)

LEMMA CapturingKeepsHeap ==
  ASSUME HeapOK(object, lastUpval, {}), FreeAddresses(object) # {},
         NEW f \in DOMAIN Proto, Top.base \in Nat \ {0},
         \A d \in 1 .. Len(Proto[f].upvalues) :
           Proto[f].upvalues[d].instack \/ IsUpvalue(object, Upvalue(Proto[f].upvalues[d].idx))
  PROVE  CapturedSome(f, FirstFree(object), Len(Proto[f].upvalues), Capturing(f))
<1> DEFINE descs == Proto[f].upvalues
           N == Len(descs)
           c == FirstFree(object)
           new == [kind |-> "closure", proto |-> f, upvalues |-> <<>>]
           Good(n, s) == CapturedSome(f, c, n, s)
<1>1. PICK after :
        /\ after[0] = [object |-> With(object, c, new), last |-> lastUpval, full |-> FALSE]
        /\ \A n \in 1 .. N : after[n] = Capture(after[n - 1], c, descs[n])
        /\ Capturing(f) = after[N]
  BY CapturingLoops
<1>2. N \in Nat /\ \A d \in 1 .. N : descs[d].instack \in BOOLEAN /\ descs[d].idx \in Nat
  <2>1. descs \in Seq([instack : BOOLEAN, idx : Nat])
    BY VMAssumption
  <2> HIDE DEF descs
  <2>2. \A d \in 1 .. Len(descs) : descs[d] \in [instack : BOOLEAN, idx : Nat]
    BY <2>1, ElementOfSeq
  <2>3. Len(descs) \in Nat
    BY <2>1
  <2> QED
    BY <2>2, <2>3
<1>3. c \in Addresses /\ c \notin DOMAIN object
  BY FirstFreeIsFree DEF FreeAddresses
<1>4. \A d \in 1 .. N : ~descs[d].instack => IsUpvalue(object, Upvalue(descs[d].idx))
  OBVIOUS
<1> HIDE DEF N, descs, c
<1>5. Good(0, after[0])
  <2> DEFINE t == With(object, c, new)
             s == after[0]
  <2>1. /\ DOMAIN t = DOMAIN object \cup {c} /\ t[c] = new
        /\ \A a \in DOMAIN object : t[a] = object[a]
    BY <1>3 DEF With
  <2>2. DOMAIN object \subseteq Addresses /\ \A a \in DOMAIN object : ObjectOK(object[a])
    BY DEF HeapOK
  <2> HIDE DEF t
  <2>3. IsList(<<>>) /\ Len(<<>>) = 0
    BY DEF IsList
  <2>4. ObjectOK(new) /\ new.kind = "closure" /\ new.proto = f /\ new.upvalues = <<>>
    BY <2>3 DEF ObjectOK
  <2> HIDE DEF new
  <2>5. SameUpvalues(object, t)
    BY <1>3, <2>1, <2>2, <2>4 DEF SameUpvalues
  <2>6. HeapOK(object, lastUpval, {c})
    BY DEF HeapOK
  <2>7. \A a \in DOMAIN t : ObjectOK(t[a])
    BY <2>1, <2>2, <2>4
  <2>8. HeapOK(t, lastUpval, {c})
    BY <2>1, <2>5, <2>6, <2>7, SameUpvaluesSameHeap
  <2>9. PICK M, list : Linked(object, lastUpval, M, list)
    BY DEF HeapOK
  <2>10. EnvironmentOK(object)
    BY DEF HeapOK
  <2>11. OpenIn(t) = OpenIn(object) /\ \A u \in OpenIn(object) : t[u] = object[u]
    BY <2>5, <2>9, <2>10, SameUpvaluesSameList
  <2>12. Grown(object, t)
    BY <2>1 DEF Grown
  <2>13. OneEach(object) => OneEach(t)
    BY <2>11 DEF OneEach
  <2>14. Captured(t, t[c], 0)
    BY <2>1, <2>3, <2>4 DEF Captured
  <2>15. /\ s = [object |-> s.object, last |-> s.last, full |-> s.full]
         /\ s.object = t /\ s.last = lastUpval /\ s.full = FALSE
    BY <1>1 DEF t
  <2> HIDE DEF s
  <2>16. Good(0, s)
    BY <2>1, <2>3, <2>4, <2>8, <2>12, <2>13, <2>14, <2>15 DEF CapturedSome
  <2> QED
    BY <2>16 DEF s
<1>6. \A n \in 0 .. N - 1 : Good(n, after[n]) => Good(n + 1, after[n + 1])
  <2> SUFFICES ASSUME NEW n \in 0 .. N - 1, Good(n, after[n])
               PROVE  Good(n + 1, after[n + 1])
    OBVIOUS
  <2>1. n \in Nat /\ n + 1 \in 1 .. N /\ n + 1 - 1 = n
    BY <1>2
  <2> DEFINE desc == descs[n + 1]
  <2>2. after[n + 1] = Capture(after[n], c, desc)
    BY <1>1, <2>1
  <2>3. /\ desc = Proto[f].upvalues[n + 1] /\ desc.instack \in BOOLEAN /\ desc.idx \in Nat
        /\ ~desc.instack => IsUpvalue(object, Upvalue(desc.idx))
    BY <1>2, <1>4, <2>1 DEF descs
  <2> HIDE DEF desc
  <2>4. CapturedSome(f, c, n + 1, Capture(after[n], c, desc))
    BY <1>3, <2>1, <2>3, CaptureKeepsHeap
  <2> QED
    BY <2>2, <2>4
<1> DEFINE S == {n \in 0 .. N : Good(n, after[n])}
<1>7. 0 \in S /\ \A n \in 0 .. N - 1 : n \in S => n + 1 \in S
  <2> HIDE DEF Good
  <2> QED
    BY <1>2, <1>5, <1>6
<1>8. 0 .. N \subseteq S
  <2> HIDE DEF S
  <2> QED
    BY <1>2, <1>7, CountingUp
<1>9. Good(N, after[N])
  <2> HIDE DEF Good
  <2> QED
    BY <1>2, <1>8
<1> QED
  BY <1>1, <1>9 DEF N, descs, c

(* When the heap had room, the new closure is complete.                    *)
LEMMA CapturedAll ==
  ASSUME NEW f \in DOMAIN Proto \ Chunks, NEW c, c \notin DOMAIN object, NEW st,
         CapturedSome(f, c, Len(Proto[f].upvalues), st), ~st.full
  PROVE  /\ HeapOK(st.object, st.last, {}) /\ SameClosures(object, st.object)
         /\ OneEachStays(object, st.object)
<1>1. /\ HeapOK(st.object, st.last, {c}) /\ st.object[c].proto = f
      /\ Captured(st.object, st.object[c], UpvalueCount(f))
      /\ Grown(object, st.object)
      /\ OneEach(object) => OneEach(st.object)
  BY DEF CapturedSome, UpvalueCount
<1>2. HeapOK(st.object, st.last, {})
  <2>1. \A a \in DOMAIN st.object : a = c \/ a \in DOMAIN st.object \ {c}
    OBVIOUS
  <2> QED
    BY <1>1, <2>1 DEF HeapOK
<1>3. SameClosures(object, st.object)
  BY <1>1 DEF Grown, SameClosures
<1> QED
  BY <1>1, <1>2, <1>3 DEF OneEachStays

LEMMA ClosingIsQuiet ==
  ASSUME NEW before, NEW after, SameOrClosed(before, after)
  PROVE  SameClosures(before, after) /\ OneEachStays(before, after)
<1>1. ASSUME NEW u \in OpenIn(after)
      PROVE  /\ u \in OpenIn(before)
             /\ after[u].home = before[u].home /\ after[u].voPointer = before[u].voPointer
  BY DEF OpenIn, SameOrClosed
<1>2. SameClosures(before, after)
  BY DEF SameClosures, SameOrClosed
<1>3. OneEach(before) => OneEach(after)
  BY <1>1 DEF OneEach
<1> QED
  BY <1>1, <1>2, <1>3 DEF OneEachStays

(* Steps that neither make closures nor touch upvalues.                    *)
Quiet ==
  /\ SameUpvalues(object, object') /\ UNCHANGED lastUpval
  /\ \A a \in DOMAIN object' :
       /\ ObjectOK(object'[a])
       /\ object'[a].kind = "closure" => a \in DOMAIN object
  /\ \A a \in DOMAIN object : object[a].kind = "closure" => object'[a] = object[a]

HeapGoesOn ==
  /\ HeapOK(object', lastUpval', {}) /\ SameClosures(object, object')
  /\ OneEachStays(object, object')

LEMMA QuietGoesOn ==
  ASSUME HeapOK(object, lastUpval, {}), Quiet
  PROVE  HeapGoesOn
<1>1. /\ SameUpvalues(object, object') /\ lastUpval' = lastUpval
      /\ \A a \in DOMAIN object' : ObjectOK(object'[a])
      /\ \A a \in DOMAIN object :
           object[a].kind = "closure" => a \in DOMAIN object' /\ object'[a] = object[a]
  BY DEF Quiet, SameUpvalues
<1>2. \A a \in DOMAIN object' \ {} :
        object'[a].kind = "closure" => a \in DOMAIN object /\ object'[a] = object[a]
  BY DEF Quiet, SameUpvalues
<1>3. HeapOK(object', lastUpval, {})
  BY <1>1, <1>2, SameUpvaluesSameHeap
<1>4. PICK N, list : Linked(object, lastUpval, N, list)
  BY DEF HeapOK
<1>5. EnvironmentOK(object)
  BY DEF HeapOK
<1>6. OpenIn(object') = OpenIn(object) /\ \A u \in OpenIn(object) : object'[u] = object[u]
  BY <1>1, <1>4, <1>5, SameUpvaluesSameList
<1>7. OneEachStays(object, object')
  BY <1>6 DEF OneEachStays, OneEach
<1>8. SameClosures(object, object')
  BY <1>1 DEF SameClosures
<1> QED
  BY <1>1, <1>3, <1>7, <1>8 DEF HeapGoesOn

LEMMA UnchangedGoesOn ==
  ASSUME HeapOK(object, lastUpval, {}), UNCHANGED <<object, lastUpval>>
  PROVE  HeapGoesOn
<1>1. Quiet
  BY DEF Quiet, SameUpvalues, HeapOK
<1> QED
  BY <1>1, QuietGoesOn

(* A table gets new contents, or an object comes into use.                 *)
LEMMA TableGoesOn ==
  ASSUME HeapOK(object, lastUpval, {}), UNCHANGED lastUpval,
         NEW t, IsTable(t), NEW x,
         \/ object' = [object EXCEPT ![t].field = x]
         \/ object' = [object EXCEPT ![t].unfound = x]
         \/ object' = [object EXCEPT ![t].metatable = x]
  PROVE  HeapGoesOn
<1>1. /\ t \in DOMAIN object /\ object[t].kind = "table" /\ DOMAIN object \subseteq Addresses
      /\ \A a \in DOMAIN object : ObjectOK(object[a])
  BY DEF IsTable, Is, Live, HeapOK
<1>2. "kind" \in DOMAIN object[t]
  BY <1>1 DEF ObjectOK
<1>3. /\ DOMAIN object' = DOMAIN object /\ \A a \in DOMAIN object \ {t} : object'[a] = object[a]
      /\ DOMAIN object'[t] = DOMAIN object[t] /\ object'[t].kind = "table"
  BY <1>1, <1>2
<1>4. ObjectOK(object'[t])
  BY <1>2, <1>3 DEF ObjectOK
<1>5. \A a \in DOMAIN object' : ObjectOK(object'[a])
  BY <1>1, <1>3, <1>4
<1>6. SameUpvalues(object, object')
  BY <1>1, <1>3 DEF SameUpvalues
<1>7. Quiet
  BY <1>1, <1>3, <1>5, <1>6 DEF Quiet
<1> QED
  BY <1>7, QuietGoesOn

LEMMA MadeGoesOn ==
  ASSUME HeapOK(object, lastUpval, {}), UNCHANGED lastUpval, FreeAddresses(object) # {},
         NEW o \in {NewTable, NewString}, object' = With(object, FirstFree(object), o)
  PROVE  HeapGoesOn
<1> DEFINE c == FirstFree(object)
<1>1. c \in Addresses /\ c \notin DOMAIN object
  BY FirstFreeIsFree DEF FreeAddresses
<1>2. "kind" \in DOMAIN o /\ o.kind \in {"table", "string"}
  BY DEF NewTable, NewString
<1>3. ObjectOK(o)
  BY <1>2 DEF ObjectOK
<1>4. /\ DOMAIN object' = DOMAIN object \cup {c} /\ object'[c] = o
      /\ \A a \in DOMAIN object : object'[a] = object[a]
  BY <1>1 DEF With
<1>5. DOMAIN object \subseteq Addresses /\ \A a \in DOMAIN object : ObjectOK(object[a])
  BY DEF HeapOK
<1> HIDE DEF c
<1>6. SameUpvalues(object, object')
  BY <1>1, <1>2, <1>4, <1>5 DEF SameUpvalues
<1>7. Quiet
  BY <1>2, <1>3, <1>4, <1>5, <1>6 DEF Quiet
<1> QED
  BY <1>7, QuietGoesOn

-----------------------------------------------------------------------------
(* The frames                                                              *)

(* A frame's closure is alive, and is the one the frame was made for.      *)
FrameLinked(f, objects) ==
  /\ f.closure \in DOMAIN objects /\ objects[f.closure].kind = "closure"
  /\ objects[f.closure].proto = f.proto

(* The main chunk's closure refers to the environment's upvalue.           *)
FramesLinked(fs, objects) ==
  /\ \A k \in 1 .. Len(fs) : FrameLinked(fs[k], objects)
  /\ 1 \in DOMAIN objects[fs[1].closure].upvalues
  /\ objects[fs[1].closure].upvalues[1] = ENV

UpvalInv ==
  phase = "run" => HeapOK(object, lastUpval, {}) /\ FramesLinked(frames, object)

SameFrame(f, g) ==
  g.closure = f.closure /\ g.proto = f.proto /\ g.id = f.id /\ g.base = f.base

(* The same activations, or all but the last.                              *)
FramesStay(fs, gs) ==
  /\ Len(gs) \in 1 .. Len(fs)
  /\ \A k \in 1 .. Len(gs) : SameFrame(fs[k], gs[k])

LEMMA FramesStayLinked ==
  ASSUME NEW fs, NEW gs, FramesStay(fs, gs), Len(fs) \in Nat,
         NEW before, NEW after, FramesLinked(fs, before), SameClosures(before, after)
  PROVE  FramesLinked(gs, after)
<1>1. /\ Len(gs) \in 1 .. Len(fs) /\ 1 \in 1 .. Len(gs) /\ 1 \in 1 .. Len(fs)
      /\ \A k \in 1 .. Len(gs) : k \in 1 .. Len(fs)
  BY DEF FramesStay
<1>2. \A k \in 1 .. Len(gs) : FrameLinked(gs[k], after)
  BY <1>1 DEF FramesStay, SameFrame, FramesLinked, FrameLinked, SameClosures
<1>3. gs[1].closure = fs[1].closure
  BY <1>1 DEF FramesStay, SameFrame
<1>4. fs[1].closure \in DOMAIN before /\ before[fs[1].closure].kind = "closure"
  BY <1>1 DEF FramesLinked, FrameLinked
<1>5. after[gs[1].closure] = before[fs[1].closure]
  BY <1>3, <1>4 DEF SameClosures
<1> QED
  BY <1>2, <1>5 DEF FramesLinked

LEMMA LastFrameMoves ==
  ASSUME StackInv, phase = "run", NEW g, SameFrame(Top, g), frames' = WithLast(frames, g)
  PROVE  FramesStay(frames, frames')
<1>1. IsList(frames) /\ Len(frames) > 0 /\ Len(frames) \in Nat /\ Top = frames[Len(frames)]
  BY DEF StackInv, FramesOK, IsList, Top
<1> DEFINE gs == WithLast(frames, g)
<1>2. /\ Len(gs) = Len(frames) /\ gs[Len(gs)] = g
      /\ \A k \in 1 .. Len(gs) - 1 : gs[k] = frames[k]
  BY <1>1, ListChanged
<1> HIDE DEF gs
<1>3. ASSUME NEW k \in 1 .. Len(gs) PROVE SameFrame(frames[k], gs[k])
  <2>1. CASE k = Len(gs)
    BY <1>1, <1>2, <2>1
  <2>2. CASE k # Len(gs)
    <3>1. k \in 1 .. Len(gs) - 1
      BY <1>1, <1>2, <2>2
    <3> QED
      BY <1>2, <3>1 DEF SameFrame
  <2> QED
    BY <2>1, <2>2
<1>4. Len(gs) \in 1 .. Len(frames)
  BY <1>1, <1>2
<1> QED
  BY <1>3, <1>4 DEF FramesStay, gs

LEMMA IpMoves ==
  ASSUME StackInv, phase = "run", NEW n,
         frames' = [frames EXCEPT ![Len(frames)].ip = @ + 1 + n]
  PROVE  FramesStay(frames, frames')
<1> DEFINE g == [Top EXCEPT !.ip = @ + 1 + n]
<1>1. frames' = WithLast(frames, g)
  BY DEF WithLast, Top
<1>2. FrameOK(Top)
  BY DEF StackInv, FramesOK, IsList, Top
<1>3. SameFrame(Top, g)
  BY <1>2 DEF FrameOK, FrameFields, SameFrame
<1> HIDE DEF g
<1> QED
  BY <1>1, <1>3, LastFrameMoves

-----------------------------------------------------------------------------
(* The instructions                                                        *)

Steady == HeapGoesOn /\ FramesStay(frames, frames')

LEMMA MovesGoOn ==
  ASSUME StackInv, UpvalInv, phase = "run", NEW i \in Code[Top.ip],
         Load(i) \/ LoadBool(i) \/ Get(i) \/ Compare(i)
  PROVE  Steady
<1>1. UNCHANGED <<object, lastUpval>>
  BY DEF Load, LoadBool, Get, Compare
<1>2. \E n : Continue(n)
  BY DEF Load, LoadBool, Get, Compare
<1>3. FramesStay(frames, frames')
  BY <1>2, IpMoves DEF Continue
<1> QED
  BY <1>1, <1>3, UnchangedGoesOn DEF UpvalInv, Steady

LEMMA SetGoesOn ==
  ASSUME StackInv, UpvalInv, phase = "run", NEW i \in Code[Top.ip], Set(i)
  PROVE  Steady
<1>1. \E t, k, v : SetField(t, k, v)
  BY DEF Set
<1>2. PICK t, k, v : SetField(t, k, v)
  BY <1>1
<1> DEFINE x == With(object[t].field, k, v)
           y == object[t].unfound \cup {v}
<1>3. /\ IsTable(t)
      /\ \/ object' = [object EXCEPT ![t].field = x]
         \/ object' = [object EXCEPT ![t].unfound = y]
  BY <1>2 DEF SetField
<1> HIDE DEF x, y
<1>4. UNCHANGED lastUpval
  BY DEF Set
<1>5. HeapGoesOn
  BY <1>3, <1>4, TableGoesOn DEF UpvalInv
<1>6. FramesStay(frames, frames')
  BY IpMoves DEF Continue, Set
<1> QED
  BY <1>5, <1>6 DEF Steady

LEMMA MakeGoesOn ==
  ASSUME StackInv, UpvalInv, phase = "run", NEW i \in Code[Top.ip], Make(i)
  PROVE  Steady
<1>1. /\ FreeAddresses(object) # {} /\ UNCHANGED lastUpval
      /\ \E o \in {NewTable, NewString} : object' = With(object, FirstFree(object), o)
  BY DEF Make
<1>2. HeapGoesOn
  BY <1>1, MadeGoesOn DEF UpvalInv
<1>3. FramesStay(frames, frames')
  BY IpMoves DEF Continue, Make
<1> QED
  BY <1>2, <1>3 DEF Steady

LEMMA CallNativeGoesOn ==
  ASSUME StackInv, UpvalInv, phase = "run", NEW i \in Code[Top.ip], CallNative(i)
  PROVE  Steady
<1>1. UNCHANGED lastUpval
  BY DEF CallNative
<1>2. HeapGoesOn
  <2>1. CASE FreeAddresses(object) # {} /\ object' = With(object, FirstFree(object), NewString)
    BY <1>1, <2>1, MadeGoesOn DEF UpvalInv
  <2> DEFINE t == R(i.a + 1)
             x == Metatable(R(i.a + 2))
  <2>2. CASE IsTable(t) /\ object' = [object EXCEPT ![t].metatable = x]
    <3> HIDE DEF t, x
    <3> QED
      BY <1>1, <2>2, TableGoesOn DEF UpvalInv
  <2> QED
    BY <2>1, <2>2 DEF CallNative
<1>3. FramesStay(frames, frames')
  <2> DEFINE top == IF i.c = 0 THEN Top.base + i.a + (IF R(i.a) = LUA_NAT_TYPE THEN 1 ELSE 0)
                    ELSE Top.top
             g == [Top EXCEPT !.ip = @ + 1, !.top = top]
  <2>1. frames' = WithLast(frames, g)
    BY DEF WithLast, Top, CallNative
  <2>2. FrameOK(Top)
    BY DEF StackInv, FramesOK, IsList, Top
  <2> HIDE DEF top
  <2>3. SameFrame(Top, g)
    BY <2>2 DEF FrameOK, FrameFields, SameFrame
  <2> HIDE DEF g
  <2> QED
    BY <2>1, <2>3, LastFrameMoves
<1> QED
  BY <1>2, <1>3 DEF Steady

LEMMA MakeClosureGoesOn ==
  ASSUME StackInv, UpvalInv, phase = "run", NEW i \in Code[Top.ip], MakeClosure(i)
  PROVE  Steady
<1> DEFINE f == i.b
           st == Capturing(f)
           c == FirstFree(object)
<1>1. /\ i.op = "CLOSURE" /\ FreeAddresses(object) # {} /\ ~st.full
      /\ object' = st.object /\ lastUpval' = st.last
  BY DEF MakeClosure
<1>2. /\ WellFormed(Code) /\ Top.ip \in DOMAIN Code /\ Top.proto \in DOMAIN Proto
      /\ Top.base \in Nat \ {0}
  BY Running
<1>3. f \in DOMAIN Proto
  BY <1>1, <1>2 DEF WellFormed
<1>4. /\ f \notin Chunks
      /\ \A d \in 1 .. Len(Proto[f].upvalues) :
           Proto[f].upvalues[d].instack \/ Proto[f].upvalues[d].idx < UpvalueCount(Top.proto)
  BY <1>1, <1>2, UpvaluesAssumption DEF Code
<1>5. /\ Top.closure \in DOMAIN object /\ Closure.kind = "closure"
      /\ Closure.proto = Top.proto /\ Captured(object, Closure, UpvalueCount(Top.proto))
      /\ HeapOK(object, lastUpval, {})
  <2>1. Len(frames) \in 1 .. Len(frames)
    BY Running
  <2>2. FrameLinked(Top, object) /\ HeapOK(object, lastUpval, {})
    BY <2>1 DEF UpvalInv, FramesLinked, Top
  <2> QED
    BY <2>2 DEF FrameLinked, HeapOK, Closure
<1>6. ASSUME NEW d \in 1 .. Len(Proto[f].upvalues), ~Proto[f].upvalues[d].instack
      PROVE  IsUpvalue(object, Upvalue(Proto[f].upvalues[d].idx))
  <2> DEFINE idx == Proto[f].upvalues[d].idx
             count == UpvalueCount(Top.proto)
  <2>1. idx < count
    BY <1>4, <1>6
  <2>2. idx \in Nat
    <3> DEFINE descs == Proto[f].upvalues
    <3>1. descs \in Seq([instack : BOOLEAN, idx : Nat])
      BY <1>3, VMAssumption
    <3> HIDE DEF descs
    <3>2. \A e \in 1 .. Len(descs) : descs[e] \in [instack : BOOLEAN, idx : Nat]
      BY <3>1, ElementOfSeq
    <3> QED
      BY <3>2 DEF descs
  <2>3. count \in Nat
    BY <1>2, VMAssumption DEF UpvalueCount
  <2> HIDE DEF idx, count
  <2>4. idx + 1 \in 1 .. count
    BY <2>1, <2>2, <2>3
  <2>5. IsUpvalue(object, Closure.upvalues[idx + 1])
    BY <1>5, <2>4 DEF Captured, count
  <2> QED
    BY <2>5 DEF Upvalue, idx
<1>7. CapturedSome(f, c, Len(Proto[f].upvalues), st)
  BY <1>1, <1>2, <1>3, <1>5, <1>6, CapturingKeepsHeap
<1>8. c \notin DOMAIN object
  BY <1>1, FirstFreeIsFree DEF FreeAddresses
<1> HIDE DEF st, c
<1>9. /\ HeapOK(st.object, st.last, {}) /\ SameClosures(object, st.object)
      /\ OneEachStays(object, st.object)
  BY <1>1, <1>3, <1>4, <1>7, <1>8, CapturedAll
<1>10. FramesStay(frames, frames')
  BY IpMoves DEF Continue, MakeClosure
<1> QED
  BY <1>1, <1>9, <1>10 DEF Steady, HeapGoesOn

LEMMA ClosingGoesOn ==
  ASSUME HeapOK(object, lastUpval, {}), NEW Rst \in Int, CloseEnd \in Int,
         Closed(CloseUpvals(Rst))
  PROVE  HeapGoesOn
<1> DEFINE st == CloseUpvals(Rst)
<1>1. ClosedSome(object, st)
  BY CloseUpvalsKeepsHeap
<1>2. object' = st.object /\ lastUpval' = st.last
  BY DEF Closed
<1> HIDE DEF st
<1>3. HeapOK(object', lastUpval', {}) /\ SameOrClosed(object, object')
  BY <1>1, <1>2 DEF ClosedSome
<1> QED
  BY <1>3, ClosingIsQuiet DEF HeapGoesOn

LEMMA JumpGoesOn ==
  ASSUME StackInv, UpvalInv, phase = "run", NEW i \in Code[Top.ip], Jump(i)
  PROVE  Steady
<1>1. CloseEnd \in Int /\ JumpStart(i) \in Int
  BY Running DEF CloseEnd, JumpStart
<1>2. HeapGoesOn
  BY <1>1, ClosingGoesOn, UnchangedGoesOn DEF Jump, UpvalInv
<1>3. FramesStay(frames, frames')
  BY IpMoves DEF Jump
<1> QED
  BY <1>2, <1>3 DEF Steady

LEMMA ReturnGoesOn ==
  ASSUME StackInv, UpvalInv, phase = "run", NEW i \in Code[Top.ip], Return(i)
  PROVE  Steady
<1>1. /\ Len(frames) > 1 /\ Closed(CloseUpvals(ReturnStart))
      /\ Deliver(frames[Len(frames) - 1], Returned(i, i.b - 1), Top.base - 3 + i.b)
  BY DEF Return
<1>2. CloseEnd \in Int /\ ReturnStart \in Int
  BY Running DEF CloseEnd, ReturnStart
<1>3. HeapGoesOn
  BY <1>1, <1>2, ClosingGoesOn DEF UpvalInv
<1> DEFINE caller == frames[Len(frames) - 1]
           top == IF Top.nres = -1 THEN Top.base - 3 + i.b + 1 ELSE caller.top
           g == IF Top.target = NULL THEN [caller EXCEPT !.ip = @ + 1, !.top = top]
                ELSE [caller EXCEPT !.ip = @ + 1]
<1>4. frames' = WithoutLast(frames, g)
  <2>1. CASE Top.target = NULL
    BY <1>1, <2>1 DEF Deliver, WithoutLast
  <2>2. CASE Top.target # NULL
    BY <1>1, <2>2 DEF Deliver, WithoutLast
  <2> QED
    BY <2>1, <2>2
<1>5. IsList(frames) /\ Len(frames) \in Nat /\ \A k \in 1 .. Len(frames) : FrameOK(frames[k])
  BY DEF StackInv, FramesOK, IsList
<1>6. FrameOK(caller)
  BY <1>1, <1>5
<1> HIDE DEF caller, top
<1>7. SameFrame(caller, g)
  BY <1>6 DEF FrameOK, FrameFields, SameFrame
<1> HIDE DEF g
<1> DEFINE gs == WithoutLast(frames, g)
<1>8. /\ Len(gs) = Len(frames) - 1 /\ gs[Len(gs)] = g
      /\ \A k \in 1 .. Len(gs) - 1 : gs[k] = frames[k]
  BY <1>1, <1>5, ListReturned
<1> HIDE DEF gs
<1>9. ASSUME NEW k \in 1 .. Len(gs) PROVE SameFrame(frames[k], gs[k])
  <2>1. CASE k = Len(gs)
    BY <1>7, <1>8, <2>1 DEF caller
  <2>2. CASE k # Len(gs)
    <3>1. k \in 1 .. Len(gs) - 1
      BY <1>1, <1>5, <1>8, <2>2
    <3> QED
      BY <1>8, <3>1 DEF SameFrame
  <2> QED
    BY <2>1, <2>2
<1>10. Len(gs) \in 1 .. Len(frames)
  BY <1>1, <1>5, <1>8
<1>11. FramesStay(frames, frames')
  BY <1>4, <1>9, <1>10 DEF FramesStay, gs
<1> QED
  BY <1>3, <1>11 DEF Steady

(* SETUPVAL (vm.cpp:151) moves an open upvalue to another register in      *)
(* place of assigning to its variable.  Nothing of the list survives that  *)
(* in general; these say of a program that it does not do so, to the       *)
(* environment's upvalue or to any.  All other steps keep to them.         *)
EnvironmentStays ==
  phase = "run" /\ ENV \in DOMAIN object' =>
    object'[ENV].voPointer \in {object[ENV].voPointer, NULL}

OpenUpvaluesStay ==
  phase = "run" =>
    \A u \in Open : u \in DOMAIN object' =>
      object'[u].voPointer \in {object[u].voPointer, NULL}

LEMMA OpenIsOpen ==
  Open = OpenIn(object)
BY DEF Open, Upvals, Live, Is, OpenIn

LEMMA EnvironmentIsOpen ==
  ASSUME NEW objects, NEW last, NEW new, HeapOK(objects, last, new)
  PROVE  ENV \in OpenIn(objects)
<1>1. PICK N, list : Linked(objects, last, N, list)
  BY DEF HeapOK
<1> QED
  BY <1>1 DEF Linked

LEMMA OpenStayIsEnough ==
  ASSUME UpvalInv, OpenUpvaluesStay
  PROVE  EnvironmentStays
<1>1. phase = "run" => ENV \in Open
  BY EnvironmentIsOpen, OpenIsOpen DEF UpvalInv
<1> QED
  BY <1>1 DEF EnvironmentStays, OpenUpvaluesStay

(* An upvalue is written, and what the others have keeps the list.         *)
LEMMA UpvalueWritten ==
  ASSUME HeapOK(object, lastUpval, {}), UNCHANGED lastUpval,
         NEW u \in DOMAIN object, object[u].kind = "upvalue",
         DOMAIN object' = DOMAIN object,
         \A a \in DOMAIN object \ {u} : object'[a] = object[a],
         DOMAIN object'[u] = UpvalueFields, object'[u].kind = "upvalue",
         object'[u].next = object[u].next, object'[u].prev = object[u].prev,
         \/ object'[u].voPointer = object[u].voPointer
         \/ u # ENV /\ object[u].voPointer # NULL /\ object'[u].voPointer \in Nat \ {0}
  PROVE  HeapOK(object', lastUpval', {}) /\ SameClosures(object, object')
<1>1. /\ DOMAIN object \subseteq Addresses /\ \A a \in DOMAIN object : ObjectOK(object[a])
      /\ EnvironmentOK(object)
  BY DEF HeapOK
<1>2. \A a \in DOMAIN object : object'[a].kind = object[a].kind
  OBVIOUS
<1>3. OpenIn(object') = OpenIn(object)
  <2>1. (object'[u].voPointer # NULL) <=> object[u].voPointer # NULL
    BY DEF NULL
  <2> QED
    BY <1>2, <2>1 DEF OpenIn
<1>4. PICK N, list : Linked(object, lastUpval, N, list)
  BY DEF HeapOK
<1>5. \A w \in OpenIn(object) :
        object'[w].next = object[w].next /\ object'[w].prev = object[w].prev
  BY DEF OpenIn
<1>6. Linked(object', lastUpval, N, list)
  BY <1>3, <1>4, <1>5, SameLinksSameList
<1>7. ENV \in OpenIn(object)
  BY EnvironmentIsOpen
<1>8. EnvironmentOK(object')
  <2>1. object'[ENV].voPointer = 0
    BY <1>1, <1>7 DEF EnvironmentOK, OpenIn
  <2>2. ASSUME NEW w \in OpenIn(object) \ {ENV} PROVE object'[w].voPointer \in Nat \ {0}
    BY <1>1, <2>2 DEF EnvironmentOK, OpenIn
  <2> QED
    BY <1>3, <2>1, <2>2 DEF EnvironmentOK
<1>9. \A a \in DOMAIN object' : ObjectOK(object'[a])
  <2>1. ObjectOK(object'[u])
    BY DEF ObjectOK, UpvalueFields
  <2> QED
    BY <1>1, <2>1
<1>10. SameClosures(object, object')
  BY DEF SameClosures
<1>11. ASSUME NEW a \in DOMAIN object', object'[a].kind = "closure"
       PROVE  Captured(object', object'[a], UpvalueCount(object'[a].proto))
  <2>1. a \in DOMAIN object /\ object[a].kind = "closure" /\ object'[a] = object[a]
    BY <1>11
  <2>2. Captured(object, object[a], UpvalueCount(object[a].proto))
    BY <2>1 DEF HeapOK
  <2>3. Captured(object', object[a], UpvalueCount(object[a].proto))
    BY <1>2, <2>2, CapturedStays
  <2> QED
    BY <2>1, <2>3
<1> QED
  BY <1>1, <1>6, <1>8, <1>9, <1>10, <1>11 DEF HeapOK

LEMMA SetUpvalGoesOn ==
  ASSUME StackInv, UpvalInv, phase = "run", NEW i \in Code[Top.ip], SetUpval(i),
         EnvironmentStays
  PROVE  /\ HeapOK(object', lastUpval', {}) /\ SameClosures(object, object')
         /\ FramesStay(frames, frames')
         /\ OpenUpvaluesStay => OneEachStays(object, object')
<1> DEFINE u == Upvalue(i.b)
           v == R(i.a)
           p == Top.base + i.a
<1>1. object' = IF object[u].voPointer = NULL THEN [object EXCEPT ![u].value = v]
                ELSE [object EXCEPT ![u].voPointer = p]
  BY DEF SetUpval
<1>2. UNCHANGED lastUpval /\ FramesStay(frames, frames')
  BY IpMoves DEF SetUpval, Continue
<1>3. p \in Nat \ {0}
  BY Running
<1>4. /\ HeapOK(object, lastUpval, {}) /\ DOMAIN object \subseteq Addresses
      /\ \A a \in DOMAIN object : ObjectOK(object[a])
      /\ EnvironmentOK(object)
  BY DEF UpvalInv, HeapOK
<1> HIDE DEF u, v, p
<1>5. DOMAIN object' = DOMAIN object /\ \A a \in DOMAIN object \ {u} : object'[a] = object[a]
  BY <1>1
<1>6. CASE u \notin DOMAIN object
  <2>1. \A a \in DOMAIN object : object'[a] = object[a]
    BY <1>5, <1>6
  <2>2. Quiet
    BY <1>2, <1>4, <1>5, <2>1 DEF Quiet, SameUpvalues
  <2> QED
    BY <1>2, <1>4, <2>2, QuietGoesOn DEF HeapGoesOn
<1>7. CASE u \in DOMAIN object /\ object[u].kind # "upvalue"
  <2> DEFINE o == object[u]
  <2>1. object'[u] = [o EXCEPT !.value = v] \/ object'[u] = [o EXCEPT !.voPointer = p]
    BY <1>1, <1>7
  <2>2. ObjectOK(o)
    BY <1>4, <1>7
  <2>3. object'[u].kind = o.kind /\ DOMAIN object'[u] = DOMAIN o
    BY <2>1, <2>2 DEF ObjectOK
  <2>4. ASSUME o.kind = "closure" PROVE object'[u] = o
    BY <2>1, <2>2, <2>4 DEF ObjectOK
  <2>5. ObjectOK(object'[u])
    <3>1. CASE o.kind = "closure"
      BY <2>2, <2>4, <3>1
    <3>2. CASE o.kind # "closure"
      BY <1>7, <2>2, <2>3, <3>2 DEF ObjectOK
    <3> QED
      BY <3>1, <3>2
  <2> HIDE DEF o
  <2>6. \A a \in DOMAIN object : ObjectOK(object'[a])
    BY <1>4, <1>5, <2>5
  <2>7. /\ \A a \in DOMAIN object : object'[a].kind = object[a].kind
        /\ \A a \in DOMAIN object : object[a].kind = "upvalue" => object'[a] = object[a]
        /\ \A a \in DOMAIN object : object[a].kind = "closure" => object'[a] = object[a]
    BY <1>5, <1>7, <2>3, <2>4 DEF o
  <2>8. Quiet
    BY <1>2, <1>4, <1>5, <2>6, <2>7 DEF Quiet, SameUpvalues
  <2> QED
    BY <1>2, <1>4, <2>8, QuietGoesOn DEF HeapGoesOn
<1>8. CASE u \in DOMAIN object /\ object[u].kind = "upvalue"
  <2> DEFINE o == object[u]
             q == object'[u]
  <2>1. DOMAIN o = UpvalueFields
    BY <1>4, <1>8 DEF ObjectOK
  <2>2. q = IF o.voPointer = NULL THEN [o EXCEPT !.value = v] ELSE [o EXCEPT !.voPointer = p]
    BY <1>1, <1>8
  <2> HIDE DEF q
  <2>3. /\ DOMAIN q = UpvalueFields /\ q.kind = o.kind /\ q.next = o.next /\ q.prev = o.prev
        /\ q.home = o.home
        /\ o.voPointer = NULL => q.voPointer = NULL
        /\ o.voPointer # NULL => q.voPointer = p
    BY <2>1, <2>2 DEF UpvalueFields
  <2>4. \/ q.voPointer = o.voPointer
        \/ u # ENV /\ o.voPointer # NULL /\ q.voPointer \in Nat \ {0}
    <3>1. u = ENV => q.voPointer \in {0, NULL}
      BY <1>4, <1>5, <1>8 DEF EnvironmentStays, EnvironmentOK, q
    <3> QED
      BY <1>3, <2>3, <3>1 DEF NULL
  <2>5. HeapOK(object', lastUpval', {}) /\ SameClosures(object, object')
    BY <1>2, <1>4, <1>5, <1>8, <2>3, <2>4, UpvalueWritten DEF q
  <2>6. ASSUME OpenUpvaluesStay PROVE OneEachStays(object, object')
    <3>1. o.voPointer # NULL => q.voPointer \in {o.voPointer, NULL}
      <4>1. o.voPointer # NULL => u \in Open
        BY <1>8 DEF Open, Upvals, Live, Is
      <4> QED
        BY <1>5, <1>8, <2>6, <4>1 DEF OpenUpvaluesStay, q
    <3>2. q.voPointer = o.voPointer
      BY <1>3, <2>3, <3>1 DEF NULL
    <3>3. ASSUME NEW w \in OpenIn(object')
          PROVE  /\ w \in OpenIn(object) /\ object'[w].home = object[w].home
                 /\ object'[w].voPointer = object[w].voPointer
      BY <1>5, <1>8, <2>3, <3>2 DEF OpenIn, q
    <3> QED
      BY <3>3 DEF OneEachStays, OneEach
  <2> QED
    BY <1>2, <2>5, <2>6
<1> QED
  BY <1>6, <1>7, <1>8

-----------------------------------------------------------------------------
(* Calls                                                                   *)

(* A frame for the closure c, with an identity of its own.                 *)
Entered(c, base) ==
  /\ UNCHANGED <<object, lastUpval>>
  /\ \E f : /\ frames' = Append(frames, f)
            /\ f.closure = c /\ f.proto = object[c].proto /\ f.id = NewId /\ f.base = base

LEMMA EnterGoesOn ==
  ASSUME NEW c, NEW base, NEW npar, NEW nres, NEW target, NEW stk,
         Enter(c, base, npar, nres, target, stk), UNCHANGED <<object, lastUpval>>
  PROVE  phase' # "run" \/ Entered(c, base)
<1> DEFINE end == base + Proto[object[c].proto].maxstack
           f == Frame(c, base, base + npar, npar, nres, target)
<1>1. CASE end > STACK_SIZE
  BY <1>1 DEF Enter
<1>2. CASE ~(end > STACK_SIZE)
  <2>1. frames' = Append(frames, f)
    BY <1>2 DEF Enter
  <2>2. f.closure = c /\ f.proto = object[c].proto /\ f.id = NewId /\ f.base = base
    BY DEF Frame
  <2> HIDE DEF f
  <2> QED
    BY <2>1, <2>2 DEF Entered
<1> QED
  BY <1>1, <1>2

LEMMA EnteredIsLinked ==
  ASSUME StackInv, UpvalInv, phase = "run", NEW c, IsClosure(c), NEW base, Entered(c, base)
  PROVE  HeapGoesOn /\ FramesLinked(frames', object')
<1>1. UNCHANGED <<object, lastUpval>>
  BY DEF Entered
<1>2. PICK f : frames' = Append(frames, f) /\ f.closure = c /\ f.proto = object[c].proto
  BY DEF Entered
<1>3. HeapGoesOn
  BY <1>1, UnchangedGoesOn DEF UpvalInv
<1>4. IsList(frames) /\ Len(frames) \in Nat \ {0}
  BY DEF StackInv, FramesOK, IsList
<1> DEFINE gs == Append(frames, f)
<1>5. /\ Len(gs) = Len(frames) + 1 /\ gs[Len(gs)] = f
      /\ \A k \in 1 .. Len(frames) : gs[k] = frames[k]
  BY <1>4, ListExtended
<1> HIDE DEF gs
<1>6. FramesLinked(frames, object)
  BY DEF UpvalInv
<1>7. ASSUME NEW k \in 1 .. Len(gs) PROVE FrameLinked(gs[k], object)
  <2>1. CASE k = Len(gs)
    BY <1>2, <1>5, <2>1 DEF FrameLinked, IsClosure, Is, Live
  <2>2. CASE k # Len(gs)
    <3>1. k \in 1 .. Len(frames)
      BY <1>4, <1>5, <2>2
    <3> QED
      BY <1>5, <1>6, <3>1 DEF FramesLinked
  <2> QED
    BY <2>1, <2>2
<1>8. gs[1] = frames[1]
  BY <1>4, <1>5
<1>9. FramesLinked(gs, object)
  BY <1>6, <1>7, <1>8 DEF FramesLinked
<1> QED
  BY <1>1, <1>2, <1>3, <1>9 DEF gs

-----------------------------------------------------------------------------
(* The collector                                                           *)

(* What an object in marked refers to.                                     *)
Marked(marked) == marked \cup UNION {Refs(a) : a \in marked \cap Live}

LEMMA ReachedLoops ==
  \E after : /\ after[0] = Root
             /\ \A n \in 1 .. HEAP_OBJECTS : after[n] = Marked(after[n - 1])
             /\ Reached = after[HEAP_OBJECTS]
<1> DEFINE N == HEAP_OBJECTS
           Loop(g, m) == g = [n \in 0 .. m |-> IF n = 0 THEN Root ELSE Marked(g[n - 1])]
           S == {m \in 0 .. N : \E g : Loop(g, m)}
           after == CHOOSE g : Loop(g, N)
<1>1. Reached = after[N]
  BY DEF Reached, Marked
<1>2. N \in Nat
  BY VMAssumption
<1> HIDE DEF N
<1>3. 0 \in S
  <2> DEFINE g == [n \in 0 .. 0 |-> Root]
  <2>1. Loop(g, 0)
    OBVIOUS
  <2> HIDE DEF Loop, g
  <2> QED
    BY <1>2, <2>1
<1>4. ASSUME NEW k \in 0 .. N - 1, k \in S
      PROVE  k + 1 \in S
  <2>1. PICK g : Loop(g, k)
    BY <1>4
  <2> DEFINE h == [n \in 0 .. k + 1 |-> IF n <= k THEN g[n] ELSE Marked(g[k])]
  <2>2. \A n \in 0 .. k + 1 : h[n] = IF n = 0 THEN Root ELSE Marked(h[n - 1])
    BY <1>2, <2>1
  <2>3. Loop(h, k + 1)
    BY <2>2
  <2> HIDE DEF Loop, h
  <2> QED
    BY <1>2, <2>3
<1>5. N \in S
  <2> HIDE DEF S
  <2>1. 0 .. N \subseteq S
    BY <1>2, <1>3, <1>4, CountingUp
  <2> QED
    BY <1>2, <2>1
<1>6. Loop(after, N)
  <2> HIDE DEF Loop
  <2> QED
    BY <1>5
<1>7. after[0] = Root /\ \A n \in 1 .. N : after[n] = Marked(after[n - 1])
  <2> HIDE DEF after
  <2> QED
    BY <1>2, <1>6
<1> HIDE DEF after
<1> QED
  BY <1>1, <1>7 DEF N

(* The marking stops for want of unmarked objects: each round marks one at *)
(* least, and there are no more rounds than objects.                       *)
LEMMA ReachedIsClosed ==
  ASSUME Reached \subseteq Live, Live \subseteq Addresses, Root # {}
  PROVE  Root \subseteq Reached /\ \A a \in Reached : Refs(a) \subseteq Reached
<1> DEFINE H == HEAP_OBJECTS
<1>1. PICK after : /\ after[0] = Root
                   /\ \A n \in 1 .. H : after[n] = Marked(after[n - 1])
                   /\ Reached = after[H]
  BY ReachedLoops
<1>2. H \in Nat /\ IsFiniteSet(Addresses) /\ Cardinality(Addresses) = H
  <2>1. H \in Nat
    BY VMAssumption
  <2>2. /\ IsFiniteSet(1 .. H)
        /\ Cardinality(1 .. H) = IF 1 > H THEN 0 ELSE H - 1 + 1
    BY <2>1, FS_Interval
  <2> QED
    BY <2>1, <2>2 DEF Addresses
<1> HIDE DEF H
<1>3. \A n \in 0 .. H - 1 : n + 1 \in 1 .. H /\ after[n + 1] = Marked(after[n])
  <2> SUFFICES ASSUME NEW n \in 0 .. H - 1
               PROVE  n + 1 \in 1 .. H /\ after[n + 1] = Marked(after[n])
    OBVIOUS
  <2> DEFINE q == n + 1
  <2>1. q \in 1 .. H /\ q - 1 = n
    BY <1>2
  <2> HIDE DEF q
  <2>2. after[q] = Marked(after[n])
    BY <1>1, <2>1
  <2> QED
    BY <2>1, <2>2 DEF q
<1>4. \A X : X \subseteq Marked(X)
  BY DEF Marked
<1>5. Root \subseteq Reached
  <2> DEFINE S == {n \in 0 .. H : Root \subseteq after[n]}
  <2>1. 0 \in S /\ \A n \in 0 .. H - 1 : n \in S => n + 1 \in S
    BY <1>1, <1>2, <1>3, <1>4
  <2>2. 0 .. H \subseteq S
    <3> HIDE DEF S
    <3> QED
      BY <1>2, <2>1, CountingUp
  <2> QED
    BY <1>1, <1>2, <2>2
<1>6. \A X : X \subseteq Addresses => Marked(X) \subseteq Addresses
  BY DEF Marked, Refs
<1> DEFINE Fixed(X) == Marked(X) = X
           Good(n) == after[n] \subseteq Addresses
                      /\ (Fixed(after[n]) \/ Cardinality(after[n]) >= n + 1)
<1>7. Good(0)
  <2>1. Root \subseteq Addresses
    BY <1>5
  <2>2. IsFiniteSet(Root)
    BY <1>2, <2>1, FS_Subset
  <2>3. Cardinality(Root) # 0 /\ Cardinality(Root) \in Nat
    BY <2>2, FS_EmptySet, FS_CardinalityType
  <2> QED
    BY <1>1, <2>1, <2>3
<1>8. ASSUME NEW n \in 0 .. H - 1, Good(n) PROVE Good(n + 1)
  <2> DEFINE X == after[n]
             Y == after[n + 1]
  <2>1. Y = Marked(X) /\ X \subseteq Addresses /\ Y \subseteq Addresses /\ X \subseteq Y
    BY <1>3, <1>4, <1>6, <1>8
  <2>2. CASE Fixed(X)
    <3>1. Fixed(Y)
      BY <2>1, <2>2
    <3> QED
      BY <2>1, <3>1
  <2>3. CASE ~Fixed(X)
    <3>1. X # Y /\ Cardinality(X) >= n + 1
      BY <1>8, <2>1, <2>3
    <3>2. IsFiniteSet(Y)
      BY <1>2, <2>1, FS_Subset
    <3> HIDE DEF X, Y
    <3>3. X \in SUBSET Y
      BY <2>1
    <3>4. /\ IsFiniteSet(X) /\ Cardinality(X) <= Cardinality(Y)
          /\ Cardinality(X) # Cardinality(Y)
      BY <3>1, <3>2, <3>3, FS_Subset
    <3>5. Cardinality(X) \in Nat /\ Cardinality(Y) \in Nat
      BY <3>2, <3>4, FS_CardinalityType
    <3> DEFINE x == Cardinality(X)
               y == Cardinality(Y)
    <3>6. x \in Nat /\ y \in Nat /\ x <= y /\ x # y /\ x >= n + 1
      BY <3>1, <3>4, <3>5
    <3> HIDE DEF x, y
    <3>7. y >= n + 1 + 1
      BY <1>2, <3>6
    <3> QED
      BY <2>1, <3>7 DEF y, Y
  <2> QED
    BY <2>2, <2>3
<1>9. Good(H)
  <2> DEFINE S == {n \in 0 .. H : Good(n)}
  <2> HIDE DEF Good
  <2>1. 0 \in S /\ \A n \in 0 .. H - 1 : n \in S => n + 1 \in S
    BY <1>2, <1>7, <1>8
  <2>2. 0 .. H \subseteq S
    <3> HIDE DEF S
    <3> QED
      BY <1>2, <2>1, CountingUp
  <2> QED
    BY <1>2, <2>2
<1>10. Fixed(Reached)
  <2>1. Reached \in SUBSET Addresses
    BY <1>1, <1>9
  <2>2. Cardinality(Reached) <= H
    BY <1>2, <2>1, FS_Subset
  <2>3. IsFiniteSet(Reached)
    BY <1>2, <2>1, FS_Subset
  <2>4. Cardinality(Reached) \in Nat
    BY <2>3, FS_CardinalityType
  <2>5. ~(Cardinality(Reached) >= H + 1)
    BY <1>2, <2>2, <2>4
  <2> QED
    BY <1>1, <1>9, <2>5
<1>11. ASSUME NEW a \in Reached PROVE Refs(a) \subseteq Reached
  BY <1>10 DEF Marked
<1> QED
  BY <1>5, <1>11

(* The objects in kept, and what they refer to.                            *)
ClosedUnderRefs(kept) ==
  /\ kept \subseteq Live
  /\ \A a \in kept : Refs(a) \subseteq kept

(* All the open upvalues are kept when the last one of the list is: each   *)
(* of them refers to the one before it.                                    *)
LEMMA ListKept ==
  ASSUME HeapOK(object, lastUpval, {}), NEW kept, ClosedUnderRefs(kept), ENV \in kept
  PROVE  OpenIn(object) \subseteq kept
<1>1. PICK N, list : Linked(object, lastUpval, N, list)
  BY DEF HeapOK
<1>2. /\ N \in Nat \ {0} /\ list[N] = ENV
      /\ \A k \in 1 .. N : list[k] \in OpenIn(object)
      /\ \A w \in OpenIn(object) : \E k \in 1 .. N : list[k] = w
      /\ \A k \in 1 .. N : object[list[k]].prev = IF k = 1 THEN NULL ELSE list[k - 1]
  BY <1>1 DEF Linked
<1>3. DOMAIN object \subseteq Addresses
  BY DEF HeapOK
<1> DEFINE M == N - 1
           S == {n \in 0 .. M : list[N - n] \in kept}
<1>4. M \in Nat
  BY <1>2
<1>5. 0 \in S
  <2>1. N - 0 = N
    BY <1>2
  <2> QED
    BY <1>2, <1>4, <2>1
<1>6. ASSUME NEW n \in 0 .. M - 1, n \in S PROVE n + 1 \in S
  <2> DEFINE k == N - n
             j == N - (n + 1)
  <2>1. k \in 1 .. N /\ k # 1 /\ j = k - 1 /\ j \in 1 .. N /\ n + 1 \in 0 .. M
    BY <1>2
  <2>2. list[k] \in kept
    BY <1>6
  <2> HIDE DEF k
  <2>3. list[k] \in OpenIn(object) /\ object[list[k]].prev = list[k - 1]
        /\ list[k - 1] \in OpenIn(object)
    BY <1>2, <2>1
  <2>4. list[k - 1] \in Addresses /\ object[list[k]].kind = "upvalue"
    BY <1>3, <2>3 DEF OpenIn
  <2>5. list[k - 1] \in UpvalRefs(object[list[k]])
    BY <2>3 DEF UpvalRefs
  <2>6. Refs(list[k]) = Addresses \cap UpvalRefs(object[list[k]])
    BY <2>4 DEF Refs
  <2>7. list[k - 1] \in kept
    BY <2>2, <2>4, <2>5, <2>6 DEF ClosedUnderRefs
  <2> QED
    BY <2>1, <2>7
<1>7. 0 .. M \subseteq S
  <2> HIDE DEF S, M
  <2> QED
    BY <1>4, <1>5, <1>6, CountingUp
<1>8. ASSUME NEW w \in OpenIn(object) PROVE w \in kept
  <2>1. PICK k \in 1 .. N : list[k] = w
    BY <1>2
  <2>2. N - k \in 0 .. M /\ N - (N - k) = k
    BY <1>2
  <2> DEFINE n == N - k
  <2>3. n \in S
    BY <1>7, <2>2
  <2>4. list[N - n] \in kept
    BY <2>3
  <2> QED
    BY <2>1, <2>2, <2>4
<1> QED
  BY <1>8

LEMMA KeptIsHeap ==
  ASSUME HeapOK(object, lastUpval, {}), NEW kept, ClosedUnderRefs(kept), ENV \in kept,
         object' = [a \in kept |-> object[a]], UNCHANGED lastUpval
  PROVE  HeapOK(object', lastUpval', {}) /\ OneEachStays(object, object')
<1>1. /\ kept \subseteq DOMAIN object /\ DOMAIN object \subseteq Addresses
      /\ \A a \in DOMAIN object : ObjectOK(object[a])
      /\ EnvironmentOK(object)
  BY DEF HeapOK, ClosedUnderRefs, Live
<1>2. DOMAIN object' = kept /\ \A a \in kept : object'[a] = object[a]
  OBVIOUS
<1>3. OpenIn(object) \subseteq kept
  BY ListKept
<1>4. OpenIn(object') = OpenIn(object) /\ \A u \in OpenIn(object) : object'[u] = object[u]
  BY <1>1, <1>2, <1>3 DEF OpenIn
<1>5. PICK N, list : Linked(object, lastUpval, N, list)
  BY DEF HeapOK
<1>6. Linked(object', lastUpval, N, list)
  BY <1>4, <1>5, SameLinksSameList
<1>7. ENV \in OpenIn(object)
  BY EnvironmentIsOpen
<1>8. EnvironmentOK(object')
  BY <1>1, <1>4, <1>7 DEF EnvironmentOK
<1>9. ASSUME NEW a \in DOMAIN object', object'[a].kind = "closure"
      PROVE  Captured(object', object'[a], UpvalueCount(object'[a].proto))
  <2> DEFINE o == object[a]
             n == UpvalueCount(o.proto)
             up == o.upvalues
  <2>1. a \in kept /\ o.kind = "closure" /\ object'[a] = o /\ ObjectOK(o)
    BY <1>1, <1>2, <1>9
  <2>2. Captured(object, o, n)
    BY <1>1, <2>1 DEF HeapOK
  <2>3. IsList(up) /\ Len(up) >= n /\ n \in Nat
    BY <2>1, <2>2, VMAssumption DEF ObjectOK, Captured, UpvalueCount
  <2>4. DOMAIN up = 1 .. Len(up)
    BY <2>3 DEF IsList
  <2>5. Refs(a) = Addresses \cap {up[k] : k \in DOMAIN up}
    BY <2>1 DEF Refs
  <2>6. Refs(a) \subseteq kept
    BY <2>1 DEF ClosedUnderRefs
  <2>7. \A k \in 1 .. n : IsUpvalue(object, up[k])
    BY <2>2 DEF Captured
  <2> HIDE DEF up, n
  <2>8. ASSUME NEW k \in 1 .. n PROVE IsUpvalue(object', up[k])
    <3>1. k \in DOMAIN up
      <4> DEFINE len == Len(up)
      <4>1. len \in Nat /\ len >= n /\ DOMAIN up = 1 .. len
        BY <2>3, <2>4 DEF IsList
      <4> HIDE DEF len
      <4> QED
        BY <2>3, <4>1
    <3>2. up[k] \in DOMAIN object /\ object[up[k]].kind = "upvalue"
      BY <2>7 DEF IsUpvalue
    <3>3. up[k] \in kept
      BY <1>1, <2>5, <2>6, <3>1, <3>2
    <3> QED
      BY <1>2, <3>2, <3>3 DEF IsUpvalue
  <2>9. Captured(object', o, n)
    BY <2>2, <2>8 DEF Captured, up
  <2> QED
    BY <2>1, <2>9 DEF n
<1>10. HeapOK(object', lastUpval', {})
  BY <1>1, <1>2, <1>6, <1>8, <1>9 DEF HeapOK
<1>11. OneEachStays(object, object')
  BY <1>4 DEF OneEachStays, OneEach
<1> QED
  BY <1>10, <1>11

LEMMA CollectGoesOn ==
  ASSUME StackInv, UpvalInv, Collect, phase' = "run"
  PROVE  /\ HeapOK(object', lastUpval', {}) /\ OneEachStays(object, object')
         /\ FramesLinked(frames', object') /\ UNCHANGED frames
<1>1. /\ phase = "run" /\ UNCHANGED <<frames, lastUpval>>
      /\ \/ object' = object
         \/ object' = [a \in Reached |-> object[a]] /\ Reached \subseteq Live
  BY DEF Collect, Stop, MarkOutcome
<1>2. /\ HeapOK(object, lastUpval, {}) /\ FramesLinked(frames, object)
      /\ DOMAIN object \subseteq Addresses
  BY <1>1 DEF UpvalInv, HeapOK
<1>3. CASE object' = object
  <2>1. HeapGoesOn
    BY <1>1, <1>2, <1>3, UnchangedGoesOn
  <2> QED
    BY <1>1, <1>2, <1>3, <2>1 DEF HeapGoesOn
<1>4. CASE object' = [a \in Reached |-> object[a]] /\ Reached \subseteq Live
  <2>1. IsList(frames) /\ Len(frames) \in Nat \ {0}
    BY <1>1 DEF StackInv, FramesOK, IsList
  <2>2. DOMAIN frames = 1 .. Len(frames) /\ 1 \in DOMAIN frames
    BY <2>1 DEF IsList
  <2>3. \A k \in DOMAIN frames : frames[k].closure \in Root
    BY DEF Root
  <2>4. Root \subseteq Reached /\ \A a \in Reached : Refs(a) \subseteq Reached
    BY <1>2, <1>4, <2>2, <2>3, ReachedIsClosed DEF Live
  <2>5. ClosedUnderRefs(Reached)
    BY <1>4, <2>4 DEF ClosedUnderRefs
  <2>6. ENV \in Reached
    <3> DEFINE c == frames[1].closure
    <3>1. /\ c \in Reached /\ c \in DOMAIN object /\ object[c].kind = "closure"
          /\ 1 \in DOMAIN object[c].upvalues /\ object[c].upvalues[1] = ENV
      BY <1>2, <2>1, <2>2, <2>3, <2>4 DEF FramesLinked, FrameLinked
    <3> HIDE DEF c
    <3>2. Refs(c) = Addresses \cap {object[c].upvalues[k] : k \in DOMAIN object[c].upvalues}
      BY <3>1 DEF Refs
    <3>3. ENV \in Addresses
      BY <1>2, EnvironmentIsOpen DEF OpenIn
    <3>4. ENV \in Refs(c)
      BY <3>1, <3>2, <3>3
    <3> QED
      BY <2>4, <3>1, <3>4
  <2>7. HeapOK(object', lastUpval', {}) /\ OneEachStays(object, object')
    BY <1>1, <1>2, <1>4, <2>5, <2>6, KeptIsHeap
  <2>8. \A k \in 1 .. Len(frames) :
          frames[k].closure \in Reached /\ object'[frames[k].closure] = object[frames[k].closure]
    BY <1>4, <2>2, <2>3, <2>4
  <2>9. \A k \in 1 .. Len(frames) : FrameLinked(frames[k], object')
    BY <1>2, <1>4, <2>8 DEF FramesLinked, FrameLinked
  <2>10. FramesLinked(frames, object')
    BY <1>2, <2>1, <2>2, <2>8, <2>9 DEF FramesLinked
  <2> QED
    BY <1>1, <2>7, <2>10
<1> QED
  BY <1>1, <1>3, <1>4

LEMMA UpvalInvInitially ==
  Init => UpvalInv
<1> SUFFICES ASSUME Init
             PROVE  UpvalInv
  OBVIOUS
<1>1. PICK f \in Chunks :
        /\ object = [a \in 1 .. 3 |->
             CASE a = 1 -> [NewTable EXCEPT !.field =
                              [k \in {LUA_NAT_SETMETATABLE, LUA_NAT_TYPE} |-> k]]
               [] a = 2 -> NewUpval(0, NULL, [frame |-> 0, idx |-> -1])
               [] a = 3 -> [kind |-> "closure", proto |-> f, upvalues |-> <<2>>]]
        /\ lastUpval = 2
        /\ frames = <<[closure |-> 3, proto |-> f, base |-> 1, top |-> 2, npar |-> 0,
                       nres |-> 0, size |-> Proto[f].maxstack,
                       stack_max |-> 1 + Proto[f].maxstack,
                       ip |-> 1, target |-> NULL, id |-> 0]>>
  BY DEF Init
<1>2. f \in DOMAIN Proto /\ Len(Proto[f].upvalues) = 0 /\ UpvalueCount(f) = 1
  BY VMAssumption, UpvaluesAssumption DEF UpvalueCount
<1> DEFINE table == object[1]
           env == object[2]
           main == object[3]
<1>3. DOMAIN object = 1 .. 3 /\ \A a \in 1 .. 3 : a = 1 \/ a = 2 \/ a = 3
  BY <1>1
<1>4. /\ table = [NewTable EXCEPT !.field =
                    [k \in {LUA_NAT_SETMETATABLE, LUA_NAT_TYPE} |-> k]]
      /\ env = NewUpval(0, NULL, [frame |-> 0, idx |-> -1])
      /\ main = [kind |-> "closure", proto |-> f, upvalues |-> <<2>>]
  BY <1>1
<1> HIDE DEF table, env, main
<1>5. /\ "kind" \in DOMAIN table /\ table.kind = "table"
      /\ DOMAIN env = UpvalueFields /\ env.kind = "upvalue" /\ env.voPointer = 0
      /\ env.next = NULL /\ env.prev = NULL
      /\ main.kind = "closure" /\ main.proto = f /\ main.upvalues = <<2>>
      /\ main = [kind |-> "closure", proto |-> main.proto, upvalues |-> main.upvalues]
  BY <1>4 DEF NewTable, NewUpval, UpvalueFields
<1>6. /\ \A a \in DOMAIN object : object[a] \in {table, env, main}
      /\ object[2] = env /\ object[3] = main /\ object[1] = table
  BY <1>3 DEF table, env, main
<1>7. IsList(main.upvalues) /\ Len(main.upvalues) = 1 /\ main.upvalues[1] = 2
      /\ 1 \in DOMAIN main.upvalues
  BY <1>5 DEF IsList
<1>8. ObjectOK(table) /\ ObjectOK(env) /\ ObjectOK(main)
  BY <1>2, <1>5, <1>7 DEF ObjectOK, UpvalueFields
<1>9. OpenIn(object) = {ENV}
  BY <1>3, <1>5, <1>6 DEF OpenIn, ENV, NULL
<1> DEFINE list == [k \in 1 .. 1 |-> ENV]
<1>10. Linked(object, lastUpval, 1, list)
  <2>1. lastUpval = ENV /\ object[ENV].next = NULL /\ object[ENV].prev = NULL
    BY <1>1, <1>5, <1>6 DEF ENV
  <2>2. list[1] = ENV /\ \A k \in 1 .. 1 : k = 1 /\ list[k] = ENV
    OBVIOUS
  <2>3. list = [k \in 1 .. 1 |-> list[k]]
    OBVIOUS
  <2> HIDE DEF list
  <2> QED
    BY <1>9, <2>1, <2>2, <2>3 DEF Linked
<1>11. EnvironmentOK(object)
  BY <1>5, <1>6, <1>9 DEF EnvironmentOK, ENV
<1>12. DOMAIN object \subseteq Addresses
  BY <1>3, VMAssumption DEF Addresses
<1>13. Captured(object, main, 1)
  BY <1>2, <1>3, <1>5, <1>6, <1>7 DEF Captured, IsUpvalue
<1>14. \A a \in DOMAIN object : object[a].kind = "closure" => object[a] = main
  BY <1>5, <1>6
<1> HIDE DEF list
<1>15. HeapOK(object, lastUpval, {})
  <2>1. \A a \in DOMAIN object : ObjectOK(object[a])
    BY <1>6, <1>8
  <2>2. \A a \in DOMAIN object \ {} :
          object[a].kind = "closure" =>
            Captured(object, object[a], UpvalueCount(object[a].proto))
    BY <1>2, <1>5, <1>13, <1>14
  <2> QED
    BY <1>10, <1>11, <1>12, <2>1, <2>2 DEF HeapOK
<1>16. Len(frames) = 1 /\ frames[1].closure = 3 /\ frames[1].proto = f
  BY <1>1
<1>17. FramesLinked(frames, object)
  <2>1. FrameLinked(frames[1], object)
    BY <1>3, <1>5, <1>6, <1>16 DEF FrameLinked
  <2> QED
    BY <1>6, <1>7, <1>16, <2>1 DEF FramesLinked, ENV
<1> QED
  BY <1>15, <1>17 DEF UpvalInv

(* What every step of an instruction that goes on does.                    *)
Progress ==
  /\ HeapOK(object', lastUpval', {}) /\ FramesLinked(frames', object')
  /\ OpenUpvaluesStay => OneEachStays(object, object')
  /\ FramesStay(frames, frames') \/ \E c, base : Entered(c, base)

LEMMA SteadyIsProgress ==
  ASSUME StackInv, UpvalInv, phase = "run", Steady
  PROVE  Progress
<1>1. Len(frames) \in Nat
  BY DEF StackInv, FramesOK, IsList
<1>2. /\ HeapOK(object', lastUpval', {}) /\ SameClosures(object, object')
      /\ OneEachStays(object, object') /\ FramesStay(frames, frames')
      /\ FramesLinked(frames, object)
  BY DEF Steady, HeapGoesOn, UpvalInv
<1>3. FramesLinked(frames', object')
  BY <1>1, <1>2, FramesStayLinked
<1> QED
  BY <1>2, <1>3 DEF Progress

LEMMA EnterIsProgress ==
  ASSUME StackInv, UpvalInv, phase = "run", NEW c, IsClosure(c), NEW base, NEW npar,
         NEW nres, NEW target, NEW stk, Enter(c, base, npar, nres, target, stk),
         UNCHANGED <<object, lastUpval>>
  PROVE  phase' # "run" \/ Progress
<1>1. CASE Entered(c, base)
  <2>1. HeapGoesOn /\ FramesLinked(frames', object')
    BY <1>1, EnteredIsLinked
  <2> QED
    BY <1>1, <2>1 DEF Progress, HeapGoesOn
<1> QED
  BY <1>1, EnterGoesOn

LEMMA ExecuteProgresses ==
  ASSUME StackInv, UpvalInv, phase = "run", NEW i \in Code[Top.ip], Execute(i),
         EnvironmentStays
  PROVE  phase' # "run" \/ Progress
<1>1. CASE Load(i) \/ LoadBool(i) \/ Get(i) \/ Compare(i)
  BY <1>1, MovesGoOn, SteadyIsProgress
<1>2. CASE Set(i)
  BY <1>2, SetGoesOn, SteadyIsProgress
<1>3. CASE Make(i)
  BY <1>3, MakeGoesOn, SteadyIsProgress
<1>4. CASE MakeClosure(i)
  BY <1>4, MakeClosureGoesOn, SteadyIsProgress
<1>5. CASE Jump(i)
  BY <1>5, JumpGoesOn, SteadyIsProgress
<1>6. CASE CallNative(i)
  BY <1>6, CallNativeGoesOn, SteadyIsProgress
<1>7. CASE Return(i)
  BY <1>7, ReturnGoesOn, SteadyIsProgress
<1>8. CASE SetUpval(i)
  <2>1. /\ HeapOK(object', lastUpval', {}) /\ SameClosures(object, object')
        /\ FramesStay(frames, frames')
        /\ OpenUpvaluesStay => OneEachStays(object, object')
    BY <1>8, SetUpvalGoesOn
  <2>2. Len(frames) \in Nat /\ FramesLinked(frames, object)
    BY DEF StackInv, FramesOK, IsList, UpvalInv
  <2>3. FramesLinked(frames', object')
    BY <2>1, <2>2, FramesStayLinked
  <2> QED
    BY <2>1, <2>3 DEF Progress
<1>9. CASE Call(i)
  BY <1>9, EnterIsProgress DEF Call
<1>10. CASE Arithmetic(i)
  <2> DEFINE B == RK(i.b)
             C == RK(i.c)
             target == Top.base + i.a
  <2>1. UNCHANGED <<object, lastUpval>>
    BY <1>10 DEF Arithmetic
  <2>2. CASE Continue(0)
    <3>1. HeapGoesOn
      BY <2>1, UnchangedGoesOn DEF UpvalInv
    <3>2. FramesStay(frames, frames')
      BY <2>2, IpMoves DEF Continue
    <3> QED
      BY <3>1, <3>2, SteadyIsProgress DEF Steady
  <2>3. ASSUME NEW x, NEW y, CallM(x, y, target)
        PROVE  phase' # "run" \/ Progress
    BY <2>1, <2>3, EnterIsProgress DEF CallM
  <2>4. Continue(0) \/ CallM(B, C, target) \/ CallM(C, B, target)
    BY <1>10 DEF Arithmetic
  <2> QED
    BY <2>2, <2>3, <2>4
<1>11. CASE Exit(i)
  BY <1>11 DEF Exit
<1>12. CASE OutOfMemory(i) \/ Misuse(i)
  BY <1>12 DEF OutOfMemory, Misuse, Stop
<1> QED
  BY <1>1, <1>2, <1>3, <1>4, <1>5, <1>6, <1>7, <1>8, <1>9, <1>10, <1>11, <1>12 DEF Execute

LEMMA NextProgresses ==
  ASSUME StackInv, UpvalInv, Next, EnvironmentStays, phase' = "run"
  PROVE  phase = "run" /\ Progress
<1>1. CASE Collect
  <2>1. phase = "run"
    BY <1>1 DEF Collect
  <2>2. /\ HeapOK(object', lastUpval', {}) /\ OneEachStays(object, object')
        /\ FramesLinked(frames', object') /\ UNCHANGED frames
    BY <1>1, CollectGoesOn
  <2>3. Len(frames) \in Nat \ {0}
    BY <2>1 DEF StackInv, FramesOK, IsList
  <2>4. FramesStay(frames, frames')
    BY <2>2, <2>3 DEF FramesStay, SameFrame
  <2> QED
    BY <2>1, <2>2, <2>4 DEF Progress
<1>2. CASE phase = "run" /\ \E i \in Code[Top.ip] : Execute(i)
  BY <1>2, ExecuteProgresses
<1> QED
  BY <1>1, <1>2 DEF Next

LEMMA UpvalInvHolds ==
  Spec /\ [][EnvironmentStays]_vmVars => []UpvalInv
<1>1. StackInv /\ UpvalInv /\ [Next]_vmVars /\ [EnvironmentStays]_vmVars => UpvalInv'
  <2> SUFFICES ASSUME StackInv, UpvalInv, [Next]_vmVars, [EnvironmentStays]_vmVars
               PROVE  UpvalInv'
    OBVIOUS
  <2>1. CASE UNCHANGED vmVars
    BY <2>1 DEF vmVars, UpvalInv, HeapOK, FramesLinked
  <2>2. CASE Next /\ EnvironmentStays
    BY <2>2, NextProgresses DEF UpvalInv, Progress
  <2> QED
    BY <2>1, <2>2
<1> QED
  BY UpvalInvInitially, StackInvHolds, <1>1, PTL DEF Spec

(* The list that starts at lastUpval holds exactly the open upvalues,      *)
(* linked both ways: OP_CLOSURE puts new ones at its head (vm.cpp:107),    *)
(* closeUpvals takes them out from anywhere (vm.cpp:498), and the          *)
(* collector (gc.cpp:9), whose root it is not, reclaims none of them.      *)
(* This holds for every program that assigns nothing to _ENV.              *)
THEOREM OpenListHolds ==
  Spec /\ [][EnvironmentStays]_vmVars => []OpenList
<1>1. UpvalInv => OpenList
  <2> SUFFICES ASSUME UpvalInv, phase = "run"
               PROVE  LET list == OnChain(object, lastUpval)
                      IN /\ list = Open
                         /\ list # {} => object[lastUpval].prev = NULL
                         /\ \A u \in list : object[u].next # NULL =>
                              /\ object[u].next \in Live
                              /\ object[object[u].next].prev = u
    BY DEF OpenList
  <2>1. DOMAIN object \subseteq Addresses /\ \E N, list : Linked(object, lastUpval, N, list)
    BY DEF UpvalInv, HeapOK
  <2>2. PICK N, list : Linked(object, lastUpval, N, list)
    BY <2>1
  <2>3. OnChain(object, lastUpval) = Open
    BY <2>1, <2>2, OnChainIs, OpenIsOpen
  <2>4. /\ N \in Nat \ {0} /\ lastUpval = list[1]
        /\ \A k \in 1 .. N : list[k] \in OpenIn(object)
        /\ \A w \in OpenIn(object) : \E k \in 1 .. N : list[k] = w
        /\ \A k \in 1 .. N : object[list[k]].next = IF k = N THEN NULL ELSE list[k + 1]
        /\ \A k \in 1 .. N : object[list[k]].prev = IF k = 1 THEN NULL ELSE list[k - 1]
    BY <2>2 DEF Linked
  <2>5. object[lastUpval].prev = NULL
    <3>1. 1 \in 1 .. N
      BY <2>4
    <3> QED
      BY <2>4, <3>1
  <2>6. ASSUME NEW u \in Open, object[u].next # NULL
        PROVE  object[u].next \in Live /\ object[object[u].next].prev = u
    <3>1. PICK k \in 1 .. N : list[k] = u
      BY <2>4, OpenIsOpen
    <3>2. k # N /\ object[u].next = list[k + 1]
      BY <2>4, <2>6, <3>1
    <3> DEFINE j == k + 1
    <3>3. j \in 1 .. N /\ j # 1 /\ j - 1 = k
      BY <2>4, <3>2
    <3> HIDE DEF j
    <3>4. list[j] \in OpenIn(object) /\ object[list[j]].prev = u
      BY <2>4, <3>1, <3>3
    <3> QED
      BY <3>2, <3>4 DEF OpenIn, Live, j
  <2> QED
    BY <2>3, <2>5, <2>6
<1> QED
  BY <1>1, UpvalInvHolds, PTL

OneEachInv == phase = "run" => OneEach(object)

LEMMA OneEachInitially ==
  Init => OneEachInv
<1> SUFFICES ASSUME Init
             PROVE  OneEachInv
  OBVIOUS
<1>1. PICK f \in Chunks :
        object = [a \in 1 .. 3 |->
             CASE a = 1 -> [NewTable EXCEPT !.field =
                              [k \in {LUA_NAT_SETMETATABLE, LUA_NAT_TYPE} |-> k]]
               [] a = 2 -> NewUpval(0, NULL, [frame |-> 0, idx |-> -1])
               [] a = 3 -> [kind |-> "closure", proto |-> f, upvalues |-> <<2>>]]
  BY DEF Init
<1>2. DOMAIN object = 1 .. 3 /\ object[1].kind = "table" /\ object[3].kind = "closure"
  BY <1>1 DEF NewTable
<1>3. \A u \in OpenIn(object) : u = 2
  BY <1>2 DEF OpenIn
<1> QED
  BY <1>3 DEF OneEachInv, OneEach

LEMMA OneEachHolds ==
  Spec /\ [][OpenUpvaluesStay]_vmVars => [](UpvalInv /\ OneEachInv)
<1>1. StackInv /\ UpvalInv /\ OneEachInv /\ [Next]_vmVars /\ [OpenUpvaluesStay]_vmVars
        => UpvalInv' /\ OneEachInv'
  <2> SUFFICES ASSUME StackInv, UpvalInv, OneEachInv, [Next]_vmVars,
                      [OpenUpvaluesStay]_vmVars
               PROVE  UpvalInv' /\ OneEachInv'
    OBVIOUS
  <2>1. CASE UNCHANGED vmVars
    BY <2>1 DEF vmVars, UpvalInv, OneEachInv, HeapOK, FramesLinked, OneEach
  <2>2. CASE Next /\ OpenUpvaluesStay
    <3>1. EnvironmentStays
      BY <2>2, OpenStayIsEnough
    <3>2. phase' = "run" => phase = "run" /\ Progress
      BY <2>2, <3>1, NextProgresses
    <3>3. UpvalInv'
      BY <3>2 DEF UpvalInv, Progress
    <3>4. OneEachInv'
      BY <2>2, <3>2 DEF OneEachInv, Progress, OneEachStays
    <3> QED
      BY <3>3, <3>4
  <2> QED
    BY <2>1, <2>2
<1> QED
  BY UpvalInvInitially, OneEachInitially, StackInvHolds, <1>1, PTL DEF Spec

(* "Only one per value in whole program" (upvalue.h:21): OP_CLOSURE finds  *)
(* the open upvalue of a register when there is one (vm.cpp:97), for       *)
(* every program that assigns no variable through an open upvalue.         *)
THEOREM OneUpvaluePerSlotHolds ==
  Spec /\ [][OpenUpvaluesStay]_vmVars => []OneUpvaluePerSlot
<1>1. OneEachInv => OneUpvaluePerSlot
  BY OpenIsOpen DEF OneEachInv, OneEach, OneUpvaluePerSlot
<1> QED
  BY <1>1, OneEachHolds, PTL
=============================================================================
