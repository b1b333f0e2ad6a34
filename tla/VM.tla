--------------------------------- MODULE VM ---------------------------------
(***************************************************************************)
(* The virtual machine (src/src/vm/vm.cpp): one register stack shared by   *)
(* all activations, the chain of call frames, closures and the list of     *)
(* open upvalues, and the garbage collector that runs between two          *)
(* instructions.  One action per opcode; an instruction is a record of     *)
(* its opcode and operands.                                                *)
(*                                                                         *)
(* execute() calls itself for every Lua call; here the activations are the *)
(* sequence frames, and OP_RETURN does what execute's caller does next.    *)
(*                                                                         *)
(* Objects are named by addresses 1 .. HEAP_OBJECTS; object maps those in  *)
(* use to their contents.  The allocator returns the first free one, as    *)
(* Heap.tla does for objects of one size.  Numbers, booleans and constant  *)
(* strings are model values (Scalars), and the result of arithmetic or the *)
(* outcome of a comparison is any; a string made at run time is an object. *)
(***************************************************************************)
EXTENDS Integers, Sequences, FiniteSets

CONSTANTS
  NIL,            (* The value nil.                                        *)
  Scalars,        (* The values that are not objects.                      *)
  Numbers,        (* Those of them that are numbers,                       *)
  FALSEVALUE,     (*   the boolean false,                                  *)
  LUA_NAT_SETMETATABLE, (* the native function setmetatable,               *)
  LUA_NAT_TYPE,   (*   the native function type,                           *)
  ADD_KEY,        (*   and the key "__add".                                *)
  STACK_SIZE,     (* VM_STACK_SIZE (250).                                  *)
  HEAP_OBJECTS,   (* How many objects fit into the heap.                   *)
  Proto,          (* Function prototypes: name |-> maxstack, upvalues (the *)
                  (*   descriptors) and code.  code[n] is the set of       *)
                  (*   instructions that may stand at position n: one for  *)
                  (*   a given program, more to explore many programs.     *)
  Chunks          (* The prototypes that may be the main chunk.            *)

ASSUME VMAssumption ==
  /\ Numbers \cup {FALSEVALUE, LUA_NAT_SETMETATABLE, LUA_NAT_TYPE, ADD_KEY} \subseteq Scalars
  /\ NIL \notin Scalars
  /\ STACK_SIZE \in Nat
  /\ HEAP_OBJECTS \in Nat /\ HEAP_OBJECTS >= 3   (* VM::init makes three.    *)
  /\ Chunks \subseteq DOMAIN Proto
  /\ \A f \in DOMAIN Proto :
       /\ Proto[f].maxstack \in Nat \ {0, 1}
       /\ Proto[f].upvalues \in Seq([instack : BOOLEAN, idx : Nat])

(* Where instruction i at position n may go on.                            *)
Successors(n, i) ==
  CASE i.op = "JMP"            -> {n + 1 + i.b}
    [] i.op = "LOADBOOL"       -> {n + 1 + i.c}
    [] i.op \in {"EQ", "TEST"} -> {n + 1, n + 2}
    [] i.op = "RETURN"         -> {}
    [] OTHER                   -> {n + 1}

(* A function as luac writes it: control stays within the code, which ends *)
(* with a return, and a CALL whose arguments reach up to top (B = 0) comes *)
(* right after the CALL in its last argument that set top (C = 0).         *)
WellFormed(code) ==
  /\ 1 \in DOMAIN code /\ DOMAIN code \subseteq Nat
  /\ \A n \in DOMAIN code : \A i \in code[n] :
       /\ i.a \in Nat
       /\ i.op \in {"CALL", "RETURN", "LOADNIL"} => i.b \in Nat
       /\ i.op \in {"CALL", "LOADBOOL"} => i.c \in Nat
       /\ i.op = "JMP" => i.b \in Int
       /\ i.op = "CLOSURE" => i.b \in DOMAIN Proto
       /\ Successors(n, i) \subseteq DOMAIN code
       /\ i.op = "CALL" /\ i.b = 0 =>
            /\ n # 1
            /\ \A m \in DOMAIN code : \A j \in code[m] :
                 n \in Successors(m, j) => j.op = "CALL" /\ j.c = 0 /\ j.a > i.a

ASSUME ProgramAssumption ==
  \A f \in DOMAIN Proto : WellFormed(Proto[f].code)

(* How many upvalues a function has.  The main chunk has one, the          *)
(* environment, which VM::init makes; no descriptor of it is ever used.    *)
UpvalueCount(f) == IF f \in Chunks THEN 1 ELSE Len(Proto[f].upvalues)

(* Functions take over only upvalues that their enclosing function has.    *)
ASSUME UpvaluesAssumption ==
  /\ \A f \in Chunks : Proto[f].upvalues = <<>>
  /\ \A f \in DOMAIN Proto : \A n \in DOMAIN Proto[f].code : \A i \in Proto[f].code[n] :
       i.op = "CLOSURE" =>
         /\ i.b \notin Chunks
         /\ \A d \in 1 .. Len(Proto[i.b].upvalues) :
              Proto[i.b].upvalues[d].instack \/ Proto[i.b].upvalues[d].idx < UpvalueCount(f)

VARIABLES
  stack,      (* Slot |-> value.                                           *)
  object,     (* Address in use |-> the object there.                      *)
  lastUpval,  (* Head of the list of open upvalues.                        *)
  frames,     (* The call frames, the running one last.                    *)
  gray,       (* Objects marked gray while no collection runs.             *)
  collect,    (* Has an instruction just ended, so that the collector may  *)
              (*   run?  (gc % GC_CYCLES = 0 can hold at any of them.)     *)
  phase       (* "run" or why the machine stopped.                         *)

vmVars == <<stack, object, lastUpval, frames, gray, collect, phase>>

NULL == -1

Slots == 0 .. STACK_SIZE - 1
Addresses == 1 .. HEAP_OBJECTS
Values == {NIL} \cup Scalars \cup Addresses
Live == DOMAIN object

Is(kind, v) == v \in Live /\ object[v].kind = kind
IsTable(v) == Is("table", v)
IsClosure(v) == Is("closure", v)

(* A finite map with one entry added or replaced.                          *)
With(map, a, content) ==
  [b \in DOMAIN map \cup {a} |-> IF b = a THEN content ELSE map[b]]

FreeAddresses(objects) == Addresses \ DOMAIN objects

FirstFree(objects) ==
  CHOOSE a \in FreeAddresses(objects) :
    \A b \in FreeAddresses(objects) : a <= b

(* unfound is the values stored under nil: an entry each time, since nil   *)
(* equals nothing, and none that a search finds.                           *)
NewTable ==
  [kind |-> "table", field |-> [k \in {} |-> NIL], unfound |-> {}, metatable |-> NULL]

NewString == [kind |-> "string"]

(* Table::get; a key that was set to nil keeps its entry.                  *)
Field(t, k) ==
  IF k \in DOMAIN object[t].field THEN object[t].field[k] ELSE NIL

-----------------------------------------------------------------------------
(* The running frame *)

Top == frames[Len(frames)]
Closure == object[Top.closure]
Code == Proto[Top.proto].code

R(i) == stack[Top.base + i]
RK(x) == IF x \in Scalars THEN x ELSE R(x)
Upvalue(i) == Closure.upvalues[i + 1]

(* UpvalueRef::getValue                                                    *)
GetValue(u) == IF object[u].voPointer # NULL THEN stack[object[u].voPointer]
               ELSE object[u].value

SetR(i, v) == stack' = [stack EXCEPT ![Top.base + i] = v]

(* The instruction ends; the next one is n after the one that follows.     *)
Continue(n) ==
  /\ frames' = [frames EXCEPT ![Len(frames)].ip = @ + 1 + n]
  /\ collect' = TRUE
  /\ phase' = "run"

-----------------------------------------------------------------------------
(* Upvalues *)

(* The open upvalues in the order of the list: the n-th, or NULL.          *)
Chain(objects, last) ==
  LET nth[n \in 0 .. HEAP_OBJECTS] ==
        IF n = 0 THEN last
        ELSE LET before == nth[n - 1]
             IN IF before \in DOMAIN objects THEN objects[before].next ELSE NULL
  IN nth

OnChain(objects, last) ==
  LET chain == Chain(objects, last)
  IN {chain[n] : n \in 0 .. HEAP_OBJECTS} \ {NULL}

(* The search of OP_CLOSURE for an open upvalue of slot s.                 *)
FindUpvalFirst(objects, last, s) ==
  IF last # NULL /\ objects[last].voPointer = s THEN last ELSE NULL

FindUpval(objects, last, s) ==
  LET chain == Chain(objects, last)
      hits  == {n \in 0 .. HEAP_OBJECTS :
                  chain[n] # NULL /\ objects[chain[n]].voPointer = s}
  IN IF hits = {} THEN NULL
     ELSE chain[CHOOSE n \in hits : \A m \in hits : n <= m]

(* home is not in the code: the activation and register of the variable    *)
(* the upvalue was made for, which the properties below refer to.          *)
NewUpval(s, next, home) ==
  [kind |-> "upvalue", voPointer |-> s, value |-> NIL,
   next |-> next, prev |-> NULL, home |-> home]

(* One descriptor of OP_CLOSURE for the new closure c: take the enclosing  *)
(* function's upvalue, or the open upvalue of its register, or put a new   *)
(* one at the list's head, for which the heap may have no room.            *)
Capture(st, c, desc) ==
  LET s       == Top.base + desc.idx
      found   == FindUpval(st.object, st.last, s)
      u       == FirstFree(st.object)
      made    == With(st.object, u,
                      NewUpval(s, st.last, [frame |-> Top.id, idx |-> desc.idx]))
      Push(objects, upv) == [objects EXCEPT ![c].upvalues = Append(@, upv)]
  IN IF ~desc.instack
     THEN [st EXCEPT !.object = Push(@, Upvalue(desc.idx))]
     ELSE IF found # NULL
     THEN [st EXCEPT !.object = Push(@, found)]
     ELSE IF FreeAddresses(st.object) = {}
     THEN [st EXCEPT !.full = TRUE]
     ELSE [object |-> Push(IF st.last = NULL THEN made
                           ELSE [made EXCEPT ![st.last].prev = u], u),
           last   |-> u,
           full   |-> st.full]

(* All of them, for a closure of prototype f.                              *)
Capturing(f) ==
  LET c     == FirstFree(object)
      descs == Proto[f].upvalues
      after[n \in 0 .. Len(descs)] ==
        IF n = 0
        THEN [object |-> With(object, c, [kind |-> "closure", proto |-> f,
                                          upvalues |-> <<>>]),
              last   |-> lastUpval,
              full   |-> FALSE]
        ELSE Capture(after[n - 1], c, descs[n])
  IN after[Len(descs)]

(* UpvalueRef::close: the value moves from the stack into the upvalue and  *)
(* is marked gray, the upvalue leaves the list.                            *)
UnlinkedNextOnly(objects, u) ==
  LET o == objects[u]
  IN [b \in DOMAIN objects |->
        IF b = o.prev THEN [objects[b] EXCEPT !.next = o.next]
        ELSE objects[b]]

Unlinked(objects, u) ==
  LET o == objects[u]
  IN [b \in DOMAIN objects |->
        IF b = o.prev THEN [objects[b] EXCEPT !.next = o.next]
        ELSE IF b = o.next THEN [objects[b] EXCEPT !.prev = o.prev]
        ELSE objects[b]]

Close(st, u) ==
  LET o    == st.object[u]
      last == IF u = st.last THEN o.next ELSE st.last
  IN IF o.voPointer = NULL
     THEN [st EXCEPT !.last = last]
     ELSE [object |-> [Unlinked(st.object, u) EXCEPT
                         ![u].value = stack[o.voPointer], ![u].voPointer = NULL],
           last   |-> last,
           gray   |-> st.gray \cup ({stack[o.voPointer]} \cap Addresses)]

(* VM::closeUpvals: those the closures in registers Rst and up captured    *)
(* from a stack.                                                           *)
CloseEndTop == Top.top

CloseEnd == Top.base + Top.size

CloseCaptured(st, c) ==
  LET descs == Proto[object[c].proto].upvalues
      after[n \in 0 .. Len(descs)] ==
        IF n = 0 THEN st
        ELSE IF descs[n].instack THEN Close(after[n - 1], object[c].upvalues[n])
        ELSE after[n - 1]
  IN after[Len(descs)]

CloseUpvals(Rst) ==
  LET count == IF Rst < CloseEnd THEN CloseEnd - Rst ELSE 0
      after[n \in 0 .. count] ==
        IF n = 0 THEN [object |-> object, last |-> lastUpval, gray |-> gray]
        ELSE IF IsClosure(stack[Rst + n - 1])
        THEN CloseCaptured(after[n - 1], stack[Rst + n - 1])
        ELSE after[n - 1]
  IN after[count]

-----------------------------------------------------------------------------
(* Instructions that only move values *)

Load(i) ==
  /\ \/ i.op = "LOADK" /\ SetR(i.a, i.b)
     \/ i.op = "MOVE" /\ SetR(i.a, R(i.b))
     \/ i.op = "GETUPVAL" /\ SetR(i.a, GetValue(Upvalue(i.b)))
     \/ /\ i.op = "LOADNIL"
        /\ stack' = [s \in Slots |->
                       IF s \in Top.base + i.a .. Top.base + i.a + i.b THEN NIL
                       ELSE stack[s]]
  /\ Continue(0)
  /\ UNCHANGED <<object, lastUpval, gray>>

(* Skips the next instruction when C is set.                               *)
LoadBool(i) ==
  /\ i.op = "LOADBOOL"
  /\ SetR(i.a, i.b)
  /\ Continue(i.c)
  /\ UNCHANGED <<object, lastUpval, gray>>

(* An open upvalue is made to point at the register, a closed one stored.  *)
SetUpval(i) ==
  /\ i.op = "SETUPVAL"
  /\ LET u == Upvalue(i.b)
     IN object' = IF object[u].voPointer = NULL
                  THEN [object EXCEPT ![u].value = R(i.a)]
                  ELSE [object EXCEPT ![u].voPointer = Top.base + i.a]
  /\ Continue(0)
  /\ UNCHANGED <<stack, lastUpval, gray>>

(* The tables that an instruction reads or writes.                         *)
Get(i) ==
  /\ \/ /\ i.op = "GETTABUP" /\ IsTable(GetValue(Upvalue(i.b)))
        /\ SetR(i.a, Field(GetValue(Upvalue(i.b)), RK(i.c)))
     \/ /\ i.op = "GETTABLE" /\ IsTable(R(i.b))
        /\ SetR(i.a, Field(R(i.b), RK(i.c)))
     \/ /\ i.op = "SELF" /\ IsTable(R(i.b))
        /\ stack' = [stack EXCEPT
                       ![Top.base + i.a + 1] = R(i.b),
                       ![Top.base + i.a] = Field(R(i.b), RK(i.c))]
  /\ Continue(0)
  /\ UNCHANGED <<object, lastUpval, gray>>

(* Table::set                                                              *)
SetField(t, k, v) ==
  /\ IsTable(t)
  /\ \/ k # NIL /\ object' = [object EXCEPT ![t].field = With(@, k, v)]
     \/ k = NIL /\ object' = [object EXCEPT ![t].unfound = @ \cup {v}]

Set(i) ==
  /\ \/ /\ i.op = "SETTABUP"
        /\ SetField(GetValue(Upvalue(i.a)), RK(i.b), RK(i.c))
     \/ /\ i.op = "SETTABLE"
        /\ SetField(R(i.a), RK(i.b), RK(i.c))
  /\ Continue(0)
  /\ UNCHANGED <<stack, lastUpval, gray>>

(* OP_NEWTABLE and OP_CONCAT put a new object into R(A).                   *)
Make(i) ==
  /\ FreeAddresses(object) # {}
  /\ \/ i.op = "NEWTABLE" /\ object' = With(object, FirstFree(object), NewTable)
     \/ i.op = "CONCAT" /\ object' = With(object, FirstFree(object), NewString)
  /\ SetR(i.a, FirstFree(object))
  /\ Continue(0)
  /\ UNCHANGED <<lastUpval, gray>>

(* OP_EQ, OP_LT, OP_LE: either outcome.  OP_TEST looks at the register.    *)
Compare(i) ==
  /\ \/ i.op = "EQ" /\ \E skip \in {0, 1} : Continue(skip)
     \/ /\ i.op = "TEST"
        /\ Continue(IF (i.c = 1) = (R(i.a) \in {NIL, FALSEVALUE}) THEN 1 ELSE 0)
  /\ UNCHANGED <<stack, object, lastUpval, gray>>

-----------------------------------------------------------------------------
(* Closures *)

MakeClosure(i) ==
  /\ i.op = "CLOSURE"
  /\ FreeAddresses(object) # {}
  /\ LET st == Capturing(i.b)
     IN /\ ~st.full
        /\ object' = st.object
        /\ lastUpval' = st.last
  /\ SetR(i.a, FirstFree(object))
  /\ Continue(0)
  /\ UNCHANGED gray

(* closeUpvals marks values gray at once; that aborts on a freed block.    *)
Closed(st) ==
  /\ object' = st.object
  /\ lastUpval' = st.last
  /\ gray' = st.gray

MarkOutcome(objects) == IF objects \subseteq Live THEN "run" ELSE "freed marked"

JumpStart(i) == i.a - 1

Jump(i) ==
  /\ i.op = "JMP"
  /\ IF i.a # 0 THEN Closed(CloseUpvals(JumpStart(i)))
     ELSE UNCHANGED <<object, lastUpval, gray>>
  /\ frames' = [frames EXCEPT ![Len(frames)].ip = @ + 1 + i.b]
  /\ collect' = TRUE
  /\ phase' = MarkOutcome(gray')
  /\ UNCHANGED stack

-----------------------------------------------------------------------------
(* Calls *)

(* An identity for the activation, for home (not in the code).             *)
NewId ==
  LET used == {frames[k].id : k \in DOMAIN frames}
                \cup {object[u].home.frame : u \in {v \in Live : Is("upvalue", v)}}
  IN CHOOSE n \in 0 .. Cardinality(used) :
       n \notin used /\ \A m \in 0 .. Cardinality(used) : m < n => m \in used

(* CallFrame's constructor.                                                *)
StackMax(base, size) ==
  IF base + size > Top.stack_max THEN base + size ELSE Top.stack_max

Frame(c, base, top, npar, nres, target) ==
  LET proto == object[c].proto
      size  == Proto[proto].maxstack
  IN [closure |-> c, proto |-> proto, base |-> base, top |-> top, size |-> size,
      npar |-> npar, nres |-> nres, stack_max |-> StackMax(base, size),
      ip |-> 1, target |-> target, id |-> NewId]

(* execute() on a new frame: the registers that got no argument are nil.   *)
(* stk is the stack with the arguments in place.  There is no check for    *)
(* the end of the stack, beyond which anything can happen.                 *)
Enter(c, base, npar, nres, target, stk) ==
  LET end == base + Proto[object[c].proto].maxstack
  IN IF end > STACK_SIZE
     THEN phase' = "undefined" /\ UNCHANGED <<stack, frames, collect>>
     ELSE /\ stack' = [s \in Slots |-> IF s \in base + npar .. end - 1 THEN NIL
                                       ELSE stk[s]]
          /\ frames' = Append(frames, Frame(c, base, base + npar, npar, nres, target))
          /\ collect' = FALSE
          /\ phase' = "run"

(* With B = 0 the arguments reach up to top.                               *)
Arguments(i) == IF i.b = 0 THEN Top.top - Top.base - i.a - 1 ELSE i.b - 1

CalleeBaseLow(i) == Top.base + i.a

CalleeBase(i) == Top.base + i.a + 1

Call(i) ==
  /\ i.op = "CALL"
  /\ IsClosure(R(i.a))
  /\ Enter(R(i.a), CalleeBase(i), Arguments(i), i.c - 1, NULL, stack)
  /\ UNCHANGED <<object, lastUpval, gray>>

(* A metatable of nil takes the metatable away.                            *)
Metatable(v) == IF v = NIL THEN NULL ELSE v

(* Two native functions.  type makes a string in R(A), wanted or not;      *)
(* setmetatable returns nothing.  With C = 0 the results end at top.       *)
CallNative(i) ==
  /\ i.op = "CALL"
  /\ \/ /\ R(i.a) = LUA_NAT_TYPE /\ Arguments(i) = 1 /\ FreeAddresses(object) # {}
        /\ object' = With(object, FirstFree(object), NewString)
        /\ SetR(i.a, FirstFree(object))
     \/ /\ R(i.a) = LUA_NAT_SETMETATABLE /\ Arguments(i) = 2
        /\ IsTable(R(i.a + 1)) /\ (IsTable(R(i.a + 2)) \/ R(i.a + 2) = NIL)
        /\ object' = [object EXCEPT ![R(i.a + 1)].metatable = Metatable(R(i.a + 2))]
        /\ UNCHANGED stack
  /\ LET results == IF R(i.a) = LUA_NAT_TYPE THEN 1 ELSE 0
     IN frames' = [frames EXCEPT ![Len(frames)] =
                     [Top EXCEPT !.ip = @ + 1,
                                 !.top = IF i.c = 0 THEN Top.base + i.a + results
                                         ELSE @]]
  /\ collect' = TRUE
  /\ phase' = "run"
  /\ UNCHANGED <<lastUpval, gray>>

(* VM::callM: the metatable of the first operand, else of the second, is   *)
(* asked for __add.  An operand that is no table is read as one all the    *)
(* same, which is undefined.                                               *)
MetaReadable(x, y) ==
  IsTable(x) /\ (object[x].metatable # NULL \/ IsTable(y))

Handler(x, y) ==
  LET meta == IF object[x].metatable # NULL THEN object[x].metatable
              ELSE object[y].metatable
  IN IF meta = NULL THEN NIL ELSE Field(meta, ADD_KEY)

(* The arguments go above the frame's registers, and the handler's frame   *)
(* starts at them: its result lands in the frame's last register.          *)
CallM(x, y, target) ==
  LET newbase == Top.base + Top.size
  IN /\ MetaReadable(x, y)
     /\ IsClosure(Handler(x, y))
     /\ Enter(Handler(x, y), newbase, 2, 1, target,
              [s \in Slots |-> IF s = newbase THEN x
                               ELSE IF s = newbase + 1 THEN y ELSE stack[s]])

(* OP_ADD, OP_SUB, OP_MUL and OP_DIV, which all look for __add.            *)
Arithmetic(i) ==
  /\ i.op = "ADD"
  /\ LET B == RK(i.b)
         C == RK(i.c)
         target == Top.base + i.a
     IN \/ /\ {B, C} \subseteq Numbers
           /\ \E n \in Numbers : SetR(i.a, n)
           /\ Continue(0)
        \/ CallM(B, C, target)
        \/ MetaReadable(B, C) /\ Handler(B, C) = NIL /\ CallM(C, B, target)
  /\ UNCHANGED <<object, lastUpval, gray>>

(* OP_RETURN of n values from R(A) on: they are copied down to where the   *)
(* function was, and the rest of the frame becomes nil, whatever number of *)
(* results the caller asked for.                                           *)
CleanedShort(n) == Top.base + n .. Top.base + Top.size - 1

CleanedToTop(n) == Top.base - 1 + n .. Top.top - 1

Cleaned(n) == Top.base - 1 + n .. Top.base + Top.size - 1

Returned(i, n) ==
  [s \in Slots |-> IF s \in Top.base - 1 .. Top.base - 2 + n THEN R(i.a + s + 1 - Top.base)
                   ELSE IF s \in Cleaned(n) THEN NIL
                   ELSE stack[s]]

(* What the caller does with them: OP_CALL with C = 0 notes where they end *)
(* (at top), callM copies the one at top to R(A).                          *)
Deliver(caller, stk, top) ==
  IF Top.target = NULL
  THEN /\ stack' = stk
       /\ frames' = [k \in 1 .. Len(frames) - 1 |->
                       IF k < Len(frames) - 1 THEN frames[k]
                       ELSE [caller EXCEPT !.ip = @ + 1,
                                           !.top = IF Top.nres = -1 THEN top + 1
                                                   ELSE @]]
  ELSE /\ stack' = [stk EXCEPT ![Top.target] = stk[top]]
       /\ frames' = [k \in 1 .. Len(frames) - 1 |->
                       IF k < Len(frames) - 1 THEN frames[k]
                       ELSE [caller EXCEPT !.ip = @ + 1]]

ReturnStartLow == Top.base - 1

ReturnStart == Top.base

Return(i) ==
  /\ i.op = "RETURN" /\ i.b > 0
  /\ Len(frames) > 1
  /\ Closed(CloseUpvals(ReturnStart))
  /\ Deliver(frames[Len(frames) - 1], Returned(i, i.b - 1), Top.base - 3 + i.b)
  /\ collect' = TRUE
  /\ phase' = MarkOutcome(gray')

(* The main chunk returns: VM::run sweeps everything.                      *)
Exit(i) ==
  /\ i.op = "RETURN" /\ i.b > 0
  /\ Len(frames) = 1
  /\ object' = [a \in {} |-> NULL]
  /\ lastUpval' = NULL
  /\ gray' = {}
  /\ frames' = <<>>
  /\ phase' = IF MarkOutcome(CloseUpvals(ReturnStart).gray) = "run" THEN "exited"
              ELSE "freed marked"
  /\ collect' = FALSE
  /\ UNCHANGED stack

-----------------------------------------------------------------------------
(* Where the machine stops: allocBlock's exit, and assertions that fail or *)
(* casts of a value that is not what the instruction takes it for.         *)

Exhausts(i) ==
  \/ /\ FreeAddresses(object) = {}
     /\ \/ i.op \in {"CLOSURE", "NEWTABLE", "CONCAT"}
        \/ i.op = "CALL" /\ R(i.a) = LUA_NAT_TYPE /\ Arguments(i) = 1
  \/ i.op = "CLOSURE" /\ FreeAddresses(object) # {} /\ Capturing(i.b).full

Stop(why) ==
  /\ phase' = why
  /\ UNCHANGED <<stack, object, lastUpval, frames, gray, collect>>

OutOfMemory(i) == Exhausts(i) /\ Stop("out of memory")

Misused(i) ==
  \/ i.op \in {"GETTABLE", "SELF"} /\ ~IsTable(R(i.b))
  \/ i.op = "SETTABLE" /\ ~IsTable(R(i.a))
  \/ i.op = "GETTABUP" /\ ~IsTable(GetValue(Upvalue(i.b)))
  \/ i.op = "SETTABUP" /\ ~IsTable(GetValue(Upvalue(i.a)))
  \/ /\ i.op = "CALL"
     /\ ~IsClosure(R(i.a))
     /\ ~(R(i.a) = LUA_NAT_TYPE /\ Arguments(i) = 1)
     /\ ~(/\ R(i.a) = LUA_NAT_SETMETATABLE /\ Arguments(i) = 2 /\ IsTable(R(i.a + 1))
          /\ IsTable(R(i.a + 2)) \/ R(i.a + 2) = NIL)
  \/ /\ i.op = "ADD"
     /\ LET B == RK(i.b)
            C == RK(i.c)
            calls(x, y) == MetaReadable(x, y) /\ IsClosure(Handler(x, y))
        IN /\ ~({B, C} \subseteq Numbers)
           /\ ~calls(B, C)
           /\ ~(MetaReadable(B, C) /\ Handler(B, C) = NIL /\ calls(C, B))
  \/ i.op = "RETURN" /\ i.b = 0

Misuse(i) == Misused(i) /\ Stop("undefined")

-----------------------------------------------------------------------------
(* The collector, between two instructions *)

(* GC::root.  It goes on to stack_max inclusive.                           *)
RootSlotsToTop == 0 .. Top.top - 1

RootSlots == 0 .. Top.stack_max

Root ==
  ({stack[s] : s \in RootSlots} \cap Addresses)
    \cup {frames[k].closure : k \in DOMAIN frames}
    \cup gray

(* The gc() methods: what an object refers to.                             *)
UpvalRefsNoPrev(o) ==
  (IF o.voPointer # NULL THEN {stack[o.voPointer]} ELSE {o.value}) \cup {o.next}

UpvalRefs(o) ==
  (IF o.voPointer # NULL THEN {stack[o.voPointer]} ELSE {o.value})
    \cup {o.next, o.prev}

TableRefs(o) ==
  {o.metatable} \cup o.unfound
    \cup DOMAIN o.field \cup {o.field[k] : k \in DOMAIN o.field}

Refs(a) ==
  LET o == object[a]
  IN Addresses \cap
       (CASE o.kind = "closure" -> {o.upvalues[k] : k \in DOMAIN o.upvalues}
          [] o.kind = "upvalue" -> UpvalRefs(o)
          [] o.kind = "table"   -> TableRefs(o)
          [] OTHER              -> {})

(* All that markReferencesGray gets to; a freed block ends the program.    *)
Reached ==
  LET after[n \in 0 .. HEAP_OBJECTS] ==
        IF n = 0 THEN Root
        ELSE LET before == after[n - 1]
             IN before \cup UNION {Refs(a) : a \in before \cap Live}
  IN after[HEAP_OBJECTS]

Collect ==
  /\ phase = "run"
  /\ collect
  /\ IF Top.stack_max \notin Slots
     THEN Stop("undefined")
     ELSE IF MarkOutcome(Reached) # "run"
     THEN Stop(MarkOutcome(Reached))
     ELSE /\ object' = [a \in Reached |-> object[a]]
          /\ gray' = {}
          /\ collect' = FALSE
          /\ UNCHANGED <<stack, lastUpval, frames, phase>>

-----------------------------------------------------------------------------
(* VM::init: the environment is table 1 in slot 0, its upvalue is open,    *)
(* and the main chunk's registers start at slot 1.                         *)
Init ==
  \E f \in Chunks :
    /\ stack = [s \in Slots |-> IF s = 0 THEN 1 ELSE NIL]
    /\ object = [a \in 1 .. 3 |->
         CASE a = 1 -> [NewTable EXCEPT !.field =
                          [k \in {LUA_NAT_SETMETATABLE, LUA_NAT_TYPE} |-> k]]
           [] a = 2 -> NewUpval(0, NULL, [frame |-> 0, idx |-> -1])
           [] a = 3 -> [kind |-> "closure", proto |-> f, upvalues |-> <<2>>]]
    /\ lastUpval = 2
    /\ frames = <<[closure |-> 3, proto |-> f, base |-> 1, top |-> 2, npar |-> 0, nres |-> 0,
                   size |-> Proto[f].maxstack, stack_max |-> 1 + Proto[f].maxstack,
                   ip |-> 1, target |-> NULL, id |-> 0]>>
    /\ gray = {}
    /\ collect = FALSE
    /\ phase = "run"

Execute(i) ==
  \/ Load(i) \/ LoadBool(i) \/ SetUpval(i) \/ Get(i) \/ Set(i) \/ Make(i)
  \/ Compare(i) \/ MakeClosure(i) \/ Jump(i) \/ Call(i) \/ CallNative(i)
  \/ Arithmetic(i) \/ Return(i) \/ Exit(i) \/ OutOfMemory(i) \/ Misuse(i)

Next ==
  \/ phase = "run" /\ \E i \in Code[Top.ip] : Execute(i)
  \/ Collect

Spec == Init /\ [][Next]_vmVars

-----------------------------------------------------------------------------
(* Properties *)

Upvals == {u \in Live : Is("upvalue", u)}
Open == {u \in Upvals : object[u].voPointer # NULL}
ActiveIds == {frames[k].id : k \in DOMAIN frames}

(* The list that starts at lastUpval holds exactly the open upvalues,      *)
(* linked both ways, none of them reclaimed.  The list is no root of the   *)
(* collector: its members live because the environment's upvalue at its    *)
(* end does, and because upvalues mark their neighbours.                   *)
OpenList ==
  phase = "run" =>
    LET list == OnChain(object, lastUpval)
    IN /\ list = Open
       /\ list # {} => object[lastUpval].prev = NULL
       /\ \A u \in list : object[u].next # NULL =>
            /\ object[u].next \in Live
            /\ object[object[u].next].prev = u

(* "Only one per value in whole program" (upvalue.h:21): no two open       *)
(* upvalues stand for the same register.                                   *)
OneUpvaluePerSlot ==
  phase = "run" =>
    \A u, v \in Open : object[u].voPointer = object[v].voPointer => u = v

(* Nothing that a register of an activation, a frame, or an object refers  *)
(* to has been reclaimed.  The collector has to see the registers of all   *)
(* the frames, also where a caller's reach further than the callee's.      *)
NothingLiveFreed ==
  phase = "run" =>
    Addresses \cap ({stack[s] : s \in 0 .. Top.stack_max - 1}
                       \cup {frames[k].closure : k \in DOMAIN frames}
                       \cup {lastUpval}
                       \cup UNION {Refs(a) : a \in Live}) \subseteq Live

(* markGray's sanity check (heap.cpp:173): the collector never comes       *)
(* across a block that is free.  It looks one register beyond the frames,  *)
(* so nothing stale may be left there.                                     *)
NoFreedBlockMarked == phase # "freed marked"

(* An activation writes its own registers and, for its results, one of its *)
(* caller's that lies just below; all others of its callers stay.  An      *)
(* assignment through an open upvalue, which should write the register of  *)
(* a caller's variable (UpValue[B] := R(A), opcodes.h:25), writes none in  *)
(* this code (vm.cpp:151), or it would be an exception.                    *)
CallersUndisturbed ==
  [][phase = "run" =>
       \A s \in Slots :
         \/ s < Top.base - 1 /\ s # Top.target
         \/ Len(frames) > 1 /\ s < frames[Len(frames) - 1].base
         => stack'[s] = stack[s]]_vmVars

(* When the activation is over, its upvalues are closed (OP_RETURN's       *)
(* "close upvalues", vm.cpp:258), and no later activation gets at them.    *)
UpvaluesCloseWithActivation ==
  phase = "run" => \A u \in Open : object[u].home.frame \in ActiveIds

(* OP_RETURN closes the upvalues of the activation that ends: those of     *)
(* slots below its registers stay open.                                    *)
ReturnClosesOwnUpvalues ==
  phase = "run" /\ Len(frames') < Len(frames) /\ frames' # <<>> =>
    \A u \in Open : object[u].voPointer < Top.base =>
      u \in DOMAIN object' /\ object'[u].voPointer = object[u].voPointer

(* The variable whose home this is goes out of scope: OP_JMP is to "close  *)
(* all upvalues >= R(A - 1)" (vm.cpp:164).                                 *)
BlockEnds(home) ==
  \E i \in Code[Top.ip] :
    i.op = "JMP" /\ i.a # 0 /\ home.frame = Top.id /\ home.idx >= i.a - 1

(* As long as a variable is in scope, its open upvalue stays at the        *)
(* variable's register, so that the function and its closures see each     *)
(* other's assignments: neither the end of a block above it, nor an        *)
(* assignment through it, nor a return of another activation moves or      *)
(* closes it.                                                              *)
VariablesStayShared ==
  [][phase = "run" =>
       \A u \in Open, k \in DOMAIN frames \cap DOMAIN frames' :
         /\ frames[k].id = object[u].home.frame
         /\ frames'[k].id = frames[k].id
         /\ ~BlockEnds(object[u].home)
         /\ u \in DOMAIN object'
         => object'[u].voPointer = frames[k].base + object[u].home.idx]_vmVars

(* "R(A), ... ,R(A+C-2) := R(A)(...)" (vm.cpp:205): all the registers that *)
(* the caller gave for results are assigned, those the callee has no value *)
(* for with nil.                                                           *)
MissingResultsAreNil ==
  [][phase = "run" /\ Len(frames') < Len(frames) /\ frames' # <<>> =>
       \E i \in Code[Top.ip] :
         /\ i.op = "RETURN"
         /\ \A r \in i.b - 1 .. Top.nres - 1 : stack'[Top.base - 1 + r] = NIL]_vmVars
=============================================================================
