-------------------------------- MODULE MCVM --------------------------------
(* The programs that VM.tla is checked with.                               *)
EXTENDS VM, TLC

CONSTANTS one, name1, name2, name3, name4, name5

I(op, a, b, c) == [op |-> op, a |-> a, b |-> b, c |-> c]
Only(instructions) == [n \in DOMAIN instructions |-> {instructions[n]}]
Local(idx) == [instack |-> TRUE, idx |-> idx]
Outer(idx) == [instack |-> FALSE, idx |-> idx]

MCScalars == {one, FALSEVALUE, LUA_NAT_SETMETATABLE, LUA_NAT_TYPE, ADD_KEY,
              name1, name2, name3, name4, name5}
MCNumbers == {one}

-----------------------------------------------------------------------------
(* Whole programs of the test directory, as luac translates them.  print   *)
(* is stood for by type, and an arithmetic operation by ADD.               *)

(* tests/test_upvals.lua: add3(1)(2)(3)                                    *)
Upvals_main ==
  [maxstack |-> 4, upvalues |-> <<>>, code |-> Only(<<
     I("CLOSURE", 0, "add3", 0), I("SETTABUP", 0, name1, 0),
     I("GETTABUP", 0, 0, LUA_NAT_TYPE),
     I("GETTABUP", 1, 0, name1), I("LOADK", 2, one, 0), I("CALL", 1, 2, 2),
     I("LOADK", 2, one, 0), I("CALL", 1, 2, 2),
     I("LOADK", 2, one, 0), I("CALL", 1, 2, 0),
     I("CALL", 0, 0, 1), I("RETURN", 0, 1, 0)>>)]
Upvals_add3 ==
  [maxstack |-> 2, upvalues |-> <<>>, code |-> Only(<<
     I("CLOSURE", 1, "add3_2", 0), I("RETURN", 1, 2, 0)>>)]
Upvals_add3_2 ==
  [maxstack |-> 2, upvalues |-> <<Local(0)>>, code |-> Only(<<
     I("CLOSURE", 1, "add3_3", 0), I("RETURN", 1, 2, 0)>>)]
Upvals_add3_3 ==
  [maxstack |-> 3, upvalues |-> <<Outer(0), Local(0)>>, code |-> Only(<<
     I("GETUPVAL", 1, 0, 0), I("GETUPVAL", 2, 1, 0), I("ADD", 1, 1, 2),
     I("ADD", 1, 1, 0), I("RETURN", 1, 2, 0)>>)]

(* tests/test_mulret.lua: a, b = f() with two results                      *)
Mulret_main ==
  [maxstack |-> 2, upvalues |-> <<>>, code |-> Only(<<
     I("CLOSURE", 0, "f12", 0), I("SETTABUP", 0, name1, 0),
     I("GETTABUP", 0, 0, name1), I("CALL", 0, 1, 3),
     I("SETTABUP", 0, name3, 1), I("SETTABUP", 0, name2, 0),
     I("GETTABUP", 0, 0, LUA_NAT_TYPE), I("GETTABUP", 1, 0, name2), I("CALL", 0, 2, 1),
     I("RETURN", 0, 1, 0)>>)]
Mulret_f ==
  [maxstack |-> 2, upvalues |-> <<>>, code |-> Only(<<
     I("LOADK", 0, one, 0), I("LOADK", 1, one, 0), I("RETURN", 0, 3, 0)>>)]

(* tests/test_madd.lua: f1 + f2 with a metatable                           *)
Madd_main ==
  [maxstack |-> 3, upvalues |-> <<>>, code |-> Only(<<
     I("NEWTABLE", 0, 0, 0), I("SETTABLE", 0, name4, one), I("SETTABUP", 0, name1, 0),
     I("NEWTABLE", 0, 0, 0), I("SETTABUP", 0, name3, 0),
     I("GETTABUP", 0, 0, name3), I("CLOSURE", 1, "add", 0), I("SETTABLE", 0, ADD_KEY, 1),
     I("GETTABUP", 0, 0, LUA_NAT_SETMETATABLE), I("GETTABUP", 1, 0, name1),
     I("GETTABUP", 2, 0, name3), I("CALL", 0, 3, 1),
     I("GETTABUP", 0, 0, name1), I("GETTABUP", 1, 0, name1), I("ADD", 0, 0, 1),
     I("SETTABUP", 0, name2, 0), I("GETTABUP", 0, 0, name2),
     I("GETTABLE", 0, 0, name4), I("RETURN", 0, 1, 0)>>)]
Madd_add ==
  [maxstack |-> 5, upvalues |-> <<Outer(0)>>, code |-> Only(<<
     I("NEWTABLE", 2, 0, 0), I("SETTABUP", 0, name5, 2), I("GETTABUP", 2, 0, name5),
     I("GETTABLE", 3, 0, name4), I("GETTABLE", 4, 1, name4), I("ADD", 3, 3, 4),
     I("SETTABLE", 2, name4, 3), I("GETTABUP", 2, 0, name5), I("RETURN", 2, 2, 0)>>)]

(* tests/test_upvalues4.lua, cut to one call: the closure is called while  *)
(* the activation it belongs to lasts.                                     *)
Upvals4_main ==
  [maxstack |-> 2, upvalues |-> <<>>, code |-> Only(<<
     I("CLOSURE", 0, "upper4", 0), I("LOADK", 1, one, 0), I("CALL", 0, 2, 1),
     I("RETURN", 0, 1, 0)>>)]
Upvals4_upper ==
  [maxstack |-> 3, upvalues |-> <<Outer(0)>>, code |-> Only(<<
     I("SETTABUP", 0, name2, one), I("CLOSURE", 1, "a4", 0),
     I("MOVE", 2, 1, 0), I("CALL", 2, 1, 2), I("RETURN", 0, 1, 0)>>)]
Upvals4_a ==
  [maxstack |-> 2, upvalues |-> <<Local(0), Outer(0)>>, code |-> Only(<<
     I("GETUPVAL", 0, 0, 0), I("GETTABUP", 1, 1, name2), I("CONCAT", 0, 0, 1),
     I("RETURN", 0, 2, 0)>>)]

-----------------------------------------------------------------------------
(* Programs for what the test directory leaves out. *)

(* local function counter() local n = 1                                    *)
(*   return function() n = n + 1; return n end end                         *)
(* local a, b = counter(); a(); a()      -- b is nil                       *)
Counter_main ==
  [maxstack |-> 4, upvalues |-> <<>>, code |-> Only(<<
     I("CLOSURE", 0, "counter", 0), I("MOVE", 1, 0, 0), I("CALL", 1, 1, 3),
     I("MOVE", 3, 1, 0), I("CALL", 3, 1, 1), I("MOVE", 3, 1, 0), I("CALL", 3, 1, 1),
     I("RETURN", 0, 1, 0)>>)]
Counter_counter ==
  [maxstack |-> 2, upvalues |-> <<>>, code |-> Only(<<
     I("LOADK", 0, one, 0), I("CLOSURE", 1, "count", 0), I("RETURN", 1, 2, 0)>>)]
Counter_count ==
  [maxstack |-> 2, upvalues |-> <<Local(0)>>, code |-> Only(<<
     I("GETUPVAL", 0, 0, 0), I("ADD", 0, 0, one), I("SETUPVAL", 0, 0, 0),
     I("GETUPVAL", 0, 0, 0), I("RETURN", 0, 2, 0)>>)]

(* while ... do local x = 1; local f = function() return x end; g = f end  *)
Loop_main ==
  [maxstack |-> 2, upvalues |-> <<>>, code |-> Only(<<
     I("EQ", 0, one, one), I("JMP", 0, 4, 0),
     I("LOADK", 0, one, 0), I("CLOSURE", 1, "getx", 0), I("SETTABUP", 0, name1, 1),
     I("JMP", 1, -6, 0), I("RETURN", 0, 1, 0)>>)]
Loop_getx ==
  [maxstack |-> 2, upvalues |-> <<Local(0)>>, code |-> Only(<<
     I("GETUPVAL", 0, 0, 0), I("RETURN", 0, 2, 0)>>)]

(* local t = {}; t.m = getx; local b = false; if not b then t:m() end      *)
(* setmetatable(t, t); setmetatable(t, nil); local n; t[n] = t             *)
(* t.n.x = 1       -- an error                                             *)
Method_main ==
  [maxstack |-> 5, upvalues |-> <<>>, code |-> Only(<<
     I("NEWTABLE", 0, 0, 0), I("LOADBOOL", 1, FALSEVALUE, 0),
     I("CLOSURE", 2, "method", 0), I("SETTABLE", 0, name1, 2),
     I("TEST", 1, 0, 0), I("JMP", 0, 2, 0),
     I("SELF", 2, 0, name1), I("CALL", 2, 2, 1),
     I("GETTABUP", 2, 0, LUA_NAT_SETMETATABLE), I("MOVE", 3, 0, 0), I("MOVE", 4, 0, 0),
     I("CALL", 2, 3, 1),
     I("GETTABUP", 2, 0, LUA_NAT_SETMETATABLE), I("MOVE", 3, 0, 0), I("LOADNIL", 4, 0, 0),
     I("CALL", 2, 3, 1),
     I("LOADNIL", 2, 0, 0), I("SETTABLE", 0, 2, 0),
     I("GETTABLE", 3, 0, name2), I("SETTABLE", 3, name1, one),
     I("RETURN", 0, 1, 0)>>)]
Method_method ==
  [maxstack |-> 2, upvalues |-> <<>>, code |-> Only(<<
     I("SETTABLE", 0, name2, 0), I("LOADNIL", 1, 0, 0), I("RETURN", 0, 1, 0)>>)]

(* local t = {}; setmetatable(t, t)                                        *)
(* local u = {}; setmetatable(u, u); u.__add = function(x) return x end    *)
(* t = t + u       -- t's metatable has no __add, so u's is asked          *)
Second_main ==
  [maxstack |-> 5, upvalues |-> <<>>, code |-> Only(<<
     I("NEWTABLE", 0, 0, 0), I("NEWTABLE", 1, 0, 0),
     I("GETTABUP", 2, 0, LUA_NAT_SETMETATABLE), I("MOVE", 3, 0, 0), I("MOVE", 4, 0, 0),
     I("CALL", 2, 3, 1),
     I("GETTABUP", 2, 0, LUA_NAT_SETMETATABLE), I("MOVE", 3, 1, 0), I("MOVE", 4, 1, 0),
     I("CALL", 2, 3, 1),
     I("CLOSURE", 2, "first", 0), I("SETTABLE", 1, ADD_KEY, 2),
     I("ADD", 0, 0, 1), I("RETURN", 0, 1, 0)>>)]
Second_first ==
  [maxstack |-> 2, upvalues |-> <<>>, code |-> Only(<<I("RETURN", 0, 2, 0)>>)]

(* function deep() deep() end; deep()       -- the stack overflows         *)
Deep_main ==
  [maxstack |-> 2, upvalues |-> <<>>, code |-> Only(<<
     I("CLOSURE", 0, "deep", 0), I("SETTABUP", 0, name1, 0), I("CALL", 0, 1, 1),
     I("RETURN", 0, 1, 0)>>)]
Deep_deep ==
  [maxstack |-> 2, upvalues |-> <<Outer(0)>>, code |-> Only(<<
     I("GETTABUP", 0, 0, name1), I("CALL", 0, 1, 1), I("RETURN", 0, 1, 0)>>)]

TestProto ==
  [main_upvals |-> Upvals_main, add3 |-> Upvals_add3, add3_2 |-> Upvals_add3_2,
   add3_3 |-> Upvals_add3_3, main_mulret |-> Mulret_main, f12 |-> Mulret_f,
   main_madd |-> Madd_main, add |-> Madd_add,
   main_upvals4 |-> Upvals4_main, upper4 |-> Upvals4_upper, a4 |-> Upvals4_a,
   main_counter |-> Counter_main, counter |-> Counter_counter, count |-> Counter_count,
   main_loop |-> Loop_main, getx |-> Loop_getx,
   main_method |-> Method_main, method |-> Method_method,
   main_second |-> Second_main, first |-> Second_first,
   main_deep |-> Deep_main, deep |-> Deep_deep]
TestChunks ==
  {"main_upvals", "main_mulret", "main_madd", "main_upvals4", "main_counter",
   "main_loop", "main_method", "main_second", "main_deep"}

-----------------------------------------------------------------------------
(* Any function made of the following instructions, in any order: a step   *)
(* picks one, and the jump at 2 goes back for the next.  All functions     *)
(* have two registers, take one argument and return at most one result;    *)
(* each captures its caller's first register and the environment, stores   *)
(* closures in a global variable, and may close upvalues by a jump.        *)
AnyInstructions ==
  {I("CLOSURE", 1, "any", 0), I("MOVE", 0, 1, 0),
   I("CALL", 0, 2, 2),
   I("RETURN", 0, 1, 0), I("RETURN", 1, 2, 0),
   I("SETTABUP", 0, name1, 1), I("JMP", 3, -1, 0)}

AnyCode == <<AnyInstructions, {I("JMP", 0, -2, 0)}>>

AnyProto ==
  [any |-> [maxstack |-> 2, upvalues |-> <<Outer(0), Local(0)>>, code |-> AnyCode],
   chunk |-> [maxstack |-> 2, upvalues |-> <<>>, code |-> AnyCode]]

MCProto == TestProto @@ AnyProto
MCChunks == TestChunks \cup {"chunk"}

(* Is the main chunk one of the programs above, not one of the family?     *)
RunsTest == frames # <<>> /\ frames[1].proto \in TestChunks

(* Of the family, what three activations and seven objects allow.          *)
SmallFamily ==
  frames # <<>> /\ ~RunsTest => Top.stack_max <= 5 /\ Cardinality(Live) <= 7

(* In these programs, where no closure has left the registers of its       *)
(* function before the return, OP_RETURN finds all there is to close.      *)
TestsCloseUpvalues == RunsTest => UpvaluesCloseWithActivation

(* Where no closure is handed down as an argument, OP_RETURN closes the    *)
(* upvalues of the function that returns and no others.                    *)
TestsCloseOwnUpvalues == [][RunsTest => ReturnClosesOwnUpvalues]_vmVars
=============================================================================
