----------------------------- MODULE MCVMFaults -----------------------------
(* Programs on which VM.tla departs from what the code's comments say, in  *)
(* Lua and as luac translates them.                                        *)
EXTENDS MCVM

(* tests/test_upvals3.lua, upper(5): the closures go to globals, and their *)
(* registers are used again before upper returns.                          *)
Escape_main ==
  [maxstack |-> 2, upvalues |-> <<>>, code |-> Only(<<
     I("CLOSURE", 0, "upper", 0), I("SETTABUP", 0, name3, 0),
     I("GETTABUP", 0, 0, name3), I("LOADK", 1, one, 0), I("CALL", 0, 2, 2),
     I("RETURN", 0, 1, 0)>>)]
Escape_upper ==
  [maxstack |-> 3, upvalues |-> <<Outer(0)>>, code |-> Only(<<
     I("CLOSURE", 1, "plus", 0), I("SETTABUP", 0, name1, 1), I("ADD", 0, 0, one),
     I("CLOSURE", 1, "plus", 0), I("SETTABUP", 0, name2, 1),
     I("GETTABUP", 1, 0, name1), I("CALL", 1, 1, 2),
     I("GETTABUP", 2, 0, name2), I("CALL", 2, 1, 2), I("ADD", 1, 1, 2),
     I("RETURN", 1, 2, 0)>>)]
Escape_plus ==
  [maxstack |-> 2, upvalues |-> <<Local(0)>>, code |-> Only(<<
     I("GETUPVAL", 0, 0, 0), I("ADD", 0, 0, one), I("RETURN", 0, 2, 0)>>)]

EscapeProto == [escape |-> Escape_main, upper |-> Escape_upper, plus |-> Escape_plus]
EscapeChunks == {"escape"}

-----------------------------------------------------------------------------
(* local v = 1                                                             *)
(* local function f()                                                      *)
(*   do local x = 1; local g = function() return x end end                  *)
(*   return v end                                                          *)
(* f()             -- the end of f's block closes v                        *)
Scope_main ==
  [maxstack |-> 3, upvalues |-> <<>>, code |-> Only(<<
     I("LOADK", 0, one, 0), I("CLOSURE", 1, "block", 0),
     I("MOVE", 2, 1, 0), I("CALL", 2, 1, 1), I("RETURN", 0, 1, 0)>>)]
Scope_block ==
  [maxstack |-> 2, upvalues |-> <<Local(0)>>, code |-> Only(<<
     I("LOADK", 0, one, 0), I("CLOSURE", 1, "getx", 0), I("JMP", 1, 0, 0),
     I("GETUPVAL", 0, 0, 0), I("RETURN", 0, 2, 0)>>)]

(* local n = 1; local function get() return n end                          *)
(* local function inc() n = n + 1 end                                      *)
(* inc(); get()    -- n is another register from now on                    *)
Assign_main ==
  [maxstack |-> 4, upvalues |-> <<>>, code |-> Only(<<
     I("LOADK", 0, one, 0), I("CLOSURE", 1, "getx", 0), I("CLOSURE", 2, "inc", 0),
     I("MOVE", 3, 2, 0), I("CALL", 3, 1, 1), I("MOVE", 3, 1, 0), I("CALL", 3, 1, 1),
     I("RETURN", 0, 1, 0)>>)]
Assign_inc ==
  [maxstack |-> 2, upvalues |-> <<Local(0)>>, code |-> Only(<<
     I("GETUPVAL", 0, 0, 0), I("ADD", 0, 0, one), I("SETUPVAL", 0, 0, 0),
     I("RETURN", 0, 1, 0)>>)]

(* local n = 1; local function get() return n end                          *)
(* local function apply(f) f() end                                         *)
(* apply(get)      -- the return of apply closes n                         *)
Argument_main ==
  [maxstack |-> 5, upvalues |-> <<>>, code |-> Only(<<
     I("LOADK", 0, one, 0), I("CLOSURE", 1, "getx", 0), I("CLOSURE", 2, "apply", 0),
     I("MOVE", 3, 2, 0), I("MOVE", 4, 1, 0), I("CALL", 3, 2, 1),
     I("RETURN", 0, 1, 0)>>)]
Argument_apply ==
  [maxstack |-> 2, upvalues |-> <<>>, code |-> Only(<<
     I("MOVE", 1, 0, 0), I("CALL", 1, 1, 1), I("RETURN", 0, 1, 0)>>)]

ScopeProto ==
  [scope |-> Scope_main, block |-> Scope_block,
   assign |-> Assign_main, inc |-> Assign_inc,
   argument |-> Argument_main, apply |-> Argument_apply, getx |-> Loop_getx]
ScopeChunks == {"scope", "assign", "argument"}
=============================================================================
