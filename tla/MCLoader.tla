------------------------------ MODULE MCLoader ------------------------------
(* Chunks with every kind of constant and instruction, one in another, and *)
(* luacs of other versions and machines.                                   *)
EXTENDS Loader

Ins(op, args) == [instruction |-> op, args |-> args]

Stripped(code, constants, protos) ==
  [func_name |-> NULL, lines |-> <<1, 2>>, sizes |-> <<0, 1, 2>>, code |-> code,
   constants |-> constants, upvalues |-> <<[instack |-> 1, idx |-> 0]>>, protos |-> protos,
   lineinfo |-> <<>>, locvars |-> <<>>, names |-> <<>>]

Named(f) ==
  [f EXCEPT !.func_name = <<"f">>, !.lineinfo = <<1, 1>>,
            !.locvars = <<[name |-> <<"x", "y">>, first |-> 1, last |-> 2]>>,
            !.names = <<<<"_ENV">>>>]

Return == Ins(38, <<0, 1, 0>>)

Small == Stripped(<<Return>>, <<>>, <<>>)

Constants == Named(Stripped(
  <<Ins(OP_LOADK, <<1, 2>>), Ins(8, <<0, RKASK(0), RKASK(1)>>), Ins(8, <<0, RKASK(255), 255>>), Return>>,
  <<[type |-> "nil"], [type |-> "boolean", value |-> 1], [type |-> "integer", value |-> -1],
    [type |-> "number", value |-> "1.5"], [type |-> "short", value |-> <<>>],
    [type |-> "short", value |-> <<"a">>], [type |-> "long", value |-> <<"a", "b", "c">>]>>,
  <<>>))

Cut == Stripped(<<Return>>, <<[type |-> "short", value |-> <<"a", NUL>>]>>, <<>>)

Loops == Stripped(
  <<Ins(OP_FORPREP, <<0, 1>>), Ins(OP_FORLOOP, <<0, -2>>), Ins(OP_JMP, <<255, -MAXARG_sBx>>),
    Ins(OP_CLOSURE, <<1, 262143>>), Ins(OP_EXTRAARG, <<67108863>>), Return>>,
  <<>>, <<Small, Small>>)

Nested == Named(Stripped(
  <<Ins(OP_CLOSURE, <<0, 0>>), Return>>, <<[type |-> "short", value |-> <<"b">>]>>,
  <<Cut, Named(Stripped(<<Return>>, <<[type |-> "short", value |-> <<"b">>]>>, <<Small>>))>>))

(* Longer than the buffer, which ends in the header, between two lists and *)
(* in the constants of the function inside.                                *)
Padded(n) == Stripped([k \in 1 .. n |-> Return], <<>>, <<Constants>>)

AllChunks == {Small, Constants, Cut, Loops, Nested} \cup {Padded(n) : n \in {48, 50, 58}}

WithField(k, v) == [VALID_HEADER EXCEPT ![k].is = v]

WithSize(k, sample) == [VALID_HEADER EXCEPT ![k].is = 4, ![sample].width = 4]

AllFormats ==
  {VALID_HEADER, WithField(1, "#!/usr"), WithField(2, "5.1"), WithField(3, "unofficial"),
   WithField(5, 8), WithField(6, 4), WithField(7, 8), WithSize(8, 10), WithSize(9, 11),
   WithField(11, "big endian"), WithField(12, "other")}
=============================================================================
