------------------------------- MODULE Loader -------------------------------
(***************************************************************************)
(* main up to VM::init: loadfile, checkheader and Reader, on a file that   *)
(* some luac has written.  A file is a sequence of fields, each with the   *)
(* number of its bytes and what they stand for.  The reader counts bytes:  *)
(* what it gets from bytes that are not one field is unknown.              *)
(***************************************************************************)
EXTENDS Instruction, SequencesExt

CONSTANTS
  Chunks,       (* What luac compiles.                                      *)
  Formats,      (* The headers of the luacs there are.                      *)
  LONG_SIZE,    (* 0xFF, the size byte of a string with a long size.        *)
  BUFFER_SIZE,
  NULL,
  NUL           (* The character '\0'.                                      *)

VARIABLES
  argument,  (* What the program is started with: "none", a "missing" file  *)
             (* or a "file",                                                *)
  chunk,     (* what was compiled into that,                                *)
  format,    (* the luac that did,                                          *)
  file,      (* and what it wrote.                                          *)
  buffer,    (* LFILE.                                                      *)
  phase,     (* What main is at: "main", "checkheader", "reader" or "vm",   *)
             (* an "error", "exit", or "misread".                           *)
  cursor,    (* In checkheader and Reader: the field that is next.          *)
  frames,    (* The activations of readFunction, with the function so far,  *)
             (* the list that is read and what is left of it.               *)
  heap,      (* The strings that are allocated protected, in that order.    *)
  function   (* What readFile returns.                                      *)

vars == <<argument, chunk, format, file, buffer, phase, cursor, frames, heap, function>>
given == <<argument, chunk, format, file>>

Field(w, v) == [width |-> w, is |-> v]

(* Where each field of the file ends, in bytes.                            *)
End[k \in Nat] == IF k = 0 THEN 0 ELSE End[k - 1] + file[k].width
Fits == End[Len(file)] <= BUFFER_SIZE

VALID_HEADER ==
  <<Field(4, "signature"), Field(1, "5.3"), Field(1, "format"), Field(6, "luacdata"),
    Field(1, 4), Field(1, 8), Field(1, 4), Field(1, 8), Field(1, 8),
    Field(8, "luacint"), Field(8, "luacnum"), Field(1, "sizeupvalue")>>

-----------------------------------------------------------------------------
(* luac, in the sizes of its types that it puts into the header.           *)

DumpInt(v) == Field(format[5].is, v)

DumpString(s) ==
  IF s = NULL THEN <<Field(1, 0)>>
  ELSE IF Len(s) + 1 < LONG_SIZE THEN <<Field(1, Len(s) + 1), Field(Len(s), s)>>
  ELSE <<Field(1, LONG_SIZE), Field(format[6].is, Len(s) + 1), Field(Len(s), s)>>

DumpConstant(c) ==
  <<Field(1, c.type)>> \o
  IF c.type = "nil" THEN <<>>
  ELSE IF c.type = "boolean" THEN <<Field(1, c.value)>>
  ELSE IF c.type = "integer" THEN <<Field(format[8].is, c.value)>>
  ELSE IF c.type = "number" THEN <<Field(format[9].is, c.value)>>
  ELSE DumpString(c.value)

DumpList(items, Each(_)) ==
  <<DumpInt(Len(items))>> \o FlattenSeq([k \in DOMAIN items |-> Each(items[k])])

RECURSIVE Dump(_)
Dump(f) ==
  DumpString(f.func_name)
  \o <<DumpInt(f.lines[1]), DumpInt(f.lines[2])>>
  \o [k \in DOMAIN f.sizes |-> Field(1, f.sizes[k])]
  \o DumpList(f.code, LAMBDA ins : <<Field(format[7].is, Encode(ins))>>)
  \o DumpList(f.constants, DumpConstant)
  \o DumpList(f.upvalues, LAMBDA u : <<Field(1, u.instack), Field(1, u.idx)>>)
  \o DumpList(f.protos, Dump)
  \o DumpList(f.lineinfo, LAMBDA n : <<DumpInt(n)>>)
  \o DumpList(f.locvars, LAMBDA v : DumpString(v.name) \o <<DumpInt(v.first), DumpInt(v.last)>>)
  \o DumpList(f.names, DumpString)

-----------------------------------------------------------------------------
(* main.                                                                   *)

(* loadfile: feof is true only after an attempt to read beyond the end, so *)
(* the last byte comes twice; a file longer than the buffer is cut.        *)
Loaded ==
  IF End[Len(file)] < BUFFER_SIZE THEN Append(file, Field(1, "again"))
  ELSE SubSeq(file, 1, Cardinality({k \in DOMAIN file : End[k] <= BUFFER_SIZE}))

Main ==
  /\ phase = "main"
  /\ \/ argument # "file" /\ phase' = "error" /\ UNCHANGED <<buffer, cursor>>
     \/ argument = "file" /\ phase' = "checkheader" /\ buffer' = Loaded /\ cursor' = 1
  /\ UNCHANGED <<given, frames, heap, function>>

testheaderfieldNothing(field, valid_field) == TRUE
testheaderfield(field, valid_field) == field = valid_field

NewFrame == [part |-> "function", left |-> 0,
             function |-> [func_name |-> NULL, lines |-> <<>>, sizes |-> <<>>, code |-> <<>>,
                           constants |-> <<>>, upvalues |-> <<>>, protos |-> <<>>]]

(* One field of checkheader; the position that it returns is that of the   *)
(* field at the cursor.                                                    *)
CheckHeader ==
  /\ phase = "checkheader"
  /\ \/ /\ ~testheaderfield(buffer[cursor], VALID_HEADER[cursor])
        /\ phase' = "error"
        /\ UNCHANGED <<cursor, frames>>
     \/ /\ testheaderfield(buffer[cursor], VALID_HEADER[cursor])
        /\ cursor' = cursor + 1
        /\ IF cursor < Len(VALID_HEADER) THEN UNCHANGED <<phase, frames>>
           ELSE phase' = "reader" /\ frames' = <<NewFrame>>
  /\ UNCHANGED <<given, buffer, heap, function>>

-----------------------------------------------------------------------------
(* Reader.                                                                 *)

(* The bytes from field c on are fields of the widths.                     *)
AreHere(c, widths) ==
  \A k \in DOMAIN widths : c + k - 1 \in DOMAIN buffer /\ buffer[c + k - 1].width = widths[k]

Is(c) == buffer[c].is

(* What is read from field c on: a value and the field that is next, or    *)
(* nothing known.                                                          *)
Item(c, widths, value) ==
  IF AreHere(c, widths) THEN {[value |-> value, next |-> c + Len(widths)]} ELSE {}

(* A char* ends at the first NUL.                                          *)
CString(chars) ==
  IF NUL \in ToSet(chars)
  THEN SubSeq(chars, 1, SelectInSeq(chars, LAMBDA char : char = NUL) - 1)
  ELSE chars

StringAt(c) ==
  IF ~AreHere(c, <<1>>) THEN {}
  ELSE IF Is(c) = 0 THEN Item(c, <<1>>, NULL)
  ELSE IF Is(c) = LONG_SIZE
  THEN IF AreHere(c + 1, <<8>>) THEN Item(c, <<1, 8, Is(c + 1) - 1>>, CString(Is(c + 2))) ELSE {}
  ELSE Item(c, <<1, Is(c) - 1>>, CString(Is(c + 1)))

StringThen(c, widths) == {s \in StringAt(c) : AreHere(s.next, widths)}

ConstantAt(c) ==
  IF ~AreHere(c, <<1>>) THEN {}
  ELSE IF Is(c) = "nil" THEN Item(c, <<1>>, [type |-> "nil"])
  ELSE IF Is(c) = "boolean" THEN Item(c, <<1, 1>>, [type |-> "boolean", value |-> Is(c + 1)])
  ELSE IF Is(c) \in {"number", "integer"}
  THEN Item(c, <<1, 8>>, [type |-> Is(c), value |-> Is(c + 1)])
  ELSE {[s EXCEPT !.value = [type |-> "string", value |-> @]] : s \in StringAt(c + 1)}

ItemAt(part, c) ==
  CASE part = "code" -> Item(c, <<4>>, Decode(Is(c)))
    [] part = "constants" -> ConstantAt(c)
    [] part = "upvalues" -> Item(c, <<1, 1>>, [instack |-> Is(c), idx |-> Is(c + 1)])
    [] part = "lineinfo" -> Item(c, <<4>>, NULL)
    [] part = "locvars" -> {[s EXCEPT !.next = @ + 2] : s \in StringThen(c, <<4, 4>>)}
    [] part = "names" -> StringAt(c)

Lists == <<"code", "constants", "upvalues", "protos", "lineinfo", "locvars", "names">>
Debug == {"lineinfo", "locvars", "names"}

Top == Last(frames)
Reading == phase = "reader"

Continue(next, frame) ==
  /\ cursor' = next
  /\ frames' = Append(Front(frames), frame)
  /\ UNCHANGED <<given, buffer, phase, function>>

(* The bytes are none that were written as what they are read for.         *)
Misread(outcomes) ==
  /\ phase' \in outcomes
  /\ UNCHANGED <<given, buffer, cursor, frames, heap, function>>

(* readFunction up to readCode, and the number of instructions.            *)
ReadFunction ==
  /\ Reading /\ Top.part = "function"
  /\ \/ \E s \in StringThen(cursor, <<4, 4, 1, 1, 1, 4>>) :
          Continue(s.next + 6,
            [part |-> "code", left |-> Is(s.next + 5),
             function |-> [Top.function EXCEPT !.func_name = s.value,
                             !.lines = <<Is(s.next), Is(s.next + 1)>>,
                             !.sizes = <<Is(s.next + 2), Is(s.next + 3), Is(s.next + 4)>>]])
          /\ UNCHANGED heap
     \/ StringThen(cursor, <<4, 4, 1, 1, 1, 4>>) = {} /\ Misread({"misread"})

(* One turn of the loop over a list.  Strings among the constants go to    *)
(* the heap; what is read for a debugger is dropped.  A type that is no    *)
(* constant's exits.                                                       *)
ReadItem ==
  /\ Reading /\ Top.part # "function" /\ Top.part # "protos" /\ Top.left > 0
  /\ \/ \E it \in ItemAt(Top.part, cursor) :
          LET isString == Top.part = "constants" /\ it.value.type = "string"
              value == IF isString THEN [it.value EXCEPT !.value = Len(heap) + 1] ELSE it.value
          IN /\ Continue(it.next,
                  [Top EXCEPT !.left = @ - 1,
                     !.function = IF Top.part \in Debug THEN @
                                  ELSE [@ EXCEPT ![Top.part] = Append(@, value)]])
             /\ heap' = IF isString THEN Append(heap, it.value.value) ELSE heap
     \/ /\ ItemAt(Top.part, cursor) = {}
        /\ Misread(IF Top.part = "constants" THEN {"misread", "exit"} ELSE {"misread"})

ReadProto ==
  /\ Reading /\ Top.part = "protos" /\ Top.left > 0
  /\ frames' = Append(Append(Front(frames), [Top EXCEPT !.left = @ - 1]), NewFrame)
  /\ UNCHANGED <<given, buffer, phase, cursor, heap, function>>

(* The loop is over: the number of items of the list after it.             *)
NextList ==
  /\ Reading /\ Top.part \notin {"function", "names"} /\ Top.left = 0
  /\ \/ /\ AreHere(cursor, <<4>>)
        /\ Continue(cursor + 1,
             [Top EXCEPT !.left = Is(cursor),
                         !.part = Lists[SelectInSeq(Lists, LAMBDA l : l = Top.part) + 1]])
        /\ UNCHANGED heap
     \/ ~AreHere(cursor, <<4>>) /\ Misread({"misread"})

ReturnFunction ==
  /\ Reading /\ Top.part = "names" /\ Top.left = 0
  /\ IF Len(frames) = 1
     THEN phase' = "vm" /\ function' = Top.function /\ frames' = <<>>
     ELSE LET callers == Front(frames)
          IN /\ frames' = [callers EXCEPT ![Len(callers)].function.protos =
                             Append(@, Top.function)]
             /\ UNCHANGED <<phase, function>>
  /\ UNCHANGED <<given, buffer, cursor, heap>>

-----------------------------------------------------------------------------
Init ==
  /\ argument \in {"none", "missing", "file"}
  /\ chunk \in Chunks /\ format \in Formats /\ file = format \o Dump(chunk)
  /\ buffer = <<>> /\ phase = "main" /\ cursor = 0
  /\ frames = <<>> /\ heap = <<>> /\ function = NULL

Reader == ReadFunction \/ ReadItem \/ ReadProto \/ NextList \/ ReturnFunction

Next == Main \/ CheckHeader \/ Reader

Spec == Init /\ [][Next]_vars /\ WF_vars(Next)

-----------------------------------------------------------------------------
(* A loaded function, with its strings, is one that luac wrote, without    *)
(* what is there for a debugger.                                           *)
RECURSIVE IsLoadedFrom(_, _)
IsLoadedFrom(f, written) ==
  /\ f.func_name = written.func_name /\ f.lines = written.lines /\ f.sizes = written.sizes
  /\ f.code = written.code /\ f.upvalues = written.upvalues
  /\ Len(f.constants) = Len(written.constants)
  /\ \A k \in DOMAIN f.constants :
       LET c == f.constants[k]
           w == written.constants[k]
       IN IF w.type \in {"short", "long"}
          THEN c.type = "string" /\ heap[c.value] = w.value
          ELSE c = w
  /\ Len(f.protos) = Len(written.protos)
  /\ \A k \in DOMAIN f.protos : IsLoadedFrom(f.protos[k], written.protos[k])

RECURSIVE HasNul(_)
HasNul(f) ==
  \/ \E k \in DOMAIN f.constants :
       f.constants[k].type \in {"short", "long"} /\ NUL \in ToSet(f.constants[k].value)
  \/ \E k \in DOMAIN f.protos : HasNul(f.protos[k])

(* What VM::init gets is what luac compiled, up to its last byte, with its *)
(* nested functions, constants and instructions in their order; except     *)
(* that a string constant ends at its first NUL (reader.cpp:99).           *)
LoadsWhatWasCompiled ==
  phase = "vm" =>
    /\ cursor = Len(file) + 1
    /\ HasNul(chunk) \/ IsLoadedFrom(function, chunk)

(* "Returns -1 if everything is ok otherwise int >= 0 indicating position  *)
(* in file where problem occurs" (main.cpp:59): a file that fits into the  *)
(* buffer is either read to its end, or it was written by another luac and *)
(* is turned down at the field where that one differs; it is never taken   *)
(* for what it is not.                                                     *)
FilesAreLoadedOrTurnedDown ==
  argument = "file" /\ Fits =>
    <>IF format = VALID_HEADER THEN phase = "vm"
      ELSE /\ phase = "error" /\ argument = "file"
           /\ buffer[cursor] # VALID_HEADER[cursor]
           /\ \A k \in 1 .. cursor - 1 : buffer[k] = VALID_HEADER[k]
=============================================================================
