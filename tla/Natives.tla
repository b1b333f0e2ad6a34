------------------------------ MODULE Natives ------------------------------
(***************************************************************************)
(* Statements that call native functions, alone or one with the results of *)
(* another,                                                                *)
(*                                                                         *)
(*   local a, b = native(x, y)           outer(native(x, y))               *)
(*                                                                         *)
(* as OP_CALL and Native::call run them, and the files that some of them   *)
(* work on.  A value is a pair of its type and what there is to say of it; *)
(* text is a sequence of characters, or of one word where only its being   *)
(* text matters.                                                           *)
(***************************************************************************)
EXTENDS Integers, SequencesExt

CONSTANTS
  Paths,             (* File names that can be opened for writing.          *)
  Stored,            (* The files there are, with their characters.         *)
  Texts,             (* What the program writes, without %.                 *)
  Chars,             (* The characters,                                     *)
  NL,                (*   '\n' among them.                                  *)
  MAX_LINE_LENGTH,
  MaxFiles,          (* Calls of io.open at most,                           *)
  MaxLength          (* and characters in a file.                           *)

VARIABLES
  registers,   (* R(0), R(1), ... of the statement.                         *)
  due,         (* "statement", the "inner", "outer" or only "call" of it,   *)
               (* or "aborted".                                             *)
  given,       (* B - 1 of the inner or only call,                          *)
  wanted,      (* C - 1 of the outer or only one.                           *)
  top,         (* ci->top.                                                  *)
  written,     (* The registers that the last call has stored into.         *)
  metatable,   (* Whether the table has one.                                *)
  files,       (* The File objects, in the order of their allocation,       *)
  content      (* and the files they are opened on.                         *)

vars == <<registers, due, given, wanted, top, written, metatable, files, content>>

ASSUME LineAssumption == MAX_LINE_LENGTH \in Nat \ {0, 1}

ASSUME FilesAssumption ==
  /\ {NL, "1"} \subseteq Chars
  /\ Texts \subseteq Seq(Chars)
  /\ \A path \in DOMAIN Stored : Stored[path] \in Seq(Chars)

NIL == <<"nil">>
TRUTH == <<"boolean", TRUE>>
INT == <<"integer", 1>>
TABLE == <<"table", "t">>
METATABLE == <<"table", "m">>
FALSITY == <<"boolean", FALSE>>
Word(w) == <<"string", <<w>>>>
Text(chars) == <<"string", chars>>
NativeCalled(name) == <<"native", name>>
FileAt(f) == <<"file", f>>

(* base_enviroment.cpp, and the methods of a File.                         *)
Names == {"print", "type", "assert", "tostring", "tonumber", "next", "pairs", "getmetatable",
          "setmetatable", "io.write", "io.read", "io.open", "io.close", "file:write",
          "file:read", "math.ceil", "string.sub"}

(* Those that the program calls with the results of others.                *)
Outer == {"print", "type"}

-----------------------------------------------------------------------------
(* Files.                                                                  *)

Opened(f) == f \in DOMAIN files /\ files[f].opened

IsWritten(path) == \E f \in DOMAIN files : Opened(f) /\ files[f].path = path /\ files[f].mode = "w"

(* A File as File::open leaves it.  One that is opened for reading is      *)
(* steady as long as its file is not open for writing as well: otherwise   *)
(* what it reads is up to the buffers of the C library.  got is not in the *)
(* code: the lines it has returned, each with its end put back.            *)
NewFile(path, mode, ok) ==
  [path |-> path, mode |-> mode, opened |-> ok, pos |-> 0, got |-> <<>>, ended |-> FALSE,
   steady |-> ~IsWritten(path)]

(* fopen of mode w empties the file; that of mode r may fail.              *)
Open(path, mode) ==
  \E ok \in IF mode = "r" /\ path \in DOMAIN content THEN {TRUE}
            ELSE IF mode = "r" THEN {FALSE} ELSE {TRUE, FALSE} :
    LET emptied == mode = "w" /\ ok
        before == [f \in DOMAIN files |->
                     [files[f] EXCEPT !.steady = @ /\ ~(emptied /\ files[f].path = path)]]
    IN /\ files' = Append(before, NewFile(path, mode, ok))
       /\ content' = IF emptied
                     THEN [p \in DOMAIN content \cup {path} |-> IF p = path THEN <<>> ELSE content[p]]
                     ELSE content

Close(f) ==
  /\ files' = IF Opened(f) THEN [files EXCEPT ![f].opened = FALSE] ELSE files
  /\ UNCHANGED content

(* fprintf; it does nothing to a file opened for reading.                  *)
Write(f, chars) ==
  /\ UNCHANGED files
  /\ LET path == files[f].path
     IN content' = IF files[f].mode = "w" THEN [content EXCEPT ![path] = @ \o chars] ELSE content

(* What fgets gets: up to the end of the line, and not more than the       *)
(* buffer holds beside the '\0'.                                           *)
Piece(f) ==
  LET rest == SubSeq(content[files[f].path], files[f].pos + 1, Len(content[files[f].path]))
      newline == SelectInSeq(rest, LAMBDA c : c = NL)
      size == IF newline # 0 /\ newline < MAX_LINE_LENGTH THEN newline
              ELSE IF Len(rest) < MAX_LINE_LENGTH THEN Len(rest) ELSE MAX_LINE_LENGTH - 1
  IN SubSeq(rest, 1, size)

LineWithAll(piece) == piece
Line(piece) == Front(piece)

(* readLine, and what becomes of the File.                                 *)
ReadLine(f) ==
  LET piece == IF files[f].mode = "r" THEN Piece(f) ELSE <<>>
  IN IF piece = <<>>
     THEN [line |-> NIL, file |-> [files[f] EXCEPT !.ended = TRUE]]
     ELSE [line |-> Text(Line(piece)),
           file |-> [files[f] EXCEPT !.pos = @ + Len(piece),
                                     !.got = @ \o Append(Line(piece), NL)]]

-----------------------------------------------------------------------------
(* Calls.                                                                  *)

RA == IF due = "inner" THEN 1 ELSE 0
npar == IF due = "outer" THEN top - 1 ELSE given
nres == IF due = "inner" THEN -1 ELSE wanted
Par(k) == registers[RA + k]

(* Stores the results from R(A) on; the count of them sets the top when    *)
(* C = 0.                                                                  *)
TopPast(count) == RA + 1 + count
Top(count) == RA + count

Return(results, count) ==
  /\ registers' = [r \in DOMAIN registers |->
                     IF r - RA \in DOMAIN results THEN results[r - RA] ELSE registers[r]]
  /\ written' = {RA + k : k \in DOMAIN results}
  /\ IF due = "inner" THEN due' = "outer" /\ top' = Top(count)
     ELSE due' = "statement" /\ UNCHANGED top
  /\ UNCHANGED <<given, wanted>>

(* base_res[0] = v, and so on.                                             *)
One(v) == [k \in {0} |-> v]
Two(v, w) == [k \in {0, 1} |-> IF k = 0 THEN v ELSE w]
Copies(n, v) == [k \in 0 .. n - 1 |-> v]
None == [k \in {} |-> NIL]

(* The assertions a native function begins with, on its arguments and on   *)
(* what is wanted of it.                                                   *)
Accepts(name) ==
  CASE name \in {"print", "io.write"} -> nres = 0 /\ npar >= 1
    [] name \in {"type", "tonumber", "pairs", "getmetatable", "math.ceil"} -> npar = 1
    [] name \in {"next", "setmetatable"} -> npar = 2
    [] name = "assert" -> npar = 1 /\ nres = 0 /\ Par(1) \notin {NIL, FALSITY}
    [] name = "tostring" -> npar = 1 /\ nres \in {-1, 1}
    [] name = "io.read" -> nres >= 1 /\ npar = 0
    [] name = "io.open" -> npar = 2 /\ Par(1)[1] = "string" /\ Par(2)[1] = "string"
    [] name \in {"io.close", "file:read"} -> npar = 1 /\ Par(1)[1] = "file"
    [] name = "file:write" -> /\ npar = 2 /\ Par(1)[1] = "file" /\ Opened(Par(1)[2])
                              /\ Par(2)[1] \in {"string", "integer"}
    [] name = "string.sub" -> npar = 3 /\ Par(1)[1] = "string"

Printing == Return(None, 0) /\ UNCHANGED <<metatable, files, content>>

TypeOf ==
  /\ Return(One(Word(CASE Par(1)[1] = "integer" -> "number"
                       [] Par(1)[1] \in {"file", "native"} -> "unknown"
                       [] OTHER -> Par(1)[1])), 1)
  /\ UNCHANGED <<metatable, files, content>>

Asserting == Return(None, 0) /\ UNCHANGED <<metatable, files, content>>

TextOf ==
  /\ Return(One(IF Par(1)[1] = "string" THEN Par(1) ELSE Word(Par(1)[1])), 1)
  /\ UNCHANGED <<metatable, files, content>>

(* One result whatever is wanted, and none of it reported.                 *)
NumberOf ==
  /\ IF nres < 0 THEN Return(None, 0)
     ELSE \E v \in CASE Par(1)[1] = "integer" -> {Par(1)}
                     [] Par(1)[1] = "string" -> {INT, NIL}
                     [] OTHER -> {NIL} :
            Return(One(v), 0)
  /\ UNCHANGED <<metatable, files, content>>

(* Table::next is in Table.tla.                                            *)
NextKey ==
  /\ \E entry \in {<<NIL, NIL>>, <<INT, Word("value")>>} : Return(Two(entry[1], entry[2]), 2)
  /\ UNCHANGED <<metatable, files, content>>

(* The second of its results is the argument, which is there already.      *)
PairsOf ==
  /\ Return([k \in {0, 2} |-> IF k = 0 THEN NativeCalled("next") ELSE NIL], 3)
  /\ UNCHANGED <<metatable, files, content>>

GetMetatable ==
  /\ Return(IF metatable THEN One(METATABLE) ELSE None, 1)
  /\ UNCHANGED <<metatable, files, content>>

SetMetatable ==
  /\ metatable' = (Par(2) # NIL)
  /\ Return(None, 0)
  /\ UNCHANGED <<files, content>>

IoRead ==
  /\ Return(Copies(nres, Word("line")), nres)
  /\ UNCHANGED <<metatable, files, content>>

IoOpen ==
  /\ Open(Par(1)[2][1], Par(2)[2][1])
  /\ Return(Copies(nres, FileAt(Len(files) + 1)), nres)
  /\ UNCHANGED metatable

IoClose ==
  /\ Close(Par(1)[2])
  /\ Return(None, 0)
  /\ UNCHANGED metatable

FileWrite ==
  /\ Write(Par(1)[2], IF Par(2) = INT THEN <<"1">> ELSE Par(2)[2])
  /\ Return(None, 0)
  /\ UNCHANGED metatable

(* What a reader gets of a file that is being written is any line or none. *)
FileRead ==
  /\ \/ /\ ~Opened(Par(1)[2])
        /\ Return(One(NIL), 1) /\ UNCHANGED files
     \/ /\ Opened(Par(1)[2]) /\ files[Par(1)[2]].steady
        /\ LET read == ReadLine(Par(1)[2])
           IN Return(One(read.line), 1) /\ files' = [files EXCEPT ![Par(1)[2]] = read.file]
     \/ /\ Opened(Par(1)[2]) /\ ~files[Par(1)[2]].steady
        /\ \E line \in {NIL, Word("line")} : Return(One(line), 1)
        /\ UNCHANGED files
  /\ UNCHANGED <<metatable, content>>

(* VO_D of an integer is another number.                                   *)
MathCeil ==
  /\ Return(One(<<"integer", "ceil">>), 1)
  /\ UNCHANGED <<metatable, files, content>>

(* Of positions inside the string.                                         *)
StringSub ==
  /\ Return(One(Word("sub")), 1)
  /\ UNCHANGED <<metatable, files, content>>

Native(name) ==
  CASE name \in {"print", "io.write"} -> Printing
    [] name = "type" -> TypeOf                [] name = "assert" -> Asserting
    [] name = "tostring" -> TextOf            [] name = "tonumber" -> NumberOf
    [] name = "next" -> NextKey               [] name = "pairs" -> PairsOf
    [] name = "getmetatable" -> GetMetatable  [] name = "setmetatable" -> SetMetatable
    [] name = "io.read" -> IoRead             [] name = "io.open" -> IoOpen
    [] name = "io.close" -> IoClose           [] name = "file:write" -> FileWrite
    [] name = "file:read" -> FileRead         [] name = "math.ceil" -> MathCeil
    [] name = "string.sub" -> StringSub

-----------------------------------------------------------------------------
(* The program.  It passes tables to the functions that take any value for *)
(* one, and no two writers of it have the same file open.                  *)

Handles == {FileAt(f) : f \in DOMAIN files}

HasRoom(f, t) == ~IsWritten(files[f].path) \/ Len(content[files[f].path]) + Len(t) <= MaxLength

Arguments(name) ==
  CASE name = "type" -> {<<TABLE>>, <<INT>>}
    [] name = "assert" -> {<<TRUTH>>, <<FALSITY>>, <<NIL>>}
    [] name \in {"tostring", "tonumber"} -> {<<INT>>, <<Word("w")>>, <<TRUTH>>}
    [] name \in {"print", "io.write"} -> {<<>>, <<Word("w")>>, <<Word("w"), INT>>}
    [] name = "next" -> {<<TABLE, k>> : k \in {NIL, INT}}
    [] name \in {"pairs", "getmetatable"} -> {<<TABLE>>}
    [] name = "setmetatable" -> {<<TABLE, m>> : m \in {NIL, METATABLE}}
    [] name = "io.read" -> {<<>>}
    [] name = "io.open" ->
         IF Len(files) = MaxFiles THEN {}
         ELSE {<<Word(p), Word("r")>> : p \in Paths \cup DOMAIN Stored}
              \cup {<<Word(p), Word("w")>> : p \in {q \in Paths : ~IsWritten(q)}}
    [] name \in {"io.close", "file:read"} -> {<<h>> : h \in Handles}
    [] name = "file:write" ->
         (UNION {{<<FileAt(f), Text(t)>> : t \in {u \in Texts : HasRoom(f, u)}} : f \in DOMAIN files})
         \cup {<<FileAt(f), INT>> : f \in {g \in DOMAIN files : HasRoom(g, <<"1">>)}}
         \cup {<<FileAt(f), NIL>> : f \in DOMAIN files}
    [] name = "math.ceil" -> {<<INT>>}
    [] name = "string.sub" -> {<<Word("w"), INT, INT>>}

Placed(values) == [r \in 0 .. 5 |-> IF r < Len(values) THEN values[r + 1] ELSE NIL]

Statement ==
  /\ due = "statement"
  /\ \E name \in Names : \E args \in Arguments(name) :
       /\ given' = Len(args)
       /\ \/ /\ due' = "call"
             /\ registers' = Placed(<<NativeCalled(name)>> \o args)
             /\ wanted' \in 0 .. 2
          \/ /\ due' = "inner"
             /\ wanted' \in 0 .. 1
             /\ \E outer \in Outer :
                  registers' = Placed(<<NativeCalled(outer), NativeCalled(name)>> \o args)
  /\ written' = {}
  /\ UNCHANGED <<top, metatable, files, content>>

Function == registers[RA][2]

Call == due \in {"inner", "outer", "call"} /\ Accepts(Function) /\ Native(Function)

Abort ==
  /\ due \in {"inner", "outer", "call"} /\ ~Accepts(Function)
  /\ due' = "aborted"
  /\ UNCHANGED <<registers, given, wanted, top, written, metatable, files, content>>

Init ==
  /\ registers = Placed(<<>>) /\ due = "statement" /\ given = 0 /\ wanted = 0 /\ top = 0
  /\ written = {} /\ metatable = FALSE /\ files = <<>> /\ content = Stored

Next == Statement \/ Call \/ Abort

Spec == Init /\ [][Next]_vars

-----------------------------------------------------------------------------

(* The results of one native function become the arguments of another as   *)
(* the comment of OP_CALL has it (vm.cpp:207-210: "If (C == 0), then 'top' *)
(* is set to last_result+1"): the outer call takes exactly the registers   *)
(* that the inner one has stored into.  There are two exceptions, both of  *)
(* natives that report more results than they store: pairs leaves its      *)
(* argument to be the second of its results, and getmetatable of a table   *)
(* without one leaves itself (native.cpp:115-133).                         *)
OuterGetsResults ==
  due = "outer" =>
    /\ written \subseteq 1 .. npar
    /\ \A r \in 1 .. npar : \/ r \in written
                            \/ r = 2 /\ registers[1] = NativeCalled("next") /\ registers[2] = TABLE
                            \/ r = 1 /\ registers[1] = NativeCalled("getmetatable") /\ ~metatable

(* A program that reads a file line by line gets it all back, in order and *)
(* once (file.cpp:77-94): what file:read has returned, with the ends of    *)
(* the lines put back, is what the file holds up to where it is read, and  *)
(* nil comes only at its end.  It is said of a file that nobody writes in  *)
(* the meantime and whose lines all end with a newline and fit into the    *)
(* buffer, since readLine removes the last character of any other.         *)
Ends(chars) == {i \in DOMAIN chars : chars[i] = NL}

LinesAreWhole(chars) ==
  /\ chars = <<>> \/ Last(chars) = NL
  /\ \A i \in Ends(chars) \cup {0} :
       i < Len(chars) => \E j \in Ends(chars) : i < j /\ j - i < MAX_LINE_LENGTH

LinesComeBack ==
  \A f \in DOMAIN files :
    LET file == files[f]
    IN file.mode = "r" /\ file.steady /\ file.path \in DOMAIN content
       /\ LinesAreWhole(content[file.path])
       => /\ file.got = SubSeq(content[file.path], 1, file.pos)
          /\ file.ended => file.pos = Len(content[file.path])
=============================================================================
