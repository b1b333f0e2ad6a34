--------------------------- MODULE NativesProofs ---------------------------
(***************************************************************************)
(* Whatever a program calls, on whatever files there are: the results of   *)
(* the inner call are the arguments of the outer one, and a file that is   *)
(* read line by line comes back as it is.                                  *)
(***************************************************************************)
EXTENDS Natives, SequenceTheorems, WellFoundedInduction, TLAPS

(* The property depends on what a call begins with: its function is in     *)
(* R(0), or in R(1) for the inner one, and the table that an inner pairs   *)
(* is given is in R(2).                                                    *)
CallsArePlaced ==
  /\ DOMAIN registers = 0 .. 5
  /\ due \in {"inner", "outer", "call"} =>
       \E name \in Names : registers[0] = NativeCalled(name)
  /\ due = "inner" =>
       \E name \in Names : /\ registers[1] = NativeCalled(name)
                           /\ name = "pairs" => registers[2] = TABLE

Inv == CallsArePlaced /\ OuterGetsResults

-----------------------------------------------------------------------------
(* What an inner call leaves to the outer one.                             *)
LEMMA Returned ==
  ASSUME due = "inner", DOMAIN registers = 0 .. 5,
         NEW results, NEW count \in Int, Return(results, count)
  PROVE  /\ due' = "outer" /\ npar' = count
         /\ written' = {1 + k : k \in DOMAIN results}
         /\ DOMAIN registers' = 0 .. 5
         /\ \A r \in 0 .. 5 : registers'[r] = IF r - 1 \in DOMAIN results
                                              THEN results[r - 1] ELSE registers[r]
  BY DEF Return, RA, Top, npar

(* The ways in which a native function returns when all of its results are *)
(* asked for.                                                              *)
LEMMA InnerReturns ==
  ASSUME due = "inner", NEW name \in Names, Native(name)
  PROVE  \/ Return(None, 0)
         \/ \E v : Return(One(v), 1)
         \/ \E v, w : Return(Two(v, w), 2)
         \/ \E v : Return(Copies(-1, v), -1)
         \/ name = "pairs" /\ Return([k \in {0, 2} |-> IF k = 0 THEN NativeCalled("next") ELSE NIL], 3)
         \/ name = "getmetatable" /\ ~metatable /\ metatable' = metatable /\ Return(None, 1)
<1>1. nres = -1
  BY DEF nres
<1>2. CASE name \in {"print", "io.write", "assert", "setmetatable", "io.close", "file:write"}
  BY <1>2 DEF Native, Printing, Asserting, SetMetatable, IoClose, FileWrite
<1>3. CASE name \in {"type", "tostring", "math.ceil", "string.sub"}
  BY <1>3 DEF Native, TypeOf, TextOf, MathCeil, StringSub
<1>4. CASE name = "file:read"
  <2>1. FileRead
    BY <1>4 DEF Native
  <2> QED
    BY <2>1 DEF FileRead
<1>5. CASE name = "tonumber"
  BY <1>1, <1>5 DEF Native, NumberOf
<1>6. CASE name = "next"
  BY <1>6 DEF Native, NextKey
<1>7. CASE name = "pairs"
  BY <1>7 DEF Native, PairsOf
<1>8. CASE name = "getmetatable"
  BY <1>8 DEF Native, GetMetatable
<1>9. CASE name \in {"io.read", "io.open"}
  BY <1>1, <1>9 DEF Native, IoRead, IoOpen
<1> QED
  BY <1>2, <1>3, <1>4, <1>5, <1>6, <1>7, <1>8, <1>9 DEF Names

LEMMA InnerCall ==
  ASSUME Inv, due = "inner", Call
  PROVE  Inv'
<1>1. PICK name \in Names : /\ registers[1] = NativeCalled(name)
                            /\ name = "pairs" => registers[2] = TABLE
  BY DEF Inv, CallsArePlaced
<1>2. DOMAIN registers = 0 .. 5
  BY DEF Inv, CallsArePlaced
<1>3. Native(name)
  BY <1>1 DEF Call, Function, RA, NativeCalled
<1>4. CASE Return(None, 0)
  <2>1. DOMAIN None = {}
    BY DEF None
  <2>2. /\ due' = "outer" /\ npar' = 0 /\ written' = {} /\ DOMAIN registers' = 0 .. 5
        /\ registers'[0] = registers[0]
    BY <1>2, <1>4, <2>1, Returned
  <2> QED
    BY <2>2 DEF Inv, CallsArePlaced, OuterGetsResults
<1>5. CASE \E v : Return(One(v), 1)
  <2>1. PICK v : Return(One(v), 1)
    BY <1>5
  <2>2. DOMAIN One(v) = {0}
    BY DEF One
  <2>3. due' = "outer" /\ npar' = 1 /\ written' = {1} /\ DOMAIN registers' = 0 .. 5
        /\ registers'[0] = registers[0]
    BY <1>2, <2>1, <2>2, Returned
  <2> QED
    BY <2>3 DEF Inv, CallsArePlaced, OuterGetsResults
<1>6. CASE \E v, w : Return(Two(v, w), 2)
  <2>1. PICK v, w : Return(Two(v, w), 2)
    BY <1>6
  <2>2. DOMAIN Two(v, w) = {0, 1}
    BY DEF Two
  <2>3. due' = "outer" /\ npar' = 2 /\ written' = {1, 2} /\ DOMAIN registers' = 0 .. 5
        /\ registers'[0] = registers[0]
    BY <1>2, <2>1, <2>2, Returned
  <2> QED
    BY <2>3 DEF Inv, CallsArePlaced, OuterGetsResults
<1>7. CASE \E v : Return(Copies(-1, v), -1)
  <2>1. PICK v : Return(Copies(-1, v), -1)
    BY <1>7
  <2>2. DOMAIN Copies(-1, v) = {}
    BY DEF Copies
  <2>3. due' = "outer" /\ npar' = -1 /\ written' = {} /\ DOMAIN registers' = 0 .. 5
        /\ registers'[0] = registers[0]
    BY <1>2, <2>1, <2>2, Returned
  <2> QED
    BY <2>3 DEF Inv, CallsArePlaced, OuterGetsResults
<1>8. CASE name = "pairs" /\ Return([k \in {0, 2} |-> IF k = 0 THEN NativeCalled("next") ELSE NIL], 3)
  <2> DEFINE results == [k \in {0, 2} |-> IF k = 0 THEN NativeCalled("next") ELSE NIL]
  <2>1. Return(results, 3)
    BY <1>8
  <2>2. DOMAIN results = {0, 2} /\ results[0] = NativeCalled("next")
    OBVIOUS
  <2> HIDE DEF results
  <2>3. /\ due' = "outer" /\ npar' = 3 /\ written' = {1, 3} /\ DOMAIN registers' = 0 .. 5
        /\ registers'[1] = NativeCalled("next") /\ registers'[2] = registers[2]
        /\ registers'[0] = registers[0]
    BY <1>2, <2>1, <2>2, Returned
  <2> QED
    BY <1>1, <1>8, <2>3 DEF Inv, CallsArePlaced, OuterGetsResults
<1>9. CASE name = "getmetatable" /\ ~metatable /\ metatable' = metatable /\ Return(None, 1)
  <2>1. DOMAIN None = {}
    BY DEF None
  <2>2. /\ due' = "outer" /\ npar' = 1 /\ written' = {} /\ DOMAIN registers' = 0 .. 5
        /\ registers'[1] = registers[1] /\ registers'[0] = registers[0]
    BY <1>2, <1>9, <2>1, Returned
  <2> QED
    BY <1>1, <1>9, <2>2 DEF Inv, CallsArePlaced, OuterGetsResults
<1> QED
  BY <1>3, <1>4, <1>5, <1>6, <1>7, <1>8, <1>9, InnerReturns

(* Any other call ends its statement.                                      *)
LEMMA OtherReturns ==
  ASSUME due # "inner", NEW name \in Names, Native(name)
  PROVE  \E results, count : Return(results, count)
<1>1. CASE name \in {"print", "io.write", "assert", "setmetatable", "io.close", "file:write"}
  BY <1>1 DEF Native, Printing, Asserting, SetMetatable, IoClose, FileWrite
<1>2. CASE name \in {"type", "tostring", "math.ceil", "string.sub"}
  BY <1>2 DEF Native, TypeOf, TextOf, MathCeil, StringSub
<1>3. CASE name = "file:read"
  <2>1. FileRead
    BY <1>3 DEF Native
  <2> QED
    BY <2>1 DEF FileRead
<1>4. CASE name = "tonumber"
  BY <1>4 DEF Native, NumberOf
<1>5. CASE name \in {"next", "pairs", "getmetatable"}
  BY <1>5 DEF Native, NextKey, PairsOf, GetMetatable
<1>6. CASE name \in {"io.read", "io.open"}
  BY <1>6 DEF Native, IoRead, IoOpen
<1> QED
  BY <1>1, <1>2, <1>3, <1>4, <1>5, <1>6 DEF Names

LEMMA OtherCall ==
  ASSUME Inv, due # "inner", Call
  PROVE  Inv'
<1>1. PICK name \in Names : registers[0] = NativeCalled(name)
  BY DEF Inv, CallsArePlaced, Call
<1>2. Native(name)
  BY <1>1 DEF Call, Function, RA, NativeCalled
<1>3. PICK results, count : Return(results, count)
  BY <1>2, OtherReturns
<1>4. due' = "statement" /\ DOMAIN registers' = DOMAIN registers
  BY <1>3 DEF Return
<1> QED
  BY <1>4 DEF Inv, CallsArePlaced, OuterGetsResults

(* The arguments of a call are a sequence.                                 *)
LEMMA ArgumentsAreSequences ==
  ASSUME NEW name \in Names, NEW args \in Arguments(name)
  PROVE  \E S : args \in Seq(S)
<1>1. CASE args = <<>>
  BY <1>1
<1>2. CASE \E v : args = <<v>>
  <2>1. PICK v : args = <<v>>
    BY <1>2
  <2>2. args \in Seq({v})
    BY <2>1
  <2> QED
    BY <2>2
<1>3. CASE \E v, w : args = <<v, w>>
  <2>1. PICK v, w : args = <<v, w>>
    BY <1>3
  <2>2. args \in Seq({v, w})
    BY <2>1
  <2> QED
    BY <2>2
<1>4. CASE \E v, w, x : args = <<v, w, x>>
  <2>1. PICK v, w, x : args = <<v, w, x>>
    BY <1>4
  <2>2. args \in Seq({v, w, x})
    BY <2>1
  <2> QED
    BY <2>2
<1>5. CASE name = "file:write"
  <2>1. \E v, w : args = <<v, w>>
    <3>1. \/ \E f \in DOMAIN files : \E t \in Texts : args = <<FileAt(f), Text(t)>>
          \/ \E f \in DOMAIN files : args = <<FileAt(f), INT>>
          \/ \E f \in DOMAIN files : args = <<FileAt(f), NIL>>
      BY <1>5 DEF Arguments
    <3> QED
      BY <3>1
  <2> QED
    BY <1>3, <2>1
<1>6. CASE name = "io.open"
  <2>1. \E p, q : args = <<Word(p), Word(q)>>
    BY <1>6 DEF Arguments
  <2> QED
    BY <1>3, <2>1
<1>7. CASE name \in {"type", "assert", "tostring", "tonumber", "pairs", "getmetatable",
                    "io.close", "file:read", "math.ceil"}
  <2>1. CASE name \in {"io.close", "file:read"}
    <3>1. Arguments(name) = {<<h>> : h \in Handles}
      BY <2>1 DEF Arguments
    <3>2. PICK h : args = <<h>>
      BY <3>1
    <3> QED
      BY <1>2, <3>2
  <2>2. CASE name \in {"type", "assert", "tostring", "tonumber"}
    <3>1. \E v : args = <<v>>
      BY <2>2 DEF Arguments
    <3> QED
      BY <1>2, <3>1
  <2>3. CASE name \in {"pairs", "getmetatable", "math.ceil"}
    <3>1. \E v : args = <<v>>
      BY <2>3 DEF Arguments
    <3> QED
      BY <1>2, <3>1
  <2> QED
    BY <1>7, <2>1, <2>2, <2>3
<1>8. CASE name \in {"print", "io.write", "next", "setmetatable", "io.read", "string.sub"}
  <2>1. \/ args = <<>>
        \/ \E v : args = <<v>>
        \/ \E v, w : args = <<v, w>>
        \/ \E v, w, x : args = <<v, w, x>>
    BY <1>8 DEF Arguments
  <2> QED
    BY <1>1, <1>2, <1>3, <1>4, <2>1
<1> QED
  BY <1>5, <1>6, <1>7, <1>8 DEF Names

LEMMA StatementPlaces ==
  ASSUME Inv, Statement
  PROVE  Inv'
<1>1. PICK name \in Names : \E args \in Arguments(name) :
        \/ due' = "call" /\ registers' = Placed(<<NativeCalled(name)>> \o args)
        \/ /\ due' = "inner"
           /\ \E outer \in Outer :
                registers' = Placed(<<NativeCalled(outer), NativeCalled(name)>> \o args)
  BY DEF Statement
<1>2. PICK args \in Arguments(name) :
        \/ due' = "call" /\ registers' = Placed(<<NativeCalled(name)>> \o args)
        \/ /\ due' = "inner"
           /\ \E outer \in Outer :
                registers' = Placed(<<NativeCalled(outer), NativeCalled(name)>> \o args)
  BY <1>1
<1>3. PICK S : args \in Seq(S)
  BY ArgumentsAreSequences
<1>4. CASE due' = "call" /\ registers' = Placed(<<NativeCalled(name)>> \o args)
  <2> DEFINE values == <<NativeCalled(name)>> \o args
  <2>1. Len(values) >= 1 /\ values[1] = NativeCalled(name)
    BY <1>3
  <2> HIDE DEF values
  <2>2. DOMAIN registers' = 0 .. 5 /\ registers'[0] = NativeCalled(name)
    BY <1>4, <2>1 DEF Placed, values
  <2> QED
    BY <1>4, <2>2 DEF Inv, CallsArePlaced, OuterGetsResults
<1>5. ASSUME NEW outer \in Outer, due' = "inner",
             registers' = Placed(<<NativeCalled(outer), NativeCalled(name)>> \o args)
      PROVE  Inv'
  <2> DEFINE values == <<NativeCalled(outer), NativeCalled(name)>> \o args
  <2>1. /\ Len(values) = 2 + Len(args) /\ Len(args) \in Nat
        /\ values[1] = NativeCalled(outer) /\ values[2] = NativeCalled(name)
        /\ Len(args) >= 1 => values[3] = args[1]
    BY <1>3
  <2> HIDE DEF values
  <2>2. registers' = Placed(values)
    BY <1>5 DEF values
  <2>3. /\ DOMAIN registers' = 0 .. 5
        /\ registers'[0] = NativeCalled(outer) /\ registers'[1] = NativeCalled(name)
        /\ Len(args) >= 1 => registers'[2] = args[1]
    BY <2>1, <2>2 DEF Placed
  <2>4. ASSUME name = "pairs"
        PROVE  registers'[2] = TABLE
    <3>1. args \in {<<TABLE>>}
      BY <2>4 DEF Arguments
    <3>2. Len(args) = 1 /\ args[1] = TABLE
      BY <3>1
    <3> QED
      BY <2>3, <3>2
  <2>5. outer \in Names
    BY DEF Outer, Names
  <2> QED
    BY <1>5, <2>3, <2>4, <2>5 DEF Inv, CallsArePlaced, OuterGetsResults
<1> QED
  BY <1>2, <1>4, <1>5

LEMMA InvHolds == Spec => []Inv
<1>1. Init => Inv
  BY DEF Init, Inv, CallsArePlaced, OuterGetsResults, Placed
<1>2. Inv /\ [Next]_vars => Inv'
  <2> SUFFICES ASSUME Inv, [Next]_vars PROVE Inv'
    OBVIOUS
  <2>1. CASE Statement
    BY <2>1, StatementPlaces
  <2>2. CASE Call
    BY <2>2, InnerCall, OtherCall
  <2>3. CASE Abort
    BY <2>3 DEF Abort, Inv, CallsArePlaced, OuterGetsResults
  <2>4. CASE UNCHANGED vars
    BY <2>4 DEF vars, Inv, CallsArePlaced, OuterGetsResults, npar
  <2> QED
    BY <2>1, <2>2, <2>3, <2>4 DEF Next
<1> QED
  BY <1>1, <1>2, PTL DEF Spec

(* The outer call takes exactly the registers that the inner one has       *)
(* stored into, but for pairs and getmetatable (vm.cpp:205-238,            *)
(* native.cpp:15-247), for all files, paths, texts and bounds.             *)
THEOREM OuterGetsResultsHolds == Spec => []OuterGetsResults
  BY InvHolds, PTL DEF Inv

-----------------------------------------------------------------------------
(* The files.  A call works on what its statement has placed: io.open gets *)
(* a name and a mode, file:write characters or a number.                   *)

FileNames == Paths \cup DOMAIN Stored

Fits(name, first, second) ==
  /\ name = "io.open" =>
       \E path \in FileNames, mode \in {"r", "w"} : first = Word(path) /\ second = Word(mode)
  /\ name = "file:write" => second \in {Text(t) : t \in Texts} \cup {INT, NIL}

ArgumentsFit ==
  /\ due = "call" =>
       \E name \in Names : /\ registers[0] = NativeCalled(name)
                           /\ Fits(name, registers[1], registers[2])
  /\ due = "inner" =>
       \E name \in Names : /\ registers[1] = NativeCalled(name)
                           /\ Fits(name, registers[2], registers[3])
  /\ due \in {"inner", "outer"} => \E name \in Outer : registers[0] = NativeCalled(name)

File == [path : FileNames, mode : {"r", "w"}, opened : BOOLEAN, pos : Nat,
         got : Seq(Chars), ended : BOOLEAN, steady : BOOLEAN]

FilesTypeOK ==
  /\ files \in Seq(File)
  /\ DOMAIN content \subseteq FileNames
  /\ \A path \in DOMAIN content : content[path] \in Seq(Chars)
  /\ \A f \in DOMAIN files : files[f].opened => files[f].path \in DOMAIN content

(* A reader stands at the start of a line, and has returned all before it. *)
ReadSoFar(file, chars) ==
  /\ file.pos \in Ends(chars) \cup {0}
  /\ file.got = SubSeq(chars, 1, file.pos)
  /\ file.ended => file.pos = Len(chars)

(* A steady reader has its file to itself.                                 *)
Reader(f) ==
  files[f].mode = "r" /\ files[f].steady =>
    /\ ~IsWritten(files[f].path)
    /\ files[f].path \in DOMAIN content /\ LinesAreWhole(content[files[f].path])
         => ReadSoFar(files[f], content[files[f].path])

Readers == \A f \in DOMAIN files : Reader(f)

FilesInv == FilesTypeOK /\ Readers

(* A nonempty set of naturals has a least element.                         *)
LEMMA LeastNatural ==
  ASSUME NEW T, T \subseteq Nat, T # {}
  PROVE  \E x \in T : \A y \in T : x <= y
<1> DEFINE R == {ss \in Nat \X Nat : ss[1] < ss[2]}
<1>1. IsWellFoundedOn(R, Nat)
  BY NatLessThanWellFounded DEF OpToRel
<1>2. \A x, y \in Nat : ~ (<<y, x>> \in R) => x <= y
  OBVIOUS
<1> HIDE DEF R
<1>3. \E x \in T : \A y \in T : ~ (<<y, x>> \in R)
  BY <1>1, WFMin
<1> QED
  BY <1>2, <1>3

(* Of a text that has an end of line in it, SelectInSeq finds the first.   *)
LEMMA FirstEnd ==
  ASSUME NEW chars \in Seq(Chars), NEW j \in Ends(chars),
         NEW first, first = SelectInSeq(chars, LAMBDA c : c = NL)
  PROVE  first \in Ends(chars) /\ first <= j
<1> DEFINE I == {i \in 1 .. Len(chars) : chars[i] = NL}
<1>1. I # {} /\ I \subseteq Nat /\ I = Ends(chars)
  BY DEF Ends
<1>2. first = Min(I)
  BY <1>1 DEF SelectInSeq
<1> HIDE DEF I
<1>3. \E x \in I : \A y \in I : x <= y
  BY <1>1, LeastNatural
<1>4. Min(I) \in I /\ \A y \in I : Min(I) <= y
  BY <1>3 DEF Min
<1> QED
  BY <1>1, <1>2, <1>4

LEMMA NoEnd ==
  ASSUME NEW first, first = SelectInSeq(<<>>, LAMBDA c : c = NL)
  PROVE  first = 0
  BY DEF SelectInSeq

(* The characters after position a up to position b.                       *)
LEMMA Stretch ==
  ASSUME NEW S, NEW chars \in Seq(S), NEW a \in Nat, NEW b \in Nat, a <= b, b <= Len(chars),
         NEW part, part = SubSeq(chars, a + 1, b)
  PROVE  /\ part \in Seq(S) /\ Len(part) = b - a
         /\ \A i \in 1 .. b - a : part[i] = chars[a + i]
<1> DEFINE m == a + 1
<1>1. m \in Int /\ b \in Int /\ b - m + 1 = b - a
  OBVIOUS
<1>2. \A i \in m .. b : chars[i] \in S
  <2>1. \A i \in m .. b : i \in 1 .. Len(chars)
    OBVIOUS
  <2> QED
    BY <2>1
<1>3. \A i \in 1 .. b - a : m + i - 1 = a + i
  OBVIOUS
<1>4. part = SubSeq(chars, m, b) /\ (m <= b <=> a < b)
  OBVIOUS
<1> HIDE DEF m
<1>5. /\ part \in Seq(S)
      /\ Len(part) = IF m <= b THEN b - m + 1 ELSE 0
      /\ \A i \in 1 .. b - m + 1 : part[i] = chars[m + i - 1]
  BY <1>1, <1>2, <1>4, SubSeqProperties
<1>6. Len(part) = b - a
  BY <1>1, <1>4, <1>5
<1> QED
  BY <1>1, <1>3, <1>5, <1>6

(* The first n characters of what follows position a.                      *)
LEMMA StretchOfRest ==
  ASSUME NEW S, NEW chars \in Seq(S), NEW a \in Nat, NEW n \in Nat, a + n <= Len(chars)
  PROVE  SubSeq(SubSeq(chars, a + 1, Len(chars)), 1, n) = SubSeq(chars, a + 1, a + n)
<1> DEFINE rest == SubSeq(chars, a + 1, Len(chars))
           part == SubSeq(rest, 0 + 1, n)
           end == a + n
           same == SubSeq(chars, a + 1, end)
<1>1. Len(chars) \in Nat /\ a <= Len(chars)
  OBVIOUS
<1>2. /\ rest \in Seq(S) /\ Len(rest) = Len(chars) - a
      /\ \A i \in 1 .. Len(chars) - a : rest[i] = chars[a + i]
  BY <1>1, Stretch
<1>3. /\ part \in Seq(S) /\ Len(part) = n - 0
      /\ \A i \in 1 .. n - 0 : part[i] = rest[0 + i]
  <2>1. n <= Len(rest) /\ 0 <= n /\ 0 \in Nat
    BY <1>1, <1>2
  <2> HIDE DEF rest
  <2> QED
    BY <1>2, <2>1, Stretch
<1>4. end \in Nat /\ a <= end /\ end <= Len(chars) /\ end - a = n
  BY <1>1
<1>5. /\ same \in Seq(S) /\ Len(same) = end - a
      /\ \A i \in 1 .. end - a : same[i] = chars[a + i]
  <2> HIDE DEF end
  <2> QED
    BY <1>1, <1>4, Stretch
<1>6. part = SubSeq(rest, 1, n)
  OBVIOUS
<1> HIDE DEF rest, part, end, same
<1>7. Len(part) = n /\ Len(same) = n
  BY <1>3, <1>4, <1>5
<1>8. ASSUME NEW i \in 1 .. n
      PROVE  part[i] = same[i]
  <2>1. i \in 1 .. n - 0 /\ 0 + i = i /\ i \in 1 .. Len(chars) - a /\ i \in 1 .. end - a
    BY <1>1, <1>4
  <2> QED
    BY <1>2, <1>3, <1>5, <2>1
<1>9. part = same
  BY <1>3, <1>5, <1>7, <1>8, SeqEqual
<1> QED
  BY <1>6, <1>9 DEF rest, same, end

(* What fgets gets is made of characters.                                  *)
LEMMA PieceType ==
  ASSUME FilesTypeOK, NEW f \in DOMAIN files, files[f].path \in DOMAIN content
  PROVE  Piece(f) \in Seq(Chars)
<1> DEFINE chars == content[files[f].path]
           rest == SubSeq(chars, files[f].pos + 1, Len(chars))
           newline == SelectInSeq(rest, LAMBDA c : c = NL)
           size == IF newline # 0 /\ newline < MAX_LINE_LENGTH THEN newline
                   ELSE IF Len(rest) < MAX_LINE_LENGTH THEN Len(rest) ELSE MAX_LINE_LENGTH - 1
<1>1. chars \in Seq(Chars) /\ files[f].pos \in Nat
  <2>1. files[f] \in File
    BY DEF FilesTypeOK
  <2> QED
    BY <2>1 DEF FilesTypeOK, File
<1>2. rest \in Seq(Chars)
  <2>1. Len(chars) \in Nat /\ \A i \in files[f].pos + 1 .. Len(chars) : chars[i] \in Chars
    BY <1>1
  <2> HIDE DEF chars
  <2> QED
    BY <1>1, <2>1, SubSeqProperties
<1>3. newline \in Nat /\ (newline # 0 => newline \in 1 .. Len(rest))
  <2> HIDE DEF rest
  <2>1. CASE \E j \in Ends(rest) : TRUE
    <3>1. newline \in Ends(rest)
      BY <1>2, <2>1, FirstEnd
    <3> QED
      BY <1>2, <3>1 DEF Ends
  <2>2. CASE ~ \E j \in Ends(rest) : TRUE
    <3>1. {i \in 1 .. Len(rest) : rest[i] = NL} = {}
      BY <1>2, <2>2 DEF Ends
    <3>2. newline = 0
      BY <3>1 DEF SelectInSeq
    <3> QED
      BY <3>2
  <2> QED
    BY <2>1, <2>2
<1>4. size \in Int /\ size <= Len(rest)
  <2> HIDE DEF rest, newline
  <2> QED
    BY <1>2, <1>3, LineAssumption
<1>5. \A i \in 1 .. size : rest[i] \in Chars
  <2> HIDE DEF rest, size
  <2> QED
    BY <1>2, <1>4
<1>6. Piece(f) = SubSeq(rest, 1, size)
  BY DEF Piece
<1> HIDE DEF rest, size
<1> QED
  BY <1>4, <1>5, <1>6, SubSeqProperties

(* At the start of a whole line it gets that line, its end included; at    *)
(* the end of the file nothing.                                            *)
LEMMA PieceOfWholeLines ==
  ASSUME FilesTypeOK, NEW f \in DOMAIN files, files[f].path \in DOMAIN content,
         NEW chars, chars = content[files[f].path], LinesAreWhole(chars),
         NEW pos, pos = files[f].pos, pos \in Ends(chars) \cup {0}
  PROVE  /\ pos = Len(chars) => Piece(f) = <<>>
         /\ pos # Len(chars) =>
              \E next \in Ends(chars) :
                pos < next /\ Piece(f) = SubSeq(chars, pos + 1, next)
<1>1. chars \in Seq(Chars) /\ pos \in Nat /\ pos <= Len(chars) /\ Len(chars) \in Nat
  BY DEF FilesTypeOK, File, Ends
<1> DEFINE rest == SubSeq(chars, pos + 1, Len(chars))
           newline == SelectInSeq(rest, LAMBDA c : c = NL)
           size == IF newline # 0 /\ newline < MAX_LINE_LENGTH THEN newline
                   ELSE IF Len(rest) < MAX_LINE_LENGTH THEN Len(rest) ELSE MAX_LINE_LENGTH - 1
<1>2. Piece(f) = SubSeq(rest, 1, size)
  BY DEF Piece
<1>3. /\ rest \in Seq(Chars) /\ Len(rest) = Len(chars) - pos
      /\ \A i \in 1 .. Len(chars) - pos : rest[i] = chars[pos + i]
  BY <1>1, Stretch
<1>4. CASE pos = Len(chars)
  <2>1. rest = <<>>
    BY <1>1, <1>4, SubSeqEmpty
  <2>2. newline = 0 /\ Len(rest) = 0
    BY <2>1, NoEnd
  <2>3. size = 0
    <3> HIDE DEF rest, newline
    <3> QED
      BY <2>2, LineAssumption
  <2>4. Piece(f) = <<>>
    <3> HIDE DEF size, rest
    <3> QED
      BY <1>2, <2>3, SubSeqEmpty
  <2> QED
    BY <1>4, <2>4
<1>5. CASE pos # Len(chars)
  <2>1. PICK j \in Ends(chars) : pos < j /\ j - pos < MAX_LINE_LENGTH
    BY <1>1, <1>5 DEF LinesAreWhole
  <2>2. j \in 1 .. Len(chars) /\ chars[j] = NL
    BY <1>1, <2>1 DEF Ends
  <2> HIDE DEF rest
  <2>3. j - pos \in Ends(rest)
    <3>1. j - pos \in 1 .. Len(chars) - pos /\ pos + (j - pos) = j
      BY <1>1, <2>1, <2>2
    <3>2. rest[j - pos] = NL
      BY <1>3, <2>2, <3>1
    <3> QED
      BY <1>3, <3>1, <3>2 DEF Ends
  <2>4. newline \in Ends(rest) /\ newline <= j - pos
    BY <1>3, <2>3, FirstEnd
  <2> HIDE DEF newline
  <2>5. newline \in 1 .. Len(chars) - pos /\ rest[newline] = NL
    BY <1>3, <2>4 DEF Ends
  <2>6. newline < MAX_LINE_LENGTH
    BY <1>1, <2>1, <2>2, <2>4, <2>5, LineAssumption
  <2>7. size = newline
    BY <2>5, <2>6
  <2>8. pos + newline \in Ends(chars) /\ pos < pos + newline
    <3>1. chars[pos + newline] = NL
      BY <1>3, <2>5
    <3>2. pos + newline \in 1 .. Len(chars)
      BY <1>1, <2>5
    <3> QED
      BY <1>1, <2>5, <3>1, <3>2 DEF Ends
  <2>9. SubSeq(rest, 1, newline) = SubSeq(chars, pos + 1, pos + newline)
    <3>1. newline \in Nat /\ pos + newline <= Len(chars)
      BY <1>1, <2>5
    <3> QED
      BY <1>1, <3>1, StretchOfRest DEF rest
  <2> QED
    BY <1>2, <1>5, <2>7, <2>8, <2>9
<1> QED
  BY <1>4, <1>5

(* readLine takes the last character away; put back, it makes the piece.   *)
LEMMA EndPutBack ==
  ASSUME NEW piece \in Seq(Chars), piece # <<>>
  PROVE  /\ Append(Line(piece), NL) \in Seq(Chars)
         /\ piece[Len(piece)] = NL => Append(Line(piece), NL) = piece
<1> DEFINE line == Line(piece)
           n == Len(piece) - 1
<1>1. n \in Nat /\ n <= Len(piece) /\ Len(piece) = n + 1 /\ NL \in Chars
  BY FilesAssumption
<1>2. line = SubSeq(piece, 0 + 1, n)
  BY DEF Line, Front
<1> HIDE DEF n, line
<1>3. line \in Seq(Chars) /\ Len(line) = n - 0 /\ \A i \in 1 .. n - 0 : line[i] = piece[0 + i]
  BY <1>1, <1>2, Stretch
<1>4. Len(line) = n /\ \A i \in 1 .. n : line[i] = piece[i]
  BY <1>1, <1>3
<1>5. /\ Append(line, NL) \in Seq(Chars) /\ Len(Append(line, NL)) = n + 1
      /\ \A i \in 1 .. n : Append(line, NL)[i] = line[i]
      /\ Append(line, NL)[n + 1] = NL
  BY <1>1, <1>3, <1>4, AppendProperties
<1>6. ASSUME piece[Len(piece)] = NL
      PROVE  Append(line, NL) = piece
  <2>1. \A i \in 1 .. n + 1 : Append(line, NL)[i] = piece[i]
    BY <1>1, <1>4, <1>5, <1>6
  <2> QED
    BY <1>1, <1>5, <2>1, SeqEqual
<1> QED
  BY <1>5, <1>6 DEF line

LEMMA ReadLineType ==
  ASSUME FilesTypeOK, NEW f \in DOMAIN files, files[f].path \in DOMAIN content
  PROVE  /\ ReadLine(f).file \in File
         /\ ReadLine(f).file.path = files[f].path
         /\ ReadLine(f).file.mode = files[f].mode
         /\ ReadLine(f).file.opened = files[f].opened
         /\ ReadLine(f).file.steady = files[f].steady
<1> DEFINE piece == IF files[f].mode = "r" THEN Piece(f) ELSE <<>>
<1>1. files[f] \in File
  BY DEF FilesTypeOK
<1>2. piece \in Seq(Chars)
  BY PieceType
<1>3. CASE piece = <<>>
  <2>1. ReadLine(f).file = [files[f] EXCEPT !.ended = TRUE]
    BY <1>3 DEF ReadLine
  <2> QED
    BY <1>1, <2>1 DEF File
<1>4. CASE piece # <<>>
  <2> DEFINE line == Append(Line(piece), NL)
  <2>1. ReadLine(f).file = [files[f] EXCEPT !.pos = @ + Len(piece), !.got = @ \o line]
    BY <1>4 DEF ReadLine
  <2>2. line \in Seq(Chars)
    <3> HIDE DEF piece
    <3> QED
      BY <1>2, <1>4, EndPutBack
  <2> HIDE DEF line, piece
  <2>3. files[f].pos + Len(piece) \in Nat /\ files[f].got \o line \in Seq(Chars)
    BY <1>1, <1>2, <2>2 DEF File
  <2> QED
    BY <1>1, <2>1, <2>3 DEF File
<1> QED
  BY <1>3, <1>4

(* Of whole lines readLine returns the next one, and nil at the end.       *)
LEMMA ReadLineGoesOn ==
  ASSUME FilesTypeOK, NEW f \in DOMAIN files, files[f].path \in DOMAIN content,
         files[f].mode = "r",
         NEW chars, chars = content[files[f].path], LinesAreWhole(chars),
         ReadSoFar(files[f], chars)
  PROVE  ReadSoFar(ReadLine(f).file, chars)
<1> DEFINE pos == files[f].pos
           file == ReadLine(f).file
<1>1. /\ files[f] \in File /\ chars \in Seq(Chars) /\ Len(chars) \in Nat
      /\ pos \in Ends(chars) \cup {0} /\ pos \in 0 .. Len(chars)
      /\ files[f].got = SubSeq(chars, 1, pos)
      /\ files[f].ended => pos = Len(chars)
  BY DEF FilesTypeOK, ReadSoFar, Ends
<1>2. Piece(f) \in Seq(Chars)
  BY PieceType
<1>3. CASE pos = Len(chars)
  <2>1. Piece(f) = <<>>
    BY <1>1, <1>3, PieceOfWholeLines
  <2>2. file = [files[f] EXCEPT !.ended = TRUE]
    BY <2>1 DEF ReadLine
  <2>3. file.pos = pos /\ file.got = files[f].got
    BY <1>1, <2>2 DEF File
  <2> HIDE DEF file, pos
  <2> QED
    BY <1>1, <1>3, <2>3 DEF ReadSoFar, file
<1>4. CASE pos # Len(chars)
  <2>1. PICK next \in Ends(chars) : pos < next /\ Piece(f) = SubSeq(chars, pos + 1, next)
    <3>1. pos \in Ends(chars) \cup {0} /\ pos # Len(chars) /\ pos = files[f].pos
      BY <1>1, <1>4
    <3> HIDE DEF pos
    <3> QED
      BY <3>1, PieceOfWholeLines
  <2>2. next \in 1 .. Len(chars) /\ chars[next] = NL
    BY <1>1, <2>1 DEF Ends
  <2>3. /\ Len(Piece(f)) = next - pos
        /\ \A i \in 1 .. next - pos : Piece(f)[i] = chars[pos + i]
    <3> DEFINE part == Piece(f)
    <3>1. /\ pos \in Nat /\ next \in Nat /\ pos <= next /\ next <= Len(chars)
          /\ part = SubSeq(chars, pos + 1, next)
      BY <1>1, <2>1, <2>2
    <3> HIDE DEF pos, part
    <3>2. Len(part) = next - pos /\ \A i \in 1 .. next - pos : part[i] = chars[pos + i]
      BY <1>1, <3>1, Stretch
    <3> QED
      BY <3>2 DEF part
  <2>4. Piece(f) # <<>> /\ Piece(f)[Len(Piece(f))] = NL
    <3>1. next - pos \in 1 .. next - pos /\ pos + (next - pos) = next
      BY <1>1, <2>1, <2>2
    <3> QED
      BY <2>2, <2>3, <3>1
  <2>5. Append(Line(Piece(f)), NL) = Piece(f)
    BY <1>2, <2>4, EndPutBack
  <2>6. file = [files[f] EXCEPT !.pos = @ + Len(Piece(f)), !.got = @ \o Piece(f)]
    BY <2>4, <2>5 DEF ReadLine
  <2>7. /\ file.pos = pos + Len(Piece(f)) /\ file.got = files[f].got \o Piece(f)
        /\ file.ended = files[f].ended
    BY <1>1, <2>6 DEF File
  <2> HIDE DEF file, pos
  <2>8. file.pos = next
    BY <1>1, <2>1, <2>2, <2>3, <2>7
  <2>9. SubSeq(chars, 1, pos) \o SubSeq(chars, pos + 1, next) = SubSeq(chars, 1, next)
    <3>1. 1 \in 1 .. Len(chars) + 1 /\ pos \in 1 - 1 .. Len(chars) /\ next \in pos .. Len(chars)
      BY <1>1, <2>1, <2>2
    <3> QED
      BY <1>1, <3>1, ConcatAdjacentSubSeq
  <2>10. file.got = SubSeq(chars, 1, next)
    BY <1>1, <2>1, <2>7, <2>9
  <2>11. ~files[f].ended
    BY <1>1, <1>4
  <2> QED
    BY <2>7, <2>8, <2>10, <2>11 DEF ReadSoFar, file
<1> QED
  BY <1>3, <1>4

-----------------------------------------------------------------------------
(* What the calls do to the files.                                         *)

LEMMA OpenKeeps ==
  ASSUME FilesInv, NEW path \in FileNames, NEW mode \in {"r", "w"}, Open(path, mode)
  PROVE  FilesInv'
<1>1. PICK ok \in IF mode = "r" /\ path \in DOMAIN content THEN {TRUE}
                  ELSE IF mode = "r" THEN {FALSE} ELSE {TRUE, FALSE} :
        LET emptied == mode = "w" /\ ok
            before == [f \in DOMAIN files |->
                         [files[f] EXCEPT !.steady = @ /\ ~(emptied /\ files[f].path = path)]]
        IN /\ files' = Append(before, NewFile(path, mode, ok))
           /\ content' = IF emptied
                         THEN [p \in DOMAIN content \cup {path} |-> IF p = path THEN <<>> ELSE content[p]]
                         ELSE content
  BY DEF Open
<1> DEFINE emptied == mode = "w" /\ ok
           before == [f \in DOMAIN files |->
                        [files[f] EXCEPT !.steady = @ /\ ~(emptied /\ files[f].path = path)]]
           new == NewFile(path, mode, ok)
           last == Len(files) + 1
<1>2. /\ files \in Seq(File) /\ Len(files) \in Nat /\ DOMAIN files = 1 .. Len(files)
      /\ \A f \in DOMAIN files : files[f] \in File
      /\ ok \in BOOLEAN /\ (mode = "r" /\ ok => path \in DOMAIN content)
  <2>1. ok \in BOOLEAN /\ (mode = "r" /\ ok => path \in DOMAIN content)
    BY <1>1
  <2> QED
    BY <2>1 DEF FilesInv, FilesTypeOK
<1>3. files' = Append(before, new)
  BY <1>1
<1>4. content' = IF emptied
                 THEN [p \in DOMAIN content \cup {path} |-> IF p = path THEN <<>> ELSE content[p]]
                 ELSE content
  BY <1>1
<1>5. /\ new \in File /\ new.path = path /\ new.mode = mode /\ new.opened = ok /\ new.pos = 0
      /\ new.got = <<>> /\ new.ended = FALSE /\ new.steady = ~IsWritten(path)
  <2>1. <<>> \in Seq(Chars) /\ IsWritten(path) \in BOOLEAN
    BY DEF IsWritten
  <2> QED
    BY <1>2, <2>1 DEF NewFile, File
<1>6. \A f \in DOMAIN files :
        /\ before[f] \in File /\ before[f].path = files[f].path /\ before[f].mode = files[f].mode
        /\ before[f].opened = files[f].opened /\ before[f].pos = files[f].pos
        /\ before[f].got = files[f].got /\ before[f].ended = files[f].ended
        /\ before[f].steady = (files[f].steady /\ ~(emptied /\ files[f].path = path))
  <2> HIDE DEF emptied
  <2> QED
    BY <1>2 DEF File
<1>7. before \in Seq(File) /\ Len(before) = Len(files)
  <2>1. DOMAIN before = 1 .. Len(files) /\ before = [f \in 1 .. Len(files) |-> before[f]]
    BY <1>2
  <2> HIDE DEF before
  <2> QED
    BY <1>2, <1>6, <2>1
<1>8. /\ files' \in Seq(File) /\ DOMAIN files' = 1 .. last /\ files'[last] = new
      /\ \A f \in DOMAIN files : files'[f] = before[f]
  <2> HIDE DEF before, new
  <2>1. /\ files' \in Seq(File) /\ Len(files') = Len(before) + 1
        /\ \A f \in 1 .. Len(before) : files'[f] = before[f]
        /\ files'[Len(before) + 1] = new
    BY <1>3, <1>5, <1>7, AppendProperties
  <2>2. DOMAIN files' = 1 .. Len(files')
    BY <2>1
  <2> QED
    BY <1>2, <1>7, <2>1, <2>2
<1> HIDE DEF before, new
<1>9. /\ DOMAIN content' \subseteq FileNames
      /\ DOMAIN content \subseteq DOMAIN content'
      /\ \A p \in DOMAIN content' : content'[p] \in Seq(Chars)
      /\ \A p : ~(emptied /\ p = path) => /\ p \in DOMAIN content' <=> p \in DOMAIN content
                                          /\ p \in DOMAIN content => content'[p] = content[p]
      /\ emptied => path \in DOMAIN content'
  <2>1. <<>> \in Seq(Chars)
    OBVIOUS
  <2> HIDE DEF emptied
  <2> QED
    BY <1>4, <2>1 DEF FilesInv, FilesTypeOK
<1>10. \A f \in DOMAIN files' : f \in DOMAIN files \/ f = last
  BY <1>2, <1>8
<1>11. FilesTypeOK'
  <2>1. ASSUME NEW f \in DOMAIN files', files'[f].opened
        PROVE  files'[f].path \in DOMAIN content'
    <3>1. CASE f \in DOMAIN files
      <4>1. files[f].opened /\ files'[f].path = files[f].path
        BY <1>6, <1>8, <2>1, <3>1
      <4> QED
        BY <1>9, <3>1, <4>1 DEF FilesInv, FilesTypeOK
    <3>2. CASE f = last
      <4>1. ok /\ files'[f].path = path
        BY <1>5, <1>8, <2>1, <3>2
      <4> QED
        BY <1>2, <1>9, <4>1
    <3> QED
      BY <1>10, <3>1, <3>2
  <2> QED
    BY <1>8, <1>9, <2>1 DEF FilesTypeOK
<1>12. ASSUME NEW p, ~IsWritten(p), ~(emptied /\ p = path)
       PROVE  ~IsWritten(p)'
  <2> SUFFICES ASSUME NEW g \in DOMAIN files', files'[g].opened, files'[g].path = p,
                      files'[g].mode = "w"
               PROVE  FALSE
    BY DEF IsWritten, Opened
  <2>1. CASE g \in DOMAIN files
    BY <1>6, <1>8, <1>12, <2>1 DEF IsWritten, Opened
  <2>2. CASE g = last
    BY <1>5, <1>8, <1>12, <2>2
  <2> QED
    BY <1>10, <2>1, <2>2
<1>13. ASSUME NEW f \in DOMAIN files', files'[f].mode = "r", files'[f].steady
       PROVE  Reader(f)'
  <2>1. CASE f \in DOMAIN files
    <3>1. /\ files[f].mode = "r" /\ files[f].steady /\ ~(emptied /\ files[f].path = path)
          /\ files'[f].path = files[f].path /\ files'[f].pos = files[f].pos
          /\ files'[f].got = files[f].got /\ files'[f].ended = files[f].ended
      BY <1>6, <1>8, <1>13, <2>1
    <3>2. /\ ~IsWritten(files[f].path)
          /\ files[f].path \in DOMAIN content /\ LinesAreWhole(content[files[f].path])
               => ReadSoFar(files[f], content[files[f].path])
      BY <2>1, <3>1 DEF FilesInv, Readers, Reader
    <3>3. /\ files[f].path \in DOMAIN content' <=> files[f].path \in DOMAIN content
          /\ files[f].path \in DOMAIN content => content'[files[f].path] = content[files[f].path]
      BY <1>9, <3>1
    <3>4. ~IsWritten(files[f].path)'
      BY <1>12, <3>1, <3>2
    <3> HIDE DEF emptied
    <3> QED
      BY <3>1, <3>2, <3>3, <3>4 DEF ReadSoFar, Reader
  <2>2. CASE f = last
    <3>1. mode = "r" /\ files'[f] = new /\ ~IsWritten(path) /\ ~emptied
      BY <1>5, <1>8, <1>13, <2>2
    <3>2. ~IsWritten(path)'
      BY <1>12, <3>1
    <3>3. \A chars : ReadSoFar(new, chars)
      <4>1. \A chars : SubSeq(chars, 1, 0) = <<>>
        BY SubSeqEmpty
      <4> QED
        BY <1>5, <4>1 DEF ReadSoFar
    <3> QED
      BY <1>5, <3>1, <3>2, <3>3 DEF Reader
  <2> QED
    BY <1>10, <2>1, <2>2
<1> QED
  <2>1. \A f \in DOMAIN files' : Reader(f)'
    BY <1>13 DEF Reader
  <2> QED
    BY <1>11, <2>1 DEF FilesInv, Readers

LEMMA CloseKeeps ==
  ASSUME FilesInv, NEW f, Close(f)
  PROVE  FilesInv'
<1>1. CASE ~Opened(f)
  BY <1>1 DEF Close, FilesInv, FilesTypeOK, Readers, Reader, IsWritten, Opened
<1>2. CASE Opened(f)
  <2>1. /\ files' = [files EXCEPT ![f].opened = FALSE] /\ content' = content
        /\ f \in DOMAIN files /\ files \in Seq(File)
        /\ \A g \in DOMAIN files : files[g] \in File
    BY <1>2 DEF Close, Opened, FilesInv, FilesTypeOK
  <2>2. DOMAIN files' = DOMAIN files
    BY <2>1
  <2>3. \A g \in DOMAIN files :
          /\ files'[g] \in File /\ files'[g].path = files[g].path /\ files'[g].mode = files[g].mode
          /\ files'[g].opened => files[g].opened
          /\ files'[g].pos = files[g].pos /\ files'[g].got = files[g].got
          /\ files'[g].ended = files[g].ended /\ files'[g].steady = files[g].steady
    BY <2>1 DEF File
  <2>4. files' \in Seq(File)
    <3>1. f \in 1 .. Len(files) /\ [files[f] EXCEPT !.opened = FALSE] \in File
      <4>1. f \in 1 .. Len(files)
        BY <2>1
      <4> QED
        BY <2>1, <4>1 DEF File
    <3>2. files' = [files EXCEPT ![f] = [files[f] EXCEPT !.opened = FALSE]]
      BY <2>1
    <3> QED
      BY <2>1, <3>1, <3>2, ExceptSeq
  <2>5. \A p : IsWritten(p)' => IsWritten(p)
    BY <2>2, <2>3 DEF IsWritten, Opened
  <2>6. FilesTypeOK'
    BY <2>1, <2>2, <2>3, <2>4 DEF FilesInv, FilesTypeOK
  <2>7. ASSUME NEW g \in DOMAIN files', files'[g].mode = "r", files'[g].steady
        PROVE  Reader(g)'
    <3>1. Reader(g) /\ files[g].mode = "r" /\ files[g].steady
      BY <2>2, <2>3, <2>7 DEF FilesInv, Readers
    <3>2. ~IsWritten(files[g].path)
      BY <3>1 DEF Reader
    <3>3. /\ files'[g].path = files[g].path /\ files'[g].pos = files[g].pos
          /\ files'[g].got = files[g].got /\ files'[g].ended = files[g].ended
      BY <2>2, <2>3
    <3>4. ~IsWritten(files[g].path)'
      BY <2>5, <3>2, <3>3
    <3> QED
      BY <2>1, <3>1, <3>3, <3>4 DEF Reader, ReadSoFar
  <2>8. \A g \in DOMAIN files' : Reader(g)'
    BY <2>7 DEF Reader
  <2> QED
    BY <2>6, <2>8 DEF FilesInv, Readers
<1> QED
  BY <1>1, <1>2

LEMMA WriteKeeps ==
  ASSUME FilesInv, NEW f, Opened(f), NEW chars \in Seq(Chars), Write(f, chars)
  PROVE  FilesInv'
<1> DEFINE path == files[f].path
<1>1. CASE files[f].mode # "w"
  BY <1>1 DEF Write, FilesInv, FilesTypeOK, Readers, Reader, IsWritten, Opened
<1>2. CASE files[f].mode = "w"
  <2>1. files' = files /\ content' = [content EXCEPT ![path] = @ \o chars]
    BY <1>2 DEF Write
  <2>2. f \in DOMAIN files /\ files[f].opened /\ path \in DOMAIN content
    BY DEF Opened, FilesInv, FilesTypeOK
  <2>3. IsWritten(path)
    BY <1>2, <2>2 DEF IsWritten, Opened
  <2>4. /\ DOMAIN content' = DOMAIN content
        /\ \A p \in DOMAIN content : p # path => content'[p] = content[p]
        /\ content'[path] \in Seq(Chars)
    BY <2>1, <2>2 DEF FilesInv, FilesTypeOK
  <2>5. FilesTypeOK'
    BY <2>1, <2>4 DEF FilesInv, FilesTypeOK
  <2>6. ASSUME NEW g \in DOMAIN files
        PROVE  Reader(g)'
    BY <2>1, <2>3, <2>4 DEF FilesInv, Readers, Reader, IsWritten, Opened
  <2> QED
    BY <2>1, <2>5, <2>6 DEF FilesInv, Readers
<1> QED
  BY <1>1, <1>2

LEMMA ReadKeeps ==
  ASSUME FilesInv, NEW f, Opened(f),
         files' = [files EXCEPT ![f] = ReadLine(f).file], content' = content
  PROVE  FilesInv'
<1> DEFINE file == ReadLine(f).file
<1>1. f \in DOMAIN files /\ files \in Seq(File) /\ files[f].path \in DOMAIN content
  BY DEF Opened, FilesInv, FilesTypeOK
<1>2. /\ file \in File /\ file.path = files[f].path /\ file.mode = files[f].mode
      /\ file.opened = files[f].opened /\ file.steady = files[f].steady
  BY <1>1, ReadLineType DEF FilesInv
<1>3. files' = [files EXCEPT ![f] = file]
  OBVIOUS
<1> HIDE DEF file
<1>4. /\ DOMAIN files' = DOMAIN files /\ files'[f] = file
      /\ \A g \in DOMAIN files : g # f => files'[g] = files[g]
  BY <1>1, <1>3
<1>5. files' \in Seq(File)
  <2>1. f \in 1 .. Len(files)
    BY <1>1
  <2> QED
    BY <1>1, <1>2, <1>3, <2>1, ExceptSeq
<1>6. \A p : IsWritten(p)' <=> IsWritten(p)
  <2>1. \A g \in DOMAIN files : /\ files'[g].path = files[g].path
                                /\ files'[g].mode = files[g].mode
                                /\ files'[g].opened = files[g].opened
    BY <1>1, <1>2, <1>4
  <2> QED
    BY <1>4, <2>1 DEF IsWritten, Opened
<1>7. FilesTypeOK'
  BY <1>2, <1>4, <1>5 DEF FilesInv, FilesTypeOK
<1>8. ASSUME NEW g \in DOMAIN files, g # f
      PROVE  Reader(g)'
  <2>1. files'[g] = files[g] /\ Reader(g)
    BY <1>4, <1>8 DEF FilesInv, Readers
  <2> QED
    BY <1>6, <2>1 DEF Reader
<1>9. Reader(f)'
  <2> SUFFICES ASSUME file.mode = "r", file.steady
               PROVE  /\ ~IsWritten(files[f].path)
                      /\ files[f].path \in DOMAIN content /\ LinesAreWhole(content[files[f].path])
                           => ReadSoFar(file, content[files[f].path])
    BY <1>2, <1>4, <1>6 DEF Reader
  <2>1. /\ ~IsWritten(files[f].path)
        /\ files[f].path \in DOMAIN content /\ LinesAreWhole(content[files[f].path])
             => ReadSoFar(files[f], content[files[f].path])
    BY <1>1, <1>2 DEF FilesInv, Readers, Reader
  <2> QED
    BY <1>1, <1>2, <2>1, ReadLineGoesOn DEF FilesInv, file
<1> QED
  BY <1>4, <1>7, <1>8, <1>9 DEF FilesInv, Readers

(* The native function that is called, and what its statement placed.      *)
LEMMA CalledFits ==
  ASSUME ArgumentsFit, Call
  PROVE  \E name \in Names : /\ Native(name) /\ Accepts(name)
                             /\ name \in Outer \/ Fits(name, Par(1), Par(2))
<1>1. PICK name \in Names : /\ registers[RA] = NativeCalled(name)
                            /\ name \in Outer \/ Fits(name, Par(1), Par(2))
  <2>1. CASE due = "call"
    BY <2>1 DEF ArgumentsFit, RA, Par
  <2>2. CASE due = "inner"
    BY <2>2 DEF ArgumentsFit, RA, Par
  <2>3. CASE due = "outer"
    BY <2>3 DEF ArgumentsFit, RA, Outer, Names
  <2> QED
    BY <2>1, <2>2, <2>3 DEF Call
<1>2. Function = name
  BY <1>1 DEF Function, NativeCalled
<1> QED
  BY <1>1, <1>2 DEF Call

LEMMA CallKeepsFiles ==
  ASSUME FilesInv, ArgumentsFit, Call
  PROVE  FilesInv'
<1>1. PICK name \in Names : /\ Native(name) /\ Accepts(name)
                            /\ name \in Outer \/ Fits(name, Par(1), Par(2))
  BY CalledFits
<1>2. CASE name \notin {"io.open", "io.close", "file:write", "file:read"}
  <2>1. UNCHANGED <<files, content>>
    <3>1. CASE name \in {"print", "io.write", "type", "assert", "tostring", "tonumber"}
      BY <1>1, <3>1 DEF Native, Printing, TypeOf, Asserting, TextOf, NumberOf
    <3>2. CASE name \in {"next", "pairs", "getmetatable", "setmetatable", "io.read", "math.ceil",
                         "string.sub"}
      BY <1>1, <3>2 DEF Native, NextKey, PairsOf, GetMetatable, SetMetatable, IoRead, MathCeil, StringSub
    <3> QED
      BY <1>2, <3>1, <3>2 DEF Names
  <2> QED
    BY <2>1 DEF FilesInv, FilesTypeOK, Readers, Reader, IsWritten, Opened
<1>3. CASE name = "io.open"
  <2>1. PICK path \in FileNames, mode \in {"r", "w"} : Par(1) = Word(path) /\ Par(2) = Word(mode)
    BY <1>1, <1>3 DEF Fits, Outer
  <2>2. Open(Par(1)[2][1], Par(2)[2][1])
    BY <1>1, <1>3 DEF Native, IoOpen
  <2>3. Par(1)[2][1] = path /\ Par(2)[2][1] = mode
    BY <2>1 DEF Word
  <2>4. Open(path, mode)
    BY <2>2, <2>3
  <2> QED
    BY <2>4, OpenKeeps
<1>4. CASE name = "io.close"
  <2>1. Close(Par(1)[2])
    BY <1>1, <1>4 DEF Native, IoClose
  <2> QED
    BY <2>1, CloseKeeps
<1>5. CASE name = "file:write"
  <2>1. Write(Par(1)[2], IF Par(2) = INT THEN <<"1">> ELSE Par(2)[2])
    BY <1>1, <1>5 DEF Native, FileWrite
  <2>2. Opened(Par(1)[2]) /\ Par(2)[1] \in {"string", "integer"}
    BY <1>1, <1>5 DEF Accepts
  <2>3. Par(2) \in {Text(t) : t \in Texts} \cup {INT, NIL}
    BY <1>1, <1>5 DEF Fits, Outer
  <2>4. Par(2) # NIL
    BY <2>2 DEF NIL
  <2>5. (IF Par(2) = INT THEN <<"1">> ELSE Par(2)[2]) \in Seq(Chars)
    <3>1. CASE Par(2) = INT
      <4>1. <<"1">> \in Seq(Chars)
        BY FilesAssumption
      <4> QED
        BY <3>1, <4>1
    <3>2. CASE \E t \in Texts : Par(2) = Text(t)
      <4>1. PICK t \in Texts : Par(2) = Text(t)
        BY <3>2
      <4>2. Par(2) # INT /\ Par(2)[2] = t
        BY <4>1 DEF Text, INT
      <4> QED
        BY <4>1, <4>2, FilesAssumption
    <3> QED
      BY <2>3, <2>4, <3>1, <3>2
  <2> QED
    BY <2>1, <2>2, <2>5, WriteKeeps
<1>6. CASE name = "file:read"
  <2>1. FileRead
    BY <1>1, <1>6 DEF Native
  <2>2. CASE files' = files
    BY <2>1, <2>2 DEF FileRead, FilesInv, FilesTypeOK, Readers, Reader, IsWritten, Opened
  <2>3. CASE /\ Opened(Par(1)[2])
             /\ files' = [files EXCEPT ![Par(1)[2]] = ReadLine(Par(1)[2]).file]
    <3>1. content' = content
      BY <2>1 DEF FileRead
    <3> QED
      BY <2>3, <3>1, ReadKeeps
  <2> QED
    BY <2>1, <2>2, <2>3 DEF FileRead
<1> QED
  BY <1>2, <1>3, <1>4, <1>5, <1>6

(* A result is never stored over the function of the outer call.           *)
LEMMA CallKeepsFit ==
  ASSUME ArgumentsFit, Inv, Call
  PROVE  ArgumentsFit'
<1>1. PICK name \in Names : Native(name)
  BY CalledFits
<1>2. CASE due = "inner"
  <2>1. DOMAIN registers = 0 .. 5 /\ \E outer \in Outer : registers[0] = NativeCalled(outer)
    BY <1>2 DEF Inv, CallsArePlaced, ArgumentsFit
  <2>2. PICK results, count :
          Return(results, count) /\ count \in Int /\ -1 \notin DOMAIN results
    <3>1. /\ DOMAIN None = {} /\ \A v : DOMAIN One(v) = {0} /\ \A w : DOMAIN Two(v, w) = {0, 1}
          /\ \A v : DOMAIN Copies(-1, v) = {}
      BY DEF None, One, Two, Copies
    <3>2. CASE Return([k \in {0, 2} |-> IF k = 0 THEN NativeCalled("next") ELSE NIL], 3)
      <4> DEFINE results == [k \in {0, 2} |-> IF k = 0 THEN NativeCalled("next") ELSE NIL]
      <4>1. Return(results, 3) /\ DOMAIN results = {0, 2}
        BY <3>2
      <4> HIDE DEF results
      <4> QED
        BY <4>1
    <3>3. ASSUME NEW v, NEW w, \/ Return(None, 0)
                              \/ Return(One(v), 1)
                              \/ Return(Two(v, w), 2)
                              \/ Return(Copies(-1, v), -1)
                              \/ Return(None, 1)
          PROVE  \E results, count :
                   Return(results, count) /\ count \in Int /\ -1 \notin DOMAIN results
      <4>1. 0 \in Int /\ 1 \in Int /\ 2 \in Int /\ -1 \in Int /\ -1 # 0 /\ -1 # 1
        OBVIOUS
      <4> QED
        BY <3>1, <3>3, <4>1
    <3> QED
      BY <1>1, <1>2, <3>2, <3>3, InnerReturns
  <2>3. due' = "outer" /\ registers'[0] = registers[0]
    BY <1>2, <2>1, <2>2, Returned
  <2> QED
    BY <2>1, <2>3 DEF ArgumentsFit
<1>3. CASE due # "inner"
  <2>1. PICK results, count : Return(results, count)
    BY <1>1, <1>3, OtherReturns
  <2>2. due' = "statement"
    BY <1>3, <2>1 DEF Return
  <2> QED
    BY <2>2 DEF ArgumentsFit
<1> QED
  BY <1>2, <1>3

LEMMA StatementFits ==
  ASSUME Statement
  PROVE  ArgumentsFit'
<1>1. PICK name \in Names : \E args \in Arguments(name) :
        \/ due' = "call" /\ registers' = Placed(<<NativeCalled(name)>> \o args)
        \/ /\ due' = "inner"
           /\ \E outer \in Outer :
                registers' = Placed(<<NativeCalled(outer), NativeCalled(name)>> \o args)
  BY DEF Statement
<1>2. PICK args \in Arguments(name) :
        \/ due' = "call" /\ registers' = Placed(<<NativeCalled(name)>> \o args)
        \/ /\ due' = "inner"
           /\ \E outer \in Outer :
                registers' = Placed(<<NativeCalled(outer), NativeCalled(name)>> \o args)
  BY <1>1
<1>3. PICK S : args \in Seq(S)
  BY ArgumentsAreSequences
<1>4. name \in {"io.open", "file:write"} =>
        \E v, w : args = <<v, w>> /\ Fits(name, v, w)
  <2>1. CASE name = "io.open"
    <3>1. \/ \E p \in Paths \cup DOMAIN Stored : args = <<Word(p), Word("r")>>
          \/ \E p \in Paths : args = <<Word(p), Word("w")>>
      BY <2>1 DEF Arguments
    <3> QED
      BY <2>1, <3>1 DEF Fits, FileNames
  <2>2. CASE name = "file:write"
    <3>1. \/ \E f \in DOMAIN files : \E t \in Texts : args = <<FileAt(f), Text(t)>>
          \/ \E f \in DOMAIN files : args = <<FileAt(f), INT>>
          \/ \E f \in DOMAIN files : args = <<FileAt(f), NIL>>
      BY <2>2 DEF Arguments
    <3> QED
      BY <2>2, <3>1 DEF Fits
  <2> QED
    BY <2>1, <2>2
<1>5. CASE due' = "call" /\ registers' = Placed(<<NativeCalled(name)>> \o args)
  <2> DEFINE values == <<NativeCalled(name)>> \o args
  <2>1. /\ Len(values) = 1 + Len(args) /\ Len(args) \in Nat /\ values[1] = NativeCalled(name)
        /\ \A k \in 1 .. Len(args) : values[1 + k] = args[k]
    BY <1>3
  <2> HIDE DEF values
  <2>2. registers' = Placed(values)
    BY <1>5 DEF values
  <2>3. registers'[0] = NativeCalled(name)
    BY <2>1, <2>2 DEF Placed
  <2>4. Fits(name, registers'[1], registers'[2])
    <3>1. CASE name \in {"io.open", "file:write"}
      <4>1. PICK v, w : args = <<v, w>> /\ Fits(name, v, w)
        BY <1>4, <3>1
      <4>2. Len(args) = 2 /\ args[1] = v /\ args[2] = w
        BY <4>1
      <4>3. Len(values) = 3 /\ values[2] = v /\ values[3] = w
        BY <2>1, <4>2
      <4>4. registers'[1] = v /\ registers'[2] = w
        BY <2>2, <4>3 DEF Placed
      <4> QED
        BY <4>1, <4>4
    <3> QED
      BY <3>1 DEF Fits
  <2> QED
    BY <1>5, <2>3, <2>4 DEF ArgumentsFit
<1>6. ASSUME NEW outer \in Outer, due' = "inner",
             registers' = Placed(<<NativeCalled(outer), NativeCalled(name)>> \o args)
      PROVE  ArgumentsFit'
  <2> DEFINE values == <<NativeCalled(outer), NativeCalled(name)>> \o args
  <2>1. /\ Len(values) = 2 + Len(args) /\ Len(args) \in Nat
        /\ values[1] = NativeCalled(outer) /\ values[2] = NativeCalled(name)
        /\ \A k \in 1 .. Len(args) : values[2 + k] = args[k]
    BY <1>3
  <2> HIDE DEF values
  <2>2. registers' = Placed(values)
    BY <1>6 DEF values
  <2>3. registers'[0] = NativeCalled(outer) /\ registers'[1] = NativeCalled(name)
    BY <2>1, <2>2 DEF Placed
  <2>4. Fits(name, registers'[2], registers'[3])
    <3>1. CASE name \in {"io.open", "file:write"}
      <4>1. PICK v, w : args = <<v, w>> /\ Fits(name, v, w)
        BY <1>4, <3>1
      <4>2. Len(args) = 2 /\ args[1] = v /\ args[2] = w
        BY <4>1
      <4>3. Len(values) = 4 /\ values[3] = v /\ values[4] = w
        BY <2>1, <4>2
      <4>4. registers'[2] = v /\ registers'[3] = w
        BY <2>2, <4>3 DEF Placed
      <4> QED
        BY <4>1, <4>4
    <3> QED
      BY <3>1 DEF Fits
  <2> QED
    BY <1>6, <2>3, <2>4 DEF ArgumentsFit
<1> QED
  BY <1>2, <1>5, <1>6

LEMMA FilesInvHolds == Spec => [](FilesInv /\ ArgumentsFit)
<1>1. Init => FilesInv /\ ArgumentsFit
  <2> SUFFICES ASSUME Init PROVE FilesInv /\ ArgumentsFit
    OBVIOUS
  <2>1. files = <<>> /\ content = Stored /\ due = "statement"
    BY DEF Init
  <2>2. FilesTypeOK
    BY <2>1, FilesAssumption DEF FilesTypeOK, FileNames
  <2>3. Readers /\ ArgumentsFit
    BY <2>1 DEF Readers, ArgumentsFit
  <2> QED
    BY <2>2, <2>3 DEF FilesInv
<1>2. FilesInv /\ ArgumentsFit /\ Inv /\ [Next]_vars => (FilesInv /\ ArgumentsFit)'
  <2> SUFFICES ASSUME FilesInv, ArgumentsFit, Inv, [Next]_vars
               PROVE  (FilesInv /\ ArgumentsFit)'
    OBVIOUS
  <2>1. ASSUME UNCHANGED <<files, content>>
        PROVE  FilesInv'
    BY <2>1 DEF FilesInv, FilesTypeOK, Readers, Reader, IsWritten, Opened
  <2>2. CASE Statement
    <3>1. UNCHANGED <<files, content>>
      BY <2>2 DEF Statement
    <3> QED
      BY <2>1, <2>2, <3>1, StatementFits
  <2>3. CASE Call
    BY <2>3, CallKeepsFiles, CallKeepsFit
  <2>4. CASE Abort
    BY <2>1, <2>4 DEF Abort, ArgumentsFit
  <2>5. CASE UNCHANGED vars
    BY <2>1, <2>5 DEF vars, ArgumentsFit
  <2> QED
    BY <2>2, <2>3, <2>4, <2>5 DEF Next
<1> QED
  BY <1>1, <1>2, InvHolds, PTL DEF Spec

(* What a program reads line by line from a file that it does not write at *)
(* the same time is what the file holds, and nil comes at its end only     *)
(* (file.cpp:77-94), for all files with whole lines, all buffer lengths    *)
(* and any calls before.                                                   *)
THEOREM LinesComeBackHolds == Spec => []LinesComeBack
<1>1. FilesInv => LinesComeBack
  BY DEF FilesInv, Readers, Reader, ReadSoFar, LinesComeBack
<1> QED
  BY <1>1, FilesInvHolds, PTL
=============================================================================
