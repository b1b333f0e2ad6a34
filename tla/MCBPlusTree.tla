---------------------------- MODULE MCBPlusTree -----------------------------
(* The inputs that BPlusTree.tla is checked with.  As in the tests, the    *)
(* value of a key is its negation, where nothing else is said.             *)
EXTENDS BPlusTree

I(k, v) == [do |-> "i", key |-> k, value |-> v]
D(k) == [do |-> "d", key |-> k]
F(k) == [do |-> "f", key |-> k]

(* Any commands, for six keys; one of them with another value too.         *)
AnyCommand ==
  << {I(k, -k) : k \in 1 .. 6} \cup {I(1, -9)}
     \cup {D(k) : k \in 1 .. 6} \cup {F(k) : k \in 0 .. 6} >>

(* Ten keys in ascending order, which make a tree of three levels; up to   *)
(* four more that fill its left or its right half (20 is there already);   *)
(* then deletions on either side, which join inner nodes or move           *)
(* descendants between them.                                               *)
DeepSession ==
  [l \in 1 .. 18 |->
     IF l <= 10 THEN {I(2 * l, -2 * l)}
     ELSE IF l <= 12 THEN {I(2 * l - 19, 19 - 2 * l), I(2 * l, -2 * l)}
     ELSE IF l <= 14 THEN {I(2 * l - 19, 19 - 2 * l), I(20, 0)}
     ELSE IF l <= 17 THEN {D(2 * (l - 10)), D(2 * (l - 14)), D(18)}
     ELSE {D(k) : k \in {2, 4, 6, 8, 12, 20}} \cup {I(11, -11)}]

(* in1.kvs in short: keys that have the same value.                        *)
SameValues ==
  << {I(k, v) : k \in 1 .. 3, v \in {-1, -2}} \cup {D(k) : k \in 1 .. 3} >>

Terminal(lines) == [lines |-> lines, stdin_reading |-> TRUE]
File(lines) == [lines |-> lines, stdin_reading |-> FALSE]

Sessions == {Terminal(AnyCommand), File(DeepSession)}
DeepSessions == {File(DeepSession)}
SameValueSessions == {Terminal(SameValues)}
=============================================================================
