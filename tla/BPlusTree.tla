----------------------------- MODULE BPlusTree ------------------------------
(***************************************************************************)
(* The B+ tree of src/prg/key_value_storage.lua and its command loop.      *)
(*                                                                         *)
(* A command starts an operation and, where that calls insert_into_parent  *)
(* or delete_entry for a node further up, one step is one such call: call  *)
(* says which is due.  All their callers do is to pass the root on, so     *)
(* nothing else has to be remembered of them.                              *)
(*                                                                         *)
(* The Lua tables keys and descendants of a node are sequences that end    *)
(* where num_keys says (what lies beyond is never read); they start at 1   *)
(* where those of the code start at 0.  The last descendant of a leaf,     *)
(* descendants[order - 1], is next_leaf.  A node that is no longer in the  *)
(* tree is gone: Lua collects it.                                          *)
(***************************************************************************)
EXTENDS Integers, SequencesExt

CONSTANTS
  order,            (* Descendants that a node has at most.                *)
  Inputs,           (* The inputs there may be: for each, the commands     *)
                    (* that its lines may hold and whether it is a file or *)
                    (* a terminal, whose lines never end and are all alike.*)
  NULL              (* nil.                                                *)

VARIABLES
  input,      (* The input of this run of the program.                     *)
  node,       (* The nodes: Address |-> Lua table.                         *)
  tree_root,  (* The root, NULL for an empty tree.                         *)
  call,       (* The call that is due.                                     *)
  line,       (* The line of input to read next.                           *)
  s_in,       (* The line that was read last: the command being executed.  *)
  found       (* What it found, where it was a command "f".                *)

vars == <<input, node, tree_root, call, line, s_in, found>>
treeVars == <<node, tree_root, call>>

Commands == UNION {UNION Range(i.lines) : i \in Inputs}
Keys == {c.key : c \in Commands}
Values == {c.value : c \in {d \in Commands : d.do = "i"}}

ASSUME OrderAssumption == order \in Nat \ {0, 1, 2}
ASSUME KeysAssumption == Keys \subseteq Int
ASSUME NullAssumption == NULL \notin Nat \cup Values
ASSUME InputsAssumption == \A i \in Inputs : i.lines \in Seq(SUBSET Commands)

-----------------------------------------------------------------------------
(* Searching.                                                              *)

(* The place of the first element that passes the test, the one after the  *)
(* last when none does.                                                    *)
FirstPlace(s, Test(_)) ==
  LET i == SelectInSeq(s, Test) IN IF i = 0 THEN Len(s) + 1 ELSE i

PlaceOf(s, e) == FirstPlace(s, LAMBDA x : x = e)

(* Where key is to be inserted in a leaf.                                  *)
InsertionPoint(keys, key) == FirstPlace(keys, LAMBDA x : ~(x < key))

BranchLate(keys, key) == FirstPlace(keys, LAMBDA x : key <= x)

(* Which descendant of a node to follow for a key.                         *)
Branch(keys, key) == FirstPlace(keys, LAMBDA x : key < x)

FindLeaf(key) ==
  LET Down[n \in DOMAIN node] ==
        IF node[n].is_leaf THEN n
        ELSE Down[node[n].descendants[Branch(node[n].keys, key)]]
  IN Down[tree_root]

(* The value under a key, NULL when there is none.                         *)
Find(key) ==
  IF tree_root = NULL THEN NULL
  ELSE LET leaf == node[FindLeaf(key)]
           pos == PlaceOf(leaf.keys, key)
       IN IF pos > Len(leaf.keys) THEN NULL ELSE leaf.descendants[pos]

-----------------------------------------------------------------------------
(* Calls.                                                                  *)

NoCall == [fn |-> "none"]
Stopped == [fn |-> "error"]
InsertIntoParent(left, key, right) ==
  [fn |-> "insert_into_parent", left |-> left, key |-> key, right |-> right]
DeleteEntry(n, key, descendant) ==
  [fn |-> "delete_entry", node |-> n, key |-> key, descendant |-> descendant]

(* A table that is not in use.                                             *)
NewNode == Min((1 .. Cardinality(DOMAIN node) + 1) \ DOMAIN node)

(* The tree with one more node, or another table in place of a node.       *)
Put(nodes, n, table) ==
  [m \in DOMAIN nodes \cup {n} |-> IF m = n THEN table ELSE nodes[m]]

AdoptNone(nodes, children, n) == nodes

(* The given nodes get a new parent.                                       *)
Adopt(nodes, children, n) ==
  [m \in DOMAIN nodes |->
     IF m \in children THEN [nodes[m] EXCEPT !.parent = n] ELSE nodes[m]]

Cut(l) == (l + 1) \div 2

-----------------------------------------------------------------------------
(* Insertion.                                                              *)

StartNewTree(key, value) ==
  /\ tree_root = NULL
  /\ tree_root' = NewNode
  /\ node' = Put(node, NewNode,
               [is_leaf |-> TRUE, keys |-> <<key>>, descendants |-> <<value>>,
                next_leaf |-> NULL, parent |-> NULL])
  /\ UNCHANGED call

(* A leaf with one entry more, which may be one too many.                  *)
WithEntry(leaf, key, value) ==
  LET pos == InsertionPoint(leaf.keys, key)
  IN [leaf EXCEPT !.keys = InsertAt(@, pos, key),
                  !.descendants = InsertAt(@, pos, value)]

InsertIntoLeaf(n, key, value) ==
  /\ Len(node[n].keys) < order - 1
  /\ node' = [node EXCEPT ![n] = WithEntry(@, key, value)]
  /\ UNCHANGED <<tree_root, call>>

InsertIntoLeafAfterSplitting(n, key, value) ==
  LET temp == WithEntry(node[n], key, value)
      split == Cut(order - 1)
      leaf == [temp EXCEPT !.keys = SubSeq(@, 1, split),
                           !.descendants = SubSeq(@, 1, split),
                           !.next_leaf = NewNode]
      new_leaf == [temp EXCEPT !.keys = SubSeq(@, split + 1, order),
                               !.descendants = SubSeq(@, split + 1, order)]
  IN /\ Len(node[n].keys) >= order - 1
     /\ node' = Put(Put(node, n, leaf), NewNode, new_leaf)
     /\ call' = InsertIntoParent(n, new_leaf.keys[1], NewNode)
     /\ UNCHANGED tree_root

(* A key that is there already is not inserted again.                      *)
Insert(key, value) ==
  IF Find(key) # NULL THEN UNCHANGED treeVars
  ELSE \/ StartNewTree(key, value)
       \/ /\ tree_root # NULL
          /\ \/ InsertIntoLeaf(FindLeaf(key), key, value)
             \/ InsertIntoLeafAfterSplitting(FindLeaf(key), key, value)

InsertIntoNewRoot(left, key, right) ==
  LET root == [is_leaf |-> FALSE, keys |-> <<key>>, descendants |-> <<left, right>>,
               next_leaf |-> NULL, parent |-> NULL]
  IN /\ node[left].parent = NULL
     /\ node' = Put(Adopt(node, {left, right}, NewNode), NewNode, root)
     /\ tree_root' = NewNode
     /\ call' = NoCall

(* A node with a key and, right of it, a descendant more; left is the      *)
(* descendant left of the key.                                             *)
WithDescendant(n, left, key, right) ==
  LET left_index == PlaceOf(n.descendants, left)
  IN [n EXCEPT !.keys = InsertAt(@, left_index, key),
               !.descendants = InsertAt(@, left_index + 1, right)]

InsertIntoNode(left, key, right) ==
  LET n == node[left].parent
  IN /\ n # NULL
     /\ Len(node[n].keys) < order - 1
     /\ node' = [node EXCEPT ![n] = WithDescendant(@, left, key, right)]
     /\ call' = NoCall
     /\ UNCHANGED tree_root

InsertIntoNodeAfterSplitting(left, key, right) ==
  LET n == node[left].parent
      temp == WithDescendant(node[n], left, key, right)
      split == Cut(order)
      old_node == [temp EXCEPT !.keys = SubSeq(@, 1, split - 1),
                               !.descendants = SubSeq(@, 1, split)]
      new_node == [temp EXCEPT !.keys = SubSeq(@, split + 1, order),
                               !.descendants = SubSeq(@, split + 1, order + 1)]
  IN /\ n # NULL
     /\ Len(node[n].keys) >= order - 1
     /\ node' = Put(Put(Adopt(node, ToSet(new_node.descendants), NewNode),
                        n, old_node),
                    NewNode, new_node)
     /\ call' = InsertIntoParent(n, temp.keys[split], NewNode)
     /\ UNCHANGED tree_root

CallInsertIntoParent ==
  /\ call.fn = "insert_into_parent"
  /\ \/ InsertIntoNewRoot(call.left, call.key, call.right)
     \/ InsertIntoNode(call.left, call.key, call.right)
     \/ InsertIntoNodeAfterSplitting(call.left, call.key, call.right)
  /\ UNCHANGED <<input, line, s_in, found>>

-----------------------------------------------------------------------------
(* Deletion.                                                               *)

Delete(key) ==
  /\ tree_root # NULL
  /\ call' = IF Find(key) = NULL THEN call
             ELSE DeleteEntry(FindLeaf(key), key, Find(key))
  /\ UNCHANGED <<node, tree_root>>

PointersWithoutFirst(descendants, descendant) == Tail(descendants)

(* The pointer that goes with a key is looked for by itself, among the     *)
(* values of a leaf as among the descendants of a node.                    *)
PointersWithout(descendants, descendant) == RemoveFirst(descendants, descendant)

(* The tree without the entry; a node that was coalesced goes with it.     *)
RemoveEntryFromNode(n, key, descendant) ==
  LET gone == IF node[n].is_leaf THEN {} ELSE {descendant}
  IN [m \in DOMAIN node \ gone |->
        IF m # n THEN node[m]
        ELSE [node[n] EXCEPT !.keys = RemoveFirst(@, key),
                             !.descendants = PointersWithout(@, descendant)]]

MinKeysAlike(is_leaf) == Cut(order) - 1
MinKeys(is_leaf) == IF is_leaf THEN Cut(order - 1) ELSE Cut(order) - 1

Capacity(is_leaf) == IF is_leaf THEN order ELSE order - 1

(* An empty root gives way to its only descendant, an empty leaf to nil.   *)
AdjustRoot(nodes, root) ==
  LET new_root == IF nodes[root].is_leaf THEN NULL ELSE nodes[root].descendants[1]
      rest == Restrict(nodes, DOMAIN nodes \ {root})
  IN IF nodes[root].keys # <<>>
     THEN node' = nodes /\ UNCHANGED tree_root
     ELSE /\ tree_root' = new_root
          /\ node' = IF new_root = NULL THEN rest ELSE Adopt(rest, {new_root}, NULL)

Between(l, k_prime) == IF l.is_leaf THEN <<>> ELSE <<k_prime>>

JoinedRightFirst(l, r, k_prime) ==
  [l EXCEPT !.keys = r.keys \o Between(l, k_prime) \o @,
            !.descendants = r.descendants \o @, !.next_leaf = r.next_leaf]

(* The neighbors l and r in one; k_prime is the key between the two in     *)
(* their parent, which only a node takes over.                             *)
Joined(l, r, k_prime) ==
  [l EXCEPT !.keys = @ \o Between(l, k_prime) \o r.keys,
            !.descendants = @ \o r.descendants, !.next_leaf = r.next_leaf]

(* What the right one of two neighbors holds goes to the end of the left.  *)
CoalesceNodes(nodes, left, right, k_prime) ==
  LET joined == Joined(nodes[left], nodes[right], k_prime)
  IN Adopt(Put(nodes, left, joined),
           IF joined.is_leaf THEN {} ELSE ToSet(joined.descendants), left)

(* The last entry of the neighbor to the left goes to the front of leaf n. *)
FromLeft(nodes, n, neighbor, k_prime_index) ==
  LET moved == Last(nodes[neighbor].keys)
  IN [nodes EXCEPT
        ![n].keys = <<moved>> \o @,
        ![n].descendants = <<Last(nodes[neighbor].descendants)>> \o @,
        ![neighbor].keys = Front(@),
        ![neighbor].descendants = Front(@),
        ![nodes[n].parent].keys[k_prime_index] = moved]

(* The key between the two when the first entry of the right one has gone. *)
NextKPrime(keys, is_leaf) == IF is_leaf THEN keys[2] ELSE keys[1]

(* The first entry of the neighbor to the right goes to the end of n: of a *)
(* leaf with its key, of a node with k_prime in its place.                 *)
FromRight(nodes, n, neighbor, k_prime_index, k_prime) ==
  LET is_leaf == nodes[n].is_leaf
      keys == nodes[neighbor].keys
      moved == Head(nodes[neighbor].descendants)
      shifted ==
        [nodes EXCEPT
           ![n].keys = Append(@, IF is_leaf THEN keys[1] ELSE k_prime),
           ![n].descendants = Append(@, moved),
           ![neighbor].keys = Tail(@),
           ![neighbor].descendants = Tail(@),
           ![nodes[n].parent].keys[k_prime_index] = NextKPrime(keys, is_leaf)]
  IN Adopt(shifted, IF is_leaf THEN {} ELSE {moved}, n)

(* From the left, a node gets nothing: neighbor[num_keys - 1] subtracts    *)
(* from the name of the field, which neither Lua nor VM::execute can do,   *)
(* and the program ends (what it did to the tree until then is lost).      *)
RedistributeNodes(nodes, n, neighbor, index, k_prime) ==
  \/ /\ index = 0
     /\ node' = FromRight(nodes, n, neighbor, 1, k_prime)
     /\ call' = NoCall
  \/ /\ index # 0 /\ nodes[n].is_leaf
     /\ node' = FromLeft(nodes, n, neighbor, index)
     /\ call' = NoCall
  \/ /\ index # 0 /\ ~nodes[n].is_leaf
     /\ node' = nodes
     /\ call' = Stopped

(* index is the place of the neighbor to the left, 0 when there is none.   *)
FixNode(nodes, n) ==
  LET par == nodes[n].parent
      index == PlaceOf(nodes[par].descendants, n) - 1
      k_prime == nodes[par].keys[IF index = 0 THEN 1 ELSE index]
      neighbor == nodes[par].descendants[IF index = 0 THEN 2 ELSE index]
      left == IF index = 0 THEN n ELSE neighbor
      right == IF index = 0 THEN neighbor ELSE n
      entries == Len(nodes[n].keys) + Len(nodes[neighbor].keys)
  IN \/ /\ entries < Capacity(nodes[n].is_leaf)
        /\ node' = CoalesceNodes(nodes, left, right, k_prime)
        /\ call' = DeleteEntry(par, k_prime, right)
     \/ /\ entries >= Capacity(nodes[n].is_leaf)
        /\ RedistributeNodes(nodes, n, neighbor, index, k_prime)

CallDeleteEntry ==
  LET n == call.node
      nodes == RemoveEntryFromNode(n, call.key, call.descendant)
      enough == Len(nodes[n].keys) >= MinKeys(nodes[n].is_leaf)
  IN /\ call.fn = "delete_entry"
     /\ \/ /\ n = tree_root
           /\ AdjustRoot(nodes, n)
           /\ call' = NoCall
        \/ /\ n # tree_root /\ enough
           /\ node' = nodes /\ call' = NoCall
           /\ UNCHANGED tree_root
        \/ /\ n # tree_root /\ ~enough
           /\ FixNode(nodes, n)
           /\ UNCHANGED tree_root
     /\ UNCHANGED <<input, line, s_in, found>>

-----------------------------------------------------------------------------
(* The command loop.                                                       *)

Init ==
  /\ input \in Inputs
  /\ node = [n \in {} |-> NULL]
  /\ tree_root = NULL
  /\ call = NoCall
  /\ line = 1
  /\ s_in = NULL
  /\ found = NULL

Execute(c) ==
  \/ c.do = "i" /\ Insert(c.key, c.value) /\ found' = NULL
  \/ c.do = "d" /\ Delete(c.key) /\ found' = NULL
  \/ c.do = "d" /\ tree_root = NULL /\ UNCHANGED treeVars /\ found' = NULL
  \/ c.do = "f" /\ found' = Find(c.key) /\ UNCHANGED treeVars

Command ==
  /\ call = NoCall
  /\ line <= Len(input.lines)
  /\ \E c \in input.lines[line] : Execute(c) /\ s_in' = c
  /\ line' = IF input.stdin_reading THEN line ELSE line + 1
  /\ UNCHANGED input

Next == Command \/ CallInsertIntoParent \/ CallDeleteEntry

Spec == Init /\ [][Next]_vars

-----------------------------------------------------------------------------
(* What makes the tree correct.                                            *)

AtRest == call.fn = "none"

Inner == {n \in DOMAIN node : ~node[n].is_leaf}

(* The leaves below a node, from left to right.                            *)
LeavesBelow ==
  LET Below[n \in DOMAIN node] ==
        IF node[n].is_leaf THEN <<n>>
        ELSE FlattenSeq([i \in DOMAIN node[n].descendants |->
                           Below[node[n].descendants[i]]])
  IN Below

(* The leaves as next_leaf chains them, from the leftmost one.             *)
Chain ==
  LET First[n \in DOMAIN node] ==
        IF node[n].is_leaf THEN n ELSE First[node[n].descendants[1]]
      From[n \in DOMAIN node] ==
        IF node[n].next_leaf = NULL THEN <<n>> ELSE <<n>> \o From[node[n].next_leaf]
  IN IF tree_root = NULL THEN <<>> ELSE From[First[tree_root]]

Leaves == {n \in DOMAIN node : node[n].is_leaf}

(* What the leaves hold: key |-> value.                                    *)
Records ==
  [k \in UNION {ToSet(node[n].keys) : n \in Leaves} |->
     LET leaf == node[CHOOSE n \in Leaves : k \in ToSet(node[n].keys)]
     IN leaf.descendants[PlaceOf(leaf.keys, k)]]

(* The records once the command being executed is done: a leaf that is     *)
(* still to lose a record has lost it.                                     *)
Stored ==
  IF call.fn = "delete_entry" /\ node[call.node].is_leaf
  THEN Restrict(Records, DOMAIN Records \ {call.key})
  ELSE Records

Abstract ==
  INSTANCE KeyValueMap WITH store <- Stored, command <- s_in, NoValue <- NULL

-----------------------------------------------------------------------------
(* "Traces the path from the root to a leaf, searching by key. [...]       *)
(* Returns the leaf containing the given key" (find_leaf): whatever splits *)
(* and joins came before, every key between those of a node leads to the   *)
(* one leaf that holds its record.                                         *)
EveryKeyIsFound ==
  AtRest /\ tree_root # NULL =>
    \A n \in Leaves, k \in Keys : k \in ToSet(node[n].keys) => FindLeaf(k) = n

(* A walk along the leaves (print_leaves, find_range) meets all of them,   *)
(* in the order of the tree, and their keys in ascending order.            *)
LeavesAreChained ==
  AtRest /\ tree_root # NULL =>
    /\ Chain = LeavesBelow[tree_root] /\ ToSet(Chain) = Leaves
    /\ LET keys == FlattenSeq([i \in DOMAIN Chain |-> node[Chain[i]].keys])
       IN \A i \in 1 .. Len(keys) - 1 : keys[i] < keys[i + 1]

(* Every node points at the node that has it as descendant ("child[parent] *)
(* = new_node" after a split, "All children must now point up to the same  *)
(* parent" after a join): what path_to_root asserts, and what the next     *)
(* insert_into_parent and delete_entry rely on.                            *)
ParentsAgree ==
  AtRest /\ tree_root # NULL =>
    /\ node[tree_root].parent = NULL
    /\ \A n \in Inner, i \in 1 .. order :
         i \in DOMAIN node[n].descendants => node[node[n].descendants[i]].parent = n

(* "max order: order - 1, min order: ~order/2": no node but the root has   *)
(* too few keys, none too many, and all leaves are equally deep.           *)
Balanced ==
  LET Height[n \in DOMAIN node] ==
        IF node[n].is_leaf THEN 0 ELSE 1 + Height[node[n].descendants[1]]
  IN AtRest /\ tree_root # NULL =>
       \A n \in DOMAIN node :
         /\ Len(node[n].keys) <= order - 1
         /\ n \in Leaves \ {tree_root} => 2 * Len(node[n].keys) >= order - 1
         /\ n \in Inner \ {tree_root} => 2 * Len(node[n].descendants) >= order
         /\ n \in Inner => \A d \in ToSet(node[n].descendants) :
                             Height[d] = Height[n] - 1
         /\ node[n].keys # <<>>

(* The store is a map: what a command does to the records, and what it     *)
(* finds, is what its key and value ask for, and the calls that follow it, *)
(* splits, joins and redistributions, neither add to it nor take it back.  *)
MapSpec == Abstract!Spec

(* "Removes the record and its key and pointer from the leaf"              *)
(* (key_value_storage.lua:811): no other key loses or changes its record.  *)
OtherRecordsKept ==
  [][call.fn = "delete_entry" =>
       \A k \in DOMAIN Records \ {call.key} :
         k \in DOMAIN Records' /\ Records'[k] = Records[k]]_vars

(* "and then makes all appropriate changes to preserve the B+ tree         *)
(* properties" (key_value_storage.lua:811): no deletion ends the program.  *)
NothingStops == call # Stopped
=============================================================================
