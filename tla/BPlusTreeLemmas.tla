-------------------------- MODULE BPlusTreeLemmas --------------------------
(***************************************************************************)
(* What a B+ tree is (IsNode, Content, Listed, Chained, WholeTree): the    *)
(* heights of its nodes and the ranges of keys that lead to them are two   *)
(* functions, height and range, that the program does not keep.  The       *)
(* lemmas of the first part say which changes leave a tree a tree: a leaf  *)
(* or a node cut in two, a node that learns of its new sibling, a new      *)
(* root, a root given up, neighbors joined.  Those of the second say what  *)
(* the searches of the code find in a tree, and what its insertions and    *)
(* removals make of one; those of the third, what a walk along its leaves  *)
(* meets.                                                                  *)
(***************************************************************************)
EXTENDS BPlusTree, FiniteSetTheorems, WellFoundedInduction, TLAPS

(* One element more, one less.                                             *)
LEMMA ConcatProps ==
  ASSUME NEW S, NEW a \in Seq(S), NEW b \in Seq(S)
  PROVE  /\ a \o b \in Seq(S)
         /\ Len(a \o b) = Len(a) + Len(b)
         /\ \A j \in 1 .. Len(a) + Len(b) :
              (a \o b)[j] = IF j <= Len(a) THEN a[j] ELSE b[j - Len(a)]
  OBVIOUS

LEMMA InsertAtProps ==
  ASSUME NEW S, NEW s \in Seq(S), NEW e \in S, NEW i \in 1 .. Len(s) + 1
  PROVE  LET t == InsertAt(s, i, e)
         IN /\ t \in Seq(S) /\ Len(t) = Len(s) + 1
            /\ \A j \in 1 .. Len(s) + 1 :
                 t[j] = IF j < i THEN s[j] ELSE IF j = i THEN e ELSE s[j - 1]
<1> DEFINE a == SubSeq(s, 1, i - 1)
           b == SubSeq(s, i, Len(s))
<1>1. Len(s) \in Nat /\ i \in Nat
  OBVIOUS
<1>2. /\ a \in Seq(S) /\ Len(a) = i - 1 /\ \A j \in 1 .. i - 1 : a[j] = s[j]
  BY <1>1
<1>3. /\ b \in Seq(S) /\ Len(b) = Len(s) - i + 1
      /\ \A j \in 1 .. Len(s) - i + 1 : b[j] = s[i + j - 1]
  BY <1>1
<1> HIDE DEF a, b
<1> DEFINE c == a \o <<e>>
<1>4. /\ c \in Seq(S) /\ Len(c) = i
      /\ \A j \in 1 .. i - 1 : c[j] = s[j]
      /\ c[i] = e
  BY <1>1, <1>2
<1> HIDE DEF c
<1>5. /\ c \o b \in Seq(S) /\ Len(c \o b) = Len(s) + 1
      /\ \A j \in 1 .. Len(s) + 1 : (c \o b)[j] = IF j <= i THEN c[j] ELSE b[j - i]
  BY <1>1, <1>3, <1>4, ConcatProps
<1>6. InsertAt(s, i, e) = c \o b
  BY DEF InsertAt, a, b, c
<1> QED
  BY <1>1, <1>3, <1>4, <1>5, <1>6

LEMMA RemoveAtProps ==
  ASSUME NEW S, NEW s \in Seq(S), NEW i \in 1 .. Len(s)
  PROVE  LET t == RemoveAt(s, i)
         IN /\ t \in Seq(S) /\ Len(t) = Len(s) - 1
            /\ \A j \in 1 .. Len(s) - 1 : t[j] = IF j < i THEN s[j] ELSE s[j + 1]
<1> DEFINE a == SubSeq(s, 1, i - 1)
           b == SubSeq(s, i + 1, Len(s))
           c == a \o b
<1>1. Len(s) \in Nat /\ i \in Nat
  OBVIOUS
<1>2. /\ a \in Seq(S) /\ Len(a) = i - 1 /\ \A j \in 1 .. i - 1 : a[j] = s[j]
  BY <1>1
<1>3. /\ b \in Seq(S) /\ Len(b) = Len(s) - i
      /\ \A j \in 1 .. Len(s) - i : b[j] = s[i + j]
  BY <1>1
<1> HIDE DEF a, b
<1>4. /\ c \in Seq(S) /\ Len(c) = Len(a) + Len(b)
      /\ \A j \in 1 .. Len(a) + Len(b) :
           c[j] = IF j <= Len(a) THEN a[j] ELSE b[j - Len(a)]
  <2> a \in Seq(S) /\ b \in Seq(S)
    BY <1>2, <1>3
  <2> QED
    BY ConcatProps
<1>5. Len(c) = Len(s) - 1 /\ Len(a) + Len(b) = Len(s) - 1
  BY <1>1, <1>2, <1>3, <1>4
<1>6. RemoveAt(s, i) = c
  BY DEF RemoveAt, a, b
<1> HIDE DEF c
<1>7. ASSUME NEW j \in 1 .. Len(s) - 1
      PROVE  c[j] = IF j < i THEN s[j] ELSE s[j + 1]
  <2>1. CASE j < i
    BY <1>1, <1>2, <1>4, <1>5, <2>1
  <2>2. CASE j >= i
    <3> DEFINE q == j - Len(a)
    <3>1. q \in 1 .. Len(s) - i /\ i + q = j + 1 /\ ~(j <= Len(a))
      BY <1>1, <1>2, <2>2
    <3>2. c[j] = b[q]
      BY <1>1, <1>4, <1>5, <3>1
    <3> HIDE DEF q
    <3>3. b[q] = s[i + q]
      BY <1>3, <3>1
    <3>4. ~(j < i)
      BY <1>1, <2>2
    <3> QED
      BY <3>1, <3>2, <3>3, <3>4
  <2> QED
    BY <1>1, <2>1, <2>2
<1> QED
  BY <1>4, <1>5, <1>6, <1>7

LEMMA LeastNatural ==
  ASSUME NEW S, S \subseteq Nat, S # {}
  PROVE  Min(S) \in S /\ \A m \in S : Min(S) <= m
<1> DEFINE Less == OpToRel(<, Nat)
<1>1. IsWellFoundedOn(Less, Nat)
  BY NatLessThanWellFounded
<1>2. PICK n \in S : \A m \in S : ~(<<m, n>> \in Less)
  BY <1>1, WFMin
<1>3. \A m \in S : ~(m < n)
  BY <1>2 DEF OpToRel
<1>4. \E l \in S : \A m \in S : l <= m
  BY <1>3
<1> QED
  BY <1>4 DEF Min

LEMMA PlaceOfProps ==
  ASSUME NEW S, NEW s \in Seq(S), NEW e
  PROVE  /\ PlaceOf(s, e) \in 1 .. Len(s) + 1
         /\ \A j \in 1 .. Len(s) : j < PlaceOf(s, e) => s[j] # e
         /\ PlaceOf(s, e) <= Len(s) => s[PlaceOf(s, e)] = e
<1> DEFINE I == {i \in 1 .. Len(s) : s[i] = e}
<1>1. PlaceOf(s, e) = LET i == IF I # {} THEN Min(I) ELSE 0
                      IN IF i = 0 THEN Len(s) + 1 ELSE i
  BY DEF PlaceOf, FirstPlace, SelectInSeq
<1>2. I \subseteq Nat /\ I \subseteq 1 .. Len(s) /\ Len(s) \in Nat
  OBVIOUS
<1>3. I # {} => Min(I) \in I /\ \A m \in I : Min(I) <= m
  <2> HIDE DEF I
  <2> QED
    BY <1>2, LeastNatural
<1>4. CASE I = {}
  BY <1>1, <1>2, <1>4
<1>5. CASE I # {}
  <2>1. Min(I) \in I /\ Min(I) \in 1 .. Len(s) /\ Min(I) # 0
    BY <1>2, <1>3, <1>5
  <2>2. \A j \in 1 .. Len(s) : j < Min(I) => j \notin I
    BY <1>2, <1>3, <1>5, <2>1
  <2> QED
    BY <1>1, <1>2, <1>5, <2>1, <2>2
<1> QED
  BY <1>4, <1>5

LEMMA InsertionPointProps ==
  ASSUME NEW s \in Seq(Int), NEW e \in Int
  PROVE  /\ InsertionPoint(s, e) \in 1 .. Len(s) + 1
         /\ \A j \in 1 .. Len(s) : j < InsertionPoint(s, e) => s[j] < e
         /\ InsertionPoint(s, e) <= Len(s) => e <= s[InsertionPoint(s, e)]
<1> DEFINE I == {i \in 1 .. Len(s) : ~(s[i] < e)}
<1>1. InsertionPoint(s, e) = LET i == IF I # {} THEN Min(I) ELSE 0
                             IN IF i = 0 THEN Len(s) + 1 ELSE i
  BY DEF InsertionPoint, FirstPlace, SelectInSeq
<1>2. I \subseteq Nat /\ I \subseteq 1 .. Len(s) /\ Len(s) \in Nat
  OBVIOUS
<1>3. I # {} => Min(I) \in I /\ \A m \in I : Min(I) <= m
  <2> HIDE DEF I
  <2> QED
    BY <1>2, LeastNatural
<1>4. \A j \in 1 .. Len(s) : s[j] \in Int
  OBVIOUS
<1>5. CASE I = {}
  BY <1>1, <1>2, <1>4, <1>5
<1>6. CASE I # {}
  <2>1. Min(I) \in I /\ Min(I) \in 1 .. Len(s) /\ Min(I) # 0
    BY <1>2, <1>3, <1>6
  <2>2. \A j \in 1 .. Len(s) : j < Min(I) => j \notin I
    BY <1>2, <1>3, <1>6, <2>1
  <2> QED
    BY <1>1, <1>2, <1>4, <1>6, <2>1, <2>2
<1> QED
  BY <1>5, <1>6

LEMMA BranchProps ==
  ASSUME NEW s \in Seq(Int), NEW e \in Int
  PROVE  /\ Branch(s, e) \in 1 .. Len(s) + 1
         /\ \A j \in 1 .. Len(s) : j < Branch(s, e) => s[j] <= e
         /\ Branch(s, e) <= Len(s) => e < s[Branch(s, e)]
<1> DEFINE I == {i \in 1 .. Len(s) : e < s[i]}
<1>1. Branch(s, e) = LET i == IF I # {} THEN Min(I) ELSE 0
                     IN IF i = 0 THEN Len(s) + 1 ELSE i
  BY DEF Branch, FirstPlace, SelectInSeq
<1>2. I \subseteq Nat /\ I \subseteq 1 .. Len(s) /\ Len(s) \in Nat
  OBVIOUS
<1>3. I # {} => Min(I) \in I /\ \A m \in I : Min(I) <= m
  <2> HIDE DEF I
  <2> QED
    BY <1>2, LeastNatural
<1>4. \A j \in 1 .. Len(s) : s[j] \in Int
  OBVIOUS
<1>5. CASE I = {}
  BY <1>1, <1>2, <1>4, <1>5
<1>6. CASE I # {}
  <2>1. Min(I) \in I /\ Min(I) \in 1 .. Len(s) /\ Min(I) # 0
    BY <1>2, <1>3, <1>6
  <2>2. \A j \in 1 .. Len(s) : j < Min(I) => j \notin I
    BY <1>2, <1>3, <1>6, <2>1, SMTT(30)
  <2> QED
    BY <1>1, <1>2, <1>4, <1>6, <2>1, <2>2, SMTT(30)
<1> QED
  BY <1>5, <1>6

LEMMA RemoveFirstProps ==
  ASSUME NEW S, NEW s \in Seq(S), NEW i \in 1 .. Len(s),
         \A j \in 1 .. Len(s) : j < i => s[j] # s[i]
  PROVE  RemoveFirst(s, s[i]) = RemoveAt(s, i)
<1> DEFINE I == {j \in 1 .. Len(s) : s[j] = s[i]}
<1>1. i \in I /\ I \subseteq Nat /\ I # {}
  OBVIOUS
<1>2. Min(I) \in I /\ \A m \in I : Min(I) <= m
  <2> HIDE DEF I
  <2> QED
    BY <1>1, LeastNatural
<1>3. Min(I) = i
  BY <1>1, <1>2
<1>4. SelectInSeq(s, LAMBDA v : v = s[i]) = i
  BY <1>1, <1>3 DEF SelectInSeq
<1> QED
  BY <1>4 DEF RemoveFirst

-----------------------------------------------------------------------------
(* The tree.  Two functions say of a node what the code does not store:    *)
(* height, how far above the leaves it is, and range, the keys that are to *)
(* be looked for there.                                                    *)

NodeFields == {"is_leaf", "keys", "descendants", "next_leaf", "parent"}

Ascending(keys) ==
  \A i, j \in 1 .. Len(keys) : i < j => keys[i] < keys[j]

IsNode(t) ==
  /\ DOMAIN t = NodeFields
  /\ t.is_leaf \in BOOLEAN
  /\ t.keys \in Seq(Int) /\ Ascending(t.keys)
  /\ t.is_leaf => t.descendants \in Seq(Values) /\ Len(t.descendants) = Len(t.keys)
  /\ ~t.is_leaf => t.descendants \in Seq(Nat) /\ Len(t.descendants) = Len(t.keys) + 1

(* Which keys of a range lead to the i-th descendant.                      *)
Slice(keys, range, i) ==
  {k \in range : /\ i > 1 => keys[i - 1] <= k
                 /\ i <= Len(keys) => k < keys[i]}

(* p and its i-th descendant agree.  What p means to lead there is         *)
(* cover[d], of which d answers for range[d].                              *)
Link(T, height, range, cover, p, i) ==
  LET d == T[p].descendants[i]
  IN /\ d \in DOMAIN T
     /\ T[d].parent = p
     /\ height[p] = height[d] + 1
     /\ cover[d] = Slice(T[p].keys, range[p], i)

Content(T, height, range, cover, m) ==
  /\ IsNode(T[m])
  /\ range[m] # {} /\ range[m] \subseteq cover[m]
  /\ \A i \in 1 .. Len(T[m].keys) : T[m].keys[i] \in range[m]
  /\ T[m].is_leaf => height[m] = 0
  /\ ~T[m].is_leaf =>
       \A i \in 1 .. Len(T[m].keys) + 1 : Link(T, height, range, cover, m, i)

(* m is a descendant of its parent.                                        *)
Listed(T, m) ==
  LET p == T[m].parent
  IN /\ p \in DOMAIN T /\ ~T[p].is_leaf
     /\ \E i \in 1 .. Len(T[p].keys) + 1 : T[p].descendants[i] = m

Tree(T, root, height, range, cover, loose) ==
  /\ IsFiniteSet(DOMAIN T) /\ DOMAIN T \subseteq Nat
  /\ height \in [Nat -> Nat]
  /\ range \in [Nat -> SUBSET Int] /\ cover \in [Nat -> SUBSET Int]
  /\ root \in DOMAIN T \ loose /\ T[root].parent = NULL /\ cover[root] = Int
  /\ \A m \in DOMAIN T : height[m] <= height[root] /\ Content(T, height, range, cover, m)
  /\ \A m \in DOMAIN T \ (loose \cup {root}) : Listed(T, m)

(* The leaves are chained as their ranges follow each other: the key after *)
(* one that a leaf answers for is its own or that of its next leaf.        *)
LeadsOn(T, range, n, k) ==
  LET m == T[n].next_leaf
  IN m \in DOMAIN T /\ T[m].is_leaf /\ k + 1 \in range[m]

Chained(T, range) ==
  \A n \in DOMAIN T :
    /\ T[n].is_leaf =>
         /\ \A k \in range[n] : k + 1 \in range[n] \/ LeadsOn(T, range, n, k)
         /\ T[n].next_leaf # NULL => \E k \in range[n] : k + 1 \notin range[n]
    /\ ~T[n].is_leaf => T[n].next_leaf = NULL

WholeTree(T, root, height, range) ==
  Tree(T, root, height, range, range, {}) /\ Chained(T, range)

(* left has been split at key, right is not yet in its parent.             *)
BothRanges(range, left, right) ==
  [range EXCEPT ![left] = range[left] \cup range[right]]

SplitTree(T, root, height, range, left, key, right) ==
  /\ Tree(T, root, height, range,
          BothRanges(range, left, right), {right})
  /\ Chained(T, range)
  /\ left \in DOMAIN T /\ right \in DOMAIN T /\ left # right
  /\ height[left] = height[right] /\ T[right].parent = T[left].parent
  /\ key \in range[right]
  /\ \A k \in range[left] : k < key
  /\ \A k \in range[right] : key <= k

-----------------------------------------------------------------------------
(* What a step leaves alone.                                               *)

SameNode(T, U, m) ==
  /\ DOMAIN U[m] = NodeFields
  /\ U[m].is_leaf = T[m].is_leaf /\ U[m].keys = T[m].keys
  /\ U[m].descendants = T[m].descendants /\ U[m].next_leaf = T[m].next_leaf

SameBelow(T, U, height, newHeight, cover, newCover, m) ==
  \A d \in DOMAIN T :
    T[d].parent = m =>
      /\ d \in DOMAIN U /\ U[d].parent = m
      /\ newHeight[d] = height[d] /\ newCover[d] = cover[d]

LEMMA SameContent ==
  ASSUME NEW T, NEW U, NEW height, NEW newHeight, NEW range, NEW newRange,
         NEW cover, NEW newCover, NEW m,
         Content(T, height, range, cover, m), SameNode(T, U, m),
         ~T[m].is_leaf => SameBelow(T, U, height, newHeight, cover, newCover, m),
         newHeight[m] = height[m], newRange[m] = range[m],
         newRange[m] \subseteq newCover[m]
  PROVE  Content(U, newHeight, newRange, newCover, m)
<1>1. IsNode(U[m])
  BY DEF Content, SameNode, IsNode
<1>2. ASSUME ~U[m].is_leaf, NEW i \in 1 .. Len(U[m].keys) + 1
      PROVE  Link(U, newHeight, newRange, newCover, m, i)
  <2> DEFINE d == T[m].descendants[i]
  <2>1. ~T[m].is_leaf /\ i \in 1 .. Len(T[m].keys) + 1
    BY <1>2 DEF SameNode
  <2>2. /\ d \in DOMAIN T /\ T[d].parent = m
        /\ height[m] = height[d] + 1 /\ cover[d] = Slice(T[m].keys, range[m], i)
    BY <2>1 DEF Content, Link
  <2>3. /\ d \in DOMAIN U /\ U[d].parent = m
        /\ newHeight[d] = height[d] /\ newCover[d] = cover[d]
    BY <2>1, <2>2 DEF SameBelow
  <2>4. U[m].descendants[i] = d /\ U[m].keys = T[m].keys
    BY DEF SameNode
  <2> HIDE DEF d
  <2> QED
    BY <2>2, <2>3, <2>4 DEF Link
<1> QED
  BY <1>1, <1>2 DEF Content, SameNode

LEMMA SameListed ==
  ASSUME NEW T, NEW U, NEW m, Listed(T, m), U[m].parent = T[m].parent,
         T[m].parent \in DOMAIN U,
         SameNode(T, U, T[m].parent)
  PROVE  Listed(U, m)
BY DEF Listed, SameNode

LEMMA Ordered ==
  ASSUME NEW s \in Seq(Int), Ascending(s),
         NEW i \in 1 .. Len(s), NEW j \in 1 .. Len(s), i <= j
  PROVE  s[i] \in Int /\ s[j] \in Int /\ s[i] <= s[j] /\ (i < j => s[i] < s[j])
<1>1. s[i] \in Int /\ s[j] \in Int
  OBVIOUS
<1>2. CASE i = j
  BY <1>1, <1>2
<1>3. CASE i < j
  <2>1. s[i] < s[j]
    BY <1>3 DEF Ascending
  <2> QED
    BY <1>1, <2>1
<1> QED
  BY <1>2, <1>3

(* A key leads to one descendant only.                                     *)
LEMMA SlicesDiffer ==
  ASSUME NEW keys \in Seq(Int), Ascending(keys), NEW S \in SUBSET Int, NEW k,
         NEW i \in 1 .. Len(keys) + 1, NEW j \in 1 .. Len(keys) + 1,
         k \in Slice(keys, S, i), k \in Slice(keys, S, j)
  PROVE  i = j
<1>1. k \in Int /\ Len(keys) \in Nat
  BY DEF Slice
<1>2. ASSUME NEW a \in 1 .. Len(keys) + 1, NEW b \in 1 .. Len(keys) + 1, a < b,
             k \in Slice(keys, S, a), k \in Slice(keys, S, b)
      PROVE  FALSE
  <2> DEFINE c == b - 1
  <2>1. a \in 1 .. Len(keys) /\ c \in 1 .. Len(keys) /\ a <= c
    BY <1>1, <1>2
  <2>2. k < keys[a] /\ keys[c] <= k
    BY <1>1, <1>2, <2>1 DEF Slice
  <2> HIDE DEF c
  <2>3. keys[a] \in Int /\ keys[c] \in Int /\ keys[a] <= keys[c]
    BY <2>1, Ordered
  <2> QED
    BY <1>1, <2>2, <2>3
<1> QED
  BY <1>1, <1>2

(* A node's descendants all differ.                                        *)
LEMMA DescendantsDiffer ==
  ASSUME NEW T, NEW root, NEW height, NEW range, NEW cover, NEW loose,
         Tree(T, root, height, range, cover, loose),
         NEW p \in DOMAIN T, ~T[p].is_leaf,
         NEW i \in 1 .. Len(T[p].keys) + 1, NEW j \in 1 .. Len(T[p].keys) + 1,
         T[p].descendants[i] = T[p].descendants[j]
  PROVE  i = j
<1> DEFINE d == T[p].descendants[i]
           keys == T[p].keys
<1>1. Link(T, height, range, cover, p, i) /\ Link(T, height, range, cover, p, j)
      /\ IsNode(T[p])
  BY DEF Tree, Content
<1>2. d \in DOMAIN T /\ cover[d] = Slice(keys, range[p], i) /\ cover[d] = Slice(keys, range[p], j)
  BY <1>1 DEF Link
<1>3. cover[d] # {}
  BY <1>2 DEF Tree, Content
<1>4. PICK k : k \in Slice(keys, range[p], i) /\ k \in Slice(keys, range[p], j)
  BY <1>2, <1>3
<1>5. range[p] \in SUBSET Int
  BY DEF Tree
<1>6. keys \in Seq(Int) /\ Ascending(keys)
  BY <1>1 DEF IsNode
<1> HIDE DEF keys
<1>7. i \in 1 .. Len(keys) + 1 /\ j \in 1 .. Len(keys) + 1
  BY DEF keys
<1> QED
  BY <1>4, <1>5, <1>6, <1>7, SlicesDiffer

LEMMA TreeFacts ==
  ASSUME NEW T, NEW root, NEW height, NEW range, NEW cover, NEW loose,
         Tree(T, root, height, range, cover, loose), NEW m \in DOMAIN T
  PROVE  /\ m \in Nat /\ height[m] \in Nat /\ height[m] <= height[root]
         /\ range[m] \subseteq Int /\ cover[m] \subseteq Int
         /\ range[m] # {} /\ range[m] \subseteq cover[m]
         /\ IsNode(T[m])
         /\ \A i \in 1 .. Len(T[m].keys) : T[m].keys[i] \in range[m]
         /\ T[m].is_leaf <=> height[m] = 0
         /\ ~T[m].is_leaf =>
              \A i \in 1 .. Len(T[m].keys) + 1 : Link(T, height, range, cover, m, i)
         /\ m \notin loose /\ m # root => Listed(T, m)
         /\ m # root /\ m \notin loose =>
              T[m].parent # m /\ height[T[m].parent] = height[m] + 1
<1>1. /\ m \in Nat /\ height[m] \in Nat /\ height[m] <= height[root]
      /\ range[m] \subseteq Int /\ cover[m] \subseteq Int
      /\ Content(T, height, range, cover, m)
      /\ m \notin loose /\ m # root => Listed(T, m)
  BY DEF Tree
<1>2. ASSUME ~T[m].is_leaf PROVE height[m] # 0
  <2> DEFINE d == T[m].descendants[1]
  <2>1. Len(T[m].keys) \in Nat
    BY <1>1 DEF Content, IsNode
  <2>2. Link(T, height, range, cover, m, 1)
    BY <1>1, <1>2, <2>1 DEF Content
  <2>3. height[m] = height[d] + 1 /\ d \in DOMAIN T
    BY <2>2 DEF Link
  <2>4. height[d] \in Nat
    BY <2>3 DEF Tree
  <2> QED
    BY <2>3, <2>4
<1>3. ASSUME m # root, m \notin loose
      PROVE  T[m].parent # m /\ height[T[m].parent] = height[m] + 1
  <2> DEFINE p == T[m].parent
  <2>1. PICK i \in 1 .. Len(T[p].keys) + 1 : T[p].descendants[i] = m
    BY <1>1, <1>3 DEF Listed
  <2>2. p \in DOMAIN T /\ ~T[p].is_leaf
    BY <1>1, <1>3 DEF Listed
  <2>3. Link(T, height, range, cover, p, i)
    BY <2>1, <2>2 DEF Tree, Content
  <2> QED
    BY <1>1, <2>1, <2>3 DEF Link
<1> QED
  BY <1>1, <1>2, <1>3 DEF Content

-----------------------------------------------------------------------------
(* Climbing down from the root.                                            *)
LEMMA CountingUp ==
  ASSUME NEW N \in Nat, NEW S, 0 \in S, \A k \in 0 .. N - 1 : k \in S => k + 1 \in S
  PROVE  0 .. N \subseteq S
<1> DEFINE T == {k \in 0 .. N : k \notin S}
<1>1. SUFFICES ASSUME T # {}
               PROVE  FALSE
  OBVIOUS
<1>2. PICK k \in T : \A m \in T : k <= m
  <2>1. T \subseteq Nat
    OBVIOUS
  <2> HIDE DEF T
  <2> QED
    BY <1>1, <2>1, LeastNatural
<1>3. k # 0 /\ k - 1 \in 0 .. N - 1
  OBVIOUS
<1>4. k - 1 \in S
  BY <1>2, <1>3
<1> QED
  BY <1>3, <1>4

LEMMA HeightFacts ==
  ASSUME NEW T, NEW root, NEW height, NEW range, WholeTree(T, root, height, range)
  PROVE  /\ root \in DOMAIN T /\ height[root] \in Nat
         /\ \A n \in DOMAIN T : /\ n \in Nat /\ height[n] \in Nat
                                /\ height[n] <= height[root]
                                /\ T[n].is_leaf <=> height[n] = 0
<1>1. root \in DOMAIN T
  BY DEF WholeTree, Tree
<1>2. ASSUME NEW n \in DOMAIN T
      PROVE  /\ n \in Nat /\ height[n] \in Nat /\ height[n] <= height[root]
             /\ T[n].is_leaf <=> height[n] = 0
  <2>1. Tree(T, root, height, range, range, {})
    BY DEF WholeTree
  <2> QED
    BY <2>1, TreeFacts
<1> QED
  BY <1>1, <1>2

(* Nodes of one height answer for different keys.                          *)
LEMMA OneNodePerKey ==
  ASSUME NEW T, NEW root, NEW height, NEW range, WholeTree(T, root, height, range),
         NEW key \in Int, NEW m \in DOMAIN T, NEW n \in DOMAIN T,
         height[m] = height[n], key \in range[m], key \in range[n]
  PROVE  m = n
<1> DEFINE H == height[root]
           S == {g \in 0 .. H : \A a, b \in DOMAIN T :
                   /\ height[a] = H - g /\ height[b] = H - g
                   /\ key \in range[a] /\ key \in range[b]
                   => a = b}
<1>1. H \in Nat /\ \A a \in DOMAIN T : height[a] \in Nat /\ height[a] <= H
      /\ (T[a].is_leaf <=> height[a] = 0)
  BY HeightFacts
<1>2. ASSUME NEW a \in DOMAIN T, a # root, key \in range[a]
      PROVE  \E p \in DOMAIN T : \E i \in 1 .. Len(T[p].keys) + 1 :
               /\ ~T[p].is_leaf /\ T[p].descendants[i] = a
               /\ height[p] = height[a] + 1 /\ key \in range[p]
               /\ key \in Slice(T[p].keys, range[p], i)
  <2> DEFINE p == T[a].parent
  <2>1. Tree(T, root, height, range, range, {})
    BY DEF WholeTree
  <2>2. Listed(T, a)
    BY <1>2, <2>1, TreeFacts
  <2>3. p \in DOMAIN T /\ ~T[p].is_leaf
    BY <2>2 DEF Listed
  <2>4. PICK i \in 1 .. Len(T[p].keys) + 1 : T[p].descendants[i] = a
    BY <2>2 DEF Listed
  <2> HIDE DEF p
  <2>5. Link(T, height, range, range, p, i)
    BY <2>1, <2>3, TreeFacts
  <2>6. height[p] = height[a] + 1 /\ range[a] = Slice(T[p].keys, range[p], i)
    BY <2>4, <2>5 DEF Link
  <2>7. key \in range[p]
    BY <1>2, <2>6 DEF Slice
  <2> QED
    BY <1>2, <2>3, <2>4, <2>6, <2>7
<1> HIDE DEF H
<1>3. 0 \in S
  <2>1. ASSUME NEW a \in DOMAIN T, height[a] = H - 0, key \in range[a] PROVE a = root
    BY <1>1, <1>2, <2>1
  <2> QED
    BY <1>1, <2>1
<1>4. ASSUME NEW g \in 0 .. H - 1, g \in S PROVE g + 1 \in S
  <2> DEFINE q == g + 1
  <2>1. g \in Nat /\ q \in 0 .. H /\ q = g + 1 /\ q \in Nat
    BY <1>1
  <2> HIDE DEF q
  <2>2. ASSUME NEW a \in DOMAIN T, NEW b \in DOMAIN T,
               height[a] = H - q, height[b] = H - q, key \in range[a], key \in range[b]
        PROVE  a = b
    <3>1. a # root /\ b # root
      BY <1>1, <2>1, <2>2 DEF H
    <3>2. PICK p \in DOMAIN T : \E i \in 1 .. Len(T[p].keys) + 1 :
               /\ ~T[p].is_leaf /\ T[p].descendants[i] = a
               /\ height[p] = height[a] + 1 /\ key \in range[p]
               /\ key \in Slice(T[p].keys, range[p], i)
      BY <1>2, <2>2, <3>1
    <3>3. PICK r \in DOMAIN T : \E i \in 1 .. Len(T[r].keys) + 1 :
               /\ ~T[r].is_leaf /\ T[r].descendants[i] = b
               /\ height[r] = height[b] + 1 /\ key \in range[r]
               /\ key \in Slice(T[r].keys, range[r], i)
      BY <1>2, <2>2, <3>1
    <3>4. height[p] = H - g /\ height[r] = H - g
      BY <1>1, <2>1, <2>2, <3>2, <3>3
    <3>5. p = r
      BY <1>4, <3>2, <3>3, <3>4
    <3>6. PICK i \in 1 .. Len(T[p].keys) + 1 :
            T[p].descendants[i] = a /\ key \in Slice(T[p].keys, range[p], i)
      BY <3>2
    <3>7. PICK j \in 1 .. Len(T[p].keys) + 1 :
            T[p].descendants[j] = b /\ key \in Slice(T[p].keys, range[p], j)
      BY <3>3, <3>5
    <3> DEFINE keys == T[p].keys
    <3>8. keys \in Seq(Int) /\ Ascending(keys) /\ range[p] \in SUBSET Int
      BY TreeFacts DEF WholeTree, IsNode
    <3>9. i = j
      <4> HIDE DEF keys
      <4>1. i \in 1 .. Len(keys) + 1 /\ j \in 1 .. Len(keys) + 1
            /\ key \in Slice(keys, range[p], i) /\ key \in Slice(keys, range[p], j)
        BY <3>6, <3>7 DEF keys
      <4> QED
        BY <3>8, <4>1, SlicesDiffer
    <3> QED
      BY <3>6, <3>7, <3>9
  <2> QED
    BY <2>1, <2>2
<1>5. 0 .. H \subseteq S
  <2> HIDE DEF S
  <2> QED
    BY <1>1, <1>3, <1>4, CountingUp
<1> DEFINE e == H - height[m]
<1>6. e \in 0 .. H /\ height[m] = H - e
  BY <1>1
<1> HIDE DEF e
<1> QED
  BY <1>5, <1>6

(* A range has no gaps.                                                    *)
Convex(S) == \A a, b \in S : \A k \in Int : a <= k /\ k <= b => k \in S

LEMMA SliceConvex ==
  ASSUME NEW keys \in Seq(Int), NEW S \in SUBSET Int, Convex(S),
         NEW i \in 1 .. Len(keys) + 1
  PROVE  Convex(Slice(keys, S, i))
<1>1. SUFFICES ASSUME NEW a \in Slice(keys, S, i), NEW b \in Slice(keys, S, i),
                      NEW k \in Int, a <= k, k <= b
               PROVE  k \in Slice(keys, S, i)
  BY DEF Convex
<1>2. a \in S /\ b \in S /\ a \in Int /\ b \in Int
  BY DEF Slice
<1>3. k \in S
  BY <1>1, <1>2 DEF Convex
<1>4. ASSUME i > 1 PROVE keys[i - 1] <= k
  <2>1. i - 1 \in 1 .. Len(keys)
    BY <1>4
  <2>2. keys[i - 1] \in Int /\ keys[i - 1] <= a
    BY <1>4, <2>1 DEF Slice
  <2> QED
    BY <1>1, <1>2, <2>2
<1>5. ASSUME i <= Len(keys) PROVE k < keys[i]
  <2>1. i \in 1 .. Len(keys)
    BY <1>5
  <2>2. keys[i] \in Int /\ b < keys[i]
    BY <1>5, <2>1 DEF Slice
  <2> QED
    BY <1>1, <1>2, <2>2
<1> QED
  BY <1>3, <1>4, <1>5 DEF Slice

LEMMA RangesConvex ==
  ASSUME NEW T, NEW root, NEW height, NEW range, WholeTree(T, root, height, range),
         NEW n \in DOMAIN T
  PROVE  Convex(range[n])
<1> DEFINE H == height[root]
           S == {g \in 0 .. H : \A a \in DOMAIN T : height[a] = H - g => Convex(range[a])}
<1>1. H \in Nat /\ \A a \in DOMAIN T : height[a] \in Nat /\ height[a] <= H
  BY HeightFacts
<1>2. ASSUME NEW a \in DOMAIN T, a # root
      PROVE  \E p \in DOMAIN T : \E i \in 1 .. Len(T[p].keys) + 1 :
               /\ height[p] = height[a] + 1
               /\ range[a] = Slice(T[p].keys, range[p], i)
  <2> DEFINE p == T[a].parent
  <2>1. Tree(T, root, height, range, range, {})
    BY DEF WholeTree
  <2>2. Listed(T, a)
    BY <1>2, <2>1, TreeFacts
  <2>3. p \in DOMAIN T /\ ~T[p].is_leaf
    BY <2>2 DEF Listed
  <2>4. PICK i \in 1 .. Len(T[p].keys) + 1 : T[p].descendants[i] = a
    BY <2>2 DEF Listed
  <2> HIDE DEF p
  <2>5. Link(T, height, range, range, p, i)
    BY <2>1, <2>3, TreeFacts
  <2>6. height[p] = height[a] + 1 /\ range[a] = Slice(T[p].keys, range[p], i)
    BY <2>4, <2>5 DEF Link
  <2> QED
    BY <2>3, <2>6
<1> HIDE DEF H
<1>3. Convex(range[root])
  BY DEF WholeTree, Tree, Convex
<1>4. 0 \in S
  <2>1. ASSUME NEW a \in DOMAIN T, height[a] = H - 0 PROVE a = root
    <3>1. SUFFICES ASSUME a # root PROVE FALSE
      OBVIOUS
    <3>2. PICK p \in DOMAIN T : height[p] = height[a] + 1
      BY <1>2, <3>1
    <3> QED
      BY <1>1, <2>1, <3>2
  <2> QED
    BY <1>1, <1>3, <2>1
<1>5. ASSUME NEW g \in 0 .. H - 1, g \in S PROVE g + 1 \in S
  <2> DEFINE q == g + 1
  <2>1. g \in Nat /\ q \in 0 .. H /\ q = g + 1 /\ q \in Nat
    BY <1>1
  <2> HIDE DEF q
  <2>2. ASSUME NEW a \in DOMAIN T, height[a] = H - q
        PROVE  Convex(range[a])
    <3>1. CASE a = root
      BY <1>3, <3>1
    <3>2. CASE a # root
      <4>1. PICK p \in DOMAIN T : \E i \in 1 .. Len(T[p].keys) + 1 :
                   /\ height[p] = height[a] + 1
                   /\ range[a] = Slice(T[p].keys, range[p], i)
        BY <1>2, <3>2
      <4>2. PICK i \in 1 .. Len(T[p].keys) + 1 : range[a] = Slice(T[p].keys, range[p], i)
        BY <4>1
      <4>3. height[p] = H - g
        BY <1>1, <2>1, <2>2, <4>1
      <4>4. Convex(range[p])
        BY <1>5, <4>3
      <4>5. T[p].keys \in Seq(Int) /\ range[p] \in SUBSET Int
        BY TreeFacts DEF WholeTree, IsNode
      <4> QED
        BY <4>2, <4>4, <4>5, SliceConvex
    <3> QED
      BY <3>1, <3>2
  <2> QED
    BY <2>1, <2>2
<1>6. 0 .. H \subseteq S
  <2> HIDE DEF S
  <2> QED
    BY <1>1, <1>4, <1>5, CountingUp
<1> DEFINE e == H - height[n]
<1>7. e \in 0 .. H /\ height[n] = H - e
  BY <1>1
<1> HIDE DEF e
<1> QED
  BY <1>6, <1>7

(* The same leaves, chained as before.                                     *)
SameLeaves(T, U, range, newRange) ==
  /\ \A m \in DOMAIN T : T[m].is_leaf => m \in DOMAIN U /\ U[m].is_leaf
  /\ \A m \in DOMAIN U : ~U[m].is_leaf => U[m].next_leaf = NULL
  /\ \A m \in DOMAIN U : U[m].is_leaf =>
       /\ m \in DOMAIN T /\ T[m].is_leaf
       /\ U[m].next_leaf = T[m].next_leaf /\ newRange[m] = range[m]

LEMMA SameChain ==
  ASSUME NEW T, NEW range, Chained(T, range),
         NEW U, NEW newRange, SameLeaves(T, U, range, newRange)
  PROVE  Chained(U, newRange)
<1>1. ASSUME NEW n \in DOMAIN U, U[n].is_leaf
      PROVE  /\ \A k \in newRange[n] : k + 1 \in newRange[n] \/ LeadsOn(U, newRange, n, k)
             /\ U[n].next_leaf # NULL => \E k \in newRange[n] : k + 1 \notin newRange[n]
  <2>1. /\ n \in DOMAIN T /\ T[n].is_leaf
        /\ U[n].next_leaf = T[n].next_leaf /\ newRange[n] = range[n]
    BY <1>1 DEF SameLeaves
  <2>2. ASSUME NEW k \in newRange[n], k + 1 \notin newRange[n]
        PROVE  LeadsOn(U, newRange, n, k)
    <3> DEFINE m == T[n].next_leaf
    <3>1. m \in DOMAIN T /\ T[m].is_leaf /\ k + 1 \in range[m]
      BY <2>1, <2>2 DEF Chained, LeadsOn
    <3>2. m \in DOMAIN U /\ U[m].is_leaf /\ newRange[m] = range[m]
      BY <3>1 DEF SameLeaves
    <3> QED
      BY <2>1, <3>1, <3>2 DEF LeadsOn
  <2>3. T[n].next_leaf # NULL => \E k \in range[n] : k + 1 \notin range[n]
    BY <2>1 DEF Chained
  <2> QED
    BY <2>1, <2>2, <2>3
<1>2. \A n \in DOMAIN U : ~U[n].is_leaf => U[n].next_leaf = NULL
  BY DEF SameLeaves
<1> QED
  BY <1>1, <1>2 DEF Chained

-----------------------------------------------------------------------------
(* A leaf with other entries.                                              *)
LEMMA LeafChanged ==
  ASSUME NEW T, NEW root, NEW height, NEW range, NEW cover, NEW loose,
         Tree(T, root, height, range, cover, loose),
         NEW n \in DOMAIN T, T[n].is_leaf, NEW U,
         DOMAIN U = DOMAIN T, \A m \in DOMAIN T \ {n} : U[m] = T[m],
         IsNode(U[n]), U[n].is_leaf, U[n].parent = T[n].parent,
         \A i \in 1 .. Len(U[n].keys) : U[n].keys[i] \in range[n]
  PROVE  Tree(U, root, height, range, cover, loose)
<1>1. ASSUME NEW m \in DOMAIN T
      PROVE  /\ U[m].parent = T[m].parent
             /\ U[m].is_leaf = T[m].is_leaf
             /\ ~T[m].is_leaf => U[m] = T[m]
  <2>1. T[n].is_leaf \in BOOLEAN /\ U[n].is_leaf \in BOOLEAN
    BY DEF Tree, Content, IsNode
  <2>2. CASE m = n
    BY <2>1, <2>2
  <2>3. CASE m # n
    BY <2>3
  <2> QED
    BY <2>2, <2>3
<1>2. ASSUME NEW m \in DOMAIN T
      PROVE  Content(U, height, range, cover, m)
  <2>1. Content(T, height, range, cover, m)
    BY DEF Tree
  <2>2. CASE m = n
    BY <2>1, <2>2 DEF Content
  <2>3. CASE m # n
    BY <1>1, <2>1, <2>3 DEF Content, Link
  <2> QED
    BY <2>2, <2>3
<1>3. ASSUME NEW m \in DOMAIN T \ (loose \cup {root})
      PROVE  Listed(U, m)
  <2>1. Listed(T, m)
    BY DEF Tree
  <2> QED
    BY <1>1, <2>1 DEF Listed
<1> QED
  BY <1>1, <1>2, <1>3 DEF Tree

LEMMA LeafRewritten ==
  ASSUME NEW T, NEW root, NEW height, NEW range, WholeTree(T, root, height, range),
         NEW n \in DOMAIN T, T[n].is_leaf, NEW U,
         DOMAIN U = DOMAIN T, \A m \in DOMAIN T \ {n} : U[m] = T[m],
         IsNode(U[n]), U[n].is_leaf, U[n].parent = T[n].parent,
         U[n].next_leaf = T[n].next_leaf,
         \A i \in 1 .. Len(U[n].keys) : U[n].keys[i] \in range[n]
  PROVE  WholeTree(U, root, height, range)
<1>1. Tree(T, root, height, range, range, {}) /\ Chained(T, range)
  BY DEF WholeTree
<1>2. Tree(U, root, height, range, range, {})
  BY <1>1, LeafChanged
<1>3. SameLeaves(T, U, range, range)
  <2>1. \A m \in DOMAIN T : ~T[m].is_leaf => T[m].next_leaf = NULL
    BY <1>1 DEF Chained
  <2> QED
    BY <2>1 DEF SameLeaves
<1> QED
  BY <1>1, <1>2, <1>3, SameChain DEF WholeTree

(* The nodes around one that is split: n keeps some of its keys, N gets the *)
(* others and the descendants moved.                                       *)
HeightsAfterSplit(height, n, N) == [height EXCEPT ![N] = height[n]]

RangesAfterSplit(range, n, key, N) ==
  [range EXCEPT ![n] = {k \in range[n] : k < key}, ![N] = {k \in range[n] : key <= k}]

AroundSplit(T, root, U, n, N, moved) ==
  /\ DOMAIN U = DOMAIN T \cup {N}
  /\ \A m \in DOMAIN T \ {n} :
       SameNode(T, U, m) /\ U[m].parent = IF m \in moved THEN N ELSE T[m].parent
  /\ U[n].is_leaf = T[n].is_leaf
  /\ U[n].parent = T[n].parent /\ U[N].parent = T[n].parent
  /\ \A m \in moved : m \in DOMAIN T \ {root} /\ T[m].parent = n
  /\ \A m \in DOMAIN T \ {root} : T[m].parent = n => Listed(U, m)

LEMMA SplitGeneral ==
  ASSUME NEW T, NEW root, NEW height, NEW range, WholeTree(T, root, height, range),
         NEW n \in DOMAIN T, NEW N \in Nat \ DOMAIN T, NEW key \in range[n],
         NEW U, NEW moved, AroundSplit(T, root, U, n, N, moved),
         LET newHeight == HeightsAfterSplit(height, n, N)
             newRange == RangesAfterSplit(range, n, key, N)
             cover == BothRanges(newRange, n, N)
         IN /\ Content(U, newHeight, newRange, cover, n)
            /\ Content(U, newHeight, newRange, cover, N)
            /\ Chained(U, newRange)
  PROVE  SplitTree(U, root, HeightsAfterSplit(height, n, N),
                   RangesAfterSplit(range, n, key, N), n, key, N)
<1> DEFINE newHeight == HeightsAfterSplit(height, n, N)
           newRange == RangesAfterSplit(range, n, key, N)
           cover == BothRanges(newRange, n, N)
<1>1. /\ n # N /\ n \in Nat /\ N \in Nat
      /\ height \in [Nat -> Nat] /\ range \in [Nat -> SUBSET Int]
      /\ IsFiniteSet(DOMAIN T) /\ DOMAIN T \subseteq Nat
  BY DEF WholeTree, Tree
<1>2. /\ newHeight \in [Nat -> Nat]
      /\ \A m \in Nat : newHeight[m] = IF m = N THEN height[n] ELSE height[m]
  BY <1>1 DEF HeightsAfterSplit
<1>3. /\ newRange \in [Nat -> SUBSET Int]
      /\ newRange[n] = {k \in range[n] : k < key}
      /\ newRange[N] = {k \in range[n] : key <= k}
      /\ \A m \in Nat \ {n, N} : newRange[m] = range[m]
  BY <1>1 DEF RangesAfterSplit
<1> HIDE DEF newHeight, newRange
<1>4. newRange[n] \cup newRange[N] = range[n]
  <2> range[n] \subseteq Int
    BY <1>1
  <2> QED
    BY <1>3
<1>5. /\ cover \in [Nat -> SUBSET Int]
      /\ \A m \in Nat \ {N} : cover[m] = range[m]
  BY <1>1, <1>3, <1>4 DEF BothRanges
<1>6. Content(U, newHeight, newRange, cover, n) /\ Content(U, newHeight, newRange, cover, N)
  BY DEF newHeight, newRange
<1> HIDE DEF cover
<1>7. root \in DOMAIN T /\ T[root].parent = NULL /\ range[root] = Int
  BY DEF WholeTree, Tree
<1>8. ASSUME NEW m \in DOMAIN T
      PROVE  U[m].parent = IF m \in moved THEN N ELSE T[m].parent
  <2>1. n \notin moved
    BY TreeFacts DEF WholeTree, AroundSplit
  <2> QED
    BY <2>1 DEF AroundSplit
<1>9. ASSUME NEW m \in DOMAIN U
      PROVE  Content(U, newHeight, newRange, cover, m)
  <2>1. CASE m = n \/ m = N
    BY <1>6, <2>1
  <2>2. CASE m \notin {n, N}
    <3>1. m \in DOMAIN T /\ m \in Nat
      BY <1>1, <2>2 DEF AroundSplit
    <3>2. Content(T, height, range, range, m)
      BY <3>1 DEF WholeTree, Tree
    <3>3. newHeight[m] = height[m] /\ newRange[m] = range[m] /\ cover[m] = range[m]
      BY <1>2, <1>3, <1>5, <2>2, <3>1
    <3>4. ASSUME ~T[m].is_leaf
          PROVE  SameBelow(T, U, height, newHeight, range, cover, m)
      <4> SUFFICES ASSUME NEW d \in DOMAIN T, T[d].parent = m
                   PROVE  /\ d \in DOMAIN U /\ U[d].parent = m
                          /\ newHeight[d] = height[d] /\ cover[d] = range[d]
        BY DEF SameBelow
      <4>1. U[d].parent = m
        BY <1>8, <2>2 DEF AroundSplit
      <4>2. d \in Nat /\ d # N
        BY <1>1
      <4> QED
        BY <1>2, <1>5, <4>1, <4>2 DEF AroundSplit
    <3>5. SameNode(T, U, m)
      BY <2>2, <3>1 DEF AroundSplit
    <3>6. newRange[m] \subseteq cover[m]
      BY <3>3
    <3> QED
      BY <3>2, <3>3, <3>4, <3>5, <3>6, SameContent
  <2> QED
    BY <2>1, <2>2
<1>10. ASSUME NEW m \in DOMAIN U
      PROVE  newHeight[m] <= newHeight[root]
  <2>1. \A q \in DOMAIN T : height[q] <= height[root] /\ q \in Nat /\ q # N
    BY <1>1 DEF WholeTree, Tree
  <2> QED
    BY <1>2, <1>7, <2>1 DEF AroundSplit
<1>11. ASSUME NEW m \in DOMAIN U \ {N, root}
       PROVE  Listed(U, m)
  <2>1. m \in DOMAIN T \ {root}
    BY DEF AroundSplit
  <2>2. CASE T[m].parent = n
    BY <2>1, <2>2 DEF AroundSplit
  <2>3. CASE T[m].parent # n
    <3>1. Listed(T, m)
      BY <2>1 DEF WholeTree, Tree
    <3>2. m \notin moved /\ U[m].parent = T[m].parent
      BY <1>8, <2>1, <2>3 DEF AroundSplit
    <3>3. T[m].parent \in DOMAIN T \ {n}
      BY <2>3, <3>1 DEF Listed
    <3>4. SameNode(T, U, T[m].parent) /\ T[m].parent \in DOMAIN U
      BY <3>3 DEF AroundSplit
    <3> QED
      BY <3>1, <3>2, <3>4, SameListed
  <2> QED
    BY <2>2, <2>3
<1>12. IsFiniteSet(DOMAIN U) /\ DOMAIN U \subseteq Nat
  BY <1>1, FS_AddElement DEF AroundSplit
<1>13. root # N /\ U[root].parent = NULL /\ cover[root] = Int
  <2>1. root \notin moved /\ root \in Nat /\ root # N
    BY <1>1, <1>7 DEF AroundSplit
  <2> QED
    BY <1>5, <1>7, <1>8, <2>1
<1>14. n \in DOMAIN U /\ N \in DOMAIN U /\ root \in DOMAIN U /\ U[N].parent = U[n].parent
  BY <1>7 DEF AroundSplit
<1>15. Tree(U, root, newHeight, newRange, cover, {N})
  <2>1. DOMAIN U \ ({N} \cup {root}) = DOMAIN U \ {N, root}
    OBVIOUS
  <2> QED
    BY <1>2, <1>3, <1>5, <1>7, <1>9, <1>10, <1>11, <1>12, <1>13, <1>14, <2>1 DEF Tree
<1>16. newHeight[n] = newHeight[N]
  BY <1>1, <1>2
<1>17. Chained(U, newRange)
  BY DEF newRange
<1> QED
  BY <1>1, <1>3, <1>15, <1>14, <1>16, <1>17 DEF SplitTree, newHeight, newRange, cover

LEMMA PartProps ==
  ASSUME NEW S, NEW s \in Seq(S), NEW a \in 1 .. Len(s) + 1, NEW b \in 0 .. Len(s),
         a <= b + 1
  PROVE  /\ SubSeq(s, a, b) \in Seq(S)
         /\ Len(SubSeq(s, a, b)) = b - a + 1
         /\ \A j \in 1 .. b - a + 1 : SubSeq(s, a, b)[j] = s[a + j - 1]
<1>1. Len(s) \in Nat /\ a \in Nat /\ b \in Nat
  OBVIOUS
<1> QED
  BY <1>1

LEMMA PartAscends ==
  ASSUME NEW s \in Seq(Int), Ascending(s),
         NEW a \in 1 .. Len(s) + 1, NEW b \in 0 .. Len(s), a <= b + 1
  PROVE  Ascending(SubSeq(s, a, b))
<1> DEFINE t == SubSeq(s, a, b)
<1>1. /\ t \in Seq(Int) /\ Len(t) = b - a + 1
      /\ \A j \in 1 .. b - a + 1 : t[j] = s[a + j - 1]
  BY PartProps
<1>2. Len(s) \in Nat /\ a \in Nat /\ b \in Nat
  OBVIOUS
<1> HIDE DEF t
<1>3. ASSUME NEW i \in 1 .. Len(t), NEW j \in 1 .. Len(t), i < j
      PROVE  t[i] < t[j]
  <2> DEFINE p == a + i - 1
             q == a + j - 1
  <2>1. p \in 1 .. Len(s) /\ q \in 1 .. Len(s) /\ p < q
    BY <1>1, <1>2, <1>3
  <2>2. t[i] = s[p] /\ t[j] = s[q]
    BY <1>1
  <2> HIDE DEF p, q
  <2>3. s[p] < s[q]
    BY <2>1 DEF Ascending
  <2> QED
    BY <2>2, <2>3
<1> QED
  BY <1>3 DEF Ascending, t

LEMMA FirstPart ==
  ASSUME NEW S, NEW s \in Seq(S), NEW b \in 0 .. Len(s)
  PROVE  /\ SubSeq(s, 1, b) \in Seq(S)
         /\ Len(SubSeq(s, 1, b)) = b
         /\ \A j \in 1 .. b : SubSeq(s, 1, b)[j] = s[j]
<1>1. Len(s) \in Nat /\ b \in Nat
  OBVIOUS
<1> QED
  BY <1>1

LEMMA LastPart ==
  ASSUME NEW S, NEW s \in Seq(S), NEW b \in 0 .. Len(s)
  PROVE  /\ SubSeq(s, b + 1, Len(s)) \in Seq(S)
         /\ Len(SubSeq(s, b + 1, Len(s))) = Len(s) - b
         /\ \A j \in 1 .. Len(s) - b : SubSeq(s, b + 1, Len(s))[j] = s[b + j]
<1>1. Len(s) \in Nat /\ b \in Nat
  OBVIOUS
<1> QED
  BY <1>1

LEMMA PartsAscend ==
  ASSUME NEW s \in Seq(Int), Ascending(s), NEW b \in 0 .. Len(s)
  PROVE  Ascending(SubSeq(s, 1, b)) /\ Ascending(SubSeq(s, b + 1, Len(s)))
<1>1. Len(s) \in Nat /\ b \in Nat
  OBVIOUS
<1>2. 1 \in 1 .. Len(s) + 1 /\ 1 <= b + 1 /\ b + 1 \in 1 .. Len(s) + 1
      /\ Len(s) \in 0 .. Len(s) /\ b + 1 <= Len(s) + 1
  BY <1>1
<1> QED
  BY <1>2, PartAscends

(* The halves of a leaf and of another node.                               *)
LeafHalves(t, l, r, c) ==
  /\ DOMAIN l = NodeFields /\ DOMAIN r = NodeFields
  /\ l.is_leaf = t.is_leaf /\ r.is_leaf = t.is_leaf
  /\ l.parent = t.parent /\ r.parent = t.parent
  /\ l.keys = SubSeq(t.keys, 1, c)
  /\ l.descendants = SubSeq(t.descendants, 1, c)
  /\ r.keys = SubSeq(t.keys, c + 1, Len(t.keys))
  /\ r.descendants = SubSeq(t.descendants, c + 1, Len(t.keys))

NodeHalves(t, l, r, c) ==
  /\ DOMAIN l = NodeFields /\ DOMAIN r = NodeFields
  /\ l.is_leaf = t.is_leaf /\ r.is_leaf = t.is_leaf
  /\ l.parent = t.parent /\ r.parent = t.parent
  /\ l.keys = SubSeq(t.keys, 1, c - 1)
  /\ l.descendants = SubSeq(t.descendants, 1, c)
  /\ r.keys = SubSeq(t.keys, c + 1, Len(t.keys))
  /\ r.descendants = SubSeq(t.descendants, c + 1, Len(t.keys) + 1)
  /\ l.next_leaf = t.next_leaf /\ r.next_leaf = t.next_leaf

KeysHalved(t, l, r, c) ==
  /\ IsNode(l) /\ IsNode(r) /\ Len(t.keys) \in Nat
  /\ Len(l.keys) = c /\ \A i \in 1 .. c : l.keys[i] = t.keys[i]
  /\ Len(r.keys) = Len(t.keys) - c
  /\ \A i \in 1 .. Len(t.keys) - c : r.keys[i] = t.keys[c + i]

LEMMA LeafHalvesProps ==
  ASSUME NEW t, IsNode(t), t.is_leaf, NEW c \in 1 .. Len(t.keys) - 1,
         NEW l, NEW r, LeafHalves(t, l, r, c)
  PROVE  KeysHalved(t, l, r, c)
<1> DEFINE keys == t.keys
           descs == t.descendants
<1>1. /\ keys \in Seq(Int) /\ Ascending(keys) /\ Len(keys) \in Nat
      /\ descs \in Seq(Values) /\ Len(descs) = Len(keys)
  BY DEF IsNode
<1>2. /\ l.keys = SubSeq(keys, 1, c) /\ l.descendants = SubSeq(descs, 1, c)
      /\ r.keys = SubSeq(keys, c + 1, Len(keys))
      /\ r.descendants = SubSeq(descs, c + 1, Len(descs))
  BY <1>1 DEF LeafHalves
<1>3. c \in 0 .. Len(keys) /\ c \in 0 .. Len(descs)
  BY <1>1
<1> HIDE DEF keys, descs
<1>4. l.keys \in Seq(Int) /\ Len(l.keys) = c /\ \A i \in 1 .. c : l.keys[i] = keys[i]
  BY <1>1, <1>2, <1>3, FirstPart
<1>5. /\ r.keys \in Seq(Int) /\ Len(r.keys) = Len(keys) - c
      /\ \A i \in 1 .. Len(keys) - c : r.keys[i] = keys[c + i]
  BY <1>1, <1>2, <1>3, LastPart
<1>6. l.descendants \in Seq(Values) /\ Len(l.descendants) = c
  BY <1>1, <1>2, <1>3, FirstPart
<1>7. r.descendants \in Seq(Values) /\ Len(r.descendants) = Len(descs) - c
  BY <1>1, <1>2, <1>3, LastPart
<1>8. Ascending(l.keys) /\ Ascending(r.keys)
  BY <1>1, <1>2, <1>3, PartsAscend
<1>9. IsNode(l) /\ IsNode(r)
  BY <1>1, <1>4, <1>5, <1>6, <1>7, <1>8 DEF IsNode, LeafHalves
<1> QED
  BY <1>1, <1>4, <1>5, <1>9 DEF KeysHalved, keys

LEMMA NodeHalvesProps ==
  ASSUME NEW t, IsNode(t), ~t.is_leaf, NEW c \in 2 .. Len(t.keys),
         NEW l, NEW r, NodeHalves(t, l, r, c)
  PROVE  /\ IsNode(l) /\ IsNode(r) /\ Len(t.keys) \in Nat
         /\ Len(l.keys) = c - 1 /\ \A i \in 1 .. c - 1 : l.keys[i] = t.keys[i]
         /\ Len(r.keys) = Len(t.keys) - c
         /\ \A i \in 1 .. Len(t.keys) - c : r.keys[i] = t.keys[c + i]
         /\ \A i \in 1 .. c : l.descendants[i] = t.descendants[i]
         /\ \A i \in 1 .. Len(t.keys) - c + 1 : r.descendants[i] = t.descendants[c + i]
<1> DEFINE keys == t.keys
           descs == t.descendants
           b == c - 1
<1>1. /\ keys \in Seq(Int) /\ Ascending(keys) /\ Len(keys) \in Nat
      /\ descs \in Seq(Nat) /\ Len(descs) = Len(keys) + 1
  BY DEF IsNode
<1>2. /\ l.keys = SubSeq(keys, 1, b) /\ l.descendants = SubSeq(descs, 1, c)
      /\ r.keys = SubSeq(keys, c + 1, Len(keys))
      /\ r.descendants = SubSeq(descs, c + 1, Len(descs))
  BY <1>1 DEF NodeHalves
<1>3. b \in 0 .. Len(keys) /\ c \in 0 .. Len(keys) /\ c \in 0 .. Len(descs)
  BY <1>1
<1> HIDE DEF keys, descs, b
<1>4. l.keys \in Seq(Int) /\ Len(l.keys) = b /\ \A i \in 1 .. b : l.keys[i] = keys[i]
  BY <1>1, <1>2, <1>3, FirstPart
<1>5. /\ r.keys \in Seq(Int) /\ Len(r.keys) = Len(keys) - c
      /\ \A i \in 1 .. Len(keys) - c : r.keys[i] = keys[c + i]
  <2> keys \in Seq(Int) /\ c \in 0 .. Len(keys)
    BY <1>1, <1>3
  <2> QED
    BY <1>2, LastPart, Zenon
<1>6. /\ l.descendants \in Seq(Nat) /\ Len(l.descendants) = c
      /\ \A i \in 1 .. c : l.descendants[i] = descs[i]
  <2> descs \in Seq(Nat) /\ c \in 0 .. Len(descs)
    BY <1>1, <1>3
  <2>1. /\ SubSeq(descs, 1, c) \in Seq(Nat) /\ Len(SubSeq(descs, 1, c)) = c
        /\ \A i \in 1 .. c : SubSeq(descs, 1, c)[i] = descs[i]
    BY FirstPart
  <2>2. l.descendants = SubSeq(descs, 1, c)
    BY <1>2
  <2> QED
    BY <2>1, <2>2, Zenon
<1>7. /\ r.descendants \in Seq(Nat) /\ Len(r.descendants) = Len(descs) - c
      /\ \A i \in 1 .. Len(descs) - c : r.descendants[i] = descs[c + i]
  <2> descs \in Seq(Nat) /\ c \in 0 .. Len(descs)
    BY <1>1, <1>3
  <2> QED
    BY <1>2, LastPart, ZenonT(40)
<1>8. Ascending(l.keys) /\ Ascending(r.keys)
  BY <1>1, <1>2, <1>3, PartsAscend
<1>9. c = b + 1 /\ Len(descs) - c = Len(keys) - c + 1
  BY <1>1 DEF b
<1>10. IsNode(l)
  BY <1>1, <1>3, <1>4, <1>6, <1>8, <1>9 DEF IsNode, NodeHalves
<1>11. IsNode(r)
  BY <1>1, <1>3, <1>5, <1>7, <1>8, <1>9, Zenon DEF IsNode, NodeHalves
<1> QED
  BY <1>1, <1>4, <1>5, <1>6, <1>7, <1>9, <1>10, <1>11 DEF keys, descs, b

(* A leaf was split: the new one comes between it and its next leaf.       *)
LeafDivided(T, U, n, key, N) ==
  /\ DOMAIN U = DOMAIN T \cup {N} /\ \A m \in DOMAIN T \ {n} : U[m] = T[m]
  /\ U[n].is_leaf /\ U[N].is_leaf
  /\ U[n].next_leaf = N /\ U[N].next_leaf = T[n].next_leaf

LEMMA DividedChain ==
  ASSUME NEW T, NEW root, NEW height, NEW range, WholeTree(T, root, height, range),
         NEW n \in DOMAIN T, T[n].is_leaf, NEW N \in Nat \ DOMAIN T,
         NEW key \in range[n], NEW first \in range[n], first < key,
         NEW U, LeafDivided(T, U, n, key, N),
         NEW newRange, newRange = RangesAfterSplit(range, n, key, N)
  PROVE  Chained(U, newRange)
<1>1. /\ n # N /\ n \in Nat /\ N \in Nat /\ DOMAIN T \subseteq Nat
      /\ range \in [Nat -> SUBSET Int] /\ Chained(T, range)
  BY DEF WholeTree, Tree
<1>2. /\ newRange[n] = {k \in range[n] : k < key}
      /\ newRange[N] = {k \in range[n] : key <= k}
      /\ \A m \in DOMAIN T \ {n} : newRange[m] = range[m]
  BY <1>1 DEF RangesAfterSplit
<1>3. /\ DOMAIN U = DOMAIN T \cup {N} /\ \A m \in DOMAIN T \ {n} : U[m] = T[m]
      /\ U[n].is_leaf /\ U[N].is_leaf
      /\ U[n].next_leaf = N /\ U[N].next_leaf = T[n].next_leaf
  BY DEF LeafDivided
<1>4. /\ \A m \in DOMAIN T : range[m] \subseteq Int /\ Convex(range[m])
      /\ key \in Int /\ first \in Int
  BY <1>1, RangesConvex
<1>5. \A k \in range[n] : k < key => k + 1 \in range[n]
  <2> SUFFICES ASSUME NEW k \in range[n], k < key PROVE k + 1 \in range[n]
    OBVIOUS
  <2>1. k \in Int /\ k + 1 \in Int /\ k <= k + 1 /\ k + 1 <= key
    BY <1>4
  <2> QED
    BY <1>4, <2>1 DEF Convex
<1>6. ASSUME NEW m \in DOMAIN T, T[m].is_leaf, NEW k \in range[m], k + 1 \notin range[m]
      PROVE  LeadsOn(T, range, m, k)
  BY <1>1, <1>6 DEF Chained
<1>7. ASSUME NEW m \in DOMAIN T, T[m].is_leaf, T[m].next_leaf # NULL
      PROVE  \E k \in range[m] : k + 1 \notin range[m]
  BY <1>1, <1>7 DEF Chained
<1>8. /\ \A k \in newRange[n] : k + 1 \in newRange[n] \/ LeadsOn(U, newRange, n, k)
      /\ \E k \in newRange[n] : k + 1 \notin newRange[n]
  <2>1. ASSUME NEW k \in newRange[n], k + 1 \notin newRange[n]
        PROVE  LeadsOn(U, newRange, n, k)
    <3>1. k \in range[n] /\ k < key /\ k \in Int
      BY <1>2, <1>4
    <3>2. k + 1 \in range[n]
      BY <1>5, <3>1
    <3>3. ~(k + 1 < key)
      BY <1>2, <2>1, <3>2
    <3>4. k + 1 \in newRange[N]
      BY <1>2, <1>4, <3>1, <3>2, <3>3
    <3> QED
      BY <1>3, <3>4 DEF LeadsOn
  <2>2. \E k \in newRange[n] : k + 1 \notin newRange[n]
    <3> DEFINE k == key - 1
    <3>1. k \in Int /\ first <= k /\ k <= key /\ k < key /\ k + 1 = key /\ ~(key < key)
      BY <1>4
    <3> HIDE DEF k
    <3>2. k \in range[n]
      BY <1>4, <3>1 DEF Convex
    <3> QED
      BY <1>2, <3>1, <3>2
  <2> QED
    BY <2>1, <2>2
<1>9. /\ \A k \in newRange[N] : k + 1 \in newRange[N] \/ LeadsOn(U, newRange, N, k)
      /\ U[N].next_leaf # NULL => \E k \in newRange[N] : k + 1 \notin newRange[N]
  <2>1. ASSUME NEW k \in newRange[N], k + 1 \notin newRange[N]
        PROVE  LeadsOn(U, newRange, N, k)
    <3> DEFINE m == T[n].next_leaf
    <3>1. k \in range[n] /\ key <= k /\ k \in Int /\ key <= k + 1
      BY <1>2, <1>4
    <3>2. k + 1 \notin range[n]
      BY <1>2, <2>1, <3>1
    <3>3. m \in DOMAIN T /\ T[m].is_leaf /\ k + 1 \in range[m]
      BY <1>6, <3>1, <3>2 DEF LeadsOn
    <3>4. m # n
      BY <3>2, <3>3
    <3> QED
      BY <1>2, <1>3, <3>3, <3>4 DEF LeadsOn
  <2>2. ASSUME U[N].next_leaf # NULL
        PROVE  \E k \in newRange[N] : k + 1 \notin newRange[N]
    <3>1. PICK k \in range[n] : k + 1 \notin range[n]
      BY <1>3, <1>7, <2>2
    <3>2. key <= k
      BY <1>4, <1>5, <3>1
    <3> QED
      BY <1>2, <3>1, <3>2
  <2> QED
    BY <2>1, <2>2
<1>10. ASSUME NEW x \in DOMAIN T, x # n, T[x].is_leaf
       PROVE  \A k \in newRange[x] : k + 1 \in newRange[x] \/ LeadsOn(U, newRange, x, k)
  <2>1. SUFFICES ASSUME NEW k \in newRange[x], k + 1 \notin newRange[x]
                 PROVE  LeadsOn(U, newRange, x, k)
    OBVIOUS
  <2> DEFINE m == T[x].next_leaf
  <2>2. newRange[x] = range[x] /\ U[x] = T[x]
    BY <1>2, <1>3, <1>10
  <2>3. m \in DOMAIN T /\ T[m].is_leaf /\ k + 1 \in range[m]
    BY <1>6, <1>10, <2>1, <2>2 DEF LeadsOn
  <2>4. CASE m # n
    BY <1>2, <1>3, <2>2, <2>3, <2>4 DEF LeadsOn
  <2>5. CASE m = n
    <3>1. k \in Int /\ k + 1 \in range[n] /\ k \in range[x]
      BY <1>4, <2>2, <2>3, <2>5
    <3>2. k + 1 < key
      <4>1. SUFFICES ASSUME ~(k + 1 < key) PROVE FALSE
        OBVIOUS
      <4>2. first <= k /\ k <= k + 1
        BY <1>4, <3>1, <4>1
      <4>3. k \in range[n]
        BY <1>4, <3>1, <4>2 DEF Convex
      <4>4. height[x] = height[n]
        BY <1>10, TreeFacts DEF WholeTree
      <4>5. x = n
        BY <3>1, <4>3, <4>4, OneNodePerKey
      <4> QED
        BY <1>10, <4>5
    <3>3. k + 1 \in newRange[n]
      BY <1>2, <3>1, <3>2
    <3> QED
      BY <1>3, <2>2, <2>5, <3>3 DEF LeadsOn
  <2> QED
    BY <2>4, <2>5
<1>11. ASSUME NEW x \in DOMAIN U, U[x].is_leaf
       PROVE  /\ \A k \in newRange[x] : k + 1 \in newRange[x] \/ LeadsOn(U, newRange, x, k)
              /\ U[x].next_leaf # NULL => \E k \in newRange[x] : k + 1 \notin newRange[x]
  <2>1. CASE x = n \/ x = N
    BY <1>8, <1>9, <2>1
  <2>2. CASE x # n /\ x # N
    <3>1. x \in DOMAIN T /\ U[x] = T[x] /\ newRange[x] = range[x]
      BY <1>2, <1>3, <2>2
    <3> QED
      BY <1>7, <1>10, <1>11, <2>2, <3>1
  <2> QED
    BY <2>1, <2>2
<1>12. ASSUME NEW x \in DOMAIN U, ~U[x].is_leaf PROVE U[x].next_leaf = NULL
  <2>1. x \in DOMAIN T /\ U[x] = T[x]
    BY <1>3, <1>12
  <2> QED
    BY <1>1, <1>12, <2>1 DEF Chained
<1> QED
  BY <1>11, <1>12 DEF Chained

LEMMA LeafSplit ==
  ASSUME NEW T, NEW root, NEW height, NEW range, WholeTree(T, root, height, range),
         NEW n \in DOMAIN T, T[n].is_leaf, NEW c \in 1 .. Len(T[n].keys) - 1,
         NEW N \in Nat \ DOMAIN T,
         NEW U, DOMAIN U = DOMAIN T \cup {N}, \A m \in DOMAIN T \ {n} : U[m] = T[m],
         LeafHalves(T[n], U[n], U[N], c),
         U[n].next_leaf = N, U[N].next_leaf = T[n].next_leaf
  PROVE  SplitTree(U, root, HeightsAfterSplit(height, n, N),
                   RangesAfterSplit(range, n, T[n].keys[c + 1], N), n, T[n].keys[c + 1], N)
<1> DEFINE keys == T[n].keys
           key == keys[c + 1]
           newHeight == HeightsAfterSplit(height, n, N)
           newRange == RangesAfterSplit(range, n, key, N)
           cover == BothRanges(newRange, n, N)
<1>1. /\ n # N /\ n \in Nat /\ N \in Nat
      /\ height \in [Nat -> Nat] /\ range \in [Nat -> SUBSET Int]
  BY DEF WholeTree, Tree
<1>2. IsNode(T[n]) /\ height[n] = 0 /\ \A i \in 1 .. Len(keys) : keys[i] \in range[n]
  BY TreeFacts DEF WholeTree
<1>3. /\ IsNode(U[n]) /\ IsNode(U[N]) /\ Len(keys) \in Nat
      /\ Len(U[n].keys) = c /\ \A i \in 1 .. c : U[n].keys[i] = keys[i]
      /\ Len(U[N].keys) = Len(keys) - c
      /\ \A i \in 1 .. Len(keys) - c : U[N].keys[i] = keys[c + i]
  <2> DEFINE t == T[n]
             l == U[n]
             r == U[N]
  <2>1. IsNode(t) /\ t.is_leaf /\ c \in 1 .. Len(t.keys) - 1 /\ LeafHalves(t, l, r, c)
    BY <1>2
  <2> HIDE DEF t, l, r
  <2>2. KeysHalved(t, l, r, c)
    BY <2>1, LeafHalvesProps
  <2> QED
    BY <2>2 DEF KeysHalved, t, l, r
<1>4. /\ keys \in Seq(Int) /\ Ascending(keys) /\ c \in Nat /\ c + 1 \in 1 .. Len(keys)
      /\ key \in Int /\ key \in range[n]
  <2>1. keys \in Seq(Int) /\ Ascending(keys) /\ Len(keys) \in Nat
    BY <1>2, <1>3 DEF IsNode
  <2> HIDE DEF keys
  <2>2. c \in 1 .. Len(keys) - 1
    BY DEF keys
  <2>3. c \in Nat /\ c + 1 \in 1 .. Len(keys)
    BY <2>1, <2>2
  <2> QED
    BY <1>2, <2>1, <2>3
<1>5. ASSUME NEW i \in 1 .. c
      PROVE  keys[i] < key /\ keys[i] \in range[n]
  <2> DEFINE q == c + 1
  <2>1. i \in 1 .. Len(keys) /\ q \in 1 .. Len(keys) /\ i < q /\ i <= q
    BY <1>3, <1>4
  <2> HIDE DEF q, keys
  <2>2. keys[i] < keys[q]
    BY <1>4, <2>1, Ordered
  <2> QED
    BY <1>2, <2>1, <2>2 DEF q, keys
<1>6. ASSUME NEW i \in 1 .. Len(keys) - c
      PROVE  key <= keys[c + i] /\ keys[c + i] \in range[n]
  <2> DEFINE q == c + i
  <2>1. q \in 1 .. Len(keys) /\ c + 1 <= q
    BY <1>3, <1>4
  <2> HIDE DEF q, keys
  <2>2. keys[c + 1] <= keys[q]
    BY <1>4, <2>1, Ordered
  <2> QED
    BY <1>2, <2>1, <2>2 DEF q, keys
<1>7. newHeight[n] = 0 /\ newHeight[N] = 0
  BY <1>1, <1>2 DEF HeightsAfterSplit
<1>8. /\ newRange \in [Nat -> SUBSET Int]
      /\ newRange[n] = {k \in range[n] : k < key}
      /\ newRange[N] = {k \in range[n] : key <= k}
  BY <1>1 DEF RangesAfterSplit
<1>9. U[n].is_leaf /\ U[N].is_leaf
  BY DEF LeafHalves
<1>10. AroundSplit(T, root, U, n, N, {})
  <2>1. \A m \in DOMAIN T \ {n} : SameNode(T, U, m)
    BY TreeFacts DEF WholeTree, SameNode, IsNode
  <2>2. \A m \in DOMAIN T \ {root} : T[m].parent # n
    BY TreeFacts DEF WholeTree, Listed
  <2> QED
    BY <2>1, <2>2 DEF AroundSplit, LeafHalves
<1> HIDE DEF newHeight, newRange, keys
<1>11. newRange[n] \subseteq cover[n] /\ newRange[N] \subseteq cover[N]
  BY <1>1, <1>8 DEF BothRanges
<1> HIDE DEF key, cover
<1>12. Content(U, newHeight, newRange, cover, n)
  <2>1. \A i \in 1 .. c : keys[i] \in newRange[n]
    BY <1>2, <1>3, <1>4, <1>5, <1>8
  <2>2. newRange[n] # {}
    BY <1>4, <2>1, SMTT(30)
  <2> QED
    BY <1>3, <1>7, <1>9, <1>11, <2>1, <2>2 DEF Content
<1>13. Content(U, newHeight, newRange, cover, N)
  <2>1. newRange[N] # {}
    BY <1>4, <1>8
  <2>2. \A i \in 1 .. Len(keys) - c : keys[c + i] \in newRange[N]
    BY <1>6, <1>8
  <2>3. \A i \in 1 .. Len(U[N].keys) : U[N].keys[i] \in newRange[N]
    BY <1>3, <2>2
  <2> QED
    BY <1>3, <1>7, <1>9, <1>11, <2>1, <2>3 DEF Content
<1>14. Chained(U, newRange)
  <2>1. 1 \in 1 .. c
    OBVIOUS
  <2> DEFINE first == keys[1]
  <2>2. first \in range[n] /\ first < key
    BY <1>5, <2>1 DEF key
  <2> HIDE DEF first
  <2>3. LeafDivided(T, U, n, key, N)
    BY <1>9 DEF LeafDivided
  <2>4. newRange = RangesAfterSplit(range, n, key, N)
    BY DEF newRange
  <2>5. key \in range[n]
    BY <1>4 DEF key
  <2> QED
    BY <2>2, <2>3, <2>4, <2>5, DividedChain
<1> QED
  BY <1>4, <1>10, <1>12, <1>13, <1>14, SplitGeneral DEF newHeight, newRange, cover, key, keys

(* The descendants keep their ranges when a node is cut in two.            *)
LowerKeys(keys, c, low) ==
  /\ keys \in Seq(Int) /\ Ascending(keys) /\ c \in 1 .. Len(keys)
  /\ Len(low) = c - 1 /\ \A j \in 1 .. c - 1 : low[j] = keys[j]

UpperKeys(keys, c, high) ==
  /\ keys \in Seq(Int) /\ Ascending(keys) /\ c \in 1 .. Len(keys)
  /\ Len(high) = Len(keys) - c
  /\ \A j \in 1 .. Len(keys) - c : high[j] = keys[c + j]

LEMMA LowerSlices ==
  ASSUME NEW keys, NEW c, NEW low, LowerKeys(keys, c, low),
         NEW range \in SUBSET Int, NEW i \in 1 .. c
  PROVE  Slice(low, {k \in range : k < keys[c]}, i) = Slice(keys, range, i)
<1> keys \in Seq(Int) /\ Ascending(keys) /\ c \in 1 .. Len(keys)
    /\ Len(low) = c - 1 /\ \A j \in 1 .. c - 1 : low[j] = keys[j]
  BY DEF LowerKeys
<1>1. Len(keys) \in Nat /\ c \in Nat /\ i \in Nat /\ keys[c] \in Int
  OBVIOUS
<1>2. i > 1 => low[i - 1] = keys[i - 1]
  BY <1>1
<1>3. CASE i = c
  BY <1>1, <1>2, <1>3 DEF Slice
<1>4. CASE i < c
  <2>1. i \in 1 .. c - 1 /\ i \in 1 .. Len(keys) /\ low[i] = keys[i]
    BY <1>1, <1>4
  <2>2. keys[i] \in Int /\ keys[i] < keys[c]
    BY <1>4, <2>1, Ordered
  <2>3. ASSUME NEW k \in range
        PROVE  k < keys[i] => k < keys[c]
    BY <1>1, <2>2, <2>3
  <2>4. i <= Len(low) /\ i <= Len(keys)
    BY <1>1, <2>1
  <2>5. ASSUME NEW k
        PROVE  k \in Slice(low, {j \in range : j < keys[c]}, i) <=> k \in Slice(keys, range, i)
    BY <1>2, <2>1, <2>3, <2>4 DEF Slice
  <2> QED
    BY <2>5
<1> QED
  BY <1>1, <1>3, <1>4

SameSlices(keys, c, high, range) ==
  \A i \in 1 .. Len(keys) - c + 1 :
    Slice(high, {k \in range : keys[c] <= k}, i) = Slice(keys, range, c + i)

LEMMA UpperSlices ==
  ASSUME NEW keys, NEW c, NEW high, UpperKeys(keys, c, high),
         NEW range \in SUBSET Int
  PROVE  SameSlices(keys, c, high, range)
<1> SUFFICES ASSUME NEW i \in 1 .. Len(keys) - c + 1, NEW q, q = c + i
             PROVE  Slice(high, {k \in range : keys[c] <= k}, i) = Slice(keys, range, q)
  BY DEF SameSlices
<1> keys \in Seq(Int) /\ Ascending(keys) /\ c \in 1 .. Len(keys)
    /\ Len(high) = Len(keys) - c
    /\ \A j \in 1 .. Len(keys) - c : high[j] = keys[c + j]
  BY DEF UpperKeys
<1>1. Len(keys) \in Nat /\ c \in Nat /\ i \in Nat /\ keys[c] \in Int
      /\ q > 1 /\ q - 1 \in 1 .. Len(keys)
  OBVIOUS
<1>2. i <= Len(high) <=> q <= Len(keys)
  BY <1>1
<1>3. i <= Len(high) => high[i] = keys[q]
  BY <1>1
<1>4. CASE i = 1
  <2>1. q - 1 = c
    BY <1>1, <1>4
  <2> QED
    BY <1>1, <1>2, <1>3, <1>4, <2>1 DEF Slice
<1>5. CASE i > 1
  <2>1. i - 1 \in 1 .. Len(keys) - c /\ c + (i - 1) = q - 1
    BY <1>1, <1>5
  <2>2. high[i - 1] = keys[q - 1] /\ c <= q - 1
    BY <1>1, <1>5, <2>1, SMTT(30)
  <2> DEFINE p == q - 1
  <2>3. p \in 1 .. Len(keys) /\ c <= p
    BY <1>1, <2>2
  <2> HIDE DEF p
  <2>4. keys[c] <= keys[p] /\ keys[p] \in Int
    BY <1>1, <2>3, Ordered
  <2>5. ASSUME NEW k \in range
        PROVE  keys[p] <= k => keys[c] <= k
    BY <1>1, <2>4, <2>5
  <2>6. high[i - 1] = keys[p] /\ p = c + i - 1 /\ c + i > 1
        /\ (i <= Len(high) <=> c + i <= Len(keys))
        /\ (i <= Len(high) => high[i] = keys[c + i])
    BY <1>1, <1>2, <1>3, <2>2 DEF p
  <2>7. ASSUME NEW k
        PROVE  k \in Slice(high, {j \in range : keys[c] <= j}, i)
               <=> k \in Slice(keys, range, c + i)
    <3>1. keys[c + i - 1] = keys[p] /\ i > 1
      BY <1>5, <2>6
    <3>2. k \in Slice(high, {j \in range : keys[c] <= j}, i)
          <=> /\ k \in range /\ keys[c] <= k /\ keys[p] <= k
              /\ i <= Len(high) => k < high[i]
      BY <2>6, <3>1 DEF Slice
    <3>3. k \in Slice(keys, range, c + i)
          <=> k \in range /\ keys[p] <= k /\ (c + i <= Len(keys) => k < keys[c + i])
      BY <2>6, <3>1 DEF Slice
    <3> HIDE DEF p
    <3> QED
      BY <2>5, <2>6, <3>2, <3>3
  <2> QED
    BY <2>7
<1> QED
  BY <1>1, <1>4, <1>5

Moved(t, c) == {t.descendants[j] : j \in c + 1 .. Len(t.keys) + 1}

CutNode(T, U, n, N, c) ==
  /\ DOMAIN U = DOMAIN T \cup {N}
  /\ \A m \in DOMAIN T \ {n} :
       /\ SameNode(T, U, m)
       /\ U[m].parent = IF m \in Moved(T[n], c) THEN N ELSE T[m].parent
  /\ NodeHalves(T[n], U[n], U[N], c)

LEMMA NodeSplit ==
  ASSUME NEW T, NEW root, NEW height, NEW range, WholeTree(T, root, height, range),
         NEW n \in DOMAIN T, ~T[n].is_leaf, NEW c \in 2 .. Len(T[n].keys),
         NEW N \in Nat \ DOMAIN T,
         NEW U, CutNode(T, U, n, N, c)
  PROVE  SplitTree(U, root, HeightsAfterSplit(height, n, N),
                   RangesAfterSplit(range, n, T[n].keys[c], N), n, T[n].keys[c], N)
<1> DEFINE keys == T[n].keys
           descs == T[n].descendants
           key == keys[c]
           newHeight == HeightsAfterSplit(height, n, N)
           newRange == RangesAfterSplit(range, n, key, N)
           cover == BothRanges(newRange, n, N)
           moved == Moved(T[n], c)
<1>1. /\ n # N /\ n \in Nat /\ N \in Nat /\ DOMAIN T \subseteq Nat
      /\ height \in [Nat -> Nat] /\ range \in [Nat -> SUBSET Int]
      /\ range[n] \subseteq Int
  BY DEF WholeTree, Tree
<1>2. /\ IsNode(T[n]) /\ \A i \in 1 .. Len(keys) : keys[i] \in range[n]
      /\ \A i \in 1 .. Len(keys) + 1 : Link(T, height, range, range, n, i)
  BY TreeFacts DEF WholeTree
<1>3. /\ IsNode(U[n]) /\ IsNode(U[N]) /\ Len(keys) \in Nat
      /\ Len(U[n].keys) = c - 1 /\ \A i \in 1 .. c - 1 : U[n].keys[i] = keys[i]
      /\ Len(U[N].keys) = Len(keys) - c
      /\ \A i \in 1 .. Len(keys) - c : U[N].keys[i] = keys[c + i]
      /\ \A i \in 1 .. c : U[n].descendants[i] = descs[i]
      /\ \A i \in 1 .. Len(keys) - c + 1 : U[N].descendants[i] = descs[c + i]
  <2> DEFINE t == T[n]
             l == U[n]
             r == U[N]
  <2>1. IsNode(t) /\ ~t.is_leaf /\ c \in 2 .. Len(t.keys) /\ NodeHalves(t, l, r, c)
    BY <1>2 DEF CutNode
  <2> HIDE DEF t, l, r
  <2>2. /\ IsNode(l) /\ IsNode(r) /\ Len(t.keys) \in Nat
        /\ Len(l.keys) = c - 1 /\ \A i \in 1 .. c - 1 : l.keys[i] = t.keys[i]
        /\ Len(r.keys) = Len(t.keys) - c
        /\ \A i \in 1 .. Len(t.keys) - c : r.keys[i] = t.keys[c + i]
        /\ \A i \in 1 .. c : l.descendants[i] = t.descendants[i]
        /\ \A i \in 1 .. Len(t.keys) - c + 1 : r.descendants[i] = t.descendants[c + i]
    BY <2>1, NodeHalvesProps
  <2> QED
    BY <2>2 DEF t, l, r
<1>4. /\ keys \in Seq(Int) /\ Ascending(keys) /\ c \in Nat /\ c \in 1 .. Len(keys)
      /\ key \in Int /\ key \in range[n]
  <2>1. c \in 2 .. Len(keys) /\ Len(keys) \in Nat
    BY <1>3
  <2>2. c \in Nat /\ c \in 1 .. Len(keys)
    BY <2>1
  <2>3. keys \in Seq(Int) /\ Ascending(keys)
    BY <1>2 DEF IsNode
  <2> HIDE DEF keys
  <2>4. key \in Int /\ key \in range[n]
    BY <1>2, <2>2, <2>3
  <2> QED
    BY <2>2, <2>3, <2>4
<1>5. ASSUME NEW i \in 1 .. c - 1
      PROVE  keys[i] < key /\ keys[i] \in range[n]
  <2> DEFINE number == Len(keys)
  <2>n. number \in Nat /\ c \in 1 .. number
    BY <1>3, <1>4
  <2> HIDE DEF number, keys
  <2>1. i \in 1 .. number /\ i < c /\ i <= c
    BY <2>n
  <2> USE DEF number
  <2>2. keys[i] < keys[c]
    BY <1>4, <2>1, Ordered
  <2> QED
    BY <1>2, <2>1, <2>2 DEF keys
<1>6. ASSUME NEW i \in 1 .. Len(keys) - c
      PROVE  key <= keys[c + i] /\ keys[c + i] \in range[n]
  <2> DEFINE q == c + i
             number == Len(keys)
  <2>n. number \in Nat /\ c \in 1 .. number /\ i \in 1 .. number - c
    BY <1>3, <1>4
  <2> HIDE DEF number, keys
  <2>1. q \in 1 .. number /\ c <= q
    BY <2>n
  <2> USE DEF number
  <2> HIDE DEF q
  <2>2. keys[c] <= keys[q]
    BY <1>4, <2>1, Ordered
  <2> QED
    BY <1>2, <2>1, <2>2 DEF q, keys
<1>7. newHeight[n] = height[n] /\ newHeight[N] = height[n]
      /\ \A m \in DOMAIN T : newHeight[m] = height[m]
  BY <1>1 DEF HeightsAfterSplit
<1>8. /\ newRange \in [Nat -> SUBSET Int]
      /\ newRange[n] = {k \in range[n] : k < key}
      /\ newRange[N] = {k \in range[n] : key <= k}
      /\ \A m \in DOMAIN T \ {n} : newRange[m] = range[m]
  BY <1>1 DEF RangesAfterSplit
<1>9. ~U[n].is_leaf /\ ~U[N].is_leaf /\ U[n].parent = T[n].parent /\ U[N].parent = T[n].parent
  BY DEF NodeHalves, CutNode
(* The i-th descendant and the half that gets it.                          *)
<1>10. ASSUME NEW i \in 1 .. Len(keys) + 1
       PROVE  /\ descs[i] \in DOMAIN T \ {n, root} /\ descs[i] # N
              /\ T[descs[i]].parent = n
              /\ height[n] = height[descs[i]] + 1
              /\ range[descs[i]] = Slice(keys, range[n], i)
              /\ descs[i] \in moved <=> i > c
  <2>1. /\ descs[i] \in DOMAIN T /\ T[descs[i]].parent = n
        /\ height[n] = height[descs[i]] + 1
        /\ range[descs[i]] = Slice(keys, range[n], i)
    BY <1>2 DEF Link
  <2>2. descs[i] # n /\ descs[i] # root
    <3>1. height[descs[i]] # height[n]
      <4> DEFINE d == descs[i]
      <4>1. d \in Nat /\ height[n] = height[d] + 1
        BY <1>1, <2>1
      <4> HIDE DEF d
      <4>2. height[d] \in Nat
        BY <1>1, <4>1
      <4>3. height[d] # height[n]
        BY <4>1, <4>2
      <4> QED
        BY <4>3 DEF d
    <3>2. T[root].parent = NULL
      BY DEF WholeTree, Tree
    <3> QED
      BY <1>1, <2>1, <3>1, <3>2, NullAssumption
  <2>3. ASSUME descs[i] \in moved
        PROVE  i > c
    <3>1. PICK j \in c + 1 .. Len(keys) + 1 : descs[i] = descs[j]
      BY <2>3 DEF Moved
    <3>2. j \in 1 .. Len(keys) + 1 /\ j > c
      BY <1>3, <1>4
    <3>3. i = j
      BY <3>1, <3>2, DescendantsDiffer DEF WholeTree
    <3> QED
      BY <3>2, <3>3
  <2>4. ASSUME i > c
        PROVE  descs[i] \in moved
    <3>1. i \in c + 1 .. Len(keys) + 1
      BY <1>3, <1>4, <2>4
    <3> QED
      BY <3>1 DEF Moved
  <2> QED
    BY <2>1, <2>2, <2>3, <2>4
<1>11. ASSUME NEW m \in DOMAIN T \ {root}, T[m].parent = n
       PROVE  Listed(U, m)
  <2>1. Listed(T, m)
    BY TreeFacts DEF WholeTree
  <2>2. PICK i \in 1 .. Len(keys) + 1 : descs[i] = m
    BY <1>11, <2>1 DEF Listed
  <2>3. m # n /\ (m \in moved <=> i > c)
    BY <1>10, <2>2
  <2>4. U[m].parent = IF m \in moved THEN N ELSE n
    BY <1>11, <2>3 DEF CutNode
  <2>5. n \in DOMAIN U /\ N \in DOMAIN U
    BY DEF CutNode
  <2>6. CASE i <= c
    <3>1. i \in 1 .. c
      BY <2>6
    <3>2. i \in 1 .. Len(U[n].keys) + 1 /\ U[n].descendants[i] = m
      BY <1>3, <1>4, <2>2, <3>1
    <3>3. U[m].parent = n
      BY <1>4, <2>3, <2>4, <3>1
    <3> QED
      BY <1>9, <2>5, <3>2, <3>3 DEF Listed
  <2>7. CASE i > c
    <3> DEFINE j == i - c
    <3>1. j \in 1 .. Len(keys) - c + 1 /\ c + j = i
      BY <1>3, <1>4, <2>7
    <3> HIDE DEF j, moved
    <3>2. j \in 1 .. Len(U[N].keys) + 1
      BY <1>3, <1>4, <3>1
    <3>3. U[N].descendants[j] = m
      BY <1>3, <2>2, <3>1
    <3>4. U[m].parent = N
      BY <2>3, <2>4, <2>7
    <3> QED
      BY <1>9, <2>5, <3>2, <3>3, <3>4 DEF Listed
  <2> QED
    BY <1>4, <2>6, <2>7
<1>12. AroundSplit(T, root, U, n, N, moved)
  <2>1. \A m \in moved : m \in DOMAIN T \ {root} /\ T[m].parent = n
    <3>1. \A j \in c + 1 .. Len(keys) + 1 : j \in 1 .. Len(keys) + 1
      BY <1>3, <1>4
    <3> QED
      BY <1>10, <3>1 DEF Moved
  <2> QED
    BY <1>9, <1>11, <2>1 DEF AroundSplit, NodeHalves, CutNode
<1> HIDE DEF newHeight, newRange
<1>13. /\ newRange[n] \subseteq cover[n] /\ newRange[N] \subseteq cover[N]
       /\ \A m \in DOMAIN T \ {n} : cover[m] = range[m]
  BY <1>1, <1>8 DEF BothRanges
<1> HIDE DEF cover
<1>14. Content(U, newHeight, newRange, cover, n)
  <2>1. \A i \in 1 .. c - 1 : keys[i] \in newRange[n]
    BY <1>5, <1>8
  <2>2. newRange[n] # {}
    <3>1. 1 \in 1 .. c - 1
      BY <1>4
    <3> QED
      BY <2>1, <3>1
  <2>3. ASSUME NEW i \in 1 .. Len(U[n].keys) + 1
        PROVE  Link(U, newHeight, newRange, cover, n, i)
    <3>1. i \in 1 .. c /\ i \in 1 .. Len(keys) + 1 /\ ~(i > c)
      BY <1>3, <1>4
    <3>2. U[n].descendants[i] = descs[i]
      BY <1>3, <3>1
    <3>3. Slice(U[n].keys, newRange[n], i) = Slice(keys, range[n], i)
      <4> DEFINE low == U[n].keys
                 S == range[n]
      <4>1. LowerKeys(keys, c, low) /\ S \in SUBSET Int
        BY <1>1, <1>3, <1>4 DEF LowerKeys
      <4> HIDE DEF low, S, keys
      <4>2. Slice(low, {k \in S : k < keys[c]}, i) = Slice(keys, S, i)
        BY <3>1, <4>1, LowerSlices
      <4> QED
        BY <1>8, <4>2 DEF low, S
    <3> DEFINE d == descs[i]
    <3>4. /\ d \in DOMAIN T \ {n, root} /\ d # N /\ T[d].parent = n
          /\ height[n] = height[d] + 1 /\ range[d] = Slice(keys, range[n], i)
          /\ d \notin moved
      BY <1>10, <3>1
    <3> HIDE DEF d
    <3>5. d \in DOMAIN U /\ U[d].parent = n
      BY <3>4 DEF CutNode
    <3>6. newHeight[n] = newHeight[d] + 1
      BY <1>7, <3>4
    <3>7. cover[d] = range[d]
      BY <1>13, <3>4
    <3> QED
      BY <3>2, <3>3, <3>4, <3>5, <3>6, <3>7 DEF Link, d
  <2> QED
    BY <1>3, <1>9, <1>13, <2>1, <2>2, <2>3 DEF Content
<1>15. Content(U, newHeight, newRange, cover, N)
  <2>1. newRange[N] # {}
    BY <1>4, <1>8
  <2>2. \A i \in 1 .. Len(keys) - c : keys[c + i] \in newRange[N]
    BY <1>6, <1>8
  <2>3. \A i \in 1 .. Len(keys) - c + 1 :
          Slice(U[N].keys, newRange[N], i) = Slice(keys, range[n], c + i)
    <3> DEFINE high == U[N].keys
               S == range[n]
    <3>1. UpperKeys(keys, c, high) /\ S \in SUBSET Int
      BY <1>1, <1>3, <1>4 DEF UpperKeys
    <3> HIDE DEF high, S, keys
    <3>2. SameSlices(keys, c, high, S)
      BY <3>1, UpperSlices
    <3> QED
      BY <1>8, <3>2 DEF high, S, SameSlices
  <2>4. ASSUME NEW i \in 1 .. Len(U[N].keys) + 1
        PROVE  Link(U, newHeight, newRange, cover, N, i)
    <3> DEFINE q == c + i
    <3>1. i \in 1 .. Len(keys) - c + 1 /\ q \in 1 .. Len(keys) + 1 /\ q > c
      BY <1>3, <1>4
    <3>2. U[N].descendants[i] = descs[q]
      BY <1>3, <3>1
    <3>3. Slice(U[N].keys, newRange[N], i) = Slice(keys, range[n], q)
      BY <2>3, <3>1
    <3> DEFINE d == descs[q]
    <3> HIDE DEF q
    <3>4. /\ d \in DOMAIN T \ {n, root} /\ d # N /\ T[d].parent = n
          /\ height[n] = height[d] + 1 /\ range[d] = Slice(keys, range[n], q)
          /\ d \in moved
      BY <1>10, <3>1
    <3> HIDE DEF d
    <3>5. d \in DOMAIN U /\ U[d].parent = N
      BY <3>4 DEF CutNode
    <3>6. newHeight[N] = newHeight[d] + 1
      BY <1>7, <3>4
    <3>7. cover[d] = range[d]
      BY <1>13, <3>4
    <3> QED
      BY <3>2, <3>3, <3>4, <3>5, <3>6, <3>7 DEF Link, d
  <2> QED
    BY <1>3, <1>9, <1>13, <2>1, <2>2, <2>4 DEF Content
<1>16. Chained(U, newRange)
  <2>1. Chained(T, range)
    BY DEF WholeTree
  <2>2. U[n].next_leaf = T[n].next_leaf /\ U[N].next_leaf = T[n].next_leaf
    BY DEF CutNode, NodeHalves
  <2>3. \A m \in DOMAIN T \ {n} : SameNode(T, U, m)
    BY DEF CutNode
  <2>4. DOMAIN U = DOMAIN T \cup {N}
    BY DEF CutNode
  <2>5. T[n].next_leaf = NULL
    BY <2>1 DEF Chained
  <2>6. \A m \in DOMAIN T : ~T[m].is_leaf => T[m].next_leaf = NULL
    BY <2>1 DEF Chained
  <2>7. SameLeaves(T, U, range, newRange)
    BY <1>8, <1>9, <2>2, <2>3, <2>4, <2>5, <2>6 DEF SameLeaves, SameNode
  <2> QED
    BY <2>1, <2>7, SameChain
<1> QED
  BY <1>4, <1>12, <1>14, <1>15, <1>16, SplitGeneral DEF newHeight, newRange, cover, key, keys

-----------------------------------------------------------------------------
(* t is s with e more at place i.                                          *)
Inserted(S, s, i, e, t) ==
  /\ s \in Seq(S) /\ t \in Seq(S) /\ Len(t) = Len(s) + 1
  /\ i \in 1 .. Len(s) + 1
  /\ \A j \in 1 .. Len(s) + 1 :
       t[j] = IF j < i THEN s[j] ELSE IF j = i THEN e ELSE s[j - 1]

Fits(s, i, e) ==
  /\ e \in Int
  /\ i > 1 => s[i - 1] < e
  /\ i <= Len(s) => e < s[i]

LEMMA InsertedAscends ==
  ASSUME NEW s, NEW i, NEW e, NEW t, Inserted(Int, s, i, e, t), Ascending(s), Fits(s, i, e)
  PROVE  Ascending(t)
<1>1. /\ s \in Seq(Int) /\ Len(s) \in Nat /\ Len(t) = Len(s) + 1 /\ i \in 1 .. Len(s) + 1
      /\ \A j \in 1 .. Len(s) : s[j] \in Int
  BY DEF Inserted
<1>2. ASSUME NEW j \in 1 .. Len(s) + 1
      PROVE  t[j] = IF j < i THEN s[j] ELSE IF j = i THEN e ELSE s[j - 1]
  BY DEF Inserted
<1>3. ASSUME NEW j \in 1 .. Len(s), j < i PROVE s[j] < e
  <2> DEFINE p == i - 1
  <2>1. p \in 1 .. Len(s) /\ j <= p /\ i > 1
    BY <1>1, <1>3
  <2>2. s[p] < e
    BY <2>1 DEF Fits
  <2> HIDE DEF p
  <2>3. s[j] <= s[p] /\ s[j] \in Int /\ s[p] \in Int
    BY <1>1, <2>1, Ordered
  <2> QED
    BY <2>2, <2>3 DEF Fits
<1>4. ASSUME NEW j \in 1 .. Len(s), i <= j PROVE e < s[j]
  <2>1. i \in 1 .. Len(s) /\ e < s[i]
    BY <1>1, <1>4 DEF Fits
  <2>2. s[i] <= s[j] /\ s[i] \in Int /\ s[j] \in Int
    BY <1>1, <1>4, <2>1, Ordered
  <2> QED
    BY <2>1, <2>2 DEF Fits
<1>5. ASSUME NEW a \in 1 .. Len(s) + 1, NEW b \in 1 .. Len(s) + 1, a < b
      PROVE  t[a] < t[b]
  <2>1. CASE b < i
    <3>1. a \in 1 .. Len(s) /\ b \in 1 .. Len(s) /\ a < i
      BY <1>1, <1>5, <2>1
    <3> QED
      BY <1>2, <1>5, <2>1, <3>1 DEF Ascending
  <2>2. CASE b = i
    <3>1. a \in 1 .. Len(s) /\ a < i
      BY <1>1, <1>5, <2>2
    <3> QED
      BY <1>2, <1>3, <2>2, <3>1
  <2>3. CASE i < b
    <3> DEFINE q == b - 1
    <3>1. q \in 1 .. Len(s) /\ i <= q /\ t[b] = s[q]
      BY <1>1, <1>2, <2>3
    <3> HIDE DEF q
    <3>2. CASE a < i
      <4>1. a \in 1 .. Len(s) /\ a <= q /\ a < q
        BY <1>1, <3>1, <3>2
      <4>2. t[a] = s[a]
        BY <1>2, <3>2
      <4> QED
        BY <3>1, <4>1, <4>2 DEF Ascending
    <3>3. CASE a = i
      BY <1>2, <1>4, <3>1, <3>3
    <3>4. CASE i < a
      <4> DEFINE p == a - 1
      <4>1. p \in 1 .. Len(s) /\ p < q /\ t[a] = s[p]
        BY <1>1, <1>2, <1>5, <2>3, <3>4 DEF q
      <4> HIDE DEF p
      <4> QED
        BY <3>1, <4>1 DEF Ascending
    <3> QED
      BY <1>1, <3>2, <3>3, <3>4
  <2> QED
    BY <1>1, <2>1, <2>2, <2>3
<1> QED
  BY <1>1, <1>5 DEF Ascending

LEMMA RemovedAscends ==
  ASSUME NEW s, NEW i, NEW e, NEW t, Inserted(Int, s, i, e, t), Ascending(t)
  PROVE  Ascending(s) /\ Fits(s, i, e) /\ e = t[i]
<1>1. /\ s \in Seq(Int) /\ Len(s) \in Nat /\ Len(t) = Len(s) + 1 /\ i \in 1 .. Len(s) + 1
      /\ t \in Seq(Int) /\ \A j \in 1 .. Len(s) + 1 : t[j] \in Int
  BY DEF Inserted
<1>2. ASSUME NEW j \in 1 .. Len(s) + 1
      PROVE  t[j] = IF j < i THEN s[j] ELSE IF j = i THEN e ELSE s[j - 1]
  BY DEF Inserted
<1>3. e = t[i]
  BY <1>1, <1>2
<1>4. ASSUME NEW j \in 1 .. Len(s)
      PROVE  /\ (IF j < i THEN j ELSE j + 1) \in 1 .. Len(t)
             /\ s[j] = t[IF j < i THEN j ELSE j + 1]
  <2>1. CASE j < i
    BY <1>1, <1>2, <2>1
  <2>2. CASE ~(j < i)
    <3> DEFINE p == j + 1
    <3>1. p \in 1 .. Len(s) + 1 /\ ~(p < i) /\ p # i /\ p - 1 = j
      BY <1>1, <2>2
    <3> HIDE DEF p
    <3>2. t[p] = s[j]
      BY <1>2, <3>1
    <3> QED
      BY <1>1, <2>2, <3>1, <3>2 DEF p
  <2> QED
    BY <2>1, <2>2
<1>5. ASSUME NEW a \in 1 .. Len(s), NEW b \in 1 .. Len(s), a < b
      PROVE  s[a] < s[b]
  <2> DEFINE p == IF a < i THEN a ELSE a + 1
             q == IF b < i THEN b ELSE b + 1
  <2>1. p < q
    BY <1>1, <1>5, SMTT(30)
  <2>2. p \in 1 .. Len(t) /\ q \in 1 .. Len(t) /\ s[a] = t[p] /\ s[b] = t[q]
    BY <1>4
  <2> HIDE DEF p, q
  <2> QED
    BY <2>1, <2>2 DEF Ascending
<1>6. Fits(s, i, e)
  <2>1. i > 1 => s[i - 1] < e
    <3> SUFFICES ASSUME i > 1 PROVE s[i - 1] < e
      OBVIOUS
    <3> DEFINE p == i - 1
    <3>1. p \in 1 .. Len(s) + 1 /\ i \in 1 .. Len(s) + 1 /\ p < i
      BY <1>1
    <3> HIDE DEF p
    <3>2. t[p] < t[i] /\ t[p] = s[p]
      BY <1>1, <1>2, <3>1 DEF Ascending
    <3> QED
      BY <1>3, <3>2 DEF p
  <2>2. i <= Len(s) => e < s[i]
    <3> SUFFICES ASSUME i <= Len(s) PROVE e < s[i]
      OBVIOUS
    <3> DEFINE p == i + 1
    <3>1. p \in 1 .. Len(s) + 1 /\ i \in 1 .. Len(s) + 1 /\ i < p
      BY <1>1
    <3>2. s[i] = t[p]
      BY <1>1, <1>4
    <3> HIDE DEF p
    <3>3. t[i] < t[p]
      BY <1>1, <3>1 DEF Ascending
    <3> QED
      BY <1>3, <3>2, <3>3
  <2> QED
    BY <1>1, <1>3, <2>1, <2>2 DEF Fits
<1> QED
  BY <1>1, <1>3, <1>5, <1>6 DEF Ascending

(* The slices of a range when one key more divides it.                     *)
OneSliceDivided(s, i, e, t, range) ==
  /\ \A j \in 1 .. i - 1 : Slice(t, range, j) = Slice(s, range, j)
  /\ Slice(t, range, i) = {k \in Slice(s, range, i) : k < e}
  /\ Slice(t, range, i + 1) = {k \in Slice(s, range, i) : e <= k}
  /\ \A j \in i + 2 .. Len(s) + 2 : Slice(t, range, j) = Slice(s, range, j - 1)

LEMMA DividedSlices ==
  ASSUME NEW s, NEW i, NEW e, NEW t, Inserted(Int, s, i, e, t), Ascending(t),
         NEW range \in SUBSET Int
  PROVE  OneSliceDivided(s, i, e, t, range)
<1>1. /\ s \in Seq(Int) /\ Len(s) \in Nat /\ Len(t) = Len(s) + 1 /\ i \in 1 .. Len(s) + 1
      /\ \A j \in 1 .. Len(s) : s[j] \in Int
  BY DEF Inserted
<1>2. ASSUME NEW j \in 1 .. Len(s) + 1
      PROVE  t[j] = IF j < i THEN s[j] ELSE IF j = i THEN e ELSE s[j - 1]
  BY DEF Inserted
<1>3. Ascending(s) /\ e \in Int /\ (i > 1 => s[i - 1] < e) /\ (i <= Len(s) => e < s[i])
  BY RemovedAscends DEF Fits
<1>4. ASSUME NEW j \in 1 .. i - 1
      PROVE  Slice(t, range, j) = Slice(s, range, j)
  <2>1. j \in 1 .. Len(s) /\ j <= Len(t) /\ t[j] = s[j]
    BY <1>1, <1>2
  <2>2. j > 1 => t[j - 1] = s[j - 1]
    BY <1>1, <1>2, <2>1
  <2> QED
    BY <2>1, <2>2 DEF Slice
<1>5. Slice(t, range, i) = {k \in Slice(s, range, i) : k < e}
  <2>1. t[i] = e /\ i <= Len(t)
    BY <1>1, <1>2
  <2>2. i > 1 => t[i - 1] = s[i - 1]
    BY <1>1, <1>2
  <2>3. ASSUME i <= Len(s), NEW k \in range, k < e PROVE k < s[i]
    BY <1>1, <1>3, <2>3
  <2>4. ASSUME NEW k
        PROVE  k \in Slice(t, range, i) <=> k \in {x \in Slice(s, range, i) : x < e}
    BY <2>1, <2>2, <2>3 DEF Slice
  <2> QED
    BY <2>4
<1>6. Slice(t, range, i + 1) = {k \in Slice(s, range, i) : e <= k}
  <2> DEFINE q == i + 1
  <2>1. q > 1 /\ t[q - 1] = e
    BY <1>1, <1>2
  <2>2. (q <= Len(t) <=> i <= Len(s)) /\ (i <= Len(s) => t[q] = s[i])
    BY <1>1, <1>2
  <2> HIDE DEF q
  <2>3. ASSUME i > 1, NEW k \in range, e <= k PROVE s[i - 1] <= k
    <3> DEFINE p == i - 1
    <3>1. p \in 1 .. Len(s)
      BY <1>1, <2>3
    <3>2. s[p] < e
      BY <1>3, <2>3
    <3> HIDE DEF p
    <3>3. s[p] <= k
      BY <1>1, <1>3, <2>3, <3>1, <3>2
    <3> QED
      BY <3>3 DEF p
  <2>4. ASSUME NEW k
        PROVE  k \in Slice(t, range, q) <=> k \in {x \in Slice(s, range, i) : e <= x}
    BY <2>1, <2>2, <2>3 DEF Slice
  <2>5. Slice(t, range, q) = {k \in Slice(s, range, i) : e <= k}
    BY <2>4
  <2> QED
    BY <2>5 DEF q
<1>7. ASSUME NEW j \in i + 2 .. Len(s) + 2
      PROVE  Slice(t, range, j) = Slice(s, range, j - 1)
  <2> DEFINE p == j - 1
  <2>1. /\ j > 1 /\ p > 1 /\ p \in 1 .. Len(s) + 1 /\ (j <= Len(t) <=> p <= Len(s))
        /\ p > i
    BY <1>1
  <2>2. t[p] = s[p - 1]
    BY <1>1, <1>2, <2>1
  <2>3. j <= Len(t) => t[j] = s[p]
    BY <1>1, <1>2, <2>1
  <2>4. Slice(t, range, j) = Slice(s, range, p)
    <3>1. t[j - 1] = s[p - 1]
      BY <2>2
    <3> HIDE DEF p
    <3> QED
      BY <2>1, <2>3, <3>1 DEF Slice
  <2> QED
    BY <2>4
<1> QED
  BY <1>4, <1>5, <1>6, <1>7 DEF OneSliceDivided

-----------------------------------------------------------------------------
(* A node takes its key and its descendant more: the split is done.        *)
Grown(T, U, n, i, key, right) ==
  /\ DOMAIN U = DOMAIN T
  /\ \A m \in DOMAIN T \ {n} : U[m] = T[m]
  /\ DOMAIN U[n] = NodeFields
  /\ U[n].is_leaf = T[n].is_leaf /\ U[n].parent = T[n].parent
  /\ U[n].next_leaf = T[n].next_leaf
  /\ Inserted(Int, T[n].keys, i, key, U[n].keys)
  /\ Inserted(Nat, T[n].descendants, i + 1, right, U[n].descendants)

LEMMA NodeGrown ==
  ASSUME NEW T, NEW root, NEW height, NEW range, NEW left, NEW key, NEW right,
         SplitTree(T, root, height, range, left, key, right),
         NEW n, T[left].parent = n, n # NULL,
         NEW i \in 1 .. Len(T[n].keys) + 1, T[n].descendants[i] = left,
         NEW U, Grown(T, U, n, i, key, right)
  PROVE  WholeTree(U, root, height, range)
<1> DEFINE keys == T[n].keys
           descs == T[n].descendants
           cover == BothRanges(range, left, right)
<1>1. /\ left \in DOMAIN T /\ right \in DOMAIN T /\ left # right
      /\ Tree(T, root, height, range, cover, {right})
      /\ height[left] = height[right] /\ T[right].parent = n
      /\ key \in range[right] /\ \A k \in range[left] : k < key
      /\ \A k \in range[right] : key <= k
  BY DEF SplitTree
<1>2. /\ IsFiniteSet(DOMAIN T) /\ DOMAIN T \subseteq Nat
      /\ height \in [Nat -> Nat] /\ range \in [Nat -> SUBSET Int]
      /\ root \in DOMAIN T /\ T[root].parent = NULL /\ cover[root] = Int
      /\ left # root /\ right # root
  BY <1>1 DEF Tree
<1>3. /\ left \in Nat /\ right \in Nat
      /\ cover[left] = range[left] \cup range[right]
      /\ \A m \in Nat \ {left} : cover[m] = range[m]
  BY <1>1, <1>2 DEF BothRanges
<1>4. /\ n \in DOMAIN T /\ ~T[n].is_leaf /\ height[n] = height[left] + 1
      /\ n # left /\ n # right /\ height[left] \in Nat
  <2>1. left \in DOMAIN T /\ left \notin {right} /\ left # root
    BY <1>1, <1>2
  <2> HIDE DEF cover
  <2>2. Listed(T, left) /\ height[T[left].parent] = height[left] + 1
    BY <1>1, <2>1, TreeFacts
  <2>3. n \in DOMAIN T /\ ~T[n].is_leaf
    BY <2>2 DEF Listed
  <2>4. height[left] \in Nat
    BY <1>1, <1>2
  <2>5. height[n] # height[left]
    BY <2>2, <2>4
  <2> QED
    BY <1>1, <2>2, <2>3, <2>4, <2>5
<1> HIDE DEF cover
<1>5. /\ IsNode(T[n]) /\ (\A j \in 1 .. Len(keys) : keys[j] \in range[n])
      /\ (\A j \in 1 .. Len(keys) + 1 : Link(T, height, range, cover, n, j))
      /\ range[n] \subseteq Int /\ range[n] # {}
  BY <1>1, <1>4, TreeFacts
<1>6. /\ keys \in Seq(Int) /\ Ascending(keys) /\ Len(keys) \in Nat
      /\ descs \in Seq(Nat) /\ Len(descs) = Len(keys) + 1
      /\ i \in 1 .. Len(keys) + 1 /\ i \in Nat
  BY <1>4, <1>5 DEF IsNode
<1>7. Len(keys) \in Nat /\ i \in Nat /\ 1 <= i /\ i <= Len(keys) + 1
  BY <1>6
<1>8. /\ Inserted(Int, keys, i, key, U[n].keys)
      /\ Inserted(Nat, descs, i + 1, right, U[n].descendants)
      /\ DOMAIN U = DOMAIN T /\ (\A m \in DOMAIN T \ {n} : U[m] = T[m])
      /\ DOMAIN U[n] = NodeFields /\ U[n].is_leaf = T[n].is_leaf /\ U[n].parent = T[n].parent
  BY DEF Grown
<1>9. cover[left] = Slice(keys, range[n], i) /\ range[left] # {} /\ range[left] \subseteq Int
      /\ range[right] \subseteq Int
  BY <1>1, <1>5, TreeFacts DEF Link
<1>10. key \in Int /\ key \in range[n] /\ Fits(keys, i, key)
  <2>1. key \in Slice(keys, range[n], i)
    BY <1>1, <1>3, <1>9
  <2>2. PICK k \in range[left] : k \in Slice(keys, range[n], i) /\ k < key /\ k \in Int
    BY <1>1, <1>3, <1>9
  <2>3. key \in Int
    BY <1>1, <1>9
  <2>4. i > 1 => keys[i - 1] < key
    <3> SUFFICES ASSUME i > 1 PROVE keys[i - 1] < key
      OBVIOUS
    <3> DEFINE p == i - 1
    <3>1. p \in 1 .. Len(keys)
      BY <1>6
    <3>2. keys[p] <= k
      BY <2>2 DEF Slice
    <3> HIDE DEF p, keys
    <3>3. keys[p] < key
      BY <1>6, <2>2, <2>3, <3>1, <3>2
    <3> QED
      BY <3>3 DEF p
  <2> QED
    BY <2>1, <2>3, <2>4 DEF Slice, Fits
<1>11. Ascending(U[n].keys) /\ OneSliceDivided(keys, i, key, U[n].keys, range[n])
  <2> DEFINE t == U[n].keys
             S == range[n]
  <2> HIDE DEF t, S, keys
  <2>1. Inserted(Int, keys, i, key, t) /\ Ascending(keys) /\ Fits(keys, i, key) /\ S \in SUBSET Int
    BY <1>5, <1>6, <1>8, <1>10 DEF t, S
  <2>2. Ascending(t)
    BY <2>1, InsertedAscends
  <2>3. OneSliceDivided(keys, i, key, t, S)
    BY <2>1, <2>2, DividedSlices
  <2> QED
    BY <2>2, <2>3 DEF t, S
<1>12. /\ U[n].keys \in Seq(Int) /\ Len(U[n].keys) = Len(keys) + 1
       /\ U[n].descendants \in Seq(Nat) /\ Len(U[n].descendants) = Len(keys) + 2
       /\ \A j \in 1 .. Len(keys) + 1 :
            U[n].keys[j] = IF j < i THEN keys[j] ELSE IF j = i THEN key ELSE keys[j - 1]
       /\ \A j \in 1 .. Len(keys) + 2 :
            U[n].descendants[j] = IF j < i + 1 THEN descs[j]
                                  ELSE IF j = i + 1 THEN right ELSE descs[j - 1]
  <2>1. Len(descs) + 1 = Len(keys) + 2
    BY <1>6
  <2> HIDE DEF keys, descs
  <2> QED
    BY <1>6, <1>8, <2>1 DEF Inserted
<1>13. IsNode(U[n])
  <2>1. Len(U[n].descendants) = Len(U[n].keys) + 1
    BY <1>6, <1>12
  <2>2. ~U[n].is_leaf /\ U[n].is_leaf \in BOOLEAN
    BY <1>4, <1>5, <1>8 DEF IsNode
  <2> QED
    BY <1>8, <1>11, <1>12, <2>1, <2>2 DEF IsNode
<1> HIDE DEF keys, descs
<1>14. ASSUME NEW j \in 1 .. Len(U[n].keys) + 1
       PROVE  Link(U, height, range, range, n, j)
  <2>1. ASSUME NEW d, U[n].descendants[j] = d, d \in DOMAIN T, T[d].parent = n,
               height[n] = height[d] + 1, range[d] = Slice(U[n].keys, range[n], j)
        PROVE  Link(U, height, range, range, n, j)
    <3>1. d # n
      BY <1>2, <2>1
    <3> QED
      BY <1>8, <2>1, <3>1 DEF Link
  <2>2. j \in 1 .. Len(keys) + 2
    BY <1>6, <1>12
  <2>3. ASSUME NEW q \in 1 .. Len(keys) + 1
        PROVE  /\ descs[q] \in DOMAIN T /\ T[descs[q]].parent = n
               /\ height[n] = height[descs[q]] + 1
               /\ cover[descs[q]] = Slice(keys, range[n], q)
    BY <1>5 DEF Link, keys, descs
  <2>4. ASSUME NEW q \in 1 .. Len(keys) + 1, q # i
        PROVE  range[descs[q]] = Slice(keys, range[n], q)
    <3>1. descs[q] # left
      <4> SUFFICES ASSUME descs[q] = left PROVE FALSE
        OBVIOUS
      <4>1. q \in 1 .. Len(T[n].keys) + 1 /\ T[n].descendants[i] = T[n].descendants[q]
        BY DEF keys, descs
      <4> QED
        BY <1>1, <1>4, <2>4, <4>1, DescendantsDiffer
    <3> QED
      BY <1>2, <1>3, <2>3, <3>1
  <2>5. CASE j < i
    <3>1. j \in 1 .. i - 1 /\ j \in 1 .. Len(keys) + 1 /\ j # i /\ j < i + 1
      BY <1>7, <2>2, <2>5
    <3>2. U[n].descendants[j] = descs[j]
      BY <1>12, <2>2, <3>1
    <3>3. range[descs[j]] = Slice(U[n].keys, range[n], j)
      BY <1>11, <2>4, <3>1 DEF OneSliceDivided
    <3> QED
      BY <2>1, <2>3, <3>1, <3>2, <3>3
  <2>6. CASE j = i
    <3>1. j \in 1 .. Len(keys) + 1 /\ j < i + 1
      BY <1>6, <2>6
    <3>2. U[n].descendants[j] = left
      BY <1>12, <2>2, <2>6, <3>1 DEF descs
    <3>3. range[left] = Slice(U[n].keys, range[n], j)
      <4>1. Slice(U[n].keys, range[n], i) = {k \in cover[left] : k < key}
        BY <1>9, <1>11 DEF OneSliceDivided
      <4>2. \A k \in range[left] : k \in Int /\ k < key
        BY <1>1, <1>9
      <4>3. \A k \in range[right] : k \in Int /\ ~(k < key)
        BY <1>1, <1>9, <1>10
      <4> QED
        BY <1>3, <2>6, <4>1, <4>2, <4>3
    <3> QED
      BY <1>1, <1>4, <2>1, <3>2, <3>3
  <2>7. CASE j = i + 1
    <3>1. U[n].descendants[j] = right
      BY <1>12, <2>2, <2>7
    <3>2. range[right] = Slice(U[n].keys, range[n], j)
      <4>1. Slice(U[n].keys, range[n], i + 1) = {k \in cover[left] : key <= k}
        BY <1>9, <1>11 DEF OneSliceDivided
      <4>2. \A k \in range[left] : k \in Int /\ ~(key <= k)
        BY <1>1, <1>9, <1>10
      <4>3. \A k \in range[right] : k \in Int /\ key <= k
        BY <1>1, <1>9
      <4> QED
        BY <1>3, <2>7, <4>1, <4>2, <4>3
    <3> QED
      BY <1>1, <1>4, <2>1, <3>1, <3>2
  <2>8. CASE j > i + 1
    <3> DEFINE q == j - 1
    <3>1. q \in 1 .. Len(keys) + 1 /\ q # i /\ j \in i + 2 .. Len(keys) + 2
      BY <1>7, <2>2, <2>8
    <3>2. U[n].descendants[j] = descs[q] /\ ~(j < i + 1) /\ j # i + 1
      BY <1>6, <1>12, <2>2, <2>8
    <3>3. Slice(U[n].keys, range[n], j) = Slice(keys, range[n], q)
      BY <1>11, <3>1 DEF OneSliceDivided
    <3> HIDE DEF q
    <3>4. range[descs[q]] = Slice(U[n].keys, range[n], j)
      BY <2>4, <3>1, <3>3
    <3> QED
      BY <2>1, <2>3, <3>1, <3>2, <3>4
  <2>9. i \in Int /\ j \in Int
    BY <1>6, <2>2
  <2> QED
    BY <2>5, <2>6, <2>7, <2>8, <2>9
<1>15. ASSUME NEW j \in 1 .. Len(U[n].keys)
       PROVE  U[n].keys[j] \in range[n]
  <2>1. j \in 1 .. Len(keys) + 1
    BY <1>12
  <2>2. CASE j < i
    <3>1. j \in 1 .. Len(keys)
      BY <1>6, <2>1, <2>2
    <3> QED
      BY <1>5, <1>12, <2>1, <2>2, <3>1 DEF keys
  <2>3. CASE j = i
    BY <1>10, <1>12, <2>1, <2>3, SMTT(30)
  <2>4. CASE j > i
    <3> DEFINE q == j - 1
    <3>1. q \in 1 .. Len(keys)
      BY <1>6, <2>1, <2>4
    <3>2. U[n].keys[j] = keys[q]
      BY <1>12, <2>1, <2>4
    <3>3. keys[q] \in range[n]
      BY <1>5, <3>1
    <3> HIDE DEF q
    <3> QED
      BY <3>2, <3>3
  <2> QED
    BY <1>6, <2>1, <2>2, <2>3, <2>4
<1>16. ASSUME NEW m \in DOMAIN U
       PROVE  Content(U, height, range, range, m)
  <2>1. CASE m = n
    BY <1>4, <1>5, <1>8, <1>13, <1>14, <1>15, <2>1 DEF Content
  <2>2. CASE m # n
    <3>1. m \in DOMAIN T /\ U[m] = T[m]
      BY <1>8, <2>2
    <3>2. Content(T, height, range, cover, m)
      BY <1>1, <3>1 DEF Tree
    <3>3. SameBelow(T, U, height, height, cover, range, m)
      <4> SUFFICES ASSUME NEW d \in DOMAIN T, T[d].parent = m
                   PROVE  U[d].parent = m /\ range[d] = cover[d]
        BY <1>8 DEF SameBelow
      <4>1. d # left /\ d \in Nat
        BY <1>2, <2>2
      <4> QED
        BY <1>3, <1>8, <4>1
    <3>4. SameNode(T, U, m)
      BY <3>1, <3>2 DEF SameNode, Content, IsNode
    <3> QED
      BY <3>2, <3>3, <3>4, SameContent
  <2> QED
    BY <2>1, <2>2
<1>17. ASSUME NEW m \in DOMAIN U \ {root}
       PROVE  Listed(U, m)
  <2>1. ASSUME NEW j \in 1 .. Len(U[n].keys) + 1, U[n].descendants[j] = m, T[m].parent = n
        PROVE  Listed(U, m)
    <3>1. U[m].parent = n
      BY <1>8, <2>1
    <3> QED
      BY <1>4, <1>8, <2>1, <3>1 DEF Listed
  <2>2. CASE m = right
    <3>1. Len(U[n].keys) = Len(keys) + 1
      BY <1>12
    <3>2. i + 1 \in 1 .. Len(U[n].keys) + 1 /\ i + 1 \in 1 .. Len(keys) + 2
          /\ ~(i + 1 < i + 1)
      BY <1>7, <3>1
    <3>3. U[n].descendants[i + 1] = right
      BY <1>12, <3>2
    <3> QED
      BY <1>1, <2>1, <2>2, <3>2, <3>3
  <2>3. CASE m # right
    <3>1. Listed(T, m)
      BY <1>1, <1>8, <2>3 DEF Tree
    <3>2. CASE T[m].parent = n
      <4>1. PICK q \in 1 .. Len(keys) + 1 : descs[q] = m
        BY <3>1, <3>2 DEF Listed, keys, descs
      <4>2. CASE q <= i
        <5>1. Len(U[n].keys) = Len(keys) + 1
          BY <1>12
        <5>2. q \in 1 .. Len(keys) + 2 /\ q < i + 1 /\ q \in 1 .. Len(U[n].keys) + 1
          BY <1>7, <4>2, <5>1
        <5>3. U[n].descendants[q] = m
          BY <1>12, <4>1, <5>2
        <5> QED
          BY <2>1, <3>2, <5>2, <5>3
      <4>3. CASE q > i
        <5> DEFINE j == q + 1
        <5>1. j \in 1 .. Len(keys) + 2 /\ ~(j < i + 1) /\ j # i + 1 /\ j - 1 = q
              /\ j \in 1 .. Len(U[n].keys) + 1
          BY <1>6, <1>12, <4>3
        <5> HIDE DEF j
        <5>2. U[n].descendants[j] = m
          BY <1>12, <4>1, <5>1
        <5> QED
          BY <2>1, <3>2, <5>1, <5>2
      <4> QED
        BY <1>6, <4>2, <4>3
    <3>3. CASE T[m].parent # n
      <4>1. T[m].parent \in DOMAIN T
        BY <3>1 DEF Listed
      <4>2. U[T[m].parent] = T[T[m].parent] /\ U[m].parent = T[m].parent
        BY <1>8, <3>3, <4>1
      <4> QED
        BY <1>8, <3>1, <4>1, <4>2 DEF Listed
    <3> QED
      BY <3>2, <3>3
  <2> QED
    BY <2>2, <2>3
<1>18. range[root] = Int /\ U[root].parent = NULL
  BY <1>2, <1>3, <1>8
<1>19. \A m \in DOMAIN U : height[m] <= height[root]
  BY <1>1, <1>8 DEF Tree
<1>20. Chained(U, range)
  <2>1. Chained(T, range)
    BY DEF SplitTree
  <2>2. /\ DOMAIN U = DOMAIN T /\ \A m \in DOMAIN T \ {n} : U[m] = T[m]
        /\ U[n].is_leaf = T[n].is_leaf /\ U[n].next_leaf = T[n].next_leaf
    BY DEF Grown
  <2>3. \A m \in DOMAIN T : ~T[m].is_leaf => T[m].next_leaf = NULL
    BY <2>1 DEF Chained
  <2>4. SameLeaves(T, U, range, range)
    BY <1>4, <2>2, <2>3 DEF SameLeaves
  <2> QED
    BY <2>1, <2>4, SameChain
<1> QED
  BY <1>2, <1>8, <1>16, <1>17, <1>18, <1>19, <1>20 DEF WholeTree, Tree

-----------------------------------------------------------------------------
(* The root was split: the halves come under a new one.                    *)
UnderNewRoot(T, U, N, left, key, right) ==
  /\ DOMAIN U = DOMAIN T \cup {N}
  /\ \A m \in DOMAIN T :
       /\ SameNode(T, U, m)
       /\ U[m].parent = IF m \in {left, right} THEN N ELSE T[m].parent
  /\ DOMAIN U[N] = NodeFields /\ U[N].is_leaf = FALSE /\ U[N].parent = NULL
  /\ U[N].keys = <<key>> /\ U[N].descendants = <<left, right>>
  /\ U[N].next_leaf = NULL

LEMMA RootSplit ==
  ASSUME NEW T, NEW root, NEW height, NEW range, NEW left, NEW key, NEW right,
         SplitTree(T, root, height, range, left, key, right),
         T[left].parent = NULL, NEW N \in Nat \ DOMAIN T,
         NEW U, UnderNewRoot(T, U, N, left, key, right)
  PROVE  WholeTree(U, N, [height EXCEPT ![N] = height[left] + 1], [range EXCEPT ![N] = Int])
<1> DEFINE cover == BothRanges(range, left, right)
           newHeight == [height EXCEPT ![N] = height[left] + 1]
           newRange == [range EXCEPT ![N] = Int]
<1>1. /\ left \in DOMAIN T /\ right \in DOMAIN T /\ left # right
      /\ Tree(T, root, height, range, cover, {right})
      /\ height[left] = height[right] /\ T[right].parent = NULL
      /\ key \in range[right] /\ \A k \in range[left] : k < key
      /\ \A k \in range[right] : key <= k
  BY DEF SplitTree
<1>2. /\ IsFiniteSet(DOMAIN T) /\ DOMAIN T \subseteq Nat
      /\ height \in [Nat -> Nat] /\ range \in [Nat -> SUBSET Int]
      /\ root \in DOMAIN T /\ T[root].parent = NULL /\ cover[root] = Int
      /\ \A m \in DOMAIN T : height[m] <= height[root] /\ Content(T, height, range, cover, m)
  BY <1>1 DEF Tree
<1>3. left = root
  <2> HIDE DEF cover
  <2>1. left # root => Listed(T, left)
    BY <1>1 DEF Tree
  <2> QED
    BY <1>2, <2>1, NullAssumption DEF Listed
<1>4. /\ left \in Nat /\ right \in Nat /\ N # left /\ N # right
      /\ cover[left] = range[left] \cup range[right]
      /\ \A m \in Nat \ {left} : cover[m] = range[m]
  BY <1>1, <1>2 DEF BothRanges
<1> HIDE DEF cover
<1>5. /\ newHeight \in [Nat -> Nat] /\ newHeight[N] = height[left] + 1
      /\ \A m \in DOMAIN T : newHeight[m] = height[m]
  BY <1>1, <1>2
<1>6. /\ newRange \in [Nat -> SUBSET Int] /\ newRange[N] = Int
      /\ \A m \in DOMAIN T : newRange[m] = range[m]
  BY <1>1, <1>2
<1> HIDE DEF newHeight, newRange
<1>7. /\ DOMAIN U = DOMAIN T \cup {N}
      /\ \A m \in DOMAIN T : SameNode(T, U, m)
      /\ U[left].parent = N /\ U[right].parent = N
      /\ \A m \in DOMAIN T \ {left, right} : U[m].parent = T[m].parent
  BY <1>1 DEF UnderNewRoot
<1>8. /\ DOMAIN U[N] = NodeFields /\ U[N].is_leaf = FALSE /\ U[N].parent = NULL
      /\ U[N].keys = <<key>> /\ U[N].descendants = <<left, right>>
  BY DEF UnderNewRoot
<1>9. key \in Int
  BY <1>1, <1>2, <1>4
<1>10. IsNode(U[N])
  <2>1. <<key>> \in Seq(Int) /\ Len(<<key>>) = 1
    BY <1>9
  <2>2. <<left, right>> \in Seq(Nat) /\ Len(<<left, right>>) = 2
    BY <1>4
  <2>3. Ascending(<<key>>)
    BY <2>1 DEF Ascending
  <2>4. /\ U[N].keys \in Seq(Int) /\ Len(U[N].keys) = 1 /\ Ascending(U[N].keys)
        /\ U[N].descendants \in Seq(Nat) /\ Len(U[N].descendants) = Len(U[N].keys) + 1
    BY <1>8, <2>1, <2>2, <2>3
  <2>5. DOMAIN U[N] = NodeFields /\ U[N].is_leaf \in BOOLEAN /\ ~U[N].is_leaf
    BY <1>8
  <2> QED
    BY <2>4, <2>5 DEF IsNode
<1>11. Content(U, newHeight, newRange, newRange, N)
  <2>1. Link(U, newHeight, newRange, newRange, N, 1)
    <3>1. range[left] = Slice(<<key>>, Int, 1)
      <4>1. range[left] \cup range[right] = Int
        BY <1>2, <1>3, <1>4
      <4>2. Slice(<<key>>, Int, 1) = {k \in Int : k < key}
        BY DEF Slice
      <4>3. \A k \in range[right] : ~(k < key)
        BY <1>1, <1>2, <1>4, <1>9
      <4> QED
        BY <1>1, <4>1, <4>2, <4>3
    <3> QED
      BY <1>1, <1>5, <1>6, <1>7, <1>8, <3>1 DEF Link
  <2>2. Link(U, newHeight, newRange, newRange, N, 2)
    <3>1. range[right] = Slice(<<key>>, Int, 2)
      <4>1. range[left] \cup range[right] = Int
        BY <1>2, <1>3, <1>4
      <4>2. Slice(<<key>>, Int, 2) = {k \in Int : key <= k}
        BY DEF Slice
      <4>3. \A k \in range[left] : ~(key <= k)
        BY <1>1, <1>2, <1>4, <1>9
      <4> QED
        BY <1>1, <4>1, <4>2, <4>3
    <3> QED
      BY <1>1, <1>5, <1>6, <1>7, <1>8, <3>1 DEF Link
  <2>3. \A i \in 1 .. Len(U[N].keys) + 1 : i = 1 \/ i = 2
    BY <1>8
  <2>4. \A i \in 1 .. Len(U[N].keys) : U[N].keys[i] \in Int
    BY <1>8, <1>9
  <2> QED
    BY <1>6, <1>8, <1>10, <2>1, <2>2, <2>3, <2>4 DEF Content
<1>12. ASSUME NEW m \in DOMAIN T
       PROVE  Content(U, newHeight, newRange, newRange, m) /\ newHeight[m] <= newHeight[N]
  <2>1. SameBelow(T, U, height, newHeight, cover, newRange, m)
    <3> SUFFICES ASSUME NEW d \in DOMAIN T, T[d].parent = m
                 PROVE  /\ d \in DOMAIN U /\ U[d].parent = m
                        /\ newHeight[d] = height[d] /\ newRange[d] = cover[d]
      BY DEF SameBelow
    <3>1. d # left /\ d # right /\ d \in Nat
      BY <1>1, <1>2, NullAssumption
    <3> QED
      BY <1>4, <1>5, <1>6, <1>7, <3>1
  <2>2. Content(T, height, range, cover, m) /\ SameNode(T, U, m)
    BY <1>2, <1>7
  <2>3. Content(U, newHeight, newRange, newRange, m)
    BY <1>5, <1>6, <2>1, <2>2, SameContent
  <2>4. height[m] \in Nat /\ height[left] \in Nat /\ height[m] <= height[left]
    BY <1>1, <1>2, <1>3
  <2> QED
    BY <1>5, <2>3, <2>4
<1>13. ASSUME NEW m \in DOMAIN T PROVE Listed(U, m)
  <2>1. CASE m = left
    BY <1>7, <1>8, <2>1 DEF Listed
  <2>2. CASE m = right
    <3>1. 2 \in 1 .. Len(U[N].keys) + 1 /\ U[N].descendants[2] = right
      BY <1>8
    <3> QED
      BY <1>7, <1>8, <2>2, <3>1 DEF Listed
  <2>3. CASE m \notin {left, right}
    <3>1. Listed(T, m)
      BY <1>1, <1>3, <2>3 DEF Tree
    <3>2. T[m].parent \in DOMAIN T
      BY <3>1 DEF Listed
    <3>3. /\ U[m].parent = T[m].parent /\ T[m].parent \in DOMAIN U
          /\ SameNode(T, U, T[m].parent)
      BY <1>7, <2>3, <3>2
    <3> QED
      BY <3>1, <3>3, SameListed
  <2> QED
    BY <2>1, <2>2, <2>3
<1>14. IsFiniteSet(DOMAIN U) /\ DOMAIN U \subseteq Nat
  BY <1>2, <1>7, FS_AddElement
<1>15. newHeight[N] <= newHeight[N]
  BY <1>5
<1>16. Chained(U, newRange)
  <2>1. Chained(T, range)
    BY DEF SplitTree
  <2>2. \A m \in DOMAIN T : ~T[m].is_leaf => T[m].next_leaf = NULL
    BY <2>1 DEF Chained
  <2>3. U[N].next_leaf = NULL
    BY DEF UnderNewRoot
  <2>4. SameLeaves(T, U, range, newRange)
    BY <1>6, <1>7, <1>8, <2>2, <2>3 DEF SameLeaves, SameNode
  <2> QED
    BY <2>1, <2>4, SameChain
<1> QED
  BY <1>5, <1>6, <1>7, <1>8, <1>11, <1>12, <1>13, <1>14, <1>15, <1>16
     DEF WholeTree, Tree, newHeight, newRange

(* An empty root gives way to its only descendant.                         *)
RootLeft(T, U, root, child) ==
  /\ DOMAIN U = DOMAIN T \ {root}
  /\ \A m \in DOMAIN T \ {root} :
       /\ SameNode(T, U, m)
       /\ U[m].parent = IF m = child THEN NULL ELSE T[m].parent

LEMMA RootAdjusted ==
  ASSUME NEW T, NEW root, NEW height, NEW range, WholeTree(T, root, height, range),
         ~T[root].is_leaf, T[root].keys = <<>>,
         NEW child, child = T[root].descendants[1], NEW U, RootLeft(T, U, root, child)
  PROVE  WholeTree(U, child, height, range)
<1>1. /\ IsFiniteSet(DOMAIN T) /\ DOMAIN T \subseteq Nat
      /\ height \in [Nat -> Nat] /\ range \in [Nat -> SUBSET Int]
      /\ root \in DOMAIN T /\ T[root].parent = NULL /\ range[root] = Int
      /\ \A m \in DOMAIN T : height[m] <= height[root] /\ Content(T, height, range, range, m)
      /\ \A m \in DOMAIN T \ {root} : Listed(T, m)
  BY DEF WholeTree, Tree
<1>2. Link(T, height, range, range, root, 1)
  <2>1. 1 \in 1 .. Len(T[root].keys) + 1
    OBVIOUS
  <2> QED
    BY <1>1, <2>1 DEF Content
<1>3. /\ child \in DOMAIN T /\ T[child].parent = root
      /\ height[root] = height[child] + 1 /\ range[child] = Slice(<<>>, Int, 1)
  BY <1>1, <1>2 DEF Link
<1>4. range[child] = Int
  BY <1>3 DEF Slice
<1>5. child # root /\ root \in Nat
  BY <1>1, <1>3, NullAssumption
<1>6. /\ DOMAIN U = DOMAIN T \ {root} /\ U[child].parent = NULL
      /\ \A m \in DOMAIN T \ {root} : SameNode(T, U, m)
      /\ \A m \in DOMAIN T \ {root, child} : U[m].parent = T[m].parent
  BY <1>3, <1>5 DEF RootLeft
<1>7. ASSUME NEW m \in DOMAIN T \ {root} PROVE height[m] <= height[child]
  <2>1. height[T[m].parent] = height[m] + 1
    BY TreeFacts DEF WholeTree
  <2>2. T[m].parent \in DOMAIN T
    BY <1>1 DEF Listed
  <2>3. height[m] \in Nat /\ height[child] \in Nat /\ height[m] + 1 <= height[child] + 1
    BY <1>1, <1>3, <2>1, <2>2
  <2> QED
    BY <2>3
<1>8. ASSUME NEW m \in DOMAIN T \ {root} PROVE Content(U, height, range, range, m)
  <2>1. SameBelow(T, U, height, height, range, range, m)
    <3> SUFFICES ASSUME NEW d \in DOMAIN T, T[d].parent = m
                 PROVE  d \in DOMAIN U /\ U[d].parent = m
      BY DEF SameBelow
    <3>1. d # root /\ d # child
      BY <1>1, <1>3, <1>5, NullAssumption
    <3> QED
      BY <1>6, <3>1
  <2>2. Content(T, height, range, range, m) /\ SameNode(T, U, m)
    BY <1>1, <1>6
  <2> QED
    BY <2>1, <2>2, SameContent
<1>9. ASSUME NEW m \in DOMAIN T \ {root, child} PROVE Listed(U, m)
  <2>1. Listed(T, m)
    BY <1>1
  <2>2. T[m].parent # root
    <3> SUFFICES ASSUME T[m].parent = root PROVE FALSE
      OBVIOUS
    <3>1. \E i \in 1 .. Len(T[root].keys) + 1 : T[root].descendants[i] = m
      BY <2>1 DEF Listed
    <3> QED
      BY <3>1
  <2>3. T[m].parent \in DOMAIN T \ {root}
    BY <2>1, <2>2 DEF Listed
  <2> QED
    BY <1>6, <2>1, <2>3, SameListed
<1>10. IsFiniteSet(DOMAIN U) /\ DOMAIN U \subseteq Nat
  <2>1. IsFiniteSet(DOMAIN T \ {root})
    BY <1>1, FS_RemoveElement
  <2> QED
    BY <1>1, <1>6, <2>1
<1>11. Chained(U, range)
  <2>1. Chained(T, range)
    BY DEF WholeTree
  <2>2. \A m \in DOMAIN T : ~T[m].is_leaf => T[m].next_leaf = NULL
    BY <2>1 DEF Chained
  <2>3. SameLeaves(T, U, range, range)
    BY <1>6, <2>2 DEF SameLeaves, SameNode
  <2> QED
    BY <2>1, <2>3, SameChain
<1> QED
  BY <1>1, <1>3, <1>4, <1>5, <1>6, <1>7, <1>8, <1>9, <1>10, <1>11 DEF WholeTree, Tree

-----------------------------------------------------------------------------
(* Two neighbors in one.                                                   *)
LEMMA ConcatAscends ==
  ASSUME NEW a \in Seq(Int), NEW b \in Seq(Int), Ascending(a), Ascending(b),
         \A i \in 1 .. Len(a) : \A j \in 1 .. Len(b) : a[i] < b[j]
  PROVE  Ascending(a \o b)
<1> DEFINE t == a \o b
<1>1. /\ t \in Seq(Int) /\ Len(t) = Len(a) + Len(b) /\ Len(a) \in Nat /\ Len(b) \in Nat
      /\ \A j \in 1 .. Len(a) + Len(b) : t[j] = IF j <= Len(a) THEN a[j] ELSE b[j - Len(a)]
  BY ConcatProps
<1> HIDE DEF t
<1>2. ASSUME NEW i \in 1 .. Len(t), NEW j \in 1 .. Len(t), i < j
      PROVE  t[i] < t[j]
  <2>1. CASE j <= Len(a)
    <3>1. i \in 1 .. Len(a) /\ j \in 1 .. Len(a) /\ t[i] = a[i] /\ t[j] = a[j]
      BY <1>1, <1>2, <2>1
    <3> QED
      BY <1>2, <3>1 DEF Ascending
  <2>2. CASE i <= Len(a) /\ ~(j <= Len(a))
    <3> DEFINE q == j - Len(a)
    <3>1. i \in 1 .. Len(a) /\ q \in 1 .. Len(b) /\ t[i] = a[i] /\ t[j] = b[q]
      BY <1>1, <2>2
    <3> HIDE DEF q
    <3> QED
      BY <3>1
  <2>3. CASE ~(i <= Len(a))
    <3> DEFINE p == i - Len(a)
               q == j - Len(a)
    <3>1. p \in 1 .. Len(b) /\ q \in 1 .. Len(b) /\ p < q /\ ~(j <= Len(a))
          /\ i \in 1 .. Len(a) + Len(b) /\ j \in 1 .. Len(a) + Len(b)
      <4>1. Len(a) \in Nat /\ Len(b) \in Nat /\ Len(t) = Len(a) + Len(b)
        BY <1>1
      <4> QED
        BY <1>2, <2>3, <4>1
    <3>2. p \in 1 .. Len(b) /\ q \in 1 .. Len(b) /\ p < q /\ t[i] = b[p] /\ t[j] = b[q]
      BY <1>1, <2>3, <3>1
    <3> HIDE DEF p, q
    <3> QED
      BY <3>2 DEF Ascending
  <2> QED
    BY <1>1, <1>2, <2>1, <2>2, <2>3
<1> QED
  BY <1>2 DEF Ascending, t

Combined(l, r, k_prime, t) ==
  /\ DOMAIN t = NodeFields
  /\ t.is_leaf = l.is_leaf /\ t.parent = l.parent
  /\ t.keys = l.keys \o Between(l, k_prime) \o r.keys
  /\ t.descendants = l.descendants \o r.descendants
  /\ t.next_leaf = r.next_leaf

LeafNeighbors(l, r, k_prime) ==
  /\ IsNode(l) /\ IsNode(r) /\ l.is_leaf /\ r.is_leaf /\ k_prime \in Int
  /\ \A i \in 1 .. Len(l.keys) : l.keys[i] < k_prime
  /\ \A i \in 1 .. Len(r.keys) : k_prime <= r.keys[i]

BothLeaves(l, r, t) ==
  /\ IsNode(t)
  /\ Len(t.keys) = Len(l.keys) + Len(r.keys)
  /\ \A i \in 1 .. Len(t.keys) :
       t.keys[i] = IF i <= Len(l.keys) THEN l.keys[i] ELSE r.keys[i - Len(l.keys)]

LEMMA CombinedLeaf ==
  ASSUME NEW l, NEW r, NEW k_prime, NEW t, Combined(l, r, k_prime, t),
         LeafNeighbors(l, r, k_prime)
  PROVE  BothLeaves(l, r, t)
<1> USE DEF LeafNeighbors
<1> DEFINE a == l.keys
           b == r.keys
           c == l.descendants
           d == r.descendants
<1>1. /\ a \in Seq(Int) /\ Ascending(a) /\ c \in Seq(Values) /\ Len(c) = Len(a)
      /\ b \in Seq(Int) /\ Ascending(b) /\ d \in Seq(Values) /\ Len(d) = Len(b)
  BY DEF IsNode
<1>2. t.keys = a \o b /\ t.descendants = c \o d /\ DOMAIN t = NodeFields /\ t.is_leaf = l.is_leaf
  <2>1. a \o <<>> = a
    BY <1>1
  <2>2. t.keys = (a \o <<>>) \o b /\ t.descendants = c \o d
    BY DEF Combined, Between
  <2> QED
    BY <2>1, <2>2 DEF Combined
<1>3. \A i \in 1 .. Len(a) : \A j \in 1 .. Len(b) : a[i] < b[j]
  <2>1. \A i \in 1 .. Len(a) : a[i] \in Int /\ a[i] < k_prime
    BY <1>1
  <2>2. \A j \in 1 .. Len(b) : b[j] \in Int /\ k_prime <= b[j]
    BY <1>1
  <2> HIDE DEF a, b
  <2> QED
    BY <2>1, <2>2
<1> HIDE DEF a, b, c, d
<1>4. Ascending(a \o b)
  BY <1>1, <1>3, ConcatAscends
<1>5. /\ a \o b \in Seq(Int) /\ Len(a \o b) = Len(a) + Len(b)
      /\ Len(a) \in Nat /\ Len(b) \in Nat
      /\ \A i \in 1 .. Len(a) + Len(b) :
           (a \o b)[i] = IF i <= Len(a) THEN a[i] ELSE b[i - Len(a)]
  BY <1>1, ConcatProps
<1>6. c \o d \in Seq(Values) /\ Len(c \o d) = Len(c) + Len(d)
  BY <1>1, ConcatProps
<1>7. IsNode(t)
  BY <1>1, <1>2, <1>4, <1>5, <1>6 DEF IsNode
<1> QED
  BY <1>2, <1>5, <1>7 DEF a, b, BothLeaves

NodeNeighbors(l, r, k_prime) ==
  /\ IsNode(l) /\ IsNode(r) /\ ~l.is_leaf /\ ~r.is_leaf /\ k_prime \in Int
  /\ \A i \in 1 .. Len(l.keys) : l.keys[i] < k_prime
  /\ \A i \in 1 .. Len(r.keys) : k_prime < r.keys[i]

BothNodes(l, r, k_prime, t, c) ==
  /\ IsNode(t)
  /\ Len(t.keys) = c + Len(r.keys) /\ t.keys[c] = k_prime
  /\ LowerKeys(t.keys, c, l.keys) /\ UpperKeys(t.keys, c, r.keys)
  /\ \A i \in 1 .. c : t.descendants[i] = l.descendants[i]
  /\ \A i \in 1 .. Len(r.keys) + 1 : t.descendants[c + i] = r.descendants[i]

LEMMA CombinedNode ==
  ASSUME NEW l, NEW r, NEW k_prime, NEW t, Combined(l, r, k_prime, t),
         NodeNeighbors(l, r, k_prime)
  PROVE  BothNodes(l, r, k_prime, t, Len(l.keys) + 1)
<1> USE DEF NodeNeighbors
<1> DEFINE a == l.keys
           b == r.keys
           d == l.descendants
           e == r.descendants
           c == Len(a) + 1
<1>1. /\ a \in Seq(Int) /\ Ascending(a) /\ d \in Seq(Nat) /\ Len(d) = c
      /\ b \in Seq(Int) /\ Ascending(b) /\ e \in Seq(Nat) /\ Len(e) = Len(b) + 1
      /\ Len(a) \in Nat /\ Len(b) \in Nat
  BY DEF IsNode
<1> DEFINE m == a \o <<k_prime>>
<1>2. t.keys = m \o b /\ t.descendants = d \o e /\ DOMAIN t = NodeFields /\ t.is_leaf = l.is_leaf
  BY DEF Combined, Between
<1>3. /\ \A i \in 1 .. Len(a) : a[i] \in Int /\ a[i] < k_prime
      /\ \A j \in 1 .. Len(b) : b[j] \in Int /\ k_prime < b[j]
  <2>1. \A i \in 1 .. Len(a) : a[i] \in Int
    BY <1>1
  <2>2. \A j \in 1 .. Len(b) : b[j] \in Int
    BY <1>1
  <2> QED
    BY <2>1, <2>2
<1> HIDE DEF a, b, d, e
<1>4. m \in Seq(Int) /\ Len(m) = c /\ m[c] = k_prime /\ \A i \in 1 .. Len(a) : m[i] = a[i]
  BY <1>1
<1>5. Ascending(m)
  <2> DEFINE s == <<k_prime>>
  <2>1. s \in Seq(Int) /\ Len(s) = 1 /\ s[1] = k_prime /\ Ascending(s)
    BY DEF Ascending
  <2> HIDE DEF s
  <2>2. \A i \in 1 .. Len(a) : \A j \in 1 .. Len(s) : a[i] < s[j]
    BY <1>3, <2>1
  <2>3. Ascending(a \o s)
    BY <1>1, <2>1, <2>2, ConcatAscends
  <2> QED
    BY <2>3 DEF s
<1> HIDE DEF m
<1>6. \A i \in 1 .. Len(m) : \A j \in 1 .. Len(b) : m[i] < b[j]
  <2> SUFFICES ASSUME NEW i \in 1 .. Len(m), NEW j \in 1 .. Len(b) PROVE m[i] < b[j]
    OBVIOUS
  <2>1. b[j] \in Int /\ k_prime < b[j]
    BY <1>3
  <2>2. CASE i = c
    BY <1>4, <2>1, <2>2
  <2>3. CASE i # c
    <3>1. i \in 1 .. Len(a)
      BY <1>1, <1>4, <2>3
    <3>2. m[i] \in Int /\ m[i] < k_prime
      BY <1>3, <1>4, <3>1
    <3> QED
      BY <2>1, <3>2
  <2> QED
    BY <2>2, <2>3
<1>7. Ascending(m \o b)
  BY <1>1, <1>4, <1>5, <1>6, ConcatAscends
<1>8. /\ m \o b \in Seq(Int) /\ Len(m \o b) = c + Len(b)
      /\ \A i \in 1 .. c + Len(b) : (m \o b)[i] = IF i <= c THEN m[i] ELSE b[i - c]
  <2>1. /\ m \o b \in Seq(Int) /\ Len(m \o b) = Len(m) + Len(b)
        /\ \A i \in 1 .. Len(m) + Len(b) :
             (m \o b)[i] = IF i <= Len(m) THEN m[i] ELSE b[i - Len(m)]
    BY <1>1, <1>4, ConcatProps
  <2> HIDE DEF c
  <2> QED
    BY <1>4, <2>1
<1>9. /\ d \o e \in Seq(Nat) /\ Len(d \o e) = c + Len(b) + 1
      /\ \A i \in 1 .. c + Len(b) + 1 : (d \o e)[i] = IF i <= c THEN d[i] ELSE e[i - c]
  <2>1. /\ d \o e \in Seq(Nat) /\ Len(d \o e) = Len(d) + Len(e)
        /\ \A i \in 1 .. Len(d) + Len(e) :
             (d \o e)[i] = IF i <= Len(d) THEN d[i] ELSE e[i - Len(d)]
    BY <1>1, ConcatProps
  <2>2. Len(d) + Len(e) = c + Len(b) + 1 /\ Len(d) = c
    BY <1>1
  <2> HIDE DEF c
  <2> QED
    BY <2>1, <2>2
<1> DEFINE tk == t.keys
           td == t.descendants
<1>10. c \in Nat /\ c \in 1 .. Len(tk) /\ c <= c
  BY <1>1, <1>2, <1>8, SMTT(30)
<1>11. /\ tk \in Seq(Int) /\ Ascending(tk) /\ Len(tk) = c + Len(b)
       /\ \A i \in 1 .. c + Len(b) : tk[i] = IF i <= c THEN m[i] ELSE b[i - c]
       /\ \A i \in 1 .. c + Len(b) + 1 : td[i] = IF i <= c THEN d[i] ELSE e[i - c]
  BY <1>2, <1>7, <1>8, <1>9
<1>12. tk[c] = k_prime
  BY <1>4, <1>10, <1>11
<1>13. IsNode(t)
  <2>1. td \in Seq(Nat) /\ Len(td) = Len(tk) + 1
    BY <1>1, <1>2, <1>9, <1>11
  <2>2. t.is_leaf \in BOOLEAN /\ ~t.is_leaf
    BY <1>2 DEF IsNode
  <2> QED
    BY <1>2, <1>11, <2>1, <2>2 DEF IsNode
<1> HIDE DEF tk, td
<1>14. LowerKeys(tk, c, a)
  <2>1. Len(a) = c - 1
    BY <1>1
  <2>2. ASSUME NEW j \in 1 .. c - 1 PROVE a[j] = tk[j]
    <3>1. j \in 1 .. Len(a) /\ j \in 1 .. c + Len(b) /\ j <= c
      BY <1>1, SMTT(30)
    <3> QED
      BY <1>4, <1>11, <3>1
  <2> QED
    BY <1>10, <1>11, <2>1, <2>2 DEF LowerKeys
<1>15. UpperKeys(tk, c, b)
  <2> HIDE DEF c
  <2>1. Len(b) = Len(tk) - c
    BY <1>1, <1>10, <1>11
  <2>2. ASSUME NEW j \in 1 .. Len(tk) - c PROVE b[j] = tk[c + j]
    <3> DEFINE q == c + j
    <3>1. q \in 1 .. c + Len(b) /\ ~(q <= c) /\ q - c = j
      BY <1>1, <1>10, <2>1
    <3> HIDE DEF q
    <3>2. tk[q] = b[j]
      BY <1>11, <3>1
    <3> QED
      BY <3>2 DEF q
  <2> QED
    BY <1>10, <1>11, <2>1, <2>2 DEF UpperKeys
<1>16. ASSUME NEW i \in 1 .. c PROVE td[i] = d[i]
  <2>1. i \in 1 .. c + Len(b) + 1 /\ i <= c
    BY <1>1
  <2> QED
    BY <1>11, <2>1
<1>17. ASSUME NEW i \in 1 .. Len(b) + 1 PROVE td[c + i] = e[i]
  <2> HIDE DEF c
  <2> DEFINE q == c + i
  <2>1. q \in 1 .. c + Len(b) + 1 /\ ~(q <= c) /\ q - c = i
    BY <1>1, <1>10
  <2> HIDE DEF q
  <2>2. td[q] = e[i]
    BY <1>11, <2>1
  <2> QED
    BY <2>2 DEF q
<1> QED
  BY <1>11, <1>12, <1>13, <1>14, <1>15, <1>16, <1>17 DEF a, b, d, e, tk, td, BothNodes

(* left and right are the descendants of p on either side of its i-th key. *)
Neighbors(T, height, range, p, i, left, right, k_prime) ==
  /\ p \in DOMAIN T /\ left \in DOMAIN T /\ right \in DOMAIN T
  /\ p # left /\ p # right /\ left # right
  /\ ~T[p].is_leaf /\ T[left].parent = p /\ T[right].parent = p
  /\ i \in 1 .. Len(T[p].keys) /\ k_prime \in Int
  /\ T[p].descendants[i] = left /\ T[p].descendants[i + 1] = right
  /\ T[p].keys[i] = k_prime
  /\ height[p] = height[left] + 1 /\ height[left] = height[right]
  /\ \A k \in range[left] : k \in Int /\ k < k_prime
  /\ \A k \in range[right] : k \in Int /\ k_prime <= k
  /\ range[left] = Slice(T[p].keys, range[p], i)
  /\ range[right] = Slice(T[p].keys, range[p], i + 1)
  /\ k_prime \in range[right]

LEMMA NeighborsProps ==
  ASSUME NEW T, NEW root, NEW height, NEW range, WholeTree(T, root, height, range),
         NEW p \in DOMAIN T, ~T[p].is_leaf, NEW i \in 1 .. Len(T[p].keys)
  PROVE  Neighbors(T, height, range, p, i, T[p].descendants[i], T[p].descendants[i + 1],
                   T[p].keys[i])
<1> DEFINE keys == T[p].keys
           left == T[p].descendants[i]
           right == T[p].descendants[i + 1]
<1>1. /\ IsNode(T[p]) /\ \A j \in 1 .. Len(keys) + 1 : Link(T, height, range, range, p, j)
      /\ range[p] \subseteq Int
  BY TreeFacts DEF WholeTree
<1>2. keys \in Seq(Int) /\ Ascending(keys) /\ Len(keys) \in Nat
  BY <1>1 DEF IsNode
<1>3. /\ i \in 1 .. Len(keys) + 1 /\ i + 1 \in 1 .. Len(keys) + 1 /\ i # i + 1
      /\ i + 1 > 1 /\ i <= Len(keys) /\ i + 1 - 1 = i /\ i \in Nat
  BY <1>2
<1>4. /\ left \in DOMAIN T /\ T[left].parent = p /\ height[p] = height[left] + 1
      /\ range[left] = Slice(keys, range[p], i)
  BY <1>1, <1>3 DEF Link
<1>5. /\ right \in DOMAIN T /\ T[right].parent = p /\ height[p] = height[right] + 1
      /\ range[right] = Slice(keys, range[p], i + 1)
  BY <1>1, <1>3 DEF Link
<1>6. left # right
  BY <1>3, DescendantsDiffer DEF WholeTree
<1>7. keys[i] \in range[p]
  BY TreeFacts DEF WholeTree
<1> HIDE DEF left, right, keys
<1>8. height[left] \in Nat /\ height[right] \in Nat
  BY <1>4, <1>5 DEF WholeTree, Tree
<1>9. left # p /\ right # p /\ height[left] = height[right]
  BY <1>4, <1>5, <1>8
<1>10. keys[i] \in Int
  BY <1>2, <1>3 DEF keys
<1>11. \A k \in range[left] : k \in Int /\ k < keys[i]
  BY <1>1, <1>3, <1>4 DEF Slice
<1>12. \A k \in range[right] : k \in Int /\ keys[i] <= k
  BY <1>1, <1>3, <1>5 DEF Slice
<1>13. keys[i] \in range[right]
  <2> DEFINE q == i + 1
  <2>1. keys[i] \in range[p]
    BY <1>7
  <2>2. q <= Len(keys) => keys[i] < keys[q]
    <3> SUFFICES ASSUME q <= Len(keys) PROVE keys[i] < keys[q]
      OBVIOUS
    <3>1. i \in 1 .. Len(keys) /\ q \in 1 .. Len(keys) /\ i < q
      BY <1>2, <1>3
    <3> HIDE DEF q
    <3> QED
      BY <1>2, <3>1 DEF Ascending
  <2>3. q > 1 /\ keys[q - 1] = keys[i]
    BY <1>3
  <2>4. keys[i] <= keys[i]
    BY <1>10
  <2> HIDE DEF q
  <2>5. keys[i] \in Slice(keys, range[p], q)
    BY <2>1, <2>2, <2>3, <2>4 DEF Slice
  <2> QED
    BY <1>5, <2>5 DEF q
<1> QED
  BY <1>4, <1>5, <1>6, <1>9, <1>10, <1>11, <1>12, <1>13 DEF Neighbors, left, right, keys

NeighborsJoined(T, U, p, i, left, right, k_prime) ==
  /\ DOMAIN U = DOMAIN T \ {right}
  /\ \A m \in DOMAIN T \ {left, right, p} : SameNode(T, U, m)
  /\ \A m \in DOMAIN T \ {right} :
       U[m].parent = IF T[m].parent = right THEN left ELSE T[m].parent
  /\ Combined(T[left], T[right], k_prime, U[left])
  /\ DOMAIN U[p] = NodeFields /\ U[p].is_leaf = T[p].is_leaf
  /\ U[p].next_leaf = T[p].next_leaf
  /\ Inserted(Int, U[p].keys, i, k_prime, T[p].keys)
  /\ Inserted(Nat, U[p].descendants, i + 1, right, T[p].descendants)

(* Places in the second of two sequences.                                  *)
LEMMA SecondPart ==
  ASSUME NEW a \in Nat, NEW b \in Nat, NEW j \in 1 .. a + b, ~(j <= a)
  PROVE  j - a \in 1 .. b /\ a + (j - a) = j
OBVIOUS

LEMMA Sums ==
  ASSUME NEW a \in Nat, NEW b \in Nat, NEW s, s = a + b
  PROVE  s \in Nat /\ s - a = b /\ s + 1 = a + (b + 1) /\ b + 1 \in Nat
OBVIOUS

LEMMA JoinedNeighbor ==
  ASSUME NEW T, NEW root, NEW height, NEW range, WholeTree(T, root, height, range),
         NEW p, NEW i, NEW left, NEW right, NEW k_prime,
         Neighbors(T, height, range, p, i, left, right, k_prime),
         NEW U, NeighborsJoined(T, U, p, i, left, right, k_prime),
         NEW newRange, newRange = BothRanges(range, left, right)
  PROVE  /\ Content(U, height, newRange, newRange, left)
         /\ \A m \in DOMAIN T : T[m].parent \in {left, right} => Listed(U, m)
<1> DEFINE l == T[left]
           r == T[right]
           t == U[left]
           S == range[left] \cup range[right]
<1>1. /\ p \in DOMAIN T /\ left \in DOMAIN T /\ right \in DOMAIN T
      /\ p # left /\ p # right /\ left # right
      /\ T[left].parent = p /\ T[right].parent = p
      /\ k_prime \in Int /\ height[left] = height[right]
      /\ \A k \in range[left] : k \in Int /\ k < k_prime
      /\ \A k \in range[right] : k \in Int /\ k_prime <= k
  BY DEF Neighbors
<1>2. /\ DOMAIN U = DOMAIN T \ {right} /\ Combined(l, r, k_prime, t)
      /\ \A m \in DOMAIN T \ {right} :
           U[m].parent = IF T[m].parent = right THEN left ELSE T[m].parent
  BY DEF NeighborsJoined
<1>3. /\ DOMAIN T \subseteq Nat /\ range \in [Nat -> SUBSET Int]
  BY DEF WholeTree, Tree
<1>4. newRange[left] = S /\ S \in SUBSET Int /\ \A m \in DOMAIN T \ {left} : newRange[m] = range[m]
  BY <1>1, <1>3 DEF BothRanges
<1>5. /\ IsNode(l) /\ range[left] # {} /\ (l.is_leaf <=> height[left] = 0)
      /\ (\A j \in 1 .. Len(l.keys) : l.keys[j] \in range[left])
      /\ ~l.is_leaf => \A j \in 1 .. Len(l.keys) + 1 : Link(T, height, range, range, left, j)
  BY <1>1, TreeFacts DEF WholeTree
<1>6. /\ IsNode(r) /\ (r.is_leaf <=> height[right] = 0)
      /\ (\A j \in 1 .. Len(r.keys) : r.keys[j] \in range[right])
      /\ ~r.is_leaf => \A j \in 1 .. Len(r.keys) + 1 : Link(T, height, range, range, right, j)
  BY <1>1, TreeFacts DEF WholeTree
<1>7. l.is_leaf <=> r.is_leaf
  BY <1>1, <1>5, <1>6
<1>8. /\ \A j \in 1 .. Len(l.keys) : l.keys[j] < k_prime
      /\ \A j \in 1 .. Len(r.keys) : k_prime <= r.keys[j]
      /\ Len(l.keys) \in Nat /\ Len(r.keys) \in Nat
  BY <1>1, <1>5, <1>6, SMTT(30) DEF IsNode
<1>9. t.is_leaf = l.is_leaf
  BY <1>2 DEF Combined
<1>10. CASE l.is_leaf
  <2>1. /\ IsNode(t)
        /\ Len(t.keys) = Len(l.keys) + Len(r.keys)
        /\ \A j \in 1 .. Len(t.keys) :
             t.keys[j] = IF j <= Len(l.keys) THEN l.keys[j] ELSE r.keys[j - Len(l.keys)]
    <3>1. LeafNeighbors(l, r, k_prime)
      BY <1>1, <1>5, <1>6, <1>7, <1>8, <1>10 DEF LeafNeighbors
    <3> HIDE DEF l, r, t
    <3>2. BothLeaves(l, r, t)
      BY <1>2, <3>1, CombinedLeaf
    <3> QED
      BY <3>2 DEF BothLeaves
  <2>2. ASSUME NEW j \in 1 .. Len(t.keys) PROVE t.keys[j] \in S
    <3>1. CASE j <= Len(l.keys)
      <4>1. j \in 1 .. Len(l.keys)
        <5>1. Len(l.keys) \in Nat /\ Len(r.keys) \in Nat
          BY <1>8
        <5> HIDE DEF l, r, t
        <5> QED
          BY <3>1, <5>1
      <4>2. t.keys[j] = l.keys[j]
        BY <2>1, <3>1
      <4> QED
        BY <1>5, <4>1, <4>2
    <3>2. CASE ~(j <= Len(l.keys))
      <4> DEFINE q == j - Len(l.keys)
      <4>1. q \in 1 .. Len(r.keys)
        <5> DEFINE a == Len(l.keys)
                   b == Len(r.keys)
        <5>1. a \in Nat /\ b \in Nat /\ j \in 1 .. a + b /\ ~(j <= a)
          BY <1>8, <2>1, <3>2
        <5> HIDE DEF a, b
        <5>2. j - a \in 1 .. b
          BY <5>1, SecondPart
        <5> QED
          BY <5>2 DEF a, b
      <4>2. t.keys[j] = r.keys[q]
        BY <2>1, <3>2
      <4> HIDE DEF q
      <4> QED
        BY <1>6, <4>1, <4>2
    <3> QED
      BY <3>1, <3>2
  <2>3. \A m \in DOMAIN T : T[m].parent \notin {left, right}
    <3> SUFFICES ASSUME NEW m \in DOMAIN T, T[m].parent \in {left, right} PROVE FALSE
      OBVIOUS
    <3>1. m # root
      BY <1>1, <1>3, NullAssumption DEF WholeTree, Tree
    <3>2. Listed(T, m)
      BY <3>1 DEF WholeTree, Tree
    <3> QED
      BY <1>7, <1>10, <3>2 DEF Listed
  <2>4. Content(U, height, newRange, newRange, left)
    <3>1. S # {} /\ height[left] = 0
      BY <1>5, <1>10
    <3> HIDE DEF S
    <3> QED
      BY <1>4, <1>9, <1>10, <2>1, <2>2, <3>1 DEF Content
  <2> QED
    BY <2>3, <2>4
<1>11. CASE ~l.is_leaf
  <2>1. \A j \in 1 .. Len(r.keys) : k_prime < r.keys[j]
    <3> SUFFICES ASSUME NEW j \in 1 .. Len(r.keys) PROVE k_prime < r.keys[j]
      OBVIOUS
    <3> DEFINE d == r.descendants[1]
    <3>1. 1 \in 1 .. Len(r.keys) + 1 /\ 1 \in 1 .. Len(r.keys) /\ 1 <= j
      BY <1>8
    <3>2. d \in DOMAIN T /\ range[d] = Slice(r.keys, range[right], 1)
      BY <1>6, <1>7, <1>11, <3>1 DEF Link
    <3>3. range[d] # {}
      BY <3>2, TreeFacts DEF WholeTree
    <3>4. PICK k \in range[right] : k < r.keys[1]
      BY <3>1, <3>2, <3>3 DEF Slice
    <3>5. r.keys \in Seq(Int) /\ Ascending(r.keys)
      BY <1>6 DEF IsNode
    <3> HIDE DEF r
    <3>6. r.keys[1] \in Int /\ r.keys[j] \in Int /\ r.keys[1] <= r.keys[j]
      BY <3>1, <3>5, Ordered
    <3> QED
      BY <1>1, <3>4, <3>6
  <2> DEFINE c == Len(l.keys) + 1
  <2>2. /\ IsNode(t)
        /\ Len(t.keys) = c + Len(r.keys) /\ t.keys[c] = k_prime
        /\ LowerKeys(t.keys, c, l.keys) /\ UpperKeys(t.keys, c, r.keys)
        /\ \A j \in 1 .. c : t.descendants[j] = l.descendants[j]
        /\ \A j \in 1 .. Len(r.keys) + 1 : t.descendants[c + j] = r.descendants[j]
    <3>1. NodeNeighbors(l, r, k_prime)
      BY <1>1, <1>5, <1>6, <1>7, <1>8, <1>11, <2>1 DEF NodeNeighbors
    <3> HIDE DEF l, r, t
    <3>2. BothNodes(l, r, k_prime, t, c)
      BY <1>2, <3>1, CombinedNode
    <3> QED
      BY <3>2 DEF BothNodes
  <2>3. {k \in S : k < k_prime} = range[left] /\ {k \in S : k_prime <= k} = range[right]
    <3>1. \A k \in range[right] : ~(k < k_prime)
      BY <1>1
    <3>2. \A k \in range[left] : ~(k_prime <= k)
      BY <1>1
    <3> QED
      BY <1>1, <3>1, <3>2
  <2>4. ASSUME NEW j \in 1 .. c
        PROVE  Slice(t.keys, S, j) = Slice(l.keys, range[left], j)
    <3> DEFINE tk == t.keys
               lk == l.keys
    <3>1. LowerKeys(tk, c, lk) /\ S \in SUBSET Int /\ j \in 1 .. c
      BY <1>4, <2>2
    <3> HIDE DEF c, tk, lk, S
    <3>2. Slice(lk, {k \in S : k < tk[c]}, j) = Slice(tk, S, j)
      BY <3>1, LowerSlices
    <3> QED
      BY <2>2, <2>3, <3>2 DEF tk, lk
  <2>5. ASSUME NEW j \in 1 .. Len(r.keys) + 1
        PROVE  Slice(t.keys, S, c + j) = Slice(r.keys, range[right], j)
    <3> DEFINE tk == t.keys
               rk == r.keys
    <3>1. UpperKeys(tk, c, rk) /\ S \in SUBSET Int
      BY <1>4, <2>2
    <3> HIDE DEF c, tk, rk, S
    <3>2. SameSlices(tk, c, rk, S)
      BY <3>1, UpperSlices
    <3>3. j \in 1 .. Len(tk) - c + 1
      BY <3>1 DEF UpperKeys, rk
    <3> QED
      BY <2>2, <2>3, <3>2, <3>3 DEF tk, rk, SameSlices
  <2>6. /\ c \in Nat /\ c = Len(l.keys) + 1 /\ Len(r.keys) \in Nat
        /\ Len(t.keys) = c + Len(r.keys) /\ Len(t.keys) - c = Len(r.keys)
        /\ Len(t.keys) + 1 = c + (Len(r.keys) + 1)
    <3>1. c \in Nat /\ c = Len(l.keys) + 1 /\ Len(r.keys) \in Nat
      BY <1>8
    <3>2. Len(t.keys) = c + Len(r.keys)
      BY <2>2
    <3> DEFINE b == Len(r.keys)
    <3>3. c \in Nat /\ b \in Nat
      BY <3>1
    <3> HIDE DEF b, c
    <3> DEFINE lt == Len(t.keys)
    <3>4. lt = c + b
      BY <3>2 DEF b
    <3> HIDE DEF lt
    <3>5. lt - c = b /\ lt + 1 = c + (b + 1)
      BY <3>3, <3>4, Sums
    <3> QED
      BY <3>1, <3>2, <3>5 DEF b, lt
  <2> HIDE DEF S, c
  <2>7. ASSUME NEW d \in DOMAIN T, T[d].parent \in {left, right}
        PROVE  /\ d \in DOMAIN U /\ U[d].parent = left /\ newRange[d] = range[d]
    <3>1. d # left /\ d # right
      BY <1>1, <2>7
    <3>2. U[d].parent = left
      BY <1>2, <2>7, <3>1
    <3> QED
      BY <1>2, <1>4, <3>1, <3>2
  <2>8. ASSUME NEW j \in 1 .. Len(t.keys) + 1
        PROVE  Link(U, height, newRange, newRange, left, j)
    <3>1. ASSUME NEW d \in DOMAIN T, t.descendants[j] = d, T[d].parent \in {left, right},
                 height[left] = height[d] + 1, range[d] = Slice(t.keys, S, j)
          PROVE  Link(U, height, newRange, newRange, left, j)
      BY <1>4, <2>7, <3>1 DEF Link
    <3>2. CASE j <= c
      <4>1. j \in 1 .. c /\ j \in 1 .. Len(l.keys) + 1
        BY <2>6, <3>2
      <4>2. Link(T, height, range, range, left, j)
        BY <1>5, <1>11, <4>1
      <4> QED
        BY <2>2, <2>4, <3>1, <4>1, <4>2 DEF Link
    <3>3. CASE ~(j <= c)
      <4> DEFINE q == j - c
      <4>1. q \in 1 .. Len(r.keys) + 1 /\ c + q = j
        <5> DEFINE b == Len(r.keys) + 1
        <5>1. b \in Nat
          BY <2>6
        <5>2. c \in Nat /\ b \in Nat /\ j \in 1 .. c + b /\ ~(j <= c)
          BY <2>6, <3>3, <5>1
        <5> HIDE DEF b
        <5>3. j - c \in 1 .. b /\ c + (j - c) = j
          BY <5>2, SecondPart
        <5> QED
          BY <5>3 DEF b
      <4>2. Link(T, height, range, range, right, q)
        BY <1>6, <1>7, <1>11, <4>1
      <4> HIDE DEF q
      <4>3. t.descendants[j] = r.descendants[q] /\ Slice(t.keys, S, j) = Slice(r.keys, range[right], q)
        BY <2>2, <2>5, <4>1
      <4> QED
        BY <1>1, <3>1, <4>2, <4>3 DEF Link
    <3> QED
      BY <3>2, <3>3
  <2>9. ASSUME NEW j \in 1 .. Len(t.keys) PROVE t.keys[j] \in S
    <3>1. CASE j < c
      <4>1. j \in 1 .. Len(l.keys) /\ j \in 1 .. c - 1
        BY <2>6, <3>1
      <4>2. t.keys[j] = l.keys[j]
        BY <2>2, <4>1 DEF LowerKeys
      <4> QED
        BY <1>5, <4>1, <4>2 DEF S
    <3>2. CASE j = c
      <4>1. k_prime \in range[right]
        BY DEF Neighbors
      <4> QED
        BY <2>2, <3>2, <4>1 DEF S
    <3>3. CASE j > c
      <4> DEFINE q == j - c
      <4>1. q \in 1 .. Len(r.keys) /\ q \in 1 .. Len(t.keys) - c /\ c + q = j
        <5> DEFINE b == Len(r.keys)
        <5>1. Len(t.keys) - c = b /\ c \in Nat /\ b \in Nat /\ Len(t.keys) = c + b
          BY <2>6
        <5>2. j \in 1 .. c + b /\ ~(j <= c)
          BY <3>3, <5>1
        <5> HIDE DEF b
        <5>3. j - c \in 1 .. b /\ c + (j - c) = j
          BY <5>2, <5>1, SecondPart
        <5> QED
          BY <5>3, <5>1 DEF b
      <4> HIDE DEF q
      <4>2. t.keys[j] = r.keys[q]
        BY <2>2, <4>1 DEF UpperKeys
      <4> QED
        BY <1>6, <4>1, <4>2 DEF S
    <3> QED
      BY <2>6, <3>1, <3>2, <3>3
  <2>10. Content(U, height, newRange, newRange, left)
    <3>1. newRange[left] # {}
      BY <1>4, <1>5 DEF S
    <3> QED
      BY <1>4, <1>9, <1>11, <2>2, <2>8, <2>9, <3>1 DEF Content
  <2>11. ASSUME NEW m \in DOMAIN T, T[m].parent \in {left, right} PROVE Listed(U, m)
    <3>1. U[m].parent = left /\ left \in DOMAIN U /\ ~U[left].is_leaf
      BY <1>1, <1>2, <1>9, <1>11, <2>7, <2>11
    <3>2. ASSUME NEW j \in 1 .. Len(t.keys) + 1, t.descendants[j] = m
          PROVE  Listed(U, m)
      BY <3>1, <3>2 DEF Listed
    <3>3. Listed(T, m)
      <4>1. m # root
        BY <1>1, <1>3, <2>11, NullAssumption DEF WholeTree, Tree
      <4> QED
        BY <4>1 DEF WholeTree, Tree
    <3>4. CASE T[m].parent = left
      <4>1. PICK j \in 1 .. Len(l.keys) + 1 : l.descendants[j] = m
        BY <3>3, <3>4 DEF Listed
      <4>2. j \in 1 .. c /\ j \in 1 .. Len(t.keys) + 1
        <5>1. j \in 1 .. c /\ \A b \in Nat : j \in 1 .. c + b + 1
          BY <2>6
        <5> QED
          BY <2>6, <5>1
      <4> QED
        BY <2>2, <3>2, <4>1, <4>2
    <3>5. CASE T[m].parent = right
      <4>1. PICK q \in 1 .. Len(r.keys) + 1 : r.descendants[q] = m
        BY <3>3, <3>5 DEF Listed
      <4> DEFINE j == c + q
      <4>2. j \in 1 .. Len(t.keys) + 1
        <5> DEFINE b == Len(r.keys)
        <5>1. c \in Nat /\ b \in Nat /\ q \in 1 .. b + 1 /\ Len(t.keys) = c + b
          BY <2>6
        <5> HIDE DEF b
        <5>2. c + q \in 1 .. c + b + 1
          BY <5>1
        <5> QED
          BY <5>1, <5>2
      <4>3. t.descendants[j] = m
        BY <2>2, <4>1
      <4> HIDE DEF j
      <4> QED
        BY <3>2, <4>2, <4>3
    <3> QED
      BY <2>11, <3>4, <3>5
  <2> QED
    BY <2>10, <2>11
<1> QED
  BY <1>10, <1>11

LEMMA JoinedParent ==
  ASSUME NEW T, NEW root, NEW height, NEW range, WholeTree(T, root, height, range),
         NEW p, NEW i, NEW left, NEW right, NEW k_prime,
         Neighbors(T, height, range, p, i, left, right, k_prime),
         NEW U, NeighborsJoined(T, U, p, i, left, right, k_prime),
         NEW newRange, newRange = BothRanges(range, left, right)
  PROVE  /\ Content(U, height, newRange, newRange, p)
         /\ \A m \in DOMAIN T \ {right} : T[m].parent = p => Listed(U, m)
<1> DEFINE keys == T[p].keys
           descs == T[p].descendants
           nk == U[p].keys
           nd == U[p].descendants
           R == range[p]
<1>1. /\ p \in DOMAIN T /\ left \in DOMAIN T /\ right \in DOMAIN T /\ ~T[p].is_leaf
      /\ p # left /\ p # right /\ left # right
      /\ T[left].parent = p /\ T[right].parent = p
      /\ i \in 1 .. Len(keys) /\ k_prime \in Int
      /\ descs[i] = left /\ descs[i + 1] = right /\ keys[i] = k_prime
      /\ range[left] = Slice(keys, R, i) /\ range[right] = Slice(keys, R, i + 1)
  BY DEF Neighbors
<1>2. /\ DOMAIN U = DOMAIN T \ {right}
      /\ \A m \in DOMAIN T \ {right} :
           U[m].parent = IF T[m].parent = right THEN left ELSE T[m].parent
      /\ DOMAIN U[p] = NodeFields /\ U[p].is_leaf = T[p].is_leaf
      /\ Inserted(Int, nk, i, k_prime, keys) /\ Inserted(Nat, nd, i + 1, right, descs)
  BY DEF NeighborsJoined
<1>3. DOMAIN T \subseteq Nat /\ range \in [Nat -> SUBSET Int]
  BY DEF WholeTree, Tree
<1>4. /\ newRange[left] = range[left] \cup range[right]
      /\ \A m \in DOMAIN T \ {left} : newRange[m] = range[m]
  BY <1>1, <1>3 DEF BothRanges
<1>5. /\ IsNode(T[p]) /\ R # {} /\ R \in SUBSET Int
      /\ (\A j \in 1 .. Len(keys) : keys[j] \in R)
      /\ (\A j \in 1 .. Len(keys) + 1 : Link(T, height, range, range, p, j))
  BY <1>1, TreeFacts DEF WholeTree
<1>6. keys \in Seq(Int) /\ Ascending(keys) /\ Len(descs) = Len(keys) + 1
  BY <1>1, <1>5 DEF IsNode
<1>7. /\ nk \in Seq(Int) /\ Len(nk) \in Nat /\ Len(keys) = Len(nk) + 1
      /\ nd \in Seq(Nat) /\ Len(nd) = Len(nk) + 1
      /\ \A j \in 1 .. Len(nk) + 1 :
           keys[j] = IF j < i THEN nk[j] ELSE IF j = i THEN k_prime ELSE nk[j - 1]
      /\ \A j \in 1 .. Len(nk) + 2 :
           descs[j] = IF j < i + 1 THEN nd[j] ELSE IF j = i + 1 THEN right ELSE nd[j - 1]
  <2> HIDE DEF nk, nd, keys, descs
  <2>1. nk \in Seq(Int) /\ nd \in Seq(Nat) /\ Len(keys) = Len(nk) + 1 /\ Len(descs) = Len(nd) + 1
    BY <1>2 DEF Inserted
  <2>2. /\ nk \in Seq(Int) /\ Len(nk) \in Nat /\ Len(keys) = Len(nk) + 1
        /\ nd \in Seq(Nat) /\ Len(nd) \in Nat /\ Len(descs) = Len(nd) + 1
    BY <2>1
  <2>3. Len(nd) = Len(nk) + 1 /\ Len(nd) + 1 = Len(nk) + 2
    BY <1>6, <2>2
  <2> QED
    BY <1>2, <2>2, <2>3 DEF Inserted
<1>8. Ascending(nk) /\ OneSliceDivided(nk, i, k_prime, keys, R)
  <2> HIDE DEF nk, keys, R
  <2>1. Ascending(nk)
    BY <1>2, <1>6, RemovedAscends
  <2>2. OneSliceDivided(nk, i, k_prime, keys, R)
    BY <1>2, <1>5, <1>6, DividedSlices
  <2> QED
    BY <2>1, <2>2
<1>9. IsNode(U[p])
  <2>1. ~U[p].is_leaf /\ U[p].is_leaf \in BOOLEAN
    BY <1>1, <1>2, <1>5 DEF IsNode
  <2> QED
    BY <1>2, <1>7, <1>8, <2>1 DEF IsNode
<1>10. ASSUME NEW q \in 1 .. Len(keys) + 1
       PROVE  /\ descs[q] \in DOMAIN T /\ T[descs[q]].parent = p
              /\ height[p] = height[descs[q]] + 1
              /\ range[descs[q]] = Slice(keys, R, q)
              /\ descs[q] = left => q = i
              /\ descs[q] = right => q = i + 1
  <2>1. /\ descs[q] \in DOMAIN T /\ T[descs[q]].parent = p
        /\ height[p] = height[descs[q]] + 1
        /\ range[descs[q]] = Slice(keys, R, q)
    BY <1>5 DEF Link
  <2>2. i \in 1 .. Len(keys) + 1 /\ i + 1 \in 1 .. Len(keys) + 1
    BY <1>1, <1>7
  <2>3. ASSUME NEW j \in 1 .. Len(T[p].keys) + 1, T[p].descendants[q] = T[p].descendants[j]
        PROVE  q = j
    BY <1>1, <2>3, DescendantsDiffer DEF WholeTree
  <2> QED
    BY <1>1, <2>1, <2>2, <2>3
<1>11. /\ i \in Nat /\ 1 <= i /\ i <= Len(nk) + 1 /\ Len(nk) \in Nat
       /\ Len(keys) + 1 = Len(nk) + 2
  <2>1. i \in 1 .. Len(keys)
    BY <1>1
  <2> HIDE DEF keys
  <2> QED
    BY <1>7, <2>1
<1> HIDE DEF keys, descs, nk, nd, R
<1>12. ASSUME NEW j \in 1 .. Len(nk)
       PROVE  nk[j] \in R
  <2>1. CASE j < i
    <3>1. j \in 1 .. Len(nk) + 1 /\ j \in 1 .. Len(keys)
      BY <1>7
    <3> QED
      BY <1>5, <1>7, <2>1, <3>1
  <2>2. CASE ~(j < i)
    <3> DEFINE q == j + 1
    <3>1. q \in 1 .. Len(nk) + 1 /\ ~(q < i) /\ q # i /\ q - 1 = j
      BY <1>11, <2>2
    <3>2. q \in 1 .. Len(keys)
      BY <1>7, <3>1
    <3> HIDE DEF q
    <3>3. keys[q] = nk[j]
      BY <1>7, <3>1
    <3> QED
      BY <1>5, <3>2, <3>3
  <2> QED
    BY <2>1, <2>2
<1>13. ASSUME NEW d \in DOMAIN T, d # right, T[d].parent = p
       PROVE  d \in DOMAIN U /\ U[d].parent = p
  BY <1>1, <1>2, <1>13
<1>14. ASSUME NEW j \in 1 .. Len(nk) + 1
       PROVE  Link(U, height, newRange, newRange, p, j)
  <2>1. ASSUME NEW d \in DOMAIN T, nd[j] = d, d # right, T[d].parent = p,
               height[p] = height[d] + 1, newRange[d] = Slice(nk, R, j)
        PROVE  Link(U, height, newRange, newRange, p, j)
    <3>1. newRange[p] = R
      BY <1>1, <1>4 DEF R
    <3> QED
      BY <1>13, <2>1, <3>1 DEF Link, nk, nd
  <2>2. CASE j < i
    <3>1. j \in 1 .. Len(nk) + 2 /\ j \in 1 .. Len(keys) + 1 /\ j < i + 1 /\ j # i
          /\ j # i + 1 /\ j \in 1 .. i - 1
      BY <1>11, <2>2
    <3>2. descs[j] = nd[j] /\ descs[j] # left /\ descs[j] # right
      BY <1>7, <1>10, <3>1
    <3>3. Slice(keys, R, j) = Slice(nk, R, j)
      BY <1>8, <3>1 DEF OneSliceDivided
    <3> QED
      BY <1>4, <1>10, <2>1, <3>1, <3>2, <3>3
  <2>3. CASE j = i
    <3>1. j \in 1 .. Len(nk) + 2 /\ j < i + 1
      BY <1>11, <2>3
    <3>2. nd[j] = left
      BY <1>1, <1>7, <2>3, <3>1 DEF descs
    <3>3. newRange[left] = Slice(nk, R, j)
      <4> DEFINE X == Slice(nk, R, i)
      <4>1. X \subseteq Int
        BY <1>5 DEF Slice
      <4>2. range[left] = {k \in X : k < k_prime} /\ range[right] = {k \in X : k_prime <= k}
        BY <1>1, <1>8 DEF OneSliceDivided, R, keys
      <4> HIDE DEF X
      <4>3. \A k \in X : k < k_prime \/ k_prime <= k
        <5>1. k_prime \in Int
          BY <1>1
        <5> QED
          BY <4>1, <5>1
      <4>4. range[left] \cup range[right] = X
        BY <4>2, <4>3
      <4> QED
        BY <1>4, <2>3, <4>4 DEF X
    <3> QED
      BY <1>1, <2>1, <3>2, <3>3 DEF Neighbors
  <2>4. CASE j > i
    <3> DEFINE q == j + 1
    <3>1. q \in 1 .. Len(nk) + 2 /\ q \in 1 .. Len(keys) + 1 /\ ~(q < i + 1) /\ q # i
          /\ q # i + 1 /\ q - 1 = j /\ q \in i + 2 .. Len(nk) + 2
      BY <1>11, <2>4
    <3> HIDE DEF q
    <3>2. descs[q] = nd[j] /\ descs[q] # left /\ descs[q] # right
      BY <1>7, <1>10, <3>1
    <3>3. Slice(keys, R, q) = Slice(nk, R, j)
      BY <1>8, <3>1 DEF OneSliceDivided
    <3> QED
      BY <1>4, <1>10, <2>1, <3>1, <3>2, <3>3
  <2> QED
    BY <1>11, <2>2, <2>3, <2>4
<1>15. ASSUME NEW m \in DOMAIN T \ {right}, T[m].parent = p
       PROVE  Listed(U, m)
  <2>1. ASSUME NEW j \in 1 .. Len(nk) + 1, nd[j] = m
        PROVE  Listed(U, m)
    <3>1. U[m].parent = p /\ p \in DOMAIN U /\ ~U[p].is_leaf
      BY <1>1, <1>2, <1>13, <1>15
    <3> QED
      BY <2>1, <3>1 DEF Listed, nk, nd
  <2>2. m # root
    BY <1>1, <1>3, <1>15, NullAssumption DEF WholeTree, Tree
  <2>3. Listed(T, m)
    BY <2>2 DEF WholeTree, Tree
  <2>4. PICK q \in 1 .. Len(keys) + 1 : descs[q] = m
    BY <1>15, <2>3 DEF Listed, keys, descs
  <2>5. q # i + 1
    BY <1>1, <2>4 DEF descs
  <2>6. CASE q <= i
    <3>1. q \in 1 .. Len(nk) + 2 /\ q < i + 1 /\ q \in 1 .. Len(nk) + 1
      BY <1>11, <2>6
    <3> QED
      BY <1>7, <2>1, <2>4, <3>1
  <2>7. CASE q > i + 1
    <3> DEFINE j == q - 1
    <3>1. q \in 1 .. Len(nk) + 2 /\ ~(q < i + 1) /\ q # i + 1 /\ j \in 1 .. Len(nk) + 1
      BY <1>11, <2>7
    <3>2. nd[j] = m
      BY <1>7, <2>4, <3>1
    <3> HIDE DEF j
    <3> QED
      BY <2>1, <3>1, <3>2
  <2> QED
    BY <1>11, <2>5, <2>6, <2>7
<1>16. newRange[p] = R /\ ~U[p].is_leaf
  BY <1>1, <1>2, <1>4 DEF R
<1> QED
  BY <1>5, <1>9, <1>12, <1>14, <1>15, <1>16 DEF Content, nk

(* The left neighbor takes the place of both in the chain.                 *)
LEMMA BeforeNeighbor ==
  ASSUME NEW T, NEW root, NEW height, NEW range, WholeTree(T, root, height, range),
         NEW p, NEW i, NEW left, NEW right, NEW k_prime,
         Neighbors(T, height, range, p, i, left, right, k_prime),
         NEW a \in range[left], NEW k \in Int, a <= k, k < k_prime
  PROVE  k \in range[left]
<1> DEFINE keys == T[p].keys
<1>1. /\ p \in DOMAIN T /\ i \in 1 .. Len(keys) /\ k_prime \in Int /\ keys[i] = k_prime
      /\ range[left] = Slice(keys, range[p], i)
      /\ range[right] = Slice(keys, range[p], i + 1) /\ k_prime \in range[right]
  BY DEF Neighbors
<1>2. Convex(range[p]) /\ range[p] \subseteq Int /\ keys \in Seq(Int)
  BY <1>1, RangesConvex, TreeFacts DEF WholeTree, IsNode
<1> HIDE DEF keys
<1>3. a \in range[p] /\ a \in Int /\ k_prime \in range[p]
  BY <1>1, <1>2 DEF Slice
<1>4. k <= k_prime
  BY <1>1
<1>5. k \in range[p]
  BY <1>2, <1>3, <1>4 DEF Convex
<1>6. ASSUME i > 1 PROVE keys[i - 1] <= k
  <2>1. i - 1 \in 1 .. Len(keys)
    BY <1>1, <1>6
  <2>2. keys[i - 1] \in Int /\ keys[i - 1] <= a
    BY <1>1, <1>2, <1>6, <2>1 DEF Slice
  <2> QED
    BY <1>3, <2>2
<1> QED
  BY <1>1, <1>5, <1>6 DEF Slice

LEMMA JoinedChain ==
  ASSUME NEW T, NEW root, NEW height, NEW range, WholeTree(T, root, height, range),
         NEW p, NEW i, NEW left, NEW right, NEW k_prime,
         Neighbors(T, height, range, p, i, left, right, k_prime),
         NEW U, NeighborsJoined(T, U, p, i, left, right, k_prime),
         NEW newRange, newRange = BothRanges(range, left, right)
  PROVE  Chained(U, newRange)
<1>1. /\ p \in DOMAIN T /\ left \in DOMAIN T /\ right \in DOMAIN T
      /\ p # left /\ p # right /\ left # right /\ ~T[p].is_leaf /\ k_prime \in Int
      /\ height[left] = height[right]
      /\ \A k \in range[left] : k \in Int /\ k < k_prime
      /\ \A k \in range[right] : k \in Int /\ k_prime <= k
      /\ k_prime \in range[right]
  BY DEF Neighbors
<1>2. /\ DOMAIN U = DOMAIN T \ {right}
      /\ \A m \in DOMAIN T \ {left, right, p} : SameNode(T, U, m)
      /\ U[left].is_leaf = T[left].is_leaf /\ U[left].next_leaf = T[right].next_leaf
      /\ U[p].is_leaf = T[p].is_leaf /\ U[p].next_leaf = T[p].next_leaf
  BY DEF NeighborsJoined, Combined
<1>3. /\ DOMAIN T \subseteq Nat /\ range \in [Nat -> SUBSET Int] /\ Chained(T, range)
      /\ \A m \in DOMAIN T : range[m] # {}
  BY DEF WholeTree, Tree, Content
<1>4. /\ newRange[left] = range[left] \cup range[right]
      /\ \A m \in DOMAIN T \ {left} : newRange[m] = range[m]
  BY <1>1, <1>3 DEF BothRanges
<1>5. T[left].is_leaf <=> T[right].is_leaf
  BY <1>1, TreeFacts DEF WholeTree
<1>6. \A m \in DOMAIN T : ~T[m].is_leaf => T[m].next_leaf = NULL
  BY <1>3 DEF Chained
<1>7. ASSUME NEW m \in DOMAIN U, ~U[m].is_leaf PROVE U[m].next_leaf = NULL
  <2>1. CASE m = left
    BY <1>1, <1>2, <1>5, <1>6, <1>7, <2>1
  <2>2. CASE m = p
    BY <1>1, <1>2, <1>6, <2>2
  <2>3. CASE m \notin {left, p}
    BY <1>2, <1>6, <1>7, <2>3 DEF SameNode
  <2> QED
    BY <2>1, <2>2, <2>3
<1>8. CASE ~T[left].is_leaf
  <2>1. SameLeaves(T, U, range, newRange)
    BY <1>1, <1>2, <1>4, <1>5, <1>7, <1>8 DEF SameLeaves, SameNode
  <2> QED
    BY <1>3, <2>1, SameChain
<1>9. CASE T[left].is_leaf
  <2>1. \A m \in DOMAIN T : T[m].is_leaf => height[m] = height[left]
    BY <1>1, <1>9, TreeFacts DEF WholeTree
  <2>2. ASSUME NEW m \in DOMAIN T, T[m].is_leaf, NEW k \in range[m], k + 1 \notin range[m]
        PROVE  LeadsOn(T, range, m, k)
    BY <1>3, <2>2 DEF Chained
  <2>3. ASSUME NEW m \in DOMAIN T, T[m].is_leaf, T[m].next_leaf # NULL
        PROVE  \E k \in range[m] : k + 1 \notin range[m]
    BY <1>3, <2>3 DEF Chained
  <2>4. ASSUME NEW a \in range[left], NEW k \in Int, a <= k, k < k_prime
        PROVE  k \in range[left]
    BY <2>4, BeforeNeighbor
  <2>5. ASSUME NEW k \in range[left] PROVE k + 1 \in range[left] \cup range[right]
    <3>1. k \in Int /\ k < k_prime
      BY <1>1
    <3>2. CASE k + 1 = k_prime
      BY <1>1, <3>2
    <3>3. CASE k + 1 # k_prime
      <4>1. k + 1 \in Int /\ k <= k + 1 /\ k + 1 < k_prime
        BY <1>1, <3>1, <3>3
      <4> QED
        BY <2>4, <4>1
    <3> QED
      BY <3>2, <3>3
  <2>6. ASSUME NEW x \in DOMAIN T, T[x].is_leaf, x \notin {left, right}
        PROVE  T[x].next_leaf # right
    <3>1. SUFFICES ASSUME T[x].next_leaf = right PROVE FALSE
      OBVIOUS
    <3>2. right # NULL
      BY <1>1, <1>3, NullAssumption
    <3>3. PICK k \in range[x] : k + 1 \notin range[x]
      BY <2>3, <2>6, <3>1, <3>2
    <3>4. k + 1 \in range[right] /\ k \in Int
      BY <1>3, <2>2, <2>6, <3>1, <3>3 DEF LeadsOn
    <3>5. k_prime <= k + 1
      BY <1>1, <3>4
    <3>6. k \in range[left] \cup range[right]
      <4>1. CASE k_prime <= k
        <5>1. Convex(range[right])
          BY <1>1, RangesConvex
        <5>2. k <= k + 1
          BY <3>4
        <5> QED
          BY <1>1, <3>4, <4>1, <5>1, <5>2 DEF Convex
      <4>2. CASE ~(k_prime <= k)
        <5>1. PICK a \in range[left] : a \in Int /\ a < k_prime
          BY <1>1, <1>3
        <5>2. a <= k /\ k < k_prime
          BY <1>1, <3>4, <3>5, <4>2, <5>1
        <5> QED
          BY <2>4, <3>4, <5>2
      <4> QED
        BY <4>1, <4>2
    <3>7. CASE k \in range[left]
      <4>1. x = left
        BY <1>1, <2>1, <2>6, <3>4, <3>7, OneNodePerKey
      <4> QED
        BY <2>6, <4>1
    <3>8. CASE k \in range[right]
      <4>1. height[x] = height[right]
        BY <1>1, <2>1, <2>6
      <4>2. x = right
        BY <1>1, <3>4, <3>8, <4>1, OneNodePerKey
      <4> QED
        BY <2>6, <4>2
    <3> QED
      BY <3>6, <3>7, <3>8
  <2> DEFINE q == T[right].next_leaf
  <2>7. ASSUME NEW k \in range[right], k + 1 \notin range[right]
        PROVE  /\ q \in DOMAIN T \ {left, right, p} /\ T[q].is_leaf /\ k + 1 \in range[q]
               /\ k + 1 \notin range[left]
    <3>1. q \in DOMAIN T /\ T[q].is_leaf /\ k + 1 \in range[q]
      BY <1>1, <1>5, <1>9, <2>2, <2>7 DEF LeadsOn
    <3>2. k \in Int /\ k_prime <= k /\ ~(k + 1 < k_prime)
      BY <1>1
    <3>3. k + 1 \notin range[left]
      BY <1>1, <3>2
    <3> QED
      BY <1>1, <2>7, <3>1, <3>3
  <2>8. /\ \A k \in newRange[left] : k + 1 \in newRange[left] \/ LeadsOn(U, newRange, left, k)
        /\ U[left].next_leaf # NULL => \E k \in newRange[left] : k + 1 \notin newRange[left]
    <3>1. ASSUME NEW k \in newRange[left], k + 1 \notin newRange[left]
          PROVE  LeadsOn(U, newRange, left, k)
      <4>1. k \in range[right] /\ k + 1 \notin range[right]
        BY <1>4, <2>5, <3>1
      <4>2. q \in DOMAIN T \ {left, right, p} /\ T[q].is_leaf /\ k + 1 \in range[q]
        BY <2>7, <4>1
      <4>3. q \in DOMAIN U /\ U[q].is_leaf /\ newRange[q] = range[q]
        BY <1>2, <1>4, <4>2 DEF SameNode
      <4> QED
        BY <1>2, <4>2, <4>3 DEF LeadsOn
    <3>2. ASSUME U[left].next_leaf # NULL
          PROVE  \E k \in newRange[left] : k + 1 \notin newRange[left]
      <4>1. PICK k \in range[right] : k + 1 \notin range[right]
        BY <1>1, <1>2, <1>5, <1>9, <2>3, <3>2
      <4>2. k + 1 \notin range[left]
        BY <2>7, <4>1
      <4> QED
        BY <1>4, <4>1, <4>2
    <3> QED
      BY <3>1, <3>2
  <2>9. ASSUME NEW x \in DOMAIN U, U[x].is_leaf, x # left
        PROVE  /\ \A k \in newRange[x] : k + 1 \in newRange[x] \/ LeadsOn(U, newRange, x, k)
               /\ U[x].next_leaf # NULL => \E k \in newRange[x] : k + 1 \notin newRange[x]
    <3>1. x \in DOMAIN T \ {left, right, p}
      BY <1>1, <1>2, <2>9
    <3>2. T[x].is_leaf /\ U[x].next_leaf = T[x].next_leaf /\ newRange[x] = range[x]
      BY <1>2, <1>4, <2>9, <3>1 DEF SameNode
    <3>3. ASSUME NEW k \in newRange[x], k + 1 \notin newRange[x]
          PROVE  LeadsOn(U, newRange, x, k)
      <4> DEFINE m == T[x].next_leaf
      <4>1. m \in DOMAIN T /\ T[m].is_leaf /\ k + 1 \in range[m]
        BY <2>2, <3>1, <3>2, <3>3 DEF LeadsOn
      <4>2. m # right
        BY <2>6, <3>1, <3>2
      <4>3. m \in DOMAIN U /\ U[m].is_leaf /\ k + 1 \in newRange[m]
        <5>1. CASE m = left
          BY <1>2, <1>4, <4>1, <4>2, <5>1
        <5>2. CASE m # left
          <6>1. m # p
            BY <1>1, <4>1
          <6> QED
            BY <1>2, <1>4, <4>1, <4>2, <5>2, <6>1 DEF SameNode
        <5> QED
          BY <5>1, <5>2
      <4> QED
        BY <3>2, <4>3 DEF LeadsOn
    <3> QED
      BY <2>3, <3>1, <3>2, <3>3
  <2> QED
    BY <1>7, <2>8, <2>9 DEF Chained
<1> QED
  BY <1>8, <1>9

LEMMA Join ==
  ASSUME NEW T, NEW root, NEW height, NEW range, WholeTree(T, root, height, range),
         NEW p, NEW i, NEW left, NEW right, NEW k_prime,
         Neighbors(T, height, range, p, i, left, right, k_prime),
         NEW U, NeighborsJoined(T, U, p, i, left, right, k_prime)
  PROVE  WholeTree(U, root, height, BothRanges(range, left, right))
<1> DEFINE newRange == BothRanges(range, left, right)
<1>1. /\ p \in DOMAIN T /\ left \in DOMAIN T /\ right \in DOMAIN T
      /\ p # left /\ p # right /\ left # right
      /\ T[left].parent = p /\ T[right].parent = p
  BY DEF Neighbors
<1>2. /\ DOMAIN U = DOMAIN T \ {right}
      /\ \A m \in DOMAIN T \ {left, right, p} : SameNode(T, U, m)
      /\ \A m \in DOMAIN T \ {right} :
           U[m].parent = IF T[m].parent = right THEN left ELSE T[m].parent
  BY DEF NeighborsJoined
<1>3. /\ IsFiniteSet(DOMAIN T) /\ DOMAIN T \subseteq Nat
      /\ height \in [Nat -> Nat] /\ range \in [Nat -> SUBSET Int]
      /\ root \in DOMAIN T /\ T[root].parent = NULL /\ range[root] = Int
      /\ \A m \in DOMAIN T : height[m] <= height[root] /\ Content(T, height, range, range, m)
      /\ \A m \in DOMAIN T \ {root} : Listed(T, m)
  BY DEF WholeTree, Tree
<1>4. /\ newRange \in [Nat -> SUBSET Int]
      /\ \A m \in DOMAIN T \ {left} : newRange[m] = range[m]
  BY <1>1, <1>3 DEF BothRanges
<1>5. root \notin {left, right}
  BY <1>1, <1>3, NullAssumption
<1>6. /\ Content(U, height, newRange, newRange, left)
      /\ \A m \in DOMAIN T : T[m].parent \in {left, right} => Listed(U, m)
  <2> HIDE DEF newRange
  <2>1. newRange = BothRanges(range, left, right)
    BY DEF newRange
  <2> QED
    BY <2>1, JoinedNeighbor
<1>7. /\ Content(U, height, newRange, newRange, p)
      /\ \A m \in DOMAIN T \ {right} : T[m].parent = p => Listed(U, m)
  <2> HIDE DEF newRange
  <2>1. newRange = BothRanges(range, left, right)
    BY DEF newRange
  <2> QED
    BY <2>1, JoinedParent
<1> HIDE DEF newRange
<1>8. ASSUME NEW m \in DOMAIN U PROVE Content(U, height, newRange, newRange, m)
  <2>1. CASE m \in {left, p}
    BY <1>6, <1>7, <2>1
  <2>2. CASE m \notin {left, p}
    <3>1. m \in DOMAIN T \ {left, right, p}
      BY <1>2, <2>2
    <3>2. Content(T, height, range, range, m) /\ SameNode(T, U, m) /\ newRange[m] = range[m]
      BY <1>2, <1>3, <1>4, <3>1
    <3>3. SameBelow(T, U, height, height, range, newRange, m)
      <4> SUFFICES ASSUME NEW d \in DOMAIN T, T[d].parent = m
                   PROVE  d \in DOMAIN U /\ U[d].parent = m /\ newRange[d] = range[d]
        BY DEF SameBelow
      <4>1. d \notin {left, right}
        BY <1>1, <3>1
      <4> QED
        BY <1>2, <1>4, <3>1, <4>1
    <3> QED
      BY <3>2, <3>3, SameContent
  <2> QED
    BY <2>1, <2>2
<1>9. ASSUME NEW m \in DOMAIN U \ {root} PROVE Listed(U, m)
  <2>1. m \in DOMAIN T \ {right}
    BY <1>2
  <2>2. CASE T[m].parent \in {left, right, p}
    BY <1>6, <1>7, <2>1, <2>2
  <2>3. CASE T[m].parent \notin {left, right, p}
    <3>1. Listed(T, m) /\ U[m].parent = T[m].parent
      BY <1>2, <1>3, <2>1, <2>3
    <3>2. T[m].parent \in DOMAIN T
      BY <3>1 DEF Listed
    <3>3. SameNode(T, U, T[m].parent) /\ T[m].parent \in DOMAIN U
      BY <1>2, <2>3, <3>2
    <3> QED
      BY <3>1, <3>3, SameListed
  <2> QED
    BY <2>2, <2>3
<1>10. IsFiniteSet(DOMAIN U) /\ DOMAIN U \subseteq Nat
  <2>1. IsFiniteSet(DOMAIN T \ {right})
    BY <1>3, FS_RemoveElement
  <2> QED
    BY <1>2, <1>3, <2>1
<1>11. root \in DOMAIN U /\ U[root].parent = NULL /\ newRange[root] = Int
  <2>1. T[root].parent # right
    BY <1>1, <1>3, NullAssumption
  <2> QED
    BY <1>2, <1>3, <1>4, <1>5, <2>1
<1>12. \A m \in DOMAIN U : height[m] <= height[root]
  BY <1>2, <1>3
<1>13. Chained(U, newRange)
  <2>1. newRange = BothRanges(range, left, right)
    BY DEF newRange
  <2> QED
    BY <2>1, JoinedChain
<1> QED
  BY <1>3, <1>4, <1>8, <1>9, <1>10, <1>11, <1>12, <1>13 DEF WholeTree, Tree, newRange

-----------------------------------------------------------------------------
(* Searching.                                                              *)
(* The descendant that a search follows.                                   *)
Followed(T, n, key) == T[n].descendants[Branch(T[n].keys, key)]

LEMMA FollowedProps ==
  ASSUME NEW T, NEW root, NEW height, NEW range, WholeTree(T, root, height, range),
         NEW key \in Int, NEW n \in DOMAIN T, ~T[n].is_leaf
  PROVE  /\ Followed(T, n, key) \in DOMAIN T
         /\ height[n] = height[Followed(T, n, key)] + 1
         /\ key \in range[n] => key \in range[Followed(T, n, key)]
<1> DEFINE i == Branch(T[n].keys, key)
           keys == T[n].keys
<1>1. /\ IsNode(T[n])
      /\ \A j \in 1 .. Len(T[n].keys) + 1 : Link(T, height, range, range, n, j)
  BY TreeFacts DEF WholeTree
<1>2. keys \in Seq(Int) /\ Len(keys) \in Nat /\ \A j \in 1 .. Len(keys) : keys[j] \in Int
  BY <1>1 DEF IsNode
<1>3. /\ i \in 1 .. Len(keys) + 1
      /\ \A j \in 1 .. Len(keys) : j < i => keys[j] <= key
      /\ i <= Len(keys) => key < keys[i]
  <2> HIDE DEF keys
  <2>1. /\ Branch(keys, key) \in 1 .. Len(keys) + 1
        /\ \A j \in 1 .. Len(keys) : j < Branch(keys, key) => keys[j] <= key
        /\ Branch(keys, key) <= Len(keys) => key < keys[Branch(keys, key)]
    BY <1>2, BranchProps
  <2> QED
    BY <2>1 DEF keys
<1> HIDE DEF i, keys
<1>4. Link(T, height, range, range, n, i)
  BY <1>1, <1>3 DEF keys
<1>5. ASSUME key \in range[n] PROVE key \in Slice(keys, range[n], i)
  <2>1. i > 1 => keys[i - 1] <= key
    <3> SUFFICES ASSUME i > 1 PROVE keys[i - 1] <= key
      OBVIOUS
    <3> DEFINE j == i - 1
    <3>1. j \in 1 .. Len(keys) /\ j < i
      BY <1>2, <1>3
    <3> HIDE DEF j
    <3>2. keys[j] <= key
      BY <1>3, <3>1
    <3> QED
      BY <3>2 DEF j
  <2> QED
    BY <1>3, <1>5, <2>1 DEF Slice
<1> QED
  BY <1>4, <1>5 DEF Link, Followed, i, keys

LEMMA SearchIsDefined ==
  ASSUME NEW T, NEW root, NEW height, NEW range, WholeTree(T, root, height, range),
         NEW key \in Int
  PROVE  \E f : f = [n \in DOMAIN T |->
                       IF T[n].is_leaf THEN n
                       ELSE f[T[n].descendants[Branch(T[n].keys, key)]]]
<1> DEFINE Low(h) == {n \in DOMAIN T : height[n] <= h}
           Loop(g, h) == g = [n \in Low(h) |->
                                IF T[n].is_leaf THEN n ELSE g[Followed(T, n, key)]]
           H == height[root]
           S == {h \in 0 .. H : \E g : Loop(g, h)}
<1>1. H \in Nat /\ \A n \in DOMAIN T : height[n] \in Nat /\ height[n] <= H
      /\ (T[n].is_leaf <=> height[n] = 0)
  BY HeightFacts
<1>2. ASSUME NEW n \in DOMAIN T, ~T[n].is_leaf
      PROVE  Followed(T, n, key) \in DOMAIN T /\ height[n] = height[Followed(T, n, key)] + 1
  BY <1>2, FollowedProps
<1> HIDE DEF H
<1>3. 0 \in S
  <2> DEFINE g == [n \in Low(0) |-> n]
  <2>1. \A n \in Low(0) : T[n].is_leaf
    BY <1>1
  <2>2. Loop(g, 0)
    BY <2>1
  <2> HIDE DEF Loop, g
  <2> QED
    BY <1>1, <2>2
<1>4. ASSUME NEW h \in 0 .. H - 1, h \in S PROVE h + 1 \in S
  <2> DEFINE q == h + 1
  <2>1. h \in Nat /\ q \in 0 .. H /\ q \in Nat /\ q = h + 1
    BY <1>1
  <2>2. PICK f : Loop(f, h)
    BY <1>4
  <2> HIDE DEF q
  <2> DEFINE g == [n \in Low(q) |-> IF height[n] <= h THEN f[n] ELSE f[Followed(T, n, key)]]
  <2>3. \A n \in Low(h) : n \in Low(q) /\ g[n] = f[n]
    BY <1>1, <2>1
  <2>4. \A n \in Low(h) : f[n] = IF T[n].is_leaf THEN n ELSE f[Followed(T, n, key)]
    BY <2>2
  <2>5. ASSUME NEW n \in Low(q)
        PROVE  g[n] = IF T[n].is_leaf THEN n ELSE g[Followed(T, n, key)]
    <3>1. n \in DOMAIN T /\ height[n] \in Nat /\ height[n] <= q
      BY <1>1
    <3>2. CASE T[n].is_leaf
      <4>1. n \in Low(h)
        BY <1>1, <2>1, <3>1, <3>2
      <4> HIDE DEF g, Low
      <4> QED
        BY <2>3, <2>4, <3>2, <4>1
    <3>3. CASE ~T[n].is_leaf
      <4> DEFINE d == Followed(T, n, key)
      <4>1. d \in DOMAIN T /\ height[n] = height[d] + 1 /\ height[d] \in Nat
        BY <1>1, <1>2, <3>3
      <4> HIDE DEF d
      <4>2. d \in Low(h)
        BY <2>1, <3>1, <4>1
      <4>3. g[n] = f[d]
        <5>1. CASE height[n] <= h
          <6>1. n \in Low(h)
            BY <5>1
          <6> HIDE DEF g, Low
          <6> QED
            BY <2>3, <2>4, <3>3, <6>1 DEF d
        <5>2. CASE ~(height[n] <= h)
          BY <5>2 DEF d
        <5> QED
          BY <5>1, <5>2
      <4> HIDE DEF g, Low
      <4> QED
        BY <2>3, <3>3, <4>2, <4>3 DEF d
    <3> QED
      BY <3>2, <3>3
  <2>6. Loop(g, q)
    <3> DEFINE e == [n \in Low(q) |-> IF T[n].is_leaf THEN n ELSE g[Followed(T, n, key)]]
    <3>1. g = [n \in Low(q) |-> g[n]]
      OBVIOUS
    <3> HIDE DEF g
    <3>2. g = e
      BY <2>5, <3>1
    <3> QED
      BY <3>2
  <2> HIDE DEF Loop, g
  <2> QED
    BY <2>1, <2>6
<1>5. H \in S
  <2> HIDE DEF S
  <2>1. 0 .. H \subseteq S
    BY <1>1, <1>3, <1>4, CountingUp
  <2> QED
    BY <1>1, <2>1
<1>6. PICK f : Loop(f, H)
  BY <1>5
<1>7. Low(H) = DOMAIN T
  BY <1>1
<1> HIDE DEF Low
<1> QED
  BY <1>6, <1>7 DEF Followed

LEMMA SearchEnds ==
  ASSUME NEW T, NEW root, NEW height, NEW range, WholeTree(T, root, height, range),
         NEW key \in Int, NEW f, NEW n \in DOMAIN T, key \in range[n],
         \A m \in DOMAIN T : f[m] = IF T[m].is_leaf THEN m ELSE f[Followed(T, m, key)]
  PROVE  f[n] \in DOMAIN T /\ T[f[n]].is_leaf /\ key \in range[f[n]]
<1> DEFINE H == height[root]
           Found(m) == f[m] \in DOMAIN T /\ T[f[m]].is_leaf /\ key \in range[f[m]]
           S == {h \in 0 .. H : \A m \in DOMAIN T : height[m] = h /\ key \in range[m] => Found(m)}
<1>1. H \in Nat /\ \A m \in DOMAIN T : height[m] \in Nat /\ height[m] <= H
      /\ (T[m].is_leaf <=> height[m] = 0)
  BY HeightFacts
<1> HIDE DEF H
<1>2. 0 \in S
  BY <1>1
<1>3. ASSUME NEW h \in 0 .. H - 1, h \in S PROVE h + 1 \in S
  <2> DEFINE q == h + 1
  <2>1. h \in Nat /\ q \in 0 .. H /\ q # 0 /\ q = h + 1
    BY <1>1
  <2> HIDE DEF q
  <2>2. ASSUME NEW m \in DOMAIN T, height[m] = q, key \in range[m] PROVE Found(m)
    <3> DEFINE d == Followed(T, m, key)
    <3>1. ~T[m].is_leaf
      BY <1>1, <2>1, <2>2
    <3>2. d \in DOMAIN T /\ height[m] = height[d] + 1 /\ key \in range[d]
      BY <2>2, <3>1, FollowedProps
    <3>3. f[m] = f[d]
      BY <3>1
    <3> HIDE DEF d
    <3>4. height[d] = h
      BY <1>1, <2>1, <2>2, <3>2
    <3> QED
      BY <1>3, <3>2, <3>3, <3>4
  <2> QED
    BY <2>1, <2>2
<1>4. 0 .. H \subseteq S
  <2> HIDE DEF S
  <2> QED
    BY <1>1, <1>2, <1>3, CountingUp
<1>5. height[n] \in 0 .. H
  BY <1>1
<1> QED
  BY <1>4, <1>5

(* The search for a key ends at the one leaf that answers for it.          *)
LEMMA Searched ==
  ASSUME NEW height, NEW range, WholeTree(node, tree_root, height, range),
         NEW key \in Int
  PROVE  /\ FindLeaf(key) \in Leaves /\ key \in range[FindLeaf(key)]
         /\ \A n \in Leaves : key \in range[n] => n = FindLeaf(key)
<1> DEFINE f == CHOOSE g : g = [n \in DOMAIN node |->
                  IF node[n].is_leaf THEN n
                  ELSE g[node[n].descendants[Branch(node[n].keys, key)]]]
<1>1. FindLeaf(key) = f[tree_root]
  BY Zenon DEF FindLeaf
<1>2. f = [n \in DOMAIN node |->
             IF node[n].is_leaf THEN n
             ELSE f[node[n].descendants[Branch(node[n].keys, key)]]]
  BY SearchIsDefined, ZenonT(40)
<1> HIDE DEF f
<1>3. \A n \in DOMAIN node :
        f[n] = IF node[n].is_leaf THEN n ELSE f[Followed(node, n, key)]
  BY <1>2 DEF Followed
<1>4. tree_root \in DOMAIN node /\ key \in range[tree_root]
  BY DEF WholeTree, Tree
<1> DEFINE l == f[tree_root]
<1>5. l \in DOMAIN node /\ node[l].is_leaf /\ key \in range[l]
  BY <1>3, <1>4, SearchEnds, SMTT(40)
<1> HIDE DEF l
<1>6. \A n \in DOMAIN node : height[n] \in Nat /\ (node[n].is_leaf <=> height[n] = 0)
  BY HeightFacts
<1>7. ASSUME NEW n \in Leaves, key \in range[n] PROVE n = l
  <2>1. n \in DOMAIN node /\ height[n] = height[l]
    BY <1>5, <1>6 DEF Leaves
  <2> QED
    BY <1>5, <1>7, <2>1, OneNodePerKey
<1> QED
  BY <1>1, <1>5, <1>7 DEF Leaves, l

-----------------------------------------------------------------------------
(* What the code finds.                                                    *)
LEMMA FindProps ==
  ASSUME NEW height, NEW range, WholeTree(node, tree_root, height, range),
         NEW key \in Int, NEW leaf, leaf = FindLeaf(key), NEW keys, keys = node[leaf].keys
  PROVE  /\ Find(key) = NULL => \A j \in 1 .. Len(keys) : keys[j] # key
         /\ Find(key) # NULL =>
              /\ PlaceOf(keys, key) \in 1 .. Len(keys)
              /\ keys[PlaceOf(keys, key)] = key
              /\ Find(key) = node[leaf].descendants[PlaceOf(keys, key)]
<1> DEFINE pos == PlaceOf(keys, key)
           values == node[leaf].descendants
<1>1. tree_root # NULL
  BY NullAssumption DEF WholeTree, Tree
<1>2. leaf \in DOMAIN node /\ node[leaf].is_leaf
  BY Searched DEF Leaves
<1>3. IsNode(node[leaf])
  BY <1>2, TreeFacts DEF WholeTree
<1>4. /\ keys \in Seq(Int) /\ values \in Seq(Values) /\ Len(values) = Len(keys)
      /\ Len(keys) \in Nat
  BY <1>2, <1>3 DEF IsNode
<1>5. /\ pos \in 1 .. Len(keys) + 1
      /\ \A j \in 1 .. Len(keys) : j < pos => keys[j] # key
      /\ pos <= Len(keys) => keys[pos] = key
  BY <1>4, PlaceOfProps
<1>6. Find(key) = IF pos > Len(keys) THEN NULL ELSE values[pos]
  BY <1>1 DEF Find
<1> HIDE DEF pos, values
<1>7. CASE pos > Len(keys)
  BY <1>4, <1>5, <1>6, <1>7
<1>8. CASE ~(pos > Len(keys))
  <2>1. pos \in 1 .. Len(keys)
    BY <1>4, <1>5, <1>8
  <2>2. values[pos] \in Values
    BY <1>4, <2>1
  <2>3. values[pos] # NULL
    BY <2>2, NullAssumption
  <2> QED
    BY <1>4, <1>5, <1>6, <1>8, <2>1, <2>3 DEF pos, values
<1> QED
  BY <1>7, <1>8

(* A table that is not in use can always be had.                           *)
LEMMA NewNodeProps ==
  ASSUME IsFiniteSet(DOMAIN node)
  PROVE  NewNode \in Nat \ DOMAIN node
<1> DEFINE D == DOMAIN node
           C == Cardinality(D)
           I == 1 .. C + 1
<1>1. C \in Nat
  BY FS_CardinalityType
<1> HIDE DEF C, D
<1>2. IsFiniteSet(I) /\ Cardinality(I) = C + 1
  BY <1>1, FS_Interval
<1>3. I \ D # {}
  <2>1. SUFFICES ASSUME I \subseteq D PROVE FALSE
    OBVIOUS
  <2>2. Cardinality(I) <= C
    BY <2>1, FS_Subset DEF C, D
  <2> QED
    BY <1>1, <1>2, <2>2
<1>4. I \ D \subseteq Nat
  OBVIOUS
<1>5. Min(I \ D) \in I \ D
  BY <1>3, <1>4, LeastNatural
<1>6. NewNode = Min(I \ D)
  BY DEF NewNode, C, D
<1> QED
  BY <1>4, <1>5, <1>6 DEF D

(* Insertion and removal of one element.                                   *)
LEMMA Inserts ==
  ASSUME NEW S, NEW s \in Seq(S), NEW e \in S, NEW i \in 1 .. Len(s) + 1
  PROVE  Inserted(S, s, i, e, InsertAt(s, i, e))
<1> DEFINE t == InsertAt(s, i, e)
<1>1. /\ t \in Seq(S) /\ Len(t) = Len(s) + 1
      /\ \A j \in 1 .. Len(s) + 1 :
           t[j] = IF j < i THEN s[j] ELSE IF j = i THEN e ELSE s[j - 1]
  BY InsertAtProps
<1> HIDE DEF t
<1>2. Inserted(S, s, i, e, t)
  BY <1>1, Zenon DEF Inserted
<1> QED
  BY <1>2 DEF t

LEMMA Removes ==
  ASSUME NEW S, NEW s \in Seq(S), NEW i \in 1 .. Len(s),
         \A j \in 1 .. Len(s) : j < i => s[j] # s[i]
  PROVE  Inserted(S, RemoveFirst(s, s[i]), i, s[i], s)
<1> DEFINE t == RemoveFirst(s, s[i])
<1>1. Len(s) \in Nat /\ i \in Nat
  OBVIOUS
<1>2. /\ t \in Seq(S) /\ Len(t) = Len(s) - 1
      /\ \A j \in 1 .. Len(s) - 1 : t[j] = IF j < i THEN s[j] ELSE s[j + 1]
  <2>1. t = RemoveAt(s, i)
    BY RemoveFirstProps
  <2> HIDE DEF t
  <2> QED
    BY <2>1, RemoveAtProps
<1> HIDE DEF t
<1>3. Len(s) = Len(t) + 1 /\ i \in 1 .. Len(t) + 1
  BY <1>1, <1>2
<1>4. ASSUME NEW j \in 1 .. Len(t) + 1
      PROVE  s[j] = IF j < i THEN t[j] ELSE IF j = i THEN s[i] ELSE t[j - 1]
  <2>1. CASE j < i
    BY <1>1, <1>2, <1>3, <2>1
  <2>2. CASE j = i
    BY <1>1, <2>2
  <2>3. CASE j > i
    <3> DEFINE q == j - 1
    <3>1. q \in 1 .. Len(s) - 1 /\ ~(q < i) /\ q + 1 = j
      BY <1>1, <1>3, <2>3
    <3> HIDE DEF q
    <3>2. t[q] = s[j]
      BY <1>2, <3>1
    <3> QED
      BY <1>1, <2>3, <3>2 DEF q
  <2> QED
    BY <1>1, <2>1, <2>2, <2>3
<1> QED
  BY <1>2, <1>3, <1>4, Zenon DEF Inserted, t

(* A leaf with an entry more.                                              *)
Entered(t, u, key) ==
  /\ IsNode(u) /\ u.is_leaf = t.is_leaf /\ u.parent = t.parent
  /\ u.next_leaf = t.next_leaf
  /\ Len(t.keys) \in Nat /\ Len(u.keys) = Len(t.keys) + 1
  /\ \A j \in 1 .. Len(t.keys) + 1 :
       u.keys[j] = key \/ \E i \in 1 .. Len(t.keys) : u.keys[j] = t.keys[i]

LEMMA WithEntryProps ==
  ASSUME NEW t, IsNode(t), t.is_leaf, NEW key \in Int, NEW value \in Values,
         \A j \in 1 .. Len(t.keys) : t.keys[j] # key
  PROVE  Entered(t, WithEntry(t, key, value), key)
<1> DEFINE s == t.keys
           pos == InsertionPoint(s, key)
           k == InsertAt(s, pos, key)
           d == InsertAt(t.descendants, pos, value)
           u == WithEntry(t, key, value)
<1>1. /\ DOMAIN t = NodeFields /\ s \in Seq(Int) /\ Ascending(s)
      /\ t.descendants \in Seq(Values) /\ Len(t.descendants) = Len(s)
      /\ t.is_leaf \in BOOLEAN
  BY DEF IsNode
<1>2. /\ DOMAIN u = NodeFields /\ u.is_leaf = t.is_leaf /\ u.parent = t.parent
      /\ u.next_leaf = t.next_leaf /\ u.keys = k /\ u.descendants = d
  BY <1>1 DEF NodeFields, WithEntry
<1>3. \A j \in 1 .. Len(s) : s[j] # key
  OBVIOUS
<1> HIDE DEF s, u
<1>4. /\ pos \in 1 .. Len(s) + 1
      /\ \A j \in 1 .. Len(s) : j < pos => s[j] < key
      /\ pos <= Len(s) => key <= s[pos]
  BY <1>1, InsertionPointProps
<1> HIDE DEF pos
<1>5. Inserted(Int, s, pos, key, k)
  BY <1>1, <1>4, Inserts
<1>6. Inserted(Values, t.descendants, pos, value, d)
  BY <1>1, <1>4, Inserts
<1> HIDE DEF k, d
<1>7. Len(s) \in Nat /\ \A j \in 1 .. Len(s) : s[j] \in Int
  BY <1>1
<1>8. Fits(s, pos, key)
  <2>1. pos > 1 => s[pos - 1] < key
    <3> SUFFICES ASSUME pos > 1 PROVE s[pos - 1] < key
      OBVIOUS
    <3> DEFINE q == pos - 1
    <3>1. q \in 1 .. Len(s) /\ q < pos
      BY <1>4, <1>7
    <3> HIDE DEF q
    <3>2. s[q] < key
      BY <1>4, <3>1
    <3> QED
      BY <3>2 DEF q
  <2>2. pos <= Len(s) => key < s[pos]
    <3> SUFFICES ASSUME pos <= Len(s) PROVE key < s[pos]
      OBVIOUS
    <3>1. pos \in 1 .. Len(s)
      BY <1>4, <1>7
    <3> QED
      BY <1>3, <1>4, <1>7, <3>1
  <2> QED
    BY <2>1, <2>2 DEF Fits
<1>9. Ascending(k)
  BY <1>1, <1>5, <1>8, InsertedAscends
<1>10. k \in Seq(Int) /\ Len(k) = Len(s) + 1
  BY <1>5 DEF Inserted
<1>11. d \in Seq(Values) /\ Len(d) = Len(s) + 1
  BY <1>1, <1>6 DEF Inserted
<1>12. IsNode(u)
  BY <1>1, <1>2, <1>9, <1>10, <1>11 DEF IsNode
<1>13. ASSUME NEW j \in 1 .. Len(s) + 1
       PROVE  k[j] = key \/ \E i \in 1 .. Len(s) : k[j] = s[i]
  <2>1. k[j] = IF j < pos THEN s[j] ELSE IF j = pos THEN key ELSE s[j - 1]
    BY <1>5 DEF Inserted
  <2>2. CASE j < pos
    BY <1>4, <1>7, <2>1, <2>2
  <2>3. CASE j = pos
    BY <2>1, <2>3
  <2>4. CASE j > pos
    <3>1. j - 1 \in 1 .. Len(s)
      BY <1>4, <1>7, <2>4
    <3> QED
      BY <1>4, <2>1, <2>4, <3>1
  <2> QED
    BY <1>4, <1>7, <2>2, <2>3, <2>4
<1> QED
  BY <1>2, <1>7, <1>10, <1>12, <1>13 DEF Entered, s, u

-----------------------------------------------------------------------------
(* How many keys the nodes have.  low is the node that an entry has been   *)
(* removed from.                                                           *)
Filled(t, is_root, is_low) ==
  /\ Len(t.keys) <= order - 1
  /\ is_root /\ ~is_low => Len(t.keys) >= 1
  /\ ~is_root /\ ~is_low => Len(t.keys) >= MinKeys(t.is_leaf)
  /\ ~is_root /\ is_low => Len(t.keys) >= MinKeys(t.is_leaf) - 1

Occupied(T, root, low) == \A m \in DOMAIN T : Filled(T[m], m = root, m = low)

Shaped(T, root, low) ==
  /\ \E height, range : WholeTree(T, root, height, range)
  /\ Occupied(T, root, low)

LEMMA MinKeysProps ==
  /\ order \in Nat /\ order >= 3
  /\ MinKeys(TRUE) \in Nat /\ MinKeys(TRUE) >= 1
  /\ order - 1 <= 2 * MinKeys(TRUE) /\ 2 * MinKeys(TRUE) <= order
  /\ MinKeys(FALSE) \in Nat /\ MinKeys(FALSE) >= 1
  /\ order - 2 <= 2 * MinKeys(FALSE) /\ 2 * MinKeys(FALSE) <= order - 1
  /\ Cut(order - 1) = MinKeys(TRUE) /\ Cut(order) = MinKeys(FALSE) + 1
BY OrderAssumption DEF MinKeys, Cut

LEMMA MinKeysRange ==
  ASSUME NEW b \in BOOLEAN
  PROVE  MinKeys(b) \in 1 .. order - 1
<1>1. order \in Nat /\ order >= 3
  BY OrderAssumption
<1>2. order \div 2 \in 1 .. order - 1 /\ (order + 1) \div 2 - 1 \in 1 .. order - 1
  BY <1>1
<1>3. (order - 1) + 1 = order
  BY <1>1
<1> QED
  BY <1>2, <1>3 DEF MinKeys, Cut

(* A node that is not the root has enough keys for any other.              *)
LEMMA FillingProps ==
  ASSUME NEW t, NEW k \in Nat, k = Len(t.keys), t.is_leaf \in BOOLEAN,
         NEW is_root \in BOOLEAN, NEW is_low \in BOOLEAN
  PROVE  /\ MinKeys(t.is_leaf) <= k /\ k <= order - 1 => Filled(t, is_root, is_low)
         /\ Filled(t, is_root, FALSE) => k >= 1
<1> DEFINE a == MinKeys(t.is_leaf)
<1>1. a \in 1 .. order - 1 /\ order \in Nat
  BY MinKeysRange, MinKeysProps
<1>2. Filled(t, is_root, is_low) <=>
      /\ k <= order - 1
      /\ is_root /\ ~is_low => k >= 1
      /\ ~is_root /\ ~is_low => k >= a
      /\ ~is_root /\ is_low => k >= a - 1
  BY DEF Filled
<1>3. Filled(t, is_root, FALSE) => (is_root /\ k >= 1) \/ (~is_root /\ k >= a)
  BY DEF Filled
<1> HIDE DEF a
<1>4. a <= k /\ k <= order - 1 => Filled(t, is_root, is_low)
  BY <1>1, <1>2
<1>5. Filled(t, is_root, FALSE) => k >= 1
  BY <1>1, <1>3
<1> QED
  BY <1>4, <1>5 DEF a

(* The first key.                                                          *)
LEMMA NewTree ==
  ASSUME DOMAIN node = {}, NEW key \in Int, NEW value \in Values, StartNewTree(key, value)
  PROVE  Shaped(node', tree_root', NULL)
<1> DEFINE N == NewNode
           height == [m \in Nat |-> 0]
           range == [m \in Nat |-> Int]
           U == node'
<1>1. N \in Nat
  <2>1. IsFiniteSet(DOMAIN node)
    BY FS_EmptySet
  <2> QED
    BY <2>1, NewNodeProps
<1> HIDE DEF N
<1>2. /\ tree_root' = N /\ DOMAIN U = {N}
      /\ U[N] = [is_leaf |-> TRUE, keys |-> <<key>>, descendants |-> <<value>>,
                 next_leaf |-> NULL, parent |-> NULL]
  BY DEF StartNewTree, Put, N
<1>3. /\ DOMAIN U[N] = NodeFields /\ U[N].is_leaf = TRUE /\ U[N].keys = <<key>>
      /\ U[N].descendants = <<value>> /\ U[N].parent = NULL /\ U[N].next_leaf = NULL
  BY <1>2 DEF NodeFields
<1> HIDE DEF U
<1>4. IsNode(U[N])
  <2>1. <<key>> \in Seq(Int) /\ Len(<<key>>) = 1
    OBVIOUS
  <2>2. <<value>> \in Seq(Values) /\ Len(<<value>>) = 1
    OBVIOUS
  <2>3. Ascending(<<key>>)
    BY DEF Ascending
  <2> QED
    BY <1>3, <2>1, <2>2, <2>3 DEF IsNode
<1>5. /\ height \in [Nat -> Nat] /\ range \in [Nat -> SUBSET Int]
      /\ height[N] = 0 /\ range[N] = Int
  BY <1>1
<1> HIDE DEF height, range
<1>6. Content(U, height, range, range, N)
  <2>1. \A i \in 1 .. Len(U[N].keys) : U[N].keys[i] \in range[N]
    BY <1>3, <1>5
  <2> QED
    BY <1>3, <1>4, <1>5, <2>1 DEF Content
<1>7. IsFiniteSet(DOMAIN U)
  BY <1>2, FS_Singleton
<1>8. WholeTree(U, N, height, range)
  <2>1. Chained(U, range)
    BY <1>2, <1>3, <1>5 DEF Chained
  <2> QED
    BY <1>1, <1>2, <1>3, <1>5, <1>6, <1>7, <2>1 DEF WholeTree, Tree
<1>9. Occupied(U, N, NULL)
  <2>1. Len(U[N].keys) = 1
    BY <1>3
  <2>2. \A m \in DOMAIN U : m = N
    BY <1>2
  <2>3. 1 <= order - 1 /\ 1 >= 1
    BY MinKeysProps
  <2> QED
    BY <2>1, <2>2, <2>3 DEF Occupied, Filled
<1> QED
  BY <1>2, <1>8, <1>9 DEF Shaped, U

LEMMA OneMore ==
  ASSUME NEW t, NEW u, NEW is_root \in BOOLEAN, Filled(t, is_root, FALSE),
         t.is_leaf \in BOOLEAN, u.is_leaf = t.is_leaf,
         Len(t.keys) \in Nat, Len(u.keys) = Len(t.keys) + 1, Len(t.keys) < order - 1
  PROVE  Filled(u, is_root, FALSE)
<1> DEFINE k == Len(t.keys)
           a == MinKeys(t.is_leaf)
<1>1. a \in 1 .. order - 1 /\ order \in Nat
  BY MinKeysRange, OrderAssumption
<1>2. (is_root => k >= 1) /\ (~is_root => k >= a)
  BY DEF Filled
<1>3. k \in Nat /\ k < order - 1 /\ Len(u.keys) = k + 1 /\ MinKeys(u.is_leaf) = a
  OBVIOUS
<1> HIDE DEF k, a
<1>4. k + 1 <= order - 1 /\ k + 1 >= 1 /\ (~is_root => k + 1 >= a)
  BY <1>1, <1>2, <1>3
<1> QED
  BY <1>3, <1>4 DEF Filled

LEMMA LeafInsertion ==
  ASSUME NEW height, NEW range, WholeTree(node, tree_root, height, range),
         Occupied(node, tree_root, NULL), NEW n \in Leaves,
         NEW key \in range[n], key \in Int, NEW value \in Values,
         \A j \in 1 .. Len(node[n].keys) : node[n].keys[j] # key,
         InsertIntoLeaf(n, key, value)
  PROVE  Shaped(node', tree_root', NULL)
<1> DEFINE t == node[n]
           u == WithEntry(t, key, value)
<1>1. n \in DOMAIN node /\ t.is_leaf /\ IsNode(t)
      /\ \A j \in 1 .. Len(t.keys) : t.keys[j] \in range[n]
  BY TreeFacts DEF Leaves, WholeTree
<1>2. /\ Len(t.keys) < order - 1 /\ DOMAIN node' = DOMAIN node
      /\ node'[n] = u /\ \A m \in DOMAIN node \ {n} : node'[m] = node[m]
      /\ tree_root' = tree_root
  BY <1>1 DEF InsertIntoLeaf
<1>3. \A j \in 1 .. Len(t.keys) : t.keys[j] # key
  OBVIOUS
<1> HIDE DEF t
<1>4. Entered(t, u, key)
  BY <1>1, <1>3, WithEntryProps
<1> HIDE DEF u
<1>5. IsNode(u) /\ u.is_leaf /\ u.parent = t.parent /\ u.next_leaf = t.next_leaf
      /\ Len(u.keys) = Len(t.keys) + 1 /\ Len(t.keys) \in Nat /\ \A j \in 1 .. Len(u.keys) : u.keys[j] \in range[n]
  BY <1>1, <1>4 DEF Entered
<1>6. WholeTree(node', tree_root, height, range)
  BY <1>1, <1>2, <1>5, LeafRewritten DEF t
<1>7. Filled(u, n = tree_root, FALSE)
  <2>1. Filled(t, n = tree_root, n = NULL)
    BY <1>1 DEF Occupied, t
  <2>2. n # NULL
    BY <1>1, NullAssumption DEF WholeTree, Tree
  <2>3. (n = NULL) = FALSE
    BY <2>2
  <2>4. t.is_leaf \in BOOLEAN /\ u.is_leaf = t.is_leaf
    BY <1>1, <1>4 DEF Entered, IsNode
  <2> QED
    BY <1>2, <1>5, <2>1, <2>3, <2>4, OneMore
<1>8. Occupied(node', tree_root, NULL)
  <2>1. n # NULL
    BY <1>1, NullAssumption DEF WholeTree, Tree
  <2>2. (n = NULL) = FALSE
    BY <2>1
  <2>3. ASSUME NEW m \in DOMAIN node' PROVE Filled(node'[m], m = tree_root, m = NULL)
    BY <1>2, <1>7, <2>2 DEF Occupied
  <2> QED
    BY <2>3 DEF Occupied
<1> QED
  BY <1>2, <1>6, <1>8 DEF Shaped

(* Where nodes with one entry too many are split.                          *)
LEMMA CutProps ==
  ASSUME NEW c
  PROVE  /\ order \in Nat /\ order >= 3
         /\ c = Cut(order - 1) =>
              /\ c \in 1 .. order - 1 /\ order - c \in c .. order - 1
              /\ MinKeys(TRUE) = c
         /\ c = Cut(order) =>
              /\ c \in 2 .. order - 1 /\ c - 1 \in 1 .. order - 1
              /\ order - c \in c - 1 .. order - 1
              /\ MinKeys(FALSE) = c - 1
<1>1. order \in Nat /\ order >= 3
  BY OrderAssumption
<1>2. Cut(order - 1) = order \div 2 /\ Cut(order) = (order + 1) \div 2
  BY <1>1 DEF Cut
<1>3. MinKeys(TRUE) = Cut(order - 1) /\ MinKeys(FALSE) = Cut(order) - 1
  BY DEF MinKeys
<1>4. c = order \div 2 => c \in 1 .. order - 1 /\ order - c \in c .. order - 1
  BY <1>1
<1>5. c = (order + 1) \div 2 =>
        /\ c \in 2 .. order - 1 /\ c - 1 \in 1 .. order - 1
        /\ order - c \in c - 1 .. order - 1
  BY <1>1
<1> QED
  BY <1>1, <1>2, <1>3, <1>4, <1>5

(* A node was split and its parent does not know yet.                      *)
SplitShaped(T, root, left, key, right) ==
  /\ \E height, range : SplitTree(T, root, height, range, left, key, right)
  /\ Occupied(T, root, NULL) /\ Filled(T[left], FALSE, FALSE)

LEMMA LeafOverflow ==
  ASSUME NEW height, NEW range, WholeTree(node, tree_root, height, range),
         Occupied(node, tree_root, NULL), NEW n \in Leaves,
         NEW key \in range[n], key \in Int, NEW value \in Values,
         \A j \in 1 .. Len(node[n].keys) : node[n].keys[j] # key,
         InsertIntoLeafAfterSplitting(n, key, value)
  PROVE  /\ call'.fn = "insert_into_parent"
         /\ SplitShaped(node', tree_root', call'.left, call'.key, call'.right)
<1> DEFINE t == node[n]
           u == WithEntry(t, key, value)
           N == NewNode
           T == [node EXCEPT ![n] = u]
           c == Cut(order - 1)
           U == node'
<1>1. n \in DOMAIN node /\ t.is_leaf /\ IsNode(t)
      /\ \A j \in 1 .. Len(t.keys) : t.keys[j] \in range[n]
  BY TreeFacts DEF Leaves, WholeTree
<1>2. N \in Nat \ DOMAIN node
  BY NewNodeProps DEF WholeTree, Tree
<1>3. \A j \in 1 .. Len(t.keys) : t.keys[j] # key
  OBVIOUS
<1>4. Len(t.keys) <= order - 1 /\ Len(t.keys) >= order - 1
  BY <1>1 DEF Occupied, Filled, InsertIntoLeafAfterSplitting
<1> HIDE DEF t
<1>5. Entered(t, u, key)
  BY <1>1, <1>3, WithEntryProps
<1>6. /\ order \in Nat /\ order >= 3 /\ c \in 1 .. order - 1
      /\ order - c \in c .. order - 1 /\ MinKeys(TRUE) = c
  BY CutProps
<1> HIDE DEF u, N, c
<1>7. /\ IsNode(u) /\ u.is_leaf = TRUE /\ u.parent = t.parent
      /\ u.next_leaf = t.next_leaf /\ Len(u.keys) = order
      /\ \A j \in 1 .. Len(u.keys) : u.keys[j] \in range[n]
  <2>1. Len(t.keys) = order - 1 /\ Len(u.keys) = order
    <3> DEFINE k == Len(t.keys)
    <3>1. k \in Nat /\ Len(u.keys) = k + 1
      BY <1>5 DEF Entered
    <3>2. k <= order - 1 /\ k >= order - 1
      BY <1>4
    <3> HIDE DEF k
    <3>3. k = order - 1 /\ Len(u.keys) = order
      BY <1>6, <3>1, <3>2
    <3> QED
      BY <3>3 DEF k
  <2> QED
    BY <1>1, <1>5, <2>1 DEF Entered, IsNode
<1>8. /\ DOMAIN T = DOMAIN node /\ T[n] = u
      /\ \A m \in DOMAIN node \ {n} : T[m] = node[m]
  BY <1>1
<1> HIDE DEF T
<1>9. WholeTree(T, tree_root, height, range)
  BY <1>1, <1>7, <1>8, LeafRewritten DEF t
<1> DEFINE l == [u EXCEPT !.keys = SubSeq(@, 1, c), !.descendants = SubSeq(@, 1, c),
                          !.next_leaf = N]
           r == [u EXCEPT !.keys = SubSeq(@, c + 1, order),
                          !.descendants = SubSeq(@, c + 1, order)]
<1>10. /\ U = Put(Put(node, n, l), N, r) /\ tree_root' = tree_root
       /\ call' = InsertIntoParent(n, r.keys[1], N)
  BY DEF InsertIntoLeafAfterSplitting, u, c, t, N
<1>11. /\ LeafHalves(u, l, r, c) /\ l.is_leaf = TRUE /\ r.is_leaf = TRUE
       /\ l.next_leaf = N /\ r.next_leaf = u.next_leaf
  <2>1. DOMAIN u = NodeFields
    BY <1>7 DEF IsNode
  <2> QED
    BY <1>7, <2>1 DEF LeafHalves, NodeFields
<1> HIDE DEF l, r
<1>12. /\ DOMAIN U = DOMAIN T \cup {N} /\ U[n] = l /\ U[N] = r
       /\ \A m \in DOMAIN T \ {n} : U[m] = T[m]
  BY <1>1, <1>2, <1>8, <1>10 DEF Put
<1> HIDE DEF U
<1>13. c \in 1 .. Len(u.keys) - 1
  BY <1>6, <1>7
<1>14. SplitTree(U, tree_root, HeightsAfterSplit(height, n, N),
                 RangesAfterSplit(range, n, u.keys[c + 1], N), n, u.keys[c + 1], N)
  <2>1. n \in DOMAIN T /\ T[n].is_leaf /\ c \in 1 .. Len(T[n].keys) - 1
    BY <1>1, <1>7, <1>8, <1>13
  <2>2. N \in Nat \ DOMAIN T
    BY <1>2, <1>8
  <2>3. LeafHalves(T[n], U[n], U[N], c)
        /\ U[n].next_leaf = N /\ U[N].next_leaf = T[n].next_leaf
    BY <1>8, <1>11, <1>12
  <2>4. SplitTree(U, tree_root, HeightsAfterSplit(height, n, N),
                  RangesAfterSplit(range, n, T[n].keys[c + 1], N), n, T[n].keys[c + 1], N)
    BY <1>9, <1>12, <2>1, <2>2, <2>3, LeafSplit
  <2> QED
    BY <1>8, <2>4
<1>15. /\ Len(l.keys) = c /\ Len(r.keys) = order - c /\ r.keys[1] = u.keys[c + 1]
  <2>1. /\ Len(l.keys) = c /\ Len(r.keys) = Len(u.keys) - c
        /\ \A i \in 1 .. Len(u.keys) - c : r.keys[i] = u.keys[c + i]
    <3>1. IsNode(u) /\ u.is_leaf /\ LeafHalves(u, l, r, c)
          /\ c \in 1 .. Len(u.keys) - 1
      BY <1>7, <1>11, <1>13
    <3> HIDE DEF u, l, r, c
    <3>2. Len(l.keys) = c
      BY <3>1, LeafHalvesProps DEF KeysHalved
    <3>3. Len(r.keys) = Len(u.keys) - c
      BY <3>1, LeafHalvesProps DEF KeysHalved
    <3>4. \A i \in 1 .. Len(u.keys) - c : r.keys[i] = u.keys[c + i]
      BY <3>1, LeafHalvesProps DEF KeysHalved
    <3> QED
      BY <3>2, <3>3, <3>4
  <2>2. 1 \in 1 .. order - c
    BY <1>6
  <2> QED
    BY <1>7, <2>1, <2>2
<1>16. \A b \in BOOLEAN : Filled(l, b, FALSE) /\ Filled(r, b, FALSE)
  <2> SUFFICES ASSUME NEW b \in BOOLEAN PROVE Filled(l, b, FALSE) /\ Filled(r, b, FALSE)
    OBVIOUS
  <2> DEFINE d == order - c
  <2>1. c \in Nat /\ d \in Nat /\ c <= order - 1 /\ d <= order - 1 /\ c <= d
    BY <1>6
  <2>2. Len(r.keys) = d /\ Len(l.keys) = c
    BY <1>15
  <2> HIDE DEF d
  <2>3. l.is_leaf \in BOOLEAN /\ MinKeys(l.is_leaf) = c
        /\ r.is_leaf \in BOOLEAN /\ MinKeys(r.is_leaf) = c
    BY <1>6, <1>11
  <2>4. MinKeys(l.is_leaf) <= c /\ MinKeys(r.is_leaf) <= d
    BY <2>1, <2>3
  <2>5. Filled(l, b, FALSE)
    BY <2>1, <2>2, <2>3, <2>4, FillingProps
  <2>6. Filled(r, b, FALSE)
    BY <2>1, <2>2, <2>3, <2>4, FillingProps
  <2> QED
    BY <2>5, <2>6
<1>17. Occupied(U, tree_root, NULL)
  <2>1. n # NULL /\ N # NULL
    BY <1>1, <1>2, NullAssumption DEF WholeTree, Tree
  <2>2. ASSUME NEW m \in DOMAIN U PROVE Filled(U[m], m = tree_root, m = NULL)
    <3>1. CASE m = n \/ m = N
      <4>1. (m = NULL) = FALSE
        BY <2>1, <3>1
      <4> QED
        BY <1>12, <1>16, <3>1, <4>1
    <3>2. CASE m # n /\ m # N
      <4>1. m \in DOMAIN node /\ U[m] = node[m]
        BY <1>8, <1>12, <3>2
      <4> QED
        BY <4>1 DEF Occupied
    <3> QED
      BY <3>1, <3>2
  <2> QED
    BY <2>2 DEF Occupied
<1>18. SplitShaped(U, tree_root, n, u.keys[c + 1], N)
  BY <1>12, <1>14, <1>16, <1>17 DEF SplitShaped
<1>19. call'.fn = "insert_into_parent" /\ call'.left = n /\ call'.key = u.keys[c + 1]
       /\ call'.right = N
  BY <1>10, <1>15 DEF InsertIntoParent
<1> QED
  BY <1>10, <1>18, <1>19 DEF U

LEMMA AdoptProps ==
  ASSUME NEW T, NEW S, NEW n, NEW m \in DOMAIN T, DOMAIN T[m] = NodeFields,
         NEW U, U = Adopt(T, S, n)
  PROVE  /\ DOMAIN U = DOMAIN T
         /\ SameNode(T, U, m)
         /\ U[m].parent = IF m \in S THEN n ELSE T[m].parent
<1>1. DOMAIN T[m] = NodeFields
  OBVIOUS
<1>2. DOMAIN U = DOMAIN T
      /\ U[m] = IF m \in S THEN [T[m] EXCEPT !.parent = n] ELSE T[m]
  BY DEF Adopt
<1>3. CASE m \in S
  <2>1. U[m] = [T[m] EXCEPT !.parent = n]
    BY <1>2, <1>3
  <2> QED
    BY <1>1, <1>2, <1>3, <2>1 DEF SameNode, NodeFields
<1>4. CASE m \notin S
  BY <1>1, <1>2, <1>4 DEF SameNode
<1> QED
  BY <1>3, <1>4

LEMMA SameFilled ==
  ASSUME NEW T, NEW U, NEW m, SameNode(T, U, m), NEW is_root, NEW is_low,
         Filled(T[m], is_root, is_low)
  PROVE  Filled(U[m], is_root, is_low)
BY DEF SameNode, Filled

(* A node that is no descendant has been split.                            *)
LEMMA RootInserted ==
  ASSUME NEW left, NEW key, NEW right, SplitShaped(node, tree_root, left, key, right),
         InsertIntoNewRoot(left, key, right)
  PROVE  Shaped(node', tree_root', NULL)
<1> DEFINE N == NewNode
           A == Adopt(node, {left, right}, N)
           U == node'
           t == [is_leaf |-> FALSE, keys |-> <<key>>, descendants |-> <<left, right>>,
                 next_leaf |-> NULL, parent |-> NULL]
<1>1. PICK height, range : SplitTree(node, tree_root, height, range, left, key, right)
  BY DEF SplitShaped
<1> DEFINE cover == BothRanges(range, left, right)
<1>2. Tree(node, tree_root, height, range, cover, {right})
      /\ left \in DOMAIN node /\ right \in DOMAIN node /\ left # right
  BY <1>1 DEF SplitTree
<1>3. N \in Nat \ DOMAIN node
  BY <1>2, NewNodeProps DEF Tree
<1>4. node[left].parent = NULL /\ U = Put(A, N, t) /\ tree_root' = N
  BY DEF InsertIntoNewRoot
<1> HIDE DEF cover, N, A, t, U
<1>5. ASSUME NEW m \in DOMAIN node
      PROVE  /\ DOMAIN A = DOMAIN node /\ SameNode(node, A, m)
             /\ A[m].parent = IF m \in {left, right} THEN N ELSE node[m].parent
  <2>1. IsNode(node[m])
    BY <1>2, TreeFacts
  <2>2. DOMAIN node[m] = NodeFields
    BY <2>1 DEF IsNode
  <2> QED
    BY <2>2, AdoptProps DEF A
<1>6. /\ DOMAIN U = DOMAIN node \cup {N} /\ U[N] = t
      /\ \A m \in DOMAIN node : U[m] = A[m]
  BY <1>2, <1>3, <1>4, <1>5 DEF Put
<1>7. /\ DOMAIN t = NodeFields /\ t.is_leaf = FALSE /\ t.parent = NULL
      /\ t.next_leaf = NULL /\ t.keys = <<key>> /\ t.descendants = <<left, right>>
  BY DEF t, NodeFields
<1>8. \A m \in DOMAIN node : SameNode(node, U, m)
  BY <1>5, <1>6 DEF SameNode
<1>9. UnderNewRoot(node, U, N, left, key, right)
  BY <1>5, <1>6, <1>7, <1>8 DEF UnderNewRoot
<1>10. WholeTree(U, N, [height EXCEPT ![N] = height[left] + 1], [range EXCEPT ![N] = Int])
  BY <1>1, <1>3, <1>4, <1>9, RootSplit
<1>11. tree_root = left
  <2>1. SUFFICES ASSUME tree_root # left PROVE FALSE
    OBVIOUS
  <2>2. Listed(node, left)
    BY <1>2, <2>1, TreeFacts
  <2>3. NULL \in Nat
    BY <1>2, <1>4, <2>2 DEF Listed, Tree
  <2> QED
    BY <2>3, NullAssumption
<1>12. Occupied(U, N, NULL)
  <2>1. ASSUME NEW m \in DOMAIN node PROVE Filled(U[m], m = N, m = NULL)
    <3>1. (m = N) = FALSE /\ (m = NULL) = FALSE
      BY <1>2, <1>3, NullAssumption DEF Tree
    <3>2. Filled(node[m], m = tree_root, m = NULL) /\ Filled(node[left], FALSE, FALSE)
      BY DEF SplitShaped, Occupied
    <3>3. Filled(node[m], FALSE, FALSE)
      BY <1>11, <3>1, <3>2
    <3> QED
      BY <1>8, <3>1, <3>3, SameFilled
  <2>2. Filled(U[N], N = N, N = NULL)
    <3>1. Len(U[N].keys) = 1 /\ 1 <= order - 1 /\ 1 >= 1
      BY <1>6, <1>7, OrderAssumption
    <3> QED
      BY <3>1 DEF Filled
  <2> QED
    BY <1>6, <2>1, <2>2 DEF Occupied
<1> QED
  BY <1>4, <1>10, <1>12 DEF Shaped, U

LEMMA WithDescendantProps ==
  ASSUME NEW t, IsNode(t), ~t.is_leaf, NEW left, NEW key \in Int, NEW right \in Nat,
         \E j \in 1 .. Len(t.keys) + 1 : t.descendants[j] = left,
         NEW i, i = PlaceOf(t.descendants, left),
         NEW u, u = WithDescendant(t, left, key, right)
  PROVE  /\ i \in 1 .. Len(t.keys) + 1 /\ t.descendants[i] = left
         /\ DOMAIN u = NodeFields
         /\ u.is_leaf = t.is_leaf /\ u.parent = t.parent
         /\ u.next_leaf = t.next_leaf
         /\ Inserted(Int, t.keys, i, key, u.keys)
         /\ Inserted(Nat, t.descendants, i + 1, right, u.descendants)
<1> DEFINE keys == t.keys
           d == t.descendants
<1>1. /\ DOMAIN t = NodeFields /\ keys \in Seq(Int) /\ Len(keys) \in Nat
      /\ d \in Seq(Nat) /\ Len(d) = Len(keys) + 1
  BY DEF IsNode
<1>2. PICK j \in 1 .. Len(keys) + 1 : d[j] = left
  OBVIOUS
<1>3. u = [t EXCEPT !.keys = InsertAt(keys, i, key), !.descendants = InsertAt(d, i + 1, right)]
  BY DEF WithDescendant
<1>4. /\ DOMAIN u = NodeFields
      /\ u.is_leaf = t.is_leaf /\ u.parent = t.parent /\ u.next_leaf = t.next_leaf
      /\ u.keys = InsertAt(keys, i, key) /\ u.descendants = InsertAt(d, i + 1, right)
  BY <1>1, <1>3 DEF NodeFields
<1> HIDE DEF keys, d
<1>5. /\ i \in 1 .. Len(d) + 1
      /\ \A q \in 1 .. Len(d) : q < i => d[q] # left
      /\ i <= Len(d) => d[i] = left
  BY <1>1, PlaceOfProps DEF d
<1>6. i \in 1 .. Len(keys) + 1 /\ d[i] = left
  <2>1. j \in 1 .. Len(d) /\ Len(d) \in Nat /\ i \in Nat
    BY <1>1, <1>5
  <2>2. ~(j < i)
    BY <1>2, <1>5, <2>1
  <2>3. i <= Len(d)
    BY <2>1, <2>2
  <2> QED
    BY <1>1, <1>5, <2>3
<1>7. i + 1 \in 1 .. Len(d) + 1
  BY <1>1, <1>6
<1>8. Inserted(Int, keys, i, key, u.keys)
  BY <1>1, <1>4, <1>6, Inserts
<1>9. Inserted(Nat, d, i + 1, right, u.descendants)
  BY <1>1, <1>4, <1>7, Inserts
<1> QED
  BY <1>4, <1>6, <1>8, <1>9 DEF keys, d

(* The parent of a node that was split, before and after it is told.       *)
Told(T, U, n, left, key, right) ==
  /\ T[left].parent = n /\ n # NULL
  /\ DOMAIN U = DOMAIN T
  /\ U[n] = WithDescendant(T[n], left, key, right)
  /\ \A m \in DOMAIN T \ {n} : U[m] = T[m]

KnowsBoth(T, U, root, height, range, n) ==
  /\ n \in DOMAIN T /\ ~T[n].is_leaf /\ IsNode(T[n])
  /\ WholeTree(U, root, height, range)
  /\ U[n].is_leaf = FALSE /\ IsNode(U[n]) /\ Len(U[n].keys) = Len(T[n].keys) + 1

LEMMA ParentGrows ==
  ASSUME NEW T, NEW root, NEW height, NEW range, NEW left, NEW key, NEW right,
         SplitTree(T, root, height, range, left, key, right),
         NEW n, NEW U, Told(T, U, n, left, key, right)
  PROVE  KnowsBoth(T, U, root, height, range, n)
<1> DEFINE u == U[n]
<1>1. /\ T[left].parent = n /\ n # NULL
      /\ DOMAIN U = DOMAIN T
      /\ u = WithDescendant(T[n], left, key, right)
      /\ \A m \in DOMAIN T \ {n} : U[m] = T[m]
  BY DEF Told
<1> DEFINE cover == BothRanges(range, left, right)
           t == T[n]
           i == PlaceOf(t.descendants, left)
<1>2. Tree(T, root, height, range, cover, {right})
      /\ left \in DOMAIN T /\ right \in DOMAIN T /\ left # right
      /\ key \in range[right]
  BY DEF SplitTree
<1>3. left # root
  BY <1>1, <1>2 DEF Tree
<1>4. Listed(T, left)
  BY <1>2, <1>3, TreeFacts
<1>5. n \in DOMAIN T /\ ~t.is_leaf /\ \E j \in 1 .. Len(t.keys) + 1 : t.descendants[j] = left
  BY <1>1, <1>4 DEF Listed
<1>6. IsNode(t)
  BY <1>2, <1>5, TreeFacts
<1>7. key \in Int /\ right \in Nat
  BY <1>2 DEF Tree
<1>8. u = WithDescendant(t, left, key, right)
  BY <1>1
<1> HIDE DEF cover, t, i, u
<1>9. /\ i \in 1 .. Len(t.keys) + 1 /\ t.descendants[i] = left
      /\ DOMAIN u = NodeFields
      /\ u.is_leaf = t.is_leaf /\ u.parent = t.parent /\ u.next_leaf = t.next_leaf
      /\ Inserted(Int, t.keys, i, key, u.keys)
      /\ Inserted(Nat, t.descendants, i + 1, right, u.descendants)
  BY <1>5, <1>6, <1>7, <1>8, WithDescendantProps DEF i
<1>10. Grown(T, U, n, i, key, right)
  BY <1>1, <1>9 DEF Grown, t, u
<1>11. WholeTree(U, root, height, range)
  BY <1>1, <1>9, <1>10, NodeGrown DEF t
<1>12. IsNode(u)
  <2>1. Tree(U, root, height, range, range, {})
    BY <1>11 DEF WholeTree
  <2>2. n \in DOMAIN U
    BY <1>1, <1>5
  <2>3. IsNode(U[n])
    BY <2>1, <2>2, TreeFacts
  <2> QED
    BY <2>3 DEF u
<1>13. Len(u.keys) = Len(t.keys) + 1
  BY <1>9 DEF Inserted
<1>14. u.is_leaf = FALSE
  BY <1>5, <1>6, <1>9 DEF IsNode
<1> QED
  BY <1>5, <1>6, <1>11, <1>12, <1>13, <1>14 DEF t, u, KnowsBoth

LEMMA ParentIsThere ==
  ASSUME NEW T, NEW root, NEW height, NEW range, NEW left, NEW key, NEW right,
         SplitTree(T, root, height, range, left, key, right), T[left].parent # NULL
  PROVE  T[left].parent \in DOMAIN T
<1>1. Tree(T, root, height, range, BothRanges(range, left, right), {right})
      /\ left \in DOMAIN T /\ left # right /\ T[root].parent = NULL
  BY DEF SplitTree, Tree
<1>2. left # root
  BY <1>1
<1>3. Listed(T, left)
  BY <1>1, <1>2, TreeFacts
<1> QED
  BY <1>3 DEF Listed

LEMMA NodeInserted ==
  ASSUME NEW left, NEW key, NEW right, SplitShaped(node, tree_root, left, key, right),
         InsertIntoNode(left, key, right)
  PROVE  Shaped(node', tree_root', NULL)
<1> DEFINE n == node[left].parent
           t == node[n]
           u == WithDescendant(t, left, key, right)
           U == node'
<1>1. PICK height, range : SplitTree(node, tree_root, height, range, left, key, right)
  BY DEF SplitShaped
<1>2. n # NULL /\ Len(t.keys) < order - 1 /\ tree_root' = tree_root
      /\ U = [node EXCEPT ![n] = u]
  BY DEF InsertIntoNode
<1>3. DOMAIN U = DOMAIN node /\ \A m \in DOMAIN node \ {n} : U[m] = node[m]
  BY <1>2
<1>4. n \in DOMAIN node
  BY <1>1, <1>2, ParentIsThere
<1>5. U[n] = u
  BY <1>2, <1>4
<1>6. /\ ~t.is_leaf /\ IsNode(t) /\ WholeTree(U, tree_root, height, range)
      /\ u.is_leaf = FALSE /\ IsNode(u) /\ Len(u.keys) = Len(t.keys) + 1
  <2>1. Told(node, U, n, left, key, right)
    BY <1>2, <1>3, <1>5 DEF Told
  <2> HIDE DEF n, u, U, t
  <2>2. KnowsBoth(node, U, tree_root, height, range, n)
    BY <1>1, <2>1, ParentGrows
  <2> QED
    BY <1>5, <2>2 DEF KnowsBoth, t
<1> HIDE DEF n, U, u
<1>7. ASSUME NEW m \in DOMAIN U PROVE Filled(U[m], m = tree_root, m = NULL)
  <2>1. Filled(node[m], m = tree_root, m = NULL)
    BY <1>3 DEF SplitShaped, Occupied
  <2>2. CASE m # n
    BY <1>3, <2>1, <2>2
  <2>3. CASE m = n
    <3>1. (n = NULL) = FALSE
      BY <1>2
    <3>2. Filled(t, n = tree_root, FALSE)
      BY <2>1, <2>3, <3>1
    <3>3. t.is_leaf \in BOOLEAN /\ u.is_leaf = t.is_leaf /\ Len(t.keys) \in Nat
      BY <1>6 DEF IsNode
    <3>4. Filled(u, n = tree_root, FALSE)
      BY <1>2, <1>6, <3>2, <3>3, OneMore
    <3> QED
      BY <1>5, <2>3, <3>1, <3>4
  <2> QED
    BY <2>2, <2>3
<1> QED
  BY <1>2, <1>6, <1>7 DEF Shaped, Occupied, U

LEMMA NodeOverflow ==
  ASSUME NEW left, NEW key, NEW right, SplitShaped(node, tree_root, left, key, right),
         InsertIntoNodeAfterSplitting(left, key, right)
  PROVE  /\ call'.fn = "insert_into_parent"
         /\ SplitShaped(node', tree_root', call'.left, call'.key, call'.right)
<1> DEFINE n == node[left].parent
           t == node[n]
           u == WithDescendant(t, left, key, right)
           N == NewNode
           T == [node EXCEPT ![n] = u]
           c == Cut(order)
           U == node'
           l == [u EXCEPT !.keys = SubSeq(@, 1, c - 1), !.descendants = SubSeq(@, 1, c)]
           r == [u EXCEPT !.keys = SubSeq(@, c + 1, order),
                          !.descendants = SubSeq(@, c + 1, order + 1)]
           A == Adopt(node, ToSet(r.descendants), N)
<1>1. PICK height, range : SplitTree(node, tree_root, height, range, left, key, right)
  BY DEF SplitShaped
<1>2. /\ n # NULL /\ Len(t.keys) >= order - 1 /\ tree_root' = tree_root
      /\ U = Put(Put(A, n, l), N, r)
      /\ call' = InsertIntoParent(n, u.keys[c], N)
  BY DEF InsertIntoNodeAfterSplitting
<1>3. n \in DOMAIN node
  BY <1>1, <1>2, ParentIsThere
<1>4. N \in Nat \ DOMAIN node
  BY <1>1, NewNodeProps DEF SplitTree, Tree
<1>5. /\ DOMAIN T = DOMAIN node /\ T[n] = u
      /\ \A m \in DOMAIN node \ {n} : T[m] = node[m]
  BY <1>3
<1>6. /\ ~t.is_leaf /\ IsNode(t) /\ WholeTree(T, tree_root, height, range)
      /\ u.is_leaf = FALSE /\ IsNode(u) /\ Len(u.keys) = Len(t.keys) + 1
  <2>1. Told(node, T, n, left, key, right)
    BY <1>2, <1>5 DEF Told
  <2> HIDE DEF n, u, T, t
  <2>2. KnowsBoth(node, T, tree_root, height, range, n)
    BY <1>1, <2>1, ParentGrows
  <2> QED
    BY <1>5, <2>2 DEF KnowsBoth, t
<1>7. Len(t.keys) <= order - 1
  BY <1>3 DEF SplitShaped, Occupied, Filled
<1>8. /\ order \in Nat /\ order >= 3 /\ c \in 2 .. order - 1 /\ c - 1 \in 1 .. order - 1
      /\ order - c \in c - 1 .. order - 1 /\ MinKeys(FALSE) = c - 1
  BY CutProps
<1> HIDE DEF t, T, c, N
<1>9. Len(u.keys) = order
  <2> DEFINE k == Len(t.keys)
  <2>1. k \in Nat /\ k <= order - 1 /\ k >= order - 1 /\ Len(u.keys) = k + 1
    BY <1>2, <1>6, <1>7 DEF IsNode
  <2> HIDE DEF k
  <2> QED
    BY <1>8, <2>1
<1> HIDE DEF u, n
<1>10. /\ NodeHalves(u, l, r, c) /\ l.is_leaf = FALSE /\ r.is_leaf = FALSE
       /\ r.descendants = SubSeq(u.descendants, c + 1, order + 1)
  <2>1. DOMAIN u = NodeFields
    BY <1>6 DEF IsNode
  <2> QED
    BY <1>6, <1>9, <2>1 DEF NodeHalves, NodeFields
<1> HIDE DEF l, r
<1>11. ToSet(r.descendants) = Moved(u, c)
  <2> DEFINE d == u.descendants
             a == order - c + 1
  <2>1. d \in Seq(Nat) /\ Len(d) = order + 1
    BY <1>6, <1>9 DEF IsNode
  <2>2. /\ SubSeq(d, c + 1, Len(d)) \in Seq(Nat)
        /\ Len(SubSeq(d, c + 1, Len(d))) = Len(d) - c
        /\ \A j \in 1 .. Len(d) - c : SubSeq(d, c + 1, Len(d))[j] = d[c + j]
    <3>1. c \in 0 .. Len(d)
      BY <1>8, <2>1
    <3> HIDE DEF d
    <3> QED
      BY <2>1, <3>1, LastPart
  <2> HIDE DEF d
  <2>3. Len(d) - c = a /\ a \in Nat /\ order \in Nat /\ c \in Nat /\ c + a = order + 1
    BY <1>8, <2>1
  <2> HIDE DEF a
  <2>4. /\ r.descendants \in Seq(Nat) /\ Len(r.descendants) = a
        /\ \A j \in 1 .. a : r.descendants[j] = d[c + j]
    BY <1>10, <2>1, <2>2, <2>3 DEF d
  <2>5. ToSet(r.descendants) = {r.descendants[j] : j \in 1 .. a}
    BY <2>4 DEF ToSet
  <2>6. Moved(u, c) = {d[j] : j \in c + 1 .. c + a}
    BY <1>9, <2>3 DEF Moved, d
  <2>7. ASSUME NEW e \in ToSet(r.descendants) PROVE e \in Moved(u, c)
    <3>1. PICK j \in 1 .. a : e = r.descendants[j]
      BY <2>5
    <3>2. c + j \in c + 1 .. c + a /\ e = d[c + j]
      BY <2>3, <2>4, <3>1
    <3> QED
      BY <2>6, <3>2
  <2>8. ASSUME NEW e \in Moved(u, c) PROVE e \in ToSet(r.descendants)
    <3>1. PICK j \in c + 1 .. c + a : e = d[j]
      BY <2>6
    <3> DEFINE q == j - c
    <3>2. q \in 1 .. a /\ c + q = j
      BY <2>3
    <3> HIDE DEF q
    <3>3. e = r.descendants[q]
      BY <2>4, <3>1, <3>2
    <3> QED
      BY <2>5, <3>2, <3>3
  <2> QED
    BY <2>7, <2>8
<1>12. ASSUME NEW m \in DOMAIN node
       PROVE  /\ DOMAIN A = DOMAIN node /\ SameNode(node, A, m)
              /\ A[m].parent = IF m \in Moved(u, c) THEN N ELSE node[m].parent
  <2>1. IsNode(node[m])
    BY <1>1, TreeFacts DEF SplitTree
  <2>2. DOMAIN node[m] = NodeFields
    BY <2>1 DEF IsNode
  <2> QED
    BY <1>11, <2>2, AdoptProps
<1> HIDE DEF A
<1>13. /\ DOMAIN U = DOMAIN node \cup {N} /\ U[n] = l /\ U[N] = r
       /\ \A m \in DOMAIN node \ {n} : U[m] = A[m]
  BY <1>2, <1>3, <1>4, <1>12 DEF Put
<1> HIDE DEF U
<1>14. \A m \in DOMAIN node \ {n} :
         /\ SameNode(node, U, m)
         /\ U[m].parent = IF m \in Moved(u, c) THEN N ELSE node[m].parent
  BY <1>12, <1>13 DEF SameNode
<1>15. CutNode(T, U, n, N, c)
  <2>1. \A m \in DOMAIN T \ {n} :
          /\ SameNode(T, U, m)
          /\ U[m].parent = IF m \in Moved(u, c) THEN N ELSE T[m].parent
    BY <1>5, <1>14 DEF SameNode
  <2> QED
    BY <1>5, <1>10, <1>13, <2>1 DEF CutNode
<1>16. SplitTree(U, tree_root, HeightsAfterSplit(height, n, N),
                 RangesAfterSplit(range, n, u.keys[c], N), n, u.keys[c], N)
  <2>1. n \in DOMAIN T /\ ~T[n].is_leaf /\ c \in 2 .. Len(T[n].keys)
    BY <1>3, <1>5, <1>6, <1>8, <1>9
  <2>2. N \in Nat \ DOMAIN T
    BY <1>4, <1>5
  <2>3. SplitTree(U, tree_root, HeightsAfterSplit(height, n, N),
                  RangesAfterSplit(range, n, T[n].keys[c], N), n, T[n].keys[c], N)
    BY <1>6, <1>15, <2>1, <2>2, NodeSplit
  <2> QED
    BY <1>5, <2>3
<1>17. \A b \in BOOLEAN : Filled(l, b, FALSE) /\ Filled(r, b, FALSE)
  <2> SUFFICES ASSUME NEW b \in BOOLEAN PROVE Filled(l, b, FALSE) /\ Filled(r, b, FALSE)
    OBVIOUS
  <2> DEFINE a == c - 1
             d == order - c
  <2>1. a \in Nat /\ d \in Nat /\ a <= order - 1 /\ d <= order - 1 /\ a <= d
    BY <1>8
  <2>2. Len(l.keys) = a /\ Len(r.keys) = d
    <3>1. IsNode(u) /\ ~u.is_leaf /\ NodeHalves(u, l, r, c) /\ c \in 2 .. Len(u.keys)
      BY <1>6, <1>8, <1>9, <1>10
    <3>2. Len(l.keys) = c - 1 /\ Len(r.keys) = Len(u.keys) - c
      BY <3>1, NodeHalvesProps
    <3> QED
      BY <1>9, <3>2
  <2>3. l.is_leaf \in BOOLEAN /\ MinKeys(l.is_leaf) = a
        /\ r.is_leaf \in BOOLEAN /\ MinKeys(r.is_leaf) = a
    BY <1>8, <1>10
  <2> HIDE DEF a, d
  <2>4. MinKeys(l.is_leaf) <= a /\ MinKeys(r.is_leaf) <= d
    BY <2>1, <2>3
  <2>5. Filled(l, b, FALSE)
    BY <2>1, <2>2, <2>3, <2>4, FillingProps
  <2>6. Filled(r, b, FALSE)
    BY <2>1, <2>2, <2>3, <2>4, FillingProps
  <2> QED
    BY <2>5, <2>6
<1>18. Occupied(U, tree_root, NULL)
  <2>1. n # NULL /\ N # NULL
    BY <1>2, <1>4, NullAssumption
  <2>2. ASSUME NEW m \in DOMAIN U PROVE Filled(U[m], m = tree_root, m = NULL)
    <3>1. CASE m = n \/ m = N
      <4>1. (m = NULL) = FALSE
        BY <2>1, <3>1
      <4> QED
        BY <1>13, <1>17, <3>1, <4>1
    <3>2. CASE m # n /\ m # N
      <4>1. m \in DOMAIN node /\ SameNode(node, U, m)
        BY <1>13, <1>14, <3>2
      <4>2. Filled(node[m], m = tree_root, m = NULL)
        BY <4>1 DEF SplitShaped, Occupied
      <4> QED
        BY <4>1, <4>2, SameFilled
    <3> QED
      BY <3>1, <3>2
  <2> QED
    BY <2>2 DEF Occupied
<1>19. SplitShaped(U, tree_root, n, u.keys[c], N)
  BY <1>13, <1>16, <1>17, <1>18 DEF SplitShaped
<1>20. call'.fn = "insert_into_parent" /\ call'.left = n /\ call'.key = u.keys[c]
       /\ call'.right = N
  BY <1>2 DEF InsertIntoParent
<1> QED
  BY <1>2, <1>19, <1>20 DEF U

-----------------------------------------------------------------------------
(* Deletion.  What RemoveEntryFromNode leaves of a node t and a tree T.    *)
Left(t, key, descendant) ==
  [t EXCEPT !.keys = RemoveFirst(@, key), !.descendants = RemoveFirst(@, descendant)]

Removed(T, n, key, descendant) ==
  [m \in DOMAIN T \ (IF T[n].is_leaf THEN {} ELSE {descendant}) |->
     IF m # n THEN T[m]
     ELSE Left(T[n], key, descendant)]

(* Without the entry it is a tree, where n may have a key too few.         *)
RemovedShaped(T, root, n, key, descendant) ==
  /\ n \in DOMAIN Removed(T, n, key, descendant)
  /\ Shaped(Removed(T, n, key, descendant), root, n)

LEMMA OneLess ==
  ASSUME NEW t, NEW u, NEW is_root \in BOOLEAN, Filled(t, is_root, FALSE),
         t.is_leaf \in BOOLEAN, u.is_leaf = t.is_leaf,
         Len(u.keys) \in Nat, Len(t.keys) = Len(u.keys) + 1
  PROVE  Filled(u, is_root, TRUE)
<1> DEFINE k == Len(u.keys)
           a == MinKeys(t.is_leaf)
<1>1. a \in 1 .. order - 1 /\ order \in Nat
  BY MinKeysRange, OrderAssumption
<1>2. k + 1 <= order - 1 /\ (~is_root => k + 1 >= a)
  BY DEF Filled
<1>3. k \in Nat /\ MinKeys(u.is_leaf) = a
  OBVIOUS
<1> HIDE DEF a
<1>4. Len(u.keys) = k
  OBVIOUS
<1> HIDE DEF k
<1>5. k <= order - 1 /\ (~is_root => k >= a - 1)
  BY <1>1, <1>2, <1>3
<1> QED
  BY <1>3, <1>4, <1>5 DEF Filled

EntryAt(t, i, key, S, j, descendant) ==
  /\ IsNode(t) /\ t.descendants \in Seq(S)
  /\ i \in 1 .. Len(t.keys) /\ t.keys[i] = key
  /\ j \in 1 .. Len(t.descendants) /\ t.descendants[j] = descendant
  /\ \A q \in 1 .. Len(t.descendants) : q < j => t.descendants[q] # descendant

OneEntryMore(u, t, i, key, S, j, descendant) ==
  /\ DOMAIN u = NodeFields
  /\ u.is_leaf = t.is_leaf /\ u.parent = t.parent /\ u.next_leaf = t.next_leaf
  /\ Inserted(Int, u.keys, i, key, t.keys)
  /\ Inserted(S, u.descendants, j, descendant, t.descendants)

LEMMA LeftProps ==
  ASSUME NEW t, NEW i, NEW key, NEW S, NEW j, NEW descendant,
         EntryAt(t, i, key, S, j, descendant)
  PROVE  OneEntryMore(Left(t, key, descendant), t, i, key, S, j, descendant)
<1> DEFINE keys == t.keys
           d == t.descendants
           u == Left(t, key, descendant)
<1>1. DOMAIN t = NodeFields /\ keys \in Seq(Int) /\ Ascending(keys) /\ d \in Seq(S)
  BY DEF EntryAt, IsNode
<1>2. /\ DOMAIN u = NodeFields
      /\ u.is_leaf = t.is_leaf /\ u.parent = t.parent /\ u.next_leaf = t.next_leaf
      /\ u.keys = RemoveFirst(keys, key) /\ u.descendants = RemoveFirst(d, descendant)
  BY <1>1 DEF NodeFields, Left
<1>3. /\ i \in 1 .. Len(keys) /\ key = keys[i]
      /\ j \in 1 .. Len(d) /\ descendant = d[j]
      /\ \A q \in 1 .. Len(d) : q < j => d[q] # d[j]
  BY DEF EntryAt
<1> HIDE DEF keys, d, u
<1>4. \A q \in 1 .. Len(keys) : q < i => keys[q] # keys[i]
  <2> SUFFICES ASSUME NEW q \in 1 .. Len(keys), q < i PROVE keys[q] # keys[i]
    OBVIOUS
  <2>1. keys[q] < keys[i] /\ keys[q] \in Int /\ keys[i] \in Int
    BY <1>1, <1>3 DEF Ascending
  <2> QED
    BY <2>1
<1>5. Inserted(Int, RemoveFirst(keys, keys[i]), i, keys[i], keys)
  BY <1>1, <1>3, <1>4, Removes
<1>6. Inserted(S, RemoveFirst(d, d[j]), j, d[j], d)
  BY <1>1, <1>3, Removes
<1> QED
  BY <1>2, <1>3, <1>5, <1>6 DEF OneEntryMore, keys, d, u

LEMMA LeafRemoval ==
  ASSUME NEW height, NEW range, WholeTree(node, tree_root, height, range),
         Occupied(node, tree_root, NULL), NEW n \in Leaves, NEW key, NEW value,
         NEW i \in 1 .. Len(node[n].keys), node[n].keys[i] = key,
         node[n].descendants[i] = value
  PROVE  RemovedShaped(node, tree_root, n, key, value)
<1> DEFINE t == node[n]
           R == Removed(node, n, key, value)
           u == Left(t, key, value)
           d == t.descendants
           j == PlaceOf(d, value)
<1>1. n \in DOMAIN node /\ t.is_leaf /\ IsNode(t) /\ n \in Nat
      /\ \A q \in 1 .. Len(t.keys) : t.keys[q] \in range[n]
  BY TreeFacts DEF Leaves, WholeTree
<1>2. /\ DOMAIN R = DOMAIN node /\ R[n] = u
      /\ \A m \in DOMAIN node \ {n} : R[m] = node[m]
  BY <1>1 DEF Removed
<1>3. /\ d \in Seq(Values) /\ Len(d) = Len(t.keys) /\ d[i] = value /\ Len(t.keys) \in Nat
      /\ t.keys \in Seq(Int) /\ Ascending(t.keys) /\ t.is_leaf \in BOOLEAN
  BY <1>1 DEF IsNode
<1>4. /\ j \in 1 .. Len(d) /\ d[j] = value
      /\ \A q \in 1 .. Len(d) : q < j => d[q] # value
  <2> HIDE DEF d
  <2>1. /\ j \in 1 .. Len(d) + 1
        /\ \A q \in 1 .. Len(d) : q < j => d[q] # value
        /\ j <= Len(d) => d[j] = value
    BY <1>3, PlaceOfProps
  <2>2. i \in 1 .. Len(d) /\ Len(d) \in Nat
    BY <1>3
  <2>3. ~(i < j)
    BY <1>3, <2>1, <2>2
  <2> QED
    BY <2>1, <2>2, <2>3
<1> HIDE DEF j, R
<1>5. /\ DOMAIN u = NodeFields
      /\ u.is_leaf = t.is_leaf /\ u.parent = t.parent /\ u.next_leaf = t.next_leaf
      /\ Inserted(Int, u.keys, i, key, t.keys)
      /\ Inserted(Values, u.descendants, j, value, d)
  <2>1. EntryAt(t, i, key, Values, j, value)
    BY <1>1, <1>3, <1>4 DEF EntryAt
  <2>2. OneEntryMore(u, t, i, key, Values, j, value)
    BY <2>1, LeftProps
  <2> QED
    BY <2>2 DEF OneEntryMore
<1> HIDE DEF u, t, d
<1>6. Ascending(u.keys)
  BY <1>3, <1>5, RemovedAscends
<1>7. /\ u.keys \in Seq(Int) /\ Len(t.keys) = Len(u.keys) + 1 /\ Len(u.keys) \in Nat
      /\ u.descendants \in Seq(Values) /\ Len(d) = Len(u.descendants) + 1
      /\ Len(u.descendants) \in Nat
  BY <1>5 DEF Inserted
<1>8. IsNode(u)
  <2>1. Len(u.descendants) = Len(u.keys)
    BY <1>3, <1>7
  <2> QED
    BY <1>1, <1>3, <1>5, <1>6, <1>7, <2>1 DEF IsNode
<1>9. ASSUME NEW q \in 1 .. Len(u.keys) PROVE u.keys[q] \in range[n]
  <2> DEFINE k == Len(u.keys)
  <2>1. k \in Nat /\ i \in Nat /\ q \in 1 .. k /\ Len(t.keys) = k + 1
    BY <1>3, <1>7
  <2>2. \A p \in 1 .. k + 1 :
          t.keys[p] = IF p < i THEN u.keys[p] ELSE IF p = i THEN key ELSE u.keys[p - 1]
    BY <1>5 DEF Inserted
  <2> HIDE DEF k
  <2>3. CASE q < i
    <3>1. q \in 1 .. k + 1
      BY <2>1
    <3>2. u.keys[q] = t.keys[q]
      BY <2>2, <2>3, <3>1
    <3> QED
      BY <1>1, <2>1, <3>1, <3>2
  <2>4. CASE ~(q < i)
    <3> DEFINE p == q + 1
    <3>1. p \in 1 .. k + 1 /\ ~(p < i) /\ p # i /\ p - 1 = q
      BY <2>1, <2>4
    <3> HIDE DEF p
    <3>2. u.keys[q] = t.keys[p]
      BY <2>2, <3>1
    <3> QED
      BY <1>1, <2>1, <3>1, <3>2
  <2> QED
    BY <2>3, <2>4
<1>10. WholeTree(R, tree_root, height, range)
  <2>2. IsNode(R[n]) /\ R[n].is_leaf /\ R[n].parent = node[n].parent
        /\ R[n].next_leaf = node[n].next_leaf
        /\ \A q \in 1 .. Len(R[n].keys) : R[n].keys[q] \in range[n]
    BY <1>1, <1>2, <1>5, <1>8, <1>9 DEF t
  <2>3. n \in DOMAIN node /\ node[n].is_leaf
    BY <1>1 DEF t
  <2> QED
    BY <1>2, <2>2, <2>3, LeafRewritten
<1>11. Occupied(R, tree_root, n)
  <2>1. (n = NULL) = FALSE
    BY <1>1, NullAssumption
  <2>2. Filled(t, n = tree_root, FALSE)
    BY <1>1, <2>1 DEF Occupied, t
  <2>3. Filled(u, n = tree_root, TRUE)
    BY <1>3, <1>5, <1>7, <2>2, OneLess
  <2>4. ASSUME NEW m \in DOMAIN R PROVE Filled(R[m], m = tree_root, m = n)
    <3>1. CASE m = n
      BY <1>2, <2>3, <3>1
    <3>2. CASE m # n
      <4>1. Filled(node[m], m = tree_root, m = NULL)
        BY <1>2 DEF Occupied
      <4>2. (m = NULL) = FALSE /\ (m = n) = FALSE
        BY <1>2, <3>2, NullAssumption DEF WholeTree, Tree
      <4> QED
        BY <1>2, <3>2, <4>1, <4>2
    <3> QED
      BY <3>1, <3>2
  <2> QED
    BY <2>4 DEF Occupied
<1> QED
  BY <1>1, <1>2, <1>10, <1>11 DEF RemovedShaped, Shaped, R

(* Between two commands: no tree, or one that is in order.                 *)
Standing(T, root) == IF root = NULL THEN DOMAIN T = {} ELSE Shaped(T, root, NULL)

(* The node that lost the entry has enough keys.                           *)
LEMMA NotLow ==
  ASSUME NEW T, NEW root, NEW n \in DOMAIN T, Shaped(T, root, n),
         Filled(T[n], n = root, FALSE)
  PROVE  Standing(T, root)
<1>1. PICK height, range : WholeTree(T, root, height, range)
  BY DEF Shaped
<1>2. DOMAIN T \subseteq Nat /\ root \in DOMAIN T
  BY <1>1 DEF WholeTree, Tree
<1>3. root # NULL
  BY <1>2, NullAssumption
<1>4. ASSUME NEW m \in DOMAIN T PROVE Filled(T[m], m = root, m = NULL)
  <2>1. (m = NULL) = FALSE
    BY <1>2, NullAssumption
  <2>2. CASE m = n
    BY <2>1, <2>2
  <2>3. CASE m # n
    <3>1. Filled(T[m], m = root, m = n) /\ (m = n) = FALSE
      BY <2>3 DEF Shaped, Occupied
    <3> QED
      BY <2>1, <3>1
  <2> QED
    BY <2>2, <2>3
<1> QED
  BY <1>1, <1>3, <1>4 DEF Standing, Shaped, Occupied

LEMMA RootDeletion ==
  ASSUME NEW T, NEW root, Shaped(T, root, root), root = tree_root, AdjustRoot(T, root)
  PROVE  Standing(node', tree_root')
<1> DEFINE t == T[root]
           U == node'
<1>1. PICK height, range : WholeTree(T, root, height, range)
  BY DEF Shaped
<1>2. /\ DOMAIN T \subseteq Nat /\ root \in DOMAIN T
      /\ Tree(T, root, height, range, range, {})
  BY <1>1 DEF WholeTree, Tree
<1>3. IsNode(t) /\ t.keys \in Seq(Int) /\ Len(t.keys) \in Nat /\ t.is_leaf \in BOOLEAN
  BY <1>2, TreeFacts DEF IsNode
<1>4. CASE t.keys # <<>>
  <2>1. U = T /\ tree_root' = root
    BY <1>4 DEF AdjustRoot
  <2>2. Len(t.keys) # 0
    BY <1>3, <1>4
  <2>3. Len(t.keys) <= order - 1
    BY <1>2 DEF Shaped, Occupied, Filled
  <2>4. Filled(T[root], root = root, FALSE)
    BY <1>3, <2>2, <2>3 DEF Filled
  <2> QED
    BY <1>2, <2>1, <2>4, NotLow
<1>5. CASE t.keys = <<>> /\ t.is_leaf
  <2>1. /\ tree_root' = NULL /\ U = Restrict(T, DOMAIN T \ {root})
    BY <1>5 DEF AdjustRoot
  <2>2. DOMAIN U = DOMAIN T \ {root}
    BY <2>1 DEF Restrict
  <2>3. ASSUME NEW m \in DOMAIN T, m # root PROVE FALSE
    <3> DEFINE p == T[m].parent
    <3>1. height[root] = 0
      BY <1>1, <1>2, <1>5, HeightFacts
    <3>2. Listed(T, m)
      BY <1>2, <2>3, TreeFacts
    <3>3. p \in DOMAIN T /\ ~T[p].is_leaf
      BY <3>2 DEF Listed
    <3>4. height[p] \in Nat /\ height[p] <= height[root] /\ height[p] # 0
      BY <1>1, <3>3, HeightFacts
    <3> QED
      BY <3>1, <3>4
  <2>4. DOMAIN U = {}
    BY <2>2, <2>3
  <2> QED
    BY <2>1, <2>4 DEF Standing
<1>6. CASE t.keys = <<>> /\ ~t.is_leaf
  <2> DEFINE child == t.descendants[1]
             rest == Restrict(T, DOMAIN T \ {root})
  <2>1. Link(T, height, range, range, root, 1)
    <3>1. 1 \in 1 .. Len(t.keys) + 1
      BY <1>3
    <3> QED
      BY <1>2, <1>6, <3>1, TreeFacts
  <2>2. child \in DOMAIN T /\ height[root] = height[child] + 1
    BY <2>1 DEF Link
  <2>3. child # root /\ child # NULL
    BY <1>1, <1>2, <2>2, HeightFacts, NullAssumption
  <2>4. tree_root' = child /\ U = Adopt(rest, {child}, NULL)
    BY <1>6, <2>3 DEF AdjustRoot
  <2>5. /\ DOMAIN rest = DOMAIN T \ {root}
        /\ \A m \in DOMAIN T \ {root} : rest[m] = T[m]
    BY DEF Restrict
  <2> HIDE DEF rest, child, U
  <2>6. ASSUME NEW m \in DOMAIN T \ {root}
        PROVE  /\ DOMAIN U = DOMAIN T \ {root} /\ SameNode(T, U, m)
               /\ U[m].parent = IF m = child THEN NULL ELSE T[m].parent
    <3>1. DOMAIN rest[m] = NodeFields /\ m \in DOMAIN rest
      BY <1>2, <2>5, TreeFacts DEF IsNode
    <3>2. /\ DOMAIN U = DOMAIN rest /\ SameNode(rest, U, m)
          /\ U[m].parent = IF m \in {child} THEN NULL ELSE rest[m].parent
      BY <2>4, <3>1, AdoptProps
    <3> QED
      BY <2>5, <3>2 DEF SameNode
  <2>7. DOMAIN U = DOMAIN T \ {root}
    BY <2>2, <2>3, <2>6
  <2>8. RootLeft(T, U, root, child)
    BY <2>6, <2>7 DEF RootLeft
  <2>9. WholeTree(U, child, height, range)
    BY <1>1, <1>6, <2>8, RootAdjusted DEF child
  <2>10. Occupied(U, child, NULL)
    <3>1. ASSUME NEW m \in DOMAIN U PROVE Filled(U[m], m = child, m = NULL)
      <4>1. m \in DOMAIN T /\ m # root /\ (m = root) = FALSE
        BY <2>7
      <4>2. (m = NULL) = FALSE
        BY <1>2, <4>1, NullAssumption
      <4>3. Filled(T[m], FALSE, FALSE)
        <5>1. Filled(T[m], m = root, m = root)
          BY <4>1 DEF Shaped, Occupied
        <5> QED
          BY <4>1, <5>1
      <4>4. SameNode(T, U, m)
        BY <2>6, <4>1
      <4>5. Filled(U[m], FALSE, FALSE)
        BY <4>3, <4>4, SameFilled
      <4>6. CASE m # child
        BY <4>2, <4>5, <4>6
      <4>7. CASE m = child
        <5>1. IsNode(U[m])
          BY <2>9, TreeFacts DEF WholeTree
        <5> DEFINE k == Len(U[m].keys)
        <5>2. k \in Nat /\ U[m].is_leaf \in BOOLEAN /\ k = Len(U[m].keys)
          BY <5>1 DEF IsNode
        <5>3. k >= 1
          BY <4>5, <5>2, FillingProps
        <5>4. k <= order - 1
          BY <4>5 DEF Filled
        <5>5. Filled(U[m], TRUE, FALSE)
          BY <5>3, <5>4 DEF Filled
        <5> QED
          BY <4>2, <4>7, <5>5
      <4> QED
        BY <4>6, <4>7
    <3> QED
      BY <3>1 DEF Occupied
  <2> QED
    BY <2>3, <2>4, <2>9, <2>10 DEF Standing, Shaped, U
<1> QED
  BY <1>3, <1>4, <1>5, <1>6

-----------------------------------------------------------------------------
(* The chain of leaves.  First, sequences one after another, where R holds *)
(* of an element and every later one.                                      *)
Sorted(s, R) ==
  \A i, j \in 1 .. Len(s) : i < j => <<s[i], s[j]>> \in R

Precedes(s, t, R) ==
  \A a \in ToSet(s) : \A b \in ToSet(t) : <<a, b>> \in R

AllSorted(ss, R) ==
  /\ \A i \in 1 .. Len(ss) : Sorted(ss[i], R)
  /\ \A i, j \in 1 .. Len(ss) : i < j => Precedes(ss[i], ss[j], R)

Flattened(ss, k, f) ==
  f = [i \in 1 .. k |-> IF i = 1 THEN ss[i] ELSE f[i - 1] \o ss[i]]

(* What is in a sequence.                                                  *)
LEMMA ElementsAt ==
  ASSUME NEW S, NEW s \in Seq(S)
  PROVE  /\ Len(s) \in Nat /\ \A j \in 1 .. Len(s) : s[j] \in S /\ s[j] \in ToSet(s)
         /\ \A e : e \in ToSet(s) <=> \E j \in 1 .. Len(s) : s[j] = e
         /\ ToSet(s) \subseteq S
<1>1. DOMAIN s = 1 .. Len(s)
  OBVIOUS
<1> QED
  BY <1>1 DEF ToSet

(* What is in two sequences together.                                      *)
LEMMA ToSetConcat ==
  ASSUME NEW S, NEW a \in Seq(S), NEW b \in Seq(S)
  PROVE  ToSet(a \o b) = ToSet(a) \cup ToSet(b)
<1> DEFINE c == a \o b
<1>1. /\ c \in Seq(S) /\ Len(c) = Len(a) + Len(b) /\ Len(a) \in Nat /\ Len(b) \in Nat
      /\ \A j \in 1 .. Len(a) + Len(b) : c[j] = IF j <= Len(a) THEN a[j] ELSE b[j - Len(a)]
  BY ConcatProps
<1> HIDE DEF c
<1>2. /\ ToSet(a) = {a[j] : j \in 1 .. Len(a)} /\ ToSet(b) = {b[j] : j \in 1 .. Len(b)}
      /\ ToSet(c) = {c[j] : j \in 1 .. Len(a) + Len(b)}
  <2>1. DOMAIN a = 1 .. Len(a) /\ DOMAIN b = 1 .. Len(b)
    OBVIOUS
  <2>2. DOMAIN c = 1 .. Len(a) + Len(b)
    BY <1>1
  <2>3. ToSet(a) = {a[j] : j \in 1 .. Len(a)}
    BY <2>1 DEF ToSet
  <2>4. ToSet(b) = {b[j] : j \in 1 .. Len(b)}
    BY <2>1 DEF ToSet
  <2>5. ToSet(c) = {c[j] : j \in 1 .. Len(a) + Len(b)}
    BY <2>2 DEF ToSet
  <2> QED
    BY <2>3, <2>4, <2>5
<1>3. ASSUME NEW e \in ToSet(c) PROVE e \in ToSet(a) \cup ToSet(b)
  <2>1. PICK j \in 1 .. Len(a) + Len(b) : e = c[j]
    BY <1>2
  <2>2. CASE j <= Len(a)
    <3>1. j \in 1 .. Len(a) /\ e = a[j]
      BY <1>1, <2>1, <2>2
    <3> QED
      BY <1>2, <3>1
  <2>3. CASE ~(j <= Len(a))
    <3> DEFINE q == j - Len(a)
    <3>1. q \in 1 .. Len(b)
      BY <1>1, <2>3, SecondPart
    <3>2. e = b[q]
      BY <1>1, <2>1, <2>3
    <3> QED
      BY <1>2, <3>1, <3>2
  <2> QED
    BY <2>2, <2>3
<1>4. ASSUME NEW e \in ToSet(a) PROVE e \in ToSet(c)
  <2>1. PICK j \in 1 .. Len(a) : e = a[j]
    BY <1>2
  <2>2. j \in 1 .. Len(a) + Len(b) /\ e = c[j]
    BY <1>1, <2>1
  <2> QED
    BY <1>2, <2>2
<1>5. ASSUME NEW e \in ToSet(b) PROVE e \in ToSet(c)
  <2>1. PICK j \in 1 .. Len(b) : e = b[j]
    BY <1>2
  <2> DEFINE q == Len(a) + j
  <2>2. q \in 1 .. Len(a) + Len(b) /\ ~(q <= Len(a)) /\ q - Len(a) = j
    BY <1>1
  <2> HIDE DEF q
  <2>3. e = c[q]
    BY <1>1, <2>1, <2>2
  <2> QED
    BY <1>2, <2>2, <2>3
<1> QED
  BY <1>3, <1>4, <1>5 DEF c

(* Two sorted sequences, one before the other.                             *)
LEMMA ConcatSorted ==
  ASSUME NEW S, NEW R, NEW s \in Seq(S), NEW t \in Seq(S),
         Sorted(s, R), Sorted(t, R), Precedes(s, t, R)
  PROVE  Sorted(s \o t, R)
<1> DEFINE a == Len(s)
           b == Len(t)
           u == s \o t
<1>1. /\ a \in Nat /\ b \in Nat /\ Len(u) = a + b
      /\ \A j \in 1 .. a + b : u[j] = IF j <= a THEN s[j] ELSE t[j - a]
  BY ConcatProps
<1>2. /\ \A j \in 1 .. a : s[j] \in ToSet(s)
      /\ \A j \in 1 .. b : t[j] \in ToSet(t)
  BY ElementsAt
<1>3. /\ \A i, j \in 1 .. a : i < j => <<s[i], s[j]>> \in R
      /\ \A i, j \in 1 .. b : i < j => <<t[i], t[j]>> \in R
  BY DEF Sorted
<1> HIDE DEF a, b, u
<1>4. ASSUME NEW i \in 1 .. a + b, NEW j \in 1 .. a + b, i < j
      PROVE  <<u[i], u[j]>> \in R
  <2>1. CASE j <= a
    BY <1>1, <1>3, <1>4, <2>1
  <2>2. CASE i <= a /\ ~(j <= a)
    <3> DEFINE q == j - a
    <3>1. q \in 1 .. b /\ u[j] = t[q] /\ i \in 1 .. a /\ u[i] = s[i]
      BY <1>1, <2>2
    <3> HIDE DEF q
    <3> QED
      BY <1>2, <3>1 DEF Precedes
  <2>3. CASE ~(i <= a)
    <3> DEFINE p == i - a
               q == j - a
    <3>1. p \in 1 .. b /\ q \in 1 .. b /\ p < q /\ u[i] = t[p] /\ u[j] = t[q]
      BY <1>1, <1>4, <2>3
    <3> HIDE DEF p, q
    <3> QED
      BY <1>3, <3>1
  <2> QED
    BY <1>1, <1>4, <2>1, <2>2, <2>3
<1> QED
  BY <1>1, <1>4 DEF Sorted, u

(* What FlattenSeq is defined as does exist, for sequences of any number.  *)
LEMMA FlattenIsDefined ==
  ASSUME NEW ss, NEW n \in Nat
  PROVE  \E f : Flattened(ss, n, f)
<1> DEFINE D == {k \in 0 .. n : \E f : Flattened(ss, k, f)}
<1>1. 0 \in D
  <2> DEFINE f == [i \in 1 .. 0 |-> 0]
  <2>1. f = [i \in 1 .. 0 |-> IF i = 1 THEN ss[i] ELSE f[i - 1] \o ss[i]]
    OBVIOUS
  <2>2. Flattened(ss, 0, f)
    BY <2>1 DEF Flattened
  <2> QED
    BY <2>2
<1>2. ASSUME NEW k \in 0 .. n - 1, k \in D PROVE k + 1 \in D
  <2>1. PICK f : Flattened(ss, k, f)
    BY <1>2
  <2> DEFINE q == k + 1
  <2>2. k \in Nat /\ q \in 0 .. n /\ q = k + 1
    OBVIOUS
  <2> HIDE DEF q
  <2> DEFINE one(g, i) == IF i = 1 THEN ss[i] ELSE g[i - 1] \o ss[i]
             g == [i \in 1 .. q |-> one(f, i)]
  <2>3. f = [i \in 1 .. k |-> one(f, i)]
    BY <2>1 DEF Flattened
  <2>4. ASSUME NEW i \in 1 .. q PROVE g[i] = one(g, i)
    <3>1. CASE i = 1
      BY <3>1
    <3>2. CASE i # 1
      <4> DEFINE p == i - 1
      <4>1. p \in 1 .. k /\ p \in 1 .. q
        BY <2>2, <3>2
      <4> HIDE DEF p
      <4>2. g[p] = one(f, p) /\ f[p] = one(f, p)
        BY <2>3, <4>1
      <4>3. g[p] = f[p]
        BY <4>2
      <4>4. g[i] = f[p] \o ss[i] /\ one(g, i) = g[p] \o ss[i]
        BY <3>2 DEF p
      <4> QED
        BY <4>3, <4>4
    <3> QED
      BY <3>1, <3>2
  <2>5. g = [i \in 1 .. q |-> one(g, i)]
    <3>1. DOMAIN g = 1 .. q
      OBVIOUS
    <3> HIDE DEF one
    <3>2. \A i \in 1 .. q : g[i] = one(f, i) /\ one(f, i) = one(g, i)
      BY <2>4
    <3> QED
      BY <3>2
  <2>6. Flattened(ss, q, g)
    BY <2>5 DEF Flattened
  <2> QED
    BY <2>2, <2>6 DEF q
<1>3. 0 .. n \subseteq D
  <2> HIDE DEF D
  <2> QED
    BY <1>1, <1>2, CountingUp
<1> QED
  BY <1>3

(* What FlattenSeq makes of sorted sequences, each before the next.        *)
LEMMA FlattenProps ==
  ASSUME NEW S, NEW R, NEW ss \in Seq(Seq(S)), AllSorted(ss, R)
  PROVE  /\ FlattenSeq(ss) \in Seq(S)
         /\ Sorted(FlattenSeq(ss), R)
         /\ \A e : e \in ToSet(FlattenSeq(ss))
                   <=> \E i \in 1 .. Len(ss) : e \in ToSet(ss[i])
         /\ Len(ss) >= 1 /\ ss[1] # <<>> => FlattenSeq(ss)[1] = ss[1][1]
                                            /\ FlattenSeq(ss) # <<>>
<1> DEFINE n == Len(ss)
           f == CHOOSE g : g = [i \in 1 .. n |-> IF i = 1 THEN ss[i] ELSE g[i - 1] \o ss[i]]
<1>1. n \in Nat /\ \A i \in 1 .. n : ss[i] \in Seq(S)
  OBVIOUS
<1>2. FlattenSeq(ss) = IF n = 0 THEN ss ELSE f[n]
  BY DEF FlattenSeq
<1>3. /\ \A i \in 1 .. n : Sorted(ss[i], R)
      /\ \A i, j \in 1 .. n : i < j => Precedes(ss[i], ss[j], R)
  BY DEF AllSorted
<1> HIDE DEF n
<1>4. CASE n = 0
  <2>1. ss = <<>>
    BY <1>4 DEF n
  <2>2. FlattenSeq(ss) = <<>>
    BY <1>2, <1>4, <2>1
  <2>3. Sorted(<<>>, R)
    BY DEF Sorted
  <2>4. \A e : e \notin ToSet(<<>>)
    BY DEF ToSet
  <2> QED
    BY <1>4, <2>2, <2>3, <2>4 DEF n
<1>5. CASE n # 0
  <2> DEFINE Good(k) ==
               /\ f[k] \in Seq(S) /\ Sorted(f[k], R)
               /\ \A e : e \in ToSet(f[k]) <=> \E i \in 1 .. k : e \in ToSet(ss[i])
               /\ ss[1] # <<>> => f[k] # <<>> /\ f[k][1] = ss[1][1]
             m == n - 1
             D == {k \in 0 .. m : Good(k + 1)}
  <2>1. Flattened(ss, n, f)
    <3>1. \E g : Flattened(ss, n, g)
      BY <1>1, FlattenIsDefined
    <3> QED
      BY <3>1 DEF Flattened
  <2>2. \A i \in 1 .. n : f[i] = IF i = 1 THEN ss[i] ELSE f[i - 1] \o ss[i]
    <3> HIDE DEF f
    <3>1. f = [i \in 1 .. n |-> IF i = 1 THEN ss[i] ELSE f[i - 1] \o ss[i]]
      BY <2>1 DEF Flattened
    <3> QED
      BY <3>1
  <2> HIDE DEF f
  <2>3. m \in Nat /\ n = m + 1
    BY <1>1, <1>5
  <2> HIDE DEF m
  <2>4. Good(1)
    <3>1. 1 \in 1 .. n
      BY <2>3
    <3>2. f[1] = ss[1]
      BY <2>2, <3>1
    <3> QED
      BY <1>1, <1>3, <3>1, <3>2
  <2>5. ASSUME NEW k \in 0 .. m - 1, Good(k + 1) PROVE Good(k + 1 + 1)
    <3> DEFINE p == k + 1
               q == k + 1 + 1
    <3>1. p \in Nat /\ p \in 1 .. n /\ q \in 1 .. n /\ q # 1 /\ q - 1 = p /\ p < q
      BY <2>3
    <3>2. /\ \A i : i \in 1 .. q <=> i \in 1 .. p \/ i = q
          /\ \A i \in 1 .. p : i \in 1 .. n /\ i < q
      BY <2>3
    <3>3. Good(p)
      BY <2>5
    <3> HIDE DEF p, q
    <3>4. f[q] = f[p] \o ss[q] /\ ss[q] \in Seq(S) /\ f[p] \in Seq(S)
      BY <1>1, <2>2, <3>1, <3>3
    <3>5. f[q] \in Seq(S)
      BY <3>4
    <3>6. \A e : e \in ToSet(f[q]) <=> e \in ToSet(f[p]) \/ e \in ToSet(ss[q])
      BY <3>4, ToSetConcat
    <3>7. \A e : e \in ToSet(f[q]) <=> \E i \in 1 .. q : e \in ToSet(ss[i])
      BY <3>2, <3>3, <3>6
    <3>8. Precedes(f[p], ss[q], R)
      <4> SUFFICES ASSUME NEW a \in ToSet(f[p]), NEW b \in ToSet(ss[q])
                   PROVE  <<a, b>> \in R
        BY DEF Precedes
      <4>1. PICK i \in 1 .. p : a \in ToSet(ss[i])
        BY <3>3
      <4>2. i \in 1 .. n /\ i < q
        BY <3>2
      <4>3. Precedes(ss[i], ss[q], R)
        BY <1>3, <3>1, <4>2
      <4> QED
        BY <4>1, <4>3 DEF Precedes
    <3>9. Sorted(f[q], R)
      BY <1>3, <3>1, <3>3, <3>4, <3>8, ConcatSorted
    <3>10. ASSUME ss[1] # <<>> PROVE f[q] # <<>> /\ f[q][1] = ss[1][1]
      <4> DEFINE x == f[p]
                 y == ss[q]
      <4>1. x # <<>> /\ x[1] = ss[1][1] /\ x \in Seq(S) /\ y \in Seq(S) /\ f[q] = x \o y
        BY <3>3, <3>4, <3>10
      <4> HIDE DEF x, y
      <4>2. Len(x) \in Nat /\ Len(x) # 0 /\ Len(y) \in Nat
        BY <4>1
      <4>3. Len(x \o y) = Len(x) + Len(y) /\ (x \o y)[1] = x[1]
        BY <4>1, <4>2
      <4>4. Len(x \o y) # 0
        BY <4>2, <4>3
      <4>5. x \o y # <<>>
        BY <4>4
      <4> QED
        BY <4>1, <4>3, <4>5
    <3>11. Good(q)
      BY <3>5, <3>7, <3>9, <3>10
    <3> HIDE DEF Good
    <3> QED
      BY <3>11 DEF q
  <2>6. 0 .. m \subseteq D
    <3>1. 0 \in D
      BY <2>3, <2>4
    <3> HIDE DEF Good
    <3>2. ASSUME NEW k \in 0 .. m - 1, k \in D PROVE k + 1 \in D
      <4>1. Good(k + 1 + 1) /\ k + 1 \in 0 .. m
        BY <2>3, <2>5, <3>2
      <4> QED
        BY <4>1
    <3> HIDE DEF D
    <3> QED
      BY <2>3, <3>1, <3>2, CountingUp
  <2>7. Good(n)
    <3>1. m \in 0 .. m
      BY <2>3
    <3> HIDE DEF Good
    <3> QED
      BY <2>3, <2>6, <3>1
  <2>8. FlattenSeq(ss) = f[n]
    BY <1>2, <1>5 DEF f
  <2> QED
    BY <2>7, <2>8 DEF n
<1> QED
  BY <1>4, <1>5

-----------------------------------------------------------------------------
(* The leaves below a node, in the order of their ranges.                  *)
Before(X, Y) == \A a \in X : \A b \in Y : a < b

LeavesOf(T) == {n \in DOMAIN T : T[n].is_leaf}

RangesFollow(T, range) ==
  {p \in LeavesOf(T) \X LeavesOf(T) : Before(range[p[1]], range[p[2]])}

EachOf(b, d) == [i \in DOMAIN d |-> b[d[i]]]

OneBelow(T, b, n) ==
  IF T[n].is_leaf THEN <<n>> ELSE FlattenSeq(EachOf(b, T[n].descendants))

(* s are the leaves that share out what n answers for.                     *)
Shares(T, range, n, s) ==
  /\ s \in Seq(LeavesOf(T)) /\ s # <<>>
  /\ Sorted(s, RangesFollow(T, range))
  /\ \A m \in ToSet(s) : range[m] \subseteq range[n]
  /\ \A k \in range[n] : \E m \in ToSet(s) : k \in range[m]

(* An inner node and its descendants.                                      *)
LEMMA Descends ==
  ASSUME NEW T, NEW root, NEW height, NEW range, WholeTree(T, root, height, range),
         NEW n \in DOMAIN T, ~T[n].is_leaf
  PROVE  /\ T[n].keys \in Seq(Int) /\ Ascending(T[n].keys) /\ Len(T[n].keys) \in Nat
         /\ range[n] \in SUBSET Int
         /\ T[n].descendants \in Seq(Nat)
         /\ Len(T[n].descendants) = Len(T[n].keys) + 1
         /\ DOMAIN T[n].descendants = 1 .. Len(T[n].keys) + 1
         /\ \A i \in 1 .. Len(T[n].keys) + 1 :
              /\ T[n].descendants[i] \in DOMAIN T
              /\ height[n] = height[T[n].descendants[i]] + 1
              /\ range[T[n].descendants[i]] = Slice(T[n].keys, range[n], i)
<1>1. /\ IsNode(T[n]) /\ range[n] \in SUBSET Int
      /\ \A i \in 1 .. Len(T[n].keys) + 1 : Link(T, height, range, range, n, i)
  BY TreeFacts DEF WholeTree
<1>2. /\ T[n].keys \in Seq(Int) /\ Ascending(T[n].keys)
      /\ T[n].descendants \in Seq(Nat) /\ Len(T[n].descendants) = Len(T[n].keys) + 1
  BY <1>1 DEF IsNode
<1> QED
  BY <1>1, <1>2 DEF Link

(* What leads to one descendant comes before what leads to a later one.    *)
LEMMA SlicesAscend ==
  ASSUME NEW keys \in Seq(Int), Ascending(keys), NEW S \in SUBSET Int,
         NEW i \in 1 .. Len(keys) + 1, NEW j \in 1 .. Len(keys) + 1, i < j
  PROVE  Before(Slice(keys, S, i), Slice(keys, S, j))
<1> SUFFICES ASSUME NEW a \in Slice(keys, S, i), NEW b \in Slice(keys, S, j)
             PROVE  a < b
  BY DEF Before
<1> DEFINE c == j - 1
<1>1. Len(keys) \in Nat /\ a \in Int /\ b \in Int
  BY DEF Slice
<1>2. i \in 1 .. Len(keys) /\ c \in 1 .. Len(keys) /\ i <= c
  BY <1>1
<1>3. a < keys[i] /\ keys[c] <= b
  BY <1>1, <1>2 DEF Slice
<1> HIDE DEF c
<1>4. keys[i] \in Int /\ keys[c] \in Int /\ keys[i] <= keys[c]
  BY <1>2, Ordered
<1> QED
  BY <1>1, <1>3, <1>4

(* A key leads to some descendant.                                         *)
LEMMA SlicesCover ==
  ASSUME NEW keys \in Seq(Int), NEW S \in SUBSET Int, NEW k \in S
  PROVE  \E i \in 1 .. Len(keys) + 1 : k \in Slice(keys, S, i)
<1> DEFINE i == Branch(keys, k)
<1>1. k \in Int /\ Len(keys) \in Nat
  OBVIOUS
<1>2. /\ i \in 1 .. Len(keys) + 1
      /\ \A j \in 1 .. Len(keys) : j < i => keys[j] <= k
      /\ i <= Len(keys) => k < keys[i]
  BY <1>1, BranchProps
<1> HIDE DEF i
<1>3. ASSUME i > 1 PROVE keys[i - 1] <= k
  <2> DEFINE j == i - 1
  <2>1. j \in 1 .. Len(keys) /\ j < i
    BY <1>1, <1>2, <1>3
  <2> HIDE DEF j
  <2>2. keys[j] <= k
    BY <1>2, <2>1
  <2> QED
    BY <2>2 DEF j
<1>4. k \in Slice(keys, S, i)
  BY <1>2, <1>3 DEF Slice
<1> QED
  BY <1>2, <1>4

(* A leaf is what is below it.                                             *)
LEMMA LeafShares ==
  ASSUME NEW T, NEW range, NEW n \in DOMAIN T, T[n].is_leaf
  PROVE  Shares(T, range, n, <<n>>)
<1> DEFINE s == <<n>>
<1>1. s \in Seq(LeavesOf(T)) /\ Len(s) = 1 /\ s[1] = n /\ s # <<>>
  BY DEF LeavesOf
<1> HIDE DEF s
<1>2. \A e : e \in ToSet(s) <=> e = n
  BY <1>1, ElementsAt
<1>3. Sorted(s, RangesFollow(T, range))
  BY <1>1 DEF Sorted
<1>4. Shares(T, range, n, s)
  BY <1>1, <1>2, <1>3 DEF Shares
<1> QED
  BY <1>4 DEF s

(* What is below a node is what is below its descendants.                  *)
LEMMA NodeShares ==
  ASSUME NEW T, NEW root, NEW height, NEW range, WholeTree(T, root, height, range),
         NEW n \in DOMAIN T, ~T[n].is_leaf,
         NEW b, \A i \in 1 .. Len(T[n].keys) + 1 :
                  Shares(T, range, T[n].descendants[i], b[T[n].descendants[i]])
  PROVE  /\ Shares(T, range, n, FlattenSeq(EachOf(b, T[n].descendants)))
         /\ FlattenSeq(EachOf(b, T[n].descendants))[1] = b[T[n].descendants[1]][1]
<1> DEFINE keys == T[n].keys
           d == T[n].descendants
           L == LeavesOf(T)
           R == RangesFollow(T, range)
           N == Len(keys) + 1
           ss == EachOf(b, d)
           f == FlattenSeq(ss)
<1>1. /\ keys \in Seq(Int) /\ Ascending(keys) /\ Len(keys) \in Nat
      /\ range[n] \in SUBSET Int /\ DOMAIN d = 1 .. N /\ Len(d) = N
      /\ \A i \in 1 .. N : d[i] \in DOMAIN T /\ range[d[i]] = Slice(keys, range[n], i)
  BY Descends
<1>2. \A i \in 1 .. N : Shares(T, range, d[i], b[d[i]])
  OBVIOUS
<1> HIDE DEF d, keys, R, L
<1>3. N \in Nat /\ N >= 1
  BY <1>1
<1> HIDE DEF N
<1>4. DOMAIN ss = 1 .. N /\ \A i \in 1 .. N : ss[i] = b[d[i]]
  BY <1>1 DEF EachOf
<1> HIDE DEF ss
<1>5. \A i \in 1 .. N : /\ ss[i] \in Seq(L) /\ ss[i] # <<>> /\ Sorted(ss[i], R)
                        /\ \A m \in ToSet(ss[i]) : range[m] \subseteq Slice(keys, range[n], i)
                        /\ \A k \in Slice(keys, range[n], i) : \E m \in ToSet(ss[i]) : k \in range[m]
  BY <1>1, <1>2, <1>4 DEF Shares, L, R
<1>6. ss \in Seq(Seq(L)) /\ Len(ss) = N
  <2>1. ss = [i \in 1 .. N |-> ss[i]]
    BY <1>4, <1>1 DEF EachOf, ss
  <2>2. \A i \in 1 .. N : ss[i] \in Seq(L)
    BY <1>5
  <2>3. ss \in [1 .. N -> Seq(L)]
    BY <2>1, <2>2
  <2> QED
    BY <1>3, <1>4, <2>3
<1>7. AllSorted(ss, R)
  <2>1. ASSUME NEW i \in 1 .. N, NEW j \in 1 .. N, i < j PROVE Precedes(ss[i], ss[j], R)
    <3> SUFFICES ASSUME NEW x \in ToSet(ss[i]), NEW y \in ToSet(ss[j])
                 PROVE  <<x, y>> \in R
      BY DEF Precedes
    <3>1. x \in L /\ y \in L
      BY <1>5, ElementsAt
    <3>2. range[x] \subseteq Slice(keys, range[n], i) /\ range[y] \subseteq Slice(keys, range[n], j)
      BY <1>5
    <3>3. Before(Slice(keys, range[n], i), Slice(keys, range[n], j))
      BY <1>1, <2>1, SlicesAscend DEF N
    <3>4. Before(range[x], range[y])
      BY <3>2, <3>3 DEF Before
    <3> QED
      BY <3>1, <3>4 DEF R, L, RangesFollow
  <2> QED
    BY <1>5, <1>6, <2>1 DEF AllSorted
<1>8. /\ f \in Seq(L) /\ Sorted(f, R)
      /\ \A e : e \in ToSet(f) <=> \E i \in 1 .. N : e \in ToSet(ss[i])
      /\ f[1] = ss[1][1] /\ f # <<>>
  <2>1. ss[1] # <<>>
    BY <1>3, <1>5
  <2> QED
    BY <1>3, <1>6, <1>7, <2>1, FlattenProps
<1> HIDE DEF f
<1>9. ASSUME NEW m \in ToSet(f) PROVE range[m] \subseteq range[n]
  <2>1. PICK i \in 1 .. N : m \in ToSet(ss[i])
    BY <1>8
  <2>2. range[m] \subseteq Slice(keys, range[n], i)
    BY <1>5, <2>1
  <2> QED
    BY <2>2 DEF Slice
<1>10. ASSUME NEW k \in range[n] PROVE \E m \in ToSet(f) : k \in range[m]
  <2>1. PICK i \in 1 .. N : k \in Slice(keys, range[n], i)
    BY <1>1, SlicesCover DEF N
  <2>2. PICK m \in ToSet(ss[i]) : k \in range[m]
    BY <1>5, <2>1
  <2> QED
    BY <1>8, <2>2
<1>11. Shares(T, range, n, f)
  BY <1>8, <1>9, <1>10 DEF Shares, L, R
<1>12. f[1] = b[d[1]][1]
  BY <1>3, <1>4, <1>8
<1> QED
  BY <1>11, <1>12 DEF f, ss, d

(* The function of the leaves below each node.                             *)
AllBelow(T, b) == b = [n \in DOMAIN T |-> OneBelow(T, b, n)]

LEMMA BelowExists ==
  ASSUME NEW T, NEW root, NEW height, NEW range, WholeTree(T, root, height, range)
  PROVE  \E b : AllBelow(T, b)
<1> DEFINE H == height[root]
           Right(k, b) == /\ b = [n \in DOMAIN T |-> b[n]]
                          /\ \A n \in DOMAIN T : height[n] <= k => b[n] = OneBelow(T, b, n)
           D == {k \in 0 .. H : \E b : Right(k, b)}
<1>1. H \in Nat /\ \A m \in DOMAIN T : height[m] \in Nat /\ height[m] <= H
      /\ (T[m].is_leaf <=> height[m] = 0)
  BY HeightFacts
<1> HIDE DEF H
<1>2. ASSUME NEW n \in DOMAIN T, NEW b, NEW c,
             ~T[n].is_leaf =>
               \A i \in 1 .. Len(T[n].keys) + 1 : b[T[n].descendants[i]] = c[T[n].descendants[i]]
      PROVE  OneBelow(T, b, n) = OneBelow(T, c, n)
  <2>1. CASE T[n].is_leaf
    BY <2>1 DEF OneBelow
  <2>2. CASE ~T[n].is_leaf
    <3> DEFINE d == T[n].descendants
    <3>1. DOMAIN d = 1 .. Len(T[n].keys) + 1
      BY <2>2, Descends
    <3>2. \A i \in DOMAIN d : b[d[i]] = c[d[i]]
      BY <1>2, <2>2, <3>1
    <3> HIDE DEF d
    <3>3. EachOf(b, d) = EachOf(c, d)
      BY <3>2 DEF EachOf
    <3> QED
      BY <2>2, <3>3 DEF OneBelow, d
  <2> QED
    BY <2>1, <2>2
<1>3. 0 \in D
  <2> DEFINE b == [n \in DOMAIN T |-> <<n>>]
  <2>1. ASSUME NEW n \in DOMAIN T, height[n] <= 0 PROVE b[n] = OneBelow(T, b, n)
    <3>1. T[n].is_leaf
      BY <1>1, <2>1
    <3> QED
      BY <3>1 DEF OneBelow
  <2>2. b = [n \in DOMAIN T |-> b[n]]
    OBVIOUS
  <2> HIDE DEF b
  <2>3. Right(0, b)
    BY <2>1, <2>2
  <2> QED
    BY <1>1, <2>3
<1>4. ASSUME NEW k \in 0 .. H - 1, k \in D PROVE k + 1 \in D
  <2> DEFINE q == k + 1
  <2>1. k \in Nat /\ q \in 0 .. H /\ q = k + 1
    BY <1>1
  <2> HIDE DEF q
  <2>2. PICK b : Right(k, b)
    BY <1>4
  <2> DEFINE c == [n \in DOMAIN T |-> IF height[n] <= k THEN b[n] ELSE OneBelow(T, b, n)]
  <2>3. c = [n \in DOMAIN T |-> c[n]]
    OBVIOUS
  <2>4. \A n \in DOMAIN T :
          height[n] <= q => /\ c[n] = OneBelow(T, b, n)
                            /\ height[n] <= k => c[n] = b[n]
    BY <1>1, <2>1, <2>2
  <2> HIDE DEF c
  <2>5. ASSUME NEW n \in DOMAIN T, height[n] <= q PROVE c[n] = OneBelow(T, c, n)
    <3>1. c[n] = OneBelow(T, b, n)
      BY <1>1, <2>1, <2>4, <2>5
    <3>2. ASSUME ~T[n].is_leaf, NEW i \in 1 .. Len(T[n].keys) + 1
          PROVE  b[T[n].descendants[i]] = c[T[n].descendants[i]]
      <4> DEFINE d == T[n].descendants[i]
      <4>1. d \in DOMAIN T /\ height[n] = height[d] + 1
        BY <3>2, Descends
      <4> HIDE DEF d
      <4>2. height[d] <= k /\ height[d] <= q
        BY <1>1, <2>1, <2>5, <4>1
      <4>3. b[d] = c[d]
        BY <2>4, <4>1, <4>2
      <4> QED
        BY <4>3 DEF d
    <3>3. OneBelow(T, b, n) = OneBelow(T, c, n)
      BY <1>2, <3>2
    <3> QED
      BY <3>1, <3>3
  <2>6. Right(q, c)
    BY <2>3, <2>5
  <2> QED
    BY <2>1, <2>6 DEF q
<1>5. 0 .. H \subseteq D
  <2> HIDE DEF D
  <2> QED
    BY <1>1, <1>3, <1>4, CountingUp
<1>6. PICK b : Right(H, b)
  BY <1>1, <1>5
<1>7. b = [n \in DOMAIN T |-> b[n]] /\ \A n \in DOMAIN T : b[n] = OneBelow(T, b, n)
  BY <1>1, <1>6
<1>8. AllBelow(T, b)
  BY <1>7 DEF AllBelow
<1> QED
  BY <1>8

(* What it is for every node, by induction on the height.                  *)
LEMMA BelowShares ==
  ASSUME NEW T, NEW root, NEW height, NEW range, WholeTree(T, root, height, range),
         NEW b, AllBelow(T, b)
  PROVE  \A n \in DOMAIN T :
           /\ Shares(T, range, n, b[n])
           /\ T[n].is_leaf => b[n][1] = n
           /\ ~T[n].is_leaf => /\ T[n].descendants[1] \in DOMAIN T
                               /\ b[n][1] = b[T[n].descendants[1]][1]
<1> DEFINE H == height[root]
           D == {k \in 0 .. H : \A n \in DOMAIN T : height[n] = k => Shares(T, range, n, b[n])}
<1>1. H \in Nat /\ \A m \in DOMAIN T : height[m] \in Nat /\ height[m] <= H
      /\ (T[m].is_leaf <=> height[m] = 0)
  BY HeightFacts
<1> HIDE DEF H
<1>2. \A n \in DOMAIN T : b[n] = OneBelow(T, b, n)
  BY DEF AllBelow
<1>3. ASSUME NEW n \in DOMAIN T, T[n].is_leaf PROVE b[n] = <<n>>
  BY <1>2, <1>3 DEF OneBelow
<1>4. ASSUME NEW n \in DOMAIN T, ~T[n].is_leaf
      PROVE  b[n] = FlattenSeq(EachOf(b, T[n].descendants))
  BY <1>2, <1>4 DEF OneBelow
<1>5. 0 \in D
  <2>1. ASSUME NEW n \in DOMAIN T, height[n] = 0 PROVE Shares(T, range, n, b[n])
    <3>1. T[n].is_leaf /\ b[n] = <<n>>
      BY <1>1, <1>3, <2>1
    <3> QED
      BY <3>1, LeafShares
  <2> QED
    BY <1>1, <2>1
<1>6. ASSUME NEW k \in 0 .. H - 1, k \in D PROVE k + 1 \in D
  <2> DEFINE q == k + 1
  <2>1. k \in Nat /\ q \in 0 .. H /\ q = k + 1 /\ q # 0
    BY <1>1
  <2> HIDE DEF q
  <2>2. ASSUME NEW n \in DOMAIN T, height[n] = q PROVE Shares(T, range, n, b[n])
    <3>1. ~T[n].is_leaf
      BY <1>1, <2>1, <2>2
    <3>2. ASSUME NEW i \in 1 .. Len(T[n].keys) + 1
          PROVE  Shares(T, range, T[n].descendants[i], b[T[n].descendants[i]])
      <4> DEFINE d == T[n].descendants[i]
      <4>1. d \in DOMAIN T /\ height[n] = height[d] + 1
        BY <3>1, Descends
      <4> HIDE DEF d
      <4>2. height[d] = k
        BY <1>1, <2>1, <2>2, <4>1
      <4>3. Shares(T, range, d, b[d])
        BY <1>6, <4>1, <4>2
      <4> QED
        BY <4>3 DEF d
    <3>3. Shares(T, range, n, FlattenSeq(EachOf(b, T[n].descendants)))
      BY <3>1, <3>2, NodeShares
    <3> QED
      BY <1>4, <3>1, <3>3
  <2> QED
    BY <2>1, <2>2 DEF q
<1>7. 0 .. H \subseteq D
  <2> HIDE DEF D
  <2> QED
    BY <1>1, <1>5, <1>6, CountingUp
<1>8. ASSUME NEW n \in DOMAIN T PROVE Shares(T, range, n, b[n])
  <2>1. height[n] \in 0 .. H
    BY <1>1
  <2> QED
    BY <1>7, <2>1
<1>9. ASSUME NEW n \in DOMAIN T, ~T[n].is_leaf
      PROVE  /\ T[n].descendants[1] \in DOMAIN T
             /\ b[n][1] = b[T[n].descendants[1]][1]
  <2>1. \A i \in 1 .. Len(T[n].keys) + 1 : T[n].descendants[i] \in DOMAIN T
    BY <1>9, Descends
  <2>2. \A i \in 1 .. Len(T[n].keys) + 1 :
          Shares(T, range, T[n].descendants[i], b[T[n].descendants[i]])
    BY <1>8, <2>1
  <2>3. FlattenSeq(EachOf(b, T[n].descendants))[1] = b[T[n].descendants[1]][1]
    BY <1>9, <2>2, NodeShares
  <2>4. 1 \in 1 .. Len(T[n].keys) + 1
    BY <1>9, Descends
  <2> QED
    BY <1>4, <1>9, <2>1, <2>3, <2>4
<1> QED
  BY <1>3, <1>8, <1>9

(* s is all leaves, one after another.                                     *)
AllLeaves(T, range, s) ==
  /\ s \in Seq(LeavesOf(T)) /\ s # <<>>
  /\ \A i, j \in 1 .. Len(s) : i < j => Before(range[s[i]], range[s[j]])
  /\ ToSet(s) = LeavesOf(T)

(* Below the root are all leaves.                                          *)
LEMMA RootShares ==
  ASSUME NEW T, NEW root, NEW height, NEW range, WholeTree(T, root, height, range),
         NEW s, Shares(T, range, root, s)
  PROVE  AllLeaves(T, range, s)
<1>1. /\ s \in Seq(LeavesOf(T)) /\ s # <<>> /\ Sorted(s, RangesFollow(T, range))
      /\ \A k \in range[root] : \E m \in ToSet(s) : k \in range[m]
  BY DEF Shares
<1>2. range[root] = Int /\ Tree(T, root, height, range, range, {})
  BY DEF WholeTree, Tree
<1>3. ToSet(s) \subseteq LeavesOf(T)
  BY <1>1, ElementsAt
<1>4. ASSUME NEW n \in LeavesOf(T) PROVE n \in ToSet(s)
  <2>1. n \in DOMAIN T /\ height[n] = 0 /\ range[n] # {} /\ range[n] \subseteq Int
    BY <1>2, TreeFacts DEF LeavesOf
  <2>2. PICK k \in range[n] : k \in Int
    BY <2>1
  <2>3. PICK m \in ToSet(s) : k \in range[m]
    BY <1>1, <1>2, <2>2
  <2>4. m \in DOMAIN T /\ height[m] = 0
    BY <1>2, <1>3, TreeFacts DEF LeavesOf
  <2>5. m = n
    BY <2>1, <2>2, <2>3, <2>4, OneNodePerKey
  <2> QED
    BY <2>5
<1>5. ASSUME NEW i \in 1 .. Len(s), NEW j \in 1 .. Len(s), i < j
      PROVE  Before(range[s[i]], range[s[j]])
  BY <1>1, <1>5 DEF Sorted, RangesFollow
<1> QED
  BY <1>1, <1>3, <1>4, <1>5 DEF AllLeaves

(* Each of them is chained to the next.                                    *)
LEMMA ChainedInOrder ==
  ASSUME NEW T, NEW root, NEW height, NEW range, WholeTree(T, root, height, range),
         NEW s, AllLeaves(T, range, s)
  PROVE  /\ \A i \in 1 .. Len(s) - 1 : T[s[i]].next_leaf = s[i + 1]
         /\ T[s[Len(s)]].next_leaf = NULL
<1> DEFINE N == Len(s)
<1>1. /\ N \in Nat /\ N >= 1
      /\ \A i \in 1 .. N : s[i] \in DOMAIN T /\ T[s[i]].is_leaf
      /\ \A i, j \in 1 .. N : i < j => Before(range[s[i]], range[s[j]])
      /\ \A m \in DOMAIN T : T[m].is_leaf => \E i \in 1 .. N : s[i] = m
  <2>1. /\ s \in Seq(LeavesOf(T)) /\ s # <<>> /\ ToSet(s) = LeavesOf(T)
        /\ \A i, j \in 1 .. N : i < j => Before(range[s[i]], range[s[j]])
    BY DEF AllLeaves
  <2>2. N \in Nat /\ N # 0
    BY <2>1
  <2>3. \A m \in DOMAIN T : T[m].is_leaf => \E i \in 1 .. N : s[i] = m
    BY <2>1, ElementsAt DEF LeavesOf
  <2>4. \A i \in 1 .. N : s[i] \in LeavesOf(T)
    BY <2>1
  <2> QED
    BY <2>1, <2>2, <2>3, <2>4 DEF LeavesOf
<1> HIDE DEF N
<1>2. /\ Chained(T, range)
      /\ \A m \in DOMAIN T : range[m] # {} /\ range[m] \subseteq Int /\ Convex(range[m])
  <2>1. Tree(T, root, height, range, range, {}) /\ Chained(T, range)
    BY DEF WholeTree
  <2> QED
    BY <2>1, TreeFacts, RangesConvex
(* The leaf chained to the i-th is a later one, with nothing in between.    *)
<1>3. ASSUME NEW i \in 1 .. N, NEW k \in range[s[i]], k + 1 \notin range[s[i]]
      PROVE  \E j \in 1 .. N : /\ i < j /\ T[s[i]].next_leaf = s[j]
                               /\ k + 1 \in range[s[j]]
  <2> DEFINE m == T[s[i]].next_leaf
  <2>1. m \in DOMAIN T /\ T[m].is_leaf /\ k + 1 \in range[m]
    BY <1>1, <1>2, <1>3 DEF Chained, LeadsOn
  <2> HIDE DEF m
  <2>2. PICK j \in 1 .. N : s[j] = m
    BY <1>1, <2>1
  <2>3. k \in Int /\ ~(k + 1 < k)
    BY <1>1, <1>2
  <2>4. ~(j < i)
    <3>1. j < i => Before(range[m], range[s[i]])
      BY <1>1, <2>2
    <3> QED
      BY <2>1, <2>3, <3>1 DEF Before
  <2>5. j # i
    BY <1>3, <2>1, <2>2
  <2>6. i < j
    BY <1>1, <2>4, <2>5
  <2> QED
    BY <2>1, <2>2, <2>6 DEF m
<1>4. ASSUME NEW i \in 1 .. N - 1 PROVE T[s[i]].next_leaf = s[i + 1]
  <2> DEFINE h == i + 1
             X == range[s[i]]
             Y == range[s[h]]
  <2>1. i \in 1 .. N /\ h \in 1 .. N /\ i < h
    BY <1>1
  <2>2. Before(X, Y)
    BY <1>1, <2>1
  <2>3. X # {} /\ X \subseteq Int /\ Y # {} /\ Y \subseteq Int
    BY <1>1, <1>2, <2>1
  <2> HIDE DEF X, Y
  <2>4. PICK a \in X, y \in Y : a \in Int /\ y \in Int
    BY <2>3
  <2>5. a < y /\ y \notin X
    <3>1. ~(y < y)
      BY <2>4
    <3> QED
      BY <2>2, <2>4, <3>1 DEF Before
  <2>6. \E k \in X : k + 1 \notin X
    <3> SUFFICES ASSUME \A k \in X : k + 1 \in X PROVE FALSE
      OBVIOUS
    <3> DEFINE Q == y - a
               C == {j \in 0 .. Q : a + j \in X}
    <3>1. Q \in Nat /\ a + Q = y
      BY <2>4, <2>5
    <3> HIDE DEF Q
    <3>2. 0 \in C
      BY <2>4, <3>1
    <3>3. ASSUME NEW j \in 0 .. Q - 1, j \in C PROVE j + 1 \in C
      <4>1. a + j \in X /\ a + j + 1 = a + (j + 1) /\ j + 1 \in 0 .. Q
        BY <2>4, <3>1, <3>3
      <4>2. a + j + 1 \in X
        BY <4>1
      <4> QED
        BY <4>1, <4>2
    <3>4. 0 .. Q \subseteq C
      <4> HIDE DEF C
      <4> QED
        BY <3>1, <3>2, <3>3, CountingUp
    <3> QED
      BY <2>5, <3>1, <3>4
  <2>7. PICK k \in X : k + 1 \notin X
    BY <2>6
  <2>8. PICK j \in 1 .. N : i < j /\ T[s[i]].next_leaf = s[j] /\ k + 1 \in range[s[j]]
    BY <1>3, <2>1, <2>7 DEF X
  <2>9. j = h
    <3> SUFFICES ASSUME j # h PROVE FALSE
      OBVIOUS
    <3>1. h < j
      BY <2>1, <2>8
    <3>2. Before(Y, range[s[j]])
      BY <1>1, <2>1, <3>1 DEF Y
    <3>3. k < y /\ y < k + 1
      BY <2>2, <2>8, <3>2 DEF Before
    <3> QED
      BY <2>3, <2>4, <3>3
  <2> QED
    BY <2>8, <2>9
<1>5. T[s[N]].next_leaf = NULL
  <2> SUFFICES ASSUME T[s[N]].next_leaf # NULL PROVE FALSE
    OBVIOUS
  <2>1. N \in 1 .. N
    BY <1>1
  <2>2. PICK k \in range[s[N]] : k + 1 \notin range[s[N]]
    BY <1>1, <1>2, <2>1 DEF Chained
  <2>3. PICK j \in 1 .. N : N < j
    BY <1>3, <2>1, <2>2
  <2> QED
    BY <1>1, <2>3
<1> QED
  BY <1>4, <1>5 DEF N

(* The walk of print_leaves, first down: it ends in the first leaf below.  *)
LEMMA FirstIsDefined ==
  ASSUME NEW T, NEW root, NEW height, NEW range, WholeTree(T, root, height, range),
         NEW b, AllBelow(T, b),
         NEW h, h = CHOOSE g : g = [n \in DOMAIN T |->
                                      IF T[n].is_leaf THEN n ELSE g[T[n].descendants[1]]]
  PROVE  \A n \in DOMAIN T : h[n] = b[n][1]
<1> DEFINE H == height[root]
           S == {k \in 0 .. H : \A m \in DOMAIN T : height[m] = k => h[m] = b[m][1]}
<1>1. H \in Nat /\ \A m \in DOMAIN T : height[m] \in Nat /\ height[m] <= H
      /\ (T[m].is_leaf <=> height[m] = 0)
  BY HeightFacts
<1>2. ASSUME NEW m \in DOMAIN T, ~T[m].is_leaf
      PROVE  /\ T[m].descendants[1] \in DOMAIN T
             /\ height[m] = height[T[m].descendants[1]] + 1
             /\ b[m][1] = b[T[m].descendants[1]][1]
  <2>1. 1 \in 1 .. Len(T[m].keys) + 1
    BY <1>2, Descends
  <2>2. /\ T[m].descendants[1] \in DOMAIN T
        /\ height[m] = height[T[m].descendants[1]] + 1
    BY <1>2, <2>1, Descends
  <2> QED
    BY <1>2, <2>2, BelowShares
<1>3. ASSUME NEW m \in DOMAIN T, T[m].is_leaf PROVE b[m][1] = m
  BY <1>3, BelowShares
<1> HIDE DEF H
<1>4. \E g : g = [n \in DOMAIN T |->
                    IF T[n].is_leaf THEN n ELSE g[T[n].descendants[1]]]
  <2> DEFINE g == [n \in DOMAIN T |-> b[n][1]]
             e == [n \in DOMAIN T |->
                     IF T[n].is_leaf THEN n ELSE g[T[n].descendants[1]]]
  <2>1. ASSUME NEW n \in DOMAIN T PROVE g[n] = e[n]
    <3>1. CASE T[n].is_leaf
      BY <1>3, <3>1
    <3>2. CASE ~T[n].is_leaf
      BY <1>2, <3>2
    <3> QED
      BY <3>1, <3>2
  <2>2. g = e
    BY <2>1
  <2> QED
    BY <2>2
<1>5. h = [n \in DOMAIN T |-> IF T[n].is_leaf THEN n ELSE h[T[n].descendants[1]]]
  BY <1>4
<1>6. \A n \in DOMAIN T : h[n] = IF T[n].is_leaf THEN n ELSE h[T[n].descendants[1]]
  BY <1>5
<1>7. 0 \in S
  <2>1. ASSUME NEW m \in DOMAIN T, height[m] = 0 PROVE h[m] = b[m][1]
    BY <1>1, <1>3, <1>6, <2>1
  <2> QED
    BY <1>1, <2>1
<1>8. ASSUME NEW k \in 0 .. H - 1, k \in S PROVE k + 1 \in S
  <2> DEFINE q == k + 1
  <2>1. k \in Nat /\ q \in 0 .. H /\ q # 0 /\ q = k + 1
    BY <1>1
  <2> HIDE DEF q
  <2>2. ASSUME NEW m \in DOMAIN T, height[m] = q PROVE h[m] = b[m][1]
    <3> DEFINE d == T[m].descendants[1]
    <3>1. ~T[m].is_leaf
      BY <1>1, <2>1, <2>2
    <3>2. d \in DOMAIN T /\ height[m] = height[d] + 1 /\ b[m][1] = b[d][1]
      BY <1>2, <3>1
    <3>3. h[m] = h[d]
      BY <1>6, <3>1
    <3> HIDE DEF d
    <3>4. height[d] = k
      BY <1>1, <2>1, <2>2, <3>2
    <3>5. h[d] = b[d][1]
      BY <1>8, <3>2, <3>4
    <3> QED
      BY <3>2, <3>3, <3>5
  <2> QED
    BY <2>1, <2>2
<1>9. 0 .. H \subseteq S
  <2> HIDE DEF S
  <2> QED
    BY <1>1, <1>7, <1>8, CountingUp
<1>10. ASSUME NEW n \in DOMAIN T PROVE h[n] = b[n][1]
  <2>1. height[n] \in 0 .. H
    BY <1>1
  <2> QED
    BY <1>9, <2>1
<1> QED
  BY <1>10

(* s from its i-th element on.                                             *)
Rest(s, i) == [j \in 1 .. Len(s) + 1 - i |-> s[i - 1 + j]]

LEMMA FunctionIsSeq ==
  ASSUME NEW S, NEW n \in Nat, NEW f \in [1 .. n -> S]
  PROVE  f \in Seq(S) /\ Len(f) = n
OBVIOUS

LEMMA RestProps ==
  ASSUME NEW S, NEW s \in Seq(S), NEW i \in 1 .. Len(s)
  PROVE  /\ i = Len(s) => Rest(s, i) = <<s[i]>>
         /\ i < Len(s) => Rest(s, i) = <<s[i]>> \o Rest(s, i + 1)
<1> DEFINE N == Len(s)
           x == s[i]
<1>1. N \in Nat /\ i \in 1 .. N /\ \A j \in 1 .. N : s[j] \in S
  OBVIOUS
<1> HIDE DEF N
<1>2. CASE i = N
  <2>1. N + 1 - i = 1
    BY <1>1, <1>2
  <2>2. Rest(s, i) = [j \in 1 .. 1 |-> s[i - 1 + j]]
    BY <2>1 DEF Rest, N
  <2>3. [j \in 1 .. 1 |-> s[i - 1 + j]] = <<x>>
    <3>1. \A j \in 1 .. 1 : i - 1 + j = i
      BY <1>1
    <3>2. [j \in 1 .. 1 |-> s[i - 1 + j]] = [j \in 1 .. 1 |-> x]
      BY <3>1
    <3> HIDE DEF x
    <3>3. <<x>> = [j \in 1 .. 1 |-> x]
      OBVIOUS
    <3> QED
      BY <3>2, <3>3
  <2> QED
    BY <1>2, <2>2, <2>3 DEF N
<1>3. CASE i < N
  <2> DEFINE M == N + 1 - i
             q == i + 1
             r == Rest(s, q)
             t == <<x>> \o r
  <2>1. /\ M \in Nat /\ M - 1 \in Nat /\ q \in Nat
        /\ N + 1 - q = M - 1 /\ q - 1 = i /\ 1 + (M - 1) = M
    BY <1>1, <1>3
  <2>2. \A j \in 1 .. M - 1 : i + j \in 1 .. N
    BY <1>1, <1>3
  <2>3. r = [j \in 1 .. M - 1 |-> s[i + j]]
    BY <2>1 DEF Rest, N
  <2>4. r \in Seq(S) /\ Len(r) = M - 1 /\ \A j \in 1 .. M - 1 : r[j] = s[i + j]
    <3> DEFINE K == M - 1
    <3>1. \A j \in 1 .. K : s[i + j] \in S
      BY <1>1, <2>2
    <3>2. K \in Nat /\ r = [j \in 1 .. K |-> s[i + j]]
      BY <2>1, <2>3
    <3> HIDE DEF r, K
    <3>3. r \in [1 .. K -> S] /\ \A j \in 1 .. K : r[j] = s[i + j]
      BY <3>1, <3>2
    <3>4. r \in Seq(S) /\ Len(r) = K
      BY <3>2, <3>3, FunctionIsSeq
    <3> QED
      BY <3>3, <3>4 DEF K
  <2>5. <<x>> \in Seq(S) /\ Len(<<x>>) = 1 /\ <<x>>[1] = x
    BY <1>1
  <2>6. /\ t \in Seq(S) /\ Len(t) = 1 + Len(r)
        /\ \A j \in 1 .. 1 + Len(r) : t[j] = IF j <= 1 THEN <<x>>[j] ELSE r[j - 1]
    <3> HIDE DEF r, x
    <3> QED
      BY <2>4, <2>5, ConcatProps
  <2> HIDE DEF t, r
  <2>7. ASSUME NEW j \in 1 .. M PROVE t[j] = s[i - 1 + j]
    <3>1. j \in 1 .. 1 + Len(r)
      BY <2>1, <2>4
    <3>2. CASE j = 1
      <4>1. i - 1 + j = i
        BY <1>1, <3>2
      <4>2. t[j] = x
        BY <2>5, <2>6, <3>1, <3>2
      <4> QED
        BY <4>1, <4>2
    <3>3. CASE j # 1
      <4> DEFINE p == j - 1
      <4>1. p \in 1 .. M - 1 /\ i + p = i - 1 + j /\ ~(j <= 1)
        BY <1>1, <2>1, <3>3
      <4>2. t[j] = r[p]
        BY <2>6, <3>1, <4>1
      <4> HIDE DEF p
      <4> QED
        BY <2>4, <4>1, <4>2
    <3> QED
      BY <3>2, <3>3
  <2>8. t = [j \in 1 .. M |-> t[j]]
    BY <2>1, <2>4, <2>6
  <2>9. Rest(s, i) = [j \in 1 .. M |-> s[i - 1 + j]]
    BY DEF Rest, N
  <2> HIDE DEF M
  <2>10. t = Rest(s, i)
    BY <2>7, <2>8, <2>9
  <2> QED
    BY <1>3, <2>10 DEF t, r, q, x, N
<1> QED
  BY <1>1, <1>2, <1>3 DEF N

LEMMA RestIsAll ==
  ASSUME NEW S, NEW s \in Seq(S)
  PROVE  Rest(s, 1) = s
<1> DEFINE N == Len(s)
<1>1. N \in Nat /\ s = [j \in 1 .. N |-> s[j]] /\ N + 1 - 1 = N
  OBVIOUS
<1>2. Rest(s, 1) = [j \in 1 .. N |-> s[1 - 1 + j]]
  BY <1>1 DEF Rest
<1> HIDE DEF N
<1>3. \A j \in 1 .. N : 1 - 1 + j = j
  BY <1>1
<1>4. [j \in 1 .. N |-> s[1 - 1 + j]] = [j \in 1 .. N |-> s[j]]
  BY <1>3
<1> QED
  BY <1>1, <1>2, <1>4

(* Then along next_leaf: it passes all leaves, and comes to an end.        *)
LEMMA WalkIsDefined ==
  ASSUME NEW T, NEW root, NEW height, NEW range, WholeTree(T, root, height, range),
         NEW s, AllLeaves(T, range, s),
         NEW h, h = CHOOSE g : g = [n \in DOMAIN T |->
                                      IF T[n].next_leaf = NULL THEN <<n>>
                                      ELSE <<n>> \o g[T[n].next_leaf]]
  PROVE  h[s[1]] = s
<1> DEFINE N == Len(s)
           L == LeavesOf(T)
           next(m) == T[m].next_leaf
<1>1. /\ s \in Seq(L) /\ N \in Nat /\ N >= 1
      /\ \A i \in 1 .. N : s[i] \in DOMAIN T /\ T[s[i]].is_leaf
      /\ \A i, j \in 1 .. N : i < j => Before(range[s[i]], range[s[j]])
      /\ \A m \in DOMAIN T : T[m].is_leaf => \E i \in 1 .. N : s[i] = m
  <2>1. /\ s \in Seq(LeavesOf(T)) /\ s # <<>> /\ ToSet(s) = LeavesOf(T)
        /\ \A i, j \in 1 .. N : i < j => Before(range[s[i]], range[s[j]])
    BY DEF AllLeaves
  <2>2. N \in Nat /\ N # 0
    BY <2>1
  <2>3. \A m \in DOMAIN T : T[m].is_leaf => \E i \in 1 .. N : s[i] = m
    BY <2>1, ElementsAt DEF LeavesOf
  <2>4. \A i \in 1 .. N : s[i] \in LeavesOf(T)
    BY <2>1
  <2> QED
    BY <2>1, <2>2, <2>3, <2>4 DEF LeavesOf
<1>2. /\ \A i \in 1 .. N - 1 : next(s[i]) = s[i + 1]
      /\ next(s[N]) = NULL
  BY ChainedInOrder
<1>3. \A m \in DOMAIN T : /\ m # NULL /\ range[m] # {} /\ range[m] \subseteq Int
                          /\ ~T[m].is_leaf => next(m) = NULL
  <2>1. Tree(T, root, height, range, range, {}) /\ Chained(T, range)
    BY DEF WholeTree
  <2> QED
    BY <2>1, TreeFacts, NullAssumption DEF Chained
<1>4. /\ \A i \in 1 .. N : i = N => Rest(s, i) = <<s[i]>>
      /\ \A i \in 1 .. N : i < N => Rest(s, i) = <<s[i]>> \o Rest(s, i + 1)
      /\ Rest(s, 1) = s
  BY <1>1, RestProps, RestIsAll
<1> HIDE DEF N, L, next
<1>5. ASSUME NEW i \in 1 .. N, NEW j \in 1 .. N, s[i] = s[j] PROVE i = j
  <2>1. range[s[i]] # {} /\ range[s[i]] \subseteq Int
    BY <1>1, <1>3
  <2>2. PICK k \in range[s[i]] : k \in Int /\ ~(k < k)
    BY <2>1
  <2>3. ~(i < j) /\ ~(j < i)
    BY <1>1, <1>5, <2>2 DEF Before
  <2> QED
    BY <1>1, <2>3
<1> DEFINE step(g, n) == IF next(n) = NULL THEN <<n>> ELSE <<n>> \o g[next(n)]
<1>6. ASSUME NEW g, \A i \in 1 .. N : g[s[i]] = Rest(s, i), NEW i \in 1 .. N
      PROVE  step(g, s[i]) = Rest(s, i)
  <2>1. CASE i = N
    BY <1>2, <1>4, <2>1
  <2>2. CASE i # N
    <3> DEFINE q == i + 1
    <3>1. i < N /\ i \in 1 .. N - 1 /\ q \in 1 .. N
      BY <1>1, <2>2
    <3>2. next(s[i]) = s[q] /\ Rest(s, i) = <<s[i]>> \o Rest(s, q)
      BY <1>2, <1>4, <3>1
    <3> HIDE DEF q
    <3>3. s[q] # NULL /\ g[s[q]] = Rest(s, q)
      BY <1>1, <1>3, <1>6, <3>1
    <3> QED
      BY <3>2, <3>3
  <2> QED
    BY <2>1, <2>2
<1>7. \E g : g = [n \in DOMAIN T |-> step(g, n)]
  <2> DEFINE place(n) == CHOOSE i \in 1 .. N : s[i] = n
             g == [n \in DOMAIN T |-> IF T[n].is_leaf THEN Rest(s, place(n)) ELSE <<n>>]
  <2>1. ASSUME NEW i \in 1 .. N PROVE g[s[i]] = Rest(s, i)
    <3>1. place(s[i]) \in 1 .. N /\ s[place(s[i])] = s[i]
      OBVIOUS
    <3>2. place(s[i]) = i
      BY <1>5, <3>1
    <3> QED
      BY <1>1, <3>2
  <2>2. \A n \in DOMAIN T : ~T[n].is_leaf => g[n] = <<n>>
    OBVIOUS
  <2>3. DOMAIN g = DOMAIN T /\ g = [n \in DOMAIN T |-> g[n]]
    OBVIOUS
  <2> HIDE DEF g
  <2>4. ASSUME NEW n \in DOMAIN T PROVE g[n] = step(g, n)
    <3>1. CASE T[n].is_leaf
      <4>1. PICK i \in 1 .. N : s[i] = n
        BY <1>1, <3>1
      <4> HIDE DEF step
      <4> QED
        BY <1>6, <2>1, <4>1
    <3>2. CASE ~T[n].is_leaf
      BY <1>3, <2>2, <3>2
    <3> QED
      BY <3>1, <3>2
  <2> HIDE DEF step
  <2>5. g = [n \in DOMAIN T |-> step(g, n)]
    BY <2>3, <2>4
  <2> QED
    BY <2>5
<1>8. h = [n \in DOMAIN T |-> step(h, n)]
  BY <1>7 DEF next
<1>9. \A i \in 1 .. N : h[s[i]] = step(h, s[i])
  <2> HIDE DEF step
  <2>1. \A n \in DOMAIN T : h[n] = step(h, n)
    BY <1>8
  <2> QED
    BY <1>1, <2>1
<1> DEFINE M == N - 1
           S == {k \in 0 .. M : h[s[N - k]] = Rest(s, N - k)}
<1>10. M \in Nat /\ N - 0 = N /\ N \in 1 .. N
  BY <1>1
<1>11. 0 \in S
  <2>1. h[s[N]] = Rest(s, N)
    BY <1>2, <1>4, <1>9, <1>10
  <2> QED
    BY <1>10, <2>1
<1>12. ASSUME NEW k \in 0 .. M - 1, k \in S PROVE k + 1 \in S
  <2> DEFINE i == N - (k + 1)
             q == N - k
  <2>1. i \in 1 .. N - 1 /\ i \in 1 .. N /\ q \in 1 .. N /\ q = i + 1 /\ i < N /\ k + 1 \in 0 .. M
    BY <1>1
  <2>2. h[s[q]] = Rest(s, q)
    BY <1>12
  <2> HIDE DEF i, q, M
  <2>3. next(s[i]) = s[q] /\ Rest(s, i) = <<s[i]>> \o Rest(s, q) /\ s[q] # NULL
    BY <1>1, <1>2, <1>3, <1>4, <2>1
  <2>4. h[s[i]] = Rest(s, i)
    BY <1>9, <2>1, <2>2, <2>3
  <2> QED
    BY <2>1, <2>4 DEF i
<1>13. 0 .. M \subseteq S
  <2> HIDE DEF S, M
  <2> QED
    BY <1>10, <1>11, <1>12, CountingUp
<1>14. M \in 0 .. M /\ N - M = 1
  BY <1>1, <1>10
<1>15. h[s[1]] = Rest(s, 1)
  <2> HIDE DEF M
  <2>1. h[s[N - M]] = Rest(s, N - M)
    BY <1>13, <1>14
  <2> QED
    BY <1>14, <2>1
<1> QED
  BY <1>4, <1>15

(* The keys of the leaves, one after another.                              *)
LEMMA KeysAscend ==
  ASSUME NEW T, NEW root, NEW height, NEW range, WholeTree(T, root, height, range),
         NEW s, AllLeaves(T, range, s)
  PROVE  LET keys == FlattenSeq([i \in DOMAIN s |-> T[s[i]].keys])
         IN \A i \in 1 .. Len(keys) - 1 : keys[i] < keys[i + 1]
<1> DEFINE N == Len(s)
           R == {p \in Int \X Int : p[1] < p[2]}
           ss == [i \in DOMAIN s |-> T[s[i]].keys]
           keys == FlattenSeq(ss)
<1>1. /\ N \in Nat /\ DOMAIN s = 1 .. N
      /\ \A i \in 1 .. N : s[i] \in DOMAIN T
      /\ \A i, j \in 1 .. N : i < j => Before(range[s[i]], range[s[j]])
  <2>1. s \in Seq(LeavesOf(T))
    BY DEF AllLeaves
  <2>2. \A i \in 1 .. N : s[i] \in LeavesOf(T)
    BY <2>1
  <2> QED
    BY <2>1, <2>2 DEF AllLeaves, LeavesOf
<1>2. ASSUME NEW m \in DOMAIN T
      PROVE  /\ T[m].keys \in Seq(Int) /\ Ascending(T[m].keys)
             /\ \A e \in ToSet(T[m].keys) : e \in range[m] /\ e \in Int
  <2>1. /\ IsNode(T[m]) /\ range[m] \subseteq Int
        /\ \A i \in 1 .. Len(T[m].keys) : T[m].keys[i] \in range[m]
    BY TreeFacts DEF WholeTree
  <2>2. T[m].keys \in Seq(Int) /\ Ascending(T[m].keys)
    BY <2>1 DEF IsNode
  <2> QED
    BY <2>1, <2>2, ElementsAt
<1> HIDE DEF N
<1>3. ss \in Seq(Seq(Int)) /\ Len(ss) = N /\ \A i \in 1 .. N : ss[i] = T[s[i]].keys
  <2>1. ss \in [1 .. N -> Seq(Int)]
    BY <1>1, <1>2
  <2> QED
    BY <1>1, <2>1
<1> HIDE DEF ss
<1>4. ASSUME NEW i \in 1 .. N PROVE Sorted(ss[i], R)
  <2> DEFINE t == T[s[i]].keys
  <2>1. t \in Seq(Int) /\ Ascending(t) /\ ss[i] = t
    BY <1>1, <1>2, <1>3
  <2> HIDE DEF t
  <2>2. ASSUME NEW a \in 1 .. Len(t), NEW b \in 1 .. Len(t), a < b
        PROVE  t[a] < t[b] /\ t[a] \in Int /\ t[b] \in Int
    BY <2>1, <2>2 DEF Ascending
  <2>3. Sorted(t, R)
    BY <2>2 DEF Sorted
  <2> QED
    BY <2>1, <2>3
<1>5. ASSUME NEW i \in 1 .. N, NEW j \in 1 .. N, i < j PROVE Precedes(ss[i], ss[j], R)
  <2> SUFFICES ASSUME NEW a \in ToSet(ss[i]), NEW b \in ToSet(ss[j]) PROVE <<a, b>> \in R
    BY DEF Precedes
  <2>1. a \in range[s[i]] /\ a \in Int /\ b \in range[s[j]] /\ b \in Int
    BY <1>1, <1>2, <1>3
  <2>2. a < b
    BY <1>1, <1>5, <2>1 DEF Before
  <2> QED
    BY <2>1, <2>2
<1>6. AllSorted(ss, R)
  BY <1>3, <1>4, <1>5 DEF AllSorted
<1>7. keys \in Seq(Int) /\ Sorted(keys, R)
  BY <1>3, <1>6, FlattenProps
<1> HIDE DEF keys
<1>8. ASSUME NEW i \in 1 .. Len(keys) - 1 PROVE keys[i] < keys[i + 1]
  <2> DEFINE q == i + 1
  <2>1. i \in 1 .. Len(keys) /\ q \in 1 .. Len(keys) /\ i < q
    BY <1>7
  <2> HIDE DEF q
  <2>2. <<keys[i], keys[q]>> \in R
    BY <1>7, <2>1 DEF Sorted
  <2> QED
    BY <2>2 DEF q
<1> QED
  BY <1>8 DEF keys, ss

(* The function that LeavesBelow defines exists.                           *)
LEMMA BelowIsDefined ==
  ASSUME NEW height, NEW range, WholeTree(node, tree_root, height, range)
  PROVE  AllBelow(node, LeavesBelow)
<1>1. \E b : AllBelow(node, b)
  BY BelowExists
<1> QED
  BY <1>1 DEF AllBelow, OneBelow, EachOf, LeavesBelow

(* The walk is the leaves below the root, from left to right.              *)
LEMMA ChainIs ==
  ASSUME NEW height, NEW range, WholeTree(node, tree_root, height, range),
         tree_root # NULL
  PROVE  Chain = LeavesBelow[tree_root] /\ AllLeaves(node, range, Chain)
<1> DEFINE s == LeavesBelow[tree_root]
           first == CHOOSE g : g = [n \in DOMAIN node |->
                                      IF node[n].is_leaf THEN n ELSE g[node[n].descendants[1]]]
           from == CHOOSE g : g = [n \in DOMAIN node |->
                                     IF node[n].next_leaf = NULL THEN <<n>>
                                     ELSE <<n>> \o g[node[n].next_leaf]]
<1>1. Chain = from[first[tree_root]]
  BY DEF Chain
<1>2. AllBelow(node, LeavesBelow) /\ tree_root \in DOMAIN node
  BY BelowIsDefined, HeightFacts
<1>3. AllLeaves(node, range, s)
  BY <1>2, BelowShares, RootShares
<1>4. first[tree_root] = s[1]
  BY <1>2, FirstIsDefined
<1>5. from[s[1]] = s
  BY <1>3, WalkIsDefined, SMTT(60)
<1> HIDE DEF first, from, s
<1>6. Chain = s
  BY <1>1, <1>4, <1>5
<1> QED
  BY <1>3, <1>6 DEF s

=============================================================================
