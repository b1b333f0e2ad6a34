-------------------------- MODULE BPlusTreeProofs --------------------------
(***************************************************************************)
(* Whatever is inserted and deleted, the tree stays a B+ tree: between two *)
(* commands every key leads to the leaf that holds it, next_leaf chains    *)
(* the leaves in the order of the tree, parents and descendants agree, and *)
(* the tree is balanced.  Where no two keys have the same value, it is a   *)
(* map.                                                                    *)
(***************************************************************************)
EXTENDS BPlusTreeLemmas

-----------------------------------------------------------------------------
(* Coalescing.  The descendants of a node are those that name it parent.   *)
Children(T, n) == {m \in DOMAIN T : T[m].parent = n}

LEMMA ChildrenProps ==
  ASSUME NEW T, NEW root, NEW height, NEW range, WholeTree(T, root, height, range),
         NEW n \in DOMAIN T
  PROVE  Children(T, n) = IF T[n].is_leaf THEN {} ELSE ToSet(T[n].descendants)
<1> DEFINE d == T[n].descendants
<1>1. Tree(T, root, height, range, range, {})
      /\ root \in DOMAIN T /\ T[root].parent = NULL /\ DOMAIN T \subseteq Nat
  BY DEF WholeTree, Tree
<1>2. IsNode(T[n])
  BY <1>1, TreeFacts
<1>3. ASSUME NEW m \in Children(T, n)
      PROVE  ~T[n].is_leaf /\ \E i \in 1 .. Len(T[n].keys) + 1 : d[i] = m
  <2>1. m # root /\ T[m].parent = n /\ m \in DOMAIN T
    BY <1>1, NullAssumption DEF Children
  <2>2. Listed(T, m)
    BY <1>1, <2>1, TreeFacts
  <2> QED
    BY <2>1, <2>2 DEF Listed
<1>4. CASE T[n].is_leaf
  BY <1>3, <1>4
<1>5. CASE ~T[n].is_leaf
  <2>1. d \in Seq(Nat) /\ Len(d) = Len(T[n].keys) + 1
    BY <1>2, <1>5 DEF IsNode
  <2>2. ToSet(d) = {d[i] : i \in 1 .. Len(T[n].keys) + 1}
    BY <2>1 DEF ToSet
  <2>3. ASSUME NEW i \in 1 .. Len(T[n].keys) + 1 PROVE d[i] \in Children(T, n)
    <3>1. Link(T, height, range, range, n, i)
      BY <1>1, <1>5, TreeFacts
    <3> QED
      BY <3>1 DEF Link, Children
  <2> HIDE DEF d
  <2>4. \A m \in ToSet(d) : m \in Children(T, n)
    BY <2>2, <2>3
  <2>5. \A m \in Children(T, n) : m \in ToSet(d)
    BY <1>3, <2>2
  <2>6. Children(T, n) = ToSet(d)
    BY <2>4, <2>5
  <2> QED
    BY <1>5, <2>6 DEF d
<1> QED
  BY <1>4, <1>5

LEMMA SameIsNode ==
  ASSUME NEW T, NEW U, NEW m, IsNode(T[m]), SameNode(T, U, m)
  PROVE  IsNode(U[m])
BY DEF IsNode, SameNode

(* The neighbors are joined and the entry of the right one is removed from *)
(* their parent.                                                           *)
JoinedTree(T, p, left, right, k_prime) ==
  Removed(CoalesceNodes(T, left, right, k_prime), p, k_prime, right)

LeavesUntouched(T, V, p, left, right) ==
  T[left].is_leaf => \A m \in DOMAIN T \ {left, right, p} : V[m] = T[m]

LEMMA JoinedTreeProps ==
  ASSUME NEW T, NEW root, NEW height, NEW range, WholeTree(T, root, height, range),
         NEW p, NEW i, NEW left, NEW right, NEW k_prime,
         Neighbors(T, height, range, p, i, left, right, k_prime),
         NEW V, V = JoinedTree(T, p, left, right, k_prime)
  PROVE  /\ NeighborsJoined(T, V, p, i, left, right, k_prime)
         /\ LeavesUntouched(T, V, p, left, right)
<1> DEFINE l == T[left]
           r == T[right]
           joined == Joined(l, r, k_prime)
           P == Put(T, left, joined)
           C == IF joined.is_leaf THEN {} ELSE ToSet(joined.descendants)
           U == CoalesceNodes(T, left, right, k_prime)
           d == T[p].descendants
<1>1. /\ p \in DOMAIN T /\ left \in DOMAIN T /\ right \in DOMAIN T
      /\ p # left /\ p # right /\ left # right
      /\ ~T[p].is_leaf /\ height[left] = height[right]
      /\ i \in 1 .. Len(T[p].keys) /\ k_prime \in Int /\ T[p].keys[i] = k_prime
      /\ d[i + 1] = right
  BY DEF Neighbors
<1>2. \A m \in DOMAIN T : IsNode(T[m]) /\ DOMAIN T[m] = NodeFields /\ T[m].is_leaf \in BOOLEAN
  BY TreeFacts DEF WholeTree, IsNode
<1>3. l.is_leaf = r.is_leaf
  <2>1. (l.is_leaf <=> height[left] = 0) /\ (r.is_leaf <=> height[right] = 0)
    BY <1>1, HeightFacts
  <2> QED
    BY <1>1, <1>2, <2>1
<1>4. /\ DOMAIN joined = NodeFields
      /\ joined.is_leaf = l.is_leaf /\ joined.parent = l.parent
      /\ joined.keys = l.keys \o Between(l, k_prime) \o r.keys
      /\ joined.descendants = l.descendants \o r.descendants
      /\ joined.next_leaf = r.next_leaf
  <2>1. DOMAIN l = NodeFields
    BY <1>1, <1>2
  <2> QED
    BY <2>1 DEF Joined, NodeFields
<1>5. C = Children(T, left) \cup Children(T, right)
  <2>1. /\ Children(T, left) = IF l.is_leaf THEN {} ELSE ToSet(l.descendants)
        /\ Children(T, right) = IF r.is_leaf THEN {} ELSE ToSet(r.descendants)
    BY <1>1, ChildrenProps
  <2>2. CASE l.is_leaf
    BY <1>3, <1>4, <2>1, <2>2
  <2>3. CASE ~l.is_leaf
    <3>1. l.descendants \in Seq(Nat) /\ r.descendants \in Seq(Nat)
      BY <1>1, <1>2, <1>3, <2>3 DEF IsNode
    <3>2. ToSet(l.descendants \o r.descendants)
          = ToSet(l.descendants) \cup ToSet(r.descendants)
      BY <3>1, ToSetConcat
    <3> QED
      BY <1>3, <1>4, <2>1, <2>3, <3>2
  <2> QED
    BY <2>2, <2>3
<1>6. U = Adopt(P, C, left)
  BY DEF CoalesceNodes
<1>7. DOMAIN P = DOMAIN T /\ P[left] = joined /\ \A m \in DOMAIN T \ {left} : P[m] = T[m]
  BY <1>1 DEF Put
<1> HIDE DEF joined, P, U, C
<1>8. ASSUME NEW m \in DOMAIN T
      PROVE  /\ DOMAIN U = DOMAIN T /\ SameNode(P, U, m)
             /\ U[m].parent = IF T[m].parent = right THEN left ELSE T[m].parent
  <2>1. DOMAIN P[m] = NodeFields
    BY <1>2, <1>4, <1>7
  <2>2. /\ DOMAIN U = DOMAIN P /\ SameNode(P, U, m)
        /\ U[m].parent = IF m \in C THEN left ELSE P[m].parent
    BY <1>6, <1>7, <2>1, AdoptProps
  <2>3. P[m].parent = T[m].parent
    BY <1>4, <1>7
  <2>4. m \in C <=> T[m].parent = left \/ T[m].parent = right
    BY <1>5 DEF Children
  <2> QED
    BY <1>7, <2>2, <2>3, <2>4
<1> DEFINE u == U[p]
<1>9. SameNode(T, U, p)
  BY <1>1, <1>7, <1>8 DEF SameNode
<1>10. /\ u.is_leaf = FALSE /\ u.keys = T[p].keys /\ u.descendants = d
       /\ u.next_leaf = T[p].next_leaf /\ IsNode(u)
  BY <1>1, <1>2, <1>9, SameIsNode DEF SameNode
<1>11. /\ DOMAIN V = DOMAIN T \ {right} /\ V[p] = Left(u, k_prime, right)
       /\ \A m \in DOMAIN T \ {right, p} : V[m] = U[m]
  <2>1. V = Removed(U, p, k_prime, right)
    BY DEF JoinedTree, U
  <2>2. DOMAIN U = DOMAIN T
    BY <1>1, <1>8
  <2>3. ~U[p].is_leaf
    BY <1>10
  <2> HIDE DEF u
  <2> QED
    BY <1>1, <2>1, <2>2, <2>3 DEF Removed, u
<1> HIDE DEF u
<1>12. EntryAt(u, i, k_prime, Nat, i + 1, right)
  <2>1. d \in Seq(Nat) /\ Len(d) = Len(T[p].keys) + 1 /\ Len(T[p].keys) \in Nat
    BY <1>1, <1>2 DEF IsNode
  <2>2. i + 1 \in 1 .. Len(d)
    BY <1>1, <2>1
  <2>3. ASSUME NEW q \in 1 .. Len(d), q < i + 1 PROVE d[q] # right
    <3>1. SUFFICES ASSUME d[q] = d[i + 1] PROVE FALSE
      BY <1>1
    <3>2. q \in 1 .. Len(T[p].keys) + 1 /\ i + 1 \in 1 .. Len(T[p].keys) + 1
      BY <2>1, <2>2
    <3>3. Tree(T, root, height, range, range, {})
      BY DEF WholeTree
    <3>4. q = i + 1
      BY <1>1, <3>1, <3>2, <3>3, DescendantsDiffer
    <3> QED
      BY <1>1, <2>1, <2>3, <3>4
  <2> QED
    BY <1>1, <1>10, <2>1, <2>2, <2>3 DEF EntryAt
<1>13. OneEntryMore(V[p], u, i, k_prime, Nat, i + 1, right)
  BY <1>11, <1>12, LeftProps
<1>14. /\ DOMAIN V[p] = NodeFields /\ V[p].is_leaf = T[p].is_leaf
       /\ V[p].parent = U[p].parent /\ V[p].next_leaf = T[p].next_leaf
       /\ Inserted(Int, V[p].keys, i, k_prime, T[p].keys)
       /\ Inserted(Nat, V[p].descendants, i + 1, right, d)
  BY <1>1, <1>2, <1>10, <1>13 DEF OneEntryMore, u
<1>15. Combined(T[left], T[right], k_prime, V[left])
  <2>1. SameNode(P, V, left) /\ V[left].parent = U[left].parent
    BY <1>1, <1>8, <1>11 DEF SameNode
  <2>2. U[left].parent = T[left].parent
    <3>1. T[left].parent = p
      BY DEF Neighbors
    <3> QED
      BY <1>1, <1>8, <3>1
  <2> QED
    BY <1>4, <1>7, <2>1, <2>2 DEF Combined, SameNode
<1>16. ASSUME NEW m \in DOMAIN T \ {left, right, p} PROVE SameNode(T, V, m)
  BY <1>7, <1>8, <1>11 DEF SameNode
<1>17. ASSUME NEW m \in DOMAIN T \ {right}
       PROVE  V[m].parent = IF T[m].parent = right THEN left ELSE T[m].parent
  BY <1>8, <1>11, <1>14
<1>18. LeavesUntouched(T, V, p, left, right)
  <2> SUFFICES ASSUME l.is_leaf, NEW m \in DOMAIN T \ {left, right, p} PROVE V[m] = T[m]
    BY DEF LeavesUntouched
  <2>1. C = {}
    BY <1>4 DEF C
  <2>2. U[m] = P[m]
    BY <1>6, <1>7, <2>1 DEF Adopt
  <2> QED
    BY <1>7, <1>11, <2>2
<1> QED
  BY <1>11, <1>14, <1>15, <1>16, <1>17, <1>18 DEF NeighborsJoined

-----------------------------------------------------------------------------
(* What FixNode has to do with: n, its parent p, and the neighbor to the   *)
(* left of n if there is one, where the key between the two is the i-th.   *)
Fixed(T, n, p, index, i, left, right, neighbor, k_prime) ==
  /\ p = T[n].parent
  /\ index = PlaceOf(T[p].descendants, n) - 1
  /\ i = (IF index = 0 THEN 1 ELSE index)
  /\ k_prime = T[p].keys[i]
  /\ neighbor = T[p].descendants[IF index = 0 THEN 2 ELSE index]
  /\ left = (IF index = 0 THEN n ELSE neighbor)
  /\ right = (IF index = 0 THEN neighbor ELSE n)

InPlace(T, root, height, range, n, p, index, i, left, right, neighbor, k_prime) ==
  /\ Neighbors(T, height, range, p, i, left, right, k_prime)
  /\ n \in DOMAIN T /\ neighbor \in DOMAIN T /\ p \in DOMAIN T
  /\ n # neighbor /\ p # n /\ p # neighbor
  /\ n # root /\ neighbor # root
  /\ index = 0 => i = 1 /\ left = n /\ right = neighbor
  /\ index # 0 => i = index /\ left = neighbor /\ right = n
  /\ T[neighbor].is_leaf = T[n].is_leaf
  /\ Filled(T[n], FALSE, TRUE) /\ Filled(T[neighbor], FALSE, FALSE)
  /\ Filled(T[p], p = root, FALSE)

LEMMA FixedInPlace ==
  ASSUME NEW T, NEW root, NEW height, NEW range, WholeTree(T, root, height, range),
         NEW n \in DOMAIN T, Occupied(T, root, n), n # root,
         NEW p, NEW index, NEW i, NEW left, NEW right, NEW neighbor, NEW k_prime,
         Fixed(T, n, p, index, i, left, right, neighbor, k_prime)
  PROVE  InPlace(T, root, height, range, n, p, index, i, left, right, neighbor, k_prime)
<1> DEFINE d == T[p].descendants
           keys == T[p].keys
           q == PlaceOf(d, n)
<1>1. Tree(T, root, height, range, range, {}) /\ DOMAIN T \subseteq Nat
  BY DEF WholeTree, Tree
<1>2. /\ p = T[n].parent /\ index = q - 1
      /\ i = (IF index = 0 THEN 1 ELSE index) /\ k_prime = keys[i]
      /\ neighbor = d[IF index = 0 THEN 2 ELSE index]
      /\ left = (IF index = 0 THEN n ELSE neighbor)
      /\ right = (IF index = 0 THEN neighbor ELSE n)
  BY DEF Fixed
<1>3. Listed(T, n) /\ T[n].parent # n
  BY <1>1, TreeFacts
<1>4. p \in DOMAIN T /\ ~T[p].is_leaf /\ p # n
      /\ \E j \in 1 .. Len(keys) + 1 : d[j] = n
  BY <1>2, <1>3 DEF Listed
<1>5. IsNode(T[p])
  BY <1>1, <1>4, TreeFacts
<1>6. /\ d \in Seq(Nat) /\ Len(d) = Len(keys) + 1 /\ Len(keys) \in Nat
      /\ T[p].is_leaf \in BOOLEAN
  BY <1>4, <1>5 DEF IsNode
<1>7. Filled(T[p], p = root, FALSE)
  <2>1. (p = n) = FALSE
    BY <1>4
  <2>2. Filled(T[p], p = root, p = n)
    BY <1>4 DEF Occupied
  <2> QED
    BY <2>1, <2>2
<1>8. Len(keys) >= 1
  <2> DEFINE k == Len(keys)
  <2>1. k = Len(T[p].keys) /\ k \in Nat /\ (p = root) \in BOOLEAN
    BY <1>6
  <2>2. k >= 1
    BY <1>6, <1>7, <2>1, FillingProps
  <2> QED
    BY <2>2
<1> HIDE DEF d, keys
<1>9. q \in 1 .. Len(keys) + 1 /\ d[q] = n
  <2>1. /\ q \in 1 .. Len(d) + 1
        /\ \A j \in 1 .. Len(d) : j < q => d[j] # n
        /\ q <= Len(d) => d[q] = n
    BY <1>6, PlaceOfProps
  <2>2. PICK j \in 1 .. Len(keys) + 1 : d[j] = n
    BY <1>4
  <2>3. j \in 1 .. Len(d) /\ Len(d) \in Nat /\ q \in Nat
    BY <1>6, <2>1
  <2>4. ~(j < q)
    BY <2>1, <2>2, <2>3
  <2>5. q <= Len(d)
    BY <2>3, <2>4
  <2> QED
    BY <1>6, <2>1, <2>5
<1> HIDE DEF q
<1>10. /\ i \in 1 .. Len(keys)
       /\ left = d[i] /\ right = d[i + 1]
       /\ index = 0 => i = 1 /\ left = n /\ right = neighbor
       /\ index # 0 => i = index /\ left = neighbor /\ right = n
  <2>1. CASE index = 0
    <3>1. q = 1
      BY <1>2, <1>9, <2>1
    <3> QED
      BY <1>2, <1>6, <1>8, <1>9, <2>1, <3>1
  <2>2. CASE index # 0
    <3>1. i = index /\ i + 1 = q /\ i \in 1 .. Len(keys)
      BY <1>2, <1>6, <1>9, <2>2, SMTT(30)
    <3> QED
      BY <1>2, <1>9, <2>2, <3>1
  <2> QED
    BY <2>1, <2>2
<1>11. Neighbors(T, height, range, p, i, left, right, k_prime)
  <2>1. i \in 1 .. Len(T[p].keys)
    BY <1>10 DEF keys
  <2>2. Neighbors(T, height, range, p, i, T[p].descendants[i], T[p].descendants[i + 1],
                  T[p].keys[i])
    BY <1>4, <2>1, NeighborsProps
  <2> QED
    BY <1>2, <1>10, <2>2 DEF d, keys
<1>12. /\ left \in DOMAIN T /\ right \in DOMAIN T /\ left # right
       /\ p # left /\ p # right /\ T[left].parent = p /\ T[right].parent = p
       /\ height[left] = height[right]
  BY <1>11 DEF Neighbors
<1>13. \/ left = n /\ right = neighbor
       \/ left = neighbor /\ right = n
  BY <1>10
<1>14. neighbor \in DOMAIN T /\ neighbor # n /\ p # neighbor /\ neighbor # root
       /\ height[neighbor] = height[n]
  <2>1. T[neighbor].parent = p
    BY <1>12, <1>13
  <2>2. neighbor # root
    BY <1>1, <1>4, <2>1, NullAssumption DEF Tree
  <2> QED
    BY <1>12, <1>13, <2>2
<1>15. T[neighbor].is_leaf = T[n].is_leaf
  <2>1. /\ T[n].is_leaf <=> height[n] = 0
        /\ T[neighbor].is_leaf <=> height[neighbor] = 0
    BY <1>14, HeightFacts
  <2>2. T[n].is_leaf \in BOOLEAN /\ T[neighbor].is_leaf \in BOOLEAN
    BY <1>1, <1>14, TreeFacts DEF IsNode
  <2> QED
    BY <1>14, <2>1, <2>2
<1>16. Filled(T[n], FALSE, TRUE) /\ Filled(T[neighbor], FALSE, FALSE)
  <2>1. (n = root) = FALSE /\ (n = n) = TRUE
        /\ (neighbor = root) = FALSE /\ (neighbor = n) = FALSE
    BY <1>14
  <2>2. Filled(T[n], n = root, n = n) /\ Filled(T[neighbor], neighbor = root, neighbor = n)
    BY <1>14 DEF Occupied
  <2> QED
    BY <2>1, <2>2
<1> QED
  BY <1>4, <1>7, <1>10, <1>11, <1>14, <1>15, <1>16 DEF InPlace

Entries(T, n, neighbor) == Len(T[n].keys) + Len(T[neighbor].keys)

LEMMA CombinedLength ==
  ASSUME NEW l, NEW r, NEW k_prime \in Int, NEW t, Combined(l, r, k_prime, t),
         IsNode(l), IsNode(r)
  PROVE  /\ Len(l.keys) \in Nat /\ Len(r.keys) \in Nat
         /\ Len(t.keys) = IF l.is_leaf THEN Len(l.keys) + Len(r.keys)
                          ELSE Len(l.keys) + Len(r.keys) + 1
<1> DEFINE a == l.keys
           b == r.keys
           c == Between(l, k_prime)
<1>1. a \in Seq(Int) /\ b \in Seq(Int)
  BY DEF IsNode
<1>2. t.keys = a \o c \o b
  BY DEF Combined
<1>3. c \in Seq(Int) /\ Len(c) = IF l.is_leaf THEN 0 ELSE 1
  BY DEF Between
<1> HIDE DEF a, b, c
<1> DEFINE e == a \o c
<1>4. e \in Seq(Int) /\ Len(e) = Len(a) + Len(c)
  BY <1>1, <1>3, ConcatProps
<1>5. t.keys = e \o b
  BY <1>2
<1> HIDE DEF e
<1>6. Len(e \o b) = Len(e) + Len(b)
  BY <1>1, <1>4, ConcatProps
<1>7. Len(a) \in Nat /\ Len(b) \in Nat
  BY <1>1
<1> DEFINE x == Len(a)
           y == Len(b)
<1>8. x \in Nat /\ y \in Nat /\ Len(t.keys) = x + Len(c) + y
  BY <1>4, <1>5, <1>6, <1>7
<1> HIDE DEF x, y
<1>9. Len(t.keys) = IF l.is_leaf THEN x + y ELSE x + y + 1
  BY <1>3, <1>8
<1> QED
  BY <1>8, <1>9 DEF a, b, x, y

(* The neighbors fit in one node: the entry of the right one is due to be  *)
(* removed from their parent.                                              *)
LEMMA Coalesced ==
  ASSUME NEW T, NEW root, NEW height, NEW range, WholeTree(T, root, height, range),
         NEW n, Occupied(T, root, n),
         NEW p, NEW index, NEW i, NEW left, NEW right, NEW neighbor, NEW k_prime,
         InPlace(T, root, height, range, n, p, index, i, left, right, neighbor, k_prime),
         Entries(T, n, neighbor) < Capacity(T[n].is_leaf)
  PROVE  RemovedShaped(CoalesceNodes(T, left, right, k_prime), root, p, k_prime, right)
<1> DEFINE U == CoalesceNodes(T, left, right, k_prime)
           V == JoinedTree(T, p, left, right, k_prime)
           l == T[left]
           r == T[right]
<1>1. /\ Neighbors(T, height, range, p, i, left, right, k_prime)
      /\ n \in DOMAIN T /\ neighbor \in DOMAIN T /\ p \in DOMAIN T
      /\ n # neighbor /\ p # n /\ p # neighbor
      /\ n # root /\ neighbor # root
      /\ T[neighbor].is_leaf = T[n].is_leaf
      /\ Filled(T[neighbor], FALSE, FALSE) /\ Filled(T[p], p = root, FALSE)
      /\ \/ left = n /\ right = neighbor
         \/ left = neighbor /\ right = n
  BY DEF InPlace
<1>2. V = Removed(U, p, k_prime, right)
  BY DEF JoinedTree
<1> HIDE DEF U, V
<1>3. NeighborsJoined(T, V, p, i, left, right, k_prime)
  BY <1>1, JoinedTreeProps DEF V
<1>4. WholeTree(V, root, height, BothRanges(range, left, right))
  BY <1>1, <1>3, Join
<1>5. \A m \in DOMAIN T : IsNode(T[m]) /\ T[m].is_leaf \in BOOLEAN /\ Len(T[m].keys) \in Nat
  BY TreeFacts DEF WholeTree, IsNode
<1>6. /\ DOMAIN V = DOMAIN T \ {right}
      /\ \A m \in DOMAIN T \ {left, right, p} : SameNode(T, V, m)
      /\ Combined(l, r, k_prime, V[left])
      /\ V[p].is_leaf = T[p].is_leaf
      /\ Inserted(Int, V[p].keys, i, k_prime, T[p].keys)
  BY <1>3 DEF NeighborsJoined
<1>7. p \in DOMAIN V
  BY <1>1, <1>6
<1>8. Filled(V[p], p = root, TRUE)
  <2>1. Len(V[p].keys) \in Nat /\ Len(T[p].keys) = Len(V[p].keys) + 1
    BY <1>6 DEF Inserted
  <2> QED
    BY <1>1, <1>5, <1>6, <2>1, OneLess
<1>9. Filled(V[left], FALSE, FALSE)
  <2> DEFINE a == Len(T[n].keys)
             b == Len(T[neighbor].keys)
             leaf == T[n].is_leaf
             k == IF leaf THEN a + b ELSE a + b + 1
  <2>1. a \in Nat /\ b \in Nat /\ leaf \in BOOLEAN
    BY <1>1, <1>5
  <2>2. a + b < Capacity(leaf)
    BY DEF Entries
  <2>3. b >= MinKeys(leaf)
    BY <1>1 DEF Filled
  <2>4. /\ l.is_leaf = leaf
        /\ \/ Len(l.keys) = a /\ Len(r.keys) = b
           \/ Len(l.keys) = b /\ Len(r.keys) = a
    BY <1>1
  <2>5. k_prime \in Int /\ IsNode(l) /\ IsNode(r)
    BY <1>1, <1>5 DEF Neighbors
  <2>6. Len(V[left].keys) = k
    <3>1. Len(V[left].keys) = IF l.is_leaf THEN Len(l.keys) + Len(r.keys)
                              ELSE Len(l.keys) + Len(r.keys) + 1
      BY <1>6, <2>5, CombinedLength
    <3> HIDE DEF a, b, leaf, l, r, V
    <3>2. Len(l.keys) + Len(r.keys) = a + b
      <4>1. b + a = a + b
        BY <2>1
      <4>2. CASE Len(l.keys) = a /\ Len(r.keys) = b
        BY <4>2
      <4>3. CASE Len(l.keys) = b /\ Len(r.keys) = a
        BY <4>1, <4>3
      <4> QED
        BY <2>4, <4>2, <4>3
    <3> QED
      BY <2>4, <3>1, <3>2
  <2>7. V[left].is_leaf = leaf
    BY <1>6, <2>4 DEF Combined
  <2> HIDE DEF a, b, leaf
  <2>8. k \in Nat /\ k <= order - 1 /\ MinKeys(leaf) <= k
    <3> DEFINE least == MinKeys(leaf)
    <3>1. least \in 1 .. order - 1 /\ order \in Nat /\ b >= least
      BY <2>1, <2>3, MinKeysRange, OrderAssumption
    <3> HIDE DEF least
    <3>2. Capacity(leaf) = IF leaf THEN order ELSE order - 1
      BY DEF Capacity
    <3>3. CASE leaf
      <4>1. a + b < order
        BY <2>2, <3>2, <3>3
      <4>2. a + b \in Nat /\ a + b <= order - 1 /\ least <= a + b
        BY <2>1, <3>1, <4>1
      <4> QED
        BY <3>3, <4>2 DEF least
    <3>4. CASE ~leaf
      <4>1. a + b < order - 1
        BY <2>2, <3>2, <3>4
      <4>2. a + b + 1 \in Nat /\ a + b + 1 <= order - 1 /\ least <= a + b + 1
        BY <2>1, <3>1, <4>1
      <4> QED
        BY <3>4, <4>2 DEF least
    <3> QED
      BY <3>3, <3>4
  <2> HIDE DEF k
  <2>9. V[left].is_leaf \in BOOLEAN /\ MinKeys(V[left].is_leaf) <= k
    BY <2>1, <2>7, <2>8
  <2> QED
    BY <2>6, <2>8, <2>9, FillingProps
<1>10. Occupied(V, root, p)
  <2>1. ASSUME NEW m \in DOMAIN V PROVE Filled(V[m], m = root, m = p)
    <3>1. CASE m = p
      BY <1>8, <3>1
    <3>2. CASE m = left
      <4>1. (m = root) = FALSE /\ (m = p) = FALSE
        BY <1>1, <3>2
      <4> QED
        BY <1>9, <3>2, <4>1
    <3>3. CASE m # p /\ m # left
      <4>1. SameNode(T, V, m) /\ m \in DOMAIN T /\ m # n
        BY <1>1, <1>6, <3>3
      <4>2. Filled(T[m], m = root, m = n) /\ (m = n) = FALSE /\ (m = p) = FALSE
        BY <3>3, <4>1 DEF Occupied
      <4>3. Filled(T[m], m = root, FALSE)
        BY <4>2
      <4>4. Filled(V[m], m = root, FALSE)
        BY <4>1, <4>3, SameFilled
      <4> QED
        BY <4>2, <4>4
    <3> QED
      BY <3>1, <3>2, <3>3
  <2> QED
    BY <2>1 DEF Occupied
<1> QED
  BY <1>2, <1>4, <1>7, <1>10 DEF RemovedShaped, Shaped, U

-----------------------------------------------------------------------------
(* Redistribution.  An entry goes from one node, b, to the other, n, and   *)
(* the key between the two is replaced.                                    *)
Replaced(t, keys, descendants) ==
  [t EXCEPT !.keys = keys, !.descendants = descendants]

LEMMA ReplacedProps ==
  ASSUME NEW t, DOMAIN t = NodeFields, NEW keys, NEW descendants,
         NEW u, u = Replaced(t, keys, descendants)
  PROVE  /\ DOMAIN u = NodeFields /\ u.is_leaf = t.is_leaf /\ u.parent = t.parent
         /\ u.keys = keys /\ u.descendants = descendants /\ u.next_leaf = t.next_leaf
BY DEF Replaced, NodeFields

LEMMA SequenceEquality ==
  ASSUME NEW S, NEW a \in Seq(S), NEW b \in Seq(S), Len(a) = Len(b),
         \A j \in 1 .. Len(a) : a[j] = b[j]
  PROVE  a = b
<1>1. DOMAIN a = 1 .. Len(a) /\ DOMAIN b = 1 .. Len(a)
  OBVIOUS
<1>2. a = [j \in 1 .. Len(a) |-> a[j]] /\ b = [j \in 1 .. Len(a) |-> b[j]]
  BY <1>1
<1> QED
  BY <1>2

(* The first element of t goes to the end of s, the last of s to the front *)
(* of t.                                                                   *)
LEMMA FirstMoved ==
  ASSUME NEW S, NEW s \in Seq(S), NEW t \in Seq(S), Len(t) >= 1
  PROVE  /\ SubSeq(s \o t, 1, Len(s) + 1) = Append(s, Head(t))
         /\ SubSeq(s \o t, Len(s) + 2, Len(s) + Len(t)) = Tail(t)
<1> DEFINE a == Len(s)
           b == Len(t)
           c == s \o t
<1>1. a \in Nat /\ b \in Nat /\ b >= 1
  OBVIOUS
<1>2. /\ c \in Seq(S) /\ Len(c) = a + b
      /\ \A j \in 1 .. a + b : c[j] = IF j <= a THEN s[j] ELSE t[j - a]
  BY ConcatProps
<1>3. /\ Append(s, Head(t)) \in Seq(S) /\ Len(Append(s, Head(t))) = a + 1
      /\ \A j \in 1 .. a + 1 : Append(s, Head(t))[j] = IF j <= a THEN s[j] ELSE t[1]
  BY <1>1
<1>4. /\ Tail(t) \in Seq(S) /\ Len(Tail(t)) = b - 1
      /\ \A j \in 1 .. b - 1 : Tail(t)[j] = t[j + 1]
  BY <1>1
<1> HIDE DEF a, b, c
<1>5. SubSeq(c, 1, a + 1) = Append(s, Head(t))
  <2> DEFINE d == SubSeq(c, 1, a + 1)
             e == Append(s, Head(t))
  <2>1. d \in Seq(S) /\ Len(d) = a + 1 /\ \A j \in 1 .. a + 1 : d[j] = c[j]
    <3>1. a + 1 \in 0 .. Len(c)
      BY <1>1, <1>2
    <3> QED
      BY <1>2, <3>1, FirstPart
  <2> HIDE DEF d, e
  <2>2. ASSUME NEW j \in 1 .. a + 1 PROVE d[j] = e[j]
    <3>1. j \in 1 .. a + b /\ (~(j <= a) => j - a = 1)
      BY <1>1
    <3> QED
      BY <1>2, <1>3, <2>1, <3>1 DEF e
  <2> QED
    BY <1>3, <2>1, <2>2, SequenceEquality DEF d, e
<1>6. SubSeq(c, a + 2, a + b) = Tail(t)
  <2> DEFINE q == a + 1
             d == SubSeq(c, q + 1, Len(c))
             e == Tail(t)
  <2>1. d \in Seq(S) /\ Len(d) = Len(c) - q /\ \A j \in 1 .. Len(c) - q : d[j] = c[q + j]
    <3>1. q \in 0 .. Len(c)
      BY <1>1, <1>2
    <3> HIDE DEF q
    <3> QED
      BY <1>2, <3>1, LastPart
  <2>2. Len(c) - q = b - 1 /\ q + 1 = a + 2
    BY <1>1, <1>2
  <2> HIDE DEF d, e
  <2>3. ASSUME NEW j \in 1 .. b - 1 PROVE d[j] = e[j]
    <3> DEFINE p == q + j
    <3>1. p \in 1 .. a + b /\ ~(p <= a) /\ p - a = j + 1
      BY <1>1
    <3> HIDE DEF p
    <3>2. c[p] = t[j + 1]
      BY <1>2, <3>1
    <3>3. d[j] = c[p]
      BY <2>1, <2>2 DEF p
    <3> QED
      BY <1>4, <3>2, <3>3 DEF e
  <2>4. d = e
    <3>1. e \in Seq(S) /\ Len(e) = b - 1
      BY <1>4 DEF e
    <3>2. d \in Seq(S) /\ Len(d) = b - 1
      BY <2>1, <2>2
    <3> QED
      BY <2>3, <3>1, <3>2, SequenceEquality
  <2> QED
    BY <1>2, <2>2, <2>4 DEF d, e
<1> QED
  BY <1>5, <1>6 DEF a, b, c

LEMMA LastMoved ==
  ASSUME NEW S, NEW s \in Seq(S), NEW t \in Seq(S), Len(s) >= 1
  PROVE  /\ SubSeq(s \o t, 1, Len(s) - 1) = Front(s)
         /\ SubSeq(s \o t, Len(s), Len(s) + Len(t)) = <<Last(s)>> \o t
<1> DEFINE a == Len(s)
           b == Len(t)
           c == s \o t
           f == <<Last(s)>>
           e == f \o t
<1>1. a \in Nat /\ b \in Nat /\ a >= 1
  OBVIOUS
<1>2. /\ c \in Seq(S) /\ Len(c) = a + b
      /\ \A j \in 1 .. a + b : c[j] = IF j <= a THEN s[j] ELSE t[j - a]
  BY ConcatProps
<1>3. f \in Seq(S) /\ Len(f) = 1 /\ f[1] = s[a]
  BY <1>1 DEF Last
<1> HIDE DEF f
<1>4. /\ e \in Seq(S) /\ Len(e) = 1 + b
      /\ \A j \in 1 .. 1 + b : e[j] = IF j <= 1 THEN f[j] ELSE t[j - 1]
  <2>1. /\ e \in Seq(S) /\ Len(e) = Len(f) + Len(t)
        /\ \A j \in 1 .. Len(f) + Len(t) : e[j] = IF j <= Len(f) THEN f[j] ELSE t[j - Len(f)]
    BY <1>3, ConcatProps
  <2> QED
    BY <1>3, <2>1
<1> HIDE DEF a, b, c, e
<1>5. SubSeq(c, 1, a - 1) = Front(s)
  <2> DEFINE d == SubSeq(c, 1, a - 1)
             g == SubSeq(s, 1, a - 1)
  <2>1. d \in Seq(S) /\ Len(d) = a - 1 /\ \A j \in 1 .. a - 1 : d[j] = c[j]
    <3>1. a - 1 \in 0 .. Len(c)
      BY <1>1, <1>2
    <3> QED
      BY <1>2, <3>1, FirstPart
  <2>2. g \in Seq(S) /\ Len(g) = a - 1 /\ \A j \in 1 .. a - 1 : g[j] = s[j]
    <3>1. a - 1 \in 0 .. Len(s)
      BY <1>1 DEF a
    <3> QED
      BY <3>1, FirstPart
  <2> HIDE DEF d, g
  <2>3. ASSUME NEW j \in 1 .. a - 1 PROVE d[j] = g[j]
    <3>1. j \in 1 .. a + b /\ j <= a
      BY <1>1
    <3> QED
      BY <1>2, <2>1, <2>2, <3>1
  <2>4. d = g
    BY <2>1, <2>2, <2>3, SequenceEquality
  <2> QED
    BY <2>4 DEF d, g, Front, a
<1>6. SubSeq(c, a, a + b) = e
  <2> DEFINE q == a - 1
             d == SubSeq(c, q + 1, Len(c))
  <2>1. d \in Seq(S) /\ Len(d) = Len(c) - q /\ \A j \in 1 .. Len(c) - q : d[j] = c[q + j]
    <3>1. q \in 0 .. Len(c)
      BY <1>1, <1>2
    <3> HIDE DEF q
    <3> QED
      BY <1>2, <3>1, LastPart
  <2>2. Len(c) - q = 1 + b /\ q + 1 = a
    BY <1>1, <1>2
  <2> HIDE DEF d
  <2>3. ASSUME NEW j \in 1 .. 1 + b PROVE d[j] = e[j]
    <3> DEFINE p == q + j
    <3>1. p \in 1 .. a + b /\ (p <= a <=> j <= 1) /\ (j <= 1 => p = a /\ j = 1) /\ p - a = j - 1
      BY <1>1
    <3>2. d[j] = c[p]
      BY <2>1, <2>2
    <3> HIDE DEF p
    <3>3. CASE j <= 1
      BY <1>2, <1>3, <1>4, <3>1, <3>2, <3>3
    <3>4. CASE ~(j <= 1)
      BY <1>2, <1>4, <3>1, <3>2, <3>4
    <3> QED
      BY <3>3, <3>4
  <2>4. d = e
    <3>1. d \in Seq(S) /\ Len(d) = 1 + b
      BY <2>1, <2>2
    <3> QED
      BY <1>4, <2>3, <3>1, SequenceEquality
  <2> QED
    BY <1>2, <2>2, <2>4 DEF d
<1> QED
  BY <1>5, <1>6 DEF a, b, c, e, f

LEMMA NotBelow ==
  ASSUME NEW T, NEW root, NEW height, NEW range, WholeTree(T, root, height, range),
         NEW p, NEW i, NEW left, NEW right, NEW k_prime,
         Neighbors(T, height, range, p, i, left, right, k_prime)
  PROVE  T[p].parent # right
<1>1. SUFFICES ASSUME T[p].parent = right PROVE FALSE
  OBVIOUS
<1>2. p \in DOMAIN T /\ right \in DOMAIN T /\ height[p] = height[right] + 1
  BY DEF Neighbors
<1>3. Tree(T, root, height, range, range, {}) /\ T[root].parent = NULL /\ right \in Nat
  BY <1>2 DEF WholeTree, Tree
<1>4. p # root
  BY <1>1, <1>3, NullAssumption
<1>5. height[T[p].parent] = height[p] + 1
  BY <1>2, <1>3, <1>4, TreeFacts
<1>6. height[right] \in Nat
  BY <1>2, HeightFacts
<1> QED
  BY <1>1, <1>2, <1>5, <1>6

(* The neighbors joined and split again at another place: then their       *)
(* parent has another key between them.                                    *)
KeyReplaced(t, u, i, key) ==
  /\ DOMAIN u = NodeFields
  /\ u.is_leaf = t.is_leaf /\ u.parent = t.parent /\ u.descendants = t.descendants
  /\ u.next_leaf = t.next_leaf
  /\ u.keys = [t.keys EXCEPT ![i] = key]

WithParentOf(V, U, p) == [m \in DOMAIN U |-> IF m = p THEN V[p] ELSE U[m]]

LEMMA Redistributed ==
  ASSUME NEW T, NEW root, NEW height, NEW range, WholeTree(T, root, height, range),
         NEW p, NEW i, NEW left, NEW right, NEW k_prime,
         Neighbors(T, height, range, p, i, left, right, k_prime),
         NEW V, NeighborsJoined(T, V, p, i, left, right, k_prime),
         NEW U, DOMAIN U = DOMAIN T, U[left].parent = p,
         NEW moved, KeyReplaced(T[p], U[p], i, moved),
         NEW newHeight, NEW newRange,
         SplitTree(WithParentOf(V, U, p), root, newHeight, newRange, left, moved, right)
  PROVE  WholeTree(U, root, newHeight, newRange)
<1> DEFINE S == WithParentOf(V, U, p)
           s == V[p].keys
           t == T[p].keys
           u == U[p].keys
           sd == V[p].descendants
           td == T[p].descendants
<1>1. /\ p \in DOMAIN T /\ left \in DOMAIN T /\ right \in DOMAIN T
      /\ p # left /\ p # right /\ height[p] = height[right] + 1
      /\ td[i] = left /\ p \in Nat /\ ~T[p].is_leaf
      /\ IsNode(T[p])
  <2>1. Tree(T, root, height, range, range, {})
    BY DEF WholeTree
  <2> QED
    BY <2>1, TreeFacts DEF Neighbors
<1>2. /\ DOMAIN V[p] = NodeFields /\ V[p].is_leaf = T[p].is_leaf
      /\ Inserted(Int, s, i, k_prime, t) /\ Inserted(Nat, sd, i + 1, right, td)
      /\ V[p].parent = IF T[p].parent = right THEN left ELSE T[p].parent
  BY <1>1 DEF NeighborsJoined
<1>3. T[p].parent # right
  BY NotBelow
<1>4. /\ DOMAIN U[p] = NodeFields /\ U[p].is_leaf = T[p].is_leaf
      /\ U[p].parent = T[p].parent /\ U[p].descendants = td
      /\ u = [t EXCEPT ![i] = moved]
  BY DEF KeyReplaced
<1>5. moved \in Int
  <2>1. moved \in newRange[right] /\ right \in DOMAIN S
    BY DEF SplitTree
  <2>2. Tree(S, root, newHeight, newRange, BothRanges(newRange, left, right), {right})
    BY DEF SplitTree
  <2> HIDE DEF S
  <2>3. newRange[right] \subseteq Int
    BY <2>1, <2>2, TreeFacts
  <2> QED
    BY <2>1, <2>3
<1>6. /\ DOMAIN S = DOMAIN U /\ S[p] = V[p]
      /\ \A m \in DOMAIN U \ {p} : S[m] = U[m]
  BY <1>1 DEF WithParentOf
<1>7. SplitTree(S, root, newHeight, newRange, left, moved, right)
  OBVIOUS
<1> HIDE DEF S, s, t, u, sd, td
<1>8. Inserted(Int, s, i, moved, u)
  <2>1. /\ s \in Seq(Int) /\ t \in Seq(Int) /\ Len(t) = Len(s) + 1 /\ Len(s) \in Nat
        /\ i \in 1 .. Len(s) + 1
        /\ \A j \in 1 .. Len(s) + 1 :
             t[j] = IF j < i THEN s[j] ELSE IF j = i THEN k_prime ELSE s[j - 1]
    BY <1>2 DEF Inserted
  <2>2. /\ u \in Seq(Int) /\ Len(u) = Len(t) /\ u[i] = moved
        /\ \A j \in 1 .. Len(t) : j # i => u[j] = t[j]
    BY <1>4, <1>5, <2>1
  <2>3. ASSUME NEW j \in 1 .. Len(s) + 1
        PROVE  u[j] = IF j < i THEN s[j] ELSE IF j = i THEN moved ELSE s[j - 1]
    <3>1. j \in 1 .. Len(t) /\ t[j] = IF j < i THEN s[j] ELSE IF j = i THEN k_prime ELSE s[j - 1]
      BY <2>1
    <3>2. CASE j = i
      BY <2>1, <2>2, <3>2
    <3>3. CASE j # i
      <4>1. u[j] = t[j]
        BY <2>2, <3>1, <3>3
      <4> QED
        BY <3>1, <3>3, <4>1
    <3> QED
      BY <3>2, <3>3
  <2> QED
    BY <2>1, <2>2, <2>3 DEF Inserted
<1>9. Grown(S, U, p, i, moved, right)
  <2>1. U[p].next_leaf = V[p].next_leaf
    BY DEF KeyReplaced, NeighborsJoined
  <2> QED
    BY <1>2, <1>3, <1>4, <1>6, <1>8, <2>1 DEF Grown, s, u, sd, td
<1>10. S[left].parent = p /\ p # NULL
  BY <1>1, <1>6, NullAssumption
<1>11. i \in 1 .. Len(S[p].keys) + 1 /\ S[p].descendants[i] = left
  <2>1. i \in 1 .. Len(s) + 1 /\ Len(s) \in Nat
    BY <1>2 DEF Inserted
  <2>2. /\ i + 1 \in 1 .. Len(sd) + 1 /\ Len(sd) \in Nat
        /\ \A j \in 1 .. Len(sd) + 1 :
             td[j] = IF j < i + 1 THEN sd[j] ELSE IF j = i + 1 THEN right ELSE sd[j - 1]
    BY <1>2 DEF Inserted
  <2>3. i \in 1 .. Len(sd) + 1 /\ i < i + 1
    BY <2>1, <2>2
  <2>4. sd[i] = td[i]
    BY <2>2, <2>3
  <2> QED
    BY <1>1, <1>6, <2>1, <2>4 DEF s, sd
<1> QED
  BY <1>7, <1>9, <1>10, <1>11, NodeGrown

(* The entries of two leaves, divided after the c-th.                      *)
SameButEntries(t, u) ==
  /\ DOMAIN u = NodeFields /\ u.is_leaf = t.is_leaf /\ u.parent = t.parent
  /\ u.next_leaf = t.next_leaf

LeafMoved(T, U, p, i, left, right, k, d, c) ==
  /\ k = T[left].keys \o T[right].keys
  /\ d = T[left].descendants \o T[right].descendants
  /\ c \in 1 .. Len(k) - 1
  /\ DOMAIN U = DOMAIN T
  /\ \A m \in DOMAIN T \ {left, right, p} : U[m] = T[m]
  /\ KeyReplaced(T[p], U[p], i, k[c + 1])
  /\ SameButEntries(T[left], U[left]) /\ SameButEntries(T[right], U[right])
  /\ U[left].keys = SubSeq(k, 1, c) /\ U[left].descendants = SubSeq(d, 1, c)
  /\ U[right].keys = SubSeq(k, c + 1, Len(k))
  /\ U[right].descendants = SubSeq(d, c + 1, Len(k))

(* Of two leaves that are neighbors the right one is chained to the left.  *)
LEMMA NextNeighbor ==
  ASSUME NEW T, NEW root, NEW height, NEW range, WholeTree(T, root, height, range),
         NEW p, NEW i, NEW left, NEW right, NEW k_prime,
         Neighbors(T, height, range, p, i, left, right, k_prime), T[left].is_leaf
  PROVE  T[left].next_leaf = right
<1> DEFINE m == T[left].next_leaf
           k == k_prime - 1
<1>1. /\ left \in DOMAIN T /\ right \in DOMAIN T /\ height[left] = height[right]
      /\ k_prime \in Int /\ k_prime \in range[right]
      /\ \A a \in range[left] : a \in Int /\ a < k_prime
  BY DEF Neighbors
<1>2. Chained(T, range) /\ range[left] # {}
  BY <1>1 DEF WholeTree, Tree, Content
<1>3. PICK a \in range[left] : a \in Int /\ a < k_prime
  BY <1>1, <1>2
<1>4. k \in Int /\ a <= k /\ k < k_prime /\ k + 1 = k_prime /\ ~(k_prime < k_prime)
  BY <1>1, <1>3
<1> HIDE DEF k
<1>5. k \in range[left]
  BY <1>4, BeforeNeighbor
<1>6. k + 1 \notin range[left]
  BY <1>1, <1>4
<1>7. LeadsOn(T, range, left, k)
  BY <1>1, <1>2, <1>5, <1>6 DEF Chained
<1>8. m \in DOMAIN T /\ T[m].is_leaf /\ k_prime \in range[m]
  BY <1>4, <1>7 DEF LeadsOn
<1>9. height[m] = height[right]
  BY <1>1, <1>8, HeightFacts
<1> QED
  BY <1>1, <1>8, <1>9, OneNodePerKey

LEMMA LeafRedistributed ==
  ASSUME NEW T, NEW root, NEW height, NEW range, WholeTree(T, root, height, range),
         NEW p, NEW i, NEW left, NEW right, NEW k_prime,
         Neighbors(T, height, range, p, i, left, right, k_prime), T[left].is_leaf,
         NEW U, NEW k, NEW d, NEW c, LeafMoved(T, U, p, i, left, right, k, d, c)
  PROVE  \E h, r : WholeTree(U, root, h, r)
<1> DEFINE V == JoinedTree(T, p, left, right, k_prime)
           S == WithParentOf(V, U, p)
           both == BothRanges(range, left, right)
           h == HeightsAfterSplit(height, left, right)
           r == RangesAfterSplit(both, left, k[c + 1], right)
<1>1. /\ p \in DOMAIN T /\ left \in DOMAIN T /\ right \in DOMAIN T
      /\ p # left /\ p # right /\ left # right
      /\ T[left].parent = p /\ T[right].parent = p
      /\ height[left] = height[right] /\ k_prime \in Int
  BY DEF Neighbors
<1>2. \A m \in DOMAIN T : IsNode(T[m]) /\ m \in Nat /\ T[m].is_leaf \in BOOLEAN
  BY TreeFacts DEF WholeTree, IsNode
<1>3. T[left].is_leaf = TRUE /\ T[right].is_leaf = TRUE
  <2>1. (T[left].is_leaf <=> height[left] = 0) /\ (T[right].is_leaf <=> height[right] = 0)
    BY <1>1, HeightFacts
  <2> QED
    BY <1>1, <1>2, <2>1
<1>4. /\ NeighborsJoined(T, V, p, i, left, right, k_prime)
      /\ LeavesUntouched(T, V, p, left, right)
  BY JoinedTreeProps
<1> HIDE DEF V
<1>5. WholeTree(V, root, height, both)
  BY <1>4, Join
<1> HIDE DEF both
<1>6. /\ DOMAIN V = DOMAIN T \ {right}
      /\ \A m \in DOMAIN T \ {left, right, p} : V[m] = T[m]
      /\ Combined(T[left], T[right], k_prime, V[left])
  BY <1>3, <1>4, SMTT(30) DEF NeighborsJoined, LeavesUntouched
<1>7. /\ k = T[left].keys \o T[right].keys
      /\ d = T[left].descendants \o T[right].descendants
      /\ c \in 1 .. Len(k) - 1
      /\ DOMAIN U = DOMAIN T
      /\ \A m \in DOMAIN T \ {left, right, p} : U[m] = T[m]
      /\ KeyReplaced(T[p], U[p], i, k[c + 1])
      /\ SameButEntries(T[left], U[left]) /\ SameButEntries(T[right], U[right])
      /\ U[left].keys = SubSeq(k, 1, c) /\ U[left].descendants = SubSeq(d, 1, c)
      /\ U[right].keys = SubSeq(k, c + 1, Len(k))
      /\ U[right].descendants = SubSeq(d, c + 1, Len(k))
  BY DEF LeafMoved
<1>8. /\ V[left].keys = k /\ V[left].descendants = d
      /\ V[left].is_leaf = TRUE /\ V[left].parent = p
      /\ V[left].next_leaf = T[right].next_leaf
  <2>1. /\ V[left].keys = T[left].keys \o Between(T[left], k_prime) \o T[right].keys
        /\ V[left].descendants = T[left].descendants \o T[right].descendants
        /\ V[left].is_leaf = T[left].is_leaf /\ V[left].parent = T[left].parent
        /\ V[left].next_leaf = T[right].next_leaf
    BY <1>6 DEF Combined
  <2>2. Between(T[left], k_prime) = <<>>
    BY <1>3 DEF Between
  <2>3. T[left].keys \in Seq(Int)
    BY <1>1, <1>2 DEF IsNode
  <2>4. T[left].keys \o <<>> = T[left].keys
    BY <2>3
  <2> QED
    BY <1>1, <1>3, <1>7, <2>1, <2>2, <2>4
<1>9. /\ DOMAIN S = DOMAIN T /\ S[p] = V[p]
      /\ \A m \in DOMAIN T \ {p} : S[m] = U[m]
  BY <1>1, <1>7, SMTT(30) DEF WithParentOf
<1> HIDE DEF S
<1>10. /\ LeafHalves(V[left], S[left], S[right], c)
       /\ S[left].next_leaf = right /\ S[right].next_leaf = V[left].next_leaf
  <2>1. S[left] = U[left] /\ S[right] = U[right]
    BY <1>1, <1>9
  <2>2. T[left].next_leaf = right
    BY NextNeighbor
  <2>3. S[left].next_leaf = right /\ S[right].next_leaf = V[left].next_leaf
    BY <1>7, <1>8, <2>1, <2>2, Zenon DEF SameButEntries
  <2> QED
    BY <1>1, <1>3, <1>7, <1>8, <2>1, <2>3, ZenonT(60) DEF LeafHalves, SameButEntries
<1>11. SplitTree(S, root, h, r, left, k[c + 1], right)
  <2>1. left \in DOMAIN V /\ V[left].is_leaf /\ right \in Nat \ DOMAIN V
    BY <1>1, <1>2, <1>6, <1>8, Zenon
  <2>2. c \in 1 .. Len(V[left].keys) - 1
    BY <1>7, <1>8, Zenon
  <2>3. DOMAIN S = DOMAIN V \cup {right}
    BY <1>1, <1>6, <1>9, Zenon
  <2>4. \A m \in DOMAIN V \ {left} : S[m] = V[m]
    BY <1>6, <1>7, <1>9, Zenon
  <2>5. SplitTree(S, root, HeightsAfterSplit(height, left, right),
                  RangesAfterSplit(both, left, V[left].keys[c + 1], right),
                  left, V[left].keys[c + 1], right)
    BY <1>5, <1>10, <2>1, <2>2, <2>3, <2>4, LeafSplit
  <2> QED
    BY <1>8, <2>5
<1> HIDE DEF h, r
<1>12. U[left].parent = p
  BY <1>1, <1>7 DEF SameButEntries
<1>13. WholeTree(U, root, h, r)
  BY <1>4, <1>7, <1>11, <1>12, Redistributed, Zenon DEF S
<1> QED
  BY <1>13

(* The same for nodes, whose c-th key goes up.                             *)
Given(d, k, c) == {d[j] : j \in c + 1 .. Len(k) + 1}

NodeMoved(T, U, p, i, left, right, k_prime, k, d, c) ==
  /\ k = T[left].keys \o <<k_prime>> \o T[right].keys
  /\ d = T[left].descendants \o T[right].descendants
  /\ c \in 2 .. Len(k)
  /\ DOMAIN U = DOMAIN T
  /\ \A m \in DOMAIN T \ {left, right, p} : SameNode(T, U, m)
  /\ \A m \in DOMAIN T :
       U[m].parent = IF m \in Given(d, k, c) THEN right
                     ELSE IF T[m].parent = right THEN left ELSE T[m].parent
  /\ KeyReplaced(T[p], U[p], i, k[c])
  /\ SameButEntries(T[left], U[left]) /\ SameButEntries(T[right], U[right])
  /\ U[left].keys = SubSeq(k, 1, c - 1) /\ U[left].descendants = SubSeq(d, 1, c)
  /\ U[right].keys = SubSeq(k, c + 1, Len(k))
  /\ U[right].descendants = SubSeq(d, c + 1, Len(k) + 1)

LEMMA NodeRedistributed ==
  ASSUME NEW T, NEW root, NEW height, NEW range, WholeTree(T, root, height, range),
         NEW p, NEW i, NEW left, NEW right, NEW k_prime,
         Neighbors(T, height, range, p, i, left, right, k_prime), ~T[left].is_leaf,
         NEW U, NEW k, NEW d, NEW c, NodeMoved(T, U, p, i, left, right, k_prime, k, d, c)
  PROVE  \E h, r : WholeTree(U, root, h, r)
<1> DEFINE V == JoinedTree(T, p, left, right, k_prime)
           S == WithParentOf(V, U, p)
           both == BothRanges(range, left, right)
           h == HeightsAfterSplit(height, left, right)
           r == RangesAfterSplit(both, left, k[c], right)
<1>1. /\ p \in DOMAIN T /\ left \in DOMAIN T /\ right \in DOMAIN T
      /\ p # left /\ p # right /\ left # right
      /\ T[left].parent = p /\ T[right].parent = p
      /\ height[left] = height[right] /\ k_prime \in Int
  BY DEF Neighbors
<1>2. \A m \in DOMAIN T : IsNode(T[m]) /\ m \in Nat /\ T[m].is_leaf \in BOOLEAN
  BY TreeFacts DEF WholeTree, IsNode
<1>3. T[left].is_leaf = FALSE /\ T[right].is_leaf = FALSE
  <2>1. (T[left].is_leaf <=> height[left] = 0) /\ (T[right].is_leaf <=> height[right] = 0)
    BY <1>1, HeightFacts
  <2> QED
    BY <1>1, <1>2, <2>1
<1>4. NeighborsJoined(T, V, p, i, left, right, k_prime)
  BY JoinedTreeProps
<1> HIDE DEF V
<1>5. WholeTree(V, root, height, both)
  BY <1>4, Join
<1> HIDE DEF both
<1>6. /\ DOMAIN V = DOMAIN T \ {right}
      /\ \A m \in DOMAIN T \ {left, right, p} : SameNode(T, V, m)
      /\ \A m \in DOMAIN T \ {right} :
           V[m].parent = IF T[m].parent = right THEN left ELSE T[m].parent
      /\ Combined(T[left], T[right], k_prime, V[left])
      /\ DOMAIN V[p] = NodeFields
  BY <1>4, Zenon DEF NeighborsJoined
<1>7. /\ k = T[left].keys \o <<k_prime>> \o T[right].keys
      /\ d = T[left].descendants \o T[right].descendants
      /\ c \in 2 .. Len(k)
      /\ DOMAIN U = DOMAIN T
      /\ \A m \in DOMAIN T \ {left, right, p} : SameNode(T, U, m)
      /\ \A m \in DOMAIN T :
           U[m].parent = IF m \in Given(d, k, c) THEN right
                         ELSE IF T[m].parent = right THEN left ELSE T[m].parent
      /\ KeyReplaced(T[p], U[p], i, k[c])
      /\ SameButEntries(T[left], U[left]) /\ SameButEntries(T[right], U[right])
      /\ U[left].keys = SubSeq(k, 1, c - 1) /\ U[left].descendants = SubSeq(d, 1, c)
      /\ U[right].keys = SubSeq(k, c + 1, Len(k))
      /\ U[right].descendants = SubSeq(d, c + 1, Len(k) + 1)
  BY ZenonT(40) DEF NodeMoved
<1>8. /\ V[left].keys = k /\ V[left].descendants = d
      /\ V[left].is_leaf = FALSE /\ V[left].parent = p
  <2>1. /\ V[left].keys = T[left].keys \o Between(T[left], k_prime) \o T[right].keys
        /\ V[left].descendants = T[left].descendants \o T[right].descendants
        /\ V[left].is_leaf = T[left].is_leaf /\ V[left].parent = T[left].parent
    BY <1>6 DEF Combined
  <2>2. Between(T[left], k_prime) = <<k_prime>>
    BY <1>3 DEF Between
  <2> QED
    BY <1>1, <1>3, <1>7, <2>1, <2>2
<1>9. /\ DOMAIN S = DOMAIN T /\ S[p] = V[p]
      /\ \A m \in DOMAIN T \ {p} : S[m] = U[m]
  BY <1>1, <1>7 DEF WithParentOf
<1>10. Moved(V[left], c) = Given(d, k, c)
  BY <1>8, SMTT(30) DEF Moved, Given
<1> HIDE DEF S
<1>11. NodeHalves(V[left], S[left], S[right], c)
  <2>1. S[left] = U[left] /\ S[right] = U[right]
    BY <1>1, <1>9
  <2>2. T[left].next_leaf = NULL /\ T[right].next_leaf = NULL
    BY <1>1, <1>3 DEF WholeTree, Chained
  <2>3. V[left].next_leaf = T[right].next_leaf
    BY <1>6 DEF Combined
  <2>4. S[left].next_leaf = V[left].next_leaf /\ S[right].next_leaf = V[left].next_leaf
    BY <1>7, <2>1, <2>2, <2>3, Zenon DEF SameButEntries
  <2> QED
    BY <1>1, <1>3, <1>7, <1>8, <2>1, <2>4 DEF NodeHalves, SameButEntries
<1>12. p \notin Given(d, k, c)
  <2>1. T[p].parent # right
    BY NotBelow, ZenonT(40)
  <2>2. U[p].parent = T[p].parent
    BY <1>7 DEF KeyReplaced
  <2> QED
    BY <1>1, <1>7, <2>1, <2>2
<1>13. CutNode(V, S, left, right, c)
  <2>1. ASSUME NEW m \in DOMAIN V \ {left}
        PROVE  /\ SameNode(V, S, m)
               /\ S[m].parent = IF m \in Given(d, k, c) THEN right ELSE V[m].parent
    <3>1. CASE m = p
      BY <1>6, <1>9, <1>12, <3>1, Zenon DEF SameNode
    <3>2. CASE m # p
      <4>1. S[m] = U[m] /\ m \in DOMAIN T \ {left, right, p} /\ m \in DOMAIN T \ {right}
        BY <1>6, <1>9, <3>2
      <4>2. SameNode(T, V, m) /\ SameNode(T, U, m)
        BY <1>6, <1>7, <4>1, Zenon
      <4>3. SameNode(V, S, m)
        BY <4>1, <4>2 DEF SameNode
      <4>4. V[m].parent = IF T[m].parent = right THEN left ELSE T[m].parent
        BY <1>6, <4>1
      <4> QED
        BY <1>7, <4>1, <4>3, <4>4, ZenonT(40)
    <3> QED
      BY <3>1, <3>2
  <2>2. DOMAIN S = DOMAIN V \cup {right}
    BY <1>1, <1>6, <1>9
  <2> QED
    BY <1>10, <1>11, <2>1, <2>2 DEF CutNode
<1>14. SplitTree(S, root, h, r, left, k[c], right)
  <2>1. left \in DOMAIN V /\ ~V[left].is_leaf /\ right \in Nat \ DOMAIN V
    BY <1>1, <1>2, <1>6, <1>8
  <2>2. c \in 2 .. Len(V[left].keys)
    BY <1>7, <1>8, Zenon
  <2>3. SplitTree(S, root, HeightsAfterSplit(height, left, right),
                  RangesAfterSplit(both, left, V[left].keys[c], right),
                  left, V[left].keys[c], right)
    BY <1>5, <1>13, <2>1, <2>2, NodeSplit
  <2> QED
    BY <1>8, <2>3
<1> HIDE DEF h, r
<1>15. U[left].parent = p
  BY <1>1, <1>7, Zenon DEF SameButEntries
<1>16. WholeTree(U, root, h, r)
  BY <1>4, <1>7, <1>14, <1>15, Redistributed, ZenonT(40) DEF S
<1> QED
  BY <1>16

-----------------------------------------------------------------------------
(* FixNode.  What one assignment to each of the two neighbors and one to   *)
(* their parent does.                                                      *)
Shifted(T, U, n, b, p, i, keysN, descendantsN, keysB, descendantsB, moved) ==
  /\ DOMAIN U = DOMAIN T
  /\ \A m \in DOMAIN T \ {n, b, p} : U[m] = T[m]
  /\ U[n] = Replaced(T[n], keysN, descendantsN)
  /\ U[b] = Replaced(T[b], keysB, descendantsB)
  /\ KeyReplaced(T[p], U[p], i, moved)

LEMMA ShiftedLeft ==
  ASSUME NEW T, NEW n \in DOMAIN T, NEW b \in DOMAIN T, NEW p \in DOMAIN T,
         n # b, n # p, b # p, p = T[n].parent,
         \A m \in DOMAIN T : DOMAIN T[m] = NodeFields,
         NEW x, NEW y, NEW i, NEW moved, NEW U,
         U = [T EXCEPT ![n].keys = Append(@, x),
                       ![n].descendants = Append(@, y),
                       ![b].keys = Tail(@),
                       ![b].descendants = Tail(@),
                       ![T[n].parent].keys[i] = moved]
  PROVE  Shifted(T, U, n, b, p, i, Append(T[n].keys, x), Append(T[n].descendants, y),
                 Tail(T[b].keys), Tail(T[b].descendants), moved)
<1>1. DOMAIN U = DOMAIN T
  BY ZenonT(40)
<1>2. \A m \in DOMAIN T \ {n, b, p} : U[m] = T[m]
  BY ZenonT(40)
<1>3. U[n] = Replaced(T[n], Append(T[n].keys, x), Append(T[n].descendants, y))
  BY ZenonT(60) DEF Replaced, NodeFields
<1>4. U[b] = Replaced(T[b], Tail(T[b].keys), Tail(T[b].descendants))
  BY DEF Replaced, NodeFields
<1>5. U[p] = [T[p] EXCEPT !.keys[i] = moved]
  BY Zenon DEF NodeFields
<1>6. KeyReplaced(T[p], U[p], i, moved)
  BY <1>5, ZenonT(40) DEF KeyReplaced, NodeFields
<1> QED
  BY <1>1, <1>2, <1>3, <1>4, <1>6, ZenonT(40) DEF Shifted

LEMMA ShiftedRight ==
  ASSUME NEW T, NEW n \in DOMAIN T, NEW b \in DOMAIN T, NEW p \in DOMAIN T,
         n # b, n # p, b # p, p = T[n].parent,
         \A m \in DOMAIN T : DOMAIN T[m] = NodeFields,
         NEW x, NEW y, NEW i, NEW moved, NEW U,
         U = [T EXCEPT ![n].keys = <<x>> \o @,
                       ![n].descendants = <<y>> \o @,
                       ![b].keys = Front(@),
                       ![b].descendants = Front(@),
                       ![T[n].parent].keys[i] = moved]
  PROVE  Shifted(T, U, n, b, p, i, <<x>> \o T[n].keys, <<y>> \o T[n].descendants,
                 Front(T[b].keys), Front(T[b].descendants), moved)
<1>1. DOMAIN U = DOMAIN T
  BY Zenon
<1>2. \A m \in DOMAIN T \ {n, b, p} : U[m] = T[m]
  BY ZenonT(40)
<1>3. U[n] = Replaced(T[n], <<x>> \o T[n].keys, <<y>> \o T[n].descendants)
  BY DEF Replaced, NodeFields
<1>4. U[b] = Replaced(T[b], Front(T[b].keys), Front(T[b].descendants))
  BY DEF Replaced, NodeFields
<1>5. U[p] = [T[p] EXCEPT !.keys[i] = moved]
  BY Zenon DEF NodeFields
<1>6. KeyReplaced(T[p], U[p], i, moved)
  BY <1>5, ZenonT(40) DEF KeyReplaced, NodeFields
<1> QED
  BY <1>1, <1>2, <1>3, <1>4, <1>6, ZenonT(40) DEF Shifted

(* n has a key more than before, its neighbor one less.                    *)
Passed(T, U, n, neighbor) ==
  /\ DOMAIN U = DOMAIN T
  /\ \A m \in DOMAIN T : U[m].is_leaf = T[m].is_leaf
  /\ \A m \in DOMAIN T \ {n, neighbor} : Len(U[m].keys) = Len(T[m].keys)
  /\ Len(U[n].keys) = Len(T[n].keys) + 1
  /\ Len(T[neighbor].keys) = Len(U[neighbor].keys) + 1
  /\ Len(U[neighbor].keys) \in Nat

Lacking(T, n, neighbor) ==
  /\ Len(T[n].keys) < MinKeys(T[n].is_leaf)
  /\ Entries(T, n, neighbor) >= Capacity(T[n].is_leaf)

(* The neighbor has keys to spare.                                         *)
LEMMA Spare ==
  ASSUME NEW T, NEW n, NEW neighbor, Lacking(T, n, neighbor),
         Filled(T[n], FALSE, TRUE), Filled(T[neighbor], FALSE, FALSE),
         T[n].is_leaf \in BOOLEAN,
         Len(T[n].keys) \in Nat, Len(T[neighbor].keys) \in Nat
  PROVE  /\ Len(T[n].keys) + 1 = MinKeys(T[n].is_leaf)
         /\ Len(T[neighbor].keys) >= MinKeys(T[n].is_leaf) + 1
         /\ Len(T[neighbor].keys) >= 2
<1> DEFINE a == Len(T[n].keys)
           b == Len(T[neighbor].keys)
           leaf == T[n].is_leaf
           least == MinKeys(leaf)
           most == Capacity(leaf)
<1>1. a \in Nat /\ b \in Nat /\ leaf \in BOOLEAN
  OBVIOUS
<1>2. a < least /\ a + b >= most /\ a >= least - 1
  BY DEF Lacking, Entries, Filled
<1>3. least \in Nat /\ least >= 1 /\ most \in Nat /\ 2 * least <= most
  <2>1. CASE leaf
    <3>1. least = MinKeys(TRUE) /\ most = order
      BY <2>1 DEF Capacity
    <3> QED
      BY <3>1, MinKeysProps
  <2>2. CASE ~leaf
    <3>1. least = MinKeys(FALSE) /\ most = order - 1
      BY <1>1, <2>2 DEF Capacity
    <3>2. order - 1 \in Nat
      BY MinKeysProps
    <3> HIDE DEF least, most
    <3> QED
      BY <3>1, <3>2, MinKeysProps
  <2> QED
    BY <2>1, <2>2
<1> HIDE DEF a, b, least, most
<1>4. a + 1 = least /\ b >= least + 1 /\ b >= 2
  BY <1>1, <1>2, <1>3
<1> QED
  BY <1>4 DEF a, b, least

(* After the move both have enough, and all else is as it was.             *)
LEMMA PassedStands ==
  ASSUME NEW T, NEW root, NEW height, NEW range, WholeTree(T, root, height, range),
         NEW n, Occupied(T, root, n),
         NEW p, NEW index, NEW i, NEW left, NEW right, NEW neighbor, NEW k_prime,
         InPlace(T, root, height, range, n, p, index, i, left, right, neighbor, k_prime),
         Lacking(T, n, neighbor),
         NEW U, Passed(T, U, n, neighbor), \E h, r : WholeTree(U, root, h, r)
  PROVE  Standing(U, root)
<1>1. /\ n \in DOMAIN T /\ neighbor \in DOMAIN T /\ n # neighbor
      /\ T[neighbor].is_leaf = T[n].is_leaf
      /\ Filled(T[n], FALSE, TRUE) /\ Filled(T[neighbor], FALSE, FALSE)
  BY DEF InPlace
<1>2. \A m \in DOMAIN T : T[m].is_leaf \in BOOLEAN /\ Len(T[m].keys) \in Nat /\ m \in Nat
  BY TreeFacts DEF WholeTree, IsNode
<1>3. /\ Len(T[n].keys) + 1 = MinKeys(T[n].is_leaf)
      /\ Len(T[neighbor].keys) >= MinKeys(T[n].is_leaf) + 1
  BY <1>1, <1>2, Spare
<1>4. Len(T[neighbor].keys) <= order - 1
  BY <1>1 DEF Filled
<1>5. /\ DOMAIN U = DOMAIN T
      /\ \A m \in DOMAIN T : U[m].is_leaf = T[m].is_leaf
      /\ \A m \in DOMAIN T \ {n, neighbor} : Len(U[m].keys) = Len(T[m].keys)
      /\ Len(U[n].keys) = Len(T[n].keys) + 1
      /\ Len(T[neighbor].keys) = Len(U[neighbor].keys) + 1
      /\ Len(U[neighbor].keys) \in Nat
  BY DEF Passed
<1>6. ASSUME NEW m \in {n, neighbor}, NEW b \in BOOLEAN PROVE Filled(U[m], b, FALSE)
  <2> DEFINE x == Len(T[n].keys)
             y == Len(T[neighbor].keys)
             k == Len(U[m].keys)
             least == MinKeys(U[m].is_leaf)
  <2>1. U[m].is_leaf = T[n].is_leaf /\ U[m].is_leaf \in BOOLEAN
    BY <1>1, <1>2, <1>5
  <2>2. least \in 1 .. order - 1 /\ order \in Nat
    BY <2>1, MinKeysRange, MinKeysProps
  <2>3. x \in Nat /\ y \in Nat /\ x + 1 = least /\ y >= least + 1 /\ y <= order - 1
    BY <1>1, <1>2, <1>3, <1>4, <2>1
  <2>4. k = x + 1 \/ (y = k + 1 /\ k \in Nat)
    BY <1>5
  <2> HIDE DEF x, y, least, k
  <2>5. k \in Nat /\ least <= k /\ k <= order - 1
    BY <2>2, <2>3, <2>4
  <2> QED
    BY <2>1, <2>5, FillingProps DEF k, least
<1>7. ASSUME NEW m \in DOMAIN U PROVE Filled(U[m], m = root, m = NULL)
  <2>1. (m = NULL) = FALSE /\ (m = root) \in BOOLEAN
    BY <1>2, <1>5, NullAssumption
  <2>2. CASE m \in {n, neighbor}
    BY <1>6, <2>1, <2>2
  <2>3. CASE m \notin {n, neighbor}
    <3>1. Filled(T[m], m = root, m = n) /\ (m = n) = FALSE
      BY <1>5, <2>3 DEF Occupied
    <3>2. Len(U[m].keys) = Len(T[m].keys) /\ U[m].is_leaf = T[m].is_leaf
      BY <1>5, <2>3
    <3>3. Filled(U[m], m = root, FALSE)
      BY <3>1, <3>2 DEF Filled
    <3> QED
      BY <2>1, <3>3
  <2> QED
    BY <2>2, <2>3
<1>8. root # NULL
  BY NullAssumption DEF WholeTree, Tree
<1> QED
  BY <1>7, <1>8 DEF Standing, Shaped, Occupied

(* A leaf gets the first entry of the leaf to its right.                   *)
LEMMA LeafFromRight ==
  ASSUME NEW T, NEW root, NEW height, NEW range, WholeTree(T, root, height, range),
         NEW n, NEW p, NEW index, NEW i, NEW left, NEW right, NEW neighbor, NEW k_prime,
         InPlace(T, root, height, range, n, p, index, i, left, right, neighbor, k_prime),
         Lacking(T, n, neighbor), index = 0, T[n].is_leaf,
         NEW U, U = FromRight(T, n, neighbor, 1, k_prime)
  PROVE  /\ Passed(T, U, n, neighbor) /\ \E h, r : WholeTree(U, root, h, r)
         /\ \E k, d, c : LeafMoved(T, U, p, i, left, right, k, d, c)
<1> DEFINE lk == T[n].keys
           ld == T[n].descendants
           rk == T[neighbor].keys
           rd == T[neighbor].descendants
           W == [T EXCEPT ![n].keys = Append(@, Head(rk)),
                          ![n].descendants = Append(@, Head(rd)),
                          ![neighbor].keys = Tail(@),
                          ![neighbor].descendants = Tail(@),
                          ![T[n].parent].keys[1] = rk[2]]
           a == Len(lk)
           b == Len(rk)
           k == lk \o rk
           d == ld \o rd
           c == a + 1
<1>1. /\ Neighbors(T, height, range, p, i, left, right, k_prime)
      /\ n \in DOMAIN T /\ neighbor \in DOMAIN T /\ p \in DOMAIN T
      /\ n # neighbor /\ p # n /\ p # neighbor
      /\ i = 1 /\ left = n /\ right = neighbor
      /\ T[neighbor].is_leaf = T[n].is_leaf
      /\ Filled(T[n], FALSE, TRUE) /\ Filled(T[neighbor], FALSE, FALSE)
      /\ T[n].parent = p
  BY DEF InPlace, Neighbors
<1>2. \A m \in DOMAIN T : /\ IsNode(T[m]) /\ DOMAIN T[m] = NodeFields
                          /\ T[m].is_leaf \in BOOLEAN /\ Len(T[m].keys) \in Nat
  BY TreeFacts DEF WholeTree, IsNode
<1>3. /\ lk \in Seq(Int) /\ ld \in Seq(Values) /\ Len(ld) = a /\ a \in Nat
      /\ rk \in Seq(Int) /\ rd \in Seq(Values) /\ Len(rd) = b /\ b \in Nat
  BY <1>1, <1>2 DEF IsNode
<1>4. b >= 2
  BY <1>1, <1>2, Spare, Zenon
<1>5. Shifted(T, W, n, neighbor, p, 1, Append(lk, Head(rk)), Append(ld, Head(rd)),
              Tail(rk), Tail(rd), rk[2])
  BY <1>1, <1>2, ShiftedLeft, ZenonT(40)
<1>6. DOMAIN U = DOMAIN W /\ \A m \in DOMAIN T : U[m] = W[m]
  <2>1. U = Adopt(W, {}, n)
    <3>1. Head(rk) = rk[1] /\ T[n].is_leaf = TRUE
      BY <1>1, <1>2, SMTT(30)
    <3> QED
      BY <3>1, Zenon DEF FromRight, NextKPrime
  <2>2. DOMAIN W = DOMAIN T
    BY <1>5, Zenon DEF Shifted
  <2> HIDE DEF W
  <2> QED
    BY <2>1, <2>2 DEF Adopt
<1> HIDE DEF W
<1>7. /\ DOMAIN U = DOMAIN T
      /\ \A m \in DOMAIN T \ {n, neighbor, p} : U[m] = T[m]
      /\ KeyReplaced(T[p], U[p], 1, rk[2])
      /\ U[n] = Replaced(T[n], Append(lk, Head(rk)), Append(ld, Head(rd)))
      /\ U[neighbor] = Replaced(T[neighbor], Tail(rk), Tail(rd))
  BY <1>1, <1>5, <1>6 DEF Shifted
<1>8. /\ SameButEntries(T[n], U[n])
      /\ U[n].keys = Append(lk, Head(rk)) /\ U[n].descendants = Append(ld, Head(rd))
  <2> DEFINE x == Append(lk, Head(rk))
             y == Append(ld, Head(rd))
             t == T[n]
             u == U[n]
  <2>1. DOMAIN t = NodeFields /\ u = Replaced(t, x, y)
    BY <1>1, <1>2, <1>7
  <2> HIDE DEF x, y, t, u
  <2>2. /\ DOMAIN u = NodeFields /\ u.is_leaf = t.is_leaf
        /\ u.parent = t.parent /\ u.keys = x /\ u.descendants = y
        /\ u.next_leaf = t.next_leaf
    BY <2>1, ReplacedProps
  <2> QED
    BY <2>2 DEF SameButEntries, x, y, t, u
<1>9. /\ SameButEntries(T[neighbor], U[neighbor])
      /\ U[neighbor].keys = Tail(rk) /\ U[neighbor].descendants = Tail(rd)
  <2> DEFINE x == Tail(rk)
             y == Tail(rd)
             t == T[neighbor]
             u == U[neighbor]
  <2>1. DOMAIN t = NodeFields /\ u = Replaced(t, x, y)
    BY <1>1, <1>2, <1>7
  <2> HIDE DEF x, y, t, u
  <2>2. /\ DOMAIN u = NodeFields /\ u.is_leaf = t.is_leaf
        /\ u.parent = t.parent /\ u.keys = x /\ u.descendants = y
        /\ u.next_leaf = t.next_leaf
    BY <2>1, ReplacedProps
  <2> QED
    BY <2>2 DEF SameButEntries, x, y, t, u
<1>10. Passed(T, U, n, neighbor)
  <2>1. \A m \in DOMAIN T \ {n, neighbor, p} : U[m].is_leaf = T[m].is_leaf /\ U[m].keys = T[m].keys
    BY <1>7
  <2>2. /\ U[p].is_leaf = T[p].is_leaf /\ U[p].keys = [T[p].keys EXCEPT ![1] = rk[2]]
        /\ T[p].keys \in Seq(Int)
    BY <1>1, <1>2, <1>7 DEF KeyReplaced, IsNode
  <2>3. Len(U[p].keys) = Len(T[p].keys)
    BY <2>2
  <2>4. /\ Len(Append(lk, Head(rk))) = Len(lk) + 1
        /\ Len(rk) = Len(Tail(rk)) + 1 /\ Len(Tail(rk)) \in Nat
    BY <1>3, <1>4
  <2>5. U[n].is_leaf = T[n].is_leaf /\ U[neighbor].is_leaf = T[neighbor].is_leaf
    BY <1>8, <1>9 DEF SameButEntries
  <2>6. \A m \in DOMAIN T : U[m].is_leaf = T[m].is_leaf
    BY <2>1, <2>2, <2>5
  <2>7. \A m \in DOMAIN T \ {n, neighbor} : Len(U[m].keys) = Len(T[m].keys)
    BY <2>1, <2>3
  <2> QED
    BY <1>7, <1>8, <1>9, <2>4, <2>6, <2>7 DEF Passed
<1> HIDE DEF lk, ld, rk, rd
<1>11. /\ SubSeq(k, 1, a + 1) = Append(lk, Head(rk))
       /\ SubSeq(k, a + 2, a + b) = Tail(rk)
  <2>1. Len(rk) >= 1
    BY <1>3, <1>4
  <2>2. /\ SubSeq(lk \o rk, 1, Len(lk) + 1) = Append(lk, Head(rk))
        /\ SubSeq(lk \o rk, Len(lk) + 2, Len(lk) + Len(rk)) = Tail(rk)
    BY <1>3, <2>1, FirstMoved
  <2> QED
    BY <2>2
<1>12. /\ SubSeq(d, 1, a + 1) = Append(ld, Head(rd))
       /\ SubSeq(d, a + 2, a + b) = Tail(rd)
  <2>1. Len(rd) >= 1
    BY <1>3, <1>4
  <2>2. /\ SubSeq(ld \o rd, 1, Len(ld) + 1) = Append(ld, Head(rd))
        /\ SubSeq(ld \o rd, Len(ld) + 2, Len(ld) + Len(rd)) = Tail(rd)
    BY <1>3, <2>1, FirstMoved
  <2> QED
    BY <1>3, <2>2
<1>13. Len(k) = a + b /\ k[a + 2] = rk[2]
  <2> DEFINE q == a + 2
  <2>1. /\ Len(k) = a + b
        /\ \A j \in 1 .. a + b : k[j] = IF j <= a THEN lk[j] ELSE rk[j - a]
    BY <1>3, ConcatProps
  <2>2. q \in 1 .. a + b /\ ~(q <= a) /\ q - a = 2
    BY <1>3, <1>4
  <2> HIDE DEF q, k, a, b
  <2>3. k[q] = rk[2]
    BY <2>1, <2>2
  <2> QED
    BY <2>1, <2>3 DEF q
<1>14. c \in 1 .. Len(k) - 1 /\ c + 1 = a + 2
  BY <1>3, <1>4, <1>13, SMTT(30)
<1> HIDE DEF a, b, c, k, d
<1>15. LeafMoved(T, U, p, i, left, right, k, d, c)
  <2>1. U[n].keys = SubSeq(k, 1, c) /\ U[n].descendants = SubSeq(d, 1, c)
    BY <1>8, <1>11, <1>12 DEF c
  <2>2. /\ U[neighbor].keys = SubSeq(k, c + 1, Len(k))
        /\ U[neighbor].descendants = SubSeq(d, c + 1, Len(k))
    BY <1>9, <1>11, <1>12, <1>13, <1>14
  <2>3. KeyReplaced(T[p], U[p], i, k[c + 1])
    BY <1>1, <1>7, <1>13, <1>14
  <2> QED
    BY <1>1, <1>7, <1>8, <1>9, <1>14, <2>1, <2>2, <2>3 DEF LeafMoved, k, d, lk, ld, rk, rd
<1>16. \E h, r : WholeTree(U, root, h, r)
  <2>1. T[left].is_leaf
    BY <1>1
  <2> QED
    BY <1>1, <1>15, <2>1, LeafRedistributed
<1> QED
  BY <1>10, <1>15, <1>16

(* A leaf gets the last entry of the leaf to its left.                     *)
LEMMA LeafFromLeft ==
  ASSUME NEW T, NEW root, NEW height, NEW range, WholeTree(T, root, height, range),
         NEW n, NEW p, NEW index, NEW i, NEW left, NEW right, NEW neighbor, NEW k_prime,
         InPlace(T, root, height, range, n, p, index, i, left, right, neighbor, k_prime),
         Lacking(T, n, neighbor), index # 0, T[n].is_leaf,
         NEW U, U = FromLeft(T, n, neighbor, index)
  PROVE  /\ Passed(T, U, n, neighbor) /\ \E h, r : WholeTree(U, root, h, r)
         /\ \E k, d, c : LeafMoved(T, U, p, i, left, right, k, d, c)
<1> DEFINE lk == T[neighbor].keys
           ld == T[neighbor].descendants
           rk == T[n].keys
           rd == T[n].descendants
           moved == Last(lk)
           a == Len(lk)
           b == Len(rk)
           k == lk \o rk
           d == ld \o rd
           c == a - 1
<1>1. /\ Neighbors(T, height, range, p, i, left, right, k_prime)
      /\ n \in DOMAIN T /\ neighbor \in DOMAIN T /\ p \in DOMAIN T
      /\ n # neighbor /\ p # n /\ p # neighbor
      /\ i = index /\ left = neighbor /\ right = n
      /\ T[neighbor].is_leaf = T[n].is_leaf
      /\ Filled(T[n], FALSE, TRUE) /\ Filled(T[neighbor], FALSE, FALSE)
      /\ T[n].parent = p /\ i \in 1 .. Len(T[p].keys)
  BY DEF InPlace, Neighbors
<1>2. \A m \in DOMAIN T : /\ IsNode(T[m]) /\ DOMAIN T[m] = NodeFields
                          /\ T[m].is_leaf \in BOOLEAN /\ Len(T[m].keys) \in Nat
  BY TreeFacts DEF WholeTree, IsNode
<1>3. /\ lk \in Seq(Int) /\ ld \in Seq(Values) /\ Len(ld) = a /\ a \in Nat
      /\ rk \in Seq(Int) /\ rd \in Seq(Values) /\ Len(rd) = b /\ b \in Nat
  BY <1>1, <1>2 DEF IsNode
<1>4. a >= 2
  BY <1>1, <1>2, Spare
<1>5. Shifted(T, U, n, neighbor, p, i, <<moved>> \o rk, <<Last(ld)>> \o rd,
              Front(lk), Front(ld), moved)
  <2>1. U = [T EXCEPT ![n].keys = <<moved>> \o @,
                      ![n].descendants = <<Last(ld)>> \o @,
                      ![neighbor].keys = Front(@),
                      ![neighbor].descendants = Front(@),
                      ![T[n].parent].keys[i] = moved]
    BY <1>1 DEF FromLeft
  <2> HIDE DEF moved
  <2> QED
    BY <1>1, <1>2, <2>1, ShiftedRight, ZenonT(40)
<1>6. /\ DOMAIN U = DOMAIN T
      /\ \A m \in DOMAIN T \ {n, neighbor, p} : U[m] = T[m]
      /\ KeyReplaced(T[p], U[p], i, moved)
      /\ U[n] = Replaced(T[n], <<moved>> \o rk, <<Last(ld)>> \o rd)
      /\ U[neighbor] = Replaced(T[neighbor], Front(lk), Front(ld))
  BY <1>1, <1>5 DEF Shifted
<1>7. /\ SameButEntries(T[n], U[n])
      /\ U[n].keys = <<moved>> \o rk /\ U[n].descendants = <<Last(ld)>> \o rd
  <2> DEFINE x == <<moved>> \o rk
             y == <<Last(ld)>> \o rd
             t == T[n]
             u == U[n]
  <2>1. DOMAIN t = NodeFields /\ u = Replaced(t, x, y)
    BY <1>1, <1>2, <1>6
  <2> HIDE DEF x, y, t, u
  <2>2. /\ DOMAIN u = NodeFields /\ u.is_leaf = t.is_leaf
        /\ u.parent = t.parent /\ u.keys = x /\ u.descendants = y
        /\ u.next_leaf = t.next_leaf
    BY <2>1, ReplacedProps
  <2> QED
    BY <2>2 DEF SameButEntries, x, y, t, u
<1>8. /\ SameButEntries(T[neighbor], U[neighbor])
      /\ U[neighbor].keys = Front(lk) /\ U[neighbor].descendants = Front(ld)
  <2> DEFINE x == Front(lk)
             y == Front(ld)
             t == T[neighbor]
             u == U[neighbor]
  <2>1. DOMAIN t = NodeFields /\ u = Replaced(t, x, y)
    BY <1>1, <1>2, <1>6, SMTT(30)
  <2> HIDE DEF x, y, t, u
  <2>2. /\ DOMAIN u = NodeFields /\ u.is_leaf = t.is_leaf
        /\ u.parent = t.parent /\ u.keys = x /\ u.descendants = y
        /\ u.next_leaf = t.next_leaf
    BY <2>1, ReplacedProps
  <2> QED
    BY <2>2 DEF SameButEntries, x, y, t, u
<1> HIDE DEF moved
<1>9. Passed(T, U, n, neighbor)
  <2>1. \A m \in DOMAIN T \ {n, neighbor, p} : U[m].is_leaf = T[m].is_leaf /\ U[m].keys = T[m].keys
    BY <1>6
  <2>2. /\ U[p].is_leaf = T[p].is_leaf /\ U[p].keys = [T[p].keys EXCEPT ![i] = moved]
        /\ T[p].keys \in Seq(Int)
    BY <1>1, <1>2, <1>6 DEF KeyReplaced, IsNode
  <2>3. Len(U[p].keys) = Len(T[p].keys)
    BY <2>2
  <2>4. moved \in Int /\ Len(<<moved>> \o rk) = Len(rk) + 1
    <3>1. moved = lk[Len(lk)] /\ Len(lk) \in 1 .. Len(lk)
      BY <1>3, <1>4 DEF Last, moved
    <3>2. moved \in Int
      BY <1>3, <3>1
    <3>3. <<moved>> \in Seq(Int) /\ Len(<<moved>>) = 1
      BY <3>2
    <3>4. Len(<<moved>> \o rk) = Len(<<moved>>) + Len(rk)
      BY <1>3, <3>3, ConcatProps
    <3> QED
      BY <1>3, <3>2, <3>3, <3>4
  <2>5. Len(lk) = Len(Front(lk)) + 1 /\ Len(Front(lk)) \in Nat
    <3>1. Len(lk) - 1 \in 0 .. Len(lk) /\ Front(lk) = SubSeq(lk, 1, Len(lk) - 1)
      BY <1>3, <1>4 DEF Front
    <3>2. Len(Front(lk)) = Len(lk) - 1
      BY <1>3, <3>1, FirstPart
    <3> QED
      BY <1>3, <1>4, <3>2
  <2>6. U[n].is_leaf = T[n].is_leaf /\ U[neighbor].is_leaf = T[neighbor].is_leaf
    BY <1>7, <1>8 DEF SameButEntries
  <2>7. \A m \in DOMAIN T : U[m].is_leaf = T[m].is_leaf
    BY <2>1, <2>2, <2>6
  <2>8. \A m \in DOMAIN T \ {n, neighbor} : Len(U[m].keys) = Len(T[m].keys)
    BY <2>1, <2>3
  <2> QED
    BY <1>6, <1>7, <1>8, <2>4, <2>5, <2>7, <2>8 DEF Passed
<1> HIDE DEF lk, ld, rk, rd
<1>10. /\ SubSeq(k, 1, a - 1) = Front(lk)
       /\ SubSeq(k, a, a + b) = <<moved>> \o rk
  <2>1. Len(lk) >= 1
    BY <1>3, <1>4
  <2>2. /\ SubSeq(lk \o rk, 1, Len(lk) - 1) = Front(lk)
        /\ SubSeq(lk \o rk, Len(lk), Len(lk) + Len(rk)) = <<Last(lk)>> \o rk
    BY <1>3, <2>1, LastMoved
  <2> QED
    BY <2>2 DEF moved
<1>11. /\ SubSeq(d, 1, a - 1) = Front(ld)
       /\ SubSeq(d, a, a + b) = <<Last(ld)>> \o rd
  <2>1. Len(ld) >= 1
    BY <1>3, <1>4
  <2>2. /\ SubSeq(ld \o rd, 1, Len(ld) - 1) = Front(ld)
        /\ SubSeq(ld \o rd, Len(ld), Len(ld) + Len(rd)) = <<Last(ld)>> \o rd
    BY <1>3, <2>1, LastMoved
  <2> QED
    BY <1>3, <2>2
<1>12. Len(k) = a + b /\ k[a] = moved
  <2>1. /\ Len(k) = a + b
        /\ \A j \in 1 .. a + b : k[j] = IF j <= a THEN lk[j] ELSE rk[j - a]
    BY <1>3, ConcatProps
  <2>2. a \in 1 .. a + b /\ a <= a
    BY <1>3, <1>4
  <2>3. moved = lk[a]
    BY DEF Last, moved
  <2> HIDE DEF k, a, b
  <2> QED
    BY <2>1, <2>2, <2>3
<1>13. c \in 1 .. Len(k) - 1 /\ c + 1 = a
  BY <1>3, <1>4, <1>12, SMTT(30)
<1> HIDE DEF a, b, c, k, d
<1>14. LeafMoved(T, U, p, i, left, right, k, d, c)
  <2>1. U[neighbor].keys = SubSeq(k, 1, c) /\ U[neighbor].descendants = SubSeq(d, 1, c)
    BY <1>8, <1>10, <1>11 DEF c
  <2>2. /\ U[n].keys = SubSeq(k, c + 1, Len(k))
        /\ U[n].descendants = SubSeq(d, c + 1, Len(k))
    BY <1>7, <1>10, <1>11, <1>12, <1>13
  <2>3. KeyReplaced(T[p], U[p], i, k[c + 1])
    BY <1>6, <1>12, <1>13
  <2>4. k = T[left].keys \o T[right].keys /\ d = T[left].descendants \o T[right].descendants
    BY <1>1 DEF k, d, lk, rk, ld, rd
  <2> QED
    BY <1>1, <1>6, <1>7, <1>8, <1>13, <2>1, <2>2, <2>3, <2>4, Zenon DEF LeafMoved
<1>15. \E h, r : WholeTree(U, root, h, r)
  <2>1. T[left].is_leaf
    BY <1>1
  <2> QED
    BY <1>1, <1>14, <2>1, LeafRedistributed
<1> QED
  BY <1>9, <1>14, <1>15

LEMMA FirstKept ==
  ASSUME NEW S, NEW s \in Seq(S), NEW t \in Seq(S)
  PROVE  SubSeq(s \o t, 1, Len(s)) = s
<1> DEFINE a == Len(s)
           b == Len(t)
           c == s \o t
           d == SubSeq(c, 1, a)
<1>1. a \in Nat /\ b \in Nat
  OBVIOUS
<1>2. /\ c \in Seq(S) /\ Len(c) = a + b
      /\ \A j \in 1 .. a + b : c[j] = IF j <= a THEN s[j] ELSE t[j - a]
  BY ConcatProps
<1>3. d \in Seq(S) /\ Len(d) = a /\ \A j \in 1 .. a : d[j] = c[j]
  <2>1. a \in 0 .. Len(c)
    BY <1>1, <1>2
  <2> HIDE DEF a, c
  <2> QED
    BY <1>2, <2>1, FirstPart
<1>4. ASSUME NEW j \in 1 .. a PROVE d[j] = s[j]
  <2>1. j \in 1 .. a + b /\ j <= a
    BY <1>1
  <2> HIDE DEF a, b, c, d
  <2> QED
    BY <1>2, <1>3, <2>1
<1> HIDE DEF c, d
<1> QED
  BY <1>3, <1>4, SequenceEquality DEF c, d

(* A node gets the first descendant of the node to its right.              *)
LEMMA NodeFromRight ==
  ASSUME NEW T, NEW root, NEW height, NEW range, WholeTree(T, root, height, range),
         NEW n, NEW p, NEW index, NEW i, NEW left, NEW right, NEW neighbor, NEW k_prime,
         InPlace(T, root, height, range, n, p, index, i, left, right, neighbor, k_prime),
         Lacking(T, n, neighbor), index = 0, ~T[n].is_leaf,
         NEW U, U = FromRight(T, n, neighbor, 1, k_prime)
  PROVE  /\ Passed(T, U, n, neighbor) /\ \E h, r : WholeTree(U, root, h, r)
         /\ \E k, d, c : NodeMoved(T, U, p, i, left, right, k_prime, k, d, c)
<1> DEFINE lk == T[n].keys
           ld == T[n].descendants
           rk == T[neighbor].keys
           rd == T[neighbor].descendants
           moved == Head(rd)
           W == [T EXCEPT ![n].keys = Append(@, k_prime),
                          ![n].descendants = Append(@, moved),
                          ![neighbor].keys = Tail(@),
                          ![neighbor].descendants = Tail(@),
                          ![T[n].parent].keys[1] = rk[1]]
           a == Len(lk)
           b == Len(rk)
           e == lk \o <<k_prime>>
           k == e \o rk
           d == ld \o rd
           c == a + 2
<1>1. /\ Neighbors(T, height, range, p, i, left, right, k_prime)
      /\ n \in DOMAIN T /\ neighbor \in DOMAIN T /\ p \in DOMAIN T
      /\ n # neighbor /\ p # n /\ p # neighbor
      /\ i = 1 /\ left = n /\ right = neighbor
      /\ T[neighbor].is_leaf = T[n].is_leaf
      /\ Filled(T[n], FALSE, TRUE) /\ Filled(T[neighbor], FALSE, FALSE)
      /\ T[n].parent = p /\ T[neighbor].parent = p /\ k_prime \in Int
  BY DEF InPlace, Neighbors
<1>2. \A m \in DOMAIN T : /\ IsNode(T[m]) /\ DOMAIN T[m] = NodeFields
                          /\ T[m].is_leaf \in BOOLEAN /\ Len(T[m].keys) \in Nat
  BY TreeFacts DEF WholeTree, IsNode
<1>3. /\ lk \in Seq(Int) /\ ld \in Seq(Nat) /\ Len(ld) = a + 1 /\ a \in Nat
      /\ rk \in Seq(Int) /\ rd \in Seq(Nat) /\ Len(rd) = b + 1 /\ b \in Nat
  BY <1>1, <1>2 DEF IsNode
<1>4. b >= 2
  BY <1>1, <1>2, Spare, Zenon
<1>5. Shifted(T, W, n, neighbor, p, 1, Append(lk, k_prime), Append(ld, moved),
              Tail(rk), Tail(rd), rk[1])
  <2> HIDE DEF moved
  <2> QED
    BY <1>1, <1>2, ShiftedLeft, ZenonT(40)
<1>6. /\ DOMAIN U = DOMAIN T
      /\ \A m \in DOMAIN T : U[m] = IF m = moved THEN [W[m] EXCEPT !.parent = n] ELSE W[m]
  <2>1. U = Adopt(W, {moved}, n)
    <3>1. T[n].is_leaf = FALSE
      BY <1>1, <1>2, Zenon
    <3> QED
      BY <3>1, Zenon DEF FromRight, NextKPrime
  <2>2. DOMAIN W = DOMAIN T
    BY <1>5, Zenon DEF Shifted
  <2> HIDE DEF W, moved
  <2> QED
    BY <2>1, <2>2 DEF Adopt
<1> HIDE DEF W
(* Whose the descendants of the right one are. *)
<1>7. moved = rd[1]
  BY <1>3
<1> HIDE DEF moved
<1>8. ASSUME NEW m \in DOMAIN T
      PROVE  T[m].parent = neighbor <=> \E j \in 1 .. b + 1 : m = rd[j]
  <2>1. T[neighbor].is_leaf = FALSE
    BY <1>1, <1>2
  <2>2. Children(T, neighbor) = ToSet(rd)
    BY <1>1, <2>1, ChildrenProps
  <2>3. ToSet(rd) = {rd[j] : j \in 1 .. b + 1}
    BY <1>3 DEF ToSet
  <2> QED
    BY <2>2, <2>3 DEF Children
<1>9. 1 \in 1 .. b + 1
  BY <1>3
<1>10. ASSUME NEW j \in 1 .. b + 1, rd[j] = moved PROVE j = 1
  <2>1. ~T[neighbor].is_leaf /\ Tree(T, root, height, range, range, {})
    BY <1>1 DEF WholeTree
  <2> QED
    BY <1>1, <1>7, <1>9, <1>10, <2>1, DescendantsDiffer
<1>11. n # moved /\ neighbor # moved /\ p # moved
  <2>1. T[p].parent # neighbor
    BY <1>1, NotBelow
  <2>2. T[n].parent # neighbor /\ T[neighbor].parent # neighbor
    BY <1>1
  <2> QED
    BY <1>1, <1>7, <1>8, <1>9, <2>1, <2>2
<1>12. /\ \A m \in DOMAIN T \ {n, neighbor, p} :
             U[m] = IF m = moved THEN [T[m] EXCEPT !.parent = n] ELSE T[m]
       /\ KeyReplaced(T[p], U[p], 1, rk[1])
       /\ U[n] = Replaced(T[n], Append(lk, k_prime), Append(ld, moved))
       /\ U[neighbor] = Replaced(T[neighbor], Tail(rk), Tail(rd))
  BY <1>1, <1>5, <1>6, <1>11 DEF Shifted
<1>13. /\ SameButEntries(T[n], U[n])
       /\ U[n].keys = Append(lk, k_prime) /\ U[n].descendants = Append(ld, moved)
  <2> DEFINE x == Append(lk, k_prime)
             y == Append(ld, moved)
             t == T[n]
             u == U[n]
  <2>1. DOMAIN t = NodeFields /\ u = Replaced(t, x, y)
    BY <1>1, <1>2, <1>12
  <2> HIDE DEF x, y, t, u
  <2>2. /\ DOMAIN u = NodeFields /\ u.is_leaf = t.is_leaf
        /\ u.parent = t.parent /\ u.keys = x /\ u.descendants = y
        /\ u.next_leaf = t.next_leaf
    BY <2>1, ReplacedProps
  <2> QED
    BY <2>2 DEF SameButEntries, x, y, t, u
<1>14. /\ SameButEntries(T[neighbor], U[neighbor])
       /\ U[neighbor].keys = Tail(rk) /\ U[neighbor].descendants = Tail(rd)
  <2> DEFINE x == Tail(rk)
             y == Tail(rd)
             t == T[neighbor]
             u == U[neighbor]
  <2>1. DOMAIN t = NodeFields /\ u = Replaced(t, x, y)
    BY <1>1, <1>2, <1>12
  <2> HIDE DEF x, y, t, u
  <2>2. /\ DOMAIN u = NodeFields /\ u.is_leaf = t.is_leaf
        /\ u.parent = t.parent /\ u.keys = x /\ u.descendants = y
        /\ u.next_leaf = t.next_leaf
    BY <2>1, ReplacedProps
  <2> QED
    BY <2>2 DEF SameButEntries, x, y, t, u
<1>15. ASSUME NEW m \in DOMAIN T \ {n, neighbor, p}
       PROVE  /\ SameNode(T, U, m)
              /\ U[m].parent = IF m = moved THEN n ELSE T[m].parent
  <2>1. DOMAIN T[m] = NodeFields
    BY <1>2
  <2>2. CASE m = moved
    <3>1. U[m] = [T[m] EXCEPT !.parent = n]
      BY <1>12, <2>2
    <3> QED
      BY <2>1, <2>2, <3>1 DEF SameNode, NodeFields
  <2>3. CASE m # moved
    <3>1. U[m] = T[m]
      BY <1>12, <2>3
    <3> QED
      BY <2>1, <2>3, <3>1 DEF SameNode
  <2> QED
    BY <2>2, <2>3
<1>16. ASSUME NEW m \in DOMAIN T
       PROVE  U[m].parent = IF m = moved THEN n ELSE T[m].parent
  BY <1>11, <1>12, <1>13, <1>14, <1>15 DEF SameButEntries, KeyReplaced
<1>17. Passed(T, U, n, neighbor)
  <2>1. \A m \in DOMAIN T \ {n, neighbor, p} : U[m].is_leaf = T[m].is_leaf /\ U[m].keys = T[m].keys
    BY <1>15 DEF SameNode
  <2>2. /\ U[p].is_leaf = T[p].is_leaf /\ U[p].keys = [T[p].keys EXCEPT ![1] = rk[1]]
        /\ T[p].keys \in Seq(Int)
    BY <1>1, <1>2, <1>12 DEF KeyReplaced, IsNode
  <2>3. Len(U[p].keys) = Len(T[p].keys)
    BY <2>2
  <2>4. /\ Len(Append(lk, k_prime)) = Len(lk) + 1
        /\ Len(rk) = Len(Tail(rk)) + 1 /\ Len(Tail(rk)) \in Nat
    BY <1>1, <1>3, <1>4
  <2>5. U[n].is_leaf = T[n].is_leaf /\ U[neighbor].is_leaf = T[neighbor].is_leaf
    BY <1>13, <1>14 DEF SameButEntries
  <2>6. \A m \in DOMAIN T : U[m].is_leaf = T[m].is_leaf
    BY <2>1, <2>2, <2>5
  <2>7. \A m \in DOMAIN T \ {n, neighbor} : Len(U[m].keys) = Len(T[m].keys)
    BY <2>1, <2>3
  <2> QED
    BY <1>6, <1>13, <1>14, <2>4, <2>6, <2>7 DEF Passed
<1> HIDE DEF lk, ld, rk, rd
<1>18. e \in Seq(Int) /\ Len(e) = a + 1 /\ e = Append(lk, k_prime)
  BY <1>1, <1>3
<1>19. /\ SubSeq(k, 1, a + 1) = Append(lk, k_prime)
       /\ SubSeq(k, a + 3, a + 1 + b) = Tail(rk)
       /\ Len(k) = a + 1 + b /\ k[a + 2] = rk[1]
  <2> HIDE DEF e
  <2>1. Len(rk) >= 1
    BY <1>3, <1>4
  <2>2. /\ SubSeq(e \o rk, 1, Len(e)) = e
        /\ SubSeq(e \o rk, Len(e) + 2, Len(e) + Len(rk)) = Tail(rk)
    BY <1>3, <1>18, <2>1, FirstMoved, FirstKept, ZenonT(40)
  <2>3. Len(e) + 2 = a + 3
    BY <1>3, <1>18
  <2>4. /\ Len(k) = Len(e) + Len(rk)
        /\ \A j \in 1 .. Len(e) + Len(rk) : k[j] = IF j <= Len(e) THEN e[j] ELSE rk[j - Len(e)]
    BY <1>3, <1>18, ConcatProps
  <2> DEFINE q == a + 2
  <2>5. q \in 1 .. Len(e) + Len(rk) /\ ~(q <= Len(e)) /\ q - Len(e) = 1
    BY <1>3, <1>4, <1>18, SMTT(30)
  <2> HIDE DEF q, k
  <2>6. k[q] = rk[1]
    BY <2>4, <2>5
  <2> QED
    BY <1>18, <2>2, <2>3, <2>4, <2>6 DEF k, q
<1>20. /\ SubSeq(d, 1, a + 2) = Append(ld, moved)
       /\ SubSeq(d, a + 3, a + b + 2) = Tail(rd)
  <2>1. Len(rd) >= 1 /\ Len(ld) + 1 = a + 2 /\ Len(ld) + 2 = a + 3
        /\ Len(ld) + Len(rd) = a + b + 2
    BY <1>3, <1>4
  <2>2. /\ SubSeq(ld \o rd, 1, Len(ld) + 1) = Append(ld, Head(rd))
        /\ SubSeq(ld \o rd, Len(ld) + 2, Len(ld) + Len(rd)) = Tail(rd)
    BY <1>3, <2>1, FirstMoved
  <2> QED
    BY <2>1, <2>2 DEF moved
<1>21. /\ Len(d) = a + b + 2
       /\ \A j \in 1 .. a + b + 2 : d[j] = IF j <= a + 1 THEN ld[j] ELSE rd[j - (a + 1)]
  <2>1. Len(ld) = a + 1 /\ Len(ld) + Len(rd) = a + b + 2
    BY <1>3
  <2>2. /\ Len(d) = Len(ld) + Len(rd)
        /\ \A j \in 1 .. Len(ld) + Len(rd) :
             d[j] = IF j <= Len(ld) THEN ld[j] ELSE rd[j - Len(ld)]
    BY <1>3, ConcatProps
  <2> HIDE DEF d
  <2> QED
    BY <2>1, <2>2
<1>22. c \in 2 .. Len(k) /\ c + 1 = a + 3 /\ c - 1 = a + 1 /\ Len(k) + 1 = a + b + 2
  BY <1>3, <1>4, <1>19
<1> HIDE DEF a, b, c, k, d, e
<1>23. ASSUME NEW m PROVE m \in Given(d, k, c) <=> \E j \in 2 .. b + 1 : m = rd[j]
  <2>1. ASSUME m \in Given(d, k, c) PROVE \E j \in 2 .. b + 1 : m = rd[j]
    <3>1. PICK q \in a + 3 .. a + b + 2 : m = d[q]
      BY <1>22, <2>1 DEF Given
    <3> DEFINE j == q - (a + 1)
    <3>2. q \in 1 .. a + b + 2 /\ ~(q <= a + 1) /\ j \in 2 .. b + 1
      BY <1>3
    <3>3. m = rd[j]
      BY <1>21, <3>1, <3>2
    <3> QED
      BY <3>2, <3>3
  <2>2. ASSUME NEW j \in 2 .. b + 1, m = rd[j] PROVE m \in Given(d, k, c)
    <3> DEFINE q == j + (a + 1)
    <3>1. q \in a + 3 .. a + b + 2 /\ q \in 1 .. a + b + 2 /\ ~(q <= a + 1) /\ q - (a + 1) = j
      BY <1>3
    <3> HIDE DEF q
    <3>2. m = d[q]
      BY <1>21, <2>2, <3>1
    <3> QED
      BY <1>22, <3>1, <3>2 DEF Given
  <2> QED
    BY <2>1, <2>2
<1>24. ASSUME NEW m \in DOMAIN T
       PROVE  U[m].parent = IF m \in Given(d, k, c) THEN neighbor
                            ELSE IF T[m].parent = neighbor THEN n ELSE T[m].parent
  <2>1. U[m].parent = IF m = moved THEN n ELSE T[m].parent
    BY <1>16
  <2>2. m \in Given(d, k, c) <=> T[m].parent = neighbor /\ m # moved
    <3>1. ASSUME m \in Given(d, k, c) PROVE T[m].parent = neighbor /\ m # moved
      <4>1. PICK j \in 2 .. b + 1 : m = rd[j]
        BY <1>23, <3>1
      <4>2. j \in 1 .. b + 1 /\ j # 1
        BY <1>3
      <4> QED
        BY <1>8, <1>10, <4>1, <4>2
    <3>2. ASSUME T[m].parent = neighbor, m # moved PROVE m \in Given(d, k, c)
      <4>1. PICK j \in 1 .. b + 1 : m = rd[j]
        BY <1>8, <3>2
      <4>2. j \in 2 .. b + 1
        <5>1. j # 1
          BY <1>7, <3>2, <4>1
        <5> QED
          BY <1>3, <5>1
      <4> QED
        BY <1>23, <4>1, <4>2
    <3> QED
      BY <3>1, <3>2
  <2>3. m = moved => T[m].parent = neighbor
    BY <1>7, <1>8, <1>9, Zenon
  <2> QED
    BY <2>1, <2>2, <2>3
<1>25. NodeMoved(T, U, p, i, left, right, k_prime, k, d, c)
  <2>1. U[n].keys = SubSeq(k, 1, c - 1) /\ U[n].descendants = SubSeq(d, 1, c)
    BY <1>13, <1>19, <1>20, <1>22 DEF c
  <2>2. /\ U[neighbor].keys = SubSeq(k, c + 1, Len(k))
        /\ U[neighbor].descendants = SubSeq(d, c + 1, Len(k) + 1)
    BY <1>14, <1>19, <1>20, <1>22
  <2>3. KeyReplaced(T[p], U[p], i, k[c])
    BY <1>1, <1>12, <1>19 DEF c
  <2>4. /\ k = T[left].keys \o <<k_prime>> \o T[right].keys
        /\ d = T[left].descendants \o T[right].descendants
    BY <1>1 DEF k, d, e, lk, rk, ld, rd
  <2>5. \A m \in DOMAIN T \ {left, right, p} : SameNode(T, U, m)
    BY <1>1, <1>15
  <2>6. \A m \in DOMAIN T :
          U[m].parent = IF m \in Given(d, k, c) THEN right
                        ELSE IF T[m].parent = right THEN left ELSE T[m].parent
    BY <1>1, <1>24
  <2>7. DOMAIN U = DOMAIN T /\ c \in 2 .. Len(k)
        /\ SameButEntries(T[left], U[left]) /\ SameButEntries(T[right], U[right])
    BY <1>1, <1>6, <1>13, <1>14, <1>22
  <2>8. /\ U[left].keys = SubSeq(k, 1, c - 1) /\ U[left].descendants = SubSeq(d, 1, c)
        /\ U[right].keys = SubSeq(k, c + 1, Len(k))
        /\ U[right].descendants = SubSeq(d, c + 1, Len(k) + 1)
    BY <1>1, <2>1, <2>2
  <2> QED
    BY <2>3, <2>4, <2>5, <2>6, <2>7, <2>8, Zenon DEF NodeMoved
<1>26. \E h, r : WholeTree(U, root, h, r)
  <2>1. ~T[left].is_leaf
    BY <1>1
  <2> QED
    BY <1>1, <1>25, <2>1, NodeRedistributed
<1> QED
  BY <1>17, <1>25, <1>26

-----------------------------------------------------------------------------
(* The calls and the commands.  What a state promises to the call that is  *)
(* due.                                                                    *)
InOrder(T, root, c) ==
  /\ c.fn = "none" => Standing(T, root)
  /\ c.fn = "insert_into_parent" => SplitShaped(T, root, c.left, c.key, c.right)
  /\ c.fn = "delete_entry" => RemovedShaped(T, root, c.node, c.key, c.descendant)

LEMMA Calls ==
  ASSUME NEW T, NEW root
  PROVE  /\ Standing(T, root) => InOrder(T, root, NoCall)
         /\ InOrder(T, root, Stopped)
         /\ \A l, k, r : SplitShaped(T, root, l, k, r) =>
                           InOrder(T, root, InsertIntoParent(l, k, r))
         /\ \A n, k, d : RemovedShaped(T, root, n, k, d) =>
                           InOrder(T, root, DeleteEntry(n, k, d))
BY DEF InOrder, NoCall, Stopped, InsertIntoParent, DeleteEntry

LEMMA NodeFixed ==
  ASSUME NEW T, NEW n \in DOMAIN T, Shaped(T, tree_root, n), n # tree_root,
         Len(T[n].keys) < MinKeys(T[n].is_leaf),
         FixNode(T, n), UNCHANGED tree_root
  PROVE  InOrder(node', tree_root', call')
<1> DEFINE p == T[n].parent
           index == PlaceOf(T[p].descendants, n) - 1
           i == IF index = 0 THEN 1 ELSE index
           k_prime == T[p].keys[i]
           neighbor == T[p].descendants[IF index = 0 THEN 2 ELSE index]
           left == IF index = 0 THEN n ELSE neighbor
           right == IF index = 0 THEN neighbor ELSE n
           entries == Len(T[n].keys) + Len(T[neighbor].keys)
           root == tree_root
<1>1. PICK height, range : WholeTree(T, root, height, range)
  BY DEF Shaped
<1>2. Occupied(T, root, n)
  BY DEF Shaped
<1>3. Fixed(T, n, p, index, i, left, right, neighbor, k_prime)
  BY DEF Fixed
<1>4. \/ /\ entries < Capacity(T[n].is_leaf)
         /\ node' = CoalesceNodes(T, left, right, k_prime)
         /\ call' = DeleteEntry(p, k_prime, right)
      \/ /\ entries >= Capacity(T[n].is_leaf)
         /\ RedistributeNodes(T, n, neighbor, index, k_prime)
  BY DEF FixNode
<1>5. entries = Entries(T, n, neighbor)
  BY DEF Entries
<1> HIDE DEF p, index, i, k_prime, neighbor, left, right, entries
<1>6. InPlace(T, root, height, range, n, p, index, i, left, right, neighbor, k_prime)
  BY <1>1, <1>2, <1>3, FixedInPlace
<1>7. CASE /\ entries < Capacity(T[n].is_leaf)
           /\ node' = CoalesceNodes(T, left, right, k_prime)
           /\ call' = DeleteEntry(p, k_prime, right)
  <2>1. Entries(T, n, neighbor) < Capacity(T[n].is_leaf)
    BY <1>5, <1>7
  <2>2. RemovedShaped(CoalesceNodes(T, left, right, k_prime), root, p, k_prime, right)
    BY <1>1, <1>2, <1>6, <2>1, Coalesced
  <2> QED
    BY <1>7, <2>2, Calls
<1>8. CASE /\ entries >= Capacity(T[n].is_leaf)
           /\ RedistributeNodes(T, n, neighbor, index, k_prime)
  <2>1. Lacking(T, n, neighbor)
    BY <1>5, <1>8 DEF Lacking
  <2>2. CASE /\ index = 0
             /\ node' = FromRight(T, n, neighbor, 1, k_prime)
             /\ call' = NoCall
    <3>1. Passed(T, node', n, neighbor) /\ \E h, r : WholeTree(node', root, h, r)
      <4>1. CASE T[n].is_leaf
        BY <1>1, <1>6, <2>1, <2>2, <4>1, LeafFromRight
      <4>2. CASE ~T[n].is_leaf
        BY <1>1, <1>6, <2>1, <2>2, <4>2, NodeFromRight
      <4> QED
        BY <4>1, <4>2
    <3>2. Standing(node', root)
      BY <1>1, <1>2, <1>6, <2>1, <3>1, PassedStands
    <3> QED
      BY <2>2, <3>2, Calls
  <2>3. CASE /\ index # 0 /\ T[n].is_leaf
             /\ node' = FromLeft(T, n, neighbor, index)
             /\ call' = NoCall
    <3>1. Passed(T, node', n, neighbor) /\ \E h, r : WholeTree(node', root, h, r)
      BY <1>1, <1>6, <2>1, <2>3, LeafFromLeft
    <3>2. Standing(node', root)
      BY <1>1, <1>2, <1>6, <2>1, <3>1, PassedStands
    <3> QED
      BY <2>3, <3>2, Calls
  <2>4. CASE index # 0 /\ ~T[n].is_leaf /\ node' = T /\ call' = Stopped
    BY <2>4, Calls
  <2> QED
    BY <1>8, <2>2, <2>3, <2>4 DEF RedistributeNodes
<1> QED
  BY <1>4, <1>7, <1>8

(* One call of delete_entry.                                               *)
LEMMA EntryDeleted ==
  ASSUME InOrder(node, tree_root, call), CallDeleteEntry
  PROVE  InOrder(node', tree_root', call')
<1> DEFINE n == call.node
           T == RemoveEntryFromNode(n, call.key, call.descendant)
           enough == Len(T[n].keys) >= MinKeys(T[n].is_leaf)
<1>1. /\ call.fn = "delete_entry"
      /\ \/ /\ n = tree_root
            /\ AdjustRoot(T, n)
            /\ call' = NoCall
         \/ /\ n # tree_root /\ enough
            /\ node' = T /\ call' = NoCall
            /\ UNCHANGED tree_root
         \/ /\ n # tree_root /\ ~enough
            /\ FixNode(T, n)
            /\ UNCHANGED tree_root
  BY DEF CallDeleteEntry
<1>2. T = Removed(node, n, call.key, call.descendant)
  BY DEF RemoveEntryFromNode, Removed, Left, PointersWithout
<1>3. n \in DOMAIN T /\ Shaped(T, tree_root, n)
  BY <1>1, <1>2 DEF InOrder, RemovedShaped
<1> HIDE DEF n, T
<1>4. CASE n = tree_root /\ AdjustRoot(T, n) /\ call' = NoCall
  BY <1>3, <1>4, RootDeletion, Calls
<1>5. CASE /\ n # tree_root /\ enough
           /\ node' = T /\ call' = NoCall
           /\ UNCHANGED tree_root
  <2>1. PICK height, range : WholeTree(T, tree_root, height, range)
    BY <1>3 DEF Shaped
  <2>2. Filled(T[n], n = tree_root, n = n)
    BY <1>3 DEF Shaped, Occupied
  <2>3. (n = tree_root) = FALSE /\ (n = n) = TRUE
    BY <1>5
  <2>4. Filled(T[n], n = tree_root, FALSE)
    BY <1>5, <2>2, <2>3 DEF Filled
  <2>5. Standing(T, tree_root)
    BY <1>3, <2>4, NotLow
  <2> QED
    BY <1>5, <2>5, Calls
<1>6. CASE n # tree_root /\ ~enough /\ FixNode(T, n) /\ UNCHANGED tree_root
  <2>1. Len(T[n].keys) < MinKeys(T[n].is_leaf)
    <3>1. PICK height, range : WholeTree(T, tree_root, height, range)
      BY <1>3 DEF Shaped
    <3>2. T[n].is_leaf \in BOOLEAN /\ Len(T[n].keys) \in Nat
      BY <1>3, <3>1, TreeFacts DEF WholeTree, IsNode
    <3> DEFINE x == Len(T[n].keys)
               y == MinKeys(T[n].is_leaf)
    <3>3. x \in Nat /\ y \in 1 .. order - 1 /\ ~(x >= y) /\ order \in Nat
      BY <1>6, <3>2, MinKeysRange, OrderAssumption
    <3> HIDE DEF x, y
    <3>4. x < y
      BY <3>3
    <3> QED
      BY <3>4 DEF x, y
  <2> QED
    BY <1>3, <1>6, <2>1, NodeFixed
<1> QED
  BY <1>1, <1>4, <1>5, <1>6

LEMMA ShapedStands ==
  ASSUME NEW T, NEW root, Shaped(T, root, NULL)
  PROVE  root # NULL /\ Standing(T, root)
<1>1. root # NULL
  BY NullAssumption DEF Shaped, WholeTree, Tree
<1> QED
  BY <1>1 DEF Standing

(* One call of insert_into_parent.                                         *)
LEMMA ParentInserted ==
  ASSUME InOrder(node, tree_root, call), CallInsertIntoParent
  PROVE  InOrder(node', tree_root', call')
<1> DEFINE left == call.left
           key == call.key
           right == call.right
<1>1. /\ call.fn = "insert_into_parent"
      /\ \/ InsertIntoNewRoot(left, key, right)
         \/ InsertIntoNode(left, key, right)
         \/ InsertIntoNodeAfterSplitting(left, key, right)
  BY DEF CallInsertIntoParent
<1>2. SplitShaped(node, tree_root, left, key, right)
  BY <1>1 DEF InOrder
<1> HIDE DEF left, key, right
<1>3. CASE InsertIntoNewRoot(left, key, right)
  <2>1. Shaped(node', tree_root', NULL)
    BY <1>2, <1>3, RootInserted
  <2>2. call' = NoCall
    BY <1>3 DEF InsertIntoNewRoot
  <2> QED
    BY <2>1, <2>2, ShapedStands, Calls
<1>4. CASE InsertIntoNode(left, key, right)
  <2>1. Shaped(node', tree_root', NULL)
    BY <1>2, <1>4, NodeInserted
  <2>2. call' = NoCall
    BY <1>4 DEF InsertIntoNode
  <2> QED
    BY <2>1, <2>2, ShapedStands, Calls
<1>5. CASE InsertIntoNodeAfterSplitting(left, key, right)
  <2>1. /\ call'.fn = "insert_into_parent"
        /\ SplitShaped(node', tree_root', call'.left, call'.key, call'.right)
    BY <1>2, <1>5, NodeOverflow
  <2> QED
    BY <2>1 DEF InOrder
<1> QED
  BY <1>1, <1>3, <1>4, <1>5

LEMMA CommandProps ==
  ASSUME input \in Inputs, line \in Nat \ {0}, line <= Len(input.lines),
         NEW c \in input.lines[line]
  PROVE  c.key \in Int /\ (c.do = "i" => c.value \in Values)
<1>1. input.lines \in Seq(SUBSET Commands)
  BY InputsAssumption
<1>2. c \in Commands
  BY <1>1
<1>3. c.key \in Keys
  BY <1>2 DEF Keys
<1> QED
  BY <1>2, <1>3, KeysAssumption DEF Values

LEMMA RecordInserted ==
  ASSUME call = NoCall, Standing(node, tree_root), NEW key \in Int, NEW value \in Values,
         Insert(key, value)
  PROVE  InOrder(node', tree_root', call')
<1>1. CASE Find(key) # NULL
  <2>1. node' = node /\ tree_root' = tree_root /\ call' = NoCall
    BY <1>1 DEF Insert, treeVars
  <2> QED
    BY <2>1, Calls
<1>2. CASE Find(key) = NULL /\ StartNewTree(key, value)
  <2>1. DOMAIN node = {} /\ call' = NoCall
    BY <1>2 DEF Standing, StartNewTree
  <2>2. Shaped(node', tree_root', NULL)
    BY <1>2, <2>1, NewTree
  <2> QED
    BY <2>1, <2>2, ShapedStands, Calls
<1>3. CASE /\ Find(key) = NULL /\ tree_root # NULL
           /\ \/ InsertIntoLeaf(FindLeaf(key), key, value)
              \/ InsertIntoLeafAfterSplitting(FindLeaf(key), key, value)
  <2> DEFINE n == FindLeaf(key)
  <2>1. Shaped(node, tree_root, NULL)
    BY <1>3 DEF Standing
  <2>2. PICK height, range : WholeTree(node, tree_root, height, range)
    BY <2>1 DEF Shaped
  <2>3. Occupied(node, tree_root, NULL)
    BY <2>1 DEF Shaped
  <2>4. n \in Leaves /\ key \in range[n]
    BY <2>2, Searched
  <2>5. \A j \in 1 .. Len(node[n].keys) : node[n].keys[j] # key
    BY <1>3, <2>2, FindProps
  <2> HIDE DEF n
  <2>6. CASE InsertIntoLeaf(n, key, value)
    <3>1. Shaped(node', tree_root', NULL)
      BY <2>2, <2>3, <2>4, <2>5, <2>6, LeafInsertion
    <3>2. call' = NoCall
      BY <2>6 DEF InsertIntoLeaf
    <3> QED
      BY <3>1, <3>2, ShapedStands, Calls
  <2>7. CASE InsertIntoLeafAfterSplitting(n, key, value)
    <3>1. /\ call'.fn = "insert_into_parent"
          /\ SplitShaped(node', tree_root', call'.left, call'.key, call'.right)
      BY <2>2, <2>3, <2>4, <2>5, <2>7, LeafOverflow
    <3> QED
      BY <3>1 DEF InOrder
  <2> QED
    BY <1>3, <2>6, <2>7 DEF n
<1> QED
  BY <1>1, <1>2, <1>3 DEF Insert

LEMMA DeletionBegun ==
  ASSUME call = NoCall, Standing(node, tree_root), NEW key \in Int, Delete(key)
  PROVE  InOrder(node', tree_root', call')
<1> DEFINE n == FindLeaf(key)
           keys == node[n].keys
           i == PlaceOf(keys, key)
           value == Find(key)
<1>1. /\ tree_root # NULL /\ node' = node /\ tree_root' = tree_root
      /\ call' = IF value = NULL THEN NoCall ELSE DeleteEntry(n, key, value)
  BY DEF Delete
<1>2. CASE value = NULL
  BY <1>1, <1>2, Calls
<1>3. CASE value # NULL
  <2>1. Shaped(node, tree_root, NULL)
    BY <1>1 DEF Standing
  <2>2. PICK height, range : WholeTree(node, tree_root, height, range)
    BY <2>1 DEF Shaped
  <2>3. Occupied(node, tree_root, NULL)
    BY <2>1 DEF Shaped
  <2>4. n \in Leaves
    BY <2>2, Searched
  <2>5. i \in 1 .. Len(keys) /\ keys[i] = key /\ node[n].descendants[i] = value
    BY <1>3, <2>2, FindProps
  <2> HIDE DEF n, i, value
  <2>6. RemovedShaped(node, tree_root, n, key, value)
    BY <2>2, <2>3, <2>4, <2>5, LeafRemoval
  <2> QED
    BY <1>1, <1>3, <2>6, Calls
<1> QED
  BY <1>2, <1>3

LEMMA CommandExecuted ==
  ASSUME InOrder(node, tree_root, call), input \in Inputs, line \in Nat \ {0}, Command
  PROVE  /\ InOrder(node', tree_root', call')
         /\ input' \in Inputs /\ line' \in Nat \ {0}
<1>1. call = NoCall /\ line <= Len(input.lines) /\ input' = input
      /\ line' = IF input.stdin_reading THEN line ELSE line + 1
  BY DEF Command
<1>2. PICK c \in input.lines[line] : Execute(c)
  BY DEF Command
<1>3. c.key \in Int /\ (c.do = "i" => c.value \in Values)
  BY <1>1, CommandProps
<1>4. Standing(node, tree_root)
  BY <1>1 DEF InOrder, NoCall
<1>5. InOrder(node', tree_root', call')
  <2>1. CASE c.do = "i" /\ Insert(c.key, c.value)
    BY <1>1, <1>3, <1>4, <2>1, RecordInserted
  <2>2. CASE Delete(c.key)
    BY <1>1, <1>3, <1>4, <2>2, DeletionBegun
  <2>3. CASE UNCHANGED treeVars
    BY <2>3 DEF treeVars
  <2> QED
    BY <1>2, <2>1, <2>2, <2>3 DEF Execute
<1>6. line' \in Nat \ {0}
  BY <1>1
<1> QED
  BY <1>1, <1>5, <1>6

(* The inductive invariant: the tree is what the call that is due expects. *)
(* Between two calls of one operation it is no B+ tree: one node is cut in *)
(* two and its parent knows only the left half, or a node has an entry too *)
(* few.                                                                    *)
TreeInv ==
  /\ InOrder(node, tree_root, call)
  /\ input \in Inputs /\ line \in Nat \ {0}

(* No call of insert_into_parent or delete_entry finds a tree of another   *)
(* shape than the one it was written for (TreeInv), and at rest the tree   *)
(* is a B+ tree whose nodes are as full as key_value_storage.lua wants     *)
(* them.                                                                   *)
THEOREM TreeInvHolds == Spec => []TreeInv
<1>1. Init => TreeInv
  <2> SUFFICES ASSUME Init PROVE TreeInv
    OBVIOUS
  <2>1. Standing(node, tree_root)
    BY DEF Init, Standing
  <2> QED
    BY <2>1, Calls DEF Init, TreeInv
<1>2. TreeInv /\ [Next]_vars => TreeInv'
  <2> SUFFICES ASSUME TreeInv, [Next]_vars PROVE TreeInv'
    OBVIOUS
  <2>1. InOrder(node, tree_root, call) /\ input \in Inputs /\ line \in Nat \ {0}
    BY DEF TreeInv
  <2>2. CASE Command
    BY <2>1, <2>2, CommandExecuted DEF TreeInv
  <2>3. CASE CallInsertIntoParent
    <3>1. InOrder(node', tree_root', call')
      BY <2>1, <2>3, ParentInserted
    <3> QED
      BY <2>1, <2>3, <3>1 DEF TreeInv, CallInsertIntoParent
  <2>4. CASE CallDeleteEntry
    <3>1. InOrder(node', tree_root', call')
      BY <2>1, <2>4, EntryDeleted
    <3> QED
      BY <2>1, <2>4, <3>1 DEF TreeInv, CallDeleteEntry
  <2>5. CASE UNCHANGED vars
    BY <2>1, <2>5 DEF TreeInv, vars
  <2> QED
    BY <2>2, <2>3, <2>4, <2>5 DEF Next
<1> QED
  BY <1>1, <1>2, PTL DEF Spec

(* What the invariant says of a state between two commands.                *)
LEMMA TreeAtRest ==
  ASSUME TreeInv, AtRest, tree_root # NULL
  PROVE  \E height, range : /\ WholeTree(node, tree_root, height, range)
                            /\ Occupied(node, tree_root, NULL)
BY DEF TreeInv, AtRest, InOrder, Standing, Shaped

(* Every key leads to the leaf that holds its record (EveryKeyIsFound), in *)
(* a tree of any size, after any commands.                                 *)
THEOREM EveryKeyIsFoundHolds == Spec => []EveryKeyIsFound
<1>1. TreeInv => EveryKeyIsFound
  <2> SUFFICES ASSUME TreeInv, AtRest, tree_root # NULL,
                      NEW n \in Leaves, NEW k \in Keys, k \in ToSet(node[n].keys)
               PROVE  FindLeaf(k) = n
    BY DEF EveryKeyIsFound
  <2>1. PICK height, range : WholeTree(node, tree_root, height, range)
    BY TreeAtRest
  <2>2. /\ n \in DOMAIN node /\ node[n].keys \in Seq(Int)
        /\ \A i \in 1 .. Len(node[n].keys) : node[n].keys[i] \in range[n]
    BY <2>1, TreeFacts DEF WholeTree, IsNode, Leaves
  <2>3. k \in range[n]
    BY <2>2 DEF ToSet
  <2> QED
    BY <2>1, <2>3, KeysAssumption, Searched
<1> QED
  BY <1>1, TreeInvHolds, PTL

(* The pointers up and down agree (ParentsAgree).                          *)
THEOREM ParentsAgreeHolds == Spec => []ParentsAgree
<1>1. TreeInv => ParentsAgree
  <2> SUFFICES ASSUME TreeInv, AtRest, tree_root # NULL
               PROVE  /\ node[tree_root].parent = NULL
                      /\ \A n \in Inner, i \in 1 .. order :
                           i \in DOMAIN node[n].descendants =>
                             node[node[n].descendants[i]].parent = n
    BY DEF ParentsAgree
  <2>1. PICK height, range : WholeTree(node, tree_root, height, range)
    BY TreeAtRest
  <2>2. ASSUME NEW n \in Inner, NEW i \in DOMAIN node[n].descendants
        PROVE  node[node[n].descendants[i]].parent = n
    <3>1. /\ n \in DOMAIN node /\ ~node[n].is_leaf /\ IsNode(node[n])
          /\ \A j \in 1 .. Len(node[n].keys) + 1 : Link(node, height, range, range, n, j)
      BY <2>1, TreeFacts DEF WholeTree, Inner
    <3>2. i \in 1 .. Len(node[n].keys) + 1
      BY <3>1 DEF IsNode
    <3> QED
      BY <3>1, <3>2 DEF Link
  <2> QED
    BY <2>1, <2>2 DEF WholeTree, Tree
<1> QED
  BY <1>1, TreeInvHolds, PTL

(* The height that the tree has.                                           *)
LEMMA HeightIsDefined ==
  ASSUME NEW height, NEW range, WholeTree(node, tree_root, height, range),
         NEW h, h = CHOOSE g : g = [n \in DOMAIN node |->
                                      IF node[n].is_leaf THEN 0
                                      ELSE 1 + g[node[n].descendants[1]]]
  PROVE  \A n \in DOMAIN node : h[n] = height[n]
<1> DEFINE H == height[tree_root]
           S == {k \in 0 .. H : \A m \in DOMAIN node : height[m] = k => h[m] = k}
<1>1. H \in Nat /\ \A m \in DOMAIN node : height[m] \in Nat /\ height[m] <= H
      /\ (node[m].is_leaf <=> height[m] = 0)
  BY HeightFacts
<1>2. ASSUME NEW m \in DOMAIN node, ~node[m].is_leaf
      PROVE  /\ node[m].descendants[1] \in DOMAIN node
             /\ height[m] = height[node[m].descendants[1]] + 1
  <2>1. /\ IsNode(node[m])
        /\ \A j \in 1 .. Len(node[m].keys) + 1 : Link(node, height, range, range, m, j)
    BY <1>2, TreeFacts DEF WholeTree
  <2>2. 1 \in 1 .. Len(node[m].keys) + 1
    BY <2>1 DEF IsNode
  <2> QED
    BY <2>1, <2>2 DEF Link
<1> HIDE DEF H
<1>3. \E g : g = [n \in DOMAIN node |->
                    IF node[n].is_leaf THEN 0 ELSE 1 + g[node[n].descendants[1]]]
  <2> DEFINE g == [n \in DOMAIN node |-> height[n]]
             e == [n \in DOMAIN node |->
                     IF node[n].is_leaf THEN 0 ELSE 1 + g[node[n].descendants[1]]]
  <2>1. ASSUME NEW n \in DOMAIN node PROVE g[n] = e[n]
    <3>1. CASE node[n].is_leaf
      BY <1>1, <3>1
    <3>2. CASE ~node[n].is_leaf
      BY <1>1, <1>2, <3>2
    <3> QED
      BY <3>1, <3>2
  <2>2. g = e
    BY <2>1
  <2> QED
    BY <2>2
<1>4. h = [n \in DOMAIN node |->
             IF node[n].is_leaf THEN 0 ELSE 1 + h[node[n].descendants[1]]]
  BY <1>3
<1>5. \A n \in DOMAIN node :
        h[n] = IF node[n].is_leaf THEN 0 ELSE 1 + h[node[n].descendants[1]]
  BY <1>4
<1>6. 0 \in S
  BY <1>1, <1>5
<1>7. ASSUME NEW k \in 0 .. H - 1, k \in S PROVE k + 1 \in S
  <2> DEFINE q == k + 1
  <2>1. k \in Nat /\ q \in 0 .. H /\ q # 0 /\ q = k + 1
    BY <1>1
  <2> HIDE DEF q
  <2>2. ASSUME NEW m \in DOMAIN node, height[m] = q PROVE h[m] = q
    <3> DEFINE d == node[m].descendants[1]
    <3>1. ~node[m].is_leaf
      BY <1>1, <2>1, <2>2
    <3>2. d \in DOMAIN node /\ height[m] = height[d] + 1 /\ h[m] = 1 + h[d]
      BY <1>2, <1>5, <3>1
    <3> HIDE DEF d
    <3>3. height[d] = k
      BY <1>1, <2>1, <2>2, <3>2
    <3>4. h[d] = k
      BY <1>7, <3>2, <3>3
    <3> QED
      BY <2>1, <3>2, <3>4
  <2> QED
    BY <2>1, <2>2
<1>8. 0 .. H \subseteq S
  <2> HIDE DEF S
  <2> QED
    BY <1>1, <1>6, <1>7, CountingUp
<1>9. ASSUME NEW n \in DOMAIN node PROVE h[n] = height[n]
  <2>1. height[n] \in 0 .. H
    BY <1>1
  <2> QED
    BY <1>8, <2>1
<1> QED
  BY <1>9

(* No node has too many keys, none but the root too few, and the leaves    *)
(* are equally deep (Balanced).                                            *)
THEOREM BalancedHolds == Spec => []Balanced
<1>1. TreeInv => Balanced
  <2> DEFINE h == CHOOSE g : g = [n \in DOMAIN node |->
                                    IF node[n].is_leaf THEN 0
                                    ELSE 1 + g[node[n].descendants[1]]]
  <2> SUFFICES ASSUME TreeInv, AtRest, tree_root # NULL, NEW n \in DOMAIN node
               PROVE  /\ Len(node[n].keys) <= order - 1
                      /\ n \in Leaves \ {tree_root} => 2 * Len(node[n].keys) >= order - 1
                      /\ n \in Inner \ {tree_root} => 2 * Len(node[n].descendants) >= order
                      /\ n \in Inner => \A d \in ToSet(node[n].descendants) : h[d] = h[n] - 1
                      /\ node[n].keys # <<>>
    BY DEF Balanced
  <2>1. PICK height, range : /\ WholeTree(node, tree_root, height, range)
                             /\ Occupied(node, tree_root, NULL)
    BY TreeAtRest
  <2> DEFINE t == node[n]
             k == Len(t.keys)
  <2>2. /\ IsNode(t) /\ n \in Nat
        /\ ~t.is_leaf => \A j \in 1 .. k + 1 : Link(node, height, range, range, n, j)
    BY <2>1, TreeFacts DEF WholeTree
  <2>3. t.is_leaf \in BOOLEAN /\ k \in Nat /\ (n = tree_root) \in BOOLEAN
    BY <2>2 DEF IsNode
  <2>4. Filled(t, n = tree_root, FALSE)
    <3>1. (n = NULL) = FALSE
      BY <2>2, NullAssumption
    <3>2. Filled(t, n = tree_root, n = NULL)
      BY <2>1 DEF Occupied
    <3> QED
      BY <3>1, <3>2
  <2>5. k <= order - 1 /\ (n # tree_root => k >= MinKeys(t.is_leaf))
    BY <2>4 DEF Filled
  <2>6. k >= 1
    BY <2>3, <2>4, FillingProps
  <2>7. \A m \in DOMAIN node : h[m] = height[m]
    BY <2>1, HeightIsDefined
  <2> HIDE DEF h
  <2>8. ASSUME n \in Inner, NEW d \in ToSet(t.descendants) PROVE h[d] = h[n] - 1
    <3>1. ~t.is_leaf
      BY <2>8 DEF Inner
    <3>2. PICK j \in 1 .. k + 1 : d = t.descendants[j]
      BY <2>2, <2>8, <3>1 DEF IsNode, ToSet
    <3>3. d \in DOMAIN node /\ height[n] = height[d] + 1
      BY <2>2, <3>1, <3>2 DEF Link
    <3>4. height[d] \in Nat
      BY <2>1, <3>3, HeightFacts
    <3> QED
      BY <2>7, <3>3, <3>4
  <2>9. ASSUME n \in Leaves \ {tree_root} PROVE 2 * k >= order - 1
    <3> DEFINE least == MinKeys(TRUE)
    <3>1. k >= least
      BY <2>3, <2>5, <2>9 DEF Leaves
    <3>2. least \in Nat /\ order \in Nat /\ order - 1 <= 2 * least
      BY MinKeysProps
    <3> HIDE DEF k, least
    <3> QED
      BY <2>3, <3>1, <3>2
  <2>10. ASSUME n \in Inner \ {tree_root} PROVE 2 * Len(t.descendants) >= order
    <3> DEFINE least == MinKeys(FALSE)
    <3>1. k >= least /\ Len(t.descendants) = k + 1
      BY <2>2, <2>3, <2>5, <2>10 DEF Inner, IsNode
    <3>2. least \in Nat /\ order \in Nat /\ order - 2 <= 2 * least
      BY MinKeysProps
    <3> HIDE DEF k, least
    <3>3. 2 * (k + 1) >= order
      BY <2>3, <3>1, <3>2
    <3> QED
      BY <3>1, <3>3
  <2>11. t.keys # <<>>
    BY <2>6
  <2> QED
    BY <2>5, <2>8, <2>9, <2>10, <2>11
<1> QED
  BY <1>1, TreeInvHolds, PTL

(* A walk along next_leaf from the leftmost leaf meets every leaf once, in *)
(* the order of the tree, and their keys in ascending order                *)
(* (LeavesAreChained), in a tree of any size, after any commands.          *)
THEOREM LeavesAreChainedHolds == Spec => []LeavesAreChained
<1>1. TreeInv => LeavesAreChained
  <2> SUFFICES ASSUME TreeInv, AtRest, tree_root # NULL
               PROVE  /\ Chain = LeavesBelow[tree_root] /\ ToSet(Chain) = Leaves
                      /\ LET keys == FlattenSeq([i \in DOMAIN Chain |-> node[Chain[i]].keys])
                         IN \A i \in 1 .. Len(keys) - 1 : keys[i] < keys[i + 1]
    BY DEF LeavesAreChained
  <2>1. PICK height, range : WholeTree(node, tree_root, height, range)
    BY TreeAtRest
  <2>2. Chain = LeavesBelow[tree_root] /\ AllLeaves(node, range, Chain)
    BY <2>1, ChainIs
  <2>3. ToSet(Chain) = Leaves
    BY <2>2 DEF AllLeaves, LeavesOf, Leaves
  <2>4. LET keys == FlattenSeq([i \in DOMAIN Chain |-> node[Chain[i]].keys])
        IN \A i \in 1 .. Len(keys) - 1 : keys[i] < keys[i + 1]
    BY <2>1, <2>2, KeysAscend
  <2> QED
    BY <2>2, <2>3, <2>4
<1> QED
  BY <1>1, TreeInvHolds, PTL

-----------------------------------------------------------------------------
(* The records.  What is said of them needs no order: the leaves of T hold *)
(* the records of S and no others, and one record may be held twice.       *)
At(s, d, k, v) == \E j \in 1 .. Len(s) : s[j] = k /\ d[j] = v

Has(t, k, v) == t.is_leaf /\ At(t.keys, t.descendants, k, v)

Holds(T, k, v) == \E n \in DOMAIN T : Has(T[n], k, v)

Represents(T, S) == \A k, v : Holds(T, k, v) <=> k \in DOMAIN S /\ v = S[k]

IsLeaf(t) ==
  /\ t.keys \in Seq(Int) /\ t.descendants \in Seq(Values)
  /\ Len(t.descendants) = Len(t.keys)

LeavesAreLeaves(T) == \A n \in DOMAIN T : T[n].is_leaf => IsLeaf(T[n])

RecordsOf(T) ==
  [k \in UNION {ToSet(T[n].keys) : n \in {m \in DOMAIN T : T[m].is_leaf}} |->
     LET leaf == T[CHOOSE n \in {m \in DOMAIN T : T[m].is_leaf} : k \in ToSet(T[n].keys)]
     IN leaf.descendants[PlaceOf(leaf.keys, k)]]

LEMMA RecordsAre ==
  ASSUME NEW T, NEW S, LeavesAreLeaves(T), Represents(T, S), S = [k \in DOMAIN S |-> S[k]]
  PROVE  RecordsOf(T) = S
<1> DEFINE L == {m \in DOMAIN T : T[m].is_leaf}
           K == UNION {ToSet(T[n].keys) : n \in L}
           leaf(k) == T[CHOOSE n \in L : k \in ToSet(T[n].keys)]
<1>1. \A n \in L : /\ T[n].keys \in Seq(Int) /\ Len(T[n].descendants) = Len(T[n].keys)
                   /\ T[n].is_leaf /\ n \in DOMAIN T
  BY DEF LeavesAreLeaves, IsLeaf
<1>2. \A n \in L : \A k : k \in ToSet(T[n].keys) <=> \E j \in 1 .. Len(T[n].keys) : T[n].keys[j] = k
  BY <1>1 DEF ToSet
<1> HIDE DEF L
<1>3. ASSUME NEW k \in K
      PROVE  k \in DOMAIN S /\ leaf(k).descendants[PlaceOf(leaf(k).keys, k)] = S[k]
  <2> DEFINE n == CHOOSE n \in L : k \in ToSet(T[n].keys)
             j == PlaceOf(T[n].keys, k)
  <2>1. n \in L /\ k \in ToSet(T[n].keys)
    BY <1>3
  <2> HIDE DEF n
  <2>2. j \in 1 .. Len(T[n].keys) /\ T[n].keys[j] = k
    <3> DEFINE s == T[n].keys
    <3>1. PICK q \in 1 .. Len(s) : s[q] = k
      BY <1>2, <2>1
    <3>2. s \in Seq(Int) /\ Len(s) \in Nat
      BY <1>1, <2>1
    <3> HIDE DEF s
    <3>3. /\ PlaceOf(s, k) \in 1 .. Len(s) + 1
          /\ \A p \in 1 .. Len(s) : p < PlaceOf(s, k) => s[p] # k
          /\ PlaceOf(s, k) <= Len(s) => s[PlaceOf(s, k)] = k
      BY <3>2, PlaceOfProps
    <3>4. PlaceOf(s, k) <= Len(s)
      BY <3>1, <3>2, <3>3
    <3> QED
      BY <3>2, <3>3, <3>4 DEF s
  <2>3. Has(T[n], k, T[n].descendants[j])
    BY <1>1, <2>1, <2>2 DEF Has, At
  <2>4. Holds(T, k, T[n].descendants[j])
    BY <1>1, <2>1, <2>3 DEF Holds
  <2>5. k \in DOMAIN S /\ T[n].descendants[j] = S[k]
    BY <2>4 DEF Represents
  <2> QED
    BY <2>5 DEF n
<1>4. ASSUME NEW k \in DOMAIN S PROVE k \in K
  <2>1. Holds(T, k, S[k])
    BY DEF Represents
  <2>2. PICK n \in DOMAIN T : Has(T[n], k, S[k])
    BY <2>1 DEF Holds
  <2>3. n \in L
    BY <2>2 DEF Has, L
  <2>4. k \in ToSet(T[n].keys)
    BY <1>2, <2>2, <2>3 DEF Has, At
  <2> QED
    BY <2>3, <2>4
<1>5. K = DOMAIN S
  <2> HIDE DEF K
  <2>1. \A k : k \in K => k \in DOMAIN S
    BY <1>3
  <2> QED
    BY <1>4, <2>1
<1>6. RecordsOf(T) = [k \in K |-> leaf(k).descendants[PlaceOf(leaf(k).keys, k)]]
  BY DEF RecordsOf, L
<1> QED
  <2> HIDE DEF K, leaf
  <2> QED
    BY <1>3, <1>5, <1>6

(* The leaves are the same, whatever happens to the other nodes.           *)
LeavesSame(T, U) ==
  /\ \A m \in DOMAIN T : T[m].is_leaf => m \in DOMAIN U
  /\ \A m \in DOMAIN U :
       U[m].is_leaf => m \in DOMAIN T /\ T[m].is_leaf
  /\ \A m \in DOMAIN T \cap DOMAIN U :
       T[m].is_leaf => /\ U[m].is_leaf = T[m].is_leaf /\ U[m].keys = T[m].keys
                       /\ U[m].descendants = T[m].descendants

LEMMA SameRecords ==
  ASSUME NEW T, NEW U, LeavesSame(T, U)
  PROVE  /\ \A k, v : Holds(U, k, v) <=> Holds(T, k, v)
         /\ LeavesAreLeaves(T) => LeavesAreLeaves(U)
<1>1. ASSUME NEW k, NEW v, Holds(U, k, v) PROVE Holds(T, k, v)
  <2>1. PICK n \in DOMAIN U : Has(U[n], k, v)
    BY <1>1 DEF Holds
  <2>2. n \in DOMAIN T /\ T[n].is_leaf
    BY <2>1 DEF LeavesSame, Has
  <2>3. T[n].keys = U[n].keys /\ T[n].descendants = U[n].descendants
    BY <2>1, <2>2 DEF LeavesSame
  <2>4. Has(T[n], k, v)
    BY <2>1, <2>2, <2>3 DEF Has
  <2> QED
    BY <2>2, <2>4 DEF Holds
<1>2. ASSUME NEW k, NEW v, Holds(T, k, v) PROVE Holds(U, k, v)
  <2>1. PICK n \in DOMAIN T : Has(T[n], k, v)
    BY <1>2 DEF Holds
  <2>2. n \in DOMAIN U /\ T[n].is_leaf
    BY <2>1 DEF LeavesSame, Has
  <2>3. U[n].keys = T[n].keys /\ U[n].descendants = T[n].descendants /\ U[n].is_leaf
    BY <2>1, <2>2 DEF LeavesSame
  <2>4. Has(U[n], k, v)
    BY <2>1, <2>2, <2>3 DEF Has
  <2> QED
    BY <2>2, <2>4 DEF Holds
<1>3. LeavesAreLeaves(T) => LeavesAreLeaves(U)
  <2> SUFFICES ASSUME LeavesAreLeaves(T), NEW n \in DOMAIN U, U[n].is_leaf
               PROVE  IsLeaf(U[n])
    BY DEF LeavesAreLeaves
  <2>1. n \in DOMAIN T /\ T[n].is_leaf
    BY DEF LeavesSame
  <2>2. T[n].keys = U[n].keys /\ T[n].descendants = U[n].descendants
    BY <2>1 DEF LeavesSame
  <2> QED
    BY <2>1, <2>2 DEF LeavesAreLeaves, IsLeaf
<1> QED
  BY <1>1, <1>2, <1>3

LEMMA AtConcat ==
  ASSUME NEW a \in Seq(Int), NEW b \in Seq(Int), NEW S, NEW c \in Seq(S), NEW d \in Seq(S),
         Len(c) = Len(a), Len(d) = Len(b), NEW x, NEW y
  PROVE  At(a \o b, c \o d, x, y) <=> At(a, c, x, y) \/ At(b, d, x, y)
<1> DEFINE k == a \o b
           e == c \o d
           m == Len(a)
           n == Len(b)
<1>1. /\ Len(k) = m + n /\ m \in Nat /\ n \in Nat
      /\ \A j \in 1 .. m + n : k[j] = IF j <= m THEN a[j] ELSE b[j - m]
  BY ConcatProps
<1>2. \A j \in 1 .. m + n : e[j] = IF j <= m THEN c[j] ELSE d[j - m]
  <2>1. \A j \in 1 .. Len(c) + Len(d) : e[j] = IF j <= Len(c) THEN c[j] ELSE d[j - Len(c)]
    BY ConcatProps
  <2> QED
    BY <2>1
<1> HIDE DEF k, e, m, n
<1>3. ASSUME NEW j \in 1 .. m + n, k[j] = x, e[j] = y
      PROVE  \/ \E q \in 1 .. m : a[q] = x /\ c[q] = y
             \/ \E q \in 1 .. n : b[q] = x /\ d[q] = y
  <2>1. CASE j <= m
    <3>1. j \in 1 .. m /\ a[j] = x /\ c[j] = y
      BY <1>1, <1>2, <1>3, <2>1
    <3> QED
      BY <3>1
  <2>2. CASE ~(j <= m)
    <3>1. j - m \in 1 .. n
      BY <1>1, <2>2
    <3>2. b[j - m] = x /\ d[j - m] = y
      BY <1>1, <1>2, <1>3, <2>2
    <3> QED
      BY <3>1, <3>2
  <2> QED
    BY <2>1, <2>2
<1>4. ASSUME NEW q \in 1 .. m, a[q] = x, c[q] = y
      PROVE  \E j \in 1 .. m + n : k[j] = x /\ e[j] = y
  <2>1. q \in 1 .. m + n /\ q <= m
    BY <1>1
  <2>2. k[q] = x /\ e[q] = y
    BY <1>1, <1>2, <1>4, <2>1
  <2> QED
    BY <2>1, <2>2
<1>5. ASSUME NEW q \in 1 .. n, b[q] = x, d[q] = y
      PROVE  \E j \in 1 .. m + n : k[j] = x /\ e[j] = y
  <2> DEFINE j == m + q
  <2>1. j \in 1 .. m + n /\ ~(j <= m) /\ j - m = q
    BY <1>1
  <2> HIDE DEF j
  <2>2. k[j] = x /\ e[j] = y
    BY <1>1, <1>2, <1>5, <2>1
  <2> QED
    BY <2>1, <2>2
<1>6. (\E j \in 1 .. m + n : k[j] = x /\ e[j] = y)
        <=> \/ \E q \in 1 .. m : a[q] = x /\ c[q] = y
            \/ \E q \in 1 .. n : b[q] = x /\ d[q] = y
  BY <1>3, <1>4, <1>5
<1> QED
  BY <1>1, <1>6 DEF At, k, e, m, n

LEMMA AtParts ==
  ASSUME NEW s \in Seq(Int), NEW S, NEW d \in Seq(S), Len(d) = Len(s),
         NEW c \in 0 .. Len(s), NEW x, NEW y
  PROVE  At(s, d, x, y) <=>
           \/ At(SubSeq(s, 1, c), SubSeq(d, 1, c), x, y)
           \/ At(SubSeq(s, c + 1, Len(s)), SubSeq(d, c + 1, Len(s)), x, y)
<1> DEFINE n == Len(s)
           a == SubSeq(s, 1, c)
           b == SubSeq(s, c + 1, n)
           e == SubSeq(d, 1, c)
           f == SubSeq(d, c + 1, n)
<1>1. n \in Nat /\ c \in Nat /\ c <= n /\ Len(d) = n
  OBVIOUS
<1>2. /\ Len(a) = c /\ \A j \in 1 .. c : a[j] = s[j]
      /\ Len(b) = n - c /\ \A j \in 1 .. n - c : b[j] = s[c + j]
  BY FirstPart, LastPart
<1>3. (\A j \in 1 .. c : e[j] = d[j]) /\ \A j \in 1 .. n - c : f[j] = d[c + j]
  <2>1. c \in 0 .. Len(d)
    BY <1>1
  <2>2. \A j \in 1 .. c : e[j] = d[j]
    BY <2>1, FirstPart
  <2>3. \A j \in 1 .. Len(d) - c : SubSeq(d, c + 1, Len(d))[j] = d[c + j]
    BY <2>1, LastPart
  <2> QED
    BY <2>2, <2>3
<1> HIDE DEF a, b, e, f, n
<1>4. ASSUME NEW j \in 1 .. n, s[j] = x, d[j] = y
      PROVE  \/ \E q \in 1 .. c : a[q] = x /\ e[q] = y
             \/ \E q \in 1 .. n - c : b[q] = x /\ f[q] = y
  <2>1. CASE j <= c
    <3>1. j \in 1 .. c
      BY <1>1, <2>1
    <3> QED
      BY <1>2, <1>3, <1>4, <3>1
  <2>2. CASE ~(j <= c)
    <3> DEFINE q == j - c
    <3>1. q \in 1 .. n - c /\ c + q = j
      BY <1>1, <2>2
    <3> HIDE DEF q
    <3> QED
      BY <1>2, <1>3, <1>4, <3>1
  <2> QED
    BY <2>1, <2>2
<1>5. ASSUME NEW q \in 1 .. c, a[q] = x, e[q] = y
      PROVE  \E j \in 1 .. n : s[j] = x /\ d[j] = y
  <2>1. q \in 1 .. n
    BY <1>1
  <2> QED
    BY <1>2, <1>3, <1>5, <2>1
<1>6. ASSUME NEW q \in 1 .. n - c, b[q] = x, f[q] = y
      PROVE  \E j \in 1 .. n : s[j] = x /\ d[j] = y
  <2> DEFINE j == c + q
  <2>1. j \in 1 .. n
    BY <1>1
  <2>2. s[j] = x /\ d[j] = y
    BY <1>2, <1>3, <1>6
  <2> HIDE DEF j
  <2> QED
    BY <2>1, <2>2
<1> QED
  BY <1>2, <1>4, <1>5, <1>6 DEF At, n, a, b, e, f

LEMMA AtInserted ==
  ASSUME NEW s, NEW d, NEW i, NEW k, NEW v, NEW S, NEW t, NEW u,
         Inserted(Int, s, i, k, t), Inserted(S, d, i, v, u), Len(d) = Len(s), NEW x, NEW y
  PROVE  At(t, u, x, y) <=> At(s, d, x, y) \/ (x = k /\ y = v)
<1> DEFINE n == Len(s)
<1>1. n \in Nat /\ i \in 1 .. n + 1 /\ Len(t) = n + 1
  BY DEF Inserted
<1>2. \A j \in 1 .. n + 1 : t[j] = IF j < i THEN s[j] ELSE IF j = i THEN k ELSE s[j - 1]
  BY DEF Inserted
<1>3. \A j \in 1 .. n + 1 : u[j] = IF j < i THEN d[j] ELSE IF j = i THEN v ELSE d[j - 1]
  BY DEF Inserted
<1> HIDE DEF n
<1>4. ASSUME NEW j \in 1 .. n + 1, t[j] = x, u[j] = y
      PROVE  (\E q \in 1 .. n : s[q] = x /\ d[q] = y) \/ (x = k /\ y = v)
  <2>1. CASE j < i
    <3>1. j \in 1 .. n /\ s[j] = x /\ d[j] = y
      BY <1>1, <1>2, <1>3, <1>4, <2>1
    <3> QED
      BY <3>1
  <2>2. CASE j = i
    BY <1>1, <1>2, <1>3, <1>4, <2>2
  <2>3. CASE i < j
    <3> DEFINE q == j - 1
    <3>1. q \in 1 .. n /\ ~(j < i) /\ j # i
      BY <1>1, <2>3
    <3>2. s[q] = x /\ d[q] = y
      BY <1>2, <1>3, <1>4, <3>1
    <3> HIDE DEF q
    <3> QED
      BY <3>1, <3>2
  <2> QED
    BY <1>1, <2>1, <2>2, <2>3
<1>5. ASSUME NEW q \in 1 .. n, s[q] = x, d[q] = y
      PROVE  \E j \in 1 .. n + 1 : t[j] = x /\ u[j] = y
  <2>1. CASE q < i
    <3>1. q \in 1 .. n + 1
      BY <1>1
    <3> QED
      BY <1>2, <1>3, <1>5, <2>1, <3>1
  <2>2. CASE ~(q < i)
    <3> DEFINE j == q + 1
    <3>1. j \in 1 .. n + 1 /\ ~(j < i) /\ j # i /\ j - 1 = q
      BY <1>1, <2>2
    <3> HIDE DEF j
    <3> QED
      BY <1>2, <1>3, <1>5, <3>1
  <2> QED
    BY <2>1, <2>2
<1>6. t[i] = k /\ u[i] = v /\ i \in 1 .. n + 1
  BY <1>1, <1>2, <1>3
<1> QED
  BY <1>1, <1>4, <1>5, <1>6 DEF At, n

(* A record more.                                                          *)
OneMoreRecord(T, U, key, value) ==
  \A k, v : Holds(U, k, v) <=> Holds(T, k, v) \/ (k = key /\ v = value)

WithRecord(S, key, value) ==
  [k \in DOMAIN S \cup {key} |-> IF k = key THEN value ELSE S[k]]

LEMMA RecordAdded ==
  ASSUME NEW T, NEW U, NEW S, Represents(T, S), NEW key, key \notin DOMAIN S, NEW value,
         OneMoreRecord(T, U, key, value)
  PROVE  Represents(U, WithRecord(S, key, value))
<1> DEFINE R == WithRecord(S, key, value)
<1>1. /\ DOMAIN R = DOMAIN S \cup {key} /\ R[key] = value
      /\ \A k \in DOMAIN S : R[k] = S[k]
  BY DEF WithRecord
<1> HIDE DEF R
<1>2. ASSUME NEW k, NEW v
      PROVE  Holds(U, k, v) <=> k \in DOMAIN R /\ v = R[k]
  <2>1. Holds(T, k, v) <=> k \in DOMAIN S /\ v = S[k]
    BY DEF Represents
  <2>2. Holds(U, k, v) <=> Holds(T, k, v) \/ (k = key /\ v = value)
    BY DEF OneMoreRecord
  <2>3. CASE k = key
    BY <1>1, <2>1, <2>2, <2>3
  <2>4. CASE k # key
    BY <1>1, <2>1, <2>2, <2>4
  <2> QED
    BY <2>3, <2>4
<1> QED
  BY <1>2 DEF Represents, R

LEMMA LeafEntered ==
  ASSUME NEW t, IsNode(t), t.is_leaf, NEW key \in Int, NEW value \in Values,
         NEW u, u = WithEntry(t, key, value)
  PROVE  /\ DOMAIN u = NodeFields /\ u.is_leaf /\ IsLeaf(u)
         /\ Len(t.keys) \in Nat /\ Len(u.keys) = Len(t.keys) + 1
         /\ \A k, v : At(u.keys, u.descendants, k, v) <=>
                        At(t.keys, t.descendants, k, v) \/ (k = key /\ v = value)
<1> DEFINE s == t.keys
           pos == InsertionPoint(s, key)
           a == InsertAt(s, pos, key)
           d == InsertAt(t.descendants, pos, value)
<1>1. /\ DOMAIN t = NodeFields /\ s \in Seq(Int)
      /\ t.descendants \in Seq(Values) /\ Len(t.descendants) = Len(s)
  BY DEF IsNode
<1>2. /\ DOMAIN u = NodeFields /\ u.is_leaf = t.is_leaf
      /\ u.keys = a /\ u.descendants = d
  BY <1>1 DEF NodeFields, WithEntry
<1> HIDE DEF s
<1>3. pos \in 1 .. Len(s) + 1
  BY <1>1, InsertionPointProps
<1> HIDE DEF pos
<1>4. Inserted(Int, s, pos, key, a)
  BY <1>1, <1>3, Inserts
<1>5. Inserted(Values, t.descendants, pos, value, d)
  BY <1>1, <1>3, Inserts
<1> HIDE DEF a, d
<1>6. \A k, v : At(a, d, k, v) <=> At(s, t.descendants, k, v) \/ (k = key /\ v = value)
  BY <1>1, <1>4, <1>5, AtInserted
<1>7. /\ a \in Seq(Int) /\ Len(a) = Len(s) + 1 /\ Len(s) \in Nat
      /\ d \in Seq(Values) /\ Len(d) = Len(t.descendants) + 1
  BY <1>4, <1>5 DEF Inserted
<1> QED
  BY <1>1, <1>2, <1>6, <1>7 DEF IsLeaf, s

(* A leaf of T is replaced by one leaf or two.                             *)
LEMMA LeafReplaced ==
  ASSUME NEW T, NEW U, NEW n \in DOMAIN T, NEW N, N \notin DOMAIN T \ {n}, T[n].is_leaf,
         DOMAIN U = DOMAIN T \cup {N}, \A m \in DOMAIN T \ {n} : U[m] = T[m],
         U[n].is_leaf, U[N].is_leaf, NEW key, NEW value,
         \A k, v : Has(U[n], k, v) \/ Has(U[N], k, v) <=>
                     Has(T[n], k, v) \/ (k = key /\ v = value),
         LeavesAreLeaves(T), IsLeaf(U[n]), IsLeaf(U[N])
  PROVE  OneMoreRecord(T, U, key, value) /\ LeavesAreLeaves(U)
<1>1. ASSUME NEW k, NEW v, Holds(U, k, v)
      PROVE  Holds(T, k, v) \/ (k = key /\ v = value)
  <2>1. PICK m \in DOMAIN U : Has(U[m], k, v)
    BY <1>1 DEF Holds
  <2>2. CASE m = n \/ m = N
    <3>1. Has(T[n], k, v) \/ (k = key /\ v = value)
      BY <2>1, <2>2
    <3> QED
      BY <3>1 DEF Holds
  <2>3. CASE m # n /\ m # N
    <3>1. m \in DOMAIN T /\ Has(T[m], k, v)
      BY <2>1, <2>3
    <3> QED
      BY <3>1 DEF Holds
  <2> QED
    BY <2>2, <2>3
<1>2. ASSUME NEW k, NEW v, Holds(T, k, v) \/ (k = key /\ v = value)
      PROVE  Holds(U, k, v)
  <2>1. CASE Has(T[n], k, v) \/ (k = key /\ v = value)
    <3>1. Has(U[n], k, v) \/ Has(U[N], k, v)
      BY <2>1
    <3> QED
      BY <3>1 DEF Holds
  <2>2. CASE \E m \in DOMAIN T \ {n} : Has(T[m], k, v)
    <3>1. PICK m \in DOMAIN T \ {n} : Has(T[m], k, v)
      BY <2>2
    <3>2. m \in DOMAIN U /\ Has(U[m], k, v)
      BY <3>1
    <3> QED
      BY <3>2 DEF Holds
  <2> QED
    BY <1>2, <2>1, <2>2 DEF Holds
<1>3. LeavesAreLeaves(U)
  BY DEF LeavesAreLeaves
<1> QED
  BY <1>1, <1>2, <1>3 DEF OneMoreRecord

LEMMA TreeLeaves ==
  ASSUME NEW T, NEW root, NEW height, NEW range, NEW cover, NEW loose,
         Tree(T, root, height, range, cover, loose)
  PROVE  LeavesAreLeaves(T)
<1>1. \A m \in DOMAIN T : IsNode(T[m])
  BY TreeFacts
<1> QED
  BY <1>1 DEF LeavesAreLeaves, IsLeaf, IsNode

LEMMA LeafInsertionAdds ==
  ASSUME NEW height, NEW range, WholeTree(node, tree_root, height, range),
         NEW n \in Leaves, NEW key \in Int, NEW value \in Values,
         InsertIntoLeaf(n, key, value)
  PROVE  OneMoreRecord(node, node', key, value) /\ LeavesAreLeaves(node')
<1> DEFINE t == node[n]
           u == WithEntry(t, key, value)
           U == node'
           T == node
<1>1. n \in DOMAIN T /\ t.is_leaf /\ IsNode(t)
  BY TreeFacts DEF Leaves, WholeTree
<1>2. DOMAIN U = DOMAIN T /\ U[n] = u /\ \A m \in DOMAIN T \ {n} : U[m] = T[m]
  BY <1>1 DEF InsertIntoLeaf
<1> HIDE DEF t
<1>3. /\ u.is_leaf /\ IsLeaf(u)
      /\ \A k, v : At(u.keys, u.descendants, k, v) <=>
                     At(t.keys, t.descendants, k, v) \/ (k = key /\ v = value)
  BY <1>1, LeafEntered
<1> HIDE DEF u
<1>4. \A k, v : Has(u, k, v) <=> Has(t, k, v) \/ (k = key /\ v = value)
  BY <1>1, <1>3 DEF Has
<1>5. LeavesAreLeaves(T)
  BY TreeLeaves DEF WholeTree
<1>6. t = T[n]
  BY DEF t
<1> HIDE DEF U, T
<1>7. OneMoreRecord(T, U, key, value) /\ LeavesAreLeaves(U)
  <2>1. /\ n \in DOMAIN T /\ n \notin DOMAIN T \ {n} /\ T[n].is_leaf
        /\ DOMAIN U = DOMAIN T \cup {n} /\ \A m \in DOMAIN T \ {n} : U[m] = T[m]
        /\ U[n].is_leaf /\ IsLeaf(U[n]) /\ LeavesAreLeaves(T)
    BY <1>1, <1>2, <1>3, <1>5, <1>6
  <2>2. \A k, v : Has(U[n], k, v) \/ Has(U[n], k, v) <=>
                    Has(T[n], k, v) \/ (k = key /\ v = value)
    BY <1>2, <1>4, <1>6
  <2> QED
    BY <2>1, <2>2, LeafReplaced
<1> QED
  BY <1>7 DEF U, T

LEMMA LeafOverflowAdds ==
  ASSUME NEW height, NEW range, WholeTree(node, tree_root, height, range),
         Occupied(node, tree_root, NULL), NEW n \in Leaves,
         NEW key \in Int, NEW value \in Values,
         InsertIntoLeafAfterSplitting(n, key, value)
  PROVE  OneMoreRecord(node, node', key, value) /\ LeavesAreLeaves(node')
<1> DEFINE t == node[n]
           u == WithEntry(t, key, value)
           N == NewNode
           c == Cut(order - 1)
           T == node
           U == node'
           l == [u EXCEPT !.keys = SubSeq(@, 1, c), !.descendants = SubSeq(@, 1, c),
                          !.next_leaf = N]
           r == [u EXCEPT !.keys = SubSeq(@, c + 1, order),
                          !.descendants = SubSeq(@, c + 1, order)]
<1>1. n \in DOMAIN T /\ t.is_leaf /\ IsNode(t)
  BY TreeFacts DEF Leaves, WholeTree
<1>2. N \in Nat \ DOMAIN T
  BY NewNodeProps DEF WholeTree, Tree
<1>3. Len(t.keys) <= order - 1 /\ Len(t.keys) >= order - 1
  BY <1>1 DEF Occupied, Filled, InsertIntoLeafAfterSplitting
<1>4. U = Put(Put(T, n, l), N, r)
  BY DEF InsertIntoLeafAfterSplitting
<1>5. LeavesAreLeaves(T)
  BY TreeLeaves DEF WholeTree
<1>6. t = T[n]
  OBVIOUS
<1> HIDE DEF t, N, c, T, U
<1>7. /\ DOMAIN u = NodeFields /\ u.is_leaf /\ IsLeaf(u)
      /\ Len(t.keys) \in Nat /\ Len(u.keys) = Len(t.keys) + 1
      /\ \A k, v : At(u.keys, u.descendants, k, v) <=>
                     At(t.keys, t.descendants, k, v) \/ (k = key /\ v = value)
  BY <1>1, LeafEntered
<1> HIDE DEF u
<1>8. order \in Nat /\ c \in 1 .. order - 1
  BY CutProps DEF c
<1>9. Len(u.keys) = order
  <2> DEFINE q == Len(t.keys)
  <2>1. q \in Nat /\ q <= order - 1 /\ q >= order - 1 /\ Len(u.keys) = q + 1
    BY <1>3, <1>7
  <2> HIDE DEF q
  <2> QED
    BY <1>8, <2>1
<1>10. /\ l.keys = SubSeq(u.keys, 1, c) /\ l.descendants = SubSeq(u.descendants, 1, c)
       /\ r.keys = SubSeq(u.keys, c + 1, order)
       /\ r.descendants = SubSeq(u.descendants, c + 1, order)
       /\ l.is_leaf /\ r.is_leaf
  BY <1>7 DEF NodeFields
<1> HIDE DEF l, r
<1>11. /\ u.keys \in Seq(Int) /\ u.descendants \in Seq(Values)
       /\ Len(u.descendants) = order /\ c \in 0 .. order
  BY <1>7, <1>8, <1>9 DEF IsLeaf
<1>12. \A k, v : Has(l, k, v) \/ Has(r, k, v) <=> Has(t, k, v) \/ (k = key /\ v = value)
  <2> DEFINE s == u.keys
             d == u.descendants
  <2>1. /\ s \in Seq(Int) /\ d \in Seq(Values) /\ Len(d) = Len(s) /\ Len(s) = order
        /\ c \in 0 .. Len(s)
    BY <1>9, <1>11
  <2> HIDE DEF s, d
  <2>2. \A k, v : At(s, d, k, v) <=> \/ At(SubSeq(s, 1, c), SubSeq(d, 1, c), k, v)
                                     \/ At(SubSeq(s, c + 1, Len(s)), SubSeq(d, c + 1, Len(s)), k, v)
    BY <2>1, AtParts
  <2>3. \A k, v : At(s, d, k, v) <=> At(l.keys, l.descendants, k, v) \/ At(r.keys, r.descendants, k, v)
    BY <1>10, <2>1, <2>2 DEF s, d
  <2> QED
    BY <1>1, <1>7, <1>10, <2>3 DEF Has, s, d
<1>13. IsLeaf(l) /\ IsLeaf(r)
  <2> DEFINE s == u.keys
             d == u.descendants
  <2>1. /\ s \in Seq(Int) /\ d \in Seq(Values) /\ c \in 0 .. Len(s) /\ c \in 0 .. Len(d)
        /\ Len(s) = order /\ Len(d) = order
    BY <1>9, <1>11
  <2> HIDE DEF s, d
  <2>2. /\ SubSeq(s, 1, c) \in Seq(Int) /\ Len(SubSeq(s, 1, c)) = c
        /\ SubSeq(d, 1, c) \in Seq(Values) /\ Len(SubSeq(d, 1, c)) = c
    BY <2>1, FirstPart
  <2>3. /\ SubSeq(s, c + 1, Len(s)) \in Seq(Int)
        /\ Len(SubSeq(s, c + 1, Len(s))) = Len(s) - c
    BY <2>1, LastPart
  <2>4. /\ SubSeq(d, c + 1, Len(d)) \in Seq(Values)
        /\ Len(SubSeq(d, c + 1, Len(d))) = Len(d) - c
    BY <2>1, LastPart
  <2> QED
    BY <1>10, <2>1, <2>2, <2>3, <2>4 DEF IsLeaf, s, d
<1>14. /\ DOMAIN U = DOMAIN T \cup {N} /\ U[n] = l /\ U[N] = r
       /\ \A m \in DOMAIN T \ {n} : U[m] = T[m]
  BY <1>1, <1>2, <1>4 DEF Put
<1>15. OneMoreRecord(T, U, key, value) /\ LeavesAreLeaves(U)
  <2>1. /\ n \in DOMAIN T /\ N \notin DOMAIN T \ {n} /\ T[n].is_leaf
        /\ DOMAIN U = DOMAIN T \cup {N} /\ \A m \in DOMAIN T \ {n} : U[m] = T[m]
        /\ U[n].is_leaf /\ IsLeaf(U[n]) /\ U[N].is_leaf /\ IsLeaf(U[N])
        /\ LeavesAreLeaves(T)
    BY <1>1, <1>2, <1>5, <1>6, <1>10, <1>13, <1>14
  <2>2. \A k, v : Has(U[n], k, v) \/ Has(U[N], k, v) <=>
                    Has(T[n], k, v) \/ (k = key /\ v = value)
    BY <1>6, <1>12, <1>14
  <2> QED
    BY <2>1, <2>2, LeafReplaced, SMTT(30)
<1> QED
  BY <1>15 DEF U, T

(* The same records are held.                                              *)
SameHeld(T, U) == \A k, v : Holds(U, k, v) <=> Holds(T, k, v)

LEMMA StillRepresents ==
  ASSUME NEW T, NEW U, SameHeld(T, U), NEW S, Represents(T, S)
  PROVE  Represents(U, S)
BY DEF SameHeld, Represents

HasAt(T, m, k, v) == m \in DOMAIN T /\ Has(T[m], k, v)

(* Two nodes traded records with each other, the others have kept theirs.  *)
Traded(T, U, a, b) ==
  /\ \A m : m # a /\ m # b => \A k, v : HasAt(U, m, k, v) <=> HasAt(T, m, k, v)
  /\ \A k, v : HasAt(U, a, k, v) \/ HasAt(U, b, k, v) <=>
                 HasAt(T, a, k, v) \/ HasAt(T, b, k, v)

LEMMA TradeKeepsAll ==
  ASSUME NEW T, NEW U, NEW a, NEW b, Traded(T, U, a, b)
  PROVE  SameHeld(T, U)
<1>1. \A W, k, v : Holds(W, k, v) <=> \E m : HasAt(W, m, k, v)
  BY DEF Holds, HasAt
<1>2. ASSUME NEW k, NEW v PROVE Holds(U, k, v) <=> Holds(T, k, v)
  <2>1. ASSUME NEW m, HasAt(U, m, k, v) PROVE \E q : HasAt(T, q, k, v)
    <3>1. CASE m # a /\ m # b
      BY <2>1, <3>1 DEF Traded
    <3>2. CASE m = a \/ m = b
      BY <2>1, <3>2 DEF Traded
    <3> QED
      BY <3>1, <3>2
  <2>2. ASSUME NEW m, HasAt(T, m, k, v) PROVE \E q : HasAt(U, q, k, v)
    <3>1. CASE m # a /\ m # b
      BY <2>2, <3>1 DEF Traded
    <3>2. CASE m = a \/ m = b
      BY <2>2, <3>2 DEF Traded
    <3> QED
      BY <3>1, <3>2
  <2> QED
    BY <1>1, <2>1, <2>2
<1> QED
  BY <1>2 DEF SameHeld

LEMMA SameHasAt ==
  ASSUME NEW T, NEW U, NEW m, (m \in DOMAIN U) <=> (m \in DOMAIN T),
         m \in DOMAIN T => /\ U[m].is_leaf = T[m].is_leaf
                           /\ T[m].is_leaf => /\ U[m].keys = T[m].keys
                                              /\ U[m].descendants = T[m].descendants
  PROVE  \A k, v : HasAt(U, m, k, v) <=> HasAt(T, m, k, v)
BY DEF HasAt, Has

(* A new tree holds the record it was made for.                            *)
LEMMA NewTreeAdds ==
  ASSUME DOMAIN node = {}, NEW key \in Int, NEW value \in Values, StartNewTree(key, value)
  PROVE  OneMoreRecord(node, node', key, value) /\ LeavesAreLeaves(node')
<1> DEFINE N == NewNode
           U == node'
           t == [is_leaf |-> TRUE, keys |-> <<key>>, descendants |-> <<value>>,
                 next_leaf |-> NULL, parent |-> NULL]
<1>1. DOMAIN U = {N} /\ U[N] = t
  BY DEF StartNewTree, Put
<1>2. /\ t.is_leaf /\ t.keys = <<key>> /\ t.descendants = <<value>>
      /\ t.keys \in Seq(Int) /\ t.descendants \in Seq(Values)
      /\ Len(t.descendants) = Len(t.keys)
  OBVIOUS
<1>3. \A k, v : At(<<key>>, <<value>>, k, v) <=> k = key /\ v = value
  BY DEF At
<1> HIDE DEF t
<1>4. \A k, v : Has(t, k, v) <=> k = key /\ v = value
  BY <1>2, <1>3 DEF Has
<1>5. \A k, v : Holds(U, k, v) <=> k = key /\ v = value
  BY <1>1, <1>4 DEF Holds
<1>6. \A k, v : ~Holds(node, k, v)
  BY DEF Holds
<1>7. OneMoreRecord(node, U, key, value)
  BY <1>5, <1>6 DEF OneMoreRecord
<1>8. LeavesAreLeaves(U)
  BY <1>1, <1>2 DEF LeavesAreLeaves, IsLeaf
<1> QED
  BY <1>7, <1>8

(* What is found is what is held.                                          *)
LEMMA FoundIsHeld ==
  ASSUME NEW height, NEW range, WholeTree(node, tree_root, height, range),
         NEW key \in Int, NEW S, Represents(node, S)
  PROVE  /\ Find(key) = NULL <=> key \notin DOMAIN S
         /\ Find(key) # NULL => Find(key) = S[key]
<1> DEFINE n == FindLeaf(key)
           keys == node[n].keys
           d == node[n].descendants
           pos == PlaceOf(keys, key)
<1>1. /\ n \in DOMAIN node /\ node[n].is_leaf
      /\ \A m \in DOMAIN node : node[m].is_leaf /\ key \in range[m] => m = n
  BY Searched DEF Leaves
<1>2. Find(key) = NULL => \A j \in 1 .. Len(keys) : keys[j] # key
  BY FindProps
<1>3. Find(key) # NULL =>
        pos \in 1 .. Len(keys) /\ keys[pos] = key /\ Find(key) = d[pos]
  BY FindProps
<1> HIDE DEF n, pos
<1>4. ASSUME Find(key) # NULL
      PROVE  key \in DOMAIN S /\ Find(key) = S[key]
  <2>1. Has(node[n], key, Find(key))
    BY <1>1, <1>3, <1>4 DEF Has, At
  <2>2. Holds(node, key, Find(key))
    BY <1>1, <2>1 DEF Holds
  <2> QED
    BY <2>2 DEF Represents
<1>5. ASSUME key \in DOMAIN S PROVE Find(key) # NULL
  <2>1. Holds(node, key, S[key])
    BY <1>5 DEF Represents
  <2>2. PICK m \in DOMAIN node : Has(node[m], key, S[key])
    BY <2>1 DEF Holds
  <2>3. node[m].is_leaf /\ \E j \in 1 .. Len(node[m].keys) : node[m].keys[j] = key
    BY <2>2 DEF Has, At
  <2>4. \A i \in 1 .. Len(node[m].keys) : node[m].keys[i] \in range[m]
    BY TreeFacts DEF WholeTree
  <2>5. m = n
    BY <1>1, <2>3, <2>4
  <2> QED
    BY <1>2, <2>3, <2>5
<1> QED
  BY <1>4, <1>5

(* A split or a new root, further up: the leaves are the same.             *)
LEMMA ParentOfLeft ==
  ASSUME NEW left, NEW key, NEW right, SplitShaped(node, tree_root, left, key, right)
  PROVE  /\ left \in DOMAIN node /\ IsFiniteSet(DOMAIN node)
         /\ \A m \in DOMAIN node : IsNode(node[m])
         /\ node[left].parent # NULL =>
              /\ node[left].parent \in DOMAIN node /\ ~node[node[left].parent].is_leaf
<1>1. PICK height, range : SplitTree(node, tree_root, height, range, left, key, right)
  BY DEF SplitShaped
<1> DEFINE cover == BothRanges(range, left, right)
<1>2. /\ Tree(node, tree_root, height, range, cover, {right})
      /\ left \in DOMAIN node /\ left # right
  BY <1>1 DEF SplitTree
<1> HIDE DEF cover
<1>3. \A m \in DOMAIN node : IsNode(node[m])
  BY <1>2, TreeFacts
<1>4. IsFiniteSet(DOMAIN node) /\ node[tree_root].parent = NULL
  BY <1>2 DEF Tree
<1>5. ASSUME node[left].parent # NULL
      PROVE  node[left].parent \in DOMAIN node /\ ~node[node[left].parent].is_leaf
  <2>1. left # tree_root /\ left \notin {right}
    BY <1>2, <1>4, <1>5
  <2>2. Listed(node, left)
    BY <1>2, <2>1, TreeFacts
  <2> QED
    BY <2>2 DEF Listed
<1> QED
  BY <1>2, <1>3, <1>4, <1>5

LEMMA ParentInsertionKeeps ==
  ASSUME SplitShaped(node, tree_root, call.left, call.key, call.right), CallInsertIntoParent
  PROVE  LeavesSame(node, node')
<1> DEFINE left == call.left
           key == call.key
           right == call.right
           n == node[left].parent
           N == NewNode
           U == node'
<1>1. \/ InsertIntoNewRoot(left, key, right)
      \/ InsertIntoNode(left, key, right)
      \/ InsertIntoNodeAfterSplitting(left, key, right)
  BY DEF CallInsertIntoParent
<1>2. /\ left \in DOMAIN node /\ IsFiniteSet(DOMAIN node)
      /\ \A m \in DOMAIN node : IsNode(node[m]) /\ DOMAIN node[m] = NodeFields
      /\ n # NULL => n \in DOMAIN node /\ ~node[n].is_leaf
  <2>1. SplitShaped(node, tree_root, left, key, right)
    OBVIOUS
  <2> HIDE DEF left, key, right
  <2> QED
    BY <2>1, ParentOfLeft DEF IsNode
<1>3. N \notin DOMAIN node
  BY <1>2, NewNodeProps
<1> HIDE DEF left, key, right, N
<1>4. \A S, q : LET A == Adopt(node, S, q)
                IN /\ DOMAIN A = DOMAIN node
                   /\ \A m \in DOMAIN node : SameNode(node, A, m)
  BY <1>2, AdoptProps
<1>5. ASSUME n # NULL
      PROVE  WithDescendant(node[n], left, key, right).is_leaf = FALSE
             /\ DOMAIN WithDescendant(node[n], left, key, right) = NodeFields
  <2>1. DOMAIN node[n] = NodeFields /\ node[n].is_leaf = FALSE
    BY <1>2, <1>5 DEF IsNode
  <2> QED
    BY <2>1 DEF WithDescendant, NodeFields
<1>6. CASE InsertIntoNewRoot(left, key, right)
  <2> DEFINE A == Adopt(node, {left, right}, N)
             t == [is_leaf |-> FALSE, keys |-> <<key>>, descendants |-> <<left, right>>,
                   next_leaf |-> NULL, parent |-> NULL]
  <2>1. U = Put(A, N, t) /\ t.is_leaf = FALSE
    BY <1>6 DEF InsertIntoNewRoot, N
  <2>2. DOMAIN A = DOMAIN node /\ \A m \in DOMAIN node : SameNode(node, A, m)
    BY <1>4
  <2> HIDE DEF A, t, U, n
  <2>3. /\ DOMAIN U = DOMAIN node \cup {N} /\ U[N] = t
        /\ \A m \in DOMAIN node : U[m] = A[m]
    BY <1>3, <2>1, <2>2 DEF Put
  <2>4. \A m \in DOMAIN node : SameNode(node, U, m)
    BY <2>2, <2>3 DEF SameNode
  <2> QED
    BY <2>1, <2>3, <2>4 DEF LeavesSame, SameNode, U
<1>7. CASE InsertIntoNode(left, key, right)
  <2> DEFINE u == WithDescendant(node[n], left, key, right)
  <2>1. n # NULL /\ U = [node EXCEPT ![n] = u]
    BY <1>7 DEF InsertIntoNode
  <2>2. u.is_leaf = FALSE /\ n \in DOMAIN node /\ ~node[n].is_leaf
    BY <1>2, <1>5, <2>1
  <2> HIDE DEF u, U, n
  <2>3. /\ DOMAIN U = DOMAIN node /\ U[n] = u
        /\ \A m \in DOMAIN node : m # n => U[m] = node[m]
    BY <2>1, <2>2
  <2> QED
    BY <2>2, <2>3 DEF LeavesSame, U
<1>8. CASE InsertIntoNodeAfterSplitting(left, key, right)
  <2> DEFINE u == WithDescendant(node[n], left, key, right)
             c == Cut(order)
             l == [u EXCEPT !.keys = SubSeq(@, 1, c - 1), !.descendants = SubSeq(@, 1, c)]
             r == [u EXCEPT !.keys = SubSeq(@, c + 1, order),
                            !.descendants = SubSeq(@, c + 1, order + 1)]
             A == Adopt(node, ToSet(r.descendants), N)
  <2>1. n # NULL /\ U = Put(Put(A, n, l), N, r)
    BY <1>8 DEF InsertIntoNodeAfterSplitting, N
  <2>2. u.is_leaf = FALSE /\ DOMAIN u = NodeFields /\ n \in DOMAIN node /\ ~node[n].is_leaf
    BY <1>2, <1>5, <2>1
  <2> HIDE DEF u, U, n
  <2>3. l.is_leaf = FALSE /\ r.is_leaf = FALSE
    BY <2>2 DEF NodeFields
  <2>4. DOMAIN A = DOMAIN node /\ \A m \in DOMAIN node : SameNode(node, A, m)
    BY <1>4
  <2> HIDE DEF l, r, A
  <2>5. /\ DOMAIN U = DOMAIN node \cup {N} /\ U[n] = l /\ U[N] = r
        /\ \A m \in DOMAIN node : m # n => U[m] = A[m]
    BY <1>3, <2>1, <2>2, <2>4 DEF Put
  <2>6. \A m \in DOMAIN node : m # n => SameNode(node, U, m)
    BY <2>4, <2>5 DEF SameNode
  <2> QED
    BY <2>2, <2>3, <2>5, <2>6 DEF LeavesSame, SameNode, U
<1> QED
  BY <1>1, <1>6, <1>7, <1>8

(* A record less.  The leaf loses its first pointer with that value, which *)
(* is the record's own only when no other key has it.                      *)
Without(S, key) == [k \in DOMAIN S \ {key} |-> S[k]]

OneKeyPerValue(S) == \A k, l \in DOMAIN S : S[k] = S[l] => k = l

LEMMA RecordTaken ==
  ASSUME NEW T, NEW U, NEW S, Represents(T, S), NEW key,
         \A k, v : Holds(U, k, v) <=> Holds(T, k, v) /\ k # key
  PROVE  Represents(U, Without(S, key))
<1> DEFINE R == Without(S, key)
<1>1. DOMAIN R = DOMAIN S \ {key} /\ \A k \in DOMAIN S \ {key} : R[k] = S[k]
  BY DEF Without
<1> HIDE DEF R
<1>2. ASSUME NEW k, NEW v PROVE Holds(U, k, v) <=> k \in DOMAIN R /\ v = R[k]
  <2>1. Holds(T, k, v) <=> k \in DOMAIN S /\ v = S[k]
    BY DEF Represents
  <2> QED
    BY <1>1, <2>1
<1> QED
  BY <1>2 DEF Represents, R

LEMMA NotInserted ==
  ASSUME NEW s, NEW i, NEW k, NEW t, Inserted(Int, s, i, k, t), Ascending(t)
  PROVE  \A q \in 1 .. Len(s) : s[q] # k
<1> DEFINE n == Len(s)
<1>1. /\ s \in Seq(Int) /\ t \in Seq(Int) /\ n \in Nat /\ i \in 1 .. n + 1 /\ Len(t) = n + 1
      /\ \A j \in 1 .. n + 1 : t[j] = IF j < i THEN s[j] ELSE IF j = i THEN k ELSE s[j - 1]
  BY DEF Inserted
<1> HIDE DEF n
<1>2. t[i] = k
  BY <1>1
<1>3. \A a, b \in 1 .. n + 1 : a < b => t[a] < t[b]
  BY <1>1 DEF Ascending
<1>4. \A a \in 1 .. n + 1 : t[a] \in Int
  BY <1>1
<1>5. ASSUME NEW q \in 1 .. n, s[q] = k PROVE FALSE
  <2>1. PICK a \in 1 .. n + 1 : a # i /\ t[a] = k
    <3>1. CASE q < i
      <4>1. q \in 1 .. n + 1 /\ q # i
        BY <1>1, <3>1
      <4> QED
        BY <1>1, <1>5, <3>1, <4>1
    <3>2. CASE ~(q < i)
      <4> DEFINE a == q + 1
      <4>1. a \in 1 .. n + 1 /\ ~(a < i) /\ a # i /\ a - 1 = q
        BY <1>1, <3>2
      <4> HIDE DEF a
      <4> QED
        BY <1>1, <1>5, <4>1
    <3> QED
      BY <3>1, <3>2
  <2>2. a < i \/ i < a
    BY <1>1, <2>1
  <2>3. k < k /\ k \in Int
    BY <1>1, <1>2, <1>3, <1>4, <2>1, <2>2
  <2> QED
    BY <2>3
<1> QED
  BY <1>5 DEF n

LEMMA LeafRemovalTakes ==
  ASSUME NEW height, NEW range, WholeTree(node, tree_root, height, range),
         NEW S, Represents(node, S), OneKeyPerValue(S),
         NEW n \in Leaves, NEW key, NEW value,
         NEW i \in 1 .. Len(node[n].keys), node[n].keys[i] = key,
         node[n].descendants[i] = value
  PROVE  Represents(Removed(node, n, key, value), Without(S, key))
<1> DEFINE t == node[n]
           R == Removed(node, n, key, value)
           u == Left(t, key, value)
           d == t.descendants
           j == PlaceOf(d, value)
<1>1. n \in DOMAIN node /\ t.is_leaf /\ IsNode(t)
      /\ \A m \in DOMAIN node : \A q \in 1 .. Len(node[m].keys) : node[m].keys[q] \in range[m]
  BY TreeFacts DEF Leaves, WholeTree
<1>2. /\ DOMAIN R = DOMAIN node /\ R[n] = u
      /\ \A m \in DOMAIN node \ {n} : R[m] = node[m]
  BY <1>1 DEF Removed
<1>3. /\ d \in Seq(Values) /\ Len(d) = Len(t.keys) /\ d[i] = value /\ Len(t.keys) \in Nat
      /\ t.keys \in Seq(Int) /\ Ascending(t.keys) /\ t.is_leaf \in BOOLEAN
      /\ i \in 1 .. Len(t.keys) /\ t.keys[i] = key /\ key \in Int
  BY <1>1 DEF IsNode
<1>4. /\ j \in 1 .. Len(d) /\ d[j] = value
      /\ \A q \in 1 .. Len(d) : q < j => d[q] # value
  <2> HIDE DEF d
  <2>1. /\ j \in 1 .. Len(d) + 1
        /\ \A q \in 1 .. Len(d) : q < j => d[q] # value
        /\ j <= Len(d) => d[j] = value
    BY <1>3, PlaceOfProps
  <2>2. i \in 1 .. Len(d) /\ Len(d) \in Nat
    BY <1>3
  <2>3. ~(i < j)
    BY <1>3, <2>1, <2>2
  <2> QED
    BY <2>1, <2>2, <2>3
<1> HIDE DEF j, R
<1>5. /\ DOMAIN u = NodeFields /\ u.is_leaf = t.is_leaf
      /\ Inserted(Int, u.keys, i, key, t.keys)
      /\ Inserted(Values, u.descendants, j, value, d)
  <2>1. EntryAt(t, i, key, Values, j, value)
    BY <1>1, <1>3, <1>4 DEF EntryAt
  <2>2. OneEntryMore(u, t, i, key, Values, j, value)
    BY <2>1, LeftProps
  <2> QED
    BY <2>2 DEF OneEntryMore
<1> HIDE DEF u
<1>6. \A q \in 1 .. Len(t.keys) : Holds(node, t.keys[q], d[q])
  BY <1>1, <1>3 DEF Holds, Has, At
<1>7. j = i
  <2>1. Holds(node, t.keys[j], value) /\ Holds(node, key, value)
    BY <1>3, <1>4, <1>6
  <2>2. t.keys[j] = key
    BY <2>1 DEF Represents, OneKeyPerValue
  <2> DEFINE s == t.keys
  <2>3. s \in Seq(Int) /\ Ascending(s) /\ s[i] = s[j] /\ i \in 1 .. Len(s) /\ j \in 1 .. Len(s)
        /\ Len(s) \in Nat
    BY <1>3, <1>4, <2>2
  <2> HIDE DEF s
  <2>4. s[i] \in Int /\ (i < j => s[i] < s[j]) /\ (j < i => s[j] < s[i])
    BY <2>3 DEF Ascending
  <2> QED
    BY <2>3, <2>4
<1>8. \A k, v : At(t.keys, d, k, v) <=> At(u.keys, u.descendants, k, v) \/ (k = key /\ v = value)
  <2>1. /\ Inserted(Int, u.keys, i, key, t.keys) /\ Inserted(Values, u.descendants, i, value, d)
        /\ Len(t.keys) = Len(u.keys) + 1 /\ Len(u.keys) \in Nat
        /\ Len(d) = Len(u.descendants) + 1 /\ Len(u.descendants) \in Nat
    BY <1>5, <1>7 DEF Inserted
  <2>2. Len(u.descendants) = Len(u.keys)
    BY <1>3, <2>1
  <2> QED
    BY <2>1, <2>2, AtInserted
<1>9. \A v : ~At(u.keys, u.descendants, key, v)
  <2>1. \A q \in 1 .. Len(u.keys) : u.keys[q] # key
    BY <1>3, <1>5, NotInserted
  <2> QED
    BY <2>1 DEF At
<1>10. \A k, v : Has(u, k, v) <=> Has(t, k, v) /\ k # key
  BY <1>1, <1>5, <1>8, <1>9 DEF Has
<1>11. \A m \in DOMAIN node \ {n} : \A v : ~Has(node[m], key, v)
  <2> SUFFICES ASSUME NEW m \in DOMAIN node \ {n}, NEW v, Has(node[m], key, v) PROVE FALSE
    OBVIOUS
  <2>1. node[m].is_leaf /\ key \in range[m]
    BY <1>1 DEF Has, At
  <2>2. key \in range[n]
    BY <1>1, <1>3
  <2>3. m = FindLeaf(key) /\ n = FindLeaf(key)
    BY <1>1, <1>3, <2>1, <2>2, Searched DEF Leaves
  <2> QED
    BY <2>3
<1> HIDE DEF t, d
<1>12. ASSUME NEW k, NEW v PROVE Holds(R, k, v) <=> Holds(node, k, v) /\ k # key
  <2>1. ASSUME Holds(R, k, v) PROVE Holds(node, k, v) /\ k # key
    <3>1. PICK m \in DOMAIN R : Has(R[m], k, v)
      BY <2>1 DEF Holds
    <3>2. Has(node[m], k, v) /\ k # key
      BY <1>2, <1>10, <1>11, <3>1 DEF t
    <3> QED
      BY <1>2, <3>1, <3>2 DEF Holds
  <2>2. ASSUME Holds(node, k, v), k # key PROVE Holds(R, k, v)
    <3>1. PICK m \in DOMAIN node : Has(node[m], k, v)
      BY <2>2 DEF Holds
    <3>2. Has(R[m], k, v)
      BY <1>2, <1>10, <2>2, <3>1 DEF t
    <3> QED
      BY <1>2, <3>1, <3>2 DEF Holds
  <2> QED
    BY <2>1, <2>2
<1> QED
  BY <1>12, RecordTaken DEF R

(* An empty root holds no record.                                          *)
LEMMA RootKeeps ==
  ASSUME NEW T, NEW root, Shaped(T, root, root), AdjustRoot(T, root)
  PROVE  SameHeld(T, node') /\ LeavesAreLeaves(node')
<1> DEFINE t == T[root]
           U == node'
           rest == Restrict(T, DOMAIN T \ {root})
           new_root == IF t.is_leaf THEN NULL ELSE t.descendants[1]
<1>1. PICK height, range : WholeTree(T, root, height, range)
  BY DEF Shaped
<1>2. /\ root \in DOMAIN T /\ LeavesAreLeaves(T)
      /\ \A m \in DOMAIN T : DOMAIN T[m] = NodeFields
  BY <1>1, TreeLeaves, TreeFacts, ZenonT(60) DEF WholeTree, Tree, IsNode
<1>3. \/ t.keys # <<>> /\ U = T
      \/ t.keys = <<>> /\ U = IF new_root = NULL THEN rest ELSE Adopt(rest, {new_root}, NULL)
  BY DEF AdjustRoot
<1>4. /\ DOMAIN rest = DOMAIN T \ {root}
      /\ \A m \in DOMAIN T \ {root} : rest[m] = T[m]
  BY DEF Restrict
<1> HIDE DEF U, rest, new_root
<1>5. CASE t.keys # <<>> /\ U = T
  BY <1>2, <1>5 DEF SameHeld, U
<1>6. CASE t.keys = <<>> /\ U = IF new_root = NULL THEN rest ELSE Adopt(rest, {new_root}, NULL)
  <2>1. LeavesSame(rest, U)
    <3>1. CASE new_root = NULL
      BY <1>6, <3>1 DEF LeavesSame
    <3>2. CASE new_root # NULL
      <4>1. U = Adopt(rest, {new_root}, NULL)
        BY <1>6, <3>2
      <4>2. \A m \in DOMAIN rest : DOMAIN rest[m] = NodeFields
        BY <1>2, <1>4
      <4>3. \A m \in DOMAIN rest : DOMAIN U = DOMAIN rest /\ SameNode(rest, U, m)
        BY <4>1, <4>2, AdoptProps
      <4>4. DOMAIN U = DOMAIN rest
        BY <4>1 DEF Adopt
      <4> QED
        BY <4>3, <4>4 DEF LeavesSame, SameNode
    <3> QED
      BY <3>1, <3>2
  <2>2. LeavesAreLeaves(rest)
    BY <1>2, <1>4 DEF LeavesAreLeaves
  <2>3. \A k, v : Holds(rest, k, v) <=> Holds(T, k, v)
    <3>1. \A k, v : ~Has(t, k, v)
      BY <1>6 DEF Has, At
    <3> QED
      BY <1>2, <1>4, <3>1 DEF Holds
  <2> QED
    BY <2>1, <2>2, <2>3, SameRecords DEF SameHeld, U
<1> QED
  BY <1>3, <1>5, <1>6

(* The records of two leaves in one.                                       *)
LEMMA CombinedHas ==
  ASSUME NEW l, NEW r, NEW k_prime, NEW t, IsNode(l), IsNode(r), l.is_leaf, r.is_leaf,
         Combined(l, r, k_prime, t)
  PROVE  /\ \A k, v : Has(t, k, v) <=> Has(l, k, v) \/ Has(r, k, v)
         /\ IsLeaf(t)
<1> DEFINE a == l.keys
           b == r.keys
           c == l.descendants
           d == r.descendants
<1>1. /\ a \in Seq(Int) /\ c \in Seq(Values) /\ Len(c) = Len(a)
      /\ b \in Seq(Int) /\ d \in Seq(Values) /\ Len(d) = Len(b)
      /\ l.is_leaf = TRUE
  BY DEF IsNode
<1>2. t.is_leaf = l.is_leaf /\ t.keys = a \o Between(l, k_prime) \o b /\ t.descendants = c \o d
  BY DEF Combined
<1>3. Between(l, k_prime) = <<>>
  BY DEF Between
<1> HIDE DEF a, b, c, d
<1>4. a \o <<>> = a
  BY <1>1
<1>5. t.keys = a \o b
  BY <1>2, <1>3, <1>4
<1>6. \A k, v : At(t.keys, t.descendants, k, v) <=> At(a, c, k, v) \/ At(b, d, k, v)
  BY <1>1, <1>2, <1>5, AtConcat
<1>7. IsLeaf(t)
  <2>1. a \o b \in Seq(Int) /\ Len(a \o b) = Len(a) + Len(b)
    BY <1>1, ConcatProps
  <2>2. c \o d \in Seq(Values) /\ Len(c \o d) = Len(c) + Len(d)
    BY <1>1, ConcatProps
  <2> QED
    BY <1>1, <1>2, <1>5, <2>1, <2>2 DEF IsLeaf
<1> QED
  BY <1>1, <1>2, <1>6, <1>7 DEF Has, a, b, c, d

CoalescedTo(T, U, left, right, k_prime) ==
  /\ DOMAIN U = DOMAIN T
  /\ \A m \in DOMAIN T \ {left} : SameNode(T, U, m)
  /\ U[left].is_leaf = T[left].is_leaf
  /\ U[left].keys = T[left].keys \o Between(T[left], k_prime) \o T[right].keys
  /\ U[left].descendants = T[left].descendants \o T[right].descendants

LEMMA CoalescedNodes ==
  ASSUME NEW T, NEW left \in DOMAIN T, NEW right, NEW k_prime,
         \A m \in DOMAIN T : DOMAIN T[m] = NodeFields,
         NEW U, U = CoalesceNodes(T, left, right, k_prime)
  PROVE  CoalescedTo(T, U, left, right, k_prime)
<1> DEFINE joined == Joined(T[left], T[right], k_prime)
           P == Put(T, left, joined)
           C == IF joined.is_leaf THEN {} ELSE ToSet(joined.descendants)
<1>1. U = Adopt(P, C, left)
  BY DEF CoalesceNodes
<1>2. /\ DOMAIN joined = NodeFields /\ joined.is_leaf = T[left].is_leaf
      /\ joined.keys = T[left].keys \o Between(T[left], k_prime) \o T[right].keys
      /\ joined.descendants = T[left].descendants \o T[right].descendants
  BY DEF Joined, NodeFields
<1> HIDE DEF joined, C
<1>3. DOMAIN P = DOMAIN T /\ P[left] = joined /\ \A m \in DOMAIN T \ {left} : P[m] = T[m]
  BY DEF Put
<1> HIDE DEF P
<1>4. \A m \in DOMAIN P : DOMAIN P[m] = NodeFields
  BY <1>2, <1>3
<1>5. \A m \in DOMAIN P : DOMAIN U = DOMAIN P /\ SameNode(P, U, m)
  BY <1>1, <1>4, AdoptProps
<1>6. DOMAIN U = DOMAIN T
  BY <1>3, <1>5
<1>7. \A m \in DOMAIN T \ {left} : SameNode(T, U, m)
  BY <1>3, <1>5 DEF SameNode
<1>8. SameNode(P, U, left)
  BY <1>3, <1>5
<1> QED
  BY <1>2, <1>3, <1>6, <1>7, <1>8 DEF SameNode, CoalescedTo

(* Joined neighbors hold what they held, while the right one is still      *)
(* there and when its entry has gone.                                      *)
LEMMA JoinKeeps ==
  ASSUME NEW T, NEW root, NEW height, NEW range, WholeTree(T, root, height, range),
         NEW p, NEW i, NEW left, NEW right, NEW k_prime,
         Neighbors(T, height, range, p, i, left, right, k_prime),
         NEW U, U = CoalesceNodes(T, left, right, k_prime)
  PROVE  /\ SameHeld(T, U) /\ LeavesAreLeaves(U) /\ ~U[p].is_leaf
         /\ SameHeld(T, JoinedTree(T, p, left, right, k_prime))
<1> DEFINE V == JoinedTree(T, p, left, right, k_prime)
           l == T[left]
           r == T[right]
<1>1. /\ p \in DOMAIN T /\ left \in DOMAIN T /\ right \in DOMAIN T
      /\ p # left /\ p # right /\ left # right
      /\ ~T[p].is_leaf /\ height[left] = height[right]
  BY DEF Neighbors
<1>2. /\ LeavesAreLeaves(T)
      /\ \A m \in DOMAIN T : IsNode(T[m]) /\ DOMAIN T[m] = NodeFields
      /\ l.is_leaf <=> r.is_leaf
  BY <1>1, TreeLeaves, TreeFacts DEF WholeTree, IsNode
<1>3. /\ DOMAIN U = DOMAIN T
      /\ \A m \in DOMAIN T \ {left} : SameNode(T, U, m)
      /\ U[left].is_leaf = l.is_leaf
      /\ U[left].keys = l.keys \o Between(l, k_prime) \o r.keys
      /\ U[left].descendants = l.descendants \o r.descendants
  <2>1. CoalescedTo(T, U, left, right, k_prime)
    BY <1>1, <1>2, CoalescedNodes
  <2> QED
    BY <2>1 DEF CoalescedTo
<1>4. NeighborsJoined(T, V, p, i, left, right, k_prime)
  BY JoinedTreeProps
<1>5. /\ DOMAIN V = DOMAIN T \ {right}
      /\ \A m \in DOMAIN T \ {left, right, p} : SameNode(T, V, m)
      /\ Combined(l, r, k_prime, V[left]) /\ V[p].is_leaf = T[p].is_leaf
  BY <1>4 DEF NeighborsJoined
<1>6. ~U[p].is_leaf
  BY <1>1, <1>3 DEF SameNode
<1> HIDE DEF V, l, r
<1>7. CASE l.is_leaf
  <2>1. \A k, v : Has(V[left], k, v) <=> Has(l, k, v) \/ Has(r, k, v)
    BY <1>1, <1>2, <1>5, <1>7, CombinedHas DEF l, r
  <2>2. V[left].keys = U[left].keys /\ V[left].descendants = U[left].descendants
        /\ V[left].is_leaf = U[left].is_leaf
    BY <1>3, <1>5 DEF Combined
  <2>3. \A k, v : Has(U[left], k, v) <=> Has(l, k, v) \/ Has(r, k, v)
    BY <2>1, <2>2 DEF Has
  <2>4. IsLeaf(U[left])
    <3>1. IsLeaf(V[left])
      BY <1>1, <1>2, <1>5, <1>7, CombinedHas DEF l, r
    <3> QED
      BY <2>2, <3>1 DEF IsLeaf
  <2>5. LeavesAreLeaves(U)
    BY <1>2, <1>3, <2>4 DEF LeavesAreLeaves, IsLeaf, SameNode
  <2>6. Traded(T, U, left, right)
    <3>1. \A m : m # left /\ m # right => \A k, v : HasAt(U, m, k, v) <=> HasAt(T, m, k, v)
      BY <1>3 DEF HasAt, Has, SameNode
    <3>2. \A k, v : HasAt(U, left, k, v) \/ HasAt(U, right, k, v)
                      <=> HasAt(T, left, k, v) \/ HasAt(T, right, k, v)
      BY <1>1, <1>3, <2>3 DEF HasAt, Has, SameNode, l, r
    <3> QED
      BY <3>1, <3>2 DEF Traded
  <2>7. Traded(T, V, left, right)
    <3>1. \A m : m # left /\ m # right => \A k, v : HasAt(V, m, k, v) <=> HasAt(T, m, k, v)
      BY <1>1, <1>5 DEF HasAt, Has, SameNode
    <3>2. \A k, v : HasAt(V, left, k, v) \/ HasAt(V, right, k, v)
                      <=> HasAt(T, left, k, v) \/ HasAt(T, right, k, v)
      BY <1>1, <1>5, <2>1 DEF HasAt, l, r
    <3> QED
      BY <3>1, <3>2 DEF Traded
  <2> QED
    BY <1>6, <2>5, <2>6, <2>7, TradeKeepsAll DEF V
<1>8. CASE ~l.is_leaf
  <2>1. LeavesSame(T, U)
    BY <1>3, <1>8 DEF LeavesSame, SameNode, l
  <2>2. LeavesSame(T, V)
    <3>1. V[left].is_leaf = l.is_leaf
      BY <1>5 DEF Combined
    <3> QED
      BY <1>1, <1>2, <1>5, <1>8, <3>1 DEF LeavesSame, SameNode, l, r
  <2> QED
    BY <1>2, <1>6, <2>1, <2>2, SameRecords DEF SameHeld, V
<1> QED
  BY <1>7, <1>8

(* Leaves that share their records anew hold the same together.            *)
LEMMA MoveKeeps ==
  ASSUME NEW T, NEW root, NEW height, NEW range, WholeTree(T, root, height, range),
         NEW p, NEW i, NEW left, NEW right, NEW k_prime,
         Neighbors(T, height, range, p, i, left, right, k_prime), T[left].is_leaf,
         NEW U, NEW a, NEW d, NEW c, LeafMoved(T, U, p, i, left, right, a, d, c)
  PROVE  SameHeld(T, U)
<1> DEFINE l == T[left]
           r == T[right]
<1>1. /\ p \in DOMAIN T /\ left \in DOMAIN T /\ right \in DOMAIN T
      /\ p # left /\ p # right /\ left # right
      /\ ~T[p].is_leaf /\ height[left] = height[right]
  BY DEF Neighbors
<1>2. /\ IsNode(l) /\ IsNode(r) /\ r.is_leaf /\ l.is_leaf
  BY <1>1, TreeFacts DEF WholeTree
<1>3. /\ l.keys \in Seq(Int) /\ l.descendants \in Seq(Values)
      /\ Len(l.descendants) = Len(l.keys)
      /\ r.keys \in Seq(Int) /\ r.descendants \in Seq(Values)
      /\ Len(r.descendants) = Len(r.keys)
  BY <1>2 DEF IsNode
<1>4. /\ a = l.keys \o r.keys /\ d = l.descendants \o r.descendants
      /\ c \in 1 .. Len(a) - 1 /\ DOMAIN U = DOMAIN T
      /\ \A m \in DOMAIN T \ {left, right, p} : U[m] = T[m]
  BY DEF LeafMoved
<1>5. /\ KeyReplaced(T[p], U[p], i, a[c + 1])
      /\ SameButEntries(l, U[left]) /\ SameButEntries(r, U[right])
  BY DEF LeafMoved
<1>6. /\ U[left].keys = SubSeq(a, 1, c) /\ U[left].descendants = SubSeq(d, 1, c)
      /\ U[right].keys = SubSeq(a, c + 1, Len(a))
      /\ U[right].descendants = SubSeq(d, c + 1, Len(a))
  BY DEF LeafMoved
<1>7. U[p].is_leaf = T[p].is_leaf /\ U[left].is_leaf = l.is_leaf /\ U[right].is_leaf = r.is_leaf
  BY <1>5 DEF KeyReplaced, SameButEntries
<1> HIDE DEF l, r
<1>8. /\ a \in Seq(Int) /\ Len(a) = Len(l.keys) + Len(r.keys)
      /\ d \in Seq(Values) /\ Len(d) = Len(l.descendants) + Len(r.descendants)
  <2> DEFINE lk == l.keys
             rk == r.keys
             ld == l.descendants
             rd == r.descendants
  <2>1. /\ lk \in Seq(Int) /\ rk \in Seq(Int) /\ ld \in Seq(Values) /\ rd \in Seq(Values)
        /\ a = lk \o rk /\ d = ld \o rd
    BY <1>3, <1>4
  <2> HIDE DEF lk, rk, ld, rd
  <2>2. a \in Seq(Int) /\ Len(a) = Len(lk) + Len(rk)
    BY <2>1, ConcatProps
  <2>3. d \in Seq(Values) /\ Len(d) = Len(ld) + Len(rd)
    BY <2>1, ConcatProps
  <2> QED
    BY <2>2, <2>3 DEF lk, rk, ld, rd
<1>9. \A k, v : At(a, d, k, v)
                  <=> At(l.keys, l.descendants, k, v) \/ At(r.keys, r.descendants, k, v)
  BY <1>3, <1>4, AtConcat
<1>10. Len(d) = Len(a) /\ c \in 0 .. Len(a)
  <2>1. Len(d) = Len(a)
    BY <1>3, <1>8
  <2>2. Len(a) \in Nat
    <3>1. a \in Seq(Int)
      BY <1>8
    <3> QED
      BY <3>1
  <2>3. c \in 1 .. Len(a) - 1
    BY <1>4
  <2> QED
    BY <2>1, <2>2, <2>3
<1>11. \A k, v : At(a, d, k, v) <=> \/ At(U[left].keys, U[left].descendants, k, v)
                                    \/ At(U[right].keys, U[right].descendants, k, v)
  <2>1. a \in Seq(Int) /\ d \in Seq(Values) /\ Len(d) = Len(a) /\ c \in 0 .. Len(a)
    BY <1>8, <1>10
  <2>2. ASSUME NEW k, NEW v
        PROVE  At(a, d, k, v) <=>
                 \/ At(SubSeq(a, 1, c), SubSeq(d, 1, c), k, v)
                 \/ At(SubSeq(a, c + 1, Len(a)), SubSeq(d, c + 1, Len(a)), k, v)
    BY <2>1, AtParts
  <2> QED
    BY <1>6, <2>2
<1>12. Traded(T, U, left, right)
  <2>1. \A m : m # left /\ m # right => \A k, v : HasAt(U, m, k, v) <=> HasAt(T, m, k, v)
    BY <1>1, <1>4, <1>7 DEF HasAt, Has
  <2>2. \A k, v : HasAt(U, left, k, v) \/ HasAt(U, right, k, v)
                    <=> HasAt(T, left, k, v) \/ HasAt(T, right, k, v)
    BY <1>1, <1>2, <1>4, <1>7, <1>9, <1>11 DEF HasAt, Has, l, r
  <2> QED
    BY <2>1, <2>2 DEF Traded
<1> QED
  BY <1>12, TradeKeepsAll

LEMMA InnerMoveKeeps ==
  ASSUME NEW T, NEW root, NEW height, NEW range, WholeTree(T, root, height, range),
         NEW p, NEW i, NEW left, NEW right, NEW k_prime,
         Neighbors(T, height, range, p, i, left, right, k_prime), ~T[left].is_leaf,
         NEW U, NEW a, NEW d, NEW c, NodeMoved(T, U, p, i, left, right, k_prime, a, d, c)
  PROVE  SameHeld(T, U)
<1>1. /\ p \in DOMAIN T /\ left \in DOMAIN T /\ right \in DOMAIN T
      /\ ~T[p].is_leaf /\ height[left] = height[right]
  BY DEF Neighbors
<1>2. ~T[right].is_leaf
  BY <1>1, TreeFacts DEF WholeTree
<1>3. /\ DOMAIN U = DOMAIN T
      /\ \A m \in DOMAIN T \ {left, right, p} : SameNode(T, U, m)
  BY DEF NodeMoved
<1>4. /\ U[p].is_leaf = T[p].is_leaf /\ U[left].is_leaf = T[left].is_leaf
      /\ U[right].is_leaf = T[right].is_leaf
  BY DEF NodeMoved, KeyReplaced, SameButEntries
<1>5. LeavesSame(T, U)
  BY <1>1, <1>2, <1>3, <1>4 DEF LeavesSame, SameNode
<1> QED
  BY <1>5, SameRecords DEF SameHeld

(* What a call of delete_entry does to the records: the one for a leaf     *)
(* takes the record away, those further up keep all.                       *)
RemovalRepresents(T, c, S) ==
  LET R == Removed(T, c.node, c.key, c.descendant)
  IN IF T[c.node].is_leaf
     THEN c.key \in DOMAIN S /\ Represents(R, Without(S, c.key))
     ELSE Represents(R, S)

RecordsKept(T, S, c) ==
  /\ LeavesAreLeaves(T) /\ Represents(T, S)
  /\ c.fn = "delete_entry" => RemovalRepresents(T, c, S)

(* A leaf is to lose the record that the command asked to delete.          *)
Pending(T, c) == c.fn = "delete_entry" /\ T[c.node].is_leaf

(* The records are S and stay so, whatever calls follow.                   *)
RecordsSettled(T, S, c) == RecordsKept(T, S, c) /\ ~Pending(T, c)

LEMMA SettledByCalls ==
  ASSUME NEW T, NEW S, LeavesAreLeaves(T), Represents(T, S)
  PROVE  /\ RecordsSettled(T, S, NoCall) /\ RecordsSettled(T, S, Stopped)
         /\ \A l, k, r : RecordsSettled(T, S, InsertIntoParent(l, k, r))
         /\ \A n, k, d : /\ ~T[n].is_leaf
                         /\ Represents(Removed(T, n, k, d), S)
                         => RecordsSettled(T, S, DeleteEntry(n, k, d))
BY DEF RecordsSettled, Pending, RecordsKept, RemovalRepresents, NoCall, Stopped,
       InsertIntoParent, DeleteEntry

LEMMA KeptByRemoval ==
  ASSUME NEW T, NEW S, LeavesAreLeaves(T), Represents(T, S),
         NEW n, NEW k \in DOMAIN S, NEW d, T[n].is_leaf,
         Represents(Removed(T, n, k, d), Without(S, k))
  PROVE  RecordsKept(T, S, DeleteEntry(n, k, d))
BY DEF RecordsKept, RemovalRepresents, DeleteEntry

LEMMA FixKeeps ==
  ASSUME NEW T, NEW n \in DOMAIN T, Shaped(T, tree_root, n), n # tree_root,
         Len(T[n].keys) < MinKeys(T[n].is_leaf),
         FixNode(T, n), UNCHANGED tree_root,
         NEW S, Represents(T, S)
  PROVE  RecordsSettled(node', S, call')
<1> DEFINE p == T[n].parent
           index == PlaceOf(T[p].descendants, n) - 1
           i == IF index = 0 THEN 1 ELSE index
           k_prime == T[p].keys[i]
           neighbor == T[p].descendants[IF index = 0 THEN 2 ELSE index]
           left == IF index = 0 THEN n ELSE neighbor
           right == IF index = 0 THEN neighbor ELSE n
           entries == Len(T[n].keys) + Len(T[neighbor].keys)
           root == tree_root
<1>1. PICK height, range : WholeTree(T, root, height, range)
  BY DEF Shaped
<1>2. Occupied(T, root, n) /\ LeavesAreLeaves(T)
  BY <1>1, TreeLeaves DEF Shaped, WholeTree
<1>3. Fixed(T, n, p, index, i, left, right, neighbor, k_prime)
  BY DEF Fixed
<1>4. \/ /\ entries < Capacity(T[n].is_leaf)
         /\ node' = CoalesceNodes(T, left, right, k_prime)
         /\ call' = DeleteEntry(p, k_prime, right)
      \/ /\ entries >= Capacity(T[n].is_leaf)
         /\ RedistributeNodes(T, n, neighbor, index, k_prime)
  BY DEF FixNode
<1>5. entries = Entries(T, n, neighbor)
  BY DEF Entries
<1> HIDE DEF p, index, i, k_prime, neighbor, left, right, entries
<1>6. InPlace(T, root, height, range, n, p, index, i, left, right, neighbor, k_prime)
  BY <1>1, <1>2, <1>3, FixedInPlace
<1>7. Neighbors(T, height, range, p, i, left, right, k_prime)
      /\ T[left].is_leaf = T[n].is_leaf
  BY <1>6 DEF InPlace
<1>8. CASE /\ node' = CoalesceNodes(T, left, right, k_prime)
           /\ call' = DeleteEntry(p, k_prime, right)
  <2>1. /\ SameHeld(T, node') /\ LeavesAreLeaves(node') /\ ~node'[p].is_leaf
        /\ SameHeld(T, JoinedTree(T, p, left, right, k_prime))
    BY <1>1, <1>7, <1>8, JoinKeeps
  <2>2. Represents(node', S) /\ Represents(Removed(node', p, k_prime, right), S)
    BY <1>8, <2>1, StillRepresents DEF JoinedTree
  <2> QED
    BY <1>8, <2>1, <2>2, SettledByCalls
<1>9. CASE /\ entries >= Capacity(T[n].is_leaf)
           /\ RedistributeNodes(T, n, neighbor, index, k_prime)
  <2>1. Lacking(T, n, neighbor)
    BY <1>5, <1>9 DEF Lacking
  <2>2. ASSUME SameHeld(T, node'), \E h, r : WholeTree(node', root, h, r), call' = NoCall
        PROVE  RecordsSettled(node', S, call')
    <3>1. LeavesAreLeaves(node')
      BY <2>2, TreeLeaves DEF WholeTree
    <3>2. Represents(node', S)
      BY <2>2, StillRepresents
    <3> QED
      BY <2>2, <3>1, <3>2, SettledByCalls
  <2>3. CASE index = 0 /\ node' = FromRight(T, n, neighbor, 1, k_prime) /\ call' = NoCall
    <3>1. CASE T[n].is_leaf
      <4>1. /\ \E h, r : WholeTree(node', root, h, r)
            /\ \E k, d, c : LeafMoved(T, node', p, i, left, right, k, d, c)
        BY <1>1, <1>6, <2>1, <2>3, <3>1, LeafFromRight
      <4>2. SameHeld(T, node')
        BY <1>1, <1>7, <3>1, <4>1, MoveKeeps
      <4> QED
        BY <2>2, <2>3, <4>1, <4>2
    <3>2. CASE ~T[n].is_leaf
      <4>1. /\ \E h, r : WholeTree(node', root, h, r)
            /\ \E k, d, c : NodeMoved(T, node', p, i, left, right, k_prime, k, d, c)
        BY <1>1, <1>6, <2>1, <2>3, <3>2, NodeFromRight
      <4>2. SameHeld(T, node')
        BY <1>1, <1>7, <3>2, <4>1, InnerMoveKeeps
      <4> QED
        BY <2>2, <2>3, <4>1, <4>2
    <3> QED
      BY <3>1, <3>2
  <2>4. CASE /\ index # 0 /\ T[n].is_leaf
             /\ node' = FromLeft(T, n, neighbor, index)
             /\ call' = NoCall
    <3>1. /\ \E h, r : WholeTree(node', root, h, r)
          /\ \E k, d, c : LeafMoved(T, node', p, i, left, right, k, d, c)
      BY <1>1, <1>6, <2>1, <2>4, LeafFromLeft
    <3>2. SameHeld(T, node')
      BY <1>1, <1>7, <2>4, <3>1, MoveKeeps
    <3> QED
      BY <2>2, <2>4, <3>1, <3>2
  <2>5. CASE node' = T /\ call' = Stopped
    BY <1>2, <2>5, SettledByCalls
  <2> QED
    BY <1>9, <2>3, <2>4, <2>5 DEF RedistributeNodes
<1> QED
  BY <1>4, <1>8, <1>9

(* The records after the call of delete_entry that is due.                 *)
AfterDeletion(S) == IF node[call.node].is_leaf THEN Without(S, call.key) ELSE S

LEMMA DeletionKeeps ==
  ASSUME InOrder(node, tree_root, call), CallDeleteEntry,
         NEW S, RecordsKept(node, S, call)
  PROVE  RecordsSettled(node', AfterDeletion(S), call')
<1> DEFINE n == call.node
           T == RemoveEntryFromNode(n, call.key, call.descendant)
           enough == Len(T[n].keys) >= MinKeys(T[n].is_leaf)
           A == AfterDeletion(S)
<1>1. /\ call.fn = "delete_entry"
      /\ \/ /\ n = tree_root
            /\ AdjustRoot(T, n)
            /\ call' = NoCall
         \/ /\ n # tree_root /\ enough
            /\ node' = T /\ call' = NoCall
            /\ UNCHANGED tree_root
         \/ /\ n # tree_root /\ ~enough
            /\ FixNode(T, n)
            /\ UNCHANGED tree_root
  BY DEF CallDeleteEntry
<1>2. T = Removed(node, n, call.key, call.descendant)
  BY DEF RemoveEntryFromNode, Removed, Left, PointersWithout
<1>3. n \in DOMAIN T /\ Shaped(T, tree_root, n)
  BY <1>1, <1>2 DEF InOrder, RemovedShaped
<1>4. Represents(T, A)
  BY <1>1, <1>2 DEF RecordsKept, RemovalRepresents, AfterDeletion
<1> HIDE DEF n, T, A
<1>5. PICK height, range : WholeTree(T, tree_root, height, range)
  BY <1>3 DEF Shaped
<1>6. LeavesAreLeaves(T)
  BY <1>5, TreeLeaves DEF WholeTree
<1>7. CASE n = tree_root /\ AdjustRoot(T, n) /\ call' = NoCall
  <2>1. SameHeld(T, node') /\ LeavesAreLeaves(node')
    BY <1>3, <1>7, RootKeeps
  <2>2. Represents(node', A)
    BY <1>4, <2>1, StillRepresents
  <2> QED
    BY <1>7, <2>1, <2>2, SettledByCalls DEF A
<1>8. CASE node' = T /\ call' = NoCall
  BY <1>4, <1>6, <1>8, SettledByCalls DEF A
<1>9. CASE n # tree_root /\ ~enough /\ FixNode(T, n) /\ UNCHANGED tree_root
  <2>1. Len(T[n].keys) < MinKeys(T[n].is_leaf)
    <3>1. T[n].is_leaf \in BOOLEAN /\ Len(T[n].keys) \in Nat
      BY <1>3, <1>5, TreeFacts DEF WholeTree, IsNode
    <3> DEFINE x == Len(T[n].keys)
               y == MinKeys(T[n].is_leaf)
    <3>2. x \in Nat /\ y \in 1 .. order - 1 /\ ~(x >= y) /\ order \in Nat
      BY <1>9, <3>1, MinKeysRange, OrderAssumption
    <3> HIDE DEF x, y
    <3>3. x < y
      BY <3>2
    <3> QED
      BY <3>3 DEF x, y
  <2> QED
    BY <1>3, <1>4, <1>9, <2>1, FixKeeps DEF A
<1> QED
  BY <1>1, <1>7, <1>8, <1>9

(* What is found in a tree, and in none.                                   *)
LEMMA FoundIsRecord ==
  ASSUME Standing(node, tree_root), NEW key \in Int, NEW S, Represents(node, S)
  PROVE  Find(key) = IF key \in DOMAIN S THEN S[key] ELSE NULL
<1>1. CASE tree_root = NULL
  <2>1. DOMAIN node = {} /\ Find(key) = NULL
    BY <1>1 DEF Standing, Find
  <2>2. ~Holds(node, key, S[key])
    BY <2>1 DEF Holds
  <2> QED
    BY <2>1, <2>2 DEF Represents
<1>2. CASE tree_root # NULL
  <2>1. PICK height, range : WholeTree(node, tree_root, height, range)
    BY <1>2 DEF Standing, Shaped
  <2> QED
    BY <2>1, FoundIsHeld
<1> QED
  BY <1>1, <1>2

LEMMA InsertionKeeps ==
  ASSUME call = NoCall, Standing(node, tree_root), NEW key \in Int, NEW value \in Values,
         Insert(key, value), NEW S, RecordsKept(node, S, call)
  PROVE  \/ key \in DOMAIN S /\ UNCHANGED treeVars
         \/ key \notin DOMAIN S /\ RecordsSettled(node', WithRecord(S, key, value), call')
<1>1. CASE Find(key) # NULL
  <2>1. key \in DOMAIN S
    BY <1>1, FoundIsRecord DEF RecordsKept
  <2> QED
    BY <1>1, <2>1 DEF Insert
<1>2. CASE Find(key) = NULL
  <2>1. Represents(node, S)
    BY DEF RecordsKept
  <2>2. key \notin DOMAIN S
    <3>1. CASE tree_root = NULL
      <4>1. DOMAIN node = {}
        BY <3>1 DEF Standing
      <4>2. ~Holds(node, key, S[key])
        BY <4>1 DEF Holds
      <4> QED
        BY <2>1, <4>2 DEF Represents
    <3>2. CASE tree_root # NULL
      <4>1. PICK height, range : WholeTree(node, tree_root, height, range)
        BY <3>2 DEF Standing, Shaped
      <4> QED
        BY <1>2, <2>1, <4>1, FoundIsHeld
    <3> QED
      BY <3>1, <3>2
  <2>3. ASSUME OneMoreRecord(node, node', key, value), LeavesAreLeaves(node'),
               call' = NoCall \/ \E l, k, r : call' = InsertIntoParent(l, k, r)
        PROVE  RecordsSettled(node', WithRecord(S, key, value), call')
    <3>1. Represents(node', WithRecord(S, key, value))
      BY <2>1, <2>2, <2>3, RecordAdded
    <3> QED
      BY <2>3, <3>1, SettledByCalls
  <2>4. CASE StartNewTree(key, value)
    <3>1. DOMAIN node = {} /\ call' = NoCall
      BY <2>4 DEF Standing, StartNewTree
    <3>2. OneMoreRecord(node, node', key, value) /\ LeavesAreLeaves(node')
      BY <2>4, <3>1, NewTreeAdds
    <3> QED
      BY <2>2, <2>3, <3>1, <3>2
  <2>5. CASE /\ tree_root # NULL
             /\ \/ InsertIntoLeaf(FindLeaf(key), key, value)
                \/ InsertIntoLeafAfterSplitting(FindLeaf(key), key, value)
    <3> DEFINE n == FindLeaf(key)
    <3>1. PICK height, range : WholeTree(node, tree_root, height, range)
      BY <2>5 DEF Standing, Shaped
    <3>2. Occupied(node, tree_root, NULL)
      BY <2>5 DEF Standing, Shaped
    <3>3. n \in Leaves
      BY <3>1, Searched
    <3> HIDE DEF n
    <3>4. CASE InsertIntoLeaf(n, key, value)
      <4>1. OneMoreRecord(node, node', key, value) /\ LeavesAreLeaves(node')
        BY <3>1, <3>3, <3>4, LeafInsertionAdds
      <4>2. call' = NoCall
        BY <3>4 DEF InsertIntoLeaf
      <4> QED
        BY <2>2, <2>3, <4>1, <4>2
    <3>5. CASE InsertIntoLeafAfterSplitting(n, key, value)
      <4>1. OneMoreRecord(node, node', key, value) /\ LeavesAreLeaves(node')
        BY <3>1, <3>2, <3>3, <3>5, LeafOverflowAdds
      <4>2. \E l, k, r : call' = InsertIntoParent(l, k, r)
        BY <3>5 DEF InsertIntoLeafAfterSplitting
      <4> QED
        BY <2>2, <2>3, <4>1, <4>2
    <3> QED
      BY <2>5, <3>4, <3>5 DEF n
  <2> QED
    BY <1>2, <2>4, <2>5 DEF Insert
<1> QED
  BY <1>1, <1>2

(* Delete only makes the call that takes the record out of its leaf.       *)
LEMMA DeletionPromised ==
  ASSUME call = NoCall, Standing(node, tree_root), NEW key \in Int, Delete(key),
         NEW S, RecordsKept(node, S, call), OneKeyPerValue(S)
  PROVE  \/ key \notin DOMAIN S /\ UNCHANGED treeVars
         \/ /\ key \in DOMAIN S /\ node' = node
            /\ RecordsKept(node', S, call') /\ Pending(node', call') /\ call'.key = key
<1> DEFINE n == FindLeaf(key)
           keys == node[n].keys
           i == PlaceOf(keys, key)
           value == Find(key)
<1>1. /\ tree_root # NULL /\ node' = node /\ tree_root' = tree_root
      /\ call' = IF value = NULL THEN call ELSE DeleteEntry(n, key, value)
  BY DEF Delete
<1>2. LeavesAreLeaves(node) /\ Represents(node, S)
  BY DEF RecordsKept
<1>3. PICK height, range : WholeTree(node, tree_root, height, range)
  BY <1>1 DEF Standing, Shaped
<1>4. CASE value = NULL
  <2>1. key \notin DOMAIN S
    BY <1>2, <1>3, <1>4, FoundIsHeld
  <2> QED
    BY <1>1, <1>4, <2>1 DEF treeVars
<1>5. CASE value # NULL
  <2>1. n \in Leaves
    BY <1>3, Searched
  <2>2. i \in 1 .. Len(keys) /\ keys[i] = key /\ node[n].descendants[i] = value
    BY <1>3, <1>5, FindProps
  <2>3. key \in DOMAIN S
    BY <1>2, <1>3, <1>5, FoundIsHeld
  <2> HIDE DEF n, i, value
  <2>4. Represents(Removed(node, n, key, value), Without(S, key))
    BY <1>2, <1>3, <2>1, <2>2, LeafRemovalTakes
  <2>5. RecordsKept(node, S, DeleteEntry(n, key, value))
    BY <1>2, <2>1, <2>3, <2>4, KeptByRemoval DEF Leaves
  <2>6. Pending(node, DeleteEntry(n, key, value)) /\ DeleteEntry(n, key, value).key = key
    BY <2>1 DEF Pending, DeleteEntry, Leaves
  <2> QED
    BY <1>1, <1>5, <2>3, <2>5, <2>6
<1> QED
  BY <1>4, <1>5

-----------------------------------------------------------------------------
(* The inputs for which the store is a map.  delete_entry looks for the    *)
(* value of a record by itself, so where two keys have the same value it   *)
(* may take the other one's.                                               *)
DistinctValues ==
  \A i \in Inputs : \A c, d \in UNION Range(i.lines) :
    c.do = "i" /\ d.do = "i" /\ c.value = d.value => c.key = d.key

Offered(i, k, v) ==
  \E c \in UNION Range(i.lines) : c.do = "i" /\ c.key = k /\ c.value = v

AllOffered(i, S) == \A k \in DOMAIN S : Offered(i, k, S[k])

(* The inductive invariant: the leaves hold the records, and every record  *)
(* came from the input.                                                    *)
RecordsInv ==
  /\ TreeInv
  /\ RecordsKept(node, Records, call)
  /\ AllOffered(input, Records)

LEMMA RecordsOfNode ==
  /\ Records = RecordsOf(node) /\ Records' = RecordsOf(node')
  /\ Records = [k \in DOMAIN Records |-> Records[k]]
BY DEF Records, RecordsOf, Leaves

LEMMA NextRecords ==
  ASSUME NEW S, S = [k \in DOMAIN S |-> S[k]], NEW c, RecordsKept(node', S, c)
  PROVE  Records' = S
<1>1. RecordsOf(node') = S
  BY RecordsAre DEF RecordsKept
<1> QED
  BY <1>1, RecordsOfNode

LEMMA OneKeyEach ==
  ASSUME DistinctValues, RecordsInv
  PROVE  OneKeyPerValue(Records)
<1> SUFFICES ASSUME NEW k \in DOMAIN Records, NEW l \in DOMAIN Records,
                    Records[k] = Records[l]
             PROVE  k = l
  BY DEF OneKeyPerValue
<1>1. PICK c \in UNION Range(input.lines) : c.do = "i" /\ c.key = k /\ c.value = Records[k]
  BY DEF RecordsInv, AllOffered, Offered
<1>2. PICK d \in UNION Range(input.lines) : d.do = "i" /\ d.key = l /\ d.value = Records[l]
  BY DEF RecordsInv, AllOffered, Offered
<1>3. input \in Inputs
  BY DEF RecordsInv, TreeInv
<1> QED
  BY <1>1, <1>2, <1>3 DEF DistinctValues

(* The abstract map: the records without the one that is due to go.        *)
LEMMA StoredIs ==
  /\ Pending(node, call) => Stored = Without(Records, call.key)
  /\ ~Pending(node, call) => Stored = Records
BY DEF Pending, Stored, Restrict, Without

LEMMA StoredNext ==
  /\ Pending(node', call') => Stored' = Without(Records', call'.key)
  /\ ~Pending(node', call') => Stored' = Records'
BY DEF Pending, Stored, Restrict, Without

LEMMA StoredUnchanged ==
  ASSUME UNCHANGED treeVars
  PROVE  Records' = Records /\ Stored' = Stored
<1>1. node' = node /\ call' = call
  BY DEF treeVars
<1>2. Records' = Records
  BY <1>1 DEF Records, Leaves
<1>3. Pending(node', call') = Pending(node, call)
  BY <1>1
<1> QED
  BY <1>1, <1>2, <1>3, StoredIs, StoredNext

(* The records after a step, and what the abstract map does in it.         *)
StepOfMap ==
  /\ [Abstract!Next]_<<Stored, s_in, found>>
  /\ RecordsKept(node', Records', call')
  /\ AllOffered(input', Records')

LEMMA SameOffered ==
  ASSUME RecordsInv, input' = input, DOMAIN Records' \subseteq DOMAIN Records,
         \A k \in DOMAIN Records' : Records'[k] = Records[k]
  PROVE  AllOffered(input', Records')
BY DEF RecordsInv, AllOffered, Offered

(* A call that adds to what the command did for the map: nothing.          *)
LEMMA CallOnRecords ==
  ASSUME RecordsInv, UNCHANGED <<input, s_in, found>>,
         RecordsSettled(node', Stored, call')
  PROVE  StepOfMap
<1>1. Stored = [k \in DOMAIN Stored |-> Stored[k]] /\ DOMAIN Stored \subseteq DOMAIN Records
      /\ \A k \in DOMAIN Stored : Stored[k] = Records[k]
  BY StoredIs, RecordsOfNode DEF Without
<1>2. Records' = Stored
  BY <1>1, NextRecords DEF RecordsSettled
<1>3. Stored' = Stored
  BY <1>2, StoredNext DEF RecordsSettled
<1>4. AllOffered(input', Records')
  BY <1>1, <1>2, SameOffered
<1> QED
  BY <1>2, <1>3, <1>4 DEF StepOfMap, RecordsSettled

LEMMA CommandAsked ==
  ASSUME RecordsInv, Command
  PROVE  \E c \in Commands : /\ Execute(c) /\ s_in' = c
                             /\ c \in UNION Range(input.lines)
                             /\ c.key \in Int /\ (c.do = "i" => c.value \in Values)
<1>1. line <= Len(input.lines) /\ input \in Inputs /\ line \in Nat \ {0}
  BY DEF Command, RecordsInv, TreeInv
<1>2. PICK c \in input.lines[line] : Execute(c) /\ s_in' = c
  BY DEF Command
<1>3. c.key \in Int /\ (c.do = "i" => c.value \in Values)
  BY <1>1, CommandProps
<1>4. input.lines \in Seq(SUBSET Commands)
  BY <1>1, InputsAssumption
<1>5. line \in DOMAIN input.lines
  BY <1>1, <1>4
<1>6. c \in UNION Range(input.lines)
  BY <1>2, <1>5 DEF Range
<1>7. c \in Commands
  BY <1>1, <1>6 DEF Commands
<1> QED
  BY <1>2, <1>3, <1>6, <1>7

LEMMA InsertionOnRecords ==
  ASSUME RecordsInv, call = NoCall, Standing(node, tree_root), Stored = Records,
         input' = input, NEW c \in Commands, c \in UNION Range(input.lines), s_in' = c,
         c.key \in Int, c.value \in Values, c.do = "i", Insert(c.key, c.value), found' = NULL
  PROVE  StepOfMap
<1> DEFINE S == [k \in DOMAIN Records \cup {c.key} |->
                   IF k \in DOMAIN Records THEN Records[k] ELSE c.value]
<1>1. RecordsKept(node, Records, call) /\ Records = [k \in DOMAIN Records |-> Records[k]]
  BY RecordsOfNode DEF RecordsInv
<1>2. /\ S = [k \in DOMAIN S |-> S[k]] /\ DOMAIN S = DOMAIN Records \cup {c.key}
      /\ \A k \in DOMAIN Records : S[k] = Records[k]
      /\ c.key \notin DOMAIN Records => S[c.key] = c.value
  OBVIOUS
<1>3. RecordsSettled(node', S, call')
  <2>1. CASE c.key \in DOMAIN Records /\ UNCHANGED treeVars
    <3>1. S = Records
      BY <1>1, <2>1
    <3>2. RecordsSettled(node, Records, NoCall)
      BY <1>1, SettledByCalls DEF RecordsKept
    <3> QED
      BY <2>1, <3>1, <3>2 DEF treeVars
  <2>2. CASE /\ c.key \notin DOMAIN Records
             /\ RecordsSettled(node', WithRecord(Records, c.key, c.value), call')
    <3>1. S = WithRecord(Records, c.key, c.value)
      BY <2>2 DEF WithRecord
    <3> QED
      BY <2>2, <3>1
  <2> QED
    BY <1>1, <2>1, <2>2, InsertionKeeps
<1> HIDE DEF S
<1>4. Records' = S
  BY <1>2, <1>3, NextRecords DEF RecordsSettled
<1>5. Stored' = S
  BY <1>3, <1>4, StoredNext DEF RecordsSettled
<1>6. Abstract!Next
  <2>1. Abstract!Insert(c)
    BY <1>5 DEF Abstract!Insert, S
  <2> QED
    BY <2>1 DEF Abstract!Next
<1>7. AllOffered(input', Records')
  <2>1. Offered(input, c.key, c.value)
    BY DEF Offered
  <2> QED
    BY <1>2, <1>4, <2>1 DEF RecordsInv, AllOffered
<1> QED
  BY <1>3, <1>4, <1>6, <1>7 DEF StepOfMap, RecordsSettled

LEMMA DeletionAsked ==
  ASSUME DistinctValues, RecordsInv, call = NoCall, Standing(node, tree_root), Stored = Records,
         input' = input, NEW c \in Commands, s_in' = c, c.key \in Int, c.do = "d",
         Delete(c.key) \/ (tree_root = NULL /\ UNCHANGED treeVars), found' = NULL
  PROVE  StepOfMap
<1>1. RecordsKept(node, Records, call) /\ Records = [k \in DOMAIN Records |-> Records[k]]
  BY RecordsOfNode DEF RecordsInv
<1>2. /\ RecordsKept(node', Records, call') /\ node' = node
      /\ Stored' = Without(Records, c.key)
  <2>1. CASE c.key \notin DOMAIN Records /\ UNCHANGED treeVars
    <3>1. Without(Records, c.key) = Records
      <4>1. DOMAIN Records \ {c.key} = DOMAIN Records
        BY <2>1
      <4> QED
        BY <1>1, <4>1 DEF Without
    <3>2. Stored' = Stored
      BY <2>1, StoredUnchanged
    <3> QED
      BY <1>1, <2>1, <3>1, <3>2 DEF treeVars
  <2>2. CASE /\ node' = node
             /\ RecordsKept(node', Records, call') /\ Pending(node', call')
             /\ call'.key = c.key
    <3>1. Records' = Records
      BY <1>1, <2>2, NextRecords
    <3> QED
      BY <2>2, <3>1, StoredNext
  <2>3. CASE Delete(c.key)
    BY <1>1, <2>1, <2>2, <2>3, OneKeyEach, DeletionPromised
  <2>4. CASE tree_root = NULL /\ UNCHANGED treeVars
    <3>1. DOMAIN node = {}
      BY <2>4 DEF Standing
    <3>2. ~Holds(node, c.key, Records[c.key])
      BY <3>1 DEF Holds
    <3>3. c.key \notin DOMAIN Records
      BY <1>1, <3>2 DEF RecordsKept, Represents
    <3> QED
      BY <2>1, <2>4, <3>3
  <2> QED
    BY <2>3, <2>4
<1>3. Records' = Records
  BY <1>1, <1>2, NextRecords
<1>4. Abstract!Next
  <2>1. Abstract!Delete(c)
    BY <1>2 DEF Abstract!Delete, Abstract!Restrict, Without
  <2> QED
    BY <2>1 DEF Abstract!Next
<1> QED
  BY <1>2, <1>3, <1>4, SameOffered DEF StepOfMap

LEMMA SearchOnRecords ==
  ASSUME RecordsInv, call = NoCall, Standing(node, tree_root), Stored = Records,
         input' = input, NEW c \in Commands, s_in' = c, c.key \in Int, c.do = "f",
         found' = Find(c.key), UNCHANGED treeVars
  PROVE  StepOfMap
<1>1. RecordsKept(node, Records, call)
  BY DEF RecordsInv
<1>2. Find(c.key) = IF c.key \in DOMAIN Records THEN Records[c.key] ELSE NULL
  BY <1>1, FoundIsRecord DEF RecordsKept
<1>3. Records' = Records /\ Stored' = Stored
  BY StoredUnchanged
<1>4. Abstract!Next
  <2>1. Abstract!Find(c)
    BY <1>2, <1>3 DEF Abstract!Find
  <2> QED
    BY <2>1 DEF Abstract!Next
<1> QED
  BY <1>1, <1>3, <1>4, SameOffered DEF StepOfMap, treeVars

LEMMA CommandOnRecords ==
  ASSUME DistinctValues, RecordsInv, Command
  PROVE  StepOfMap
<1>1. /\ call = NoCall /\ input' = input /\ Standing(node, tree_root)
      /\ RecordsKept(node, Records, call)
  BY DEF Command, RecordsInv, TreeInv, InOrder, NoCall
<1>2. Stored = Records
  BY <1>1, StoredIs DEF Pending, NoCall
<1>3. PICK c \in Commands : /\ Execute(c) /\ s_in' = c
                            /\ c \in UNION Range(input.lines)
                            /\ c.key \in Int /\ (c.do = "i" => c.value \in Values)
  BY CommandAsked
<1>4. CASE c.do = "i" /\ Insert(c.key, c.value) /\ found' = NULL
  BY <1>1, <1>2, <1>3, <1>4, InsertionOnRecords
<1>5. CASE c.do = "d" /\ Delete(c.key) /\ found' = NULL
  BY <1>1, <1>2, <1>3, <1>5, DeletionAsked
<1>6. CASE c.do = "d" /\ tree_root = NULL /\ UNCHANGED treeVars /\ found' = NULL
  BY <1>1, <1>2, <1>3, <1>6, DeletionAsked
<1>7. CASE c.do = "f" /\ found' = Find(c.key) /\ UNCHANGED treeVars
  BY <1>1, <1>2, <1>3, <1>7, SearchOnRecords
<1> QED
  BY <1>3, <1>4, <1>5, <1>6, <1>7 DEF Execute

LEMMA ParentOnRecords ==
  ASSUME RecordsInv, CallInsertIntoParent
  PROVE  StepOfMap
<1>1. /\ call.fn = "insert_into_parent" /\ UNCHANGED <<input, s_in, found>>
      /\ RecordsKept(node, Records, call)
      /\ SplitShaped(node, tree_root, call.left, call.key, call.right)
  BY DEF CallInsertIntoParent, RecordsInv, TreeInv, InOrder
<1>2. LeavesAreLeaves(node') /\ Represents(node', Records)
  BY <1>1, ParentInsertionKeeps, SameRecords DEF RecordsKept, Represents
<1>3. call' = NoCall \/ \E l, k, r : call' = InsertIntoParent(l, k, r)
  BY DEF CallInsertIntoParent, InsertIntoNewRoot, InsertIntoNode, InsertIntoNodeAfterSplitting
<1>4. RecordsSettled(node', Records, call')
  BY <1>2, <1>3, SettledByCalls
<1>5. Stored = Records
  BY <1>1, StoredIs DEF Pending
<1> QED
  BY <1>1, <1>4, <1>5, CallOnRecords

LEMMA DeletionOnRecords ==
  ASSUME RecordsInv, CallDeleteEntry
  PROVE  StepOfMap
<1>1. /\ call.fn = "delete_entry" /\ UNCHANGED <<input, s_in, found>>
      /\ RecordsKept(node, Records, call) /\ InOrder(node, tree_root, call)
  BY DEF CallDeleteEntry, RecordsInv, TreeInv
<1>2. RecordsSettled(node', AfterDeletion(Records), call')
  BY <1>1, DeletionKeeps
<1>3. Stored = AfterDeletion(Records)
  BY <1>1, StoredIs DEF Pending, AfterDeletion
<1> QED
  BY <1>1, <1>2, <1>3, CallOnRecords

(* Every step of the tree is a step of the map or none.                    *)
LEMMA StepOnRecords ==
  ASSUME DistinctValues, RecordsInv, [Next]_vars
  PROVE  StepOfMap
<1>1. CASE Command
  BY <1>1, CommandOnRecords
<1>2. CASE CallInsertIntoParent
  BY <1>2, ParentOnRecords
<1>3. CASE CallDeleteEntry
  BY <1>3, DeletionOnRecords
<1>4. CASE UNCHANGED vars
  <2>1. Records' = Records /\ Stored' = Stored
    BY <1>4, StoredUnchanged DEF vars, treeVars
  <2> QED
    BY <1>4, <2>1 DEF vars, RecordsInv, StepOfMap, AllOffered, Offered
<1> QED
  BY <1>1, <1>2, <1>3, <1>4 DEF Next

LEMMA NoRecords ==
  ASSUME Init
  PROVE  /\ RecordsKept(node, Records, call) /\ AllOffered(input, Records)
         /\ Abstract!Init
<1> DEFINE S == [k \in {} |-> NULL]
<1>1. /\ DOMAIN node = {} /\ call = NoCall /\ found = NULL /\ s_in = NULL
      /\ S = [k \in DOMAIN S |-> S[k]] /\ DOMAIN S = {}
  BY DEF Init
<1> HIDE DEF S
<1>2. \A k, v : ~Holds(node, k, v)
  BY <1>1 DEF Holds
<1>3. LeavesAreLeaves(node) /\ Represents(node, S)
  BY <1>1, <1>2 DEF LeavesAreLeaves, Represents
<1>4. Records = S
  BY <1>1, <1>3, RecordsAre, RecordsOfNode
<1>5. RecordsSettled(node, Records, call)
  BY <1>1, <1>3, <1>4, SettledByCalls
<1>6. Stored = Records
  BY <1>5, StoredIs DEF RecordsSettled
<1>7. Abstract!Init
  BY <1>1, <1>4, <1>6 DEF Abstract!Init, S
<1> QED
  BY <1>1, <1>4, <1>5, <1>7 DEF AllOffered, RecordsSettled

LEMMA RecordsInvHolds ==
  ASSUME DistinctValues
  PROVE  Spec => []RecordsInv
<1>1. Init /\ TreeInv => RecordsInv
  BY NoRecords DEF RecordsInv
<1>2. RecordsInv /\ TreeInv' /\ [Next]_vars => RecordsInv'
  <2> SUFFICES ASSUME RecordsInv, TreeInv', [Next]_vars PROVE RecordsInv'
    OBVIOUS
  <2>1. StepOfMap
    BY StepOnRecords
  <2> QED
    BY <2>1 DEF StepOfMap, RecordsInv
<1> QED
  BY <1>1, <1>2, TreeInvHolds, PTL DEF Spec

(* The tree implements the map (MapSpec), where no two keys get the same   *)
(* value: a command inserts, deletes or finds the record of its own key,   *)
(* and none of the splits, joins and redistributions that follow adds to   *)
(* that or changes a record.                                               *)
THEOREM MapSpecHolds ==
  ASSUME DistinctValues
  PROVE  Spec => MapSpec
<1>1. Init => Abstract!Init
  BY NoRecords
<1>2. RecordsInv /\ [Next]_vars => [Abstract!Next]_<<Stored, s_in, found>>
  BY StepOnRecords DEF StepOfMap
<1> QED
  BY <1>1, <1>2, RecordsInvHolds, PTL DEF Spec, MapSpec, Abstract!Spec, Abstract!vars

(* No call of delete_entry takes or changes the record of another key      *)
(* (OtherRecordsKept), where no two keys get the same value.               *)
THEOREM OtherRecordsKeptHolds ==
  ASSUME DistinctValues
  PROVE  Spec => OtherRecordsKept
<1> DEFINE Kept == call.fn = "delete_entry" =>
                     \A k \in DOMAIN Records \ {call.key} :
                       k \in DOMAIN Records' /\ Records'[k] = Records[k]
<1>1. RecordsInv /\ [Next]_vars => [Kept]_vars
  <2> SUFFICES ASSUME RecordsInv, Next, call.fn = "delete_entry",
                      NEW k \in DOMAIN Records \ {call.key}
               PROVE  k \in DOMAIN Records' /\ Records'[k] = Records[k]
    OBVIOUS
  <2>1. CallDeleteEntry
    BY DEF Next, Command, CallInsertIntoParent, NoCall
  <2>2. RecordsKept(node', AfterDeletion(Records), call')
    BY <2>1, DeletionKeeps DEF RecordsInv, TreeInv, RecordsSettled
  <2>3. /\ AfterDeletion(Records) = [l \in DOMAIN AfterDeletion(Records) |->
                                       AfterDeletion(Records)[l]]
        /\ k \in DOMAIN AfterDeletion(Records) /\ AfterDeletion(Records)[k] = Records[k]
    BY RecordsOfNode DEF AfterDeletion, Without
  <2>4. Records' = AfterDeletion(Records)
    BY <2>2, <2>3, NextRecords
  <2> QED
    BY <2>3, <2>4
<1> QED
  BY <1>1, RecordsInvHolds, PTL DEF Spec, OtherRecordsKept
=============================================================================
