----------------------------- MODULE HeapProofs -----------------------------
(***************************************************************************)
(* Theorems about Heap.tla, for every size of the array and of the         *)
(* objects that HeapAssumption admits.                                     *)
(*                                                                         *)
(* The argument is one inductive invariant, HeapInv.  Only three things    *)
(* ever change the chain of blocks: a block is split (AllocBlock), a block *)
(* is merged into the free one before it (PurgeFree) or dissolved into the *)
(* end of the heap (PurgeTail).  A lemma for each says that the chain      *)
(* still tiles the array; the other actions leave sizes alone.  That the   *)
(* heap implements BlockStore then follows step by step.                   *)
(***************************************************************************)
EXTENDS Heap, TLAPS

-----------------------------------------------------------------------------
(* Helpers *)

(* What the type invariant says of one block.                              *)
LEMMA BlockType ==
  ASSUME TypeOK, NEW b \in Blocks
  PROVE  /\ b \in Nat
         /\ size[b] \in 0 .. HEAP_MAX_BLOCK_SIZE
         /\ size[b] \in Nat
         /\ flags[b] \in {"free"} \cup Colours
         /\ After(b) \in Nat
         /\ b < After(b)
<1>1. b \in Nat /\ size[b] \in 0 .. HEAP_MAX_BLOCK_SIZE
  BY DEF TypeOK
<1>2. flags[b] \in {"free"} \cup Colours
  BY DEF TypeOK
<1> QED
  BY <1>1, <1>2, HeapAssumption DEF After, FULL_BLOCK_SIZE, HEAP_HEAD_SIZE

(* A number that fits the size byte survives being stored in it.           *)
LEMMA ByteIsIdentity ==
  ASSUME NEW n \in 0 .. HEAP_MAX_BLOCK_SIZE
  PROVE  Byte(n) = n
BY HeapAssumption DEF Byte

(* The chain of blocks: the part of the invariant that only size and the   *)
(* free bits of flags bear on.                                             *)
Chain == Tiling /\ HeaderInArray /\ Sizes

(* Recolouring blocks without freeing or using any keeps the chain.        *)
LEMMA RecolourKeepsChain ==
  ASSUME Chain,
         size' = size,
         \A b \in Blocks : flags[b] = "free" => flags'[b] = "free"
  PROVE  Chain' /\ Blocks' = Blocks
<1>1. Blocks' = Blocks
  BY DEF Blocks
<1>2. \A b \in Blocks : After(b)' = After(b)
  BY DEF After, FULL_BLOCK_SIZE
<1>3. Tiling'
  BY <1>1, <1>2 DEF Chain, Tiling
<1>4. HeaderInArray' /\ Sizes'
  BY <1>1 DEF Chain, HeaderInArray, Sizes
<1> QED
  BY <1>1, <1>3, <1>4 DEF Chain

(* Merging block r into the free block q just before it keeps the chain;   *)
(* the merged block has size s.                                            *)
LEMMA MergeKeepsChain ==
  ASSUME TypeOK, Chain,
         NEW q \in Blocks, NEW r \in Blocks, NEW s \in 0 .. HEAP_MAX_BLOCK_SIZE,
         flags[q] = "free", size[q] # 0, After(q) = r,
         IF size[r] = 0 THEN s = 0 ELSE s = size[q] + size[r] + HEAP_HEAD_SIZE,
         size' = [b \in Blocks \ {r} |-> IF b = q THEN s ELSE size[b]],
         flags' = [b \in Blocks \ {r} |-> flags[b]]
  PROVE  /\ Chain'
         /\ Blocks' = Blocks \ {r}
         /\ size' \in [Blocks' -> 0 .. HEAP_MAX_BLOCK_SIZE]
         /\ flags' \in [Blocks' -> {"free"} \cup Colours]
<1>1. Blocks' = Blocks \ {r}
  BY DEF Blocks
<1>2. \A b \in Blocks : /\ b \in Nat
                        /\ size[b] \in 0 .. HEAP_MAX_BLOCK_SIZE
                        /\ flags[b] \in {"free"} \cup Colours
  BY BlockType
<1>3. \A b \in Blocks' : size'[b] = IF b = q THEN s ELSE size[b]
  BY <1>1
<1>4. \A b \in Blocks' : flags'[b] = flags[b]
  BY <1>1
<1>5. size' \in [Blocks' -> 0 .. HEAP_MAX_BLOCK_SIZE]
  BY <1>1, <1>2
<1>6. flags' \in [Blocks' -> {"free"} \cup Colours]
  BY <1>1, <1>2
<1>7. q < r /\ q # r /\ r # 0
  BY <1>2, HeapAssumption DEF After, FULL_BLOCK_SIZE, HEAP_HEAD_SIZE
<1>8. \A c \in Blocks : c <= q \/ r <= c
  BY DEF Chain, Tiling
<1>9. Tiling'
  <2>1. 0 \in Blocks'
    BY <1>1, <1>7 DEF Chain, Tiling
  <2>2. ASSUME NEW b \in Blocks', size'[b] # 0
        PROVE  /\ After(b)' \in Blocks'
               /\ \A c \in Blocks' : c <= b \/ After(b)' <= c
    <3>1. CASE b = q
      <4>1. size[r] # 0 /\ After(b)' = After(r)
        BY <3>1, <2>2, <1>2, <1>3, HeapAssumption
        DEF After, FULL_BLOCK_SIZE, HEAP_HEAD_SIZE
      <4>2. After(r) \in Blocks /\ \A c \in Blocks : c <= r \/ After(r) <= c
        BY <4>1 DEF Chain, Tiling
      <4>3. After(r) # r
        BY <1>2, BlockType
      <4> QED
        BY <3>1, <4>1, <4>2, <4>3, <1>1, <1>2, <1>7, <1>8
    <3>2. CASE b # q
      <4>1. b \in Blocks /\ b # r /\ size'[b] = size[b]
        BY <3>2, <1>1, <1>3
      <4>2. After(b)' = After(b)
        BY <4>1 DEF After, FULL_BLOCK_SIZE
      <4>3. After(b) \in Blocks /\ \A c \in Blocks : c <= b \/ After(b) <= c
        BY <4>1, <2>2 DEF Chain, Tiling
      <4>4. After(b) # r
        BY <4>1, <4>3, <1>2, <1>7, <1>8, <3>2, BlockType
      <4> QED
        BY <4>1, <4>2, <4>3, <4>4, <1>1
    <3> QED
      BY <3>1, <3>2
  <2>3. ASSUME NEW b \in Blocks', size'[b] = 0
        PROVE  flags'[b] = "free" /\ \A c \in Blocks' : c <= b
    <3>1. CASE b = q
      <4>1. size[r] = 0
        <5>1. s = 0
          BY <3>1, <2>3, <1>3
        <5>2. ASSUME size[r] # 0
              PROVE  FALSE
          <6>1. s = size[q] + size[r] + 2
            BY <5>2 DEF HEAP_HEAD_SIZE
          <6>2. size[q] \in Nat /\ size[r] \in Nat
            BY <1>2, HeapAssumption
          <6> QED
            BY <5>1, <6>1, <6>2
        <5> QED
          BY <5>2
      <4>2. \A c \in Blocks : c <= r
        BY <4>1 DEF Chain, Tiling
      <4> QED
        BY <3>1, <4>2, <1>1, <1>2, <1>4, <1>7, <1>8
    <3>2. CASE b # q
      BY <3>2, <2>3, <1>1, <1>3, <1>4 DEF Chain, Tiling
    <3> QED
      BY <3>1, <3>2
  <2> QED
    BY <2>1, <2>2, <2>3 DEF Tiling
<1>10. HeaderInArray'
  BY <1>1 DEF Chain, HeaderInArray
<1>11. s % 2 = 0
  BY <1>2 DEF Chain, Sizes, HEAP_HEAD_SIZE
<1>12. s # 0 => HEAP_MIN_BLOCK_SIZE <= s
  BY <1>2, HeapAssumption DEF Chain, Sizes, HEAP_HEAD_SIZE
<1>13. Sizes'
  BY <1>1, <1>3, <1>11, <1>12 DEF Chain, Sizes
<1> QED
  BY <1>1, <1>5, <1>6, <1>9, <1>10, <1>13 DEF Chain

(* Splitting the free block q after n bytes keeps the chain: q is taken    *)
(* and the rest becomes a free block of its own.                           *)
LEMMA SplitKeepsChain ==
  ASSUME TypeOK, Chain,
         NEW q \in Blocks, NEW n \in ObjectSizes, NEW rest \in 0 .. HEAP_MAX_BLOCK_SIZE,
         NEW colour \in Colours, NEW next, next = q + FULL_BLOCK_SIZE(n),
         flags[q] = "free",
         q < HEAP_SIZE - HEAP_HEAD_SIZE - n,
         IF size[q] = 0 THEN rest = 0
         ELSE rest = size[q] - n - HEAP_HEAD_SIZE /\ rest >= HEAP_MIN_BLOCK_SIZE,
         size' = [b \in Blocks \cup {next} |->
                    IF b = q THEN n ELSE IF b = next THEN rest ELSE size[b]],
         flags' = [b \in Blocks \cup {next} |->
                    IF b = q THEN colour
                    ELSE IF b = next THEN "free" ELSE flags[b]]
  PROVE  /\ Chain'
         /\ Blocks' = Blocks \cup {next}
         /\ next \notin Blocks /\ next \in Nat
         /\ \A c \in Blocks : c <= q \/ next <= c
         /\ size' \in [Blocks' -> 0 .. HEAP_MAX_BLOCK_SIZE]
         /\ flags' \in [Blocks' -> {"free"} \cup Colours]
<1>1. Blocks' = Blocks \cup {next}
  BY DEF Blocks
<1>2. \A b \in Blocks : /\ b \in Nat
                        /\ size[b] \in 0 .. HEAP_MAX_BLOCK_SIZE
                        /\ flags[b] \in {"free"} \cup Colours
  BY BlockType
<1>3. /\ n \in Nat /\ n # 0 /\ n <= HEAP_MAX_BLOCK_SIZE /\ n % 2 = 0
      /\ HEAP_SIZE \in Nat /\ HEAP_SIZE % 2 = 0
      /\ HEAP_MIN_BLOCK_SIZE \in Nat /\ HEAP_MIN_BLOCK_SIZE >= 1
      /\ HEAP_MAX_BLOCK_SIZE \in Nat
  BY HeapAssumption
<1>4. next = q + n + 2 /\ next \in Nat /\ q < next
  BY <1>2, <1>3 DEF FULL_BLOCK_SIZE, HEAP_HEAD_SIZE
<1>5. \A c \in Blocks : size[q] # 0 => c <= q \/ After(q) <= c
  BY DEF Chain, Tiling
<1>6. \A c \in Blocks : size[q] = 0 => c <= q
  BY DEF Chain, Tiling
<1>7. After(q) = q + size[q] + 2
  BY <1>2 DEF After, FULL_BLOCK_SIZE, HEAP_HEAD_SIZE
<1>8. size[q] # 0 => rest # 0 /\ After(q) = next + rest + 2
  BY <1>2, <1>3, <1>4, <1>7 DEF HEAP_HEAD_SIZE
<1>9. \A c \in Blocks : c <= q \/ next < c
  BY <1>2, <1>4, <1>5, <1>6, <1>8
<1>10. next \notin Blocks
  BY <1>2, <1>4, <1>9
<1>11. \A b \in Blocks' : size'[b] = IF b = q THEN n
                                      ELSE IF b = next THEN rest ELSE size[b]
  BY <1>1
<1>12. \A b \in Blocks' : flags'[b] = IF b = q THEN colour
                                       ELSE IF b = next THEN "free" ELSE flags[b]
  BY <1>1
<1>13. size' \in [Blocks' -> 0 .. HEAP_MAX_BLOCK_SIZE]
  BY <1>1, <1>2, <1>3
<1>14. flags' \in [Blocks' -> {"free"} \cup Colours]
  BY <1>1, <1>2
<1>15. After(q)' = next
  BY <1>1, <1>4, <1>11 DEF After, FULL_BLOCK_SIZE
<1>16. size[q] # 0 => After(next)' = After(q)
  BY <1>1, <1>2, <1>4, <1>8, <1>11 DEF After, FULL_BLOCK_SIZE, HEAP_HEAD_SIZE
<1>17. Tiling'
  <2>1. 0 \in Blocks'
    BY <1>1 DEF Chain, Tiling
  <2>2. ASSUME NEW b \in Blocks', size'[b] # 0
        PROVE  /\ After(b)' \in Blocks'
               /\ \A c \in Blocks' : c <= b \/ After(b)' <= c
    <3>1. CASE b = q
      BY <3>1, <1>1, <1>2, <1>4, <1>9, <1>15
    <3>2. CASE b = next
      <4>1. size[q] # 0
        BY <3>2, <2>2, <1>4, <1>2, <1>11
      <4>2. After(q) \in Blocks
        BY <4>1 DEF Chain, Tiling
      <4> QED
        BY <3>2, <4>1, <4>2, <1>1, <1>2, <1>4, <1>5, <1>16
    <3>3. CASE b # q /\ b # next
      <4>1. b \in Blocks /\ size'[b] = size[b]
        BY <3>3, <1>1, <1>11
      <4>2. After(b)' = After(b)
        BY <4>1 DEF After, FULL_BLOCK_SIZE
      <4>3. After(b) \in Blocks /\ \A c \in Blocks : c <= b \/ After(b) <= c
        BY <4>1, <2>2 DEF Chain, Tiling
      <4>4. next <= b \/ After(b) <= next
        BY <4>1, <4>3, <3>3, <1>2, <1>4, <1>9, BlockType
      <4> QED
        BY <4>1, <4>2, <4>3, <4>4, <1>1
    <3> QED
      BY <3>1, <3>2, <3>3
  <2>3. ASSUME NEW b \in Blocks', size'[b] = 0
        PROVE  flags'[b] = "free" /\ \A c \in Blocks' : c <= b
    <3>1. CASE b = next
      <4>1. size[q] = 0
        BY <3>1, <2>3, <1>2, <1>4, <1>8, <1>11
      <4> QED
        BY <3>1, <4>1, <1>1, <1>2, <1>4, <1>6, <1>12
    <3>2. CASE b # next
      <4>1. b \in Blocks /\ b # q /\ size[b] = 0 /\ flags'[b] = flags[b]
        BY <3>2, <2>3, <1>1, <1>3, <1>11, <1>12
      <4>2. flags[b] = "free" /\ \A c \in Blocks : c <= b
        BY <4>1 DEF Chain, Tiling
      <4>3. next <= b
        BY <4>1, <4>2, <1>2, <1>9
      <4> QED
        BY <4>1, <4>2, <4>3, <1>1
    <3> QED
      BY <3>1, <3>2
  <2> QED
    BY <2>1, <2>2, <2>3 DEF Tiling
<1>18. q % 2 = 0 /\ size[q] % 2 = 0
  BY DEF Chain, Sizes
<1>19. next % 2 = 0 /\ rest % 2 = 0
  BY <1>18, <1>2, <1>3, <1>4 DEF HEAP_HEAD_SIZE
<1>20. /\ HEAP_MIN_BLOCK_SIZE <= n
       /\ rest # 0 => HEAP_MIN_BLOCK_SIZE <= rest
  BY <1>2, <1>3, HeapAssumption
<1>20a. Sizes'
  BY <1>1, <1>3, <1>11, <1>18, <1>19, <1>20 DEF Chain, Sizes
<1>21. next + 2 <= HEAP_SIZE
  BY <1>2, <1>3, <1>4, <1>19 DEF HEAP_HEAD_SIZE
<1>22. HeaderInArray'
  BY <1>1, <1>21 DEF Chain, HeaderInArray, HEAP_HEAD_SIZE
<1> QED
  BY <1>1, <1>2, <1>4, <1>9, <1>10, <1>13, <1>14, <1>17, <1>20a, <1>22 DEF Chain

-----------------------------------------------------------------------------
(* One lemma per action (or per group of actions that leave the chain      *)
(* alone): it preserves HeapInv. *)

LEMMA InitEstablishes == Init => HeapInv
<1> SUFFICES ASSUME Init PROVE HeapInv
  OBVIOUS
<1>1. Blocks = {0} /\ size[0] = 0 /\ flags[0] = "free"
  BY DEF Init, Blocks
<1>2. size \in [Blocks -> 0 .. HEAP_MAX_BLOCK_SIZE]
  BY <1>1, HeapAssumption DEF Init
<1>3. flags \in [Blocks -> {"free"} \cup Colours]
  BY <1>1 DEF Init
<1>4. /\ gray \subseteq Nat
      /\ next_free_block \in Nat \cup {NULL}
      /\ phase \in {"run", "purge", "exited", "out of memory", "undefined"}
      /\ p \in Nat
      /\ prev_block \in Nat \cup {NULL}
      /\ force \in BOOLEAN
  BY DEF Init
<1>4a. Blocks \subseteq Nat
  BY <1>1
<1>4b. prev_size \in 0 .. HEAP_MAX_BLOCK_SIZE
  BY HeapAssumption DEF Init
<1>5. TypeOK
  BY <1>2, <1>3, <1>4, <1>4a, <1>4b, Zenon DEF TypeOK
<1>6. Tiling /\ Sizes
  BY <1>1 DEF Tiling, Sizes
<1>7. HeaderInArray
  BY <1>1, HeapAssumption DEF HeaderInArray, HEAP_HEAD_SIZE
<1>8. NothingFreeBefore /\ PurgeCursor /\ NoGrayInPurge
  BY <1>1 DEF Init, NothingFreeBefore, PurgeCursor, NoGrayInPurge
<1>9. GrayIsPending
  BY <1>1 DEF Init, GrayIsPending, Used
<1> QED
  BY <1>5, <1>6, <1>7, <1>8, <1>9 DEF HeapInv

(* What allocBlock does to the chain when it hands out block q: q keeps    *)
(* its address, is at least as long as asked, and is followed by next,     *)
(* which is either the old neighbour or a new free block.                  *)
LEMMA AllocBlockShape ==
  ASSUME TypeOK, Chain, NEW q \in Blocks, NEW n \in ObjectSizes,
         NEW protect \in BOOLEAN,
         flags[q] = "free", size[q] = 0 \/ n <= size[q],
         q < HEAP_SIZE - HEAP_HEAD_SIZE - n,
         AllocBlock(q, n, protect),
         NEW colour, colour = IF protect THEN "protected" ELSE "white",
         NEW taken, taken = TakenSize(q, n),
         NEW next, next = q + FULL_BLOCK_SIZE(taken)
  PROVE  /\ Chain'
         /\ Blocks' \in {Blocks, Blocks \cup {next}}
         /\ next \in Blocks' /\ next \in Nat /\ q < next
         /\ \A c \in Blocks : c <= q \/ next <= c
         /\ taken \in Nat /\ n <= taken
         /\ \A b \in Blocks : size'[b] = IF b = q THEN taken ELSE size[b]
         /\ \A b \in Blocks : flags'[b] = IF b = q THEN colour ELSE flags[b]
         /\ next \notin Blocks => flags'[next] = "free"
         /\ size' \in [Blocks' -> 0 .. HEAP_MAX_BLOCK_SIZE]
         /\ flags' \in [Blocks' -> {"free"} \cup Colours]
<1>1. \A b \in Blocks : /\ b \in Nat
                        /\ size[b] \in 0 .. HEAP_MAX_BLOCK_SIZE
                        /\ flags[b] \in {"free"} \cup Colours
  BY BlockType
<1>2. /\ n \in Nat /\ n # 0 /\ n <= HEAP_MAX_BLOCK_SIZE
      /\ HEAP_MIN_BLOCK_SIZE \in Nat /\ HEAP_MIN_BLOCK_SIZE >= 1
      /\ HEAP_MAX_BLOCK_SIZE \in Nat
  BY HeapAssumption
<1>3. colour \in Colours /\ colour # "free"
  BY DEF Colours
<1>4. CASE size[q] # 0 /\ size[q] - n - HEAP_HEAD_SIZE < HEAP_MIN_BLOCK_SIZE
  <2>1. taken = size[q] /\ next = After(q)
    BY <1>4 DEF TakenSize, After
  <2>2. /\ size' = [b \in Blocks |-> IF b = q THEN size[q] ELSE size[b]]
        /\ flags' = [b \in Blocks |-> IF b = q THEN colour ELSE flags[b]]
    BY <1>4, <2>1 DEF AllocBlock
  <2>3. size' = size
    BY <2>2 DEF TypeOK
  <2>4. Blocks' = Blocks /\ \A b \in Blocks : After(b)' = After(b)
    BY <2>3 DEF Blocks, After, FULL_BLOCK_SIZE
  <2>5. Tiling'
    BY <2>2, <2>3, <2>4, <1>4 DEF Chain, Tiling
  <2>6. HeaderInArray' /\ Sizes'
    BY <2>3, <2>4 DEF Chain, HeaderInArray, Sizes
  <2>7. /\ next \in Blocks /\ next \in Nat /\ q < next
        /\ \A c \in Blocks : c <= q \/ next <= c
    BY <1>4, <2>1, BlockType DEF Chain, Tiling
  <2>8. size' \in [Blocks' -> 0 .. HEAP_MAX_BLOCK_SIZE]
    BY <2>2, <2>4, <1>1
  <2>9. flags' \in [Blocks' -> {"free"} \cup Colours]
    BY <2>2, <2>4, <1>1, <1>3
  <2>10. taken \in Nat /\ n <= taken
    BY <1>1, <1>4, <2>1
  <2> QED
    BY <2>1, <2>2, <2>3, <2>4, <2>5, <2>6, <2>7, <2>8, <2>9, <2>10 DEF Chain
<1>5. CASE size[q] = 0 \/ ~(size[q] - n - HEAP_HEAD_SIZE < HEAP_MIN_BLOCK_SIZE)
  <2> DEFINE rest == RestSize(q, n)
  <2>1. taken = n
    BY <1>5 DEF TakenSize
  <2>2. size[q] = 0 \/ n # size[q]
    BY <1>1, <1>2, <1>5 DEF HEAP_HEAD_SIZE
  <2>3. /\ size' = [b \in Blocks \cup {next} |->
                     IF b = q THEN n ELSE IF b = next THEN rest ELSE size[b]]
        /\ flags' = [b \in Blocks \cup {next} |->
                     IF b = q THEN colour
                     ELSE IF b = next THEN "free" ELSE flags[b]]
    BY <2>1, <2>2 DEF AllocBlock
  <2>4. /\ rest \in 0 .. HEAP_MAX_BLOCK_SIZE
        /\ IF size[q] = 0 THEN rest = 0
           ELSE rest = size[q] - n - HEAP_HEAD_SIZE /\ rest >= HEAP_MIN_BLOCK_SIZE
    <3>1. CASE size[q] = 0
      BY <3>1, <1>2 DEF RestSize
    <3>2. CASE size[q] # 0
      <4>1. size[q] - n - HEAP_HEAD_SIZE \in 0 .. HEAP_MAX_BLOCK_SIZE
        BY <3>2, <1>1, <1>2, <1>5 DEF HEAP_HEAD_SIZE
      <4> QED
        BY <3>2, <4>1, <1>1, <1>2, <1>5, ByteIsIdentity
        DEF RestSize, HEAP_HEAD_SIZE
    <3> QED
      BY <3>1, <3>2
  <2>5. next = q + FULL_BLOCK_SIZE(n)
    BY <2>1
  <2> HIDE DEF rest
  <2>6. /\ Chain'
        /\ Blocks' = Blocks \cup {next}
        /\ next \notin Blocks /\ next \in Nat
        /\ \A c \in Blocks : c <= q \/ next <= c
        /\ size' \in [Blocks' -> 0 .. HEAP_MAX_BLOCK_SIZE]
        /\ flags' \in [Blocks' -> {"free"} \cup Colours]
    BY <2>3, <2>4, <2>5, <1>3, SplitKeepsChain
  <2>7. q < next /\ q # next
    BY <2>5, <1>1, <1>2 DEF FULL_BLOCK_SIZE, HEAP_HEAD_SIZE
  <2>8. flags'[next] = "free"
    BY <2>3, <2>7
  <2>9. \A b \in Blocks : /\ size'[b] = IF b = q THEN taken ELSE size[b]
                          /\ flags'[b] = IF b = q THEN colour ELSE flags[b]
    BY <2>1, <2>3, <2>6
  <2>10. taken \in Nat /\ n <= taken
    BY <1>2, <2>1
  <2> QED
    BY <2>6, <2>7, <2>8, <2>9, <2>10
<1> QED
  BY <1>4, <1>5

LEMMA AllocPreserves ==
  ASSUME HeapInv, NEW n \in ObjectSizes, NEW protect \in BOOLEAN,
         Alloc(n, protect)
  PROVE  HeapInv'
<1>1. PICK q \in Fitting(n) : AllocBlock(q, n, protect)
  BY DEF Alloc
<1>2. /\ q \in Blocks /\ flags[q] = "free" /\ next_free_block <= q
      /\ q < HEAP_SIZE - HEAP_HEAD_SIZE - n
      /\ size[q] = 0 \/ n <= size[q]
  BY DEF Fitting, Freed
<1>3. TypeOK /\ Chain /\ \A b \in Blocks : b \in Nat
  BY DEF HeapInv, Chain, TypeOK
<1>4. /\ phase = "run" /\ phase' = "run" /\ gray' = gray /\ p' = p
      /\ prev_block' = prev_block /\ prev_size' = prev_size /\ force' = force
      /\ next_free_block # NULL
  BY DEF Alloc
<1> DEFINE colour == IF protect THEN "protected" ELSE "white"
           taken == TakenSize(q, n)
           next == q + FULL_BLOCK_SIZE(taken)
<1>5. next_free_block' = IF next_free_block = q THEN next ELSE next_free_block
  BY <1>1 DEF AllocBlock
<1>6. colour # "free" /\ colour # "gray"
  OBVIOUS
<1>7. /\ Chain'
      /\ Blocks' \in {Blocks, Blocks \cup {next}}
      /\ next \in Blocks' /\ next \in Nat /\ q < next
      /\ \A c \in Blocks : c <= q \/ next <= c
      /\ \A b \in Blocks : flags'[b] = IF b = q THEN colour ELSE flags[b]
      /\ next \notin Blocks => flags'[next] = "free"
      /\ size' \in [Blocks' -> 0 .. HEAP_MAX_BLOCK_SIZE]
      /\ flags' \in [Blocks' -> {"free"} \cup Colours]
  BY <1>1, <1>2, <1>3, AllocBlockShape
<1> HIDE DEF taken, next, colour
<1>8. next_free_block \in Blocks
       /\ \A b \in Blocks : b < next_free_block => flags[b] # "free"
  BY <1>4 DEF HeapInv, NothingFreeBefore
<1>9. TypeOK'
  <2>1. Blocks' \subseteq Nat
    BY <1>3, <1>7
  <2>2. next_free_block' \in Nat \cup {NULL}
    BY <1>3, <1>5, <1>7, <1>8
  <2> QED
    BY <2>1, <2>2, <1>3, <1>4, <1>7, Zenon DEF TypeOK
<1>10. NothingFreeBefore'
  <2>1. next_free_block' \in Blocks'
    BY <1>5, <1>7, <1>8
  <2>2. ASSUME NEW b \in Blocks', b < next_free_block'
        PROVE  flags'[b] # "free"
    <3>1. CASE b = q
      BY <3>1, <1>2, <1>6, <1>7
    <3>2. CASE b \in Blocks /\ b # q
      <4>1. b < next_free_block
        BY <3>2, <2>2, <1>2, <1>3, <1>5, <1>7, <1>8
      <4> QED
        BY <4>1, <3>2, <1>7, <1>8
    <3>3. CASE b \notin Blocks
      BY <3>3, <2>2, <1>2, <1>3, <1>5, <1>7, <1>8
    <3> QED
      BY <3>1, <3>2, <3>3
  <2> QED
    BY <2>1, <2>2, <1>4 DEF NothingFreeBefore
<1>11. PurgeCursor' /\ NoGrayInPurge'
  BY <1>4 DEF PurgeCursor, NoGrayInPurge
<1>12. GrayIsPending'
  <2>1. gray = {b \in Used : flags[b] = "gray"}
    BY <1>4 DEF HeapInv, GrayIsPending
  <2>2. \A b \in Blocks' : flags'[b] = "gray" <=> b \in Blocks /\ flags[b] = "gray"
    BY <1>2, <1>6, <1>7
  <2>3. Blocks \subseteq Blocks'
    BY <1>7
  <2> QED
    BY <2>1, <2>2, <2>3, <1>4 DEF GrayIsPending, Used
<1> QED
  BY <1>7, <1>9, <1>10, <1>11, <1>12 DEF HeapInv, Chain

(* The program stops: nothing is left to preserve.                         *)
LEMMA StopPreserves ==
  ASSUME HeapInv, NEW n, OutOfMemory(n) \/ AllocFromNull
  PROVE  HeapInv'
<1>1. /\ size' = size /\ flags' = flags /\ gray' = gray
      /\ next_free_block' = next_free_block /\ p' = p
      /\ prev_block' = prev_block /\ prev_size' = prev_size /\ force' = force
      /\ phase' \in {"out of memory", "undefined"}
  BY DEF OutOfMemory, AllocFromNull
<1>2. Blocks' = Blocks /\ \A b \in Blocks : After(b)' = After(b)
  BY <1>1 DEF Blocks, After, FULL_BLOCK_SIZE
<1>3. TypeOK'
  BY <1>1, <1>2, Zenon DEF HeapInv, TypeOK
<1>4. Tiling' /\ HeaderInArray' /\ Sizes'
  BY <1>1, <1>2 DEF HeapInv, Tiling, HeaderInArray, Sizes
<1> QED
  BY <1>1, <1>3, <1>4
  DEF HeapInv, NothingFreeBefore, PurgeCursor, GrayIsPending, NoGrayInPurge

(* Marking changes the colour of blocks in use and nothing else.           *)
LEMMA MarkPreserves ==
  ASSUME HeapInv,
         \/ \E o \in Used : MarkGray(o)
         \/ \E o \in gray, refs \in SUBSET Used : MarkReferencesGray(o, refs)
  PROVE  HeapInv'
<1>1. /\ size' = size /\ next_free_block' = next_free_block
      /\ phase = "run" /\ phase' = phase /\ p' = p
      /\ prev_block' = prev_block /\ prev_size' = prev_size /\ force' = force
  BY DEF MarkGray, MarkReferencesGray
<1>2. Blocks' = Blocks
  BY <1>1 DEF Blocks
<1>3. TypeOK /\ Chain /\ gray = {b \in Used : flags[b] = "gray"}
  BY <1>1 DEF HeapInv, Chain, GrayIsPending
<1>4. /\ flags' \in [Blocks -> {"free"} \cup Colours]
      /\ \A b \in Blocks : (flags'[b] = "free") <=> (flags[b] = "free")
      /\ gray' = {b \in Used : flags'[b] = "gray"}
  <2>1. CASE \E o \in Used : MarkGray(o)
    <3>1. PICK o \in Used : MarkGray(o)
      BY <2>1
    <3>2. flags' = [b \in Blocks |-> IF b \in Whites({o}) THEN "gray" ELSE flags[b]]
      BY <3>1 DEF MarkGray
    <3>3. \A b \in Whites({o}) : b \in Used /\ b = o
      BY DEF Whites
    <3>4. gray' = gray \cup Whites({o})
      BY <3>1 DEF MarkGray
    <3>5. \A b \in Blocks : flags[b] \in {"free"} \cup Colours
      BY <1>3, BlockType
    <3>6. flags' \in [Blocks -> {"free"} \cup Colours]
      BY <3>2, <3>5 DEF Colours
    <3> QED
      BY <3>2, <3>3, <3>4, <3>6, <1>3 DEF Used
  <2>2. CASE \E o \in gray, refs \in SUBSET Used : MarkReferencesGray(o, refs)
    <3>1. PICK o \in gray, refs \in SUBSET Used : MarkReferencesGray(o, refs)
      BY <2>2
    <3>2. flags' = [b \in Blocks |-> IF b = o THEN "black"
                                    ELSE IF b \in Whites(refs) THEN "gray"
                                    ELSE flags[b]]
      BY <3>1 DEF MarkReferencesGray
    <3>3. \A b \in Whites(refs) : b \in Used
      BY <3>1 DEF Whites
    <3>4. gray' = (gray \cup Whites(refs)) \ {o}
      BY <3>1 DEF MarkReferencesGray
    <3>5. \A b \in Blocks : flags[b] \in {"free"} \cup Colours
      BY <1>3, BlockType
    <3>6. flags' \in [Blocks -> {"free"} \cup Colours]
      BY <3>2, <3>5 DEF Colours
    <3> QED
      BY <3>2, <3>3, <3>4, <3>6, <1>3 DEF Used
  <2> QED
    BY <2>1, <2>2
<1>5. Chain'
  BY <1>1, <1>3, <1>4, RecolourKeepsChain
<1>6. gray' \subseteq Nat
  BY <1>3, <1>4 DEF TypeOK, Used
<1>7. TypeOK'
  BY <1>1, <1>2, <1>3, <1>4, <1>6, Zenon DEF TypeOK
<1>8. NothingFreeBefore'
  BY <1>1, <1>2, <1>4 DEF HeapInv, NothingFreeBefore
<1>9. GrayIsPending'
  BY <1>2, <1>4 DEF GrayIsPending, Used
<1>10. PurgeCursor' /\ NoGrayInPurge'
  BY <1>1 DEF PurgeCursor, NoGrayInPurge
<1> QED
  BY <1>5, <1>7, <1>8, <1>9, <1>10 DEF HeapInv, Chain

LEMMA PurgeHeapPreserves ==
  ASSUME HeapInv, NEW f \in BOOLEAN, PurgeHeap(f)
  PROVE  HeapInv'
<1>1. /\ size' = size /\ flags' = flags /\ gray' = gray
      /\ phase = "run" /\ phase' = "purge" /\ force' = f
      /\ next_free_block' = NULL /\ p' = 0
      /\ prev_block' = NULL /\ prev_size' = 0
      /\ f \/ gray = {}
  BY DEF PurgeHeap, MaySweep
<1>2. Blocks' = Blocks
  BY <1>1 DEF Blocks
<1>3. TypeOK /\ Chain /\ gray = {b \in Used : flags[b] = "gray"}
  BY <1>1 DEF HeapInv, Chain, GrayIsPending
<1>4. Chain'
  BY <1>1, <1>3, RecolourKeepsChain
<1>5. TypeOK'
  <2>1. prev_size' \in 0 .. HEAP_MAX_BLOCK_SIZE
    BY <1>1, HeapAssumption
  <2>2. p' \in Nat
    BY <1>1
  <2> QED
    BY <1>1, <1>2, <1>3, <2>1, <2>2, Zenon DEF TypeOK
<1>6. PurgeCursor'
  BY <1>1, <1>2, <1>3 DEF PurgeCursor, Chain, Tiling, TypeOK
<1>7. NoGrayInPurge'
  BY <1>1, <1>2, <1>3 DEF NoGrayInPurge, Used
<1>8. NothingFreeBefore' /\ GrayIsPending'
  BY <1>1 DEF NothingFreeBefore, GrayIsPending
<1> QED
  BY <1>4, <1>5, <1>6, <1>7, <1>8 DEF HeapInv, Chain

(* What the purge lemmas below start from.                                 *)
LEMMA PurgeFacts ==
  ASSUME HeapInv, phase = "purge"
  PROVE  /\ TypeOK /\ Chain
         /\ p \in Blocks
         /\ After(p) \in Nat /\ p < After(p)
         /\ size[p] # 0 => After(p) \in Blocks
         /\ size[p] # 0 => \A b \in Blocks : b <= p \/ After(p) <= b
         /\ \A b \in Blocks : /\ b \in Nat
                             /\ size[b] \in 0 .. HEAP_MAX_BLOCK_SIZE
                             /\ flags[b] \in {"free"} \cup Colours
         /\ HEAP_MAX_BLOCK_SIZE \in Nat
<1>1. TypeOK /\ Chain /\ p \in Blocks
  BY DEF HeapInv, Chain, PurgeCursor
<1> QED
  BY <1>1, BlockType, HeapAssumption DEF Chain, Tiling

LEMMA PurgeKeepPreserves ==
  ASSUME HeapInv, PurgeKeep
  PROVE  HeapInv'
<1>1. /\ phase = "purge" /\ phase' = "purge" /\ size[p] # 0
      /\ flags[p] # "free" /\ ~force
      /\ flags' = [flags EXCEPT ![p] = IF @ = "protected" THEN "protected"
                                       ELSE "white"]
      /\ prev_block' = NULL /\ p' = After(p)
      /\ size' = size /\ gray' = gray /\ next_free_block' = next_free_block
      /\ prev_size' = prev_size /\ force' = force
  BY DEF PurgeKeep, Dies, PrevAfterKeep, Onward
<1>2. Blocks' = Blocks
  BY <1>1 DEF Blocks
<1>3. /\ TypeOK /\ Chain /\ p \in Blocks
      /\ After(p) \in Blocks /\ After(p) \in Nat /\ p < After(p)
      /\ \A b \in Blocks : b <= p \/ After(p) <= b
      /\ \A b \in Blocks : b \in Nat
  BY <1>1, PurgeFacts
<1>4. DOMAIN flags = Blocks
  BY <1>3 DEF TypeOK
<1>5. \A b \in Blocks : flags'[b] = IF b # p THEN flags[b]
                        ELSE IF flags[p] = "protected" THEN "protected" ELSE "white"
  BY <1>1, <1>3, <1>4
<1>6. flags' \in [Blocks -> {"free"} \cup Colours]
  BY <1>1, <1>3 DEF TypeOK, Colours
<1>7. Chain'
  BY <1>1, <1>3, <1>5, RecolourKeepsChain
<1>8. TypeOK'
  <2>1. p' \in Nat
    BY <1>1, <1>3
  <2> QED
    BY <1>1, <1>2, <1>3, <1>6, <2>1, Zenon DEF TypeOK
<1>9. PurgeCursor'
  <2>1. IF next_free_block = NULL
        THEN \A b \in Blocks : b < p => flags[b] # "free"
        ELSE /\ next_free_block \in Blocks /\ next_free_block < p
             /\ flags[next_free_block] = "free"
             /\ \A b \in Blocks : b < next_free_block => flags[b] # "free"
    BY <1>1 DEF HeapInv, PurgeCursor
  <2> QED
    BY <2>1, <1>1, <1>2, <1>3, <1>5 DEF PurgeCursor
<1>10. NoGrayInPurge'
  BY <1>1, <1>2, <1>5 DEF HeapInv, NoGrayInPurge
<1>11. NothingFreeBefore' /\ GrayIsPending'
  BY <1>1 DEF NothingFreeBefore, GrayIsPending
<1> QED
  BY <1>7, <1>8, <1>9, <1>10, <1>11 DEF HeapInv, Chain

LEMMA PurgeFreePreserves ==
  ASSUME HeapInv, PurgeFree
  PROVE  HeapInv'
<1>1. /\ phase = "purge" /\ phase' = "purge" /\ size[p] # 0
      /\ next_free_block' = FirstFree /\ p' = After(p)
      /\ gray' = gray /\ force' = force
  BY DEF PurgeFree, Onward
<1>2. /\ TypeOK /\ Chain /\ p \in Blocks
      /\ After(p) \in Blocks /\ After(p) \in Nat /\ p < After(p)
      /\ \A b \in Blocks : b <= p \/ After(p) <= b
      /\ \A b \in Blocks : /\ b \in Nat
                          /\ size[b] \in 0 .. HEAP_MAX_BLOCK_SIZE
                          /\ flags[b] \in {"free"} \cup Colours
      /\ HEAP_MAX_BLOCK_SIZE \in Nat
  BY <1>1, PurgeFacts
<1>3. /\ IF next_free_block = NULL
         THEN \A b \in Blocks : b < p => flags[b] # "free"
         ELSE /\ next_free_block \in Blocks /\ next_free_block < p
              /\ flags[next_free_block] = "free"
              /\ \A b \in Blocks : b < next_free_block => flags[b] # "free"
      /\ prev_block # NULL =>
           /\ next_free_block # NULL /\ next_free_block <= prev_block
           /\ prev_block \in Blocks /\ flags[prev_block] = "free"
           /\ size[prev_block] = prev_size /\ prev_size # 0
           /\ After(prev_block) = p
  BY <1>1 DEF HeapInv, PurgeCursor
<1>4. FirstFree \in Blocks /\ FirstFree <= p /\ FirstFree # NULL /\ FirstFree \in Nat
  BY <1>2, <1>3 DEF FirstFree, NULL
<1>5. NothingFreeBefore' /\ GrayIsPending'
  BY <1>1 DEF NothingFreeBefore, GrayIsPending
<1>6. CASE Merges
  <2>1. /\ size' = [b \in Blocks \ {p} |->
                     IF b = prev_block THEN Byte(MergedSize) ELSE size[b]]
        /\ flags' = [b \in Blocks \ {p} |-> flags[b]]
        /\ prev_size' = Byte(MergedSize)
        /\ prev_block' = prev_block
    BY <1>6 DEF PurgeFree
  <2>2. /\ prev_block \in Blocks /\ flags[prev_block] = "free"
        /\ size[prev_block] = prev_size /\ prev_size # 0
        /\ After(prev_block) = p /\ prev_block # NULL
        /\ next_free_block # NULL /\ next_free_block <= prev_block
    BY <1>3, <1>6 DEF Merges
  <2>3. /\ MergedSize = size[prev_block] + size[p] + HEAP_HEAD_SIZE
        /\ MergedSize \in 0 .. HEAP_MAX_BLOCK_SIZE /\ MergedSize # 0
    BY <1>2, <1>6, <2>2 DEF Merges, MergedSize, HEAP_HEAD_SIZE
  <2>4. Byte(MergedSize) = MergedSize
    BY <2>3, ByteIsIdentity
  <2> DEFINE s == MergedSize
  <2>5. size' = [b \in Blocks \ {p} |-> IF b = prev_block THEN s ELSE size[b]]
    BY <2>1, <2>4
  <2>6. s \in 0 .. HEAP_MAX_BLOCK_SIZE /\ s = size[prev_block] + size[p] + HEAP_HEAD_SIZE
    BY <2>3
  <2> HIDE DEF s
  <2>7. /\ Chain'
        /\ Blocks' = Blocks \ {p}
        /\ size' \in [Blocks' -> 0 .. HEAP_MAX_BLOCK_SIZE]
        /\ flags' \in [Blocks' -> {"free"} \cup Colours]
    BY <1>1, <1>2, <2>1, <2>2, <2>5, <2>6, MergeKeepsChain
  <2>8. prev_block # p /\ prev_block < p
    BY <1>2, <2>2, BlockType
  <2>9. TypeOK'
    <3>1. prev_size' \in 0 .. HEAP_MAX_BLOCK_SIZE
      BY <2>1, <2>3, <2>4
    <3>2. p' \in Nat /\ Blocks' \subseteq Nat /\ next_free_block' \in Nat
      BY <1>1, <1>2, <1>4, <2>7
    <3> QED
      BY <1>1, <1>2, <2>1, <2>7, <3>1, <3>2, Zenon DEF TypeOK
  <2>10. PurgeCursor'
    <3>1. p' \in Blocks'
      BY <1>1, <1>2, <2>7
    <3>2. next_free_block' = next_free_block
      BY <1>1, <2>2 DEF FirstFree
    <3>3. next_free_block # p /\ next_free_block \in Blocks'
      BY <1>2, <1>3, <2>2, <2>7
    <3>4. /\ flags'[next_free_block] = "free"
          /\ \A b \in Blocks' : b < next_free_block => flags'[b] # "free"
      BY <1>3, <2>1, <2>2, <2>7, <3>3
    <3>5. /\ prev_block \in Blocks' /\ flags'[prev_block] = "free"
          /\ size'[prev_block] = prev_size' /\ prev_size' # 0
      BY <2>1, <2>2, <2>3, <2>4, <2>7, <2>8
    <3>6. After(prev_block)' = After(p)
      <4>1. size'[prev_block] = size[prev_block] + size[p] + 2
        BY <2>5, <2>6, <2>2, <2>8 DEF HEAP_HEAD_SIZE
      <4> QED
        BY <4>1, <2>1, <2>2, <1>2 DEF After, FULL_BLOCK_SIZE, HEAP_HEAD_SIZE
    <3> QED
      BY <1>1, <1>2, <1>3, <2>1, <2>2, <3>1, <3>2, <3>3, <3>4, <3>5, <3>6
      DEF PurgeCursor, TypeOK
  <2>11. NoGrayInPurge'
    BY <1>1, <2>1, <2>7 DEF HeapInv, NoGrayInPurge
  <2> QED
    BY <1>5, <2>7, <2>9, <2>10, <2>11 DEF HeapInv, Chain
<1>7. CASE ~Merges
  <2>1. /\ flags' = [flags EXCEPT ![p] = "free"]
        /\ prev_block' = p /\ prev_size' = size[p] /\ size' = size
    BY <1>7 DEF PurgeFree
  <2>2. Blocks' = Blocks /\ After(prev_block)' = After(p)
    BY <1>1, <2>1 DEF Blocks, After, FULL_BLOCK_SIZE
  <2>3. flags' \in [Blocks -> {"free"} \cup Colours]
    BY <1>2, <2>1 DEF TypeOK
  <2>4. \A b \in Blocks : flags'[b] = IF b = p THEN "free" ELSE flags[b]
    BY <1>2, <2>1 DEF TypeOK
  <2>5. Chain'
    BY <1>2, <2>1, <2>4, RecolourKeepsChain
  <2>6. TypeOK'
    <3>1. /\ p' \in Nat /\ next_free_block' \in Nat /\ prev_block' \in Nat
          /\ prev_size' \in 0 .. HEAP_MAX_BLOCK_SIZE
      BY <1>1, <1>2, <1>4, <2>1
    <3> QED
      BY <1>1, <1>2, <2>1, <2>2, <2>3, <3>1, Zenon DEF TypeOK
  <2>7. PurgeCursor'
    <3>1. p' \in Blocks' /\ FirstFree < After(p)
      BY <1>1, <1>2, <1>4, <2>2
    <3>2. /\ flags'[FirstFree] = "free"
          /\ \A b \in Blocks : b < FirstFree => flags'[b] # "free"
      BY <1>2, <1>3, <2>4 DEF FirstFree
    <3> QED
      BY <1>1, <1>2, <1>4, <2>1, <2>2, <2>4, <3>1, <3>2 DEF PurgeCursor
  <2>8. NoGrayInPurge'
    BY <1>1, <2>2, <2>4 DEF HeapInv, NoGrayInPurge
  <2> QED
    BY <1>5, <2>5, <2>6, <2>7, <2>8 DEF HeapInv, Chain
<1> QED
  BY <1>6, <1>7

(* The cursor left the loop: either at the end of the used space or past   *)
(* the last place a header may be.                                         *)
LEMMA PurgeEndPreserves ==
  ASSUME HeapInv, PurgeTail \/ PurgeOffEnd
  PROVE  HeapInv'
<1>1. /\ phase = "purge" /\ phase' = (IF force THEN "exited" ELSE "run")
      /\ force' = FALSE /\ p' = 0 /\ prev_block' = NULL /\ prev_size' = 0
      /\ gray' = gray
  BY DEF PurgeTail, PurgeOffEnd, Return
<1>2. /\ TypeOK /\ Chain /\ p \in Blocks
      /\ \A b \in Blocks : /\ b \in Nat
                          /\ size[b] \in 0 .. HEAP_MAX_BLOCK_SIZE
                          /\ flags[b] \in {"free"} \cup Colours
      /\ HEAP_MAX_BLOCK_SIZE \in Nat
  BY <1>1, PurgeFacts
<1>3. /\ IF next_free_block = NULL
         THEN \A b \in Blocks : b < p => flags[b] # "free"
         ELSE /\ next_free_block \in Blocks /\ next_free_block < p
              /\ \A b \in Blocks : b < next_free_block => flags[b] # "free"
      /\ prev_block # NULL =>
           /\ next_free_block # NULL
           /\ prev_block \in Blocks /\ flags[prev_block] = "free"
           /\ size[prev_block] # 0 /\ After(prev_block) = p
  BY <1>1 DEF HeapInv, PurgeCursor
<1>4. /\ Chain'
      /\ Blocks' \subseteq Blocks
      /\ next_free_block' \in Blocks' \cup {NULL}
      /\ next_free_block' # NULL =>
           \A b \in Blocks' : b < next_free_block' => flags'[b] # "free"
      /\ \A b \in Blocks' : flags'[b] = flags[b]
      /\ size' \in [Blocks' -> 0 .. HEAP_MAX_BLOCK_SIZE]
      /\ flags' \in [Blocks' -> {"free"} \cup Colours]
  <2>1. CASE PurgeOffEnd
    <3>1. size' = size /\ flags' = flags /\ next_free_block' = next_free_block
      BY <2>1 DEF PurgeOffEnd
    <3>2. Chain' /\ Blocks' = Blocks
      BY <3>1, <1>2, RecolourKeepsChain
    <3>3. /\ size' \in [Blocks' -> 0 .. HEAP_MAX_BLOCK_SIZE]
          /\ flags' \in [Blocks' -> {"free"} \cup Colours]
      BY <1>2, <3>1, <3>2, Zenon DEF TypeOK
    <3> QED
      BY <3>1, <3>2, <3>3, <1>3
  <2>2. CASE PurgeTail /\ prev_block = NULL
    <3>1. /\ size' = size /\ flags' = flags /\ next_free_block' = FirstFree
          /\ size[p] = 0
      BY <2>2 DEF PurgeTail
    <3>2. Chain' /\ Blocks' = Blocks
      BY <3>1, <1>2, RecolourKeepsChain
    <3>3. /\ size' \in [Blocks' -> 0 .. HEAP_MAX_BLOCK_SIZE]
          /\ flags' \in [Blocks' -> {"free"} \cup Colours]
      BY <1>2, <3>1, <3>2, Zenon DEF TypeOK
    <3> QED
      BY <3>1, <3>2, <3>3, <1>2, <1>3 DEF FirstFree
  <2>3. CASE PurgeTail /\ prev_block # NULL
    <3>1. /\ size' = [b \in Blocks \ {p} |-> IF b = prev_block THEN 0 ELSE size[b]]
          /\ flags' = [b \in Blocks \ {p} |-> flags[b]]
          /\ next_free_block' = FirstFree
          /\ size[p] = 0
      BY <2>3 DEF PurgeTail
    <3>2. 0 \in 0 .. HEAP_MAX_BLOCK_SIZE
      BY <1>2
    <3>3. /\ prev_block \in Blocks /\ flags[prev_block] = "free"
          /\ size[prev_block] # 0 /\ After(prev_block) = p
          /\ next_free_block # NULL
      BY <2>3, <1>3
    <3>4. /\ Chain'
          /\ Blocks' = Blocks \ {p}
          /\ size' \in [Blocks' -> 0 .. HEAP_MAX_BLOCK_SIZE]
          /\ flags' \in [Blocks' -> {"free"} \cup Colours]
      BY <1>2, <3>1, <3>2, <3>3, MergeKeepsChain
    <3>5. next_free_block' = next_free_block /\ next_free_block # p
      BY <1>2, <1>3, <3>1, <3>3 DEF FirstFree
    <3> QED
      BY <1>3, <3>1, <3>3, <3>4, <3>5
  <2> QED
    BY <2>1, <2>2, <2>3
<1>5. TypeOK'
  <2>1. /\ p' \in Nat /\ Blocks' \subseteq Nat
        /\ next_free_block' \in Nat \cup {NULL}
    BY <1>1, <1>2, <1>4
  <2>2. prev_size' \in 0 .. HEAP_MAX_BLOCK_SIZE
    BY <1>1, <1>2
  <2>3. force' \in BOOLEAN
    BY <1>1
  <2> QED
    BY <1>1, <1>2, <1>4, <2>1, <2>2, <2>3, Zenon DEF TypeOK
<1>6. NothingFreeBefore'
  BY <1>4 DEF NothingFreeBefore
<1>7. PurgeCursor' /\ NoGrayInPurge'
  BY <1>1 DEF PurgeCursor, NoGrayInPurge
<1>8. GrayIsPending'
  BY <1>1, <1>4 DEF HeapInv, NoGrayInPurge, GrayIsPending, Used
<1> QED
  BY <1>4, <1>5, <1>6, <1>7, <1>8 DEF HeapInv, Chain

LEMMA StutterPreserves ==
  ASSUME HeapInv, UNCHANGED heapVars
  PROVE  HeapInv'
<1>1. /\ size' = size /\ flags' = flags /\ gray' = gray
      /\ next_free_block' = next_free_block /\ phase' = phase /\ p' = p
      /\ prev_block' = prev_block /\ prev_size' = prev_size /\ force' = force
  BY DEF heapVars
<1>2. /\ Blocks' = Blocks /\ Used' = Used
      /\ \A b : After(b)' = After(b)
  BY <1>1 DEF Blocks, Used, After, FULL_BLOCK_SIZE
<1>3. TypeOK'
  BY <1>1, <1>2, Zenon DEF HeapInv, TypeOK
<1>4. Tiling' /\ HeaderInArray' /\ Sizes'
  BY <1>1, <1>2 DEF HeapInv, Tiling, HeaderInArray, Sizes
<1>5. NothingFreeBefore' /\ GrayIsPending' /\ NoGrayInPurge'
  BY <1>1, <1>2 DEF HeapInv, NothingFreeBefore, GrayIsPending, NoGrayInPurge
<1>6. PurgeCursor'
  BY <1>1, <1>2 DEF HeapInv, PurgeCursor
<1> QED
  BY <1>3, <1>4, <1>5, <1>6 DEF HeapInv

-----------------------------------------------------------------------------
(* HeapInv holds in every reachable state of every heap.                   *)
THEOREM HeapInvariant == Spec => []HeapInv
<1>1. Init => HeapInv
  BY InitEstablishes
<1>2. HeapInv /\ [Next]_heapVars => HeapInv'
  <2> SUFFICES ASSUME HeapInv, [Next]_heapVars PROVE HeapInv'
    OBVIOUS
  <2>1. CASE \E n \in ObjectSizes, protect \in BOOLEAN : Alloc(n, protect)
    BY <2>1, AllocPreserves
  <2>2. CASE (\E n \in ObjectSizes : OutOfMemory(n)) \/ AllocFromNull
    BY <2>2, StopPreserves
  <2>3. CASE \/ \E o \in Used : MarkGray(o)
             \/ \E o \in gray, refs \in SUBSET Used : MarkReferencesGray(o, refs)
    BY <2>3, MarkPreserves
  <2>4. CASE \E f \in BOOLEAN : PurgeHeap(f)
    BY <2>4, PurgeHeapPreserves
  <2>5. CASE Purge
    BY <2>5, PurgeKeepPreserves, PurgeFreePreserves, PurgeEndPreserves DEF Purge
  <2>6. CASE UNCHANGED heapVars
    BY <2>6, StutterPreserves
  <2> QED
    BY <2>1, <2>2, <2>3, <2>4, <2>5, <2>6 DEF Next
<1> QED
  BY <1>1, <1>2, PTL DEF Spec

(* The blocks always tile the array: the walks of getAddress and purgeHeap *)
(* only ever read headers (heap.cpp:39-45, 105-156).                       *)
THEOREM TilingHolds == Spec => []Tiling
BY HeapInvariant, PTL DEF HeapInv

(* Every header lies inside the array, also the one that allocBlock writes *)
(* after a block at the very end (heap.cpp:80).                            *)
THEOREM HeaderInArrayHolds == Spec => []HeaderInArray
BY HeapInvariant, PTL DEF HeapInv

(* getAddress overlooks no free block (heap.cpp:38, 87-89, 111, 141).      *)
THEOREM NothingOverlooked == Spec => []NothingFreeBefore
BY HeapInvariant, PTL DEF HeapInv

(* The gray set and the gray colour agree, so markGray and                 *)
(* markReferencesGray never work on a freed block (heap.cpp:159-194).      *)
THEOREM GrayAgrees == Spec => []GrayIsPending
BY HeapInvariant, PTL DEF HeapInv

(* The sweep's cursor, next_free_block and prev_block mean what purgeHeap  *)
(* takes them to mean (heap.cpp:94-157).                                   *)
THEOREM CursorRight == Spec => []PurgeCursor
BY HeapInvariant, PTL DEF HeapInv

-----------------------------------------------------------------------------
(* Merging.  Behind the cursor nothing is left to merge; a free block that *)
(* ends at the cursor is prev_block, so the next turn can still merge it.  *)
Apart(b) ==
  flags[After(b)] = "free" /\ size[After(b)] # 0 =>
    FULL_BLOCK_SIZE(size[b]) + size[After(b)] > HEAP_MAX_BLOCK_SIZE

SweptCoalesced ==
  phase = "purge" =>
    \A b \in Freed :
      size[b] # 0 => /\ After(b) = p => b = prev_block
                     /\ After(b) < p => Apart(b)

(* Tiling in the form the proofs use: two blocks do not end together, and  *)
(* a block that starts before another one ends before it.                  *)
LEMMA EndsApart ==
  ASSUME TypeOK, Tiling, NEW b \in Blocks, NEW c \in Blocks, size[b] # 0, size[c] # 0
  PROVE  /\ After(b) = After(c) => b = c
         /\ b < c <=> After(b) < After(c)
         /\ After(b) # c => After(b) < c \/ c <= b
<1>1. /\ b \in Nat /\ c \in Nat /\ After(b) \in Nat /\ After(c) \in Nat
      /\ b < After(b) /\ c < After(c)
  BY BlockType
<1>2. (c <= b \/ After(b) <= c) /\ (b <= c \/ After(c) <= b)
  BY DEF Tiling
<1> QED
  BY <1>1, <1>2

LEMMA KeepLeavesApart ==
  ASSUME HeapInv, HeapInv', SweptCoalesced, PurgeKeep
  PROVE  SweptCoalesced'
<1>1. /\ phase = "purge" /\ size[p] # 0 /\ p' = After(p) /\ size' = size
      /\ flags' = [flags EXCEPT ![p] = IF @ = "protected" THEN "protected" ELSE "white"]
  BY DEF PurgeKeep, Onward
<1>2. TypeOK /\ Tiling /\ p \in Blocks /\ Blocks' = Blocks
  BY <1>1, PurgeFacts DEF Chain, Blocks
<1>3. flags'[p] # "free" /\ \A b \in Blocks : b # p => flags'[b] = flags[b]
  BY <1>1, <1>2 DEF TypeOK
<1>4. \A b : After(b)' = After(b)
  BY <1>1 DEF After, FULL_BLOCK_SIZE
<1> SUFFICES ASSUME NEW b \in Blocks, flags'[b] = "free", size[b] # 0
             PROVE  /\ After(b) # p'
                    /\ After(b) < p' => Apart(b)'
  BY <1>1, <1>2, <1>4 DEF SweptCoalesced, Freed
<1>5. b # p /\ b \in Freed
  BY <1>2, <1>3 DEF Freed
<1>6. /\ After(b) # After(p)
      /\ After(b) < After(p) => After(b) = p \/ After(b) < p
  <2>1. After(b) # p => After(b) < p \/ p <= b
    BY <1>1, <1>2, EndsApart
  <2>2. (b < p <=> After(b) < After(p)) /\ (After(b) = After(p) => b = p)
    BY <1>1, <1>2, EndsApart
  <2>3. b \in Nat /\ p \in Nat /\ After(b) \in Nat
    BY <1>2, BlockType
  <2> QED
    BY <1>5, <2>1, <2>2, <2>3
<1>7. After(b) < p => Apart(b)'
  <2>1. After(b) < p => After(b) # p /\ After(b) \in Blocks
    BY <1>2, BlockType DEF Tiling
  <2> QED
    BY <1>1, <1>3, <1>4, <1>5, <2>1 DEF SweptCoalesced, Apart
<1>8. After(b) = p => Apart(b)'
  BY <1>1, <1>3, <1>4 DEF Apart
<1> QED
  BY <1>1, <1>6, <1>7, <1>8

LEMMA FreeLeavesApart ==
  ASSUME HeapInv, HeapInv', SweptCoalesced, PurgeFree
  PROVE  SweptCoalesced'
<1>1. phase = "purge" /\ size[p] # 0 /\ p' = After(p)
  BY DEF PurgeFree, Onward
<1>2. /\ TypeOK /\ Tiling /\ p \in Blocks /\ p \in Nat /\ HEAP_MAX_BLOCK_SIZE \in Nat
      /\ \A b \in Blocks : b \in Nat /\ size[b] \in Nat /\ After(b) \in Nat /\ b < After(b)
  BY <1>1, PurgeFacts, BlockType DEF Chain
<1>3. prev_block # NULL => /\ prev_block \in Blocks /\ flags[prev_block] = "free"
                           /\ size[prev_block] = prev_size /\ prev_size # 0
                           /\ After(prev_block) = p
  BY <1>1 DEF HeapInv, PurgeCursor
<1>4. CASE Merges
  <2>1. /\ size' = [b \in Blocks \ {p} |-> IF b = prev_block THEN Byte(MergedSize) ELSE size[b]]
        /\ flags' = [b \in Blocks \ {p} |-> flags[b]]
        /\ prev_block' = prev_block /\ prev_block # NULL
    BY <1>4 DEF PurgeFree, Merges
  <2>2. Byte(MergedSize) = MergedSize
    <3>1. prev_size \in Nat /\ size[p] \in Nat
      BY <1>2, <1>3, <2>1
    <3>2. MergedSize \in Nat /\ MergedSize <= HEAP_MAX_BLOCK_SIZE
      BY <1>2, <1>4, <3>1 DEF Merges, MergedSize, HEAP_HEAD_SIZE
    <3> QED
      BY <1>2, <3>2, ByteIsIdentity
  <2>3. MergedSize = size[prev_block] + size[p] + HEAP_HEAD_SIZE
    BY <1>3, <2>1 DEF MergedSize
  <2>4. Blocks' = Blocks \ {p} /\ prev_block # p /\ prev_block \in Blocks
    BY <1>2, <1>3, <2>1 DEF Blocks
  <2>5. /\ \A b \in Blocks : b # p /\ b # prev_block => size'[b] = size[b] /\ After(b)' = After(b)
        /\ \A b \in Blocks : b # p => flags'[b] = flags[b]
        /\ size'[prev_block] = MergedSize
    BY <1>2, <2>1, <2>2, <2>4 DEF After, FULL_BLOCK_SIZE
  <2>6. After(prev_block)' = p' /\ size[prev_block] < MergedSize
    <3>1. size[prev_block] \in Nat /\ size[p] \in Nat
      BY <1>2, <2>4
    <3> QED
      BY <1>1, <1>2, <1>3, <2>1, <2>3, <2>4, <2>5, <3>1 DEF After, FULL_BLOCK_SIZE, HEAP_HEAD_SIZE
  <2> SUFFICES ASSUME NEW b \in Blocks, b # p, b # prev_block, flags[b] = "free", size[b] # 0
               PROVE  /\ After(b) # p'
                      /\ After(b) < p' => Apart(b)'
    <3>1. p' \in Nat
      BY <1>1, <1>2
    <3>2. ASSUME NEW b \in Freed', size'[b] # 0, b # prev_block
          PROVE  /\ b \in Blocks /\ b # p /\ flags[b] = "free" /\ size[b] # 0
                 /\ After(b)' = After(b)
      BY <2>4, <2>5, <3>2 DEF Freed
    <3>3. ~(After(prev_block)' < p')
      BY <2>6, <3>1
    <3> QED
      BY <2>1, <2>6, <3>2, <3>3 DEF SweptCoalesced
  <2>7. After(b) \in Blocks /\ b \in Freed /\ After(b) # p
    BY <1>1, <1>2, <1>3, <2>1, <2>4, EndsApart DEF Tiling, Freed
  <2>8. /\ After(b) # After(p)
        /\ After(b) < After(p) => After(b) < p
    BY <1>1, <1>2, <2>7, EndsApart
  <2>9. ASSUME After(b) < p
        PROVE  Apart(b)'
    <3>1. Apart(b)
      BY <1>1, <2>7, <2>9 DEF SweptCoalesced
    <3>2. CASE After(b) = prev_block
      <4>1. size[b] \in Nat /\ size[prev_block] \in Nat /\ MergedSize \in Nat
        BY <1>2, <2>3, <2>4 DEF HEAP_HEAD_SIZE
      <4>2. FULL_BLOCK_SIZE(size[b]) + size[prev_block] > HEAP_MAX_BLOCK_SIZE
        BY <1>3, <2>1, <3>1, <3>2 DEF Apart
      <4>3. FULL_BLOCK_SIZE(size[b]) + MergedSize > HEAP_MAX_BLOCK_SIZE
        BY <1>2, <2>6, <4>1, <4>2 DEF FULL_BLOCK_SIZE, HEAP_HEAD_SIZE
      <4> QED
        BY <2>5, <3>2, <4>3 DEF Apart
    <3>3. CASE After(b) # prev_block
      BY <2>5, <2>7, <3>1, <3>3 DEF Apart
    <3> QED
      BY <3>2, <3>3
  <2> QED
    BY <1>1, <2>8, <2>9
<1>5. CASE ~Merges
  <2>1. flags' = [flags EXCEPT ![p] = "free"] /\ prev_block' = p /\ size' = size
    BY <1>5 DEF PurgeFree
  <2>2. Blocks' = Blocks /\ \A b : After(b)' = After(b)
    BY <2>1 DEF Blocks, After, FULL_BLOCK_SIZE
  <2>3. flags'[p] = "free" /\ \A b \in Blocks : b # p => flags'[b] = flags[b]
    BY <1>2, <2>1 DEF TypeOK
  <2> SUFFICES ASSUME NEW b \in Blocks, b # p, flags[b] = "free", size[b] # 0
               PROVE  /\ After(b) # p'
                      /\ After(b) < p' => Apart(b)'
    BY <1>1, <1>2, <2>1, <2>2, <2>3 DEF SweptCoalesced, Freed
  <2>4. b \in Freed /\ After(b) \in Blocks
    BY <1>2 DEF Tiling, Freed
  <2>5. /\ After(b) # After(p)
        /\ After(b) < After(p) => After(b) = p \/ After(b) < p
    BY <1>1, <1>2, <2>4, EndsApart
  <2>6. ASSUME After(b) < p
        PROVE  Apart(b)'
    <3>1. Apart(b) /\ After(b) # p
      BY <1>1, <1>2, <2>4, <2>6 DEF SweptCoalesced
    <3> QED
      BY <2>1, <2>2, <2>3, <2>4, <3>1 DEF Apart
  <2>7. ASSUME After(b) = p
        PROVE  Apart(b)'
    <3>1. b = prev_block /\ prev_block # NULL
      BY <1>1, <1>2, <2>4, <2>7 DEF SweptCoalesced, NULL
    <3>2. size[b] + size[p] + HEAP_HEAD_SIZE > HEAP_MAX_BLOCK_SIZE
      BY <1>2, <1>3, <1>5, <3>1 DEF Merges, MergedSize, HEAP_HEAD_SIZE
    <3>3. FULL_BLOCK_SIZE(size[b]) + size[p] > HEAP_MAX_BLOCK_SIZE
      BY <1>2, <3>2 DEF FULL_BLOCK_SIZE, HEAP_HEAD_SIZE
    <3> QED
      BY <2>1, <2>2, <2>7, <3>3 DEF Apart
  <2> QED
    BY <1>1, <2>5, <2>6, <2>7
<1> QED
  BY <1>4, <1>5

LEMMA SweptCoalescedHolds == Spec => []SweptCoalesced
<1>1. Init => SweptCoalesced
  BY DEF Init, SweptCoalesced
<1>2. HeapInv /\ HeapInv' /\ SweptCoalesced /\ [Next]_heapVars => SweptCoalesced'
  <2> SUFFICES ASSUME HeapInv, HeapInv', SweptCoalesced, [Next]_heapVars
               PROVE  SweptCoalesced'
    OBVIOUS
  <2>1. CASE PurgeKeep
    BY <2>1, KeepLeavesApart
  <2>2. CASE PurgeFree
    BY <2>2, FreeLeavesApart
  <2>3. CASE \E f \in BOOLEAN : PurgeHeap(f)
    <3>1. p' = 0 /\ size' = size
      BY <2>3 DEF PurgeHeap
    <3>2. \A b \in Blocks' : b \in Nat /\ b < After(b)'
      BY <3>1, BlockType DEF HeapInv, Blocks, After
    <3>3. \A b \in Freed' : ~(After(b)' = 0) /\ ~(After(b)' < 0)
      <4>1. \A b \in Blocks' : After(b)' \in Nat
        BY <3>1, BlockType DEF HeapInv, Blocks, After
      <4> QED
        BY <3>2, <4>1 DEF Freed
    <3> QED
      BY <3>1, <3>3 DEF SweptCoalesced
  <2>4. CASE phase' # "purge"
    BY <2>4 DEF SweptCoalesced
  <2>5. CASE UNCHANGED heapVars
    BY <2>5 DEF heapVars, SweptCoalesced, Freed, Blocks, Apart, After
  <2>6. CASE \/ \E n \in ObjectSizes, protect \in BOOLEAN : Alloc(n, protect)
             \/ \E n \in ObjectSizes : OutOfMemory(n)
             \/ AllocFromNull
             \/ \E o \in Used : MarkGray(o)
             \/ \E o \in gray, refs \in SUBSET Used : MarkReferencesGray(o, refs)
    <3>1. phase' # "purge"
      BY <2>6 DEF Alloc, OutOfMemory, AllocFromNull, MarkGray, MarkReferencesGray
    <3> QED
      BY <2>4, <3>1
  <2>7. CASE PurgeTail \/ PurgeOffEnd
    <3>1. phase' # "purge"
      BY <2>7 DEF PurgeTail, PurgeOffEnd, Return
    <3> QED
      BY <2>4, <3>1
  <2> QED
    BY <2>1, <2>2, <2>3, <2>5, <2>6, <2>7 DEF Next, Purge
<1> QED
  BY <1>1, <1>2, HeapInvariant, PTL DEF Spec

(* When the sweep reaches the unused end of the heap, no two neighbouring  *)
(* free blocks are left that would fit into one (heap.cpp:118-143): every  *)
(* object dies next to free room and that room is used again.              *)
THEOREM PurgeCoalescesHolds == Spec => PurgeCoalesces
<1>1. HeapInv /\ SweptCoalesced /\ [Next]_heapVars
        => [phase = "purge" /\ phase' # "purge" /\ InHeap => Coalesced']_heapVars
  <2> SUFFICES ASSUME HeapInv, SweptCoalesced, Next, phase = "purge", phase' # "purge", InHeap
               PROVE  Coalesced'
    OBVIOUS
  <2>1. PurgeTail
    BY DEF Next, Alloc, OutOfMemory, AllocFromNull, MarkGray, MarkReferencesGray, PurgeHeap,
           Purge, PurgeKeep, PurgeFree, PurgeOffEnd
  <2>2. /\ TypeOK /\ Tiling /\ p \in Blocks /\ size[p] = 0
        /\ \A b \in Blocks : b \in Nat /\ After(b) \in Nat /\ b < After(b)
    BY <2>1, PurgeFacts, BlockType DEF Chain, PurgeTail
  <2>3. \A b \in Blocks : b <= p
    BY <2>2 DEF Tiling
  <2>4. ASSUME NEW b \in Freed, size[b] # 0, size[After(b)] # 0
        PROVE  Apart(b)
    <3>1. After(b) \in Blocks /\ After(b) # p /\ After(b) <= p
      BY <2>2, <2>3, <2>4 DEF Tiling, Freed
    <3> QED
      BY <2>2, <2>4, <3>1 DEF SweptCoalesced, Freed
  <2>5. CASE prev_block = NULL
    <3>1. size' = size /\ flags' = flags
      BY <2>1, <2>5 DEF PurgeTail
    <3> QED
      BY <2>4, <3>1 DEF Coalesced, Apart, Freed, Blocks, After
  <2>6. CASE prev_block # NULL
    <3>1. /\ size' = [b \in Blocks \ {p} |-> IF b = prev_block THEN 0 ELSE size[b]]
          /\ flags' = [b \in Blocks \ {p} |-> flags[b]]
      BY <2>1, <2>6 DEF PurgeTail
    <3>2. Blocks' = Blocks \ {p}
      BY <3>1 DEF Blocks
    <3> SUFFICES ASSUME NEW b \in Freed', size'[b] # 0, flags'[After(b)'] = "free",
                        size'[After(b)'] # 0
                 PROVE  FULL_BLOCK_SIZE(size'[b]) + size'[After(b)'] > HEAP_MAX_BLOCK_SIZE
      BY DEF Coalesced
    <3>3. b \in Blocks /\ b # p /\ size'[b] = size[b] /\ b \in Freed /\ After(b)' = After(b)
      BY <3>1, <3>2 DEF Freed, After
    <3>4. After(b) \in Blocks'
      <4>1. After(b)' \in Blocks'
        BY <2>1, PurgeEndPreserves, <3>2, <3>3 DEF HeapInv, Tiling
      <4> QED
        BY <3>3, <4>1
    <3>5. size'[After(b)] = size[After(b)] /\ flags[After(b)] = "free"
      BY <3>1, <3>2, <3>3, <3>4
    <3> QED
      BY <2>4, <3>3, <3>5 DEF Apart
  <2> QED
    BY <2>5, <2>6
<1> QED
  BY <1>1, HeapInvariant, SweptCoalescedHolds, PTL DEF Spec, PurgeCoalesces

(* Every header and every register of the heap manager keeps its type.     *)
THEOREM TypeOKHolds == Spec => []TypeOK
BY HeapInvariant, PTL DEF HeapInv

-----------------------------------------------------------------------------
(* HeapManager implements BlockStore: every step of Heap is a step of the  *)
(* store of disjoint objects or leaves it alone.  The refinement mapping   *)
(* (Extent, Marked, Doomed in Heap.tla) forgets free blocks, the cursor    *)
(* and the gray set.                                                       *)

-----------------------------------------------------------------------------
(* The mapping *)

LEMMA PayloadMember ==
  ASSUME NEW S \in SUBSET Nat, NEW b \in Nat
  PROVE  b + HEAP_HEAD_SIZE \in ToPayload(S) <=> b \in S
BY DEF ToPayload, HEAP_HEAD_SIZE

LEMMA PayloadElement ==
  ASSUME NEW S \in SUBSET Nat, NEW o \in ToPayload(S)
  PROVE  \E b \in S : o = b + HEAP_HEAD_SIZE /\ o - HEAP_HEAD_SIZE = b
BY DEF ToPayload, HEAP_HEAD_SIZE

(* The mapped state, block by block.                                       *)
LEMMA MappedState ==
  ASSUME HeapInv
  PROVE  /\ Used \subseteq Nat
         /\ Store!Live = ToPayload(Used)
         /\ \A b \in Used : Extent[b + HEAP_HEAD_SIZE] = size[b]
         /\ \A b \in Used : Store!EndOf(b + HEAP_HEAD_SIZE) = After(b)
<1>1. Used \subseteq Nat
  BY DEF HeapInv, TypeOK, Used
<1>2. Store!Live = ToPayload(Used)
  BY DEF Store!Live, Extent
<1>3. ASSUME NEW b \in Used
      PROVE  Extent[b + HEAP_HEAD_SIZE] = size[b]
  <2> DEFINE o == b + HEAP_HEAD_SIZE
  <2>1. b \in Nat
    BY <1>1
  <2>2. o \in ToPayload(Used)
    BY <1>1, <2>1, PayloadMember
  <2>3. o - HEAP_HEAD_SIZE = b
    BY <2>1 DEF HEAP_HEAD_SIZE
  <2> HIDE DEF o
  <2>4. Extent[o] = size[b]
    BY <2>2, <2>3 DEF Extent
  <2> QED
    BY <2>4 DEF o
<1>5. \A b \in Used : size[b] \in Nat
  BY BlockType DEF HeapInv, Used
<1>6. \A b \in Used : Store!EndOf(b + HEAP_HEAD_SIZE) = After(b)
  BY <1>1, <1>3, <1>5 DEF Store!EndOf, After, FULL_BLOCK_SIZE, HEAP_HEAD_SIZE
<1> QED
  BY <1>1, <1>2, <1>3, <1>6

(* The store does not change when the blocks in use keep address, size,    *)
(* and whether they are white.                                             *)
LEMMA SameUsedSameStore ==
  ASSUME HeapInv, Used' = Used,
         \A b \in Used : size'[b] = size[b]
  PROVE  Extent' = Extent
<1>1. Used \subseteq Nat
  BY MappedState
<1>2. \A o \in ToPayload(Used) : o - HEAP_HEAD_SIZE \in Used
  BY <1>1, PayloadElement
<1>3. ToPayload(Used)' = ToPayload(Used)
  BY DEF ToPayload
<1> QED
  BY <1>2, <1>3 DEF Extent

LEMMA PayloadUnion ==
  ASSUME NEW S, NEW T
  PROVE  ToPayload(S \cup T) = ToPayload(S) \cup ToPayload(T)
BY DEF ToPayload

LEMMA PayloadSingleton ==
  ASSUME NEW b
  PROVE  ToPayload({b}) = {b + HEAP_HEAD_SIZE}
BY DEF ToPayload

LEMMA PayloadMinus ==
  ASSUME NEW S \in SUBSET Nat, NEW b \in Nat
  PROVE  ToPayload(S \ {b}) = ToPayload(S) \ {b + HEAP_HEAD_SIZE}
BY DEF ToPayload, HEAP_HEAD_SIZE

-----------------------------------------------------------------------------
(* Action by action *)

LEMMA InitMaps == Init => Store!Init
<1> SUFFICES ASSUME Init PROVE Store!Init
  OBVIOUS
<1>1. Blocks = {0} /\ flags[0] = "free" /\ phase = "run"
  BY DEF Init, Blocks
<1>2. Used = {}
  BY <1>1 DEF Used
<1>3. ToPayload({}) = {}
  BY DEF ToPayload
<1>4. Extent = [o \in {} |-> 0]
  BY <1>2, <1>3 DEF Extent
<1>5. Marked = {}
  BY <1>2, <1>3 DEF Marked, NotWhite
<1>6. Doomed = {}
  BY <1>1, <1>3 DEF Doomed, Condemned
<1> QED
  BY <1>1, <1>4, <1>5, <1>6 DEF Store!Init

LEMMA AllocMaps ==
  ASSUME HeapInv, HeapInv', NEW n \in ObjectSizes, NEW protect \in BOOLEAN,
         Alloc(n, protect)
  PROVE  \E o \in 0 .. HEAP_SIZE, m \in 0 .. HEAP_SIZE : Store!Allocate(n, o, m)
<1>1. PICK q \in Fitting(n) : AllocBlock(q, n, protect)
  BY DEF Alloc
<1>2. /\ q \in Blocks /\ flags[q] = "free"
      /\ q < HEAP_SIZE - HEAP_HEAD_SIZE - n
      /\ size[q] = 0 \/ n <= size[q]
  BY DEF Fitting, Freed
<1>3. TypeOK /\ Chain
  BY DEF HeapInv, Chain
<1> DEFINE colour == IF protect THEN "protected" ELSE "white"
           m == TakenSize(q, n)
           next == q + FULL_BLOCK_SIZE(m)
           o == q + HEAP_HEAD_SIZE
<1>4. /\ Blocks' \in {Blocks, Blocks \cup {next}}
      /\ next \in Blocks' /\ next \in Nat /\ q < next
      /\ \A c \in Blocks : c <= q \/ next <= c
      /\ m \in Nat /\ n <= m
      /\ \A b \in Blocks : size'[b] = IF b = q THEN m ELSE size[b]
      /\ \A b \in Blocks : flags'[b] = IF b = q THEN colour ELSE flags[b]
      /\ next \notin Blocks => flags'[next] = "free"
  BY <1>1, <1>2, <1>3, AllocBlockShape
<1>5. colour # "free"
  OBVIOUS
<1>6. o \in Nat /\ o + m = next /\ q \in Nat
  BY <1>2, <1>3, <1>4, BlockType DEF FULL_BLOCK_SIZE, HEAP_HEAD_SIZE
<1> HIDE DEF colour, m, next
<1>7. Used \subseteq Nat /\ Used \subseteq Blocks /\ q \notin Used
  BY <1>2, MappedState DEF Used
<1>8. Used' = Used \cup {q}
  BY <1>2, <1>4, <1>5 DEF Used
<1>9. phase = "run" /\ phase' = "run"
  BY DEF Alloc
<1>10. o \in 0 .. HEAP_SIZE /\ m \in 0 .. HEAP_SIZE /\ o + m <= HEAP_SIZE
  <2>1. next + HEAP_HEAD_SIZE <= HEAP_SIZE
    BY <1>4 DEF HeapInv, HeaderInArray
  <2> QED
    BY <2>1, <1>4, <1>6, HeapAssumption DEF HEAP_HEAD_SIZE
<1>11. o \notin Store!Live
  BY <1>6, <1>7, MappedState, PayloadMember
<1>12. Store!Disjoint(o, m)
  <2> SUFFICES ASSUME NEW x \in Store!Live
               PROVE  Store!EndOf(x) <= o \/ o + m <= x
    BY DEF Store!Disjoint
  <2>1. PICK b \in Used : x = b + HEAP_HEAD_SIZE
    BY <1>7, MappedState, PayloadElement
  <2>2. Store!EndOf(x) = After(b)
    BY <2>1, MappedState
  <2>3. b \in Blocks /\ b # q /\ b \in Nat /\ After(b) \in Nat
    BY <2>1, <1>2, <1>3, <1>7, BlockType
  <2>4. q <= b \/ After(b) <= q
    BY <2>1, <2>3, <1>2, <1>3 DEF Chain, Tiling, Used
  <2> QED
    BY <2>1, <2>2, <2>3, <2>4, <1>4, <1>6 DEF HEAP_HEAD_SIZE
<1>13. Extent' = [x \in Store!Live \cup {o} |-> IF x = o THEN m ELSE Extent[x]]
  <2>1. ToPayload(Used') = Store!Live \cup {o}
    <3>1. Store!Live = ToPayload(Used) /\ ToPayload({q}) = {o}
      BY MappedState, PayloadSingleton
    <3>2. ToPayload(Used \cup {q}) = ToPayload(Used) \cup ToPayload({q})
      BY PayloadUnion
    <3> QED
      BY <3>1, <3>2, <1>8
  <2>2. ASSUME NEW x \in Store!Live \cup {o}
        PROVE  size'[x - HEAP_HEAD_SIZE] = IF x = o THEN m ELSE Extent[x]
    <3>1. CASE x = o
      BY <3>1, <1>2, <1>4, <1>6 DEF HEAP_HEAD_SIZE
    <3>2. CASE x # o
      <4>1. x \in ToPayload(Used)
        BY <3>2, MappedState
      <4>2. PICK b \in Used : x = b + HEAP_HEAD_SIZE /\ x - HEAP_HEAD_SIZE = b
        BY <4>1, <1>7, PayloadElement
      <4>3. Extent[x] = size[b]
        BY <4>2, MappedState
      <4> QED
        BY <3>2, <4>2, <4>3, <1>4, <1>7
    <3> QED
      BY <3>1, <3>2
  <2>3. Extent' = [x \in ToPayload(Used') |-> size'[x - HEAP_HEAD_SIZE]]
    BY DEF Extent, ToPayload
  <2> QED
    BY <2>1, <2>2, <2>3
<1>14. Marked' \in {Marked, Marked \cup {o}}
  <2>1. NotWhite' = IF colour = "white" THEN NotWhite ELSE NotWhite \cup {q}
    BY <1>2, <1>4, <1>7, <1>8 DEF NotWhite
  <2>2. Marked' = ToPayload(NotWhite')
    BY DEF Marked, ToPayload
  <2>3. ToPayload(NotWhite \cup {q}) = Marked \cup {o}
    <3>1. ToPayload({q}) = {o}
      BY PayloadSingleton
    <3>2. ToPayload(NotWhite \cup {q}) = ToPayload(NotWhite) \cup ToPayload({q})
      BY PayloadUnion
    <3> QED
      BY <3>1, <3>2 DEF Marked
  <2>4. ToPayload(NotWhite) = Marked
    BY DEF Marked
  <2>5. CASE colour = "white"
    BY <2>1, <2>2, <2>4, <2>5
  <2>6. CASE colour # "white"
    BY <2>1, <2>2, <2>3, <2>6
  <2> QED
    BY <2>5, <2>6
<1>15. Doomed' = Doomed
  BY <1>9 DEF Doomed, Condemned, ToPayload
<1> HIDE DEF o
<1>16. Store!Allocate(n, o, m)
  BY <1>4, <1>9, <1>10, <1>11, <1>12, <1>13, <1>14, <1>15 DEF Store!Allocate
<1> QED
  BY <1>10, <1>16

(* Steps that change colours only: the objects and their places stay.      *)
LEMMA MarkMaps ==
  ASSUME HeapInv,
         \/ \E b \in Used : MarkGray(b)
         \/ \E b \in gray, refs \in SUBSET Used : MarkReferencesGray(b, refs)
  PROVE  \E objects \in SUBSET Store!Live : Store!Mark(objects)
<1>1. /\ size' = size /\ phase = "run" /\ phase' = "run"
      /\ gray = {b \in Used : flags[b] = "gray"}
  BY DEF MarkGray, MarkReferencesGray, HeapInv, GrayIsPending
<1>2. PICK W \in SUBSET Used :
        /\ NotWhite' = NotWhite \cup W
        /\ Used' = Used
  <2>1. CASE \E b \in Used : MarkGray(b)
    <3>1. PICK o \in Used : MarkGray(o)
      BY <2>1
    <3>2. flags' = [b \in Blocks |-> IF b \in Whites({o}) THEN "gray" ELSE flags[b]]
      BY <3>1 DEF MarkGray
    <3>3. Blocks' = Blocks /\ Whites({o}) \subseteq Used
      BY <1>1 DEF Blocks, Whites
    <3>4. Used' = Used
      BY <3>2, <3>3 DEF Used
    <3>5. NotWhite' = NotWhite \cup Whites({o})
      BY <3>2, <3>3, <3>4 DEF NotWhite, Used
    <3> QED
      BY <3>3, <3>4, <3>5
  <2>2. CASE \E b \in gray, refs \in SUBSET Used : MarkReferencesGray(b, refs)
    <3>1. PICK o \in gray, refs \in SUBSET Used : MarkReferencesGray(o, refs)
      BY <2>2
    <3>2. flags' = [b \in Blocks |-> IF b = o THEN "black"
                                    ELSE IF b \in Whites(refs) THEN "gray"
                                    ELSE flags[b]]
      BY <3>1 DEF MarkReferencesGray
    <3>3. Blocks' = Blocks /\ Whites(refs) \subseteq Used
      BY <1>1, <3>1 DEF Blocks, Whites
    <3>4. o \in Used /\ o \in NotWhite
      BY <1>1 DEF NotWhite
    <3>5. Used' = Used
      BY <3>2, <3>3, <3>4 DEF Used
    <3>6. NotWhite' = NotWhite \cup Whites(refs)
      BY <3>2, <3>3, <3>4, <3>5 DEF NotWhite, Used
    <3> QED
      BY <3>3, <3>5, <3>6
  <2> QED
    BY <2>1, <2>2
<1>3. Extent' = Extent
  BY <1>1, <1>2, SameUsedSameStore
<1>4. Marked' = Marked \cup ToPayload(W)
  <2>1. Marked' = ToPayload(NotWhite') /\ Marked = ToPayload(NotWhite)
    BY DEF Marked, ToPayload
  <2>2. ToPayload(NotWhite \cup W) = ToPayload(NotWhite) \cup ToPayload(W)
    BY PayloadUnion
  <2> QED
    BY <1>2, <2>1, <2>2
<1>5. ToPayload(W) \subseteq Store!Live
  <2>1. Store!Live = ToPayload(Used)
    BY MappedState
  <2> QED
    BY <2>1 DEF ToPayload
<1>6. Doomed' = Doomed
  BY <1>1 DEF Doomed, Condemned, ToPayload
<1>7. Store!Mark(ToPayload(W))
  BY <1>1, <1>3, <1>4, <1>5, <1>6 DEF Store!Mark
<1> QED
  BY <1>5, <1>7

LEMMA PurgeHeapMaps ==
  ASSUME HeapInv, NEW f \in BOOLEAN, PurgeHeap(f)
  PROVE  Store!BeginSweep(Store!Live \ Marked) \/ Store!BeginSweep(Store!Live)
<1>1. /\ size' = size /\ flags' = flags /\ p' = 0 /\ force' = f
      /\ phase = "run" /\ phase' = "purge"
  BY DEF PurgeHeap
<1>2. Used \subseteq Nat /\ Used' = Used /\ NotWhite \subseteq Used
  BY <1>1, MappedState DEF Used, Blocks, NotWhite
<1>3. Extent' = Extent
  BY <1>1, <1>2, SameUsedSameStore
<1>4. NotWhite' = NotWhite
  BY <1>1, <1>2 DEF NotWhite
<1>5. Marked' = Marked
  BY <1>4 DEF Marked, ToPayload
<1>6. Condemned' = IF f THEN Used ELSE Used \ NotWhite
  BY <1>1, <1>2 DEF Condemned, Dies, NotWhite, Used
<1>7. Doomed' = ToPayload(Condemned')
  BY DEF Doomed, ToPayload
<1>8. Store!Live = ToPayload(Used) /\ Marked = ToPayload(NotWhite)
  BY MappedState DEF Marked
<1>9. ToPayload(Used \ NotWhite) = ToPayload(Used) \ ToPayload(NotWhite)
  BY <1>2 DEF ToPayload, HEAP_HEAD_SIZE
<1>10. Doomed' = IF f THEN Store!Live ELSE Store!Live \ Marked
  BY <1>6, <1>7, <1>8, <1>9
<1> QED
  BY <1>1, <1>3, <1>5, <1>10 DEF Store!BeginSweep

LEMMA PurgeKeepMaps ==
  ASSUME HeapInv, PurgeKeep
  PROVE  \E o \in Store!Live : Store!Retain(o)
<1>1. /\ phase = "purge" /\ phase' = "purge" /\ size[p] # 0
      /\ flags[p] # "free" /\ flags[p] # "white" /\ ~force
      /\ flags' = [flags EXCEPT ![p] = IF @ = "protected" THEN "protected"
                                       ELSE "white"]
      /\ p' = After(p) /\ size' = size /\ force' = force
  BY DEF PurgeKeep, Dies, Onward
<1>2. /\ p \in Blocks /\ p \in Nat /\ After(p) \in Nat /\ p < After(p)
      /\ \A b \in Blocks : b <= p \/ After(p) <= b
      /\ DOMAIN flags = Blocks
  BY <1>1, PurgeFacts DEF TypeOK
<1>3. \A b \in Blocks : flags'[b] = IF b # p THEN flags[b]
                        ELSE IF flags[p] = "protected" THEN "protected" ELSE "white"
  BY <1>1, <1>2
<1>4. Blocks' = Blocks /\ Used' = Used /\ Used \subseteq Nat
  BY <1>1, <1>2, <1>3, MappedState DEF Blocks, Used
<1>5. Extent' = Extent
  BY <1>1, <1>4, SameUsedSameStore
<1> DEFINE o == p + HEAP_HEAD_SIZE
<1>6. p \in Used /\ p \notin Condemned
  BY <1>1, <1>2 DEF Used, Condemned, Dies
<1>7. Condemned' = Condemned
  <2>1. Condemned = {b \in Used : p <= b /\ Dies(b)}
    BY <1>1 DEF Condemned
  <2>2. Condemned' = {b \in Used : After(p) <= b /\ Dies(b)'}
    BY <1>1, <1>4 DEF Condemned
  <2>3. \A b \in Used : b # p => Dies(b)' = Dies(b)
    BY <1>1, <1>3 DEF Dies, Used
  <2>4. \A b \in Used : b # p => (p <= b <=> After(p) <= b)
    BY <1>2, <1>4 DEF Used
  <2>5. ~(After(p) <= p)
    BY <1>2
  <2> QED
    BY <2>1, <2>2, <2>3, <2>4, <2>5, <1>6
<1>8. NotWhite' \in {NotWhite, NotWhite \ {p}}
  BY <1>1, <1>3, <1>4, <1>6 DEF NotWhite, Used
<1>9. Marked' \in {Marked, Marked \ {o}}
  <2>1. Marked' = ToPayload(NotWhite') /\ Marked = ToPayload(NotWhite)
    BY DEF Marked, ToPayload
  <2>2. ToPayload(NotWhite \ {p}) = ToPayload(NotWhite) \ {o}
    <3>1. NotWhite \in SUBSET Nat
      BY <1>4 DEF NotWhite
    <3> QED
      BY <3>1, <1>2, PayloadMinus
  <2> QED
    BY <2>1, <2>2, <1>8
<1>10. Doomed' = Doomed
  BY <1>7 DEF Doomed, ToPayload
<1>11. o \in Store!Live /\ o \notin Doomed
  <2>1. Condemned \in SUBSET Nat
    BY <1>4 DEF Condemned
  <2>2. o \in ToPayload(Used)
    BY <1>2, <1>4, <1>6, PayloadMember
  <2>3. o \notin ToPayload(Condemned)
    BY <1>2, <1>6, <2>1, PayloadMember
  <2> QED
    BY <2>2, <2>3, MappedState DEF Doomed
<1> HIDE DEF o
<1>12. Store!Retain(o)
  BY <1>1, <1>5, <1>9, <1>10, <1>11 DEF Store!Retain
<1> QED
  BY <1>11, <1>12

LEMMA PurgeFreeMaps ==
  ASSUME HeapInv, PurgeFree
  PROVE  (\E o \in Store!Live : Store!Reclaim(o)) \/ UNCHANGED Store!vars
<1>1. /\ phase = "purge" /\ phase' = "purge" /\ size[p] # 0 /\ Dies(p)
      /\ p' = After(p) /\ force' = force
  BY DEF PurgeFree, Onward
<1>2. /\ p \in Blocks /\ p \in Nat /\ After(p) \in Nat /\ p < After(p)
      /\ \A b \in Blocks : b <= p \/ After(p) <= b
      /\ \A b \in Blocks : b \in Nat
      /\ DOMAIN flags = Blocks
  BY <1>1, PurgeFacts DEF TypeOK
<1>3. /\ Used' = Used \ {p}
      /\ \A b \in Used \ {p} : flags'[b] = flags[b] /\ size'[b] = size[b]
  <2>1. CASE Merges
    <3>1. /\ size' = [b \in Blocks \ {p} |->
                       IF b = prev_block THEN Byte(MergedSize) ELSE size[b]]
          /\ flags' = [b \in Blocks \ {p} |-> flags[b]]
      BY <2>1 DEF PurgeFree
    <3>2. prev_block \notin Used
      BY <1>1, <2>1 DEF HeapInv, PurgeCursor, Merges, Used
    <3>3. Blocks' = Blocks \ {p}
      BY <3>1 DEF Blocks
    <3>4. Used' = Used \ {p}
      BY <3>1, <3>3 DEF Used
    <3> QED
      BY <3>1, <3>2, <3>4 DEF Used
  <2>2. CASE ~Merges
    <3>1. size' = size /\ flags' = [flags EXCEPT ![p] = "free"]
      BY <2>2 DEF PurgeFree
    <3>2. Blocks' = Blocks
      BY <3>1 DEF Blocks
    <3>3. \A b \in Blocks : flags'[b] = IF b = p THEN "free" ELSE flags[b]
      BY <1>2, <3>1
    <3>4. Used' = Used \ {p}
      BY <1>2, <3>2, <3>3 DEF Used
    <3> QED
      BY <3>1, <3>3, <3>4 DEF Used
  <2> QED
    BY <2>1, <2>2
<1>4. Used \subseteq Nat /\ Store!Live = ToPayload(Used)
  BY MappedState
<1>5. NotWhite' = NotWhite \ {p}
  BY <1>3 DEF NotWhite
<1>6. Condemned' = Condemned \ {p}
  <2>1. Condemned = {b \in Used : p <= b /\ Dies(b)}
    BY <1>1 DEF Condemned
  <2>2. Condemned' = {b \in Used \ {p} : After(p) <= b /\ Dies(b)'}
    BY <1>1, <1>3 DEF Condemned
  <2>3. \A b \in Used \ {p} : Dies(b)' = Dies(b)
    BY <1>1, <1>3 DEF Dies
  <2>4. \A b \in Used \ {p} : p <= b <=> After(p) <= b
    BY <1>2 DEF Used
  <2> QED
    BY <2>1, <2>2, <2>3, <2>4
<1>7. Extent' = [x \in ToPayload(Used') |-> size'[x - HEAP_HEAD_SIZE]]
  BY DEF Extent, ToPayload
<1>8. Marked' = ToPayload(NotWhite') /\ Doomed' = ToPayload(Condemned')
  BY DEF Marked, Doomed, ToPayload
<1>9. CASE p \in Used
  <2> DEFINE o == p + HEAP_HEAD_SIZE
  <2>1. o \in Store!Live
    BY <1>2, <1>4, <1>9, PayloadMember
  <2>2. o \in Doomed
    <3>1. p <= p
      BY <1>2
    <3>2. p \in Condemned
      BY <3>1, <1>1, <1>9 DEF Condemned
    <3>3. Condemned \in SUBSET Nat
      BY <1>4 DEF Condemned
    <3> QED
      BY <3>2, <3>3, <1>2, PayloadMember DEF Doomed
  <2>3. ToPayload(Used \ {p}) = Store!Live \ {o}
    BY <1>2, <1>4, PayloadMinus
  <2>4. Marked' = Marked \ {o}
    <3>1. NotWhite \in SUBSET Nat /\ Marked = ToPayload(NotWhite)
      BY <1>4 DEF NotWhite, Marked
    <3>2. ToPayload(NotWhite \ {p}) = ToPayload(NotWhite) \ {o}
      BY <3>1, <1>2, PayloadMinus
    <3> QED
      BY <3>1, <3>2, <1>5, <1>8
  <2>5. Doomed' = Doomed \ {o}
    <3>1. Condemned \in SUBSET Nat /\ Doomed = ToPayload(Condemned)
      BY <1>4 DEF Condemned, Doomed
    <3>2. ToPayload(Condemned \ {p}) = ToPayload(Condemned) \ {o}
      BY <3>1, <1>2, PayloadMinus
    <3> QED
      BY <3>1, <3>2, <1>6, <1>8
  <2>6. Extent' = [x \in Store!Live \ {o} |-> Extent[x]]
    <3>1. ASSUME NEW x \in Store!Live \ {o}
          PROVE  size'[x - HEAP_HEAD_SIZE] = Extent[x]
      <4>1. PICK b \in Used : x = b + HEAP_HEAD_SIZE /\ x - HEAP_HEAD_SIZE = b
        BY <1>4, PayloadElement
      <4>2. b # p
        BY <4>1
      <4>3. Extent[x] = size[b]
        BY <4>1, MappedState
      <4> QED
        BY <4>1, <4>2, <4>3, <1>3
    <3> HIDE DEF o
    <3> QED
      BY <3>1, <2>3, <1>3, <1>7
  <2> HIDE DEF o
  <2>7. Store!Reclaim(o)
    BY <1>1, <2>2, <2>4, <2>5, <2>6 DEF Store!Reclaim
  <2> QED
    BY <2>1, <2>7
<1>10. CASE p \notin Used
  <2>1. Used' = Used /\ NotWhite' = NotWhite /\ Condemned' = Condemned
    BY <1>3, <1>5, <1>6, <1>10 DEF NotWhite, Condemned
  <2>2. Extent' = Extent
    BY <1>3, <1>10, <2>1, SameUsedSameStore
  <2>3. Marked' = Marked /\ Doomed' = Doomed
    BY <1>8, <2>1 DEF Marked, Doomed
  <2> QED
    BY <1>1, <2>2, <2>3 DEF Store!vars
<1> QED
  BY <1>9, <1>10

(* When the cursor leaves the loop no condemned object is left.            *)
LEMMA PurgeEndMaps ==
  ASSUME HeapInv, PurgeTail \/ PurgeOffEnd
  PROVE  Store!EndSweep
<1>1. phase = "purge" /\ phase' # "purge"
  BY DEF PurgeTail, PurgeOffEnd, Return
<1>2. /\ p \in Blocks /\ p \in Nat /\ After(p) \in Nat /\ Chain
      /\ \A b \in Blocks : b \in Nat /\ size[b] \in Nat
      /\ DOMAIN flags = Blocks
  BY <1>1, PurgeFacts, BlockType DEF TypeOK
<1>3. size[p] = 0
  <2>1. CASE PurgeTail
    BY <2>1 DEF PurgeTail
  <2>2. CASE PurgeOffEnd
    <3>1. ~(p < HEAP_SIZE - HEAP_HEAD_SIZE - HEAP_MIN_BLOCK_SIZE)
      BY <2>2 DEF PurgeOffEnd, InHeap
    <3>2. size[p] # 0 => HEAP_MIN_BLOCK_SIZE <= size[p]
      BY <1>2 DEF Chain, Sizes
    <3>3. size[p] # 0 => After(p) \in Blocks
      BY <1>2 DEF Chain, Tiling
    <3>4. size[p] # 0 => After(p) + HEAP_HEAD_SIZE <= HEAP_SIZE
      BY <1>2, <3>3 DEF Chain, HeaderInArray
    <3> QED
      BY <1>2, <3>1, <3>2, <3>4, HeapAssumption
      DEF After, FULL_BLOCK_SIZE, HEAP_HEAD_SIZE
  <2> QED
    BY <2>1, <2>2
<1>4. flags[p] = "free" /\ \A b \in Blocks : b <= p
  BY <1>2, <1>3 DEF Chain, Tiling
<1>5. Condemned = {}
  <2>1. \A b \in Used : ~(p <= b)
    BY <1>2, <1>4 DEF Used
  <2> QED
    BY <2>1 DEF Condemned
<1>6. Condemned' = {}
  BY <1>1 DEF Condemned
<1>7. ToPayload({}) = {}
  BY DEF ToPayload
<1>8. Doomed = {} /\ Doomed' = {}
  <2>1. Doomed' = ToPayload(Condemned')
    BY DEF Doomed, ToPayload
  <2> QED
    BY <2>1, <1>5, <1>6, <1>7 DEF Doomed
<1>9. /\ Used' = Used
      /\ \A b \in Used : flags'[b] = flags[b] /\ size'[b] = size[b]
  <2>1. CASE size' = size /\ flags' = flags
    BY <2>1 DEF Used, Blocks
  <2>2. CASE PurgeTail /\ prev_block # NULL
    <3>1. /\ size' = [b \in Blocks \ {p} |-> IF b = prev_block THEN 0 ELSE size[b]]
          /\ flags' = [b \in Blocks \ {p} |-> flags[b]]
      BY <2>2 DEF PurgeTail
    <3>2. p \notin Used /\ prev_block \notin Used
      BY <1>1, <1>4, <2>2 DEF HeapInv, PurgeCursor, Used
    <3>3. Blocks' = Blocks \ {p}
      BY <3>1 DEF Blocks
    <3>4. Used' = Used
      BY <3>1, <3>2, <3>3 DEF Used
    <3> QED
      BY <3>1, <3>2, <3>4 DEF Used
  <2> QED
    BY <2>1, <2>2 DEF PurgeTail, PurgeOffEnd
<1>10. Extent' = Extent
  BY <1>9, SameUsedSameStore
<1>11. NotWhite' = NotWhite
  BY <1>9 DEF NotWhite
<1>12. Marked' = Marked
  BY <1>11 DEF Marked, ToPayload
<1> QED
  BY <1>1, <1>8, <1>10, <1>12 DEF Store!EndSweep

(* Steps of the heap that the store does not see.                          *)
LEMMA HiddenStepMaps ==
  ASSUME HeapInv,
         \/ \E n \in ObjectSizes : OutOfMemory(n)
         \/ AllocFromNull
         \/ UNCHANGED heapVars
  PROVE  UNCHANGED Store!vars
<1>1. /\ size' = size /\ flags' = flags /\ p' = p /\ force' = force
      /\ phase' = phase \/ (phase = "run" /\ phase' # "purge")
  BY DEF OutOfMemory, AllocFromNull, heapVars
<1>2. Used' = Used
  BY <1>1 DEF Used, Blocks
<1>3. Extent' = Extent
  BY <1>1, <1>2, SameUsedSameStore
<1>4. NotWhite' = NotWhite /\ Condemned' = Condemned
  BY <1>1, <1>2 DEF NotWhite, Condemned, Dies
<1>5. Marked' = Marked /\ Doomed' = Doomed
  BY <1>4 DEF Marked, Doomed, ToPayload
<1> QED
  BY <1>1, <1>3, <1>5 DEF Store!vars

-----------------------------------------------------------------------------
(* HeapManager (heap.cpp) implements the store of disjoint objects: what   *)
(* is allocated never overlaps, stays where it is, and is reclaimed by a   *)
(* sweep exactly when it was white as the sweep began, or the sweep is the *)
(* forced one.                                                             *)
THEOREM HeapImplementsStore == Spec => StoreSpec
<1>1. Init => Store!Init
  BY InitMaps
<1>2. HeapInv /\ HeapInv' /\ [Next]_heapVars => [Store!Next]_(Store!vars)
  <2> SUFFICES ASSUME HeapInv, HeapInv', [Next]_heapVars
               PROVE  Store!Next \/ UNCHANGED Store!vars
    BY DEF Store!vars
  <2>1. CASE \E n \in ObjectSizes, protect \in BOOLEAN : Alloc(n, protect)
    BY <2>1, AllocMaps DEF Store!Next
  <2>2. CASE (\E n \in ObjectSizes : OutOfMemory(n)) \/ AllocFromNull
    BY <2>2, HiddenStepMaps
  <2>3. CASE \/ \E o \in Used : MarkGray(o)
             \/ \E o \in gray, refs \in SUBSET Used : MarkReferencesGray(o, refs)
    BY <2>3, MarkMaps DEF Store!Next
  <2>4. CASE \E f \in BOOLEAN : PurgeHeap(f)
    BY <2>4, PurgeHeapMaps DEF Store!Next
  <2>5. CASE Purge
    BY <2>5, PurgeKeepMaps, PurgeFreeMaps, PurgeEndMaps DEF Purge, Store!Next
  <2>6. CASE UNCHANGED heapVars
    BY <2>6, HiddenStepMaps
  <2> QED
    BY <2>1, <2>2, <2>3, <2>4, <2>5, <2>6 DEF Next
<1> QED
  BY <1>1, <1>2, HeapInvariant, PTL DEF Spec, StoreSpec, Store!Spec
=============================================================================
