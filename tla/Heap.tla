-------------------------------- MODULE Heap --------------------------------
(***************************************************************************)
(* HeapManager (src/src/vm/heap.cpp, heap.h): one static byte array cut    *)
(* into blocks, each a two byte header (size, then type/colour/free flags) *)
(* followed by the payload.  The block after the one at address b starts   *)
(* at b plus header plus size[b]; a block of size 0 is free and stands for *)
(* everything up to the end of the array.  Objects are allocated first fit *)
(* from next_free_block on, coloured by the collector and reclaimed by     *)
(* purgeHeap, whose loop is modelled one block per step.                   *)
(*                                                                         *)
(* size and flags are functions whose domain is the set of addresses that  *)
(* hold a header now; a header that a merge turns into payload leaves the  *)
(* domain.  An object is named by the address of its block (the code's     *)
(* pointers are that address plus the header).  The type bits, which only  *)
(* select the destructor to run, are left out.                             *)
(*                                                                         *)
(* Within this module the collector is free to colour any object and to    *)
(* start a sweep whenever no object is gray; Collector.tla ties it down.   *)
(***************************************************************************)
EXTENDS Integers, FiniteSets

CONSTANTS
  HEAP_SIZE,            (* Bytes of the array (256 MB in the code).        *)
  HEAP_MIN_BLOCK_SIZE,  (* Least payload of a split-off block (4).         *)
  HEAP_MAX_BLOCK_SIZE,  (* Largest value of the size byte (255).           *)
  ObjectSizes           (* sizeof of the object classes.                   *)

HEAP_HEAD_SIZE == 2

(* The classes all start with a virtual table pointer, so their sizes are  *)
(* even (multiples of 8 on the 64 bit targets the reader accepts).         *)
ASSUME HeapAssumption ==
  /\ HEAP_SIZE \in Nat /\ HEAP_SIZE % 2 = 0
  /\ HEAP_MIN_BLOCK_SIZE \in Nat /\ HEAP_MIN_BLOCK_SIZE >= 1
  /\ HEAP_SIZE > 2 * HEAP_HEAD_SIZE + HEAP_MIN_BLOCK_SIZE
  /\ HEAP_MAX_BLOCK_SIZE \in Nat
  /\ ObjectSizes \subseteq Nat
  /\ \A n \in ObjectSizes : /\ HEAP_MIN_BLOCK_SIZE <= n
                            /\ n <= HEAP_MAX_BLOCK_SIZE
                            /\ n % 2 = 0

VARIABLES
  size,             (* Header address |-> the size byte.                   *)
  flags,            (* Header address |-> "free" or the colour in use.     *)
  gray,             (* Objects waiting to be traced.                       *)
  next_free_block,  (* Where getAddress starts to look, or NULL.           *)
  phase,            (* "run", "purge", or why the program stopped.         *)
  p,                (* purgeHeap's cursor,                                 *)
  prev_block,       (*   the free block just before it, or NULL,           *)
  prev_size,        (*   that block's size,                                *)
  force             (*   and its argument.                                 *)

heapVars == <<size, flags, gray, next_free_block, phase,
              p, prev_block, prev_size, force>>

NULL == -1

Colours == {"white", "gray", "black", "protected"}
Blocks == DOMAIN size
Used == {b \in Blocks : flags[b] # "free"}
Freed == {b \in Blocks : flags[b] = "free"}

FULL_BLOCK_SIZE(n) == n + HEAP_HEAD_SIZE
After(b) == b + FULL_BLOCK_SIZE(size[b])

(* The size byte is an unsigned char.                                      *)
Byte(n) == n % (HEAP_MAX_BLOCK_SIZE + 1)

-----------------------------------------------------------------------------
(* Allocation *)

FittingToEnd(n) ==
  {b \in Freed : /\ next_free_block <= b
                 /\ b <= HEAP_SIZE - HEAP_HEAD_SIZE - n
                 /\ size[b] = 0 \/ n <= size[b]}

(* The free blocks on getAddress's way that would take n bytes.            *)
Fitting(n) ==
  {b \in Freed : /\ next_free_block <= b
                 /\ b < HEAP_SIZE - HEAP_HEAD_SIZE - n
                 /\ size[b] = 0 \/ n <= size[b]}

IsAddress(b, n) == b \in Fitting(n) /\ \A c \in Fitting(n) : b <= c

(* allocBlock at ptr: take the whole block when the rest would be too      *)
(* small for a block of its own, else write a header after the n bytes.    *)
TakenSizeExact(ptr, n) == n

TakenSize(ptr, n) ==
  IF size[ptr] # 0 /\ size[ptr] - n - HEAP_HEAD_SIZE < HEAP_MIN_BLOCK_SIZE
  THEN size[ptr] ELSE n

(* The size of the block that is left over; 0 at the end of the heap.      *)
RestSizeNoEnd(ptr, n) == size[ptr] - n - HEAP_HEAD_SIZE

RestSize(ptr, n) ==
  IF size[ptr] = 0 THEN 0 ELSE Byte(size[ptr] - n - HEAP_HEAD_SIZE)

AllocBlock(ptr, n, protect) ==
  LET taken == TakenSize(ptr, n)
      next  == ptr + FULL_BLOCK_SIZE(taken)
      split == size[ptr] = 0 \/ taken # size[ptr]
      grown == IF split THEN Blocks \cup {next} ELSE Blocks
  IN /\ size' = [b \in grown |-> IF b = ptr THEN taken
                                 ELSE IF split /\ b = next THEN RestSize(ptr, n)
                                 ELSE size[b]]
     /\ flags' = [b \in grown |->
                    IF b = ptr THEN IF protect THEN "protected" ELSE "white"
                    ELSE IF split /\ b = next THEN "free"
                    ELSE flags[b]]
     /\ next_free_block' = IF next_free_block = ptr THEN next
                           ELSE next_free_block

Alloc(n, protect) ==
  /\ phase = "run"
  /\ next_free_block # NULL
  /\ \E ptr \in Fitting(n) :
       IsAddress(ptr, n) /\ AllocBlock(ptr, n, protect)
  /\ UNCHANGED <<gray, phase, p, prev_block, prev_size, force>>

(* No block fits: allocBlock reports it and ends the program.              *)
OutOfMemory(n) ==
  /\ phase = "run"
  /\ next_free_block # NULL
  /\ Fitting(n) = {}
  /\ phase' = "out of memory"
  /\ UNCHANGED <<size, flags, gray, next_free_block,
                 p, prev_block, prev_size, force>>

(* getAddress subtracts heap from a null pointer and reads at the result:  *)
(* undefined, and nothing after it can be relied on.                       *)
AllocFromNull ==
  /\ phase = "run"
  /\ next_free_block = NULL
  /\ phase' = "undefined"
  /\ UNCHANGED <<size, flags, gray, next_free_block,
                 p, prev_block, prev_size, force>>

-----------------------------------------------------------------------------
(* Marking *)

(* markGray on each object of a set: only white ones change.               *)
Whites(objects) == {o \in objects : o \notin gray /\ flags[o] = "white"}

MarkGray(o) ==
  /\ phase = "run"
  /\ o \in Used
  /\ flags' = [b \in Blocks |-> IF b \in Whites({o}) THEN "gray" ELSE flags[b]]
  /\ gray' = gray \cup Whites({o})
  /\ UNCHANGED <<size, next_free_block, phase,
                 p, prev_block, prev_size, force>>

(* One turn of markReferencesGray: gc() grays what o refers to, then o     *)
(* turns black and leaves the set.  The set is ordered by address in the   *)
(* code; any order is allowed here.                                        *)
MarkReferencesGray(o, refs) ==
  /\ phase = "run"
  /\ o \in gray
  /\ refs \subseteq Used
  /\ flags' = [b \in Blocks |-> IF b = o THEN "black"
                                ELSE IF b \in Whites(refs) THEN "gray"
                                ELSE flags[b]]
  /\ gray' = (gray \cup Whites(refs)) \ {o}
  /\ UNCHANGED <<size, next_free_block, phase,
                 p, prev_block, prev_size, force>>

-----------------------------------------------------------------------------
(* Sweeping: purgeHeap, one turn of its loop per step *)

MaySweepEarly(f) == TRUE

(* GC::mark sweeps when nothing is gray any more, VM::run with force.      *)
MaySweep(f) == f \/ gray = {}

PurgeHeap(f) ==
  /\ phase = "run"
  /\ MaySweep(f)
  /\ phase' = "purge"
  /\ force' = f
  /\ next_free_block' = NULL
  /\ p' = 0
  /\ prev_block' = NULL
  /\ prev_size' = 0
  /\ UNCHANGED <<size, flags, gray>>

(* The loop guard.                                                         *)
InHeap == p < HEAP_SIZE - HEAP_HEAD_SIZE - HEAP_MIN_BLOCK_SIZE

FirstFreeLast == p

FirstFree == IF next_free_block = NULL THEN p ELSE next_free_block

(* The loop's locals go out of scope.                                      *)
Return ==
  /\ phase' = IF force THEN "exited" ELSE "run"
  /\ force' = FALSE
  /\ p' = 0
  /\ prev_block' = NULL
  /\ prev_size' = 0

(* The end of the used space: a free block before it is dissolved into it. *)
PurgeTail ==
  /\ phase = "purge" /\ InHeap
  /\ size[p] = 0
  /\ next_free_block' = FirstFree
  /\ IF prev_block # NULL
     THEN /\ size' = [b \in Blocks \ {p} |-> IF b = prev_block THEN 0
                                             ELSE size[b]]
          /\ flags' = [b \in Blocks \ {p} |-> flags[b]]
     ELSE UNCHANGED <<size, flags>>
  /\ Return
  /\ UNCHANGED gray

DiesProtected(b) == flags[b] \in {"free", "white", "protected"} \/ force

Dies(b) == flags[b] = "free" \/ flags[b] = "white" \/ force

OnwardStuck == IF flags[p] = "protected" /\ ~force THEN p ELSE After(p)

(* The next place of the cursor.                                           *)
Onward == After(p)

PrevAfterKeepStale == prev_block

(* A block in use ends the run of free blocks.                             *)
PrevAfterKeep == NULL

PurgeKeep ==
  /\ phase = "purge" /\ InHeap
  /\ size[p] # 0
  /\ ~Dies(p)
  /\ flags' = [flags EXCEPT ![p] = IF @ = "protected" THEN "protected"
                                   ELSE "white"]
  /\ prev_block' = PrevAfterKeep
  /\ p' = Onward
  /\ UNCHANGED <<size, gray, next_free_block, phase, prev_size, force>>

MergedSize == prev_size + size[p] + HEAP_HEAD_SIZE

MergesHeadTwice ==
  prev_block # NULL /\ FULL_BLOCK_SIZE(MergedSize) <= HEAP_MAX_BLOCK_SIZE

Merges == prev_block # NULL /\ MergedSize <= HEAP_MAX_BLOCK_SIZE

PurgeFree ==
  /\ phase = "purge" /\ InHeap
  /\ size[p] # 0
  /\ Dies(p)
  /\ next_free_block' = FirstFree
  /\ p' = Onward
  /\ IF Merges
     THEN /\ size' = [b \in Blocks \ {p} |->
                        IF b = prev_block THEN Byte(MergedSize) ELSE size[b]]
          /\ flags' = [b \in Blocks \ {p} |-> flags[b]]
          /\ prev_size' = Byte(MergedSize)
          /\ UNCHANGED prev_block
     ELSE /\ flags' = [flags EXCEPT ![p] = "free"]
          /\ prev_block' = p
          /\ prev_size' = size[p]
          /\ UNCHANGED size
  /\ UNCHANGED <<gray, phase, force>>

(* The cursor ran off the end without meeting a block of size 0.           *)
PurgeOffEnd ==
  /\ phase = "purge" /\ ~InHeap
  /\ Return
  /\ UNCHANGED <<size, flags, gray, next_free_block>>

Purge == PurgeTail \/ PurgeKeep \/ PurgeFree \/ PurgeOffEnd

-----------------------------------------------------------------------------
(* The static array is zero: one free block of size 0 at its start.        *)
Init ==
  /\ size = [b \in {0} |-> 0]
  /\ flags = [b \in {0} |-> "free"]
  /\ gray = {}
  /\ next_free_block = 0
  /\ phase = "run"
  /\ p = 0
  /\ prev_block = NULL
  /\ prev_size = 0
  /\ force = FALSE

Next ==
  \/ \E n \in ObjectSizes, protect \in BOOLEAN : Alloc(n, protect)
  \/ \E n \in ObjectSizes : OutOfMemory(n)
  \/ AllocFromNull
  \/ \E o \in Used : MarkGray(o)
  \/ \E o \in gray, refs \in SUBSET Used : MarkReferencesGray(o, refs)
  \/ \E f \in BOOLEAN : PurgeHeap(f)
  \/ Purge

Spec == Init /\ [][Next]_heapVars

(* A loop that runs keeps running.                                         *)
FairSpec == Spec /\ WF_heapVars(Purge)

-----------------------------------------------------------------------------
(* Properties *)

TypeOK ==
  /\ Blocks \subseteq Nat
  /\ size \in [Blocks -> 0 .. HEAP_MAX_BLOCK_SIZE]
  /\ flags \in [Blocks -> {"free"} \cup Colours]
  /\ gray \subseteq Nat
  /\ next_free_block \in Nat \cup {NULL}
  /\ phase \in {"run", "purge", "exited", "out of memory", "undefined"}
  /\ p \in Nat
  /\ prev_block \in Nat \cup {NULL}
  /\ prev_size \in 0 .. HEAP_MAX_BLOCK_SIZE
  /\ force \in BOOLEAN

(* The blocks tile the array: there is one at 0, each is followed by the   *)
(* one its size leads to with none in between, and the free block of size  *)
(* 0 is the last.  The walks of allocBlock and purgeHeap rely on it.       *)
Tiling ==
  /\ 0 \in Blocks
  /\ \A b \in Blocks : size[b] # 0 => After(b) \in Blocks
  /\ \A b, c \in Blocks : size[b] # 0 => c <= b \/ After(b) <= c
  /\ \A b, c \in Blocks : size[b] = 0 => flags[b] = "free" /\ c <= b

(* Both bytes of every header lie inside the array.  allocBlock writes the *)
(* header after a block it carves at the very end without looking at       *)
(* HEAP_SIZE; it fits only because all sizes are even.                     *)
HeaderInArray == \A b \in Blocks : b + HEAP_HEAD_SIZE <= HEAP_SIZE

(* allocBlock never overlooks a free block: getAddress starts at           *)
(* next_free_block, so all blocks before that must be in use.              *)
NothingFreeBefore ==
  phase = "run" /\ next_free_block # NULL =>
    /\ next_free_block \in Blocks
    /\ \A b \in Blocks : b < next_free_block => flags[b] # "free"

(* A gray object is in use and waiting in the gray set, and conversely, so *)
(* that markGray's sanity check (heap.cpp:173) cannot fail on one of them. *)
GrayIsPending == phase = "run" => gray = {b \in Used : flags[b] = "gray"}

(* What purgeHeap knows at the top of its loop (heap.cpp:105): the cursor  *)
(* is on a header, next_free_block is the first free block it has passed,  *)
(* and prev_block, when set, is the free block that ends at the cursor and *)
(* prev_size its size.  Merging into prev_block is right only then.        *)
PurgeCursor ==
  phase = "purge" =>
    /\ p \in Blocks
    /\ IF next_free_block = NULL
       THEN \A b \in Blocks : b < p => flags[b] # "free"
       ELSE /\ next_free_block \in Blocks /\ next_free_block < p
            /\ flags[next_free_block] = "free"
            /\ \A b \in Blocks : b < next_free_block => flags[b] # "free"
    /\ prev_block # NULL =>
         /\ next_free_block # NULL /\ next_free_block <= prev_block
         /\ prev_block \in Blocks /\ flags[prev_block] = "free"
         /\ size[prev_block] = prev_size /\ prev_size # 0
         /\ After(prev_block) = p

(* The strengthening that makes all of these inductive.  All addresses and *)
(* sizes are even, no block is smaller than the minimum, and an unforced   *)
(* sweep meets no gray object.                                             *)
Sizes ==
  \A b \in Blocks : /\ b % 2 = 0 /\ size[b] % 2 = 0
                    /\ size[b] # 0 => HEAP_MIN_BLOCK_SIZE <= size[b]

NoGrayInPurge ==
  phase = "purge" /\ ~force =>
    gray = {} /\ \A b \in Blocks : flags[b] # "gray"

HeapInv ==
  /\ TypeOK /\ Tiling /\ HeaderInArray /\ Sizes
  /\ NothingFreeBefore /\ PurgeCursor /\ GrayIsPending /\ NoGrayInPurge

(* When purgeHeap is done, no two neighbouring free blocks are left that   *)
(* would fit into one (the unused end of the heap apart).                  *)
Coalesced ==
  \A b \in Freed :
    size[b] # 0 /\ flags[After(b)] = "free" /\ size[After(b)] # 0 =>
      FULL_BLOCK_SIZE(size[b]) + size[After(b)] > HEAP_MAX_BLOCK_SIZE

PurgeCoalesces ==
  [][phase = "purge" /\ phase' # "purge" /\ InHeap => Coalesced']_heapVars

(* purgeHeap finishes although it rewrites the chain it walks.             *)
PurgeEnds == phase = "purge" ~> phase # "purge"

(* What allocBlock says of a heap without room: the program is told that   *)
(* it ran out of memory.                                                   *)
ExhaustionIsReported == phase # "undefined"

-----------------------------------------------------------------------------
(* The heap implements the store of disjoint objects. *)

ToPayload(objects) == {b + HEAP_HEAD_SIZE : b \in objects}

Extent == [o \in ToPayload(Used) |-> size[o - HEAP_HEAD_SIZE]]
NotWhite == {b \in Used : flags[b] # "white"}
Marked == ToPayload(NotWhite)
Condemned == IF phase = "purge" THEN {b \in Used : p <= b /\ Dies(b)} ELSE {}
Doomed == ToPayload(Condemned)

Store == INSTANCE BlockStore WITH
  Room     <- HEAP_SIZE,
  Requests <- ObjectSizes,
  extent   <- Extent,
  marked   <- Marked,
  doomed   <- Doomed,
  sweeping <- phase = "purge"

StoreSpec == Store!Spec
=============================================================================
