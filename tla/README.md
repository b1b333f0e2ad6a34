# lurun in TLA+

lurun is a virtual machine for Lua 5.3 bytecode, written in C++. This directory
specifies the way from the bytecode file to the running program (the loader, the
instruction decoder, the interpreter with its loops and tables, the native
functions and files), the memory manager and garbage collector below it, and the
key-value store that is its largest program. TLC checks all of it on small
instances; TLAPS proves much of it for every heap, object graph, program and file
(section 4).

## 1. The system

`main.cpp` loads a `luac` file, checks the header and lets `Reader` build the
function prototypes. `VM::init` makes the environment table and the frame of the
main chunk, `VM::run` executes it and ends with a forced sweep of the heap.

```
 luac file -> main, header check -> Reader -> prototypes (malloc)
                                       |  string constants (protected blocks)
                                       v
  VM: stack[250], call frames  --ALLOC_*-->  HeapManager: byte array, block chain
   |  lastUpval (open upvalues)                 ^ gray set, purgeHeap
   |                                            |
   +-- every GC_CYCLES instructions --> GC: root, mark, sweep
                                            |  gc() of each object kind
      Table, Closure, UpvalueRef, StringObject, Native, File
```

One thread runs everything; the hard part is not parallelism but *what is still
valid when*: the collector runs between any two instructions and sees only what
the stack, the frames and the objects' `gc()` methods show it; frames overlap in
one register stack; upvalues point into that stack until they are closed; the
heap's block chain is rewritten while it is walked.

| Component | State | Operations | What makes it correct |
|---|---|---|---|
| HeapManager (`vm/heap.cpp`) | byte array with a two byte header per block, `next_free_block`, the gray set | `allocBlock` (first fit, split), `markGray`, `markReferencesGray`, `purgeHeap` (free, merge) | blocks tile the array; no free block is overlooked; objects are disjoint, stay in place, and go only when white |
| GC (`vm/gc.cpp`) | colours in the headers, gray set | `root`, `mark`, `sweep`, forced `sweep` | frees all of the unreachable and nothing else; ends; leaves clean colours |
| VM (`vm/vm.cpp`, `call_frame.cpp`) | register stack, frames, `topCallFrame`, instruction counter | one case per opcode, `callM`, `closeUpvals` | an activation changes its own registers and its results only; roots cover all live registers; loops do what the comments on their instructions say |
| Upvalues (`lua/upvalue.cpp`) | `voPointer` or own value, `next`, `prev`; `lastUpval` | create, find, assign, close | one per variable; open exactly while the variable lives; the list is intact |
| Tables, values, strings (`lua/table.cpp`, `value.cpp`) | hash map, length, metatable | get, set, next, setLen, equality, hash | a constructor's elements are found again; a traversal visits each key once |
| Natives (`lua/native.cpp`, `vm/base_enviroment.cpp`) | none | 17 functions | number and place of results |
| Files (`lua/file.cpp`) | a stdio handle | open, read, write, close | what is read by lines is what the file holds |
| Reader, header check (`reader.cpp`, `header.cpp`, `main.cpp`) | the file in a buffer, a cursor, the recursion of `readFunction` | one per section of the format | consumes exactly the file; turns down what it was not built for |
| Prototypes, decoding (`function.cpp`, `instruction.cpp`) | constant | decode bit fields | decode is what luac encoded |
| Key-value store (`prg/*.lua`) | a B+ tree of tables | insert, delete, find | keys lead to their leaf; leaves chained; parents, balance, occupancy; implements a map |

The hazards that follow from this, each at its line, are in `PROJECT.json`
under "hazards", with the properties that watch it or the reason why none does.

## 2. Modules

| Module | Models | Checked by | Proved in |
|---|---|---|---|
| `Heap` | HeapManager | `heap`, `heap_exhaustion` (`MCHeap`) | `HeapProofs` |
| `BlockStore` | nothing: what a heap promises | as `StoreSpec` of `Heap` | |
| `Collector` | GC and the colouring half of HeapManager | `collector` | `CollectorProofs` |
| `Reclaimer` | nothing: what garbage collection promises | as `ReclaimerSpec` of `Collector` | |
| `VM` | the interpreter, upvalues, what each object marks | `vm` (`MCVM`), `vm_escape`, `vm_scope` (`MCVMFaults`) | `VMProofs` |
| `ForLoop` | `OP_FORPREP`, `OP_FORLOOP` | `loops` | `LoopsProofs` |
| `NumericFor` | nothing: the loop as `opcodes.h` describes it | as `DocumentedSpec` of `ForLoop` | |
| `Table` | `Table::set`, `get`, `next`, `setLen`; `OP_SETLIST`, `OP_TFORCALL`, `OP_TFORLOOP` | `loops` | `LoopsProofs` |
| `Loops` | the two composed: a numeric loop that fills a table, a traversal after it | `loops` (`MCLoops`) | `LoopsProofs` |
| `Instruction` | the formats of all opcodes, `decode`, luac's encoding | as a part of `Loader` | `InstructionProofs` |
| `Loader` | `main`, `checkheader`, `Reader` | `loader` (`MCLoader`) | - |
| `Natives` | `Native::call`, `File`, the calls of both by `OP_CALL` | `natives` (`MCNatives`) | `NativesProofs` |
| `BPlusTree` | the B+ tree of `key_value_storage.lua` and its command loop | `tree`, `tree_same_values`, `tree_stop` (`MCBPlusTree`) | `BPlusTreeProofs`, on `BPlusTreeLemmas` |
| `KeyValueMap` | nothing: what a key-value store promises | as `MapSpec` of `BPlusTree` | `BPlusTreeProofs` |

### Heap

`size` and `flags` are functions from the addresses that hold a block header to
the two header bytes (the type bits, which choose the destructor, are left out).
`Alloc` is all of `allocBlock`: the walk of `getAddress` is the least element of
`Fitting(n)`. `PurgeHeap` starts a sweep and `PurgeTail`, `PurgeKeep`,
`PurgeFree` and `PurgeOffEnd` are the ways one turn of its loop can go, so `p`,
`prev_block` and `prev_size` are state. The size byte wraps (`Byte`). A forced
sweep ends the program. `OutOfMemory` is `allocBlock`'s `exit(1)`;
`AllocFromNull` is the null pointer arithmetic that happens instead when
`purgeHeap` has found nothing free. The collector is arbitrary here: any object
may be marked at any time between sweeps, a sweep may start when nothing is gray.

`HeapAssumption` says that object sizes are even and at least
`HEAP_MIN_BLOCK_SIZE`; all classes start with a virtual table pointer, so on the
targets whose files the header check accepts they are multiples of 8.

### Collector

An arbitrary object graph. The program (`Allocate`, `Assign`, `Load`,
`CloseUpvalue`) changes references among what it can reach, which includes the
protected string constants; `CloseUpvalue` also marks an object gray, as
`UpvalueRef::close` does, long before the next cycle. `Root` is `GC::root`;
`MarkReferencesGray` is one turn of the loop over the gray set with the position
of its iterator (`cursor`), ordered by address as `std::set` is; `Sweep` is
`purgeHeap` in one step, since `Heap` has its loop. `pending` is a history
variable: what the program marked since the last collection.

### VM

`stack` is the register stack; the recursion of `execute` is the sequence
`frames`, and `Return` does what `execute`'s caller does next (`Deliver`: notes
`top`, or copies a metamethod's result). `object` maps addresses to tables,
closures, upvalues and run-time strings. The collector is one step here
(`Collect`): `Reached` is `GC::root` plus all that the `gc()` methods lead to,
and coming across a freed block ends the program as the assertion in `markGray`
does. `collect` is set after each instruction, since `gc % GC_CYCLES == 0` may
hold after any.

Data is abstracted: numbers, booleans and constants are model values, the result
of arithmetic is any number, the outcome of a comparison either. Tables keep
their fields; a value stored under nil, which equals nothing and so is never found, but which the
collector marks, is in `unfound`. Two natives stand for the calling convention: `type` allocates a
string and returns it, `setmetatable` returns nothing. `home` and `id` are
history variables that tie an upvalue to the activation and register of its
variable. A dereference of a value of the wrong kind, a failed assertion on
operands and the end of the stack stop the machine as "undefined": the
properties speak of behaviour before that.

`Proto[f].code[n]` is a *set* of instructions: a singleton for a given program,
more for a family of programs, of which TLC then explores all. `ProgramAssumption`
says that the code is what luac writes (`WellFormed`): registers, constants and jumps
within the function, an open call only after an instruction that leaves `top` above its
arguments. `UpvaluesAssumption` says that a function takes over only upvalues that the
function around it has. A frame has its `proto`, which is a local of `execute`. The loops of
`OP_CLOSURE` over the descriptors and of `closeUpvals` over the registers are
recursive functions, since each turn works on what the last one left.

### ForLoop, Table, Loops

`ForLoop` has the four registers of a numeric `for` and `at`, the instruction
that is due. `FORPREP` of lurun subtracts nothing; `FORLOOP` tests, enters the
body and then adds, once more at the end of the loop too. `long long` is a
bounded integer that wraps (`Wrap`), which is what the machine's addition gives; in C++
the overflow is undefined, and a compiler could make something else of it. Floats and other values are there because
`FORPREP` lets floats pass and `FORLOOP` asserts that there are none. The body may
assign anything to its own variable. `start` and `visited` are history variables.

`Table` is one table with its `hash_part`, a sequence of entries in iterator
order. An insertion may put them into any order (`Rehashed`), which is all that
is known of an `unordered_map`. `SetList` is one turn of `OP_SETLIST`'s loop:
element `i` of batch `c` goes to `(c - 1) * LFIELDS_PER_FLUSH + i`, and the last
turn sets the length to the size of the *batch*, so `ConstructorFills` speaks of the
length only after constructors of one batch. `TForCall` looks the last key up again
and returns the entry after it, as `Table::next` does; between the turns `Assign`
writes to the table. A key nil is stored but equals nothing: `next` does not find
it and the traversal ends there, so the properties of traversals exclude it
(`NoNilKey`). `grown` notes that an entry was added in the loop, of which
Lua promises nothing. An open constructor (`B = 0`) stores nothing in lurun; programs
that use one are left out.

`Loops` composes them: the body of the numeric loop may store into the table, under
its own variable, and once it has ended the table is traversed.

### Instruction, Loader

`Instruction` has the 32-bit word with the macros of `opcodes.h`, by arithmetic on
a signed integer, and luac's packing as the inverse. The check never looks at 2^32
words: `InstructionProofs` covers them, and `Loader` decodes those of its chunks,
with every field at both ends of its range.

`Loader` starts where `main` does. A file is a sequence of fields with their widths
in bytes: `Dump` writes one as luac would with the sizes in its header (it is external,
modelled from what the reader takes apart). `Main` is `loadfile`, whose last byte
comes twice since `feof` is true only after an attempt to read beyond the end, and
which cuts a file at the size of the buffer; `CheckHeader` is one field of
`checkheader`; `ReadFunction`, `ReadItem`, `ReadProto`, `NextList` and
`ReturnFunction` are the reader, whose recursion is `frames`. Bytes that are not one
whole field of the expected width make the reader read something unknown
(`misread`). Only strings among the constants go to the `heap`; what the reader keeps
for a debugger is dropped. A string constant ends at its first NUL, since it is
kept as a `char*`: `LoadsWhatWasCompiled` excludes those.

### Natives

`registers` holds a statement's function and arguments from `R(0)` on. A statement
calls one native, or `print` or `type` with the results of another: the inner call
has `C = 0` and leaves `top`, the outer one has `B = 0` and computes its number of
arguments from it. Every native of `base_enviroment.cpp` and both methods of a
file is an operator with the results it stores and, apart from that, the count it
reports: `Return(results, count)`. `Accepts` is its assertions; a program that fails
one is `aborted`. `files` are the `File` objects with what each has returned (`got`,
a history variable), `content` is what the disk holds. `readLine` is `fgets` into a
buffer of `MAX_LINE_LENGTH` and then drops the last character, which is not always a
newline. A line in `got` has its last character put back, so that `LinesComeBack` can
say that what was read is a beginning of the file.

The environment is narrowed where the code promises nothing: table arguments are
tables, `string.sub` gets positions inside its string, written text has no `%` (it
goes to `fprintf` as a format), and two writers never have the same file open. A
reader of a file that is open for writing gets any line or none.

### BPlusTree

`node` maps the addresses of Lua tables to nodes. A node's `keys` and
`descendants` are sequences as long as `num_keys` says: what the code leaves
behind that is never read. A command (`Command`, with `Insert`, `Delete`, `Find`)
does the first step on a leaf; if that has to go on in the parent, `call` holds
the call of `insert_into_parent` or `delete_entry` that is due, and
`CallInsertIntoParent` and `CallDeleteEntry` do one such call each, with all that
happens in it: splitting or a new root, removing, joining, redistribution, a
smaller root, so that the tree can be looked at between the calls too. `s_in` is the line
that was read last, the command with its key and value. `MapSpec` says that each
command does to the records, and finds in them, what `KeyValueMap` does with the same
command: the record of that key and no other is inserted with that value, taken away,
or found. What the store holds (`Stored`) is what the leaves hold (`Records`), less
the record that the call of `delete_entry` for a leaf is about to remove; the calls in
inner nodes change none. `Inputs` are the inputs there may be, of which the initial state
picks one (`input`): a file, with the commands that each of its lines may hold, or
a terminal (`stdin_reading`) with any number of lines like the first one.

## 3. Runs

| Run | Question | Bounds and why they are enough |
|---|---|---|
| `heap` | block chain, headers inside the array, first fit, merging, store of disjoint objects, the sweep ends | 30 bytes, objects of 4 and 8, size byte up to 15: room for five small blocks, so splits, exact fits, the whole-block case, merges up to and beyond the largest size and a full array all occur |
| `heap_exhaustion` | is exhaustion reported | the same |
| `collector` | exactly the unreachable goes, marking ends | 3 objects: all graphs with cycles, chains ahead of and behind the iterator, garbage and protected objects at once |
| `vm` | open upvalue list, roots, frames, results | nine programs, four of them from the test directory, and all programs over seven instructions; 10 stack slots, 10 objects, collection after any instruction. Of the programs over seven instructions, the states with at most three activations and seven objects (`SmallFamily`): room for closures that share and own upvalues, stored in a global or dropped |
| `vm_escape` | see below | one program |
| `vm_scope` | see below | three programs |
| `loops` | numeric loops visit their range and behave as documented; constructors fill; traversals visit each key once; both end | 4-bit integers (`LLONG_MAX` 7) with ten values on both ends of the range and around 0, a float and a text as operands: counting up and down, empty, overflowing and stepless loops; batches of 2, constructors of up to 3 elements and 3 entries: one full batch, one and a half, keys that exist and keys that are new, any rehash |
| `loader` | does the VM get what luac compiled; are files of others turned down | eight chunks with every kind of constant, instruction format and a function in a function in a function, with and without debug lists; a long string is one of two characters or more (`LONG_SIZE` 3), so both kinds occur; a buffer of 300 bytes that three of the chunks exceed, in the lists before, between and inside functions; this luac and ten that differ from it in one field each |
| `natives` | nested calls pass results on; files come back by lines | two calls of `io.open`, on a file that can be written, one with an empty line and one with a line too long and a last line without an end; 3 characters at most are written, a buffer of 3 (lines of up to one character and the newline are whole): written, read while written, emptied while read, closed and opened again |
| `tree` | is the tree ordered, chained, balanced, and a map | `order` 4 as in the code. Either six keys and any commands at a terminal: a root with up to three leaves, so every operation on leaves and on the root's keys; or sessions from a file that build three levels, 10 to 14 keys, and then delete on either side: splits and joins of inner nodes, redistribution both ways, the root replaced by its descendant |
| `tree_same_values`, `tree_stop` | see below | three keys with two values; the sessions with three levels |

`Deep_main` in `vm` recurses to the end of the stack on purpose. Two properties of `vm`
(`TestsCloseUpvalues`, `TestsCloseOwnUpvalues`) are about the nine programs only
(`RunsTest`): the others also drop closures and hand them down, which is where the code
fails (see below). `natives` is
checked with the view `Relevant`, which drops the registers when no statement is
under way and everything else once the program has stopped: neither the next steps
nor the two invariants depend on them there. Deadlock is not checked: programs end.

### Where code and comments disagree

The runs that find a violation state what a comment, a test or an assertion of
the repository says, and show that the code does otherwise (`PROJECT.json`,
"findings"): a full heap leads through a null pointer; escaped closures keep pointing
into dead frames; the end of a block in a called function cuts variables of its caller
off from their closures; deleting a key from the store mixes up the values of others
when values repeat; a deletion that needs a descendant from an inner node's left
neighbour ends the program. In `vm` the closing of upvalues is right on programs whose
upvalues are closed in the function they belong to, in `tree` the map is where no two
keys share a value. That makes the counterexamples specific.

`VariablesStayShared`, which `vm_scope` checks, is violated in three ways, and the run has
a program for each; TLC reports the shortest, and the others when `ScopeChunks` is cut to
their program:

- `OP_JMP` takes a register number for a place in the whole stack and so closes
  upvalues of variables still in scope (`scope`; `vm.cpp:167`). In the main chunk,
  whose registers start at slot 1, it is off by one as well.
- Assigning to an open upvalue makes it point at the register of the assigned value
  instead of storing into its variable (`assign`; `vm.cpp:151`, against
  `UpValue[B] := R(A)` in `opcodes.h:25`). `CallersUndisturbed` profits from this: were
  the assignment right, it would write the register of a caller's variable, and the
  property would have to make an exception of it.
- A function that gets a closure as an argument closes the upvalues of its
  caller's variables when it returns (`argument`; `vm.cpp:496`).

Smaller disagreements have no run of their own. The models behave as the code does
there, and the properties or the programs of the passing runs keep clear of them:

- Results beyond those asked for stay on the stack in registers of no frame
  (`vm.cpp:263`); when a later frame makes them visible to the collector, their
  objects are gone and the assertion of `heap.cpp:173` fails.
- A caller that asks for more results than fit into the callee's frame finds old
  values in the rest (`vm.cpp:269`; `MissingResultsAreNil` would be violated).
- The result of a metamethod overwrites the last register of the frame that adds
  (`vm.cpp:472`).
- `getmetatable` of a table without one reports a result it has not stored: around
  it, the call gets `getmetatable` itself (`native.cpp:115-122`).
- `io.open` stores as many results as are wanted and reports that number, -1 when all
  are: a call around it gets no arguments (`native.cpp:155-167`). `io.read` would, but
  its assertion (`native.cpp:145`) stops the program first.
- A line that does not fit into the buffer, or a last one without a newline, loses
  a character (`file.cpp:88`).

### Fairness

It is assumed where a single thread runs on and nothing interrupts it. `Purge` and
`Collection` are each the loop of one function; weak fairness of them gives
`PurgeEnds` and `CollectionEnds`. `ForSpec` and `Loops` have weak fairness of the next
instruction, with the body of a numeric loop taken to come to its end and a traversal's
body to its next turn: `LoopEnds` then says that loops end unless they overflow or their
step is 0, `TraversalEnds` that traversals do unless keys are added. `Loader` is
deterministic but for what misread bytes are, and weak fairness of its `Next` says that
`main` goes on.

## 4. Proofs

Assumptions are those named in the modules: `HeapAssumption`, `CollectorAssumption`,
`LongLongAssumption`, `FloatsAssumption`, `FlushAssumption`, `TableAssumption`,
`LineAssumption`, `FilesAssumption`, `VMAssumption` (the heap has room for the three
objects that `VM::init` makes), `ProgramAssumption`, `UpvaluesAssumption` and, of
`BPlusTree`, `OrderAssumption` (at least 3), `KeysAssumption` (keys are integers),
`NullAssumption` (`nil` is neither a node nor a value) and `InputsAssumption` (an input
has finitely many lines). Everything below holds for all values they allow.

*Heap.* `HeapInv` is inductive. `Tiling` alone is not: that an allocation splits
a block inside the array needs `Sizes` (all addresses and sizes even, no block
below the minimum), that merging keeps the chain needs `PurgeCursor` (what
`prev_block`, `prev_size` and `next_free_block` mean at the top of the loop), and
that marks agree with the gray set through a sweep needs `NoGrayInPurge`.
`SplitKeepsChain`, `MergeKeepsChain` and `RecolourKeepsChain` carry the argument
about the chain; one lemma per action does the rest. `HeapImplementsStore` then
maps each step to a step of `BlockStore` or a stutter, with the objects a sweep
has still to free as `doomed`. For `PurgeCoalesces` there is `SweptCoalesced`: behind the
cursor of a sweep no two free neighbours are left that fit into one block, and a free
block that ends at the cursor is `prev_block`, so that the next turn can merge it.

*Collector.* `IInv` adds to the checked properties that the gray set is the set
of gray objects, that what the program marked is still marked, that the iterator
is on a gray object, and `OnlyReachable`: what is gray or black lies in every
closed set that contains the sources. With `TriColour` (which makes the marked
objects such a set when nothing is gray) it gives `WhiteIsGarbage`: the sweep
frees exactly the complement of what can be reached.
`CollectorImplementsReclaimer` concludes that mark and sweep implement the one
step of `Reclaimer`. Reachability is defined by closed sets, so no induction over
paths is needed.

*Numeric loops.* `VisitsTheRange` needs `Progression`, which says how far the loop
has come: the counter is the start or one step after a visited value, everything
visited lies on the near side of it, and no visited value but the last lacks its
successor. `AddedIsSum` is the arithmetic: an addition that
the test lets through stays within 64 bits when limit + step does.
`ForLoopImplementsDocumented` maps `R(A)` one step back, since lurun adds late where
the comments subtract early; there overflow is allowed, and the two wrap alike.

*Tables.* `LoopsProofs` has one invariant for the constructor (`ListInv`: all
elements before the one that is due are under their index), one for the
traversal (`TraversalInv`: the turns so far are the keys of a prefix of the
entries, in their order) and one for the loop that fills (`FillInv`). `SetProps`
says what an assignment does to the entries under any rehash: it keeps all keys, adds
at most its own, and leaves the order alone when it adds none. `FilledIsTraversed`
combines the numeric loop's history with the traversal's.

*Instructions.* `DecodeInvertsEncode`: for each format, a word is written as `q * unit
+ below` once per field, from which division and remainder give the field back. The
field that holds the sign bit is shown to be its value plus a multiple of its
range, so reading it from a negative word is right.

*Natives.* `OuterGetsResults` needs `CallsArePlaced` (what a statement has put where).
`InnerReturns` sorts the seventeen functions into six ways to return; one case of
`InnerCall` each shows which registers the outer call then takes. `LinesComeBack`
needs `ArgumentsFit` (a statement's registers hold what its function accepts, so only
`io.open` makes files and it knows its path) and `FilesInv`: a reader that has its file
to itself stands at the start of a line and has returned all before it. That the
next line ends where the next newline is takes the least of a set of numbers
(`LeastNatural`).

*Calls.* `CallersUndisturbedHolds` is about every program: no sequence of
instructions makes an activation write to its callers' registers, but for the one where a
metamethod's result goes. `StackInv` says that each frame starts where the frame below it,
standing at its call, puts it (`CalledFrom`), that a call whose arguments reach up to
`top` finds `top` above its function (`ArgumentsBelowTop`, which is where
`ProgramAssumption` is needed), and that closures have prototypes, so that the next frame
has a size. From the links between neighbours follows that all frames below lie below
(`CallerBelow`). The loops over descriptors and registers are recursive functions;
`CountingUp` is the induction that shows they exist, over the set of numbers for which
they do.

*Upvalues.* `OpenListHolds` and `OneUpvaluePerSlotHolds` are about what `closeUpvals` and
`OP_CLOSURE` make of the list from `lastUpval`. They assume of a program that it does not
run the one instruction that undoes both: `SETUPVAL` on an open upvalue moves `voPointer` to
another register, where it should assign to the variable. `OneUpvaluePerSlotHolds` takes
`OpenUpvaluesStay`, that no step moves an open upvalue except to close it, and
`OpenListHolds`, for which this is enough, `EnvironmentStays`, that none moves the one of
`_ENV`; all other instructions are allowed, in any order and at any depth. The hypotheses
are about steps and not about the code, as `SETUPVAL` on a closed upvalue does no harm; the
programs of `vm` keep to them.

`UpvalInv` is the inductive invariant for the list. It names the list as a sequence
(`Linked`): it starts at `lastUpval`, meets each open upvalue once, agrees with `next` and
`prev`, and ends at the upvalue of `_ENV` (`ENV`), the only one that stands for register
0 (`EnvironmentOK`). With the sequence at hand `OnChain`, the walk of the code, needs one
induction (`OnChainIs`), and that an upvalue is put at the head (`ListHeaded`) or taken
out from anywhere (`ListWithout`) are statements about indices. `HeapOK` adds what the
loops read on their way: that a closure has the upvalues its prototype describes
(`Captured`), and that those for registers are not `_ENV`'s, so that `closeUpvals` never
takes out the end of the list, which is what the collector holds it by. For `lastUpval`
is no root: the objects that `Reached` keeps are closed under references, which is shown
by counting, as each round of marking adds an object or changes nothing
(`ReachedIsClosed`); the main chunk's frame is at the bottom of the stack as long as the
program runs (`FramesLinked`), its closure refers to `_ENV`'s upvalue, and from there the
`prev` links lead through the whole list (`ListKept`). `OneEachInv` adds one
open upvalue for each register, which `OP_CLOSURE` keeps since it makes a new one only when
its search through the list has found none.

*B+ tree.* `EveryKeyIsFound`, `LeavesAreChained`, `ParentsAgree` and `Balanced` follow
from one inductive invariant, `TreeInv`. None of them is inductive: they speak of a tree at rest, while a
call of `insert_into_parent` finds a node cut in two whose right half no descendant
leads to, and a call of `delete_entry` an entry that is still to be removed, and the
next step is right only if exactly that is what it finds. `InOrder` says what each call
may rely on: `Standing` (no tree, or a B+ tree) when none is due, `SplitShaped` for
`insert_into_parent`, `RemovedShaped` for `delete_entry`, where the tree without the
entry is in order except that one node may have a key too few.

The order of the tree is stated with two functions that the program does not keep, the
`height` of a node and the `range` of keys that lead to it. `Content` ties a node to its
descendants through them (a descendant is one lower, and its range is the `Slice` between
two keys of the node), so that no path and no recursion is needed: `OneNodePerKey` says
that on one height one node has a key in its range, and that search ends there
(`Searched`) is an induction on the height. `BPlusTreeLemmas` has a lemma for each change
that such functions survive (`LeafSplit`, `NodeSplit`, `NodeGrown`, `RootSplit`,
`RootAdjusted`, `Join`) and names the new functions; `BPlusTreeProofs` adds
`Redistributed`, where an entry moves between neighbors as if they were joined and cut
again elsewhere, and one lemma for each way a call can go, which also counts keys: that a
node cut at `Cut` has enough, that neighbors are joined only if their entries fit
into one, that a neighbor has one to spare otherwise (`Spare`). `Balanced` then needs that
the `Height` of the code's tree, a recursive function, is the `height` of the proof
(`HeightIsDefined`).

That the leaves are chained is said with the ranges too (`Chained`): the key after one
that a leaf answers for is its own or its next leaf's, and only a leaf whose range ends
has a next one. This needs no path either, and a step keeps it because a leaf that is cut
in two passes its `next_leaf` on (`DividedChain`), a leaf joined to its left neighbor leaves
it its own (`JoinedChain`), and everything else leaves leaves and their ranges alone
(`SameChain`). That the left neighbor is the leaf that leads to the one given up follows
from the ranges being intervals (`RangesConvex`). `LeavesAreChainedHolds` draws the
conclusion about the walk of the code. `Shares` says that a sequence of leaves has a node's
range between them, in order; `BelowShares` shows it, by induction on the height, of
`LeavesBelow`, and `ChainedInOrder` that each leaf of the root's sequence has the next one
as `next_leaf`. `WalkIsDefined` concludes, backwards from the last leaf, that the walk is
that sequence: it skips no leaf, meets none twice, and ends.

*The store as a map.* `MapSpec` and `OtherRecordsKept` do not hold for every input:
`delete_entry` looks for the value of a record apart from its key, so two keys with the
same value can lose each other's (`tree_same_values`). `MapSpecHolds` and
`OtherRecordsKeptHolds` assume `DistinctValues`, that no input inserts one value under two
keys; the inputs of `tree` are such. `RecordsInv` adds to `TreeInv` that the leaves hold
the `Records`, each in the place of its key (`Represents`), and what the call of
`delete_entry` that is due will do to them (`RemovalRepresents`): the one for a leaf takes
the record away, those for nodes further up keep all. The second half is needed because
between two calls a joined leaf and its right neighbor hold the same records, and only
the call for their parent takes the neighbor out. That every record came from the input
(`AllOffered`) is what makes `DistinctValues` a fact about the tree. `TradeKeepsAll` says
that two leaves that hold together what they held before keep all records;
`LeafRemovalTakes` that without the entry exactly that record is gone, for which the order
of the tree is needed: no other leaf has the key. For the map a deletion happens in the
step that makes the call for the leaf, as that is where the command with its key is read:
from there to the end of the call the record is `Pending`, and `StoredIs` says that
`Stored` is the records without it. `InsertionOnRecords`, `DeletionAsked` and
`SearchOnRecords` show the three commands to do what the map's do for the same key,
`CallOnRecords` that all calls are stutters.

Only model-checked:

- liveness (`PurgeEnds`, `CollectionEnds`, `LoopEnds`, `TraversalEnds`,
  `FilesAreLoadedOrTurnedDown`), which is out of TLAPS's reach;
- `LoadsWhatWasCompiled`: `Dump` and the decoding of nested functions are recursive
  operators;
- the other properties of `VM`. Those about when upvalues are closed
  (`UpvaluesCloseWithActivation`, `ReturnClosesOwnUpvalues`) and
  about what the collector finds (`NothingLiveFreed`, `NoFreedBlockMarked`), as well as
  `MissingResultsAreNil`, do not hold for every program: the disagreements listed in section 3 are the ways to
  break them. What is checked is that they hold for the programs of the runs, which
  do none of that.

## 5. Not modelled

- Printing and the debug dumps, including `Value`'s conversion to text.
- Hashing, and equality of strings by their hash: tables compare keys as a whole.
- Comparison of values of different types and bit operations: `VM` takes any outcome
  of a comparison and any number as the result of arithmetic.
- `OP_LEN`, which only reads what `Table` has.
- The store's range search (nothing calls it), its printing and the parsing of its
  input lines; `key_value_storage_memory.lua` is the same tree in a fixed loop.
- The destructors (they free memory outside the heap), and stdio below
  `fgets` and `fprintf`.
- What happens after undefined behaviour: past the end of the register stack, past the
  end of the loader's buffer, after a wrong union member is read.
- Composition: the collector of `Heap` is arbitrary and that of `VM` is one step, where
  `Collector` shows that its loop implements one. One module with all three has
  been left out, since each promise is stated where the other module relies on it.
