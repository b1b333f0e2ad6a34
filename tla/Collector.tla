----------------------------- MODULE Collector ------------------------------
(***************************************************************************)
(* The garbage collector (src/src/vm/gc.cpp and the colouring half of      *)
(* heap.cpp) over a graph of objects.  Between two instructions of the     *)
(* program GC::root grays what the stack and the frames refer to, GC::mark *)
(* runs markReferencesGray until nothing is gray, and purgeHeap frees the  *)
(* white objects and whitens the others.  The loop over the gray set is    *)
(* modelled one object per step, with its iterator: objects that turn gray *)
(* behind it are left to the next pass.                                    *)
(*                                                                         *)
(* The program is any that changes references among the objects it can     *)
(* reach.  It grays objects too: UpvalueRef::close marks the value it      *)
(* takes over, long before the next collection.                            *)
(***************************************************************************)
EXTENDS Integers, FiniteSets

CONSTANT NUM_OBJECTS      (* Addresses of objects are 1 .. NUM_OBJECTS.    *)

ASSUME CollectorAssumption == NUM_OBJECTS \in Nat

VARIABLES
  colour,     (* Object |-> its colour; the domain is what is allocated.   *)
  refs,       (* Object |-> the objects its gc() marks.                    *)
  roots,      (* The objects in stack[0 .. stack_max] and the frames.      *)
  gray,       (* The gray set.                                             *)
  cursor,     (* markReferencesGray's iterator, NULL outside its loop.     *)
  phase,      (* "run" (the program), "mark" or "exited".                  *)
  pending     (* Not in the code: what the program has marked since the    *)
              (*   last collection.                                        *)

collectorVars == <<colour, refs, roots, gray, cursor, phase, pending>>

NULL == 0

Objects == 1 .. NUM_OBJECTS
Alive == DOMAIN colour
Protected == {o \in Alive : colour[o] = "protected"}

(* What Reclaimer says of it.                                              *)
Abstract == INSTANCE Reclaimer WITH
  alive <- Alive, kept <- pending, permanent <- Protected

(* What the program can get hold of: functions keep their string constants *)
(* outside the heap, and those are protected.                              *)
Reachable == Abstract!Reach(roots \cup Protected)

-----------------------------------------------------------------------------
(* The program *)

(* A new object, which a register may refer to.  Only string constants are *)
(* protected (reader.cpp), and strings refer to nothing.                   *)
Allocate(o, protect) ==
  /\ phase = "run"
  /\ o \notin Alive
  /\ colour' = [x \in Alive \cup {o} |->
                  IF x # o THEN colour[x]
                  ELSE IF protect THEN "protected" ELSE "white"]
  /\ refs' = [x \in Alive \cup {o} |-> IF x = o THEN {} ELSE refs[x]]
  /\ roots' \in {roots, roots \cup {o}}
  /\ UNCHANGED <<gray, cursor, phase, pending>>

(* A field, an upvalue or a register changes.                              *)
Assign(o, target) ==
  /\ phase = "run"
  /\ o \in Reachable \ Protected
  /\ target \subseteq Reachable
  /\ refs' = [refs EXCEPT ![o] = target]
  /\ UNCHANGED <<colour, roots, gray, cursor, phase, pending>>

Load(target) ==
  /\ phase = "run"
  /\ target \subseteq Reachable
  /\ roots' = target
  /\ UNCHANGED <<colour, refs, gray, cursor, phase, pending>>

(* markGray on each of a set of objects: the white ones turn gray.         *)
WhitesOfAnyColour(objects) ==
  {o \in objects : o \notin gray /\ colour[o] # "protected"}

Whites(objects) == {o \in objects : o \notin gray /\ colour[o] = "white"}

MarkGray(objects) == [o \in Alive |-> IF o \in Whites(objects) THEN "gray" ELSE colour[o]]

(* UpvalueRef::close                                                       *)
CloseUpvalue(o) ==
  /\ phase = "run"
  /\ o \in Reachable
  /\ colour' = MarkGray({o})
  /\ gray' = gray \cup Whites({o})
  /\ pending' = pending \cup Whites({o})
  /\ UNCHANGED <<refs, roots, cursor, phase>>

-----------------------------------------------------------------------------
(* The collector *)

(* GC::root, after an instruction.                                         *)
Root ==
  /\ phase = "run"
  /\ phase' = "mark"
  /\ colour' = MarkGray(roots)
  /\ gray' = gray \cup Whites(roots)
  /\ cursor' = NULL
  /\ UNCHANGED <<refs, roots, pending>>

(* The first gray object from address a on.                                *)
From(objects, a) ==
  IF \E o \in objects : a <= o
  THEN CHOOSE o \in objects : a <= o /\ \A x \in objects : a <= x => o <= x
  ELSE NULL

(* Where erase leaves the iterator.                                        *)
AfterAdjacent(objects, o) == o + 1

After(objects, o) == From(objects, o + 1)

(* One turn of markReferencesGray's loop: o's references turn gray, o      *)
(* turns black and leaves the set, the iterator goes on to the next.       *)
Current == IF cursor = NULL THEN From(gray, 0) ELSE cursor

GrayedAfterHead(o) == Whites({x \in refs[o] : o < x})

GrayedBy(o) == Whites(refs[o])

MarkReferencesGray ==
  /\ phase = "mark"
  /\ gray # {}
  /\ LET o == Current
     IN /\ colour' = [x \in Alive |-> IF x = o THEN "black"
                                      ELSE IF x \in GrayedBy(o) THEN "gray"
                                      ELSE colour[x]]
        /\ gray' = (gray \cup GrayedBy(o)) \ {o}
        /\ cursor' = After(gray', o)
  /\ UNCHANGED <<refs, roots, phase, pending>>

(* GC::mark sweeps when a pass has left nothing gray.                      *)
MarkDoneAfterPass == cursor = NULL

MarkDone == gray = {}

(* purgeHeap: white objects go; the others, protected ones apart, are      *)
(* white again.                                                            *)
FreesProtected(o) == colour[o] \in {"white", "protected"}

Frees(o) == colour[o] = "white"

AfterSweepKept(o) == colour[o]

AfterSweep(o) == IF colour[o] = "protected" THEN "protected" ELSE "white"

Sweep ==
  /\ phase = "mark"
  /\ MarkDone
  /\ phase' = "run"
  /\ colour' = [o \in {x \in Alive : ~Frees(x)} |-> AfterSweep(o)]
  /\ refs' = [o \in {x \in Alive : ~Frees(x)} |-> refs[o]]
  /\ pending' = {}
  /\ UNCHANGED <<roots, gray, cursor>>

(* VM::run ends with a forced sweep, which frees everything.               *)
ForcedSweep ==
  /\ phase = "run"
  /\ phase' = "exited"
  /\ colour' = [o \in {} |-> "white"]
  /\ refs' = [o \in {} |-> {}]
  /\ roots' = {}
  /\ pending' = {}
  /\ UNCHANGED <<gray, cursor>>

-----------------------------------------------------------------------------
Init ==
  /\ colour = [o \in {} |-> "white"]
  /\ refs = [o \in {} |-> {}]
  /\ roots = {}
  /\ gray = {}
  /\ cursor = NULL
  /\ phase = "run"
  /\ pending = {}

Program ==
  \/ \E o \in Objects, protect \in BOOLEAN : Allocate(o, protect)
  \/ \E o \in Alive, target \in SUBSET Alive : Assign(o, target)
  \/ \E target \in SUBSET Alive : Load(target)
  \/ \E o \in Alive : CloseUpvalue(o)

Collection == MarkReferencesGray \/ Sweep

Next == Program \/ Root \/ Collection \/ ForcedSweep

Spec == Init /\ [][Next]_collectorVars

(* GC::mark is a loop in one thread: it goes on until it has swept.        *)
FairSpec == Spec /\ WF_collectorVars(Collection)

-----------------------------------------------------------------------------
(* Properties *)

TypeOK ==
  /\ Alive \subseteq Objects
  /\ colour \in [Alive -> {"white", "gray", "black", "protected"}]
  /\ refs \in [Alive -> SUBSET Objects]
  /\ roots \subseteq Objects
  /\ gray \subseteq Objects
  /\ cursor \in {NULL} \cup Objects
  /\ phase \in {"run", "mark", "exited"}
  /\ pending \subseteq Objects

(* Nothing the program can reach has been freed, and markGray's sanity     *)
(* check (heap.cpp:173) holds for all that it is called with.  (The forced *)
(* sweep at the end frees gray objects and leaves them in the set.)        *)
NoDanglingReference ==
  phase # "exited" =>
    /\ roots \subseteq Alive
    /\ \A o \in Alive : refs[o] \subseteq Alive
    /\ gray \subseteq Alive

(* While marking, no black object refers to a white one and no root is     *)
(* white: so when nothing is gray, no white object is reachable.           *)
TriColour ==
  phase = "mark" =>
    /\ \A o \in roots : colour[o] # "white"
    /\ \A o \in Alive : colour[o] = "black" =>
         \A x \in refs[o] : colour[x] # "white"

(* Between collections only what the program marked itself is not white:   *)
(* purgeHeap has reset the colours, or the next cycle would trace nothing. *)
CleanSlate ==
  phase = "run" =>
    /\ gray = pending
    /\ \A o \in Alive : colour[o] = IF o \in gray THEN "gray"
                                    ELSE IF o \in Protected THEN "protected"
                                    ELSE "white"

(* The collector is exact: a cycle frees all that Reclaimer frees, nothing *)
(* else, and in what looks like one step to the program.                   *)
ReclaimerSpec == Abstract!Spec

(* Every collection comes to an end.                                       *)
CollectionEnds == phase = "mark" ~> phase # "mark"
=============================================================================
