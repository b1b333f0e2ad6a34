--------------------------- MODULE CollectorProofs --------------------------
(***************************************************************************)
(* Proofs about Collector.tla for any number of objects and any program:   *)
(* no collection frees what the program can still reach, each ends with    *)
(* the colours reset, and mark and sweep together implement the one-step   *)
(* collection of Reclaimer.tla, so a collection also frees all the rest.   *)
(*                                                                         *)
(* The sweep frees what is white when nothing is gray.  That this is       *)
(* exactly the unreachable takes two facts that hold throughout a cycle:   *)
(* TriColour, by which the other objects are a closed set that contains    *)
(* the roots, and OnlyReachable, by which they are in every such set.      *)
(***************************************************************************)
EXTENDS Collector, WellFoundedInduction, TLAPS

Marked == {o \in Alive : colour[o] \in {"gray", "black"}}

Sources == roots \cup pending \cup Protected

(* The gray set and the colour bits of the block headers agree.            *)
GraySet == phase # "exited" => gray = {o \in Alive : colour[o] = "gray"}

Leaves == \A o \in Protected : refs[o] = {}

CursorOnGray == cursor # NULL => phase = "mark" /\ cursor \in gray

PendingMarked == pending \subseteq Marked

Ended == phase = "exited" => Alive = {}

OnlyReachable ==
  phase = "mark" =>
    \A S \in SUBSET Alive : Sources \subseteq S /\ Abstract!Closed(S) => Marked \subseteq S

IInv ==
  /\ TypeOK
  /\ NoDanglingReference
  /\ TriColour
  /\ CleanSlate
  /\ GraySet
  /\ Leaves
  /\ CursorOnGray
  /\ PendingMarked
  /\ Ended
  /\ OnlyReachable

USE DEF NULL

-----------------------------------------------------------------------------
(* Lemmas about the operators *)

(* A nonempty set of naturals has a least element.                         *)
LEMMA NatMin ==
  ASSUME NEW T, T \subseteq Nat, T # {}
  PROVE  \E x \in T : \A y \in T : x <= y
<1> DEFINE R == {ss \in Nat \X Nat : ss[1] < ss[2]}
<1>1. IsWellFoundedOn(R, Nat)
  BY NatLessThanWellFounded DEF OpToRel
<1> HIDE DEF R
<1>2. \E x \in T : \A y \in T : ~ (<<y, x>> \in R)
  BY <1>1, WFMin
<1>3. \A x, y \in Nat : ~ (<<y, x>> \in R) => x <= y
  <2> SUFFICES ASSUME NEW x \in Nat, NEW y \in Nat, ~ (<<y, x>> \in R)
               PROVE  x <= y
    OBVIOUS
  <2>1. ~ (y < x)
    BY DEF R
  <2> QED
    BY <2>1
<1> QED
  BY <1>2, <1>3

(* From finds a member if there is one at or after the address.            *)
LEMMA FromMember ==
  ASSUME NEW S \in SUBSET Objects, NEW a \in Nat
  PROVE  /\ From(S, a) # NULL => From(S, a) \in S
         /\ a = 0 /\ S # {} => From(S, a) \in S
<1>1. S \subseteq Nat /\ 0 \notin S
  BY DEF Objects
<1>2. ASSUME \E o \in S : a <= o
      PROVE  From(S, a) \in S
  <2> DEFINE T == {o \in S : a <= o}
  <2>1. \E x \in T : \A y \in T : x <= y
    <3>1. T \subseteq Nat /\ T # {}
      BY <1>1, <1>2
    <3> HIDE DEF T
    <3> QED
      BY <3>1, NatMin
  <2>2. \E o \in S : a <= o /\ \A x \in S : a <= x => o <= x
    BY <2>1
  <2> QED
    BY <1>2, <2>2 DEF From
<1>3. CASE \E o \in S : a <= o
  BY <1>1, <1>2, <1>3
<1>4. CASE ~ \E o \in S : a <= o
  <2>1. From(S, a) = NULL
    BY <1>4 DEF From
  <2>2. ASSUME a = 0, NEW x \in S
        PROVE  FALSE
    <3>1. a <= x
      BY <1>1, <2>2
    <3> QED
      BY <1>4, <3>1
  <2> QED
    BY <2>1, <2>2
<1> QED
  BY <1>3, <1>4

(* What the program can reach exists.                                      *)
LEMMA ReachAlive ==
  ASSUME NEW S
  PROVE  Abstract!Reach(S) \subseteq Alive
  BY DEF Abstract!Reach

(* The given objects are reached, if they exist.                           *)
LEMMA ReachContains ==
  ASSUME NEW S, S \subseteq Alive
  PROVE  S \subseteq Abstract!Reach(S)
  BY DEF Abstract!Reach

(* Reach gives the least closed set, here for one that is in all others.   *)
LEMMA ReachIsLeast ==
  ASSUME NEW from, NEW W \in SUBSET Alive,
         from \subseteq W, Abstract!Closed(W),
         \A S \in SUBSET Alive : from \subseteq S /\ Abstract!Closed(S) => W \subseteq S
  PROVE  Abstract!Reach(from) = W
  BY DEF Abstract!Reach

(* markGray turns white objects gray and no others.                        *)
LEMMA MarkGrayFacts ==
  ASSUME GraySet, phase # "exited", NEW S \in SUBSET Alive
  PROVE  /\ Whites(S) = {o \in S : colour[o] = "white"}
         /\ DOMAIN MarkGray(S) = Alive
         /\ \A o \in Alive :
              MarkGray(S)[o] = IF o \in S /\ colour[o] = "white" THEN "gray"
                               ELSE colour[o]
<1>1. Whites(S) = {o \in S : colour[o] = "white"}
  BY DEF Whites, GraySet
<1> QED
  BY <1>1 DEF MarkGray

-----------------------------------------------------------------------------
(* Every step preserves the invariant *)

LEMMA InitEstablishes == Init => IInv
<1> SUFFICES ASSUME Init PROVE IInv
  OBVIOUS
<1>1. /\ Alive = {} /\ refs = [o \in {} |-> {}] /\ roots = {} /\ gray = {}
      /\ cursor = NULL /\ phase = "run" /\ pending = {}
  BY DEF Init, Alive
<1>2. TypeOK
  BY <1>1 DEF TypeOK, Init, Alive
<1> QED
  BY <1>1, <1>2 DEF IInv, NoDanglingReference, TriColour, CleanSlate, GraySet, Leaves,
     CursorOnGray, PendingMarked, Ended, OnlyReachable, Protected

(* The invariant while the program runs: gray is what it marked itself,    *)
(* nothing is black, and references are to objects that exist.             *)
RunState ==
  /\ Alive \subseteq Objects
  /\ roots \subseteq Alive
  /\ gray \subseteq Alive
  /\ refs \in [Alive -> SUBSET Alive]
  /\ colour \in [Alive -> {"white", "gray", "protected"}]
  /\ gray = pending
  /\ cursor = NULL
  /\ \A x \in Alive : (colour[x] = "gray") <=> (x \in gray)
  /\ \A x \in Alive : colour[x] = "protected" => refs[x] = {}

LEMMA RunFacts ==
  ASSUME IInv, phase = "run"
  PROVE  RunState
<1>1. colour \in [Alive -> {"white", "gray", "protected"}]
  BY DEF IInv, TypeOK, CleanSlate
<1> QED
  BY <1>1 DEF IInv, TypeOK, NoDanglingReference, CleanSlate, GraySet, CursorOnGray,
     Leaves, Protected, RunState

LEMMA RunInvariant == RunState /\ phase = "run" => IInv
<1> SUFFICES ASSUME RunState, phase = "run" PROVE IInv
  OBVIOUS
<1>1. TypeOK
  BY DEF RunState, TypeOK
<1>2. CleanSlate
  <2>1. \A x \in Alive : colour[x] \in {"white", "gray", "protected"}
    BY DEF RunState
  <2> QED
    BY <2>1 DEF RunState, CleanSlate, Protected
<1>3. NoDanglingReference /\ Leaves /\ CursorOnGray
  BY DEF RunState, NoDanglingReference, Leaves, CursorOnGray, Protected
<1>4. GraySet /\ PendingMarked
  BY DEF RunState, GraySet, PendingMarked, Marked
<1> QED
  BY <1>1, <1>2, <1>3, <1>4 DEF IInv, TriColour, Ended, OnlyReachable

LEMMA ProgramPreserves ==
  ASSUME IInv, Program
  PROVE  IInv'
<1>1. phase = "run" /\ phase' = "run"
  BY DEF Program, Allocate, Assign, Load, CloseUpvalue
<1>2. Reachable \subseteq Alive
  BY ReachAlive DEF Reachable
<1>3. RunState
  BY <1>1, RunFacts
<1>4. ASSUME NEW o \in Objects, NEW protect \in BOOLEAN, Allocate(o, protect)
      PROVE  RunState'
  BY <1>3, <1>4 DEF Allocate, Alive, RunState
<1>5. ASSUME NEW o \in Alive, NEW target \in SUBSET Alive, Assign(o, target)
      PROVE  RunState'
  BY <1>2, <1>3, <1>5 DEF Assign, Alive, Protected, RunState
<1>6. ASSUME NEW target \in SUBSET Alive, Load(target)
      PROVE  RunState'
  BY <1>2, <1>3, <1>6 DEF Load, Alive, RunState
<1>7. ASSUME NEW o \in Alive, CloseUpvalue(o)
      PROVE  RunState'
  <2>1. GraySet
    BY DEF IInv
  <2>2. /\ Alive' = Alive
        /\ \A x \in Alive :
             colour'[x] = IF x = o /\ colour[x] = "white" THEN "gray" ELSE colour[x]
        /\ gray' = gray \cup {x \in {o} : colour[x] = "white"}
        /\ pending' = gray'
    BY <1>1, <1>3, <1>7, <2>1, MarkGrayFacts DEF CloseUpvalue, Alive, RunState
  <2>3. colour' \in [Alive -> {"white", "gray", "protected"}]
    BY <1>3, <1>7, <2>2 DEF CloseUpvalue, MarkGray, RunState
  <2> QED
    BY <1>3, <1>7, <2>2, <2>3 DEF CloseUpvalue, RunState
<1>8. RunState'
  BY <1>4, <1>5, <1>6, <1>7 DEF Program
<1>9. (RunState /\ phase = "run" => IInv)'
  BY RunInvariant, PTL
<1> QED
  BY <1>1, <1>8, <1>9

(* GC::root marks the roots, so the cycle starts with no black object.     *)
LEMMA RootPreserves ==
  ASSUME IInv, Root
  PROVE  IInv'
<1>1. phase = "run" /\ phase' = "mark" /\ cursor' = NULL
  BY DEF Root
<1>2. RunState /\ GraySet /\ Leaves
  BY <1>1, RunFacts DEF IInv
<1>3. UNCHANGED <<refs, roots, pending>>
  BY DEF Root
<1>4. /\ Alive' = Alive
      /\ \A x \in Alive :
           colour'[x] = IF x \in roots /\ colour[x] = "white" THEN "gray" ELSE colour[x]
      /\ gray' = gray \cup {x \in roots : colour[x] = "white"}
  BY <1>1, <1>2, MarkGrayFacts DEF Root, Alive, RunState
<1>5. colour' \in [Alive -> {"white", "gray", "protected"}]
  BY <1>2, <1>4 DEF Root, MarkGray, RunState
<1>6. TypeOK'
  BY <1>1, <1>2, <1>3, <1>4, <1>5 DEF TypeOK, RunState
<1>7. NoDanglingReference' /\ GraySet'
  BY <1>2, <1>3, <1>4 DEF NoDanglingReference, GraySet, RunState
<1>8. TriColour'
  BY <1>2, <1>3, <1>4, <1>5 DEF TriColour, RunState
<1>9. Protected' = Protected /\ Leaves'
  BY <1>2, <1>3, <1>4 DEF Protected, Leaves
<1>10. Marked' = gray \cup {x \in roots : colour[x] = "white"}
  BY <1>2, <1>4, <1>5 DEF Marked, RunState
<1>11. PendingMarked'
  BY <1>2, <1>3, <1>10 DEF PendingMarked, RunState
<1>12. OnlyReachable'
  <2>1. Marked' \subseteq Sources'
    BY <1>2, <1>3, <1>10 DEF Sources, RunState
  <2> QED
    BY <2>1 DEF OnlyReachable
<1> QED
  BY <1>1, <1>6, <1>7, <1>8, <1>9, <1>11, <1>12
     DEF IInv, CleanSlate, CursorOnGray, Ended

(* One gray object: its references turn gray before it turns black.        *)
LEMMA MarkPreserves ==
  ASSUME IInv, MarkReferencesGray
  PROVE  IInv'
<1> DEFINE o == Current
<1>1. /\ phase = "mark" /\ phase' = "mark" /\ gray # {}
      /\ UNCHANGED <<refs, roots, pending>>
      /\ colour' = [x \in Alive |-> IF x = o THEN "black"
                                    ELSE IF x \in GrayedBy(o) THEN "gray" ELSE colour[x]]
      /\ gray' = (gray \cup GrayedBy(o)) \ {o}
      /\ cursor' = From(gray', o + 1)
  BY DEF MarkReferencesGray, After
<1>2. /\ TypeOK /\ NoDanglingReference /\ TriColour /\ GraySet /\ Leaves
      /\ CursorOnGray /\ PendingMarked /\ OnlyReachable
  BY DEF IInv
<1>3. gray \subseteq Alive /\ Alive \subseteq Objects /\ gray \in SUBSET Objects
  BY <1>1, <1>2 DEF TypeOK, NoDanglingReference
<1>4. o \in gray
  <2>1. CASE cursor = NULL
    BY <1>1, <1>3, <2>1, FromMember DEF Current
  <2>2. CASE cursor # NULL
    BY <1>2, <2>2 DEF Current, CursorOnGray
  <2> QED
    BY <2>1, <2>2
<1> HIDE DEF o
<1>5. o \in Alive /\ o \in Objects /\ colour[o] = "gray" /\ refs[o] \subseteq Alive
  BY <1>1, <1>2, <1>3, <1>4 DEF GraySet, NoDanglingReference
<1>6. GrayedBy(o) = {x \in refs[o] : colour[x] = "white"}
  BY <1>1, <1>2, <1>5 DEF GrayedBy, Whites, GraySet
<1>7. /\ Alive' = Alive
      /\ \A x \in Alive :
           colour'[x] = IF x = o THEN "black"
                        ELSE IF x \in refs[o] /\ colour[x] = "white" THEN "gray"
                        ELSE colour[x]
  BY <1>1, <1>6 DEF Alive
<1>8. gray' \subseteq Alive
  BY <1>1, <1>3, <1>5, <1>6
<1>9. cursor' # NULL => cursor' \in gray'
  <2>1. o + 1 \in Nat /\ gray' \in SUBSET Objects
    BY <1>3, <1>5, <1>8 DEF Objects
  <2> QED
    BY <1>1, <2>1, FromMember
<1>10. TypeOK'
  <2>1. colour' \in [Alive -> {"white", "gray", "black", "protected"}]
    BY <1>1, <1>2 DEF TypeOK
  <2>2. cursor' \in {NULL} \cup Objects /\ gray' \subseteq Objects
    BY <1>3, <1>8, <1>9
  <2> QED
    BY <1>1, <1>2, <1>7, <2>1, <2>2 DEF TypeOK
<1>11. NoDanglingReference'
  BY <1>1, <1>2, <1>7, <1>8 DEF NoDanglingReference
<1>12. TriColour'
  <2>1. \A x \in roots : colour'[x] # "white"
    BY <1>1, <1>2, <1>7 DEF TriColour, NoDanglingReference
  <2>2. ASSUME NEW b \in Alive, colour'[b] = "black", NEW x \in refs[b]
        PROVE  colour'[x] # "white"
    <3>1. x \in Alive
      BY <1>1, <1>2 DEF NoDanglingReference
    <3>2. CASE b = o
      BY <1>7, <3>1, <3>2
    <3>3. CASE b # o
      <4>1. colour[b] = "black"
        BY <1>7, <2>2, <3>3
      <4>2. colour[x] # "white"
        BY <1>1, <1>2, <4>1 DEF TriColour
      <4> QED
        BY <1>7, <3>1, <4>2
    <3> QED
      BY <3>2, <3>3
  <2> QED
    BY <1>1, <1>7, <2>1, <2>2 DEF TriColour
<1>13. GraySet'
  BY <1>1, <1>2, <1>3, <1>5, <1>6, <1>7 DEF GraySet
<1>14. Protected' = Protected /\ Leaves'
  BY <1>1, <1>2, <1>5, <1>7 DEF Protected, Leaves
<1>15. Marked' = Marked \cup {x \in refs[o] : colour[x] = "white"}
  BY <1>5, <1>7 DEF Marked
<1>16. PendingMarked'
  BY <1>1, <1>2, <1>15 DEF PendingMarked
<1>17. OnlyReachable'
  <2>1. ASSUME NEW S \in SUBSET Alive, Sources \subseteq S, Abstract!Closed(S)
        PROVE  Marked \cup refs[o] \subseteq S
    <3>1. Marked \subseteq S
      BY <1>1, <1>2, <2>1 DEF OnlyReachable
    <3>2. o \in Marked
      BY <1>5 DEF Marked
    <3> QED
      BY <2>1, <3>1, <3>2 DEF Abstract!Closed
  <2>2. Sources' = Sources /\ refs' = refs
    BY <1>1, <1>14 DEF Sources
  <2>3. \A S : Abstract!Closed(S)' <=> Abstract!Closed(S)
    BY <2>2 DEF Abstract!Closed
  <2> QED
    BY <1>7, <1>15, <2>1, <2>2, <2>3 DEF OnlyReachable, Abstract!Closed
<1> QED
  BY <1>1, <1>9, <1>10, <1>11, <1>12, <1>13, <1>14, <1>16, <1>17
     DEF IInv, CleanSlate, CursorOnGray, Ended

(* When nothing is gray, white is unreachable.                             *)
LEMMA WhiteIsGarbage ==
  ASSUME IInv, phase = "mark", gray = {}
  PROVE  /\ {o \in Alive : ~Frees(o)} = Abstract!Reach(Sources)
         /\ Sources \subseteq {o \in Alive : ~Frees(o)}
         /\ \A o \in Alive : ~Frees(o) => refs[o] \subseteq {x \in Alive : ~Frees(x)}
<1> DEFINE W == {o \in Alive : ~Frees(o)}
<1>1. \A o \in Alive : colour[o] \in {"white", "black", "protected"}
  BY DEF IInv, TypeOK, GraySet
<1>2. W = {o \in Alive : colour[o] = "black"} \cup Protected
  BY <1>1 DEF Frees, Protected
<1>3. \A o \in W : refs[o] \subseteq W
  BY <1>2 DEF IInv, TriColour, Leaves, NoDanglingReference, Frees
<1>4. Sources \subseteq W
  BY <1>2 DEF IInv, NoDanglingReference, TriColour, PendingMarked, Marked, Sources, Frees,
     Protected
<1>5. ASSUME NEW S \in SUBSET Alive, Sources \subseteq S, Abstract!Closed(S)
      PROVE  W \subseteq S
  <2>1. Marked \subseteq S
    BY <1>5 DEF IInv, OnlyReachable
  <2>2. Protected \subseteq S
    BY <1>5 DEF Sources
  <2> QED
    BY <1>2, <2>1, <2>2 DEF Marked
<1>6. W \in SUBSET Alive /\ Abstract!Closed(W)
  BY <1>3 DEF Abstract!Closed
<1> HIDE DEF W
<1>7. Abstract!Reach(Sources) = W
  BY <1>4, <1>5, <1>6, ReachIsLeast
<1> QED
  BY <1>3, <1>4, <1>7 DEF W

LEMMA SweepPreserves ==
  ASSUME IInv, Sweep
  PROVE  IInv'
<1> DEFINE W == {o \in Alive : ~Frees(o)}
<1>1. /\ phase = "mark" /\ gray = {} /\ phase' = "run" /\ pending' = {}
      /\ gray' = {} /\ roots' = roots /\ cursor' = cursor
      /\ colour' = [o \in W |-> AfterSweep(o)]
      /\ refs' = [o \in W |-> refs[o]]
  BY DEF Sweep, MarkDone
<1>2. Alive' = W
  BY <1>1 DEF Alive
<1>3. /\ W \subseteq Alive /\ Alive \subseteq Objects
      /\ cursor = NULL
      /\ roots \subseteq W /\ \A o \in W : refs[o] \subseteq W
      /\ \A o \in W : colour[o] = "protected" => refs[o] = {}
  BY <1>1, WhiteIsGarbage DEF IInv, TypeOK, CursorOnGray, Leaves, Protected, Sources
<1>4. \A o \in W : AfterSweep(o) \in {"white", "protected"}
  BY DEF AfterSweep
<1>5. \A o \in W : AfterSweep(o) = "protected" => colour[o] = "protected"
  BY DEF AfterSweep
<1> HIDE DEF W
<1>6. RunState'
  BY <1>1, <1>2, <1>3, <1>4, <1>5 DEF RunState
<1>7. (RunState /\ phase = "run" => IInv)'
  BY RunInvariant, PTL
<1> QED
  BY <1>1, <1>6, <1>7

LEMMA ForcedSweepPreserves ==
  ASSUME IInv, ForcedSweep
  PROVE  IInv'
<1>1. /\ phase = "run" /\ phase' = "exited" /\ Alive' = {} /\ refs' = [o \in {} |-> {}]
      /\ roots' = {} /\ pending' = {} /\ gray' = gray /\ cursor' = cursor
      /\ colour' = [o \in {} |-> "white"]
  BY DEF ForcedSweep, Alive
<1>2. TypeOK'
  BY <1>1 DEF IInv, TypeOK
<1> QED
  BY <1>1, <1>2 DEF IInv, NoDanglingReference, TriColour, CleanSlate, GraySet, Leaves,
     CursorOnGray, PendingMarked, Ended, OnlyReachable, Protected

LEMMA StutterPreserves ==
  ASSUME IInv, UNCHANGED collectorVars
  PROVE  IInv'
  BY DEF collectorVars, IInv, TypeOK, NoDanglingReference, TriColour, CleanSlate, GraySet,
     Leaves, CursorOnGray, PendingMarked, Ended, OnlyReachable, Protected, Alive, Marked,
     Sources, Abstract!Closed

(* The invariant of the collector, for every graph and every program.      *)
THEOREM CollectorInvariant == Spec => []IInv
<1>1. IInv /\ [Next]_collectorVars => IInv'
  <2> SUFFICES ASSUME IInv, [Next]_collectorVars
               PROVE  IInv'
    OBVIOUS
  <2>1. CASE Program
    BY <2>1, ProgramPreserves
  <2>2. CASE Root
    BY <2>2, RootPreserves
  <2>3. CASE MarkReferencesGray
    BY <2>3, MarkPreserves
  <2>4. CASE Sweep
    BY <2>4, SweepPreserves
  <2>5. CASE ForcedSweep
    BY <2>5, ForcedSweepPreserves
  <2>6. CASE UNCHANGED collectorVars
    BY <2>6, StutterPreserves
  <2> QED
    BY <2>1, <2>2, <2>3, <2>4, <2>5, <2>6 DEF Next, Collection
<1> QED
  BY <1>1, InitEstablishes, PTL DEF Spec

(* markGray's sanity check (heap.cpp:173) never fails, and no reference is *)
(* left to a block that purgeHeap has freed.                               *)
THEOREM NoDanglingReferenceHolds == Spec => []NoDanglingReference
  BY CollectorInvariant, PTL DEF IInv

(* The colour sets, the gray set and the sweep's cursor stay what they are *)
(* for every graph of objects.                                             *)
THEOREM TypeOKHolds == Spec => []TypeOK
  BY CollectorInvariant, PTL DEF IInv

(* The loop of markReferencesGray, which grays objects behind and ahead of *)
(* its own iterator, never leaves a black object with a white reference.   *)
THEOREM TriColourHolds == Spec => []TriColour
  BY CollectorInvariant, PTL DEF IInv

(* Each cycle starts from clean colours: purgeHeap resets all but the      *)
(* protected ones, and only UpvalueRef::close marks in between.            *)
THEOREM CleanSlateHolds == Spec => []CleanSlate
  BY CollectorInvariant, PTL DEF IInv

-----------------------------------------------------------------------------
(* Mark and sweep implement the collection of Reclaimer.tla *)

(* The program changes references only among what it can reach.            *)
LEMMA ProgramMaps ==
  ASSUME IInv, Program
  PROVE  \E new \in SUBSET (Objects \ Alive) : Abstract!Mutate(new)
<1>1. phase = "run"
  BY DEF Program, Allocate, Assign, Load, CloseUpvalue
<1>2. RunState /\ GraySet
  BY <1>1, RunFacts DEF IInv
<1>3. Reachable \subseteq Alive /\ roots \subseteq Reachable
  BY <1>2, ReachAlive, ReachContains DEF Reachable, RunState, Protected
<1>4. Reachable = Abstract!Reach(roots \cup Protected)
  BY DEF Reachable
<1>5. ASSUME NEW o \in Objects, NEW protect \in BOOLEAN, Allocate(o, protect)
      PROVE  Abstract!Mutate({o}) /\ o \notin Alive
  <2>1. /\ o \notin Alive /\ Alive' = Alive \cup {o}
        /\ refs' = [x \in Alive \cup {o} |-> IF x = o THEN {} ELSE refs[x]]
        /\ roots' \subseteq roots \cup {o} /\ pending' = pending
    BY <1>5 DEF Allocate, Alive
  <2>2. Protected \subseteq Protected' /\ Protected' \subseteq Protected \cup {o}
    BY <1>5 DEF Allocate, Alive, Protected
  <2>3. refs' = [x \in Alive' |-> refs'[x]]
    BY <2>1
  <2>4. \A x \in Alive' : refs'[x] \subseteq (IF x \in Alive THEN refs[x] ELSE {})
    BY <2>1
  <2> QED
    BY <1>3, <1>4, <2>1, <2>2, <2>3, <2>4 DEF Abstract!Mutate
<1>6. ASSUME NEW o \in Alive, NEW target \in SUBSET Alive, Assign(o, target)
      PROVE  Abstract!Mutate({})
  <2>1. /\ Alive' = Alive /\ target \subseteq Reachable
        /\ refs' = [refs EXCEPT ![o] = target]
        /\ roots' = roots /\ pending' = pending /\ Protected' = Protected
    BY <1>6 DEF Assign, Alive, Protected
  <2>2. refs' = [x \in Alive' |-> refs'[x]]
    BY <1>2, <2>1 DEF RunState
  <2>3. \A x \in Alive' : refs'[x] \subseteq Reachable \cup refs[x]
    BY <1>2, <2>1 DEF RunState
  <2> QED
    BY <1>3, <1>4, <2>1, <2>2, <2>3 DEF Abstract!Mutate
<1>7. ASSUME NEW target \in SUBSET Alive, Load(target)
      PROVE  Abstract!Mutate({})
  <2>1. /\ Alive' = Alive /\ target \subseteq Reachable /\ refs' = refs
        /\ roots' = target /\ pending' = pending /\ Protected' = Protected
    BY <1>7 DEF Load, Alive, Protected
  <2>2. refs' = [x \in Alive' |-> refs'[x]]
    BY <1>2, <2>1 DEF RunState
  <2> QED
    BY <1>4, <2>1, <2>2 DEF Abstract!Mutate
<1>8. ASSUME NEW o \in Alive, CloseUpvalue(o)
      PROVE  Abstract!Mutate({})
  <2>1. /\ o \in Reachable /\ pending' = pending \cup Whites({o})
        /\ colour' = MarkGray({o}) /\ refs' = refs /\ roots' = roots
    BY <1>8 DEF CloseUpvalue
  <2>2. Whites({o}) \subseteq {o}
    BY DEF Whites
  <2>3. Alive' = Alive /\ Protected' = Protected
    BY <1>1, <1>2, <2>1, MarkGrayFacts DEF Alive, Protected
  <2>4. refs' = [x \in Alive' |-> refs'[x]]
    BY <1>2, <2>1, <2>3 DEF RunState
  <2> QED
    BY <1>3, <1>4, <2>1, <2>2, <2>3, <2>4 DEF Abstract!Mutate
<1> QED
  BY <1>5, <1>6, <1>7, <1>8 DEF Program

(* Nothing shows before the sweep ...                                      *)
LEMMA MarkingIsHidden ==
  ASSUME IInv, Root \/ MarkReferencesGray \/ UNCHANGED collectorVars
  PROVE  UNCHANGED Abstract!vars
<1>1. CASE UNCHANGED collectorVars
  BY <1>1 DEF collectorVars, Abstract!vars, Alive, Protected
<1>2. CASE Root
  <2>1. phase = "run" /\ UNCHANGED <<refs, roots, pending>>
    BY <1>2 DEF Root
  <2>2. RunState /\ GraySet
    BY <2>1, RunFacts DEF IInv
  <2>3. Alive' = Alive /\ Protected' = Protected
    BY <1>2, <2>1, <2>2, MarkGrayFacts DEF Root, Alive, Protected, RunState
  <2> QED
    BY <2>1, <2>3 DEF Abstract!vars
<1>3. CASE MarkReferencesGray
  <2> DEFINE o == Current
  <2>1. /\ phase = "mark" /\ gray # {} /\ UNCHANGED <<refs, roots, pending>>
        /\ colour' = [x \in Alive |-> IF x = o THEN "black"
                                      ELSE IF x \in GrayedBy(o) THEN "gray" ELSE colour[x]]
    BY <1>3 DEF MarkReferencesGray
  <2>2. o \in gray
    <3>1. gray \in SUBSET Objects /\ CursorOnGray
      BY DEF IInv, TypeOK
    <3>2. CASE cursor = NULL
      BY <2>1, <3>1, <3>2, FromMember DEF Current
    <3> QED
      BY <3>1, <3>2 DEF Current, CursorOnGray
  <2>3. colour[o] = "gray"
    BY <2>1, <2>2 DEF IInv, GraySet
  <2>4. \A x \in GrayedBy(o) : colour[x] = "white"
    BY DEF GrayedBy, Whites
  <2> HIDE DEF o
  <2>5. Alive' = Alive /\ Protected' = Protected
    BY <2>1, <2>3, <2>4 DEF Alive, Protected
  <2> QED
    BY <2>1, <2>5 DEF Abstract!vars
<1> QED
  BY <1>1, <1>2, <1>3

(* ... which takes away exactly what cannot be reached.                    *)
LEMMA SweepMaps ==
  ASSUME IInv, Sweep
  PROVE  Abstract!Collect
<1> DEFINE W == {o \in Alive : ~Frees(o)}
<1>1. /\ phase = "mark" /\ gray = {} /\ pending' = {} /\ roots' = roots
      /\ colour' = [o \in W |-> AfterSweep(o)]
      /\ refs' = [o \in W |-> refs[o]]
  BY DEF Sweep, MarkDone
<1>2. Alive' = W
  BY <1>1 DEF Alive
<1>3. W = Abstract!Reach(roots \cup pending \cup Protected)
  BY <1>1, WhiteIsGarbage DEF Sources
<1>4. Protected' = {o \in W : AfterSweep(o) = "protected"}
  BY <1>1, <1>2 DEF Protected
<1>5. Protected' = Protected
  BY <1>4 DEF AfterSweep, Frees, Protected
<1> HIDE DEF W
<1> QED
  BY <1>1, <1>2, <1>3, <1>5 DEF Abstract!Collect

(* GC::mark and purgeHeap implement Reclaimer's collection: seen from the  *)
(* program, all that it cannot reach goes in one step, and nothing else.   *)
THEOREM CollectorImplementsReclaimer == Spec => ReclaimerSpec
<1>1. Init => Abstract!Init
  BY DEF Init, Abstract!Init, Alive, Protected
<1>2. IInv /\ [Next]_collectorVars => [Abstract!Next]_(Abstract!vars)
  <2> SUFFICES ASSUME IInv, [Next]_collectorVars
               PROVE  Abstract!Next \/ UNCHANGED Abstract!vars
    BY DEF Abstract!vars
  <2>1. CASE Program
    BY <2>1, ProgramMaps DEF Abstract!Next
  <2>2. CASE Root \/ MarkReferencesGray \/ UNCHANGED collectorVars
    BY <2>2, MarkingIsHidden
  <2>3. CASE Sweep
    BY <2>3, SweepMaps DEF Abstract!Next
  <2>4. CASE ForcedSweep
    BY <2>4 DEF ForcedSweep, Alive, Protected, Abstract!Release, Abstract!Next
  <2> QED
    BY <2>1, <2>2, <2>3, <2>4 DEF Next, Collection
<1> QED
  BY <1>1, <1>2, CollectorInvariant, PTL DEF Spec, ReclaimerSpec, Abstract!Spec
=============================================================================
