----------------------------- MODULE Reclaimer ------------------------------
(***************************************************************************)
(* What garbage collection promises, without saying how.  A program holds  *)
(* some objects directly (roots) and gets at others only through the       *)
(* references of objects it can reach.  A collection takes away, in one    *)
(* step, all objects but those that can be reached from the roots, from    *)
(* the objects kept by name until the next collection, and from the        *)
(* permanent ones: no other, and none of these.                            *)
(*                                                                         *)
(* This module translates no code: Collector.tla (the mark and sweep of    *)
(* src/src/vm/gc.cpp and heap.cpp) is shown to implement it.               *)
(***************************************************************************)
CONSTANT Objects

VARIABLES
  alive,      (* The objects that exist.                                   *)
  refs,       (* Object |-> the objects it refers to.                      *)
  roots,      (* The objects the program holds directly.                   *)
  kept,       (* Objects the next collection is to keep anyway.            *)
  permanent   (* Objects every collection keeps.                           *)

vars == <<alive, refs, roots, kept, permanent>>

(* A set of objects that references do not lead out of.                    *)
Closed(S) == \A o \in S : refs[o] \subseteq S

(* The objects that can be reached from the given ones: those in every     *)
(* closed set that contains these.                                         *)
Reach(from) ==
  {o \in alive : \A S \in SUBSET alive : from \subseteq S /\ Closed(S) => o \in S}

Init ==
  /\ alive \subseteq Objects
  /\ refs \in [alive -> SUBSET alive]
  /\ roots \subseteq alive
  /\ kept = {}
  /\ permanent \subseteq alive

(* The program makes some objects and moves references around; it can get  *)
(* hold only of the new objects, of those it could reach, and of the       *)
(* permanent ones.                                                         *)
Mutate(new) ==
  LET known == Reach(roots \cup permanent) \cup new
  IN /\ alive' = alive \cup new
     /\ refs' = [o \in alive' |-> refs'[o]]
     /\ \A o \in alive' :
          refs'[o] \subseteq known \cup (IF o \in alive THEN refs[o] ELSE {})
     /\ roots' \subseteq known
     /\ kept \subseteq kept' /\ kept' \subseteq kept \cup known
     /\ permanent \subseteq permanent' /\ permanent' \subseteq permanent \cup new

Collect ==
  /\ alive' = Reach(roots \cup kept \cup permanent)
  /\ refs' = [o \in alive' |-> refs[o]]
  /\ kept' = {}
  /\ UNCHANGED <<roots, permanent>>

(* The program ends, and all its objects with it.                          *)
Release ==
  /\ alive' = {}
  /\ roots' = {} /\ kept' = {} /\ permanent' = {}

Next ==
  \/ \E new \in SUBSET (Objects \ alive) : Mutate(new)
  \/ Collect
  \/ Release

Spec == Init /\ [][Next]_vars
=============================================================================
