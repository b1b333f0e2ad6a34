----------------------------- MODULE BlockStore -----------------------------
(***************************************************************************)
(* What lurun's heap promises to the virtual machine, without saying how:  *)
(* a store of objects that live in disjoint stretches of one byte array.   *)
(* An object gets a stretch at least as long as it asked for, keeps that   *)
(* stretch for its whole life, and only a sweep takes it away, either      *)
(* because the object was not marked when the sweep began or because the   *)
(* sweep is the forced one at the end of the run.                          *)
(*                                                                         *)
(* This module translates no code: it is the specification that Heap.tla   *)
(* (HeapManager, src/src/vm/heap.cpp) is shown to implement.               *)
(***************************************************************************)
EXTENDS Integers

CONSTANTS
  Room,         (* Number of bytes of the array.                           *)
  Requests      (* The sizes the virtual machine asks for.                 *)

VARIABLES
  extent,       (* Live object (its address) |-> length of its stretch.    *)
  marked,       (* Live objects known to be in use.                        *)
  doomed,       (* Live objects the sweep under way is going to reclaim.   *)
  sweeping      (* Is a sweep under way?                                   *)

vars == <<extent, marked, doomed, sweeping>>

Live == DOMAIN extent

(* The bytes of object o lie between o and its end.                        *)
EndOf(o) == o + extent[o]

Disjoint(o, n) == \A x \in Live : EndOf(x) <= o \/ o + n <= x

Init ==
  /\ extent = [o \in {} |-> 0]
  /\ marked = {}
  /\ doomed = {}
  /\ sweeping = FALSE

Allocate(request, o, n) ==
  /\ ~sweeping
  /\ o \notin Live
  /\ request <= n
  /\ o + n <= Room
  /\ Disjoint(o, n)
  /\ extent' = [x \in Live \cup {o} |-> IF x = o THEN n ELSE extent[x]]
  /\ marked' \in {marked, marked \cup {o}}
  /\ UNCHANGED <<doomed, sweeping>>

Mark(objects) ==
  /\ ~sweeping
  /\ objects \subseteq Live
  /\ marked' = marked \cup objects
  /\ UNCHANGED <<extent, doomed, sweeping>>

BeginSweep(victims) ==
  /\ ~sweeping
  /\ sweeping' = TRUE
  /\ doomed' = victims
  /\ UNCHANGED <<extent, marked>>

(* A survivor loses its mark, so that the next cycle starts afresh.        *)
Retain(o) ==
  /\ sweeping
  /\ o \in Live \ doomed
  /\ marked' \in {marked, marked \ {o}}
  /\ UNCHANGED <<extent, doomed, sweeping>>

Reclaim(o) ==
  /\ sweeping
  /\ o \in doomed
  /\ extent' = [x \in Live \ {o} |-> extent[x]]
  /\ marked' = marked \ {o}
  /\ doomed' = doomed \ {o}
  /\ UNCHANGED sweeping

(* A sweep does not end before every object it doomed is gone.             *)
EndSweep ==
  /\ sweeping
  /\ doomed = {}
  /\ sweeping' = FALSE
  /\ UNCHANGED <<extent, marked, doomed>>

Next ==
  \/ \E objects \in SUBSET Live : Mark(objects)
  \/ BeginSweep(Live \ marked)
  \/ BeginSweep(Live)
  \/ \E o \in Live : Retain(o) \/ Reclaim(o)
  \/ EndSweep
  \/ \E request \in Requests, o \in 0 .. Room, n \in 0 .. Room :
       Allocate(request, o, n)

Spec == Init /\ [][Next]_vars
=============================================================================
