------------------------------- MODULE MCHeap -------------------------------
(* Values for checking Heap.tla: a small object and a larger one, of sizes *)
(* between which splitting, exact fits and merging all happen.             *)
EXTENDS Heap

MCObjectSizes == {4, 8}
=============================================================================
