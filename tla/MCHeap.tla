------------------------------- MODULE MCHeap -------------------------------
(* Heap with small constants: see the .cfg files. *)
EXTENDS Heap
=============================================================================
