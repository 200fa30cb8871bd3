------------------------------- MODULE MCHeap -------------------------------
(* The heap on a small address space, for TLC. *)
EXTENDS Heap, TLC

Symmetry == Permutations(Clients)
=============================================================================
