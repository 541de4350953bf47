------------------------------- MODULE MCHeap -------------------------------
(***************************************************************************)
(* Instances of Heap for TLC.  A block is 4 bytes and the counters wrap at *)
(* 32, so that every block count of the instances fits and an underflow    *)
(* shows.                                                                  *)
(***************************************************************************)
EXTENDS Heap, TLC

CONSTANTS c1, c2, c3

TwoCallers == {c1, c2}
ThreeCallers == {c1, c2, c3}

(* The callers are interchangeable: no action or property names one. *)
Symmetry == Permutations(Callers)

(* Requests of no, one, two and three blocks, some of them uneven. *)
AnySizes == {0, 4, 7, 9}
=============================================================================
