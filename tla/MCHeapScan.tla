----------------------------- MODULE MCHeapScan -----------------------------
(* All tables of Total blocks and all requests of up to one block more. *)
EXTENDS HeapScan
=============================================================================
