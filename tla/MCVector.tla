------------------------------ MODULE MCVector ------------------------------
(***************************************************************************)
(* Instances of Vector for TLC.  Two elements share a key, so that a sort  *)
(* that is not stable shows.                                               *)
(***************************************************************************)
EXTENDS Vector

TwoKeys == {1, 2}
TwoNames == {"x", "y"}
=============================================================================
