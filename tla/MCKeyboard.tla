----------------------------- MODULE MCKeyboard -----------------------------
(***************************************************************************)
(* Instances of Keyboard for TLC: two processes and a buffer of three      *)
(* cells, which wraps within the bound on what is typed.                   *)
(***************************************************************************)
EXTENDS Keyboard

CONSTANTS p1, p2

TwoProcs == {p1, p2}
=============================================================================
