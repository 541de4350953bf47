----------------------------- MODULE MCDesktop -----------------------------
(* A screen of 10 by 8 with a window of 5 by 2 and a cursor of one pixel. *)
EXTENDS Desktop

MCScreen == [x |-> 10, y |-> 8]
MCCursorSize == [x |-> 1, y |-> 1]
MCMainPos == [x |-> 1, y |-> 1]
MCMainSize == [x |-> 5, y |-> 2]

\* Presses of a button and moves that reach the title bar, the close button,
\* the edges and the rest of the screen; a negative movement has bit 3 set.
MCPackets ==
    [left : {0, 1}, right : {0}, dx : {-4, 0, 1}, dy : {0, 2}]
        \cup {[left |-> 0, right |-> 1, dx |-> 0, dy |-> -3]}
=============================================================================
