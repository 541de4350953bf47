------------------------------ MODULE KeyQueue ------------------------------
(***************************************************************************)
(* What the keyboard promises a process: the characters typed while it was *)
(* the current process, each once, in the order they were typed.           *)
(***************************************************************************)
EXTENDS Sequences

CONSTANTS Procs, Chars, NUL

VARIABLES
    unread,   \* unread[p]: typed for p and not yet read
    returned  \* what the last read returned: NUL when there was nothing

Init ==
    /\ unread = [p \in Procs |-> <<>>]
    /\ returned = NUL

Type(p, c) ==
    /\ unread' = [unread EXCEPT ![p] = Append(@, c)]
    /\ UNCHANGED returned

Read(p) ==
    /\ unread[p] # <<>>
    /\ returned' = Head(unread[p])
    /\ unread' = [unread EXCEPT ![p] = Tail(@)]

ReadNothing(p) ==
    /\ unread[p] = <<>>
    /\ returned' = NUL
    /\ UNCHANGED unread

Next ==
    \E p \in Procs :
        \/ \E c \in Chars : Type(p, c)
        \/ Read(p)
        \/ ReadNothing(p)

Spec == Init /\ [][Next]_<<unread, returned>>
=============================================================================
