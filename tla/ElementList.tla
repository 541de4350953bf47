----------------------------- MODULE ElementList -----------------------------
(***************************************************************************)
(* What a vector promises its users: a list of elements, indexed from 0,   *)
(* until the heap is exhausted.  A push that finds no memory loses every   *)
(* element, and the list goes on with as many lost ones and no memory of   *)
(* its own: what is written into it then is lost again at the next push    *)
(* that gets memory.                                                       *)
(***************************************************************************)
EXTENDS Integers, Sequences, SequencesExt

CONSTANTS Values, Lost, KeyOf(_), MaxIndex, HeapFails

VARIABLES
    elems,     \* the list
    unbacked,  \* it has no memory of its own
    res,       \* the result of the last call: not negative, or ERROR
    out        \* what the last read found

ERROR == -1

Init == elems = <<>> /\ unbacked = TRUE /\ res = 0 /\ out = {}

Push(x) ==
    /\ elems' = Append(elems, x)
    /\ res' = Len(elems)
    /\ UNCHANGED <<unbacked, out>>

(* The first push, or the first since one failed, that gets memory. *)
PushFresh(x) ==
    /\ unbacked /\ unbacked' = FALSE
    /\ elems' = Append([i \in 1 .. Len(elems) |-> Lost], x)
    /\ res' = Len(elems)
    /\ UNCHANGED out

PushFails ==
    /\ HeapFails
    /\ elems' = [i \in 1 .. Len(elems) |-> Lost] /\ unbacked' = TRUE
    /\ res' = ERROR
    /\ UNCHANGED out

(* Without memory for its copy, a removal fails and changes nothing. *)
PopElementFails ==
    /\ HeapFails
    /\ res' = ERROR
    /\ UNCHANGED <<elems, unbacked, out>>

(* An index outside the list changes nothing but the result. *)
Overwrite(i, x) ==
    /\ IF i \in 0 .. Len(elems) - 1
       THEN elems' = [elems EXCEPT ![i + 1] = x] /\ res' = 0
       ELSE res' = ERROR /\ UNCHANGED elems
    /\ UNCHANGED <<unbacked, out>>

Pop ==
    /\ IF elems = <<>>
       THEN res' = ERROR /\ UNCHANGED elems
       ELSE res' = 0 /\ elems' = Front(elems)
    /\ UNCHANGED <<unbacked, out>>

At(i) ==
    /\ IF i \in 0 .. Len(elems) - 1
       THEN res' = 0 /\ out' = {elems[i + 1]}
       ELSE res' = ERROR /\ out' = {}
    /\ UNCHANGED <<elems, unbacked>>

(* The first element equal to x goes, and those after it move up. *)
PopElement(x) ==
    /\ IF x \in ToSet(elems)
       THEN res' = 0 /\ elems' = RemoveFirst(elems, x)
       ELSE res' = ERROR /\ UNCHANGED elems
    /\ UNCHANGED <<unbacked, out>>

(* Sorted by key, equal keys in their old order: p is where elements go. *)
Reorder ==
    /\ \E p \in [1 .. Len(elems) -> 1 .. Len(elems)] :
          /\ \A i, j \in 1 .. Len(elems) :
                i < j => \/ KeyOf(elems[p[i]]) < KeyOf(elems[p[j]])
                         \/ KeyOf(elems[p[i]]) = KeyOf(elems[p[j]]) /\ p[i] < p[j]
          /\ elems' = [i \in 1 .. Len(elems) |-> elems[p[i]]]
    /\ UNCHANGED <<unbacked, res, out>>

Next ==
    \/ \E x \in Values : Push(x) \/ PushFresh(x) \/ PopElement(x)
    \/ \E i \in -1 .. MaxIndex : At(i) \/ \E x \in Values : Overwrite(i, x)
    \/ Pop
    \/ Reorder
    \/ PushFails
    \/ PopElementFails

Spec == Init /\ [][Next]_<<elems, unbacked, res, out>>
=============================================================================
