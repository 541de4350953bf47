------------------------------ MODULE MCFat16 -------------------------------
(***************************************************************************)
(* Instances of Fat16 for TLC: a small volume with one read-only file, and *)
(* programs that use a short name and one that does not fit 8.3.           *)
(***************************************************************************)
EXTENDS Fat16, TLC

CONSTANTS boot, text, longname, fd1, fd2

MCFds == {fd1, fd2}
MCSlots == 1 .. 3
AllNames == {boot, text, longname}

(* The name that is too long is stored cut off, which makes it text. *)
MCShortName == [n \in AllNames |-> IF n = longname THEN text ELSE n]

MCMountDir ==
    [s \in MCSlots |->
        IF s = 1 THEN [name |-> boot, cluster |-> 2, size |-> 1, ro |-> TRUE]
        ELSE NoItem]
MCMountFat == [c \in Clusters |-> IF c = 2 THEN EndOfChain ELSE Free]

(* The properties say nothing of a spoiled volume, which stays spoiled:    *)
(* what follows it is not explored.                                        *)
Unspoiled == ~spoiled

(* The descriptors are interchangeable. *)
Symmetry == Permutations(Fds)
=============================================================================
