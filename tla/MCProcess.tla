----------------------------- MODULE MCProcess -----------------------------
(***************************************************************************)
(* An instance of Process for TLC.  A page is 4 bytes and a table has four *)
(* entries.  The first region is too small for the minimal heap and holds  *)
(* the virtual pages of the programs.  The second one is uneven, holds the *)
(* table of the minimal heap and its eight blocks, 27 to 34, and begins    *)
(* behind the first entry of its page directory: paging_get finds pages    *)
(* from 32 on only.                                                        *)
(***************************************************************************)
EXTENDS Process, TLC

CONSTANTS p1, p2, data, prog, missing

MemoryMap == <<[base |-> 4, end |-> 24], [base |-> 97, end |-> 141]>>

AddressSpace == (0 .. 5) \cup (25 .. 36)

(* The whole drive has no file system, its partition has. *)
TwoDisks == <<[filesystem |-> FALSE, files |-> {}], [filesystem |-> TRUE, files |-> {data, prog}]>>

Program == [format |-> TRUE, drive |-> Primary, file |-> prog]

(* A file, one that is not there, one on the drive without a file system,  *)
(* and a path that has no drive.                                           *)
SomePaths ==
    {[format |-> TRUE, drive |-> 1, file |-> data],
     [format |-> TRUE, drive |-> Primary, file |-> missing],
     [format |-> TRUE, drive |-> 0, file |-> data],
     [format |-> FALSE, drive |-> 0, file |-> data]}

(* The instance meets the hypotheses of the theorems in ProcessProofs. *)
ASSUME MapAssumption == EndsHarmless /\ MaxLoose \in 0 .. 1

Symmetry == Permutations(Procs)
=============================================================================
