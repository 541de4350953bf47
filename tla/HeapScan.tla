------------------------------ MODULE HeapScan ------------------------------
(***************************************************************************)
(* The search loop of heap_get_start_block, one step per iteration, and    *)
(* the claim that the other modules rest on: what it returns is the lowest *)
(* run of want free blocks, or an error when there is none.                *)
(***************************************************************************)
EXTENDS HeapTable

CONSTANT ENOMEM

ASSUME EnomemAssumption == ENOMEM \in Nat \ {0}

VARIABLES
    table,      \* heap->table->entries, not changed by the search
    want,       \* the parameter total_blocks
    at, bc, bs, \* the loop's i, bc and bs
    result      \* what is returned, once pc = "returned"
VARIABLE pc

scan_vars == <<table, want, at, bc, bs, result, pc>>

ScanInit ==
    /\ table \in [Blocks -> {{}, {TAKEN}}]
    /\ want \in 0 .. Total + 1
    /\ at = 0 /\ bc = 0 /\ bs = -1
    /\ result = 0
    /\ pc = "loop"

(* Fault: continue skips the increment. *)
FaultResetStays ==
    /\ pc = "loop" /\ at < Total
    /\ ~IsFree(table, at)
    /\ bc' = 0 /\ bs' = -1 /\ at' = at
    /\ UNCHANGED <<table, want, result, pc>>

(* An entry that is not free resets the run. *)
Reset ==
    /\ pc = "loop" /\ at < Total
    /\ ~IsFree(table, at)
    /\ bc' = 0 /\ bs' = -1 /\ at' = at + 1
    /\ UNCHANGED <<table, want, result, pc>>

(* A free entry starts or lengthens the run; the loop stops at want blocks. *)
Extend ==
    /\ pc = "loop" /\ at < Total
    /\ IsFree(table, at)
    /\ bs' = IF bs = -1 THEN at ELSE bs
    /\ bc' = bc + 1
    /\ IF bc' = want THEN pc' = "return" /\ at' = at ELSE pc' = pc /\ at' = at + 1
    /\ UNCHANGED <<table, want, result>>

EndOfTable ==
    /\ pc = "loop" /\ at = Total
    /\ pc' = "return"
    /\ UNCHANGED <<table, want, at, bc, bs, result>>

(* Fault: a run that reaches the end of the table is returned as it is. *)
FaultReturnAnyRun ==
    /\ pc = "return"
    /\ result' = IF bc = 0 THEN -ENOMEM ELSE bs
    /\ pc' = "returned"
    /\ UNCHANGED <<table, want, at, bc, bs>>

Return ==
    /\ pc = "return"
    /\ result' = IF bc # want THEN -ENOMEM ELSE bs
    /\ pc' = "returned"
    /\ UNCHANGED <<table, want, at, bc, bs>>

ScanNext == Reset \/ Extend \/ EndOfTable \/ Return

(* Nothing interrupts the loop for good: its steps are always taken. *)
ScanSpec == ScanInit /\ [][ScanNext]_scan_vars /\ WF_scan_vars(ScanNext)

-----------------------------------------------------------------------------
ScanTypeOK ==
    /\ table \in [Blocks -> SUBSET Flags]
    /\ want \in Nat
    /\ at \in 0 .. Total
    /\ bc \in 0 .. Total
    /\ bs \in -1 .. Total - 1
    /\ result \in -ENOMEM .. Total - 1
    /\ pc \in {"loop", "return", "returned"}

(* The search of heap_get_start_block is a first fit: its callers, which   *)
(* only test the sign, get the lowest run that is large enough, a negative *)
(* number exactly when there is none, and always for an empty request.     *)
FirstFit ==
    pc = "returned" =>
        \/ result >= 0 /\ result = heap_get_start_block(table, want)
        \/ result < 0 /\ heap_get_start_block(table, want) = NoBlock

(* The search returns. *)
Terminates == <>(pc = "returned")

-----------------------------------------------------------------------------
(* The loop invariant: the current run, its left neighbour, and no         *)
(* sufficient run to the left of at.                                       *)
RunEnd == IF pc = "loop" THEN at ELSE IF bc = want /\ want > 0 THEN at + 1 ELSE at

Run ==
    /\ (bs = -1) <=> (bc = 0)
    /\ bs # -1 => /\ bs + bc = RunEnd
                  /\ \A j \in bs .. RunEnd - 1 : IsFree(table, j)
                  /\ bs > 0 => ~IsFree(table, bs - 1)
    /\ bs = -1 => (RunEnd > 0 => ~IsFree(table, RunEnd - 1))

NoEarlierRun ==
    /\ pc = "loop" /\ want > 0 => bc < want
    /\ RunEnd <= Total
    /\ pc # "loop" => at = Total \/ (bc = want /\ want > 0)
    /\ \A s \in Blocks :
          s \in FreeRuns(table, want) /\ want > 0 /\ s + want <= RunEnd
              => bc = want /\ s = bs /\ pc # "loop"

LoopInv == ScanTypeOK /\ Run /\ NoEarlierRun
=============================================================================
