------------------------------ MODULE HeapTable ------------------------------
(***************************************************************************)
(* The block table of memory/heap/heap.c: one byte of flags per block, and *)
(* what the routines that search, mark and walk it compute.  A pointer     *)
(* into the heap is the index of the block it addresses                    *)
(* (heap_block_to_address and heap_address_to_block are a bijection on     *)
(* block-aligned addresses), and NULL is NoBlock.                          *)
(***************************************************************************)
EXTENDS Integers, FiniteSets

CONSTANTS
    Total,        \* heap_table.total: the blocks of the heap
    BlockSize,    \* VIOS_HEAP_BLOCK_SIZE, in bytes
    Slack         \* bytes modelled past the end of the table

ASSUME TableAssumption ==
    /\ Total \in Nat \ {0}
    /\ BlockSize \in Nat \ {0}
    /\ Slack \in Nat

(* The bits of a table entry; HEAP_BLOCK_TABLE_ENTRY_FREE is no bit set.   *)

TAKEN == "HEAP_BLOCK_TABLE_ENTRY_TAKEN"
HAS_NEXT == "HEAP_BLOCK_HAS_NEXT"
IS_FIRST == "HEAP_BLOCK_IS_FIRST"
Flags == {TAKEN, HAS_NEXT, IS_FIRST}

Blocks == 0 .. Total - 1
Memory == 0 .. Total + Slack - 1

NoBlock == -1

heap_align_value_to_upper(val) ==
    IF val % BlockSize = 0 THEN val ELSE (val - (val % BlockSize)) + BlockSize

BlocksFor(size) == heap_align_value_to_upper(size) \div BlockSize

IsFree(e, i) == TAKEN \notin e[i]

-----------------------------------------------------------------------------
(* heap_get_start_block: the scan returns the lowest run of n free blocks. *)
(* A request of no block always fails: bc is 0 only where bs is -1.        *)

(* Fault: the run is tested one block short. *)
FaultRunsShort(e, n) ==
    {s \in Blocks : s + n <= Total /\ \A i \in s .. s + n - 2 : IsFree(e, i)}

FreeRuns(e, n) ==
    {s \in Blocks : s + n <= Total /\ \A i \in s .. s + n - 1 : IsFree(e, i)}

heap_get_start_block(e, n) ==
    IF n = 0 \/ FreeRuns(e, n) = {}
    THEN NoBlock
    ELSE CHOOSE s \in FreeRuns(e, n) : \A t \in FreeRuns(e, n) : s <= t

(* heap_mark_blocks_taken.  The flag for block i + 1 is decided by the test *)
(* i != end_block, so that the last block of a run of two or more carries  *)
(* HAS_NEXT as well.                                                       *)
heap_mark_blocks_taken(e, s, n) ==
    [i \in DOMAIN e |->
        IF i = s THEN {TAKEN, IS_FIRST} \cup (IF n > 1 THEN {HAS_NEXT} ELSE {})
        ELSE IF i \in s + 1 .. s + n - 1 THEN {TAKEN, HAS_NEXT}
        ELSE e[i]]

(* Fault: the walk stops one block late. *)
FaultChainEndLate(e, s) ==
    LET stops == {i \in s .. Total - 1 : i > s /\ HAS_NEXT \notin e[i]}
    IN  IF stops = {} THEN Total - 1
        ELSE CHOOSE i \in stops : \A j \in stops : i <= j

(* The last block that a walk from block s reaches: the first entry        *)
(* without HAS_NEXT, or the end of the table.                              *)
ChainEnd(e, s) ==
    LET stops == {i \in s .. Total - 1 : HAS_NEXT \notin e[i]}
    IN  IF stops = {} THEN Total - 1
        ELSE CHOOSE i \in stops : \A j \in stops : i <= j

heap_allocation_block_count(e, s) ==
    Cardinality({i \in s .. ChainEnd(e, s) : ~IsFree(e, i)})

(* Fault: the first block of the chain stays taken. *)
FaultMarkFreeKeepsFirst(e, s) ==
    [i \in DOMAIN e |-> IF i \in s + 1 .. ChainEnd(e, s) THEN {} ELSE e[i]]

heap_mark_blocks_free(e, s) ==
    [i \in DOMAIN e |-> IF i \in s .. ChainEnd(e, s) THEN {} ELSE e[i]]

BlocksFreed(e, s) == ChainEnd(e, s) - s + 1

(* Fault: only the first block of the range is tested. *)
FaultRangeFree(e, s, t) == IsFree(e, s)

(* heap_is_block_range_free tests whatever bytes lie in the range: nothing *)
(* compares the range with the end of the table.                           *)
heap_is_block_range_free(e, s, t) == \A i \in s .. t : IsFree(e, i)
=============================================================================
