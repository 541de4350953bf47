------------------------------- MODULE HeapOps -------------------------------
(***************************************************************************)
(* What the operations of memory/heap/heap.c make of a heap: the table of  *)
(* HeapTable with its two block counters.  Heap runs them on behalf of     *)
(* callers, MultiHeap runs them on several heaps.                          *)
(***************************************************************************)
EXTENDS HeapTable

CONSTANT Word     \* the counters are size_t: they wrap at Word (2^64)

ASSUME WordAssumption == Word \in Nat /\ Word > 2 * (Total + Slack)

(* size_t arithmetic: one wrap suffices, since no operation adds or        *)
(* subtracts more than Total + Slack blocks.                               *)
Wrap(x) == IF x < 0 THEN x + Word ELSE IF x >= Word THEN x - Word ELSE x

(* heap_malloc_blocks, after a start block was found. *)
AfterMalloc(h, s, n) ==
    [entries |-> heap_mark_blocks_taken(h.entries, s, n),
     used    |-> Wrap(h.used + n),
     free    |-> Wrap(h.free - n)]

(* Fault: total_blocks_freed counts one block less. *)
FaultFreeUncounted(h, s) ==
    [entries |-> heap_mark_blocks_free(h.entries, s),
     used    |-> Wrap(h.used - (BlocksFreed(h.entries, s) - 1)),
     free    |-> Wrap(h.free + BlocksFreed(h.entries, s))]

(* heap_free: heap_mark_blocks_free with its counter updates. *)
AfterFree(h, s) ==
    [entries |-> heap_mark_blocks_free(h.entries, s),
     used    |-> Wrap(h.used - BlocksFreed(h.entries, s)),
     free    |-> Wrap(h.free + BlocksFreed(h.entries, s))]

(* The shrinking branch of heap_realloc: heap_mark_blocks_free has already *)
(* adjusted both counters when they are adjusted again.                    *)
AfterShrink(h, s, cur, n) ==
    LET f == AfterFree(h, s + n)
    IN  [entries |-> [f.entries EXCEPT ![s + n - 1] = @ \ {HAS_NEXT}],
         used    |-> Wrap(f.used - (cur - n)),
         free    |-> Wrap(f.free + (cur - n))]

(* The extending branch of heap_realloc. *)
AfterExtend(h, s, cur, n) ==
    [entries |->
        [i \in DOMAIN h.entries |->
            IF i = s + cur - 1 THEN h.entries[i] \cup {HAS_NEXT}
            ELSE IF i \in s + cur .. s + n - 2 THEN {TAKEN, HAS_NEXT}
            ELSE IF i = s + n - 1 THEN {TAKEN}
            ELSE h.entries[i]],
     used |-> Wrap(h.used + (n - cur)),
     free |-> Wrap(h.free - (n - cur))]
=============================================================================
