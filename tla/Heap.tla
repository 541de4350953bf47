-------------------------------- MODULE Heap --------------------------------
(***************************************************************************)
(* The block heap of memory/heap/heap.c as its callers see it: the table   *)
(* and the counters of HeapOps, and the operations heap_malloc, heap_free  *)
(* and heap_realloc.                                                       *)
(*                                                                         *)
(* Three variables are not in the code.  held is what the callers believe  *)
(* they own: the pointer each of them was last handed, with the size it    *)
(* asked for.  loose is the part of it that walks along HAS_NEXT have got  *)
(* wrong: blocks that a walk freed although a caller holds them, and       *)
(* blocks that a walk counted to an allocation they do not belong to.      *)
(* paged says that so far nobody was given more than one block, and the    *)
(* table has had no chains.                                                *)
(***************************************************************************)
EXTENDS HeapOps

CONSTANTS
    Callers,      \* the holders of pointers
    MallocSizes,  \* the sizes in bytes that callers ask heap_malloc for
    ReallocSizes  \* the sizes in bytes that callers ask heap_realloc for

ASSUME HeapAssumption ==
    /\ MallocSizes \subseteq Nat
    /\ ReallocSizes \subseteq Nat

VARIABLES
    entries,      \* heap->table->entries, and Slack bytes after them
    used_blocks,  \* heap->used_blocks
    free_blocks,  \* heap->free_blocks
    held,         \* held[c]: the allocation c believes it owns
    loose,        \* held blocks that the table does not vouch for
    paged         \* no allocation has been longer than a block

vars == <<entries, used_blocks, free_blocks, held, loose, paged>>

-----------------------------------------------------------------------------
NULL == [start |-> NoBlock, size |-> 0]

Allocation == [start: Blocks, size: Nat] \cup {NULL}

(* An extension that leaves the table stays in the modelled memory. *)
ASSUME SlackAssumption == \A size \in ReallocSizes : BlocksFor(size) <= Slack

-----------------------------------------------------------------------------
(* A heap as the operations see and leave it. *)
HeapNow == [entries |-> entries, used |-> used_blocks, free |-> free_blocks]

BecomesHeap(h) ==
    /\ entries' = h.entries
    /\ used_blocks' = h.used
    /\ free_blocks' = h.free

BlocksOf(a) == a.start .. a.start + BlocksFor(a.size) - 1

Holders == {c \in Callers : held[c] # NULL}

HeldBlocks == UNION {BlocksOf(held[c]) : c \in Holders}

SingleBlocks == \A c \in Holders : BlocksFor(held[c].size) = 1

(* The history of a step that counted the blocks of miscounted to somebody *)
(* else's allocation.  What nobody holds any more is not loose.            *)
Remember(miscounted) ==
    /\ loose' = {i \in HeldBlocks' : i \in loose \/ i \in miscounted \/ IsFree(entries', i)}
    /\ paged' = (paged /\ SingleBlocks')

-----------------------------------------------------------------------------
(* heap_create on a block-aligned region whose table has the right size.   *)
(* What lies past the table is unknown memory: free-looking or not.        *)
Init ==
    /\ entries \in {e \in [Memory -> {{}, {TAKEN}}] : \A i \in Blocks : e[i] = {}}
    /\ used_blocks = 0
    /\ free_blocks = Total
    /\ held = [c \in Callers |-> NULL]
    /\ loose = {}
    /\ paged = TRUE

heap_malloc(c, size) ==
    LET n == BlocksFor(size)
        s == heap_get_start_block(entries, n)
    IN  /\ held[c] = NULL
        /\ IF s = NoBlock
           THEN UNCHANGED vars
           ELSE /\ BecomesHeap(AfterMalloc(HeapNow, s, n))
                /\ held' = [held EXCEPT ![c] = [start |-> s, size |-> size]]
                /\ Remember({})

heap_free(c) ==
    /\ held[c] # NULL
    /\ BecomesHeap(AfterFree(HeapNow, held[c].start))
    /\ held' = [held EXCEPT ![c] = NULL]
    /\ Remember({})

(* heap_realloc of a pointer the caller holds: a size of 0 frees it, a     *)
(* size of as many blocks keeps it, fewer shrink it in place, more extend  *)
(* it in place or move it.  When no move is possible NULL is returned and  *)
(* the old allocation stays.                                               *)
heap_realloc(c, size) ==
    LET s   == held[c].start
        n   == BlocksFor(size)
        cur == heap_allocation_block_count(entries, s)
        new == heap_get_start_block(entries, n)
        Keep(t) == held' = [held EXCEPT ![c] = [start |-> t, size |-> size]]
        foreign == (s .. s + cur - 1) \ BlocksOf(held[c])
    IN  /\ held[c] # NULL
        /\ \/ /\ size = 0
              /\ BecomesHeap(AfterFree(HeapNow, s))
              /\ held' = [held EXCEPT ![c] = NULL]
              /\ Remember({})
           \/ /\ size # 0 /\ cur = n
              /\ Keep(s)
              /\ UNCHANGED <<entries, used_blocks, free_blocks>>
              /\ Remember(foreign)
           \/ /\ size # 0 /\ cur > n
              /\ BecomesHeap(AfterShrink(HeapNow, s, cur, n))
              /\ Keep(s)
              /\ Remember(foreign)
           \/ /\ size # 0 /\ cur < n
              /\ heap_is_block_range_free(entries, s + cur, s + n - 1)
              /\ BecomesHeap(AfterExtend(HeapNow, s, cur, n))
              /\ Keep(s)
              /\ Remember(foreign)
           \/ /\ size # 0 /\ cur < n
              /\ ~heap_is_block_range_free(entries, s + cur, s + n - 1)
              /\ new = NoBlock
              /\ UNCHANGED vars
           \/ /\ size # 0 /\ cur < n
              /\ ~heap_is_block_range_free(entries, s + cur, s + n - 1)
              /\ new # NoBlock
              /\ BecomesHeap(AfterFree(AfterMalloc(HeapNow, new, n), s))
              /\ Keep(new)
              /\ Remember({})

Next ==
    \E c \in Callers :
        \/ \E size \in MallocSizes : heap_malloc(c, size)
        \/ heap_free(c)
        \/ \E size \in ReallocSizes : heap_realloc(c, size)

Spec == Init /\ [][Next]_vars

-----------------------------------------------------------------------------
(* Properties.                                                             *)

TypeOK ==
    /\ entries \in [Memory -> SUBSET Flags]
    /\ used_blocks \in 0 .. Word - 1
    /\ free_blocks \in 0 .. Word - 1
    /\ held \in [Callers -> Allocation]
    /\ loose \subseteq HeldBlocks
    /\ paged \in BOOLEAN

TakenBlocks == {i \in Blocks : ~IsFree(entries, i)}

Disjoint ==
    \A c, d \in Holders : c # d => BlocksOf(held[c]) \cap BlocksOf(held[d]) = {}

HeldIsTaken == \A c \in Holders : BlocksOf(held[c]) \subseteq TakenBlocks

Accounting ==
    /\ used_blocks = Cardinality(TakenBlocks)
    /\ free_blocks = Total - Cardinality(TakenBlocks)

NoLeak == \A i \in TakenBlocks : \E c \in Holders : i \in BlocksOf(held[c])

(* While allocations are single blocks no block is handed to two callers   *)
(* at once: heap_malloc and heap_realloc give out only blocks nobody       *)
(* holds.                                                                  *)
PagesDisjoint == paged => Disjoint

(* While allocations are single blocks every block a caller holds lies in  *)
(* the heap and is marked taken, so that the next scan of                  *)
(* heap_get_start_block cannot find it.                                    *)
PagesTaken == paged => HeldIsTaken

(* While allocations are single blocks used_blocks and free_blocks say     *)
(* what the table says (heap_total_used).                                  *)
PagesCounted == paged => Accounting

(* While allocations are single blocks nothing is leaked: a block marked   *)
(* taken is held by some caller.                                           *)
PagesKept == paged => NoLeak

(* Whatever sizes are asked for, and however far the walks went before,    *)
(* two callers share a block only if a walk of heap_mark_blocks_free let   *)
(* it go while it was held, or a walk of heap_allocation_block_count took  *)
(* it for a part of another allocation: no search and no test of a range   *)
(* gives away what the table shows as taken.                               *)
Apart ==
    \A c, d \in Holders : c # d => BlocksOf(held[c]) \cap BlocksOf(held[d]) \subseteq loose

(* An operation of one caller never frees a block that another caller      *)
(* holds: freeing stops at "the current allocations end" (heap.c:309).     *)
FreesOwnBlocksOnly ==
    [][\A c \in Callers :
          held'[c] = held[c] /\ held[c] # NULL
              => \A i \in BlocksOf(held[c]) : TAKEN \in entries[i] => TAKEN \in entries'[i]]_vars

(* A caller is never handed a block that the table showed as taken by      *)
(* someone else when the call was made.                                    *)
FreshBlocks ==
    [][\A c \in Callers :
          held[c] = NULL /\ held'[c] # NULL
              => \A i \in BlocksOf(held'[c]) : IsFree(entries, i) /\ ~IsFree(entries', i)]_vars

=============================================================================
