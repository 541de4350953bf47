------------------------------ MODULE MultiHeap ------------------------------
(***************************************************************************)
(* The kernel's heaps: memory/heap/multiheap.c over the block heaps of     *)
(* HeapOps, and kheap.c, which sets them up from the memory map.           *)
(*                                                                         *)
(* A heap is [saddr, total, entries, used, free], addresses being page     *)
(* numbers (VIOS_HEAP_BLOCK_SIZE is the page size).  A multiheap is the    *)
(* sequence of its heaps; the first one, the minimal heap, also holds the  *)
(* structures of the multiheap itself.  An operation returns what it       *)
(* leaves behind and the pointer it returns.                               *)
(***************************************************************************)
EXTENDS Paging, SequencesExt

CONSTANTS
    Slack,          \* entries modelled past the end of a heap's table
    Word,           \* the block counters are size_t: they wrap at Word
    MinimumBytes,   \* VIOS_HEAP_MINIMUM_SIZE_BYTES
    TableAddress,   \* VIOS_MINIMAL_HEAP_TABLE_ADDRESS, in bytes
    HeapAddress     \* VIOS_MINIMAL_HEAP_ADDRESS, in bytes

NULL == 0

H(n) == INSTANCE HeapOps WITH Total <- n, BlockSize <- PageSize

Eaddr(h) == h.saddr + h.total

PagesIn(h) == h.saddr .. Eaddr(h) - 1

BlocksFor(size) == UpperPage(size)

With(h, r) == [h EXCEPT !.entries = r.entries, !.used = r.used, !.free = r.free]

-----------------------------------------------------------------------------
(* heap_validate_table: the table has an entry for every block. *)
heap_validate_table(saddr, eaddr, total) == total = eaddr - saddr

(* heap_create, over a table that was found valid; past is what the bytes  *)
(* behind the table hold.                                                  *)
heap_create(saddr, eaddr, past) ==
    [saddr   |-> saddr,
     total   |-> eaddr - saddr,
     entries |-> [i \in 0 .. eaddr - saddr + Slack - 1 |->
                     IF i < eaddr - saddr THEN {} ELSE past],
     used    |-> 0,
     free    |-> eaddr - saddr]

heap_malloc(h, size) ==
    LET n == BlocksFor(size)
        s == H(h.total)!heap_get_start_block(h.entries, n)
    IN  IF s = H(h.total)!NoBlock
        THEN [heap |-> h, ptr |-> NULL]
        ELSE [heap |-> With(h, H(h.total)!AfterMalloc(h, s, n)), ptr |-> h.saddr + s]

heap_free(h, ptr) == With(h, H(h.total)!AfterFree(h, ptr - h.saddr))

(* heap_realloc of a pointer into h. *)
heap_realloc(h, ptr, size) ==
    LET s   == ptr - h.saddr
        n   == BlocksFor(size)
        cur == H(h.total)!heap_allocation_block_count(h.entries, s)
        new == heap_malloc(h, n * PageSize)
        Becomes(r, p) == [heap |-> With(h, r), ptr |-> p]
    IN  CASE size = 0 -> Becomes(H(h.total)!AfterFree(h, s), NULL)
          [] size # 0 /\ cur = n -> Becomes(h, ptr)
          [] size # 0 /\ cur > n -> Becomes(H(h.total)!AfterShrink(h, s, cur, n), ptr)
          [] size # 0 /\ cur < n ->
                IF H(h.total)!heap_is_block_range_free(h.entries, s + cur, s + n - 1)
                THEN Becomes(H(h.total)!AfterExtend(h, s, cur, n), ptr)
                ELSE IF new.ptr = NULL
                THEN Becomes(h, NULL)
                ELSE Becomes(H(h.total)!AfterFree(new.heap, s), new.ptr)

-----------------------------------------------------------------------------
(* kheap_init: the first region that is large enough becomes the minimal   *)
(* heap, behind its own table, which is made to fit.  multiheap_new and    *)
(* multiheap_add_existing_heap take a block of it each.                    *)

MinimalRegion == Min({i \in DOMAIN Regions :
                        Regions[i].end - Regions[i].base > MinimumBytes})

MinimalHeap(past) ==
    LET r      == Regions[MinimalRegion]
        table  == IF r.base < TableAddress THEN TableAddress ELSE r.base
        bytes  == r.end - table
        blocks == (bytes - (bytes \div PageSize)) \div PageSize
    IN  heap_create(UpperPage(table + blocks), LowerPage(r.end), past)

(* heap_zalloc of a structure, all of which are smaller than a block. *)
heap_zalloc(h) == heap_malloc(h, PageSize)

StartingHeaps(past) == <<heap_zalloc(heap_zalloc(MinimalHeap(past)).heap).heap>>

(* The other regions that kheap_init hands to multiheap_add. *)
RegionStart(i) == Max({UpperPage(Regions[i].base), HeapAddress \div PageSize})

OtherRegions ==
    {i \in DOMAIN Regions \ {MinimalRegion} : LowerPage(Regions[i].end) > RegionStart(i)}

(* multiheap_add_heap, before multiheap_ready. *)
multiheap_add_heap(mh, h) ==
    LET node == heap_zalloc(mh[1])
        q    == [mh EXCEPT ![1] = node.heap]
    IN  IF node.ptr = NULL THEN q ELSE Append(q, h)

(* multiheap_add: the table comes from heap_zalloc, with a total of 0, and *)
(* heap and table are given back when heap_create refuses them.            *)
multiheap_add(mh, saddr, eaddr) ==
    LET heap  == heap_zalloc(mh[1])
        table == heap_zalloc(heap.heap)
    IN  IF heap.ptr = NULL \/ table.ptr = NULL
        THEN [mh EXCEPT ![1] = table.heap]
        ELSE IF heap_validate_table(saddr, eaddr, 0)
        THEN multiheap_add_heap([mh EXCEPT ![1] = table.heap], heap_create(saddr, eaddr, {}))
        ELSE [mh EXCEPT ![1] = heap_free(heap_free(table.heap, heap.ptr), table.ptr)]

(* One turn of the loop of kheap_init, for the i-th region. *)
WithRegion(mh, i) ==
    IF i \in OtherRegions
    THEN multiheap_add(mh, RegionStart(i), LowerPage(Regions[i].end))
    ELSE mh

(* Some region is large enough for the minimal heap, behind its table, and *)
(* the first structures find room in it: the kernel stops otherwise.  The  *)
(* heap does not begin at address 0, which is NULL.                        *)
(* heap_is_address_within_heap counts the end in: at least the entry that  *)
(* stands for it is in the model.                                          *)
ASSUME MultiHeapAssumption ==
    /\ Slack \in Nat \ {0}
    /\ Word \in Nat
    /\ MinimumBytes \in Nat
    /\ TableAddress \in Nat \ {0}
    /\ HeapAddress \in Nat /\ HeapAddress >= PageSize
    /\ \E i \in DOMAIN Regions : Regions[i].end - Regions[i].base > MinimumBytes
    /\ Regions[MinimalRegion].end >= TableAddress
    /\ MinimalHeap({}).total >= 2
    /\ \A i \in DOMAIN Regions : Word > 2 * (LowerPage(Regions[i].end) + Slack)

(* The kernel's page tables: multiheap_ready adds nothing to them, since   *)
(* no heap allows paging.                                                  *)
KernelDirectory == paging_map_e820_memory_regions(paging_desc_new)

-----------------------------------------------------------------------------
(* multiheap_alloc_first_pass: the first heap with a run that is long      *)
(* enough.  kmalloc and kzalloc do no more.                                *)
multiheap_alloc(mh, size) ==
    LET fits == {k \in DOMAIN mh : heap_malloc(mh[k], size).ptr # NULL}
        k    == Min(fits)
        r    == heap_malloc(mh[k], size)
    IN  IF fits = {}
        THEN [mh |-> mh, ptr |-> NULL]
        ELSE [mh |-> [mh EXCEPT ![k] = r.heap], ptr |-> r.ptr]

(* multiheap_alloc_second_pass: only the heaps that multiheap_add adds     *)
(* would allow paging, and multiheap_alloc_paging passes over the others.  *)
multiheap_alloc_second_pass == NULL

(* multiheap_palloc, for kpalloc, which stops the kernel without memory. *)
multiheap_palloc(mh, size) ==
    LET r   == multiheap_alloc(mh, size)
        ptr == IF r.ptr = NULL THEN multiheap_alloc_second_pass ELSE r.ptr
    IN  [mh |-> r.mh, ptr |-> ptr, panic |-> IF ptr = NULL THEN "no_memory" ELSE "none"]

(* heap_is_address_within_heap counts the end address in. *)
multiheap_get_heap_for_address(mh, ptr) ==
    {k \in DOMAIN mh : ptr \in mh[k].saddr .. Eaddr(mh[k])}

(* multiheap_realloc of a pointer below the end of all memory. *)
multiheap_realloc(mh, ptr, size) ==
    LET in == multiheap_get_heap_for_address(mh, ptr)
        k  == Min(in)
        r  == heap_realloc(mh[k], ptr, size)
    IN  IF in = {}
        THEN multiheap_alloc(mh, size)
        ELSE [mh |-> [mh EXCEPT ![k] = r.heap], ptr |-> r.ptr]

(* The frames that are marked taken. *)
Taken(h) == {f \in PagesIn(h) : ~H(h.total)!IsFree(h.entries, f - h.saddr)}

TakenFrames(mh) == UNION {Taken(mh[k]) : k \in DOMAIN mh}
=============================================================================
