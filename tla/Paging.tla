------------------------------- MODULE Paging -------------------------------
(***************************************************************************)
(* The page tables of memory/paging/paging.c.  A directory (struct         *)
(* paging_desc) is a function from page numbers to leaf entries; the       *)
(* tables of the three upper levels exist wherever a page below them was   *)
(* ever mapped, which is when paging_map allocates them.                   *)
(***************************************************************************)
EXTENDS Integers, Sequences, FiniteSets

CONSTANTS
    PageSize,     \* PAGING_PAGE_SIZE, in bytes
    PerTable,     \* PAGING_TOTAL_ENTRIES_PER_TABLE
    Pages,        \* the pages of the address space
    LowPages,     \* the pages below 0x100000, mapped before the regions
    Regions       \* the e820 entries of type 1: [base, end] in bytes

(* The usable regions of the memory map do not overlap. *)
ASSUME PagingAssumption ==
    /\ PageSize \in Nat \ {0}
    /\ Pages \subseteq Nat /\ IsFiniteSet(Pages)
    /\ LowPages \in Nat
    /\ Regions \in Seq([base : Nat, end : Nat])
    /\ \A i, j \in DOMAIN Regions :
          i # j => Regions[i].end <= Regions[j].base \/ Regions[j].end <= Regions[i].base

PRESENT == "PAGING_IS_PRESENT"
WRITEABLE == "PAGING_IS_WRITEABLE"
USER == "PAGING_ACCESS_FROM_ALL"

KernelFlags == {PRESENT, WRITEABLE}
UserFlags == {PRESENT, WRITEABLE, USER}

(* An entry of zeros, for which paging_null_entry holds. *)
NullEntry == [frame |-> 0, flags |-> {}]

paging_desc_new == [p \in Pages |-> NullEntry]

(* paging_align_address and paging_align_to_lower_page, as page numbers. *)
UpperPage(addr) == (addr + PageSize - 1) \div PageSize
LowerPage(addr) == addr \div PageSize

-----------------------------------------------------------------------------
(* paging_map: the entry is overwritten, whatever it held. *)
paging_map(d, virt, phys, flags) ==
    [d EXCEPT ![virt] = [frame |-> phys, flags |-> flags]]

(* paging_map_to, with paging_map_range: the pages up to phys_end. *)
paging_map_to(d, virt, phys, phys_end, flags) ==
    [p \in Pages |->
        IF p \in virt .. virt + (phys_end - phys) - 1
        THEN [frame |-> phys + (p - virt), flags |-> flags]
        ELSE d[p]]

(* paging_map_e820_memory_regions: low memory and the whole pages of every *)
(* usable region, each to itself, for the kernel only.                     *)
RegionPages(r) == UpperPage(r.base) .. LowerPage(r.end) - 1

paging_map_e820_memory_regions(d) ==
    [p \in Pages |->
        IF p < LowPages \/ \E i \in DOMAIN Regions : p \in RegionPages(Regions[i])
        THEN [frame |-> p, flags |-> KernelFlags]
        ELSE d[p]]

-----------------------------------------------------------------------------
(* The entry for page p in its table of level l is in use: level 1 is the  *)
(* page directory, 2 the directory pointers, 3 the root.                   *)
Covers(p, l) == {q \in Pages : q \div PerTable^l = p \div PerTable^l}

InUse(d, p, l) == \E q \in Covers(p, l) : d[q] # NullEntry

(* The first page that the table of level l which holds p's entry covers.  *)
FirstPage(p, l) == p - (p % PerTable^(l + 1))

(* paging_get follows p's entries, and gives up as well where the first    *)
(* entry of a table of directory pointers or of a directory is null.       *)
paging_get_finds(d, p) ==
    /\ \A l \in 1 .. 3 : InUse(d, p, l)
    /\ \A l \in 1 .. 2 : InUse(d, FirstPage(p, l), l)

(* paging_get_physical_address, of a page: 0 is NULL. *)
paging_get_physical_address(d, p) ==
    IF paging_get_finds(d, p) THEN d[p].frame ELSE 0
=============================================================================
