------------------------------- MODULE Process -------------------------------
(***************************************************************************)
(* What a process owns, of task/process.c and the system calls over it     *)
(* (isr80h/heap.c, isr80h/file.c): memory from the kernel's heaps, mapped  *)
(* into the process's page tables, and file handles over the kernel's file *)
(* table.  System calls run to their end before another one starts, in any *)
(* order of the processes.                                                 *)
(*                                                                         *)
(* held is what a program believes it owns: each pointer it was given and  *)
(* not yet freed, with its size.  loose are the frames that a resize gave  *)
(* back to the heap, took without their being free, or dropped from the    *)
(* records, and those that a free missed for a record that a resize left   *)
(* behind: what heap_realloc does to its neighbours is the subject of      *)
(* Heap.  These two, and starved, are not in the code.                     *)
(***************************************************************************)
EXTENDS MultiHeap, FileTable

CONSTANTS
    Procs,          \* the processes
    ProgramPage,    \* VIOS_PROGRAM_VIRTUAL_ADDRESS, as a page
    StackPage,      \* VIOS_PROGRAM_VIRTUAL_STACK_ADDRESS_END, as a page
    ProgramSize,    \* the bytes of a program
    StackSize,      \* VIOS_USER_PROGRAM_STACK_SIZE, in bytes
    MallocSizes,    \* the sizes that programs ask malloc for
    ReallocSizes,   \* the sizes that programs ask realloc for
    AreaSizes,      \* the sizes that the kernel asks kpalloc for
    ProgramPath,    \* the path of a program
    Paths, Modes,   \* what programs pass to fopen
    MaxRecords,     \* bound on the records of a process
    MaxLoose        \* bound: no more resizes once so many frames are loose

PagesOf(ptr, size) == ptr .. ptr + BlocksFor(size) - 1

(* The pages of a heap, with those that the entries past its table stand   *)
(* for.                                                                    *)
Reach(h) == h.saddr .. Eaddr(h) + Slack - 1

(* A program is no larger than a stack: one that is, and finds no memory   *)
(* where the stack still does, is read to address 0 by elf_load, which is  *)
(* not in the model.  Extensions stay in the modelled table.  Program and  *)
(* stack have their own pages, away from the heaps.                        *)
ASSUME ProcessAssumption ==
    /\ ProgramSize \in Nat /\ StackSize \in Nat /\ ProgramSize <= StackSize
    /\ ProgramPage \in Nat /\ StackPage \in Nat
    /\ MallocSizes \subseteq Nat /\ ReallocSizes \subseteq Nat /\ AreaSizes \subseteq Nat
    /\ \A size \in ReallocSizes : BlocksFor(size) <= Slack
    /\ PagesOf(ProgramPage, ProgramSize) \subseteq Pages
    /\ PagesOf(StackPage, StackSize) \subseteq Pages \ PagesOf(ProgramPage, ProgramSize)
    /\ Reach(MinimalHeap({})) \subseteq
          Pages \ (PagesOf(ProgramPage, ProgramSize) \cup PagesOf(StackPage, StackSize))
    /\ ProgramPath.file # NoFile /\ \A path \in Paths : path.file # NoFile

VARIABLES
    region,           \* the region that the loop of kheap_init is at
    mh,               \* kernel_multiheap
    areas,            \* the areas that kpalloc gave to the kernel
    proc,             \* the processes: Dead, or what process.h says of them
    file_descriptors, \* the table of fs/file.c
    loose,            \* frames that a resize let go of
    starved,          \* a handle was not removed for want of memory
    panic             \* what stopped the kernel, or "none"

vars == <<region, mh, areas, proc, file_descriptors, loose, starved, panic>>
memory == <<region, mh, areas, loose, starved>>

-----------------------------------------------------------------------------
Dead == [alive |-> FALSE]

NoRecord == [ptr |-> NULL, size |-> 0]

Alive == {p \in Procs : proc[p].alive}

Init ==
    \E past \in {{}, {"HEAP_BLOCK_TABLE_ENTRY_TAKEN"}} :
        /\ region = 1
        /\ mh = StartingHeaps(past)
        /\ areas = {}
        /\ proc = [p \in Procs |-> Dead]
        /\ file_descriptors = NoFiles
        /\ loose = {} /\ starved = FALSE
        /\ panic = "none"

-----------------------------------------------------------------------------
(* The records of a process's allocations (process->allocations).          *)

RecordsOf(allocations, ptr) == {i \in DOMAIN allocations : allocations[i].ptr = ptr}

(* process_find_free_allocation_index: a record that was freed, or a new   *)
(* one at the end.                                                         *)
FreeIndex(allocations) ==
    IF RecordsOf(allocations, NULL) = {}
    THEN Len(allocations) + 1
    ELSE Min(RecordsOf(allocations, NULL))

process_allocation_set_map(pr, index, ptr, size) ==
    [pr EXCEPT
        !.dir = paging_map_to(pr.dir, ptr, ptr, ptr + BlocksFor(size), UserFlags),
        !.allocations =
            IF index > Len(pr.allocations)
            THEN Append(pr.allocations, [ptr |-> ptr, size |-> size])
            ELSE [pr.allocations EXCEPT ![index] = [ptr |-> ptr, size |-> size]]]

(* process_malloc: what becomes of process pr when ptr was found for it. *)
Allocated(pr, ptr, size) ==
    [process_allocation_set_map(pr, FreeIndex(pr.allocations), ptr, size)
        EXCEPT !.held = @ \cup {[ptr |-> ptr, size |-> size]}]

process_malloc(p, size) ==
    LET r == multiheap_alloc(mh, size)
    IN  /\ FreeIndex(proc[p].allocations) <= MaxRecords
        /\ mh' = r.mh
        /\ proc' = IF r.ptr = NULL
                   THEN proc
                   ELSE [proc EXCEPT ![p] = Allocated(@, r.ptr, size)]
        /\ UNCHANGED <<region, areas, loose, starved, file_descriptors, panic>>

(* Fault: the pages of a freed allocation stay as they are. *)
FaultUnmapped(pr, a) == pr.dir

(* process_free unmaps what the record says. *)
Unmapped(pr, a) ==
    paging_map_to(pr.dir, a.ptr, a.ptr, a.ptr + BlocksFor(a.size), {})

(* process_free of a pointer that the program holds: the first record with *)
(* it says what to unmap, every record with it is cleared, and the empty   *)
(* kfree leaves the blocks taken.  Without a record nothing happens.       *)
process_free(p, a) ==
    LET pr     == proc[p]
        is     == RecordsOf(pr.allocations, a.ptr)
        record == IF is = {} THEN NoRecord ELSE pr.allocations[Min(is)]
    IN  /\ a \in pr.held
        /\ proc' = [proc EXCEPT ![p] =
                [pr EXCEPT
                    !.held = @ \ {a},
                    !.dir = Unmapped(pr, record),
                    !.allocations = [i \in DOMAIN @ |-> IF i \in is THEN NoRecord ELSE @[i]]]]
        /\ loose' = loose \cup (PagesOf(a.ptr, a.size) \ PagesOf(record.ptr, record.size))
        /\ UNCHANGED <<region, mh, areas, starved, file_descriptors, panic>>

(* process_allocation_exists: without a match the last vector_at decides,  *)
(* so that any record at all makes the search succeed, with index 0.       *)
FoundIndex(allocations, ptr) ==
    IF RecordsOf(allocations, ptr) = {} THEN 1 ELSE Min(RecordsOf(allocations, ptr))

(* The frames that a step from mh to r.mh lets go of, or takes although    *)
(* they were neither free nor the caller's own.                            *)
LetGo(old, r, size) ==
    LET before == TakenFrames(mh)
        after  == TakenFrames(r.mh)
        got    == IF r.ptr = NULL THEN {} ELSE PagesOf(r.ptr, size)
    IN  (before \ after) \cup (got \ (old \cup (after \ before)))

(* process_realloc of a pointer that the program holds, or of NULL.  The   *)
(* old pages stay mapped; a size of 0 frees the memory and leaves the      *)
(* record.                                                                 *)
process_realloc(p, a, size) ==
    LET pr    == proc[p]
        index == FoundIndex(pr.allocations, a.ptr)
        phys  == IF a.ptr = NULL THEN NULL ELSE paging_get_physical_address(pr.dir, a.ptr)
        r     == multiheap_realloc(mh, phys, size)
        lost  == pr.allocations[index]
    IN  /\ a \in pr.held \cup {NoRecord}
        /\ Cardinality(loose) < MaxLoose
        /\ pr.allocations # <<>>
        /\ a.ptr = NULL \/ phys # NULL
        /\ mh' = r.mh
        /\ proc' = [proc EXCEPT ![p] =
              IF r.ptr = NULL
              THEN [pr EXCEPT !.held = IF size = 0 THEN @ \ {a} ELSE @]
              ELSE [process_allocation_set_map(pr, index, r.ptr, size)
                       EXCEPT !.held = (@ \ {a}) \cup {[ptr |-> r.ptr, size |-> size]}]]
        /\ loose' = loose \cup LetGo(PagesOf(a.ptr, a.size), r, size)
                          \cup (IF r.ptr # NULL /\ lost.ptr # a.ptr THEN PagesOf(lost.ptr, lost.size) ELSE {})
        /\ UNCHANGED <<region, areas, starved, file_descriptors, panic>>

(* process_realloc gives up: there is no record at all, or paging_get does *)
(* not find the page.                                                      *)
ReallocFails(p, a) ==
    /\ a \in proc[p].held \cup {NoRecord}
    /\ \/ proc[p].allocations = <<>>
       \/ a.ptr # NULL /\ paging_get_physical_address(proc[p].dir, a.ptr) = NULL
    /\ UNCHANGED vars

-----------------------------------------------------------------------------
(* File handles (process->file_handles).                                   *)

(* process_fopen: a handle, which is memory of the kernel that is never    *)
(* given back, or the file closed again when there is no memory for one.   *)
process_fopen(p, path, mode) ==
    \E r \in fopen(file_descriptors, path, mode) :
        LET handle == multiheap_alloc(mh, PageSize)
        IN  /\ panic' = r.panic
            /\ \/ /\ r.fd = 0
                  /\ UNCHANGED <<mh, file_descriptors, proc>>
               \/ /\ r.fd # 0 /\ handle.ptr = NULL
                  /\ file_descriptors' = fclose(r.table, r.fd)
                  /\ UNCHANGED <<mh, proc>>
               \/ /\ r.fd # 0 /\ handle.ptr # NULL
                  /\ mh' = handle.mh
                  /\ file_descriptors' = r.table
                  /\ proc' = [proc EXCEPT ![p].handles = Append(@, [fd |-> r.fd, file |-> path.file])]
            /\ UNCHANGED <<region, areas, loose, starved>>

(* process_file_handle_get *)
HandlesOf(handles, fd) == {i \in DOMAIN handles : handles[i].fd = fd}

(* Fault: the handle stays when the file is closed. *)
FaultWithoutHandle(handles, fd) == handles

WithoutHandle(handles, fd) == RemoveAt(handles, Min(HandlesOf(handles, fd)))

(* process_fclose: the file is closed and the handle removed, for which    *)
(* vector_pop_element takes a block that it never gives back; without one  *)
(* the handle stays.                                                       *)
process_fclose(p, fd) ==
    LET buffer == multiheap_alloc(mh, PageSize)
    IN  /\ HandlesOf(proc[p].handles, fd) # {}
        /\ file_descriptors' = fclose(file_descriptors, fd)
        /\ mh' = buffer.mh
        /\ IF buffer.ptr = NULL
           THEN starved' = TRUE /\ UNCHANGED proc
           ELSE proc' = [proc EXCEPT ![p].handles = WithoutHandle(@, fd)] /\ UNCHANGED starved
        /\ UNCHANGED <<region, areas, loose, panic>>

(* Fault: the first handle is not closed. *)
FaultClosedAll(t, handles) ==
    [fd \in DOMAIN t |->
        IF \E i \in DOMAIN handles : i > 1 /\ handles[i].fd = fd /\ fd < MaxFd THEN NoFile ELSE t[fd]]

(* process_close_file_handles *)
ClosedAll(t, handles) ==
    [fd \in DOMAIN t |->
        IF \E i \in DOMAIN handles : handles[i].fd = fd /\ fd < MaxFd THEN NoFile ELSE t[fd]]

-----------------------------------------------------------------------------
(* Buffers that programs pass (process_validate_memory_or_terminate).      *)

InRecord(a, addr) == addr \in a.ptr * PageSize .. a.ptr * PageSize + a.size

(* Fault: the bytes between the address and the end, as one would expect. *)
FaultBytesLeft(a, addr) == (a.ptr * PageSize + a.size) - addr

(* process_get_allocation_by_addr subtracts the bytes before the address   *)
(* from the end address.                                                   *)
BytesLeft(a, addr) == (a.ptr * PageSize + a.size) - (addr - a.ptr * PageSize)

(* process_get_allocation_by_addr and the comparison with what is needed.  *)
(* The first record that the address lies in decides, its end included.    *)
Valid(pr, addr, needed) ==
    LET in == {i \in DOMAIN pr.allocations : InRecord(pr.allocations[i], addr)}
        stack == StackPage * PageSize .. StackPage * PageSize + StackSize
    IN  IF addr \in stack
        THEN StackPage * PageSize + StackSize - addr >= needed
        ELSE in # {} /\ BytesLeft(pr.allocations[Min(in)], addr) >= needed

(* Counting the ends in does no harm where the heap does not reach the     *)
(* page behind the stack, and no piece is longer than the memory below the *)
(* heap: the record whose end is the address has that many bytes too many  *)
(* left.                                                                   *)
EndsHarmless ==
    /\ StackPage + BlocksFor(StackSize) \notin Reach(MinimalHeap({}))
    /\ \A size \in MallocSizes \cup ReallocSizes : size <= MinimalHeap({}).saddr * PageSize

(* process_terminate: the records and the page tables go with the process, *)
(* the handles are closed, and no block is given back since kfree is       *)
(* empty.  Without another process the kernel stops before it frees.       *)
process_terminate(p) ==
    IF Alive = {p}
    THEN /\ panic' = "no_process_left"
         /\ UNCHANGED <<memory, proc, file_descriptors>>
    ELSE /\ file_descriptors' = ClosedAll(file_descriptors, proc[p].handles)
         /\ proc' = [proc EXCEPT ![p] = Dead]
         /\ UNCHANGED <<memory, panic>>

(* process_fread and process_fstat: an accepted buffer is written to,      *)
(* which is the file system's part, any other ends the process.  Only the  *)
(* first looks for a handle.                                               *)
process_fread(p, fd, addr, size) ==
    /\ HandlesOf(proc[p].handles, fd) # {}
    /\ IF Valid(proc[p], addr, size) THEN UNCHANGED vars ELSE process_terminate(p)

process_fstat(p, addr) ==
    IF Valid(proc[p], addr, 1) THEN UNCHANGED vars ELSE process_terminate(p)

Buffers(p) == {NULL} \cup {a.ptr * PageSize : a \in proc[p].held}

-----------------------------------------------------------------------------
(* The kernel's own memory, and loading (process_load_for_slot).           *)

(* A turn of the loop of kheap_init, before anything else runs. *)
kheap_init ==
    /\ region <= Len(Regions)
    /\ mh' = WithRegion(mh, region)
    /\ region' = region + 1
    /\ UNCHANGED <<areas, loose, starved, proc, file_descriptors, panic>>

Ready == region > Len(Regions)

(* process_map_memory: all memory for the kernel, then program and stack   *)
(* for the program.                                                        *)
LoadedDirectory(image, stack) ==
    paging_map_to(
        paging_map_to(paging_map_e820_memory_regions(paging_desc_new),
                      ProgramPage, image, image + BlocksFor(ProgramSize), UserFlags),
        StackPage, stack, stack + BlocksFor(StackSize), UserFlags)

(* elf_load opens the program's file, finds its size, reads and closes it: *)
(* a file that got the last descriptor has no size and stays open.  When   *)
(* there is no memory for the stack, that of the image stays taken.        *)
process_load(p) ==
    LET image == multiheap_alloc(mh, ProgramSize)
        stack == multiheap_alloc(image.mh, StackSize)
    IN  \E r \in fopen(file_descriptors, ProgramPath, "r") :
        /\ proc[p] = Dead
        /\ panic' = r.panic
        /\ file_descriptors' = fclose(r.table, r.fd)
        /\ \/ /\ ~file_get_descriptor(r.table, r.fd)
              /\ UNCHANGED <<mh, proc>>
           \/ /\ file_get_descriptor(r.table, r.fd)
              /\ image.ptr = NULL \/ stack.ptr = NULL
              /\ mh' = image.mh
              /\ UNCHANGED proc
           \/ /\ file_get_descriptor(r.table, r.fd)
              /\ image.ptr # NULL /\ stack.ptr # NULL
              /\ mh' = stack.mh
              /\ proc' = [proc EXCEPT ![p] =
                    [alive       |-> TRUE,
                     dir         |-> LoadedDirectory(image.ptr, stack.ptr),
                     allocations |-> <<>>,
                     handles     |-> <<>>,
                     held        |-> {}]]
        /\ UNCHANGED <<region, areas, loose, starved>>

(* kpalloc, for vector_new: without memory the kernel stops. *)
kpalloc(size) ==
    LET r == multiheap_palloc(mh, size)
    IN  /\ mh' = r.mh
        /\ panic' = r.panic
        /\ areas' = IF r.panic = "none" THEN areas \cup {[ptr |-> r.ptr, size |-> size]} ELSE areas
        /\ UNCHANGED <<region, loose, starved, proc, file_descriptors>>

-----------------------------------------------------------------------------
(* The system calls on memory (isr80h/heap.c) and on files (isr80h/file.c) *)
(* of a running process.                                                   *)
HeapCall(p) ==
    \/ \E size \in MallocSizes : process_malloc(p, size)
    \/ \E a \in proc[p].held : process_free(p, a)
    \/ \E a \in proc[p].held \cup {NoRecord} :
          \/ \E size \in ReallocSizes : process_realloc(p, a, size)
          \/ ReallocFails(p, a)

FileCall(p) ==
    \/ \E path \in Paths, mode \in Modes : process_fopen(p, path, mode)
    \/ \E fd \in 1 .. MaxFd :
          \/ process_fclose(p, fd)
          \/ \E addr \in Buffers(p) : process_fread(p, fd, addr, 1)
    \/ \E addr \in Buffers(p) : process_fstat(p, addr)

Next ==
    /\ panic = "none"
    /\ \/ kheap_init
       \/ Ready /\ \E p \in Procs : process_load(p)
       \/ Ready /\ \E size \in AreaSizes : kpalloc(size)
       \/ Ready /\ \E p \in Alive : HeapCall(p) \/ FileCall(p) \/ process_terminate(p)

Spec == Init /\ [][Next]_vars

-----------------------------------------------------------------------------
(* Properties.                                                             *)

(* Every piece of memory that somebody uses, with the frames behind it. *)
Chunks ==
    LET Chunk(owner, what, dir, ptr, size) ==
            [owner |-> owner, what |-> what, ptr |-> ptr, pages |-> BlocksFor(size),
             frames |-> {dir[v].frame : v \in PagesOf(ptr, size)}]
    IN  (UNION {{Chunk(p, "program", proc[p].dir, ProgramPage, ProgramSize),
                 Chunk(p, "stack", proc[p].dir, StackPage, StackSize)} \cup
                {Chunk(p, "malloc", proc[p].dir, a.ptr, a.size) : a \in proc[p].held} : p \in Alive})
        \cup {Chunk("kernel", "area", KernelDirectory, a.ptr, a.size) : a \in areas}

(* No two pieces of memory share a frame, all of them are taken from a     *)
(* heap, and each has a frame for every page, whichever of process_malloc, *)
(* process_realloc, process_load and kpalloc gave them out, in any order;  *)
(* only what a resize let go of may be shared.                             *)
FramesApart ==
    /\ \A c, d \in Chunks : c # d => c.frames \cap d.frames \subseteq loose
    /\ \A c \in Chunks : c.frames \subseteq TakenFrames(mh) \cup loose
    /\ \A c \in Chunks : Cardinality(c.frames) = c.pages

(* A process reaches no memory but its own program, stack and allocations: *)
(* process_free takes the pages back that process_malloc opened.           *)
UserMapsOwn ==
    \A p \in Alive :
        {proc[p].dir[v].frame : v \in {w \in Pages : USER \in proc[p].dir[w].flags}}
            \subseteq (UNION {c.frames : c \in {d \in Chunks : d.owner = p}}) \cup loose

Intact(p) == {a \in proc[p].held : PagesOf(a.ptr, a.size) \cap loose = {}}

(* Memory that a program holds is usable: each page is mapped to itself    *)
(* for reading and writing; any part of it may be passed to a system call, *)
(* since process_validate_memory_or_terminate, which ends the process      *)
(* otherwise, accepts it; and the kernel finds the page in the tables,     *)
(* wherever the memory map fills the first entry of each of them.          *)
HeldUsable ==
    \A p \in Alive : \A a \in Intact(p) :
        /\ \A o \in 0 .. a.size - 1 : Valid(proc[p], a.ptr * PageSize + o, a.size - o)
        /\ \A v \in PagesOf(a.ptr, a.size) :
              /\ proc[p].dir[v] = [frame |-> v, flags |-> UserFlags]
              /\ (\A l \in 1 .. 2 : InUse(KernelDirectory, FirstPage(v, l), l))
                    => paging_get_physical_address(proc[p].dir, v) = v

(* A handle stands for the file that the process opened under that number: *)
(* the descriptor is in use, and nobody else has opened it since, as long  *)
(* as every close found the memory that removing a handle takes.           *)
HandleFits ==
    ~starved => \A p \in Alive : \A i \in DOMAIN proc[p].handles :
        file_descriptors[proc[p].handles[i].fd] = proc[p].handles[i].file

(* No open file is forgotten: each descriptor in use belongs to exactly    *)
(* one handle of one living process, except the last one of the table,     *)
(* which fclose cannot find, and as long as no close was short of memory.  *)
DescriptorsAccounted ==
    ~starved => \A fd \in 1 .. MaxFd - 1 :
        file_descriptors[fd] # NoFile
            => Cardinality({h \in Alive \X (1 .. MaxFd) :
                    h[2] \in DOMAIN proc[h[1]].handles /\ proc[h[1]].handles[h[2]].fd = fd}) = 1
=============================================================================
