# ViOS in TLA+

ViOS is a 64-bit x86 kernel: a boot path, a block heap, paging, tasks and
processes with system calls, PS/2 keyboard and mouse drivers, an ATA disk with
partitions, FAT16, an ELF loader and a window system. This directory models its
core in TLA+, checks the models with TLC on small instances and proves the
central facts with TLAPS for every instance. Source paths below are relative to
`src/ViOS64Bit/src/`.

## 1. The system: components, state, operations

| component | state | operations | what is hard | correct means |
|---|---|---|---|---|
| block heap (`memory/heap/heap.c`) | one flag byte per block, `used_blocks`, `free_blocks` | `heap_malloc`, `heap_free`, `heap_realloc` | chains of flags that must end with the allocation; in-place growth and shrinking; unsigned counters | nobody is handed a block in use; nothing is freed for someone else; counters say what the table says |
| kernel heap facade (`memory/heap/kheap.c`) | the multiheap | `kheap_init`, `kmalloc`, `kzalloc`, `kpalloc`, `krealloc`, `kfree` (empty) | memory is never returned | the same, without frees |
| multiheap (`memory/heap/multiheap.c`) | list of heaps | `multiheap_add`, `multiheap_alloc`, `_palloc`, `_realloc`, `_free`, `_ready` | which heap owns an address; adding a heap allocates from the first one and may be refused half-way | no frame is given out twice, a refused heap leaves nothing behind |
| tasks and processes (`task/`, `isr80h/process.c`, `idt/idt.c`) | doubly linked task list, process table, current task, current process, saved registers | load, invoke, exit, terminate, save and resume | one exit changes five pointers; exits in any order; interrupts during boot | the list is the living tasks; what runs is what is current; registers resume their owner |
| process memory and file handles (`task/process.c`, `isr80h/heap.c`, `isr80h/file.c`) | allocation records, page tables and file handles of every process | malloc, realloc, free, fopen, fclose, fread, fstat, load, terminate | lookups that fail; stale mappings; buffers at the edge of an allocation; release at exit | a program reaches its own memory only and can use all of it; handles and descriptors match |
| keyboard (`keyboard/`) | a ring buffer in every process, caps lock | interrupt handler, `keyboard_push`, `keyboard_pop` | writer and reader act on different processes; overflow | every key once, in order, to the right process |
| mouse (`mouse/`) | packet bytes, position, click and move handlers | interrupt handler, registration | a lost byte; interrupts while the kernel boots | a packet is three or four bytes of one packet; the cursor is where the mouse is |
| vector (`lib/vector/vector.c`) | memory, count, capacity | push, pop, overwrite, at, pop_element, reorder | growth at the exact limit; allocation failure | a list |
| disks, GPT, streamer (`disk/`) | disk list; position of a stream; the drive | seek, read, write | sector boundaries; read-modify-write; errors in the middle | exactly the requested bytes move |
| FAT16 (`fs/fat/fat16.c`) | allocation table, directory, open files | open, read, write, seek, truncate, create | several sectors per operation; chains | files do not share clusters |
| virtual file system (`fs/file.c`, `fs/pparser.c`) | descriptor table, file systems | fopen, fread, fwrite, fclose | table limits | a descriptor is valid from open to close |
| paging (`memory/paging/`) | four levels of tables | map, lookup, switch | partially built tables | lookup returns what was mapped |
| ELF loader (`loader/formats/`) | loaded file | load, validate | address ranges | segments lie in the file |
| interrupts and system calls (`idt/`, `isr80h/`) | callback and command tables | dispatch | page table switch around user pointers | the interrupted task continues |
| windows (`graphics/window.c`) | window list, focused window, window being dragged | create, focus, drag, close | clicks come as interrupts, also inside `window_create`; unsigned 32-bit sizes and 64-bit positions meet in one subtraction | no click leaves a reference to a freed window; a window is on the screen |
| graphics (`graphics/graphics.c`) | tree of surfaces below the screen, z-index of each | create, reorder, hit test, free, dispatch | the order of children is the stacking | the screen's children are the windows' roots, sorted |
| fonts, images, terminal (`graphics/`) | glyphs, pixels, cursor | draw, print | | |
| boot, UEFI loader, GDT, ports, strings, user programs | none that matters | | | |

Interaction: every component allocates through the heap; tables are vectors. A
system call or interrupt enters through `idt.c`, saves the registers in the
current task (Scheduler), and acts on `task_current()->process`; the keyboard
handler acts on `process_current()` instead. Files go down through the
descriptor table, FAT16, the streamer and the disk check to the drive. There is
one processor and interrupt gates keep interrupts off in the kernel, except
while `kernel_main` boots, when they are on: that is the only place where two
activities interleave inside the kernel. The desktop is started in that phase,
so that mouse interrupts meet a window system that is half set up.

`PROJECT.json` lists the hazards of this code with the line where each bites
and the properties that would show it.

## 2. Modules

| module | models | composed of |
|---|---|---|
| `HeapTable` | the flag table and what the routines of `heap.c` that search, mark and walk it compute | |
| `HeapScan` | the loop of `heap_get_start_block`, one step per iteration | extends `HeapTable` |
| `HeapOps` | what each operation of `heap.c` makes of a table and its two counters | extends `HeapTable` |
| `Heap` | the heap in use: `heap_malloc`, `heap_free`, `heap_realloc` on behalf of callers | extends `HeapOps` |
| `HeapProofs` | theorems about `Heap`, `HeapScan` and `Vector` | |
| `Scheduler`, `SchedulerProofs` | task list, process table, kernel entries, start and end of processes, boot | |
| `KeyQueue` | abstract: a queue of keys for each process | |
| `Keyboard`, `KeyboardProofs` | scan codes, ring buffers, `getkey` | implements `KeyQueue` |
| `ElementList` | abstract: a list, and what a failed push does to it | |
| `Vector` | `vector.c` | implements `ElementList` |
| `Streamer`, `StreamerProofs` | seek, read, write over a partition and a drive that may fail | |
| `Fat16`, `Fat16Proofs` | the FAT16 driver: allocation table, root directory, descriptors, every call split at its writes to the drive | |
| `Paging` | page tables as functions from pages to entries: mapping, the memory map, lookup | |
| `MultiHeap`, `MultiHeapProofs` | `multiheap.c` and `kheap_init`: the minimal heap, and the refusal of all other regions | extends `Paging`, instantiates `HeapOps` for each size of heap |
| `FileTable` | `fs/file.c` and what `fs/pparser.c` accepts | |
| `Process`, `ProcessProofs` | memory, page tables and file handles of processes; loading and termination | extends `MultiHeap`, `FileTable` |
| `Ps2Mouse` | the device's bytes and the packet buffer of the interrupt handler | |
| `Desktop`, `DesktopProofs` | mouse handlers, windows, root graphics, and the part of `kernel_main` that starts them | extends `Ps2Mouse` |
| `MC*` | the instances for TLC | |

Definitions keep the names of the C functions. Operators whose name starts with
`Fault` are seeded faults: each is a definition with a plausible mistake in it,
and `PROJECT.json` ("mutants") says which property notices it.

### Heap

A pointer is the index of its block. `entries` is the flag table followed by
`Slack` bytes of unknown memory, because `heap_is_block_range_free` does not
stop at the end of the table. The counters are `size_t` and wrap at `Word`.
`heap_realloc` is one action with a disjunct for each of its branches: free,
keep, shrink, extend in place, fail, move. Three variables are ghosts: `held`,
the allocation that each caller believes to own; `loose`, the held blocks that a
walk along `HAS_NEXT` freed or counted to somebody else; and `paged`, whether
so far nobody was given more than one block.

`heap_mark_blocks_taken` gives the last block of a run of two or more the flag
`HAS_NEXT`. The chain of such an allocation therefore runs into its neighbour,
and `heap_free`, `heap_realloc` and `heap_allocation_block_count` follow it
(run `heap_neighbour`). The run `heap` has requests of none to three blocks, so
that all of this happens in it. What remains under such use is that a *new*
allocation consists of free blocks (`FreshBlocks`) and that two callers share a
block only where it is `loose` (`Apart`): every other routine keeps allocations
apart. As long as all allocations are single blocks, everything is exact: the
`Pages...` properties, which are `Disjoint`, `HeldIsTaken`, `Accounting` and
`NoLeak` while `paged` holds.

Two further effects of `heap_realloc` are part of the model, and no property
denies them: a shrink adjusts the counters twice (`AfterShrink`, heap.c:310 and
heap.c:318: `heap_mark_blocks_free` has counted what the caller counts again);
and an extension may leave the table, because the test of the range
does not know where it ends (heap.c:139, `AfterExtend`, heap.c:329).

### Scheduler

A process and its task are one number; numbers are not reused because `kfree`
does nothing, which is also why the links of freed tasks keep their values. A
kernel entry is one step: save, act, resume. `cpu` is whose code runs.
`registers[t]` is whose execution the saved registers of `t` resume. `invoker`,
`alive` and `created` are ghosts. `mishaps` records which of three rare events
have happened; they are switched on by the constant `Mishaps`: argument injection
that fails, a system call with a pointer the process does not own, and an interrupt between loading and starting the first
program. After any of them the processor and `current_task` may disagree, which
is why `CurrentTaskRuns`, `SavedRegistersOwn` and `ExitReturnsToInvoker` speak of
behaviours without one, while the list, the table and `CurrentTaskAlive` survive
all of them.

`task_list_remove` does not update the successor's `prev`. With up to three
living processes the exits happen in an order in which this is never used; with
four it is (run `scheduler_four`).

### Keyboard

One scan code of each kind, including the two codes at the end of the table:
`scancode > size` lets the first of them through, and the byte read there is a
nondeterministic choice. The focus (`process_current`) and the running process
(`task_current`) change freely, which covers everything Scheduler can do.
`tail - head` is bounded by `MaxUnread`. The refinement of `KeyQueue` needs
`MaxUnread <= Size`: `keyboard_push` does not test for a full buffer, so that
beyond it the oldest key is overwritten, and `head` points to a newer key or to
an empty cell while keys are waiting. The real buffer has 1024 cells.

### Vector

An element is a sort key and a name, so that an unstable sort is visible. The
memory behind `vec->memory` is a function on cells. After a failed `krealloc`
the pointer is NULL (`unbacked`) and all cells are `Junk`; what is written while
it is NULL goes to low memory and is lost at the next push that finds memory,
because `krealloc` of NULL is a fresh allocation that copies nothing
(multiheap.c:147). `ElementList` says exactly this of a list: what was there
is lost at a push that fails, what came since at the next one that grows.
`vector_reorder` is the code's bubble sort, written with folds; the abstract list
states a stable sort.

### Streamer

The recursion of `diskstreamer_read` and `diskstreamer_write` is a loop with
one step per sector; the drive may fail each. The partition check of `disk.c`
is `InBounds`. The local buffer of a write that does not read its sector first
is `Junk`. Both routines test for crossing a boundary with `>=`, so that a
request that ends with its sector goes on, with zero bytes, in the next one:
for a write that replaces the next sector, for a read it may be an error at the
end of the partition. A write of the first part of a sector does not read the
sector first, so that its rest becomes whatever the buffer held
(streamer.c:88). `WriteFootprint` is a bound on such damage, not an approval of it:
it is confined to the rest of the sector where the request ends, or to the
sector behind it. The run `streamer_partial` shows that it disagrees with what
streamer.c:10 promises ("Read-modify-write for partial sector writes").

### Fat16

| model | code |
|---|---|
| `fat` | the table on the drive; what is free, a link, the end of a chain |
| `dir`, `root` | the root directory on the drive, and the names of its copy in `fat_private` |
| `slot[d]`, `item[d]`, `pos[d]` | an open `fat_file_descriptor`: where its entry is, its own copy of the entry, its position |
| `pc`, `op`, `me`, `cl`, `ahead`, `done`, `total`, `new` | the locals of the call under way |
| `cut` | history: slots whose entry on the drive names clusters that a truncation freed |
| `stale` | history: descriptors whose copy of the entry names such clusters |
| `spoiled` | history: the volume was damaged in one of the two ways below |

The kernel serves one call at a time, but a call is several steps: each cluster
of a walk or of a free, each part of a read or write that lies in one cluster,
marking a new cluster, linking it, and writing the entry at the end. `Crash` is
possible between any two of them: the volume is mounted again and every
descriptor is gone. With `DriveFails` each write may be refused, and the model
does what the code does then: it ignores the result for directory entries
(fat16.c:734 and fat16.c:1150), gives up a chain that is half freed, frees a
cluster that could not be linked, and stores the error code of a failed first
allocation as the first cluster, because `starting_cluster < 0` compares an
unsigned number (fat16.c:1185). The search for a free cluster goes on to
`TotalClusters`, past `LastCluster` where the volume ends; the write to such a
cluster fails after it was linked.

Two things that this driver does damage a volume, and both are in the model:

- Opening a file for writing frees its clusters but never writes its entry: on
  the drive the file keeps its size and a first cluster that is free
  (fat16.c:1239), although the comment at fat16.c:788 promises a file of 0 bytes,
  until a write extends it again. The slot is in `cut` for that time, also over a
  crash or a close, which may come anywhere. A later write through a copy of
  that entry, or a second truncation through the entry once the clusters belong
  to somebody else, sets `spoiled`.
- If the drive refuses the copy of a link and then takes the clean-up,
  `fat16_allocate_cluster` frees a cluster that is already linked in the table
  that is read (fat16.c:1011). This sets `spoiled` as well.

`spoiled` never becomes false again. `FilesApart`, `SizeCovered`, `ReadStaysInFile`
and `OthersUntouched` speak of volumes that are not spoiled, and the first two
leave out the entries in `cut`: they say that a truncated entry hurts nobody
else until it is used, whoever is given its clusters meanwhile, and they claim
nothing after that. The run therefore does not go on from spoiled states
(`CONSTRAINT Unspoiled`); the theorems are about all behaviours.

Writes of the table and of directory entries are exact. The streamer's damage at
the beginning of a sector (streamer.c:88) is the subject of `Streamer` and is not
composed with `Fat16`: the volumes of the model have their entries inside of one
sector, which means clusters 2 to 254 and slots 1 to 14.

A name that does not fit 8.3 is stored as `ShortName` says and is not found
again, so that each open creates another entry with the same name.

### Process, MultiHeap, Paging, FileTable

| model | code |
|---|---|
| `region` | the region that the loop of `kheap_init` is at |
| `mh` | `kernel_multiheap`: each heap's table and counters |
| `KernelDirectory`, `proc[p].dir` | the kernel's page tables, which do not change, and each process's, as functions from pages to frame and flags |
| `proc[p].allocations`, `.handles` | the vectors of `struct process` |
| `file_descriptors` | the table of `fs/file.c` |
| `areas` | ghost: what `kpalloc` gave to the kernel |
| `proc[p].held` | ghost: the pointers a program was given and has not freed |
| `loose` | ghost: frames that a resize gave back, took without their being free or dropped from the records |
| `starved` | ghost: a close found no memory to remove its handle |
| `panic` | the message that stopped the kernel |

A system call is one step, because interrupts are off in the kernel and it does
not preempt itself; processes take their calls in any order. Addresses are pages
(a heap's block is a page), sizes are bytes.

`kheap_init` is a loop over the memory map, one step per region, before anything
else happens. The first region that is large enough becomes the minimal heap,
with its table at the start of the region, and the structures of the multiheap
take its first blocks. Every other region is handed to `multiheap_add`, which
takes two blocks for a heap and its table, passes the zeroed table to
`heap_create`, is refused because the table's total is 0 and not the number of
blocks (multiheap.c:225, heap.c:14), and gives the blocks back; `kheap_init` does
not look at the result (kheap.c:136). So the minimal heap is the only one the
kernel ever has, none allows paging, `multiheap_ready` builds no paging heap, the
second pass of `multiheap_palloc` finds no heap to try, and none of these is in
the model: `kpalloc` is a run of the minimal heap or nothing. The model keeps the
list of heaps and the test in `heap_validate_table`, so that the refusal is a
result and not an assumption (`MultiHeapProofs!TableRefused`).

`paging_get_finds` has the lookup's tests, including the one on the first entry
of a table instead of the entry that is followed (paging.c:332): memory is found
only where the first entry is in use, and the minimal heap of the instance
begins behind it.

What the model shows about this code, beyond the properties that hold:

- Nothing is ever returned: `kfree` is empty, so that a process that ends, a file
  that closes and a pointer that is freed keep their blocks. Only a resize gives
  blocks back, and then with the chains of Heap; `loose` marks exactly the frames
  for which the properties make an exception.
- `process_realloc` leaves the old pages mapped and, for a size of 0, the record
  as well; for `NULL` it overwrites the first record (process.c:121, 172).
- `process_get_allocation_by_addr` counts the end of an allocation as inside
  (process.c:847) and subtracts the wrong way (process.c:850). The two cancel for
  legitimate buffers, which is what `HeldUsable` shows: the seeded fault corrects
  only the subtraction, and an allocation right behind another is then refused. A
  buffer that is longer than its allocation is accepted.
- `fopen` of a file that the file system cannot open passes the error code, as a
  pointer, to `close` (file.c:165): the kernel stops. Paths, drives and modes that
  are refused before that only fail the call.
- The last descriptor can be opened and not closed (file.c:70); each such open
  is for good. `DescriptorsAccounted` excepts it.
- `process_fclose` needs a block to compare handles with (vector.c:317). Without
  one the handle stays, and closes a file that another process has since opened
  under the same number. `HandleFits` and `DescriptorsAccounted` hold until then.

Of the kernel's own small allocations the model has those whose failure has an
effect on a process (handles, the buffer of `vector_pop_element`, image and
stack); the others are not taken from the heaps of the model, and `fopen` may
fail for want of memory at any time instead.

### Ps2Mouse and Desktop

`line` is what the device still has to send of a packet; every byte is an
interrupt, which the handler appends to `packet` or drops. `whole` and `trusted`
are history variables: whether the packet being sent could be mistaken for
another, and whether one that could not has arrived since the last loss. Bytes
are numbers and movements are decoded with their sign, `int8_t` negation included.

`desk` is the window system: `windows` is `windows_vector`, `children` the roots
below the screen from bottom to top, `z` their z-index, `titled` the windows whose
title bar has its handlers, `focused` and `moving` the two global pointers. A
window and its root graphics share a name. `kernel_main` is a sequence of steps
(`pc`): the cursor's window is made with interrupts off; the four registrations
and `window_create` run with interrupts on, and a mouse interrupt may come
between any two steps. Allocation failures in `window_create` are a choice.

- A click between the entry in `windows_vector` and the end of `window_create`
  may close the window. `window_create` and `kernel_main` do not notice and go on
  with the freed window, whose contents are still there because `kfree` is empty:
  `stray` records it, and the behaviour goes on. In particular window.c:283 gives
  the freed window the focus. `NoDangling` excepts exactly that: no click leaves
  the focus or the drag on a freed window, only `window_create` does.
- `window_focus` may be interrupted between setting `focused_window` and raising
  the window, so that the focused window need not be the topmost one; no property
  claims it.
- The `zindex` of a window is never set, so that sorting `windows_vector` does
  nothing and `window_get_at_position` finds the oldest window at a point, not the
  topmost one; with one window besides the cursor the two agree.
- Dragging past the left or upper edge subtracts in 32-bit unsigned arithmetic
  (window.c:68), which gives a position near 2^32 (`Word`). `window_position_set`
  adds to it in 64 bits, finds the sum beyond the screen and puts the window at
  the *opposite* edge (window.c:472). `OnScreen` holds at every moment of a drag;
  that the window jumps is what the code does, and no property denies it.

## 3. Runs

| run | module / cfg | checks | result |
|---|---|---|---|
| `heap` | `MCHeap` | `Apart`, `FreshBlocks`, `PagesDisjoint`, `PagesTaken`, `PagesCounted`, `PagesKept` | hold for all requests; the last four while allocations are single blocks |
| `heap_scan` | `MCHeapScan` | `FirstFit`, `Terminates` | hold |
| `heap_neighbour` | `MCHeap_neighbour` | `FreesOwnBlocksOnly` | violated: see heap.c:309 |
| `scheduler_three` | `MCScheduler_three` | `ListWellFormed`, `TableExact`, `CurrentTaskRuns`, `SavedRegistersOwn`, `CurrentTaskAlive`, `ExitReturnsToInvoker` | hold with three living processes, two after a mishap |
| `scheduler_four` | `MCScheduler_four` | `CurrentTaskRuns` | violated: see task.c:12 |
| `keyboard_ring` | `MCKeyboard_ring` | `TypeOK`, `CellsInUse`, `IsKeyQueue` | hold |
| `vector` | `MCVector` | `Capacity`, `IsList` | hold |
| `streamer` | `MCStreamer_any` | `ReadExact`, `WrittenInPlace`, `WriteFootprint`, `Confined` | hold |
| `streamer_partial` | `MCStreamer_partial` | `OnlyRequested` | violated: see streamer.c:10 |
| `fat16_volume` | `MCFat16_volume` | `FilesApart`, `ReadStaysInFile`, `SizeCovered`, `OthersUntouched` | hold with crashes and refused writes, until the volume is spoiled |
| `process` | `MCProcess` | `FramesApart`, `UserMapsOwn`, `HeldUsable`, `HandleFits`, `DescriptorsAccounted` | hold, with the exceptions that `loose` and `starved` mark |
| `desktop` | `MCDesktop` | `NoDangling`, `OnScreen`, `StackOrder`, `CursorAtMouse`, `PacketsWhole` | hold with a lost byte and interrupts during the start |

**Bounds.** Heap: four blocks and three callers, so that an allocation can
have a neighbour on both sides, the heap can be full, a free can open a hole
between two allocations, and a chain can run through two neighbours; sizes of
none to three blocks; three bytes behind the table, as far as an extension reaches.
Scan: all
tables of six blocks and all requests up to one block more than there are.
Scheduler: `MaxLive` is the number of living processes, which is what the
results depend on, and `MaxLiveAfterMishap` the same from the first mishap on, when
not every living process is waiting for one it started; `MaxTasks` (8 or 9
creations) lets each slot be reused more than once. Keyboard: three cells, four keys for each process, so that the ring
wraps while holding keys. Vector: three elements and a reserve of one, so that
growth happens at and between the limits and a sort needs more than one pass.
Streamer: sectors of four bytes, a partition with a sector before and after it,
all positions and sizes up to three sectors; for `streamer_partial` requests of at
least a byte and a drive that does not fail.
Fat16: two descriptors on three slots, one of them a read-only file; four
clusters of two cells, the last of them past the volume; writes of three cells at
every position, so that a write ends inside a cluster, at its edge and in the
next one, a file of several clusters can exist beside another, and the volume
runs full; `MaxPos` bounds what `SEEK_CUR` can add up to. Positions past the size are
reached by seeking twice.
Process: two interchangeable processes; one region that is refused and one whose
eight blocks of four bytes are the heap, which fills up and fragments; table entries behind the end of a heap taken or
free; sizes below, at and above a page; two records for each process (`MaxRecords`)
and no further resize once a frame is loose (`MaxLoose`), so that all other
operations are explored after each kind of resize; three descriptors, so that the
last one, which is never closed, is reached; two disks, one without a file system.
Desktop: a screen of 10 by 8 with one window of 5 by 2 in its borders, so that
title bar, close button, border, body and empty screen are all within reach of
the movements; packets of three and of four bytes; four packets (`MaxPackets`) and
one lost byte (`MaxLost`), enough to click during the start, drag past an edge,
drop, and close.

**Deadlock** is not checked in the runs of the scheduler (a panic ends the
system, and the bound on creations ends a behaviour), of the scan (it returns), of
the processes, where a panic ends the system, and of the desktop, where the mouse
stops after `MaxPackets`. In all other runs every reachable state has a successor.

**Fairness.** Only `HeapScan` states liveness: its loop runs in the kernel and
no step of it can block, so weak fairness of its next-state relation is what
the processor guarantees. The other modules state safety: the kernel does not
preempt tasks, so that no process is guaranteed to run again.

## 4. Proofs

Checked by TLAPS for every value of the constants that satisfies the named
assumptions (`TableAssumption`, `WordAssumption`, `HeapAssumption`, `SlackAssumption`,
`EnomemAssumption`, `VectorAssumption`, `Fat16Assumption`, `StreamerAssumption`,
`KeyboardAssumption`, `SchedulerAssumption`, `MouseAssumption`, `DesktopAssumption`,
`PagingAssumption`, `MultiHeapAssumption`, `FileAssumption`, `ProcessAssumption`). They type
the constants, and some say more: `Fat16Assumption` that the volume that is
mounted is sound (chains apart, every named entry with clusters for its size),
because the driver cannot repair one that is not; `DesktopAssumption` that the
cursor fits where `mouse_register` puts it (its window is refused otherwise), that
the main window's body is smaller than the screen and that 2^32 is more than
twice a screen's side; `PagingAssumption` that the usable regions of the memory map
do not overlap; `MultiHeapAssumption` that some region takes the minimal heap behind
its table, with room for the structures of the multiheap (the kernel stops
otherwise), and that no heap begins at address 0; `ProcessAssumption` that program
and stack have pages of their own away from the heap, that the heap is inside of
the page tables, that a program is no larger than a stack, and that no extension
reaches beyond the modelled entries. TLC evaluates all of them on the instances.

- `HeapProofs!HeapTypes`: `Spec => []TypeOK`, for chains of any shape. `ChainEnd`
  stays in the table (`ChainEndInTable`), an extension in the modelled memory, and
  the counters in their word (`WrapMoves`); one lemma for each of the heap
  transformers `AfterMalloc`, `AfterFree`, `AfterShrink`, `AfterExtend`.
- `HeapProofs!HeapApart`: `Spec => []Apart`, for every request and any order of the
  operations. The invariant `ApartInv` adds `Vouched`: what somebody holds and the
  table shows as free is loose. With it, a block that a search or a test of a range
  finds free is nobody's, or loose already (`ApartStep`).
- `HeapProofs!HeapFreshBlocks`: under the same free use, `heap_malloc` hands out
  blocks that were free (`MallocFresh`: what the search returns lies in the table
  and is free).
- `HeapProofs!PageHeapSafe`: `PagesDisjoint`, `PagesTaken`, `PagesCounted` and
  `PagesKept`, for every set of sizes. The invariant is `paged => PageSafe`, where
  `PageSafe` adds `NoChains`: no entry carries `HAS_NEXT`, so a walk from an
  allocation is the allocation (`ChainEndNoChains`). A request of two blocks
  ends `paged`, and from then on the four say nothing, as they must:
  `heap_neighbour` shows what happens. The counting argument (`MallocCounts`) uses
  the library's theorems on cardinalities.
- `HeapProofs!ScanIsFirstFit`: the loop computes what
  `HeapTable!heap_get_start_block` says. The invariant `LoopInv` says what the current run is, that its left neighbour is
  taken, and that no sufficient run lies to its left.
- `HeapProofs!VectorCapacity`: `VectorSpec => []Capacity`. The invariant `Counters`
  adds that the two counters are numbers.
- `Fat16Proofs!FilesStayApart`: `Spec => []FilesApart`, without a hypothesis.
  `FilesApart` is not inductive: what a descriptor holds in its copy of an entry
  becomes the entry at the next extension. The inductive invariant is
  `~spoiled => FatInv`, and `FatInv` speaks of claims: a slot claims the chain of
  its entry, unless a truncation has left that entry behind (`cut`), and of every
  descriptor's copy that is not `stale`. `ClaimsApart` says that what is claimed is
  the head of a chain and claimed by one slot only; `CallSound` that a cluster
  marked and not yet linked, and the rest of a chain being freed, are heads that
  nobody else claims; `EntriesSound` relates the cached names to the drive. Three
  lemmas say what marking, linking and freeing do to a set of chains (`MarkFree`,
  `LinkHead`, `FreeHead`), without induction, because being apart is a local
  condition on links. `SpoiledStays` says that a spoiled volume stays spoiled.
- `Fat16Proofs!ReadsStayInFiles`, `SizesStayCovered`, `OthersStayUntouched`, also
  without a hypothesis. The first two rest on `LengthInv`: the size in every entry
  on the drive *and* in every descriptor's copy, as far as they claim anything, is
  covered by a path of as many different clusters, a read has as many clusters
  before it as it still has to walk, and a write is on the chain that it will
  extend. Copies matter because an older descriptor writes its size back.
  `IsolationInv` adds that whoever writes may; with it a step changes links of one
  chain only. Chains are stated without recursion: a path is a function to distinct
  clusters, a chain the least set that follows the links; the one induction needed
  is over the length of a path, through the least counterexample (`LeastNat`).
- `StreamerProofs`: `ReadsAreExact`, `WritesStandInPlace`,
  `WritesKeepTheirFootprint`, `StreamsAreConfined`. The loop invariant `StreamInv`
  relates position, remaining length and bytes moved (`Progress`), and says what
  has been read (`ReadSoFar`) and what is on the drive (`WrittenSoFar`) after each
  sector, for every sector size: `SectorFacts` is the arithmetic of position,
  sector and offset that all steps share.
- `KeyboardProofs`: `KeyboardTypes` holds without a hypothesis. `KeyboardCells` and
  the refinement `KeyboardImplementsQueue` assume `MaxUnread <= Size`: a program
  reads before the buffer of 1024 keys is full, which is the only protection
  `keyboard_push` has. `RingInv` says that between `head` and `tail` each cell holds
  a key and all others hold none; the refinement maps the queue to those cells, and
  each step of the ring is a step of the queue or leaves it alone.
- `SchedulerProofs`: under `FewAlive` (at most three living processes, two after a
  mishap, the bound at which `scheduler_four` shows the list to break) and for any
  number of creations, slots and exits: `SchedulerList`, `SchedulerTable`,
  `SchedulerCurrentAlive`, `SchedulerCurrentRuns`, `SchedulerRegisters`,
  `SchedulerExitReturns`. The invariant `SchedInv` enumerates the shapes that a list
  of at most three tasks can have, with the links that `task_list_remove` leaves
  stale, and who waits for whom.
- `DesktopProofs`: `DesktopNoDangling`, `DesktopOnScreen`, `DesktopStack`,
  `DesktopCursor`, for every screen, window, cursor and movement, and also after
  `window_create` has gone on with a closed window. `DeskInv` says which of two
  lists of windows and three lists of roots there can be at each step of
  `kernel_main` (`Phase`), that the drag is listed and the focus too unless `stray`,
  and that the main window's body is on the screen (`Placed`): `window_position_set`
  establishes it for every position it is given, those near 2^32 included.
  `PacketsInStep` has an invariant of its own,
  `PacketInv`: of a whole packet only the first byte can open a buffer, and what is
  left of an earlier packet fills the buffer at the latest with its last byte.

- `ProcessProofs`: the five invariants of `Process`, for every memory map, any number
  of processes, files and descriptors, and any sizes of requests.
  `MultiHeapProofs` has the lemmas about the heap they rest on: where `kheap_init`
  puts it (`LayoutHolds`), that every other region is refused and leaves nothing
  taken (`TableRefused`, `RegionSound`), and what `multiheap_alloc`,
  `multiheap_palloc` and each branch of `multiheap_realloc` do to table, counters
  and chains. `BootInv` says that nothing is in use until `kheap_init` is done.
  - `MemoryApart`: `Spec => []FramesApart`, without a hypothesis. `MemInv` adds to it
    the shapes of heap, tables and records, that a process's tables map the heap
    and all it holds to themselves, that an area of the kernel is in the heap, and
    that program and stack have different frames for different pages. Frames are
    compared piece by piece (`Apart`), so that a new piece in free blocks is apart
    at once (`FreshApart`).
  - `AgreeInv` says that while nothing is loose every chain is of taken blocks and
    every piece that a process holds is a run of taken blocks chained to its end.
    Without the chains a resize is unpredictable: it would free or count blocks of
    others. The next two theorems need it.
  - `ProcessesReachTheirOwn` and `HeldStaysUsable`: `UserMapsOwn` and `HeldUsable`.
    `OwnInv` relates the three views of memory a process has: what is open to the
    program in its page table (`OpenOwn`), what `allocations` records
    (`RecordsHeld`), and what it was given (`Recorded`).
  - `HandlesFit` and `NoFileForgotten`: `HandleFits` and `DescriptorsAccounted`, without a
    hypothesis. `HandleInv` is about handles and descriptors alone, because no
    call on memory touches them: every handle's descriptor holds its file, two
    handles never name one descriptor, and every descriptor in use, but the last
    of the table, has a handle.

  Two hypotheses appear, each because the code needs it. `MaxLoose \in 0 .. 1`
  (nobody resizes once a resize has let go of a block), for `ProcessesReachTheirOwn`
  and `HeldStaysUsable`: from then on chains may be cut or run on, and a later
  resize no longer acts on the caller's piece alone. `EndsHarmless`, for
  `HeldStaysUsable`: the checks of `process_validate_memory_or_terminate` count the
  end of a record and of the stack in (process.c:847); the page behind the stack is
  not in the heap, and no piece is longer than the memory below the heap, so that a
  piece that begins where another record ends is still accepted. `MCProcess`
  assumes both, so that TLC evaluates them on the instance.

Each inductive invariant was checked with TLC on the instance of its run before
it was proved.

**Only model-checked:** `Terminates` (liveness, which is beyond these provers) and
the refinement `IsList` of the vector (it rests on a fold, whose result needs
induction over data). Every invariant that a passing run checks is the statement of
a theorem. The theorems with hypotheses (`MaxUnread <= Size`,
`FewAlive`, `EndsHarmless`, `MaxLoose \in 0 .. 1`) and the properties with an
exception in their statement (`paged`, `loose`, `cut`, `stale`, `spoiled`, `stray`,
`starved`, mishaps) say nothing outside of them; the runs and sections above say
where the code does not keep the properties there.

## 5. Disagreements, what is not modelled, and the plan

Where the code does not do what it says, as far as the models show it:

| where | what | shown by |
|---|---|---|
| heap.c:239, heap.c:309 | freeing an allocation of several blocks frees its neighbour | run `heap_neighbour` |
| task.c:79, task.c:12 | with four processes a freed task stays linked and runs | run `scheduler_four` |
| streamer.c:88, streamer.c:10 | a partial write loses the rest of its last sector | run `streamer_partial` |
| heap.c:139 | a resize in place may use entries past the table | `AfterExtend` in `Heap` |
| heap.c:318 | a shrink adjusts the counters twice | `AfterShrink` in `Heap` |
| fat16.c:1239, fat16.c:788 | a truncated file keeps its size and its first cluster on the drive | `FreeDone`, `cut` in `Fat16` |
| fat16.c:1011 | a cluster that stays linked is freed when the copy of the link is refused | `LinkFails`, `spoiled` in `Fat16` |
| multiheap.c:225, kheap.c:136 | no region but the first large one is ever used as heap, and nobody notices | `multiheap_add` in `MultiHeap` |
| window.c:283 | a window that was closed meanwhile is given the focus | `SetFocus`, `stray` in `Desktop` |
| window.c:68 | a drag past the left or upper edge puts the window at the opposite one | `window_position_set` in `Desktop` |

Left out for good: pixel, font and image code, boot assembly and the UEFI
loader, port and timer access, string routines, user programs (they appear as
inputs), logging.

Left out of modelled components: `process_inject_arguments` (its memory comes
from `process_malloc`; Scheduler has its success and failure), `process_fwrite`,
`process_fseek` and `process_write_memory`, which change nothing that Process
keeps; the contents of ELF headers; `multiheap_free` and `paging_desc_free`,
which nothing reaches while `kfree` is empty; paging heaps and the second pass of
`multiheap_palloc`, which nothing reaches while every region is refused; the memory of page tables and
vectors; a descriptor that finds no memory in `file_new_descriptor`, where the
code writes through a null pointer to low memory that is mapped; the handshake of
`ps2_mouse_init`; redrawing and the terminals of windows; the null pointers that
`window_create` draws its right and bottom border with, because two inner
declarations hide the outer ones (window.c:822).

Planned, in this order:

1. Registration of disks and GPT partitions, composed with `Streamer`.
2. `Fat16` over `Streamer`, so that writes at the beginning of a sector damage the
   table; subdirectories, what the cells hold, and an abstract file system
   that it implements; `FileTable` composed with its descriptors.
3. The terminal's cursor.
4. `Process` after several resizes: which pieces are still whole once chains are
   cut, so that the bound `MaxLoose` can go.
