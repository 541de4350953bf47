---------------------------- MODULE ProcessProofs ----------------------------
(***************************************************************************)
(* What a process owns, for any memory map, any page size, any number of   *)
(* processes and any sizes of what they ask for: the five invariants of    *)
(* Process.                                                                *)
(*                                                                         *)
(* Five inductive invariants carry them. BootInv: until kheap_init is done *)
(* nothing is in use. MemInv: the shapes of heaps, tables and records, and *)
(* that the frames behind different pieces of memory meet only in what a   *)
(* resize let go of. AgreeInv: as long as nothing was let go of, chains    *)
(* are of taken blocks and every allocation is a run of taken blocks,      *)
(* chained to its end; it is what makes a resize predictable. OwnInv: what *)
(* is open to a program is its own, its records are of what it holds, and  *)
(* what it holds is mapped. HandleInv: handles and descriptors, which      *)
(* share no state with memory.                                             *)
(***************************************************************************)
EXTENDS Process, MultiHeapProofs

-----------------------------------------------------------------------------
(* Memory: what a process and the kernel keep of it.                       *)

Rec == [ptr : Nat, size : Nat]
Pg(a) == PagesOf(a.ptr, a.size)

HeapPages(k) == S(k) .. S(k) + N(k) - 1

ProgramPages == PagesOf(ProgramPage, ProgramSize)
StackPages == PagesOf(StackPage, StackSize)

(* A piece of memory that begins in a heap, and does not reach beyond the  *)
(* entries that are modelled past the heap's table.                        *)
Placed(a) ==
    /\ a \in Rec
    /\ \E k \in Heaps : /\ S(k) <= a.ptr /\ a.ptr <= S(k) + N(k) - 1
                        /\ a.ptr + BlocksFor(a.size) <= S(k) + N(k) + Slack

(* Different pages of P have different frames in directory d. *)
Distinct(d, P) == \A v, w \in P : v # w => d[v].frame # d[w].frame

Shape(pr) ==
    pr \in [alive : {TRUE}, dir : Directory, allocations : Seq(Rec), handles : {pr.handles},
            held : SUBSET Rec]

(* A living process: its tables map the pages of the heaps, and all that   *)
(* it holds, to themselves; its records are of such pieces.                *)
ProcOK(pr) ==
    /\ Shape(pr)
    /\ \A k \in Heaps : \A v \in HeapPages(k) : pr.dir[v].frame = v
    /\ \A i \in DOMAIN pr.allocations : pr.allocations[i] = NoRecord \/ Placed(pr.allocations[i])
    /\ \A a \in pr.held : Placed(a) /\ a.size # 0 /\ \A v \in Pg(a) : pr.dir[v].frame = v
    /\ Distinct(pr.dir, ProgramPages) /\ Distinct(pr.dir, StackPages)

(* An area of the kernel lies in a heap. *)
AreaOK(a) ==
    /\ a \in Rec
    /\ \E k \in Heaps : S(k) <= a.ptr /\ a.ptr + BlocksFor(a.size) <= S(k) + N(k)

KernelOK(m, ar) == MultiHeapOK(m) /\ \A a \in ar : AreaOK(a)

ProcsOK(pc) ==
    /\ pc = [p \in Procs |-> pc[p]]
    /\ \A p \in Procs : pc[p] = Dead \/ ProcOK(pc[p])

-----------------------------------------------------------------------------
(* The memory map is a list. *)
LEMMA RegionsMany == Len(Regions) \in Nat
  BY PagingAssumption

(* Sizes and pages. *)
LEMMA Sizes ==
    /\ ProgramSize \in Nat /\ StackSize \in Nat /\ ProgramPage \in Nat /\ StackPage \in Nat
    /\ BlocksFor(ProgramSize) \in Nat /\ BlocksFor(StackSize) \in Nat
    /\ MallocSizes \subseteq Nat /\ ReallocSizes \subseteq Nat /\ AreaSizes \subseteq Nat
    /\ \A size \in ReallocSizes : BlocksFor(size) <= Slack
  BY ProcessAssumption, BlocksForBytes

(* The pages of a heap, and the few behind it, are mapped, and are not     *)
(* those of program and stack.                                             *)
LEMMA HeapReach ==
    ASSUME NEW k \in Heaps, NEW v \in S(k) .. S(k) + N(k) + Slack - 1
    PROVE  v \in Pages /\ v \notin ProgramPages /\ v \notin StackPages
  <1>1. Reach(Map[k]) \subseteq Pages \ (ProgramPages \cup StackPages)
    <2>1. Map[k] = MinimalHeap({})
      BY DEF Map, Heaps
    <2> QED BY <2>1, ProcessAssumption DEF ProgramPages, StackPages
  <1>2. v \in Reach(Map[k])
    BY DEF Reach, Eaddr, S, N
  <1> QED BY <1>1, <1>2

(* kheap_init lays the heap out with a start that is not NULL, and a size. *)
LEMMA Layouts ==
    ASSUME NEW k \in Heaps
    PROVE  S(k) \in Nat \ {0} /\ N(k) \in Nat /\ Slack \in Nat \ {0}
  BY LayoutHolds, MultiHeapAssumption DEF Layout

(* A block of a heap is a page of the machine, and neither the program nor *)
(* the stack is mapped over it.                                            *)
LEMMA HeapPagesMapped ==
    ASSUME NEW k \in Heaps, NEW v \in HeapPages(k)
    PROVE  v \in Pages /\ v \notin ProgramPages /\ v \notin StackPages
  <1>1. v \in S(k) .. S(k) + N(k) + Slack - 1
    BY Layouts DEF HeapPages
  <1> QED BY <1>1, HeapReach

(* The pages of a record are the consecutive pages from its pointer on. *)
LEMMA PagesNatural ==
    ASSUME NEW a \in Rec
    PROVE  /\ BlocksFor(a.size) \in Nat /\ a.ptr \in Nat /\ a.size \in Nat
           /\ Pg(a) = a.ptr .. a.ptr + BlocksFor(a.size) - 1 /\ Pg(a) \subseteq Nat
  <1>1. a.ptr \in Nat /\ a.size \in Nat
    BY DEF Rec
  <1>2. BlocksFor(a.size) \in Nat
    BY <1>1, BlocksForBytes
  <1> QED BY <1>1, <1>2 DEF Pg, PagesOf

(* What was placed in a heap lies clear of the program's and the stack's   *)
(* pages.                                                                  *)
LEMMA PlacedPages ==
    ASSUME NEW a, Placed(a)
    PROVE  /\ a \in Rec /\ a.ptr # NULL
           /\ \A v \in Pg(a) : v \in Pages /\ v \notin ProgramPages /\ v \notin StackPages
  <1>1. a \in Rec
    BY DEF Placed
  <1>2. PICK k \in Heaps : /\ S(k) <= a.ptr /\ a.ptr <= S(k) + N(k) - 1
                           /\ a.ptr + BlocksFor(a.size) <= S(k) + N(k) + Slack
    BY DEF Placed
  <1>3. S(k) \in Nat \ {0} /\ N(k) \in Nat /\ Slack \in Nat \ {0}
    BY Layouts
  <1>4. BlocksFor(a.size) \in Nat /\ a.ptr \in Nat /\ Pg(a) = a.ptr .. a.ptr + BlocksFor(a.size) - 1
    BY <1>1, PagesNatural
  <1>5. ASSUME NEW v \in Pg(a) PROVE v \in Pages /\ v \notin ProgramPages /\ v \notin StackPages
    <2>1. v \in S(k) .. S(k) + N(k) + Slack - 1
      BY <1>2, <1>3, <1>4
    <2> QED BY <2>1, HeapReach
  <1> QED BY <1>1, <1>2, <1>3, <1>4, <1>5 DEF NULL

(* The empty slot of process->allocations names no page. *)
LEMMA NoRecordEmpty ==
    /\ NoRecord \in Rec /\ NoRecord.ptr = NULL /\ NoRecord.size = 0 /\ Pg(NoRecord) = {}
  <1>1. NoRecord \in Rec /\ NoRecord.ptr = NULL /\ NoRecord.size = 0
    BY DEF NoRecord, Rec, NULL
  <1>2. BlocksFor(0) = 0
    BY BlocksForBytes
  <1> QED BY <1>1, <1>2 DEF Pg, PagesOf, NULL

-----------------------------------------------------------------------------
(* The process's tables and records.                                       *)

(* What mapping the pages of a to themselves makes of directory d. *)
MappedTo(d, a, flags) ==
    [v \in Pages |-> IF v \in Pg(a) THEN [frame |-> v, flags |-> flags] ELSE d[v]]

(* paging_map_to of a piece on itself writes the entries of its pages and  *)
(* no others.                                                              *)
LEMMA MapsToItself ==
    ASSUME NEW d \in Directory, NEW a \in Rec, NEW flags \in SUBSET PageFlags
    PROVE  /\ paging_map_to(d, a.ptr, a.ptr, a.ptr + BlocksFor(a.size), flags) = MappedTo(d, a, flags)
           /\ MappedTo(d, a, flags) \in Directory
  <1> DEFINE n == BlocksFor(a.size)
             s == a.ptr
  <1>1. n \in Nat /\ s \in Nat /\ Pg(a) = s .. s + n - 1
    BY PagesNatural
  <1>2. Pages \subseteq Nat
    BY PagingAssumption
  <1> HIDE DEF n, s
  <1>3. s + ((s + n) - s) - 1 = s + n - 1
    BY <1>1
  <1>4. \A v \in Pages : s + (v - s) = v
    BY <1>1, <1>2
  <1>5. paging_map_to(d, s, s, s + n, flags) = MappedTo(d, a, flags)
    BY <1>1, <1>3, <1>4 DEF paging_map_to, MappedTo
  <1>6. MappedTo(d, a, flags) \in Directory
    <2>1. ASSUME NEW v \in Pages PROVE [frame |-> v, flags |-> flags] \in Entry
      BY <1>2 DEF Entry
    <2> QED BY <2>1 DEF MappedTo, Directory
  <1> QED BY <1>5, <1>6 DEF n, s

(* What process_allocation_set_map makes of a process. *)
GivenTo(pr, y, index, a) ==
    /\ Shape(y) /\ y.handles = pr.handles /\ y.held = pr.held
    /\ y.dir = MappedTo(pr.dir, a, UserFlags)
    /\ DOMAIN y.allocations = DOMAIN pr.allocations \cup {index}
    /\ \A i \in DOMAIN y.allocations : y.allocations[i] = IF i = index THEN a ELSE pr.allocations[i]

(* process_allocation_set_map records the piece at the index it was given  *)
(* and maps it for user mode.                                              *)
LEMMA SetMap ==
    ASSUME NEW pr, Shape(pr), NEW ptr, NEW size, NEW a \in Rec, a = [ptr |-> ptr, size |-> size],
           NEW index \in 1 .. Len(pr.allocations) + 1
    PROVE  GivenTo(pr, process_allocation_set_map(pr, index, ptr, size), index, a)
  <1> DEFINE s == pr.allocations
             d == paging_map_to(pr.dir, ptr, ptr, ptr + BlocksFor(size), UserFlags)
             b == IF index > Len(s) THEN Append(s, a) ELSE [s EXCEPT ![index] = a]
             y == [pr EXCEPT !.dir = d, !.allocations = b]
  <1>1. process_allocation_set_map(pr, index, ptr, size) = y
    BY DEF process_allocation_set_map
  <1>2. pr.dir \in Directory /\ s \in Seq(Rec) /\ pr.held \in SUBSET Rec
    BY DEF Shape
  <1>3. d = MappedTo(pr.dir, a, UserFlags) /\ d \in Directory
    <2>1. UserFlags \in SUBSET PageFlags
      BY DEF UserFlags, PageFlags
    <2>2. a.ptr = ptr /\ a.size = size
      OBVIOUS
    <2> QED BY <1>2, <2>1, <2>2, MapsToItself
  <1> HIDE DEF d, s
  <1>4. /\ b \in Seq(Rec)
        /\ DOMAIN b = DOMAIN s \cup {index}
        /\ \A i \in DOMAIN b : b[i] = IF i = index THEN a ELSE s[i]
    <2> HIDE DEF b
    <2>0. Len(s) \in Nat /\ DOMAIN s = 1 .. Len(s)
      BY <1>2
    <2>1. CASE index > Len(s)
      <3>1. index = Len(s) + 1 /\ b = Append(s, a)
        BY <2>0, <2>1 DEF s, b
      <3> QED BY <1>2, <2>0, <3>1
    <2>2. CASE ~(index > Len(s))
      <3>1. index \in DOMAIN s /\ b = [s EXCEPT ![index] = a]
        BY <2>0, <2>2 DEF s, b
      <3> QED BY <1>2, <2>0, <3>1
    <2> QED BY <2>1, <2>2
  <1> HIDE DEF b
  <1>5. /\ Shape(y) /\ y.handles = pr.handles /\ y.held = pr.held /\ y.dir = d /\ y.allocations = b
    <2>1. pr \in [alive : {TRUE}, dir : Directory, allocations : Seq(Rec), handles : {pr.handles}, held : SUBSET Rec]
      BY DEF Shape
    <2>2. y \in [alive : {TRUE}, dir : Directory, allocations : Seq(Rec), handles : {pr.handles}, held : SUBSET Rec]
      BY <1>3, <1>4, <2>1
    <2>3. y.handles = pr.handles /\ y.held = pr.held /\ y.dir = d /\ y.allocations = b
      BY <2>1
    <2> HIDE DEF y
    <2> QED BY <2>2, <2>3 DEF Shape
  <1> QED BY <1>1, <1>3, <1>4, <1>5 DEF GivenTo, s

(* The pieces that a process holds replaced by others. *)
LEMMA HeldReplaced ==
    ASSUME NEW pr, Shape(pr), NEW held \in SUBSET Rec
    PROVE  /\ Shape([pr EXCEPT !.held = held])
           /\ [pr EXCEPT !.held = held].held = held
           /\ [pr EXCEPT !.held = held].dir = pr.dir
           /\ [pr EXCEPT !.held = held].allocations = pr.allocations
           /\ [pr EXCEPT !.held = held].handles = pr.handles
  <1> DEFINE y == [pr EXCEPT !.held = held]
  <1>1. pr \in [alive : {TRUE}, dir : Directory, allocations : Seq(Rec), handles : {pr.handles}, held : SUBSET Rec]
    BY DEF Shape
  <1>2. /\ y \in [alive : {TRUE}, dir : Directory, allocations : Seq(Rec), handles : {pr.handles}, held : SUBSET Rec]
        /\ y.held = held /\ y.dir = pr.dir /\ y.allocations = pr.allocations /\ y.handles = pr.handles
    BY <1>1
  <1> HIDE DEF y
  <1>3. Shape(y)
    BY <1>2 DEF Shape
  <1> QED BY <1>2, <1>3 DEF y

(* process_free: the record that it finds, and what it leaves behind. *)
FirstRecord(s, ptr) ==
    IF RecordsOf(s, ptr) = {} THEN NoRecord ELSE s[Min(RecordsOf(s, ptr))]

Cleared(s, ptr) == [i \in DOMAIN s |-> IF i \in RecordsOf(s, ptr) THEN NoRecord ELSE s[i]]

(* process_get_allocation_by_addr finds a record of that pointer whenever  *)
(* there is one.                                                           *)
LEMMA RecordFound ==
    ASSUME NEW s \in Seq(Rec), NEW ptr, RecordsOf(s, ptr) # {}
    PROVE  /\ Min(RecordsOf(s, ptr)) \in DOMAIN s
           /\ s[Min(RecordsOf(s, ptr))].ptr = ptr
           /\ s[Min(RecordsOf(s, ptr))] \in Rec
  <1>1. RecordsOf(s, ptr) \subseteq DOMAIN s /\ DOMAIN s \subseteq Nat
    BY DEF RecordsOf
  <1>2. Min(RecordsOf(s, ptr)) \in RecordsOf(s, ptr)
    BY <1>1, MinNatural
  <1> QED BY <1>1, <1>2 DEF RecordsOf

Freed(pr, y, a) ==
    /\ Shape(y) /\ y.handles = pr.handles /\ y.held = pr.held \ {a}
    /\ y.dir = MappedTo(pr.dir, FirstRecord(pr.allocations, a.ptr), {})
    /\ y.allocations = Cleared(pr.allocations, a.ptr)

(* process_free forgets the piece, unmaps its record's pages and empties   *)
(* every record of that pointer.                                           *)
LEMMA FreeIs ==
    ASSUME NEW pr, Shape(pr), NEW a, NEW record, record = FirstRecord(pr.allocations, a.ptr),
           NEW y, y = [pr EXCEPT !.held = @ \ {a}, !.dir = Unmapped(pr, record),
                          !.allocations = [i \in DOMAIN @ |-> IF i \in RecordsOf(pr.allocations, a.ptr) THEN NoRecord ELSE @[i]]]
    PROVE  record \in Rec /\ Freed(pr, y, a)
  <1> DEFINE s == pr.allocations
             d == Unmapped(pr, record)
             b == Cleared(s, a.ptr)
             h == pr.held \ {a}
  <1>1. pr.dir \in Directory /\ s \in Seq(Rec) /\ pr.held \in SUBSET Rec
    BY DEF Shape
  <1>2. y = [pr EXCEPT !.held = h, !.dir = d, !.allocations = b]
    BY DEF Cleared
  <1>3. record \in Rec
    BY <1>1, RecordFound, NoRecordEmpty DEF FirstRecord
  <1>4. d = MappedTo(pr.dir, record, {}) /\ d \in Directory
    <2>1. {} \in SUBSET PageFlags
      OBVIOUS
    <2> QED BY <1>1, <1>3, <2>1, MapsToItself DEF Unmapped
  <1>5. b \in Seq(Rec)
    <2>1. DOMAIN s = 1 .. Len(s) /\ Len(s) \in Nat
      BY <1>1
    <2>2. b \in [1 .. Len(s) -> Rec]
      BY <1>1, <2>1, NoRecordEmpty DEF Cleared
    <2> QED BY <2>1, <2>2
  <1>6. pr \in [alive : {TRUE}, dir : Directory, allocations : Seq(Rec), handles : {pr.handles}, held : SUBSET Rec]
    BY DEF Shape
  <1>7. h \in SUBSET Rec
    BY <1>1
  <1> HIDE DEF s, d, b, h
  <1>8. /\ y \in [alive : {TRUE}, dir : Directory, allocations : Seq(Rec), handles : {pr.handles}, held : SUBSET Rec]
        /\ y.held = h /\ y.dir = d /\ y.allocations = b /\ y.handles = pr.handles
    BY <1>2, <1>4, <1>5, <1>6, <1>7
  <1>9. Shape(y)
    BY <1>8 DEF Shape
  <1> QED BY <1>3, <1>4, <1>8, <1>9 DEF Freed, s, b, h

(* A process with another piece mapped and recorded is still in order.     *)
LEMMA GivenOK ==
    ASSUME NEW pr, ProcOK(pr), NEW a, Placed(a), a.size # 0, NEW index, NEW x, GivenTo(pr, x, index, a),
           NEW y, Shape(y), y.dir = x.dir, y.allocations = x.allocations, y.held \subseteq pr.held \cup {a}
    PROVE  ProcOK(y)
  <1>1. Shape(pr) /\ pr.dir \in Directory
    BY DEF ProcOK, Shape
  <1>2. y.dir = MappedTo(pr.dir, a, UserFlags)
    BY DEF GivenTo
  <1>3. \A v \in Pages : y.dir[v].frame = IF v \in Pg(a) THEN v ELSE pr.dir[v].frame
    BY <1>2 DEF MappedTo
  <1>4. \A k \in Heaps : \A v \in HeapPages(k) : y.dir[v].frame = v
    BY <1>3, HeapPagesMapped DEF ProcOK
  <1>5. \A i \in DOMAIN y.allocations : y.allocations[i] = NoRecord \/ Placed(y.allocations[i])
    BY DEF ProcOK, GivenTo
  <1>6. ASSUME NEW b \in y.held PROVE Placed(b) /\ b.size # 0 /\ \A v \in Pg(b) : y.dir[v].frame = v
    <2>1. Placed(b) /\ b.size # 0 /\ (b = a \/ \A v \in Pg(b) : pr.dir[v].frame = v)
      BY <1>6 DEF ProcOK
    <2>2. \A v \in Pg(b) : v \in Pages
      BY <2>1, PlacedPages
    <2> QED BY <1>3, <2>1, <2>2
  <1>7. \A v \in ProgramPages \cup StackPages : v \in Pages /\ v \notin Pg(a)
    <2>1. ProgramPages \cup StackPages \subseteq Pages
      BY ProcessAssumption DEF ProgramPages, StackPages
    <2> QED BY <2>1, PlacedPages
  <1>8. Distinct(y.dir, ProgramPages) /\ Distinct(y.dir, StackPages)
    BY <1>3, <1>7 DEF Distinct, ProcOK
  <1> QED BY <1>4, <1>5, <1>6, <1>8 DEF ProcOK

(* So is one after process_free. *)
LEMMA FreedOK ==
    ASSUME NEW pr, ProcOK(pr), NEW a, NEW y, Freed(pr, y, a)
    PROVE  ProcOK(y)
  <1> DEFINE record == FirstRecord(pr.allocations, a.ptr)
  <1>1. Shape(pr) /\ pr.dir \in Directory /\ pr.allocations \in Seq(Rec)
    BY DEF ProcOK, Shape
  <1>2. record = NoRecord \/ Placed(record)
    BY <1>1, RecordFound DEF FirstRecord, ProcOK
  <1>3. \A v \in Pg(record) : v \in Pages /\ v \notin ProgramPages /\ v \notin StackPages
    BY <1>2, PlacedPages, NoRecordEmpty
  <1>4. y.dir = MappedTo(pr.dir, record, {})
    BY DEF Freed
  <1> HIDE DEF record
  <1>5. \A v \in Pages : y.dir[v].frame = IF v \in Pg(record) THEN v ELSE pr.dir[v].frame
    BY <1>4 DEF MappedTo
  <1>6. \A k \in Heaps : \A v \in HeapPages(k) : y.dir[v].frame = v
    BY <1>5, HeapPagesMapped DEF ProcOK
  <1>7. \A i \in DOMAIN y.allocations : y.allocations[i] = NoRecord \/ Placed(y.allocations[i])
    BY DEF ProcOK, Freed, Cleared
  <1>8. ASSUME NEW b \in y.held PROVE Placed(b) /\ b.size # 0 /\ \A v \in Pg(b) : y.dir[v].frame = v
    <2>1. Placed(b) /\ b.size # 0 /\ \A v \in Pg(b) : pr.dir[v].frame = v
      BY <1>8 DEF ProcOK, Freed
    <2>2. \A v \in Pg(b) : v \in Pages
      BY <2>1, PlacedPages
    <2> QED BY <1>5, <2>1, <2>2
  <1>9. \A v \in ProgramPages \cup StackPages : v \in Pages /\ v \notin Pg(record)
    <2>1. ProgramPages \cup StackPages \subseteq Pages
      BY ProcessAssumption DEF ProgramPages, StackPages
    <2> QED BY <1>3, <2>1
  <1>10. Distinct(y.dir, ProgramPages) /\ Distinct(y.dir, StackPages)
    BY <1>5, <1>9 DEF Distinct, ProcOK
  <1> QED BY <1>6, <1>7, <1>8, <1>10 DEF ProcOK, Freed

-----------------------------------------------------------------------------
(* The pieces of memory in use, and the frames behind them.                *)

Piece(what, owner, a) == [what |-> what, owner |-> owner, a |-> a]

Program == [ptr |-> ProgramPage, size |-> ProgramSize]
Stack == [ptr |-> StackPage, size |-> StackSize]

PiecesOf(p, pr) ==
    IF pr.alive
    THEN {Piece("program", p, Program), Piece("stack", p, Stack)}
            \cup {Piece("malloc", p, a) : a \in pr.held}
    ELSE {}

AreaPieces(ar) == {Piece("area", "kernel", a) : a \in ar}

Pieces(pc, ar) == (UNION {PiecesOf(p, pc[p]) : p \in Procs}) \cup AreaPieces(ar)

FramesIn(d, P) == {d[v].frame : v \in P}

FramesOf(pc, c) ==
    IF c.what = "area" THEN FramesIn(KernelDirectory, Pg(c.a)) ELSE FramesIn(pc[c.owner].dir, Pg(c.a))

Frames(pc, ar) == [c \in Pieces(pc, ar) |-> FramesOf(pc, c)]

(* Different pieces share no frame that is not loose, and what a piece has *)
(* is taken or loose.                                                      *)
Apart(fr, T, L) ==
    /\ \A c, d \in DOMAIN fr : c # d => fr[c] \cap fr[d] \subseteq L
    /\ \A c \in DOMAIN fr : fr[c] \subseteq T \cup L

(* They stay apart when some pieces Z are given that meet no other one,    *)
(* and all others are as they were.                                        *)
LEMMA ApartKept ==
    ASSUME NEW fr, NEW T, NEW L, Apart(fr, T, L), NEW fr2, NEW T2, NEW L2, NEW Z,
           L \subseteq L2, T \subseteq T2 \cup L2,
           \A c \in DOMAIN fr2 : c \in Z \/ (c \in DOMAIN fr /\ fr2[c] = fr[c]),
           \A z \in Z : z \in DOMAIN fr2 =>
              fr2[z] \subseteq T2 \cup L2 /\ \A c \in DOMAIN fr2 : c # z => fr2[z] \cap fr2[c] \subseteq L2
    PROVE  Apart(fr2, T2, L2)
  <1>1. ASSUME NEW c \in DOMAIN fr2 PROVE fr2[c] \subseteq T2 \cup L2
    <2>1. CASE c \in Z
      BY <2>1
    <2>2. CASE c \in DOMAIN fr /\ fr2[c] = fr[c]
      BY <2>2 DEF Apart
    <2> QED BY <2>1, <2>2
  <1>2. ASSUME NEW c \in DOMAIN fr2, NEW d \in DOMAIN fr2, c # d PROVE fr2[c] \cap fr2[d] \subseteq L2
    <2>1. CASE c \in Z
      BY <1>2, <2>1
    <2>2. CASE d \in Z
      BY <1>2, <2>2
    <2>3. CASE c \in DOMAIN fr /\ fr2[c] = fr[c] /\ d \in DOMAIN fr /\ fr2[d] = fr[d]
      BY <1>2, <2>3 DEF Apart
    <2> QED BY <2>1, <2>2, <2>3
  <1> QED BY <1>1, <1>2 DEF Apart

(* Fresh pieces meet no other one. *)
LEMMA ApartFresh ==
    ASSUME NEW fr, NEW T, NEW L, Apart(fr, T, L), NEW fr2, NEW T2, NEW Z,
           T \subseteq T2,
           \A c \in DOMAIN fr2 : c \in Z \/ (c \in DOMAIN fr /\ fr2[c] = fr[c]),
           \A z \in Z : z \in DOMAIN fr2 => fr2[z] \subseteq T2 /\ fr2[z] \cap T = {},
           \A z, y \in Z : z # y /\ z \in DOMAIN fr2 /\ y \in DOMAIN fr2 => fr2[z] \cap fr2[y] = {}
    PROVE  Apart(fr2, T2, L)
  <1>1. ASSUME NEW z \in Z, z \in DOMAIN fr2, NEW c \in DOMAIN fr2, c # z PROVE fr2[z] \cap fr2[c] \subseteq L
    <2>1. CASE c \in Z
      BY <1>1, <2>1
    <2>2. CASE c \in DOMAIN fr /\ fr2[c] = fr[c]
      <3>1. fr[c] \subseteq T \cup L
        BY <2>2 DEF Apart
      <3> QED BY <1>1, <2>2, <3>1
    <2> QED BY <2>1, <2>2
  <1>2. \A z \in Z : z \in DOMAIN fr2 =>
              fr2[z] \subseteq T2 \cup L /\ \A c \in DOMAIN fr2 : c # z => fr2[z] \cap fr2[c] \subseteq L
    BY <1>1
  <1> QED BY <1>2, ApartKept

(* The fields of a piece are what it was made of. *)
LEMMA PieceIs ==
    ASSUME NEW what, NEW owner, NEW a
    PROVE  /\ Piece(what, owner, a).what = what /\ Piece(what, owner, a).owner = owner
           /\ Piece(what, owner, a).a = a
  BY DEF Piece

(* The four kinds of piece are told apart. *)
LEMMA PieceKinds == "program" # "area" /\ "stack" # "area" /\ "malloc" # "area"
                    /\ "program" # "stack" /\ "program" # "malloc" /\ "stack" # "malloc"
  OBVIOUS

(* Whose piece it is. *)
LEMMA InPiecesOf ==
    ASSUME NEW p, NEW pr, NEW c \in PiecesOf(p, pr)
    PROVE  /\ pr.alive /\ c.what # "area" /\ c.owner = p
           /\ \/ c = Piece("program", p, Program)
              \/ c = Piece("stack", p, Stack)
              \/ \E a \in pr.held : c = Piece("malloc", p, a)
  <1>1. pr.alive
    BY DEF PiecesOf
  <1>2. c \in {Piece("program", p, Program), Piece("stack", p, Stack)} \cup {Piece("malloc", p, a) : a \in pr.held}
    BY <1>1 DEF PiecesOf
  <1>3. \/ c = Piece("program", p, Program)
        \/ c = Piece("stack", p, Stack)
        \/ \E a \in pr.held : c = Piece("malloc", p, a)
    BY <1>2
  <1> QED BY <1>1, <1>3, PieceIs, PieceKinds

(* A piece of the kernel's areas is an area, and belongs to the kernel. *)
LEMMA InAreas ==
    ASSUME NEW ar, NEW c \in AreaPieces(ar)
    PROVE  c.what = "area" /\ c.owner = "kernel" /\ c.a \in ar /\ c = Piece("area", "kernel", c.a)
  <1>1. PICK a \in ar : c = Piece("area", "kernel", a)
    BY DEF AreaPieces
  <1>2. c.what = "area" /\ c.owner = "kernel" /\ c.a = a
    BY <1>1, PieceIs
  <1> QED BY <1>1, <1>2

(* A piece belongs to a process or is one of the kernel's areas. *)
LEMMA InPieces ==
    ASSUME NEW pc, NEW ar, NEW c
    PROVE  c \in Pieces(pc, ar) <=> (\E p \in Procs : c \in PiecesOf(p, pc[p])) \/ c \in AreaPieces(ar)
  <1> DEFINE U == {PiecesOf(p, pc[p]) : p \in Procs}
  <1>1. Pieces(pc, ar) = (UNION U) \cup AreaPieces(ar)
    BY DEF Pieces
  <1>2. c \in UNION U <=> \E x \in U : c \in x
    BY Zenon
  <1>3. (\E x \in U : c \in x) <=> \E p \in Procs : c \in PiecesOf(p, pc[p])
    BY Zenon
  <1> HIDE DEF U
  <1>4. c \in Pieces(pc, ar) <=> c \in UNION U \/ c \in AreaPieces(ar)
    BY <1>1
  <1> QED BY <1>2, <1>3, <1>4, Zenon

(* Frames gives every piece its own frames. *)
LEMMA FramesIs ==
    ASSUME NEW pc, NEW ar
    PROVE  /\ DOMAIN Frames(pc, ar) = Pieces(pc, ar)
           /\ \A c \in Pieces(pc, ar) : Frames(pc, ar)[c] = FramesOf(pc, c)
  BY DEF Frames

(* Pages that are mapped to themselves. *)
LEMMA IdentityFrames ==
    ASSUME NEW d, NEW P, \A v \in P : d[v].frame = v
    PROVE  FramesIn(d, P) = P
  BY DEF FramesIn

(* Two page tables that agree on some pages reach the same frames through  *)
(* them.                                                                   *)
LEMMA SameFrames ==
    ASSUME NEW d, NEW e, NEW P, \A v \in P : d[v].frame = e[v].frame
    PROVE  FramesIn(d, P) = FramesIn(e, P)
  BY DEF FramesIn

(* The program and the stack are pieces of their fixed pages. *)
LEMMA ProgramIs ==
    Pg(Program) = ProgramPages /\ Pg(Stack) = StackPages /\ Program \in Rec /\ Stack \in Rec
  BY Sizes DEF Pg, Program, Stack, ProgramPages, StackPages, Rec

(* The frames of what a process has. *)
LEMMA FramesOfProcess ==
    ASSUME NEW pc, NEW p
    PROVE  /\ FramesOf(pc, Piece("program", p, Program)) = FramesIn(pc[p].dir, ProgramPages)
           /\ FramesOf(pc, Piece("stack", p, Stack)) = FramesIn(pc[p].dir, StackPages)
  BY PieceIs, PieceKinds, ProgramIs DEF FramesOf

(* What a process allocated is mapped on itself: its frames are its pages. *)
LEMMA FramesOfHeld ==
    ASSUME NEW pc, NEW p, NEW y, y = pc[p], ProcOK(y), NEW a \in y.held
    PROVE  FramesOf(pc, Piece("malloc", p, a)) = Pg(a)
  <1>1. FramesIn(pc[p].dir, Pg(a)) = Pg(a)
    BY IdentityFrames DEF ProcOK
  <1> QED BY <1>1, PieceIs, PieceKinds DEF FramesOf

(* One process replaced: the pieces of all others are as they were. *)
LEMMA OneProcess ==
    ASSUME NEW pc, pc = [q \in Procs |-> pc[q]], NEW p \in Procs, NEW y, NEW pc2, pc2 = [pc EXCEPT ![p] = y],
           NEW ar, NEW c \in Pieces(pc2, ar)
    PROVE  \/ c \in PiecesOf(p, y)
           \/ c \in Pieces(pc, ar) /\ FramesOf(pc2, c) = FramesOf(pc, c)
  <1>1. pc2[p] = y /\ \A q \in Procs : q # p => pc2[q] = pc[q]
    OBVIOUS
  <1>2. CASE c \in AreaPieces(ar)
    <2>1. c.what = "area"
      BY <1>2, InAreas
    <2> QED BY <1>2, <2>1, InPieces DEF FramesOf
  <1>3. ASSUME NEW q \in Procs, c \in PiecesOf(q, pc2[q])
        PROVE  \/ c \in PiecesOf(p, y)
               \/ c \in Pieces(pc, ar) /\ FramesOf(pc2, c) = FramesOf(pc, c)
    <2>1. CASE q = p
      BY <1>1, <1>3, <2>1
    <2>2. CASE q # p
      <3>1. pc2[q] = pc[q] /\ c \in PiecesOf(q, pc[q])
        BY <1>1, <1>3, <2>2
      <3>2. c.owner = q
        BY <3>1, InPiecesOf
      <3>3. c \in Pieces(pc, ar)
        BY <3>1, InPieces
      <3> QED BY <3>1, <3>2, <3>3 DEF FramesOf
    <2> QED BY <2>1, <2>2
  <1> QED BY <1>2, <1>3, InPieces

(* What becomes of the frames when a process has more, or less: only the   *)
(* pieces in Z are new.                                                    *)
Changed(fr, fr2, p, y, Z) ==
    /\ \A c \in DOMAIN fr2 : c \in Z \/ (c \in DOMAIN fr /\ fr2[c] = fr[c])
    /\ \A b \in y.held : Piece("malloc", p, b) \in DOMAIN fr2 /\ fr2[Piece("malloc", p, b)] = Pg(b)
    /\ \A c \in DOMAIN fr2 : c.what = "malloc" /\ c.owner = p => c.a \in y.held

(* One process has more, or less: its program and stack stay, and so does  *)
(* what it held before.                                                    *)
LEMMA OneChanged ==
    ASSUME NEW pc, pc = [q \in Procs |-> pc[q]], NEW p \in Procs, ProcOK(pc[p]), NEW y, ProcOK(y),
           NEW pc2, pc2 = [pc EXCEPT ![p] = y], NEW ar, NEW Z,
           \A v \in ProgramPages \cup StackPages : y.dir[v].frame = pc[p].dir[v].frame,
           \A b \in y.held : b \in pc[p].held \/ Piece("malloc", p, b) \in Z
    PROVE  Changed(Frames(pc, ar), Frames(pc2, ar), p, y, Z)
  <1>0. pc2[p] = y /\ ProcOK(pc2[p]) /\ y.alive /\ pc[p].alive
    <2>1. pc2[p] = y
      OBVIOUS
    <2>2. y.alive /\ pc[p].alive
      BY DEF ProcOK, Shape
    <2> QED BY <2>1, <2>2
  <1>1. ASSUME NEW c \in Pieces(pc2, ar)
        PROVE  c \in Z \/ (c \in Pieces(pc, ar) /\ FramesOf(pc2, c) = FramesOf(pc, c))
    <2>1. CASE c \in PiecesOf(p, y)
      <3>0. \/ c = Piece("program", p, Program)
            \/ c = Piece("stack", p, Stack)
            \/ \E a \in y.held : c = Piece("malloc", p, a)
        BY <2>1, InPiecesOf
      <3>1. CASE c = Piece("program", p, Program)
        <4>1. c \in PiecesOf(p, pc[p])
          BY <1>0, <3>1 DEF PiecesOf
        <4>2. FramesIn(y.dir, ProgramPages) = FramesIn(pc[p].dir, ProgramPages)
          BY SameFrames
        <4> QED BY <1>0, <3>1, <4>1, <4>2, FramesOfProcess, InPieces
      <3>2. CASE c = Piece("stack", p, Stack)
        <4>1. c \in PiecesOf(p, pc[p])
          BY <1>0, <3>2 DEF PiecesOf
        <4>2. FramesIn(y.dir, StackPages) = FramesIn(pc[p].dir, StackPages)
          BY SameFrames
        <4> QED BY <1>0, <3>2, <4>1, <4>2, FramesOfProcess, InPieces
      <3>3. ASSUME NEW a \in y.held, c = Piece("malloc", p, a)
            PROVE  c \in Z \/ (c \in Pieces(pc, ar) /\ FramesOf(pc2, c) = FramesOf(pc, c))
        <4>1. CASE c \in Z
          BY <4>1
        <4>2. CASE a \in pc[p].held
          <5>1. c \in PiecesOf(p, pc[p])
            BY <1>0, <3>3, <4>2 DEF PiecesOf
          <5>2. FramesOf(pc2, c) = Pg(a) /\ FramesOf(pc, c) = Pg(a)
            BY <1>0, <3>3, <4>2, FramesOfHeld
          <5> QED BY <5>1, <5>2, InPieces
        <4> QED BY <3>3, <4>1, <4>2
      <3> QED BY <3>0, <3>1, <3>2, <3>3
    <2> QED BY <2>1, OneProcess
  <1>2. ASSUME NEW b \in y.held
        PROVE  Piece("malloc", p, b) \in Pieces(pc2, ar) /\ FramesOf(pc2, Piece("malloc", p, b)) = Pg(b)
    <2>1. Piece("malloc", p, b) \in PiecesOf(p, pc2[p])
      BY <1>0 DEF PiecesOf
    <2> QED BY <1>0, <2>1, FramesOfHeld, InPieces
  <1>3. ASSUME NEW c \in Pieces(pc2, ar), c.what = "malloc", c.owner = p PROVE c.a \in y.held
    <2>1. c \notin AreaPieces(ar)
      BY <1>3, InAreas, PieceKinds
    <2>2. PICK q \in Procs : c \in PiecesOf(q, pc2[q])
      BY <2>1, InPieces
    <2>3. q = p
      BY <1>3, <2>2, InPiecesOf
    <2>4. \/ c = Piece("program", p, Program)
          \/ c = Piece("stack", p, Stack)
          \/ \E a \in y.held : c = Piece("malloc", p, a)
      BY <1>0, <2>2, <2>3, InPiecesOf
    <2> QED BY <1>3, <2>4, PieceIs, PieceKinds
  <1> QED BY <1>1, <1>2, <1>3, FramesIs DEF Changed

-----------------------------------------------------------------------------
(* The invariant of memory, and the steps that keep it.                    *)

MemInv ==
    /\ KernelOK(mh, areas)
    /\ ProcsOK(proc)
    /\ Apart(Frames(proc, areas), TakenFrames(mh), loose)

(* The kernel keeps its areas whatever becomes of the heaps' tables. *)
LEMMA KernelKept ==
    ASSUME NEW m, NEW ar, KernelOK(m, ar), NEW q, MultiHeapOK(q)
    PROVE  KernelOK(q, ar)
  BY DEF KernelOK

(* A living process. *)
LEMMA LivingOK ==
    ASSUME ProcsOK(proc), NEW p \in Alive
    PROVE  p \in Procs /\ ProcOK(proc[p]) /\ Shape(proc[p]) /\ proc = [q \in Procs |-> proc[q]]
  <1>1. p \in Procs /\ proc[p].alive
    BY DEF Alive
  <1>2. proc[p] # Dead
    BY <1>1 DEF Dead
  <1> QED BY <1>1, <1>2 DEF ProcsOK, ProcOK

(* One process replaced by one that is in order. *)
LEMMA ProcsReplaced ==
    ASSUME NEW pc, ProcsOK(pc), NEW p \in Procs, NEW y, ProcOK(y) \/ y = Dead, NEW pc2, pc2 = [pc EXCEPT ![p] = y]
    PROVE  ProcsOK(pc2) /\ pc2[p] = y /\ \A q \in Procs : q # p => pc2[q] = pc[q]
  <1>1. pc = [q \in Procs |-> pc[q]]
    BY DEF ProcsOK
  <1>2. pc2[p] = y /\ (\A q \in Procs : q # p => pc2[q] = pc[q]) /\ pc2 = [q \in Procs |-> pc2[q]]
    BY <1>1
  <1> QED BY <1>2 DEF ProcsOK

(* Nobody's memory changes. *)
SameMemory(pc, pc2) ==
    \A p \in Procs : /\ pc2[p].alive = pc[p].alive
                     /\ pc[p].alive => pc2[p].dir = pc[p].dir /\ pc2[p].held = pc[p].held
                                       /\ pc2[p].allocations = pc[p].allocations

(* Steps that leave allocations, page tables and areas alone leave every   *)
(* piece's frames alone.                                                   *)
LEMMA SamePieces ==
    ASSUME NEW pc, NEW pc2, SameMemory(pc, pc2), NEW ar
    PROVE  Frames(pc2, ar) = Frames(pc, ar)
  <1>1. ASSUME NEW p \in Procs PROVE PiecesOf(p, pc2[p]) = PiecesOf(p, pc[p])
    BY DEF PiecesOf, SameMemory
  <1>2. Pieces(pc2, ar) = Pieces(pc, ar)
    <2>1. \A c : c \in Pieces(pc2, ar) <=> c \in Pieces(pc, ar)
      BY <1>1, InPieces
    <2> QED BY <2>1
  <1>3. ASSUME NEW c \in Pieces(pc, ar) PROVE FramesOf(pc2, c) = FramesOf(pc, c)
    <2>1. CASE c \in AreaPieces(ar)
      <3>1. c.what = "area"
        BY <2>1, InAreas
      <3> QED BY <3>1 DEF FramesOf
    <2>2. ASSUME NEW p \in Procs, c \in PiecesOf(p, pc[p]) PROVE FramesOf(pc2, c) = FramesOf(pc, c)
      <3>1. c.owner = p /\ pc[p].alive
        BY <2>2, InPiecesOf
      <3>2. pc2[p].dir = pc[p].dir
        BY <3>1 DEF SameMemory
      <3> QED BY <3>1, <3>2 DEF FramesOf
    <2> QED BY <2>1, <2>2, InPieces
  <1> QED BY <1>2, <1>3 DEF Frames

(* A step that changes nobody's memory, though it may take some. *)
Quiet ==
    /\ MultiHeapOK(mh') /\ Grows(mh, mh') /\ (AllSound(mh) => AllSound(mh'))
    /\ UNCHANGED <<areas, loose>>
    /\ SameMemory(proc, proc') /\ ProcsOK(proc')

(* A step that touches neither heap nor pieces keeps the memory invariant. *)
LEMMA QuietKeeps ==
    ASSUME MemInv, Quiet
    PROVE  MemInv'
  <1>1. KernelOK(mh', areas)
    BY KernelKept DEF MemInv, Quiet, Grows
  <1>2. Frames(proc', areas) = Frames(proc, areas)
    BY SamePieces DEF Quiet
  <1>3. TakenFrames(mh) \subseteq TakenFrames(mh')
    BY DEF Quiet, Grows
  <1>4. Apart(Frames(proc', areas), TakenFrames(mh'), loose)
    BY <1>2, <1>3 DEF Apart, MemInv
  <1> QED BY <1>1, <1>4 DEF MemInv, Quiet

(* The handles of a process are none of its memory. *)
LEMMA HandlesReplaced ==
    ASSUME NEW pc, ProcsOK(pc), NEW p \in Procs, ProcOK(pc[p]), NEW hs, NEW pc2, pc2 = [pc EXCEPT ![p].handles = hs]
    PROVE  ProcsOK(pc2) /\ SameMemory(pc, pc2)
  <1> DEFINE pr == pc[p]
             y == [pr EXCEPT !.handles = hs]
  <1>1. pc = [q \in Procs |-> pc[q]]
    BY DEF ProcsOK
  <1>2. pc2[p] = y /\ (\A q \in Procs : q # p => pc2[q] = pc[q]) /\ pc2 = [q \in Procs |-> pc2[q]]
    BY <1>1
  <1>3. pr \in [alive : {TRUE}, dir : Directory, allocations : Seq(Rec), handles : {pr.handles}, held : SUBSET Rec]
    BY DEF ProcOK, Shape
  <1> HIDE DEF pr
  <1>4. /\ y \in [alive : {TRUE}, dir : Directory, allocations : Seq(Rec), handles : {hs}, held : SUBSET Rec]
        /\ y.handles = hs /\ y.dir = pr.dir /\ y.held = pr.held /\ y.allocations = pr.allocations /\ y.alive = pr.alive
    BY <1>3
  <1> HIDE DEF y
  <1>5. ProcOK(y)
    BY <1>4 DEF ProcOK, Shape, pr
  <1>6. ProcsOK(pc2) /\ pc2[p] = y /\ \A q \in Procs : q # p => pc2[q] = pc[q]
    BY <1>2, <1>5 DEF ProcsOK
  <1> QED BY <1>4, <1>6 DEF SameMemory, pr

(* A run of pages is taken from a heap, all of it at once. *)
TakesRun(m, q, a) ==
    /\ MultiHeapOK(q) /\ Grows(m, q) /\ (AllSound(m) => AllSound(q))
    /\ a \in Rec /\ a.size # 0 /\ Placed(a)
    /\ \E k \in Heaps :
          /\ S(k) <= a.ptr /\ a.ptr + BlocksFor(a.size) <= S(k) + N(k)
          /\ \A i \in a.ptr - S(k) .. a.ptr - S(k) + BlocksFor(a.size) - 2 : Chained(q[k], i)
    /\ Pg(a) \cap TakenFrames(m) = {}
    /\ TakenFrames(q) = TakenFrames(m) \cup Pg(a)

(* multiheap_alloc either gives NULL and changes nothing, or takes a run   *)
(* of free blocks of one heap.                                             *)
LEMMA RunTaken ==
    ASSUME NEW m, MultiHeapOK(m), NEW size \in Nat, NEW r, r = multiheap_alloc(m, size)
    PROVE  /\ MultiHeapOK(r.mh) /\ Grows(m, r.mh) /\ (AllSound(m) => AllSound(r.mh))
           /\ r.ptr = NULL => r.mh = m
           /\ r.ptr # NULL => TakesRun(m, r.mh, [ptr |-> r.ptr, size |-> size])
  <1> DEFINE n == BlocksFor(size)
             a == [ptr |-> r.ptr, size |-> size]
             p == r.ptr
             q == r.mh
  <1>1. Alloced(r, m, n)
    BY Alloc
  <1>2. /\ MultiHeapOK(q) /\ Grows(m, q)
        /\ AllSound(m) => AllSound(q)
        /\ p = NULL => q = m
        /\ p # NULL =>
              /\ n \in Nat /\ n > 0 /\ p \in Nat
              /\ \E k \in Heaps :
                    /\ S(k) <= p /\ p + n <= S(k) + N(k)
                    /\ \A i \in p - S(k) .. p - S(k) + n - 2 : Chained(q[k], i)
              /\ (p .. p + n - 1) \cap TakenFrames(m) = {}
              /\ TakenFrames(q) = TakenFrames(m) \cup (p .. p + n - 1)
    BY <1>1 DEF Alloced
  <1>3. ASSUME p # NULL PROVE TakesRun(m, q, a)
    <2>0. n \in Nat /\ n > 0 /\ p \in Nat
      BY <1>2, <1>3
    <2>1. a \in Rec /\ a.ptr = p /\ a.size = size
      BY <2>0 DEF Rec
    <2>2. size # 0
      BY <2>0, BlocksForBytes
    <2>3. BlocksFor(a.size) = n /\ Pg(a) = p .. p + n - 1
      BY <2>1 DEF Pg, PagesOf
    <2> HIDE DEF a, n
    <2>4. PICK k \in Heaps :
             /\ S(k) <= p /\ p + n <= S(k) + N(k)
             /\ \A i \in p - S(k) .. p - S(k) + n - 2 : Chained(q[k], i)
      BY <1>2, <1>3, Zenon
    <2>5. Placed(a)
      <3>1. S(k) <= a.ptr /\ a.ptr <= S(k) + N(k) - 1 /\ a.ptr + BlocksFor(a.size) <= S(k) + N(k) + Slack
        BY <2>0, <2>1, <2>3, <2>4, Layouts
      <3> QED BY <2>1, <3>1 DEF Placed
    <2>6. \E l \in Heaps :
             /\ S(l) <= a.ptr /\ a.ptr + BlocksFor(a.size) <= S(l) + N(l)
             /\ \A i \in a.ptr - S(l) .. a.ptr - S(l) + BlocksFor(a.size) - 2 : Chained(q[l], i)
      BY <2>1, <2>3, <2>4
    <2>7. Pg(a) \cap TakenFrames(m) = {} /\ TakenFrames(q) = TakenFrames(m) \cup Pg(a)
      BY <1>2, <1>3, <2>3
    <2> QED BY <1>2, <2>1, <2>2, <2>5, <2>6, <2>7 DEF TakesRun
  <1> QED BY <1>2, <1>3

(* What process_malloc, or process_realloc, makes of process pr when it    *)
(* gives it a in place of the pieces in gone.                              *)
Given(pr, y, index, a, gone) ==
    /\ Shape(y)
    /\ y.dir = MappedTo(pr.dir, a, UserFlags)
    /\ DOMAIN y.allocations = DOMAIN pr.allocations \cup {index}
    /\ \A i \in DOMAIN y.allocations : y.allocations[i] = IF i = index THEN a ELSE pr.allocations[i]
    /\ y.held = (pr.held \ gone) \cup {a}

(* Giving a process a placed piece keeps its record sound, and its program *)
(* and stack where they were.                                              *)
LEMMA GivenKeeps ==
    ASSUME NEW pr, ProcOK(pr), NEW y, NEW index, NEW a, Placed(a), a.size # 0, NEW gone, Given(pr, y, index, a, gone)
    PROVE  ProcOK(y) /\ \A v \in ProgramPages \cup StackPages : y.dir[v].frame = pr.dir[v].frame
  <1>1. ProcOK(y)
    <2>1. GivenTo(pr, [y EXCEPT !.held = pr.held, !.handles = pr.handles], index, a)
      <3> DEFINE x == [y EXCEPT !.held = pr.held, !.handles = pr.handles]
      <3>1. y \in [alive : {TRUE}, dir : Directory, allocations : Seq(Rec), handles : {y.handles}, held : SUBSET Rec]
        BY DEF Given, Shape
      <3>2. pr.held \in SUBSET Rec
        BY DEF ProcOK, Shape
      <3>3. /\ x \in [alive : {TRUE}, dir : Directory, allocations : Seq(Rec), handles : {pr.handles}, held : SUBSET Rec]
            /\ x.dir = y.dir /\ x.allocations = y.allocations /\ x.held = pr.held /\ x.handles = pr.handles
        BY <3>1, <3>2
      <3> HIDE DEF x
      <3>4. GivenTo(pr, x, index, a)
        BY <3>3 DEF GivenTo, Given, Shape
      <3> QED BY <3>4 DEF x
    <2> DEFINE x == [y EXCEPT !.held = pr.held, !.handles = pr.handles]
    <2>2. y \in [alive : {TRUE}, dir : Directory, allocations : Seq(Rec), handles : {y.handles}, held : SUBSET Rec]
      BY DEF Given, Shape
    <2>3. y.dir = x.dir /\ y.allocations = x.allocations
      BY <2>2
    <2>4. y.held \subseteq pr.held \cup {a} /\ Shape(y)
      BY DEF Given
    <2> HIDE DEF x
    <2> QED BY <2>1, <2>3, <2>4, GivenOK DEF x
  <1>2. ASSUME NEW v \in ProgramPages \cup StackPages PROVE y.dir[v].frame = pr.dir[v].frame
    <2>1. v \in Pages /\ v \notin Pg(a)
      BY ProcessAssumption, PlacedPages DEF ProgramPages, StackPages
    <2> QED BY <2>1 DEF Given, MappedTo
  <1> QED BY <1>1, <1>2

(* The records of a process: where the next one goes. *)
LEMMA FreeIndexIn ==
    ASSUME NEW s \in Seq(Rec)
    PROVE  /\ FreeIndex(s) \in 1 .. Len(s) + 1
           /\ FreeIndex(s) \in DOMAIN s => s[FreeIndex(s)].ptr = NULL
  <1>1. CASE RecordsOf(s, NULL) = {}
    BY <1>1 DEF FreeIndex
  <1>2. CASE RecordsOf(s, NULL) # {}
    BY <1>2, RecordFound DEF FreeIndex
  <1> QED BY <1>1, <1>2

(* process_malloc gives a run of free pages, or nothing. *)
MallocStep(p, size) ==
    \E a \in Rec :
        /\ a.size = size /\ TakesRun(mh, mh', a)
        /\ proc' = [proc EXCEPT ![p] = proc'[p]]
        /\ Given(proc[p], proc'[p], FreeIndex(proc[p].allocations), a, {})
        /\ UNCHANGED <<areas, loose, panic>>

(* process_malloc fails without an effect or takes one run of blocks and   *)
(* gives it to the caller.                                                 *)
LEMMA MallocDoes ==
    ASSUME MemInv, NEW p \in Alive, NEW size \in MallocSizes, process_malloc(p, size)
    PROVE  (Quiet /\ UNCHANGED panic) \/ MallocStep(p, size)
  <1> DEFINE r == multiheap_alloc(mh, size)
             pr == proc[p]
             index == FreeIndex(pr.allocations)
             a == [ptr |-> r.ptr, size |-> size]
             x == process_allocation_set_map(pr, index, r.ptr, size)
             h == x.held \cup {a}
             y == [x EXCEPT !.held = h]
  <1>1. /\ MultiHeapOK(mh) /\ p \in Procs /\ ProcOK(pr) /\ Shape(pr) /\ proc = [q \in Procs |-> proc[q]] /\ size \in Nat
        /\ ProcsOK(proc)
    BY LivingOK, Sizes DEF MemInv, KernelOK
  <1>2. /\ MultiHeapOK(r.mh) /\ Grows(mh, r.mh) /\ (AllSound(mh) => AllSound(r.mh))
        /\ r.ptr = NULL => r.mh = mh
        /\ r.ptr # NULL => TakesRun(mh, r.mh, a)
    BY <1>1, RunTaken
  <1>3. /\ mh' = r.mh /\ UNCHANGED <<areas, loose, panic>>
        /\ proc' = IF r.ptr = NULL THEN proc ELSE [proc EXCEPT ![p] = Allocated(@, r.ptr, size)]
    BY DEF process_malloc
  <1>4. CASE r.ptr = NULL
    <2>1. proc' = proc
      BY <1>3, <1>4
    <2>2. SameMemory(proc, proc') /\ ProcsOK(proc')
      BY <1>1, <2>1 DEF SameMemory
    <2> QED BY <1>2, <1>3, <2>2 DEF Quiet
  <1>5. CASE r.ptr # NULL
    <2>0. a \in Rec /\ TakesRun(mh, mh', a) /\ a.size = size
      BY <1>2, <1>3, <1>5 DEF TakesRun
    <2>1. index \in 1 .. Len(pr.allocations) + 1
      BY <1>1, FreeIndexIn DEF Shape
    <2>2. GivenTo(pr, x, index, a)
      BY <1>1, <2>0, <2>1, SetMap
    <2>3. Allocated(pr, r.ptr, size) = y
      BY DEF Allocated
    <2>4. Shape(x) /\ h \in SUBSET Rec /\ x.held = pr.held
      <3>1. Shape(x) /\ x.held = pr.held
        BY <2>2 DEF GivenTo
      <3>2. pr.held \in SUBSET Rec
        BY <1>1 DEF Shape
      <3> HIDE DEF x, a
      <3> QED BY <2>0, <3>1, <3>2
    <2> HIDE DEF x, a, index
    <2>5. Shape(y) /\ y.held = h /\ y.dir = x.dir /\ y.allocations = x.allocations
      <3> HIDE DEF h
      <3> QED BY <2>4, HeldReplaced
    <2>6. proc' = [proc EXCEPT ![p] = y]
      BY <1>3, <1>5, <2>3
    <2> HIDE DEF y
    <2>7. proc'[p] = y /\ proc' = [proc EXCEPT ![p] = proc'[p]]
      BY <1>1, <2>6
    <2>8. y.held = (pr.held \ {}) \cup {a}
      BY <2>4, <2>5
    <2>9. Given(pr, y, index, a, {})
      BY <2>2, <2>5, <2>8 DEF Given, GivenTo
    <2> QED BY <1>3, <2>0, <2>7, <2>9 DEF MallocStep, index
  <1> QED BY <1>4, <1>5

(* process_malloc keeps the pieces apart. *)
LEMMA MallocKeepsApart ==
    ASSUME MemInv, NEW p \in Alive, NEW size, MallocStep(p, size)
    PROVE  MemInv'
  <1>1. PICK a \in Rec :
             /\ a.size = size /\ TakesRun(mh, mh', a)
             /\ proc' = [proc EXCEPT ![p] = proc'[p]]
             /\ Given(proc[p], proc'[p], FreeIndex(proc[p].allocations), a, {})
             /\ UNCHANGED <<areas, loose, panic>>
    BY DEF MallocStep
  <1> DEFINE y == proc'[p]
             Z == {Piece("malloc", p, a)}
             fr == Frames(proc, areas)
             fr2 == Frames(proc', areas)
  <1>2. /\ p \in Procs /\ ProcOK(proc[p]) /\ proc = [q \in Procs |-> proc[q]] /\ ProcsOK(proc)
        /\ KernelOK(mh, areas) /\ Apart(fr, TakenFrames(mh), loose)
    BY LivingOK DEF MemInv
  <1>3. ProcOK(y) /\ \A v \in ProgramPages \cup StackPages : y.dir[v].frame = proc[p].dir[v].frame
    <2>1. Placed(a) /\ a.size # 0
      BY <1>1 DEF TakesRun
    <2> QED BY <1>1, <1>2, <2>1, GivenKeeps
  <1>4. ProcsOK(proc')
    BY <1>1, <1>2, <1>3, ProcsReplaced
  <1>5. KernelOK(mh', areas)
    <2>1. MultiHeapOK(mh')
      BY <1>1 DEF TakesRun
    <2> QED BY <1>2, <2>1, KernelKept
  <1>6. \A b \in y.held : b \in proc[p].held \/ Piece("malloc", p, b) \in Z
    BY <1>1 DEF Given
  <1>7. a \in y.held
    BY <1>1 DEF Given
  <1> HIDE DEF y, Z
  <1>8. proc' = [proc EXCEPT ![p] = y]
    BY <1>1 DEF y
  <1>8a. Changed(fr, fr2, p, y, Z)
    BY <1>2, <1>3, <1>6, <1>8, OneChanged
  <1> HIDE DEF fr, fr2
  <1>9. /\ \A c \in DOMAIN fr2 : c \in Z \/ (c \in DOMAIN fr /\ fr2[c] = fr[c])
        /\ \A b \in y.held : /\ Piece("malloc", p, b) \in DOMAIN fr2
                             /\ fr2[Piece("malloc", p, b)] = Pg(b)
    BY <1>8a DEF Changed
  <1>10. \A z \in Z : fr2[z] = Pg(a)
    BY <1>7, <1>9 DEF Z
  <1>11. TakenFrames(mh) \subseteq TakenFrames(mh') /\ Pg(a) \subseteq TakenFrames(mh') /\ Pg(a) \cap TakenFrames(mh) = {}
    BY <1>1 DEF TakesRun
  <1>12. \A z \in Z, w \in Z : z = w
    BY DEF Z
  <1>13. Apart(fr2, TakenFrames(mh'), loose)
    <2>1. \A z \in Z : z \in DOMAIN fr2 => fr2[z] \subseteq TakenFrames(mh') /\ fr2[z] \cap TakenFrames(mh) = {}
      BY <1>10, <1>11
    <2>2. \A z, w \in Z : z # w /\ z \in DOMAIN fr2 /\ w \in DOMAIN fr2 => fr2[z] \cap fr2[w] = {}
      BY <1>12
    <2>3. TakenFrames(mh) \subseteq TakenFrames(mh')
      BY <1>11
    <2>4. \A c \in DOMAIN fr2 : c \in Z \/ (c \in DOMAIN fr /\ fr2[c] = fr[c])
      BY <1>9
    <2>5. Apart(fr, TakenFrames(mh), loose)
      BY <1>2
    <2> QED BY <2>1, <2>2, <2>3, <2>4, <2>5, ApartFresh
  <1> QED BY <1>1, <1>4, <1>5, <1>13 DEF MemInv, fr2

(* process_free keeps them apart. *)
FreeStep(p, a) ==
    /\ a \in proc[p].held
    /\ proc' = [proc EXCEPT ![p] = proc'[p]]
    /\ Freed(proc[p], proc'[p], a)
    /\ loose' = loose \cup (Pg(a) \ Pg(FirstRecord(proc[p].allocations, a.ptr)))
    /\ UNCHANGED <<mh, areas, panic>>

(* process_free drops one piece of the caller and gives blocks back, or    *)
(* lets them go.                                                           *)
LEMMA FreeDoes ==
    ASSUME MemInv, NEW p \in Alive, NEW a, process_free(p, a)
    PROVE  FreeStep(p, a)
  <1> DEFINE pr == proc[p]
             record == FirstRecord(pr.allocations, a.ptr)
             y == [pr EXCEPT !.held = @ \ {a}, !.dir = Unmapped(pr, record),
                       !.allocations = [i \in DOMAIN @ |-> IF i \in RecordsOf(pr.allocations, a.ptr) THEN NoRecord ELSE @[i]]]
  <1>1. p \in Procs /\ Shape(pr) /\ proc = [q \in Procs |-> proc[q]]
    BY LivingOK DEF MemInv
  <1>2. /\ a \in pr.held
        /\ proc' = [proc EXCEPT ![p] = y]
        /\ loose' = loose \cup (PagesOf(a.ptr, a.size) \ PagesOf(record.ptr, record.size))
        /\ UNCHANGED <<mh, areas, panic>>
    BY DEF process_free, FirstRecord
  <1>3. Freed(pr, y, a)
    <2> HIDE DEF record
    <2>1. record = FirstRecord(pr.allocations, a.ptr)
      BY DEF record
    <2> QED BY <1>1, <2>1, FreeIs
  <1> HIDE DEF y
  <1>4. proc'[p] = y
    BY <1>1, <1>2
  <1> QED BY <1>2, <1>3, <1>4 DEF FreeStep, Pg

(* process_free keeps the memory invariant: what it gives back belonged to *)
(* the caller alone.                                                       *)
LEMMA FreeKeepsApart ==
    ASSUME MemInv, NEW p \in Alive, NEW a, FreeStep(p, a)
    PROVE  MemInv'
  <1> DEFINE y == proc'[p]
             fr == Frames(proc, areas)
             fr2 == Frames(proc', areas)
             Z == {}
  <1>1. /\ p \in Procs /\ ProcOK(proc[p]) /\ proc = [q \in Procs |-> proc[q]] /\ ProcsOK(proc)
        /\ KernelOK(mh, areas) /\ Apart(fr, TakenFrames(mh), loose)
    BY LivingOK DEF MemInv
  <1>2. /\ proc' = [proc EXCEPT ![p] = y] /\ Freed(proc[p], y, a)
        /\ loose \subseteq loose' /\ UNCHANGED <<mh, areas>>
    BY DEF FreeStep
  <1> HIDE DEF y
  <1>3. ProcOK(y)
    BY <1>1, <1>2, FreedOK
  <1>4. ProcsOK(proc')
    BY <1>1, <1>2, <1>3, ProcsReplaced
  <1>5. ASSUME NEW v \in ProgramPages \cup StackPages PROVE y.dir[v].frame = proc[p].dir[v].frame
    <2> DEFINE record == FirstRecord(proc[p].allocations, a.ptr)
    <2>1. record = NoRecord \/ Placed(record)
      BY <1>1, RecordFound DEF FirstRecord, ProcOK, Shape
    <2>2. v \notin Pg(record)
      BY <2>1, PlacedPages, NoRecordEmpty
    <2>3. v \in Pages
      BY ProcessAssumption DEF ProgramPages, StackPages
    <2> HIDE DEF record
    <2>4. y.dir = MappedTo(proc[p].dir, record, {})
      BY <1>2 DEF Freed, record
    <2> QED BY <2>2, <2>3, <2>4 DEF MappedTo
  <1>6. \A b \in y.held : b \in proc[p].held \/ Piece("malloc", p, b) \in Z
    BY <1>2 DEF Freed
  <1>7. \A c \in DOMAIN fr2 : c \in Z \/ (c \in DOMAIN fr /\ fr2[c] = fr[c])
    <2> HIDE DEF Z
    <2>1. Changed(fr, fr2, p, y, Z)
      BY <1>1, <1>2, <1>3, <1>5, <1>6, OneChanged
    <2> HIDE DEF fr, fr2
    <2> QED BY <2>1 DEF Changed
  <1> HIDE DEF fr, fr2
  <1>8. Apart(fr2, TakenFrames(mh), loose')
    BY <1>1, <1>2, <1>7 DEF Apart
  <1> QED BY <1>1, <1>2, <1>4, <1>8 DEF MemInv, fr2

(* The frames of what a living process holds. *)
LEMMA HeldFrames ==
    ASSUME NEW pc, NEW ar, NEW p \in Procs, ProcOK(pc[p]), NEW a \in pc[p].held
    PROVE  /\ Piece("malloc", p, a) \in DOMAIN Frames(pc, ar)
           /\ Frames(pc, ar)[Piece("malloc", p, a)] = Pg(a)
  <1>1. pc[p].alive
    BY DEF ProcOK, Shape
  <1>2. Piece("malloc", p, a) \in PiecesOf(p, pc[p])
    BY <1>1 DEF PiecesOf
  <1>3. Piece("malloc", p, a) \in Pieces(pc, ar)
    BY <1>2, InPieces
  <1>4. FramesOf(pc, Piece("malloc", p, a)) = Pg(a)
    BY FramesOfHeld
  <1> QED BY <1>3, <1>4, FramesIs

(* The record that process_realloc works on. *)
LEMMA FoundIndexIn ==
    ASSUME NEW s \in Seq(Rec), s # <<>>, NEW ptr
    PROVE  FoundIndex(s, ptr) \in DOMAIN s
  <1>1. Len(s) \in Nat /\ Len(s) # 0 /\ DOMAIN s = 1 .. Len(s)
    OBVIOUS
  <1>2. CASE RecordsOf(s, ptr) = {}
    BY <1>1, <1>2 DEF FoundIndex
  <1>3. CASE RecordsOf(s, ptr) # {}
    BY <1>3, RecordFound DEF FoundIndex
  <1> QED BY <1>2, <1>3

(* process_realloc keeps what the process has, or less of it, when it      *)
(* finds no memory.                                                        *)
Less(pr, y, gone) ==
    /\ Shape(y) /\ y.dir = pr.dir /\ y.allocations = pr.allocations
    /\ y.held = pr.held \ gone

(* What it lets go of: b is what it gave, record the one that it found. *)
LetGoOf(m, q, a, b, given, record) ==
    (TakenFrames(m) \ TakenFrames(q))
        \cup (IF given
              THEN (Pg(b) \ (Pg(a) \cup (TakenFrames(q) \ TakenFrames(m))))
                      \cup (IF record.ptr # a.ptr THEN Pg(record) ELSE {})
              ELSE {})

ReallocStep(p, a, size) ==
    \E r, b, index :
        /\ a \in proc[p].held \cup {NoRecord}
        /\ Cardinality(loose) < MaxLoose
        /\ r = multiheap_realloc(mh, a.ptr, size) /\ mh' = r.mh
        /\ MultiRealloced(r, mh, a.ptr, size, BlocksFor(size))
        /\ b = [ptr |-> r.ptr, size |-> size]
        /\ index = FoundIndex(proc[p].allocations, a.ptr) /\ index \in DOMAIN proc[p].allocations
        /\ proc' = [proc EXCEPT ![p] = proc'[p]]
        /\ \/ /\ r.ptr = NULL
              /\ Less(proc[p], proc'[p], IF size = 0 THEN {a} ELSE {})
           \/ /\ r.ptr # NULL
              /\ Placed(b) /\ b.size # 0
              /\ Given(proc[p], proc'[p], index, b, {a})
        /\ loose' = loose \cup LetGoOf(mh, mh', a, b, r.ptr # NULL, proc[p].allocations[index])
        /\ UNCHANGED <<areas, panic>>

(* A pointer that a process holds is the address behind it. *)
LEMMA Physical ==
    ASSUME NEW pr, ProcOK(pr), NEW a \in pr.held \cup {NoRecord}, NEW phys,
           phys = IF a.ptr = NULL THEN NULL ELSE paging_get_physical_address(pr.dir, a.ptr),
           a.ptr = NULL \/ phys # NULL
    PROVE  phys = a.ptr /\ a \in Rec
  <1>1. CASE a = NoRecord
    BY <1>1, NoRecordEmpty
  <1>2. CASE a \in pr.held
    <2>1. Placed(a) /\ a.size # 0 /\ \A v \in Pg(a) : pr.dir[v].frame = v
      BY <1>2 DEF ProcOK
    <2>2. a \in Rec /\ a.ptr # NULL
      BY <2>1, PlacedPages
    <2>3. a.ptr \in Nat /\ BlocksFor(a.size) \in Nat /\ BlocksFor(a.size) # 0
      BY <2>1, <2>2, PagesNatural, BlocksForBytes
    <2>4. a.ptr \in Pg(a)
      BY <2>2, <2>3, PagesNatural
    <2>5. phys = pr.dir[a.ptr].frame
      BY <2>2 DEF paging_get_physical_address, NULL
    <2> QED BY <2>1, <2>2, <2>4, <2>5
  <1> QED BY <1>1, <1>2

(* Where process_realloc puts what it gives. *)
LEMMA ReallocPlaced ==
    ASSUME NEW m, NEW a, Placed(a) \/ a = NoRecord, NEW size \in Nat, BlocksFor(size) <= Slack,
           NEW r, MultiRealloced(r, m, a.ptr, size, BlocksFor(size)), r.ptr # NULL,
           NEW b, b = [ptr |-> r.ptr, size |-> size]
    PROVE  Placed(b) /\ b.size # 0
  <1> DEFINE n == BlocksFor(size)
             x == r.ptr
  <1>1. /\ n > 0
        /\ \/ x = a.ptr /\ \E k \in Heaps : S(k) <= x /\ x <= S(k) + N(k)
           \/ \E k \in Heaps : x \in Nat /\ S(k) <= x /\ x + n <= S(k) + N(k)
    BY DEF MultiRealloced
  <1>2. n \in Nat /\ size # 0 /\ b.ptr = x /\ b.size = size
    BY <1>1, BlocksForBytes
  <1> HIDE DEF n, x
  <1>3. ASSUME NEW k \in Heaps, x \in Nat, S(k) <= x, x + n <= S(k) + N(k) PROVE Placed(b)
    <2>1. S(k) <= b.ptr /\ b.ptr <= S(k) + N(k) - 1 /\ b.ptr + n <= S(k) + N(k) + Slack
      BY <1>1, <1>2, <1>3, Layouts
    <2>2. b \in Rec
      BY <1>2, <1>3 DEF Rec, x
    <2> QED BY <1>2, <2>1, <2>2 DEF Placed, n
  <1>4. ASSUME x = a.ptr PROVE Placed(b)
    <2>1. Placed(a)
      BY <1>4, NoRecordEmpty DEF x
    <2>2. a \in Rec /\ a.ptr \in Nat
      BY <2>1, PagesNatural DEF Placed
    <2>3. PICK k \in Heaps : S(k) <= a.ptr /\ a.ptr <= S(k) + N(k) - 1
      BY <2>1 DEF Placed
    <2>4. n <= Slack
      BY DEF n
    <2>5. S(k) <= b.ptr /\ b.ptr <= S(k) + N(k) - 1 /\ b.ptr + n <= S(k) + N(k) + Slack
      BY <1>2, <1>4, <2>2, <2>3, <2>4, Layouts
    <2>6. b \in Rec
      BY <1>2, <1>4, <2>2 DEF Rec, x
    <2> QED BY <1>2, <2>5, <2>6 DEF Placed, n
  <1> QED BY <1>1, <1>2, <1>3, <1>4

(* process_realloc resizes, moves or loses one piece of the caller. *)
LEMMA ReallocDoes ==
    ASSUME MemInv, NEW p \in Alive, NEW a, NEW size \in ReallocSizes, process_realloc(p, a, size)
    PROVE  ReallocStep(p, a, size)
  <1> DEFINE pr == proc[p]
             index == FoundIndex(pr.allocations, a.ptr)
             phys  == IF a.ptr = NULL THEN NULL ELSE paging_get_physical_address(pr.dir, a.ptr)
             r     == multiheap_realloc(mh, phys, size)
             b     == [ptr |-> r.ptr, size |-> size]
             x     == process_allocation_set_map(pr, index, r.ptr, size)
             g     == IF size = 0 THEN pr.held \ {a} ELSE pr.held
             h     == (x.held \ {a}) \cup {b}
             y     == IF r.ptr = NULL THEN [pr EXCEPT !.held = g] ELSE [x EXCEPT !.held = h]
             lost  == pr.allocations[index]
  <1>1. /\ MultiHeapOK(mh) /\ p \in Procs /\ ProcOK(pr) /\ Shape(pr) /\ proc = [q \in Procs |-> proc[q]]
        /\ size \in Nat /\ BlocksFor(size) <= Slack
    BY LivingOK, Sizes DEF MemInv, KernelOK
  <1>2. /\ a \in pr.held \cup {NoRecord}
        /\ Cardinality(loose) < MaxLoose
        /\ pr.allocations # <<>>
        /\ a.ptr = NULL \/ phys # NULL
        /\ mh' = r.mh
        /\ proc' = [proc EXCEPT ![p] = y]
        /\ loose' = loose \cup LetGo(PagesOf(a.ptr, a.size), r, size)
                          \cup (IF r.ptr # NULL /\ lost.ptr # a.ptr THEN PagesOf(lost.ptr, lost.size) ELSE {})
        /\ UNCHANGED <<areas, panic>>
    BY DEF process_realloc
  <1>3. phys = a.ptr /\ a \in Rec
    <2> HIDE DEF phys
    <2>1. phys = IF a.ptr = NULL THEN NULL ELSE paging_get_physical_address(pr.dir, a.ptr)
      BY DEF phys
    <2> QED BY <1>1, <1>2, <2>1, Physical
  <1>4. a.ptr \in Nat
    BY <1>3 DEF Rec
  <1>5. index \in DOMAIN pr.allocations /\ pr.allocations \in Seq(Rec) /\ index \in 1 .. Len(pr.allocations) + 1
    <2>1. pr.allocations \in Seq(Rec)
      BY <1>1 DEF Shape
    <2>2. index \in DOMAIN pr.allocations
      BY <1>2, <2>1, FoundIndexIn
    <2> QED BY <2>1, <2>2
  <1>6. r = multiheap_realloc(mh, a.ptr, size)
    BY <1>3
  <1> HIDE DEF phys, index, r
  <1>7. MultiRealloced(r, mh, a.ptr, size, BlocksFor(size))
    BY <1>1, <1>4, <1>6, MultiRealloc
  <1>8. pr.held \in SUBSET Rec
    BY <1>1 DEF Shape
  <1>9. proc'[p] = y /\ proc' = [proc EXCEPT ![p] = proc'[p]]
    <2> HIDE DEF y
    <2> QED BY <1>1, <1>2
  <1>10. loose' = loose \cup LetGoOf(mh, mh', a, b, r.ptr # NULL, lost)
    <2>1. b.ptr = r.ptr /\ b.size = size /\ mh' = r.mh
      BY <1>2
    <2> HIDE DEF b, lost
    <2>2. Pg(b) = PagesOf(r.ptr, size) /\ Pg(a) = PagesOf(a.ptr, a.size) /\ Pg(lost) = PagesOf(lost.ptr, lost.size)
      BY <2>1 DEF Pg
    <2>3. loose' = loose \cup LetGo(Pg(a), r, size) \cup (IF r.ptr # NULL /\ lost.ptr # a.ptr THEN Pg(lost) ELSE {})
      BY <1>2, <2>2
    <2>4. LetGo(Pg(a), r, size) = (TakenFrames(mh) \ TakenFrames(mh'))
             \cup ((IF r.ptr = NULL THEN {} ELSE Pg(b)) \ (Pg(a) \cup (TakenFrames(mh') \ TakenFrames(mh))))
      BY <2>1, <2>2 DEF LetGo
    <2>5. CASE r.ptr = NULL
      BY <2>3, <2>4, <2>5 DEF LetGoOf
    <2>6. CASE r.ptr # NULL
      BY <2>3, <2>4, <2>6 DEF LetGoOf
    <2> QED BY <2>5, <2>6
  <1>11. \/ r.ptr = NULL /\ Less(pr, y, IF size = 0 THEN {a} ELSE {})
         \/ r.ptr # NULL /\ Placed(b) /\ b.size # 0 /\ Given(pr, y, index, b, {a})
    <2>1. CASE r.ptr = NULL
      <3>1. g \in SUBSET Rec /\ g = pr.held \ (IF size = 0 THEN {a} ELSE {})
        BY <1>8
      <3>2. y = [pr EXCEPT !.held = g]
        BY <2>1
      <3> HIDE DEF g, y
      <3>3. Shape(y) /\ y.dir = pr.dir /\ y.allocations = pr.allocations /\ y.held = g
        BY <1>1, <3>1, <3>2, HeldReplaced
      <3> QED BY <2>1, <3>1, <3>3 DEF Less
    <2>2. CASE r.ptr # NULL
      <3>1. Placed(b) /\ b.size # 0
        <4>1. Placed(a) \/ a = NoRecord
          BY <1>1, <1>2 DEF ProcOK
        <4> QED BY <1>1, <1>7, <2>2, <4>1, ReallocPlaced
      <3>2. b \in Rec
        BY <3>1 DEF Placed
      <3>3. GivenTo(pr, x, index, b)
        BY <1>1, <1>5, <3>2, SetMap
      <3>4. y = [x EXCEPT !.held = h]
        BY <2>2
      <3> HIDE DEF x, b, y
      <3>5. Shape(x) /\ x.held = pr.held /\ h \in SUBSET Rec
        BY <1>8, <3>2, <3>3 DEF GivenTo
      <3>6. Shape(y) /\ y.dir = x.dir /\ y.allocations = x.allocations /\ y.held = h
        <4> HIDE DEF h
        <4> QED BY <3>4, <3>5, HeldReplaced
      <3>7. y.held = (pr.held \ {a}) \cup {b}
        BY <3>5, <3>6
      <3>8. Given(pr, y, index, b, {a})
        BY <3>3, <3>6, <3>7 DEF Given, GivenTo
      <3> QED BY <2>2, <3>1, <3>8
    <2> QED BY <2>1, <2>2
  <1>12. index = FoundIndex(pr.allocations, a.ptr)
    BY DEF index
  <1> HIDE DEF y
  <1>13. b = [ptr |-> r.ptr, size |-> size]
    OBVIOUS
  <1> HIDE DEF b
  <1>14. /\ a \in proc[p].held \cup {NoRecord}
         /\ Cardinality(loose) < MaxLoose
         /\ r = multiheap_realloc(mh, a.ptr, size) /\ mh' = r.mh
         /\ MultiRealloced(r, mh, a.ptr, size, BlocksFor(size))
         /\ b = [ptr |-> r.ptr, size |-> size]
         /\ index = FoundIndex(proc[p].allocations, a.ptr) /\ index \in DOMAIN proc[p].allocations
         /\ proc' = [proc EXCEPT ![p] = proc'[p]]
         /\ \/ /\ r.ptr = NULL
               /\ Less(proc[p], proc'[p], IF size = 0 THEN {a} ELSE {})
            \/ /\ r.ptr # NULL
               /\ Placed(b) /\ b.size # 0
               /\ Given(proc[p], proc'[p], index, b, {a})
         /\ loose' = loose \cup LetGoOf(mh, mh', a, b, r.ptr # NULL, proc[p].allocations[index])
         /\ UNCHANGED <<areas, panic>>
    BY <1>2, <1>5, <1>6, <1>7, <1>9, <1>10, <1>11, <1>12, <1>13
  <1> QED BY <1>14, Zenon DEF ReallocStep

(* A process that has less of the same is in order. *)
LEMMA LessKeeps ==
    ASSUME NEW pr, ProcOK(pr), NEW y, NEW gone, Less(pr, y, gone)
    PROVE  ProcOK(y) /\ \A v \in ProgramPages \cup StackPages : y.dir[v].frame = pr.dir[v].frame
  BY DEF ProcOK, Less

(* A piece z of frames B in place of a piece w of frames A: it has nothing *)
(* new but what was free, or is loose now.                                 *)
InPlaceOf(fr, fr2, T, T2, L, L2, z, w, A, B) ==
    /\ L \subseteq L2 /\ T \subseteq T2 \cup L2
    /\ \A c \in DOMAIN fr2 : c = z \/ (c \in DOMAIN fr /\ fr2[c] = fr[c])
    /\ z \in DOMAIN fr2 /\ fr2[z] = B
    /\ A = {} \/ (w \in DOMAIN fr /\ fr[w] = A /\ (w \in DOMAIN fr2 => w = z))
    /\ B \subseteq A \cup (T2 \ T) \cup L2

(* Then the pieces stay apart. *)
LEMMA GivenApart ==
    ASSUME NEW fr, NEW T, NEW L, Apart(fr, T, L), NEW fr2, NEW T2, NEW L2, NEW z, NEW w, NEW A, NEW B,
           InPlaceOf(fr, fr2, T, T2, L, L2, z, w, A, B)
    PROVE  Apart(fr2, T2, L2)
  <1>0. /\ L \subseteq L2 /\ T \subseteq T2 \cup L2
        /\ \A c \in DOMAIN fr2 : c = z \/ (c \in DOMAIN fr /\ fr2[c] = fr[c])
        /\ z \in DOMAIN fr2 /\ fr2[z] = B
        /\ A = {} \/ (w \in DOMAIN fr /\ fr[w] = A /\ (w \in DOMAIN fr2 => w = z))
        /\ B \subseteq A \cup (T2 \ T) \cup L2
    BY DEF InPlaceOf
  <1>1. A \subseteq T \cup L
    BY <1>0 DEF Apart
  <1>2. B \subseteq T2 \cup L2
    BY <1>0, <1>1
  <1>3. ASSUME NEW c \in DOMAIN fr2, c # z PROVE B \cap fr2[c] \subseteq L2
    <2>1. c \in DOMAIN fr /\ fr2[c] = fr[c]
      BY <1>0, <1>3
    <2>2. fr[c] \subseteq T \cup L
      BY <2>1 DEF Apart
    <2>3. A \cap fr[c] \subseteq L
      BY <1>0, <1>3, <2>1 DEF Apart
    <2> QED BY <1>0, <2>1, <2>2, <2>3
  <1>4. ASSUME NEW c \in DOMAIN fr2 PROVE fr2[c] \subseteq T2 \cup L2
    <2>1. CASE c = z
      BY <1>0, <1>2, <2>1
    <2>2. CASE c # z
      <3>1. c \in DOMAIN fr /\ fr2[c] = fr[c]
        BY <1>0, <2>2
      <3>2. fr[c] \subseteq T \cup L
        BY <3>1 DEF Apart
      <3> QED BY <1>0, <3>1, <3>2
    <2> QED BY <2>1, <2>2
  <1>5. ASSUME NEW c \in DOMAIN fr2, NEW d \in DOMAIN fr2, c # d PROVE fr2[c] \cap fr2[d] \subseteq L2
    <2>1. CASE c = z
      BY <1>0, <1>3, <1>5, <2>1
    <2>2. CASE d = z
      <3>1. fr2[d] = B /\ B \cap fr2[c] \subseteq L2
        BY <1>0, <1>3, <1>5, <2>2
      <3> QED BY <3>1
    <2>3. CASE c # z /\ d # z
      <3>1. fr2[c] = fr[c] /\ fr2[d] = fr[d] /\ fr[c] \cap fr[d] \subseteq L
        BY <1>0, <1>5, <2>3 DEF Apart
      <3> QED BY <1>0, <3>1
    <2> QED BY <2>1, <2>2, <2>3
  <1> QED BY <1>4, <1>5 DEF Apart

(* process_realloc keeps the memory invariant, whatever became of the old  *)
(* piece.                                                                  *)
LEMMA ReallocKeepsApart ==
    ASSUME MemInv, NEW p \in Alive, NEW a, NEW size, ReallocStep(p, a, size)
    PROVE  MemInv'
  <1> DEFINE pr == proc[p]
             y == proc'[p]
             fr == Frames(proc, areas)
             fr2 == Frames(proc', areas)
             T == TakenFrames(mh)
             T2 == TakenFrames(mh')
  <1>1. PICK r, b, index :
        /\ a \in pr.held \cup {NoRecord}
        /\ mh' = r.mh
        /\ MultiRealloced(r, mh, a.ptr, size, BlocksFor(size))
        /\ proc' = [proc EXCEPT ![p] = y]
        /\ \/ /\ r.ptr = NULL
              /\ Less(pr, y, IF size = 0 THEN {a} ELSE {})
           \/ /\ r.ptr # NULL
              /\ Placed(b) /\ b.size # 0
              /\ Given(pr, y, index, b, {a})
        /\ loose' = loose \cup LetGoOf(mh, mh', a, b, r.ptr # NULL, pr.allocations[index])
        /\ UNCHANGED <<areas, panic>>
    BY DEF ReallocStep
  <1> HIDE DEF y
  <1>2. /\ p \in Procs /\ ProcOK(pr) /\ proc = [q \in Procs |-> proc[q]] /\ ProcsOK(proc)
        /\ KernelOK(mh, areas) /\ Apart(fr, T, loose)
    BY LivingOK DEF MemInv
  <1>3. KernelOK(mh', areas)
    BY <1>1, <1>2, KernelKept DEF MultiRealloced
  <1>4. loose \subseteq loose' /\ T \subseteq T2 \cup loose'
    BY <1>1 DEF LetGoOf
  <1>5. CASE r.ptr = NULL
    <2> DEFINE Z == {}
    <2>1. Less(pr, y, IF size = 0 THEN {a} ELSE {})
      BY <1>1, <1>5
    <2>2. ProcOK(y) /\ \A v \in ProgramPages \cup StackPages : y.dir[v].frame = pr.dir[v].frame
      BY <1>2, <2>1, LessKeeps
    <2>3. ProcsOK(proc')
      BY <1>1, <1>2, <2>2, ProcsReplaced
    <2>4. \A c \in y.held : c \in pr.held \/ Piece("malloc", p, c) \in Z
      BY <2>1 DEF Less
    <2>5. Changed(fr, fr2, p, y, Z)
      <3> HIDE DEF Z
      <3> QED BY <1>1, <1>2, <2>2, <2>4, OneChanged
    <2>6. \A c \in DOMAIN fr2 : c \in DOMAIN fr /\ fr2[c] = fr[c]
      <3> HIDE DEF fr, fr2
      <3> QED BY <2>5 DEF Changed
    <2>7. Apart(fr2, T2, loose')
      <3> HIDE DEF fr, fr2, T, T2
      <3> QED BY <1>2, <1>4, <2>6 DEF Apart
    <2> QED BY <1>1, <1>3, <2>3, <2>7 DEF MemInv
  <1>6. CASE r.ptr # NULL
    <2> DEFINE z == Piece("malloc", p, b)
               w == Piece("malloc", p, a)
               Z == {z}
    <2>1. Placed(b) /\ b.size # 0 /\ Given(pr, y, index, b, {a})
      BY <1>1, <1>6
    <2>2. ProcOK(y) /\ \A v \in ProgramPages \cup StackPages : y.dir[v].frame = pr.dir[v].frame
      BY <1>2, <2>1, GivenKeeps
    <2>3. ProcsOK(proc')
      BY <1>1, <1>2, <2>2, ProcsReplaced
    <2>4. y.held = (pr.held \ {a}) \cup {b}
      BY <2>1 DEF Given
    <2>5. \A c \in y.held : c \in pr.held \/ Piece("malloc", p, c) \in Z
      BY <2>4
    <2>6. Changed(fr, fr2, p, y, Z)
      <3> HIDE DEF Z
      <3> QED BY <1>1, <1>2, <2>2, <2>5, OneChanged
    <2>7. /\ \A c \in DOMAIN fr2 : c = z \/ (c \in DOMAIN fr /\ fr2[c] = fr[c])
          /\ z \in DOMAIN fr2 /\ fr2[z] = Pg(b)
          /\ w \in DOMAIN fr2 => a \in y.held
      <3> HIDE DEF fr, fr2
      <3>1. w.what = "malloc" /\ w.owner = p /\ w.a = a
        BY PieceIs
      <3> HIDE DEF z, w
      <3>2. \A c \in DOMAIN fr2 : c \in Z \/ (c \in DOMAIN fr /\ fr2[c] = fr[c])
        BY <2>6 DEF Changed
      <3>3. w \in DOMAIN fr2 => a \in y.held
        BY <2>6, <3>1 DEF Changed
      <3>4. b \in y.held
        BY <2>4
      <3>5. z \in DOMAIN fr2 /\ fr2[z] = Pg(b)
        BY <2>6, <3>4 DEF Changed, z
      <3> QED BY <3>2, <3>3, <3>5
    <2>8. Pg(a) = {} \/ (w \in DOMAIN fr /\ fr[w] = Pg(a) /\ (w \in DOMAIN fr2 => w = z))
      <3>1. CASE a = NoRecord
        BY <3>1, NoRecordEmpty
      <3>2. CASE a \in pr.held
        <4>1. w \in DOMAIN fr /\ fr[w] = Pg(a)
          BY <1>2, <3>2, HeldFrames
        <4>2. a \in y.held => a = b
          BY <2>4
        <4> QED BY <2>7, <4>1, <4>2
      <3> QED BY <1>1, <3>1, <3>2
    <2>9. Pg(b) \subseteq Pg(a) \cup (T2 \ T) \cup loose'
      <3>1. loose' = loose \cup LetGoOf(mh, mh', a, b, TRUE, pr.allocations[index])
        BY <1>1, <1>6
      <3> QED BY <3>1 DEF LetGoOf
    <2>10. Apart(fr2, T2, loose')
      <3> HIDE DEF fr, fr2, T, T2, z, w
      <3>1. InPlaceOf(fr, fr2, T, T2, loose, loose', z, w, Pg(a), Pg(b))
        BY <1>4, <2>7, <2>8, <2>9 DEF InPlaceOf
      <3> QED BY <1>2, <3>1, GivenApart
    <2> QED BY <1>1, <1>3, <2>3, <2>10 DEF MemInv
  <1> QED BY <1>5, <1>6

(* process_terminate takes a process away. *)
EndStep(p) == proc' = [proc EXCEPT ![p] = Dead] /\ UNCHANGED <<mh, areas, loose, panic>>

(* process_terminate keeps the memory invariant: the pieces of the others  *)
(* keep their blocks.                                                      *)
LEMMA EndKeepsApart ==
    ASSUME MemInv, NEW p \in Alive, EndStep(p)
    PROVE  MemInv'
  <1> DEFINE fr == Frames(proc, areas)
             fr2 == Frames(proc', areas)
  <1>1. /\ p \in Procs /\ proc = [q \in Procs |-> proc[q]] /\ ProcsOK(proc)
        /\ KernelOK(mh, areas) /\ Apart(fr, TakenFrames(mh), loose)
    BY LivingOK DEF MemInv
  <1>2. proc' = [proc EXCEPT ![p] = Dead] /\ UNCHANGED <<mh, areas, loose>>
    BY DEF EndStep
  <1>3. ProcsOK(proc')
    BY <1>1, <1>2, ProcsReplaced
  <1>4. PiecesOf(p, Dead) = {}
    BY DEF PiecesOf, Dead
  <1>5. \A c \in Pieces(proc', areas) :
            c \in Pieces(proc, areas) /\ FramesOf(proc', c) = FramesOf(proc, c)
    BY <1>1, <1>2, <1>4, OneProcess
  <1>6. \A c \in DOMAIN fr2 : c \in DOMAIN fr /\ fr2[c] = fr[c]
    BY <1>5, FramesIs
  <1> HIDE DEF fr, fr2
  <1>7. Apart(fr2, TakenFrames(mh), loose)
    BY <1>1, <1>6 DEF Apart
  <1> QED BY <1>1, <1>2, <1>3, <1>7 DEF MemInv, fr2

(* paging_map_e820_memory_regions maps every block of every heap on        *)
(* itself, for the kernel.                                                 *)
LEMMA E820Maps ==
    /\ KernelDirectory \in Directory
    /\ \A v \in Pages : KernelDirectory[v] = [frame |-> v, flags |-> KernelFlags] \/ KernelDirectory[v] = NullEntry
    /\ \A k \in Heaps : \A v \in HeapPages(k) : v \in Pages /\ KernelDirectory[v] = [frame |-> v, flags |-> KernelFlags]
  <1>1. Pages \subseteq Nat
    BY PagingAssumption
  <1>2. \A v \in Pages : KernelDirectory[v] = [frame |-> v, flags |-> KernelFlags] \/ KernelDirectory[v] = NullEntry
    BY DEF KernelDirectory, paging_map_e820_memory_regions, paging_desc_new
  <1>3. NullEntry \in Entry /\ \A v \in Pages : [frame |-> v, flags |-> KernelFlags] \in Entry
    BY <1>1 DEF Entry, NullEntry, KernelFlags, PageFlags
  <1>4. KernelDirectory = [v \in Pages |-> KernelDirectory[v]]
    BY DEF KernelDirectory, paging_map_e820_memory_regions
  <1>5. KernelDirectory \in Directory
    BY <1>2, <1>3, <1>4 DEF Directory
  <1>6. ASSUME NEW k \in Heaps, NEW v \in HeapPages(k)
        PROVE  v \in Pages /\ KernelDirectory[v] = [frame |-> v, flags |-> KernelFlags]
    <2>1. v \in Pages
      BY HeapPagesMapped
    <2>2. \E i \in DOMAIN Regions : v \in RegionPages(Regions[i])
      BY LayoutHolds DEF Layout, HeapPages
    <2> QED BY <2>1, <2>2 DEF KernelDirectory, paging_map_e820_memory_regions
  <1> QED BY <1>2, <1>5, <1>6

(* Mapping pages elsewhere. *)
MappedAway(e, d, virt, phys, P) ==
    /\ e \in Directory
    /\ \A v \in Pages : IF v \in P
                        THEN e[v].frame = phys + (v - virt) /\ e[v].flags = UserFlags
                        ELSE e[v] = d[v]

(* paging_map_to at another address shifts every page by the same distance *)
(* and leaves the rest alone.                                              *)
LEMMA MapsAway ==
    ASSUME NEW d \in Directory, NEW virt \in Nat, NEW phys \in Nat, NEW n \in Nat, NEW e,
           e = paging_map_to(d, virt, phys, phys + n, UserFlags), NEW P, P = virt .. virt + n - 1
    PROVE  MappedAway(e, d, virt, phys, P)
  <1>1. Pages \subseteq Nat /\ UserFlags \in SUBSET PageFlags
    BY PagingAssumption DEF UserFlags, PageFlags
  <1>2. (phys + n) - phys = n
    OBVIOUS
  <1>3. e = [v \in Pages |-> IF v \in virt .. virt + n - 1
                             THEN [frame |-> phys + (v - virt), flags |-> UserFlags] ELSE d[v]]
    BY <1>2 DEF paging_map_to
  <1>4. ASSUME NEW v \in Pages, v \in virt .. virt + n - 1
        PROVE  [frame |-> phys + (v - virt), flags |-> UserFlags] \in Entry
    <2>1. phys + (v - virt) \in Nat
      BY <1>1, <1>4
    <2> QED BY <1>1, <2>1 DEF Entry
  <1>5. e \in Directory
    BY <1>3, <1>4 DEF Directory
  <1> QED BY <1>3, <1>5 DEF MappedAway

(* The tables of a process that was just loaded. *)
Loaded(d, i, s) ==
    /\ d \in Directory
    /\ \A v \in ProgramPages : d[v].frame = i + (v - ProgramPage) /\ d[v].flags = UserFlags
    /\ \A v \in StackPages : d[v].frame = s + (v - StackPage) /\ d[v].flags = UserFlags
    /\ \A v \in Pages : v \notin ProgramPages /\ v \notin StackPages => d[v] = KernelDirectory[v]

(* process_map_memory leaves the program and the stack shifted to their    *)
(* blocks and the heaps on themselves.                                     *)
LEMMA LoadedIs ==
    ASSUME NEW i \in Nat, NEW s \in Nat
    PROVE  Loaded(LoadedDirectory(i, s), i, s)
  <1> DEFINE n == BlocksFor(ProgramSize)
             m == BlocksFor(StackSize)
             e == paging_map_to(KernelDirectory, ProgramPage, i, i + n, UserFlags)
             d == paging_map_to(e, StackPage, s, s + m, UserFlags)
  <1>1. LoadedDirectory(i, s) = d
    BY DEF LoadedDirectory, KernelDirectory
  <1>2. n \in Nat /\ m \in Nat /\ ProgramPage \in Nat /\ StackPage \in Nat
    BY Sizes
  <1>3. ProgramPages = ProgramPage .. ProgramPage + n - 1 /\ StackPages = StackPage .. StackPage + m - 1
    BY DEF ProgramPages, StackPages, PagesOf
  <1>4. ProgramPages \subseteq Pages /\ StackPages \subseteq Pages \ ProgramPages
    BY ProcessAssumption DEF ProgramPages, StackPages
  <1> HIDE DEF n, m
  <1>5. MappedAway(e, KernelDirectory, ProgramPage, i, ProgramPages)
    BY <1>2, <1>3, E820Maps, MapsAway
  <1> HIDE DEF e
  <1>5a. e \in Directory
    BY <1>5 DEF MappedAway
  <1>6. MappedAway(d, e, StackPage, s, StackPages)
    BY <1>2, <1>3, <1>5a, MapsAway
  <1> HIDE DEF d
  <1>7. \A v \in ProgramPages : v \in Pages /\ v \notin StackPages
    BY <1>4
  <1>8. \A v \in StackPages : v \in Pages /\ v \notin ProgramPages
    BY <1>4
  <1>9. Loaded(d, i, s)
    BY <1>5, <1>6, <1>7, <1>8 DEF Loaded, MappedAway
  <1> QED BY <1>1, <1>9

(* A shifted run of pages. *)
ShiftedTo(d, P, Q) == FramesIn(d, P) = Q /\ Distinct(d, P)

(* The frames behind shifted pages are the shifted pages. *)
LEMMA Shifted ==
    ASSUME NEW d, NEW virt \in Nat, NEW phys \in Nat, NEW n \in Nat, NEW P, P = virt .. virt + n - 1,
           NEW Q, Q = phys .. phys + n - 1, \A v \in P : d[v].frame = phys + (v - virt)
    PROVE  ShiftedTo(d, P, Q)
  <1>1. \A v \in P : v \in Int /\ d[v].frame = phys + (v - virt)
    OBVIOUS
  <1>2. \A v \in P : d[v].frame \in phys .. phys + n - 1
    OBVIOUS
  <1>3. ASSUME NEW f \in phys .. phys + n - 1 PROVE \E v \in P : f = d[v].frame
    <2>1. virt + (f - phys) \in P /\ phys + ((virt + (f - phys)) - virt) = f
      OBVIOUS
    <2> QED BY <1>1, <2>1
  <1>4. ASSUME NEW v \in P, NEW w \in P, v # w PROVE d[v].frame # d[w].frame
    <2>1. v \in Int /\ w \in Int /\ d[v].frame = phys + (v - virt) /\ d[w].frame = phys + (w - virt)
      BY <1>1
    <2> QED BY <1>4, <2>1
  <1>5. FramesIn(d, P) = phys .. phys + n - 1
    BY <1>2, <1>3 DEF FramesIn
  <1> QED BY <1>4, <1>5 DEF Distinct, ShiftedTo

(* The pieces in Z are new, and so are their frames. *)
FreshIn(fr, fr2, T, T2, Z) ==
    /\ T \subseteq T2
    /\ \A c \in DOMAIN fr2 : c \in Z \/ (c \in DOMAIN fr /\ fr2[c] = fr[c])
    /\ \A z \in Z : z \in DOMAIN fr2 => fr2[z] \subseteq T2 /\ fr2[z] \cap T = {}
    /\ \A z, y \in Z : z # y /\ z \in DOMAIN fr2 /\ y \in DOMAIN fr2 => fr2[z] \cap fr2[y] = {}

(* Pieces put in blocks that were free lie apart from all the others. *)
LEMMA FreshApart ==
    ASSUME NEW fr, NEW T, NEW L, Apart(fr, T, L), NEW fr2, NEW T2, NEW Z, FreshIn(fr, fr2, T, T2, Z)
    PROVE  Apart(fr2, T2, L)
  <1>1. /\ T \subseteq T2
        /\ \A c \in DOMAIN fr2 : c \in Z \/ (c \in DOMAIN fr /\ fr2[c] = fr[c])
        /\ \A z \in Z : z \in DOMAIN fr2 => fr2[z] \subseteq T2 /\ fr2[z] \cap T = {}
        /\ \A z, y \in Z : z # y /\ z \in DOMAIN fr2 /\ y \in DOMAIN fr2 => fr2[z] \cap fr2[y] = {}
    BY DEF FreshIn
  <1> QED BY <1>1, ApartFresh

LoadStep(p) ==
    \E image, stack, m, d :
        /\ image.size = ProgramSize /\ stack.size = StackSize
        /\ TakesRun(mh, m, image) /\ TakesRun(m, mh', stack)
        /\ Loaded(d, image.ptr, stack.ptr)
        /\ proc[p] = Dead
        /\ proc' = [proc EXCEPT ![p] = proc'[p]]
        /\ Shape(proc'[p]) /\ proc'[p].held = {} /\ proc'[p].allocations = <<>> /\ proc'[p].dir = d
        /\ UNCHANGED <<areas, loose>>

(* process_load_switch keeps the memory invariant: program and stack come  *)
(* from free blocks.                                                       *)
LEMMA LoadKeepsApart ==
    ASSUME MemInv, NEW p \in Procs, LoadStep(p)
    PROVE  MemInv'
  <1> DEFINE y == proc'[p]
             fr == Frames(proc, areas)
             fr2 == Frames(proc', areas)
             T == TakenFrames(mh)
             T2 == TakenFrames(mh')
             a == Piece("program", p, Program)
             b == Piece("stack", p, Stack)
             Z == {a, b}
  <1>1. PICK image, stack, m, d :
        /\ image.size = ProgramSize /\ stack.size = StackSize
        /\ TakesRun(mh, m, image) /\ TakesRun(m, mh', stack)
        /\ Loaded(d, image.ptr, stack.ptr)
        /\ proc' = [proc EXCEPT ![p] = y]
        /\ Shape(y) /\ y.held = {} /\ y.allocations = <<>> /\ y.dir = d
        /\ UNCHANGED <<areas, loose>>
    BY DEF LoadStep
  <1> HIDE DEF y
  <1>2. /\ proc = [q \in Procs |-> proc[q]] /\ ProcsOK(proc)
        /\ KernelOK(mh, areas) /\ Apart(fr, T, loose)
    BY DEF MemInv, ProcsOK
  <1>3. /\ image \in Rec /\ stack \in Rec /\ MultiHeapOK(mh')
        /\ Grows(mh, m) /\ Grows(m, mh')
        /\ Pg(image) \cap T = {} /\ TakenFrames(m) = T \cup Pg(image)
        /\ Pg(stack) \cap TakenFrames(m) = {} /\ T2 = TakenFrames(m) \cup Pg(stack)
    BY <1>1 DEF TakesRun
  <1>4. KernelOK(mh', areas)
    BY <1>2, <1>3, KernelKept
  <1>5. /\ FramesIn(d, ProgramPages) = Pg(image) /\ Distinct(d, ProgramPages)
        /\ FramesIn(d, StackPages) = Pg(stack) /\ Distinct(d, StackPages)
    <2>1. /\ image.ptr \in Nat /\ Pg(image) = image.ptr .. image.ptr + BlocksFor(ProgramSize) - 1
          /\ stack.ptr \in Nat /\ Pg(stack) = stack.ptr .. stack.ptr + BlocksFor(StackSize) - 1
      BY <1>1, <1>3, PagesNatural
    <2>2. /\ ProgramPages = ProgramPage .. ProgramPage + BlocksFor(ProgramSize) - 1
          /\ StackPages = StackPage .. StackPage + BlocksFor(StackSize) - 1
      BY DEF ProgramPages, StackPages, PagesOf
    <2>3. /\ \A v \in ProgramPages : d[v].frame = image.ptr + (v - ProgramPage)
          /\ \A v \in StackPages : d[v].frame = stack.ptr + (v - StackPage)
      BY <1>1 DEF Loaded
    <2>4. ShiftedTo(d, ProgramPages, Pg(image))
      BY <2>1, <2>2, <2>3, Sizes, Shifted
    <2>5. ShiftedTo(d, StackPages, Pg(stack))
      BY <2>1, <2>2, <2>3, Sizes, Shifted
    <2> QED BY <2>4, <2>5 DEF ShiftedTo
  <1>6. ProcOK(y)
    <2>1. \A k \in Heaps : \A v \in HeapPages(k) : y.dir[v].frame = v
      <3>1. \A k \in Heaps : \A v \in HeapPages(k) : d[v] = [frame |-> v, flags |-> KernelFlags]
        BY <1>1, HeapPagesMapped, E820Maps DEF Loaded
      <3> SUFFICES ASSUME NEW k \in Heaps, NEW v \in HeapPages(k) PROVE y.dir[v].frame = v
        OBVIOUS
      <3>2. y.dir = d
        BY <1>1
      <3>3. d[v] = [frame |-> v, flags |-> KernelFlags]
        BY <3>1, Zenon
      <3>4. d[v].frame = v
        BY <3>3
      <3> QED BY <3>2, <3>4
    <2> QED BY <1>1, <1>5, <2>1 DEF ProcOK
  <1>7. ProcsOK(proc') /\ proc'[p] = y
    BY <1>1, <1>2, <1>6, ProcsReplaced
  <1>8. PiecesOf(p, y) = Z
    <2>1. y.alive /\ y.held = {}
      BY <1>1 DEF Shape
    <2> QED BY <2>1 DEF PiecesOf
  <1>9. ASSUME NEW c \in Pieces(proc', areas)
        PROVE  c \in Z \/ (c \in Pieces(proc, areas) /\ FramesOf(proc', c) = FramesOf(proc, c))
    <2> HIDE DEF Z
    <2> QED BY <1>1, <1>2, <1>8, OneProcess
  <1>10. FramesOf(proc', a) = Pg(image) /\ FramesOf(proc', b) = Pg(stack)
    <2>1. proc'[p].dir = d
      BY <1>1, <1>7
    <2> QED BY <1>5, <2>1, FramesOfProcess
  <1> HIDE DEF a, b
  <1>11. /\ \A c \in DOMAIN fr2 : c \in Z \/ (c \in DOMAIN fr /\ fr2[c] = fr[c])
         /\ a \in DOMAIN fr2 => fr2[a] = Pg(image)
         /\ b \in DOMAIN fr2 => fr2[b] = Pg(stack)
    BY <1>9, <1>10, FramesIs
  <1> HIDE DEF fr, fr2, T, T2
  <1>12. Apart(fr2, T2, loose)
    <2>1. \A z \in Z : z \in DOMAIN fr2 => fr2[z] \subseteq T2 /\ fr2[z] \cap T = {}
      BY <1>3, <1>11
    <2>2. \A z, w \in Z : z # w /\ z \in DOMAIN fr2 /\ w \in DOMAIN fr2 => fr2[z] \cap fr2[w] = {}
      BY <1>3, <1>11
    <2>3. T \subseteq T2
      BY <1>3
    <2> HIDE DEF Z
    <2>4. FreshIn(fr, fr2, T, T2, Z)
      BY <1>11, <2>1, <2>2, <2>3 DEF FreshIn
    <2> QED BY <1>2, <2>4, FreshApart
  <1> QED BY <1>1, <1>4, <1>7, <1>12 DEF MemInv, fr2, T2

(* A step that takes one block or none, and leaves the processes' memory.  *)
LEMMA QuietStep ==
    ASSUME MemInv, NEW size \in Nat, NEW r, r = multiheap_alloc(mh, size), mh' = mh \/ mh' = r.mh,
           UNCHANGED <<areas, loose>>, SameMemory(proc, proc'), ProcsOK(proc')
    PROVE  Quiet
  <1>1. MultiHeapOK(mh)
    BY DEF MemInv, KernelOK
  <1>2. MultiHeapOK(r.mh) /\ Grows(mh, r.mh) /\ (AllSound(mh) => AllSound(r.mh))
    BY <1>1, RunTaken
  <1>3. Grows(mh, mh)
    BY DEF Grows
  <1>4. CASE mh' = mh
    BY <1>1, <1>3, <1>4 DEF Quiet
  <1>5. CASE mh' = r.mh
    BY <1>2, <1>5 DEF Quiet
  <1> QED BY <1>4, <1>5

(* A step that leaves the processes alone leaves their memory alone. *)
LEMMA SameProcesses ==
    ASSUME MemInv, UNCHANGED proc
    PROVE  SameMemory(proc, proc') /\ ProcsOK(proc')
  BY DEF SameMemory, MemInv

(* process_load takes memory for program and stack, or leaves all else. *)
LEMMA LoadDoes ==
    ASSUME MemInv, NEW p \in Procs, process_load(p)
    PROVE  Quiet \/ LoadStep(p)
  <1> DEFINE image == multiheap_alloc(mh, ProgramSize)
             stack == multiheap_alloc(image.mh, StackSize)
             a == [ptr |-> image.ptr, size |-> ProgramSize]
             b == [ptr |-> stack.ptr, size |-> StackSize]
             d == LoadedDirectory(image.ptr, stack.ptr)
             y == [alive |-> TRUE, dir |-> d, allocations |-> <<>>, handles |-> <<>>, held |-> {}]
  <1>1. MultiHeapOK(mh) /\ ProcsOK(proc) /\ proc = [q \in Procs |-> proc[q]] /\ ProgramSize \in Nat /\ StackSize \in Nat
    BY Sizes DEF MemInv, KernelOK, ProcsOK
  <1>2. /\ proc[p] = Dead
        /\ UNCHANGED <<areas, loose>>
        /\ \/ mh' = mh /\ proc' = proc
           \/ mh' = image.mh /\ proc' = proc
           \/ image.ptr # NULL /\ stack.ptr # NULL /\ mh' = stack.mh /\ proc' = [proc EXCEPT ![p] = y]
    BY DEF process_load
  <1>3. CASE proc' = proc /\ (mh' = mh \/ mh' = image.mh)
    <2>1. SameMemory(proc, proc') /\ ProcsOK(proc')
      BY <1>3, SameProcesses
    <2> HIDE DEF image
    <2>2. image = multiheap_alloc(mh, ProgramSize)
      BY DEF image
    <2> QED BY <1>1, <1>2, <1>3, <2>1, <2>2, QuietStep
  <1>4. CASE image.ptr # NULL /\ stack.ptr # NULL /\ mh' = stack.mh /\ proc' = [proc EXCEPT ![p] = y]
    <2>1. MultiHeapOK(image.mh) /\ TakesRun(mh, image.mh, a)
      <3> HIDE DEF image
      <3>1. image = multiheap_alloc(mh, ProgramSize)
        BY DEF image
      <3> QED BY <1>1, <1>4, <3>1, RunTaken
    <2> DEFINE m == image.mh
    <2>2. TakesRun(m, stack.mh, b)
      <3>1. stack = multiheap_alloc(m, StackSize)
        OBVIOUS
      <3> HIDE DEF m, stack
      <3> QED BY <1>1, <1>4, <2>1, <3>1, RunTaken DEF m
    <2> HIDE DEF image, stack, m
    <2>3. image.ptr \in Nat /\ stack.ptr \in Nat /\ a.ptr = image.ptr /\ b.ptr = stack.ptr
          /\ a.size = ProgramSize /\ b.size = StackSize
      <3>1. a \in Rec /\ b \in Rec
        BY <2>1, <2>2 DEF TakesRun
      <3> QED BY <3>1 DEF Rec
    <2>4. Loaded(d, a.ptr, b.ptr)
      BY <2>3, LoadedIs
    <2>5. d \in Directory
      BY <2>4 DEF Loaded
    <2> HIDE DEF a, b, d
    <2>6. /\ y \in [alive : {TRUE}, dir : Directory, allocations : Seq(Rec), handles : {y.handles}, held : SUBSET Rec]
          /\ y.held = {} /\ y.allocations = <<>> /\ y.dir = d
      BY <2>5
    <2> HIDE DEF y
    <2>7. Shape(y)
      BY <2>6 DEF Shape
    <2>8. proc'[p] = y /\ proc' = [proc EXCEPT ![p] = proc'[p]]
      BY <1>1, <1>4
    <2>9. /\ a.size = ProgramSize /\ b.size = StackSize
          /\ TakesRun(mh, m, a) /\ TakesRun(m, mh', b)
          /\ Loaded(d, a.ptr, b.ptr)
          /\ proc[p] = Dead
          /\ proc' = [proc EXCEPT ![p] = proc'[p]]
          /\ Shape(proc'[p]) /\ proc'[p].held = {} /\ proc'[p].allocations = <<>> /\ proc'[p].dir = d
          /\ UNCHANGED <<areas, loose>>
      BY <1>2, <1>4, <2>1, <2>2, <2>3, <2>4, <2>6, <2>7, <2>8 DEF m
    <2> QED BY <2>9, Zenon DEF LoadStep
  <1> QED BY <1>2, <1>3, <1>4

(* Ending a process takes it away, or stops the kernel. *)
LEMMA EndDoes ==
    ASSUME MemInv, NEW p \in Alive, process_terminate(p)
    PROVE  Quiet \/ EndStep(p)
  <1> DEFINE r == multiheap_alloc(mh, PageSize)
  <1>1. CASE Alive = {p}
    <2>1. UNCHANGED <<mh, areas, loose>> /\ UNCHANGED proc
      BY <1>1 DEF process_terminate, memory
    <2>2. SameMemory(proc, proc') /\ ProcsOK(proc')
      BY <2>1, SameProcesses
    <2> HIDE DEF r
    <2>3. r = multiheap_alloc(mh, PageSize) /\ PageSize \in Nat
      BY PagingAssumption DEF r
    <2> QED BY <2>1, <2>2, <2>3, QuietStep
  <1>2. CASE Alive # {p}
    BY <1>2 DEF process_terminate, memory, EndStep
  <1> QED BY <1>1, <1>2

(* A stuttering step is a quiet one. *)
LEMMA NothingDoes ==
    ASSUME MemInv, UNCHANGED vars
    PROVE  Quiet
  <1> DEFINE r == multiheap_alloc(mh, PageSize)
  <1>1. UNCHANGED <<mh, areas, loose>> /\ UNCHANGED proc
    BY DEF vars
  <1>2. SameMemory(proc, proc') /\ ProcsOK(proc')
    BY <1>1, SameProcesses
  <1> HIDE DEF r
  <1>3. r = multiheap_alloc(mh, PageSize) /\ PageSize \in Nat
    BY PagingAssumption DEF r
  <1> QED BY <1>1, <1>2, <1>3, QuietStep

(* The calls on files change nobody's memory, or end the process. *)
LEMMA FileCallDoes ==
    ASSUME MemInv, NEW p \in Alive, FileCall(p)
    PROVE  Quiet \/ EndStep(p)
  <1>1. p \in Procs /\ ProcOK(proc[p]) /\ ProcsOK(proc) /\ proc = [q \in Procs |-> proc[q]] /\ PageSize \in Nat
    BY LivingOK, PagingAssumption DEF MemInv
  <1> DEFINE r == multiheap_alloc(mh, PageSize)
  <1>2. ASSUME NEW hs, proc' = [proc EXCEPT ![p].handles = hs] PROVE SameMemory(proc, proc') /\ ProcsOK(proc')
    BY <1>1, <1>2, HandlesReplaced
  <1>3. ASSUME UNCHANGED vars PROVE Quiet
    BY <1>3, NothingDoes
  <1>4. ASSUME process_terminate(p) PROVE Quiet \/ EndStep(p)
    BY <1>4, EndDoes
  <1>5. ASSUME NEW path \in Paths, NEW mode \in Modes, process_fopen(p, path, mode) PROVE Quiet
    <2>1. PICK x \in fopen(file_descriptors, path, mode) :
             /\ UNCHANGED <<areas, loose>>
             /\ mh' = mh \/ mh' = r.mh
             /\ \/ proc' = proc
                \/ proc' = [proc EXCEPT ![p].handles = Append(@, [fd |-> x.fd, file |-> path.file])]
      BY <1>5 DEF process_fopen
    <2>2. SameMemory(proc, proc') /\ ProcsOK(proc')
      <3>1. CASE proc' = proc
        BY <3>1, SameProcesses
      <3>2. CASE proc' = [proc EXCEPT ![p].handles = Append(@, [fd |-> x.fd, file |-> path.file])]
        <4> DEFINE hs == Append(proc[p].handles, [fd |-> x.fd, file |-> path.file])
        <4>1. proc' = [proc EXCEPT ![p].handles = hs]
          BY <3>2
        <4> HIDE DEF hs
        <4> QED BY <1>2, <4>1
      <3> QED BY <2>1, <3>1, <3>2
    <2> HIDE DEF r
    <2>3. r = multiheap_alloc(mh, PageSize)
      BY DEF r
    <2> QED BY <1>1, <2>1, <2>2, <2>3, QuietStep
  <1>6. ASSUME NEW fd, process_fclose(p, fd) PROVE Quiet
    <2>1. /\ UNCHANGED <<areas, loose>>
          /\ mh' = r.mh
          /\ \/ proc' = proc
             \/ proc' = [proc EXCEPT ![p].handles = WithoutHandle(@, fd)]
      BY <1>6 DEF process_fclose
    <2>2. SameMemory(proc, proc') /\ ProcsOK(proc')
      <3>1. CASE proc' = proc
        BY <3>1, SameProcesses
      <3>2. CASE proc' = [proc EXCEPT ![p].handles = WithoutHandle(@, fd)]
        <4> DEFINE hs == WithoutHandle(proc[p].handles, fd)
        <4>1. proc' = [proc EXCEPT ![p].handles = hs]
          BY <3>2
        <4> HIDE DEF hs
        <4> QED BY <1>2, <4>1
      <3> QED BY <2>1, <3>1, <3>2
    <2> HIDE DEF r
    <2>3. r = multiheap_alloc(mh, PageSize)
      BY DEF r
    <2> QED BY <1>1, <2>1, <2>2, <2>3, QuietStep
  <1>7. ASSUME NEW fd, NEW addr, process_fread(p, fd, addr, 1) PROVE Quiet \/ EndStep(p)
    BY <1>3, <1>4, <1>7 DEF process_fread
  <1>8. ASSUME NEW addr, process_fstat(p, addr) PROVE Quiet \/ EndStep(p)
    BY <1>3, <1>4, <1>8 DEF process_fstat
  <1> QED BY <1>5, <1>6, <1>7, <1>8 DEF FileCall

(* kpalloc gives an area of fresh frames, or nothing. *)
KpallocStep ==
    /\ MultiHeapOK(mh') /\ Grows(mh, mh') /\ (AllSound(mh) => AllSound(mh'))
    /\ UNCHANGED <<loose, proc>>
    /\ \/ areas' = areas
       \/ \E b \in Rec : /\ areas' = areas \cup {b} /\ AreaOK(b)
                         /\ Pg(b) \subseteq TakenFrames(mh') \ TakenFrames(mh)

(* kpalloc takes a run of free blocks of a heap, or nothing. *)
LEMMA KpallocDoes ==
    ASSUME MemInv, NEW size \in AreaSizes, kpalloc(size)
    PROVE  KpallocStep
  <1> DEFINE r == multiheap_palloc(mh, size)
             n == BlocksFor(size)
             b == [ptr |-> r.ptr, size |-> size]
  <1>1. MultiHeapOK(mh) /\ size \in Nat
    BY Sizes DEF MemInv, KernelOK
  <1>2. /\ mh' = r.mh
        /\ areas' = IF r.panic = "none" THEN areas \cup {b} ELSE areas
        /\ UNCHANGED <<loose, proc>>
    BY DEF kpalloc
  <1> HIDE DEF r, n
  <1>3. Alloced(r, mh, n) /\ (r.panic = "none" => r.ptr # NULL)
    <2>1. r = multiheap_palloc(mh, size) /\ n = BlocksFor(size)
      BY DEF r, n
    <2> QED BY <1>1, <2>1, Palloc
  <1>4. /\ MultiHeapOK(r.mh) /\ Grows(mh, r.mh) /\ (AllSound(mh) => AllSound(r.mh))
        /\ r.panic = "none" =>
              /\ n \in Nat /\ n > 0 /\ r.ptr \in Nat
              /\ \E k \in Heaps : S(k) <= r.ptr /\ r.ptr + n <= S(k) + N(k)
              /\ (r.ptr .. r.ptr + n - 1) \cap TakenFrames(mh) = {}
              /\ TakenFrames(r.mh) = TakenFrames(mh) \cup (r.ptr .. r.ptr + n - 1)
    BY <1>3 DEF Alloced
  <1>5. CASE r.panic # "none"
    BY <1>2, <1>4, <1>5 DEF KpallocStep
  <1>6. CASE r.panic = "none"
    <2>1. b \in Rec /\ b.ptr = r.ptr /\ b.size = size
      BY <1>1, <1>4, <1>6 DEF Rec
    <2>2. Pg(b) = r.ptr .. r.ptr + n - 1 /\ BlocksFor(b.size) = n
      BY <2>1 DEF Pg, PagesOf, n
    <2> HIDE DEF b
    <2>3. AreaOK(b)
      BY <1>4, <1>6, <2>1, <2>2 DEF AreaOK
    <2>4. Pg(b) \subseteq TakenFrames(mh') \ TakenFrames(mh)
      BY <1>2, <1>4, <1>6, <2>2
    <2> QED BY <1>2, <1>4, <1>6, <2>1, <2>3, <2>4 DEF KpallocStep
  <1> QED BY <1>5, <1>6

(* The kernel's areas are mapped on themselves. *)
LEMMA AreaMapped ==
    ASSUME NEW a, AreaOK(a)
    PROVE  /\ a \in Rec /\ FramesIn(KernelDirectory, Pg(a)) = Pg(a)
           /\ Distinct(KernelDirectory, Pg(a))
  <1>1. PICK k \in Heaps : S(k) <= a.ptr /\ a.ptr + BlocksFor(a.size) <= S(k) + N(k)
    BY DEF AreaOK
  <1>2. /\ a \in Rec
        /\ Pg(a) = a.ptr .. a.ptr + BlocksFor(a.size) - 1 /\ a.ptr \in Nat /\ BlocksFor(a.size) \in Nat
    BY PagesNatural DEF AreaOK
  <1>3. \A v \in Pg(a) : v \in HeapPages(k)
    BY <1>1, <1>2, Layouts DEF HeapPages
  <1>4. \A v \in Pg(a) : KernelDirectory[v].frame = v
    <2> TAKE v \in Pg(a)
    <2>1. v \in HeapPages(k)
      BY <1>3
    <2>2. KernelDirectory[v] = [frame |-> v, flags |-> KernelFlags]
      BY <2>1, E820Maps
    <2> QED BY <2>2
  <1> QED BY <1>2, <1>4, IdentityFrames DEF Distinct

(* kpalloc keeps the memory invariant: the blocks it gives were free. *)
LEMMA KpallocKeepsApart ==
    ASSUME MemInv, KpallocStep
    PROVE  MemInv'
  <1> DEFINE fr == Frames(proc, areas)
             fr2 == Frames(proc, areas')
             T == TakenFrames(mh)
             T2 == TakenFrames(mh')
  <1>1. KernelOK(mh, areas) /\ ProcsOK(proc) /\ Apart(fr, T, loose)
    BY DEF MemInv
  <1>2. /\ MultiHeapOK(mh') /\ UNCHANGED <<loose, proc>>
        /\ \/ areas' = areas
           \/ \E b \in Rec : areas' = areas \cup {b} /\ AreaOK(b) /\ Pg(b) \subseteq T2 \ T
    BY DEF KpallocStep
  <1>3. T \subseteq T2
    BY DEF KpallocStep, Grows
  <1>4. KernelOK(mh', areas')
    BY <1>1, <1>2 DEF KernelOK
  <1>5. PICK Z : /\ \A c \in Pieces(proc, areas') : c \in Z \/ c \in Pieces(proc, areas)
                 /\ \A z, w \in Z : z = w
                 /\ \A z \in Z : FramesOf(proc, z) \subseteq T2 \ T
    <2>1. CASE areas' = areas
      <3> DEFINE Z == {}
      <3>1. /\ \A c \in Pieces(proc, areas') : c \in Z \/ c \in Pieces(proc, areas)
            /\ \A z, w \in Z : z = w
            /\ \A z \in Z : FramesOf(proc, z) \subseteq T2 \ T
        BY <2>1
      <3> HIDE DEF Z
      <3> QED BY <3>1
    <2>2. CASE areas' # areas
      <3>1. PICK b \in Rec : areas' = areas \cup {b} /\ AreaOK(b) /\ Pg(b) \subseteq T2 \ T
        BY <1>2, <2>2
      <3> DEFINE z == Piece("area", "kernel", b)
                 Z == {z}
      <3>2. FramesOf(proc, z) \subseteq T2 \ T
        <4>1. FramesOf(proc, z) = FramesIn(KernelDirectory, Pg(b))
          BY PieceIs DEF FramesOf
        <4> QED BY <3>1, <4>1, AreaMapped
      <3>3. ASSUME NEW c \in Pieces(proc, areas') PROVE c = z \/ c \in Pieces(proc, areas)
        <4>1. CASE c \in AreaPieces(areas')
          <5>1. c = Piece("area", "kernel", c.a) /\ c.a \in areas'
            BY <4>1, InAreas
          <5>2. CASE c.a = b
            BY <5>1, <5>2
          <5>3. CASE c.a \in areas
            <6>1. c \in AreaPieces(areas)
              BY <5>1, <5>3 DEF AreaPieces
            <6> QED BY <6>1, InPieces
          <5> QED BY <3>1, <5>1, <5>2, <5>3
        <4>2. CASE \E p \in Procs : c \in PiecesOf(p, proc[p])
          BY <4>2, InPieces
        <4> QED BY <4>1, <4>2, InPieces
      <3> HIDE DEF z
      <3>4. /\ \A c \in Pieces(proc, areas') : c \in Z \/ c \in Pieces(proc, areas)
            /\ \A x, w \in Z : x = w
            /\ \A x \in Z : FramesOf(proc, x) \subseteq T2 \ T
        BY <3>2, <3>3
      <3> HIDE DEF Z
      <3> QED BY <3>4
    <2> QED BY <2>1, <2>2
  <1>6. /\ DOMAIN fr = Pieces(proc, areas) /\ DOMAIN fr2 = Pieces(proc, areas')
        /\ \A c \in DOMAIN fr : fr[c] = FramesOf(proc, c)
        /\ \A c \in DOMAIN fr2 : fr2[c] = FramesOf(proc, c)
    BY FramesIs
  <1> HIDE DEF fr, fr2, T, T2
  <1>7. FreshIn(fr, fr2, T, T2, Z)
    BY <1>3, <1>5, <1>6 DEF FreshIn
  <1>8. Apart(fr2, T2, loose)
    BY <1>1, <1>7, FreshApart
  <1>9. ProcsOK(proc') /\ Apart(Frames(proc', areas'), TakenFrames(mh'), loose')
    BY <1>1, <1>2, <1>8 DEF fr2, T2
  <1> QED BY <1>4, <1>9 DEF MemInv

(* Nothing is in use: there is nothing to share a frame. *)
Idle == areas = {} /\ \A p \in Procs : proc[p] = Dead

LEMMA IdleApart ==
    ASSUME Idle, NEW T, NEW L
    PROVE  Apart(Frames(proc, areas), T, L)
  <1>1. \A p \in Procs : PiecesOf(p, proc[p]) = {}
    BY DEF Idle, PiecesOf, Dead
  <1>2. AreaPieces(areas) = {}
    BY DEF Idle, AreaPieces
  <1>3. \A c : c \notin Pieces(proc, areas)
    BY <1>1, <1>2, InPieces
  <1>4. \A c : c \notin DOMAIN Frames(proc, areas)
    BY <1>3, FramesIs
  <1> QED BY <1>4 DEF Apart

(* As long as kheap_init is at work nothing is in use. *)
BootInv == region \in Nat /\ (Ready \/ Idle)

(* What a turn of the loop of kheap_init does: the heap it leaves has no   *)
(* chain of blocks that are not taken if it had none before.               *)
Boots ==
    /\ Idle /\ UNCHANGED <<areas, proc, loose>>
    /\ MultiHeapOK(mh') /\ (AllSound(mh) => AllSound(mh'))

LEMMA BootDoes ==
    ASSUME MemInv, BootInv, kheap_init
    PROVE  Boots
  <1>1. ~Ready
    <2>1. region <= Len(Regions) /\ Len(Regions) \in Nat
      BY RegionsMany DEF kheap_init
    <2>2. region \in Nat
      BY DEF BootInv
    <2> QED BY <2>1, <2>2 DEF Ready
  <1>2. MultiHeapOK(mh)
    BY DEF MemInv, KernelOK
  <1>3. UNCHANGED <<areas, proc, loose>> /\ mh' = WithRegion(mh, region)
    BY DEF kheap_init
  <1>4. MultiHeapOK(mh') /\ (AllSound(mh) => AllSound(mh'))
    BY <1>2, <1>3, RegionSound
  <1> QED BY <1>1, <1>3, <1>4 DEF Boots, BootInv

(* kheap_init keeps the memory invariant. *)
LEMMA BootKeepsApart ==
    ASSUME MemInv, Boots
    PROVE  MemInv'
  <1>1. Idle /\ UNCHANGED <<areas, proc, loose>> /\ MultiHeapOK(mh')
    BY DEF Boots
  <1>2. KernelOK(mh', areas') /\ ProcsOK(proc')
    BY <1>1 DEF MemInv, KernelOK
  <1>3. Apart(Frames(proc, areas), TakenFrames(mh'), loose)
    BY <1>1, IdleApart
  <1> QED BY <1>1, <1>2, <1>3 DEF MemInv

(* Nothing but kheap_init goes on to another region. *)
LEMMA RegionKept ==
    ASSUME \/ \E p \in Procs : process_load(p)
           \/ \E size \in AreaSizes : kpalloc(size)
           \/ \E p \in Alive : HeapCall(p) \/ FileCall(p) \/ process_terminate(p)
    PROVE  region' = region
  <1>1. ASSUME NEW p, process_terminate(p) PROVE region' = region
    BY <1>1 DEF process_terminate, memory
  <1>2. ASSUME UNCHANGED vars PROVE region' = region
    BY <1>2 DEF vars
  <1>3. ASSUME NEW p, HeapCall(p) PROVE region' = region
    <2>1. ASSUME NEW size, process_malloc(p, size) PROVE region' = region
      BY <2>1 DEF process_malloc
    <2>2. ASSUME NEW a, process_free(p, a) PROVE region' = region
      BY <2>2 DEF process_free
    <2>3. ASSUME NEW a, NEW size, process_realloc(p, a, size) PROVE region' = region
      BY <2>3 DEF process_realloc
    <2>4. ASSUME NEW a, ReallocFails(p, a) PROVE region' = region
      BY <1>2, <2>4 DEF ReallocFails
    <2> QED BY <1>3, <2>1, <2>2, <2>3, <2>4 DEF HeapCall
  <1>4. ASSUME NEW p, FileCall(p) PROVE region' = region
    <2>1. ASSUME NEW path, NEW mode, process_fopen(p, path, mode) PROVE region' = region
      BY <2>1 DEF process_fopen
    <2>2. ASSUME NEW fd, process_fclose(p, fd) PROVE region' = region
      BY <2>2 DEF process_fclose
    <2>3. ASSUME NEW fd, NEW addr, process_fread(p, fd, addr, 1) PROVE region' = region
      BY <1>1, <1>2, <2>3 DEF process_fread
    <2>4. ASSUME NEW addr, process_fstat(p, addr) PROVE region' = region
      BY <1>1, <1>2, <2>4 DEF process_fstat
    <2> QED BY <1>4, <2>1, <2>2, <2>3, <2>4 DEF FileCall
  <1>5. ASSUME NEW p, process_load(p) PROVE region' = region
    BY <1>5 DEF process_load
  <1>6. ASSUME NEW size, kpalloc(size) PROVE region' = region
    BY <1>6 DEF kpalloc
  <1> QED BY <1>1, <1>3, <1>4, <1>5, <1>6

(* Every step keeps the kernel idle until kheap_init is done. *)
LEMMA NextKeepsBoot ==
    ASSUME BootInv, [Next]_vars
    PROVE  BootInv'
  <1>1. CASE UNCHANGED vars
    BY <1>1 DEF BootInv, Ready, Idle, vars
  <1>2. CASE kheap_init
    <2>1. ~Ready
      <3>1. region <= Len(Regions) /\ Len(Regions) \in Nat
        BY <1>2, RegionsMany DEF kheap_init
      <3>2. region \in Nat
        BY DEF BootInv
      <3> QED BY <3>1, <3>2 DEF Ready
    <2>2. UNCHANGED <<areas, proc>> /\ region' = region + 1
      BY <1>2 DEF kheap_init
    <2> QED BY <2>1, <2>2 DEF BootInv, Idle
  <1>3. CASE Ready /\ (\/ \E p \in Procs : process_load(p)
                       \/ \E size \in AreaSizes : kpalloc(size)
                       \/ \E p \in Alive : HeapCall(p) \/ FileCall(p) \/ process_terminate(p))
    <2>1. region' = region
      BY <1>3, RegionKept
    <2> QED BY <1>3, <2>1 DEF BootInv, Ready
  <1> QED BY <1>1, <1>2, <1>3 DEF Next

(* Init: nothing is in use. *)
LEMMA InitMem ==
    ASSUME Init
    PROVE  MemInv /\ BootInv /\ AllSound(mh) /\ loose = {}
  <1>1. PICK past \in {{}, {"HEAP_BLOCK_TABLE_ENTRY_TAKEN"}} :
        /\ region = 1
        /\ mh = StartingHeaps(past)
        /\ areas = {}
        /\ proc = [p \in Procs |-> Dead]
        /\ loose = {}
    BY DEF Init
  <1>2. past \in SUBSET BlockFlags
    BY DEF BlockFlags
  <1>3. MultiHeapOK(mh) /\ AllSound(mh)
    BY <1>1, <1>2, StartingSound
  <1>4. Idle
    BY <1>1 DEF Idle
  <1>5. KernelOK(mh, areas) /\ ProcsOK(proc)
    BY <1>1, <1>3 DEF KernelOK, ProcsOK
  <1>6. Apart(Frames(proc, areas), TakenFrames(mh), loose)
    BY <1>4, IdleApart
  <1> QED BY <1>1, <1>3, <1>4, <1>5, <1>6 DEF MemInv, BootInv

(* Every step keeps the invariant of memory. *)
LEMMA NextKeepsMem ==
    ASSUME MemInv, BootInv, [Next]_vars
    PROVE  MemInv'
  <1>1. CASE UNCHANGED vars
    BY <1>1, NothingDoes, QuietKeeps
  <1>2. ASSUME NEW p \in Procs, process_load(p) PROVE MemInv'
    BY <1>2, LoadDoes, QuietKeeps, LoadKeepsApart
  <1>3. ASSUME NEW size \in AreaSizes, kpalloc(size) PROVE MemInv'
    BY <1>3, KpallocDoes, KpallocKeepsApart
  <1>4. ASSUME NEW p \in Alive, HeapCall(p) PROVE MemInv'
    <2>1. ASSUME NEW size \in MallocSizes, process_malloc(p, size) PROVE MemInv'
      BY <2>1, MallocDoes, QuietKeeps, MallocKeepsApart
    <2>2. ASSUME NEW a, process_free(p, a) PROVE MemInv'
      BY <2>2, FreeDoes, FreeKeepsApart
    <2>3. ASSUME NEW a, NEW size \in ReallocSizes, process_realloc(p, a, size) PROVE MemInv'
      BY <2>3, ReallocDoes, ReallocKeepsApart
    <2>4. ASSUME NEW a, ReallocFails(p, a) PROVE MemInv'
      <3>1. UNCHANGED vars
        BY <2>4 DEF ReallocFails
      <3> QED BY <3>1, NothingDoes, QuietKeeps
    <2> QED BY <1>4, <2>1, <2>2, <2>3, <2>4 DEF HeapCall
  <1>5. ASSUME NEW p \in Alive, FileCall(p) PROVE MemInv'
    BY <1>5, FileCallDoes, QuietKeeps, EndKeepsApart
  <1>6. ASSUME NEW p \in Alive, process_terminate(p) PROVE MemInv'
    BY <1>6, EndDoes, QuietKeeps, EndKeepsApart
  <1>7. ASSUME kheap_init PROVE MemInv'
    BY <1>7, BootDoes, BootKeepsApart
  <1> QED BY <1>1, <1>2, <1>3, <1>4, <1>5, <1>6, <1>7 DEF Next

(* As many frames as pages. *)
LEMMA FramesCounted ==
    ASSUME NEW d, NEW a \in Rec, Distinct(d, Pg(a))
    PROVE  Cardinality(FramesIn(d, Pg(a))) = BlocksFor(a.size)
  <1> DEFINE n == BlocksFor(a.size)
             P == Pg(a)
             F == FramesIn(d, P)
             f == [v \in P |-> d[v].frame]
  <1>1. P = a.ptr .. a.ptr + n - 1 /\ a.ptr \in Nat /\ n \in Nat
    BY PagesNatural
  <1>2. IsFiniteSet(P) /\ Cardinality(P) = n
    <2>1. a.ptr \in Int /\ a.ptr + n - 1 \in Int
      BY <1>1
    <2> DEFINE l == a.ptr
               h == a.ptr + n - 1
    <2>2. P = l .. h
      BY <1>1
    <2>3. (IF l > h THEN 0 ELSE h - l + 1) = n
      BY <1>1
    <2> HIDE DEF P, n, l, h
    <2>4. l \in Int /\ h \in Int
      BY <2>1 DEF l, h
    <2> QED BY <2>2, <2>3, <2>4, FS_Interval
  <1> HIDE DEF P, n
  <1>3. f \in Surjection(P, F)
    BY DEF Surjection, F, FramesIn
  <1>4. f \in Injection(P, F)
    <2>1. f \in [P -> F]
      BY DEF F, FramesIn
    <2>2. \A v, w \in P : v # w => f[v] # f[w]
      BY DEF Distinct, P
    <2> HIDE DEF f, F
    <2>3. IsInjective(f)
      BY <2>1, <2>2 DEF IsInjective
    <2> QED BY <2>1, <2>3 DEF Injection
  <1>5. ExistsBijection(P, F)
    <2> HIDE DEF f, F
    <2> QED BY <1>3, <1>4 DEF ExistsBijection, Bijection
  <1>6. Cardinality(F) = Cardinality(P)
    <2> HIDE DEF F
    <2> QED BY <1>2, <1>5, FS_Bijection
  <1> QED BY <1>2, <1>6 DEF F, P, n

(* A chunk of memory is a piece with the frames behind it. *)
ChunkOf(z) ==
    [owner |-> z.owner, what |-> z.what, ptr |-> z.a.ptr, pages |-> BlocksFor(z.a.size),
     frames |-> FramesOf(proc, z)]

(* Every chunk the heaps' book-keeping must agree with is a piece's. *)
LEMMA ChunkIsPiece ==
    ASSUME NEW c \in Chunks
    PROVE  \E z \in Pieces(proc, areas) : c = ChunkOf(z)
  <1> DEFINE Ch(owner, what, dir, ptr, size) ==
                [owner |-> owner, what |-> what, ptr |-> ptr, pages |-> BlocksFor(size),
                 frames |-> {dir[v].frame : v \in PagesOf(ptr, size)}]
  <1>1. \/ \E p \in Alive : \/ c = Ch(p, "program", proc[p].dir, ProgramPage, ProgramSize)
                            \/ c = Ch(p, "stack", proc[p].dir, StackPage, StackSize)
                            \/ \E a \in proc[p].held : c = Ch(p, "malloc", proc[p].dir, a.ptr, a.size)
        \/ \E a \in areas : c = Ch("kernel", "area", KernelDirectory, a.ptr, a.size)
    BY DEF Chunks
  <1>2. ASSUME NEW p \in Alive, NEW what, what # "area", NEW a, c = Ch(p, what, proc[p].dir, a.ptr, a.size),
               Piece(what, p, a) \in PiecesOf(p, proc[p])
        PROVE  \E z \in Pieces(proc, areas) : c = ChunkOf(z)
    <2> DEFINE z == Piece(what, p, a)
    <2>1. z.what = what /\ z.owner = p /\ z.a = a
      BY PieceIs
    <2>2. z \in Pieces(proc, areas)
      BY <1>2, InPieces DEF Alive
    <2> HIDE DEF z
    <2>3. FramesOf(proc, z) = {proc[p].dir[v].frame : v \in PagesOf(a.ptr, a.size)}
      BY <1>2, <2>1 DEF FramesOf, FramesIn, Pg
    <2>4. c = ChunkOf(z)
      BY <1>2, <2>1, <2>3 DEF ChunkOf
    <2> QED BY <2>2, <2>4
  <1>3. ASSUME NEW p \in Alive, c = Ch(p, "program", proc[p].dir, ProgramPage, ProgramSize)
        PROVE  \E z \in Pieces(proc, areas) : c = ChunkOf(z)
    <2>1. c = Ch(p, "program", proc[p].dir, Program.ptr, Program.size)
      BY <1>3 DEF Program
    <2>2. Piece("program", p, Program) \in PiecesOf(p, proc[p])
      BY DEF PiecesOf, Alive
    <2> HIDE DEF Ch
    <2> QED BY <1>2, <2>1, <2>2, PieceKinds
  <1>4. ASSUME NEW p \in Alive, c = Ch(p, "stack", proc[p].dir, StackPage, StackSize)
        PROVE  \E z \in Pieces(proc, areas) : c = ChunkOf(z)
    <2>1. c = Ch(p, "stack", proc[p].dir, Stack.ptr, Stack.size)
      BY <1>4 DEF Stack
    <2>2. Piece("stack", p, Stack) \in PiecesOf(p, proc[p])
      BY DEF PiecesOf, Alive
    <2> HIDE DEF Ch
    <2> QED BY <1>2, <2>1, <2>2, PieceKinds
  <1>5. ASSUME NEW p \in Alive, NEW a \in proc[p].held, c = Ch(p, "malloc", proc[p].dir, a.ptr, a.size)
        PROVE  \E z \in Pieces(proc, areas) : c = ChunkOf(z)
    <2>1. Piece("malloc", p, a) \in PiecesOf(p, proc[p])
      BY DEF PiecesOf, Alive
    <2> HIDE DEF Ch
    <2> QED BY <1>2, <1>5, <2>1, PieceKinds
  <1>6. ASSUME NEW a \in areas, c = Ch("kernel", "area", KernelDirectory, a.ptr, a.size)
        PROVE  \E z \in Pieces(proc, areas) : c = ChunkOf(z)
    <2> DEFINE z == Piece("area", "kernel", a)
    <2>1. z.what = "area" /\ z.owner = "kernel" /\ z.a = a
      BY PieceIs
    <2>2. z \in AreaPieces(areas)
      BY DEF AreaPieces
    <2> HIDE DEF z
    <2>3. z \in Pieces(proc, areas)
      BY <2>2, InPieces
    <2>4. FramesOf(proc, z) = {KernelDirectory[v].frame : v \in PagesOf(a.ptr, a.size)}
      BY <2>1 DEF FramesOf, FramesIn, Pg
    <2>5. c = ChunkOf(z)
      BY <1>6, <2>1, <2>4 DEF ChunkOf
    <2> QED BY <2>3, <2>5
  <1> HIDE DEF Ch
  <1> QED BY <1>1, <1>3, <1>4, <1>5, <1>6

(* A piece has a frame for every page. *)
LEMMA PieceCounted ==
    ASSUME MemInv, NEW z \in Pieces(proc, areas)
    PROVE  Cardinality(FramesOf(proc, z)) = BlocksFor(z.a.size)
  <1>1. CASE z \in AreaPieces(areas)
    <2>1. z.what = "area" /\ z.a \in areas
      BY <1>1, InAreas
    <2>2. z.a \in Rec /\ Distinct(KernelDirectory, Pg(z.a))
      BY <2>1, AreaMapped DEF MemInv, KernelOK
    <2> QED BY <2>1, <2>2, FramesCounted DEF FramesOf
  <1>2. ASSUME NEW p \in Procs, z \in PiecesOf(p, proc[p])
        PROVE  Cardinality(FramesOf(proc, z)) = BlocksFor(z.a.size)
    <2>1. /\ proc[p].alive /\ z.what # "area" /\ z.owner = p
          /\ \/ z = Piece("program", p, Program)
             \/ z = Piece("stack", p, Stack)
             \/ \E a \in proc[p].held : z = Piece("malloc", p, a)
      BY <1>2, InPiecesOf
    <2>2. ProcOK(proc[p])
      BY <2>1, LivingOK DEF MemInv, Alive
    <2>3. z.a \in Rec /\ Distinct(proc[p].dir, Pg(z.a))
      <3>1. CASE z = Piece("program", p, Program)
        BY <2>2, <3>1, PieceIs, ProgramIs DEF ProcOK
      <3>2. CASE z = Piece("stack", p, Stack)
        BY <2>2, <3>2, PieceIs, ProgramIs DEF ProcOK
      <3>3. ASSUME NEW a \in proc[p].held, z = Piece("malloc", p, a) PROVE z.a \in Rec /\ Distinct(proc[p].dir, Pg(z.a))
        <4>1. z.a = a
          BY <3>3, PieceIs
        <4>2. Placed(a) /\ \A v \in Pg(a) : proc[p].dir[v].frame = v
          BY <2>2, <3>3 DEF ProcOK
        <4> QED BY <4>1, <4>2 DEF Placed, Distinct
      <3> QED BY <2>1, <3>1, <3>2, <3>3
    <2> QED BY <2>1, <2>3, FramesCounted DEF FramesOf
  <1> QED BY <1>1, <1>2, InPieces

(* The invariant of memory says that no two pieces of memory share a       *)
(* frame.                                                                  *)
LEMMA MemInvApart ==
    ASSUME MemInv
    PROVE  FramesApart
  <1> DEFINE fr == Frames(proc, areas)
             T == TakenFrames(mh)
  <1>1. Apart(fr, T, loose)
    BY DEF MemInv
  <1>2. /\ DOMAIN fr = Pieces(proc, areas)
        /\ \A z \in Pieces(proc, areas) : fr[z] = FramesOf(proc, z)
    BY FramesIs
  <1> HIDE DEF fr, T
  <1>3. ASSUME NEW c \in Chunks PROVE c.frames \subseteq T \cup loose /\ Cardinality(c.frames) = c.pages
    <2>1. PICK z \in Pieces(proc, areas) : c = ChunkOf(z)
      BY ChunkIsPiece
    <2>2. c.frames = FramesOf(proc, z) /\ c.pages = BlocksFor(z.a.size)
      BY <2>1 DEF ChunkOf
    <2>3. c.frames = fr[z]
      BY <1>2, <2>2
    <2>4. c.frames \subseteq T \cup loose
      BY <1>1, <1>2, <2>3 DEF Apart
    <2>5. Cardinality(c.frames) = c.pages
      BY <2>2, PieceCounted
    <2> QED BY <2>4, <2>5
  <1>4. ASSUME NEW c \in Chunks, NEW d \in Chunks, c # d PROVE c.frames \cap d.frames \subseteq loose
    <2>1. PICK z \in Pieces(proc, areas) : c = ChunkOf(z)
      BY ChunkIsPiece
    <2>2. PICK w \in Pieces(proc, areas) : d = ChunkOf(w)
      BY ChunkIsPiece
    <2>3. z # w
      BY <1>4, <2>1, <2>2
    <2>4. c.frames = fr[z] /\ d.frames = fr[w]
      BY <1>2, <2>1, <2>2 DEF ChunkOf
    <2> QED BY <1>1, <1>2, <2>3, <2>4 DEF Apart
  <1> QED BY <1>3, <1>4, Zenon DEF FramesApart, T

(* No two pieces of memory share a frame, every frame in use is taken from *)
(* a heap, and every page has one, but for what process_realloc let go of: *)
(* for any memory map, any number of processes and any sizes.              *)
THEOREM MemoryApart == Spec => []FramesApart
  <1>1. Init => MemInv /\ BootInv
    BY InitMem
  <1>2. MemInv /\ BootInv /\ [Next]_vars => (MemInv /\ BootInv)'
    BY NextKeepsMem, NextKeepsBoot
  <1>3. MemInv => FramesApart
    BY MemInvApart
  <1> QED BY <1>1, <1>2, <1>3, PTL DEF Spec

-----------------------------------------------------------------------------
(* Runs of blocks.                                                         *)

(* Piece a is a run of taken, chained blocks of one heap. *)
IsRun(m, a) == \E k \in Heaps : Run(m[k], S(k), N(k), a.ptr, BlocksFor(a.size))

RunsHeld(m, pc) == \A p \in Procs : pc[p].alive => \A a \in pc[p].held : IsRun(m, a)

(* Until a resize lets go of something, every chain is taken, and all that *)
(* a process holds is a run.                                               *)
AgreeInv ==
    loose = {} => AllSound(mh) /\ RunsHeld(mh, proc)

(* Runs are kept by heaps that only grow. *)
LEMMA StillRun ==
    ASSUME NEW m, NEW q, KeepsRuns(m, q), NEW a \in Rec, IsRun(m, a)
    PROVE  IsRun(q, a)
  <1>1. PICK k \in Heaps : Run(m[k], S(k), N(k), a.ptr, BlocksFor(a.size))
    BY DEF IsRun
  <1>2. a.ptr \in Nat /\ BlocksFor(a.size) \in Nat
    BY PagesNatural
  <1>3. Run(q[k], S(k), N(k), a.ptr, BlocksFor(a.size))
    BY <1>1, <1>2, RunKept
  <1> QED BY <1>3 DEF IsRun

(* What a living process holds are records. *)
LEMMA HeldRecords ==
    ASSUME ProcsOK(proc), NEW p \in Procs, proc[p].alive, NEW a \in proc[p].held
    PROVE  /\ p \in Alive /\ ProcOK(proc[p]) /\ a \in Rec /\ a.size # 0 /\ Placed(a)
           /\ BlocksFor(a.size) \in Nat /\ BlocksFor(a.size) > 0 /\ a.ptr \in Nat /\ a.ptr # NULL
           /\ Pg(a) = a.ptr .. a.ptr + BlocksFor(a.size) - 1
  <1>1. p \in Alive
    BY DEF Alive
  <1>2. ProcOK(proc[p])
    BY <1>1, LivingOK
  <1>3. a.size # 0 /\ Placed(a)
    BY <1>2 DEF ProcOK
  <1>4. a \in Rec /\ a.ptr # NULL
    BY <1>3, PlacedPages
  <1>5. BlocksFor(a.size) \in Nat /\ a.ptr \in Nat /\ a.size \in Nat /\ Pg(a) = a.ptr .. a.ptr + BlocksFor(a.size) - 1
    BY <1>4, PagesNatural
  <1>6. BlocksFor(a.size) > 0
    BY <1>3, <1>5, BlocksForBytes
  <1> QED BY <1>1, <1>2, <1>3, <1>4, <1>5, <1>6

(* A dead process holds nothing. *)
LEMMA DeadIs == ~Dead.alive
  BY DEF Dead

(* When only process p's holdings change, and runs are kept, the others    *)
(* hold runs as before.                                                    *)
LEMMA RunsHeldKept ==
    ASSUME MemInv, RunsHeld(mh, proc), NEW q, KeepsRuns(mh, q), NEW p \in Procs, NEW y,
           proc[p].alive, y.alive => \A a \in y.held : a \in proc[p].held \/ IsRun(q, a)
    PROVE  RunsHeld(q, [proc EXCEPT ![p] = y])
  <1> DEFINE pc == [proc EXCEPT ![p] = y]
  <1>1. ProcsOK(proc)
    BY DEF MemInv
  <1>2. proc = [x \in Procs |-> proc[x]]
    BY <1>1 DEF ProcsOK
  <1>3. pc[p] = y /\ \A x \in Procs : x # p => pc[x] = proc[x]
    BY <1>2
  <1>4. ASSUME NEW x \in Procs, proc[x].alive, NEW a \in proc[x].held PROVE IsRun(q, a)
    <2>1. IsRun(mh, a)
      BY <1>4 DEF RunsHeld
    <2>2. a \in Rec
      BY <1>1, <1>4, HeldRecords
    <2> QED BY <2>1, <2>2, StillRun
  <1> HIDE DEF pc
  <1>5. ASSUME NEW x \in Procs, pc[x].alive, NEW a \in pc[x].held PROVE IsRun(q, a)
    <2>1. CASE x = p
      <3>1. y.alive /\ a \in y.held
        BY <1>3, <1>5, <2>1
      <3>2. a \in proc[p].held \/ IsRun(q, a)
        BY <3>1
      <3> QED BY <1>4, <3>2
    <2>2. CASE x # p
      BY <1>3, <1>4, <1>5, <2>2
    <2> QED BY <2>1, <2>2
  <1>6. RunsHeld(q, pc)
    BY <1>5 DEF RunsHeld
  <1> QED BY <1>6 DEF pc

(* What was just taken is a run. *)
LEMMA TakenIsRun ==
    ASSUME NEW m, NEW q, NEW a, TakesRun(m, q, a)
    PROVE  MultiHeapOK(m) => IsRun(q, a) /\ KeepsRuns(m, q)
  <1> SUFFICES ASSUME MultiHeapOK(m) PROVE IsRun(q, a) /\ KeepsRuns(m, q)
    OBVIOUS
  <1>1. MultiHeapOK(q) /\ Grows(m, q) /\ a \in Rec /\ TakenFrames(q) = TakenFrames(m) \cup Pg(a)
    BY DEF TakesRun
  <1>2. KeepsRuns(m, q)
    BY <1>1, GrowsKeepsRuns
  <1>3. PICK k \in Heaps :
          /\ S(k) <= a.ptr /\ a.ptr + BlocksFor(a.size) <= S(k) + N(k)
          /\ \A i \in a.ptr - S(k) .. a.ptr - S(k) + BlocksFor(a.size) - 2 : Chained(q[k], i)
    BY DEF TakesRun
  <1>4. S(k) \in Nat /\ N(k) \in Nat
    BY Layouts
  <1>5. BlocksFor(a.size) \in Nat /\ a.ptr \in Nat /\ Pg(a) = a.ptr .. a.ptr + BlocksFor(a.size) - 1
    BY <1>1, PagesNatural
  <1>6. ASSUME NEW i \in a.ptr - S(k) .. a.ptr - S(k) + BlocksFor(a.size) - 1 PROVE Marked(q[k], i)
    <2>0. S(k) <= a.ptr /\ a.ptr + BlocksFor(a.size) <= S(k) + N(k)
      BY <1>3
    <2>1. S(k) + i \in Pg(a) /\ S(k) + i \in S(k) .. S(k) + N(k) - 1 /\ (S(k) + i) - S(k) = i
      BY <1>4, <1>5, <2>0, SMTT(30)
    <2>2. S(k) + i \in TakenFrames(q)
      BY <1>1, <2>1
    <2>3. S(k) + i \in Taken(q[k])
      BY <1>1, <2>1, <2>2, NotTaken
    <2>4. q[k].saddr = S(k)
      BY <1>1, <1>4, PagesAt DEF MultiHeapOK
    <2> QED BY <2>1, <2>3, <2>4, InTaken
  <1>7. Run(q[k], S(k), N(k), a.ptr, BlocksFor(a.size))
    BY <1>3, <1>6 DEF Run
  <1> QED BY <1>2, <1>7 DEF IsRun

(* Nothing was upset so far. *)
Unupset == AllSound(mh) /\ RunsHeld(mh, proc)

(* A step that changes nobody's memory keeps it so. *)
LEMMA QuietUnupset ==
    ASSUME MemInv, Unupset, Quiet
    PROVE  Unupset'
  <1>1. AllSound(mh') /\ Grows(mh, mh') /\ MultiHeapOK(mh')
    BY DEF Unupset, Quiet
  <1>2. MultiHeapOK(mh)
    BY DEF MemInv, KernelOK
  <1>3. KeepsRuns(mh, mh')
    BY <1>1, <1>2, GrowsKeepsRuns
  <1>4. ASSUME NEW p \in Procs, proc'[p].alive, NEW a \in proc'[p].held PROVE IsRun(mh', a)
    <2>1. proc[p].alive /\ a \in proc[p].held
      BY <1>4 DEF Quiet, SameMemory
    <2>2. IsRun(mh, a)
      BY <2>1 DEF Unupset, RunsHeld
    <2>3. a \in Rec
      BY <2>1, HeldRecords DEF MemInv
    <2> QED BY <1>3, <2>2, <2>3, StillRun
  <1>5. RunsHeld(mh', proc')
    BY <1>4 DEF RunsHeld
  <1> QED BY <1>1, <1>5 DEF Unupset

(* What is given for a is all that is new. *)
LEMMA GivenUnupset ==
    ASSUME MemInv, Unupset, NEW p \in Alive, NEW index, NEW a, NEW gone,
           proc' = [proc EXCEPT ![p] = proc'[p]], Given(proc[p], proc'[p], index, a, gone),
           AllSound(mh'), KeepsRuns(mh, mh'), IsRun(mh', a)
    PROVE  Unupset'
  <1>1. p \in Procs /\ proc[p].alive
    BY DEF Alive
  <1> DEFINE y == proc'[p]
  <1>2. \A x \in y.held : x \in proc[p].held \/ IsRun(mh', x)
    BY DEF Given
  <1> HIDE DEF y
  <1>3. RunsHeld(mh', [proc EXCEPT ![p] = y])
    BY <1>1, <1>2, RunsHeldKept DEF Unupset
  <1> QED BY <1>3 DEF Unupset, y

(* process_malloc. *)
LEMMA MallocUnupset ==
    ASSUME MemInv, Unupset, NEW p \in Alive, NEW size, MallocStep(p, size)
    PROVE  Unupset'
  <1>1. PICK a \in Rec :
            /\ a.size = size /\ TakesRun(mh, mh', a)
            /\ proc' = [proc EXCEPT ![p] = proc'[p]]
            /\ Given(proc[p], proc'[p], FreeIndex(proc[p].allocations), a, {})
    BY DEF MallocStep
  <1>2. MultiHeapOK(mh)
    BY DEF MemInv, KernelOK
  <1>3. IsRun(mh', a) /\ KeepsRuns(mh, mh')
    BY <1>1, <1>2, TakenIsRun
  <1>4. AllSound(mh')
    BY <1>1 DEF TakesRun, Unupset
  <1> QED BY <1>1, <1>3, <1>4, GivenUnupset

(* Heaps keep the runs that they have. *)
LEMMA SameRuns ==
    ASSUME NEW m
    PROVE  KeepsRuns(m, m)
  BY DEF KeepsRuns

(* A process that holds less. *)
LEMMA LessUnupset ==
    ASSUME MemInv, Unupset, NEW p \in Alive, AllSound(mh'), KeepsRuns(mh, mh'),
           proc' = [proc EXCEPT ![p] = proc'[p]], proc'[p].alive => proc'[p].held \subseteq proc[p].held
    PROVE  Unupset'
  <1>1. p \in Procs /\ proc[p].alive
    BY DEF Alive
  <1> DEFINE y == proc'[p]
  <1>2. y.alive => \A x \in y.held : x \in proc[p].held \/ IsRun(mh', x)
    OBVIOUS
  <1> HIDE DEF y
  <1>3. RunsHeld(mh', [proc EXCEPT ![p] = y])
    BY <1>1, <1>2, RunsHeldKept DEF Unupset
  <1> QED BY <1>3 DEF Unupset, y

(* process_free. *)
LEMMA FreeUnupset ==
    ASSUME MemInv, Unupset, NEW p \in Alive, NEW a, FreeStep(p, a)
    PROVE  Unupset'
  <1>1. proc' = [proc EXCEPT ![p] = proc'[p]] /\ proc'[p].held \subseteq proc[p].held /\ mh' = mh
    BY DEF FreeStep, Freed
  <1>2. AllSound(mh') /\ KeepsRuns(mh, mh')
    BY <1>1, SameRuns DEF Unupset
  <1> QED BY <1>1, <1>2, LessUnupset

(* process_terminate. *)
LEMMA EndUnupset ==
    ASSUME MemInv, Unupset, NEW p \in Alive, EndStep(p)
    PROVE  Unupset'
  <1>1. proc' = [proc EXCEPT ![p] = Dead] /\ mh' = mh /\ p \in Procs
    BY DEF EndStep, Alive
  <1>2. proc = [q \in Procs |-> proc[q]]
    BY DEF MemInv, ProcsOK
  <1>3. proc'[p] = Dead /\ proc' = [proc EXCEPT ![p] = proc'[p]]
    BY <1>1, <1>2
  <1>4. ~proc'[p].alive
    BY <1>3, DeadIs
  <1>5. AllSound(mh') /\ KeepsRuns(mh, mh')
    BY <1>1, SameRuns DEF Unupset
  <1> QED BY <1>3, <1>4, <1>5, LessUnupset

(* process_load. *)
LEMMA LoadUnupset ==
    ASSUME MemInv, Unupset, NEW p \in Procs, LoadStep(p)
    PROVE  Unupset'
  <1>1. PICK image, stack, m :
            /\ TakesRun(mh, m, image) /\ TakesRun(m, mh', stack)
            /\ proc' = [proc EXCEPT ![p] = proc'[p]]
            /\ proc'[p].held = {}
    BY DEF LoadStep
  <1>2. MultiHeapOK(mh) /\ MultiHeapOK(m) /\ MultiHeapOK(mh')
    BY <1>1 DEF MemInv, KernelOK, TakesRun
  <1>3. KeepsRuns(mh, m) /\ KeepsRuns(m, mh')
    BY <1>1, <1>2, TakenIsRun
  <1>4. AllSound(mh')
    BY <1>1 DEF TakesRun, Unupset
  <1>5. proc = [q \in Procs |-> proc[q]]
    BY DEF MemInv, ProcsOK
  <1>6. \A q \in Procs : q # p => proc'[q] = proc[q]
    BY <1>1, <1>5
  <1>7. ASSUME NEW q \in Procs, proc'[q].alive, NEW a \in proc'[q].held PROVE IsRun(mh', a)
    <2>1. q # p
      BY <1>1, <1>7
    <2>2. proc[q].alive /\ a \in proc[q].held
      BY <1>6, <1>7, <2>1
    <2>3. IsRun(mh, a)
      BY <2>2 DEF Unupset, RunsHeld
    <2>4. a \in Rec
      BY <2>2, HeldRecords DEF MemInv
    <2>5. IsRun(m, a)
      BY <1>3, <2>3, <2>4, StillRun
    <2> QED BY <1>3, <2>4, <2>5, StillRun
  <1>8. RunsHeld(mh', proc')
    BY <1>7 DEF RunsHeld
  <1> QED BY <1>4, <1>8 DEF Unupset

(* kpalloc. *)
LEMMA KpallocUnupset ==
    ASSUME MemInv, Unupset, KpallocStep
    PROVE  Unupset'
  <1>1. MultiHeapOK(mh') /\ Grows(mh, mh') /\ AllSound(mh') /\ proc' = proc
    BY DEF KpallocStep, Unupset
  <1>2. MultiHeapOK(mh)
    BY DEF MemInv, KernelOK
  <1>3. KeepsRuns(mh, mh')
    BY <1>1, <1>2, GrowsKeepsRuns
  <1>4. ASSUME NEW p \in Procs, proc[p].alive, NEW a \in proc[p].held PROVE IsRun(mh', a)
    <2>1. IsRun(mh, a)
      BY <1>4 DEF Unupset, RunsHeld
    <2>2. a \in Rec
      BY <1>4, HeldRecords DEF MemInv
    <2> QED BY <1>3, <2>1, <2>2, StillRun
  <1>5. RunsHeld(mh', proc')
    BY <1>1, <1>4 DEF RunsHeld
  <1> QED BY <1>1, <1>5 DEF Unupset

(* What process_realloc does while nothing was upset: it keeps it so, or   *)
(* lets go of something; and what it does not give back it lets go of.     *)
ReallocOutcome(p, a) ==
    /\ Unupset' \/ loose' # {}
    /\ \A f \in Pg(a) : f \in loose' \/ \E x \in proc'[p].held : f \in Pg(x)

(* realloc of NULL is malloc. *)
LEMMA ReallocOfNull ==
    ASSUME MemInv, Unupset, NEW p \in Alive, NEW size \in ReallocSizes, ReallocStep(p, NoRecord, size)
    PROVE  ReallocOutcome(p, NoRecord)
  <1> DEFINE a == NoRecord
  <1>1. PICK r, b, index :
        /\ r = multiheap_realloc(mh, a.ptr, size) /\ mh' = r.mh
        /\ b = [ptr |-> r.ptr, size |-> size]
        /\ proc' = [proc EXCEPT ![p] = proc'[p]]
        /\ \/ /\ r.ptr = NULL
              /\ Less(proc[p], proc'[p], IF size = 0 THEN {a} ELSE {})
           \/ /\ r.ptr # NULL
              /\ Given(proc[p], proc'[p], index, b, {a})
    BY DEF ReallocStep
  <1>2. a.ptr = NULL /\ Pg(a) = {}
    BY NoRecordEmpty
  <1>3. MultiHeapOK(mh)
    BY DEF MemInv, KernelOK
  <1>4. r = multiheap_alloc(mh, size) /\ size \in Nat
    BY <1>1, <1>2, <1>3, ReallocNull, Sizes
  <1>5. /\ MultiHeapOK(r.mh) /\ Grows(mh, r.mh) /\ (AllSound(mh) => AllSound(r.mh))
        /\ r.ptr = NULL => r.mh = mh
        /\ r.ptr # NULL => TakesRun(mh, r.mh, [ptr |-> r.ptr, size |-> size])
    BY <1>3, <1>4, RunTaken
  <1>6. AllSound(mh') /\ KeepsRuns(mh, mh')
    BY <1>1, <1>3, <1>5, GrowsKeepsRuns DEF Unupset
  <1>7. CASE r.ptr = NULL
    <2>1. proc'[p].held \subseteq proc[p].held
      BY <1>1, <1>7 DEF Less
    <2>2. Unupset'
      BY <1>1, <1>6, <2>1, LessUnupset
    <2> QED BY <1>2, <2>2 DEF ReallocOutcome
  <1>8. CASE r.ptr # NULL
    <2>1. TakesRun(mh, mh', b)
      BY <1>1, <1>5, <1>8
    <2>2. IsRun(mh', b)
      BY <1>3, <2>1, TakenIsRun
    <2>3. Given(proc[p], proc'[p], index, b, {a})
      BY <1>1, <1>8
    <2> HIDE DEF a
    <2>4. Unupset'
      BY <1>1, <1>6, <2>2, <2>3, GivenUnupset
    <2> QED BY <1>2, <2>4 DEF ReallocOutcome, a
  <1> QED BY <1>7, <1>8

(* realloc of a pointer that the process holds. *)
LEMMA ReallocOfHeld ==
    ASSUME MemInv, Unupset, NEW p \in Alive, NEW a \in proc[p].held,
           NEW size \in ReallocSizes, ReallocStep(p, a, size)
    PROVE  ReallocOutcome(p, a)
  <1>1. PICK r, b, index :
        /\ r = multiheap_realloc(mh, a.ptr, size) /\ mh' = r.mh
        /\ b = [ptr |-> r.ptr, size |-> size]
        /\ proc' = [proc EXCEPT ![p] = proc'[p]]
        /\ \/ /\ r.ptr = NULL
              /\ Less(proc[p], proc'[p], IF size = 0 THEN {a} ELSE {})
           \/ /\ r.ptr # NULL
              /\ Placed(b) /\ b.size # 0
              /\ Given(proc[p], proc'[p], index, b, {a})
        /\ loose' = loose \cup LetGoOf(mh, mh', a, b, r.ptr # NULL, proc[p].allocations[index])
    BY DEF ReallocStep
  <1> DEFINE m == BlocksFor(a.size)
             n == BlocksFor(size)
             u == a.ptr
  <1>2. p \in Procs /\ proc[p].alive /\ ProcsOK(proc) /\ MultiHeapOK(mh)
    BY DEF Alive, MemInv, KernelOK
  <1>3. m \in Nat /\ m > 0 /\ u \in Nat /\ u # NULL /\ Pg(a) = u .. u + m - 1 /\ a \in Rec
    BY <1>2, HeldRecords
  <1>4. IsRun(mh, a)
    BY <1>2 DEF Unupset, RunsHeld
  <1>5. PICK k \in Heaps : Run(mh[k], S(k), N(k), u, m)
    BY <1>4 DEF IsRun
  <1>6. size \in Nat /\ n \in Nat /\ n <= Slack
    BY Sizes, BlocksForBytes
  <1>7. MultiResized(r, mh, u, m, n, size)
    <2>1. r = multiheap_realloc(mh, u, size) /\ AllSound(mh) /\ n = BlocksFor(size)
      BY <1>1 DEF Unupset
    <2> HIDE DEF m, n, u
    <2> QED BY <1>2, <1>3, <1>5, <1>6, <2>1, MultiResizes
  <1>8. Pg(a) \subseteq TakenFrames(mh)
    <2>1. mh[k] \in HeapsAt(S(k), N(k)) /\ S(k) \in Nat /\ N(k) \in Nat
      BY <1>2, Layouts DEF MultiHeapOK
    <2> HIDE DEF m, u
    <2>2. ASSUME NEW f \in u .. u + m - 1 PROVE f \in Taken(mh[k])
      BY <1>3, <1>5, <2>1, RunPages
    <2> QED BY <1>2, <1>3, <2>2, InTakenFrames
  <1>9. TakenFrames(mh) \ TakenFrames(mh') \subseteq loose'
    BY <1>1 DEF LetGoOf
  <1>10. r.ptr # NULL => /\ b \in proc'[p].held /\ Given(proc[p], proc'[p], index, b, {a})
                         /\ Pg(b) = r.ptr .. r.ptr + n - 1
    <2> SUFFICES ASSUME r.ptr # NULL
                 PROVE  /\ b \in proc'[p].held /\ Given(proc[p], proc'[p], index, b, {a})
                        /\ Pg(b) = r.ptr .. r.ptr + n - 1
      OBVIOUS
    <2>1. Placed(b) /\ Given(proc[p], proc'[p], index, b, {a})
      BY <1>1
    <2>2. b \in Rec /\ b.ptr = r.ptr /\ b.size = size
      BY <1>1, <2>1, PlacedPages
    <2>3. Pg(b) = b.ptr .. b.ptr + BlocksFor(b.size) - 1
      BY <2>2, PagesNatural
    <2> QED BY <2>1, <2>2, <2>3 DEF Given
  <1>11. r.ptr = NULL /\ size # 0 => a \in proc'[p].held
    BY <1>1 DEF Less
  <1>12. r.ptr = u /\ m <= n => Pg(a) \subseteq Pg(b) /\ b \in proc'[p].held
    BY <1>3, <1>6, <1>10
  <1> HIDE DEF m, n, u
  <1>13. CASE AllKept(r, mh, u, m, n, size)
    <2>1. /\ AllSound(mh') /\ KeepsRuns(mh, mh')
          /\ \/ r.ptr = NULL /\ size # 0
             \/ r.ptr = u /\ m <= n /\ \E l \in Heaps : Run(mh'[l], S(l), N(l), u, n)
      BY <1>1, <1>13 DEF AllKept
    <2>2. CASE r.ptr = NULL /\ size # 0
      <3>1. proc'[p].held \subseteq proc[p].held
        BY <1>1, <2>2 DEF Less
      <3>2. Unupset'
        BY <1>1, <2>1, <3>1, LessUnupset
      <3> QED BY <1>11, <2>2, <3>2 DEF ReallocOutcome
    <2>3. CASE r.ptr = u /\ m <= n /\ \E l \in Heaps : Run(mh'[l], S(l), N(l), u, n)
      <3>1. b.ptr = u /\ b.size = size
        BY <1>1, <2>3
      <3>2. IsRun(mh', b)
        BY <2>3, <3>1 DEF IsRun, n
      <3>3. Given(proc[p], proc'[p], index, b, {a})
        BY <1>3, <1>10, <2>3
      <3>4. Unupset'
        BY <1>1, <2>1, <3>2, <3>3, GivenUnupset
      <3> QED BY <1>12, <2>3, <3>4 DEF ReallocOutcome
    <2> QED BY <2>1, <2>2, <2>3
  <1>14. CASE SomeLost(r, mh, u, m, n)
    <2>1. /\ TakenFrames(mh) \ TakenFrames(mh') # {}
          /\ \A f \in u .. u + m - 1 :
                f \in TakenFrames(mh) \ TakenFrames(mh') \/ (r.ptr = u /\ f \in u .. u + n - 1)
      BY <1>1, <1>14 DEF SomeLost
    <2>2. loose' # {}
      BY <1>9, <2>1
    <2>3. ASSUME NEW f \in Pg(a) PROVE f \in loose' \/ \E x \in proc'[p].held : f \in Pg(x)
      <3>1. f \in loose' \/ (r.ptr = u /\ f \in u .. u + n - 1)
        BY <1>3, <1>9, <2>1
      <3> QED BY <1>3, <1>10, <3>1
    <2> QED BY <2>2, <2>3 DEF ReallocOutcome
  <1>15. CASE TooLong(r, mh, u, m, n)
    <2>1. /\ r.ptr = u /\ m <= n
          /\ \E f \in u .. u + n - 1 : f \notin TakenFrames(mh) /\ f \notin TakenFrames(mh')
      BY <1>1, <1>15 DEF TooLong
    <2>2. PICK f \in u .. u + n - 1 : f \notin TakenFrames(mh) /\ f \notin TakenFrames(mh')
      BY <2>1
    <2>3. f \in Pg(b) /\ f \notin Pg(a) /\ r.ptr # NULL
      BY <1>3, <1>8, <1>10, <2>1, <2>2
    <2>4. f \in loose'
      BY <1>1, <2>2, <2>3 DEF LetGoOf
    <2> QED BY <1>12, <2>1, <2>4 DEF ReallocOutcome
  <1> QED BY <1>7, <1>13, <1>14, <1>15 DEF MultiResized

(* Both. *)
LEMMA ReallocUnupset ==
    ASSUME MemInv, Unupset, NEW p \in Alive, NEW a, NEW size \in ReallocSizes, ReallocStep(p, a, size)
    PROVE  ReallocOutcome(p, a)
  <1>1. a \in proc[p].held \/ a = NoRecord
    BY DEF ReallocStep
  <1> QED BY <1>1, ReallocOfNull, ReallocOfHeld

(* The frames that are loose stay so, and as long as there are none        *)
(* nothing is upset.                                                       *)
StillUnupset == loose \subseteq loose' /\ (loose' = {} => Unupset')

(* The steps that change no process's memory, or only one's. *)
LEMMA QuietAgrees ==
    ASSUME MemInv, loose = {} => Unupset, Quiet
    PROVE  StillUnupset
  <1>1. loose' = loose
    BY DEF Quiet
  <1> QED BY <1>1, QuietUnupset DEF StillUnupset

(* process_terminate upsets nothing as long as nothing was let go.         *)
LEMMA EndAgrees ==
    ASSUME MemInv, loose = {} => Unupset, NEW p \in Alive, EndStep(p)
    PROVE  StillUnupset
  <1>1. loose' = loose
    BY DEF EndStep
  <1> QED BY <1>1, EndUnupset DEF StillUnupset

(* process_load_switch upsets nothing as long as nothing was let go.       *)
LEMMA LoadAgrees ==
    ASSUME MemInv, loose = {} => Unupset, NEW p \in Procs, LoadStep(p)
    PROVE  StillUnupset
  <1>1. loose' = loose
    BY DEF LoadStep
  <1> QED BY <1>1, LoadUnupset DEF StillUnupset

(* process_malloc upsets nothing as long as nothing was let go.            *)
LEMMA MallocAgrees ==
    ASSUME MemInv, loose = {} => Unupset, NEW p \in Alive, NEW size, MallocStep(p, size)
    PROVE  StillUnupset
  <1>1. loose' = loose
    BY DEF MallocStep
  <1> QED BY <1>1, MallocUnupset DEF StillUnupset

(* process_free upsets nothing as long as nothing was let go.              *)
LEMMA FreeAgrees ==
    ASSUME MemInv, loose = {} => Unupset, NEW p \in Alive, NEW a, FreeStep(p, a)
    PROVE  StillUnupset
  <1>1. loose \subseteq loose'
    BY DEF FreeStep
  <1>2. loose' = {} => loose = {}
    BY <1>1
  <1> QED BY <1>1, <1>2, FreeUnupset DEF StillUnupset

(* process_realloc upsets nothing as long as nothing was let go.           *)
LEMMA ReallocAgrees ==
    ASSUME MemInv, loose = {} => Unupset, NEW p \in Alive, NEW a,
           NEW size \in ReallocSizes, ReallocStep(p, a, size)
    PROVE  StillUnupset
  <1>1. loose \subseteq loose'
    BY DEF ReallocStep
  <1>2. loose' = {} => loose = {}
    BY <1>1
  <1>3. Unupset => Unupset' \/ loose' # {}
    BY ReallocUnupset DEF ReallocOutcome
  <1> QED BY <1>1, <1>2, <1>3 DEF StillUnupset

(* So do all steps. *)
LEMMA NextAgrees ==
    ASSUME MemInv, BootInv, loose = {} => Unupset, [Next]_vars
    PROVE  StillUnupset
  <1>1. CASE UNCHANGED vars
    BY <1>1, NothingDoes, QuietAgrees
  <1>2. ASSUME NEW p \in Procs, process_load(p) PROVE StillUnupset
    BY <1>2, LoadDoes, QuietAgrees, LoadAgrees
  <1>3. ASSUME NEW size \in AreaSizes, kpalloc(size) PROVE StillUnupset
    <2>1. KpallocStep
      BY <1>3, KpallocDoes
    <2>2. loose' = loose
      BY <2>1 DEF KpallocStep
    <2> QED BY <2>1, <2>2, KpallocUnupset DEF StillUnupset
  <1>4. ASSUME NEW p \in Alive, HeapCall(p) PROVE StillUnupset
    <2>1. ASSUME NEW size \in MallocSizes, process_malloc(p, size) PROVE StillUnupset
      BY <2>1, MallocDoes, QuietAgrees, MallocAgrees
    <2>2. ASSUME NEW a, process_free(p, a) PROVE StillUnupset
      BY <2>2, FreeDoes, FreeAgrees
    <2>3. ASSUME NEW a, NEW size \in ReallocSizes, process_realloc(p, a, size) PROVE StillUnupset
      BY <2>3, ReallocDoes, ReallocAgrees
    <2>4. ASSUME NEW a, ReallocFails(p, a) PROVE StillUnupset
      <3>1. UNCHANGED vars
        BY <2>4 DEF ReallocFails
      <3> QED BY <3>1, NothingDoes, QuietAgrees
    <2> QED BY <1>4, <2>1, <2>2, <2>3, <2>4 DEF HeapCall
  <1>5. ASSUME NEW p \in Alive, FileCall(p) PROVE StillUnupset
    BY <1>5, FileCallDoes, QuietAgrees, EndAgrees
  <1>6. ASSUME NEW p \in Alive, process_terminate(p) PROVE StillUnupset
    BY <1>6, EndDoes, QuietAgrees, EndAgrees
  <1>7. ASSUME kheap_init PROVE StillUnupset
    <2>1. Boots
      BY <1>7, BootDoes
    <2>2. loose' = loose /\ proc' = proc /\ (AllSound(mh) => AllSound(mh')) /\ \A p \in Procs : proc[p] = Dead
      BY <2>1 DEF Boots, Idle
    <2>3. RunsHeld(mh', proc')
      BY <2>2, DeadIs DEF RunsHeld
    <2> QED BY <2>2, <2>3 DEF StillUnupset, Unupset
  <1> QED BY <1>1, <1>2, <1>3, <1>4, <1>5, <1>6, <1>7 DEF Next

(* Every step keeps the runs. *)
LEMMA NextKeepsAgree ==
    ASSUME MemInv, BootInv, AgreeInv, [Next]_vars
    PROVE  AgreeInv'
  <1>1. loose = {} => Unupset
    BY DEF AgreeInv, Unupset
  <1>2. loose' = {} => Unupset'
    BY <1>1, NextAgrees DEF StillUnupset
  <1> QED BY <1>2 DEF AgreeInv, Unupset

(* At the start nobody holds anything. *)
LEMMA InitAgree ==
    ASSUME Init
    PROVE  AgreeInv
  <1>1. AllSound(mh)
    BY InitMem
  <1>2. proc = [p \in Procs |-> Dead]
    BY DEF Init
  <1>3. RunsHeld(mh, proc)
    BY <1>2, DeadIs DEF RunsHeld
  <1> QED BY <1>1, <1>2, <1>3 DEF AgreeInv

-----------------------------------------------------------------------------
(* What a process reaches, and what its records and tables say.            *)

(* What is open to the program is its own, or was let go of. *)
OpenOwn(pr, L) ==
    \A v \in Pages : USER \in pr.dir[v].flags =>
        \/ v \in ProgramPages \cup StackPages
        \/ \E a \in pr.held : v \in Pg(a)
        \/ v \in L /\ pr.dir[v].frame = v

(* Every piece has a record, unless something of it was let go of; every   *)
(* record is of such a piece, is free, or is of pages that were let go of; *)
(* and before that happens no two records have the same pointer.           *)
PiecesRecorded(pr, L) ==
    \A a \in pr.held : Pg(a) \cap L = {} => \E i \in DOMAIN pr.allocations : pr.allocations[i] = a

RecordsHeld(pr, L) ==
    \A i \in DOMAIN pr.allocations :
        pr.allocations[i] # NoRecord =>
            /\ pr.allocations[i].size # 0
            /\ pr.allocations[i] \in pr.held \/ Pg(pr.allocations[i]) \subseteq L

RecordsDiffer(pr, L) ==
    L = {} => \A i, j \in DOMAIN pr.allocations :
                  pr.allocations[i].ptr = pr.allocations[j].ptr /\ pr.allocations[i].ptr # NULL => i = j

Recorded(pr, L) == PiecesRecorded(pr, L) /\ RecordsHeld(pr, L) /\ RecordsDiffer(pr, L)

(* Every piece is open to the program, unless something of it was let go   *)
(* of, and no entry of the memory map is cleared.                          *)
Opened(pr, L) ==
    /\ \A a \in pr.held : a.size \in MallocSizes \cup ReallocSizes
    /\ \A a \in pr.held : Pg(a) \cap L = {} =>
          \A v \in Pg(a) : pr.dir[v] = [frame |-> v, flags |-> UserFlags]
    /\ \A v \in Pages : KernelDirectory[v] # NullEntry => pr.dir[v] # NullEntry

OwnOK(pr, L) == OpenOwn(pr, L) /\ Recorded(pr, L) /\ Opened(pr, L)

OwnInv == loose \subseteq Pages /\ \A p \in Alive : OwnOK(proc[p], loose)

(* More may be let go of. *)
LEMMA OwnGrows ==
    ASSUME NEW pr, NEW L, NEW L2, L \subseteq L2, OwnOK(pr, L)
    PROVE  OwnOK(pr, L2)
  <1>1. OpenOwn(pr, L2)
    BY DEF OwnOK, OpenOwn
  <1>2. \A a : Pg(a) \cap L2 = {} => Pg(a) \cap L = {}
    OBVIOUS
  <1>3. PiecesRecorded(pr, L2)
    BY <1>2 DEF OwnOK, Recorded, PiecesRecorded
  <1>4. RecordsHeld(pr, L2)
    BY DEF OwnOK, Recorded, RecordsHeld
  <1>5. L2 = {} => L = {}
    OBVIOUS
  <1>6. RecordsDiffer(pr, L2)
    BY <1>5 DEF OwnOK, Recorded, RecordsDiffer
  <1>7. Opened(pr, L2)
    BY <1>2 DEF OwnOK, Opened
  <1> QED BY <1>1, <1>3, <1>4, <1>6, <1>7 DEF OwnOK, Recorded

(* It is about tables, records and holdings only. *)
LEMMA OwnSame ==
    ASSUME NEW pr, NEW y, NEW L, OwnOK(pr, L), y.dir = pr.dir, y.held = pr.held, y.allocations = pr.allocations
    PROVE  OwnOK(y, L)
  <1>1. OpenOwn(y, L)
    BY DEF OwnOK, OpenOwn
  <1>2. PiecesRecorded(y, L)
    BY DEF OwnOK, Recorded, PiecesRecorded
  <1>3. RecordsHeld(y, L)
    BY DEF OwnOK, Recorded, RecordsHeld
  <1>4. RecordsDiffer(y, L)
    BY DEF OwnOK, Recorded, RecordsDiffer
  <1>5. Opened(y, L)
    BY DEF OwnOK, Opened
  <1> QED BY <1>1, <1>2, <1>3, <1>4, <1>5 DEF OwnOK, Recorded

(* One process changes. *)
LEMMA OwnChanged ==
    ASSUME MemInv, OwnInv, NEW p \in Procs, proc' = [proc EXCEPT ![p] = proc'[p]],
           loose \subseteq loose', loose' \subseteq Pages, proc'[p].alive => OwnOK(proc'[p], loose')
    PROVE  OwnInv'
  <1>1. proc = [q \in Procs |-> proc[q]]
    BY DEF MemInv, ProcsOK
  <1>2. \A q \in Procs : q # p => proc'[q] = proc[q]
    BY <1>1
  <1>3. ASSUME NEW q \in Procs, proc'[q].alive PROVE OwnOK(proc'[q], loose')
    <2>1. CASE q = p
      BY <1>3, <2>1
    <2>2. CASE q # p
      <3>1. proc'[q] = proc[q] /\ q \in Alive
        BY <1>2, <1>3, <2>2 DEF Alive
      <3>2. OwnOK(proc[q], loose)
        BY <3>1 DEF OwnInv
      <3> QED BY <3>1, <3>2, OwnGrows
    <2> QED BY <2>1, <2>2
  <1> QED BY <1>3 DEF OwnInv, Alive

(* A step that changes nobody's memory. *)
LEMMA SameOwn ==
    ASSUME OwnInv, SameMemory(proc, proc'), loose' = loose
    PROVE  OwnInv'
  <1>1. ASSUME NEW p \in Procs, proc'[p].alive PROVE OwnOK(proc'[p], loose')
    <2>1. /\ p \in Alive
          /\ proc'[p].dir = proc[p].dir /\ proc'[p].held = proc[p].held
          /\ proc'[p].allocations = proc[p].allocations
      BY <1>1 DEF SameMemory, Alive
    <2>2. OwnOK(proc[p], loose)
      BY <2>1 DEF OwnInv
    <2> QED BY <2>1, <2>2, OwnSame
  <1> QED BY <1>1 DEF OwnInv, Alive

(* Two pieces of a process. *)
LEMMA HeldApart ==
    ASSUME MemInv, NEW p \in Alive, NEW a \in proc[p].held
    PROVE  /\ Placed(a) /\ a.size # 0 /\ a # NoRecord /\ a.ptr # NULL /\ a.ptr \in Pg(a)
           /\ Pg(a) \subseteq TakenFrames(mh) \cup loose
           /\ \A v \in Pg(a) : v \in Pages /\ v # 0 /\ proc[p].dir[v].frame = v
           /\ \A c \in proc[p].held : c # a => Pg(c) \cap Pg(a) \subseteq loose
  <1> DEFINE fr == Frames(proc, areas)
             z == Piece("malloc", p, a)
  <1>1. /\ p \in Procs /\ proc[p].alive /\ ProcsOK(proc) /\ ProcOK(proc[p])
        /\ Apart(fr, TakenFrames(mh), loose)
    BY LivingOK DEF MemInv, Alive
  <1>2. /\ Placed(a) /\ a.size # 0 /\ a.ptr # NULL /\ a.ptr \in Nat /\ BlocksFor(a.size) \in Nat /\ BlocksFor(a.size) > 0
        /\ Pg(a) = a.ptr .. a.ptr + BlocksFor(a.size) - 1
    BY <1>1, HeldRecords
  <1>3. a # NoRecord
    BY <1>2, NoRecordEmpty
  <1>4. a.ptr \in Pg(a)
    BY <1>2
  <1>5. ASSUME NEW v \in Pg(a) PROVE v \in Pages /\ v # 0 /\ proc[p].dir[v].frame = v
    <2>1. v \in Pages
      BY <1>2, PlacedPages
    <2>2. v # 0
      BY <1>2 DEF NULL
    <2> QED BY <1>1, <2>1, <2>2 DEF ProcOK
  <1>6. z \in DOMAIN fr /\ fr[z] = Pg(a)
    BY <1>1, HeldFrames
  <1> HIDE DEF fr, z
  <1>7. Pg(a) \subseteq TakenFrames(mh) \cup loose
    BY <1>1, <1>6 DEF Apart
  <1>8. ASSUME NEW c \in proc[p].held, c # a PROVE Pg(c) \cap Pg(a) \subseteq loose
    <2> DEFINE w == Piece("malloc", p, c)
    <2>1. w \in DOMAIN fr /\ fr[w] = Pg(c)
      BY <1>1, HeldFrames DEF fr
    <2>2. w # z
      BY <1>8, PieceIs DEF z
    <2> HIDE DEF w
    <2> QED BY <1>1, <1>6, <2>1, <2>2 DEF Apart
  <1> QED BY <1>2, <1>3, <1>4, <1>5, <1>7, <1>8

(* What is open after a is given: the pieces that are gone are let go of,  *)
(* or covered by others.                                                   *)
LEMMA GivenOpen ==
    ASSUME NEW pr, NEW y, NEW L, NEW L2, L \subseteq L2, OpenOwn(pr, L), NEW a,
           y.dir = MappedTo(pr.dir, a, UserFlags), a \in y.held,
           \A c \in pr.held : \A v \in Pg(c) : /\ pr.dir[v].frame = v
                                               /\ v \in L2 \/ \E x \in y.held : v \in Pg(x)
    PROVE  OpenOwn(y, L2)
  <1> SUFFICES ASSUME NEW v \in Pages, USER \in y.dir[v].flags
               PROVE  \/ v \in ProgramPages \cup StackPages
                      \/ \E x \in y.held : v \in Pg(x)
                      \/ v \in L2 /\ y.dir[v].frame = v
    BY DEF OpenOwn
  <1>1. CASE v \in Pg(a)
    BY <1>1
  <1>2. CASE v \notin Pg(a)
    <2>1. y.dir[v] = pr.dir[v]
      BY <1>2 DEF MappedTo
    <2>2. \/ v \in ProgramPages \cup StackPages
          \/ \E c \in pr.held : v \in Pg(c)
          \/ v \in L /\ pr.dir[v].frame = v
      BY <2>1 DEF OpenOwn
    <2>3. ASSUME NEW c \in pr.held, v \in Pg(c)
          PROVE  (\E x \in y.held : v \in Pg(x)) \/ (v \in L2 /\ y.dir[v].frame = v)
      BY <2>1, <2>3
    <2> QED BY <2>1, <2>2, <2>3
  <1> QED BY <1>1, <1>2

(* Mapping a for the program takes nothing away from the other pieces. *)
LEMMA GivenOpened ==
    ASSUME NEW pr, NEW y, NEW L, NEW L2, L \subseteq L2, Opened(pr, L), NEW a,
           a.size \in MallocSizes \cup ReallocSizes, \A v \in Pg(a) : v \in Pages,
           \A c \in pr.held : \A v \in Pg(c) : v \in Pages,
           y.dir = MappedTo(pr.dir, a, UserFlags), y.held \subseteq pr.held \cup {a}
    PROVE  Opened(y, L2)
  <1>1. \A v \in Pages : y.dir[v] = IF v \in Pg(a) THEN [frame |-> v, flags |-> UserFlags] ELSE pr.dir[v]
    BY DEF MappedTo
  <1>2. \A c \in y.held : c.size \in MallocSizes \cup ReallocSizes
    BY DEF Opened
  <1>3. ASSUME NEW c \in y.held, Pg(c) \cap L2 = {}, NEW v \in Pg(c)
        PROVE  y.dir[v] = [frame |-> v, flags |-> UserFlags]
    <2>1. v \in Pages
      OBVIOUS
    <2>2. CASE v \in Pg(a)
      BY <1>1, <2>1, <2>2
    <2>3. CASE v \notin Pg(a)
      <3>1. c \in pr.held /\ Pg(c) \cap L = {}
        BY <1>3, <2>3
      <3>2. pr.dir[v] = [frame |-> v, flags |-> UserFlags]
        BY <3>1 DEF Opened
      <3> QED BY <1>1, <2>1, <2>3, <3>2
    <2> QED BY <2>2, <2>3
  <1>4. ASSUME NEW v \in Pages, KernelDirectory[v] # NullEntry PROVE y.dir[v] # NullEntry
    <2>1. [frame |-> v, flags |-> UserFlags] # NullEntry
      <3>1. UserFlags # {}
        BY DEF UserFlags
      <3> QED BY <3>1 DEF NullEntry
    <2>2. pr.dir[v] # NullEntry
      BY <1>4 DEF Opened
    <2> QED BY <1>1, <2>1, <2>2
  <1> QED BY <1>2, <1>3, <1>4 DEF Opened

(* The record at index is overwritten.  The one that was there is free, of *)
(* the piece g that is gone, or of pages let go of; no other record is of  *)
(* g; and the new pointer is not in use.                                   *)
GoodIndex(pr, L2, a, index, g) ==
    /\ index \in DOMAIN pr.allocations =>
          \/ pr.allocations[index] = NoRecord \/ pr.allocations[index] = g
          \/ Pg(pr.allocations[index]) \subseteq L2
    /\ \A j \in DOMAIN pr.allocations : j # index /\ pr.allocations[j] = g => g \notin pr.held
    /\ L2 = {} => \A j \in DOMAIN pr.allocations : j # index => pr.allocations[j].ptr # a.ptr

(* A piece recorded at a good index leaves every piece held with a record  *)
(* of its own.                                                             *)
LEMMA GivenRecorded ==
    ASSUME NEW pr, NEW y, NEW L, NEW L2, L \subseteq L2, Recorded(pr, L), NEW a, a.size # 0, NEW index, NEW g,
           GoodIndex(pr, L2, a, index, g), Given(pr, y, index, a, {g}),
           \A c \in pr.held : c # NoRecord /\ Pg(c) # {}
    PROVE  Recorded(y, L2)
  <1> DEFINE s == pr.allocations
             t == y.allocations
  <1>1. /\ DOMAIN t = DOMAIN s \cup {index}
        /\ \A i \in DOMAIN t : t[i] = IF i = index THEN a ELSE s[i]
        /\ y.held = (pr.held \ {g}) \cup {a}
    BY DEF Given
  <1>2. ASSUME NEW c \in y.held, Pg(c) \cap L2 = {} PROVE \E i \in DOMAIN t : t[i] = c
    <2>1. CASE c = a
      BY <1>1, <2>1
    <2>2. CASE c # a
      <3>1. c \in pr.held /\ c # g /\ Pg(c) \cap L = {}
        BY <1>1, <1>2, <2>2
      <3>2. PICK i \in DOMAIN s : s[i] = c
        BY <3>1 DEF Recorded, PiecesRecorded
      <3>3. i # index
        BY <1>2, <3>1, <3>2 DEF GoodIndex
      <3> QED BY <1>1, <3>2, <3>3
    <2> QED BY <2>1, <2>2
  <1>3. ASSUME NEW i \in DOMAIN t, t[i] # NoRecord
        PROVE  t[i].size # 0 /\ (t[i] \in y.held \/ Pg(t[i]) \subseteq L2)
    <2>1. CASE i = index
      BY <1>1, <2>1
    <2>2. CASE i # index
      <3>1. i \in DOMAIN s /\ t[i] = s[i]
        BY <1>1, <2>2
      <3>2. s[i].size # 0 /\ (s[i] \in pr.held \/ Pg(s[i]) \subseteq L)
        BY <1>3, <3>1 DEF Recorded, RecordsHeld
      <3>3. s[i] \in pr.held => s[i] \in y.held
        BY <1>1, <2>2, <3>1 DEF GoodIndex
      <3> QED BY <3>1, <3>2, <3>3
    <2> QED BY <2>1, <2>2
  <1>4. ASSUME L2 = {}, NEW i \in DOMAIN t, NEW j \in DOMAIN t, t[i].ptr = t[j].ptr, t[i].ptr # NULL
        PROVE  i = j
    <2>1. L = {}
      BY <1>4
    <2>2. \A k \in DOMAIN s : k # index => s[k].ptr # a.ptr
      BY <1>4 DEF GoodIndex
    <2>3. CASE i = index \/ j = index
      BY <1>1, <1>4, <2>2, <2>3
    <2>4. CASE i # index /\ j # index
      <3>1. i \in DOMAIN s /\ j \in DOMAIN s /\ t[i] = s[i] /\ t[j] = s[j]
        BY <1>1, <2>4
      <3> QED BY <1>4, <2>1, <3>1 DEF Recorded, RecordsDiffer
    <2> QED BY <2>3, <2>4
  <1>5. PiecesRecorded(y, L2)
    BY <1>2 DEF PiecesRecorded
  <1>6. RecordsHeld(y, L2)
    BY <1>3 DEF RecordsHeld
  <1>7. RecordsDiffer(y, L2)
    BY <1>4 DEF RecordsDiffer
  <1> QED BY <1>5, <1>6, <1>7 DEF Recorded

(* A piece that is not empty begins on one of its pages. *)
LEMMA FirstPageIn ==
    ASSUME NEW a \in Rec, a.size # 0
    PROVE  a.ptr \in Pg(a)
  <1>1. a.ptr \in Nat /\ BlocksFor(a.size) \in Nat /\ a.size \in Nat /\ Pg(a) = a.ptr .. a.ptr + BlocksFor(a.size) - 1
    BY PagesNatural
  <1>2. BlocksFor(a.size) > 0
    BY <1>1, BlocksForBytes
  <1> QED BY <1>1, <1>2

(* As long as nothing was let go of, every record in use is of a piece of  *)
(* the process.                                                            *)
LEMMA RecordIsHeld ==
    ASSUME NEW pr, ProcOK(pr), OwnOK(pr, {}), NEW j \in DOMAIN pr.allocations, pr.allocations[j] # NoRecord
    PROVE  pr.allocations[j] \in pr.held
  <1> DEFINE c == pr.allocations[j]
  <1>1. c.size # 0 /\ (c \in pr.held \/ Pg(c) \subseteq {})
    BY DEF OwnOK, Recorded, RecordsHeld
  <1>2. c \in Rec
    BY DEF ProcOK, Placed
  <1> HIDE DEF c
  <1>3. c.ptr \in Pg(c)
    BY <1>1, <1>2, FirstPageIn
  <1>4. c \in pr.held
    BY <1>1, <1>3
  <1> QED BY <1>4 DEF c

(* process_malloc. *)
LEMMA MallocOwn ==
    ASSUME MemInv, OwnInv, NEW p \in Alive, NEW size \in MallocSizes, MallocStep(p, size)
    PROVE  OwnInv'
  <1> DEFINE pr == proc[p]
             y == proc'[p]
             index == FreeIndex(pr.allocations)
  <1>1. PICK a \in Rec :
            /\ a.size = size /\ TakesRun(mh, mh', a)
            /\ proc' = [proc EXCEPT ![p] = proc'[p]]
            /\ Given(pr, y, index, a, {})
            /\ loose' = loose
    BY DEF MallocStep
  <1>2. /\ p \in Procs /\ ProcOK(pr) /\ pr.allocations \in Seq(Rec) /\ OwnOK(pr, loose) /\ loose \subseteq Pages
    BY LivingOK DEF MemInv, Shape, OwnInv
  <1>3. Placed(a) /\ a.size # 0 /\ Pg(a) \cap TakenFrames(mh) = {}
    BY <1>1 DEF TakesRun
  <1>4. a.ptr # NULL /\ \A v \in Pg(a) : v \in Pages
    BY <1>3, PlacedPages
  <1>5. /\ index \in DOMAIN pr.allocations => pr.allocations[index].ptr = NULL
    BY <1>2, FreeIndexIn
  <1>6. \A i \in DOMAIN pr.allocations : pr.allocations[i] = NoRecord \/ pr.allocations[i].ptr # NULL
    BY <1>2, PlacedPages DEF ProcOK
  <1>7. \A c \in pr.held : /\ c # NoRecord /\ c.ptr \in Pg(c) /\ Pg(c) \subseteq TakenFrames(mh) \cup loose
                           /\ \A v \in Pg(c) : v \in Pages /\ pr.dir[v].frame = v
    BY HeldApart
  <1> HIDE DEF index, pr, y
  <1>8. a.ptr \in Pg(a)
    BY <1>1, <1>3, FirstPageIn
  <1>9. GoodIndex(pr, loose, a, index, NoRecord)
    <2>1. ASSUME loose = {}, NEW j \in DOMAIN pr.allocations PROVE pr.allocations[j].ptr # a.ptr
      <3>1. CASE pr.allocations[j] = NoRecord
        BY <1>4, <3>1, NoRecordEmpty
      <3>2. CASE pr.allocations[j] # NoRecord
        <4>1. pr.allocations[j] \in pr.held
          BY <1>2, <2>1, <3>2, RecordIsHeld
        <4>2. pr.allocations[j].ptr \in TakenFrames(mh)
          BY <1>7, <2>1, <4>1
        <4> QED BY <1>3, <1>8, <4>2
      <3> QED BY <3>1, <3>2
    <2>2. NoRecord \notin pr.held
      BY <1>7
    <2> QED BY <1>5, <1>6, <2>1, <2>2 DEF GoodIndex
  <1>10. Given(pr, y, index, a, {NoRecord})
    <2>1. (pr.held \ {}) \cup {a} = (pr.held \ {NoRecord}) \cup {a}
      BY <1>7
    <2> QED BY <1>1, <2>1 DEF Given
  <1>11. Recorded(y, loose)
    <2>1. \A c \in pr.held : c # NoRecord /\ Pg(c) # {}
      BY <1>7
    <2> QED BY <1>2, <1>3, <1>9, <1>10, <2>1, GivenRecorded DEF OwnOK
  <1>12. y.dir = MappedTo(pr.dir, a, UserFlags) /\ y.held = pr.held \cup {a}
    BY <1>1 DEF Given
  <1>13. OpenOwn(y, loose)
    <2>1. a \in y.held /\ \A c \in pr.held : c \in y.held
      BY <1>12
    <2> QED BY <1>2, <1>7, <1>12, <2>1, GivenOpen DEF OwnOK
  <1>14. Opened(y, loose)
    BY <1>1, <1>2, <1>4, <1>7, <1>12, GivenOpened DEF OwnOK
  <1> QED BY <1>1, <1>2, <1>11, <1>13, <1>14, OwnChanged DEF OwnOK, y

(* process_free. *)
LEMMA FreeOwn ==
    ASSUME MemInv, OwnInv, NEW p \in Alive, NEW a, FreeStep(p, a)
    PROVE  OwnInv'
  <1> DEFINE pr == proc[p]
             y == proc'[p]
             s == pr.allocations
             record == FirstRecord(s, a.ptr)
             L == loose
             L2 == loose'
  <1>1. /\ a \in pr.held
        /\ proc' = [proc EXCEPT ![p] = proc'[p]]
        /\ L2 = L \cup (Pg(a) \ Pg(record))
        /\ y.held = pr.held \ {a}
        /\ y.dir = MappedTo(pr.dir, record, {})
        /\ y.allocations = Cleared(s, a.ptr)
    BY DEF FreeStep, Freed
  <1>2. p \in Procs /\ ProcOK(pr) /\ s \in Seq(Rec) /\ OwnOK(pr, L) /\ L \subseteq Pages
    BY LivingOK DEF MemInv, Shape, OwnInv
  <1>3. ASSUME NEW c \in pr.held
        PROVE  /\ c.ptr \in Pg(c) /\ c.ptr # NULL
               /\ \A v \in Pg(c) : v \in Pages /\ v # 0 /\ pr.dir[v].frame = v
               /\ \A d \in pr.held : d # c => Pg(d) \cap Pg(c) \subseteq L
    BY HeldApart
  <1>4. L \subseteq L2 /\ L2 \subseteq Pages
    BY <1>1, <1>2, <1>3
  <1>5. \/ record = NoRecord
        \/ record.ptr = a.ptr /\ Placed(record) /\ (record \in pr.held \/ Pg(record) \subseteq L)
    <2>1. CASE RecordsOf(s, a.ptr) = {}
      BY <2>1 DEF FirstRecord
    <2>2. CASE RecordsOf(s, a.ptr) # {}
      <3> DEFINE i == Min(RecordsOf(s, a.ptr))
      <3>1. i \in DOMAIN s /\ s[i].ptr = a.ptr /\ record = s[i]
        BY <1>2, <2>2, RecordFound DEF FirstRecord
      <3> HIDE DEF i
      <3>2. s[i] # NoRecord => Placed(s[i]) /\ (s[i] \in pr.held \/ Pg(s[i]) \subseteq L)
        BY <1>2, <3>1 DEF ProcOK, OwnOK, Recorded, RecordsHeld
      <3> QED BY <3>1, <3>2
    <2> QED BY <2>1, <2>2
  <1> HIDE DEF record
  <1>6. \A v \in Pg(record) : v \in Pages /\ v # 0
    <2>1. CASE record = NoRecord
      BY <2>1, NoRecordEmpty
    <2>2. CASE Placed(record)
      <3>1. record.ptr \in Nat /\ record.ptr # NULL /\ BlocksFor(record.size) \in Nat
            /\ Pg(record) = record.ptr .. record.ptr + BlocksFor(record.size) - 1
        BY <2>2, PlacedPages, PagesNatural
      <3>2. \A v \in Pg(record) : v # 0
        BY <3>1 DEF NULL
      <3> QED BY <2>2, <3>2, PlacedPages
    <2> QED BY <1>5, <2>1, <2>2
  (* The other pieces have other pointers, and other pages. *)
  <1>7. ASSUME NEW c \in y.held, Pg(c) \cap L2 = {}
        PROVE  c \in pr.held /\ c.ptr # a.ptr /\ Pg(c) \cap L = {} /\ Pg(c) \cap Pg(record) = {}
    <2>1. c \in pr.held /\ c # a /\ Pg(c) \cap L = {}
      BY <1>1, <1>4, <1>7
    <2>2. c.ptr # a.ptr
      BY <1>1, <1>3, <2>1
    <2>3. CASE record = NoRecord
      BY <2>1, <2>2, <2>3, NoRecordEmpty
    <2>4. CASE record.ptr = a.ptr /\ record \in pr.held
      <3>1. record # c
        BY <2>2, <2>4
      <3>2. Pg(record) \cap Pg(c) \subseteq L
        BY <1>3, <2>1, <2>4, <3>1
      <3> QED BY <2>1, <2>2, <3>2
    <2>5. CASE Pg(record) \subseteq L
      BY <2>1, <2>2, <2>5
    <2> QED BY <1>5, <2>3, <2>4, <2>5
  <1>8. \A v \in Pages : y.dir[v] = IF v \in Pg(record) THEN [frame |-> v, flags |-> {}] ELSE pr.dir[v]
    BY <1>1 DEF MappedTo
  <1>9. OpenOwn(y, L2)
    <2> SUFFICES ASSUME NEW v \in Pages, USER \in y.dir[v].flags
                 PROVE  \/ v \in ProgramPages \cup StackPages
                        \/ \E x \in y.held : v \in Pg(x)
                        \/ v \in L2 /\ y.dir[v].frame = v
      BY DEF OpenOwn
    <2>1. v \notin Pg(record) /\ y.dir[v] = pr.dir[v]
      <3>1. ASSUME v \in Pg(record) PROVE y.dir[v].flags = {}
        <4>1. y.dir[v] = [frame |-> v, flags |-> {}]
          BY <1>8, <3>1
        <4> QED BY <4>1
      <3>2. v \notin Pg(record)
        BY <3>1
      <3> QED BY <1>8, <3>2
    <2>2. \/ v \in ProgramPages \cup StackPages
          \/ \E c \in pr.held : v \in Pg(c)
          \/ v \in L /\ pr.dir[v].frame = v
      BY <1>2, <2>1 DEF OwnOK, OpenOwn
    <2>3. ASSUME NEW c \in pr.held, v \in Pg(c)
          PROVE  (\E x \in y.held : v \in Pg(x)) \/ (v \in L2 /\ y.dir[v].frame = v)
      <3>1. CASE c = a
        BY <1>1, <1>3, <2>1, <2>3, <3>1
      <3>2. CASE c # a
        BY <1>1, <2>3, <3>2
      <3> QED BY <3>1, <3>2
    <2> QED BY <1>4, <2>1, <2>2, <2>3
  <1>10. Opened(y, L2)
    <2>1. \A c \in y.held : c.size \in MallocSizes \cup ReallocSizes
      BY <1>1, <1>2 DEF OwnOK, Opened
    <2>2. ASSUME NEW c \in y.held, Pg(c) \cap L2 = {}, NEW v \in Pg(c)
          PROVE  y.dir[v] = [frame |-> v, flags |-> UserFlags]
      <3>1. c \in pr.held /\ Pg(c) \cap L = {} /\ v \notin Pg(record) /\ v \in Pages
        BY <1>3, <1>7, <2>2
      <3>2. pr.dir[v] = [frame |-> v, flags |-> UserFlags]
        BY <1>2, <3>1 DEF OwnOK, Opened
      <3> QED BY <1>8, <3>1, <3>2
    <2>3. ASSUME NEW v \in Pages, KernelDirectory[v] # NullEntry PROVE y.dir[v] # NullEntry
      <3>1. pr.dir[v] # NullEntry
        BY <1>2, <2>3 DEF OwnOK, Opened
      <3>2. v \in Pg(record) => [frame |-> v, flags |-> {}] # NullEntry
        BY <1>6 DEF NullEntry
      <3> QED BY <1>8, <3>1, <3>2
    <2> QED BY <2>1, <2>2, <2>3 DEF Opened
  <1>11. Recorded(y, L2)
    <2> DEFINE t == y.allocations
    <2>1. /\ DOMAIN t = DOMAIN s
          /\ \A i \in DOMAIN s : t[i] = IF s[i].ptr = a.ptr THEN NoRecord ELSE s[i]
      BY <1>1 DEF Cleared, RecordsOf
    <2> HIDE DEF t
    <2>2. ASSUME NEW c \in y.held, Pg(c) \cap L2 = {} PROVE \E i \in DOMAIN t : t[i] = c
      <3>1. c \in pr.held /\ c.ptr # a.ptr /\ Pg(c) \cap L = {}
        BY <1>7, <2>2
      <3>2. PICK i \in DOMAIN s : s[i] = c
        BY <1>2, <3>1 DEF OwnOK, Recorded, PiecesRecorded
      <3> QED BY <2>1, <3>1, <3>2
    <2>3. ASSUME NEW i \in DOMAIN t, t[i] # NoRecord
          PROVE  t[i].size # 0 /\ (t[i] \in y.held \/ Pg(t[i]) \subseteq L2)
      <3>1. i \in DOMAIN s /\ t[i] = s[i] /\ s[i].ptr # a.ptr
        BY <2>1, <2>3
      <3>2. s[i].size # 0 /\ (s[i] \in pr.held \/ Pg(s[i]) \subseteq L)
        BY <1>2, <2>3, <3>1 DEF OwnOK, Recorded, RecordsHeld
      <3>3. s[i] \in pr.held => s[i] \in y.held
        BY <1>1, <3>1
      <3> QED BY <1>4, <3>1, <3>2, <3>3
    <2>4. ASSUME L2 = {}, NEW i \in DOMAIN t, NEW j \in DOMAIN t, t[i].ptr = t[j].ptr, t[i].ptr # NULL
          PROVE  i = j
      <3>1. L = {}
        BY <1>4, <2>4
      <3>2. t[i] # NoRecord /\ t[j] # NoRecord
        BY <2>4, NoRecordEmpty
      <3>3. i \in DOMAIN s /\ j \in DOMAIN s /\ t[i] = s[i] /\ t[j] = s[j]
        BY <2>1, <3>2
      <3> QED BY <1>2, <2>4, <3>1, <3>3 DEF OwnOK, Recorded, RecordsDiffer
    <2> QED BY <2>2, <2>3, <2>4 DEF Recorded, PiecesRecorded, RecordsHeld, RecordsDiffer, t
  <1> QED BY <1>1, <1>2, <1>4, <1>9, <1>10, <1>11, OwnChanged DEF OwnOK, y, L2

(* process_load: what it opens is program and stack. *)
LEMMA LoadOwn ==
    ASSUME MemInv, OwnInv, NEW p \in Procs, LoadStep(p)
    PROVE  OwnInv'
  <1> DEFINE y == proc'[p]
  <1>1. PICK image, stack :
            /\ Loaded(y.dir, image.ptr, stack.ptr)
            /\ proc' = [proc EXCEPT ![p] = proc'[p]]
            /\ y.held = {} /\ y.allocations = <<>>
            /\ loose' = loose
    BY DEF LoadStep
  <1>2. ASSUME NEW v \in Pages PROVE v \in ProgramPages \cup StackPages \/ y.dir[v] = KernelDirectory[v]
    BY <1>1 DEF Loaded
  <1>3. ASSUME NEW v \in ProgramPages \cup StackPages PROVE y.dir[v].flags = UserFlags
    BY <1>1 DEF Loaded
  <1>4. \A v \in Pages : USER \notin KernelDirectory[v].flags
    <2>1. USER \notin KernelFlags
      BY DEF USER, KernelFlags, PRESENT, WRITEABLE
    <2>2. NullEntry.flags = {}
      BY DEF NullEntry
    <2>3. ASSUME NEW v \in Pages PROVE KernelDirectory[v].flags = KernelFlags \/ KernelDirectory[v].flags = {}
      <3>1. KernelDirectory[v] = [frame |-> v, flags |-> KernelFlags] \/ KernelDirectory[v] = NullEntry
        BY E820Maps
      <3> QED BY <2>2, <3>1
    <2> QED BY <2>1, <2>3
  <1>5. NullEntry.flags # UserFlags
    BY DEF NullEntry, UserFlags
  <1>6. loose \subseteq Pages
    BY DEF OwnInv
  <1> HIDE DEF y
  <1>7. OpenOwn(y, loose)
    BY <1>2, <1>4 DEF OpenOwn
  <1>8. Recorded(y, loose)
    BY <1>1 DEF Recorded, PiecesRecorded, RecordsHeld, RecordsDiffer
  <1>9. \A v \in Pages : KernelDirectory[v] # NullEntry => y.dir[v] # NullEntry
    BY <1>2, <1>3, <1>5
  <1>10. Opened(y, loose)
    BY <1>1, <1>9 DEF Opened
  <1> QED BY <1>1, <1>6, <1>7, <1>8, <1>10, OwnChanged DEF OwnOK, y

(* process_terminate. *)
LEMMA EndOwn ==
    ASSUME MemInv, OwnInv, NEW p \in Alive, EndStep(p)
    PROVE  OwnInv'
  <1>1. proc' = [proc EXCEPT ![p] = Dead] /\ loose' = loose /\ p \in Procs
    BY DEF EndStep, Alive
  <1>2. proc = [q \in Procs |-> proc[q]] /\ loose \subseteq Pages
    BY DEF MemInv, ProcsOK, OwnInv
  <1>3. proc'[p] = Dead /\ proc' = [proc EXCEPT ![p] = proc'[p]]
    BY <1>1, <1>2
  <1> QED BY <1>1, <1>2, <1>3, DeadIs, OwnChanged

(* The frames that are taken are pages of the heaps. *)
LEMMA TakenPages ==
    ASSUME MemInv
    PROVE  TakenFrames(mh) \subseteq Pages
  <1> SUFFICES ASSUME NEW f \in TakenFrames(mh) PROVE f \in Pages
    OBVIOUS
  <1>1. MultiHeapOK(mh)
    BY DEF MemInv, KernelOK
  <1>2. PICK k \in Heaps : f \in Taken(mh[k])
    BY <1>1, InTakenFrames
  <1>3. f \in HeapPages(k)
    BY <1>1, <1>2, TakenInHeap DEF HeapPages
  <1> QED BY <1>3, HeapPagesMapped

(* Resizes end with the first frame that is let go of. *)
LEMMA NoneLoose ==
    ASSUME MaxLoose \in 0 .. 1, loose \subseteq Pages, Cardinality(loose) < MaxLoose
    PROVE  loose = {}
  <1>1. IsFiniteSet(loose)
    BY PagingAssumption, FS_Subset
  <1>2. Cardinality(loose) \in Nat
    BY <1>1, FS_CardinalityType
  <1>3. Cardinality(loose) = 0
    BY <1>2
  <1> QED BY <1>1, <1>3, FS_EmptySet

(* process_realloc finds no memory, or frees. *)
LEMMA LessOwn ==
    ASSUME MemInv, OwnInv, loose = {}, NEW p \in Alive, NEW a, NEW gone, gone = {} \/ gone = {a},
           proc' = [proc EXCEPT ![p] = proc'[p]], Less(proc[p], proc'[p], gone),
           loose' \subseteq Pages,
           \A f \in Pg(a) : f \in loose' \/ \E x \in proc'[p].held : f \in Pg(x)
    PROVE  OwnInv'
  <1> DEFINE pr == proc[p]
             y == proc'[p]
             L2 == loose'
  <1>1. p \in Procs /\ ProcOK(pr) /\ OwnOK(pr, {})
    BY LivingOK DEF MemInv, OwnInv
  <1>2. y.dir = pr.dir /\ y.allocations = pr.allocations /\ y.held = pr.held \ gone
    BY DEF Less
  <1>3. ASSUME NEW c \in pr.held
        PROVE  /\ \A v \in Pg(c) : pr.dir[v].frame = v
               /\ \A d \in pr.held : d # c => Pg(d) \cap Pg(c) = {}
    BY HeldApart
  <1> HIDE DEF y, pr, L2
  <1>4. OwnOK(pr, L2)
    BY <1>1, OwnGrows
  <1>5. OpenOwn(y, L2)
    <2> SUFFICES ASSUME NEW v \in Pages, USER \in y.dir[v].flags
                 PROVE  \/ v \in ProgramPages \cup StackPages
                        \/ \E x \in y.held : v \in Pg(x)
                        \/ v \in L2 /\ y.dir[v].frame = v
      BY DEF OpenOwn
    <2>1. \/ v \in ProgramPages \cup StackPages
          \/ \E c \in pr.held : v \in Pg(c)
          \/ v \in L2 /\ pr.dir[v].frame = v
      BY <1>2, <1>4 DEF OwnOK, OpenOwn
    <2>2. ASSUME NEW c \in pr.held, v \in Pg(c)
          PROVE  (\E x \in y.held : v \in Pg(x)) \/ (v \in L2 /\ y.dir[v].frame = v)
      <3>1. CASE c = a
        BY <1>2, <1>3, <2>2, <3>1 DEF y, L2
      <3>2. CASE c # a
        BY <1>2, <2>2, <3>2
      <3> QED BY <3>1, <3>2
    <2> QED BY <1>2, <2>1, <2>2
  <1>6. Opened(y, L2)
    BY <1>2, <1>4 DEF OwnOK, Opened
  <1>7. PiecesRecorded(y, L2)
    BY <1>2, <1>4 DEF OwnOK, Recorded, PiecesRecorded
  <1>8. RecordsDiffer(y, L2)
    BY <1>2, <1>4 DEF OwnOK, Recorded, RecordsDiffer
  <1>9. ASSUME NEW i \in DOMAIN y.allocations, y.allocations[i] # NoRecord
        PROVE  y.allocations[i].size # 0 /\ (y.allocations[i] \in y.held \/ Pg(y.allocations[i]) \subseteq L2)
    <2> DEFINE c == pr.allocations[i]
    <2>1. c \in pr.held /\ c.size # 0 /\ y.allocations[i] = c
      BY <1>1, <1>2, <1>9, RecordIsHeld DEF OwnOK, Recorded, RecordsHeld
    <2> HIDE DEF c
    <2>2. CASE c \in y.held
      BY <2>1, <2>2
    <2>3. CASE c \notin y.held
      <3>1. c = a /\ \A x \in y.held : x \in pr.held /\ x # a
        BY <1>2, <2>1, <2>3
      <3>2. \A x \in y.held : Pg(x) \cap Pg(a) = {}
        BY <1>3, <2>1, <3>1
      <3>3. Pg(a) \subseteq L2
        BY <3>2 DEF y, L2
      <3> QED BY <2>1, <3>1, <3>3
    <2> QED BY <2>2, <2>3
  <1>10. RecordsHeld(y, L2)
    BY <1>9 DEF RecordsHeld
  <1> QED BY <1>1, <1>5, <1>6, <1>7, <1>8, <1>10, OwnChanged DEF OwnOK, Recorded, y, L2

(* The record that it overwrites. *)
LEMMA ReallocIndex ==
    ASSUME MemInv, OwnInv, loose = {}, NEW p \in Alive, NEW a \in proc[p].held \cup {NoRecord},
           NEW b, Placed(b), b.size # 0, NEW index, index = FoundIndex(proc[p].allocations, a.ptr),
           index \in DOMAIN proc[p].allocations,
           loose' = loose \cup LetGoOf(mh, mh', a, b, TRUE, proc[p].allocations[index])
    PROVE  GoodIndex(proc[p], loose', b, index, a)
  <1> DEFINE pr == proc[p]
             s == pr.allocations
             L2 == loose'
  <1>1. p \in Procs /\ ProcOK(pr) /\ OwnOK(pr, {}) /\ s \in Seq(Rec)
    BY LivingOK DEF MemInv, OwnInv, Shape
  <1>2. ASSUME NEW c \in pr.held
        PROVE  /\ c # NoRecord /\ c.ptr \in Pg(c) /\ c.ptr # NULL /\ Pg(c) \subseteq TakenFrames(mh)
               /\ \A d \in pr.held : d # c => Pg(d) \cap Pg(c) = {}
    BY HeldApart
  <1>3. ASSUME NEW j \in DOMAIN s, s[j] # NoRecord PROVE s[j] \in pr.held
    BY <1>1, <1>3, RecordIsHeld
  <1>4. NoRecord.ptr = NULL /\ Pg(NoRecord) = {}
    BY NoRecordEmpty
  <1>5. b.ptr \in Pg(b) /\ b.ptr # NULL
    BY PlacedPages, FirstPageIn
  <1>6. /\ Pg(b) \subseteq L2 \cup Pg(a) \cup (TakenFrames(mh') \ TakenFrames(mh))
        /\ s[index].ptr # a.ptr => Pg(s[index]) \subseteq L2
    BY DEF LetGoOf
  <1>7. a \in pr.held => s[index] = a
    <2> SUFFICES ASSUME a \in pr.held PROVE s[index] = a
      OBVIOUS
    <2>1. \E i \in DOMAIN s : s[i] = a
      <3>1. Pg(a) \cap {} = {}
        OBVIOUS
      <3> QED BY <1>1, <3>1 DEF OwnOK, Recorded, PiecesRecorded
    <2>2. RecordsOf(s, a.ptr) # {}
      BY <2>1 DEF RecordsOf
    <2>3. s[index].ptr = a.ptr
      BY <1>1, <2>2, RecordFound DEF FoundIndex
    <2>4. s[index] \in pr.held
      BY <1>2, <1>3, <1>4, <2>3
    <2> QED BY <1>2, <2>3, <2>4
  <1>8. ASSUME NEW j \in DOMAIN s, j # index, s[j] = a PROVE a \notin pr.held
    <2>1. a \in pr.held => s[j].ptr = s[index].ptr /\ s[j].ptr # NULL
      BY <1>2, <1>7, <1>8
    <2>2. \A i, k \in DOMAIN s : s[i].ptr = s[k].ptr /\ s[i].ptr # NULL => i = k
      BY <1>1 DEF OwnOK, Recorded, RecordsDiffer
    <2> QED BY <1>8, <2>1, <2>2
  <1>9. s[index] = NoRecord \/ s[index] = a \/ Pg(s[index]) \subseteq L2
    <2>1. CASE a \in pr.held
      BY <1>7, <2>1
    <2>2. CASE a = NoRecord
      <3>1. s[index] # NoRecord => s[index].ptr # NULL
        BY <1>2, <1>3
      <3> QED BY <1>4, <1>6, <2>2, <3>1
    <2> QED BY <2>1, <2>2
  <1>10. ASSUME L2 = {}, NEW j \in DOMAIN s, j # index PROVE s[j].ptr # b.ptr
    <2>1. CASE s[j] = NoRecord
      BY <1>4, <1>5, <2>1
    <2>2. CASE s[j] # NoRecord
      <3>1. s[j] \in pr.held /\ s[j] # a
        BY <1>3, <1>8, <1>10, <2>2
      <3>2. s[j].ptr \in Pg(s[j]) /\ s[j].ptr \in TakenFrames(mh)
        BY <1>2, <3>1
      <3>3. s[j].ptr \notin Pg(a)
        BY <1>2, <1>4, <3>1, <3>2
      <3> QED BY <1>5, <1>6, <1>10, <3>2, <3>3
    <2> QED BY <2>1, <2>2
  <1> QED BY <1>8, <1>9, <1>10 DEF GoodIndex

(* process_realloc gives memory. *)
LEMMA GivenOwn ==
    ASSUME MemInv, OwnInv, loose = {}, NEW p \in Alive, NEW a \in proc[p].held \cup {NoRecord},
           NEW b, Placed(b), b.size # 0, b.size \in ReallocSizes, NEW index,
           GoodIndex(proc[p], loose', b, index, a),
           proc' = [proc EXCEPT ![p] = proc'[p]], Given(proc[p], proc'[p], index, b, {a}),
           loose' \subseteq Pages,
           \A f \in Pg(a) : f \in loose' \/ \E x \in proc'[p].held : f \in Pg(x)
    PROVE  OwnInv'
  <1> DEFINE pr == proc[p]
             y == proc'[p]
             L2 == loose'
  <1>1. p \in Procs /\ ProcOK(pr) /\ OwnOK(pr, {})
    BY LivingOK DEF MemInv, OwnInv
  <1>2. ASSUME NEW c \in pr.held
        PROVE  c # NoRecord /\ Pg(c) # {} /\ \A v \in Pg(c) : v \in Pages /\ pr.dir[v].frame = v
    BY HeldApart
  <1>3. y.dir = MappedTo(pr.dir, b, UserFlags) /\ y.held = (pr.held \ {a}) \cup {b}
    BY DEF Given
  <1>4. \A v \in Pg(b) : v \in Pages
    BY PlacedPages
  <1>5. ASSUME NEW c \in pr.held, NEW v \in Pg(c) PROVE v \in L2 \/ \E x \in y.held : v \in Pg(x)
    <2>1. CASE c = a
      BY <2>1
    <2>2. CASE c # a
      BY <1>3, <2>2
    <2> QED BY <2>1, <2>2
  <1>6. Given(pr, y, index, b, {a}) /\ GoodIndex(pr, L2, b, index, a)
    OBVIOUS
  <1> HIDE DEF pr, y, L2
  <1>7. {} \subseteq L2 /\ b \in y.held /\ y.held \subseteq pr.held \cup {b}
    BY <1>3
  <1>8. OpenOwn(y, L2)
    BY <1>1, <1>2, <1>3, <1>5, <1>7, GivenOpen DEF OwnOK
  <1>9. Opened(y, L2)
    BY <1>1, <1>2, <1>3, <1>4, <1>7, GivenOpened DEF OwnOK
  <1>10. Recorded(y, L2)
    BY <1>1, <1>2, <1>6, <1>7, GivenRecorded DEF OwnOK
  <1> QED BY <1>1, <1>8, <1>9, <1>10, OwnChanged DEF OwnOK, y, L2

(* process_realloc. *)
LEMMA ReallocOwn ==
    ASSUME MaxLoose \in 0 .. 1, MemInv, AgreeInv, OwnInv, NEW p \in Alive, NEW a,
           NEW size \in ReallocSizes, ReallocStep(p, a, size)
    PROVE  OwnInv'
  <1>1. PICK r, b, index :
        /\ a \in proc[p].held \cup {NoRecord}
        /\ Cardinality(loose) < MaxLoose
        /\ b = [ptr |-> r.ptr, size |-> size]
        /\ index = FoundIndex(proc[p].allocations, a.ptr) /\ index \in DOMAIN proc[p].allocations
        /\ proc' = [proc EXCEPT ![p] = proc'[p]]
        /\ \/ /\ r.ptr = NULL
              /\ Less(proc[p], proc'[p], IF size = 0 THEN {a} ELSE {})
           \/ /\ r.ptr # NULL
              /\ Placed(b) /\ b.size # 0
              /\ Given(proc[p], proc'[p], index, b, {a})
        /\ loose' = loose \cup LetGoOf(mh, mh', a, b, r.ptr # NULL, proc[p].allocations[index])
    BY DEF ReallocStep
  <1>2. loose = {}
    BY <1>1, NoneLoose DEF OwnInv
  <1>3. \A f \in Pg(a) : f \in loose' \/ \E x \in proc'[p].held : f \in Pg(x)
    <2>1. Unupset
      BY <1>2 DEF AgreeInv, Unupset
    <2>2. ReallocOutcome(p, a)
      BY <2>1, ReallocUnupset
    <2> QED BY <2>2 DEF ReallocOutcome
  <1>4. p \in Procs /\ ProcOK(proc[p])
    BY LivingOK DEF MemInv
  <1>5. loose' \subseteq Pages
    <2>1. TakenFrames(mh) \subseteq Pages
      BY TakenPages
    <2>2. r.ptr # NULL => Pg(b) \subseteq Pages
      BY <1>1, PlacedPages
    <2>3. Pg(proc[p].allocations[index]) \subseteq Pages
      <3>1. proc[p].allocations[index] = NoRecord \/ Placed(proc[p].allocations[index])
        BY <1>1, <1>4 DEF ProcOK
      <3> QED BY <3>1, NoRecordEmpty, PlacedPages
    <2> QED BY <1>1, <1>2, <2>1, <2>2, <2>3 DEF LetGoOf
  <1>6. CASE r.ptr = NULL
    <2> DEFINE gone == IF size = 0 THEN {a} ELSE {}
    <2>1. Less(proc[p], proc'[p], gone) /\ (gone = {} \/ gone = {a})
      BY <1>1, <1>6
    <2> HIDE DEF gone
    <2> QED BY <1>1, <1>2, <1>3, <1>5, <2>1, LessOwn
  <1>7. CASE r.ptr # NULL
    <2>1. Placed(b) /\ b.size # 0 /\ Given(proc[p], proc'[p], index, b, {a}) /\ b.size = size
      BY <1>1, <1>7
    <2>2. loose' = loose \cup LetGoOf(mh, mh', a, b, TRUE, proc[p].allocations[index])
      BY <1>1, <1>7 DEF LetGoOf
    <2>3. GoodIndex(proc[p], loose', b, index, a)
      BY <1>1, <1>2, <2>1, <2>2, ReallocIndex
    <2> QED BY <1>1, <1>2, <1>3, <1>5, <2>1, <2>3, GivenOwn
  <1> QED BY <1>6, <1>7

(* Every step keeps it so. *)
LEMMA NextKeepsOwn ==
    ASSUME MaxLoose \in 0 .. 1, MemInv, BootInv, AgreeInv, OwnInv, [Next]_vars
    PROVE  OwnInv'
  <1>0. ASSUME Quiet PROVE OwnInv'
    BY <1>0, SameOwn DEF Quiet
  <1>1. CASE UNCHANGED vars
    BY <1>0, <1>1, NothingDoes
  <1>2. ASSUME NEW p \in Procs, process_load(p) PROVE OwnInv'
    BY <1>0, <1>2, LoadDoes, LoadOwn
  <1>3. ASSUME NEW size \in AreaSizes, kpalloc(size) PROVE OwnInv'
    <2>1. UNCHANGED proc /\ loose' = loose
      BY <1>3 DEF kpalloc
    <2>2. SameMemory(proc, proc')
      BY <2>1, SameProcesses
    <2> QED BY <2>1, <2>2, SameOwn
  <1>4. ASSUME NEW p \in Alive, HeapCall(p) PROVE OwnInv'
    <2>1. ASSUME NEW size \in MallocSizes, process_malloc(p, size) PROVE OwnInv'
      BY <1>0, <2>1, MallocDoes, MallocOwn
    <2>2. ASSUME NEW a, process_free(p, a) PROVE OwnInv'
      BY <2>2, FreeDoes, FreeOwn
    <2>3. ASSUME NEW a, NEW size \in ReallocSizes, process_realloc(p, a, size) PROVE OwnInv'
      BY <2>3, ReallocDoes, ReallocOwn
    <2>4. ASSUME NEW a, ReallocFails(p, a) PROVE OwnInv'
      <3>1. UNCHANGED vars
        BY <2>4 DEF ReallocFails
      <3> QED BY <1>0, <3>1, NothingDoes
    <2> QED BY <1>4, <2>1, <2>2, <2>3, <2>4 DEF HeapCall
  <1>5. ASSUME NEW p \in Alive, FileCall(p) PROVE OwnInv'
    BY <1>0, <1>5, FileCallDoes, EndOwn
  <1>6. ASSUME NEW p \in Alive, process_terminate(p) PROVE OwnInv'
    BY <1>0, <1>6, EndDoes, EndOwn
  <1>7. ASSUME kheap_init PROVE OwnInv'
    <2>1. UNCHANGED proc /\ loose' = loose
      BY <1>7 DEF kheap_init
    <2>2. SameMemory(proc, proc')
      BY <2>1, SameProcesses
    <2> QED BY <2>1, <2>2, SameOwn
  <1> QED BY <1>1, <1>2, <1>3, <1>4, <1>5, <1>6, <1>7 DEF Next

(* Before the first process is loaded nothing is held and nothing is       *)
(* mapped for user mode.                                                   *)
LEMMA InitOwn ==
    ASSUME Init
    PROVE  OwnInv
  <1>1. loose = {} /\ proc = [p \in Procs |-> Dead]
    BY DEF Init
  <1> QED BY <1>1, DeadIs DEF OwnInv, Alive

(* The invariants hold together. *)
LEMMA OwnershipInvariant ==
    ASSUME MaxLoose \in 0 .. 1
    PROVE  Spec => [](MemInv /\ OwnInv)
  <1>1. Init => MemInv /\ BootInv /\ AgreeInv /\ OwnInv
    BY InitMem, InitAgree, InitOwn
  <1>2. MemInv /\ BootInv /\ AgreeInv /\ OwnInv /\ [Next]_vars => (MemInv /\ BootInv /\ AgreeInv /\ OwnInv)'
    BY NextKeepsMem, NextKeepsBoot, NextKeepsAgree, NextKeepsOwn
  <1> QED BY <1>1, <1>2, PTL DEF Spec

(* What a process reaches is behind one of its chunks, or loose. *)
LEMMA OwnMaps ==
    ASSUME MemInv, OwnInv
    PROVE  UserMapsOwn
  <1> SUFFICES ASSUME NEW p \in Alive, NEW v \in Pages, USER \in proc[p].dir[v].flags
               PROVE  \/ proc[p].dir[v].frame \in loose
                      \/ \E c \in Chunks : c.owner = p /\ proc[p].dir[v].frame \in c.frames
    BY DEF UserMapsOwn
  <1> DEFINE Ch(what, ptr, size) ==
                [owner |-> p, what |-> what, ptr |-> ptr, pages |-> BlocksFor(size),
                 frames |-> {proc[p].dir[w].frame : w \in PagesOf(ptr, size)}]
  <1>1. /\ Ch("program", ProgramPage, ProgramSize) \in Chunks
        /\ Ch("stack", StackPage, StackSize) \in Chunks
        /\ \A a \in proc[p].held : Ch("malloc", a.ptr, a.size) \in Chunks
    <2> DEFINE Of(q) ==
                  LET Chunk(owner, what, dir, ptr, size) ==
                          [owner |-> owner, what |-> what, ptr |-> ptr, pages |-> BlocksFor(size),
                           frames |-> {dir[w].frame : w \in PagesOf(ptr, size)}]
                  IN  {Chunk(q, "program", proc[q].dir, ProgramPage, ProgramSize),
                       Chunk(q, "stack", proc[q].dir, StackPage, StackSize)} \cup
                      {Chunk(q, "malloc", proc[q].dir, a.ptr, a.size) : a \in proc[q].held}
    <2>1. /\ Ch("program", ProgramPage, ProgramSize) \in Of(p)
          /\ Ch("stack", StackPage, StackSize) \in Of(p)
          /\ \A a \in proc[p].held : Ch("malloc", a.ptr, a.size) \in Of(p)
      OBVIOUS
    <2>2. (UNION {Of(q) : q \in Alive}) \subseteq Chunks
      BY Zenon DEF Chunks
    <2> HIDE DEF Of, Ch
    <2>3. Of(p) \subseteq Chunks
      BY <2>2
    <2> QED BY <2>1, <2>3
  <1>2. ASSUME NEW what, NEW ptr, NEW size
        PROVE  /\ Ch(what, ptr, size).owner = p
               /\ v \in PagesOf(ptr, size) => proc[p].dir[v].frame \in Ch(what, ptr, size).frames
    OBVIOUS
  <1> HIDE DEF Ch
  <1>3. \/ v \in ProgramPages \cup StackPages
        \/ \E a \in proc[p].held : v \in Pg(a)
        \/ v \in loose /\ proc[p].dir[v].frame = v
    BY DEF OwnInv, OwnOK, OpenOwn
  <1>4. CASE v \in ProgramPages
    BY <1>1, <1>2, <1>4 DEF ProgramPages
  <1>5. CASE v \in StackPages
    BY <1>1, <1>2, <1>5 DEF StackPages
  <1>6. ASSUME NEW a \in proc[p].held, v \in Pg(a)
        PROVE  \E c \in Chunks : c.owner = p /\ proc[p].dir[v].frame \in c.frames
    BY <1>1, <1>2, <1>6 DEF Pg
  <1> QED BY <1>3, <1>4, <1>5, <1>6

(* A process reaches no memory but its own, or what was let go of:         *)
(* process_free, process_terminate and process_load leave no page of       *)
(* others open to a program, for any memory map, if nobody resizes after a *)
(* resize has let go of a frame.                                           *)
THEOREM ProcessesReachTheirOwn ==
    ASSUME MaxLoose \in 0 .. 1
    PROVE  Spec => []UserMapsOwn
  <1>1. Spec => [](MemInv /\ OwnInv)
    BY OwnershipInvariant
  <1>2. MemInv /\ OwnInv => UserMapsOwn
    BY OwnMaps
  <1> QED BY <1>1, <1>2, PTL

-----------------------------------------------------------------------------
(* Buffers that a program passes.                                          *)

(* Addresses in bytes. *)
LEMMA Times ==
    ASSUME NEW n \in Nat, NEW i \in Nat, NEW j \in Nat, i <= j
    PROVE  i * n \in Nat /\ j * n \in Nat /\ i * n <= j * n
  <1>1. j = i + (j - i) /\ j - i \in Nat
    OBVIOUS
  <1>2. j * n = i * n + (j - i) * n
    BY <1>1
  <1>3. i * n \in Nat /\ (j - i) * n \in Nat
    BY <1>1
  <1> QED BY <1>2, <1>3

(* The order of two page addresses is the order of their pages. *)
LEMMA PageAfter ==
    ASSUME NEW n \in Nat, n > 0, NEW i \in Nat, NEW j \in Nat, i * n < j * n
    PROVE  i < j
  <1>1. ~(j <= i)
    BY Times
  <1> QED BY <1>1

(* The page of an address in a piece. *)
LEMMA PageOfByte ==
    ASSUME NEW ptr \in Nat, NEW size \in Nat, NEW o \in 0 .. size - 1
    PROVE  \E v \in PagesOf(ptr, size) : /\ v * PageSize <= ptr * PageSize + o
                                         /\ ptr * PageSize + o < (v + 1) * PageSize
  <1> DEFINE n == PageSize
             q == o \div n
  <1>1. n \in Nat /\ n > 0
    BY PagingAssumption
  <1>2. q \in Nat /\ q * n <= o /\ o < (q + 1) * n
    BY <1>1
  <1>3. BlocksFor(size) \in Nat /\ size <= BlocksFor(size) * n
    BY BlocksForBytes
  <1> DEFINE m == BlocksFor(size)
  <1> HIDE DEF n, q, m
  <1>4. q < m
    <2>1. q * n < m * n
      BY <1>1, <1>2, <1>3 DEF n, m
    <2> QED BY <1>1, <1>2, <1>3, <2>1, PageAfter DEF m
  <1>5. ptr + q \in PagesOf(ptr, size)
    BY <1>2, <1>3, <1>4 DEF PagesOf, m
  <1>6. (ptr + q) * n <= ptr * n + o /\ ptr * n + o < (ptr + q + 1) * n
    <2>1. (ptr + q) * n = ptr * n + q * n /\ (ptr + q + 1) * n = ptr * n + (q + 1) * n
      BY <1>1, <1>2
    <2>2. ptr * n \in Nat /\ q * n \in Nat /\ (q + 1) * n \in Nat
      BY <1>1, <1>2
    <2> QED BY <1>2, <2>1, <2>2
  <1> QED BY <1>5, <1>6 DEF n

(* No byte of a piece is taken for one of the stack. *)
LEMMA NotInStack ==
    ASSUME EndsHarmless, NEW a, Placed(a), NEW o \in 0 .. a.size - 1
    PROVE  a.ptr * PageSize + o \notin StackPage * PageSize .. StackPage * PageSize + StackSize
  <1> DEFINE n == PageSize
             x == a.ptr * PageSize + o
             s == StackPage
             m == BlocksFor(StackSize)
  <1>1. n \in Nat /\ n > 0 /\ s \in Nat /\ StackSize \in Nat /\ m \in Nat /\ StackSize <= m * n
    BY PagingAssumption, Sizes, BlocksForBytes
  <1>2. a \in Rec /\ a.ptr \in Nat /\ a.size \in Nat
    BY PagesNatural DEF Placed
  <1>3. PICK v \in Pg(a) : v * n <= x /\ x < (v + 1) * n
    BY <1>2, PageOfByte DEF Pg
  <1>4. PICK k \in Heaps : /\ S(k) <= a.ptr /\ a.ptr <= S(k) + N(k) - 1
                           /\ a.ptr + BlocksFor(a.size) <= S(k) + N(k) + Slack
    BY DEF Placed
  <1>5. v \in S(k) .. S(k) + N(k) + Slack - 1 /\ v \in Nat
    <2>1. S(k) \in Nat /\ N(k) \in Nat /\ Slack \in Nat
      BY Layouts
    <2>2. BlocksFor(a.size) \in Nat /\ Pg(a) = a.ptr .. a.ptr + BlocksFor(a.size) - 1
      BY <1>2, PagesNatural
    <2>3. v \in Int /\ a.ptr <= v /\ v <= a.ptr + BlocksFor(a.size) - 1
      BY <1>2, <2>2
    <2> HIDE DEF n, x, s, m
    <2> QED BY <1>2, <1>4, <2>1, <2>2, <2>3, SMTT(30)
  <1>6. v \notin StackPages /\ v # s + m
    <2>1. v \in Reach(Map[k])
      BY <1>5 DEF Reach, Eaddr, S, N
    <2>2. s + m \notin Reach(Map[k])
      <3>1. Map[k] = MinimalHeap({})
        BY DEF Map, Heaps
      <3> QED BY <3>1 DEF EndsHarmless
    <2> QED BY <1>5, <2>1, <2>2, HeapReach
  <1>7. StackPages = s .. s + m - 1
    BY DEF StackPages, PagesOf
  <1>8. x \in Nat
    BY <1>1, <1>2
  <1> HIDE DEF n, x, m, s
  <1>9. v < s \/ v > s + m
    BY <1>1, <1>5, <1>6, <1>7
  <1>10. s * n \in Nat /\ m * n \in Nat /\ (s + m) * n = s * n + m * n
    BY <1>1
  <1>11. CASE v < s
    <2>1. v + 1 \in Nat /\ v + 1 <= s
      BY <1>1, <1>5, <1>11
    <2>2. (v + 1) * n \in Nat /\ (v + 1) * n <= s * n
      BY <1>1, <2>1, Times
    <2>3. x < s * n
      BY <1>3, <1>8, <1>10, <2>2
    <2>4. x \notin s * n .. s * n + StackSize
      BY <1>1, <1>8, <1>10, <2>3
    <2> QED BY <2>4 DEF x, s, n
  <1>12. CASE v > s + m
    <2>1. s + m + 1 \in Nat /\ s + m + 1 <= v
      BY <1>1, <1>5, <1>12
    <2>2. (s + m + 1) * n \in Nat /\ v * n \in Nat /\ (s + m + 1) * n <= v * n
      BY <1>1, <1>5, <2>1, Times
    <2>3. (s + m + 1) * n = s * n + m * n + n
      BY <1>1
    <2>4. x > s * n + StackSize
      BY <1>1, <1>3, <1>8, <1>10, <2>2, <2>3
    <2>5. x \notin s * n .. s * n + StackSize
      BY <1>1, <1>8, <1>10, <2>4
    <2> QED BY <2>5 DEF x, s, n
  <1> QED BY <1>9, <1>11, <1>12

(* Whichever record the address is found in, enough bytes are left. *)
LEMMA EnoughLeft ==
    ASSUME EndsHarmless, NEW a, Placed(a), a.size \in MallocSizes \cup ReallocSizes, NEW o \in 0 .. a.size - 1,
           NEW c, c = NoRecord \/ Placed(c), InRecord(c, a.ptr * PageSize + o)
    PROVE  BytesLeft(c, a.ptr * PageSize + o) >= a.size - o
  <1> DEFINE n == PageSize
             x == a.ptr * n + o
  <1>1. n \in Nat /\ n > 0
    BY PagingAssumption
  <1>2. a \in Rec /\ a.ptr \in Nat /\ a.size \in Nat /\ a.ptr # NULL /\ o \in Nat
    BY PlacedPages, PagesNatural
  <1>3. a.ptr * n \in Nat /\ a.ptr * n >= 1
    <2>1. 1 <= a.ptr
      BY <1>2 DEF NULL
    <2>2. 1 * n <= a.ptr * n /\ a.ptr * n \in Nat
      BY <1>1, <1>2, <2>1, Times
    <2> QED BY <1>1, <2>2
  <1>4. x \in Nat /\ x >= 1
    BY <1>2, <1>3
  <1> HIDE DEF x, n
  <1>5. c \in Rec /\ c.ptr \in Nat /\ c.size \in Nat
    BY NoRecordEmpty, PagesNatural DEF Placed
  <1>6. c.ptr * n \in Nat /\ c.ptr * n <= x /\ x <= c.ptr * n + c.size
    <2>1. c.ptr * n \in Nat
      BY <1>1, <1>5
    <2>2. x \in c.ptr * n .. c.ptr * n + c.size
      BY DEF InRecord, x, n
    <2> QED BY <1>4, <1>5, <2>1, <2>2
  <1>7. c # NoRecord
    <2>1. c = NoRecord => c.ptr = 0 /\ c.size = 0
      BY DEF NoRecord, NULL
    <2>2. c = NoRecord => c.ptr * n = 0
      BY <1>1, <2>1
    <2> QED BY <1>4, <1>6, <2>1, <2>2
  <1>8. PICK k \in Heaps : S(k) <= c.ptr
    BY <1>7 DEF Placed
  <1>9. S(k) \in Nat /\ a.size <= S(k) * n
    <2>1. S(k) \in Nat
      BY Layouts
    <2>2. a.size <= Map[k].saddr * PageSize
      <3>1. Map[k] = MinimalHeap({})
        BY DEF Map, Heaps
      <3> QED BY <3>1 DEF EndsHarmless
    <2> QED BY <2>1, <2>2 DEF S, n
  <1>10. S(k) * n \in Nat /\ S(k) * n <= c.ptr * n
    BY <1>1, <1>5, <1>8, <1>9, Times
  <1>11. (c.ptr * n + c.size) - (x - c.ptr * n) >= a.size - o
    BY <1>2, <1>4, <1>5, <1>6, <1>9, <1>10
  <1> QED BY <1>11 DEF BytesLeft, x, n

(* A buffer in a piece with a record is accepted. *)
LEMMA BufferAccepted ==
    ASSUME EndsHarmless, NEW pr, ProcOK(pr), NEW a \in pr.held, a.size \in MallocSizes \cup ReallocSizes,
           NEW i \in DOMAIN pr.allocations, pr.allocations[i] = a, NEW o \in 0 .. a.size - 1
    PROVE  Valid(pr, a.ptr * PageSize + o, a.size - o)
  <1> DEFINE s == pr.allocations
             x == a.ptr * PageSize + o
             in == {j \in DOMAIN s : InRecord(s[j], x)}
  <1>1. Placed(a) /\ s \in Seq(Rec) /\ \A j \in DOMAIN s : s[j] = NoRecord \/ Placed(s[j])
    BY DEF ProcOK, Shape
  <1>2. a.ptr \in Nat /\ a.size \in Nat /\ PageSize \in Nat
    BY <1>1, PagesNatural, PagingAssumption DEF Placed
  <1>3. InRecord(a, x)
    <2>1. a.ptr * PageSize \in Nat
      BY <1>2
    <2> QED BY <1>2, <2>1 DEF InRecord
  <1>4. i \in in
    BY <1>3
  <1>5. in \subseteq Nat
    BY <1>1
  <1>6. Min(in) \in in
    <2> HIDE DEF in
    <2> QED BY <1>4, <1>5, MinNatural
  <1>7. BytesLeft(s[Min(in)], x) >= a.size - o
    <2> DEFINE c == s[Min(in)]
    <2>1. (c = NoRecord \/ Placed(c)) /\ InRecord(c, x)
      BY <1>1, <1>6
    <2> HIDE DEF c
    <2>2. BytesLeft(c, x) >= a.size - o
      BY <1>1, <2>1, EnoughLeft
    <2> QED BY <2>2 DEF c
  <1>8. x \notin StackPage * PageSize .. StackPage * PageSize + StackSize
    BY <1>1, NotInStack
  <1> QED BY <1>4, <1>7, <1>8, Zenon DEF Valid

(* paging_get finds a page that is mapped, where the memory map fills the  *)
(* first entries.                                                          *)
LEMMA PageFound ==
    ASSUME NEW d, NEW v \in Pages, d[v] = [frame |-> v, flags |-> UserFlags],
           \A w \in Pages : KernelDirectory[w] # NullEntry => d[w] # NullEntry,
           \A l \in 1 .. 2 : InUse(KernelDirectory, FirstPage(v, l), l)
    PROVE  paging_get_physical_address(d, v) = v
  <1>1. d[v] # NullEntry
    <2>1. UserFlags # {}
      BY DEF UserFlags
    <2> QED BY <2>1 DEF NullEntry
  <1>2. \A l \in 1 .. 3 : InUse(d, v, l)
    BY <1>1 DEF InUse, Covers
  <1>3. ASSUME NEW l \in 1 .. 2 PROVE InUse(d, FirstPage(v, l), l)
    <2>1. PICK w \in Covers(FirstPage(v, l), l) : KernelDirectory[w] # NullEntry
      BY DEF InUse
    <2>2. w \in Pages
      BY DEF Covers
    <2> QED BY <2>1, <2>2 DEF InUse
  <1>4. paging_get_finds(d, v)
    BY <1>2, <1>3 DEF paging_get_finds
  <1>5. d[v].frame = v
    OBVIOUS
  <1> QED BY <1>4, <1>5 DEF paging_get_physical_address

(* The invariant says that what a process holds is usable. *)
LEMMA OwnUsable ==
    ASSUME EndsHarmless, MemInv, OwnInv
    PROVE  HeldUsable
  <1> SUFFICES ASSUME NEW p \in Alive, NEW a \in Intact(p)
               PROVE  /\ \A o \in 0 .. a.size - 1 : Valid(proc[p], a.ptr * PageSize + o, a.size - o)
                      /\ \A v \in Pg(a) :
                            /\ proc[p].dir[v] = [frame |-> v, flags |-> UserFlags]
                            /\ (\A l \in 1 .. 2 : InUse(KernelDirectory, FirstPage(v, l), l))
                                  => paging_get_physical_address(proc[p].dir, v) = v
    BY DEF HeldUsable, Pg
  <1>1. a \in proc[p].held /\ Pg(a) \cap loose = {}
    BY DEF Intact, Pg
  <1>2. ProcOK(proc[p]) /\ OwnOK(proc[p], loose)
    BY LivingOK DEF MemInv, OwnInv
  <1>3. \A v \in Pg(a) : v \in Pages
    BY <1>1, HeldApart
  <1>4. ASSUME NEW o \in 0 .. a.size - 1 PROVE Valid(proc[p], a.ptr * PageSize + o, a.size - o)
    <2>1. PICK i \in DOMAIN proc[p].allocations : proc[p].allocations[i] = a
      BY <1>1, <1>2 DEF OwnOK, Recorded, PiecesRecorded
    <2>2. a.size \in MallocSizes \cup ReallocSizes
      BY <1>1, <1>2 DEF OwnOK, Opened
    <2> QED BY <1>1, <1>2, <2>1, <2>2, BufferAccepted
  <1>5. ASSUME NEW v \in Pg(a) PROVE proc[p].dir[v] = [frame |-> v, flags |-> UserFlags]
    BY <1>1, <1>2 DEF OwnOK, Opened
  <1>6. \A w \in Pages : KernelDirectory[w] # NullEntry => proc[p].dir[w] # NullEntry
    BY <1>2 DEF OwnOK, Opened
  <1>7. ASSUME NEW v \in Pg(a), \A l \in 1 .. 2 : InUse(KernelDirectory, FirstPage(v, l), l)
        PROVE  paging_get_physical_address(proc[p].dir, v) = v
    BY <1>3, <1>5, <1>6, <1>7, PageFound
  <1> QED BY <1>4, <1>5, <1>7

(* What process_malloc and process_realloc gave a process is mapped for    *)
(* it, found by paging_get, and accepted as a buffer by                    *)
(* process_validate_memory_or_terminate, until a resize lets go of a part  *)
(* of it.                                                                  *)
THEOREM HeldStaysUsable ==
    ASSUME EndsHarmless, MaxLoose \in 0 .. 1
    PROVE  Spec => []HeldUsable
  <1>1. Spec => [](MemInv /\ OwnInv)
    BY OwnershipInvariant
  <1>2. MemInv /\ OwnInv => HeldUsable
    BY OwnUsable
  <1> QED BY <1>1, <1>2, PTL

-----------------------------------------------------------------------------
(* File handles.                                                           *)

Files == {path.file : path \in Paths} \cup {ProgramPath.file}
Handle == [fd : 1 .. MaxFd, file : Files]

(* A living process has the fields of struct process. *)
LiveShape(pr) ==
    pr \in [alive : {TRUE}, dir : {pr.dir}, allocations : {pr.allocations},
           handles : Seq(Handle), held : {pr.held}]

ProcShape ==
    /\ proc = [p \in Procs |-> proc[p]]
    /\ \A p \in Procs : proc[p] = Dead \/ LiveShape(proc[p])

HandlesOwn ==
    /\ \A p \in Alive : \A i \in DOMAIN proc[p].handles :
          file_descriptors[proc[p].handles[i].fd] = proc[p].handles[i].file
    /\ \A p, q \in Alive : \A i \in DOMAIN proc[p].handles, j \in DOMAIN proc[q].handles :
          proc[p].handles[i].fd = proc[q].handles[j].fd => p = q /\ i = j
    /\ \A fd \in 1 .. MaxFd - 1 : file_descriptors[fd] # NoFile =>
          \E p \in Alive : \E i \in DOMAIN proc[p].handles : proc[p].handles[i].fd = fd

HandleInv ==
    /\ file_descriptors \in [1 .. MaxFd -> Files \cup {NoFile}]
    /\ ProcShape
    /\ starved \in BOOLEAN
    /\ ~starved => HandlesOwn

(* The mark of an empty descriptor slot is no file. *)
LEMMA FileNames == NoFile \notin Files
  BY ProcessAssumption DEF Files

(* fopen hands out a descriptor that was free, or changes nothing. *)
LEMMA FopenOutcome ==
    ASSUME NEW t \in [1 .. MaxFd -> Files \cup {NoFile}], NEW path, path.file \in Files, NEW mode,
           NEW r \in fopen(t, path, mode)
    PROVE  \/ r.fd = 0 /\ r.table = t
           \/ /\ r.fd \in 1 .. MaxFd /\ t[r.fd] = NoFile
              /\ r.table = [t EXCEPT ![r.fd] = path.file]
  <1> DEFINE fd == file_new_descriptor(t)
             fails == [fd |-> 0, table |-> t, panic |-> "none"]
             stops == [fails EXCEPT !.panic = "closed_an_error"]
             success == [fd |-> fd, table |-> [t EXCEPT ![fd] = path.file], panic |-> "none"]
  <1>1. r = fails \/ r = stops \/ (r = success /\ FreeFds(t) # {})
    <2>1. r \in {fails} \cup (IF Accepted(path, mode) THEN {stops} ELSE {}) \cup
              (IF Accepted(path, mode) /\ Opens(path, mode) /\ FreeFds(t) # {} THEN {success} ELSE {})
      BY DEF fopen
    <2> DEFINE A == Accepted(path, mode)
               B == A /\ Opens(path, mode) /\ FreeFds(t) # {}
    <2>2. r = fails \/ r \in (IF A THEN {stops} ELSE {}) \/ r \in (IF B THEN {success} ELSE {})
      BY <2>1, Zenon
    <2>3. r \in (IF A THEN {stops} ELSE {}) => r = stops
      BY Zenon
    <2>4. r \in (IF B THEN {success} ELSE {}) => r = success /\ B
      <3> HIDE DEF success, B
      <3> QED BY Zenon
    <2>5. B => FreeFds(t) # {}
      OBVIOUS
    <2> HIDE DEF A, B, fails, stops, success
    <2> QED BY <2>2, <2>3, <2>4, <2>5, Zenon
  <1>2. CASE r = fails \/ r = stops
    <2>1. stops.fd = 0 /\ stops.table = t
      OBVIOUS
    <2> QED BY <1>2, <2>1
  <1>3. CASE r = success /\ FreeFds(t) # {}
    <2>1. FreeFds(t) \subseteq Nat
      BY DEF FreeFds
    <2>2. fd \in FreeFds(t)
      BY <1>3, <2>1, LeastNatural DEF file_new_descriptor
    <2>3. fd \in 1 .. MaxFd /\ t[fd] = NoFile
      BY <2>2 DEF FreeFds
    <2> HIDE DEF fd
    <2> QED BY <1>3, <2>3
  <1> QED BY <1>1, <1>2, <1>3

(* fclose empties the slot of a descriptor below the table's end and       *)
(* leaves the others alone.                                                *)
LEMMA FcloseType ==
    ASSUME NEW t \in [1 .. MaxFd -> Files \cup {NoFile}], NEW fd
    PROVE  /\ fclose(t, fd) \in [1 .. MaxFd -> Files \cup {NoFile}]
           /\ \A g \in 1 .. MaxFd : fclose(t, fd)[g] = IF g = fd /\ g < MaxFd THEN NoFile ELSE t[g]
  BY FileAssumption DEF fclose, file_get_descriptor

(* Writing a process's handles changes that process only, and nothing else *)
(* of it.                                                                  *)
LEMMA ShapeSet ==
    ASSUME ProcShape, NEW p \in Alive, NEW hs \in Seq(Handle),
           proc' = [proc EXCEPT ![p].handles = hs]
    PROVE  /\ proc' = [q \in Procs |-> proc'[q]]
           /\ \A q \in Procs : q # p => proc'[q] = proc[q]
           /\ LiveShape(proc'[p]) /\ proc'[p].handles = hs
  <1>1. p \in Procs /\ LiveShape(proc[p])
    <2>1. p \in Procs /\ proc[p].alive
      BY DEF Alive
    <2>2. proc[p] # Dead
      BY <2>1 DEF Dead
    <2> QED BY <2>1, <2>2 DEF ProcShape
  <1>2. /\ proc' = [q \in Procs |-> proc'[q]]
        /\ \A q \in Procs : q # p => proc'[q] = proc[q]
        /\ proc'[p] = [proc[p] EXCEPT !.handles = hs]
    BY <1>1 DEF ProcShape
  <1>3. LiveShape(proc'[p]) /\ proc'[p].handles = hs
    BY <1>1, <1>2 DEF LiveShape
  <1> QED BY <1>2, <1>3

(* A step that keeps the handles of every process, and what their          *)
(* descriptors are open for, keeps the invariant.                          *)
SameHandles ==
    /\ Alive' = Alive
    /\ \A p \in Alive : proc'[p].handles = proc[p].handles

(* A live process has the fields of a loaded process. *)
LEMMA AliveShape ==
    ASSUME ProcShape, NEW p \in Alive
    PROVE  p \in Procs /\ LiveShape(proc[p]) /\ proc[p].handles \in Seq(Handle)
  <1>1. p \in Procs /\ proc[p].alive
    BY DEF Alive
  <1>2. proc[p] # Dead
    BY <1>1 DEF Dead
  <1>3. LiveShape(proc[p])
    BY <1>1, <1>2 DEF ProcShape
  <1> QED BY <1>1, <1>3 DEF LiveShape

(* A handle of a live process names a descriptor and a file. *)
LEMMA HandleType ==
    ASSUME ProcShape, NEW p \in Alive, NEW i \in DOMAIN proc[p].handles
    PROVE  proc[p].handles[i].fd \in 1 .. MaxFd /\ proc[p].handles[i].file \in Files
  <1>1. proc[p].handles \in Seq(Handle)
    BY AliveShape
  <1>2. proc[p].handles[i] \in Handle
    BY <1>1
  <1> QED BY <1>2 DEF Handle

(* A step that leaves handles and descriptor table alone keeps the handle  *)
(* invariant.                                                              *)
LEMMA HandlesKept ==
    ASSUME HandleInv, ProcShape', SameHandles, UNCHANGED <<file_descriptors, starved>>
    PROVE  HandleInv'
  BY DEF HandleInv, SameHandles, HandlesOwn

(* process_fopen *)
LEMMA FopenHandles ==
    ASSUME HandleInv, NEW p \in Alive, NEW path \in Paths, NEW mode, process_fopen(p, path, mode)
    PROVE  HandleInv'
  <1>1. PICK r \in fopen(file_descriptors, path, mode) :
          \/ r.fd = 0 /\ UNCHANGED <<file_descriptors, proc, starved>>
          \/ r.fd # 0 /\ file_descriptors' = fclose(r.table, r.fd) /\ UNCHANGED <<proc, starved>>
          \/ /\ r.fd # 0 /\ file_descriptors' = r.table /\ UNCHANGED starved
             /\ proc' = [proc EXCEPT ![p].handles = Append(@, [fd |-> r.fd, file |-> path.file])]
    BY Zenon DEF process_fopen
  <1> DEFINE t == file_descriptors
             hs == Append(proc[p].handles, [fd |-> r.fd, file |-> path.file])
  <1>2. t \in [1 .. MaxFd -> Files \cup {NoFile}] /\ path.file \in Files /\ ProcShape
    BY DEF HandleInv, Files
  <1>3. \/ r.fd = 0 /\ r.table = t
        \/ /\ r.fd \in 1 .. MaxFd /\ t[r.fd] = NoFile
           /\ r.table = [t EXCEPT ![r.fd] = path.file]
    BY <1>2, FopenOutcome
  <1>4. CASE UNCHANGED <<file_descriptors, proc, starved>>
    BY <1>4, HandlesKept DEF HandleInv, SameHandles, ProcShape, Alive
  <1>5. CASE r.fd # 0 /\ file_descriptors' = fclose(r.table, r.fd) /\ UNCHANGED <<proc, starved>>
    <2>1. r.fd \in 1 .. MaxFd /\ t[r.fd] = NoFile /\ r.table = [t EXCEPT ![r.fd] = path.file]
      BY <1>3, <1>5
    <2>2. r.table \in [1 .. MaxFd -> Files \cup {NoFile}]
      BY <1>2, <2>1
    <2>3. /\ t' \in [1 .. MaxFd -> Files \cup {NoFile}]
          /\ \A g \in 1 .. MaxFd : t'[g] = IF g = r.fd /\ g < MaxFd THEN NoFile ELSE r.table[g]
      BY <1>5, <2>2, FcloseType
    <2>4. \A g \in 1 .. MaxFd : g < MaxFd \/ g # r.fd => t'[g] = t[g]
      BY <1>2, <2>1, <2>3
    <2>5. ~starved => HandlesOwn'
      <3> SUFFICES ASSUME ~starved PROVE HandlesOwn'
        OBVIOUS
      <3>1. HandlesOwn /\ Alive' = Alive /\ proc' = proc
        BY <1>5 DEF HandleInv, Alive
      <3>2. \A q \in Alive : \A i \in DOMAIN proc[q].handles :
               t'[proc[q].handles[i].fd] = proc[q].handles[i].file
        <4> SUFFICES ASSUME NEW q \in Alive, NEW i \in DOMAIN proc[q].handles
                     PROVE  t'[proc[q].handles[i].fd] = proc[q].handles[i].file
          OBVIOUS
        <4>1. proc[q].handles[i].fd \in 1 .. MaxFd /\ proc[q].handles[i].file \in Files
          BY <1>2, HandleType
        <4>2. t[proc[q].handles[i].fd] = proc[q].handles[i].file
          BY <3>1 DEF HandlesOwn
        <4>3. proc[q].handles[i].fd # r.fd
          BY <2>1, <4>1, <4>2, FileNames
        <4> QED BY <2>4, <4>1, <4>2, <4>3
      <3>3. \A fd \in 1 .. MaxFd - 1 : t'[fd] = t[fd]
        BY <2>4, FileAssumption
      <3> QED BY <3>1, <3>2, <3>3 DEF HandlesOwn
    <2> QED BY <1>5, <2>3, <2>5 DEF HandleInv, ProcShape
  <1>6. CASE /\ r.fd # 0 /\ file_descriptors' = r.table /\ UNCHANGED starved
             /\ proc' = [proc EXCEPT ![p].handles = Append(@, [fd |-> r.fd, file |-> path.file])]
    <2>1. r.fd \in 1 .. MaxFd /\ t[r.fd] = NoFile /\ t' = [t EXCEPT ![r.fd] = path.file]
      BY <1>3, <1>6
    <2>2. t' \in [1 .. MaxFd -> Files \cup {NoFile}]
      BY <1>2, <2>1
    <2>3. proc[p].handles \in Seq(Handle) /\ p \in Procs
      BY <1>2, AliveShape
    <2>4. hs \in Seq(Handle)
      BY <1>2, <2>1, <2>3 DEF Handle
    <2>5. proc' = [proc EXCEPT ![p].handles = hs]
      BY <1>6
    <2> DEFINE n == Len(proc[p].handles)
    <2>6. /\ DOMAIN hs = 1 .. n + 1 /\ n \in Nat /\ DOMAIN proc[p].handles = 1 .. n
          /\ \A i \in 1 .. n : hs[i] = proc[p].handles[i]
          /\ hs[n + 1].fd = r.fd /\ hs[n + 1].file = path.file
      BY <2>3
    <2> HIDE DEF hs, n
    <2>7. /\ proc' = [q \in Procs |-> proc'[q]]
          /\ \A q \in Procs : q # p => proc'[q] = proc[q]
          /\ LiveShape(proc'[p]) /\ proc'[p].handles = hs
      BY <1>2, <2>4, <2>5, ShapeSet
    <2>8. ProcShape' /\ Alive' = Alive
      BY <1>2, <2>3, <2>7 DEF ProcShape, LiveShape, Alive
    <2>9. ~starved => HandlesOwn'
      <3> SUFFICES ASSUME ~starved PROVE HandlesOwn'
        OBVIOUS
      <3>1. HandlesOwn
        BY DEF HandleInv
      <3>2. \A q \in Alive : q \in Procs /\ (q # p => proc'[q].handles = proc[q].handles)
        BY <2>7 DEF Alive
      <3>3. \A q \in Alive : \A i \in DOMAIN proc[q].handles :
              /\ proc[q].handles[i].fd \in 1 .. MaxFd
              /\ proc[q].handles[i].fd # r.fd
              /\ t'[proc[q].handles[i].fd] = proc[q].handles[i].file
        BY <1>2, <2>1, <3>1, HandleType, FileNames DEF HandlesOwn
      <3>4. t'[r.fd] = path.file
        BY <1>2, <2>1
      <3>5. \A q \in Alive : \A i \in DOMAIN proc'[q].handles :
              \/ q = p /\ i = n + 1 /\ proc'[q].handles[i] = hs[n + 1]
              \/ i \in DOMAIN proc[q].handles /\ proc'[q].handles[i] = proc[q].handles[i]
        BY <2>6, <2>7, <3>2
      <3>6. \A q \in Alive : \A i \in DOMAIN proc[q].handles :
              i \in DOMAIN proc'[q].handles /\ proc'[q].handles[i] = proc[q].handles[i]
        BY <2>6, <2>7, <3>2
      <3>7. \A q \in Alive : \A i \in DOMAIN proc'[q].handles :
              t'[proc'[q].handles[i].fd] = proc'[q].handles[i].file
        BY <2>6, <3>3, <3>4, <3>5
      <3>8. \A q1, q2 \in Alive : \A i \in DOMAIN proc'[q1].handles, j \in DOMAIN proc'[q2].handles :
              proc'[q1].handles[i].fd = proc'[q2].handles[j].fd => q1 = q2 /\ i = j
        BY <2>6, <3>1, <3>3, <3>5, SMTT(30) DEF HandlesOwn
      <3>9. \A fd \in 1 .. MaxFd - 1 : t'[fd] # NoFile =>
              \E q \in Alive : \E i \in DOMAIN proc'[q].handles : proc'[q].handles[i].fd = fd
        <4> SUFFICES ASSUME NEW fd \in 1 .. MaxFd - 1, t'[fd] # NoFile
                     PROVE  \E q \in Alive : \E i \in DOMAIN proc'[q].handles : proc'[q].handles[i].fd = fd
          OBVIOUS
        <4>1. CASE fd = r.fd
          BY <2>6, <2>7, <4>1
        <4>2. CASE fd # r.fd
          <5>1. t[fd] # NoFile
            BY <1>2, <2>1, <4>2
          <5> QED BY <3>1, <3>6, <5>1 DEF HandlesOwn
        <4> QED BY <4>1, <4>2
      <3> QED BY <2>8, <3>7, <3>8, <3>9 DEF HandlesOwn
    <2> QED BY <1>6, <2>2, <2>8, <2>9 DEF HandleInv
  <1> QED BY <1>1, <1>4, <1>5, <1>6

(* Taking one element out of a sequence. *)
LEMMA Removed ==
    ASSUME NEW T, NEW s \in Seq(T), NEW k \in 1 .. Len(s)
    PROVE  /\ RemoveAt(s, k) \in Seq(T)
           /\ DOMAIN RemoveAt(s, k) = 1 .. Len(s) - 1
           /\ \A i \in 1 .. Len(s) - 1 :
                 RemoveAt(s, k)[i] = IF i < k THEN s[i] ELSE s[i + 1]
  <1> DEFINE a == SubSeq(s, 1, k - 1)
             b == SubSeq(s, k + 1, Len(s))
  <1>1. a \in Seq(T) /\ Len(a) = k - 1 /\ \A i \in 1 .. k - 1 : a[i] = s[i]
    OBVIOUS
  <1>2. b \in Seq(T) /\ Len(b) = Len(s) - k /\ \A i \in 1 .. Len(s) - k : b[i] = s[k + i]
    OBVIOUS
  <1>3. RemoveAt(s, k) = a \o b
    BY DEF RemoveAt
  <1>4. Len(s) \in Nat /\ k \in Nat /\ k >= 1 /\ k <= Len(s)
    OBVIOUS
  <1> HIDE DEF a, b
  <1> DEFINE c == a \o b
  <1>5. /\ c \in Seq(T) /\ Len(c) = Len(a) + Len(b)
        /\ \A i \in 1 .. Len(a) + Len(b) : c[i] = IF i <= Len(a) THEN a[i] ELSE b[i - Len(a)]
    BY <1>1, <1>2, ConcatProperties
  <1> HIDE DEF c
  <1>6. Len(a) + Len(b) = Len(s) - 1
    BY <1>1, <1>2, <1>4
  <1>7. ASSUME NEW i \in 1 .. Len(s) - 1 PROVE c[i] = IF i < k THEN s[i] ELSE s[i + 1]
    <2>1. c[i] = IF i <= Len(a) THEN a[i] ELSE b[i - Len(a)]
      BY <1>5, <1>6
    <2>2. CASE i < k
      BY <1>1, <1>4, <2>1, <2>2
    <2>3. CASE i >= k
      <3> DEFINE m == i - Len(a)
      <3>1. m \in 1 .. Len(s) - k /\ k + m = i + 1 /\ ~(i <= Len(a))
        BY <1>1, <1>4, <2>3
      <3>2. c[i] = b[m]
        BY <2>1, <3>1
      <3> HIDE DEF m
      <3>3. b[m] = s[k + m]
        BY <1>2, <3>1
      <3> QED BY <1>4, <2>3, <3>1, <3>2, <3>3
    <2> QED BY <1>4, <2>2, <2>3
  <1> QED BY <1>3, <1>5, <1>6, <1>7 DEF c

(* process_fclose *)
LEMMA FcloseHandles ==
    ASSUME HandleInv, NEW p \in Alive, NEW fd \in 1 .. MaxFd, process_fclose(p, fd)
    PROVE  HandleInv'
  <1> DEFINE t == file_descriptors
             hs == proc[p].handles
             k == Min(HandlesOf(hs, fd))
  <1>1. /\ HandlesOf(hs, fd) # {} /\ t' = fclose(t, fd)
        /\ \/ starved' = TRUE /\ UNCHANGED proc
           \/ proc' = [proc EXCEPT ![p].handles = WithoutHandle(@, fd)] /\ UNCHANGED starved
    BY DEF process_fclose
  <1>2. t \in [1 .. MaxFd -> Files \cup {NoFile}] /\ ProcShape /\ starved \in BOOLEAN
    BY DEF HandleInv
  <1>3. /\ t' \in [1 .. MaxFd -> Files \cup {NoFile}]
        /\ \A g \in 1 .. MaxFd : t'[g] = IF g = fd /\ g < MaxFd THEN NoFile ELSE t[g]
    BY <1>1, <1>2, FcloseType
  <1>4. CASE starved' = TRUE /\ UNCHANGED proc
    BY <1>2, <1>3, <1>4 DEF HandleInv, ProcShape
  <1>5. CASE proc' = [proc EXCEPT ![p].handles = WithoutHandle(@, fd)] /\ UNCHANGED starved
    <2>1. hs \in Seq(Handle) /\ p \in Procs
      BY <1>2, AliveShape
    <2> DEFINE n == Len(hs)
               new == RemoveAt(hs, k)
    <2>2. n \in Nat /\ DOMAIN hs = 1 .. n
      BY <2>1
    <2>3. k \in 1 .. n /\ hs[k].fd = fd
      <3>1. HandlesOf(hs, fd) \subseteq Nat
        BY <2>2 DEF HandlesOf
      <3>2. k \in HandlesOf(hs, fd)
        BY <1>1, <3>1, MinNatural
      <3> QED BY <2>2, <3>2 DEF HandlesOf
    <2>4. proc' = [proc EXCEPT ![p].handles = new]
      BY <1>5 DEF WithoutHandle
    <2> HIDE DEF k
    <2>5. /\ new \in Seq(Handle) /\ DOMAIN new = 1 .. n - 1
          /\ \A i \in 1 .. n - 1 : new[i] = IF i < k THEN hs[i] ELSE hs[i + 1]
      BY <2>1, <2>3, Removed
    <2> HIDE DEF new
    <2>6. /\ proc' = [q \in Procs |-> proc'[q]]
          /\ \A q \in Procs : q # p => proc'[q] = proc[q]
          /\ LiveShape(proc'[p]) /\ proc'[p].handles = new
      BY <1>2, <2>4, <2>5, ShapeSet
    <2>7. ProcShape' /\ Alive' = Alive
      BY <1>2, <2>1, <2>6 DEF ProcShape, LiveShape, Alive
    <2>8. ~starved => HandlesOwn'
      <3> SUFFICES ASSUME ~starved PROVE HandlesOwn'
        OBVIOUS
      <3>1. HandlesOwn
        BY DEF HandleInv
      <3>2. \A q \in Alive : q \in Procs /\ (q # p => proc'[q].handles = proc[q].handles)
        BY <2>6 DEF Alive
      <3> DEFINE Old(q, i) == IF q = p /\ i >= k THEN i + 1 ELSE i
      <3>3. \A q \in Alive : \A i \in DOMAIN proc'[q].handles :
              /\ i \in Nat /\ Old(q, i) \in DOMAIN proc[q].handles
              /\ proc'[q].handles[i] = proc[q].handles[Old(q, i)]
              /\ q = p => Old(q, i) # k
        <4> SUFFICES ASSUME NEW q \in Alive, NEW i \in DOMAIN proc'[q].handles
                     PROVE  /\ i \in Nat /\ Old(q, i) \in DOMAIN proc[q].handles
                            /\ proc'[q].handles[i] = proc[q].handles[Old(q, i)]
                            /\ q = p => Old(q, i) # k
          OBVIOUS
        <4>1. CASE q = p
          <5>1. i \in 1 .. n - 1
            BY <2>5, <2>6, <4>1
          <5> QED BY <2>2, <2>3, <2>5, <2>6, <4>1, <5>1
        <4>2. CASE q # p
          <5>1. proc'[q].handles = proc[q].handles /\ proc[q].handles \in Seq(Handle)
            BY <1>2, <3>2, <4>2, AliveShape
          <5> QED BY <4>2, <5>1
        <4> QED BY <4>1, <4>2
      <3>4. \A q \in Alive : \A i \in DOMAIN proc'[q].handles :
              proc'[q].handles[i].fd \in 1 .. MaxFd /\ proc'[q].handles[i].fd # fd
        <4> SUFFICES ASSUME NEW q \in Alive, NEW i \in DOMAIN proc'[q].handles
                     PROVE  proc'[q].handles[i].fd \in 1 .. MaxFd /\ proc'[q].handles[i].fd # fd
          OBVIOUS
        <4>1. /\ Old(q, i) \in DOMAIN proc[q].handles
              /\ proc'[q].handles[i] = proc[q].handles[Old(q, i)]
              /\ q = p => Old(q, i) # k
          BY <3>3
        <4> HIDE DEF Old
        <4>2. proc'[q].handles[i].fd \in 1 .. MaxFd
          BY <1>2, <4>1, HandleType
        <4>3. proc[q].handles[Old(q, i)].fd # fd
          BY <2>2, <2>3, <3>1, <4>1 DEF HandlesOwn
        <4> QED BY <4>1, <4>2, <4>3
      <3>5. \A q \in Alive : \A i \in DOMAIN proc'[q].handles :
              t'[proc'[q].handles[i].fd] = proc'[q].handles[i].file
        BY <1>3, <3>1, <3>3, <3>4 DEF HandlesOwn
      <3>6. \A q1, q2 \in Alive : \A i \in DOMAIN proc'[q1].handles, j \in DOMAIN proc'[q2].handles :
              proc'[q1].handles[i].fd = proc'[q2].handles[j].fd => q1 = q2 /\ i = j
        <4> SUFFICES ASSUME NEW q1 \in Alive, NEW q2 \in Alive,
                            NEW i \in DOMAIN proc'[q1].handles, NEW j \in DOMAIN proc'[q2].handles,
                            proc'[q1].handles[i].fd = proc'[q2].handles[j].fd
                     PROVE  q1 = q2 /\ i = j
          OBVIOUS
        <4>1. q1 = q2 /\ Old(q1, i) = Old(q2, j)
          BY <3>1, <3>3, SMTT(30) DEF HandlesOwn
        <4>2. i \in Nat /\ j \in Nat /\ k \in Nat
          BY <2>2, <2>3, <3>3
        <4> QED BY <4>1, <4>2
      <3>7. \A g \in 1 .. MaxFd - 1 : t'[g] # NoFile =>
              \E q \in Alive : \E i \in DOMAIN proc'[q].handles : proc'[q].handles[i].fd = g
        <4> SUFFICES ASSUME NEW g \in 1 .. MaxFd - 1, t'[g] # NoFile
                     PROVE  \E q \in Alive : \E i \in DOMAIN proc'[q].handles : proc'[q].handles[i].fd = g
          OBVIOUS
        <4>1. g # fd /\ t[g] # NoFile
          BY <1>3, FileAssumption
        <4>a. PICK q \in Alive : \E j \in DOMAIN proc[q].handles : proc[q].handles[j].fd = g
          BY <3>1, <4>1 DEF HandlesOwn
        <4>2. PICK j \in DOMAIN proc[q].handles : proc[q].handles[j].fd = g
          BY <4>a
        <4>3. CASE q # p
          BY <3>2, <4>2, <4>3
        <4>4. CASE q = p
          <5>1. j \in 1 .. n /\ j # k
            BY <2>2, <2>3, <4>1, <4>2, <4>4
          <5> DEFINE i == IF j < k THEN j ELSE j - 1
          <5>2. i \in 1 .. n - 1 /\ new[i] = hs[j]
            <6>1. CASE j < k
              BY <2>2, <2>3, <2>5, <5>1, <6>1, SMTT(30)
            <6>2. CASE ~(j < k)
              <7>1. i = j - 1 /\ i \in 1 .. n - 1 /\ ~(i < k) /\ i + 1 = j
                BY <2>2, <2>3, <5>1, <6>2
              <7> HIDE DEF i
              <7> QED BY <2>5, <7>1
            <6> QED BY <6>1, <6>2
          <5> HIDE DEF i
          <5> QED BY <2>5, <2>6, <4>2, <4>4, <5>2
        <4> QED BY <4>3, <4>4
      <3> QED BY <2>7, <3>5, <3>6, <3>7 DEF HandlesOwn
    <2> QED BY <1>2, <1>3, <1>5, <2>7, <2>8 DEF HandleInv
  <1> QED BY <1>1, <1>4, <1>5

(* process_terminate *)
LEMMA TerminateHandles ==
    ASSUME HandleInv, NEW p \in Alive, process_terminate(p)
    PROVE  HandleInv'
  <1> DEFINE t == file_descriptors
             hs == proc[p].handles
  <1>1. CASE UNCHANGED <<proc, file_descriptors, starved>>
    BY <1>1, HandlesKept DEF HandleInv, SameHandles, ProcShape, Alive
  <1>2. CASE /\ t' = ClosedAll(t, hs) /\ UNCHANGED starved
             /\ proc' = [proc EXCEPT ![p] = Dead]
    <2>1. t \in [1 .. MaxFd -> Files \cup {NoFile}] /\ ProcShape /\ starved \in BOOLEAN
      BY DEF HandleInv
    <2>2. hs \in Seq(Handle) /\ p \in Procs
      BY <2>1, AliveShape
    <2>3. /\ proc' = [q \in Procs |-> proc'[q]]
          /\ \A q \in Procs : q # p => proc'[q] = proc[q]
          /\ proc'[p] = Dead
      BY <1>2, <2>1, <2>2 DEF ProcShape
    <2>4. ProcShape'
      BY <2>1, <2>3 DEF ProcShape
    <2>5. \A q : q \in Alive' <=> q \in Alive /\ q # p
      BY <2>2, <2>3 DEF Alive, Dead
    <2>6. t' = [g \in 1 .. MaxFd |->
                   IF \E i \in DOMAIN hs : hs[i].fd = g /\ g < MaxFd THEN NoFile ELSE t[g]]
      BY <1>2, <2>1 DEF ClosedAll
    <2>7. t' \in [1 .. MaxFd -> Files \cup {NoFile}]
      BY <2>1, <2>6
    <2>8. ~starved => HandlesOwn'
      <3> SUFFICES ASSUME ~starved PROVE HandlesOwn'
        OBVIOUS
      <3>1. HandlesOwn
        BY DEF HandleInv
      <3>2. \A q \in Alive' : q \in Alive /\ q # p /\ proc'[q] = proc[q]
        BY <2>3, <2>5 DEF Alive
      <3>3. \A q \in Alive' : \A i \in DOMAIN proc[q].handles :
              t'[proc[q].handles[i].fd] = proc[q].handles[i].file
        <4> SUFFICES ASSUME NEW q \in Alive', NEW i \in DOMAIN proc[q].handles
                     PROVE  t'[proc[q].handles[i].fd] = proc[q].handles[i].file
          OBVIOUS
        <4>1. proc[q].handles[i].fd \in 1 .. MaxFd
          BY <2>1, <3>2, HandleType
        <4>2. ~ \E j \in DOMAIN hs : hs[j].fd = proc[q].handles[i].fd
          BY <3>1, <3>2 DEF HandlesOwn
        <4>3. t'[proc[q].handles[i].fd] = t[proc[q].handles[i].fd]
          BY <2>6, <4>1, <4>2
        <4> QED BY <3>1, <3>2, <4>3 DEF HandlesOwn
      <3>4. \A g \in 1 .. MaxFd - 1 : t'[g] # NoFile =>
              \E q \in Alive' : \E i \in DOMAIN proc[q].handles : proc[q].handles[i].fd = g
        <4> SUFFICES ASSUME NEW g \in 1 .. MaxFd - 1, t'[g] # NoFile
                     PROVE  \E q \in Alive' : \E i \in DOMAIN proc[q].handles : proc[q].handles[i].fd = g
          OBVIOUS
        <4>1. g \in 1 .. MaxFd /\ g < MaxFd
          BY FileAssumption
        <4>2. t[g] # NoFile /\ ~ \E i \in DOMAIN hs : hs[i].fd = g
          BY <2>6, <4>1
        <4>a. PICK q \in Alive : \E j \in DOMAIN proc[q].handles : proc[q].handles[j].fd = g
          BY <3>1, <4>2 DEF HandlesOwn
        <4>3. PICK j \in DOMAIN proc[q].handles : proc[q].handles[j].fd = g
          BY <4>a
        <4> QED BY <2>5, <4>2, <4>3
      <3> QED BY <3>1, <3>2, <3>3, <3>4 DEF HandlesOwn
    <2> QED BY <1>2, <2>1, <2>4, <2>7, <2>8 DEF HandleInv
  <1> QED BY <1>1, <1>2 DEF process_terminate, memory

(* process_load starts a process without handles, and closes the program's *)
(* file again unless that got the last descriptor.                         *)
LEMMA LoadHandles ==
    ASSUME HandleInv, NEW p \in Procs, process_load(p)
    PROVE  HandleInv'
  <1> DEFINE t == file_descriptors
  <1>1. PICK r \in fopen(t, ProgramPath, "r") :
          /\ proc[p] = Dead /\ t' = fclose(r.table, r.fd) /\ UNCHANGED starved
          /\ \/ UNCHANGED proc
             \/ \E d : proc' = [proc EXCEPT ![p] =
                    [alive |-> TRUE, dir |-> d, allocations |-> <<>>, handles |-> <<>>, held |-> {}]]
    BY Zenon DEF process_load
  <1>2. t \in [1 .. MaxFd -> Files \cup {NoFile}] /\ ProcShape /\ starved \in BOOLEAN
    BY DEF HandleInv
  <1>3. \/ r.fd = 0 /\ r.table = t
        \/ /\ r.fd \in 1 .. MaxFd /\ t[r.fd] = NoFile
           /\ r.table = [t EXCEPT ![r.fd] = ProgramPath.file]
    BY <1>2, FopenOutcome DEF Files
  <1>4. r.table \in [1 .. MaxFd -> Files \cup {NoFile}]
    BY <1>2, <1>3 DEF Files
  <1>5. /\ t' \in [1 .. MaxFd -> Files \cup {NoFile}]
        /\ \A g \in 1 .. MaxFd : t'[g] = IF g = r.fd /\ g < MaxFd THEN NoFile ELSE r.table[g]
    BY <1>1, <1>4, FcloseType
  <1>6. \A g \in 1 .. MaxFd : g < MaxFd \/ t[g] # NoFile => t'[g] = t[g]
    <2>1. CASE r.fd = 0 /\ r.table = t
      BY <1>5, <2>1
    <2>2. CASE r.fd \in 1 .. MaxFd /\ t[r.fd] = NoFile /\ r.table = [t EXCEPT ![r.fd] = ProgramPath.file]
      <3>1. \A g \in 1 .. MaxFd : g # r.fd => r.table[g] = t[g]
        BY <1>2, <2>2
      <3> QED BY <1>5, <2>2, <3>1
    <2> QED BY <1>3, <2>1, <2>2
  <1>7. /\ ProcShape' /\ Alive \subseteq Alive'
        /\ \A q \in Alive : proc'[q] = proc[q]
        /\ \A q \in Alive' : q \notin Alive => proc'[q].handles = <<>>
    <2>1. CASE UNCHANGED proc
      BY <1>2, <2>1 DEF ProcShape, Alive
    <2>2. CASE ~ UNCHANGED proc
      <3>1. PICK d : proc' = [proc EXCEPT ![p] =
                    [alive |-> TRUE, dir |-> d, allocations |-> <<>>, handles |-> <<>>, held |-> {}]]
        BY <1>1, <2>2
      <3> DEFINE x == [alive |-> TRUE, dir |-> d, allocations |-> <<>>, handles |-> <<>>, held |-> {}]
      <3>2. LiveShape(x) /\ x.handles = <<>> /\ x.alive
        BY DEF LiveShape
      <3>3. proc' = [proc EXCEPT ![p] = x]
        BY <3>1
      <3> HIDE DEF x
      <3>4. /\ proc' = [q \in Procs |-> proc'[q]]
            /\ \A q \in Procs : q # p => proc'[q] = proc[q]
            /\ proc'[p] = x
        BY <1>2, <3>3 DEF ProcShape
      <3>5. ProcShape'
        BY <1>2, <3>2, <3>4 DEF ProcShape
      <3>6. p \notin Alive
        BY <1>1 DEF Alive, Dead
      <3>7. \A q : q \in Alive' <=> q \in Alive \/ q = p
        BY <3>2, <3>4, <3>6 DEF Alive
      <3>8. \A q \in Alive : proc'[q] = proc[q]
        BY <3>4, <3>6 DEF Alive
      <3> QED BY <3>2, <3>4, <3>5, <3>7, <3>8
    <2> QED BY <2>1, <2>2
  <1>8. ~starved => HandlesOwn'
    <2> SUFFICES ASSUME ~starved PROVE HandlesOwn'
      OBVIOUS
    <2>1. HandlesOwn
      BY DEF HandleInv
    <2>2. \A q \in Alive' : \A i \in DOMAIN proc'[q].handles :
            /\ q \in Alive /\ proc'[q] = proc[q]
            /\ proc[q].handles[i].fd \in 1 .. MaxFd /\ proc[q].handles[i].file \in Files
      BY <1>2, <1>7, HandleType
    <2>3. \A q \in Alive' : \A i \in DOMAIN proc'[q].handles :
            t'[proc'[q].handles[i].fd] = proc'[q].handles[i].file
      BY <1>6, <2>1, <2>2, FileNames DEF HandlesOwn
    <2>4. \A g \in 1 .. MaxFd - 1 : t'[g] = t[g]
      BY <1>6, FileAssumption
    <2>5. \A q1, q2 \in Alive' : \A i \in DOMAIN proc'[q1].handles, j \in DOMAIN proc'[q2].handles :
            proc'[q1].handles[i].fd = proc'[q2].handles[j].fd => q1 = q2 /\ i = j
      BY <2>1, <2>2 DEF HandlesOwn
    <2>6. \A g \in 1 .. MaxFd - 1 : t'[g] # NoFile =>
            \E q \in Alive' : \E i \in DOMAIN proc'[q].handles : proc'[q].handles[i].fd = g
      BY <1>7, <2>1, <2>4 DEF HandlesOwn
    <2> QED BY <2>3, <2>5, <2>6 DEF HandlesOwn
  <1> QED BY <1>1, <1>2, <1>5, <1>7, <1>8 DEF HandleInv

(* The calls on memory leave the handles alone. *)
LEMMA RecordChanged ==
    ASSUME HandleInv, NEW p \in Alive, NEW x, LiveShape(x), x.handles = proc[p].handles,
           proc' = [proc EXCEPT ![p] = x], UNCHANGED <<file_descriptors, starved>>
    PROVE  HandleInv'
  <1>1. ProcShape
    BY DEF HandleInv
  <1>2. p \in Procs /\ x.alive
    BY DEF Alive, LiveShape
  <1>3. /\ proc' = [q \in Procs |-> proc'[q]]
        /\ \A q \in Procs : q # p => proc'[q] = proc[q]
        /\ proc'[p] = x
    BY <1>1, <1>2 DEF ProcShape
  <1>4. ProcShape'
    BY <1>1, <1>3 DEF ProcShape
  <1>5. \A q \in Procs : proc'[q].alive <=> proc[q].alive
    <2>1. proc[p].alive
      BY DEF Alive
    <2> QED BY <1>2, <1>3, <2>1
  <1>6. Alive' = Alive
    BY <1>5 DEF Alive
  <1>7. SameHandles
    BY <1>3, <1>6 DEF SameHandles, Alive
  <1> QED BY <1>4, <1>7, HandlesKept

(* process_allocation_set_map leaves the handles alone. *)
LEMMA SetMapShape ==
    ASSUME NEW pr, LiveShape(pr), NEW index, NEW ptr, NEW size
    PROVE  /\ LiveShape(process_allocation_set_map(pr, index, ptr, size))
           /\ process_allocation_set_map(pr, index, ptr, size).handles = pr.handles
  <1> DEFINE d == paging_map_to(pr.dir, ptr, ptr, ptr + BlocksFor(size), UserFlags)
             a == IF index > Len(pr.allocations)
                  THEN Append(pr.allocations, [ptr |-> ptr, size |-> size])
                  ELSE [pr.allocations EXCEPT ![index] = [ptr |-> ptr, size |-> size]]
  <1>1. process_allocation_set_map(pr, index, ptr, size) = [pr EXCEPT !.dir = d, !.allocations = a]
    BY DEF process_allocation_set_map
  <1> HIDE DEF d, a
  <1>2. LiveShape([pr EXCEPT !.dir = d, !.allocations = a]) /\ [pr EXCEPT !.dir = d, !.allocations = a].handles = pr.handles
    BY DEF LiveShape
  <1> QED BY <1>1, <1>2

(* Changing what a process holds leaves its handles alone. *)
LEMMA SetHeldShape ==
    ASSUME NEW pr, LiveShape(pr), NEW held
    PROVE  LiveShape([pr EXCEPT !.held = held]) /\ [pr EXCEPT !.held = held].handles = pr.handles
  BY DEF LiveShape

(* The heap's system calls keep the handle invariant. *)
LEMMA HeapCallHandles ==
    ASSUME HandleInv, NEW p \in Alive, HeapCall(p)
    PROVE  HandleInv'
  <1>1. ProcShape /\ LiveShape(proc[p])
    BY AliveShape DEF HandleInv
  <1>2. CASE UNCHANGED <<proc, file_descriptors, starved>>
    BY <1>2, HandlesKept DEF HandleInv, SameHandles, ProcShape, Alive
  <1>3. ASSUME NEW size \in MallocSizes, process_malloc(p, size) PROVE HandleInv'
    <2> DEFINE ptr == multiheap_alloc(mh, size).ptr
               x == process_allocation_set_map(proc[p], FreeIndex(proc[p].allocations), ptr, size)
               h == x.held \cup {[ptr |-> ptr, size |-> size]}
               y == [x EXCEPT !.held = h]
    <2>1. \/ UNCHANGED proc
          \/ proc' = [proc EXCEPT ![p] = Allocated(@, ptr, size)]
      BY <1>3 DEF process_malloc
    <2>2. UNCHANGED <<file_descriptors, starved>>
      BY <1>3 DEF process_malloc
    <2>3. CASE UNCHANGED proc
      BY <1>2, <2>2, <2>3
    <2>4. CASE proc' = [proc EXCEPT ![p] = Allocated(@, ptr, size)]
      <3>1. Allocated(proc[p], ptr, size) = y
        BY DEF Allocated
      <3>2. LiveShape(x) /\ x.handles = proc[p].handles
        BY <1>1, SetMapShape
      <3> HIDE DEF x
      <3>3. LiveShape(y) /\ y.handles = proc[p].handles
        BY <3>2, SetHeldShape
      <3>4. proc' = [proc EXCEPT ![p] = y]
        BY <2>4, <3>1
      <3> HIDE DEF y
      <3> QED BY <2>2, <3>3, <3>4, RecordChanged
    <2> QED BY <2>1, <2>3, <2>4
  <1>4. ASSUME NEW a, process_free(p, a) PROVE HandleInv'
    <2> DEFINE is == RecordsOf(proc[p].allocations, a.ptr)
               record == IF is = {} THEN NoRecord ELSE proc[p].allocations[Min(is)]
               d == Unmapped(proc[p], record)
               h == proc[p].held \ {a}
               b == [i \in DOMAIN proc[p].allocations |->
                        IF i \in is THEN NoRecord ELSE proc[p].allocations[i]]
               y == [proc[p] EXCEPT !.held = h, !.dir = d, !.allocations = b]
    <2>1. proc' = [proc EXCEPT ![p] = y] /\ UNCHANGED <<file_descriptors, starved>>
      BY <1>4 DEF process_free
    <2> HIDE DEF d, h, b
    <2>2. LiveShape(y) /\ y.handles = proc[p].handles
      BY <1>1 DEF LiveShape
    <2> HIDE DEF y
    <2> QED BY <2>1, <2>2, RecordChanged
  <1>5. ASSUME NEW a, NEW size \in ReallocSizes, process_realloc(p, a, size) PROVE HandleInv'
    <2> DEFINE pr == proc[p]
               index == FoundIndex(pr.allocations, a.ptr)
               phys == IF a.ptr = NULL THEN NULL ELSE paging_get_physical_address(pr.dir, a.ptr)
               r == multiheap_realloc(mh, phys, size)
               h1 == IF size = 0 THEN pr.held \ {a} ELSE pr.held
               x == process_allocation_set_map(pr, index, r.ptr, size)
               h2 == (x.held \ {a}) \cup {[ptr |-> r.ptr, size |-> size]}
               y == IF r.ptr = NULL THEN [pr EXCEPT !.held = h1] ELSE [x EXCEPT !.held = h2]
    <2>1. proc' = [proc EXCEPT ![p] = y] /\ UNCHANGED <<file_descriptors, starved>>
      BY <1>5 DEF process_realloc
    <2>2. LiveShape(x) /\ x.handles = pr.handles
      BY <1>1, SetMapShape
    <2> HIDE DEF index, phys, r, h1, x, h2
    <2>3. LiveShape(y) /\ y.handles = pr.handles
      <3>1. LiveShape([pr EXCEPT !.held = h1]) /\ [pr EXCEPT !.held = h1].handles = pr.handles
        BY <1>1, SetHeldShape
      <3>2. LiveShape([x EXCEPT !.held = h2]) /\ [x EXCEPT !.held = h2].handles = pr.handles
        BY <2>2, SetHeldShape
      <3> QED BY <3>1, <3>2
    <2> HIDE DEF y
    <2> QED BY <2>1, <2>3, RecordChanged
  <1>6. ASSUME NEW a, ReallocFails(p, a) PROVE HandleInv'
    BY <1>2, <1>6 DEF ReallocFails, vars
  <1> QED BY <1>3, <1>4, <1>5, <1>6 DEF HeapCall

(* fopen and fclose keep the handle invariant. *)
LEMMA FileCallHandles ==
    ASSUME HandleInv, NEW p \in Alive, FileCall(p)
    PROVE  HandleInv'
  <1>1. CASE UNCHANGED vars
    BY <1>1, HandlesKept DEF HandleInv, SameHandles, ProcShape, Alive, vars
  <1>2. ASSUME NEW path \in Paths, NEW mode \in Modes, process_fopen(p, path, mode) PROVE HandleInv'
    BY <1>2, FopenHandles
  <1>3. ASSUME NEW fd \in 1 .. MaxFd, process_fclose(p, fd) PROVE HandleInv'
    BY <1>3, FcloseHandles
  <1>4. CASE process_terminate(p)
    BY <1>4, TerminateHandles
  <1>5. ASSUME NEW fd, NEW addr, process_fread(p, fd, addr, 1) PROVE HandleInv'
    BY <1>1, <1>4, <1>5 DEF process_fread
  <1>6. ASSUME NEW addr, process_fstat(p, addr) PROVE HandleInv'
    BY <1>1, <1>4, <1>6 DEF process_fstat
  <1> QED BY <1>2, <1>3, <1>5, <1>6 DEF FileCall

(* Every step keeps the handle invariant. *)
LEMMA HandleStep == HandleInv /\ [Next]_vars => HandleInv'
  <1> SUFFICES ASSUME HandleInv, [Next]_vars PROVE HandleInv'
    OBVIOUS
  <1>1. CASE UNCHANGED vars
    BY <1>1, HandlesKept DEF HandleInv, SameHandles, ProcShape, Alive, vars
  <1>2. ASSUME NEW size \in AreaSizes, kpalloc(size) PROVE HandleInv'
    BY <1>2, HandlesKept DEF HandleInv, SameHandles, ProcShape, Alive, kpalloc
  <1>3. ASSUME NEW p \in Procs, process_load(p) PROVE HandleInv'
    BY <1>3, LoadHandles
  <1>4. ASSUME NEW p \in Alive, HeapCall(p) \/ FileCall(p) \/ process_terminate(p) PROVE HandleInv'
    BY <1>4, HeapCallHandles, FileCallHandles, TerminateHandles
  <1>5. ASSUME kheap_init PROVE HandleInv'
    BY <1>5, HandlesKept DEF HandleInv, SameHandles, ProcShape, Alive, kheap_init
  <1> QED BY <1>1, <1>2, <1>3, <1>4, <1>5 DEF Next

(* The handle invariant holds before the first process is loaded. *)
LEMMA HandleInit == Init => HandleInv
  <1> SUFFICES ASSUME Init PROVE HandleInv
    OBVIOUS
  <1>1. /\ proc = [p \in Procs |-> Dead] /\ starved = FALSE
        /\ file_descriptors = [fd \in 1 .. MaxFd |-> NoFile]
    BY DEF Init, NoFiles
  <1>2. \A p \in Procs : proc[p] = Dead
    BY <1>1
  <1>3. Alive = {}
    BY <1>2 DEF Alive, Dead
  <1>4. ProcShape
    BY <1>1, <1>2 DEF ProcShape
  <1>5. HandlesOwn
    BY <1>1, <1>3, FileAssumption DEF HandlesOwn
  <1> QED BY <1>1, <1>4, <1>5 DEF HandleInv

(* A process has no more handles than there are descriptors. *)
LEMMA FewHandles ==
    ASSUME HandleInv, ~starved, NEW p \in Alive
    PROVE  DOMAIN proc[p].handles \subseteq 1 .. MaxFd
  <1> DEFINE hs == proc[p].handles
             n == Len(hs)
             f == [i \in 1 .. n |-> hs[i].fd]
  <1>1. hs \in Seq(Handle) /\ n \in Nat /\ DOMAIN hs = 1 .. n
    BY AliveShape DEF HandleInv
  <1>2. f \in [1 .. n -> 1 .. MaxFd]
    BY <1>1, HandleType DEF HandleInv
  <1>3. \A i, j \in 1 .. n : f[i] = f[j] => i = j
    BY <1>1 DEF HandleInv, HandlesOwn
  <1>4. f \in Injection(1 .. n, 1 .. MaxFd)
    BY <1>2, <1>3 DEF Injection, IsInjective
  <1> HIDE DEF f
  <1>5. IsFiniteSet(1 .. MaxFd) /\ Cardinality(1 .. MaxFd) = MaxFd /\ Cardinality(1 .. n) = n
    <2>1. 1 \in Int /\ MaxFd \in Int /\ n \in Int /\ MaxFd >= 1
      BY <1>1, FileAssumption
    <2> HIDE DEF n
    <2>2. /\ IsFiniteSet(1 .. MaxFd)
          /\ Cardinality(1 .. MaxFd) = IF 1 > MaxFd THEN 0 ELSE MaxFd - 1 + 1
      BY <2>1, FS_Interval
    <2>3. Cardinality(1 .. n) = IF 1 > n THEN 0 ELSE n - 1 + 1
      BY <2>1, FS_Interval
    <2> QED BY <1>1, <2>1, <2>2, <2>3
  <1>6. Cardinality(1 .. n) <= Cardinality(1 .. MaxFd)
    BY <1>4, <1>5, FS_Injection
  <1>7. n <= MaxFd
    BY <1>5, <1>6
  <1> QED BY <1>1, <1>7, FileAssumption

(* The handle invariant accounts for every open descriptor. *)
LEMMA Accounted == HandleInv => DescriptorsAccounted
  <1> SUFFICES ASSUME HandleInv, ~starved, NEW fd \in 1 .. MaxFd - 1, file_descriptors[fd] # NoFile
               PROVE  Cardinality({h \in Alive \X (1 .. MaxFd) :
                         h[2] \in DOMAIN proc[h[1]].handles /\ proc[h[1]].handles[h[2]].fd = fd}) = 1
    BY DEF DescriptorsAccounted
  <1>1. HandlesOwn
    BY DEF HandleInv
  <1>2. PICK p \in Alive : \E i \in DOMAIN proc[p].handles : proc[p].handles[i].fd = fd
    BY <1>1 DEF HandlesOwn
  <1>3. PICK i \in DOMAIN proc[p].handles : proc[p].handles[i].fd = fd
    BY <1>2
  <1>4. i \in 1 .. MaxFd
    BY FewHandles
  <1> DEFINE hs == {h \in Alive \X (1 .. MaxFd) :
                       h[2] \in DOMAIN proc[h[1]].handles /\ proc[h[1]].handles[h[2]].fd = fd}
  <1>5. <<p, i>> \in hs
    BY <1>3, <1>4
  <1>6. \A h \in hs : h = <<p, i>>
    <2> SUFFICES ASSUME NEW q \in Alive, NEW j \in DOMAIN proc[q].handles, proc[q].handles[j].fd = fd
                 PROVE  <<q, j>> = <<p, i>>
      OBVIOUS
    <2> QED BY <1>1, <1>3 DEF HandlesOwn
  <1>7. hs = {<<p, i>>}
    BY <1>5, <1>6
  <1> QED BY <1>7, FS_Singleton

(* The file a process reaches through a handle is the file it opened: no   *)
(* order of process_fopen, process_fclose and process_terminate by any     *)
(* number of processes hands a descriptor that a handle still names to     *)
(* another file, as long as every close found the memory it takes.         *)
THEOREM HandlesFit == Spec => []HandleFits
  <1>1. HandleInv => HandleFits
    BY DEF HandleInv, HandlesOwn, HandleFits
  <1> QED BY <1>1, HandleInit, HandleStep, PTL DEF Spec

(* Closing files, and ending a process that has some open, forgets none:   *)
(* a descriptor in use has exactly one handle of one living process,       *)
(* except the table's last, as long as every close found its memory.       *)
THEOREM NoFileForgotten == Spec => []DescriptorsAccounted
  BY Accounted, HandleInit, HandleStep, PTL DEF Spec
=============================================================================
