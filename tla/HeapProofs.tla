----------------------------- MODULE HeapProofs -----------------------------
(***************************************************************************)
(* Theorems about Heap, for every number of blocks, block size, word size, *)
(* set of callers and set of requests.                                     *)
(*                                                                         *)
(* For the whole interface: the state keeps its type, only free blocks are *)
(* handed out, and two callers share a block only where a walk along the   *)
(* chains went too far.  As long as nobody was given more than a block:    *)
(* allocations never overlap, nothing leaks, and the counters agree with   *)
(* the table.                                                              *)
(*                                                                         *)
(* At the end, the search loop that Heap takes as one operator             *)
(* (HeapScan), and the vector whose memory grows by krealloc (Vector).     *)
(***************************************************************************)
EXTENDS Heap, HeapScan, Vector, FiniteSetTheorems, WellFoundedInduction, TLAPS

-----------------------------------------------------------------------------
(* Facts about the operators.                                              *)

(* A nonempty set of naturals has a least element: the CHOOSEs that stand  *)
(* for the scans of heap.c have a value.                                   *)
LEMMA LeastNat ==
    ASSUME NEW T, T \subseteq Nat, T # {}
    PROVE  \E x \in T : \A y \in T : x <= y
  <1>1. PICK x \in T : \A y \in T : ~(<<y, x>> \in OpToRel(<, Nat))
    BY WFMin, NatLessThanWellFounded
  <1>2. \A y \in T : ~(y < x)
    BY <1>1 DEF OpToRel
  <1> QED BY <1>2

(* The rounding of heap_malloc: a number of blocks large enough for the    *)
(* request, and zero only for a request of zero bytes.                     *)
LEMMA BlocksForNat ==
    \A size \in Nat : /\ BlocksFor(size) \in Nat
                      /\ size <= BlocksFor(size) * BlockSize
  BY TableAssumption, WordAssumption, HeapAssumption DEF BlocksFor, heap_align_value_to_upper

(* A start block found by heap_get_start_block begins a free run of the    *)
(* requested length, inside the table.                                     *)
LEMMA StartBlock ==
    ASSUME NEW e, NEW n \in Nat, heap_get_start_block(e, n) # NoBlock
    PROVE  /\ n > 0
           /\ heap_get_start_block(e, n) \in FreeRuns(e, n)
  <1>1. n # 0 /\ FreeRuns(e, n) # {}
    BY DEF heap_get_start_block
  <1>2. FreeRuns(e, n) \subseteq Nat
    BY TableAssumption, WordAssumption, HeapAssumption DEF FreeRuns, Blocks
  <1>3. \E s \in FreeRuns(e, n) : \A t \in FreeRuns(e, n) : s <= t
    BY <1>1, <1>2, LeastNat
  <1> QED BY <1>1, <1>3 DEF heap_get_start_block

(* A walk along HAS_NEXT from a block of the table stays in the table.     *)
LEMMA ChainEndInTable ==
    ASSUME NEW e, NEW s \in Blocks
    PROVE  ChainEnd(e, s) \in s .. Total - 1
  <1> DEFINE stops == {i \in s .. Total - 1 : HAS_NEXT \notin e[i]}
  <1>1. CASE stops = {}
    BY <1>1, TableAssumption, WordAssumption, HeapAssumption DEF ChainEnd, Blocks
  <1>2. CASE stops # {}
    <2>1. stops \subseteq Nat
      BY TableAssumption, WordAssumption, HeapAssumption DEF Blocks
    <2>2. \E x \in stops : \A y \in stops : x <= y
      BY <2>1, <1>2, LeastNat
    <2> QED BY <1>2, <2>2 DEF ChainEnd
  <1> QED BY <1>1, <1>2

(* heap_allocation_block_count never exceeds what is left of the table.    *)
LEMMA BlockCountInTable ==
    ASSUME NEW e, NEW s \in Blocks
    PROVE  heap_allocation_block_count(e, s) \in 0 .. Total - s
  <1> DEFINE t == ChainEnd(e, s)
             S == {i \in s .. t : ~IsFree(e, i)}
  <1>1. t \in s .. Total - 1
    BY ChainEndInTable
  <1>2. s \in Int /\ t \in Int
    BY <1>1, TableAssumption, WordAssumption, HeapAssumption DEF Blocks
  <1>3. IsFiniteSet(s .. t) /\ Cardinality(s .. t) = t - s + 1
    BY <1>1, <1>2, FS_Interval
  <1>4. IsFiniteSet(S) /\ Cardinality(S) <= t - s + 1
    BY <1>3, FS_Subset
  <1>5. Cardinality(S) \in Nat
    BY <1>4, FS_CardinalityType
  <1> QED
    BY <1>1, <1>2, <1>4, <1>5, TableAssumption, WordAssumption, HeapAssumption DEF heap_allocation_block_count, Blocks

-----------------------------------------------------------------------------
(* The type of a heap, and what each operation makes of it.                *)

HeapType == [entries: [Memory -> SUBSET Flags], used: 0 .. Word - 1, free: 0 .. Word - 1]

(* Moving d blocks between the counters keeps them in range. *)
LEMMA WrapMoves ==
    ASSUME NEW u \in 0 .. Word - 1, NEW f \in 0 .. Word - 1, NEW d \in Int,
           -Word <= d, d <= Word
    PROVE  /\ Wrap(u + d) \in 0 .. Word - 1
           /\ Wrap(f - d) \in 0 .. Word - 1
  BY TableAssumption, WordAssumption, HeapAssumption DEF Wrap

(* malloc keeps the table and the counters what they are. *)
LEMMA AfterMallocType ==
    ASSUME NEW h \in HeapType, NEW n \in Nat, NEW s \in FreeRuns(h.entries, n)
    PROVE  AfterMalloc(h, s, n) \in HeapType
  <1> DEFINE r == AfterMalloc(h, s, n)
  <1>1. n \in Int /\ -Word <= n /\ n <= Word
    BY TableAssumption, WordAssumption, HeapAssumption DEF FreeRuns, Blocks
  <1>2. h.used \in 0 .. Word - 1 /\ h.free \in 0 .. Word - 1
    BY DEF HeapType
  <1>3. heap_mark_blocks_taken(h.entries, s, n) \in [Memory -> SUBSET Flags]
    BY DEF heap_mark_blocks_taken, HeapType, Flags
  <1>4. /\ Wrap(h.used + n) \in 0 .. Word - 1
        /\ Wrap(h.free - n) \in 0 .. Word - 1
    BY <1>1, <1>2, WrapMoves
  <1> QED BY <1>3, <1>4 DEF AfterMalloc, HeapType

(* free does, wherever the chain it follows ends. *)
LEMMA AfterFreeType ==
    ASSUME NEW h \in HeapType, NEW s \in Blocks
    PROVE  AfterFree(h, s) \in HeapType
  <1> DEFINE d == 0 - BlocksFreed(h.entries, s)
  <1>1. d \in Int /\ -Word <= d /\ d <= Word
    BY ChainEndInTable, TableAssumption, WordAssumption, HeapAssumption DEF BlocksFreed, Blocks
  <1>2. h.used \in 0 .. Word - 1 /\ h.free \in 0 .. Word - 1
    BY DEF HeapType
  <1>3. heap_mark_blocks_free(h.entries, s) \in [Memory -> SUBSET Flags]
    BY DEF heap_mark_blocks_free, HeapType
  <1>4. /\ Wrap(h.used + d) \in 0 .. Word - 1
        /\ Wrap(h.free - d) \in 0 .. Word - 1
    BY <1>1, <1>2, WrapMoves
  <1>5. BlocksFreed(h.entries, s) \in Int
    BY ChainEndInTable, TableAssumption, WordAssumption, HeapAssumption DEF BlocksFreed, Blocks
  <1>6. /\ h.used + d = h.used - BlocksFreed(h.entries, s)
        /\ h.free - d = h.free + BlocksFreed(h.entries, s)
    BY <1>2, <1>5
  <1> QED BY <1>3, <1>4, <1>6 DEF AfterFree, HeapType

(* So does a shrink, which moves the counters twice. *)
LEMMA AfterShrinkType ==
    ASSUME NEW h \in HeapType, NEW s \in Blocks, NEW n \in Nat,
           NEW cur \in 0 .. Total - s, cur > n
    PROVE  AfterShrink(h, s, cur, n) \in HeapType
  <1> DEFINE f == AfterFree(h, s + n)
             d == n - cur
  <1>1. s + n \in Blocks
    BY TableAssumption, WordAssumption, HeapAssumption DEF Blocks
  <1>2. f \in HeapType
    BY <1>1, AfterFreeType
  <1>3. d \in Int /\ -Word <= d /\ d <= Word
    BY TableAssumption, WordAssumption, HeapAssumption DEF Blocks
  <1>4. f.used \in 0 .. Word - 1 /\ f.free \in 0 .. Word - 1
    BY <1>2 DEF HeapType
  <1>5. [f.entries EXCEPT ![s + n - 1] = @ \ {HAS_NEXT}] \in [Memory -> SUBSET Flags]
    BY <1>2 DEF HeapType
  <1>6. /\ Wrap(f.used + d) \in 0 .. Word - 1
        /\ Wrap(f.free - d) \in 0 .. Word - 1
    BY <1>3, <1>4, WrapMoves
  <1>7. /\ f.used + d = f.used - (cur - n)
        /\ f.free - d = f.free + (cur - n)
    BY <1>4, TableAssumption, WordAssumption, HeapAssumption DEF Blocks
  <1> HIDE DEF f
  <1>8. AfterShrink(h, s, cur, n) =
            [entries |-> [f.entries EXCEPT ![s + n - 1] = @ \ {HAS_NEXT}],
             used    |-> Wrap(f.used + d),
             free    |-> Wrap(f.free - d)]
    BY <1>7 DEF AfterShrink, f
  <1> QED BY <1>2, <1>5, <1>6, <1>8 DEF HeapType

(* So does an extension, which may leave the table. *)
LEMMA AfterExtendType ==
    ASSUME NEW h \in HeapType, NEW s \in Blocks, NEW n \in 0 .. Slack,
           NEW cur \in 0 .. Total - s, cur < n
    PROVE  AfterExtend(h, s, cur, n) \in HeapType
  <1> DEFINE d == n - cur
  <1>1. d \in Int /\ -Word <= d /\ d <= Word
    BY TableAssumption, WordAssumption, HeapAssumption DEF Blocks
  <1>2. h.used \in 0 .. Word - 1 /\ h.free \in 0 .. Word - 1
    BY DEF HeapType
  <1>3. AfterExtend(h, s, cur, n).entries \in [Memory -> SUBSET Flags]
    BY DEF AfterExtend, HeapType, Flags
  <1>4. /\ Wrap(h.used + d) \in 0 .. Word - 1
        /\ Wrap(h.free - d) \in 0 .. Word - 1
    BY <1>1, <1>2, WrapMoves
  <1> QED BY <1>3, <1>4 DEF AfterExtend, HeapType

-----------------------------------------------------------------------------
(* The whole interface.                                                    *)

(* What a caller holds begins in the table. *)
LEMMA HeldInTable ==
    ASSUME TypeOK, NEW c \in Callers, held[c] # NULL
    PROVE  /\ held[c].start \in Blocks
           /\ held[c].size \in Nat
  BY DEF TypeOK, Allocation

(* The heap of a well-typed state is well typed. *)
LEMMA HeapNowType == TypeOK => HeapNow \in HeapType
  BY DEF TypeOK, HeapNow, HeapType

(* A step that leaves a well-typed heap, and updates one caller's pointer  *)
(* with a pointer into the heap or NULL, keeps the type.                   *)
LEMMA TypeStep ==
    ASSUME TypeOK, NEW h \in HeapType, BecomesHeap(h), NEW m, Remember(m),
           NEW c \in Callers, NEW a \in Allocation, held' = [held EXCEPT ![c] = a]
    PROVE  TypeOK'
  <1>1. loose' \subseteq HeldBlocks'
    BY DEF Remember
  <1>2. paged' \in BOOLEAN
    BY Zenon DEF Remember
  <1> QED BY <1>1, <1>2 DEF TypeOK, HeapType, BecomesHeap, Memory, Flags

(* A step that changes nothing keeps the type. *)
LEMMA TypeStutter == TypeOK /\ UNCHANGED vars => TypeOK'
  BY DEF TypeOK, vars, HeldBlocks, Holders, BlocksOf, Memory, Flags

(* heap_malloc keeps the type. *)
LEMMA MallocType ==
    ASSUME TypeOK, NEW c \in Callers, NEW size \in Nat, heap_malloc(c, size)
    PROVE  TypeOK'
  <1> DEFINE n == BlocksFor(size)
             s == heap_get_start_block(entries, n)
  <1>1. n \in Nat
    BY BlocksForNat
  <1>2. CASE s = NoBlock
    BY <1>2, TypeStutter DEF heap_malloc
  <1>3. CASE s # NoBlock
    <2>1. s \in FreeRuns(HeapNow.entries, n)
      BY <1>1, <1>3, StartBlock DEF HeapNow
    <2>2. AfterMalloc(HeapNow, s, n) \in HeapType
      BY <1>1, <2>1, HeapNowType, AfterMallocType
    <2>3. [start |-> s, size |-> size] \in Allocation
      BY <2>1 DEF FreeRuns, Allocation
    <2>4. /\ BecomesHeap(AfterMalloc(HeapNow, s, n))
          /\ held' = [held EXCEPT ![c] = [start |-> s, size |-> size]]
          /\ Remember({})
      BY <1>3 DEF heap_malloc
    <2> QED BY <2>2, <2>3, <2>4, TypeStep
  <1> QED BY <1>2, <1>3

(* heap_free keeps the type. *)
LEMMA FreeType ==
    ASSUME TypeOK, NEW c \in Callers, heap_free(c)
    PROVE  TypeOK'
  <1>1. held[c].start \in Blocks
    BY HeldInTable DEF heap_free
  <1>2. AfterFree(HeapNow, held[c].start) \in HeapType
       
    BY <1>1, HeapNowType, AfterFreeType
  <1>3. NULL \in Allocation
    BY DEF Allocation
  <1> QED BY <1>2, <1>3, TypeStep DEF heap_free

(* heap_realloc keeps the type on each of its branches. *)
LEMMA ReallocType ==
    ASSUME TypeOK, NEW c \in Callers, NEW size \in ReallocSizes, heap_realloc(c, size)
    PROVE  TypeOK'
  <1> DEFINE s   == held[c].start
             n   == BlocksFor(size)
             cur == heap_allocation_block_count(entries, s)
             new == heap_get_start_block(entries, n)
             Keep(t) == [start |-> t, size |-> size]
             foreign == (s .. s + cur - 1) \ BlocksOf(held[c])
  <1>1. s \in Blocks /\ size \in Nat
    BY HeldInTable, TableAssumption, WordAssumption, HeapAssumption DEF heap_realloc
  <1>2. n \in 0 .. Slack /\ n \in Nat
    BY <1>1, BlocksForNat, TableAssumption, WordAssumption, HeapAssumption, SlackAssumption
  <1>3. cur \in 0 .. Total - s
    BY <1>1, BlockCountInTable
  <1>4. HeapNow \in HeapType
    BY HeapNowType
  <1>5. Keep(s) \in Allocation /\ NULL \in Allocation
    BY <1>1 DEF Allocation
  <1>6. CASE /\ BecomesHeap(AfterFree(HeapNow, s))
             /\ held' = [held EXCEPT ![c] = NULL] /\ Remember({})
    BY <1>1, <1>4, <1>5, <1>6, AfterFreeType, TypeStep
  <1>7. CASE /\ held' = [held EXCEPT ![c] = Keep(s)] /\ Remember(foreign)
             /\ UNCHANGED <<entries, used_blocks, free_blocks>>
    <2>1. BecomesHeap(HeapNow)
      BY <1>7 DEF BecomesHeap, HeapNow
    <2> QED BY <1>4, <1>5, <1>7, <2>1, TypeStep
  <1>8. CASE /\ cur > n
             /\ BecomesHeap(AfterShrink(HeapNow, s, cur, n))
             /\ held' = [held EXCEPT ![c] = Keep(s)] /\ Remember(foreign)
    <2>1. AfterShrink(HeapNow, s, cur, n) \in HeapType
         
      BY <1>1, <1>2, <1>3, <1>4, <1>8, AfterShrinkType
    <2> QED BY <2>1, <1>5, <1>8, TypeStep
  <1>9. CASE /\ cur < n
             /\ BecomesHeap(AfterExtend(HeapNow, s, cur, n))
             /\ held' = [held EXCEPT ![c] = Keep(s)] /\ Remember(foreign)
    <2>1. AfterExtend(HeapNow, s, cur, n) \in HeapType
         
      BY <1>1, <1>2, <1>3, <1>4, <1>9, AfterExtendType
    <2> QED BY <2>1, <1>5, <1>9, TypeStep
  <1>10. CASE UNCHANGED vars
    BY <1>10, TypeStutter
  <1>11. CASE /\ new # NoBlock
              /\ BecomesHeap(AfterFree(AfterMalloc(HeapNow, new, n), s))
              /\ held' = [held EXCEPT ![c] = Keep(new)] /\ Remember({})
    <2>1. new \in FreeRuns(HeapNow.entries, n)
      BY <1>2, <1>11, StartBlock DEF HeapNow
    <2>2. AfterMalloc(HeapNow, new, n) \in HeapType
      BY <1>2, <1>4, <2>1, AfterMallocType
    <2>3. AfterFree(AfterMalloc(HeapNow, new, n), s) \in HeapType
         
      BY <1>1, <2>2, AfterFreeType
    <2>4. Keep(new) \in Allocation
      BY <1>1, <2>1 DEF FreeRuns, Allocation
    <2> QED BY <2>3, <2>4, <1>11, TypeStep
  <1> QED BY <1>6, <1>7, <1>8, <1>9, <1>10, <1>11 DEF heap_realloc

(* Every operation of heap.c, on any heap and for any sequence of calls,   *)
(* keeps the table, the counters and the pointers it hands out in range.   *)
THEOREM HeapTypes == Spec => []TypeOK
  <1>1. Init => TypeOK
    BY TableAssumption, WordAssumption, HeapAssumption DEF Init, TypeOK, Allocation, Flags, Memory, Blocks
  <1>2. TypeOK /\ [Next]_vars => TypeOK'
    <2> SUFFICES ASSUME TypeOK, [Next]_vars PROVE TypeOK'
      OBVIOUS
    <2>1. CASE UNCHANGED vars
      BY <2>1, TypeStutter
    <2>2. ASSUME NEW c \in Callers, NEW size \in MallocSizes, heap_malloc(c, size)
          PROVE  TypeOK'
      BY <2>2, MallocType, TableAssumption, WordAssumption, HeapAssumption
    <2>3. ASSUME NEW c \in Callers, heap_free(c)
          PROVE  TypeOK'
      BY <2>3, FreeType
    <2>4. ASSUME NEW c \in Callers, NEW size \in ReallocSizes, heap_realloc(c, size)
          PROVE  TypeOK'
      BY <2>4, ReallocType
    <2> QED BY <2>1, <2>2, <2>3, <2>4 DEF Next
  <1> QED BY <1>1, <1>2, PTL DEF Spec

-----------------------------------------------------------------------------
(* Allocation and the table, whoever calls.                                *)

(* The safety of the clean regime, made  inductive: every pointer addresses *)
(* at least one block, all of them in the table.                           *)
Placed ==
    \A c \in Holders :
        /\ BlocksFor(held[c].size) > 0
        /\ held[c].start + BlocksFor(held[c].size) <= Total

Safe == TypeOK /\ Placed /\ Disjoint /\ HeldIsTaken /\ Accounting

(* The taken blocks can be counted. *)
LEMMA TakenFinite ==
    /\ IsFiniteSet(TakenBlocks)
    /\ Cardinality(TakenBlocks) \in Nat
    /\ Cardinality(TakenBlocks) <= Total
  <1>1. IsFiniteSet(Blocks) /\ Cardinality(Blocks) = Total
    BY FS_Interval, TableAssumption, WordAssumption, HeapAssumption DEF Blocks
  <1>2. TakenBlocks \in SUBSET Blocks
    BY DEF TakenBlocks
  <1>3. IsFiniteSet(TakenBlocks) /\ Cardinality(TakenBlocks) <= Total
    BY <1>1, <1>2, FS_Subset
  <1> QED BY <1>3, FS_CardinalityType

(* A successful heap_malloc adds exactly its run to the taken blocks, none *)
(* of which was taken before.                                              *)
LEMMA MallocTakes ==
    ASSUME TypeOK, NEW n \in Nat, n > 0, NEW s \in FreeRuns(entries, n),
           BecomesHeap(AfterMalloc(HeapNow, s, n))
    PROVE  /\ s .. s + n - 1 \subseteq Blocks
           /\ TakenBlocks \cap (s .. s + n - 1) = {}
           /\ TakenBlocks' = TakenBlocks \cup (s .. s + n - 1)
  <1>1. s \in Blocks /\ s + n <= Total /\ \A i \in s .. s + n - 1 : IsFree(entries, i)
    BY DEF FreeRuns
  <1>2. s .. s + n - 1 \subseteq Blocks
    BY <1>1, TableAssumption, WordAssumption, HeapAssumption DEF Blocks
  <1>3. entries' = heap_mark_blocks_taken(entries, s, n)
    BY DEF BecomesHeap, AfterMalloc, HeapNow
  <1>4. Blocks \subseteq Memory /\ DOMAIN entries = Memory
    BY TableAssumption, WordAssumption, HeapAssumption DEF Blocks, Memory, TypeOK
  <1>5. ASSUME NEW i \in Blocks
        PROVE  TAKEN \in entries'[i] <=> (TAKEN \in entries[i] \/ i \in s .. s + n - 1)
    <2>1. i \in Int /\ s \in Int
      BY <1>1, TableAssumption, WordAssumption, HeapAssumption DEF Blocks
    <2>2. CASE i = s
      BY <1>1, <1>3, <1>4, <2>1, <2>2 DEF heap_mark_blocks_taken
    <2>3. CASE i # s
      BY <1>1, <1>3, <1>4, <2>1, <2>3 DEF heap_mark_blocks_taken
    <2> QED BY <2>2, <2>3
  <1> QED BY <1>1, <1>2, <1>5 DEF TakenBlocks, IsFree

(* The counters follow the table through a heap_malloc.                    *)
LEMMA MallocCounts ==
    ASSUME TypeOK, Accounting, NEW n \in Nat, n > 0, NEW s \in FreeRuns(entries, n),
           BecomesHeap(AfterMalloc(HeapNow, s, n))
    PROVE  Accounting'
  <1> DEFINE run == s .. s + n - 1
             k == Cardinality(TakenBlocks)
  <1>1. /\ run \subseteq Blocks
        /\ TakenBlocks \cap run = {}
        /\ TakenBlocks' = TakenBlocks \cup run
    BY MallocTakes
  <1>2. s \in Int /\ s + n - 1 \in Int
    BY TableAssumption, WordAssumption, HeapAssumption DEF FreeRuns, Blocks
  <1>3. IsFiniteSet(run) /\ Cardinality(run) = n
    BY <1>2, FS_Interval
  <1>4. IsFiniteSet(TakenBlocks) /\ k \in Nat /\ k <= Total
    BY TakenFinite
  <1>5. Cardinality(TakenBlocks \cup run) = k + n - Cardinality(TakenBlocks \cap run)
    BY <1>3, <1>4, FS_Union
  <1>6. Cardinality(TakenBlocks \cap run) = 0
    BY <1>1, FS_EmptySet
  <1>7. Cardinality(TakenBlocks') = k + n
    BY <1>1, <1>4, <1>5, <1>6
  <1>8. IsFiniteSet(Blocks) /\ Cardinality(Blocks) = Total
    BY FS_Interval, TableAssumption, WordAssumption, HeapAssumption DEF Blocks
  <1>9. TakenBlocks \cup run \in SUBSET Blocks
    BY <1>1 DEF TakenBlocks
  <1>10. k + n <= Total
    BY <1>1, <1>7, <1>8, <1>9, FS_Subset
  <1>11. used_blocks = k /\ free_blocks = Total - k
    BY DEF Accounting
  <1>12. used_blocks' = Wrap(used_blocks + n) /\ free_blocks' = Wrap(free_blocks - n)
    BY DEF BecomesHeap, AfterMalloc, HeapNow
  <1>13. used_blocks' = k + n /\ free_blocks' = Total - (k + n)
    BY <1>4, <1>10, <1>11, <1>12, TableAssumption, WordAssumption, HeapAssumption DEF Wrap
  <1> QED BY <1>7, <1>13 DEF Accounting

(* heap_malloc keeps Safe for requests of any size.                        *)
LEMMA MallocSafe ==
    ASSUME Safe, TypeOK', NEW c \in Callers, NEW size \in Nat, heap_malloc(c, size)
    PROVE  Safe'
  <1> DEFINE n == BlocksFor(size)
             s == heap_get_start_block(entries, n)
             a == [start |-> s, size |-> size]
  <1>1. n \in Nat
    BY BlocksForNat
  <1>2. CASE s = NoBlock
    <2>1. UNCHANGED vars
      BY <1>2 DEF heap_malloc
    <2> QED
      BY <2>1 DEF Safe, TypeOK, Placed, Disjoint, HeldIsTaken, Accounting, Holders,
                  TakenBlocks, vars, Memory, Flags
  <1>3. CASE s # NoBlock
    <2>1. n > 0 /\ s \in FreeRuns(entries, n)
      BY <1>1, <1>3, StartBlock
    <2>2. /\ BecomesHeap(AfterMalloc(HeapNow, s, n))
          /\ held' = [held EXCEPT ![c] = a]
      BY <1>3 DEF heap_malloc
    <2>3. Accounting'
      BY <1>1, <2>1, <2>2, MallocCounts DEF Safe
    <2>4. /\ s .. s + n - 1 \subseteq Blocks
          /\ TakenBlocks \cap (s .. s + n - 1) = {}
          /\ TakenBlocks' = TakenBlocks \cup (s .. s + n - 1)
      BY <1>1, <2>1, <2>2, MallocTakes DEF Safe
    <2>5. /\ held'[c] = a
          /\ \A d \in Callers \ {c} : held'[d] = held[d]
          /\ \A d \in Holders' : d # c => d \in Holders
      BY <2>2 DEF Holders, Safe, TypeOK
    <2>6. BlocksOf(a) = s .. s + n - 1
      BY DEF BlocksOf
    <2>7. s \in Int /\ s + n <= Total
      BY <2>1, TableAssumption, WordAssumption, HeapAssumption DEF FreeRuns, Blocks
    <2>8. Placed'
      <3> SUFFICES ASSUME NEW d \in Holders'
                   PROVE  /\ BlocksFor(held'[d].size) > 0
                          /\ held'[d].start + BlocksFor(held'[d].size) <= Total
        BY DEF Placed
      <3>1. CASE d = c
        BY <2>1, <2>5, <2>7, <3>1
      <3>2. CASE d # c
        BY <2>5, <3>2 DEF Safe, Placed, Holders
      <3> QED BY <3>1, <3>2
    <2>9. HeldIsTaken'
      <3> SUFFICES ASSUME NEW d \in Holders'
                   PROVE  BlocksOf(held'[d]) \subseteq TakenBlocks'
        BY DEF HeldIsTaken
      <3>1. CASE d = c
        BY <2>4, <2>5, <2>6, <3>1
      <3>2. CASE d # c
        BY <2>4, <2>5, <3>2 DEF Safe, HeldIsTaken, Holders
      <3> QED BY <3>1, <3>2
    <2>10. Disjoint'
      <3> SUFFICES ASSUME NEW d1 \in Holders', NEW d2 \in Holders', d1 # d2
                   PROVE  BlocksOf(held'[d1]) \cap BlocksOf(held'[d2]) = {}
        BY DEF Disjoint
      <3>1. \A d \in Holders' : d # c => BlocksOf(held'[d]) \subseteq TakenBlocks
        BY <2>5 DEF Safe, HeldIsTaken, Holders
      <3>2. CASE d1 = c
        BY <2>4, <2>5, <2>6, <3>1, <3>2
      <3>3. CASE d2 = c
        BY <2>4, <2>5, <2>6, <3>1, <3>3
      <3>4. CASE d1 # c /\ d2 # c
        BY <2>5, <3>4 DEF Safe, Disjoint, Holders
      <3> QED BY <3>2, <3>3, <3>4
    <2> QED BY <2>3, <2>8, <2>9, <2>10 DEF Safe
  <1> QED BY <1>2, <1>3

(* An empty heap is safe. *)
LEMMA InitSafe == Init => Safe
  <1> SUFFICES ASSUME Init PROVE Safe
    OBVIOUS
  <1>1. TypeOK
    BY TableAssumption, WordAssumption, HeapAssumption DEF Init, TypeOK, Allocation, Flags, Memory, Blocks
  <1>2. Holders = {}
    BY DEF Init, Holders
  <1>3. TakenBlocks = {}
    BY DEF Init, TakenBlocks, IsFree
  <1>4. Accounting
    BY <1>3, FS_EmptySet, TableAssumption, WordAssumption, HeapAssumption DEF Init, Accounting
  <1> QED BY <1>1, <1>2, <1>4 DEF Safe, Placed, Disjoint, HeldIsTaken

-----------------------------------------------------------------------------
(* While nobody was given more than one block.                             *)

(* No entry of the table has a successor, and every allocation is a block. *)
NoChains == \A i \in Blocks : HAS_NEXT \notin entries[i]

PageSafe == Safe /\ NoChains /\ SingleBlocks /\ NoLeak

(* Without chains a walk ends where it begins, and counts one taken block. *)
LEMMA ChainEndNoChains ==
    ASSUME NEW e, NEW s \in Blocks, HAS_NEXT \notin e[s]
    PROVE  ChainEnd(e, s) = s
  <1> DEFINE stops == {i \in s .. Total - 1 : HAS_NEXT \notin e[i]}
  <1>1. s \in stops /\ stops \subseteq Nat /\ \A i \in stops : s <= i
    BY TableAssumption, WordAssumption, HeapAssumption DEF Blocks
  <1>2. \E x \in stops : \A y \in stops : x <= y
    BY <1>1
  <1>3. ChainEnd(e, s) \in stops /\ \A y \in stops : ChainEnd(e, s) <= y
    BY <1>1, <1>2 DEF ChainEnd
  <1> QED BY <1>1, <1>3

(* Without chains an allocation counts as one block. *)
LEMMA CountNoChains ==
    ASSUME NEW e, NEW s \in Blocks, HAS_NEXT \notin e[s], TAKEN \in e[s]
    PROVE  heap_allocation_block_count(e, s) = 1
  <1>1. {i \in s .. ChainEnd(e, s) : ~IsFree(e, i)} = {s}
    BY ChainEndNoChains, TableAssumption, WordAssumption, HeapAssumption DEF IsFree, Blocks
  <1> QED BY <1>1, FS_Singleton DEF heap_allocation_block_count

(* Without chains the count is what the allocation was given. *)
LEMMA PageBlockCount ==
    PageSafe =>
        \A c \in Holders :
            heap_allocation_block_count(entries, held[c].start) = BlocksFor(held[c].size)
  <1> SUFFICES ASSUME PageSafe, NEW c \in Holders
               PROVE  heap_allocation_block_count(entries, held[c].start)
                          = BlocksFor(held[c].size)
    OBVIOUS
  <1>1. held[c].start \in Blocks /\ BlocksFor(held[c].size) = 1
    BY HeldInTable DEF PageSafe, Safe, SingleBlocks, Holders
  <1>2. held[c].start \in TakenBlocks
    BY <1>1, TableAssumption, WordAssumption, HeapAssumption DEF PageSafe, Safe, HeldIsTaken, BlocksOf, Blocks
  <1> QED BY <1>1, <1>2, CountNoChains DEF PageSafe, NoChains, TakenBlocks, IsFree

(* Nothing changes, nothing is unsafe. *)
LEMMA PageStutter == PageSafe /\ UNCHANGED vars => PageSafe'
  <1> SUFFICES ASSUME PageSafe, UNCHANGED vars PROVE PageSafe'
    OBVIOUS
  <1>1. TypeOK'
    BY TypeStutter DEF PageSafe, Safe
  <1> QED BY <1>1 DEF PageSafe, Safe, Placed, Disjoint, HeldIsTaken, Accounting, NoLeak,
                      NoChains, SingleBlocks, Holders, TakenBlocks, vars

(* A heap_malloc of at most a block keeps PageSafe.                        *)
LEMMA PageMalloc ==
    ASSUME PageSafe, TypeOK', NEW c \in Callers, NEW size \in Nat,
           BlocksFor(size) <= 1, heap_malloc(c, size)
    PROVE  PageSafe'
  <1> DEFINE n == BlocksFor(size)
             s == heap_get_start_block(entries, n)
  <1>1. Safe'
    BY MallocSafe DEF PageSafe
  <1>2. CASE s = NoBlock
    <2>1. UNCHANGED vars
      BY <1>2 DEF heap_malloc
    <2> QED
      BY <1>1, <2>1 DEF PageSafe, NoChains, SingleBlocks, NoLeak, Holders, TakenBlocks, vars
  <1>3. CASE s # NoBlock
    <2>1. n = 1 /\ s \in FreeRuns(entries, 1)
      BY <1>3, BlocksForNat, StartBlock
    <2>2. /\ BecomesHeap(AfterMalloc(HeapNow, s, 1))
          /\ held' = [held EXCEPT ![c] = [start |-> s, size |-> size]]
      BY <1>3, <2>1 DEF heap_malloc
    <2>3. TakenBlocks' = TakenBlocks \cup {s}
      <3>1. TakenBlocks' = TakenBlocks \cup (s .. s + 1 - 1)
        BY <2>1, <2>2, MallocTakes DEF PageSafe, Safe
      <3>2. s .. s + 1 - 1 = {s}
        BY <2>1, TableAssumption, WordAssumption, HeapAssumption DEF FreeRuns, Blocks
      <3> QED BY <3>1, <3>2
    <2>4. entries' = heap_mark_blocks_taken(entries, s, 1)
      BY <2>2 DEF BecomesHeap, AfterMalloc, HeapNow
    <2>5. NoChains'
      <3> SUFFICES ASSUME NEW i \in Blocks PROVE HAS_NEXT \notin entries'[i]
        BY DEF NoChains
      <3>1. i \in DOMAIN entries /\ i \in Int /\ s \in Int
        BY <2>1, TableAssumption, WordAssumption, HeapAssumption DEF PageSafe, Safe, TypeOK, Blocks, Memory, FreeRuns
      <3>2. entries'[i] = IF i = s THEN {TAKEN, IS_FIRST} ELSE entries[i]
        BY <2>4, <3>1 DEF heap_mark_blocks_taken
      <3> QED BY <3>2 DEF PageSafe, NoChains, TAKEN, HAS_NEXT, IS_FIRST
    <2>6. /\ held'[c] = [start |-> s, size |-> size]
          /\ held[c] = NULL
          /\ \A d \in Callers \ {c} : held'[d] = held[d]
      BY <2>2 DEF PageSafe, Safe, TypeOK, heap_malloc
    <2>7. SingleBlocks'
      BY <2>1, <2>6 DEF PageSafe, SingleBlocks, Holders
    <2>8. held'[c] # NULL
      BY <1>3, <2>6 DEF NULL
    <2>9. NoLeak'
      <3> SUFFICES ASSUME NEW i \in TakenBlocks'
                   PROVE  \E d \in Holders' : i \in BlocksOf(held'[d])
        BY DEF NoLeak
      <3>1. CASE i = s
        <4>1. i \in BlocksOf(held'[c])
          BY <2>1, <2>6, <3>1, TableAssumption, WordAssumption, HeapAssumption DEF BlocksOf, FreeRuns, Blocks
        <4> QED BY <2>8, <4>1 DEF Holders
      <3>2. CASE i # s
        <4>1. PICK d \in Holders : i \in BlocksOf(held[d])
          BY <2>3, <3>2 DEF PageSafe, NoLeak
        <4>2. held'[d] = held[d] /\ d \in Holders'
          BY <2>6 DEF Holders
        <4> QED BY <4>1, <4>2
      <3> QED BY <3>1, <3>2
    <2> QED BY <1>1, <2>5, <2>7, <2>9 DEF PageSafe
  <1> QED BY <1>2, <1>3

(* Freeing a pointer returns exactly the block it addresses.               *)
LEMMA PageFree ==
    ASSUME PageSafe, TypeOK', NEW c \in Callers, held[c] # NULL,
           BecomesHeap(AfterFree(HeapNow, held[c].start)),
           held' = [held EXCEPT ![c] = NULL]
    PROVE  PageSafe'
  <1> DEFINE s == held[c].start
             k == Cardinality(TakenBlocks)
  <1>1. s \in Blocks /\ BlocksFor(held[c].size) = 1 /\ c \in Holders
    BY HeldInTable DEF PageSafe, Safe, SingleBlocks, Holders
  <1>2. s \in Nat /\ BlocksOf(held[c]) = {s}
    BY <1>1, TableAssumption, WordAssumption, HeapAssumption DEF BlocksOf, Blocks
  <1>3. ChainEnd(entries, s) = s
    BY <1>1, ChainEndNoChains DEF PageSafe, NoChains
  <1>4. /\ entries' = [i \in DOMAIN entries |-> IF i \in s .. s THEN {} ELSE entries[i]]
        /\ used_blocks' = Wrap(used_blocks - 1)
        /\ free_blocks' = Wrap(free_blocks + 1)
    BY <1>2, <1>3 DEF BecomesHeap, AfterFree, HeapNow, heap_mark_blocks_free, BlocksFreed
  <1>5. \A i \in Blocks : entries'[i] = IF i = s THEN {} ELSE entries[i]
    BY <1>2, <1>4, TableAssumption, WordAssumption, HeapAssumption DEF PageSafe, Safe, TypeOK, Blocks, Memory
  <1>6. TakenBlocks' = TakenBlocks \ {s}
    BY <1>5 DEF TakenBlocks, IsFree
  <1>7. s \in TakenBlocks
    BY <1>1, <1>2 DEF PageSafe, Safe, HeldIsTaken
  <1>8. /\ held'[c] = NULL
        /\ \A d \in Callers \ {c} : held'[d] = held[d]
    BY DEF PageSafe, Safe, TypeOK
  <1>9. \A d \in Holders' : d # c /\ d \in Holders /\ held'[d] = held[d]
    BY <1>8 DEF Holders
  <1>10. \A d \in Holders : d # c => s \notin BlocksOf(held[d])
    BY <1>1, <1>2 DEF PageSafe, Safe, Disjoint
  <1>11. Placed' /\ Disjoint' /\ SingleBlocks'
    BY <1>9 DEF PageSafe, Safe, Placed, Disjoint, SingleBlocks
  <1>12. HeldIsTaken'
    BY <1>6, <1>9, <1>10 DEF PageSafe, Safe, HeldIsTaken
  <1>13. NoChains'
    BY <1>5 DEF PageSafe, NoChains
  <1>14. Accounting'
    <2>1. IsFiniteSet(TakenBlocks) /\ k \in Nat /\ k <= Total
      BY TakenFinite
    <2>2. Cardinality(TakenBlocks \ {s}) = k - 1 /\ IsFiniteSet(TakenBlocks \ {s})
      BY <1>7, <2>1, FS_RemoveElement
    <2>3. k - 1 \in Nat
      BY <2>2, FS_CardinalityType
    <2>4. used_blocks = k /\ free_blocks = Total - k
      BY DEF PageSafe, Safe, Accounting
    <2>5. used_blocks' = k - 1 /\ free_blocks' = Total - (k - 1)
      BY <1>4, <2>1, <2>3, <2>4, TableAssumption, WordAssumption, HeapAssumption DEF Wrap
    <2> QED BY <1>6, <2>2, <2>5 DEF Accounting
  <1>15. NoLeak'
    <2> SUFFICES ASSUME NEW i \in TakenBlocks'
                 PROVE  \E d \in Holders' : i \in BlocksOf(held'[d])
      BY DEF NoLeak
    <2>1. PICK d \in Holders : i \in BlocksOf(held[d])
      BY <1>6 DEF PageSafe, NoLeak
    <2>2. d # c
      BY <1>2, <1>6, <2>1
    <2> QED BY <1>8, <2>1, <2>2 DEF Holders
  <1> QED BY <1>11, <1>12, <1>13, <1>14, <1>15 DEF PageSafe, Safe

(* A heap_realloc within one block frees the pointer or returns it as is.  *)
LEMMA PageRealloc ==
    ASSUME PageSafe, TypeOK', NEW c \in Callers, NEW size \in Nat,
           BlocksFor(size) <= 1, heap_realloc(c, size)
    PROVE  PageSafe'
  <1> DEFINE s == held[c].start
  <1>1. held[c] # NULL /\ c \in Holders
    BY DEF heap_realloc, Holders
  <1>2. s \in Blocks /\ BlocksFor(held[c].size) = 1
    BY <1>1, HeldInTable DEF PageSafe, Safe, SingleBlocks
  <1>3. heap_allocation_block_count(entries, s) = 1
    BY <1>1, <1>2, PageBlockCount
  <1>4. CASE size = 0
    <2>1. /\ BecomesHeap(AfterFree(HeapNow, s))
          /\ held' = [held EXCEPT ![c] = NULL]
      BY <1>4 DEF heap_realloc
    <2> QED BY <1>1, <2>1, PageFree
  <1>5. CASE size # 0
    <2>1. BlocksFor(size) = 1
      BY <1>5, BlocksForNat, TableAssumption, WordAssumption, HeapAssumption
    <2>2. /\ held' = [held EXCEPT ![c] = [start |-> s, size |-> size]]
          /\ UNCHANGED <<entries, used_blocks, free_blocks>>
      BY <1>3, <1>5, <2>1 DEF heap_realloc
    <2>3. TakenBlocks' = TakenBlocks
      BY <2>2 DEF TakenBlocks
    <2>4. s # NoBlock
      BY <1>2, TableAssumption, WordAssumption, HeapAssumption DEF NoBlock, Blocks
    <2>5. /\ held'[c] = [start |-> s, size |-> size]
          /\ \A d \in Callers \ {c} : held'[d] = held[d]
      BY <2>2 DEF PageSafe, Safe, TypeOK
    <2>6. Holders' = Holders
      BY <1>1, <2>4, <2>5 DEF Holders, NULL
    <2>7. \A d \in Holders : /\ BlocksFor(held'[d].size) = 1
                            /\ held'[d].start = held[d].start
                            /\ BlocksOf(held'[d]) = BlocksOf(held[d])
      BY <1>2, <2>1, <2>5 DEF PageSafe, SingleBlocks, Holders, BlocksOf
    <2>8. Placed' /\ SingleBlocks'
      BY <2>6, <2>7 DEF PageSafe, Safe, Placed, SingleBlocks
    <2>9. Disjoint' /\ HeldIsTaken' /\ NoLeak'
      BY <2>3, <2>6, <2>7 DEF PageSafe, Safe, Disjoint, HeldIsTaken, NoLeak
    <2>10. Accounting' /\ NoChains'
      BY <2>2, <2>3 DEF PageSafe, Safe, Accounting, NoChains
    <2> QED BY <2>8, <2>9, <2>10 DEF PageSafe, Safe
  <1> QED BY <1>4, <1>5

(* A step after which still nobody was given more than a block began in    *)
(* such a state, and what it gave, if anything, is a block.                *)
LEMMA PagedBefore ==
    ASSUME NEW m, Remember(m), paged'
    PROVE  paged /\ SingleBlocks'
  BY Zenon DEF Remember

(* heap_malloc: either nothing was found, or the request was for a block. *)
LEMMA PagedMalloc ==
    ASSUME paged => PageSafe, paged', TypeOK, TypeOK', NEW c \in Callers, NEW size \in Nat,
           heap_malloc(c, size)
    PROVE  PageSafe'
  <1> DEFINE s == heap_get_start_block(entries, BlocksFor(size))
  <1>1. CASE s = NoBlock
    <2>1. UNCHANGED vars
      BY <1>1 DEF heap_malloc
    <2>2. paged
      BY <2>1, Zenon DEF vars
    <2> QED BY <2>1, <2>2, PageStutter
  <1>2. CASE s # NoBlock
    <2>1. held' = [held EXCEPT ![c] = [start |-> s, size |-> size]] /\ Remember({})
      BY <1>2 DEF heap_malloc
    <2>2. paged /\ SingleBlocks'
      BY <2>1, PagedBefore
    <2>3. held'[c] = [start |-> s, size |-> size] /\ held'[c] # NULL
      BY <1>2, <2>1 DEF TypeOK, NULL
    <2>4. BlocksFor(size) = 1
      BY <2>2, <2>3 DEF SingleBlocks, Holders
    <2> QED BY <2>2, <2>4, PageMalloc
  <1> QED BY <1>1, <1>2

(* heap_realloc: it freed the pointer, failed, or gave a block. *)
LEMMA PagedRealloc ==
    ASSUME paged => PageSafe, paged', TypeOK, TypeOK', NEW c \in Callers, NEW size \in Nat,
           heap_realloc(c, size)
    PROVE  PageSafe'
  <1>1. CASE UNCHANGED vars
    <2>1. paged
      BY <1>1, Zenon DEF vars
    <2> QED BY <1>1, <2>1, PageStutter
  <1>2. CASE size = 0 /\ \E m : Remember(m)
    <2>1. paged
      BY <1>2, PagedBefore
    <2>2. BlocksFor(size) <= 1
      BY <1>2, TableAssumption DEF BlocksFor, heap_align_value_to_upper
    <2> QED BY <2>1, <2>2, PageRealloc
  <1>3. CASE /\ \E t : t # NoBlock /\ held' = [held EXCEPT ![c] = [start |-> t, size |-> size]]
             /\ \E m : Remember(m)
    <2>1. paged /\ SingleBlocks'
      BY <1>3, PagedBefore
    <2>2. held'[c].size = size /\ held'[c] # NULL
      <3>1. PICK t : t # NoBlock /\ held' = [held EXCEPT ![c] = [start |-> t, size |-> size]]
        BY <1>3
      <3>2. held'[c] = [start |-> t, size |-> size]
        BY <3>1 DEF TypeOK
      <3> QED BY <3>1, <3>2 DEF NULL
    <2>3. BlocksFor(size) = 1
      BY <2>1, <2>2 DEF SingleBlocks, Holders
    <2> QED BY <2>1, <2>3, PageRealloc
  <1>4. held[c].start # NoBlock
    <2>1. held[c].start \in Blocks
      BY HeldInTable DEF heap_realloc
    <2> QED BY <2>1, TableAssumption DEF NoBlock, Blocks
  <1> QED BY <1>1, <1>2, <1>3, <1>4 DEF heap_realloc

(* As long as nobody was given more than one block, for every heap and     *)
(* every sequence of calls of heap_malloc, heap_free and heap_realloc,     *)
(* allocations never overlap, what is held stays marked, nothing leaks,    *)
(* and the counters are exact.                                             *)
THEOREM PageHeapSafe == Spec => [](PagesDisjoint /\ PagesTaken /\ PagesCounted /\ PagesKept)
  <1>1. Init => PageSafe
    BY InitSafe DEF PageSafe, Init, NoChains, SingleBlocks, NoLeak, Holders, TakenBlocks, IsFree
  <1> DEFINE PagedInv == paged => PageSafe
  <1>2. PagedInv /\ TypeOK /\ TypeOK' /\ [Next]_vars => PagedInv'
    <2> SUFFICES ASSUME paged => PageSafe, TypeOK, TypeOK', [Next]_vars, paged' PROVE PageSafe'
      OBVIOUS
    <2>1. CASE UNCHANGED vars
      <3>1. paged
        BY <2>1, Zenon DEF vars
      <3> QED BY <2>1, <3>1, PageStutter
    <2>2. ASSUME NEW c \in Callers, NEW size \in MallocSizes, heap_malloc(c, size)
          PROVE  PageSafe'
      BY <2>2, PagedMalloc, HeapAssumption
    <2>3. ASSUME NEW c \in Callers, heap_free(c)
          PROVE  PageSafe'
      <3>1. paged
        BY <2>3, PagedBefore DEF heap_free
      <3> QED BY <2>3, <3>1, PageFree DEF heap_free
    <2>4. ASSUME NEW c \in Callers, NEW size \in ReallocSizes, heap_realloc(c, size)
          PROVE  PageSafe'
      BY <2>4, PagedRealloc, HeapAssumption
    <2> QED BY <2>1, <2>2, <2>3, <2>4 DEF Next
  <1>3. PagedInv => PagesDisjoint /\ PagesTaken /\ PagesCounted /\ PagesKept
    BY DEF PageSafe, Safe, PagesDisjoint, PagesTaken, PagesCounted, PagesKept
  <1>4. Spec => []TypeOK
    BY HeapTypes
  <1> QED BY <1>1, <1>2, <1>3, <1>4, PTL DEF Spec

(* As long as nobody was given more than one block every block a caller    *)
(* holds stays marked taken, so that no later scan of heap_get_start_block *)
(* can find it.                                                            *)
COROLLARY PageHeldIsTaken == Spec => []PagesTaken
  BY PageHeapSafe, PTL

(* As long as nobody was given more than one block heap_total_used tells   *)
(* the truth: used_blocks and free_blocks are the numbers of taken and     *)
(* free entries of the table.                                              *)
COROLLARY PageAccounting == Spec => []PagesCounted
  BY PageHeapSafe, PTL

-----------------------------------------------------------------------------
(* What a step may do to blocks.                                           *)

(* A heap_malloc that succeeds hands out blocks that were free and marks   *)
(* them.                                                                   *)
LEMMA MallocFresh ==
    ASSUME TypeOK, NEW c \in Callers, NEW size \in Nat, heap_malloc(c, size), held'[c] # NULL
    PROVE  \A i \in BlocksOf(held'[c]) : IsFree(entries, i) /\ ~IsFree(entries', i)
  <1> DEFINE n == BlocksFor(size)
             s == heap_get_start_block(entries, n)
  <1>1. n \in Nat
    BY BlocksForNat
  <1>2. s # NoBlock
    BY DEF heap_malloc, vars
  <1>3. n > 0 /\ s \in FreeRuns(entries, n)
    BY <1>1, <1>2, StartBlock
  <1>4. /\ BecomesHeap(AfterMalloc(HeapNow, s, n))
        /\ held'[c] = [start |-> s, size |-> size]
    BY <1>2 DEF heap_malloc, TypeOK
  <1>5. BlocksOf(held'[c]) = s .. s + n - 1
    BY <1>4 DEF BlocksOf
  <1>6. /\ s .. s + n - 1 \subseteq Blocks
        /\ TakenBlocks' = TakenBlocks \cup (s .. s + n - 1)
    BY <1>1, <1>3, <1>4, MallocTakes
  <1> QED BY <1>3, <1>5, <1>6 DEF FreeRuns, TakenBlocks

(* Whatever sizes are asked for and whatever the chains in the table look  *)
(* like by then, a caller that had nothing is given only blocks which      *)
(* heap_get_start_block saw free, and they are marked when it returns.     *)
THEOREM HeapFreshBlocks == Spec => FreshBlocks
  <1>1. TypeOK /\ [Next]_vars =>
            [\A c \in Callers :
                held[c] = NULL /\ held'[c] # NULL
                    => \A i \in BlocksOf(held'[c]) : IsFree(entries, i) /\ ~IsFree(entries', i)]_vars
    <2> SUFFICES ASSUME TypeOK, Next, NEW c \in Callers, held[c] = NULL, held'[c] # NULL
                 PROVE  \A i \in BlocksOf(held'[c]) : IsFree(entries, i) /\ ~IsFree(entries', i)
      OBVIOUS
    <2>1. PICK d \in Callers :
              \/ \E size \in MallocSizes : heap_malloc(d, size)
              \/ heap_free(d)
              \/ \E size \in ReallocSizes : heap_realloc(d, size)
      BY DEF Next
    <2>2. ASSUME NEW size \in MallocSizes, heap_malloc(d, size)
          PROVE  \A i \in BlocksOf(held'[c]) : IsFree(entries, i) /\ ~IsFree(entries', i)
      <3>1. c = d
        BY <2>2 DEF heap_malloc, vars, TypeOK
      <3> QED BY <2>2, <3>1, MallocFresh, HeapAssumption
    <2>3. CASE heap_free(d)
      BY <2>3 DEF heap_free, TypeOK
    <2>4. ASSUME NEW size \in ReallocSizes, heap_realloc(d, size)
          PROVE  FALSE
      <3>1. held[d] # NULL
        BY <2>4 DEF heap_realloc
      <3>2. held' = held \/ \E a \in {held'[d]} : held' = [held EXCEPT ![d] = a]
        BY <2>4 DEF heap_realloc, vars, TypeOK
      <3> QED BY <3>1, <3>2 DEF TypeOK
    <2> QED BY <2>1, <2>2, <2>3, <2>4
  <1>2. Spec => []TypeOK
    BY HeapTypes
  <1> QED BY <1>1, <1>2, PTL DEF Spec, FreshBlocks

-----------------------------------------------------------------------------
(* Who shares what, for every request and whatever the walks did.          *)

(* Made inductive: what somebody holds is marked in the table, or loose.   *)
Vouched == \A i \in HeldBlocks : IsFree(entries, i) => i \in loose

ApartInv == TypeOK /\ Vouched /\ Apart

(* The obligation of a step that gives c the allocation a: each block of a *)
(* was c's before, was counted to c by a walk, or was free in the table.   *)
(* A free block that another caller holds is loose already.                *)
LEMMA ApartStep ==
    ASSUME ApartInv, TypeOK', NEW c \in Callers, NEW a, held' = [held EXCEPT ![c] = a],
           NEW m, Remember(m),
           a # NULL => \A i \in BlocksOf(a) :
               (held[c] # NULL /\ i \in BlocksOf(held[c])) \/ i \in m \/ IsFree(entries, i)
    PROVE  ApartInv'
  <1>1. /\ held'[c] = a
        /\ \A d \in Callers \ {c} : held'[d] = held[d]
    BY DEF ApartInv, TypeOK
  <1>2. Vouched'
    BY DEF Vouched, Remember
  <1>3. ASSUME NEW i \in HeldBlocks', i \in loose \/ i \in m PROVE i \in loose'
    BY <1>3 DEF Remember
  <1>4. ASSUME NEW d \in Holders', d # c, c \in Holders',
               NEW i \in BlocksOf(held'[c]), i \in BlocksOf(held'[d])
        PROVE  i \in loose'
    <2>1. d \in Holders /\ held'[d] = held[d] /\ a # NULL
      BY <1>1, <1>4 DEF Holders
    <2>2. i \in HeldBlocks /\ i \in HeldBlocks'
      BY <1>4, <2>1 DEF HeldBlocks
    <2>3. (held[c] # NULL /\ i \in BlocksOf(held[c])) \/ i \in m \/ IsFree(entries, i)
      BY <1>1, <1>4, <2>1
    <2>4. CASE held[c] # NULL /\ i \in BlocksOf(held[c])
      <3>1. c \in Holders
        BY <2>4 DEF Holders
      <3>2. i \in loose
        BY <1>4, <2>1, <2>4, <3>1 DEF ApartInv, Apart
      <3> QED BY <1>3, <2>2, <3>2
    <2>5. CASE i \in m
      BY <1>3, <2>2, <2>5
    <2>6. CASE IsFree(entries, i)
      <3>1. i \in loose
        BY <2>2, <2>6 DEF ApartInv, Vouched
      <3> QED BY <1>3, <2>2, <3>1
    <2> QED BY <2>3, <2>4, <2>5, <2>6
  <1>5. Apart'
    <2> SUFFICES ASSUME NEW d \in Holders', NEW b \in Holders', d # b,
                        NEW i \in BlocksOf(held'[d]), i \in BlocksOf(held'[b])
                 PROVE  i \in loose'
      BY DEF Apart
    <2>1. CASE d = c
      BY <1>4, <2>1
    <2>2. CASE b = c
      BY <1>4, <2>2
    <2>3. CASE d # c /\ b # c
      <3>1. d \in Holders /\ b \in Holders /\ held'[d] = held[d] /\ held'[b] = held[b]
        BY <1>1, <2>3 DEF Holders
      <3>2. i \in loose
        BY <3>1 DEF ApartInv, Apart
      <3>3. i \in HeldBlocks'
        BY DEF HeldBlocks
      <3> QED BY <1>3, <3>2, <3>3
    <2> QED BY <2>1, <2>2, <2>3
  <1> QED BY <1>2, <1>5 DEF ApartInv

(* Nothing changes, nothing becomes shared. *)
LEMMA ApartStutter == ApartInv /\ TypeOK' /\ UNCHANGED vars => ApartInv'
  BY DEF ApartInv, Vouched, Apart, vars, HeldBlocks, Holders, BlocksOf

(* heap_malloc: the blocks of the run that was found are free. *)
LEMMA MallocApart ==
    ASSUME ApartInv, TypeOK', NEW c \in Callers, NEW size \in Nat, heap_malloc(c, size)
    PROVE  ApartInv'
  <1> DEFINE n == BlocksFor(size)
             s == heap_get_start_block(entries, n)
             a == [start |-> s, size |-> size]
  <1>1. CASE s = NoBlock
    BY <1>1, ApartStutter DEF heap_malloc
  <1>2. CASE s # NoBlock
    <2>1. s \in FreeRuns(entries, n)
      BY <1>2, BlocksForNat, StartBlock
    <2>2. \A i \in BlocksOf(a) : IsFree(entries, i)
      BY <2>1 DEF FreeRuns, BlocksOf
    <2>3. held' = [held EXCEPT ![c] = a] /\ Remember({})
      BY <1>2 DEF heap_malloc
    <2> HIDE DEF a
    <2> QED BY <2>2, <2>3, ApartStep
  <1> QED BY <1>1, <1>2

(* heap_free: the caller has nothing afterwards. *)
LEMMA FreeApart ==
    ASSUME ApartInv, TypeOK', NEW c \in Callers, heap_free(c)
    PROVE  ApartInv'
  BY ApartStep DEF heap_free

(* heap_realloc, on each of its branches: what the caller keeps is its     *)
(* own or was counted as such, what it gains was free.                     *)
LEMMA ReallocApart ==
    ASSUME ApartInv, TypeOK', NEW c \in Callers, NEW size \in ReallocSizes,
           heap_realloc(c, size)
    PROVE  ApartInv'
  <1> DEFINE s   == held[c].start
             n   == BlocksFor(size)
             cur == heap_allocation_block_count(entries, s)
             new == heap_get_start_block(entries, n)
             Keep(t) == [start |-> t, size |-> size]
             foreign == (s .. s + cur - 1) \ BlocksOf(held[c])
  <1>1. s \in Blocks /\ size \in Nat /\ held[c] # NULL
    BY HeldInTable, HeapAssumption DEF heap_realloc, ApartInv
  <1>2. n \in Nat /\ cur \in Nat /\ s \in Nat
    BY <1>1, BlocksForNat, BlockCountInTable, TableAssumption DEF Blocks
  <1>3. \A t : BlocksOf(Keep(t)) = t .. t + n - 1
    BY DEF BlocksOf
  <1>4. CASE held' = [held EXCEPT ![c] = NULL] /\ Remember({})
    BY <1>4, ApartStep
  <1>5. CASE cur >= n /\ held' = [held EXCEPT ![c] = Keep(s)] /\ Remember(foreign)
    <2>1. \A i \in BlocksOf(Keep(s)) : i \in BlocksOf(held[c]) \/ i \in foreign
      BY <1>2, <1>3, <1>5
    <2> HIDE DEF Keep, foreign
    <2> QED BY <1>1, <1>5, <2>1, ApartStep
  <1>6. CASE /\ cur < n
             /\ heap_is_block_range_free(entries, s + cur, s + n - 1)
             /\ held' = [held EXCEPT ![c] = Keep(s)] /\ Remember(foreign)
    <2>1. \A i \in BlocksOf(Keep(s)) :
              i \in BlocksOf(held[c]) \/ i \in foreign \/ IsFree(entries, i)
      BY <1>2, <1>3, <1>6 DEF heap_is_block_range_free
    <2> HIDE DEF Keep, foreign
    <2> QED BY <1>1, <1>6, <2>1, ApartStep
  <1>7. CASE new # NoBlock /\ held' = [held EXCEPT ![c] = Keep(new)] /\ Remember({})
    <2>1. new \in FreeRuns(entries, n)
      BY <1>2, <1>7, StartBlock
    <2>2. \A i \in BlocksOf(Keep(new)) : IsFree(entries, i)
      BY <1>3, <2>1 DEF FreeRuns
    <2> HIDE DEF Keep
    <2> QED BY <1>1, <1>7, <2>2, ApartStep
  <1>8. CASE UNCHANGED vars
    BY <1>8, ApartStutter
  <1> QED BY <1>2, <1>4, <1>5, <1>6, <1>7, <1>8 DEF heap_realloc

(* For every heap, any number of callers, requests of any size and any     *)
(* order of heap_malloc, heap_free and heap_realloc: two callers share a   *)
(* block only where heap_mark_blocks_free or heap_allocation_block_count   *)
(* walked past the end of an allocation.  Searching and testing never give *)
(* away a block that the table shows as taken.                             *)
THEOREM HeapApart == Spec => []Apart
  <1>1. Init => ApartInv
    <2> SUFFICES ASSUME Init PROVE ApartInv
      OBVIOUS
    <2>1. Holders = {} /\ TypeOK
      BY InitSafe DEF Init, Holders, Safe
    <2> QED BY <2>1 DEF ApartInv, Vouched, Apart, HeldBlocks
  <1>2. ApartInv /\ TypeOK' /\ [Next]_vars => ApartInv'
    <2> SUFFICES ASSUME ApartInv, TypeOK', [Next]_vars PROVE ApartInv'
      OBVIOUS
    <2>1. CASE UNCHANGED vars
      BY <2>1, ApartStutter
    <2>2. ASSUME NEW c \in Callers, NEW size \in MallocSizes, heap_malloc(c, size)
          PROVE  ApartInv'
      BY <2>2, MallocApart, HeapAssumption
    <2>3. ASSUME NEW c \in Callers, heap_free(c)
          PROVE  ApartInv'
      BY <2>3, FreeApart
    <2>4. ASSUME NEW c \in Callers, NEW size \in ReallocSizes, heap_realloc(c, size)
          PROVE  ApartInv'
      BY <2>4, ReallocApart
    <2> QED BY <2>1, <2>2, <2>3, <2>4 DEF Next
  <1>3. Spec => []TypeOK
    BY HeapTypes
  <1>4. ApartInv => Apart
    BY DEF ApartInv
  <1> QED BY <1>1, <1>2, <1>3, <1>4, PTL DEF Spec

-----------------------------------------------------------------------------
(* HeapScan: the search loop of heap_get_start_block computes the operator *)
(* that Heap and its theorems use for it, for every table and request.     *)

(* Before the first iteration there is no run. *)
LEMMA InitLoop == ScanInit => LoopInv
  BY TableAssumption, EnomemAssumption
     DEF ScanInit, LoopInv, ScanTypeOK, Run, NoEarlierRun, RunEnd, Flags, Blocks

(* A taken entry ends the current run: no run of want blocks crosses it.   *)
LEMMA ResetLoop == LoopInv /\ Reset => LoopInv'
  <1> SUFFICES ASSUME LoopInv, Reset PROVE LoopInv'
    OBVIOUS
  <1> USE TableAssumption
  <1>1. ScanTypeOK'
    BY DEF LoopInv, ScanTypeOK, Reset
  <1>2. at \in Blocks /\ RunEnd = at /\ RunEnd' = at + 1
    BY DEF LoopInv, ScanTypeOK, Reset, RunEnd, Blocks
  <1>3. Run'
    BY <1>2 DEF LoopInv, ScanTypeOK, Run, Reset
  <1>4. NoEarlierRun'
    <2>1. ASSUME NEW s \in Blocks, s \in FreeRuns(table, want), want > 0, s + want <= at + 1
          PROVE  FALSE
      <3>1. \A j \in s .. s + want - 1 : IsFree(table, j)
        BY <2>1 DEF FreeRuns
      <3>2. s + want # at + 1
        BY <2>1, <3>1, <1>2 DEF Reset, Blocks, LoopInv, ScanTypeOK
      <3>3. s + want <= RunEnd
        BY <2>1, <3>2, <1>2 DEF LoopInv, ScanTypeOK, Blocks
      <3> QED BY <2>1, <3>3 DEF LoopInv, NoEarlierRun, Reset
    <2> QED BY <1>2, <2>1 DEF NoEarlierRun, Reset, LoopInv, ScanTypeOK
  <1> QED BY <1>1, <1>3, <1>4 DEF LoopInv

(* A free entry lengthens the run; the first time it has want blocks it is *)
(* the only run of want blocks that ends there.                            *)
LEMMA ExtendLoop == LoopInv /\ Extend => LoopInv'
  <1> SUFFICES ASSUME LoopInv, Extend PROVE LoopInv'
    OBVIOUS
  <1> USE TableAssumption
  <1>0. /\ at \in Blocks /\ at \in Int /\ bc \in Nat /\ bs \in Int /\ want \in Nat
        /\ RunEnd = at
        /\ bs = -1 => bc = 0
        /\ bs # -1 => bs + bc = at /\ bc # 0
    BY DEF LoopInv, ScanTypeOK, Extend, RunEnd, Run, Blocks
  <1>1. bc' = bc + 1 /\ bs' = at - bc /\ at - bc >= 0 /\ at - bc \in Int
    BY <1>0 DEF Extend, LoopInv, ScanTypeOK
  <1>2. RunEnd' = at + 1
    BY <1>0, <1>1 DEF Extend, RunEnd, LoopInv, ScanTypeOK
  <1>3. ScanTypeOK'
    BY <1>0, <1>1 DEF LoopInv, ScanTypeOK, Extend, Blocks
  <1>4. \A j \in bs' .. at : IsFree(table, j)
    <2>1. CASE bs = -1
      BY <1>0, <2>1 DEF Extend
    <2>2. CASE bs # -1
      BY <1>0, <2>2 DEF Extend, LoopInv, Run
    <2> QED BY <2>1, <2>2
  <1>5. bs' > 0 => ~IsFree(table, bs' - 1)
    <2>1. CASE bs = -1
      BY <1>0, <2>1 DEF Extend, LoopInv, Run
    <2>2. CASE bs # -1
      BY <1>0, <2>2 DEF Extend, LoopInv, Run
    <2> QED BY <2>1, <2>2
  <1>6. table' = table /\ want' = want
    BY DEF Extend
  <1>7. Run'
    BY <1>0, <1>1, <1>2, <1>4, <1>5, <1>6 DEF Run, IsFree
  <1>8. ASSUME NEW s \in Blocks, s \in FreeRuns(table, want), want > 0, s + want <= at + 1
        PROVE  bc' = want /\ s = bs' /\ pc' # "loop"
    <2>1. s \in Int /\ \A j \in s .. s + want - 1 : IsFree(table, j)
      BY <1>8 DEF FreeRuns, Blocks
    <2>2. bc < want
      BY <1>8 DEF LoopInv, NoEarlierRun, Extend
    <2>3. s + want = at + 1
      <3>1. CASE s + want <= at
        BY <1>0, <1>8, <3>1 DEF LoopInv, NoEarlierRun, Extend
      <3> QED BY <1>0, <1>8, <2>1, <3>1
    <2>4. s >= bs'
      <3>1. SUFFICES ASSUME s < bs' PROVE FALSE
        BY <1>1, <2>1
      <3>2. bs' - 1 \in s .. s + want - 1 /\ bs' > 0
        BY <1>0, <1>1, <2>1, <2>3, <3>1 DEF Blocks
      <3> QED BY <1>5, <2>1, <3>2
    <2>5. want <= bc + 1
      BY <1>0, <1>1, <2>1, <2>3, <2>4
    <2>6. bc' = want
      BY <1>0, <1>1, <2>2, <2>5
    <2>7. s = bs'
      BY <1>0, <1>1, <2>1, <2>3, <2>6
    <2> QED BY <2>6, <2>7 DEF Extend
  <1>9. NoEarlierRun'
    <2>1. pc' = "loop" /\ want > 0 => bc' < want
      BY <1>0, <1>1 DEF Extend, LoopInv, NoEarlierRun
    <2>2. at + 1 <= Total
      BY <1>0 DEF Blocks
    <2>3. pc' # "loop" => bc' = want /\ want > 0
      BY <1>0, <1>1, <1>3 DEF Extend, LoopInv, ScanTypeOK
    <2>4. \A s \in Blocks :
              s \in FreeRuns(table, want) /\ want > 0 /\ s + want <= at + 1
                  => bc' = want /\ s = bs' /\ pc' # "loop"
      BY <1>8
    <2> QED BY <1>2, <1>6, <2>1, <2>2, <2>3, <2>4 DEF NoEarlierRun
  <1> QED BY <1>3, <1>7, <1>9 DEF LoopInv

(* The end of the table and the return leave the run as it is. *)
LEMMA EndLoop == LoopInv /\ (EndOfTable \/ Return) => LoopInv'
  <1> SUFFICES ASSUME LoopInv, EndOfTable \/ Return PROVE LoopInv'
    OBVIOUS
  <1> USE TableAssumption, EnomemAssumption
  <1>1. CASE EndOfTable
    <2>1. RunEnd' = RunEnd
      BY <1>1 DEF EndOfTable, RunEnd, LoopInv, ScanTypeOK, NoEarlierRun
    <2> QED
      BY <1>1, <2>1 DEF LoopInv, ScanTypeOK, Run, NoEarlierRun, EndOfTable
  <1>2. CASE Return
    <2>1. RunEnd' = RunEnd
      BY <1>2 DEF Return, RunEnd
    <2> QED
      BY <1>2, <2>1 DEF LoopInv, ScanTypeOK, Run, NoEarlierRun, Return
  <1> QED BY <1>1, <1>2

(* What Return computes is the operator's value. *)
Answer ==
    pc # "loop" =>
        \/ bc = want /\ bs >= 0 /\ bs = heap_get_start_block(table, want)
        \/ (bc # want \/ bs < 0) /\ heap_get_start_block(table, want) = NoBlock

(* What the loop invariant says of the result. *)
LEMMA LoopAnswer == LoopInv => Answer
  <1> SUFFICES ASSUME LoopInv, pc # "loop" PROVE
        \/ bc = want /\ bs >= 0 /\ bs = heap_get_start_block(table, want)
        \/ (bc # want \/ bs < 0) /\ heap_get_start_block(table, want) = NoBlock
    BY DEF Answer
  <1> USE TableAssumption
  <1>1. CASE want = 0
    BY <1>1 DEF heap_get_start_block, LoopInv, ScanTypeOK, Run
  <1>2. CASE want # 0 /\ bc = want
    <2>1. bs # -1 /\ bs \in Blocks /\ bs + want = RunEnd /\ RunEnd = at + 1 /\ RunEnd <= Total
      BY <1>2 DEF LoopInv, ScanTypeOK, Run, RunEnd, NoEarlierRun, Blocks
    <2>2. bs \in FreeRuns(table, want)
      BY <1>2, <2>1 DEF LoopInv, Run, FreeRuns, ScanTypeOK
    <2>3. ASSUME NEW t \in FreeRuns(table, want) PROVE bs <= t
      <3>1. t \in Blocks /\ t \in Int
        BY DEF FreeRuns, Blocks
      <3>2. CASE t + want <= RunEnd
        BY <1>2, <3>1, <3>2, <2>3, <2>1 DEF LoopInv, NoEarlierRun, ScanTypeOK, Blocks
      <3>3. CASE ~(t + want <= RunEnd)
        BY <1>2, <3>1, <3>3, <2>1 DEF LoopInv, ScanTypeOK, Blocks
      <3> QED BY <3>2, <3>3
    <2>4. \A s \in FreeRuns(table, want) :
             (\A t \in FreeRuns(table, want) : s <= t) => s = bs
      <3> SUFFICES ASSUME NEW s \in FreeRuns(table, want),
                          \A t \in FreeRuns(table, want) : s <= t
                   PROVE  s = bs
        OBVIOUS
      <3>1. s <= bs /\ bs <= s
        BY <2>2, <2>3
      <3>2. s \in Int /\ bs \in Int
        BY <2>1 DEF FreeRuns, Blocks
      <3> QED BY <3>1, <3>2
    <2>5. heap_get_start_block(table, want) = bs
      BY <1>2, <2>2, <2>3, <2>4 DEF heap_get_start_block
    <2> QED BY <1>2, <2>1, <2>5 DEF Blocks
  <1>3. CASE want # 0 /\ bc # want
    <2>1. RunEnd = Total
      BY <1>3 DEF LoopInv, ScanTypeOK, RunEnd, NoEarlierRun
    <2>2. ASSUME NEW s \in FreeRuns(table, want) PROVE FALSE
      BY <1>3, <2>1, <2>2 DEF FreeRuns, LoopInv, NoEarlierRun, ScanTypeOK
    <2> QED BY <1>3, <2>2 DEF heap_get_start_block
  <1> QED BY <1>1, <1>2, <1>3

(* For every table and every request, the loop of heap_get_start_block     *)
(* returns the lowest sufficient run, or an error if there is none.        *)
THEOREM ScanIsFirstFit == ScanSpec => []FirstFit
  <1> DEFINE Inv == LoopInv /\ FirstFit
  <1>1. ScanInit => Inv
    BY InitLoop DEF ScanInit, FirstFit
  <1>2. Inv /\ [ScanNext]_scan_vars => Inv'
    <2> SUFFICES ASSUME LoopInv, FirstFit, [ScanNext]_scan_vars PROVE LoopInv' /\ FirstFit'
      OBVIOUS
    <2>1. CASE UNCHANGED scan_vars
      <3>1. LoopInv'
        BY <2>1 DEF scan_vars, LoopInv, ScanTypeOK, Run, NoEarlierRun, RunEnd
      <3>2. FirstFit'
        BY <2>1 DEF scan_vars, FirstFit
      <3> QED BY <3>1, <3>2
    <2>2. CASE Reset
      BY <2>2, ResetLoop DEF Reset, FirstFit
    <2>3. CASE Extend
      BY <2>3, ExtendLoop DEF Extend, FirstFit
    <2>4. CASE EndOfTable
      BY <2>4, EndLoop DEF EndOfTable, FirstFit
    <2>5. CASE Return
      <3>1. LoopInv'
        BY <2>5, EndLoop
      <3>2. \/ bc = want /\ bs >= 0 /\ bs = heap_get_start_block(table, want)
            \/ (bc # want \/ bs < 0) /\ heap_get_start_block(table, want) = NoBlock
        BY <2>5, LoopAnswer DEF Answer, Return
      <3>3. /\ result' = IF bc # want THEN -ENOMEM ELSE bs
            /\ table' = table /\ want' = want
        BY <2>5 DEF Return
      <3>4. -ENOMEM < 0 /\ bs \in Int
        BY EnomemAssumption DEF LoopInv, ScanTypeOK
      <3>5. FirstFit'
        BY <3>2, <3>3, <3>4 DEF FirstFit
      <3> QED BY <3>1, <3>5
    <2> QED BY <2>1, <2>2, <2>3, <2>4, <2>5 DEF ScanNext
  <1> QED BY <1>1, <1>2, PTL DEF ScanSpec

-----------------------------------------------------------------------------
(* Vector: its counters, for every reserve, bound and element.             *)

(* The two counters are numbers, and the first does not pass the second.   *)
Counters ==
    /\ t_elems \in Nat
    /\ tm_elems \in Nat
    /\ Capacity

(* vector_push leaves room for the element it adds: either there was more  *)
(* room than that already, or vector_resize asks for one cell more and for *)
(* the reserve.                                                            *)
LEMMA PushKeepsCounters ==
    ASSUME Counters, NEW x \in Values, vector_push(x)
    PROVE  Counters'
  <1>1. t_elems' = t_elems + 1
    BY DEF vector_push
  <1>2. CASE RoomFor(1)
    <2>1. tm_elems' = tm_elems
      BY <1>2 DEF vector_push
    <2> QED
      BY <1>1, <1>2, <2>1 DEF Counters, Capacity, RoomFor
  <1>3. CASE ~RoomFor(1)
    <2>1. tm_elems' = Reserved + t_elems + 1
      BY <1>3 DEF vector_push, CellsFor
    <2> QED
      BY <1>1, <2>1, VectorAssumption DEF Counters, Capacity
  <1> QED
    BY <1>2, <1>3

(* The calls that remove an element keep the capacity.                     *)
LEMMA RemovalKeepsCounters ==
    ASSUME Counters,
           vector_pop \/ \E x \in Values : vector_pop_element(x)
    PROVE  Counters'
  <1>1. tm_elems' = tm_elems
    BY DEF vector_pop, vector_pop_element
  <1>2. CASE t_elems' = t_elems
    BY <1>1, <1>2 DEF Counters, Capacity
  <1>3. CASE t_elems' # t_elems
    <2>1. t_elems' = t_elems - 1 /\ t_elems # 0
      <3>1. CASE vector_pop
        BY <1>3, <3>1 DEF vector_pop
      <3>2. CASE \E x \in Values : vector_pop_element(x)
        <4>1. PICK x \in Values : vector_pop_element(x)
          BY <3>2
        <4>2. x \in ToSet(Contents) /\ t_elems' = t_elems - 1
          BY <1>3, <4>1 DEF vector_pop_element
        <4>3. Contents = [i \in 1 .. t_elems |-> memory[i - 1]]
          BY DEF Contents
        <4>4. PICK i \in DOMAIN Contents : Contents[i] = x
          BY <4>2 DEF ToSet
        <4>5. i \in 1 .. t_elems
          BY <4>3, <4>4
        <4> QED
          BY <4>2, <4>5 DEF Counters
      <3> QED
        BY <3>1, <3>2
    <2> QED
      BY <1>1, <2>1 DEF Counters, Capacity
  <1> QED
    BY <1>2, <1>3

(* vector_push, vector_pop and vector_pop_element are the only calls that  *)
(* move the counters; a failed vector_resize leaves both alone.  So an     *)
(* element never lies beyond the capacity that vector_resize recorded.     *)
THEOREM VectorCapacity == VectorSpec => []Capacity
  <1>1. VectorInit => Counters
    BY DEF VectorInit, Counters, Capacity
  <1>2. Counters /\ [VectorNext]_vector_vars => Counters'
    <2> SUFFICES ASSUME Counters, [VectorNext]_vector_vars PROVE Counters'
      OBVIOUS
    <2>1. CASE \E x \in Values : vector_push(x)
      BY <2>1, PushKeepsCounters
    <2>2. CASE vector_pop \/ \E x \in Values : vector_pop_element(x)
      BY <2>2, RemovalKeepsCounters
    <2>3. CASE UNCHANGED <<t_elems, tm_elems>>
      BY <2>3 DEF Counters, Capacity
    <2>4. CASE VectorPushFails \/ VectorPopElementFails \/ vector_reorder
      BY <2>3, <2>4 DEF VectorPushFails, VectorPopElementFails, vector_reorder
    <2>5. CASE vector_back \/ \E i \in -1 .. MaxElems :
                   vector_at(i) \/ \E x \in Values : vector_overwrite(i, x)
      BY <2>3, <2>5 DEF vector_back, vector_at, vector_overwrite
    <2>6. CASE UNCHANGED vector_vars
      BY <2>3, <2>6 DEF vector_vars
    <2> QED
      BY <2>1, <2>2, <2>4, <2>5, <2>6 DEF VectorNext
  <1>3. Counters => Capacity
    BY DEF Counters
  <1> QED
    BY <1>1, <1>2, <1>3, PTL DEF VectorSpec
=============================================================================
