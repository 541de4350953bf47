--------------------------- MODULE MultiHeapProofs ---------------------------
(***************************************************************************)
(* What the operators of MultiHeap and Paging do, for every memory map and *)
(* every page size: which frames an allocation takes, that it takes none   *)
(* twice, and where the heaps lie.  ProcessProofs builds on these lemmas.  *)
(***************************************************************************)
EXTENDS MultiHeap, FiniteSetTheorems, SequenceTheorems, WellFoundedInduction, TLAPS

-----------------------------------------------------------------------------
(* Numbers.                                                                *)

(* A nonempty set of naturals has a least element. *)
LEMMA LeastNatural ==
    ASSUME NEW T, T \subseteq Nat, T # {}
    PROVE  \E x \in T : \A y \in T : x <= y
  <1>1. PICK x \in T : \A y \in T : ~(<<y, x>> \in OpToRel(<, Nat))
    BY WFMin, NatLessThanWellFounded
  <1>2. \A y \in T : ~(y < x)
    BY <1>1 DEF OpToRel
  <1> QED BY <1>2

(* Min is the least element of a nonempty set of naturals. *)
LEMMA MinNatural ==
    ASSUME NEW T, T \subseteq Nat, T # {}
    PROVE  Min(T) \in T /\ \A y \in T : Min(T) <= y
  BY LeastNatural DEF Min

(* The pages for a number of bytes: none for none. *)
LEMMA BlocksForBytes ==
    ASSUME NEW size \in Nat
    PROVE  /\ BlocksFor(size) \in Nat
           /\ size = 0 => BlocksFor(size) = 0
           /\ size # 0 => BlocksFor(size) > 0
           /\ size <= BlocksFor(size) * PageSize
  BY PagingAssumption DEF BlocksFor, UpperPage

(* A whole number of pages takes as many pages. *)
LEMMA BlocksForPages ==
    ASSUME NEW n \in Nat
    PROVE  n * PageSize \in Nat /\ BlocksFor(n * PageSize) = n
  BY PagingAssumption DEF BlocksFor, UpperPage

-----------------------------------------------------------------------------
(* One heap.                                                               *)

BlockFlags == {"HEAP_BLOCK_TABLE_ENTRY_TAKEN", "HEAP_BLOCK_HAS_NEXT", "HEAP_BLOCK_IS_FIRST"}

(* The heaps of t blocks from page s on. *)
HeapsAt(s, t) ==
    [saddr : {s}, total : {t}, entries : [0 .. t + Slack - 1 -> SUBSET BlockFlags],
     used : Int, free : Int]

Marked(h, i) == "HEAP_BLOCK_TABLE_ENTRY_TAKEN" \in h.entries[i]
Chained(h, i) == "HEAP_BLOCK_HAS_NEXT" \in h.entries[i]

(* The frames of a heap that are marked taken. *)
LEMMA InTaken ==
    ASSUME NEW h, NEW f
    PROVE  f \in Taken(h) <=> f \in PagesIn(h) /\ Marked(h, f - h.saddr)
  BY DEF Taken, H!IsFree, H!TAKEN, Marked

(* The pages of a heap are the run from its start on. *)
LEMMA PagesAt ==
    ASSUME NEW s \in Nat, NEW t \in Nat, NEW h \in HeapsAt(s, t)
    PROVE  h.saddr = s /\ h.total = t /\ PagesIn(h) = s .. s + t - 1
  <1>1. h.saddr = s /\ h.total = t
    BY DEF HeapsAt
  <1> QED BY <1>1 DEF PagesIn, Eaddr

(* The counters stay numbers. *)
LEMMA WrapInt ==
    ASSUME NEW t, NEW x \in Int
    PROVE  H(t)!Wrap(x) \in Int
  BY MultiHeapAssumption DEF H!Wrap

(* A start block begins a free run of the length asked for. *)
LEMMA FreeRunFound ==
    ASSUME NEW t \in Nat, NEW e, NEW n \in Nat, H(t)!heap_get_start_block(e, n) # -1
    PROVE  /\ n > 0
           /\ H(t)!heap_get_start_block(e, n) \in Nat
           /\ H(t)!heap_get_start_block(e, n) + n <= t
           /\ \A i \in H(t)!heap_get_start_block(e, n) .. H(t)!heap_get_start_block(e, n) + n - 1 :
                 "HEAP_BLOCK_TABLE_ENTRY_TAKEN" \notin e[i]
  <1> DEFINE R == H(t)!FreeRuns(e, n)
  <1>1. n # 0 /\ R # {}
    BY DEF H!heap_get_start_block, H!NoBlock
  <1>2. R \subseteq Nat
    BY DEF H!FreeRuns, H!Blocks
  <1>3. \E s \in R : \A y \in R : s <= y
    BY <1>1, <1>2, LeastNatural
  <1>4. H(t)!heap_get_start_block(e, n) \in R
    BY <1>1, <1>3 DEF H!heap_get_start_block
  <1> QED BY <1>1, <1>2, <1>4 DEF H!FreeRuns, H!IsFree, H!TAKEN

(* What heap_malloc makes of heap h when it is asked for n blocks. *)
Malloced(r, h, s, t, n) ==
    /\ r.heap \in HeapsAt(s, t)
    /\ r.ptr = NULL => r.heap = h
    /\ r.ptr # NULL =>
          /\ n \in Nat /\ n > 0
          /\ r.ptr \in Nat /\ s <= r.ptr /\ r.ptr + n <= s + t
          /\ \A f \in r.ptr .. r.ptr + n - 1 : f \notin Taken(h)
          /\ Taken(r.heap) = Taken(h) \cup (r.ptr .. r.ptr + n - 1)
          /\ r.heap.free = H(t)!Wrap(h.free - n)
          /\ \A i \in 0 .. t + Slack - 1 :
                i \notin r.ptr - s .. r.ptr - s + n - 1 => r.heap.entries[i] = h.entries[i]
          /\ \A i \in r.ptr - s .. r.ptr - s + n - 2 : Chained(r.heap, i)

(* heap_malloc: it takes a run of blocks that were free, in one heap, and  *)
(* marks them as a chain; or it fails and leaves the heap alone.           *)
LEMMA HeapMalloc ==
    ASSUME NEW s \in Nat \ {0}, NEW t \in Nat, NEW h \in HeapsAt(s, t), NEW size \in Nat,
           NEW r, r = heap_malloc(h, size), NEW n, n = BlocksFor(size)
    PROVE  /\ Malloced(r, h, s, t, n)
           /\ r.ptr = NULL <=> H(t)!heap_get_start_block(h.entries, n) = -1
  <1> DEFINE b == H(t)!heap_get_start_block(h.entries, n)
             g == H(t)!AfterMalloc(h, b, n)
  <1>0. /\ h.saddr = s /\ h.total = t /\ h.entries \in [0 .. t + Slack - 1 -> SUBSET BlockFlags]
        /\ h.used \in Int /\ h.free \in Int
        /\ n \in Nat /\ Slack \in Nat /\ Word \in Nat
    BY BlocksForBytes, MultiHeapAssumption DEF HeapsAt
  <1>1. CASE b = -1
    <2>1. r = [heap |-> h, ptr |-> NULL]
      BY <1>0, <1>1 DEF heap_malloc, H!NoBlock
    <2> QED BY <2>1, <1>1 DEF Malloced
  <1>2. CASE b # -1
    <2>1. r = [heap |-> With(h, g), ptr |-> s + b]
      BY <1>0, <1>2 DEF heap_malloc, H!NoBlock
    <2>2. /\ n > 0 /\ b \in Nat /\ b + n <= t
          /\ \A i \in b .. b + n - 1 : "HEAP_BLOCK_TABLE_ENTRY_TAKEN" \notin h.entries[i]
      BY <1>0, <1>2, FreeRunFound
    <2>3. /\ g.entries = H(t)!heap_mark_blocks_taken(h.entries, b, n)
          /\ g.used = H(t)!Wrap(h.used + n) /\ g.free = H(t)!Wrap(h.free - n)
      BY DEF H!AfterMalloc
    <2> HIDE DEF b, g
    <2>4. g.used \in Int /\ g.free \in Int
      <3>1. h.used + n \in Int /\ h.free - n \in Int
        BY <1>0
      <3> QED BY <2>3, <3>1, WrapInt
    <2>5. /\ g.entries \in [0 .. t + Slack - 1 -> SUBSET BlockFlags]
          /\ \A i \in 0 .. t + Slack - 1 : i \notin b .. b + n - 1 => g.entries[i] = h.entries[i]
          /\ \A i \in b .. b + n - 1 : "HEAP_BLOCK_TABLE_ENTRY_TAKEN" \in g.entries[i]
          /\ \A i \in b .. b + n - 2 : "HEAP_BLOCK_HAS_NEXT" \in g.entries[i]
      <3>1. g.entries = [i \in 0 .. t + Slack - 1 |->
                IF i = b THEN {"HEAP_BLOCK_TABLE_ENTRY_TAKEN", "HEAP_BLOCK_IS_FIRST"}
                                  \cup (IF n > 1 THEN {"HEAP_BLOCK_HAS_NEXT"} ELSE {})
                ELSE IF i \in b + 1 .. b + n - 1
                     THEN {"HEAP_BLOCK_TABLE_ENTRY_TAKEN", "HEAP_BLOCK_HAS_NEXT"}
                     ELSE h.entries[i]]
        BY <1>0, <2>3 DEF H!heap_mark_blocks_taken, H!TAKEN, H!HAS_NEXT, H!IS_FIRST
      <3>2. b \in Nat /\ n \in Nat /\ n > 0 /\ b + n <= t /\ Slack \in Nat
        BY <1>0, <2>2
      <3>3. g.entries \in [0 .. t + Slack - 1 -> SUBSET BlockFlags]
        BY <1>0, <3>1 DEF BlockFlags
      <3>4. \A i \in 0 .. t + Slack - 1 : i \notin b .. b + n - 1 => g.entries[i] = h.entries[i]
        BY <3>1, <3>2
      <3>5. \A i \in b .. b + n - 1 : "HEAP_BLOCK_TABLE_ENTRY_TAKEN" \in g.entries[i]
        BY <3>1, <3>2
      <3>6. \A i \in b .. b + n - 2 : "HEAP_BLOCK_HAS_NEXT" \in g.entries[i]
        BY <3>1, <3>2
      <3> QED BY <3>3, <3>4, <3>5, <3>6
    <2>6. /\ r.heap \in HeapsAt(s, t) /\ r.heap.entries = g.entries /\ r.heap.free = g.free
          /\ r.heap.saddr = s /\ r.heap.total = t /\ r.ptr = s + b
      <3> DEFINE w == With(h, g)
      <3>1. w \in HeapsAt(s, t) /\ w.entries = g.entries /\ w.free = g.free
        BY <1>0, <2>4, <2>5 DEF With, HeapsAt
      <3>2. w.saddr = s /\ w.total = t
        BY <3>1 DEF HeapsAt
      <3> QED BY <2>1, <3>1, <3>2
    <2>7. r.ptr \in Nat /\ r.ptr # NULL /\ s <= r.ptr /\ r.ptr + n <= s + t /\ r.ptr - s = b
      <3>1. r.ptr = s + b
        BY <2>6
      <3>2. b \in Nat /\ n \in Nat /\ b + n <= t
        BY <1>0, <2>2
      <3>3. NULL = 0
        BY DEF NULL
      <3> QED BY <3>1, <3>2, <3>3
    <2>8. \A f \in r.ptr .. r.ptr + n - 1 : f \notin Taken(h)
      <3> SUFFICES ASSUME NEW f \in r.ptr .. r.ptr + n - 1 PROVE ~Marked(h, f - h.saddr)
        BY InTaken
      <3>1. f - h.saddr \in b .. b + n - 1
        BY <1>0, <2>2, <2>6
      <3> QED BY <2>2, <3>1 DEF Marked
    <2>9. Taken(r.heap) = Taken(h) \cup (r.ptr .. r.ptr + n - 1)
      <3>1. ASSUME NEW f \in s .. s + t - 1
            PROVE  Marked(r.heap, f - s) <=> Marked(h, f - s) \/ f \in r.ptr .. r.ptr + n - 1
        <4>1. f - s \in 0 .. t + Slack - 1 /\ (f \in r.ptr .. r.ptr + n - 1 <=> f - s \in b .. b + n - 1)
          BY <1>0, <2>2, <2>6, SMTT(30)
        <4> QED BY <2>5, <2>6, <4>1 DEF Marked
      <3>2. PagesIn(h) = s .. s + t - 1 /\ PagesIn(r.heap) = s .. s + t - 1
        BY <1>0, <2>6 DEF PagesIn, Eaddr
      <3>3. r.ptr .. r.ptr + n - 1 \subseteq s .. s + t - 1
        BY <1>0, <2>7
      <3>4. \A f : f \in Taken(r.heap) <=> f \in Taken(h) \/ f \in r.ptr .. r.ptr + n - 1
        BY <1>0, <2>6, <3>1, <3>2, <3>3, InTaken
      <3> QED BY <3>4
    <2>10. \A i \in r.ptr - s .. r.ptr - s + n - 2 : Chained(r.heap, i)
      BY <2>5, <2>6, <2>7 DEF Chained
    <2>11. r.ptr # NULL /\ b # -1
      BY <1>2, <2>7
    <2> QED BY <1>0, <2>2, <2>3, <2>5, <2>6, <2>7, <2>8, <2>9, <2>10, <2>11 DEF b, Malloced
  <1> QED BY <1>1, <1>2

(* A block that has a next one is taken. *)
ChainsTaken(h, t) == \A i \in 0 .. t - 1 : Chained(h, i) => Marked(h, i)

(* heap_malloc keeps that. *)
LEMMA MallocChains ==
    ASSUME NEW s \in Nat \ {0}, NEW t \in Nat, NEW h \in HeapsAt(s, t), NEW size \in Nat,
           ChainsTaken(h, t)
    PROVE  ChainsTaken(heap_malloc(h, size).heap, t)
  <1> DEFINE r == heap_malloc(h, size)
             n == BlocksFor(size)
             q == r.heap
             p == r.ptr
  <1>0. Malloced(r, h, s, t, n)
    BY HeapMalloc
  <1>1. /\ q \in HeapsAt(s, t)
        /\ p = NULL => q = h
        /\ p # NULL =>
              /\ n \in Nat /\ n > 0
              /\ p \in Nat /\ s <= p /\ p + n <= s + t
              /\ \A f \in p .. p + n - 1 : f \notin Taken(h)
              /\ Taken(q) = Taken(h) \cup (p .. p + n - 1)
              /\ q.free = H(t)!Wrap(h.free - n)
              /\ \A i \in 0 .. t + Slack - 1 :
                    i \notin p - s .. p - s + n - 1 => q.entries[i] = h.entries[i]
    BY <1>0 DEF Malloced
  <1> HIDE DEF r, n, q, p
  <1>2. CASE p = NULL
    BY <1>1, <1>2 DEF q, r
  <1>3. CASE p # NULL
    <2>2. ASSUME NEW i \in 0 .. t - 1, Chained(q, i) PROVE Marked(q, i)
      <3>1. CASE i \in p - s .. p - s + n - 1
        <4>1. s + i \in Taken(q)
          <5>1. s + i \in p .. p + n - 1
            BY <1>1, <1>3, <3>1
          <5> QED BY <1>1, <1>3, <5>1
        <4>2. q.saddr = s /\ (s + i) - s = i
          BY <1>1, PagesAt
        <4> QED BY <4>1, <4>2, InTaken
      <3>2. CASE i \notin p - s .. p - s + n - 1
        <4>1. i \in 0 .. t + Slack - 1
          BY MultiHeapAssumption
        <4>2. q.entries[i] = h.entries[i]
          BY <1>1, <1>3, <3>2, <4>1
        <4> QED BY <2>2, <4>2 DEF ChainsTaken, Chained, Marked
      <3> QED BY <3>1, <3>2
    <2> QED BY <2>2 DEF ChainsTaken, q, r
  <1> QED BY <1>2, <1>3

-----------------------------------------------------------------------------
(* The heaps of the multiheap: the minimal heap is the only one, whatever  *)
(* the memory map.                                                         *)

Map == <<MinimalHeap({})>>
Heaps == DOMAIN Map
S(k) == Map[k].saddr
N(k) == Map[k].total

(* It lies in a usable region, and not at address 0. *)
Layout ==
    /\ Heaps = {1}
    /\ \A k \in Heaps :
          /\ S(k) \in Nat \ {0} /\ N(k) \in Nat
          /\ Word > 2 * (N(k) + Slack)
          /\ \A v \in S(k) .. S(k) + N(k) - 1 : \E i \in DOMAIN Regions : v \in RegionPages(Regions[i])

(* A multiheap over this layout. *)
MultiHeapOK(mh) ==
    /\ mh = [k \in Heaps |-> mh[k]]
    /\ \A k \in Heaps : mh[k] \in HeapsAt(S(k), N(k))

(* Max is the greatest element of a nonempty, bounded set of naturals. *)
LEMMA MaxNatural ==
    ASSUME NEW T, T \subseteq Nat, T # {}, NEW b \in Nat, \A x \in T : x <= b
    PROVE  Max(T) \in T /\ \A y \in T : y <= Max(T)
  <1> DEFINE D == {x \in Nat : b - x \in T}
  <1>1. D # {} /\ D \subseteq Nat
    <2>1. PICK x \in T : TRUE
      OBVIOUS
    <2>2. b - x \in Nat /\ b - (b - x) = x
      BY <2>1
    <2> QED BY <2>1, <2>2
  <1>2. PICK d \in D : \A e \in D : d <= e
    BY <1>1, LeastNatural
  <1>3. b - d \in T /\ d \in Nat
    BY <1>2
  <1>4. \A y \in T : b - d >= y
    <2> SUFFICES ASSUME NEW y \in T PROVE b - d >= y
      OBVIOUS
    <2>1. y \in Nat /\ y <= b /\ b - y \in Nat /\ b - (b - y) = y
      OBVIOUS
    <2>2. b - y \in D
      BY <2>1
    <2>3. d <= b - y
      BY <1>2, <2>2
    <2> QED BY <1>3, <2>1, <2>3
  <1>5. \E x \in T : \A y \in T : x >= y
    BY <1>3, <1>4
  <1>6. Max(T) \in T /\ \A y \in T : Max(T) >= y
    BY <1>5 DEF Max
  <1> QED BY <1>6

(* Whole pages, in bytes. *)
LEMMA TimesOrdered ==
    ASSUME NEW x \in Int, NEW y \in Int, x <= y
    PROVE  x * PageSize <= y * PageSize
  BY PagingAssumption

(* Integer division by the page size rounds down by less than a page. *)
LEMMA DivBytes ==
    ASSUME NEW a \in Nat
    PROVE  /\ a \div PageSize \in Nat
           /\ (a \div PageSize) * PageSize <= a /\ a < (a \div PageSize) * PageSize + PageSize
  BY PagingAssumption

(* Dividing keeps the order. *)
LEMMA DivOrdered ==
    ASSUME NEW a \in Nat, NEW b \in Nat, a <= b
    PROVE  a \div PageSize <= b \div PageSize
  <1> DEFINE x == a \div PageSize
             y == b \div PageSize
  <1>1. /\ x \in Nat /\ x * PageSize <= a /\ y \in Nat /\ b < y * PageSize + PageSize
        /\ PageSize \in Nat
    BY DivBytes, PagingAssumption
  <1> HIDE DEF x, y
  <1> SUFFICES ASSUME y + 1 <= x PROVE FALSE
    BY <1>1 DEF x, y
  <1>2. (y + 1) * PageSize <= x * PageSize
    BY <1>1, TimesOrdered
  <1>3. (y + 1) * PageSize = y * PageSize + PageSize
    BY <1>1
  <1> QED BY <1>1, <1>2, <1>3

(* Rounding addresses down and up to pages keeps their order. *)
LEMMA PagesOrdered ==
    ASSUME NEW a \in Nat, NEW b \in Nat, a <= b
    PROVE  /\ LowerPage(a) \in Nat /\ UpperPage(a) \in Nat
           /\ LowerPage(a) <= LowerPage(b) /\ UpperPage(a) <= UpperPage(b)
           /\ LowerPage(a) <= UpperPage(b)
  <1>1. PageSize \in Nat /\ PageSize >= 1
    BY PagingAssumption
  <1>2. a + PageSize - 1 \in Nat /\ b + PageSize - 1 \in Nat /\ a <= b + PageSize - 1
    BY <1>1
  <1>3. a + PageSize - 1 <= b + PageSize - 1
    BY <1>1
  <1> QED BY <1>2, <1>3, DivBytes, DivOrdered DEF LowerPage, UpperPage

(* Rounding to a page does not reach NULL from an address a heap may start *)
(* at.                                                                     *)
LEMMA PagesNotZero ==
    ASSUME NEW a \in Nat
    PROVE  /\ a # 0 => UpperPage(a) # 0
           /\ a >= PageSize => LowerPage(a) # 0
  <1>1. PageSize \in Nat /\ PageSize >= 1
    BY PagingAssumption
  <1> DEFINE x == UpperPage(a)
             y == LowerPage(a)
             c == a + PageSize - 1
  <1>2. c \in Nat /\ c \div PageSize = x
    BY <1>1 DEF UpperPage
  <1>3. c < x * PageSize + PageSize /\ a < y * PageSize + PageSize
    BY <1>2, DivBytes DEF LowerPage
  <1> HIDE DEF x, y
  <1> QED BY <1>1, <1>3 DEF x, y

-----------------------------------------------------------------------------
(* kheap_init.                                                             *)

(* The usable regions, as numbers. *)
LEMMA RegionNumbers ==
    /\ DOMAIN Regions \subseteq Nat /\ IsFiniteSet(DOMAIN Regions)
    /\ \A i \in DOMAIN Regions : Regions[i].base \in Nat /\ Regions[i].end \in Nat
  <1>1. /\ Regions \in Seq([base : Nat, end : Nat])
        /\ DOMAIN Regions = 1 .. Len(Regions) /\ Len(Regions) \in Nat
    BY PagingAssumption
  <1>2. IsFiniteSet(1 .. Len(Regions))
    BY <1>1, FS_Interval
  <1>3. ASSUME NEW i \in DOMAIN Regions PROVE Regions[i].base \in Nat /\ Regions[i].end \in Nat
    <2> DEFINE R == [base : Nat, end : Nat]
    <2>0. Regions \in Seq(R) /\ i \in 1 .. Len(Regions)
      BY <1>1
    <2> HIDE DEF R
    <2>a. Regions[i] \in R
      BY <2>0, ElementOfSeq
    <2>1. Regions[i] \in [base : Nat, end : Nat]
      BY <2>a DEF R
    <2> QED BY <2>1
  <1> QED BY <1>1, <1>2, <1>3

(* heap_create makes an empty heap. *)
LEMMA Created ==
    ASSUME NEW a \in Nat, NEW b \in Nat, a <= b, NEW past \in SUBSET BlockFlags,
           NEW h, h = heap_create(a, b, past)
    PROVE  /\ h \in HeapsAt(a, b - a) /\ h.saddr = a /\ h.total = b - a
           /\ Taken(h) = {} /\ h.free = b - a
           /\ \A i \in 0 .. (b - a) - 1 : h.entries[i] = {}
  <1>1. /\ h.saddr = a /\ h.total = b - a /\ h.used = 0 /\ h.free = b - a
        /\ h.entries = [i \in 0 .. b - a + Slack - 1 |-> IF i < b - a THEN {} ELSE past]
    BY DEF heap_create
  <1>2. h.entries \in [0 .. (b - a) + Slack - 1 -> SUBSET BlockFlags]
    BY <1>1, MultiHeapAssumption
  <1>3. h \in HeapsAt(a, b - a)
    <2>1. h = [saddr |-> h.saddr, total |-> h.total, entries |-> h.entries, used |-> h.used, free |-> h.free]
      BY DEF heap_create
    <2> QED BY <1>1, <1>2, <2>1 DEF HeapsAt
  <1>4. ASSUME NEW f \in PagesIn(h) PROVE ~Marked(h, f - h.saddr)
    <2>1. f \in a .. b - 1
      BY <1>1, <1>4 DEF PagesIn, Eaddr
    <2>2. f - a \in 0 .. b - a + Slack - 1 /\ f - a < b - a
      BY <2>1, MultiHeapAssumption
    <2>3. h.entries[f - a] = {}
      BY <1>1, <2>2
    <2> QED BY <1>1, <2>3 DEF Marked
  <1>5. Taken(h) = {}
    BY <1>4, InTaken
  <1>6. \A i \in 0 .. (b - a) - 1 : h.entries[i] = {}
    BY <1>1, MultiHeapAssumption
  <1> QED BY <1>1, <1>3, <1>5, <1>6

(* The region of the minimal heap. *)
LEMMA MinimalRegionFound ==
    /\ MinimalRegion \in DOMAIN Regions
    /\ Regions[MinimalRegion].base <= Regions[MinimalRegion].end
  <1> DEFINE T == {i \in DOMAIN Regions : Regions[i].end - Regions[i].base > MinimumBytes}
  <1>1. T \subseteq Nat /\ T # {}
    BY RegionNumbers, MultiHeapAssumption
  <1>2. MinimalRegion \in T
    BY <1>1, MinNatural DEF MinimalRegion
  <1>3. MinimalRegion \in DOMAIN Regions
    BY <1>2
  <1>4. /\ Regions[MinimalRegion].end - Regions[MinimalRegion].base > MinimumBytes
        /\ MinimumBytes \in Nat
    BY <1>2, MultiHeapAssumption
  <1> QED BY <1>3, <1>4, RegionNumbers

(* The minimal heap lies behind its table, in its region. *)
LEMMA MinimalHeapPlaced ==
    \E a \in Nat \ {0} :
        /\ UpperPage(Regions[MinimalRegion].base) <= a
        /\ a <= LowerPage(Regions[MinimalRegion].end)
        /\ \A past : MinimalHeap(past) = heap_create(a, LowerPage(Regions[MinimalRegion].end), past)
  <1> DEFINE r      == Regions[MinimalRegion]
             table  == IF r.base < TableAddress THEN TableAddress ELSE r.base
             bytes  == r.end - table
             quot   == bytes \div PageSize
             blocks == (bytes - quot) \div PageSize
             a      == UpperPage(table + blocks)
             e      == LowerPage(r.end)
  <1>1. /\ r.base \in Nat /\ r.end \in Nat /\ r.base <= r.end /\ TableAddress <= r.end
        /\ TableAddress \in Nat \ {0} /\ PageSize \in Nat /\ PageSize >= 1
    BY RegionNumbers, MinimalRegionFound, MultiHeapAssumption, PagingAssumption
  <1>2. \A past : MinimalHeap(past) = heap_create(a, e, past)
    BY DEF MinimalHeap
  <1>3. MinimalHeap({}).total = e - a
    BY <1>2 DEF heap_create
  <1> HIDE DEF r
  <1>4. table \in Nat /\ table # 0 /\ r.base <= table /\ table <= r.end /\ bytes \in Nat
    BY <1>1
  <1> HIDE DEF table
  <1>5. quot \in Nat /\ quot * PageSize <= bytes
    BY <1>4, DivBytes
  <1> HIDE DEF bytes, quot
  <1>6. quot <= quot * PageSize
    BY <1>1, <1>5
  <1>7. bytes - quot \in Nat
    BY <1>1, <1>4, <1>5, <1>6
  <1>8. blocks \in Nat
    BY <1>7, DivBytes
  <1> HIDE DEF blocks
  <1>9. table + blocks \in Nat /\ table + blocks # 0 /\ r.base <= table + blocks
    BY <1>1, <1>4, <1>8
  <1>10. a \in Nat /\ a # 0 /\ UpperPage(r.base) <= a
    BY <1>1, <1>9, PagesOrdered, PagesNotZero
  <1>11. e \in Nat
    BY <1>1, PagesOrdered
  <1> HIDE DEF a, e
  <1>12. a <= e
    BY <1>3, <1>10, <1>11, MultiHeapAssumption
  <1> QED BY <1>2, <1>10, <1>12 DEF r, e

(* The larger of two addresses bounds both. *)
LEMMA MaxOfTwo ==
    ASSUME NEW a \in Nat, NEW b \in Nat
    PROVE  Max({a, b}) \in Nat /\ a <= Max({a, b}) /\ b <= Max({a, b})
  <1> DEFINE c == IF a <= b THEN b ELSE a
  <1>1. c \in Nat /\ \A x \in {a, b} : x <= c
    OBVIOUS
  <1> HIDE DEF c
  <1>2. {a, b} # {} /\ {a, b} \subseteq Nat
    OBVIOUS
  <1>3. Max({a, b}) \in {a, b} /\ \A y \in {a, b} : y <= Max({a, b})
    BY <1>1, <1>2, MaxNatural
  <1> QED BY <1>2, <1>3

(* The one heap, by its place. *)
LEMMA LayoutHolds == Layout
  <1> DEFINE r == Regions[MinimalRegion]
             e == LowerPage(r.end)
  <1>1. PICK a \in Nat \ {0} :
           UpperPage(r.base) <= a /\ a <= e /\ \A past : MinimalHeap(past) = heap_create(a, e, past)
    BY MinimalHeapPlaced
  <1>2. MinimalHeap({}).saddr = a /\ MinimalHeap({}).total = e - a
    BY <1>1 DEF heap_create
  <1>3. Heaps = {1} /\ S(1) = a /\ N(1) = e - a
    BY <1>2 DEF Heaps, Map, S, N
  <1>4. MinimalRegion \in DOMAIN Regions /\ r.base \in Nat /\ r.end \in Nat
    BY MinimalRegionFound, RegionNumbers
  <1>5. e \in Nat /\ UpperPage(r.base) \in Nat
    BY <1>4, PagesOrdered
  <1>6. Word > 2 * (e + Slack) /\ Slack \in Nat /\ Word \in Nat
    BY <1>4, MultiHeapAssumption
  <1> HIDE DEF e, r
  <1>7. S(1) \in Nat \ {0} /\ N(1) \in Nat /\ Word > 2 * (N(1) + Slack)
    BY <1>1, <1>3, <1>5, <1>6
  <1>8. ASSUME NEW v \in S(1) .. S(1) + N(1) - 1 PROVE v \in RegionPages(r)
    BY <1>1, <1>3, <1>5, <1>8 DEF RegionPages, e
  <1> QED BY <1>3, <1>4, <1>7, <1>8 DEF Layout, r

(* kheap_init begins with the minimal heap, all of it free. *)
LEMMA MinimalHeapEmpty ==
    ASSUME NEW past \in SUBSET BlockFlags
    PROVE  /\ MinimalHeap(past) \in HeapsAt(S(1), N(1))
           /\ ChainsTaken(MinimalHeap(past), N(1))
  <1> DEFINE e == LowerPage(Regions[MinimalRegion].end)
             h == MinimalHeap(past)
  <1>1. PICK a \in Nat \ {0} : a <= e /\ \A q : MinimalHeap(q) = heap_create(a, e, q)
    BY MinimalHeapPlaced
  <1>2. S(1) = a /\ N(1) = e - a
    BY <1>1 DEF heap_create, S, N, Map
  <1>3. e \in Nat
    BY MinimalRegionFound, RegionNumbers, PagesOrdered
  <1>4. h = heap_create(a, e, past)
    BY <1>1
  <1> HIDE DEF e, h
  <1>5. h \in HeapsAt(a, e - a) /\ \A i \in 0 .. (e - a) - 1 : h.entries[i] = {}
    BY <1>1, <1>3, <1>4, Created
  <1>6. ChainsTaken(h, e - a)
    BY <1>5 DEF ChainsTaken, Chained
  <1> QED BY <1>2, <1>5, <1>6 DEF h

(* TakenFrames, heap by heap. *)
LEMMA InTakenFrames ==
    ASSUME NEW mh, MultiHeapOK(mh), NEW f
    PROVE  f \in TakenFrames(mh) <=> \E k \in Heaps : f \in Taken(mh[k])
  <1>1. DOMAIN mh = Heaps
    BY DEF MultiHeapOK
  <1> QED BY <1>1, Zenon DEF TakenFrames

(* One heap of a multiheap replaced by another one of the same place. *)
LEMMA HeapReplaced ==
    ASSUME NEW mh, MultiHeapOK(mh), NEW k \in Heaps, NEW x \in HeapsAt(S(k), N(k))
    PROVE  /\ MultiHeapOK([mh EXCEPT ![k] = x])
           /\ [mh EXCEPT ![k] = x][k] = x
           /\ \A l \in Heaps : l # k => [mh EXCEPT ![k] = x][l] = mh[l]
  BY DEF MultiHeapOK

(* What that does to the taken frames. *)
LEMMA TakenReplaced ==
    ASSUME NEW mh, MultiHeapOK(mh), NEW q, MultiHeapOK(q), NEW k \in Heaps, NEW got,
           \A l \in Heaps : l # k => q[l] = mh[l],
           Taken(q[k]) = Taken(mh[k]) \cup got
    PROVE  TakenFrames(q) = TakenFrames(mh) \cup got
  <1> SUFFICES ASSUME NEW f PROVE f \in TakenFrames(q) <=> f \in TakenFrames(mh) \/ f \in got
    OBVIOUS
  <1>1. ASSUME f \in got PROVE f \in TakenFrames(q)
    BY <1>1, InTakenFrames
  <1>2. ASSUME f \in TakenFrames(mh) PROVE f \in TakenFrames(q)
    <2>1. PICK l \in Heaps : f \in Taken(mh[l])
      BY <1>2, InTakenFrames
    <2>2. f \in Taken(q[l])
      BY <2>1
    <2> QED BY <2>2, InTakenFrames
  <1>3. ASSUME f \in TakenFrames(q) PROVE f \in TakenFrames(mh) \/ f \in got
    <2>1. PICK l \in Heaps : f \in Taken(q[l])
      BY <1>3, InTakenFrames
    <2>2. f \in Taken(mh[l]) \/ f \in got
      BY <2>1
    <2> QED BY <2>2, InTakenFrames
  <1> QED BY <1>1, <1>2, <1>3

(* The frames of different heaps differ. *)
LEMMA OneHeap ==
    ASSUME NEW k \in Heaps, NEW l \in Heaps, NEW f,
           f \in S(k) .. S(k) + N(k) - 1, f \in S(l) .. S(l) + N(l) - 1
    PROVE  k = l
  BY LayoutHolds DEF Layout

(* A block that is taken is a block of its heap. *)
LEMMA TakenInHeap ==
    ASSUME NEW mh, MultiHeapOK(mh), NEW k \in Heaps, NEW f \in Taken(mh[k])
    PROVE  f \in S(k) .. S(k) + N(k) - 1
  <1>1. mh[k] \in HeapsAt(S(k), N(k)) /\ S(k) \in Nat /\ N(k) \in Nat
    BY LayoutHolds DEF MultiHeapOK, Layout
  <1>2. PagesIn(mh[k]) = S(k) .. S(k) + N(k) - 1
    BY <1>1, PagesAt
  <1> QED BY <1>2, InTaken

(* Frames of the k-th heap that it has not taken are not taken at all. *)
LEMMA NotTaken ==
    ASSUME NEW mh, MultiHeapOK(mh), NEW k \in Heaps, NEW f \in S(k) .. S(k) + N(k) - 1
    PROVE  f \in TakenFrames(mh) <=> f \in Taken(mh[k])
  BY InTakenFrames, TakenInHeap, OneHeap

(* What a multiheap becomes when heap_malloc is done on its k-th heap. *)
LEMMA MallocInHeap ==
    ASSUME NEW mh, MultiHeapOK(mh), NEW k \in Heaps, NEW size \in Nat,
           NEW c, c = heap_malloc(mh[k], size), c.ptr # NULL,
           NEW n, n = BlocksFor(size)
    PROVE  /\ c.heap \in HeapsAt(S(k), N(k))
           /\ n \in Nat /\ n > 0
           /\ c.ptr \in Nat /\ S(k) <= c.ptr /\ c.ptr + n <= S(k) + N(k)
           /\ (c.ptr .. c.ptr + n - 1) \cap TakenFrames(mh) = {}
           /\ TakenFrames([mh EXCEPT ![k] = c.heap]) = TakenFrames(mh) \cup (c.ptr .. c.ptr + n - 1)
  <1> DEFINE got == c.ptr .. c.ptr + n - 1
             q == [mh EXCEPT ![k] = c.heap]
  <1>1. /\ mh[k] \in HeapsAt(S(k), N(k))
        /\ S(k) \in Nat \ {0} /\ N(k) \in Nat
    BY LayoutHolds DEF MultiHeapOK, Layout
  <1>2. /\ c.heap \in HeapsAt(S(k), N(k))
        /\ n \in Nat /\ n > 0
        /\ c.ptr \in Nat /\ S(k) <= c.ptr /\ c.ptr + n <= S(k) + N(k)
        /\ \A f \in got : f \notin Taken(mh[k])
        /\ Taken(c.heap) = Taken(mh[k]) \cup got
    <2>1. Malloced(c, mh[k], S(k), N(k), n)
      BY <1>1, HeapMalloc
    <2> QED BY <2>1 DEF Malloced
  <1>3. /\ MultiHeapOK(q) /\ q[k] = c.heap
        /\ \A l \in Heaps : l # k => q[l] = mh[l]
    <2> DEFINE x == c.heap
               y == [mh EXCEPT ![k] = x]
    <2>1. x \in HeapsAt(S(k), N(k))
      BY <1>2
    <2> HIDE DEF x
    <2>2. /\ MultiHeapOK(y) /\ y[k] = x
          /\ \A l \in Heaps : l # k => y[l] = mh[l]
      BY <2>1, HeapReplaced
    <2> QED BY <2>2 DEF x
  <1> HIDE DEF q
  <1>4. TakenFrames(q) = TakenFrames(mh) \cup got
    <2> HIDE DEF got
    <2> QED BY <1>2, <1>3, TakenReplaced
  <1>5. ASSUME NEW f \in got PROVE f \notin TakenFrames(mh)
    <2>1. f \in S(k) .. S(k) + N(k) - 1
      BY <1>1, <1>2
    <2> QED BY <1>2, <2>1, NotTaken
  <1> QED BY <1>2, <1>4, <1>5 DEF q

(* The fields of what multiheap_alloc returns. *)
LEMMA AllocFields ==
    ASSUME NEW a, NEW b, NEW r, r = [mh |-> a, ptr |-> b]
    PROVE  r.mh = a /\ r.ptr = b
  OBVIOUS

(* What one of the heaps makes of a request. *)
FromHeap(r, mh, size) ==
    \E k \in Heaps :
       /\ r.mh = [mh EXCEPT ![k] = heap_malloc(mh[k], size).heap]
       /\ r.ptr = heap_malloc(mh[k], size).ptr

(* multiheap_alloc: some heap's heap_malloc, or nothing. *)
LEMMA MultiHeapAlloc ==
    ASSUME NEW mh, MultiHeapOK(mh), NEW size \in Nat, NEW r, r = multiheap_alloc(mh, size)
    PROVE  /\ r.ptr = NULL => r.mh = mh
           /\ r.ptr # NULL => FromHeap(r, mh, size)
           /\ r.ptr = NULL => \A k \in Heaps : heap_malloc(mh[k], size).ptr = NULL
  <1> DEFINE fits == {k \in DOMAIN mh : heap_malloc(mh[k], size).ptr # NULL}
             k == Min(fits)
  <1>1. DOMAIN mh = Heaps /\ Heaps \subseteq Nat
    BY LayoutHolds DEF MultiHeapOK, Layout
  <1>2. CASE fits = {}
    BY <1>1, <1>2 DEF multiheap_alloc
  <1>3. CASE fits # {}
    <2>1. k \in fits
      BY <1>1, <1>3, MinNatural
    <2>2. /\ r = [mh |-> [mh EXCEPT ![k] = heap_malloc(mh[k], size).heap],
                  ptr |-> heap_malloc(mh[k], size).ptr]
      BY <1>3 DEF multiheap_alloc
    <2>3. k \in Heaps /\ heap_malloc(mh[k], size).ptr # NULL
      BY <1>1, <2>1
    <2>4. r.ptr # NULL
      BY <2>2, <2>3
    <2>5. /\ r.mh = [mh EXCEPT ![k] = heap_malloc(mh[k], size).heap]
          /\ r.ptr = heap_malloc(mh[k], size).ptr
      BY <2>2, AllocFields
    <2> HIDE DEF k
    <2> QED BY <2>3, <2>4, <2>5 DEF FromHeap
  <1> QED BY <1>2, <1>3

(* Directories of pages. *)
PageFlags == {PRESENT, WRITEABLE, USER}
Entry == [frame : Nat, flags : SUBSET PageFlags]
Directory == [Pages -> Entry]

-----------------------------------------------------------------------------
(* What an allocation does to all heaps.                                   *)

(* Nothing is lost: what is taken stays taken, what is chained stays so. *)
Grows(mh, q) ==
    /\ TakenFrames(mh) \subseteq TakenFrames(q)
    /\ \A k \in Heaps : \A i \in 0 .. N(k) - 1 :
           Marked(mh[k], i) => q[k].entries[i] = mh[k].entries[i]

(* A heap in which nothing was upset: a block that has a next one is       *)
(* taken.                                                                  *)
Sound(h, t) == ChainsTaken(h, t)

AllSound(mh) == \A k \in Heaps : Sound(mh[k], N(k))

(* heap_malloc keeps a heap sound. *)
LEMMA MallocSound ==
    ASSUME NEW s \in Nat \ {0}, NEW t \in Nat, NEW h \in HeapsAt(s, t), NEW size \in Nat, Sound(h, t)
    PROVE  Sound(heap_malloc(h, size).heap, t)
  BY MallocChains DEF Sound

(* Blocks taken before keep their entries. *)
LEMMA MallocKeeps ==
    ASSUME NEW s \in Nat \ {0}, NEW t \in Nat, NEW h \in HeapsAt(s, t), NEW size \in Nat,
           NEW i \in 0 .. t - 1, Marked(h, i)
    PROVE  heap_malloc(h, size).heap.entries[i] = h.entries[i]
  <1> DEFINE r == heap_malloc(h, size)
             n == BlocksFor(size)
             q == r.heap
             p == r.ptr
  <1>1. /\ q \in HeapsAt(s, t)
        /\ p = NULL => q = h
        /\ p # NULL =>
              /\ n \in Nat /\ n > 0
              /\ p \in Nat /\ s <= p /\ p + n <= s + t
              /\ \A f \in p .. p + n - 1 : f \notin Taken(h)
              /\ Taken(q) = Taken(h) \cup (p .. p + n - 1)
              /\ q.free = H(t)!Wrap(h.free - n)
              /\ \A j \in 0 .. t + Slack - 1 :
                    j \notin p - s .. p - s + n - 1 => q.entries[j] = h.entries[j]
    <2>1. Malloced(r, h, s, t, n)
      BY HeapMalloc
    <2> HIDE DEF r, n
    <2> QED BY <2>1 DEF Malloced
  <1> HIDE DEF r, n, q, p
  <1>2. s + i \in Taken(h)
    <2>1. h.saddr = s /\ (s + i) - s = i /\ s + i \in PagesIn(h)
      BY PagesAt
    <2> QED BY <2>1, InTaken
  <1>3. CASE p = NULL
    BY <1>1, <1>3 DEF q, r
  <1>4. CASE p # NULL
    <2>1. i \notin p - s .. p - s + n - 1
      <3> SUFFICES ASSUME i \in p - s .. p - s + n - 1 PROVE FALSE
        OBVIOUS
      <3>1. s + i \in p .. p + n - 1
        BY <1>1, <1>4
      <3> QED BY <1>1, <1>2, <1>4, <3>1
    <2>2. i \in 0 .. t + Slack - 1
      BY MultiHeapAssumption
    <2> QED BY <1>1, <1>4, <2>1, <2>2 DEF q, r
  <1> QED BY <1>3, <1>4

(* What multiheap_alloc makes of the heaps when it is asked for n pages. *)
Alloced(r, mh, n) ==
    /\ MultiHeapOK(r.mh) /\ Grows(mh, r.mh)
    /\ AllSound(mh) => AllSound(r.mh)
    /\ r.ptr = NULL => r.mh = mh
    /\ r.ptr # NULL =>
          /\ n \in Nat /\ n > 0 /\ r.ptr \in Nat
          /\ \E k \in Heaps :
                /\ S(k) <= r.ptr /\ r.ptr + n <= S(k) + N(k)
                /\ \A i \in r.ptr - S(k) .. r.ptr - S(k) + n - 2 : Chained(r.mh[k], i)
          /\ (r.ptr .. r.ptr + n - 1) \cap TakenFrames(mh) = {}
          /\ TakenFrames(r.mh) = TakenFrames(mh) \cup (r.ptr .. r.ptr + n - 1)

(* multiheap_alloc, in one place: a fresh run in one heap, or nothing.     *)
LEMMA Alloc ==
    ASSUME NEW mh, MultiHeapOK(mh), NEW size \in Nat, NEW r, r = multiheap_alloc(mh, size),
           NEW n, n = BlocksFor(size)
    PROVE  Alloced(r, mh, n)
  <1>1. CASE r.ptr = NULL
    <2>1. r.mh = mh
      BY <1>1, MultiHeapAlloc
    <2>2. Grows(mh, mh)
      BY DEF Grows
    <2> QED BY <1>1, <2>1, <2>2 DEF Alloced
  <1>2. CASE r.ptr # NULL
    <2>a. FromHeap(r, mh, size)
      BY <1>2, MultiHeapAlloc
    <2>1. PICK k \in Heaps :
             /\ r.mh = [mh EXCEPT ![k] = heap_malloc(mh[k], size).heap]
             /\ r.ptr = heap_malloc(mh[k], size).ptr
      BY <2>a, Zenon DEF FromHeap
    <2> DEFINE h == mh[k]
               c == heap_malloc(h, size)
               q == [mh EXCEPT ![k] = c.heap]
               got == c.ptr .. c.ptr + n - 1
    <2>2. h \in HeapsAt(S(k), N(k)) /\ S(k) \in Nat \ {0} /\ N(k) \in Nat /\ Word > 2 * (N(k) + Slack)
      BY LayoutHolds DEF MultiHeapOK, Layout
    <2>3. c.ptr # NULL
      BY <1>2, <2>1
    <2>4. /\ c.heap \in HeapsAt(S(k), N(k))
          /\ n \in Nat /\ n > 0
          /\ c.ptr \in Nat /\ S(k) <= c.ptr /\ c.ptr + n <= S(k) + N(k)
          /\ got \cap TakenFrames(mh) = {}
          /\ TakenFrames(q) = TakenFrames(mh) \cup got
      BY <2>3, MallocInHeap
    <2>5. /\ MultiHeapOK(q) /\ q[k] = c.heap
          /\ \A l \in Heaps : l # k => q[l] = mh[l]
      <3> DEFINE x == c.heap
                 y == [mh EXCEPT ![k] = x]
      <3>1. x \in HeapsAt(S(k), N(k))
        BY <2>4
      <3> HIDE DEF x
      <3>2. /\ MultiHeapOK(y) /\ y[k] = x
            /\ \A l \in Heaps : l # k => y[l] = mh[l]
        BY <3>1, HeapReplaced
      <3> QED BY <3>2 DEF x
    <2>6. \A i \in 0 .. N(k) - 1 : Marked(h, i) => c.heap.entries[i] = h.entries[i]
      BY <2>2, MallocKeeps
    <2>7. Sound(h, N(k)) => Sound(c.heap, N(k))
      BY <2>2, MallocSound
    <2>8. \A i \in c.ptr - S(k) .. c.ptr - S(k) + n - 2 : Chained(c.heap, i)
      BY <2>2, <2>3, HeapMalloc DEF Malloced
    <2>9. q = r.mh /\ c.ptr = r.ptr
      BY <2>1
    <2> HIDE DEF c, q, got
    <2>10. Grows(mh, q)
      BY <2>4, <2>5, <2>6 DEF Grows
    <2>11. AllSound(mh) => AllSound(q)
      BY <2>5, <2>7 DEF AllSound
    <2> QED BY <1>2, <2>4, <2>5, <2>8, <2>9, <2>10, <2>11 DEF got, Alloced
  <1> QED BY <1>1, <1>2

(* heap_malloc, in these terms. *)
LEMMA MallocedBlocks ==
    ASSUME NEW s \in Nat \ {0}, NEW t \in Nat, NEW h \in HeapsAt(s, t), NEW n \in Nat
    PROVE  Malloced(heap_malloc(h, n * PageSize), h, s, t, n)
  BY BlocksForPages, HeapMalloc

-----------------------------------------------------------------------------
(* heap_realloc.                                                           *)

(* The walk from block b: every block before its end has a next one, and   *)
(* it ends at one that has none, or at the end of the table.               *)
LEMMA WalkEnds ==
    ASSUME NEW t \in Nat, NEW e, NEW b \in 0 .. t, NEW c, c = H(t)!ChainEnd(e, b)
    PROVE  /\ c \in Int /\ c <= t - 1 /\ b - 1 <= c
           /\ \A i \in b .. c - 1 : "HEAP_BLOCK_HAS_NEXT" \in e[i]
           /\ c = t - 1 \/ (b <= c /\ "HEAP_BLOCK_HAS_NEXT" \notin e[c])
  <1> DEFINE stops == {i \in b .. t - 1 : "HEAP_BLOCK_HAS_NEXT" \notin e[i]}
  <1>0. c = IF stops = {} THEN t - 1 ELSE CHOOSE i \in stops : \A j \in stops : i <= j
    BY DEF H!ChainEnd, H!HAS_NEXT
  <1>1. CASE stops = {}
    BY <1>0, <1>1
  <1>2. CASE stops # {}
    <2>1. stops \subseteq Nat
      OBVIOUS
    <2>2. \E x \in stops : \A y \in stops : x <= y
      <3> HIDE DEF stops
      <3> QED BY <1>2, <2>1, LeastNatural
    <2>3. c \in stops /\ \A y \in stops : c <= y
      BY <1>0, <1>2, <2>2
    <2>4. ASSUME NEW i \in b .. c - 1 PROVE "HEAP_BLOCK_HAS_NEXT" \in e[i]
      <3>1. i \notin stops /\ i \in b .. t - 1
        BY <2>1, <2>3
      <3> QED BY <3>1
    <2> QED BY <2>3, <2>4
  <1> QED BY <1>1, <1>2

(* The cardinality that the block table's module means is the usual one. *)
LEMMA SameCardinality ==
    ASSUME NEW t, NEW T
    PROVE  H(t)!Cardinality(T) = Cardinality(T)
  BY DEF H!Cardinality, Cardinality

(* heap_allocation_block_count is a number. *)
LEMMA CountNatural ==
    ASSUME NEW t \in Nat, NEW e, NEW b \in 0 .. t
    PROVE  H(t)!heap_allocation_block_count(e, b) \in Nat
  <1> DEFINE c == H(t)!ChainEnd(e, b)
             B == {i \in b .. c : ~H(t)!IsFree(e, i)}
  <1>1. c \in Int
    BY WalkEnds
  <1>2. IsFiniteSet(b .. c)
    BY <1>1, FS_Interval
  <1>3. IsFiniteSet(B)
    BY <1>2, FS_Subset
  <1>4. Cardinality(B) \in Nat
    BY <1>3, FS_CardinalityType
  <1> QED BY <1>4, SameCardinality DEF H!heap_allocation_block_count

(* The blocks it counts lie between block b and the end of the table. *)
LEMMA CountBound ==
    ASSUME NEW t \in Nat, NEW e, NEW b \in 0 .. t
    PROVE  b + H(t)!heap_allocation_block_count(e, b) <= t
  <1> DEFINE c == H(t)!ChainEnd(e, b)
             B == {i \in b .. c : ~H(t)!IsFree(e, i)}
  <1>1. c \in Int /\ c <= t - 1 /\ b - 1 <= c
    BY WalkEnds
  <1>2. IsFiniteSet(b .. c) /\ Cardinality(b .. c) = c - b + 1
    <2>1. b \in Int /\ c \in Int /\ (b > c => c - b + 1 = 0)
      BY <1>1
    <2> QED BY <2>1, FS_Interval
  <1>3. IsFiniteSet(B) /\ Cardinality(B) <= Cardinality(b .. c)
    BY <1>2, FS_Subset
  <1>4. Cardinality(B) \in Nat
    BY <1>3, FS_CardinalityType
  <1>5. H(t)!heap_allocation_block_count(e, b) = Cardinality(B)
    BY SameCardinality DEF H!heap_allocation_block_count
  <1> HIDE DEF B, c
  <1> QED BY <1>1, <1>2, <1>3, <1>4, <1>5

(* Whatever heap_realloc makes of a heap's table is one again. *)
LEMMA WithTyped ==
    ASSUME NEW s, NEW t \in Nat, NEW h \in HeapsAt(s, t), NEW x,
           x.entries \in [0 .. t + Slack - 1 -> SUBSET BlockFlags], x.used \in Int, x.free \in Int
    PROVE  /\ With(h, x) \in HeapsAt(s, t)
           /\ With(h, x).entries = x.entries /\ With(h, x).free = x.free
  BY DEF With, HeapsAt

(* heap_free, in a table of the heap. *)
LEMMA FreeTyped ==
    ASSUME NEW t \in Nat, NEW e \in [0 .. t + Slack - 1 -> SUBSET BlockFlags], NEW used \in Int, NEW free \in Int,
           NEW h, h.entries = e, h.used = used, h.free = free, NEW b \in 0 .. t,
           NEW x, x = H(t)!AfterFree(h, b)
    PROVE  /\ x.entries \in [0 .. t + Slack - 1 -> SUBSET BlockFlags] /\ x.used \in Int /\ x.free \in Int
           /\ x.entries = [i \in 0 .. t + Slack - 1 |-> IF i \in b .. H(t)!ChainEnd(e, b) THEN {} ELSE e[i]]
           /\ x.free = H(t)!Wrap(free + (H(t)!ChainEnd(e, b) - b + 1))
  <1> DEFINE c == H(t)!ChainEnd(e, b)
  <1>1. c \in Int
    BY WalkEnds
  <1>2. /\ x.entries = [i \in 0 .. t + Slack - 1 |-> IF i \in b .. c THEN {} ELSE e[i]]
        /\ x.used = H(t)!Wrap(used - (c - b + 1)) /\ x.free = H(t)!Wrap(free + (c - b + 1))
    BY DEF H!AfterFree, H!heap_mark_blocks_free, H!BlocksFreed
  <1> HIDE DEF c
  <1>3. x.used \in Int /\ x.free \in Int
    BY <1>1, <1>2, WrapInt
  <1> QED BY <1>2, <1>3 DEF c

-----------------------------------------------------------------------------
(* kheap_init.                                                             *)

(* heap_free of a block of the heap leaves a table of the heap, in which   *)
(* nothing is chained that is not taken.                                   *)
LEMMA FreeSound ==
    ASSUME NEW s \in Nat \ {0}, NEW t \in Nat, NEW h \in HeapsAt(s, t), NEW p \in s .. s + t
    PROVE  heap_free(h, p) \in HeapsAt(s, t) /\ (Sound(h, t) => Sound(heap_free(h, p), t))
  <1> DEFINE b == p - s
             x == H(t)!AfterFree(h, b)
             q == heap_free(h, p)
  <1>1. /\ h.saddr = s /\ h.total = t /\ h.used \in Int /\ h.free \in Int
        /\ h.entries \in [0 .. t + Slack - 1 -> SUBSET BlockFlags]
    BY DEF HeapsAt
  <1>2. b \in 0 .. t
    OBVIOUS
  <1> HIDE DEF b
  <1>3. /\ x.entries \in [0 .. t + Slack - 1 -> SUBSET BlockFlags] /\ x.used \in Int /\ x.free \in Int
        /\ x.entries = [i \in 0 .. t + Slack - 1 |->
                           IF i \in b .. H(t)!ChainEnd(h.entries, b) THEN {} ELSE h.entries[i]]
    BY <1>1, <1>2, FreeTyped
  <1>4. q = With(h, x)
    BY <1>1 DEF heap_free, b
  <1> HIDE DEF x, q
  <1>5. q \in HeapsAt(s, t) /\ q.entries = x.entries
    BY <1>3, <1>4, WithTyped
  <1>6. ASSUME Sound(h, t), NEW i \in 0 .. t - 1, Chained(q, i) PROVE Marked(q, i)
    <2>1. i \in 0 .. t + Slack - 1
      BY MultiHeapAssumption
    <2>2. q.entries[i] = h.entries[i]
      BY <1>3, <1>5, <1>6, <2>1 DEF Chained
    <2> QED BY <1>6, <2>2 DEF Chained, Marked, Sound, ChainsTaken
  <1> QED BY <1>5, <1>6 DEF Sound, ChainsTaken, q

(* heap_zalloc gives a block of the heap, or nothing. *)
LEMMA ZallocSound ==
    ASSUME NEW s \in Nat \ {0}, NEW t \in Nat, NEW h \in HeapsAt(s, t), NEW r, r = heap_zalloc(h)
    PROVE  /\ r.heap \in HeapsAt(s, t) /\ (Sound(h, t) => Sound(r.heap, t))
           /\ r.ptr # NULL => r.ptr \in s .. s + t
  <1>1. PageSize \in Nat
    BY PagingAssumption
  <1>2. r = heap_malloc(h, PageSize)
    BY DEF heap_zalloc
  <1>3. Sound(h, t) => Sound(r.heap, t)
    BY <1>1, <1>2, MallocSound
  <1>4. Malloced(r, h, s, t, BlocksFor(PageSize))
    BY <1>1, <1>2, HeapMalloc
  <1> QED BY <1>3, <1>4 DEF Malloced

(* The heaps that the loop of kheap_init begins with. *)
LEMMA StartingSound ==
    ASSUME NEW past \in SUBSET BlockFlags, NEW mh, mh = StartingHeaps(past)
    PROVE  MultiHeapOK(mh) /\ AllSound(mh)
  <1> DEFINE h == MinimalHeap(past)
             a == heap_zalloc(h).heap
             b == heap_zalloc(a).heap
  <1>1. S(1) \in Nat \ {0} /\ N(1) \in Nat /\ Heaps = {1}
    BY LayoutHolds DEF Layout
  <1>2. h \in HeapsAt(S(1), N(1)) /\ Sound(h, N(1))
    BY MinimalHeapEmpty DEF Sound
  <1>3. mh = <<b>>
    BY DEF StartingHeaps
  <1> HIDE DEF h
  <1>4. a \in HeapsAt(S(1), N(1)) /\ Sound(a, N(1))
    BY <1>1, <1>2, ZallocSound
  <1> HIDE DEF a
  <1>5. b \in HeapsAt(S(1), N(1)) /\ Sound(b, N(1))
    BY <1>1, <1>4, ZallocSound
  <1> HIDE DEF b
  <1>6. mh[1] = b /\ mh = [k \in Heaps |-> mh[k]]
    BY <1>1, <1>3
  <1> QED BY <1>1, <1>5, <1>6 DEF MultiHeapOK, AllSound

(* The minimal heap replaced by what an operation left of it. *)
LEMMA FirstReplaced ==
    ASSUME NEW mh, MultiHeapOK(mh), NEW x \in HeapsAt(S(1), N(1))
    PROVE  MultiHeapOK([mh EXCEPT ![1] = x]) /\ (Sound(x, N(1)) => AllSound([mh EXCEPT ![1] = x]))
  <1>1. Heaps = {1}
    BY LayoutHolds DEF Layout
  <1>2. MultiHeapOK([mh EXCEPT ![1] = x]) /\ [mh EXCEPT ![1] = x][1] = x
    BY <1>1, HeapReplaced
  <1> QED BY <1>1, <1>2 DEF AllSound

(* heap_validate_table refuses the table of every other region. *)
LEMMA TableRefused ==
    ASSUME NEW i \in OtherRegions
    PROVE  ~heap_validate_table(RegionStart(i), LowerPage(Regions[i].end), 0)
  <1> DEFINE a == UpperPage(Regions[i].base)
             b == HeapAddress \div PageSize
             e == LowerPage(Regions[i].end)
  <1>1. i \in DOMAIN Regions /\ e > RegionStart(i)
    BY DEF OtherRegions
  <1>2. a \in Nat /\ e \in Nat
    BY <1>1, RegionNumbers, PagesOrdered
  <1>3. b \in Nat
    BY MultiHeapAssumption, DivBytes
  <1> HIDE DEF a, b, e
  <1>4. Max({a, b}) \in Nat
    BY <1>2, <1>3, MaxOfTwo
  <1>5. RegionStart(i) \in Nat
    BY <1>4 DEF RegionStart, a, b
  <1> QED BY <1>1, <1>2, <1>5 DEF heap_validate_table, e

(* A turn of the loop of kheap_init: no heap is added. *)
LEMMA RegionSound ==
    ASSUME NEW mh, MultiHeapOK(mh), NEW i
    PROVE  MultiHeapOK(WithRegion(mh, i)) /\ (AllSound(mh) => AllSound(WithRegion(mh, i)))
  <1>1. CASE i \notin OtherRegions
    BY <1>1 DEF WithRegion
  <1>2. CASE i \in OtherRegions
    <2> DEFINE h == mh[1]
               heap == heap_zalloc(h)
               x == heap.heap
               table == heap_zalloc(x)
               y == table.heap
               u == heap_free(y, heap.ptr)
               w == heap_free(u, table.ptr)
    <2>1. S(1) \in Nat \ {0} /\ N(1) \in Nat /\ Heaps = {1}
      BY LayoutHolds DEF Layout
    <2>2. h \in HeapsAt(S(1), N(1)) /\ (AllSound(mh) => Sound(h, N(1)))
      BY <2>1 DEF MultiHeapOK, AllSound
    <2>3. WithRegion(mh, i) = IF heap.ptr = NULL \/ table.ptr = NULL
                              THEN [mh EXCEPT ![1] = y]
                              ELSE [mh EXCEPT ![1] = w]
      BY <1>2, TableRefused, Zenon DEF WithRegion, multiheap_add
    <2> HIDE DEF h
    <2>4. x \in HeapsAt(S(1), N(1)) /\ (AllSound(mh) => Sound(x, N(1))) /\ (heap.ptr # NULL => heap.ptr \in S(1) .. S(1) + N(1))
      BY <2>1, <2>2, ZallocSound
    <2> HIDE DEF heap, x
    <2>5. y \in HeapsAt(S(1), N(1)) /\ (AllSound(mh) => Sound(y, N(1))) /\ (table.ptr # NULL => table.ptr \in S(1) .. S(1) + N(1))
      BY <2>1, <2>4, ZallocSound
    <2> HIDE DEF table, y
    <2>6. CASE heap.ptr = NULL \/ table.ptr = NULL
      <3>1. WithRegion(mh, i) = [mh EXCEPT ![1] = y]
        BY <2>3, <2>6, Zenon
      <3>2. /\ MultiHeapOK([mh EXCEPT ![1] = y])
            /\ Sound(y, N(1)) => AllSound([mh EXCEPT ![1] = y])
        BY <2>5, FirstReplaced
      <3> QED BY <2>5, <3>1, <3>2, Zenon
    <2>7. CASE ~(heap.ptr = NULL \/ table.ptr = NULL)
      <3>1. u \in HeapsAt(S(1), N(1)) /\ (AllSound(mh) => Sound(u, N(1)))
        BY <2>1, <2>4, <2>5, <2>7, FreeSound
      <3> HIDE DEF u
      <3>2. w \in HeapsAt(S(1), N(1)) /\ (AllSound(mh) => Sound(w, N(1)))
        BY <2>1, <2>5, <2>7, <3>1, FreeSound
      <3> HIDE DEF w
      <3>3. WithRegion(mh, i) = [mh EXCEPT ![1] = w]
        BY <2>3, <2>7, Zenon
      <3>4. /\ MultiHeapOK([mh EXCEPT ![1] = w])
            /\ Sound(w, N(1)) => AllSound([mh EXCEPT ![1] = w])
        BY <3>2, FirstReplaced
      <3> QED BY <3>2, <3>3, <3>4, Zenon
    <2> QED BY <2>6, <2>7
  <1> QED BY <1>1, <1>2

(* kpalloc does what kmalloc does, and the kernel stops without memory. *)
LEMMA Palloc ==
    ASSUME NEW mh, MultiHeapOK(mh), NEW size \in Nat, NEW r, r = multiheap_palloc(mh, size),
           NEW n, n = BlocksFor(size)
    PROVE  /\ Alloced(r, mh, n)
           /\ r.panic = "none" => r.ptr # NULL
  <1> DEFINE a == multiheap_alloc(mh, size)
  <1>1. Alloced(a, mh, n)
    BY Alloc
  <1> HIDE DEF a
  <1>2. r.mh = a.mh /\ r.ptr = a.ptr /\ (r.panic = "none" => r.ptr # NULL)
    BY DEF multiheap_palloc, multiheap_alloc_second_pass, a
  <1> QED BY <1>1, <1>2 DEF Alloced

(* The branch of heap_realloc by which pointer ptr to block b, of cur      *)
(* blocks, becomes r.ptr, of n blocks.                                     *)
Branch(r, h, t, ptr, size, n, b, cur) ==
    LET new == heap_malloc(h, n * PageSize)
    IN  \/ size = 0 /\ r = [heap |-> With(h, H(t)!AfterFree(h, b)), ptr |-> NULL]
        \/ size # 0 /\ cur = n /\ r = [heap |-> With(h, h), ptr |-> ptr]
        \/ size # 0 /\ cur > n /\ r = [heap |-> With(h, H(t)!AfterShrink(h, b, cur, n)), ptr |-> ptr]
        \/ /\ size # 0 /\ cur < n
           /\ \A i \in b + cur .. b + n - 1 : "HEAP_BLOCK_TABLE_ENTRY_TAKEN" \notin h.entries[i]
           /\ r = [heap |-> With(h, H(t)!AfterExtend(h, b, cur, n)), ptr |-> ptr]
        \/ /\ size # 0 /\ cur < n
           /\ new.ptr = NULL
           /\ r = [heap |-> With(h, h), ptr |-> NULL]
        \/ /\ size # 0 /\ cur < n
           /\ new.ptr # NULL
           /\ r = [heap |-> With(h, H(t)!AfterFree(new.heap, b)), ptr |-> new.ptr]

(* The cases of heap_realloc. *)
LEMMA ReallocCases ==
    ASSUME NEW s \in Nat, NEW t \in Nat, NEW h \in HeapsAt(s, t), NEW ptr \in s .. s + t, NEW size \in Nat,
           NEW r, r = heap_realloc(h, ptr, size), NEW n, n = BlocksFor(size),
           NEW b, b = ptr - s, NEW cur, cur = H(t)!heap_allocation_block_count(h.entries, b)
    PROVE  b \in 0 .. t /\ cur \in Nat /\ n \in Nat /\ Branch(r, h, t, ptr, size, n, b, cur)
  <1>0. h.saddr = s /\ h.total = t
    BY PagesAt
  <1>1. b \in 0 .. t /\ n \in Nat
    BY BlocksForBytes
  <1>2. cur \in Nat
    BY <1>1, CountNatural
  <1> DEFINE new == heap_malloc(h, n * PageSize)
             ext == H(t)!heap_is_block_range_free(h.entries, b + cur, b + n - 1)
             r1 == [heap |-> With(h, H(t)!AfterFree(h, b)), ptr |-> NULL]
             r2 == [heap |-> With(h, h), ptr |-> ptr]
             r3 == [heap |-> With(h, H(t)!AfterShrink(h, b, cur, n)), ptr |-> ptr]
             r4 == [heap |-> With(h, H(t)!AfterExtend(h, b, cur, n)), ptr |-> ptr]
             r5 == [heap |-> With(h, h), ptr |-> NULL]
             r6 == [heap |-> With(h, H(t)!AfterFree(new.heap, b)), ptr |-> new.ptr]
  <1>3. r = CASE size = 0 -> r1
              [] size # 0 /\ cur = n -> r2
              [] size # 0 /\ cur > n -> r3
              [] size # 0 /\ cur < n -> IF ext THEN r4 ELSE IF new.ptr = NULL THEN r5 ELSE r6
    BY <1>0, Zenon DEF heap_realloc
  <1>4. ext => \A i \in b + cur .. b + n - 1 : "HEAP_BLOCK_TABLE_ENTRY_TAKEN" \notin h.entries[i]
    BY DEF H!heap_is_block_range_free, H!IsFree, H!TAKEN
  <1> HIDE DEF new, ext, r1, r2, r3, r4, r5, r6
  <1>5. CASE size = 0
    <2>1. r = r1
      BY <1>3, <1>5
    <2> QED BY <1>1, <1>2, <1>5, <2>1, Zenon DEF Branch, r1
  <1>6. CASE size # 0 /\ cur = n
    <2>1. r = r2
      BY <1>2, <1>3, <1>6
    <2> QED BY <1>1, <1>2, <1>6, <2>1, Zenon DEF Branch, r2
  <1>7. CASE size # 0 /\ cur > n
    <2>1. r = r3
      BY <1>1, <1>2, <1>3, <1>7
    <2> QED BY <1>1, <1>2, <1>7, <2>1, Zenon DEF Branch, r3
  <1>8. CASE size # 0 /\ cur < n
    <2>1. r = IF ext THEN r4 ELSE IF new.ptr = NULL THEN r5 ELSE r6
      BY <1>1, <1>2, <1>3, <1>8
    <2>2. CASE ext
      BY <1>1, <1>2, <1>4, <1>8, <2>1, <2>2, Zenon DEF Branch, r4
    <2>3. CASE ~ext /\ new.ptr = NULL
      BY <1>1, <1>2, <1>8, <2>1, <2>3, Zenon DEF Branch, r5, new
    <2>4. CASE ~ext /\ new.ptr # NULL
      BY <1>1, <1>2, <1>8, <2>1, <2>4, Zenon DEF Branch, r6, new
    <2> QED BY <2>2, <2>3, <2>4
  <1>9. size = 0 \/ (size # 0 /\ cur = n) \/ (size # 0 /\ cur > n) \/ (size # 0 /\ cur < n)
    BY <1>1, <1>2
  <1> QED BY <1>5, <1>6, <1>7, <1>8, <1>9

(* heap_realloc leaves a heap behind; the memory it gives stays where it   *)
(* was or is a new run inside the heap.                                    *)
Realloced(r, s, t, ptr, size, n) ==
    /\ r.heap \in HeapsAt(s, t)
    /\ size = 0 => r.ptr = NULL
    /\ r.ptr # NULL =>
          /\ n > 0
          /\ r.ptr = ptr \/ (r.ptr \in Nat /\ s <= r.ptr /\ r.ptr + n <= s + t)

(* heap_realloc keeps the heap's shape and gives NULL, the pointer it was  *)
(* given, or the start of a run within the heap.                           *)
LEMMA HeapRealloc ==
    ASSUME NEW s \in Nat \ {0}, NEW t \in Nat, NEW h \in HeapsAt(s, t), NEW ptr \in s .. s + t,
           NEW size \in Nat, BlocksFor(size) <= Slack
    PROVE  Realloced(heap_realloc(h, ptr, size), s, t, ptr, size, BlocksFor(size))
  <1> DEFINE r == heap_realloc(h, ptr, size)
             n == BlocksFor(size)
             b == ptr - s
             cur == H(t)!heap_allocation_block_count(h.entries, b)
             new == heap_malloc(h, n * PageSize)
             E == [0 .. t + Slack - 1 -> SUBSET BlockFlags]
  <1>1. /\ b \in 0 .. t /\ cur \in Nat /\ n \in Nat
        /\ \/ size = 0 /\ r = [heap |-> With(h, H(t)!AfterFree(h, b)), ptr |-> NULL]
           \/ size # 0 /\ cur = n /\ r = [heap |-> With(h, h), ptr |-> ptr]
           \/ size # 0 /\ cur > n /\ r = [heap |-> With(h, H(t)!AfterShrink(h, b, cur, n)), ptr |-> ptr]
           \/ /\ size # 0 /\ cur < n
              /\ \A i \in b + cur .. b + n - 1 : "HEAP_BLOCK_TABLE_ENTRY_TAKEN" \notin h.entries[i]
              /\ r = [heap |-> With(h, H(t)!AfterExtend(h, b, cur, n)), ptr |-> ptr]
           \/ /\ size # 0 /\ cur < n
              /\ new.ptr = NULL
              /\ r = [heap |-> With(h, h), ptr |-> NULL]
           \/ /\ size # 0 /\ cur < n
              /\ new.ptr # NULL
              /\ r = [heap |-> With(h, H(t)!AfterFree(new.heap, b)), ptr |-> new.ptr]
    <2>1. b \in 0 .. t /\ cur \in Nat /\ n \in Nat /\ Branch(r, h, t, ptr, size, n, b, cur)
      BY ReallocCases
    <2> QED BY <2>1, Zenon DEF Branch
  <1>2. h.entries \in E /\ h.used \in Int /\ h.free \in Int /\ Slack \in Nat
    BY MultiHeapAssumption DEF HeapsAt
  <1>3. size # 0 => n > 0
    BY BlocksForBytes
  <1>4. Malloced(new, h, s, t, n)
    BY <1>1, MallocedBlocks
  <1> HIDE DEF r, n, b, cur, new
  <1>5. With(h, h) \in HeapsAt(s, t)
    BY <1>2, WithTyped
  <1>6. CASE size = 0 /\ r = [heap |-> With(h, H(t)!AfterFree(h, b)), ptr |-> NULL]
    <2> DEFINE x == H(t)!AfterFree(h, b)
    <2>1. x.entries \in E /\ x.used \in Int /\ x.free \in Int
      BY <1>1, <1>2, FreeTyped
    <2> HIDE DEF x
    <2>2. With(h, x) \in HeapsAt(s, t)
      BY <2>1, WithTyped
    <2>3. r.heap = With(h, x) /\ r.ptr = NULL
      BY <1>6 DEF x
    <2> QED BY <2>2, <2>3 DEF Realloced, r, n
  <1>7. CASE size # 0 /\ r = [heap |-> With(h, h), ptr |-> ptr]
    <2>1. r.heap = With(h, h) /\ r.ptr = ptr
      BY <1>7
    <2>2. Realloced(r, s, t, ptr, size, n)
      BY <1>3, <1>5, <1>7, <2>1 DEF Realloced
    <2> QED BY <2>2 DEF r, n
  <1>8. CASE size # 0 /\ cur > n /\ r = [heap |-> With(h, H(t)!AfterShrink(h, b, cur, n)), ptr |-> ptr]
    <2> DEFINE f == H(t)!AfterFree(h, b + n)
               x == H(t)!AfterShrink(h, b, cur, n)
    <2>0. b + n \in 0 .. t
      BY <1>1, <1>8, CountBound DEF cur
    <2>1. f.entries \in E /\ f.used \in Int /\ f.free \in Int
      BY <1>2, <2>0, FreeTyped
    <2>2. /\ x.entries = [f.entries EXCEPT ![b + n - 1] = @ \ {"HEAP_BLOCK_HAS_NEXT"}]
          /\ x.used = H(t)!Wrap(f.used - (cur - n)) /\ x.free = H(t)!Wrap(f.free + (cur - n))
      BY DEF H!AfterShrink, H!HAS_NEXT
    <2> HIDE DEF x, f
    <2>3. x.used \in Int /\ x.free \in Int
      BY <1>1, <2>1, <2>2, WrapInt
    <2>4. x.entries \in E
      BY <2>1, <2>2
    <2> HIDE DEF E
    <2>5. With(h, x) \in HeapsAt(s, t)
      BY <2>3, <2>4, WithTyped DEF E
    <2>6. r.heap = With(h, x) /\ r.ptr = ptr
      BY <1>8 DEF x
    <2>7. Realloced(r, s, t, ptr, size, n)
      BY <1>3, <1>8, <2>5, <2>6 DEF Realloced
    <2> QED BY <2>7 DEF r, n
  <1>9. CASE size # 0 /\ r = [heap |-> With(h, H(t)!AfterExtend(h, b, cur, n)), ptr |-> ptr]
    <2> DEFINE x == H(t)!AfterExtend(h, b, cur, n)
    <2>1. /\ x.entries = [i \in DOMAIN h.entries |->
                IF i = b + cur - 1 THEN h.entries[i] \cup {"HEAP_BLOCK_HAS_NEXT"}
                ELSE IF i \in b + cur .. b + n - 2 THEN {"HEAP_BLOCK_TABLE_ENTRY_TAKEN", "HEAP_BLOCK_HAS_NEXT"}
                ELSE IF i = b + n - 1 THEN {"HEAP_BLOCK_TABLE_ENTRY_TAKEN"}
                ELSE h.entries[i]]
          /\ x.used = H(t)!Wrap(h.used + (n - cur)) /\ x.free = H(t)!Wrap(h.free - (n - cur))
      BY DEF H!AfterExtend, H!HAS_NEXT, H!TAKEN
    <2> HIDE DEF x
    <2>2. x.used \in Int /\ x.free \in Int
      BY <1>1, <1>2, <2>1, WrapInt
    <2>3. x.entries \in E
      BY <1>2, <2>1 DEF BlockFlags
    <2> HIDE DEF E
    <2>4. With(h, x) \in HeapsAt(s, t)
      BY <2>2, <2>3, WithTyped DEF E
    <2>5. r.heap = With(h, x) /\ r.ptr = ptr
      BY <1>9 DEF x
    <2>6. Realloced(r, s, t, ptr, size, n)
      BY <1>3, <1>9, <2>4, <2>5 DEF Realloced
    <2> QED BY <2>6 DEF r, n
  <1>10. CASE size # 0 /\ r = [heap |-> With(h, h), ptr |-> NULL]
    <2>1. r.heap = With(h, h) /\ r.ptr = NULL
      BY <1>10
    <2>2. Realloced(r, s, t, ptr, size, n)
      BY <1>3, <1>5, <1>10, <2>1 DEF Realloced
    <2> QED BY <2>2 DEF r, n
  <1>11. CASE /\ size # 0 /\ new.ptr # NULL
              /\ r = [heap |-> With(h, H(t)!AfterFree(new.heap, b)), ptr |-> new.ptr]
    <2> DEFINE g == new.heap
               x == H(t)!AfterFree(g, b)
    <2>1. /\ g \in HeapsAt(s, t)
          /\ new.ptr \in Nat /\ s <= new.ptr /\ new.ptr + n <= s + t
      BY <1>4, <1>11 DEF Malloced
    <2>2. g.entries \in E /\ g.used \in Int /\ g.free \in Int
      BY <2>1 DEF HeapsAt
    <2> HIDE DEF g
    <2>3. x.entries \in E /\ x.used \in Int /\ x.free \in Int
      BY <1>1, <2>2, FreeTyped
    <2> HIDE DEF x
    <2>4. With(h, x) \in HeapsAt(s, t)
      BY <2>3, WithTyped
    <2>5. r.heap = With(h, x) /\ r.ptr = new.ptr
      BY <1>11 DEF x, g
    <2>6. Realloced(r, s, t, ptr, size, n)
      BY <1>3, <1>11, <2>1, <2>4, <2>5 DEF Realloced
    <2> QED BY <2>6 DEF r, n
  <1> QED BY <1>1, <1>6, <1>7, <1>8, <1>9, <1>10, <1>11

(* multiheap_realloc: the same, in the heap that the pointer lies in, or   *)
(* a new allocation for a pointer that lies in none.                       *)
MultiRealloced(r, mh, ptr, size, n) ==
    /\ MultiHeapOK(r.mh)
    /\ size = 0 => r.ptr = NULL
    /\ r.ptr # NULL =>
          /\ n > 0
          /\ \/ r.ptr = ptr /\ \E k \in Heaps : S(k) <= r.ptr /\ r.ptr <= S(k) + N(k)
             \/ \E k \in Heaps : r.ptr \in Nat /\ S(k) <= r.ptr /\ r.ptr + n <= S(k) + N(k)

(* multiheap_realloc gives NULL, the pointer it was given, or the start of *)
(* a run within a heap.                                                    *)
LEMMA MultiRealloc ==
    ASSUME NEW mh, MultiHeapOK(mh), NEW ptr \in Nat, NEW size \in Nat, BlocksFor(size) <= Slack
    PROVE  MultiRealloced(multiheap_realloc(mh, ptr, size), mh, ptr, size, BlocksFor(size))
  <1> DEFINE in == multiheap_get_heap_for_address(mh, ptr)
             k  == Min(in)
             r  == multiheap_realloc(mh, ptr, size)
             n  == BlocksFor(size)
             c  == heap_realloc(mh[k], ptr, size)
  <1>0. DOMAIN mh = Heaps /\ Heaps \subseteq Nat
    BY LayoutHolds DEF MultiHeapOK, Layout
  <1>1. CASE in = {}
    <2>1. r = multiheap_alloc(mh, size)
      BY <1>1 DEF multiheap_realloc
    <2>2. Alloced(r, mh, n)
      BY <2>1, Alloc
    <2>3. size = 0 => n = 0
      BY BlocksForBytes
    <2> HIDE DEF r, n
    <2>4. /\ MultiHeapOK(r.mh) /\ Grows(mh, r.mh)
          /\ r.ptr # NULL => /\ n \in Nat /\ n > 0 /\ r.ptr \in Nat
                             /\ \E l \in Heaps : S(l) <= r.ptr /\ r.ptr + n <= S(l) + N(l)
      BY <2>2 DEF Alloced
    <2>5. size = 0 => r.ptr = NULL
      BY <2>3, <2>4
    <2>7. MultiRealloced(r, mh, ptr, size, n)
      BY <2>4, <2>5 DEF MultiRealloced
    <2> QED BY <2>7 DEF r, n
  <1>2. CASE in # {}
    <2>1. k \in in
      <3>1. in \subseteq Nat
        BY <1>0 DEF multiheap_get_heap_for_address
      <3> HIDE DEF in
      <3> QED BY <1>2, <3>1, MinNatural
    <2>2. k \in Heaps /\ ptr \in mh[k].saddr .. mh[k].saddr + mh[k].total
      BY <1>0, <2>1 DEF multiheap_get_heap_for_address, Eaddr
    <2>3. /\ mh[k] \in HeapsAt(S(k), N(k)) /\ S(k) \in Nat \ {0} /\ N(k) \in Nat
      BY <2>2, LayoutHolds DEF MultiHeapOK, Layout
    <2>4. ptr \in S(k) .. S(k) + N(k)
      BY <2>2, <2>3, PagesAt
    <2>5. Realloced(c, S(k), N(k), ptr, size, n)
      BY <2>3, <2>4, HeapRealloc
    <2>6. r = [mh |-> [mh EXCEPT ![k] = c.heap], ptr |-> c.ptr]
      BY <1>2 DEF multiheap_realloc
    <2>7. r.mh = [mh EXCEPT ![k] = c.heap] /\ r.ptr = c.ptr
      BY <2>6, AllocFields
    <2>8. c.heap \in HeapsAt(S(k), N(k))
      BY <2>5 DEF Realloced
    <2> HIDE DEF k, c
    <2> DEFINE x == c.heap
               y == [mh EXCEPT ![k] = x]
    <2> HIDE DEF x
    <2>9. /\ MultiHeapOK(y)
         
          /\ \A l \in Heaps : l # k => y[l] = mh[l]
      BY <2>2, <2>8, HeapReplaced DEF x
    <2>10. r.mh = y
      BY <2>7 DEF x
    <2> HIDE DEF y, r, n
    <2>11. MultiRealloced(r, mh, ptr, size, n)
      BY <2>2, <2>3, <2>4, <2>5, <2>7, <2>9, <2>10 DEF Realloced, MultiRealloced
    <2> QED BY <2>11 DEF r, n
  <1> QED BY <1>1, <1>2

(* realloc of NULL is malloc: no heap begins at address 0. *)
LEMMA ReallocNull ==
    ASSUME NEW mh, MultiHeapOK(mh), NEW size
    PROVE  multiheap_realloc(mh, NULL, size) = multiheap_alloc(mh, size)
  <1>1. ASSUME NEW k \in DOMAIN mh PROVE NULL \notin mh[k].saddr .. Eaddr(mh[k])
    <2>1. k \in Heaps
      BY DEF MultiHeapOK
    <2>2. mh[k] \in HeapsAt(S(k), N(k)) /\ S(k) \in Nat \ {0} /\ N(k) \in Nat
      BY <2>1, LayoutHolds DEF MultiHeapOK, Layout
    <2>3. mh[k].saddr = S(k) /\ mh[k].total = N(k)
      BY <2>2, PagesAt
    <2> QED BY <2>2, <2>3 DEF NULL, Eaddr
  <1>2. multiheap_get_heap_for_address(mh, NULL) = {}
    BY <1>1 DEF multiheap_get_heap_for_address
  <1> QED BY <1>2 DEF multiheap_realloc

-----------------------------------------------------------------------------
(* heap_realloc, of a run of blocks in a heap that nothing upset.          *)

(* The m pages from p on are taken, and chained as heap_malloc leaves them. *)
Run(h, s, t, p, m) ==
    /\ s <= p /\ p + m <= s + t
    /\ \A i \in p - s .. p - s + m - 1 : Marked(h, i)
    /\ \A i \in p - s .. p - s + m - 2 : Chained(h, i)

(* The walk along a run does not end before the run does. *)
LEMMA WalkCovers ==
    ASSUME NEW s \in Nat, NEW t \in Nat, NEW h, NEW p \in Nat, NEW m \in Nat, m > 0, Run(h, s, t, p, m),
           NEW c, c = H(t)!ChainEnd(h.entries, p - s)
    PROVE  c \in Int /\ p - s + m - 1 <= c /\ c <= t - 1
           /\ \A i \in p - s .. c - 1 : Chained(h, i)
  <1> DEFINE b == p - s
  <1>1. b \in 0 .. t /\ b \in Nat /\ b + m <= t
    BY DEF Run
  <1>2. /\ c \in Int /\ c <= t - 1 /\ b - 1 <= c
        /\ \A i \in b .. c - 1 : "HEAP_BLOCK_HAS_NEXT" \in h.entries[i]
        /\ c = t - 1 \/ (b <= c /\ "HEAP_BLOCK_HAS_NEXT" \notin h.entries[c])
    BY <1>1, WalkEnds
  <1>3. c = t - 1 \/ (b <= c /\ c \notin b .. b + m - 2)
    BY <1>2 DEF Run, Chained
  <1>4. b + m - 1 <= c
    BY <1>1, <1>2, <1>3
  <1> QED
    BY <1>2, <1>4 DEF Chained

(* What the count of blocks from a run on is: all of them are taken. *)
LEMMA CountCovers ==
    ASSUME NEW s \in Nat, NEW t \in Nat, NEW h, NEW p \in Nat, NEW m \in Nat, m > 0, Run(h, s, t, p, m),
           ChainsTaken(h, t), NEW cur, cur = H(t)!heap_allocation_block_count(h.entries, p - s)
    PROVE  cur \in Nat /\ m <= cur /\ Run(h, s, t, p, cur)
  <1> DEFINE b == p - s
             c == H(t)!ChainEnd(h.entries, b)
             B == {i \in b .. c : ~H(t)!IsFree(h.entries, i)}
  <1>1. b \in 0 .. t /\ b \in Nat /\ b + m <= t
    BY DEF Run
  <1>2. /\ c \in Int /\ b + m - 1 <= c /\ c <= t - 1
        /\ \A i \in b .. c - 1 : Chained(h, i)
    BY WalkCovers
  <1>3. cur = Cardinality(B)
    BY SameCardinality DEF H!heap_allocation_block_count
  <1> HIDE DEF c
  <1>4. \A i \in b .. c : i \in B <=> Marked(h, i)
    BY DEF H!IsFree, H!TAKEN, Marked
  <1>5. \A i \in b .. c - 1 : Marked(h, i)
    BY <1>1, <1>2 DEF ChainsTaken
  <1>6. CASE Marked(h, c)
    <2>1. B = b .. c
      BY <1>1, <1>2, <1>4, <1>5, <1>6
    <2>2. cur = c - b + 1
      <3>1. b \in Int /\ c \in Int /\ ~(b > c)
        BY <1>1, <1>2
      <3>2. Cardinality(b .. c) = c - b + 1
        BY <3>1, FS_Interval
      <3> QED
        BY <1>3, <2>1, <3>2
    <2>3. b .. b + cur - 1 = b .. c /\ b .. b + cur - 2 = b .. c - 1 /\ p + cur <= s + t
      BY <1>1, <1>2, <2>2
    <2>4. \A i \in b .. b + cur - 1 : Marked(h, i)
      BY <2>1, <2>3, <1>4
    <2>5. \A i \in b .. b + cur - 2 : Chained(h, i)
      BY <2>3, <1>2
    <2> QED
      BY <1>1, <1>2, <2>2, <2>3, <2>4, <2>5 DEF Run
  <1>7. CASE ~Marked(h, c)
    <2>1. B = b .. c - 1
      BY <1>1, <1>2, <1>4, <1>5, <1>7
    <2>2. c \notin b .. b + m - 1
      BY <1>7 DEF Run
    <2>3. b + m <= c
      BY <1>1, <1>2, <2>2
    <2>4. cur = c - b
      <3>1. b \in Int /\ c - 1 \in Int /\ ~(b > c - 1)
        BY <1>1, <1>2, <2>3
      <3>2. Cardinality(b .. c - 1) = c - 1 - b + 1
        BY <3>1, FS_Interval
      <3>3. c - 1 - b + 1 = c - b
        BY <1>1, <1>2
      <3> QED
        BY <1>3, <2>1, <3>2, <3>3
    <2>5. b .. b + cur - 1 = b .. c - 1 /\ b .. b + cur - 2 = b .. c - 2 /\ p + cur <= s + t
      BY <1>1, <1>2, <2>4
    <2>6. \A i \in b .. b + cur - 1 : Marked(h, i)
      BY <2>1, <2>5, <1>5
    <2>7. \A i \in b .. b + cur - 2 : Chained(h, i)
      BY <1>1, <2>4, <2>5, <1>2
    <2> QED
      BY <1>1, <1>2, <2>3, <2>4, <2>5, <2>6, <2>7 DEF Run
  <1> QED
    BY <1>6, <1>7

(* What heap_realloc does to a run of m pages from ptr on, asked for n. *)
Kept(r, h, s, t, ptr, m, n, size) ==
    /\ Taken(h) \subseteq Taken(r.heap) /\ Sound(r.heap, t)
    /\ \A i \in 0 .. t - 1 : Chained(h, i) => Chained(r.heap, i)
    /\ \/ r.ptr = NULL /\ size # 0
       \/ r.ptr = ptr /\ m <= n /\ Run(r.heap, s, t, ptr, n)

Lost(r, h, ptr, m, n) ==
    /\ Taken(h) \ Taken(r.heap) # {}
    /\ \A f \in ptr .. ptr + m - 1 :
          f \in Taken(h) \ Taken(r.heap) \/ (r.ptr = ptr /\ f \in ptr .. ptr + n - 1)

Over(r, h, s, t, ptr, m, n) ==
    /\ Taken(h) \subseteq Taken(r.heap)
    /\ r.ptr = ptr /\ m <= n /\ ptr + n > s + t

(* The blocks from b to c are free. *)
Emptied(q, b, c) == \A i \in b .. c : q.entries[i] = {}

(* A page of a run of blocks that was freed. *)
LEMMA FreedRun ==
    ASSUME NEW s \in Nat, NEW t \in Nat, NEW h \in HeapsAt(s, t), NEW q \in HeapsAt(s, t),
           NEW b \in Int, NEW c \in Int, c <= t - 1, NEW f, f - s \in b .. c, f \in Taken(h),
           Emptied(q, b, c)
    PROVE  f \in Taken(h) \ Taken(q)
  <1>1. q.saddr = s /\ q.total = t
    BY PagesAt
  <1>2. q.entries[f - s] = {}
    BY DEF Emptied
  <1> QED
    BY <1>1, <1>2, InTaken DEF Marked

(* The pages of a run are taken. *)
LEMMA RunPages ==
    ASSUME NEW s \in Nat, NEW t \in Nat, NEW h \in HeapsAt(s, t), NEW p \in Nat, NEW m \in Nat, Run(h, s, t, p, m),
           NEW f \in p .. p + m - 1
    PROVE  f \in Taken(h) /\ f - s \in p - s .. p - s + m - 1 /\ f - s \in 0 .. t - 1
  <1>1. h.saddr = s /\ PagesIn(h) = s .. s + t - 1
    BY PagesAt
  <1>2. f \in Int /\ f - s \in p - s .. p - s + m - 1 /\ f \in s .. s + t - 1 /\ f - s \in 0 .. t - 1
    BY DEF Run
  <1>3. Marked(h, f - s)
    BY <1>2 DEF Run
  <1> QED
    BY <1>1, <1>2, <1>3, InTaken

(* A table that was freed from block b to block c. *)
FreedTo(x, e, t, b, c) ==
    /\ x.entries \in [0 .. t + Slack - 1 -> SUBSET BlockFlags] /\ x.used \in Int /\ x.free \in Int
    /\ \A i \in 0 .. t + Slack - 1 : x.entries[i] = IF i \in b .. c THEN {} ELSE e[i]

(* heap_free frees to the end of the chain. *)
LEMMA FreesChain ==
    ASSUME NEW s \in Nat, NEW t \in Nat, NEW g \in HeapsAt(s, t), NEW b \in 0 .. t
    PROVE  FreedTo(H(t)!AfterFree(g, b), g.entries, t, b, H(t)!ChainEnd(g.entries, b))
  <1> DEFINE c == H(t)!ChainEnd(g.entries, b)
             x == H(t)!AfterFree(g, b)
  <1>1. g.entries \in [0 .. t + Slack - 1 -> SUBSET BlockFlags] /\ g.used \in Int /\ g.free \in Int
    BY DEF HeapsAt
  <1>2. c \in Int
    BY WalkEnds
  <1>3. /\ x.entries = [i \in DOMAIN g.entries |-> IF i \in b .. c THEN {} ELSE g.entries[i]]
        /\ x.used = H(t)!Wrap(g.used - (c - b + 1)) /\ x.free = H(t)!Wrap(g.free + (c - b + 1))
    BY DEF H!AfterFree, H!heap_mark_blocks_free, H!BlocksFreed
  <1> HIDE DEF c, x
  <1>4. x.used \in Int /\ x.free \in Int
    BY <1>1, <1>2, <1>3, WrapInt
  <1>5. \A i \in 0 .. t + Slack - 1 : x.entries[i] = IF i \in b .. c THEN {} ELSE g.entries[i]
    BY <1>1, <1>3
  <1>6. x.entries \in [0 .. t + Slack - 1 -> SUBSET BlockFlags]
    BY <1>1, <1>3
  <1>7. FreedTo(x, g.entries, t, b, c)
    BY <1>4, <1>5, <1>6 DEF FreedTo
  <1> QED
    BY <1>7 DEF c, x

(* heap_free of a run of pages, in heap g, which has all that h has. *)
LEMMA ReallocFrees ==
    ASSUME NEW s \in Nat, NEW t \in Nat, NEW h \in HeapsAt(s, t), NEW g \in HeapsAt(s, t),
           NEW p \in Nat, NEW m \in Nat, m > 0,
           Run(h, s, t, p, m), Run(g, s, t, p, m),
           NEW n, NEW r, r.heap = With(h, H(t)!AfterFree(g, p - s))
    PROVE  Lost(r, h, p, m, n)
  <1> DEFINE b == p - s
             c == H(t)!ChainEnd(g.entries, b)
             x == H(t)!AfterFree(g, b)
  <1>1. b \in 0 .. t /\ b = p - s
    BY DEF Run
  <1>2. c \in Int /\ b + m - 1 <= c /\ c <= t - 1
    BY WalkCovers
  <1>4. FreedTo(x, g.entries, t, b, c)
    <2> HIDE DEF b
    <2> QED
      BY <1>1, FreesChain
  <1>5. r.heap \in HeapsAt(s, t) /\ r.heap.entries = x.entries
    <2>1. r.heap = With(h, x)
      OBVIOUS
    <2>2. x.entries \in [0 .. t + Slack - 1 -> SUBSET BlockFlags] /\ x.used \in Int /\ x.free \in Int
      BY <1>4 DEF FreedTo
    <2> HIDE DEF x
    <2> QED
      BY <2>1, <2>2, WithTyped
  <1>6. Slack \in Nat
    BY MultiHeapAssumption
  <1> HIDE DEF b, c, x
  <1>7. ASSUME NEW i \in b .. c PROVE r.heap.entries[i] = {}
    <2>1. i \in 0 .. t + Slack - 1
      BY <1>1, <1>2, <1>6
    <2> QED
      BY <1>4, <1>5, <2>1 DEF FreedTo
  <1>a. Emptied(r.heap, b, c)
    BY <1>7 DEF Emptied
  <1>8. ASSUME NEW f \in p .. p + m - 1 PROVE f \in Taken(h) \ Taken(r.heap)
    <2>1. f \in Taken(h) /\ f - s \in b .. b + m - 1
      BY <1>1, RunPages
    <2>2. f - s \in b .. c
      BY <1>1, <1>2, <2>1
    <2>3. b \in Int /\ c \in Int /\ c <= t - 1
      BY <1>1, <1>2
    <2> QED
      BY <1>5, <1>a, <2>1, <2>2, <2>3, FreedRun
  <1>9. p \in p .. p + m - 1
    OBVIOUS
  <1> QED
    BY <1>8, <1>9 DEF Lost

(* A part of a run is a run. *)
LEMMA RunPart ==
    ASSUME NEW s \in Nat, NEW t \in Nat, NEW h, NEW p \in Nat, NEW m \in Nat, Run(h, s, t, p, m),
           NEW n \in Nat, n < m
    PROVE  Run(h, s, t, p + n, m - n)
  BY DEF Run

(* The shrinking branch: what lies behind the n blocks is freed, although  *)
(* the run may have been no longer than that.                              *)
LEMMA ReallocShrinks ==
    ASSUME NEW s \in Nat, NEW t \in Nat, NEW h \in HeapsAt(s, t), NEW p \in Nat, NEW m \in Nat, m > 0,
           NEW cur \in Nat, m <= cur, Run(h, s, t, p, m), Run(h, s, t, p, cur),
           NEW n \in Nat, n > 0, n < cur,
           NEW r, r.heap = With(h, H(t)!AfterShrink(h, p - s, cur, n)), r.ptr = p
    PROVE  Lost(r, h, p, m, n)
  <1> DEFINE b == p - s
             c == H(t)!ChainEnd(h.entries, b + n)
             g == H(t)!AfterFree(h, b + n)
             x == H(t)!AfterShrink(h, b, cur, n)
  <1>1. b \in Nat /\ b + cur <= t /\ b + n \in 0 .. t /\ b + n = (p + n) - s
    BY DEF Run
  <1>2. Run(h, s, t, p + n, cur - n)
    BY RunPart
  <1>3. c \in Int /\ b + cur - 1 <= c /\ c <= t - 1
    <2>1. p + n \in Nat /\ cur - n \in Nat /\ cur - n > 0 /\ c = H(t)!ChainEnd(h.entries, (p + n) - s)
      BY <1>1
    <2>2. c \in Int /\ (p + n) - s + (cur - n) - 1 <= c /\ c <= t - 1
      BY <1>2, <2>1, WalkCovers
    <2> QED
      BY <1>1, <2>2
  <1>4. FreedTo(g, h.entries, t, b + n, c)
    BY <1>1, FreesChain
  <1>5. /\ x.entries = [g.entries EXCEPT ![b + n - 1] = @ \ {"HEAP_BLOCK_HAS_NEXT"}]
        /\ x.used = H(t)!Wrap(g.used - (cur - n)) /\ x.free = H(t)!Wrap(g.free + (cur - n))
    BY DEF H!AfterShrink, H!HAS_NEXT
  <1>a. r.heap = With(h, x) /\ b = p - s
    OBVIOUS
  <1>b. Slack \in Nat
    BY MultiHeapAssumption
  <1> HIDE DEF b, c, g, x
  <1>6. x.used \in Int /\ x.free \in Int
    BY <1>4, <1>5, WrapInt DEF FreedTo
  <1>7. x.entries \in [0 .. t + Slack - 1 -> SUBSET BlockFlags]
    BY <1>4, <1>5 DEF FreedTo
  <1>8. r.heap \in HeapsAt(s, t) /\ r.heap.entries = x.entries
    BY <1>6, <1>7, <1>a, WithTyped
  <1>9. ASSUME NEW i \in b + n .. c PROVE r.heap.entries[i] = {}
    <2>1. i \in 0 .. t + Slack - 1 /\ i # b + n - 1
      BY <1>1, <1>3, <1>b
    <2>2. g.entries[i] = {} /\ g.entries \in [0 .. t + Slack - 1 -> SUBSET BlockFlags]
      BY <1>4, <2>1 DEF FreedTo
    <2>3. x.entries[i] = g.entries[i]
      BY <1>5, <2>1, <2>2
    <2> QED
      BY <1>8, <2>2, <2>3
  <1>10. Emptied(r.heap, b + n, c)
    BY <1>9 DEF Emptied
  <1>11. ASSUME NEW f \in p + n .. p + cur - 1 PROVE f \in Taken(h) \ Taken(r.heap)
    <2>1. f \in p .. p + cur - 1 /\ f - s \in b + n .. c
      BY <1>1, <1>3, <1>a
    <2>2. f \in Taken(h)
      BY <2>1, RunPages
    <2>3. b + n \in Int /\ c \in Int /\ c <= t - 1
      BY <1>1, <1>3
    <2> QED
      BY <1>8, <1>10, <2>1, <2>2, <2>3, FreedRun
  <1>12. p + n \in p + n .. p + cur - 1
    OBVIOUS
  <1>13. ASSUME NEW f \in p .. p + m - 1
         PROVE  f \in Taken(h) \ Taken(r.heap) \/ (r.ptr = p /\ f \in p .. p + n - 1)
    <2>1. f \in p + n .. p + cur - 1 \/ f \in p .. p + n - 1
      OBVIOUS
    <2> QED
      BY <1>11, <2>1
  <1> QED
    BY <1>11, <1>12, <1>13 DEF Lost

(* The extending branch, which marks the blocks behind the run. *)
Extended(x, h, t, b, cur, n) ==
    /\ x.entries \in [0 .. t + Slack - 1 -> SUBSET BlockFlags] /\ x.used \in Int /\ x.free \in Int
    /\ x.free = H(t)!Wrap(h.free - (n - cur))
    /\ \A i \in 0 .. t + Slack - 1 :
          x.entries[i] = IF i = b + cur - 1 THEN h.entries[i] \cup {"HEAP_BLOCK_HAS_NEXT"}
                         ELSE IF i \in b + cur .. b + n - 2 THEN {"HEAP_BLOCK_TABLE_ENTRY_TAKEN", "HEAP_BLOCK_HAS_NEXT"}
                         ELSE IF i = b + n - 1 THEN {"HEAP_BLOCK_TABLE_ENTRY_TAKEN"}
                         ELSE h.entries[i]

(* What heap_realloc makes of the table when it extends a run in place. *)
LEMMA ExtendsRun ==
    ASSUME NEW s \in Nat, NEW t \in Nat, NEW h \in HeapsAt(s, t), NEW b \in Nat, NEW cur \in Nat, NEW n \in Nat
    PROVE  Extended(H(t)!AfterExtend(h, b, cur, n), h, t, b, cur, n)
  <1> DEFINE x == H(t)!AfterExtend(h, b, cur, n)
  <1>1. h.entries \in [0 .. t + Slack - 1 -> SUBSET BlockFlags] /\ h.used \in Int /\ h.free \in Int
    BY DEF HeapsAt
  <1>2. /\ x.entries = [i \in DOMAIN h.entries |->
              IF i = b + cur - 1 THEN h.entries[i] \cup {"HEAP_BLOCK_HAS_NEXT"}
              ELSE IF i \in b + cur .. b + n - 2 THEN {"HEAP_BLOCK_TABLE_ENTRY_TAKEN", "HEAP_BLOCK_HAS_NEXT"}
              ELSE IF i = b + n - 1 THEN {"HEAP_BLOCK_TABLE_ENTRY_TAKEN"}
              ELSE h.entries[i]]
        /\ x.used = H(t)!Wrap(h.used + (n - cur)) /\ x.free = H(t)!Wrap(h.free - (n - cur))
    BY DEF H!AfterExtend, H!HAS_NEXT, H!TAKEN
  <1> HIDE DEF x
  <1>3. x.used \in Int /\ x.free \in Int
    BY <1>1, <1>2, WrapInt
  <1>4. x.entries \in [0 .. t + Slack - 1 -> SUBSET BlockFlags]
    <2>1. DOMAIN h.entries = 0 .. t + Slack - 1 /\ \A i \in 0 .. t + Slack - 1 : h.entries[i] \in SUBSET BlockFlags
      BY <1>1
    <2> DEFINE F(i) == IF i = b + cur - 1 THEN h.entries[i] \cup {"HEAP_BLOCK_HAS_NEXT"}
              ELSE IF i \in b + cur .. b + n - 2 THEN {"HEAP_BLOCK_TABLE_ENTRY_TAKEN", "HEAP_BLOCK_HAS_NEXT"}
              ELSE IF i = b + n - 1 THEN {"HEAP_BLOCK_TABLE_ENTRY_TAKEN"}
              ELSE h.entries[i]
    <2>2. \A i \in 0 .. t + Slack - 1 : F(i) \in SUBSET BlockFlags
      BY <2>1 DEF BlockFlags
    <2>3. x.entries = [i \in 0 .. t + Slack - 1 |-> F(i)]
      BY <1>2, <2>1
    <2> HIDE DEF F
    <2> QED
      BY <2>2, <2>3
  <1>5. Extended(x, h, t, b, cur, n)
    BY <1>1, <1>2, <1>3, <1>4 DEF Extended
  <1> QED
    BY <1>5 DEF x

(* An extension that stays in the table takes free blocks and keeps all    *)
(* else; one that does not is as long as the heap's end allows, and more.  *)
LEMMA ReallocExtends ==
    ASSUME NEW s \in Nat, NEW t \in Nat, Word > 2 * (t + Slack), NEW h \in HeapsAt(s, t), Sound(h, t),
           NEW p \in Nat, NEW m \in Nat, m > 0, NEW cur \in Nat, m <= cur, Run(h, s, t, p, cur),
           NEW n \in Nat, cur < n, n <= Slack, NEW size, size # 0,
           \A i \in p - s + cur .. p - s + n - 1 : ~Marked(h, i),
           NEW r, r.heap = With(h, H(t)!AfterExtend(h, p - s, cur, n)), r.ptr = p
    PROVE  Kept(r, h, s, t, p, m, n, size) \/ Over(r, h, s, t, p, m, n)
  <1> DEFINE b == p - s
             x == H(t)!AfterExtend(h, b, cur, n)
             q == r.heap
  <1>1. b \in Nat /\ b + cur <= t /\ b = p - s
    BY DEF Run
  <1>2. Extended(x, h, t, b, cur, n)
    BY <1>1, ExtendsRun
  <1>3. q = With(h, x)
    OBVIOUS
  <1>4. Slack \in Nat
    BY MultiHeapAssumption
  <1> HIDE DEF x, q, b
  <1>5. q \in HeapsAt(s, t) /\ q.entries = x.entries /\ q.free = x.free
    <2>1. x.entries \in [0 .. t + Slack - 1 -> SUBSET BlockFlags] /\ x.used \in Int /\ x.free \in Int
      BY <1>2 DEF Extended
    <2> QED
      BY <1>3, <2>1, WithTyped
  <1>6. ASSUME NEW i \in 0 .. t - 1
        PROVE  /\ i = b + cur - 1 => q.entries[i] = h.entries[i] \cup {"HEAP_BLOCK_HAS_NEXT"} /\ Marked(h, i)
               /\ i \in b + cur .. b + n - 2 => q.entries[i] = {"HEAP_BLOCK_TABLE_ENTRY_TAKEN", "HEAP_BLOCK_HAS_NEXT"}
               /\ i = b + n - 1 => q.entries[i] = {"HEAP_BLOCK_TABLE_ENTRY_TAKEN"}
               /\ i \notin b + cur - 1 .. b + n - 1 => q.entries[i] = h.entries[i]
    <2>1. i \in 0 .. t + Slack - 1
      BY <1>4
    <2>2. q.entries[i] = IF i = b + cur - 1 THEN h.entries[i] \cup {"HEAP_BLOCK_HAS_NEXT"}
                         ELSE IF i \in b + cur .. b + n - 2 THEN {"HEAP_BLOCK_TABLE_ENTRY_TAKEN", "HEAP_BLOCK_HAS_NEXT"}
                         ELSE IF i = b + n - 1 THEN {"HEAP_BLOCK_TABLE_ENTRY_TAKEN"}
                         ELSE h.entries[i]
      BY <1>2, <1>5, <2>1 DEF Extended
    <2>3. i = b + cur - 1 => Marked(h, i)
      BY <1>1 DEF Run
    <2> QED
      BY <1>1, <2>2, <2>3
  <1>7. ASSUME NEW i \in 0 .. t - 1
        PROVE  /\ Marked(q, i) <=> Marked(h, i) \/ i \in b + cur .. b + n - 1
               /\ Chained(q, i) <=> Chained(h, i) \/ i \in b + cur - 1 .. b + n - 2
    <2>1. i \in b + cur .. b + n - 1 => ~Marked(h, i) /\ ~Chained(h, i)
      <3>1. i \in b + cur .. b + n - 1 => ~Marked(h, i)
        BY <1>1
      <3>2. Chained(h, i) => Marked(h, i)
        BY DEF Sound, ChainsTaken
      <3> QED BY <3>1, <3>2
    <2>2. CASE i = b + cur - 1
      BY <1>1, <1>6, <2>2 DEF Marked, Chained
    <2>3. CASE i \in b + cur .. b + n - 2
      BY <1>1, <1>6, <2>3 DEF Marked, Chained
    <2>4. CASE i = b + n - 1
      BY <1>1, <1>6, <2>1, <2>4 DEF Marked, Chained
    <2>5. CASE i \notin b + cur - 1 .. b + n - 1
      BY <1>1, <1>6, <2>5 DEF Marked, Chained
    <2> QED
      BY <1>1, <2>2, <2>3, <2>4, <2>5
  <1>8. /\ h.saddr = s /\ PagesIn(h) = s .. s + t - 1
        /\ q.saddr = s /\ PagesIn(q) = s .. s + t - 1
    BY <1>5, PagesAt
  <1>9. ASSUME NEW f \in s .. s + t - 1
        PROVE  f \in Taken(q) <=> f \in Taken(h) \/ f \in p + cur .. p + n - 1
    <2>1. f - s \in 0 .. t - 1 /\ (f - s \in b + cur .. b + n - 1 <=> f \in p + cur .. p + n - 1)
      BY <1>1
    <2> QED
      BY <1>7, <1>8, <2>1, InTaken
  <1>10. Taken(h) \subseteq Taken(q)
    BY <1>8, <1>9, InTaken
  <1>11. CASE p + n > s + t
    BY <1>10, <1>11 DEF Over, q
  <1>12. CASE p + n <= s + t
    <2>8. ChainsTaken(q, t)
      <3> SUFFICES ASSUME NEW i \in 0 .. t - 1, Chained(q, i) PROVE Marked(q, i)
        BY DEF ChainsTaken
      <3>1. CASE Chained(h, i)
        BY <1>7, <3>1 DEF Sound, ChainsTaken
      <3>2. CASE i \in b + cur - 1 .. b + n - 2
        <4>1. CASE i = b + cur - 1
          BY <1>6, <1>7, <4>1
        <4>2. CASE i # b + cur - 1
          BY <1>1, <1>7, <3>2, <4>2
        <4> QED BY <4>1, <4>2
      <3> QED BY <1>7, <3>1, <3>2
    <2>9. Run(q, s, t, p, n)
      <3>1. ASSUME NEW i \in b .. b + n - 1 PROVE Marked(q, i)
        <4>1. i \in 0 .. t - 1 /\ (i \in b .. b + cur - 1 \/ i \in b + cur .. b + n - 1)
          BY <1>1, <1>12
        <4>2. i \in b .. b + cur - 1 => Marked(h, i)
          BY <1>1 DEF Run
        <4> QED BY <1>7, <4>1, <4>2
      <3>2. ASSUME NEW i \in b .. b + n - 2 PROVE Chained(q, i)
        <4>1. i \in 0 .. t - 1 /\ (i \in b .. b + cur - 2 \/ i \in b + cur - 1 .. b + n - 2)
          BY <1>1, <1>12
        <4>2. i \in b .. b + cur - 2 => Chained(h, i)
          BY <1>1 DEF Run
        <4> QED BY <1>7, <4>1, <4>2
      <3> QED
        BY <1>1, <1>12, <3>1, <3>2 DEF Run
    <2>10. \A i \in 0 .. t - 1 : Chained(h, i) => Chained(q, i)
      BY <1>7
    <2> QED
      BY <1>10, <2>8, <2>9, <2>10 DEF Kept, Sound, q
  <1> QED
    BY <1>11, <1>12, <1>1

(* A heap with its own fields put back is the heap. *)
LEMMA WithItself ==
    ASSUME NEW s, NEW t, NEW h \in HeapsAt(s, t)
    PROVE  With(h, h) = h
  BY DEF With, HeapsAt

(* Kept as it is. *)
LEMMA SameKept ==
    ASSUME NEW s \in Nat, NEW t \in Nat, NEW h, Sound(h, t), NEW p, NEW m, NEW n, NEW size, size # 0, NEW r,
           r.heap = h, r.ptr = NULL \/ (r.ptr = p /\ m <= n /\ Run(h, s, t, p, n))
    PROVE  Kept(r, h, s, t, p, m, n, size)
  BY DEF Kept

Resized(r, h, s, t, p, m, n, size) ==
    \/ Kept(r, h, s, t, p, m, n, size)
    \/ Lost(r, h, p, m, n)
    \/ Over(r, h, s, t, p, m, n)

(* heap_realloc of a run of m pages in a heap that nothing upset: the heap *)
(* stays so, or frames were lost, or the run reaches beyond the heap.      *)
LEMMA HeapResizes ==
    ASSUME NEW s \in Nat \ {0}, NEW t \in Nat, Word > 2 * (t + Slack), NEW h \in HeapsAt(s, t), Sound(h, t),
           NEW p \in Nat, NEW m \in Nat, m > 0, Run(h, s, t, p, m), NEW size \in Nat,
           NEW n, n = BlocksFor(size), n <= Slack, NEW r, r = heap_realloc(h, p, size)
    PROVE  Resized(r, h, s, t, p, m, n, size)
  <1> DEFINE b == p - s
             cur == H(t)!heap_allocation_block_count(h.entries, b)
             new == heap_malloc(h, n * PageSize)
  <1>0. p \in s .. s + t /\ b = p - s
    BY DEF Run
  <1>1. /\ b \in 0 .. t /\ cur \in Nat /\ n \in Nat
        /\ \/ size = 0 /\ r = [heap |-> With(h, H(t)!AfterFree(h, b)), ptr |-> NULL]
           \/ size # 0 /\ cur = n /\ r = [heap |-> With(h, h), ptr |-> p]
           \/ size # 0 /\ cur > n /\ r = [heap |-> With(h, H(t)!AfterShrink(h, b, cur, n)), ptr |-> p]
           \/ /\ size # 0 /\ cur < n
              /\ \A i \in b + cur .. b + n - 1 : "HEAP_BLOCK_TABLE_ENTRY_TAKEN" \notin h.entries[i]
              /\ r = [heap |-> With(h, H(t)!AfterExtend(h, b, cur, n)), ptr |-> p]
           \/ /\ size # 0 /\ cur < n
              /\ new.ptr = NULL
              /\ r = [heap |-> With(h, h), ptr |-> NULL]
           \/ /\ size # 0 /\ cur < n
              /\ new.ptr # NULL
              /\ r = [heap |-> With(h, H(t)!AfterFree(new.heap, b)), ptr |-> new.ptr]
    <2>1. b \in 0 .. t /\ cur \in Nat /\ n \in Nat /\ Branch(r, h, t, p, size, n, b, cur)
      BY <1>0, ReallocCases
    <2> QED BY <2>1, Zenon DEF Branch
  <1>2. ChainsTaken(h, t)
    BY DEF Sound
  <1>3. cur \in Nat /\ m <= cur /\ Run(h, s, t, p, cur)
    BY <1>2, CountCovers
  <1>4. size # 0 => n > 0
    BY BlocksForBytes
  <1>5. With(h, h) = h
    BY WithItself
  <1>6. Malloced(new, h, s, t, n) /\ n * PageSize \in Nat
    BY <1>1, MallocedBlocks, BlocksForPages
  <1> HIDE DEF cur, b
  <1>7. CASE size = 0 /\ r = [heap |-> With(h, H(t)!AfterFree(h, b)), ptr |-> NULL]
    <2>1. r.heap = With(h, H(t)!AfterFree(h, p - s))
      BY <1>0, <1>7
    <2>2. Lost(r, h, p, m, n)
      BY <2>1, ReallocFrees
    <2> QED BY <2>2 DEF Resized
  <1>8. CASE size # 0 /\ cur = n /\ r = [heap |-> With(h, h), ptr |-> p]
    <2>1. r.heap = h /\ r.ptr = p
      BY <1>5, <1>8
    <2>2. m <= n /\ Run(h, s, t, p, n)
      BY <1>3, <1>8
    <2>3. Kept(r, h, s, t, p, m, n, size)
      BY <1>8, <2>1, <2>2, SameKept
    <2> QED BY <2>3 DEF Resized
  <1>9. CASE size # 0 /\ cur > n /\ r = [heap |-> With(h, H(t)!AfterShrink(h, b, cur, n)), ptr |-> p]
    <2>1. r.heap = With(h, H(t)!AfterShrink(h, p - s, cur, n)) /\ r.ptr = p
      BY <1>0, <1>9
    <2>2. n > 0 /\ n < cur /\ n \in Nat
      BY <1>1, <1>4, <1>9
    <2>3. Lost(r, h, p, m, n)
      BY <1>3, <2>1, <2>2, ReallocShrinks
    <2> QED BY <2>3 DEF Resized
  <1>10. CASE /\ size # 0 /\ cur < n
              /\ \A i \in b + cur .. b + n - 1 : "HEAP_BLOCK_TABLE_ENTRY_TAKEN" \notin h.entries[i]
              /\ r = [heap |-> With(h, H(t)!AfterExtend(h, b, cur, n)), ptr |-> p]
    <2>1. r.heap = With(h, H(t)!AfterExtend(h, p - s, cur, n)) /\ r.ptr = p
      BY <1>0, <1>10
    <2>2. \A i \in p - s + cur .. p - s + n - 1 : ~Marked(h, i)
      BY <1>0, <1>10 DEF Marked
    <2>3. Kept(r, h, s, t, p, m, n, size) \/ Over(r, h, s, t, p, m, n)
      BY <1>1, <1>3, <1>10, <2>1, <2>2, ReallocExtends
    <2> QED BY <2>3 DEF Resized
  <1>11. CASE size # 0 /\ r = [heap |-> With(h, h), ptr |-> NULL]
    <2>1. r.heap = h /\ r.ptr = NULL
      BY <1>5, <1>11
    <2>2. Kept(r, h, s, t, p, m, n, size)
      BY <1>11, <2>1, SameKept
    <2> QED BY <2>2 DEF Resized
  <1>12. CASE /\ size # 0 /\ new.ptr # NULL
              /\ r = [heap |-> With(h, H(t)!AfterFree(new.heap, b)), ptr |-> new.ptr]
    <2> DEFINE g == new.heap
    <2>1. g \in HeapsAt(s, t)
      BY <1>6 DEF Malloced
    <2>2. ASSUME NEW i \in 0 .. t - 1, Marked(h, i) PROVE g.entries[i] = h.entries[i]
      BY <1>6, <2>2, MallocKeeps
    <2>3. r.heap = With(h, H(t)!AfterFree(g, p - s))
      BY <1>0, <1>12
    <2> HIDE DEF g, new
    <2>4. Run(g, s, t, p, m)
      <3>1. ASSUME NEW i \in p - s .. p - s + m - 1 PROVE g.entries[i] = h.entries[i] /\ Marked(h, i)
        <4>1. i \in 0 .. t - 1 /\ Marked(h, i)
          BY DEF Run
        <4> QED BY <2>2, <4>1
      <3>2. \A i \in p - s .. p - s + m - 1 : Marked(g, i)
        BY <3>1 DEF Marked
      <3>3. \A i \in p - s .. p - s + m - 2 : Chained(g, i)
        <4> SUFFICES ASSUME NEW i \in p - s .. p - s + m - 2 PROVE Chained(g, i)
          OBVIOUS
        <4>1. i \in p - s .. p - s + m - 1
          OBVIOUS
        <4>2. Chained(h, i)
          BY DEF Run
        <4> QED BY <3>1, <4>1, <4>2 DEF Chained
      <3> QED BY <3>2, <3>3 DEF Run
    <2>5. Lost(r, h, p, m, n)
      BY <2>1, <2>3, <2>4, ReallocFrees
    <2> QED BY <2>5 DEF Resized
  <1> QED
    BY <1>1, <1>7, <1>8, <1>9, <1>10, <1>11, <1>12

-----------------------------------------------------------------------------
(* multiheap_realloc, in these terms.                                      *)

(* What the heaps keep: every run is still one. *)
KeepsRuns(mh, q) ==
    \A k \in Heaps : \A i \in 0 .. N(k) - 1 :
        Marked(mh[k], i) =>
            /\ Marked(q[k], i)
            /\ Chained(mh[k], i) => Chained(q[k], i)

(* A run is one in the heaps that keep it. *)
LEMMA RunKept ==
    ASSUME NEW mh, NEW q, KeepsRuns(mh, q), NEW k \in Heaps, NEW p \in Nat, NEW m \in Nat,
           Run(mh[k], S(k), N(k), p, m)
    PROVE  Run(q[k], S(k), N(k), p, m)
  <1>1. S(k) \in Nat /\ N(k) \in Nat
    BY LayoutHolds DEF Layout
  <1>2. ASSUME NEW i \in p - S(k) .. p - S(k) + m - 1
        PROVE  /\ Marked(q[k], i)
               /\ Chained(mh[k], i) => Chained(q[k], i)
    <2>1. i \in 0 .. N(k) - 1 /\ Marked(mh[k], i)
      BY <1>1 DEF Run
    <2> QED BY <2>1 DEF KeepsRuns
  <1>3. \A i \in p - S(k) .. p - S(k) + m - 2 : Chained(q[k], i)
    <2> SUFFICES ASSUME NEW i \in p - S(k) .. p - S(k) + m - 2 PROVE Chained(q[k], i)
      OBVIOUS
    <2>1. i \in p - S(k) .. p - S(k) + m - 1
      BY <1>1
    <2>2. Chained(mh[k], i)
      BY DEF Run
    <2> QED BY <1>2, <2>1, <2>2
  <1> QED
    BY <1>2, <1>3 DEF Run

(* What only grows keeps its runs. *)
LEMMA GrowsKeepsRuns ==
    ASSUME NEW mh, MultiHeapOK(mh), NEW q, MultiHeapOK(q), Grows(mh, q)
    PROVE  KeepsRuns(mh, q)
  BY DEF Grows, KeepsRuns, Marked, Chained

(* The one heap that a page of a heap lies in. *)
LEMMA HeapFor ==
    ASSUME NEW mh, MultiHeapOK(mh), NEW k \in Heaps, NEW p \in S(k) .. S(k) + N(k) - 1
    PROVE  multiheap_get_heap_for_address(mh, p) = {k} /\ Min({k}) = k
  <1>1. \A l \in Heaps : /\ mh[l].saddr = S(l) /\ Eaddr(mh[l]) = S(l) + N(l)
                         /\ S(l) \in Nat /\ N(l) \in Nat /\ l \in Nat
    <2> SUFFICES ASSUME NEW l \in Heaps
                 PROVE  /\ mh[l].saddr = S(l) /\ Eaddr(mh[l]) = S(l) + N(l)
                        /\ S(l) \in Nat /\ N(l) \in Nat /\ l \in Nat
      OBVIOUS
    <2>1. S(l) \in Nat /\ N(l) \in Nat /\ l \in Nat
      BY LayoutHolds DEF Layout
    <2>2. mh[l] \in HeapsAt(S(l), N(l))
      BY DEF MultiHeapOK
    <2>3. mh[l].saddr = S(l) /\ mh[l].total = N(l)
      BY <2>1, <2>2, PagesAt
    <2> QED BY <2>1, <2>3 DEF Eaddr
  <1>2. DOMAIN mh = Heaps
    BY DEF MultiHeapOK
  <1>3. ASSUME NEW l \in Heaps, p \in S(l) .. S(l) + N(l) PROVE l = k
    BY LayoutHolds DEF Layout
  <1>4. multiheap_get_heap_for_address(mh, p) = {l \in Heaps : p \in S(l) .. S(l) + N(l)}
    BY <1>1, <1>2 DEF multiheap_get_heap_for_address
  <1>5. k \in Nat /\ p \in S(k) .. S(k) + N(k)
    BY <1>1
  <1>6. Min({k}) \in {k}
    BY <1>5, MinNatural
  <1> QED
    BY <1>3, <1>4, <1>5, <1>6

(* What multiheap_realloc makes of the heaps, when the pointer is to a run *)
(* of m pages.                                                             *)
AllKept(r, mh, p, m, n, size) ==
    /\ AllSound(r.mh) /\ KeepsRuns(mh, r.mh)
    /\ \/ r.ptr = NULL /\ size # 0
       \/ r.ptr = p /\ m <= n /\ \E k \in Heaps : Run(r.mh[k], S(k), N(k), p, n)

SomeLost(r, mh, p, m, n) ==
    /\ TakenFrames(mh) \ TakenFrames(r.mh) # {}
    /\ \A f \in p .. p + m - 1 :
          f \in TakenFrames(mh) \ TakenFrames(r.mh) \/ (r.ptr = p /\ f \in p .. p + n - 1)

TooLong(r, mh, p, m, n) ==
    /\ r.ptr = p /\ m <= n
    /\ \E f \in p .. p + n - 1 : f \notin TakenFrames(mh) /\ f \notin TakenFrames(r.mh)

MultiResized(r, mh, p, m, n, size) ==
    \/ AllKept(r, mh, p, m, n, size)
    \/ SomeLost(r, mh, p, m, n)
    \/ TooLong(r, mh, p, m, n)

(* The page behind a heap belongs to no heap. *)
LEMMA BehindHeap ==
    ASSUME NEW k \in Heaps, N(k) > 0, NEW mh, MultiHeapOK(mh)
    PROVE  S(k) + N(k) \notin TakenFrames(mh)
  <1> SUFFICES ASSUME S(k) + N(k) \in TakenFrames(mh) PROVE FALSE
    OBVIOUS
  <1>1. PICK l \in Heaps : S(k) + N(k) \in Taken(mh[l])
    BY InTakenFrames
  <1>2. S(k) + N(k) \in S(l) .. S(l) + N(l) - 1
    BY <1>1, TakenInHeap
  <1>3. S(k) \in Nat /\ N(k) \in Nat /\ S(l) \in Nat /\ N(l) \in Nat
    BY LayoutHolds DEF Layout
  <1>4. k = l
    BY LayoutHolds DEF Layout
  <1> QED
    BY <1>2, <1>3, <1>4

(* multiheap_realloc of a run in heaps that nothing upset. *)
LEMMA MultiResizes ==
    ASSUME NEW mh, MultiHeapOK(mh), AllSound(mh), NEW k \in Heaps,
           NEW p \in Nat, NEW m \in Nat, m > 0, Run(mh[k], S(k), N(k), p, m), NEW size \in Nat,
           NEW n, n = BlocksFor(size), n <= Slack, NEW r, r = multiheap_realloc(mh, p, size)
    PROVE  MultiResized(r, mh, p, m, n, size)
  <1> DEFINE h == mh[k]
             c == heap_realloc(h, p, size)
             x == c.heap
             q == [mh EXCEPT ![k] = x]
  <1>1. S(k) \in Nat \ {0} /\ N(k) \in Nat /\ Word > 2 * (N(k) + Slack)
    BY LayoutHolds DEF Layout
  <1>2. p \in S(k) .. S(k) + N(k) - 1 /\ p \in S(k) .. S(k) + N(k) /\ N(k) > 0
    BY <1>1 DEF Run
  <1>3. h \in HeapsAt(S(k), N(k)) /\ Sound(h, N(k))
    BY DEF MultiHeapOK, AllSound
  <1>4. r = [mh |-> q, ptr |-> c.ptr]
    <2>1. multiheap_get_heap_for_address(mh, p) = {k} /\ Min({k}) = k
      BY <1>2, HeapFor
    <2> QED BY <2>1 DEF multiheap_realloc
  <1>5. Realloced(c, S(k), N(k), p, size, n)
    BY <1>1, <1>2, <1>3, HeapRealloc
  <1>6. x \in HeapsAt(S(k), N(k))
    BY <1>5 DEF Realloced
  <1>7. Resized(c, h, S(k), N(k), p, m, n, size)
    <2> HIDE DEF h
    <2>1. Run(h, S(k), N(k), p, m)
      BY DEF h
    <2>2. c = heap_realloc(h, p, size)
      OBVIOUS
    <2> HIDE DEF c
    <2> QED
      BY <1>1, <1>3, <2>1, <2>2, HeapResizes
  <1>8. r.mh = q /\ r.ptr = c.ptr
    BY <1>4
  <1> HIDE DEF x, c
  <1>9. /\ MultiHeapOK(q) /\ q[k] = x
        /\ \A l \in Heaps : l # k => q[l] = mh[l]
    BY <1>6, HeapReplaced
  <1>a. x = c.heap
    BY DEF x
  <1> HIDE DEF q, h
  <1>h. h = mh[k]
    BY DEF h
  <1>10. ASSUME NEW f \in Taken(h) \ Taken(x) PROVE f \in TakenFrames(mh) \ TakenFrames(q)
    <2>1. f \in S(k) .. S(k) + N(k) - 1
      BY <1>h, TakenInHeap
    <2> QED BY <1>9, <1>h, <2>1, NotTaken
  <1>11. CASE Kept(c, h, S(k), N(k), p, m, n, size)
    <2>1. /\ Taken(h) \subseteq Taken(x) /\ Sound(x, N(k))
          /\ \A i \in 0 .. N(k) - 1 : Chained(h, i) => Chained(x, i)
          /\ \/ c.ptr = NULL /\ size # 0
             \/ c.ptr = p /\ m <= n /\ Run(x, S(k), N(k), p, n)
      BY <1>11, <1>a DEF Kept
    <2>2. AllSound(q)
      BY <1>9, <2>1 DEF AllSound
    <2>3. ASSUME NEW i \in 0 .. N(k) - 1, Marked(h, i) PROVE Marked(x, i)
      <3>1. /\ h.saddr = S(k) /\ PagesIn(h) = S(k) .. S(k) + N(k) - 1
            /\ x.saddr = S(k) /\ PagesIn(x) = S(k) .. S(k) + N(k) - 1
        BY <1>1, <1>3, <1>6, PagesAt
      <3>2. S(k) + i \in S(k) .. S(k) + N(k) - 1 /\ (S(k) + i) - S(k) = i
        BY <1>1
      <3>3. S(k) + i \in Taken(h)
        BY <2>3, <3>1, <3>2, InTaken
      <3> QED BY <2>1, <3>1, <3>2, <3>3, InTaken
    <2>4. KeepsRuns(mh, q)
      <3> SUFFICES ASSUME NEW l \in Heaps, NEW i \in 0 .. N(l) - 1, Marked(mh[l], i)
                   PROVE  /\ Marked(q[l], i)
                          /\ Chained(mh[l], i) => Chained(q[l], i)
        BY DEF KeepsRuns
      <3>1. CASE l = k
        BY <1>9, <1>h, <2>1, <2>3, <3>1
      <3>2. CASE l # k
        BY <1>9, <3>2
      <3> QED BY <3>1, <3>2
    <2>5. c.ptr = p /\ m <= n /\ Run(x, S(k), N(k), p, n) => \E l \in Heaps : Run(q[l], S(l), N(l), p, n)
      BY <1>9
    <2> QED
      BY <1>8, <2>1, <2>2, <2>4, <2>5 DEF MultiResized, AllKept
  <1>12. CASE Lost(c, h, p, m, n)
    <2>1. /\ Taken(h) \ Taken(x) # {}
          /\ \A f \in p .. p + m - 1 :
                f \in Taken(h) \ Taken(x) \/ (c.ptr = p /\ f \in p .. p + n - 1)
      BY <1>12, <1>a DEF Lost
    <2>2. SomeLost(r, mh, p, m, n)
      BY <1>8, <1>10, <2>1 DEF SomeLost
    <2> QED BY <2>2 DEF MultiResized
  <1>13. CASE Over(c, h, S(k), N(k), p, m, n)
    <2>1. c.ptr = p /\ m <= n /\ p + n > S(k) + N(k)
      BY <1>13 DEF Over
    <2>2. n \in Nat
      BY BlocksForBytes
    <2>3. S(k) + N(k) \in p .. p + n - 1
      BY <1>1, <1>2, <2>1, <2>2
    <2>4. S(k) + N(k) \notin TakenFrames(mh) /\ S(k) + N(k) \notin TakenFrames(q)
      BY <1>2, <1>9, BehindHeap
    <2>5. TooLong(r, mh, p, m, n)
      BY <1>8, <2>1, <2>3, <2>4 DEF TooLong
    <2> QED BY <2>5 DEF MultiResized
  <1> QED
    BY <1>7, <1>11, <1>12, <1>13 DEF Resized
=============================================================================
