------------------------------- MODULE Vector -------------------------------
(***************************************************************************)
(* The growable array of lib/vector/vector.c, in which the kernel keeps    *)
(* processes, allocations, file handles, disks and windows.                *)
(*                                                                         *)
(* memory[i] is what is stored at vec->memory + i * e_size.  After a       *)
(* failed krealloc vec->memory is NULL, and the same reads and writes go   *)
(* to low memory, whose contents are not the vector's: Junk.  What is      *)
(* written there stays until the vector grows again: krealloc(NULL) is a   *)
(* new allocation, and copies nothing.                                     *)
(***************************************************************************)
EXTENDS Integers, Sequences, SequencesExt

CONSTANTS
    Keys,          \* an element is a key to sort by, and a name
    Names,
    Reserved,      \* t_reserved_elements
    MaxElems,      \* bound: how long the vector gets
    HeapFails      \* whether the heap may run out of memory

ASSUME VectorAssumption ==
    /\ Keys \subseteq Nat
    /\ Reserved \in Nat
    /\ MaxElems \in Nat \ {0}
    /\ HeapFails \in BOOLEAN

Values == Keys \X Names
Junk == <<-1, "junk">>

(* The bound on the elements, and the reserve, bound the cells. *)
Cells == 0 .. MaxElems + Reserved

VARIABLES
    memory,    \* the cells from vec->memory on
    unbacked,  \* vec->memory is NULL
    t_elems,   \* how many elements there are
    tm_elems,  \* how many the memory was allocated for
    res,       \* the result of the last call: not negative, or ERROR
    data_out   \* what the last vector_at copied: {} for zero bytes

vector_vars == <<memory, unbacked, t_elems, tm_elems, res, data_out>>

ERROR == -1

-----------------------------------------------------------------------------
vector_valid_bounds(i) == i \in 0 .. t_elems - 1

(* Fault: a full vector is not grown. *)
FaultRoomFor(n) == tm_elems >= t_elems

(* The test at the head of vector_resize. *)
RoomFor(n) == tm_elems > t_elems + n

CellsFor(n) == Reserved + t_elems + n

(* Fault: what a NULL pointer leads to is copied too. *)
FaultKrealloc(n) == [i \in Cells |-> IF i < tm_elems /\ i < n THEN memory[i] ELSE Junk]

(* krealloc, as vector_resize uses it: the old contents are kept if there  *)
(* are any, what follows them is not initialised.                          *)
krealloc(n) ==
    [i \in Cells |-> IF ~unbacked /\ i < tm_elems /\ i < n THEN memory[i] ELSE Junk]

(* The swap at the centre of vector_reorder, and its two loops. *)
SwapIfGreater(s, j) ==
    IF s[j][1] > s[j + 1][1]
    THEN [s EXCEPT ![j] = s[j + 1], ![j + 1] = s[j]]
    ELSE s

BubbleSort(s) ==
    FoldLeft(LAMBDA t, i : FoldLeft(SwapIfGreater, t, [j \in 1 .. Len(s) - i |-> j]),
             s, [i \in 1 .. Len(s) - 1 |-> i])

Contents == [i \in 1 .. t_elems |-> memory[i - 1]]

-----------------------------------------------------------------------------
(* vector_new *)
VectorInit ==
    /\ memory = [i \in Cells |-> Junk] /\ unbacked = TRUE
    /\ t_elems = 0 /\ tm_elems = 0
    /\ res = 0 /\ data_out = {}

(* vector_push, with vector_resize(vec, 1). *)
vector_push(x) ==
    LET grown == IF RoomFor(1) THEN memory ELSE krealloc(CellsFor(1))
    IN  /\ t_elems < MaxElems
        /\ memory' = [grown EXCEPT ![t_elems] = x]
        /\ tm_elems' = IF RoomFor(1) THEN tm_elems ELSE CellsFor(1)
        /\ unbacked' = (unbacked /\ RoomFor(1))
        /\ t_elems' = t_elems + 1
        /\ res' = t_elems
        /\ UNCHANGED data_out

(* krealloc returned NULL, and the vector forgets where its elements are. *)
VectorPushFails ==
    /\ HeapFails
    /\ t_elems < MaxElems /\ ~RoomFor(1)
    /\ memory' = [i \in Cells |-> Junk] /\ unbacked' = TRUE
    /\ res' = ERROR
    /\ UNCHANGED <<t_elems, tm_elems, data_out>>

vector_overwrite(i, x) ==
    /\ IF vector_valid_bounds(i)
       THEN memory' = [memory EXCEPT ![i] = x] /\ res' = 0
       ELSE res' = ERROR /\ UNCHANGED memory
    /\ UNCHANGED <<unbacked, t_elems, tm_elems, data_out>>

vector_pop ==
    /\ IF t_elems = 0
       THEN res' = ERROR /\ UNCHANGED t_elems
       ELSE res' = 0 /\ t_elems' = t_elems - 1
    /\ UNCHANGED <<memory, unbacked, tm_elems, data_out>>

(* The index is a size_t: -1, which vector_back passes for an empty        *)
(* vector, is out of bounds.                                               *)
vector_at(i) ==
    /\ IF vector_valid_bounds(i)
       THEN res' = 0 /\ data_out' = {memory[i]}
       ELSE res' = ERROR /\ data_out' = {}
    /\ UNCHANGED <<memory, unbacked, t_elems, tm_elems>>

vector_back == vector_at(t_elems - 1)

(* The search of vector_pop_element stops at the first match. *)
FirstIndex(x) == SelectInSeq(Contents, LAMBDA y : y = x) - 1

(* The memory after the elements behind i have moved up by one cell. *)
Without(i) == [k \in Cells |-> IF k \in i .. t_elems - 2 THEN memory[k + 1] ELSE memory[k]]

(* The last element is popped, any other is shifted over: the same cells   *)
(* remain in either case.                                                  *)
vector_pop_element(x) ==
    /\ IF x \in ToSet(Contents)
       THEN memory' = Without(FirstIndex(x)) /\ t_elems' = t_elems - 1 /\ res' = 0
       ELSE res' = ERROR /\ UNCHANGED <<memory, t_elems>>
    /\ UNCHANGED <<unbacked, tm_elems, data_out>>

(* There is no memory for the copy to compare with. *)
VectorPopElementFails ==
    /\ HeapFails
    /\ res' = ERROR
    /\ UNCHANGED <<memory, unbacked, t_elems, tm_elems, data_out>>

(* Without memory for two elements it does nothing. *)
vector_reorder ==
    /\ memory' = [i \in Cells |-> IF i < t_elems THEN BubbleSort(Contents)[i + 1] ELSE memory[i]]
    /\ UNCHANGED <<unbacked, t_elems, tm_elems, res, data_out>>

VectorNext ==
    \/ \E x \in Values : vector_push(x) \/ vector_pop_element(x)
    \/ VectorPushFails
    \/ VectorPopElementFails
    \/ \E i \in -1 .. MaxElems :
          vector_at(i) \/ \E x \in Values : vector_overwrite(i, x)
    \/ vector_pop
    \/ vector_back
    \/ vector_reorder

VectorSpec == VectorInit /\ [][VectorNext]_vector_vars

-----------------------------------------------------------------------------
(* Properties.                                                             *)

(* The count stays within the capacity that vector_resize last recorded,   *)
(* whatever is popped and pushed, and however often krealloc fails: a push *)
(* that finds room writes inside what was once allocated.                  *)
Capacity == t_elems <= tm_elems

List == INSTANCE ElementList
            WITH elems <- Contents, out <- data_out,
                 KeyOf <- LAMBDA x : x[1], MaxIndex <- MaxElems, Lost <- Junk

(* The vector implements the list: growing, shrinking, shifting and        *)
(* sorting neither lose nor invent nor mix up elements, every result is    *)
(* the one the list gives, and elements are lost at a vector_push only:    *)
(* all of them at one that finds no memory, and what was written since at  *)
(* the next one that does.                                                 *)
IsList == List!Spec
=============================================================================
