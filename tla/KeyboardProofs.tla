--------------------------- MODULE KeyboardProofs ---------------------------
(***************************************************************************)
(* The ring buffer of every process implements a queue of characters, for  *)
(* every set of processes and every size of the buffer, as long as no      *)
(* process falls a whole buffer behind.                                    *)
(*                                                                         *)
(* keyboard_push and keyboard_pop keep no count of the cells in use: pop   *)
(* takes a cell that is not NUL for an unread character.  That this is     *)
(* right is CellsInUse, and the refinement rests on it.                    *)
(***************************************************************************)
EXTENDS Keyboard, SequenceTheorems, TLAPS

-----------------------------------------------------------------------------
(* Indices.                                                                *)

(* An index is always one of the buffer. *)
LEMMA IndexInRange ==
    ASSUME NEW k \in Nat
    PROVE  k % Size \in 0 .. Size - 1
  BY KeyboardAssumption

(* Counters less than a whole buffer apart have different cells. *)
LEMMA IndicesApart ==
    ASSUME NEW j \in Nat, NEW k \in Nat, j < k, k - j < Size
    PROVE  j % Size # k % Size
  <1> SUFFICES ASSUME j % Size = k % Size PROVE FALSE
    OBVIOUS
  <1> DEFINE q == j \div Size
             r == k \div Size
  <1>1. /\ q \in Nat /\ r \in Nat /\ Size \in Nat \ {0}
        /\ j = q * Size + (j % Size) /\ k = r * Size + (k % Size)
        /\ j % Size \in Nat
    BY KeyboardAssumption
  <1> HIDE DEF q, r
  <1>2. k - j = r * Size - q * Size
    BY <1>1
  <1>3. CASE r <= q
    <2>1. q * Size = r * Size + (q - r) * Size /\ (q - r) * Size >= 0
      BY <1>1, <1>3
    <2> QED
      BY <1>1, <1>2, <2>1
  <1>4. CASE r > q
    <2>1. r * Size = q * Size + (r - q) * Size /\ (r - q) * Size >= Size
      BY <1>1, <1>4
    <2> QED
      BY <1>1, <1>2, <2>1
  <1> QED
    BY <1>1, <1>3, <1>4

-----------------------------------------------------------------------------
(* The characters between two counters.                                    *)

Cells == [0 .. Size - 1 -> Chars \cup {NUL}]

Window(b, h, t) == [k \in 1 .. t - h |-> b[(h + k - 1) % Size]]

(* The window is a sequence of characters. *)
LEMMA WindowType ==
    ASSUME NEW b \in Cells, NEW h \in Nat, NEW t \in Nat, h <= t
    PROVE  /\ Window(b, h, t) \in Seq(Chars \cup {NUL})
           /\ Len(Window(b, h, t)) = t - h
           /\ \A k \in 1 .. t - h : Window(b, h, t)[k] = b[(h + k - 1) % Size]
  <1>1. t - h \in Nat
    OBVIOUS
  <1>2. \A k \in 1 .. t - h : b[(h + k - 1) % Size] \in Chars \cup {NUL}
    <2> TAKE k \in 1 .. t - h
    <2>1. h + k - 1 \in Nat
      OBVIOUS
    <2>2. (h + k - 1) % Size \in 0 .. Size - 1
      BY <2>1, IndexInRange
    <2> QED
      BY <2>2 DEF Cells
  <1> QED
    BY <1>1, <1>2 DEF Window

(* A character stored in the cell after the window is appended to it: the  *)
(* cell is not one of the window.                                          *)
LEMMA WindowPush ==
    ASSUME NEW b \in Cells, NEW h \in Nat, NEW t \in Nat, h <= t, t - h < Size,
           NEW c \in Chars
    PROVE  Window([b EXCEPT ![t % Size] = c], h, t + 1) = Append(Window(b, h, t), c)
  <1> DEFINE d == [b EXCEPT ![t % Size] = c]
             v == Window(b, h, t)
             w == Window(d, h, t + 1)
  <1>1. t % Size \in 0 .. Size - 1
    BY IndexInRange
  <1>2. d \in Cells /\ d[t % Size] = c
    BY <1>1 DEF Cells
  <1>3. /\ v \in Seq(Chars \cup {NUL}) /\ Len(v) = t - h
        /\ \A k \in 1 .. t - h : v[k] = b[(h + k - 1) % Size]
    BY WindowType
  <1>4. /\ w \in Seq(Chars \cup {NUL}) /\ Len(w) = t + 1 - h
        /\ \A k \in 1 .. t + 1 - h : w[k] = d[(h + k - 1) % Size]
    <2> DEFINE u == t + 1
    <2>1. u \in Nat /\ h <= u
      OBVIOUS
    <2> HIDE DEF d, u
    <2>2. /\ Window(d, h, u) \in Seq(Chars \cup {NUL}) /\ Len(Window(d, h, u)) = u - h
          /\ \A k \in 1 .. u - h : Window(d, h, u)[k] = d[(h + k - 1) % Size]
      BY <1>2, <2>1, WindowType
    <2> QED
      BY <2>2 DEF u
  <1>5. \A k \in 1 .. t - h : w[k] = v[k]
    <2> TAKE k \in 1 .. t - h
    <2>1. h + k - 1 \in Nat /\ h + k - 1 < t /\ t - (h + k - 1) < Size
      BY KeyboardAssumption
    <2>2. (h + k - 1) % Size # t % Size
      BY <2>1, IndicesApart
    <2>3. (h + k - 1) % Size \in 0 .. Size - 1
      BY <2>1, IndexInRange
    <2>4. d[(h + k - 1) % Size] = b[(h + k - 1) % Size]
      BY <2>2, <2>3 DEF Cells
    <2>5. k \in 1 .. t + 1 - h
      OBVIOUS
    <2> HIDE DEF v, w, d
    <2> QED
      BY <1>3, <1>4, <2>4, <2>5
  <1>6. w[t + 1 - h] = c
    <2>1. h + (t + 1 - h) - 1 = t /\ t + 1 - h \in 1 .. t + 1 - h
      OBVIOUS
    <2> HIDE DEF w, d
    <2> QED
      BY <1>2, <1>4, <2>1
  <1> HIDE DEF v, w, d
  <1>7. /\ Append(v, c) \in Seq(Chars \cup {NUL}) /\ Len(Append(v, c)) = t - h + 1
        /\ \A k \in 1 .. t - h + 1 : Append(v, c)[k] = IF k = t - h + 1 THEN c ELSE v[k]
    BY <1>3
  <1>8. \A k \in 1 .. t - h + 1 : w[k] = Append(v, c)[k]
    BY <1>5, <1>6, <1>7
  <1>9. w = Append(v, c)
    BY <1>4, <1>7, <1>8, SeqEqual
  <1> QED
    BY <1>9 DEF v, w, d

(* Clearing the first cell of the window takes the first character off: no *)
(* other character of the window is in that cell.                          *)
LEMMA WindowPop ==
    ASSUME NEW b \in Cells, NEW h \in Nat, NEW t \in Nat, h < t, t - h <= Size
    PROVE  /\ Window(b, h, t) # <<>>
           /\ Head(Window(b, h, t)) = b[h % Size]
           /\ Window([b EXCEPT ![h % Size] = NUL], h + 1, t) = Tail(Window(b, h, t))
  <1> DEFINE d == [b EXCEPT ![h % Size] = NUL]
             v == Window(b, h, t)
             w == Window(d, h + 1, t)
  <1>1. h % Size \in 0 .. Size - 1
    BY IndexInRange
  <1>2. d \in Cells
    BY <1>1 DEF Cells
  <1>3. /\ v \in Seq(Chars \cup {NUL}) /\ Len(v) = t - h
        /\ \A k \in 1 .. t - h : v[k] = b[(h + k - 1) % Size]
    <2>1. h <= t
      OBVIOUS
    <2> QED
      BY <2>1, WindowType
  <1>4. /\ w \in Seq(Chars \cup {NUL}) /\ Len(w) = t - (h + 1)
        /\ \A k \in 1 .. t - (h + 1) : w[k] = d[((h + 1) + k - 1) % Size]
    <2> HIDE DEF d
    <2>1. h + 1 \in Nat /\ h + 1 <= t
      OBVIOUS
    <2> QED
      BY <1>2, <2>1, WindowType
  <1>5. \A k \in 1 .. t - (h + 1) : w[k] = v[k + 1]
    <2> TAKE k \in 1 .. t - (h + 1)
    <2>1. h + k \in Nat /\ h < h + k /\ (h + k) - h < Size
      BY KeyboardAssumption
    <2>2. h % Size # (h + k) % Size
      BY <2>1, IndicesApart
    <2>3. (h + k) % Size \in 0 .. Size - 1
      BY <2>1, IndexInRange
    <2>4. d[(h + k) % Size] = b[(h + k) % Size]
      BY <2>2, <2>3 DEF Cells
    <2>5. k + 1 \in 1 .. t - h /\ (h + 1) + k - 1 = h + k /\ h + (k + 1) - 1 = h + k
      OBVIOUS
    <2> HIDE DEF v, w, d
    <2>6. w[k] = d[(h + k) % Size]
      BY <1>4, <2>5
    <2>7. v[k + 1] = b[(h + k) % Size]
      BY <1>3, <2>5
    <2> QED
      BY <2>4, <2>6, <2>7
  <1>6. v[1] = b[h % Size]
    <2>1. 1 \in 1 .. t - h /\ h + 1 - 1 = h
      OBVIOUS
    <2> HIDE DEF v
    <2> QED
      BY <1>3, <2>1
  <1> HIDE DEF v, w, d
  <1>7. v # <<>> /\ Head(v) = v[1]
    BY <1>3
  <1>8. /\ Tail(v) \in Seq(Chars \cup {NUL}) /\ Len(Tail(v)) = t - h - 1
        /\ \A k \in 1 .. t - h - 1 : Tail(v)[k] = v[k + 1]
    BY <1>3, <1>7
  <1>9. w = Tail(v)
    <2>1. t - (h + 1) = t - h - 1
      OBVIOUS
    <2>2. \A k \in 1 .. t - h - 1 : w[k] = Tail(v)[k]
      BY <1>5, <1>8, <2>1
    <2> QED
      BY <1>4, <1>8, <2>1, <2>2, SeqEqual
  <1> QED
    BY <1>6, <1>7, <1>9 DEF v, w, d

-----------------------------------------------------------------------------
(* The cells in use.                                                       *)

InUse(b, h, t) ==
    \A i \in 0 .. Size - 1 : b[i] # NUL <=> \E k \in h .. t - 1 : k % Size = i

(* CellsInUse, cell by cell. *)
LEMMA CellsInUseByCell ==
    ASSUME TypeOK
    PROVE  CellsInUse <=>
              \A p \in Procs : /\ head[p] <= tail[p] /\ tail[p] - head[p] <= Size
                               /\ InUse(buffer[p], head[p], tail[p])
  <1> SUFFICES ASSUME NEW p \in Procs
               PROVE  (/\ tail[p] - head[p] \in 0 .. Size
                       /\ {i \in 0 .. Size - 1 : buffer[p][i] # NUL}
                             = {k % Size : k \in head[p] .. tail[p] - 1})
                      <=> (/\ head[p] <= tail[p] /\ tail[p] - head[p] <= Size
                           /\ InUse(buffer[p], head[p], tail[p]))
    BY DEF CellsInUse
  <1>1. head[p] \in Nat /\ tail[p] \in Nat /\ Size \in Nat
    BY KeyboardAssumption DEF TypeOK
  <1>2. tail[p] - head[p] \in 0 .. Size <=> head[p] <= tail[p] /\ tail[p] - head[p] <= Size
    BY <1>1
  <1>3. \A k \in head[p] .. tail[p] - 1 : k % Size \in 0 .. Size - 1
    BY <1>1, IndexInRange
  <1>4. {i \in 0 .. Size - 1 : buffer[p][i] # NUL} = {k % Size : k \in head[p] .. tail[p] - 1}
           <=> InUse(buffer[p], head[p], tail[p])
    BY <1>3 DEF InUse
  <1> QED
    BY <1>2, <1>4

(* Storing a character adds its cell to those in use. *)
LEMMA InUsePush ==
    ASSUME NEW b \in Cells, NEW h \in Nat, NEW t \in Nat, h <= t,
           NEW c \in Chars, c # NUL, InUse(b, h, t)
    PROVE  InUse([b EXCEPT ![t % Size] = c], h, t + 1)
  <1> SUFFICES ASSUME NEW i \in 0 .. Size - 1
               PROVE  [b EXCEPT ![t % Size] = c][i] # NUL
                         <=> \E k \in h .. t + 1 - 1 : k % Size = i
    BY DEF InUse
  <1>1. b[i] # NUL <=> \E k \in h .. t - 1 : k % Size = i
    BY DEF InUse
  <1>2. [b EXCEPT ![t % Size] = c][i] = IF i = t % Size THEN c ELSE b[i]
    BY DEF Cells
  <1>3. (\E k \in h .. t + 1 - 1 : k % Size = i)
           <=> (\E k \in h .. t - 1 : k % Size = i) \/ t % Size = i
    <2>1. \A k : k \in h .. t + 1 - 1 <=> k \in h .. t - 1 \/ k = t
      OBVIOUS
    <2> QED
      BY <2>1
  <1> QED
    BY <1>1, <1>2, <1>3

(* Clearing the first cell in use takes it, and only it, out of use. *)
LEMMA InUsePop ==
    ASSUME NEW b \in Cells, NEW h \in Nat, NEW t \in Nat, h < t, t - h <= Size, InUse(b, h, t)
    PROVE  InUse([b EXCEPT ![h % Size] = NUL], h + 1, t)
  <1> SUFFICES ASSUME NEW i \in 0 .. Size - 1
               PROVE  [b EXCEPT ![h % Size] = NUL][i] # NUL
                         <=> \E k \in h + 1 .. t - 1 : k % Size = i
    BY DEF InUse
  <1>1. b[i] # NUL <=> \E k \in h .. t - 1 : k % Size = i
    BY DEF InUse
  <1>2. [b EXCEPT ![h % Size] = NUL][i] = IF i = h % Size THEN NUL ELSE b[i]
    BY DEF Cells
  <1>3. \A k : k \in h .. t - 1 <=> k \in h + 1 .. t - 1 \/ k = h
    OBVIOUS
  <1>4. \A k \in h + 1 .. t - 1 : k % Size # h % Size
    <2> TAKE k \in h + 1 .. t - 1
    <2>1. k \in Nat /\ h < k /\ k - h < Size
      BY KeyboardAssumption
    <2> QED
      BY <2>1, IndicesApart
  <1> QED
    BY <1>1, <1>2, <1>3, <1>4

(* The first cell tells whether there is anything to read. *)
LEMMA FirstCell ==
    ASSUME NEW b \in Cells, NEW h \in Nat, NEW t \in Nat, h <= t, InUse(b, h, t)
    PROVE  b[h % Size] # NUL <=> h < t
  <1>1. h % Size \in 0 .. Size - 1
    BY IndexInRange
  <1>2. b[h % Size] # NUL <=> \E k \in h .. t - 1 : k % Size = h % Size
    BY <1>1 DEF InUse
  <1>3. h < t => h \in h .. t - 1
    OBVIOUS
  <1> QED
    BY <1>2, <1>3

-----------------------------------------------------------------------------
(* Types.                                                                  *)

(* The table of characters holds nothing else. *)
LEMMA CharType ==
    ASSUME NEW code, NEW c \in classic_keyboard_scancode_to_char(code)
    PROVE  c \in Chars \cup {NUL}
  BY DEF classic_keyboard_scancode_to_char, Chars, NUL, Letter

(* What an interrupt does to the buffers: nothing, or a push of a          *)
(* character for the current process.                                      *)
LEMMA InterruptPushes ==
    ASSUME TypeOK, NEW code, classic_keyboard_handle_interrupt(code)
    PROVE  /\ returned' = returned
           /\ \/ UNCHANGED ring
              \/ \E p \in Procs, c \in Chars :
                    c # NUL /\ tail[p] - head[p] < MaxUnread /\ keyboard_push(p, c)
  <1>1. returned' = returned
    BY DEF classic_keyboard_handle_interrupt
  <1>2. CASE code = "RELEASED" \/ process_current = None
    BY <1>1, <1>2 DEF classic_keyboard_handle_interrupt
  <1>3. CASE ~(code = "RELEASED" \/ process_current = None)
    <2>1. PICK c \in classic_keyboard_scancode_to_char(code) :
              IF c = NUL
              THEN UNCHANGED ring
              ELSE /\ tail[process_current] - head[process_current] < MaxUnread
                   /\ keyboard_push(process_current, c)
      BY <1>3 DEF classic_keyboard_handle_interrupt
    <2>2. process_current \in Procs
      BY <1>3 DEF TypeOK
    <2>3. c \in Chars \cup {NUL}
      BY CharType
    <2> QED
      BY <1>1, <2>1, <2>2, <2>3
  <1> QED
    BY <1>2, <1>3

(* What the system call does: it returns the first cell, and clears it if  *)
(* it is not NUL.                                                          *)
LEMMA GetkeyPops ==
    ASSUME TypeOK, isr80h_command2_getkey
    PROVE  \E p \in Procs :
              /\ returned' = buffer[p][head[p] % Size]
              /\ IF buffer[p][head[p] % Size] = NUL
                 THEN UNCHANGED ring
                 ELSE /\ buffer' = [buffer EXCEPT ![p] = [buffer[p] EXCEPT ![head[p] % Size] = NUL]]
                      /\ head' = [head EXCEPT ![p] = head[p] + 1]
                      /\ tail' = tail
  <1>1. task_current \in Procs
    BY DEF TypeOK, isr80h_command2_getkey
  <1> QED
    BY <1>1 DEF isr80h_command2_getkey, keyboard_pop

(* Every key that is typed and read keeps the types. *)
THEOREM KeyboardTypes == Spec => []TypeOK
  <1>1. ASSUME Init PROVE TypeOK
    <2>1. [i \in 0 .. Size - 1 |-> NUL] \in [0 .. Size - 1 -> Chars \cup {NUL}]
      OBVIOUS
    <2>2. buffer \in [Procs -> [0 .. Size - 1 -> Chars \cup {NUL}]]
      BY <1>1, <2>1 DEF Init
    <2>3. head \in [Procs -> Nat] /\ tail \in [Procs -> Nat]
      BY <1>1 DEF Init
    <2> QED
      BY <1>1, <2>2, <2>3 DEF Init, TypeOK
  <1>2. TypeOK /\ [Next]_vars => TypeOK'
    <2> SUFFICES ASSUME TypeOK, [Next]_vars PROVE TypeOK'
      OBVIOUS
    <2>1. ASSUME NEW code \in Scancodes, classic_keyboard_handle_interrupt(code)
          PROVE  TypeOK'
      <3>1. /\ capslock_state' \in BOOLEAN
            /\ UNCHANGED <<process_current, task_current, returned>>
        BY <2>1 DEF TypeOK, classic_keyboard_handle_interrupt
      <3>2. CASE UNCHANGED ring
        BY <3>1, <3>2 DEF TypeOK, ring
      <3>3. ASSUME NEW p \in Procs, NEW c \in Chars, keyboard_push(p, c)
            PROVE  TypeOK'
        <4>1. tail[p] \in Nat /\ buffer[p] \in [0 .. Size - 1 -> Chars \cup {NUL}]
          BY DEF TypeOK
        <4>2. tail' \in [Procs -> Nat] /\ head' \in [Procs -> Nat]
          BY <3>3, <4>1 DEF TypeOK, keyboard_push
        <4>3. [buffer[p] EXCEPT ![tail[p] % Size] = c] \in [0 .. Size - 1 -> Chars \cup {NUL}]
          BY <4>1
        <4>4. buffer' = [buffer EXCEPT ![p] = [buffer[p] EXCEPT ![tail[p] % Size] = c]]
          BY <3>3 DEF keyboard_push, keyboard_get_tail_index
        <4>5. buffer' \in [Procs -> [0 .. Size - 1 -> Chars \cup {NUL}]]
          BY <4>3, <4>4 DEF TypeOK
        <4> QED
          BY <3>1, <4>2, <4>5 DEF TypeOK
      <3> QED
        BY <2>1, <3>2, <3>3, InterruptPushes
    <2>2. CASE isr80h_command2_getkey
      <3>1. PICK p \in Procs :
              /\ returned' = buffer[p][head[p] % Size]
              /\ IF buffer[p][head[p] % Size] = NUL
                 THEN UNCHANGED ring
                 ELSE /\ buffer' = [buffer EXCEPT ![p] = [buffer[p] EXCEPT ![head[p] % Size] = NUL]]
                      /\ head' = [head EXCEPT ![p] = head[p] + 1]
                      /\ tail' = tail
        BY <2>2, GetkeyPops
      <3>2. UNCHANGED <<capslock_state, process_current, task_current>>
        BY <2>2 DEF isr80h_command2_getkey
      <3>3. head[p] \in Nat /\ buffer[p] \in [0 .. Size - 1 -> Chars \cup {NUL}]
        BY DEF TypeOK
      <3>4. returned' \in Chars \cup {NUL}
        BY <3>1, <3>3, IndexInRange
      <3>5. [buffer[p] EXCEPT ![head[p] % Size] = NUL] \in [0 .. Size - 1 -> Chars \cup {NUL}]
        BY <3>3
      <3>6. /\ buffer' \in [Procs -> [0 .. Size - 1 -> Chars \cup {NUL}]]
            /\ head' \in [Procs -> Nat] /\ tail' \in [Procs -> Nat]
        <4>1. CASE buffer[p][head[p] % Size] = NUL
          BY <4>1, <3>1 DEF TypeOK, ring
        <4>2. CASE buffer[p][head[p] % Size] # NUL
          <5>1. buffer' = [buffer EXCEPT ![p] = [buffer[p] EXCEPT ![head[p] % Size] = NUL]]
            BY <4>2, <3>1
          <5>2. buffer' \in [Procs -> [0 .. Size - 1 -> Chars \cup {NUL}]]
            BY <5>1, <3>5 DEF TypeOK
          <5>3. head' = [head EXCEPT ![p] = head[p] + 1] /\ tail' = tail
            BY <4>2, <3>1
          <5>4. head' \in [Procs -> Nat] /\ tail' \in [Procs -> Nat]
            BY <5>3, <3>3 DEF TypeOK
          <5> QED
            BY <5>2, <5>4
        <4> QED
          BY <4>1, <4>2
      <3> QED
        BY <3>2, <3>4, <3>6 DEF TypeOK
    <2>3. CASE Reschedule
      BY <2>3 DEF TypeOK, Reschedule, ring
    <2>4. CASE UNCHANGED vars
      BY <2>4 DEF TypeOK, vars, ring
    <2> QED
      BY <2>1, <2>2, <2>3, <2>4 DEF Next
  <1> QED
    BY <1>1, <1>2, PTL DEF Spec

-----------------------------------------------------------------------------
(* The buffers are queues.                                                 *)

RingInv ==
    /\ TypeOK
    /\ \A p \in Procs : /\ head[p] <= tail[p] /\ tail[p] - head[p] <= Size
                        /\ InUse(buffer[p], head[p], tail[p])

(* What a push does: it keeps the cells in use, and appends to the unread  *)
(* characters of its process.                                              *)
LEMMA PushStep ==
    ASSUME RingInv, MaxUnread <= Size, NEW p \in Procs, NEW c \in Chars, c # NUL,
           tail[p] - head[p] < MaxUnread, keyboard_push(p, c)
    PROVE  /\ \A q \in Procs : /\ head'[q] <= tail'[q] /\ tail'[q] - head'[q] <= Size
                               /\ InUse(buffer'[q], head'[q], tail'[q])
           /\ Unread' = [Unread EXCEPT ![p] = Append(Unread[p], c)]
  <1> DEFINE b == buffer[p]
             h == head[p]
             t == tail[p]
             d == [b EXCEPT ![t % Size] = c]
  <1>1. b \in Cells /\ h \in Nat /\ t \in Nat /\ h <= t /\ InUse(b, h, t)
    BY DEF RingInv, TypeOK, Cells
  <1>2. t - h < Size
    BY <1>1, KeyboardAssumption
  <1>3. buffer' = [buffer EXCEPT ![p] = d] /\ tail' = [tail EXCEPT ![p] = t + 1] /\ head' = head
    BY DEF keyboard_push, keyboard_get_tail_index
  <1>4. buffer'[p] = d /\ tail'[p] = t + 1 /\ head'[p] = h
    BY <1>3 DEF RingInv, TypeOK
  <1>5. ASSUME NEW q \in Procs, q # p
        PROVE  buffer'[q] = buffer[q] /\ tail'[q] = tail[q] /\ head'[q] = head[q]
    BY <1>3, <1>5 DEF RingInv, TypeOK
  <1>6. InUse(d, h, t + 1)
    <2> HIDE DEF b, h, t
    <2> QED
      BY <1>1, InUsePush
  <1>7. Window(d, h, t + 1) = Append(Window(b, h, t), c)
    <2> HIDE DEF b, h, t
    <2> QED
      BY <1>1, <1>2, WindowPush
  <1>8. \A q \in Procs : /\ head'[q] <= tail'[q] /\ tail'[q] - head'[q] <= Size
                         /\ InUse(buffer'[q], head'[q], tail'[q])
    <2> TAKE q \in Procs
    <2>1. CASE q = p
      <3>1. h <= t + 1 /\ t + 1 - h <= Size
        BY <1>1, <1>2, KeyboardAssumption
      <3> HIDE DEF h, t, d
      <3> QED
        <4>1. InUse(buffer'[p], head'[p], tail'[p])
          BY <1>4, <1>6
        <4>2. head'[p] <= tail'[p] /\ tail'[p] - head'[p] <= Size
          BY <3>1, <1>1, <1>4
        <4> QED
          BY <4>1, <4>2, <2>1
    <2>2. CASE q # p
      BY <2>2, <1>5 DEF RingInv
    <2> QED
      BY <2>1, <2>2
  <1>9. Unread' = [Unread EXCEPT ![p] = Append(Unread[p], c)]
    <2>1. /\ Unread = [q \in Procs |-> Window(buffer[q], head[q], tail[q])]
          /\ Unread' = [q \in Procs |-> Window(buffer'[q], head'[q], tail'[q])]
      BY DEF Unread, Window
    <2>2. Unread[p] = Window(b, h, t)
      BY <2>1
    <2> HIDE DEF d, h, t, b
    <2>3. Window(buffer'[p], head'[p], tail'[p]) = Append(Window(b, h, t), c)
      BY <1>4, <1>7
    <2> QED
      BY <2>1, <2>2, <2>3, <1>5
  <1> QED
    BY <1>8, <1>9

(* What a pop of a character does: it takes the first cell out of use, and *)
(* the first of the unread characters of its process.                      *)
LEMMA PopStep ==
    ASSUME RingInv, NEW p \in Procs, buffer[p][head[p] % Size] # NUL,
           buffer' = [buffer EXCEPT ![p] = [buffer[p] EXCEPT ![head[p] % Size] = NUL]],
           head' = [head EXCEPT ![p] = head[p] + 1],
           tail' = tail
    PROVE  /\ \A q \in Procs : /\ head'[q] <= tail'[q] /\ tail'[q] - head'[q] <= Size
                               /\ InUse(buffer'[q], head'[q], tail'[q])
           /\ Unread[p] # <<>> /\ Head(Unread[p]) = buffer[p][head[p] % Size]
           /\ Unread' = [Unread EXCEPT ![p] = Tail(Unread[p])]
  <1> DEFINE b == buffer[p]
             h == head[p]
             t == tail[p]
             d == [b EXCEPT ![h % Size] = NUL]
  <1>1. b \in Cells /\ h \in Nat /\ t \in Nat /\ h <= t /\ t - h <= Size /\ InUse(b, h, t)
    BY DEF RingInv, TypeOK, Cells
  <1>2. h < t
    <2>1. b[h % Size] # NUL
      OBVIOUS
    <2> HIDE DEF b, h, t
    <2> QED
      BY <1>1, <2>1, FirstCell
  <1>3. buffer'[p] = d /\ tail'[p] = t /\ head'[p] = h + 1
    BY DEF RingInv, TypeOK
  <1>4. ASSUME NEW q \in Procs, q # p
        PROVE  buffer'[q] = buffer[q] /\ tail'[q] = tail[q] /\ head'[q] = head[q]
    BY <1>4 DEF RingInv, TypeOK
  <1>5. InUse(d, h + 1, t)
    <2> HIDE DEF b, h, t
    <2> QED
      BY <1>1, <1>2, InUsePop
  <1>6. /\ Window(b, h, t) # <<>> /\ Head(Window(b, h, t)) = b[h % Size]
        /\ Window(d, h + 1, t) = Tail(Window(b, h, t))
    <2> HIDE DEF b, h, t
    <2> QED
      BY <1>1, <1>2, WindowPop
  <1>7. \A q \in Procs : /\ head'[q] <= tail'[q] /\ tail'[q] - head'[q] <= Size
                         /\ InUse(buffer'[q], head'[q], tail'[q])
    <2> TAKE q \in Procs
    <2>1. CASE q = p
      <3>1. h + 1 <= t /\ t - (h + 1) <= Size
        BY <1>1, <1>2, KeyboardAssumption
      <3> HIDE DEF h, t, d
      <3> QED
        BY <2>1, <3>1, <1>3, <1>5
    <2>2. CASE q # p
      BY <2>2, <1>4 DEF RingInv
    <2> QED
      BY <2>1, <2>2
  <1>8. /\ Unread = [q \in Procs |-> Window(buffer[q], head[q], tail[q])]
        /\ Unread' = [q \in Procs |-> Window(buffer'[q], head'[q], tail'[q])]
    BY DEF Unread, Window
  <1>9. Unread[p] = Window(b, h, t)
    BY <1>8
  <1>10. Unread' = [Unread EXCEPT ![p] = Tail(Unread[p])]
    <2> HIDE DEF d, h, t, b
    <2>1. Window(buffer'[p], head'[p], tail'[p]) = Tail(Window(b, h, t))
      BY <1>3, <1>6
    <2> QED
      <3>1. \A q \in Procs : Window(buffer'[q], head'[q], tail'[q])
                               = IF q = p THEN Tail(Unread[p]) ELSE Unread[q]
        <4> TAKE q \in Procs
        <4>1. CASE q = p
          BY <4>1, <2>1, <1>9
        <4>2. CASE q # p
          <5>1. Unread[q] = Window(buffer[q], head[q], tail[q])
            BY <1>8
          <5> QED
            BY <5>1, <4>2, <1>4
        <4> QED
          BY <4>1, <4>2
      <3> QED
        BY <3>1, <1>8
  <1> QED
    BY <1>6, <1>7, <1>9, <1>10

(* As long as no process falls a whole buffer behind, the cells that are   *)
(* not NUL are exactly those from head to tail.                            *)
THEOREM KeyboardRingInvariant ==
    ASSUME MaxUnread <= Size
    PROVE  Spec => []RingInv
  <1>1. Init => \A p \in Procs : /\ head[p] <= tail[p] /\ tail[p] - head[p] <= Size
                                 /\ InUse(buffer[p], head[p], tail[p])
    <2> SUFFICES ASSUME Init, NEW p \in Procs
                 PROVE  /\ head[p] <= tail[p] /\ tail[p] - head[p] <= Size
                        /\ InUse(buffer[p], head[p], tail[p])
      OBVIOUS
    <2>1. head[p] = 0 /\ tail[p] = 0 /\ \A i \in 0 .. Size - 1 : buffer[p][i] = NUL
      BY DEF Init
    <2>2. InUse(buffer[p], head[p], tail[p])
      BY <2>1 DEF InUse
    <2> QED
      BY <2>1, <2>2, KeyboardAssumption
  <1>2. RingInv /\ TypeOK' /\ [Next]_vars => RingInv'
    <2> SUFFICES ASSUME RingInv, TypeOK', [Next]_vars PROVE RingInv'
      OBVIOUS
    <2>1. CASE UNCHANGED ring
      BY <2>1 DEF RingInv, ring
    <2>2. ASSUME NEW code \in Scancodes, classic_keyboard_handle_interrupt(code)
          PROVE  RingInv'
      <3>1. CASE UNCHANGED ring
        BY <2>1, <3>1
      <3>2. ASSUME NEW p \in Procs, NEW c \in Chars, c # NUL,
                   tail[p] - head[p] < MaxUnread, keyboard_push(p, c)
            PROVE  RingInv'
        BY <3>2, PushStep DEF RingInv
      <3> QED
        BY <2>2, <3>1, <3>2, InterruptPushes DEF RingInv
    <2>3. CASE isr80h_command2_getkey
      <3>1. PICK p \in Procs :
              /\ returned' = buffer[p][head[p] % Size]
              /\ IF buffer[p][head[p] % Size] = NUL
                 THEN UNCHANGED ring
                 ELSE /\ buffer' = [buffer EXCEPT ![p] = [buffer[p] EXCEPT ![head[p] % Size] = NUL]]
                      /\ head' = [head EXCEPT ![p] = head[p] + 1]
                      /\ tail' = tail
        BY <2>3, GetkeyPops DEF RingInv
      <3>2. CASE buffer[p][head[p] % Size] = NUL
        BY <2>1, <3>1, <3>2
      <3>3. CASE buffer[p][head[p] % Size] # NUL
        BY <3>1, <3>3, PopStep DEF RingInv
      <3> QED
        BY <3>2, <3>3
    <2>4. CASE Reschedule
      BY <2>1, <2>4 DEF Reschedule
    <2>5. CASE UNCHANGED vars
      BY <2>1, <2>5 DEF vars, ring
    <2> QED
      BY <2>2, <2>3, <2>4, <2>5 DEF Next
  <1>3. (\A p \in Procs : /\ head[p] <= tail[p] /\ tail[p] - head[p] <= Size
                          /\ InUse(buffer[p], head[p], tail[p])) /\ TypeOK => RingInv
    BY DEF RingInv
  <1> QED
    BY <1>1, <1>2, <1>3, KeyboardTypes, PTL DEF Spec

(* The same as the property of the run. *)
THEOREM KeyboardCells ==
    ASSUME MaxUnread <= Size
    PROVE  Spec => []CellsInUse
  <1>1. RingInv => CellsInUse
    BY CellsInUseByCell DEF RingInv
  <1> QED
    BY <1>1, KeyboardRingInvariant, PTL

(* The buffers implement the queues: every character typed for a process   *)
(* is read by that process, once and in order, as long as no process falls *)
(* a whole buffer behind.                                                  *)
THEOREM KeyboardImplementsQueue ==
    ASSUME MaxUnread <= Size
    PROVE  Spec => IsKeyQueue
  <1>1. Init => Queue!Init
    <2> SUFFICES ASSUME Init PROVE Queue!Init
      OBVIOUS
    <2>1. \A p \in Procs : head[p] = 0 /\ tail[p] = 0
      BY DEF Init
    <2>2. \A p \in Procs : [k \in 1 .. tail[p] - head[p] |-> buffer[p][(head[p] + k - 1) % Size]] = <<>>
      <3> TAKE p \in Procs
      <3>1. head[p] \in Nat /\ tail[p] = head[p]
        BY <2>1
      <3> QED
        BY <3>1
    <2>3. Unread = [p \in Procs |-> <<>>]
      BY <2>2 DEF Unread
    <2> QED
      BY <2>3 DEF Init, Queue!Init
  <1>2. RingInv /\ [Next]_vars => [Queue!Next]_<<Unread, returned>>
    <2> SUFFICES ASSUME RingInv, [Next]_vars
                 PROVE  [Queue!Next]_<<Unread, returned>>
      OBVIOUS
    <2>1. UNCHANGED ring => Unread' = Unread
      BY DEF ring, Unread
    <2>2. ASSUME NEW code \in Scancodes, classic_keyboard_handle_interrupt(code)
          PROVE  [Queue!Next]_<<Unread, returned>>
      <3>1. returned' = returned
        BY <2>2, InterruptPushes DEF RingInv
      <3>2. CASE UNCHANGED ring
        BY <2>1, <3>1, <3>2
      <3>3. ASSUME NEW p \in Procs, NEW c \in Chars, c # NUL,
                   tail[p] - head[p] < MaxUnread, keyboard_push(p, c)
            PROVE  [Queue!Next]_<<Unread, returned>>
        <4>1. Unread' = [Unread EXCEPT ![p] = Append(Unread[p], c)]
          BY <3>3, PushStep
        <4>2. Queue!Type(p, c)
          BY <3>1, <4>1 DEF Queue!Type
        <4> QED
          BY <4>2 DEF Queue!Next
      <3> QED
        BY <2>2, <3>2, <3>3, InterruptPushes DEF RingInv
    <2>3. CASE isr80h_command2_getkey
      <3>1. PICK p \in Procs :
              /\ returned' = buffer[p][head[p] % Size]
              /\ IF buffer[p][head[p] % Size] = NUL
                 THEN UNCHANGED ring
                 ELSE /\ buffer' = [buffer EXCEPT ![p] = [buffer[p] EXCEPT ![head[p] % Size] = NUL]]
                      /\ head' = [head EXCEPT ![p] = head[p] + 1]
                      /\ tail' = tail
        BY <2>3, GetkeyPops DEF RingInv
      <3>2. CASE buffer[p][head[p] % Size] = NUL
        <4>1. /\ buffer[p] \in Cells /\ head[p] \in Nat /\ tail[p] \in Nat /\ head[p] <= tail[p]
              /\ InUse(buffer[p], head[p], tail[p])
          BY DEF RingInv, TypeOK, Cells
        <4>2. ~(head[p] < tail[p])
          BY <3>2, <4>1, FirstCell
        <4>3. head[p] = tail[p]
          BY <4>1, <4>2
        <4>4. [k \in 1 .. tail[p] - head[p] |-> buffer[p][(head[p] + k - 1) % Size]] = <<>>
          BY <4>1, <4>3
        <4>5. Unread[p] = <<>>
          BY <4>4 DEF Unread
        <4>6. Queue!ReadNothing(p)
          BY <2>1, <3>1, <3>2, <4>5 DEF Queue!ReadNothing
        <4> QED
          BY <4>6 DEF Queue!Next
      <3>3. CASE buffer[p][head[p] % Size] # NUL
        <4>1. /\ Unread[p] # <<>> /\ Head(Unread[p]) = buffer[p][head[p] % Size]
              /\ Unread' = [Unread EXCEPT ![p] = Tail(Unread[p])]
          BY <3>1, <3>3, PopStep
        <4>2. Queue!Read(p)
          BY <3>1, <4>1 DEF Queue!Read
        <4> QED
          BY <4>2 DEF Queue!Next
      <3> QED
        BY <3>2, <3>3
    <2>4. CASE Reschedule
      BY <2>1, <2>4 DEF Reschedule
    <2>5. CASE UNCHANGED vars
      BY <2>1, <2>5 DEF vars, ring
    <2> QED
      BY <2>2, <2>3, <2>4, <2>5 DEF Next
  <1> QED
    BY <1>1, <1>2, KeyboardRingInvariant, PTL DEF Spec, IsKeyQueue, Queue!Spec
=============================================================================
