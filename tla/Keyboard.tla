------------------------------ MODULE Keyboard ------------------------------
(***************************************************************************)
(* The PS/2 keyboard driver and the key buffers: the interrupt handler of  *)
(* keyboard/ps2keyboard.c, the ring buffer in every process that           *)
(* keyboard/keyboard.c fills and empties, and the system call              *)
(* isr80h_command2_getkey.                                                 *)
(*                                                                         *)
(* The handler writes to the buffer of process_current() and the system    *)
(* call reads from that of task_current()->process.  The module Scheduler  *)
(* shows that these may be different processes; here any process may be    *)
(* either.  The structure of a process is zero when it is created and its  *)
(* memory is never reused.                                                 *)
(***************************************************************************)
EXTENDS Integers, Sequences

CONSTANTS
    Procs,       \* processes
    Size,        \* VIOS_KEYBOARD_BUFFER_SIZE
    MaxUnread,   \* bound: how far a process may fall behind in reading
    MaxTyped     \* bound: the characters typed for one process

ASSUME KeyboardAssumption ==
    /\ Size \in Nat \ {0}
    /\ MaxUnread \in Nat
    /\ MaxTyped \in Nat

NUL == "NUL"
None == "None"
Chars == {"a", "A", "1"}

VARIABLES
    buffer, head, tail,  \* process->keyboard, for every process
    capslock_state,      \* of classic_keyboard: TRUE is on
    process_current,     \* the process with the focus, or None
    task_current,        \* the process of the running task, or None
    returned             \* the result of the last isr80h_command2_getkey

ring == <<buffer, head, tail>>
vars == <<ring, capslock_state, process_current, task_current, returned>>

-----------------------------------------------------------------------------
(* The scan codes, one of each kind: a letter, a key that is not a letter, *)
(* caps lock and a key without a character (both 0 in the table), a key    *)
(* release, and the two first codes past the end of the table.             *)
Letter == "A"
Scancodes == {Letter, "1", "CAPSLOCK", "SHIFT", "RELEASED", "END", "PAST_END"}

(* Fault: 32 is added to characters that are not letters ('1' becomes 'Q'). *)
FaultNoLetterTest(code) ==
    CASE code = Letter -> {IF capslock_state THEN "A" ELSE "a"}
      [] code = "1"    -> {IF capslock_state THEN "1" ELSE "Q"}
      [] OTHER         -> {NUL}

(* classic_keyboard_scancode_to_char: what it may return.  The bounds test *)
(* lets the code that equals the size of the table through, and the byte   *)
(* after the table is whatever the linker put there.                       *)
classic_keyboard_scancode_to_char(code) ==
    CASE code = Letter -> {IF capslock_state THEN "A" ELSE "a"}
      [] code = "1"    -> {"1"}
      [] code = "END"  -> {"1", NUL} \cup {IF capslock_state THEN "A" ELSE "a"}
      [] OTHER         -> {NUL}

keyboard_get_tail_index(p) == tail[p] % Size

(* Fault: tail is wrapped at the size less one. *)
FaultPushShort(p, c) ==
    /\ buffer' = [buffer EXCEPT ![p][keyboard_get_tail_index(p)] = c]
    /\ tail' = [tail EXCEPT ![p] = IF @ = Size - 1 THEN 0 ELSE @ + 1]
    /\ UNCHANGED head

(* keyboard_push of a character that is not 0. *)
keyboard_push(p, c) ==
    /\ buffer' = [buffer EXCEPT ![p][keyboard_get_tail_index(p)] = c]
    /\ tail' = [tail EXCEPT ![p] = @ + 1]
    /\ UNCHANGED head

-----------------------------------------------------------------------------
Init ==
    /\ buffer = [p \in Procs |-> [i \in 0 .. Size - 1 |-> NUL]]
    /\ head = [p \in Procs |-> 0]
    /\ tail = [p \in Procs |-> 0]
    /\ capslock_state = FALSE
    /\ process_current = None
    /\ task_current = None
    /\ returned = NUL

(* A keyboard interrupt.  The environment's part of the guard is that the  *)
(* process does not fall more than MaxUnread characters behind.            *)
classic_keyboard_handle_interrupt(code) ==
    /\ capslock_state' = IF code = "CAPSLOCK" THEN ~capslock_state ELSE capslock_state
    /\ IF code = "RELEASED" \/ process_current = None
       THEN UNCHANGED ring
       ELSE \E c \in classic_keyboard_scancode_to_char(code) :
               IF c = NUL
               THEN UNCHANGED ring
               ELSE /\ tail[process_current] < MaxTyped
                    /\ tail[process_current] - head[process_current] < MaxUnread
                    /\ keyboard_push(process_current, c)
    /\ UNCHANGED <<process_current, task_current, returned>>

(* Fault: the cell that was read is not cleared. *)
FaultPopKeepsCell ==
    LET p == task_current
        c == buffer[p][head[p] % Size]
    IN  /\ returned' = c
        /\ IF c = NUL
           THEN UNCHANGED ring
           ELSE /\ head' = [head EXCEPT ![p] = @ + 1]
                /\ UNCHANGED <<buffer, tail>>

(* keyboard_pop, in isr80h_command2_getkey: system calls come from the     *)
(* current task.                                                           *)
keyboard_pop ==
    LET p == task_current
        c == buffer[p][head[p] % Size]
    IN  /\ returned' = c
        /\ IF c = NUL
           THEN UNCHANGED ring
           ELSE /\ buffer' = [buffer EXCEPT ![p][head[p] % Size] = NUL]
                /\ head' = [head EXCEPT ![p] = @ + 1]
                /\ UNCHANGED tail

isr80h_command2_getkey ==
    /\ task_current # None
    /\ keyboard_pop
    /\ UNCHANGED <<capslock_state, process_current, task_current>>

(* Processes start and end, and the focus and the processor move. *)
Reschedule ==
    /\ process_current' \in Procs
    /\ task_current' \in Procs
    /\ UNCHANGED <<ring, capslock_state, returned>>

Next ==
    \/ \E code \in Scancodes : classic_keyboard_handle_interrupt(code)
    \/ isr80h_command2_getkey
    \/ Reschedule

Spec == Init /\ [][Next]_vars

-----------------------------------------------------------------------------
(* Properties.                                                             *)

TypeOK ==
    /\ buffer \in [Procs -> [0 .. Size - 1 -> Chars \cup {NUL}]]
    /\ head \in [Procs -> Nat] /\ tail \in [Procs -> Nat]
    /\ capslock_state \in BOOLEAN
    /\ process_current \in Procs \cup {None}
    /\ task_current \in Procs \cup {None}
    /\ returned \in Chars \cup {NUL}

(* The cells in use are those from head to tail: what keyboard_push and    *)
(* keyboard_pop know about each other's progress, without sharing a count. *)
CellsInUse ==
    \A p \in Procs :
        /\ tail[p] - head[p] \in 0 .. Size
        /\ {i \in 0 .. Size - 1 : buffer[p][i] # NUL}
              = {k % Size : k \in head[p] .. tail[p] - 1}

Unread ==
    [p \in Procs |-> [k \in 1 .. tail[p] - head[p] |-> buffer[p][(head[p] + k - 1) % Size]]]

Queue == INSTANCE KeyQueue WITH unread <- Unread

(* The buffers implement the queues: as long as no process falls a whole   *)
(* buffer behind, every character typed while it is the current process is *)
(* read by it, once and in order, and no other process reads it.           *)
IsKeyQueue == Queue!Spec
=============================================================================
