----------------------------- MODULE Scheduler -----------------------------
(***************************************************************************)
(* Tasks and processes: the doubly linked task list of task/task.c, the    *)
(* process table of task/process.c, the system calls that start and end    *)
(* processes (isr80h/process.c), and the save and resume of registers on   *)
(* every entry into the kernel (idt/idt.c).                                *)
(*                                                                         *)
(* A process and its task are created together and are one element of      *)
(* Tasks.  kfree does nothing, so memory is never reused: a new process is *)
(* the next unused number, and the links of a freed task keep their last   *)
(* values.  There is one processor and interrupt gates keep interrupts off *)
(* in the kernel, so that a kernel entry is one step.                      *)
(***************************************************************************)
EXTENDS Integers, Sequences, FiniteSets

CONSTANTS
    MaxTasks,  \* bound: processes created in a behaviour
    MaxLive,   \* bound: processes alive at the same time (memory limits it)
    MaxLiveAfterMishap, \* the same, from the first mishap on
    Mishaps    \* which rare events happen: a subset of AllMishaps

AllMishaps == {"args", "pointer", "boot_irq"}

ASSUME SchedulerAssumption ==
    /\ MaxTasks \in Nat \ {0}
    /\ MaxLive \in Nat \ {0} /\ MaxLiveAfterMishap \in 1 .. MaxLive
    /\ Mishaps \subseteq AllMishaps

Tasks == 1 .. MaxTasks
NIL == 0
KERNEL == -1
PANIC == -2

VARIABLES
    next, prev,        \* task->next and task->prev
    task_head, task_tail, current_task,
    process_vector,    \* process_vector: a process or NIL in each slot
    id,                \* process->id, its slot
    current_process,
    registers,         \* task->registers: whose execution they resume
    created,           \* the processes created so far are 1 .. created
    alive,             \* those not freed
    invoker,           \* who made the call that started a process
    mishaps,           \* the mishaps that have happened
    cpu                \* whose execution the processor is in

list == <<next, prev, task_head, task_tail>>
table == <<process_vector, id, current_process>>
history == <<created, alive, invoker, mishaps>>
vars == <<list, current_task, table, registers, history, cpu>>

-----------------------------------------------------------------------------
(* task/task.c *)

(* Fault: the last task is followed by nothing. *)
FaultGetNextNoWrap(nx, head, cur) == IF nx[cur] = NIL THEN cur ELSE nx[cur]

task_get_next(nx, head, cur) == IF nx[cur] = NIL THEN head ELSE nx[cur]

(* Fault: the tail keeps pointing at the previous last task. *)
FaultTaskNewTail(t) ==
    /\ IF task_head = NIL
       THEN task_head' = t /\ task_tail' = t /\ UNCHANGED <<next, prev>>
       ELSE /\ next' = [next EXCEPT ![task_tail] = t]
            /\ prev' = [prev EXCEPT ![t] = task_tail]
            /\ UNCHANGED <<task_head, task_tail>>

(* task_new: the links are zero, the registers are the entry point, and    *)
(* the first task of all becomes the list and the current task.            *)
task_new(t) ==
    /\ IF task_head = NIL
       THEN task_head' = t /\ task_tail' = t /\ UNCHANGED <<next, prev>>
       ELSE /\ next' = [next EXCEPT ![task_tail] = t]
            /\ prev' = [prev EXCEPT ![t] = task_tail]
            /\ task_tail' = t
            /\ UNCHANGED task_head

(* Fault: the freed task stays current. *)
FaultRemoveKeepsCurrent(t) ==
    LET nx   == IF prev[t] = NIL THEN next ELSE [next EXCEPT ![prev[t]] = next[t]]
        head == IF t = task_head THEN nx[t] ELSE task_head
    IN  [next    |-> nx,
         head    |-> head,
         tail    |-> IF t = task_tail THEN prev[t] ELSE task_tail,
         current |-> current_task]

(* task_list_remove.  The successor's prev is not updated. *)
task_list_remove(t) ==
    LET nx   == IF prev[t] = NIL THEN next ELSE [next EXCEPT ![prev[t]] = next[t]]
        head == IF t = task_head THEN nx[t] ELSE task_head
    IN  [next    |-> nx,
         head    |-> head,
         tail    |-> IF t = task_tail THEN prev[t] ELSE task_tail,
         current |-> IF t = current_task THEN task_get_next(nx, head, t) ELSE current_task]

(* task_current_save_state: the interrupted execution's registers go to    *)
(* whatever task is current.                                               *)
Saved == [registers EXCEPT ![current_task] = cpu]

-----------------------------------------------------------------------------
(* task/process.c *)

FreeSlots(v) == {i \in DOMAIN v : v[i] = NIL}

Lowest(S) == CHOOSE i \in S : \A j \in S : i <= j

(* process_get_free_slot: the lowest empty slot, or a new one. *)
SlotsWithFree ==
    IF FreeSlots(process_vector) = {} THEN Append(process_vector, NIL) ELSE process_vector

process_get_free_slot == Lowest(FreeSlots(SlotsWithFree))

(* process_load_switch, when the program loads: slot, task, table entry,   *)
(* current process.                                                        *)
process_load_switch(p) ==
    /\ p = created + 1 /\ p <= MaxTasks
    /\ Cardinality(alive) < (IF mishaps' = {} THEN MaxLive ELSE MaxLiveAfterMishap)
    /\ task_new(p)
    /\ process_vector' = [SlotsWithFree EXCEPT ![process_get_free_slot] = p]
    /\ id' = [id EXCEPT ![p] = process_get_free_slot]
    /\ current_process' = p
    /\ created' = p
    /\ alive' = alive \cup {p}
    /\ invoker' = [invoker EXCEPT ![p] = cpu]

(* Fault: the slot of a process that is not current is kept. *)
FaultUnlinkCurrentOnly(p) ==
    IF p = current_process THEN [process_vector EXCEPT ![id[p]] = NIL] ELSE process_vector

process_unlink(p) == [process_vector EXCEPT ![id[p]] = NIL]

(* process_terminate: the slot is emptied first; if the process was the    *)
(* current one, the process in the lowest slot becomes current, and with   *)
(* no process left the kernel panics.  Then the task is freed.             *)
NothingLeft(p) ==
    current_process = p /\ FreeSlots(process_unlink(p)) = DOMAIN process_vector

process_terminate(p) ==
    LET slots == process_unlink(p)
        r     == task_list_remove(p)
    IN  /\ ~NothingLeft(p)
        /\ process_vector' = slots
        /\ current_process' = IF current_process = p
                              THEN slots[Lowest(DOMAIN slots \ FreeSlots(slots))]
                              ELSE current_process
        /\ next' = r.next /\ task_head' = r.head /\ task_tail' = r.tail
        /\ alive' = alive \ {p}
        /\ UNCHANGED <<prev, id, created, invoker>>

(* A rare event, and what is recorded of it. *)
NoMishap == mishaps' = mishaps

Mishap(m) ==
    /\ m \in Mishaps
    /\ Cardinality(alive) <= MaxLiveAfterMishap
    /\ mishaps' = mishaps \cup {m}

-----------------------------------------------------------------------------
(* kernel_main: interrupts are already on when the first program is loaded. *)

Init ==
    /\ next = [t \in Tasks |-> NIL] /\ prev = next
    /\ task_head = NIL /\ task_tail = NIL /\ current_task = NIL
    /\ process_vector = <<>> /\ id = next /\ current_process = NIL
    /\ registers = [t \in Tasks |-> t]
    /\ created = 0 /\ alive = {} /\ invoker = next /\ mishaps = {}
    /\ cpu = KERNEL

BootLoad ==
    /\ cpu = KERNEL /\ current_task = NIL
    /\ NoMishap
    /\ process_load_switch(1)
    /\ current_task' = 1
    /\ UNCHANGED <<registers, cpu>>

BootLoadFails ==
    /\ cpu = KERNEL /\ current_task = NIL
    /\ cpu' = PANIC
    /\ UNCHANGED <<list, current_task, table, registers, history>>

(* An interrupt with a callback between process_load_switch and            *)
(* task_run_first_ever_task: there is a current task, and its registers    *)
(* are overwritten.                                                        *)
BootInterrupt ==
    /\ Mishap("boot_irq")
    /\ cpu = KERNEL /\ current_task # NIL
    /\ registers' = Saved
    /\ UNCHANGED <<list, current_task, table, created, alive, invoker, cpu>>

task_run_first_ever_task ==
    /\ cpu = KERNEL /\ current_task # NIL
    /\ current_task' = task_head
    /\ cpu' = registers[task_head]
    /\ UNCHANGED <<list, table, registers, history>>

-----------------------------------------------------------------------------
(* Entries into the kernel from user code.  Each begins by saving the      *)
(* registers into the current task.                                        *)

(* Fault: the registers go to the head of the list. *)
FaultEnterHead ==
    /\ cpu \in Tasks
    /\ registers' = [registers EXCEPT ![task_head] = cpu]

Enter ==
    /\ cpu \in Tasks
    /\ registers' = Saved

(* A device interrupt, or a system call that neither starts nor ends a     *)
(* process: the interrupted execution continues.                           *)
InterruptOrCall ==
    /\ Enter
    /\ UNCHANGED <<list, current_task, table, history, cpu>>

(* isr80h_command6_process_load_start and                                  *)
(* isr80h_command7_invoke_system_command: the new task runs at once.       *)
Invoke ==
    /\ Enter /\ NoMishap
    /\ \E p \in Tasks :
          /\ process_load_switch(p)
          /\ current_task' = p
          /\ cpu' = registers'[p]

(* The program does not load: the slot found for it stays empty. *)
InvokeFails ==
    /\ Enter
    /\ process_vector' = SlotsWithFree
    /\ UNCHANGED <<list, current_task, id, current_process, history, cpu>>

(* Command 7 when process_inject_arguments fails: the process is loaded    *)
(* and made current, and the caller goes on.                               *)
InvokeWithoutArguments ==
    /\ Enter /\ Mishap("args")
    /\ \E p \in Tasks : process_load_switch(p)
    /\ UNCHANGED <<current_task, cpu>>

(* Fault: the successor that the removal chose runs. *)
FaultExitOnce ==
    /\ Enter /\ NoMishap
    /\ process_terminate(current_task)
    /\ current_task' = task_list_remove(current_task).current
    /\ cpu' = registers'[current_task']

(* isr80h_command9_exit: process_terminate has already moved current_task  *)
(* to the successor when task_next moves it once more.                     *)
Exit ==
    /\ Enter /\ NoMishap
    /\ process_terminate(current_task)
    /\ current_task' = task_get_next(next', task_head', task_list_remove(current_task).current)
    /\ cpu' = registers'[current_task']

ExitOfLast ==
    /\ Enter
    /\ NothingLeft(current_task)
    /\ cpu' = PANIC
    /\ UNCHANGED <<list, current_task, table, history>>

(* A file call with memory that the process does not own:                  *)
(* process_validate_memory_or_terminate frees the process, the call        *)
(* returns an error, and isr80h_handler returns to the interrupted code.   *)
BadPointer ==
    /\ Enter /\ Mishap("pointer")
    /\ process_terminate(current_task)
    /\ current_task' = task_list_remove(current_task).current
    /\ UNCHANGED cpu

Next ==
    \/ BootLoad \/ BootLoadFails \/ BootInterrupt \/ task_run_first_ever_task
    \/ InterruptOrCall \/ Invoke \/ InvokeFails \/ InvokeWithoutArguments
    \/ Exit \/ ExitOfLast \/ BadPointer

Spec == Init /\ [][Next]_vars

-----------------------------------------------------------------------------
(* Properties.                                                             *)

(* The task list is what task_new and task_list_remove mean it to be: it   *)
(* links exactly the tasks that are not freed, in the order of their       *)
(* creation, from task_head to task_tail, and prev is the inverse of next. *)
ListWellFormed ==
    alive # {} =>
        /\ task_head \in alive /\ task_tail \in alive
        /\ \A t \in alive : /\ next[t] = NIL <=> t = task_tail
                            /\ next[t] \in alive \cup {NIL}
        /\ \A t \in alive \ {task_head} :
              prev[t] \in alive /\ prev[t] < t /\ next[prev[t]] = t

(* The process table holds every living process in its own slot, nothing   *)
(* that was freed, and the current process is one of them.                 *)
TableExact ==
    /\ \A p \in alive : id[p] \in DOMAIN process_vector /\ process_vector[id[p]] = p
    /\ \A i \in DOMAIN process_vector : process_vector[i] \in alive \cup {NIL}
    /\ alive # {} => current_process \in alive

(* The current task, whose page tables isr80h_handler and                  *)
(* interrupt_handler load and whose process system calls act on, is not a  *)
(* freed one.                                                              *)
CurrentTaskAlive == alive # {} => current_task \in alive

(* current_task is "The current task that is running" (task.c:12): the     *)
(* code the processor executes is the current task's and not that of a     *)
(* task that was freed.  A mishap can break this.                          *)
CurrentTaskRuns ==
    mishaps = {} /\ cpu \in Tasks => cpu = current_task /\ cpu \in alive

(* task->registers are "The registers of the task when the task is not     *)
(* running" (task.h:28): resuming a task never resumes something else, as  *)
(* long as none of the mishaps has happened.                               *)
SavedRegistersOwn == mishaps = {} => \A t \in alive : registers[t] = t

(* When a process exits, the process that started it runs next, if it is   *)
(* still there.                                                            *)
ExitReturnsToInvoker ==
    [][\A t \in Tasks :
          mishaps' = {} /\ cpu = t /\ t \in alive /\ t \notin alive' /\ cpu' \in Tasks /\ invoker[t] \in alive
              => cpu' = invoker[t]]_vars
=============================================================================
