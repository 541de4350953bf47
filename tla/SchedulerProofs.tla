-------------------------- MODULE SchedulerProofs ---------------------------
(***************************************************************************)
(* Tasks and processes, for every number of processes that start and end   *)
(* in the life of the system, if no more than three are alive at a time,   *)
(* and no more than two once a mishap has happened.  With a fourth process *)
(* CurrentTaskRuns fails (run scheduler_four): the limits are those of the *)
(* code.                                                                   *)
(*                                                                         *)
(* task_list_remove leaves the successor's prev as it was.  The list is    *)
(* right nevertheless, because the task that is removed has no successor   *)
(* or is the first of the list: with up to three tasks and no mishap the   *)
(* current task is always the last one, and a list of two has no middle.   *)
(* SchedInv therefore spells out the lists that there are.                 *)
(***************************************************************************)
EXTENDS Scheduler, SequenceTheorems, FiniteSetTheorems, WellFoundedInduction, TLAPS

(* What the code's environment has to ensure. *)
FewAlive == MaxLive <= 3 /\ MaxLiveAfterMishap <= 2

(* The memory of tasks that do not exist yet is as in Init. *)
ListTypes ==
    /\ next \in [Tasks -> Tasks \cup {NIL}] /\ prev \in [Tasks -> Tasks \cup {NIL}]
    /\ id \in [Tasks -> Nat] /\ invoker \in [Tasks -> Tasks \cup {NIL, KERNEL}]
    /\ created \in 0 .. MaxTasks /\ alive \subseteq 1 .. created
    /\ \A t \in Tasks : prev[t] < t
    /\ \A t \in Tasks : t > created => next[t] = NIL

RegisterTypes ==
    /\ registers \in [Tasks -> Tasks \cup {KERNEL}]
    /\ cpu \in Tasks \cup {KERNEL, PANIC}
    /\ \A t \in Tasks : t > created => registers[t] = t

Types == ListTypes /\ RegisterTypes

(* The lists of one, two and three tasks.  Who started whom is part of it: *)
(* it is what ExitReturnsToInvoker is about.                               *)
One(a) == alive = {a} /\ task_head = a /\ task_tail = a /\ next[a] = NIL

Two(a, b) ==
    /\ alive = {a, b} /\ a < b /\ task_head = a /\ task_tail = b
    /\ next[a] = b /\ next[b] = NIL /\ prev[b] = a
    /\ mishaps = {} => invoker[b] = a

Three(a, b, c) ==
    /\ alive = {a, b, c} /\ a < b /\ b < c /\ task_head = a /\ task_tail = c
    /\ next[a] = b /\ next[b] = c /\ next[c] = NIL /\ prev[b] = a /\ prev[c] = b
    /\ mishaps = {} /\ invoker[b] = a /\ invoker[c] = b

Chain ==
    \/ \E a \in Tasks : One(a)
    \/ \E a, b \in Tasks : Two(a, b)
    \/ \E a, b, c \in Tasks : Three(a, b, c)

NotStarted ==
    /\ alive = {} /\ task_head = NIL /\ current_task = NIL /\ created = 0
    /\ cpu \notin Tasks

Shape == NotStarted \/ (current_task \in alive /\ Chain)

(* Without a mishap the last task of the list is the one that runs, and    *)
(* every task has its own registers.                                       *)
Undisturbed ==
    mishaps = {} =>
        /\ \A t \in alive : registers[t] = t
        /\ alive # {} => current_task = task_tail
        /\ cpu \in Tasks => cpu = current_task
        /\ cpu = KERNEL /\ alive # {} => task_head = task_tail

(* TableExact does not say that a process has one slot only. *)
Table ==
    /\ process_vector \in Seq(Tasks \cup {NIL})
    /\ TableExact
    /\ \A i \in DOMAIN process_vector : process_vector[i] # NIL => id[process_vector[i]] = i

SchedInv == Types /\ Shape /\ Undisturbed /\ Table

-----------------------------------------------------------------------------
(* Sets of tasks.                                                          *)

(* Two and three tasks are that many. *)
LEMMA CardTwo ==
    ASSUME NEW a, NEW b, a # b
    PROVE  Cardinality({a, b}) = 2
  <1>1. IsFiniteSet({a}) /\ Cardinality({a}) = 1
    BY FS_Singleton
  <1>2. Cardinality({a} \cup {b}) = 2
    BY <1>1, FS_AddElement
  <1>3. {a} \cup {b} = {a, b}
    OBVIOUS
  <1> QED
    BY <1>2, <1>3

(* The same for three. *)
LEMMA CardThree ==
    ASSUME NEW a, NEW b, NEW c, a # b, a # c, b # c
    PROVE  Cardinality({a, b, c}) = 3
  <1>1. IsFiniteSet({a}) /\ Cardinality({a}) = 1
    BY FS_Singleton
  <1>2. IsFiniteSet({a} \cup {b}) /\ Cardinality({a} \cup {b}) = 2
    BY <1>1, FS_AddElement
  <1>3. Cardinality(({a} \cup {b}) \cup {c}) = 3
    BY <1>2, FS_AddElement
  <1>4. ({a} \cup {b}) \cup {c} = {a, b, c}
    OBVIOUS
  <1> QED
    BY <1>3, <1>4

(* The lowest of a nonempty set of slots is one of them. *)
LEMMA LowestIn ==
    ASSUME NEW S, S \subseteq Nat, S # {}
    PROVE  Lowest(S) \in S
  <1>1. PICK x \in S : \A y \in S : ~ (<<y, x>> \in OpToRel(<, Nat))
    BY WFMin, NatLessThanWellFounded
  <1>2. \A y \in S : ~(y < x)
    BY <1>1 DEF OpToRel
  <1>3. \A y \in S : x <= y
    BY <1>2
  <1> QED
    BY <1>3 DEF Lowest

(* Tasks are positive numbers, unlike the marks for other values. *)
LEMMA TasksAreNumbers ==
    /\ Tasks \subseteq Nat \ {0}
    /\ NIL \notin Tasks /\ KERNEL \notin Tasks /\ PANIC \notin Tasks
  BY SchedulerAssumption DEF Tasks, NIL, KERNEL, PANIC

-----------------------------------------------------------------------------
(* The process table.                                                      *)

(* process_get_free_slot finds an empty slot, and making one more changes  *)
(* no other.                                                               *)
LEMMA FreeSlot ==
    ASSUME Table
    PROVE  /\ SlotsWithFree \in Seq(Tasks \cup {NIL})
           /\ process_get_free_slot \in DOMAIN SlotsWithFree
           /\ SlotsWithFree[process_get_free_slot] = NIL
           /\ \A i \in DOMAIN process_vector :
                 i \in DOMAIN SlotsWithFree /\ SlotsWithFree[i] = process_vector[i]
           /\ \A i \in DOMAIN SlotsWithFree :
                 SlotsWithFree[i] = NIL
                   \/ (i \in DOMAIN process_vector /\ SlotsWithFree[i] = process_vector[i])
  <1> DEFINE v == process_vector
             w == SlotsWithFree
  <1>1. v \in Seq(Tasks \cup {NIL})
    BY DEF Table
  <1>2. CASE FreeSlots(v) = {}
    <2>1. w = Append(v, NIL)
      BY <1>2 DEF SlotsWithFree
    <2> HIDE DEF v, w
    <2> DEFINE n == Len(v)
    <2>2. n \in Nat /\ DOMAIN v = 1 .. n
      BY <1>1
    <2>3. w \in Seq(Tasks \cup {NIL}) /\ DOMAIN w = 1 .. n + 1 /\ w[n + 1] = NIL
      BY <1>1, <2>1
    <2>4. \A i \in 1 .. n : w[i] = v[i]
      BY <1>1, <2>1
    <2> HIDE DEF n
    <2>5. n + 1 \in FreeSlots(w) /\ FreeSlots(w) \subseteq Nat
      BY <2>2, <2>3 DEF FreeSlots
    <2>6. Lowest(FreeSlots(w)) \in FreeSlots(w)
      BY <2>5, LowestIn
    <2>7. \A i \in 1 .. n : i \in 1 .. n + 1
      BY <2>2
    <2>8. \A i \in 1 .. n + 1 : i = n + 1 \/ i \in 1 .. n
      BY <2>2
    <2> QED
      BY <2>2, <2>3, <2>4, <2>6, <2>7, <2>8 DEF v, w, process_get_free_slot, FreeSlots
  <1>3. CASE FreeSlots(v) # {}
    <2>1. w = v
      BY <1>3 DEF SlotsWithFree
    <2>2. FreeSlots(v) \subseteq Nat
      BY <1>1 DEF FreeSlots
    <2>3. Lowest(FreeSlots(v)) \in FreeSlots(v)
      BY <1>3, <2>2, LowestIn
    <2> QED
      BY <1>1, <2>1, <2>3 DEF process_get_free_slot, FreeSlots
  <1> QED
    BY <1>2, <1>3

(* A program that does not load leaves the table as it was, or with an     *)
(* empty slot more.                                                        *)
LEMMA TableInvokeFails ==
    ASSUME Table, process_vector' = SlotsWithFree, UNCHANGED <<id, alive, current_process>>
    PROVE  Table'
  BY FreeSlot DEF Table, TableExact

(* A new process gets a slot of its own. *)
LEMMA TableLoad ==
    ASSUME Types, Table, NEW p \in Tasks, p \notin alive, process_load_switch(p)
    PROVE  Table'
  <1> DEFINE w == SlotsWithFree
             s == process_get_free_slot
             u == [w EXCEPT ![s] = p]
  <1>1. /\ w \in Seq(Tasks \cup {NIL}) /\ s \in DOMAIN w /\ w[s] = NIL
        /\ \A i \in DOMAIN process_vector : i \in DOMAIN w /\ w[i] = process_vector[i]
        /\ \A i \in DOMAIN w :
              w[i] = NIL \/ (i \in DOMAIN process_vector /\ w[i] = process_vector[i])
    BY FreeSlot
  <1>2. /\ process_vector' = u /\ id' = [id EXCEPT ![p] = s]
        /\ alive' = alive \cup {p} /\ current_process' = p
    BY DEF process_load_switch
  <1> HIDE DEF w, s
  <1>3. s \in Nat /\ DOMAIN w = 1 .. Len(w)
    BY <1>1
  <1>4. /\ u \in Seq(Tasks \cup {NIL}) /\ DOMAIN u = DOMAIN w
        /\ \A i \in DOMAIN u : u[i] = IF i = s THEN p ELSE w[i]
    BY <1>1, <1>3
  <1>5. id'[p] = s /\ \A q \in Tasks : q # p => id'[q] = id[q]
    BY <1>2 DEF Types, ListTypes, RegisterTypes
  <1>6. alive \subseteq Tasks /\ NIL \notin Tasks
    BY TasksAreNumbers, SchedulerAssumption DEF Types, ListTypes, RegisterTypes, Tasks
  <1> HIDE DEF u
  <1>7. ASSUME NEW q \in alive' PROVE id'[q] \in DOMAIN u /\ u[id'[q]] = q
    <2>1. CASE q = p
      BY <2>1, <1>1, <1>4, <1>5
    <2>2. CASE q # p
      <3>1. q \in alive /\ q \in Tasks
        BY <2>2, <1>2, <1>6
      <3>2. id[q] \in DOMAIN process_vector /\ process_vector[id[q]] = q
        BY <3>1 DEF Table, TableExact
      <3> QED
        BY <2>2, <3>1, <3>2, <1>1, <1>4, <1>5, <1>6
    <2> QED
      BY <2>1, <2>2
  <1>8. ASSUME NEW i \in DOMAIN u
        PROVE  /\ u[i] \in alive' \cup {NIL}
               /\ u[i] # NIL => id'[u[i]] = i
    <2>1. CASE i = s
      BY <2>1, <1>2, <1>4, <1>5
    <2>2. CASE i # s
      <3>1. u[i] = w[i]
        BY <2>2, <1>4
      <3>2. CASE w[i] = NIL
        BY <3>1, <3>2
      <3>3. CASE i \in DOMAIN process_vector /\ w[i] = process_vector[i] /\ w[i] # NIL
        <4>1. w[i] \in alive /\ id[w[i]] = i
          BY <3>3 DEF Table, TableExact
        <4> QED
          BY <4>1, <3>1, <1>2, <1>5, <1>6
      <3> QED
        BY <3>2, <3>3, <1>1, <1>4
    <2> QED
      BY <2>1, <2>2
  <1>9. current_process' \in alive'
    BY <1>2
  <1> QED
    BY <1>2, <1>4, <1>7, <1>8, <1>9 DEF Table, TableExact

(* The slot of a process that ends is emptied, and no other. *)
LEMMA Unlink ==
    ASSUME Types, Table, NEW p \in alive
    PROVE  /\ process_unlink(p) \in Seq(Tasks \cup {NIL})
           /\ DOMAIN process_unlink(p) = DOMAIN process_vector
           /\ \A i \in DOMAIN process_vector :
                 process_unlink(p)[i] = IF process_vector[i] = p THEN NIL ELSE process_vector[i]
  <1> DEFINE v == process_vector
             n == Len(v)
  <1>1. v \in Seq(Tasks \cup {NIL}) /\ n \in Nat /\ DOMAIN v = 1 .. n
    BY DEF Table
  <1>2. p \in Tasks /\ p # NIL
    BY TasksAreNumbers, SchedulerAssumption DEF Types, ListTypes, RegisterTypes, Tasks
  <1>3. id[p] \in 1 .. n /\ v[id[p]] = p
    BY <1>1 DEF Table, TableExact
  <1>4. \A i \in 1 .. n : v[i] = p <=> i = id[p]
    BY <1>1, <1>2, <1>3 DEF Table
  <1>5. process_unlink(p) = [v EXCEPT ![id[p]] = NIL]
    BY DEF process_unlink
  <1> HIDE DEF v, n
  <1>6. /\ process_unlink(p) \in Seq(Tasks \cup {NIL})
        /\ DOMAIN process_unlink(p) = 1 .. n
    BY <1>1, <1>3, <1>5
  <1>7. \A i \in 1 .. n : process_unlink(p)[i] = IF v[i] = p THEN NIL ELSE v[i]
    BY <1>1, <1>3, <1>4, <1>5
  <1> QED
    BY <1>1, <1>6, <1>7 DEF v

(* The process that ends disappears from the table, and a living one is    *)
(* current after it.                                                       *)
LEMMA TableTerminate ==
    ASSUME Types, Table, NEW p \in alive, process_terminate(p)
    PROVE  Table'
  <1> DEFINE v == process_vector
             u == process_unlink(p)
  <1>1. /\ u \in Seq(Tasks \cup {NIL}) /\ DOMAIN u = DOMAIN v
        /\ \A i \in DOMAIN v : u[i] = IF v[i] = p THEN NIL ELSE v[i]
    BY Unlink
  <1>2. /\ process_vector' = u /\ id' = id /\ alive' = alive \ {p} /\ ~NothingLeft(p)
        /\ current_process' = IF current_process = p
                              THEN u[Lowest(DOMAIN u \ FreeSlots(u))]
                              ELSE current_process
    BY DEF process_terminate
  <1>3. \A i \in DOMAIN u : u[i] \in alive' \cup {NIL} /\ (u[i] # NIL => id'[u[i]] = i)
    BY <1>1, <1>2 DEF Table, TableExact
  <1>4. \A q \in alive' : id'[q] \in DOMAIN u /\ u[id'[q]] = q
    BY <1>1, <1>2 DEF Table, TableExact
  <1>5. current_process' \in alive'
    <2>1. CASE current_process = p
      <3> DEFINE S == DOMAIN u \ FreeSlots(u)
      <3>1. FreeSlots(u) # DOMAIN v
        BY <2>1, <1>2 DEF NothingLeft
      <3>2. S # {}
        BY <3>1, <1>1 DEF FreeSlots
      <3>3. S \subseteq Nat
        BY <1>1
      <3>4. Lowest(S) \in S
        BY <3>2, <3>3, LowestIn
      <3> DEFINE m == Lowest(S)
      <3>5. m \in DOMAIN u /\ u[m] # NIL
        BY <3>4 DEF FreeSlots
      <3>6. current_process' = u[m]
        BY <2>1, <1>2
      <3> HIDE DEF m
      <3>7. u[m] \in alive' \cup {NIL}
        BY <3>5, <1>3
      <3> QED
        BY <3>5, <3>6, <3>7
    <2>2. CASE current_process # p
      BY <2>2, <1>2 DEF Table, TableExact
    <2> QED
      BY <2>1, <2>2
  <1> QED
    BY <1>1, <1>2, <1>3, <1>4, <1>5 DEF Table, TableExact

-----------------------------------------------------------------------------
(* The task list.                                                          *)

(* The number of a new process is not in use. *)
LEMMA NewTask ==
    ASSUME Types, NEW p \in Tasks, process_load_switch(p)
    PROVE  /\ p = created + 1 /\ p \notin alive /\ next[p] = NIL /\ registers[p] = p
           /\ \A t \in alive : t \in Tasks /\ t < p
  <1>1. p = created + 1 /\ created \in Nat
    BY DEF process_load_switch, Types, ListTypes, RegisterTypes
  <1> QED
    BY <1>1, TasksAreNumbers, SchedulerAssumption DEF Types, ListTypes, RegisterTypes, Tasks

(* A new task is added after the last one, which is that of the process    *)
(* that started it, unless a mishap has happened.                          *)
LEMMA LoadChain ==
    ASSUME FewAlive, Types, Shape, NEW p \in Tasks, process_load_switch(p),
           mishaps' = {} => mishaps = {} /\ (alive # {} => cpu = task_tail)
    PROVE  Chain' /\ task_tail' = p /\ alive' = alive \cup {p}
  <1>1. /\ p = created + 1 /\ p \notin alive /\ next[p] = NIL
        /\ \A t \in alive : t \in Tasks /\ t < p
    BY NewTask
  <1>2. /\ alive' = alive \cup {p} /\ invoker' = [invoker EXCEPT ![p] = cpu] /\ task_new(p)
        /\ Cardinality(alive) < (IF mishaps' = {} THEN MaxLive ELSE MaxLiveAfterMishap)
    BY DEF process_load_switch
  <1>3. /\ task_tail' = p
        /\ task_head = NIL => task_head' = p /\ next' = next
        /\ task_head # NIL => /\ task_head' = task_head
                              /\ next' = [next EXCEPT ![task_tail] = p]
                              /\ prev' = [prev EXCEPT ![p] = task_tail]
    BY <1>2 DEF task_new
  <1>4. CASE NotStarted
    <2>1. One(p)'
      BY <1>1, <1>2, <1>3, <1>4 DEF NotStarted, One
    <2> QED
      BY <2>1, <1>2, <1>3 DEF Chain
  <1>5. ASSUME NEW a \in Tasks, One(a) PROVE Chain'
    <2>1. a < p /\ a # p /\ a # NIL
      BY <1>1, <1>5, TasksAreNumbers DEF One
    <2>2. /\ task_head' = a /\ next' = [next EXCEPT ![a] = p] /\ prev' = [prev EXCEPT ![p] = a]
      BY <1>3, <1>5, <2>1 DEF One
    <2>3. next'[a] = p /\ next'[p] = NIL /\ prev'[p] = a /\ invoker'[p] = cpu
      BY <1>1, <1>2, <2>1, <2>2 DEF Types, ListTypes, RegisterTypes
    <2>4. alive' = {a, p} /\ (mishaps' = {} => cpu = a)
      BY <1>2, <1>5 DEF One
    <2>5. Two(a, p)'
      BY <2>1, <2>2, <2>3, <2>4, <1>3 DEF Two
    <2> QED
      BY <2>5 DEF Chain
  <1>6. ASSUME NEW a \in Tasks, NEW b \in Tasks, Two(a, b) PROVE Chain'
    <2>1. a < b /\ a # b /\ b < p /\ a < p /\ a # NIL
      BY <1>1, <1>6, TasksAreNumbers DEF Two
    <2>2. mishaps' = {} /\ mishaps = {}
      <3>1. Cardinality(alive) = 2
        BY <1>6, <2>1, CardTwo DEF Two
      <3> QED
        BY <3>1, <1>2, SchedulerAssumption DEF FewAlive
    <2>3. /\ task_head' = a /\ next' = [next EXCEPT ![b] = p] /\ prev' = [prev EXCEPT ![p] = b]
      BY <1>3, <1>6, <2>1 DEF Two
    <2>4. cpu = b /\ invoker[b] = a /\ next[a] = b /\ prev[b] = a
      BY <1>6, <2>2 DEF Two
    <2>5. a # p /\ b # p
      BY <2>1, TasksAreNumbers
    <2>6. /\ next'[a] = b /\ next'[b] = p /\ next'[p] = NIL /\ prev'[p] = b /\ prev'[b] = a
          /\ invoker'[p] = b /\ invoker'[b] = a
      BY <1>1, <1>2, <2>1, <2>3, <2>4, <2>5 DEF Types, ListTypes, RegisterTypes
    <2>7. alive' = {a, b, p}
      BY <1>2, <1>6 DEF Two
    <2>8. Three(a, b, p)'
      BY <2>1, <2>2, <2>3, <2>6, <2>7, <1>3 DEF Three
    <2> QED
      BY <2>8 DEF Chain
  <1>7. ASSUME NEW a \in Tasks, NEW b \in Tasks, NEW c \in Tasks, Three(a, b, c) PROVE FALSE
    <2>1. a # b /\ a # c /\ b # c
      BY <1>7, TasksAreNumbers DEF Three
    <2>2. Cardinality({a, b, c}) = 3
      BY <2>1, CardThree, Zenon
    <2>3. Cardinality(alive) = 3
      BY <1>7, <2>2 DEF Three
    <2> QED
      BY <2>3, <1>2, SchedulerAssumption DEF FewAlive
  <1> QED
    BY <1>2, <1>3, <1>4, <1>5, <1>6, <1>7 DEF Shape, Chain

(* The last living process cannot end: the kernel panics instead. *)
LEMMA LastStays ==
    ASSUME Types, Table, NEW a \in alive, alive = {a}
    PROVE  NothingLeft(a)
  <1> DEFINE u == process_unlink(a)
  <1>1. /\ DOMAIN u = DOMAIN process_vector
        /\ \A i \in DOMAIN process_vector :
              u[i] = IF process_vector[i] = a THEN NIL ELSE process_vector[i]
    BY Unlink
  <1>2. \A i \in DOMAIN process_vector : process_vector[i] \in {a, NIL}
    BY DEF Table, TableExact
  <1>3. FreeSlots(u) = DOMAIN process_vector
    BY <1>1, <1>2 DEF FreeSlots
  <1>4. current_process = a
    BY DEF Table, TableExact
  <1> QED
    BY <1>3, <1>4 DEF NothingLeft

(* What is left of the list when the current task ends: task_list_remove   *)
(* makes its successor the current task, and task_next goes one further.   *)
(* Without a mishap that is the last task of the list again, and it is the *)
(* one that started the task that has ended.                               *)
LEMMA TerminateChain ==
    ASSUME Types, Shape, Table, current_task \in alive, process_terminate(current_task),
           mishaps = {} => current_task = task_tail,
           mishaps' = mishaps \/ Cardinality(alive) <= 2
    PROVE  LET after == task_list_remove(current_task).current
               then  == task_get_next(next', task_head', after)
           IN  /\ Chain'
               /\ after \in alive' /\ then \in alive'
               /\ mishaps = {} => /\ then = task_tail'
                                  /\ then = invoker[current_task]
  <1> DEFINE cur   == current_task
             nx    == IF prev[cur] = NIL THEN next ELSE [next EXCEPT ![prev[cur]] = next[cur]]
             after == task_list_remove(cur).current
             then  == task_get_next(next', task_head', after)
             Goal  == /\ Chain' /\ after \in alive' /\ then \in alive'
                      /\ mishaps = {} => then = task_tail' /\ then = invoker[cur]
  <1>1. /\ next' = nx /\ prev' = prev /\ invoker' = invoker /\ alive' = alive \ {cur}
        /\ task_head' = IF cur = task_head THEN nx[cur] ELSE task_head
        /\ task_tail' = IF cur = task_tail THEN prev[cur] ELSE task_tail
        /\ ~NothingLeft(cur)
    BY DEF process_terminate, task_list_remove
  <1>2. after = IF nx[cur] = NIL THEN task_head' ELSE nx[cur]
    BY <1>1 DEF task_list_remove, task_get_next
  <1>3. then = IF nx[after] = NIL THEN task_head' ELSE nx[after]
    BY <1>1 DEF task_get_next
  <1>4. /\ next \in [Tasks -> Tasks \cup {NIL}] /\ prev \in [Tasks -> Tasks \cup {NIL}]
        /\ \A t \in Tasks : prev[t] < t
    BY DEF Types, ListTypes, RegisterTypes
  <1> SUFFICES Goal
    OBVIOUS
  <1>5. ASSUME NEW a \in Tasks, One(a) PROVE Goal
    BY <1>1, <1>5, LastStays DEF One
  <1>6. ASSUME NEW a \in Tasks, NEW b \in Tasks, Two(a, b) PROVE Goal
    <2>1. /\ alive = {a, b} /\ a < b /\ task_head = a /\ task_tail = b
          /\ next[a] = b /\ next[b] = NIL /\ prev[b] = a
          /\ mishaps = {} => invoker[b] = a
      BY <1>6 DEF Two
    <2>2. a # b /\ a # NIL /\ b # NIL
      BY <2>1, TasksAreNumbers
    <2>3. CASE cur = b
      <3>1. nx = [next EXCEPT ![a] = NIL]
        BY <2>1, <2>2, <2>3
      <3>2. nx[a] = NIL /\ nx[b] = NIL
        BY <3>1, <2>1, <2>2, <1>4
      <3> HIDE DEF nx, after, then
      <3>3. task_head' = a /\ task_tail' = a /\ alive' = {a}
        BY <1>1, <2>1, <2>2, <2>3
      <3>4. after = a
        BY <3>2, <3>3, <2>3, <1>2
      <3>5. then = a
        BY <3>2, <3>3, <3>4, <1>3
      <3>6. One(a)'
        BY <3>2, <3>3, <1>1 DEF One
      <3> QED
        BY <3>3, <3>4, <3>5, <3>6, <2>1, <2>3 DEF Chain
    <2>4. CASE cur = a
      <3>1. prev[a] \in Tasks \cup {NIL} /\ prev[a] < a
        BY <1>4
      <3>2. prev[a] # a /\ prev[a] # b
        BY <3>1, <2>1, TasksAreNumbers DEF NIL
      <3>3. nx[a] = b /\ nx[b] = NIL
        BY <3>1, <3>2, <2>1, <2>4, <1>4
      <3>4. mishaps # {}
        BY <2>1, <2>2, <2>4
      <3> HIDE DEF nx, after, then
      <3>5. task_head' = b /\ task_tail' = b /\ alive' = {b}
        BY <3>3, <1>1, <2>1, <2>2, <2>4
      <3>6. after = b
        BY <3>3, <2>2, <2>4, <1>2
      <3>7. then = b
        BY <3>3, <3>5, <3>6, <1>3
      <3>8. One(b)'
        BY <3>3, <3>5, <1>1 DEF One
      <3> QED
        BY <3>4, <3>5, <3>6, <3>7, <3>8 DEF Chain
    <2> QED
      BY <2>1, <2>3, <2>4
  <1>7. ASSUME NEW a \in Tasks, NEW b \in Tasks, NEW c \in Tasks, Three(a, b, c) PROVE Goal
    <2>1. /\ alive = {a, b, c} /\ a < b /\ b < c /\ task_head = a /\ task_tail = c
          /\ next[a] = b /\ next[b] = c /\ next[c] = NIL /\ prev[b] = a /\ prev[c] = b
          /\ mishaps = {} /\ invoker[b] = a /\ invoker[c] = b
      BY <1>7 DEF Three
    <2>2. a # b /\ a # c /\ b # c /\ a # NIL /\ b # NIL
      BY <2>1, TasksAreNumbers
    <2>3. cur = c /\ mishaps' = {}
      <3>1. Cardinality({a, b, c}) = 3
        BY <2>2, CardThree, Zenon
      <3>2. Cardinality(alive) = 3
        BY <3>1, <2>1
      <3> QED
        BY <3>2, <2>1
    <2>4. nx = [next EXCEPT ![b] = NIL]
      BY <2>1, <2>2, <2>3
    <2>5. nx[a] = b /\ nx[b] = NIL /\ nx[c] = NIL
      BY <2>1, <2>2, <2>4, <1>4
    <2> HIDE DEF nx, after, then
    <2>6. task_head' = a /\ task_tail' = b /\ alive' = {a, b}
      BY <1>1, <2>1, <2>2, <2>3
    <2>7. after = a
      BY <2>3, <2>5, <2>6, <1>2
    <2>8. then = b
      BY <2>2, <2>5, <2>7, <1>3
    <2>9. Two(a, b)'
      BY <2>1, <2>5, <2>6, <1>1 DEF Two
    <2> QED
      BY <2>1, <2>3, <2>6, <2>7, <2>8, <2>9 DEF Chain
  <1> QED
    BY <1>5, <1>6, <1>7 DEF Shape, Chain, NotStarted

-----------------------------------------------------------------------------
(* Types.                                                                  *)

(* The ends of the list are living tasks. *)
LEMMA EndsAlive ==
    ASSUME Chain
    PROVE  /\ task_head \in alive /\ task_tail \in alive /\ alive # {} /\ alive \subseteq Tasks
  BY DEF Chain, One, Two, Three

(* A new task, and a task that ends, keep the types of the list. *)
LEMMA LoadTypes ==
    ASSUME Types, Shape, Table, cpu # PANIC, NEW p \in Tasks, process_load_switch(p)
    PROVE  ListTypes'
  <1>1. /\ p = created + 1 /\ created' = p /\ alive' = alive \cup {p} /\ task_new(p)
        /\ id' = [id EXCEPT ![p] = process_get_free_slot]
        /\ invoker' = [invoker EXCEPT ![p] = cpu]
    BY DEF process_load_switch
  <1>2. created' \in 0 .. MaxTasks /\ alive' \subseteq 1 .. created'
    BY <1>1, SchedulerAssumption DEF Types, ListTypes, RegisterTypes, Tasks
  <1>3. id' \in [Tasks -> Nat]
    <2>1. process_get_free_slot \in DOMAIN SlotsWithFree /\ SlotsWithFree \in Seq(Tasks \cup {NIL})
      BY FreeSlot
    <2>2. process_get_free_slot \in Nat
      BY <2>1
    <2> QED
      BY <1>1, <2>2 DEF Types, ListTypes, RegisterTypes
  <1>4. invoker' \in [Tasks -> Tasks \cup {NIL, KERNEL}]
    BY <1>1 DEF Types, ListTypes, RegisterTypes
  <1>5. CASE task_head = NIL
    <2>1. next' = next /\ prev' = prev
      BY <1>1, <1>5 DEF task_new
    <2>2. \A t \in Tasks : t > created' => t > created
      BY <1>1, TasksAreNumbers DEF Types, ListTypes, RegisterTypes
    <2> QED
      BY <1>2, <1>3, <1>4, <2>1, <2>2 DEF Types, ListTypes, RegisterTypes
  <1>6. CASE task_head # NIL
    <2>1. task_tail \in alive
      BY <1>6, EndsAlive DEF Shape, NotStarted
    <2>2. task_tail \in Tasks /\ task_tail < p
      BY <2>1, NewTask
    <2>3. next' = [next EXCEPT ![task_tail] = p] /\ prev' = [prev EXCEPT ![p] = task_tail]
      BY <1>1, <1>6 DEF task_new
    <2>4. \A t \in Tasks : t > created' => t > created /\ t # task_tail
      BY <1>1, <2>2, TasksAreNumbers DEF Types, ListTypes, RegisterTypes
    <2>5. \A t \in Tasks : t > created' => next'[t] = NIL
      BY <2>3, <2>4 DEF Types, ListTypes, RegisterTypes
    <2>6. \A t \in Tasks : prev'[t] < t
      BY <2>2, <2>3 DEF Types, ListTypes, RegisterTypes
    <2>7. next' \in [Tasks -> Tasks \cup {NIL}] /\ prev' \in [Tasks -> Tasks \cup {NIL}]
      BY <2>2, <2>3 DEF Types, ListTypes, RegisterTypes
    <2> QED
      BY <1>2, <1>3, <1>4, <2>5, <2>6, <2>7 DEF ListTypes
  <1> QED
    BY <1>5, <1>6

(* The link that task_list_remove writes is never that of a task to come. *)
LEMMA TerminateTypes ==
    ASSUME Types, NEW p \in alive, process_terminate(p)
    PROVE  ListTypes'
  <1> DEFINE nx == IF prev[p] = NIL THEN next ELSE [next EXCEPT ![prev[p]] = next[p]]
  <1>1. /\ next' = nx /\ prev' = prev /\ id' = id /\ invoker' = invoker /\ created' = created
        /\ alive' = alive \ {p}
    BY DEF process_terminate, task_list_remove
  <1>2. p \in Tasks /\ p <= created
    BY SchedulerAssumption DEF Types, ListTypes, Tasks
  <1>3. /\ prev[p] \in Tasks \cup {NIL} /\ prev[p] < p /\ next[p] \in Tasks \cup {NIL}
        /\ next \in [Tasks -> Tasks \cup {NIL}]
    BY <1>2 DEF Types, ListTypes
  <1>4. nx \in [Tasks -> Tasks \cup {NIL}]
    BY <1>3
  <1>5. \A t \in Tasks : t > created => nx[t] = NIL
    <2> TAKE t \in Tasks
    <2> HAVE t > created
    <2>1. t # prev[p]
      BY <1>2, <1>3, TasksAreNumbers DEF Types, ListTypes, NIL
    <2>2. next[t] = NIL
      BY DEF Types, ListTypes
    <2> QED
      BY <1>3, <2>1, <2>2
  <1> HIDE DEF nx
  <1> QED
    BY <1>1, <1>4, <1>5 DEF Types, ListTypes

(* Saving the registers changes those of the current task only, to what    *)
(* was running.                                                            *)
LEMMA SavedTypes ==
    ASSUME Types, current_task \in alive, cpu \in Tasks \cup {KERNEL}, registers' = Saved
    PROVE  /\ registers' \in [Tasks -> Tasks \cup {KERNEL}]
           /\ \A t \in Tasks : t > created => registers'[t] = t
           /\ cpu = current_task /\ (\A t \in alive : registers[t] = t)
                 => \A t \in alive : registers'[t] = t
  <1>1. current_task \in Tasks /\ current_task <= created /\ alive \subseteq Tasks
    BY SchedulerAssumption DEF Types, ListTypes, Tasks
  <1>2. registers' = [registers EXCEPT ![current_task] = cpu]
    BY DEF Saved
  <1>3. registers' \in [Tasks -> Tasks \cup {KERNEL}]
    BY <1>1, <1>2 DEF Types, RegisterTypes
  <1>4. \A t \in Tasks : registers'[t] = IF t = current_task THEN cpu ELSE registers[t]
    BY <1>1, <1>2 DEF Types, RegisterTypes
  <1>5. \A t \in Tasks : t > created => t # current_task
    BY <1>1, TasksAreNumbers DEF Types, ListTypes
  <1> QED
    BY <1>1, <1>3, <1>4, <1>5 DEF Types, RegisterTypes

-----------------------------------------------------------------------------
(* Every step keeps SchedInv.                                              *)

(* A mishap happens when at most two processes are alive. *)
LEMMA MishapTwo ==
    ASSUME FewAlive, Chain, NEW m, Mishap(m)
    PROVE  /\ mishaps' # {} /\ Cardinality(alive) <= 2
           /\ UNCHANGED <<list, alive, invoker>> => Chain'
  <1>1. Cardinality(alive) <= MaxLiveAfterMishap /\ MaxLiveAfterMishap \in 1 .. 2
    BY SchedulerAssumption DEF FewAlive, Mishap
  <1>2. mishaps' # {}
    BY DEF Mishap
  <1>3. ASSUME NEW a \in Tasks, NEW b \in Tasks, NEW c \in Tasks, Three(a, b, c) PROVE FALSE
    <2>1. a # b /\ a # c /\ b # c
      BY <1>3, TasksAreNumbers DEF Three
    <2>2. Cardinality({a, b, c}) = 3
      BY <2>1, CardThree, Zenon
    <2> QED
      BY <1>1, <1>3, <2>2 DEF Three
  <1>4. ASSUME NEW a \in Tasks, One(a)
        PROVE  Cardinality(alive) = 1 /\ (UNCHANGED <<list, alive, invoker>> => One(a)')
    BY <1>4, FS_Singleton DEF One, list
  <1>5. ASSUME NEW a \in Tasks, NEW b \in Tasks, Two(a, b)
        PROVE  Cardinality(alive) = 2 /\ (UNCHANGED <<list, alive, invoker>> => Two(a, b)')
    <2>1. a # b
      BY <1>5, TasksAreNumbers DEF Two
    <2> QED
      BY <1>2, <1>5, <2>1, CardTwo DEF Two, list
  <1> QED
    BY <1>2, <1>3, <1>4, <1>5 DEF Chain

(* A step that leaves the list alone keeps its shape. *)
LEMMA ChainKept ==
    ASSUME Chain, UNCHANGED <<list, history>>
    PROVE  Chain'
  BY DEF Chain, One, Two, Three, list, history

(* A kernel entry finds a current task. *)
LEMMA EnterFacts ==
    ASSUME SchedInv, Enter
    PROVE  /\ cpu \in Tasks /\ current_task \in alive /\ Chain /\ alive # {}
           /\ registers' \in [Tasks -> Tasks \cup {KERNEL}]
           /\ \A t \in Tasks : t > created => registers'[t] = t
           /\ mishaps = {} => \A t \in alive : registers'[t] = t
  <1>1. cpu \in Tasks /\ registers' = Saved
    BY DEF Enter
  <1>2. current_task \in alive /\ Chain
    BY <1>1 DEF SchedInv, Shape, NotStarted
  <1> QED
    BY <1>1, <1>2, SavedTypes DEF SchedInv, Undisturbed

(* The first program is loaded: it is the whole list. *)
LEMMA BootLoadStep ==
    ASSUME FewAlive, SchedInv, BootLoad
    PROVE  SchedInv'
  <1>1. /\ cpu = KERNEL /\ current_task = NIL /\ mishaps' = mishaps /\ process_load_switch(1)
        /\ current_task' = 1 /\ registers' = registers /\ cpu' = cpu
    BY DEF BootLoad, NoMishap
  <1>2. NotStarted
    <2>1. current_task \notin alive
      BY <1>1, TasksAreNumbers, SchedulerAssumption DEF SchedInv, Types, ListTypes, Tasks, NIL
    <2> QED
      BY <2>1 DEF SchedInv, Shape
  <1>3. 1 \in Tasks /\ cpu # PANIC
    BY <1>1, SchedulerAssumption DEF Tasks, KERNEL, PANIC
  <1>4. 1 \notin alive /\ registers[1] = 1
    BY <1>1, <1>3, NewTask DEF SchedInv
  <1>5. Chain' /\ task_tail' = 1 /\ alive' = {1}
    BY <1>1, <1>2, <1>3, LoadChain DEF SchedInv, NotStarted
  <1>6. task_head' = 1
    BY <1>1, <1>2 DEF process_load_switch, task_new, NotStarted
  <1>7. ListTypes' /\ Table'
    BY <1>1, <1>3, <1>4, LoadTypes, TableLoad DEF SchedInv
  <1>8. RegisterTypes'
    <2>1. created' = 1 /\ created = 0
      BY <1>1, <1>2 DEF process_load_switch, NotStarted
    <2>2. \A t \in Tasks : t > 1 => t > 0
      BY TasksAreNumbers
    <2> QED
      BY <1>1, <2>1, <2>2 DEF SchedInv, Types, RegisterTypes
  <1>9. Undisturbed'
    BY <1>1, <1>3, <1>4, <1>5, <1>6, TasksAreNumbers DEF Undisturbed
  <1> QED
    BY <1>1, <1>5, <1>7, <1>8, <1>9 DEF SchedInv, Types, Shape

(* A program starts another one, which runs at once. *)
LEMMA InvokeStep ==
    ASSUME FewAlive, SchedInv, Invoke
    PROVE  SchedInv'
  <1>1. Enter /\ mishaps' = mishaps
    BY DEF Invoke, NoMishap
  <1>2. PICK p \in Tasks : process_load_switch(p) /\ current_task' = p /\ cpu' = registers'[p]
    BY DEF Invoke
  <1>3. /\ cpu \in Tasks /\ current_task \in alive /\ Chain /\ alive # {}
        /\ registers' \in [Tasks -> Tasks \cup {KERNEL}]
        /\ \A t \in Tasks : t > created => registers'[t] = t
        /\ mishaps = {} => \A t \in alive : registers'[t] = t
    BY <1>1, EnterFacts
  <1>4. p = created + 1 /\ p \notin alive /\ created \in Nat
    BY <1>2, NewTask DEF SchedInv, Types, ListTypes
  <1>5. registers'[p] = p
    BY <1>3, <1>4
  <1>6. mishaps = {} => cpu = task_tail
    BY <1>3 DEF SchedInv, Undisturbed
  <1>7. Chain' /\ task_tail' = p /\ alive' = alive \cup {p}
    BY <1>1, <1>2, <1>6, LoadChain DEF SchedInv
  <1>8. ListTypes' /\ Table'
    BY <1>2, <1>3, <1>4, TasksAreNumbers, LoadTypes, TableLoad DEF SchedInv
  <1>9. RegisterTypes'
    <2>1. created' = created + 1
      BY <1>2, <1>4 DEF process_load_switch
    <2>2. \A t \in Tasks : t > created + 1 => t > created
      BY <1>4, TasksAreNumbers
    <2> QED
      BY <1>2, <1>3, <1>5, <2>1, <2>2 DEF RegisterTypes
  <1>10. Undisturbed'
    BY <1>1, <1>2, <1>3, <1>5, <1>7, TasksAreNumbers DEF Undisturbed
  <1> QED
    BY <1>2, <1>7, <1>8, <1>9, <1>10 DEF SchedInv, Types, Shape

(* A process is loaded for which the arguments cannot be made. *)
LEMMA InvokeWithoutArgumentsStep ==
    ASSUME FewAlive, SchedInv, InvokeWithoutArguments
    PROVE  SchedInv'
  <1>1. Enter /\ Mishap("args") /\ current_task' = current_task /\ cpu' = cpu
    BY DEF InvokeWithoutArguments
  <1>2. PICK p \in Tasks : process_load_switch(p)
    BY DEF InvokeWithoutArguments
  <1>3. /\ cpu \in Tasks /\ current_task \in alive /\ Chain
        /\ registers' \in [Tasks -> Tasks \cup {KERNEL}]
        /\ \A t \in Tasks : t > created => registers'[t] = t
    BY <1>1, EnterFacts
  <1>4. p = created + 1 /\ p \notin alive /\ created \in Nat
    BY <1>2, NewTask DEF SchedInv, Types, ListTypes
  <1>5. mishaps' # {}
    BY <1>1, <1>3, MishapTwo
  <1>6. Chain' /\ alive' = alive \cup {p}
    BY <1>2, <1>5, LoadChain DEF SchedInv
  <1>7. ListTypes' /\ Table'
    BY <1>2, <1>3, <1>4, TasksAreNumbers, LoadTypes, TableLoad DEF SchedInv
  <1>8. RegisterTypes'
    <2>1. created' = created + 1
      BY <1>2, <1>4 DEF process_load_switch
    <2>2. \A t \in Tasks : t > created + 1 => t > created
      BY <1>4, TasksAreNumbers
    <2> QED
      BY <1>1, <1>3, <2>1, <2>2 DEF RegisterTypes
  <1>9. Undisturbed'
    BY <1>5 DEF Undisturbed
  <1> QED
    BY <1>1, <1>3, <1>6, <1>7, <1>8, <1>9 DEF SchedInv, Types, Shape

(* A process ends and another one runs. *)
LEMMA ExitStep ==
    ASSUME SchedInv, Exit
    PROVE  /\ SchedInv'
           /\ mishaps = {} => cpu' = invoker[current_task]
  <1> DEFINE after == task_list_remove(current_task).current
             then  == task_get_next(next', task_head', after)
  <1>1. /\ Enter /\ mishaps' = mishaps /\ process_terminate(current_task)
        /\ current_task' = then /\ cpu' = registers'[current_task']
    BY DEF Exit, NoMishap
  <1>2. /\ cpu \in Tasks /\ current_task \in alive /\ alive # {}
        /\ registers' \in [Tasks -> Tasks \cup {KERNEL}]
        /\ \A t \in Tasks : t > created => registers'[t] = t
        /\ mishaps = {} => \A t \in alive : registers'[t] = t
    BY <1>1, EnterFacts
  <1>3. mishaps = {} => current_task = task_tail
    BY <1>2 DEF SchedInv, Undisturbed
  <1>4. /\ Chain' /\ then \in alive'
        /\ mishaps = {} => then = task_tail' /\ then = invoker[current_task]
    BY <1>1, <1>2, <1>3, TerminateChain DEF SchedInv
  <1> HIDE DEF then
  <1>5. ListTypes' /\ Table'
    BY <1>1, <1>2, TerminateTypes, TableTerminate DEF SchedInv
  <1>6. alive' \subseteq Tasks /\ alive' \subseteq alive /\ created' = created
    <2>1. alive' = alive \ {current_task} /\ created' = created
      BY <1>1 DEF process_terminate
    <2>2. alive \subseteq Tasks
      BY SchedulerAssumption DEF SchedInv, Types, ListTypes, Tasks
    <2> QED
      BY <2>1, <2>2
  <1>7. RegisterTypes'
    BY <1>1, <1>2, <1>4, <1>6 DEF RegisterTypes
  <1>8. mishaps = {} => cpu' = then
    BY <1>1, <1>2, <1>4, <1>6
  <1>9. Undisturbed'
    BY <1>1, <1>2, <1>4, <1>6, <1>8, TasksAreNumbers DEF Undisturbed
  <1> QED
    BY <1>1, <1>4, <1>5, <1>7, <1>8, <1>9 DEF SchedInv, Types, Shape

(* A process is freed for a bad pointer while its code goes on. *)
LEMMA BadPointerStep ==
    ASSUME FewAlive, SchedInv, BadPointer
    PROVE  SchedInv'
  <1> DEFINE after == task_list_remove(current_task).current
  <1>1. /\ Enter /\ Mishap("pointer") /\ process_terminate(current_task)
        /\ current_task' = after /\ cpu' = cpu
    BY DEF BadPointer
  <1>2. /\ cpu \in Tasks /\ current_task \in alive /\ alive # {} /\ Chain
        /\ registers' \in [Tasks -> Tasks \cup {KERNEL}]
        /\ \A t \in Tasks : t > created => registers'[t] = t
    BY <1>1, EnterFacts
  <1>3. mishaps = {} => current_task = task_tail
    BY <1>2 DEF SchedInv, Undisturbed
  <1>4. mishaps' # {} /\ Cardinality(alive) <= 2
    BY <1>1, <1>2, MishapTwo
  <1>5. Chain' /\ after \in alive'
    BY <1>1, <1>2, <1>3, <1>4, TerminateChain DEF SchedInv
  <1> HIDE DEF after
  <1>6. ListTypes' /\ Table'
    BY <1>1, <1>2, TerminateTypes, TableTerminate DEF SchedInv
  <1>7. created' = created
    BY <1>1 DEF process_terminate
  <1>8. RegisterTypes'
    BY <1>1, <1>2, <1>7 DEF RegisterTypes
  <1>9. Undisturbed'
    BY <1>4 DEF Undisturbed
  <1> QED
    BY <1>1, <1>5, <1>6, <1>8, <1>9 DEF SchedInv, Types, Shape

(* The steps that neither start nor end a process. *)
LEMMA OtherSteps ==
    ASSUME FewAlive, SchedInv,
           \/ BootLoadFails \/ BootInterrupt \/ task_run_first_ever_task
           \/ InterruptOrCall \/ InvokeFails \/ ExitOfLast \/ UNCHANGED vars
    PROVE  SchedInv'
  <1>1. Types /\ Shape /\ Undisturbed /\ Table
    BY DEF SchedInv
  <1>2. CASE BootLoadFails
    <2>1. cpu' = PANIC /\ UNCHANGED <<list, current_task, table, registers, history>>
      BY <1>2 DEF BootLoadFails
    <2>2. PANIC \notin Tasks /\ PANIC # KERNEL
      BY TasksAreNumbers DEF PANIC, KERNEL
    <2>3. Shape'
      BY <1>1, <2>1, <2>2, ChainKept DEF Shape, NotStarted, list, history
    <2> QED
      BY <1>1, <2>1, <2>2, <2>3 DEF SchedInv, Types, ListTypes, RegisterTypes, Undisturbed,
                                   Table, TableExact, list, table, history
  <1>3. CASE BootInterrupt
    <2>1. /\ Mishap("boot_irq") /\ cpu = KERNEL /\ current_task # NIL /\ registers' = Saved
          /\ UNCHANGED <<list, current_task, table, created, alive, invoker, cpu>>
      BY <1>3 DEF BootInterrupt
    <2>2. current_task \in alive /\ Chain
      BY <1>1, <2>1 DEF Shape, NotStarted
    <2>3. mishaps' # {} /\ Chain'
      BY <2>1, <2>2, MishapTwo
    <2>4. /\ registers' \in [Tasks -> Tasks \cup {KERNEL}]
          /\ \A t \in Tasks : t > created => registers'[t] = t
      BY <1>1, <2>1, <2>2, SavedTypes
    <2> QED
      BY <1>1, <2>1, <2>2, <2>3, <2>4 DEF SchedInv, Types, ListTypes, RegisterTypes, Shape,
                                         Undisturbed, Table, TableExact, list, table
  <1>4. CASE task_run_first_ever_task
    <2>1. /\ cpu = KERNEL /\ current_task # NIL
          /\ current_task' = task_head /\ cpu' = registers[task_head]
          /\ UNCHANGED <<list, table, registers, history>>
      BY <1>4 DEF task_run_first_ever_task
    <2>2. Chain
      BY <1>1, <2>1 DEF Shape, NotStarted
    <2>3. Chain' /\ task_head \in alive /\ task_head \in Tasks /\ alive # {}
      BY <2>1, <2>2, ChainKept, EndsAlive
    <2>4. registers[task_head] \in Tasks \cup {KERNEL}
      BY <1>1, <2>3 DEF Types, RegisterTypes
    <2>5. Undisturbed'
      BY <1>1, <2>1, <2>3, TasksAreNumbers DEF Undisturbed, list, history
    <2> QED
      BY <1>1, <2>1, <2>3, <2>4, <2>5 DEF SchedInv, Types, ListTypes, RegisterTypes, Shape,
                                         Table, TableExact, list, table, history
  <1>5. CASE InterruptOrCall \/ InvokeFails \/ ExitOfLast
    <2>1. /\ Enter /\ (cpu' = cpu \/ cpu' = PANIC)
          /\ UNCHANGED <<list, current_task, id, current_process, history>>
          /\ process_vector' = process_vector \/ process_vector' = SlotsWithFree
      BY <1>5 DEF InterruptOrCall, InvokeFails, ExitOfLast, table
    <2>2. /\ cpu \in Tasks /\ current_task \in alive /\ alive # {} /\ Chain
          /\ registers' \in [Tasks -> Tasks \cup {KERNEL}]
          /\ \A t \in Tasks : t > created => registers'[t] = t
          /\ mishaps = {} => \A t \in alive : registers'[t] = t
      BY <2>1, EnterFacts
    <2>3. PANIC \notin Tasks /\ PANIC # KERNEL /\ KERNEL \notin Tasks
      BY TasksAreNumbers DEF PANIC, KERNEL
    <2>4. Chain'
      BY <2>1, <2>2, ChainKept
    <2>5. Table'
      <3>1. CASE process_vector' = process_vector
        BY <1>1, <2>1, <3>1 DEF Table, TableExact, history
      <3>2. CASE process_vector' = SlotsWithFree
        BY <1>1, <2>1, <3>2, TableInvokeFails DEF history
      <3> QED
        BY <2>1, <3>1, <3>2
    <2>6. Types'
      BY <1>1, <2>1, <2>2 DEF Types, ListTypes, RegisterTypes, list, history
    <2>7. Undisturbed'
      BY <1>1, <2>1, <2>2, <2>3 DEF Undisturbed, list, history
    <2> QED
      BY <2>1, <2>2, <2>4, <2>5, <2>6, <2>7 DEF SchedInv, Shape, history
  <1>6. CASE UNCHANGED vars
    <2>1. Chain => Chain'
      BY <1>6, ChainKept DEF vars
    <2> QED
      BY <1>1, <1>6, <2>1 DEF SchedInv, Types, ListTypes, RegisterTypes, Shape, NotStarted,
                             Undisturbed, Table, TableExact, vars, list, table, history
  <1> QED
    BY <1>2, <1>3, <1>4, <1>5, <1>6

-----------------------------------------------------------------------------
(* SchedInv holds as long as no more than three processes are alive.       *)
THEOREM SchedulerInvariant ==
    ASSUME FewAlive
    PROVE  Spec => []SchedInv
  <1>1. Init => SchedInv
    <2> SUFFICES ASSUME Init PROVE SchedInv
      OBVIOUS
    <2>1. NIL = 0 /\ created = 0 /\ alive = {} /\ cpu = KERNEL /\ KERNEL \notin Tasks
      BY TasksAreNumbers DEF Init, NIL
    <2>2. ListTypes
      BY <2>1, TasksAreNumbers, SchedulerAssumption DEF Init, ListTypes
    <2>3. RegisterTypes
      BY <2>1 DEF Init, RegisterTypes
    <2>4. Shape
      BY <2>1 DEF Init, Shape, NotStarted
    <2>5. Undisturbed
      BY <2>1 DEF Undisturbed
    <2>6. Table
      BY <2>1 DEF Init, Table, TableExact
    <2> QED
      BY <2>2, <2>3, <2>4, <2>5, <2>6 DEF SchedInv, Types
  <1>2. SchedInv /\ [Next]_vars => SchedInv'
    BY BootLoadStep, InvokeStep, InvokeWithoutArgumentsStep, ExitStep, BadPointerStep,
       OtherSteps DEF Next
  <1> QED
    BY <1>1, <1>2, PTL DEF Spec

(* The links between the tasks are right: they lead through exactly the    *)
(* tasks that are not freed, although task_list_remove leaves a prev as it *)
(* was.                                                                    *)
THEOREM SchedulerList ==
    ASSUME FewAlive
    PROVE  Spec => []ListWellFormed
  <1>1. SchedInv => ListWellFormed
    <2> SUFFICES ASSUME SchedInv, alive # {} PROVE ListWellFormed
      BY DEF ListWellFormed
    <2>1. Chain
      BY DEF SchedInv, Shape, NotStarted
    <2>2. ASSUME NEW a \in Tasks, One(a) PROVE ListWellFormed
      BY <2>2 DEF One, ListWellFormed
    <2>3. ASSUME NEW a \in Tasks, NEW b \in Tasks, Two(a, b) PROVE ListWellFormed
      BY <2>3, TasksAreNumbers DEF Two, ListWellFormed
    <2>4. ASSUME NEW a \in Tasks, NEW b \in Tasks, NEW c \in Tasks, Three(a, b, c)
          PROVE  ListWellFormed
      BY <2>4, TasksAreNumbers DEF Three, ListWellFormed
    <2> QED
      BY <2>1, <2>2, <2>3, <2>4 DEF Chain
  <1> QED
    BY <1>1, SchedulerInvariant, PTL

(* The process table holds every living process in its own slot and        *)
(* nothing else.                                                           *)
THEOREM SchedulerTable ==
    ASSUME FewAlive
    PROVE  Spec => []TableExact
  <1>1. SchedInv => TableExact
    BY DEF SchedInv, Table
  <1> QED
    BY <1>1, SchedulerInvariant, PTL

(* System calls never act on a task that was freed. *)
THEOREM SchedulerCurrentAlive ==
    ASSUME FewAlive
    PROVE  Spec => []CurrentTaskAlive
  <1>1. SchedInv => CurrentTaskAlive
    BY DEF SchedInv, Shape, NotStarted, CurrentTaskAlive
  <1> QED
    BY <1>1, SchedulerInvariant, PTL

(* Until the first mishap the processor executes the code of the current   *)
(* task, and that task is not freed.                                       *)
THEOREM SchedulerCurrentRuns ==
    ASSUME FewAlive
    PROVE  Spec => []CurrentTaskRuns
  <1>1. SchedInv => CurrentTaskRuns
    BY DEF SchedInv, Shape, NotStarted, Undisturbed, CurrentTaskRuns
  <1> QED
    BY <1>1, SchedulerInvariant, PTL

(* Until the first mishap the registers saved for a task are its own. *)
THEOREM SchedulerRegisters ==
    ASSUME FewAlive
    PROVE  Spec => []SavedRegistersOwn
  <1>1. SchedInv => SavedRegistersOwn
    BY DEF SchedInv, Undisturbed, SavedRegistersOwn
  <1> QED
    BY <1>1, SchedulerInvariant, PTL

(* A process that exits gives the processor back to the one that started   *)
(* it, although task_next runs once more after the removal has moved       *)
(* current_task.                                                           *)
THEOREM SchedulerExitReturns ==
    ASSUME FewAlive
    PROVE  Spec => ExitReturnsToInvoker
  <1> DEFINE Returns == \A t \in Tasks :
                 mishaps' = {} /\ cpu = t /\ t \in alive /\ t \notin alive' /\ cpu' \in Tasks
                     /\ invoker[t] \in alive => cpu' = invoker[t]
  <1>1. SchedInv /\ [Next]_vars => [Returns]_vars
    <2> SUFFICES ASSUME SchedInv, Next, NEW t \in Tasks,
                        mishaps' = {}, cpu = t, t \in alive, t \notin alive'
                 PROVE  cpu' = invoker[t]
      OBVIOUS
    <2>1. alive' # alive /\ ~(alive \subseteq alive')
      OBVIOUS
    <2>2. CASE Exit
      <3>1. mishaps = {}
        BY <2>2 DEF Exit, NoMishap
      <3>2. current_task = t
        BY <3>1 DEF SchedInv, Undisturbed
      <3> QED
        BY <2>2, <3>1, <3>2, ExitStep
    <2>3. CASE BadPointer
      <3>1. mishaps' # {}
        BY <2>3 DEF BadPointer, Mishap
      <3> QED
        BY <3>1
    <2>4. CASE BootLoad \/ Invoke \/ InvokeWithoutArguments
      <3>1. \E p : alive' = alive \cup {p}
        BY <2>4 DEF BootLoad, Invoke, InvokeWithoutArguments, process_load_switch
      <3> QED
        BY <2>1, <3>1
    <2>5. CASE \/ BootLoadFails \/ BootInterrupt \/ task_run_first_ever_task
               \/ InterruptOrCall \/ InvokeFails \/ ExitOfLast
      BY <2>1, <2>5 DEF BootLoadFails, BootInterrupt, task_run_first_ever_task,
                        InterruptOrCall, InvokeFails, ExitOfLast, history
    <2> QED
      BY <2>2, <2>3, <2>4, <2>5 DEF Next
  <1> QED
    BY <1>1, SchedulerInvariant, PTL DEF Spec, ExitReturnsToInvoker
=============================================================================
