----------------------------- MODULE Scheduler ------------------------------
(***************************************************************************)
(* The cooperative scheduler: src/kernel/sched/sched.c and                 *)
(* context_switch.asm, with the pages it takes from mm.c.                  *)
(*                                                                         *)
(* A task is the address of its struct task, as in the code: 0 is the null *)
(* pointer.  A saved stack pointer is abstracted to the stack it points    *)
(* into and how deep: <<base of the stack page, depth>>.  Depth 0 is the   *)
(* frame sched_create_task prepares; a task that runs may yield from any   *)
(* depth in Depth.                                                         *)
(***************************************************************************)
EXTENDS Memory, Sequences

CONSTANTS
  Bootstrap,  \* address of the static bootstrap_task, inside the kernel image
  BootStack,  \* the stack entry.asm gives kmain
  Depth,      \* call depths at which a task may yield
  MEM_LIMIT   \* bound of the model: no page at or above it is handed out

ASSUME SchedulerAssumption ==
  /\ Bootstrap \in 1..(KernelEnd - 1)
  /\ BootStack \in Nat
  /\ Depth \subseteq Nat \ {0}
  /\ MEM_LIMIT \in Nat

VARIABLES
  sp, next,                           \* the fields of every struct task
  task_list_head, task_list_tail,
  current_task,
  rsp,                                \* the CPU's stack pointer
  mode,                               \* "boot", "run", or "halt" (entry.asm's loop)
  tasks,                              \* history: the tasks created so far
  queue,                              \* history: the tasks added, in order
  resume                              \* history: where each task must continue

vars == <<next_free_page, sp, next, task_list_head, task_list_tail,
          current_task, rsp, mode, tasks, queue, resume>>

(* The stack is the page allocated right after the task structure. *)
StackOf(t) == t + PAGE_SIZE

Queued == {queue[i] : i \in 1..Len(queue)}

Init ==
  /\ mm_init
  /\ sp = [t \in {Bootstrap} |-> <<0, 0>>]
  /\ next = [t \in {Bootstrap} |-> 0]
  /\ task_list_head = 0
  /\ task_list_tail = 0
  /\ current_task = 0
  /\ rsp = <<BootStack, 0>>
  /\ mode = "boot"
  /\ tasks = {}
  /\ queue = <<>>
  /\ resume = [t \in {} |-> <<0, 0>>]

(* Function f extended with the pair k, v. *)
With(f, k, v) == [x \in DOMAIN f \cup {k} |-> IF x = k THEN v ELSE f[x]]

(* Fault: the field `next' of the new structure is not set. *)
sched_create_task_NextUnset ==
  /\ mode # "halt"
  /\ Page(2) <= MEM_LIMIT
  /\ page_alloc(2)
  /\ sp' = With(sp, Page(0), <<Page(1), 0>>)
  /\ tasks' = tasks \cup {Page(0)}
  /\ resume' = With(resume, Page(0), <<Page(1), 0>>)
  /\ UNCHANGED <<next, task_list_head, task_list_tail, current_task, rsp, mode, queue>>

sched_create_task ==
  LET t     == Page(0)
      stack == Page(1)
  IN  /\ mode # "halt"
      /\ Page(2) <= MEM_LIMIT
      /\ page_alloc(2)
      /\ sp' = With(sp, t, <<stack, 0>>)
      /\ next' = With(next, t, 0)
      /\ tasks' = tasks \cup {t}
      /\ resume' = With(resume, t, <<stack, 0>>)
      /\ UNCHANGED <<task_list_head, task_list_tail, current_task, rsp, mode, queue>>

(* Fault: the tail pointer stays behind when the list is not empty. *)
sched_add_task_TailKept(t) ==
  /\ mode # "halt"
  /\ t \in tasks \ Queued
  /\ \/ /\ task_list_head = 0
        /\ task_list_head' = t
        /\ task_list_tail' = t
        /\ UNCHANGED next
     \/ /\ task_list_head # 0
        /\ next' = [next EXCEPT ![task_list_tail] = t]
        /\ UNCHANGED <<task_list_head, task_list_tail>>
  /\ queue' = Append(queue, t)
  /\ UNCHANGED <<next_free_page, sp, current_task, rsp, mode, tasks, resume>>

(* Callers add a task once, as kmain does: the code does not check it. *)
sched_add_task(t) ==
  /\ mode # "halt"
  /\ t \in tasks \ Queued
  /\ \/ /\ task_list_head = 0
        /\ task_list_head' = t
        /\ UNCHANGED next
     \/ /\ task_list_head # 0
        /\ next' = [next EXCEPT ![task_list_tail] = t]
        /\ UNCHANGED task_list_head
  /\ task_list_tail' = t
  /\ queue' = Append(queue, t)
  /\ UNCHANGED <<next_free_page, sp, current_task, rsp, mode, tasks, resume>>

(* Faults of context_switch: current_task is not updated; the old stack    *)
(* pointer is saved in the new task; the new one is loaded before the old  *)
(* one is saved.                                                           *)
context_switch_CurrentKept(mem, from, to, d) ==
  LET saved == [mem EXCEPT ![from] = <<rsp[1], d>>]
  IN  sp' = saved /\ current_task' = from /\ rsp' = saved[to]

context_switch_SavedInNew(mem, from, to, d) ==
  LET saved == [mem EXCEPT ![to] = <<rsp[1], d>>]
  IN  sp' = saved /\ current_task' = to /\ rsp' = mem[to]

context_switch_LoadFirst(mem, from, to, d) ==
  sp' = [mem EXCEPT ![from] = <<rsp[1], d>>] /\ current_task' = to /\ rsp' = mem[to]

(* context_switch, called by task `from' with d frames on its stack: the   *)
(* old stack pointer is saved before the new one is loaded.                *)
context_switch(mem, from, to, d) ==
  LET saved == [mem EXCEPT ![from] = <<rsp[1], d>>]
  IN  /\ sp' = saved
      /\ current_task' = to
      /\ rsp' = saved[to]

(* Faults: the list is followed twice; the last task keeps the CPU. *)
SuccessorOf_Twice(t) ==
  LET Step(u) == IF u = 0 \/ next[u] = 0 THEN task_list_head ELSE next[u]
  IN  Step(Step(t))

SuccessorOf_LastStays(t) ==
  IF t = 0 THEN task_list_head ELSE IF next[t] = 0 THEN t ELSE next[t]

SuccessorOf(t) ==
  IF t = 0 \/ next[t] = 0 THEN task_list_head ELSE next[t]

sched_yield ==
  /\ mode = "run"
  /\ \E d \in Depth :
       /\ context_switch(sp, current_task, SuccessorOf(current_task), d)
       /\ resume' = [resume EXCEPT ![current_task] = <<rsp[1], d>>]
  /\ UNCHANGED <<next_free_page, next, task_list_head, task_list_tail, mode,
                 tasks, queue>>

(* With no task, sched_start returns, kmain returns and entry.asm halts. *)
sched_start ==
  /\ mode = "boot"
  /\ \/ /\ task_list_head = 0
        /\ mode' = "halt"
        /\ UNCHANGED <<sp, next, current_task, rsp>>
     \/ /\ task_list_head # 0
        /\ mode' = "run"
        /\ next' = [next EXCEPT ![Bootstrap] = task_list_head]
        /\ \E d \in Depth :
             context_switch([sp EXCEPT ![Bootstrap] = <<0, 0>>],
                            Bootstrap, task_list_head, d)
  /\ UNCHANGED <<next_free_page, task_list_head, task_list_tail, tasks, queue, resume>>

Next ==
  \/ sched_create_task
  \/ \E t \in tasks : sched_add_task(t)
  \/ sched_start
  \/ sched_yield

Spec == Init /\ [][Next]_vars

(* Tasks are cooperative: idle_task, shell_task and gui_task are endless   *)
(* loops that call sched_yield once in every iteration.                    *)
FairSpec == Spec /\ WF_vars(sched_yield)
-----------------------------------------------------------------------------
Frame == Nat \X Nat

(* Type correctness of the scheduler's state; the domains of the two       *)
(* struct fields are exactly the structures that exist.                    *)
TypeOK ==
  /\ next_free_page \in Nat
  /\ tasks \in SUBSET (Nat \ {0})
  /\ sp \in [tasks \cup {Bootstrap} -> Frame]
  /\ next \in [tasks \cup {Bootstrap} -> Nat]
  /\ resume \in [tasks -> Frame]
  /\ task_list_head \in Nat
  /\ task_list_tail \in Nat
  /\ current_task \in Nat
  /\ rsp \in Frame
  /\ mode \in {"boot", "run", "halt"}
  /\ queue \in Seq(tasks)

(* The linked list is the run queue: from task_list_head the next pointers *)
(* visit the added tasks, each once, in the order they were added, and     *)
(* stop at task_list_tail, whatever sched_add_task and sched_yield did.    *)
RunQueueIsLinkedList ==
  /\ \A i, j \in 1..Len(queue) : queue[i] = queue[j] => i = j
  /\ task_list_head = IF queue = <<>> THEN 0 ELSE queue[1]
  /\ queue # <<>> => task_list_tail = queue[Len(queue)]
  /\ \A i \in 1..Len(queue) :
       next[queue[i]] = IF i = Len(queue) THEN 0 ELSE queue[i + 1]

(* The running task is one of the queue once sched_start has switched to   *)
(* it; the bootstrap context is left for good.                             *)
RunningTaskIsQueued ==
  IF mode = "run" THEN current_task \in Queued ELSE current_task = 0

(* context_switch keeps every task's stack: a task that does not run has   *)
(* its saved stack pointer where it gave the CPU up, in its own stack; the *)
(* CPU is on the running task's own stack.                                 *)
StackPointersKept ==
  /\ \A t \in tasks :
       /\ t # current_task => sp[t] = resume[t]
       /\ resume[t][1] = StackOf(t)
  /\ rsp[1] = IF mode = "run" THEN StackOf(current_task) ELSE BootStack

(* The structure and the stack of every task lie in pages of their own,    *)
(* above the kernel image: no two tasks share a byte.                      *)
TaskMemoryPrivate ==
  /\ \A t \in tasks : KernelEnd <= t /\ t + 2 * PAGE_SIZE <= next_free_page
  /\ \A s, t \in tasks :
       s # t => s + 2 * PAGE_SIZE <= t \/ t + 2 * PAGE_SIZE <= s

(* What mm_init claims of its floor for an image that ends below it        *)
(* (mm.c:16-21): the pages handed out never overlap the boot loader's      *)
(* paging structures.  The floor, 0xB000, is itself the last of them, and  *)
(* it is the size of the image that decides (SchedulerProofs).             *)
PageTablesUntouched ==
  \A t \in tasks :
    t + 2 * PAGE_SIZE <= PageTablesStart \/ PageTablesEnd <= t

(* A task that gets the CPU continues exactly where it gave it up: the     *)
(* stack pointer that context_switch loads is the one it saved when that   *)
(* task last yielded, even when the task yields to itself.                 *)
ResumesWhereItYielded ==
  [][mode' = "run" => rsp' = resume'[current_task']]_<<rsp, current_task, resume>>

(* The position in the run queue of the running task. *)
Turn ==
  IF mode = "run" THEN CHOOSE i \in 1..Len(queue) : queue[i] = current_task ELSE 0

RR == INSTANCE RoundRobin WITH ready <- queue, turn <- Turn

(* Every step of the linked-list scheduler is a step of the abstract round *)
(* robin: yielding never skips a ready task, wherever the list ends.       *)
ImplementsRoundRobin == RR!Spec

TaskAddress ==
  {FirstPage + 2 * i * PAGE_SIZE :
     i \in 0..((MEM_LIMIT - FirstPage) \div (2 * PAGE_SIZE))}

(* Every task that was added gets the CPU again and again, however many    *)
(* others are added while it waits.                                        *)
EveryQueuedTaskRuns ==
  \A t \in TaskAddress : (mode = "run" /\ t \in Queued) ~> (current_task = t)
=============================================================================
