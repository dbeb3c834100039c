-------------------------- MODULE SchedulerProofs ---------------------------
(***************************************************************************)
(* Proofs about Scheduler, for every page size, kernel image, set of       *)
(* depths and number of tasks.                                             *)
(***************************************************************************)
EXTENDS Scheduler, TLAPS

(* The inductive invariant adds three facts to the invariants of           *)
(* Scheduler: a task that was created and not added has a null next        *)
(* pointer (so that adding it ends the list), the CPU entered the running  *)
(* task where that task had to continue, and the bump pointer is above the *)
(* image (so that a new task is none of the old ones and not               *)
(* bootstrap_task).                                                        *)
UnqueuedTasksUnlinked == \A t \in tasks \ Queued : next[t] = 0

RunningWhereResumed == mode = "run" => rsp = resume[current_task]

IInv ==
  /\ TypeOK
  /\ RunQueueIsLinkedList
  /\ RunningTaskIsQueued
  /\ StackPointersKept
  /\ TaskMemoryPrivate
  /\ UnqueuedTasksUnlinked
  /\ RunningWhereResumed
  /\ KernelEnd <= next_free_page

(* The allocator starts at or above the end of the image. *)
LEMMA FirstPageAboveImage == FirstPage \in Nat /\ KernelEnd <= FirstPage
<1> DEFINE x == KernelEnd + PAGE_SIZE - 1
<1>1. x \in Nat /\ PAGE_SIZE \in Nat \ {0}
  BY MemoryAssumption
<1>2. x % PAGE_SIZE \in 0..(PAGE_SIZE - 1)
  BY <1>1
<1>3. RoundUpToPage(KernelEnd) \in Nat /\ KernelEnd <= RoundUpToPage(KernelEnd)
  BY <1>1, <1>2, MemoryAssumption DEF RoundUpToPage, PageAlign
<1> QED
  BY <1>3, MemoryAssumption DEF FirstPage, AllocFloor

(* bootstrap_task is not one of the allocated tasks. *)
LEMMA BootstrapNotATask == TypeOK /\ TaskMemoryPrivate => Bootstrap \notin tasks
  BY MemoryAssumption, SchedulerAssumption DEF TypeOK, TaskMemoryPrivate

LEMMA InitIInv == Init => IInv
<1> SUFFICES ASSUME Init PROVE IInv
  OBVIOUS
<1> USE FirstPageAboveImage, MemoryAssumption, SchedulerAssumption DEF Init, mm_init
<1>1. TypeOK
  BY DEF TypeOK, Frame
<1>2. RunQueueIsLinkedList /\ UnqueuedTasksUnlinked
  BY DEF RunQueueIsLinkedList, UnqueuedTasksUnlinked
<1>3. RunningTaskIsQueued /\ StackPointersKept /\ TaskMemoryPrivate /\ RunningWhereResumed
  BY DEF RunningTaskIsQueued, StackPointersKept, TaskMemoryPrivate, RunningWhereResumed
<1> QED
  BY <1>1, <1>2, <1>3 DEF IInv

(* sched_create_task: the two new pages belong to nobody. *)
LEMMA CreateIInv == IInv /\ sched_create_task => IInv'
<1> SUFFICES ASSUME IInv, sched_create_task PROVE IInv'
  OBVIOUS
<1> DEFINE t == next_free_page
<1> USE MemoryAssumption, SchedulerAssumption DEF IInv
<1>1. /\ next_free_page' = t + 2 * PAGE_SIZE
      /\ sp' = With(sp, t, <<t + PAGE_SIZE, 0>>)
      /\ next' = With(next, t, 0)
      /\ tasks' = tasks \cup {t}
      /\ resume' = With(resume, t, <<t + PAGE_SIZE, 0>>)
      /\ UNCHANGED <<task_list_head, task_list_tail, current_task, rsp, mode, queue>>
      /\ t \in Nat /\ KernelEnd <= t
  BY DEF sched_create_task, page_alloc, Page, TypeOK
<1>2. t \notin tasks /\ t # Bootstrap /\ t # 0
  BY <1>1 DEF TaskMemoryPrivate, TypeOK
<1>3. TypeOK'
  BY <1>1, <1>2 DEF TypeOK, With, Frame
<1>4. \A s \in tasks \cup {Bootstrap} : next'[s] = next[s] /\ sp'[s] = sp[s]
  BY <1>1, <1>2 DEF With, TypeOK
<1>5. \A i \in 1..Len(queue) : queue[i] \in tasks
  BY DEF TypeOK
<1>6. RunQueueIsLinkedList'
  BY <1>1, <1>4, <1>5 DEF RunQueueIsLinkedList
<1>7. RunningTaskIsQueued'
  BY <1>1 DEF RunningTaskIsQueued, Queued
<1>8. StackPointersKept'
  <2>1. t # current_task
    BY <1>2, <1>5 DEF RunningTaskIsQueued, Queued
  <2>2. sp'[t] = <<t + PAGE_SIZE, 0>> /\ resume'[t] = <<t + PAGE_SIZE, 0>>
    BY <1>1 DEF With
  <2>3. \A s \in tasks : resume'[s] = resume[s]
    BY <1>1, <1>2 DEF With, TypeOK
  <2> QED
    BY <1>1, <1>4, <2>1, <2>2, <2>3 DEF StackPointersKept, StackOf
<1>9. TaskMemoryPrivate'
  BY <1>1 DEF TaskMemoryPrivate, TypeOK
<1>10. UnqueuedTasksUnlinked'
  BY <1>1, <1>4, <1>2 DEF UnqueuedTasksUnlinked, Queued, With
<1>11. RunningWhereResumed'
  BY <1>1, <1>2, <1>5 DEF RunningWhereResumed, RunningTaskIsQueued, Queued, With, TypeOK
<1> QED
  BY <1>1, <1>3, <1>6, <1>7, <1>8, <1>9, <1>10, <1>11

(* sched_add_task: the new task becomes the end of the list. *)
LEMMA AddIInv == ASSUME IInv, NEW t \in tasks, sched_add_task(t) PROVE IInv'
<1> USE MemoryAssumption, SchedulerAssumption DEF IInv
<1> DEFINE n == Len(queue)
<1>1. /\ t \notin Queued
      /\ task_list_tail' = t
      /\ queue' = Append(queue, t)
      /\ UNCHANGED <<next_free_page, sp, current_task, rsp, mode, tasks, resume>>
  BY DEF sched_add_task
<1>2. /\ n \in Nat /\ Len(queue') = n + 1
      /\ \A i \in 1..n : queue'[i] = queue[i] /\ queue[i] \in tasks
      /\ queue'[n + 1] = t
      /\ queue' # <<>>
      /\ (queue = <<>>) <=> (n = 0)
  BY <1>1 DEF TypeOK
<1>3. \A i \in 1..n : queue[i] # t
  BY <1>1 DEF Queued
<1>4. /\ n = 0 => task_list_head = 0
      /\ n # 0 => task_list_head = queue[1] /\ task_list_head # 0 /\ task_list_tail = queue[n]
  BY <1>2 DEF RunQueueIsLinkedList, TypeOK
<1>5. /\ task_list_head' = IF n = 0 THEN t ELSE task_list_head
      /\ next' = IF n = 0 THEN next ELSE [next EXCEPT ![queue[n]] = t]
  BY <1>2, <1>4 DEF sched_add_task
<1>6. TypeOK'
  BY <1>1, <1>2, <1>5 DEF TypeOK
<1>7. \A s \in tasks : next'[s] = IF n # 0 /\ s = queue[n] THEN t ELSE next[s]
  BY <1>2, <1>5 DEF TypeOK
<1>8. next[t] = 0 /\ next'[t] = 0
  BY <1>1, <1>2, <1>3, <1>7 DEF UnqueuedTasksUnlinked
<1>9. RunQueueIsLinkedList'
  <2>1. \A i, j \in 1..Len(queue') : queue'[i] = queue'[j] => i = j
    BY <1>2, <1>3 DEF RunQueueIsLinkedList
  <2>2. task_list_head' = queue'[1] /\ task_list_tail' = queue'[Len(queue')]
    BY <1>1, <1>2, <1>4, <1>5
  <2>3. ASSUME NEW i \in 1..Len(queue')
        PROVE  next'[queue'[i]] = IF i = Len(queue') THEN 0 ELSE queue'[i + 1]
    <3>1. CASE i = n + 1
      BY <3>1, <1>2, <1>8
    <3>2. CASE i = n
      BY <3>2, <1>2, <1>7
    <3>3. CASE i \in 1..(n - 1)
      <4>1. queue[i] # queue[n] /\ next[queue[i]] = queue[i + 1]
        BY <3>3, <1>2 DEF RunQueueIsLinkedList
      <4> QED
        BY <4>1, <3>3, <1>2, <1>7
    <3> QED
      BY <3>1, <3>2, <3>3, <1>2
  <2> QED
    BY <2>1, <2>2, <2>3, <1>2 DEF RunQueueIsLinkedList
<1>10. Queued' = Queued \cup {t}
  BY <1>2 DEF Queued
<1>11. RunningTaskIsQueued' /\ StackPointersKept' /\ TaskMemoryPrivate' /\ RunningWhereResumed'
  BY <1>1, <1>10 DEF RunningTaskIsQueued, StackPointersKept, TaskMemoryPrivate, StackOf,
                     RunningWhereResumed
<1>12. UnqueuedTasksUnlinked'
  BY <1>1, <1>2, <1>7, <1>10 DEF UnqueuedTasksUnlinked, Queued
<1> QED
  BY <1>1, <1>6, <1>9, <1>11, <1>12

(* sched_start: either nothing is queued and the machine halts, or the     *)
(* first task gets the CPU and only bootstrap_task's fields are written.   *)
LEMMA StartIInv == IInv /\ sched_start => IInv'
<1> SUFFICES ASSUME IInv, sched_start PROVE IInv'
  OBVIOUS
<1> USE MemoryAssumption, SchedulerAssumption DEF IInv
<1>1. Bootstrap \notin tasks /\ \A i \in 1..Len(queue) : queue[i] \in tasks
  BY BootstrapNotATask DEF TypeOK
<1>2. CASE task_list_head = 0
  <2>1. mode' = "halt" /\ mode = "boot"
        /\ UNCHANGED <<next_free_page, sp, next, task_list_head, task_list_tail,
                       current_task, rsp, tasks, queue, resume>>
    BY <1>2 DEF sched_start
  <2> QED
    BY <2>1 DEF TypeOK, RunQueueIsLinkedList, RunningTaskIsQueued, StackPointersKept,
                TaskMemoryPrivate, UnqueuedTasksUnlinked, Queued, StackOf,
                RunningWhereResumed
<1>3. CASE task_list_head # 0
  <2>1. /\ mode = "boot" /\ mode' = "run"
        /\ next' = [next EXCEPT ![Bootstrap] = task_list_head]
        /\ UNCHANGED <<next_free_page, task_list_head, task_list_tail, tasks, queue, resume>>
    BY <1>3 DEF sched_start
  <2>2. PICK d \in Depth : context_switch([sp EXCEPT ![Bootstrap] = <<0, 0>>],
                                         Bootstrap, task_list_head, d)
    BY <1>3 DEF sched_start
  <2>3. queue # <<>> /\ Len(queue) \in Nat \ {0} /\ task_list_head = queue[1]
    BY <1>3 DEF RunQueueIsLinkedList, TypeOK
  <2>4. task_list_head \in tasks /\ task_list_head \in Queued /\ task_list_head # Bootstrap
    BY <1>1, <2>3 DEF Queued
  <2>5. /\ sp' = [sp EXCEPT ![Bootstrap] = <<rsp[1], d>>]
        /\ current_task' = task_list_head
        /\ rsp' = sp[task_list_head]
    BY <2>2, <2>4 DEF context_switch, TypeOK
  <2>6. \A s \in tasks : next'[s] = next[s] /\ sp'[s] = sp[s]
    BY <1>1, <2>1, <2>5 DEF TypeOK
  <2>7. TypeOK'
    <3>1. <<rsp[1], d>> \in Frame
      BY DEF TypeOK, Frame
    <3> QED
      BY <2>1, <2>4, <2>5, <3>1 DEF TypeOK
  <2>8. RunQueueIsLinkedList' /\ UnqueuedTasksUnlinked'
    BY <1>1, <2>1, <2>6 DEF RunQueueIsLinkedList, UnqueuedTasksUnlinked, Queued
  <2>9. RunningTaskIsQueued' /\ TaskMemoryPrivate'
    BY <2>1, <2>4, <2>5 DEF RunningTaskIsQueued, TaskMemoryPrivate, Queued
  <2>10. StackPointersKept'
    <3>1. current_task = 0 /\ \A s \in tasks : s # 0
      BY <2>1 DEF RunningTaskIsQueued, TypeOK
    <3>2. \A s \in tasks : sp'[s] = resume'[s] /\ resume'[s][1] = StackOf(s)
      BY <2>1, <2>6, <3>1 DEF StackPointersKept
    <3>3. rsp'[1] = StackOf(current_task')
      BY <2>4, <2>5, <3>1 DEF StackPointersKept
    <3> QED
      BY <2>1, <3>2, <3>3 DEF StackPointersKept, StackOf
  <2>11. RunningWhereResumed'
    BY <2>1, <2>4, <2>5 DEF RunningWhereResumed, StackPointersKept, RunningTaskIsQueued, TypeOK
  <2> QED
    BY <2>1, <2>7, <2>8, <2>9, <2>10, <2>11
<1> QED
  BY <1>2, <1>3

(* The task that sched_yield picks: the next one of the queue, and the     *)
(* first one after the last.                                               *)
LEMMA SuccessorInQueue ==
  ASSUME IInv, NEW i \in 1..Len(queue), current_task = queue[i]
  PROVE  SuccessorOf(current_task) = queue[IF i = Len(queue) THEN 1 ELSE i + 1]
<1>1. /\ Len(queue) \in Nat /\ queue # <<>> /\ task_list_head = queue[1]
      /\ \A j \in 1..Len(queue) : queue[j] \in tasks /\ queue[j] # 0
  BY DEF IInv, TypeOK, RunQueueIsLinkedList
<1>2. next[queue[i]] = IF i = Len(queue) THEN 0 ELSE queue[i + 1]
  BY DEF IInv, RunQueueIsLinkedList
<1>3. i # Len(queue) => i + 1 \in 1..Len(queue)
  BY <1>1
<1> QED
  BY <1>1, <1>2, <1>3 DEF SuccessorOf

(* What sched_yield does to the state, given the invariant. *)
LEMMA YieldEffect ==
  ASSUME IInv, sched_yield
  PROVE  \E d \in Depth : \E i \in 1..Len(queue) :
           /\ mode = "run" /\ current_task = queue[i] /\ current_task \in tasks
           /\ current_task' = queue[IF i = Len(queue) THEN 1 ELSE i + 1]
           /\ current_task' \in tasks /\ current_task' \in Queued
           /\ sp' = [sp EXCEPT ![current_task] = <<rsp[1], d>>]
           /\ resume' = [resume EXCEPT ![current_task] = <<rsp[1], d>>]
           /\ rsp' = sp'[current_task']
           /\ UNCHANGED <<next_free_page, next, task_list_head, task_list_tail, mode,
                          tasks, queue>>
<1>1. mode = "run" /\ current_task \in Queued
  BY DEF sched_yield, IInv, RunningTaskIsQueued
<1>2. PICK i \in 1..Len(queue) : current_task = queue[i]
  BY <1>1 DEF Queued
<1>3. PICK d \in Depth :
        /\ context_switch(sp, current_task, SuccessorOf(current_task), d)
        /\ resume' = [resume EXCEPT ![current_task] = <<rsp[1], d>>]
  BY DEF sched_yield
<1>4. SuccessorOf(current_task) = queue[IF i = Len(queue) THEN 1 ELSE i + 1]
  BY <1>2, SuccessorInQueue
<1>5. Len(queue) \in Nat /\ \A j \in 1..Len(queue) : queue[j] \in tasks
  BY DEF IInv, TypeOK
<1>6. (IF i = Len(queue) THEN 1 ELSE i + 1) \in 1..Len(queue)
  BY <1>5
<1>7. SuccessorOf(current_task) \in tasks /\ SuccessorOf(current_task) \in Queued
  BY <1>4, <1>5, <1>6 DEF Queued
<1>8. UNCHANGED <<next_free_page, next, task_list_head, task_list_tail, mode, tasks, queue>>
  BY DEF sched_yield
<1>9. current_task' = SuccessorOf(current_task)
      /\ sp' = [sp EXCEPT ![current_task] = <<rsp[1], d>>]
      /\ rsp' = sp'[current_task']
  BY <1>3 DEF context_switch
<1>10. current_task \in tasks
  BY <1>2, <1>5
<1> QED
  BY <1>1, <1>2, <1>3, <1>4, <1>7, <1>8, <1>9, <1>10

(* sched_yield: only the yielding task's stack pointer is written. *)
LEMMA YieldIInv == IInv /\ sched_yield => IInv'
<1> SUFFICES ASSUME IInv, sched_yield PROVE IInv'
  OBVIOUS
<1> USE MemoryAssumption, SchedulerAssumption DEF IInv
<1>1. PICK d \in Depth, i \in 1..Len(queue) :
           /\ mode = "run" /\ current_task = queue[i] /\ current_task \in tasks
           /\ current_task' = queue[IF i = Len(queue) THEN 1 ELSE i + 1]
           /\ current_task' \in tasks /\ current_task' \in Queued
           /\ sp' = [sp EXCEPT ![current_task] = <<rsp[1], d>>]
           /\ resume' = [resume EXCEPT ![current_task] = <<rsp[1], d>>]
           /\ rsp' = sp'[current_task']
           /\ UNCHANGED <<next_free_page, next, task_list_head, task_list_tail, mode,
                          tasks, queue>>
  BY YieldEffect
<1>2. <<rsp[1], d>> \in Frame /\ <<rsp[1], d>>[1] = rsp[1]
  BY DEF TypeOK, Frame
<1>3. TypeOK'
  BY <1>1, <1>2 DEF TypeOK
<1>4. RunQueueIsLinkedList' /\ UnqueuedTasksUnlinked'
  BY <1>1 DEF RunQueueIsLinkedList, UnqueuedTasksUnlinked, Queued
<1>5. RunningTaskIsQueued' /\ TaskMemoryPrivate'
  BY <1>1 DEF RunningTaskIsQueued, TaskMemoryPrivate, Queued
<1>6. StackPointersKept'
  <2>1. rsp[1] = StackOf(current_task)
    BY <1>1 DEF StackPointersKept
  <2>2. \A s \in tasks : sp'[s] = resume'[s] /\ resume'[s][1] = StackOf(s)
    BY <1>1, <1>2, <2>1 DEF StackPointersKept, TypeOK
  <2> QED
    BY <1>1, <2>2 DEF StackPointersKept, StackOf
<1>7. RunningWhereResumed'
  BY <1>1 DEF RunningWhereResumed, StackPointersKept, TypeOK
<1> QED
  BY <1>1, <1>3, <1>4, <1>5, <1>6, <1>7

(* IInv is inductive. *)
LEMMA NextIInv == IInv /\ [Next]_vars => IInv'
<1> SUFFICES ASSUME IInv, [Next]_vars PROVE IInv'
  OBVIOUS
<1>1. CASE sched_create_task
  BY <1>1, CreateIInv
<1>2. CASE \E t \in tasks : sched_add_task(t)
  BY <1>2, AddIInv
<1>3. CASE sched_start
  BY <1>3, StartIInv
<1>4. CASE sched_yield
  BY <1>4, YieldIInv
<1>5. CASE UNCHANGED vars
  BY <1>5 DEF vars, IInv, TypeOK, RunQueueIsLinkedList, RunningTaskIsQueued,
              StackPointersKept, TaskMemoryPrivate, UnqueuedTasksUnlinked, Queued, StackOf,
              RunningWhereResumed
<1> QED
  BY <1>1, <1>2, <1>3, <1>4, <1>5 DEF Next

(* The inductive invariant holds in every reachable state. *)
LEMMA Invariance == Spec => []IInv
<1>1. Init => IInv
  BY InitIInv
<1>2. IInv /\ [Next]_vars => IInv'
  BY NextIInv
<1> QED
  BY <1>1, <1>2, PTL DEF Spec

(* Type correctness, for any number of tasks. *)
THEOREM TypeCorrect == Spec => []TypeOK
<1>1. IInv => TypeOK
  BY DEF IInv
<1> QED
  BY <1>1, Invariance, PTL

(* However tasks are created, added and switched, the linked list that     *)
(* sched_add_task builds stays the list of added tasks, once each, in      *)
(* order.                                                                  *)
THEOREM RunQueueCorrect == Spec => []RunQueueIsLinkedList
<1>1. IInv => RunQueueIsLinkedList
  BY DEF IInv
<1> QED
  BY <1>1, Invariance, PTL

(* sched_yield only ever runs tasks that were added. *)
THEOREM RunningTaskCorrect == Spec => []RunningTaskIsQueued
<1>1. IInv => RunningTaskIsQueued
  BY DEF IInv
<1> QED
  BY <1>1, Invariance, PTL

(* context_switch never mixes up two tasks' stacks. *)
THEOREM StacksKept == Spec => []StackPointersKept
<1>1. IInv => StackPointersKept
  BY DEF IInv
<1> QED
  BY <1>1, Invariance, PTL

(* The pages sched_create_task takes are disjoint and above the image.     *)
THEOREM MemoryPrivate == Spec => []TaskMemoryPrivate
<1>1. IInv => TaskMemoryPrivate
  BY DEF IInv
<1> QED
  BY <1>1, Invariance, PTL

(* The first page handed out becomes a task structure, and the others lie  *)
(* above it.                                                               *)
FirstPageIsTaken ==
  /\ IF tasks = {} THEN next_free_page = FirstPage ELSE FirstPage \in tasks
  /\ FirstPage <= next_free_page
  /\ \A t \in tasks : FirstPage <= t

LEMMA FirstPageTaken == Spec => []FirstPageIsTaken
<1>1. Init => FirstPageIsTaken
  BY FirstPageAboveImage DEF Init, mm_init, FirstPageIsTaken
<1>2. IInv /\ FirstPageIsTaken /\ [Next]_vars => FirstPageIsTaken'
  <2> SUFFICES ASSUME IInv, FirstPageIsTaken, [Next]_vars PROVE FirstPageIsTaken'
    OBVIOUS
  <2>1. CASE sched_create_task
    <3>1. /\ tasks' = tasks \cup {next_free_page}
          /\ next_free_page' = next_free_page + 2 * PAGE_SIZE
          /\ next_free_page \in Nat /\ PAGE_SIZE \in Nat /\ FirstPage \in Nat
      BY <2>1, MemoryAssumption, FirstPageAboveImage
         DEF sched_create_task, page_alloc, Page, IInv, TypeOK
    <3>2. FirstPage' = FirstPage
      BY DEF FirstPage, RoundUpToPage, PageAlign, AllocFloor
    <3> QED
      BY <3>1, <3>2 DEF FirstPageIsTaken
  <2>2. CASE UNCHANGED <<tasks, next_free_page>>
    BY <2>2 DEF FirstPageIsTaken, FirstPage, RoundUpToPage, PageAlign, AllocFloor
  <2> QED
    BY <2>1, <2>2 DEF Next, sched_add_task, sched_start, sched_yield, vars
<1> QED
  BY <1>1, <1>2, Invariance, PTL DEF Spec

(* Where mm_init starts, with pages as large as a paging structure.        *)
LEMMA FirstPageByImage ==
  ASSUME PAGE_SIZE = 4096
  PROVE  IF KernelEnd > AllocFloor THEN FirstPage >= PageTablesEnd ELSE FirstPage = AllocFloor
<1> DEFINE x == KernelEnd + 4095
           r == x % 4096
           q == x \div 4096
<1>1. x \in Nat /\ KernelEnd \in Nat
  BY MemoryAssumption
<1>2. r \in 0..4095 /\ q \in Nat /\ x = 4096 * q + r
  BY <1>1
<1>3. RoundUpToPage(KernelEnd) = 4096 * q
  BY <1>1, <1>2 DEF RoundUpToPage, PageAlign
<1> DEFINE y == 4096 * q
<1>4. y \in Nat /\ (q <= 11 => y <= 45056) /\ (q >= 12 => y >= 49152) /\ (q <= 11 \/ q >= 12)
  <2> HIDE DEF q
  <2> QED
    BY <1>2
<1>5. KernelEnd + 4095 = y + r /\ r \in Nat /\ r <= 4095
  <2> HIDE DEF q, r
  <2> QED
    BY <1>2
<1> HIDE DEF q, r, x, y
<1>6. RoundUpToPage(KernelEnd) = y
  BY <1>3 DEF y
<1>7. CASE KernelEnd > 45056
  <2>1. y >= 49152
    BY <1>1, <1>4, <1>5, <1>7
  <2> QED
    BY <1>4, <1>6, <1>7, <2>1 DEF FirstPage, AllocFloor, PageTablesEnd
<1>8. CASE KernelEnd <= 45056
  <2>1. y <= 45056
    BY <1>1, <1>4, <1>5, <1>8
  <2>2. FirstPage = AllocFloor
    BY <1>4, <1>6, <2>1 DEF FirstPage, AllocFloor
  <2> QED
    BY <1>1, <1>8, <2>2 DEF AllocFloor
<1> QED
  BY <1>1, <1>7, <1>8

(* What decides whether tasks are put on the boot loader's page tables: it *)
(* is the size of the image and never mm_init's floor.  With an image that *)
(* ends at or below 0xB000 the first task is on them; above, none ever is. *)
THEOREM OnlyImageSparesTables ==
  ASSUME PAGE_SIZE = 4096
  PROVE  Spec => [](tasks # {} => (PageTablesUntouched <=> KernelEnd > AllocFloor))
<1>1. IInv /\ FirstPageIsTaken
        => (tasks # {} => (PageTablesUntouched <=> KernelEnd > AllocFloor))
  <2> SUFFICES ASSUME IInv, FirstPageIsTaken, tasks # {}
               PROVE  PageTablesUntouched <=> KernelEnd > AllocFloor
    OBVIOUS
  <2>1. /\ FirstPage \in tasks /\ FirstPage \in Nat
        /\ \A t \in tasks : t \in Nat /\ FirstPage <= t
    BY FirstPageAboveImage DEF FirstPageIsTaken, IInv, TypeOK
  <2>2. CASE KernelEnd > AllocFloor
    BY <2>1, <2>2, FirstPageByImage DEF PageTablesUntouched, PageTablesEnd
  <2>3. CASE ~(KernelEnd > AllocFloor)
    <3>1. FirstPage = AllocFloor
      BY <2>3, FirstPageByImage
    <3> QED
      BY <2>1, <2>3, <3>1 DEF PageTablesUntouched, PageTablesStart, PageTablesEnd, AllocFloor
  <2> QED
    BY <2>2, <2>3
<1> QED
  BY <1>1, Invariance, FirstPageTaken, PTL

(* A task that gets the CPU continues where it gave it up. *)
THEOREM ResumeCorrect == Spec => ResumesWhereItYielded
<1>1. IInv' => [mode' = "run" => rsp' = resume'[current_task']]_<<rsp, current_task, resume>>
  BY DEF IInv, RunningWhereResumed
<1> QED
  BY <1>1, Invariance, PTL DEF ResumesWhereItYielded

(* The refinement mapping: Turn is the position of the running task. *)
LEMMA TurnIsPosition ==
  ASSUME IInv, mode = "run", NEW i \in 1..Len(queue), queue[i] = current_task
  PROVE  Turn = i
  BY DEF IInv, RunQueueIsLinkedList, Turn

(* Each step of the code is a step of the round robin or leaves it alone. *)
LEMMA NextRefines == IInv /\ IInv' /\ [Next]_vars => [RR!Next]_(RR!vars)
<1> SUFFICES ASSUME IInv, IInv', [Next]_vars PROVE [RR!Next]_(RR!vars)
  OBVIOUS
<1> USE DEF RR!vars
<1>1. CASE sched_create_task
  BY <1>1 DEF sched_create_task, Turn
<1>2. CASE \E t \in tasks : sched_add_task(t)
  <2>1. PICK t \in tasks : sched_add_task(t)
    BY <1>2
  <2>2. queue' = Append(queue, t) /\ t \notin Queued /\ mode' = mode
        /\ current_task' = current_task
    BY <2>1 DEF sched_add_task
  <2>3. Len(queue) \in Nat /\ Len(queue') = Len(queue) + 1 /\ queue'[Len(queue) + 1] = t
        /\ \A i \in 1..Len(queue) : queue'[i] = queue[i]
    BY <2>2 DEF IInv, TypeOK
  <2>4. Turn' = Turn
    <3>1. CASE mode = "run"
      <4>1. PICK i \in 1..Len(queue) : queue[i] = current_task
        BY <3>1 DEF IInv, RunningTaskIsQueued, Queued
      <4>2. i \in 1..Len(queue') /\ queue'[i] = current_task'
        BY <2>2, <2>3, <4>1
      <4>3. Turn = i
        BY <3>1, <4>1, TurnIsPosition
      <4>4. \A j \in 1..Len(queue') : queue'[j] = current_task' => j = i
        BY <4>2 DEF IInv, RunQueueIsLinkedList
      <4>5. Turn' = i
        BY <2>2, <3>1, <4>2, <4>4 DEF Turn
      <4> QED
        BY <4>3, <4>5
    <3>2. CASE mode # "run"
      BY <2>2, <3>2 DEF Turn
    <3> QED
      BY <3>1, <3>2
  <2>5. t \in RR!TasksOf(queue') /\ t \notin RR!TasksOf(queue)
    BY <2>2, <2>3 DEF RR!TasksOf, Queued
  <2> QED
    BY <2>2, <2>4, <2>5 DEF RR!Next, RR!Add
<1>3. CASE sched_start
  <2>1. CASE task_list_head = 0
    BY <1>3, <2>1 DEF sched_start, Turn
  <2>2. CASE task_list_head # 0
    <3>1. mode = "boot" /\ mode' = "run" /\ queue' = queue /\ current_task' = task_list_head
      BY <1>3, <2>2 DEF sched_start, context_switch
    <3>2. queue # <<>> /\ 1 \in 1..Len(queue) /\ task_list_head = queue[1]
      BY <2>2 DEF IInv, TypeOK, RunQueueIsLinkedList
    <3>3. Turn = 0
      BY <3>1 DEF Turn
    <3>4. \A j \in 1..Len(queue) : queue[j] = queue[1] => j = 1
      BY <3>2 DEF IInv, RunQueueIsLinkedList
    <3>5. Turn' = 1
      BY <3>1, <3>2, <3>4 DEF Turn
    <3> QED
      BY <3>1, <3>2, <3>3, <3>5 DEF RR!Next, RR!Begin
  <2> QED
    BY <2>1, <2>2
<1>4. CASE sched_yield
  <2>1. PICK i \in 1..Len(queue) :
          /\ mode = "run" /\ mode' = mode /\ queue' = queue
          /\ current_task = queue[i]
          /\ current_task' = queue[IF i = Len(queue) THEN 1 ELSE i + 1]
    BY <1>4, YieldEffect
  <2> DEFINE k == IF i = Len(queue) THEN 1 ELSE i + 1
  <2>2. Turn = i
    BY <2>1, TurnIsPosition
  <2>3. k \in 1..Len(queue)
    BY DEF IInv, TypeOK
  <2>4. \A j \in 1..Len(queue) : queue[j] = queue[k] => j = k
    BY <2>3 DEF IInv, RunQueueIsLinkedList
  <2>5. Turn' = k
    <3> HIDE DEF k
    <3> QED
      BY <2>1, <2>3, <2>4 DEF Turn, k
  <2> QED
    BY <2>1, <2>2, <2>5 DEF RR!Next, RR!Pass
<1>5. CASE UNCHANGED vars
  BY <1>5 DEF vars, Turn
<1> QED
  BY <1>1, <1>2, <1>3, <1>4, <1>5 DEF Next

(* The linked-list scheduler implements the round robin, for any number of *)
(* tasks: sched_yield never skips one, and sched_add_task never disturbs   *)
(* the turns of the others.                                                *)
THEOREM RoundRobinCorrect == Spec => ImplementsRoundRobin
<1>1. Init => RR!Init
  BY DEF Init, RR!Init, Turn
<1>2. IInv /\ IInv' /\ [Next]_vars => [RR!Next]_(RR!vars)
  BY NextRefines
<1> QED
  BY <1>1, <1>2, Invariance, PTL DEF Spec, RR!Spec, ImplementsRoundRobin
=============================================================================
