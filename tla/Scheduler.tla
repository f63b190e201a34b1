----------------------------- MODULE Scheduler -----------------------------
(***************************************************************************)
(* The task scheduler of task/scheduling.rs together with the interrupt   *)
(* paths that drive it (__irq_handler in idt/stubs.rs and                 *)
(* syscall::process).                                                      *)
(*                                                                         *)
(* Every hardware thread owns a Scheduler (its running task, behind the    *)
(* thread's InterruptCell) and all threads share the run queue PROCESSES,  *)
(* a spin::Mutex<VecDeque<Task>>.  A handler runs with interrupts off and  *)
(* holds PROCESSES for the whole queue manipulation, so each handler is   *)
(* one atomic step of its thread.                                          *)
(*                                                                         *)
(* Data abstraction: a register file (interrupt stack frame plus general   *)
(* registers) is a record of the two syscall result registers rdi/rsi     *)
(* ("ret") and everything else ("gp"), each drawn from a small set; an     *)
(* address space is named by its task, its root frame being the task.     *)
(* A ghost variable, truth, holds the register file each task's own code   *)
(* last produced, against which restored contexts are compared.           *)
(***************************************************************************)
EXTENDS Naturals, Sequences, SequencesExt, FiniteSets

CONSTANTS
  Threads,        \* hardware threads
  Tasks,          \* tasks present in PROCESSES when scheduling begins
  Vals,           \* values a task's own code may leave in a register
  NoTask,         \* Scheduler.task = None
  KernelRoot,     \* the kernel page tables, CR3 when no task has run
  TimerUnmasked,  \* the LVT timer entry can deliver Vector::Timer
  SyscallsUsed    \* tasks issue syscalls (int 0x80)

ASSUME NoTask \notin Tasks /\ KernelRoot \notin Tasks
ASSUME TimerUnmasked \in BOOLEAN /\ SyscallsUsed \in BOOLEAN

(* libsys::syscall::Result as written back by into_registers.             *)
Results == {"Ok", "Err"}
(* The context next_task installs when the queue is empty: IP =           *)
(* wait_indefinite, SP = the idle stack top, Registers::empty().          *)
IdleCtx == [gp |-> "Idle", ret |-> "Zero"]
(* The context a task is created with, before it has run.                 *)
FreshCtx == [gp |-> "Entry", ret |-> "Zero"]
Ctx == [gp : Vals \cup {"Idle", "Entry"}, ret : Vals \cup Results \cup {"Zero"}]

VARIABLES
  queue,    \* PROCESSES
  running,  \* Scheduler.task of each thread
  saved,    \* Task.context of each task (saved ISF and registers)
  regs,     \* the ISF and registers the thread's interrupt will return to
  cr3,      \* CR3 of each thread
  dead,     \* tasks dropped by kill_task
  truth     \* ghost: the register file each task last produced itself

vars == <<queue, running, saved, regs, cr3, dead, truth>>

-----------------------------------------------------------------------------
(* next_task, given the queue after the current task was pushed back.     *)

(* Slip: the next task is read with front() and left in the queue.        *)
NextTaskPeeking(t, q) ==
  IF q = <<>>
    THEN /\ queue' = q
         /\ running' = [running EXCEPT ![t] = NoTask]
         /\ UNCHANGED cr3
    ELSE /\ queue' = q
         /\ running' = [running EXCEPT ![t] = Head(q)]
         /\ cr3' = IF cr3[t] # Head(q) THEN [cr3 EXCEPT ![t] = Head(q)] ELSE cr3

(* pop_front; if a task comes out, swap into its address space unless it  *)
(* is current and make it the thread's task; otherwise run the idle loop. *)
(* set_preemption_wait re-arms the one-shot timer in both cases.          *)
NextTask(t, q) ==
  IF q = <<>>
    THEN /\ queue' = q
         /\ running' = [running EXCEPT ![t] = NoTask]
         /\ UNCHANGED cr3
    ELSE /\ queue' = Tail(q)
         /\ running' = [running EXCEPT ![t] = Head(q)]
         /\ cr3' = IF cr3[t] # Head(q) THEN [cr3 EXCEPT ![t] = Head(q)] ELSE cr3

(* The ISF and registers next_task writes back for the interrupt return.   *)
NextRegs(q) == IF q = <<>> THEN IdleCtx ELSE saved[Head(q)]

(* Task.context = (state, regs) of the thread's running task.             *)
SaveContext(t) == [saved EXCEPT ![running[t]] = regs[t]]

-----------------------------------------------------------------------------
(* Slip: the `if let Some` around the push is lost and an empty slot is    *)
(* queued as well.                                                          *)
TimerInterruptPushingNone(t) ==
  /\ TimerUnmasked
  /\ LET q == Append(queue, running[t])
     IN /\ NextTask(t, q)
        /\ regs' = [regs EXCEPT ![t] = NextRegs(q)]
  /\ saved' = IF running[t] # NoTask THEN SaveContext(t) ELSE saved
  /\ UNCHANGED <<dead, truth>>

(* Slip: the running task is queued without its context being saved.      *)
TimerInterruptWithoutSave(t) ==
  /\ TimerUnmasked
  /\ LET q == IF running[t] # NoTask THEN Append(queue, running[t]) ELSE queue
     IN /\ NextTask(t, q)
        /\ regs' = [regs EXCEPT ![t] = NextRegs(q)]
  /\ UNCHANGED <<saved, dead, truth>>

(* Slip: the preempted task is put at the front (push_front).             *)
TimerInterruptPushFront(t) ==
  /\ TimerUnmasked
  /\ LET q == IF running[t] # NoTask THEN <<running[t]>> \o queue ELSE queue
     IN /\ NextTask(t, q)
        /\ regs' = [regs EXCEPT ![t] = NextRegs(q)]
  /\ saved' = IF running[t] # NoTask THEN SaveContext(t) ELSE saved
  /\ UNCHANGED <<dead, truth>>

(* Vector::Timer: interrupt_task saves and re-queues the running task, if  *)
(* any, then next_task; __irq_handler ends with the EOI.                   *)
TimerInterrupt(t) ==
  /\ TimerUnmasked
  /\ LET q == IF running[t] # NoTask THEN Append(queue, running[t]) ELSE queue
     IN /\ NextTask(t, q)
        /\ regs' = [regs EXCEPT ![t] = NextRegs(q)]
  /\ saved' = IF running[t] # NoTask THEN SaveContext(t) ELSE saved
  /\ UNCHANGED <<dead, truth>>

(* The running task's own code computes: any register may change.         *)
TaskRuns(t) ==
  /\ running[t] # NoTask
  /\ \E c \in [gp : Vals, ret : Vals] :
       /\ regs' = [regs EXCEPT ![t] = c]
       /\ truth' = [truth EXCEPT ![running[t]] = c]
  /\ UNCHANGED <<queue, running, saved, cr3, dead>>

(* __irq_handler's Vector::Syscall arm writes process()'s result into     *)
(* rdi/rsi of whatever register file regs holds when process returns.     *)
WithResult(c, r) == [c EXCEPT !.ret = r]

(* Klog* or an unknown vector: no switch, the result reaches the caller.  *)
SyscallNoSwitch(t) ==
  /\ SyscallsUsed
  /\ running[t] # NoTask
  /\ \E r \in Results :
       /\ regs' = [regs EXCEPT ![t] = WithResult(@, r)]
       /\ truth' = [truth EXCEPT ![running[t]] = WithResult(@, r)]
  /\ UNCHANGED <<queue, running, saved, cr3, dead>>

(* TaskYield: yield_task saves and re-queues the caller, next_task, then  *)
(* Ok(Success::Ok) is written into the registers next_task installed.     *)
(* The caller is owed Ok in rdi/rsi when it resumes.                       *)
SyscallYield(t) ==
  /\ SyscallsUsed
  /\ running[t] # NoTask
  /\ LET q == Append(queue, running[t])
     IN /\ NextTask(t, q)
        /\ regs' = [regs EXCEPT ![t] = WithResult(NextRegs(q), "Ok")]
  /\ saved' = SaveContext(t)
  /\ truth' = [truth EXCEPT ![running[t]] = WithResult(@, "Ok")]
  /\ UNCHANGED <<dead>>

(* TaskExit: kill_task takes and drops the caller (its address space is   *)
(* not reclaimed), next_task, then the result is written back as above.    *)
SyscallExit(t) ==
  /\ SyscallsUsed
  /\ running[t] # NoTask
  /\ dead' = dead \cup {running[t]}
  /\ NextTask(t, queue)
  /\ regs' = [regs EXCEPT ![t] = WithResult(NextRegs(queue), "Ok")]
  /\ UNCHANGED <<saved, truth>>

-----------------------------------------------------------------------------
Init ==
  /\ queue \in SetToSeqs(Tasks)
  /\ running = [t \in Threads |-> NoTask]
  /\ saved = [x \in Tasks |-> FreshCtx]
  /\ truth = [x \in Tasks |-> FreshCtx]
  /\ regs = [t \in Threads |-> IdleCtx]
  /\ cr3 = [t \in Threads |-> KernelRoot]
  /\ dead = {}

Next ==
  \E t \in Threads :
    \/ TimerInterrupt(t)
    \/ TaskRuns(t)
    \/ SyscallNoSwitch(t)
    \/ SyscallYield(t)
    \/ SyscallExit(t)

(* No step is assumed to happen: nothing in the current kernel unmasks the *)
(* LVT timer, so the properties are safety properties.                     *)
Spec == Init /\ [][Next]_vars
-----------------------------------------------------------------------------
(* Properties.                                                             *)

TypeOK ==
  /\ queue \in Seq(Tasks)
  /\ running \in [Threads -> Tasks \cup {NoTask}]
  /\ saved \in [Tasks -> Ctx] /\ truth \in [Tasks -> Ctx]
  /\ regs \in [Threads -> Ctx]
  /\ cr3 \in [Threads -> Tasks \cup {KernelRoot}]
  /\ dead \subseteq Tasks

(* Number of places a task occupies: queue slots plus thread slots.       *)
Places(x) ==
  Cardinality({i \in 1 .. Len(queue) : queue[i] = x})
    + Cardinality({t \in Threads : running[t] = x})

(* A task that has not exited is in exactly one place, the shared queue or *)
(* one thread's Scheduler.task, so no two threads ever run it at once and  *)
(* none is lost, whatever the threads' handlers interleave; an exited task *)
(* is nowhere.                                                              *)
TaskExclusive ==
  \A x \in Tasks : Places(x) = IF x \in dead THEN 0 ELSE 1

(* Spec property 6: while a task runs, the registers it sees are exactly   *)
(* those its own code produced, across any preemptions, syscalls and       *)
(* switches through the shared queue (interrupt_task / next_task /         *)
(* __irq_handler's result write).                                          *)
ContextPreserved ==
  \A t \in Threads : running[t] # NoTask => regs[t] = truth[running[t]]

-----------------------------------------------------------------------------
(* Refinement under preemption alone: a task's register file is the live   *)
(* one of the thread running it, and its saved context otherwise.          *)
Abs == INSTANCE SchedulerAbs WITH
         ctx <- [x \in Tasks |->
                   IF \E t \in Threads : running[t] = x
                     THEN regs[CHOOSE t \in Threads : running[t] = x]
                     ELSE saved[x]]

(* Preemption by the timer (interrupt_task, next_task and the context      *)
(* written back by __irq_handler) is invisible to every task: each timer   *)
(* interrupt, on whichever thread, is one FIFO rotation of the shared      *)
(* PROCESSES queue (the preempted task to the back, the oldest waiter in)  *)
(* that changes no task's registers.                                        *)
AbsSpec == Abs!Spec

=============================================================================
