---------------------------- MODULE SchedulerAbs ----------------------------
(***************************************************************************)
(* What preemptive round-robin scheduling promises a task, without saved   *)
(* contexts, interrupt frames or page tables: every task has one register *)
(* file, ctx, which only its own code changes, and tasks take turns on the *)
(* hardware threads in FIFO order.  Only safety is stated: when a thread  *)
(* is preempted is up to the timer, which the kernel does not yet arm.    *)
(***************************************************************************)
EXTENDS Sequences

CONSTANTS Threads, Tasks, Vals, NoTask

VARIABLES
  queue,    \* tasks waiting for a thread, oldest first
  running,  \* the task each thread runs, or NoTask
  ctx       \* the register file each task sees

vars == <<queue, running, ctx>>

Init == running = [t \in Threads |-> NoTask]

(* A thread sets its task, if any, at the back of the queue and takes the  *)
(* front one; no register file changes.                                    *)
Preempt(t) ==
  LET q == IF running[t] # NoTask THEN Append(queue, running[t]) ELSE queue
  IN /\ queue' = IF q = <<>> THEN q ELSE Tail(q)
     /\ running' = [running EXCEPT ![t] = IF q = <<>> THEN NoTask ELSE Head(q)]
     /\ UNCHANGED ctx

(* A running task changes its own registers and no one else's.             *)
Run(t) ==
  /\ running[t] # NoTask
  /\ \E c \in [gp : Vals, ret : Vals] : ctx' = [ctx EXCEPT ![running[t]] = c]
  /\ UNCHANGED <<queue, running>>

Next == \E t \in Threads : Preempt(t) \/ Run(t)

Spec == Init /\ [][Next]_vars
=============================================================================
