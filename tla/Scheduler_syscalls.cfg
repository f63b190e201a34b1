\* Two threads, three tasks, preemption plus yield, exit and other syscalls.
\* Register contents do not steer the scheduler, so one value is enough here.
CONSTANTS
  th1 = th1  th2 = th2  ta1 = ta1  ta2 = ta2  ta3 = ta3  v1 = v1  v2 = v2
  Threads <- MCThreads
  Tasks <- MCTasks
  Vals <- MCOneVal
  NoTask = NoTask
  KernelRoot = KernelRoot
  TimerUnmasked = TRUE
  SyscallsUsed = TRUE
SPECIFICATION Spec
INVARIANT TaskExclusive
SYMMETRY Symmetry
