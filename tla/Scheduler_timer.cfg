\* Two threads, three tasks, preemption only (no syscalls).
CONSTANTS
  th1 = th1  th2 = th2  ta1 = ta1  ta2 = ta2  ta3 = ta3  v1 = v1  v2 = v2
  Threads <- MCThreads
  Tasks <- MCTasks
  Vals <- MCVals
  NoTask = NoTask
  KernelRoot = KernelRoot
  TimerUnmasked = TRUE
  SyscallsUsed = FALSE
SPECIFICATION Spec
INVARIANT TypeOK ContextPreserved
PROPERTY AbsSpec
