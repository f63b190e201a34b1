\* Two hardware threads; TSS addresses in the higher half with or without a
\* set bit in each of the four base ranges of the descriptor.
CONSTANTS
  t1 = t1  t2 = t2
  Threads = {t1, t2}
  Probes = {4, 20, 28, 40}
SPECIFICATION Spec
INVARIANT IstStacksOwn
