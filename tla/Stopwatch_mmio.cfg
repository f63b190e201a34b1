\* MMIO source: a read can return before the counter ticks again.
CONSTANTS
  CounterBits = 3
  DurationsUs = {1, 2, 3}
  MinGap = 0
  MaxGap = 3
SPECIFICATION Spec
INVARIANT ElapsedNotOvercounted
