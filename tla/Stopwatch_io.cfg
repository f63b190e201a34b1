\* Port-IO source: a read takes longer than one tick, so two reads differ.
\* A 3-bit counter wraps every 8 ticks; 3 us is 9 counted ticks, so waits
\* cross a wrap from every starting value.
CONSTANTS
  CounterBits = 3
  DurationsUs = {1, 2, 3}
  MinGap = 1
  MaxGap = 3
SPECIFICATION Spec
INVARIANT TypeOK ElapsedNotOvercounted
