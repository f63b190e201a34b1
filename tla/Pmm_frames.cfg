\* init over every Limine-shaped map of up to three entries below address 6;
\* two threads allocate and free through the kernel allocator and one of
\* them also calls lock_frame.
CONSTANTS
  th1 = th1
  th2 = th2
  th3 = th3
  Maps <- MCMaps
  PageShift = 1
  WordShift = 1
  WordBytes = 1
  Threads <- MCTwoThreads
  Sizes = {1, 2}
  MaxAllocs = 2
  LockCallers <- MCOneThread
SPECIFICATION Spec
INVARIANT TypeOK UsableFramesFree FramesAccounted
PROPERTY AbsSpec
