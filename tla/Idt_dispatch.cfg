\* One hardware thread from x2Apic::reset on, on processors reporting any
\* max_lvt_entry from 3 to 6, past the bring-up breakpoint.  A panicking handler
\* stops the thread for good, so the halted state has no successor.
CONSTANTS
  Breakpoint = FALSE
  MaxLvtEntries = {3, 4, 5, 6}
SPECIFICATION Spec
INVARIANT TypeOK
PROPERTY PendingServed
CHECK_DEADLOCK FALSE
