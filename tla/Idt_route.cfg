\* As Idt_dispatch.cfg, checking the vector __irq_handler is called with.
CONSTANTS
  Breakpoint = FALSE
  MaxLvtEntries = {3, 4, 5, 6}
SPECIFICATION Spec
INVARIANT DispatchedAsRaised
CHECK_DEADLOCK FALSE
