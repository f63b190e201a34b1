\* As MpReclaim_mp.cfg, checking spec S6 on the stacks of the APs.
CONSTANTS
  NCpu = 3
  NEntries = 3
  MpResponse = TRUE
  UseMP = TRUE
SPECIFICATION Spec
INVARIANT StackFramesStayLocked
