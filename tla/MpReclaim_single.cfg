\* No MP response: the BSP reclaims alone, without barriers.  The path has no
\* interleaving, so the bound goes into the length of the memory map.
CONSTANTS
  NCpu = 3
  NEntries = 9
  MpResponse = FALSE
  UseMP = TRUE
SPECIFICATION Spec
PROPERTY UnusedEntriesReclaimed
