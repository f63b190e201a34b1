\* Three hardware threads started with _mp_entry, three reclaimable entries.
CONSTANTS
  NCpu = 3
  NEntries = 3
  MpResponse = TRUE
  UseMP = TRUE
SPECIFICATION Spec
INVARIANT TypeOK UsedFlagExact ApExitOnlyAtEnd
PROPERTY ReclaimTerminates
