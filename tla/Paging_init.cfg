\* mem::init over every small memory map and kernel image, then one user
\* address space mapping, re-flagging and unmapping three lower-half pages
\* with nine free frames.  A panic stops the thread, so a panicked state has
\* no successor.
CONSTANTS
  IndexSize = 2
  MaxDepth = 4
  UseMega = TRUE
  UseGiga = TRUE
  Hhdm = 8
  KernelBase = 12
  Pool = {20, 21, 22, 23, 24, 25, 26, 27, 28}
  Maps <- MCMaps
  Images <- MCImages
  UserPages = {0, 1, 2}
  Counts = {1, 2}
  Perms = {"ReadWrite", "ReadOnly"}
SPECIFICATION FairSpec
INVARIANT TypeOK KernelMapTranslates FreeFramesUnreferenced UserPagesNotTables
PROPERTY InitTerminates AbsSpec
CHECK_DEADLOCK FALSE
