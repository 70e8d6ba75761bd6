\* Two threads with two user endpoints: every read psm_ep.c makes outside
\* the lock under which the memory is freed (the eviction rotation within
\* the own endpoint, the query and lookup walks, the hfi_nids table read by
\* share_memory) is checked to touch only live, locked memory.
CONSTANTS
  t1 = t1
  t2 = t2
  a = a
  b = b
  Threads = {t1, t2}
  Slots = {a, b}
  NumRails = 2
  MultiEp = TRUE
  OpenCanFail = TRUE
  FiniCanFail = TRUE
  MaxCalls = 6
  NULL = NULL
SYMMETRY MCSymmetry
SPECIFICATION Spec
INVARIANTS
  NoUnsafeAccess
