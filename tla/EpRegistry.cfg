\* Two threads opening, closing, querying, sharing and evicting on two user
\* endpoints of two rails each, with multi-EP enabled and failing secondary
\* opens and fini.
\* No symmetry: the run checks a liveness property.
CONSTANTS
  t1 = t1
  t2 = t2
  a = a
  b = b
  Threads = {t1, t2}
  Slots = {a, b}
  NumRails = 2
  MultiEp = TRUE
  OpenCanFail = TRUE
  FiniCanFail = TRUE
  MaxCalls = 6
  NULL = NULL
SPECIFICATION FairSpec
INVARIANTS
  TypeOK
  RegistryConsistent
  OtherEvictLocked
PROPERTIES
  CallsReturn
