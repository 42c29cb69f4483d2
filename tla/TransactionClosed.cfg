\* The callback uses only its context and Async, no CreateCollection fails:
\* the transaction is atomic.
CONSTANTS
  o1 = o1
  o2 = o2
  o3 = o3
  Ops = {o1, o2, o3}
  Root = Root
  Kinds = {"nested", "async"}
  SchemaFailures = FALSE
SPECIFICATION FairSpec
INVARIANTS
  CommitIsComplete
  HooksComplete
PROPERTIES
  AtomicSpec
  Terminates
  CancelReleasesWait
CHECK_DEADLOCK FALSE
