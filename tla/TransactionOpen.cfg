\* Any callback: goroutines of its own, foreign contexts, failing CreateCollections.
CONSTANTS
  o1 = o1
  o2 = o2
  o3 = o3
  Ops = {o1, o2, o3}
  Root = Root
  Kinds = {"nested", "async", "stray", "foreign"}
  SchemaFailures = TRUE
SPECIFICATION Spec
SYMMETRY OpSymmetry
INVARIANTS
  HooksMatchOutcome
  ResultTruthful
  PendingIsAccurate
CHECK_DEADLOCK FALSE
