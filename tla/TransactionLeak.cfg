\* A CreateCollection that fails inside the transaction.
CONSTANTS
  o1 = o1
  o2 = o2
  Ops = {o1, o2}
  Root = Root
  Kinds = {"nested", "async"}
  SchemaFailures = TRUE
SPECIFICATION Spec
INVARIANT RollbackLeavesNothing
CHECK_DEADLOCK FALSE
