CONSTANTS
  Goroutines = {c1, c2}
  Uses = {"write"}
  None = None
SPECIFICATION FairStoreSpec
PROPERTY EveryCallReturns
CHECK_DEADLOCK FALSE
