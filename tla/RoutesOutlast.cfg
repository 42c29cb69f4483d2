CONSTANTS
  Threads = {t1, t2}
  Labels = {A}
  Names = {n}
  NoLabel = nothing
  MaxSubscriptions = 0
SPECIFICATION OrchestratorSpec
PROPERTY RoutesOutlast
CHECK_DEADLOCK FALSE
