\* What is written, as JSON or as a row, is what the document holds.
CONSTANTS
  ObjectSchemas <- MCObjects
  Roots = {"Person", "Flat"}
  Handles = {h1, h2}
  Assignments <- MCAssignments
  Leaves = {leaf1, leaf2}
  leaf1 = leaf1
  leaf2 = leaf2
  Misfit = Misfit
  ExplicitNull = ExplicitNull
  Panic = Panic
  Unheld = Unheld
  Containers = {1, 2, 3, 4, 5, 6, 7, 8, 9, 10, 11, 12, 13, 14}
  Records = {21, 22, 23, 24}
  MaxPooled = 3
  MaxDocumentSteps = 4
SPECIFICATION DocumentsSpec
INVARIANT WrittenWhole
CHECK_DEADLOCK FALSE
