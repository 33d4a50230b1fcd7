CONSTANTS
  Bodies <- TestBodies
  MaxNesting = 4
SPECIFICATION Spec
INVARIANTS
  AnyMeans
CHECK_DEADLOCK FALSE
