CONSTANTS
  Bodies <- TestBodies
  MaxNesting = 4
SPECIFICATION Spec
INVARIANTS
  GroupsMean
  BlamesTheGuilty
  ResultsFit
  OneOfOpposites
  TagsAgree
  Tally
CHECK_DEADLOCK FALSE
