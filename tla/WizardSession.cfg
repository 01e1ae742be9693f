SPECIFICATION Spec
CONSTANTS
  Absent = Absent
  References = {"${A}", "${B}"}
  Malformed = {"${a}"}
  Names = {"f", "${A}", "${B}"}
  Numbers = {0, 5, 70000}
  MaxOdd = 1
  MaxPipelines = 1
  MaxTriggers = 1
  MaxFunctions = 3
  MaxEdges = 3
INVARIANTS
  WrittenLoads
  RefusedForCause
  KahnFindsCycles
CHECK_DEADLOCK FALSE
