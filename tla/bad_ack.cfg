SPECIFICATION Spec
CONSTANTS
  Callers = {a, b}
  Commands = {"enable"}
  Frames <- AnyFrame
  MaxBatch = 1
  MaxNested = 0
INVARIANTS
  CriticalIntegrity
