SPECIFICATION Spec
CONSTANTS
  CancelDuring = {"nop"}
  Events = {}
INVARIANTS
  SingleReport
