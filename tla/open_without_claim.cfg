SPECIFICATION Spec
CONSTANTS
  CancelDuring = {}
  Events = {"openOnly"}
INVARIANTS
  ScanOnLiveSession
