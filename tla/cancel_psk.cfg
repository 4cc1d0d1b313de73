SPECIFICATION Spec
CONSTANTS
  CancelDuring = {"psk"}
  Events = {}
INVARIANTS
  NoZombieWaiter
