SPECIFICATION TimedSpec
CONSTANTS
  CancelDuring = {}
  Events = {}
PROPERTIES
  BringUpEnds
