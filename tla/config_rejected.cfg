SPECIFICATION Spec
CONSTANTS
  CancelDuring = {}
  Events = {}
PROPERTIES
  DeviceErrorIsDirty
