SPECIFICATION Spec
CONSTANTS
  PSK = "wrong"
  PACK_MAX = 5
  MaxWire = 12
INVARIANT EstablishedMeansAccepted
