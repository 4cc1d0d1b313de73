SPECIFICATION FairSpec
CONSTANTS
  PSK = "right"
  PACK_MAX = 5
  MaxWire = 12
INVARIANTS
  TypeOK
  NoUseAfterFree
  JoinIsPrompt
  ReaderIsWoken
  AcceptIsOver
  OnlyFaultsFail
  AccumulatorFits
  FramesAligned
PROPERTIES
  HandshakeEnds
