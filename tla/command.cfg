SPECIFICATION FairSpec
CONSTANTS
  Callers = {a, b}
  Commands <- EveryKind
  Frames <- AnyFrame
  MaxBatch = 2
  MaxNested = 2
INVARIANTS
  TypeOK
  TimerOfCommand
  SlotOfCommand
  ToldOnce
  RightAnswer
  ClosedIsQuiet
PROPERTIES
  KeepsPromise
