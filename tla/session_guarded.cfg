SPECIFICATION AnsweringSpec
CONSTANTS
  CancelDuring <- GuardedWaiter
  Events = {"release"}
INVARIANTS
  SingleReport
  NoZombieWaiter
  ParkIsSound
  ScanOnLiveSession
  CleanMeansAlive
PROPERTIES
  KeepsContract
