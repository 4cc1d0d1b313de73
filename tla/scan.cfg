SPECIFICATION TouchedSpec
CONSTANTS
  NULL = NULL
  Ssm = {m}
  Frames <- AllFrames
  FRAMES_PER_TOUCH = 3
  ENROLL_STAGES = 2
  AIR_RETRY_MAX = 1
  DOWN_EMPTY_POLL_MAX = 2
INVARIANTS
  TypeOK
  NoReusedSsm
  OneMover
  ScanEndsWithClaim
  DeliversBest
  BurstIsOfThisTouch
  NoSecondLook
  EnrolmentHasContext
PROPERTIES
  ReleaseWaitEnds
  BurstEnds
  SingleTouchEnds
  KeepsTouchContract
