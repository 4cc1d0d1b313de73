------------------------ MODULE Goodix5e0aScanProofs ------------------------
(***************************************************************************)
(* What holds of a scan whatever frames a finger leaves, however long the  *)
(* burst, the enrolment and the patience of the driver, and wherever the   *)
(* allocator puts the machine: one inductive invariant, the properties     *)
(* that follow from it, and that every step of the driver is one that      *)
(* TouchContract allows.                                                   *)
(***************************************************************************)
EXTENDS Goodix5e0aScan, TLAPS

(* A claim that is up has a scan, and no other has: a claim that runs, and *)
(* is not suspended, is what the driver takes it for.                      *)
ClaimOK ==
  /\ bringUp => Running /\ ~suspended
  /\ suspended => Running
  /\ action = "none" => result = "none" /\ given = NULL
  /\ d.scan_ssm # NULL <=> Running /\ ~bringUp /\ ~suspended
  /\ Running /\ ~suspended =>
       /\ d.mode = IF action = "enroll" THEN "none" ELSE action
       /\ action = "enroll" => d.enrol_ctx /\ d.enroll_stage < ENROLL_STAGES

(* A scan has one waiter, the command's or the poll timer's.               *)
WaitersOK ==
  IF d.scan_ssm = NULL
  THEN d.slot = NULL /\ d.down_timeout = NULL
  ELSE \/ d.slot = WaiterOf(d) /\ d.down_timeout = NULL
       \/ d.slot = NULL /\ d.down_timeout = WaiterOf(d) /\ d.gen_ok

(* The winner so far is the best of the burst, and nothing is handed over  *)
(* while the burst goes on.                                                *)
BestOfBurst ==
  d.scan_ssm # NULL /\ d.state = "IMAGE" =>
    /\ given = NULL
    /\ d.best = NULL <=> burst = {}
    /\ d.best # NULL => d.best \in burst /\ \A f \in burst : ~Beats(f, d.best)

(* A finger that counted holds the next look back: before the scan by the  *)
(* guard, unless its time is up, and in the scan until it was lifted.      *)
TouchOK ==
  /\ owed => finger
  /\ d.scan_ssm = NULL => (owed /\ d.guard_age = "fresh" => d.retry_guard)
  /\ d.scan_ssm # NULL /\ d.state \in {"AE", "D6"} => (owed => d.retry_guard)
  /\ d.scan_ssm # NULL /\ d.state \in {"DOWN", "IMAGE"} => ~owed
  /\ d.scan_ssm # NULL /\ d.state \in Release =>
       ~(lift /\ owed) /\ (action \in Single => d.retry_guard)

(* The inductive invariant.                                                *)
ScanInv ==
  /\ TypeOK /\ ClaimOK /\ WaitersOK
  /\ BurstIsOfThisTouch /\ BestOfBurst /\ DeliversBest
  /\ TouchOK

------------------------------------------------------------------------------
(* The operators on the driver's record: what each sets and leaves alone.  *)

LEMMA Bounds ==
  /\ FRAMES_PER_TOUCH \in Nat \ {0} /\ ENROLL_STAGES \in Nat \ {0}
  /\ DOWN_EMPTY_POLL_MAX \in Nat \ {0} /\ AIR_RETRY_MAX \in Nat
  /\ 0 \in 0..FRAMES_PER_TOUCH /\ 0 \in 0..ENROLL_STAGES
  /\ 0 \in 0..DOWN_EMPTY_POLL_MAX /\ 0 \in 0..AIR_RETRY_MAX
BY ScanAssumption

LEMMA Names ==
  /\ NULL \notin Ssm /\ NULL \notin [ssm : Ssm, mine : BOOLEAN]
  /\ NULL \notin Frames \cup {Air} /\ Frames \cup {Air} \subseteq Frame
BY ScanAssumption DEF Frame, Air

(* What is armed for a machine is of its address, and of its scan.         *)
LEMMA WaiterFacts ==
  /\ \A s \in Driver : s.scan_ssm # NULL =>
       /\ WaiterOf(s) \in Waiter
       /\ WaiterOf(s).ssm = s.scan_ssm /\ WaiterOf(s).mine
  /\ \A w \in Waiter : Orphan(w) \in Waiter
  /\ Orphan(NULL) = NULL /\ NULL \in Waiter
BY DEF WaiterOf, Waiter, Driver, Orphan

(* The fields of a claim and its guard.                                    *)
SameClaim(s, t) ==
  /\ t.mode = s.mode /\ t.enrol_ctx = s.enrol_ctx /\ t.enroll_stage = s.enroll_stage

SameGuard(s, t) ==
  /\ t.retry_guard = s.retry_guard /\ t.guard_age = s.guard_age

(* The machine of s waits in t for the command of a state.                 *)
Awaits(s, t, q) ==
  /\ t \in Driver /\ t.scan_ssm = s.scan_ssm /\ t.state = q
  /\ t.slot = WaiterOf(t) /\ t.down_timeout = s.down_timeout

(* No machine is left, nor a waiter of one.                                *)
Ended(t) ==
  /\ t \in Driver /\ t.scan_ssm = NULL /\ t.slot = NULL /\ t.down_timeout = NULL

NoTouchFrames(t) == t.frame_count = 0 /\ t.best = NULL

SameTouchFrames(s, t) == t.frame_count = s.frame_count /\ t.best = s.best

LEMMA ArmFacts ==
  ASSUME NEW s \in Driver, s.scan_ssm # NULL
  PROVE  /\ Awaits(s, Arm(s), s.state)
         /\ SameClaim(s, Arm(s)) /\ SameGuard(s, Arm(s)) /\ SameTouchFrames(s, Arm(s))
<1>1. WaiterOf(s) \in Waiter
  BY WaiterFacts
<1>2. Arm(s) \in Driver
  BY <1>1 DEF Arm, Driver
<1>3. /\ Arm(s).scan_ssm = s.scan_ssm /\ Arm(s).state = s.state
      /\ Arm(s).down_timeout = s.down_timeout /\ Arm(s).slot = WaiterOf(s)
  BY DEF Arm, Driver
<1>4. WaiterOf(Arm(s)) = WaiterOf(s)
  BY <1>3 DEF WaiterOf
<1>5. SameClaim(s, Arm(s)) /\ SameGuard(s, Arm(s)) /\ SameTouchFrames(s, Arm(s))
  BY DEF Arm, Driver, SameClaim, SameGuard, SameTouchFrames
<1> QED BY <1>2, <1>3, <1>4, <1>5 DEF Awaits

LEMMA EnterFacts ==
  ASSUME NEW s \in Driver, s.scan_ssm # NULL, NEW q \in States
  PROVE  /\ Awaits(s, Enter(s, q), q)
         /\ SameClaim(s, Enter(s, q)) /\ SameGuard(s, Enter(s, q))
         /\ SameTouchFrames(s, Enter(s, q))
<1> DEFINE e == [s EXCEPT !.state = q,
                          !.down_empty_polls = IF q = "DOWN" THEN 0 ELSE @]
<1>1. e \in Driver
  BY Bounds DEF Driver
<1>2. /\ e.scan_ssm = s.scan_ssm /\ e.state = q /\ e.down_timeout = s.down_timeout
      /\ SameClaim(s, e) /\ SameGuard(s, e) /\ SameTouchFrames(s, e)
  BY DEF Driver, SameClaim, SameGuard, SameTouchFrames
<1>3. Enter(s, q) = Arm(e)
  BY DEF Enter
<1> HIDE DEF e
<1>4. Awaits(e, Arm(e), e.state) /\ SameClaim(e, Arm(e)) /\ SameGuard(e, Arm(e))
      /\ SameTouchFrames(e, Arm(e))
  BY <1>1, <1>2, ArmFacts
<1> QED BY <1>2, <1>3, <1>4 DEF Awaits, SameClaim, SameGuard, SameTouchFrames

LEMMA ResetFacts ==
  ASSUME NEW s \in Driver
  PROVE  /\ ResetTouchFrames(s) \in Driver /\ NoTouchFrames(ResetTouchFrames(s))
         /\ ResetTouchFrames(s).scan_ssm = s.scan_ssm
         /\ ResetTouchFrames(s).slot = s.slot
         /\ ResetTouchFrames(s).down_timeout = s.down_timeout
         /\ SameClaim(s, ResetTouchFrames(s)) /\ SameGuard(s, ResetTouchFrames(s))
BY Bounds DEF ResetTouchFrames, Driver, NoTouchFrames, SameClaim, SameGuard

LEMMA DropFacts ==
  ASSUME NEW s \in Driver
  PROVE  /\ DropMachine(s) \in Driver
         /\ DropMachine(s).scan_ssm = NULL
         /\ DropMachine(s).slot = Orphan(s.slot)
         /\ DropMachine(s).down_timeout = Orphan(s.down_timeout)
         /\ SameClaim(s, DropMachine(s)) /\ SameGuard(s, DropMachine(s))
BY WaiterFacts DEF DropMachine, Driver, SameClaim, SameGuard

LEMMA ScanCompleteFacts ==
  ASSUME NEW s \in Driver, s.slot = NULL
  PROVE  /\ Ended(ScanComplete(s))
         /\ SameClaim(s, ScanComplete(s)) /\ SameGuard(s, ScanComplete(s))
<1> DEFINE r == ResetTouchFrames(DropMachine(s))
<1>1. /\ r \in Driver /\ r.scan_ssm = NULL /\ r.slot = NULL
      /\ SameClaim(s, r) /\ SameGuard(s, r)
  BY DropFacts, ResetFacts, WaiterFacts DEF SameClaim, SameGuard
<1>2. ScanComplete(s) = [r EXCEPT !.gen_ok = FALSE, !.air_retries = 0,
                                  !.down_empty_polls = 0, !.down_timeout = NULL]
  BY DEF ScanComplete
<1> HIDE DEF r
<1>3. ScanComplete(s) \in Driver
  BY <1>1, <1>2, Bounds, WaiterFacts DEF Driver
<1> QED BY <1>1, <1>2, <1>3 DEF Driver, Ended, SameClaim, SameGuard

LEMMA ScanFailedFacts ==
  ASSUME NEW s \in Driver, s.slot = NULL
  PROVE  Ended(ScanFailed(s)) /\ SameClaim(s, ScanFailed(s))
<1>1. Ended(ScanComplete(s)) /\ SameClaim(s, ScanComplete(s))
  BY ScanCompleteFacts
<1> QED BY <1>1 DEF ScanFailed, Ended, SameClaim, Driver

LEMMA ScanStartFacts ==
  ASSUME NEW s \in Driver, NEW ssm \in Ssm
  PROVE  LET t == ScanStart(s, ssm)
         IN  /\ t \in Driver /\ t.scan_ssm = ssm /\ t.state = "AE"
             /\ t.slot = WaiterOf(t) /\ t.down_timeout = s.down_timeout
             /\ NoTouchFrames(t) /\ SameClaim(s, t)
             /\ t.guard_age = s.guard_age
             /\ t.retry_guard <=> s.retry_guard /\ s.guard_age = "fresh"
<1> DEFINE r == ResetTouchFrames(s)
           e == [r EXCEPT !.retry_guard = @ /\ s.guard_age = "fresh",
                          !.down_empty_polls = 0, !.gen_ok = FALSE, !.scan_ssm = ssm]
<1>1. /\ r \in Driver /\ r.down_timeout = s.down_timeout /\ NoTouchFrames(r)
      /\ SameClaim(s, r) /\ SameGuard(s, r)
  BY ResetFacts
<1>2. ScanStart(s, ssm) = Enter(e, "AE")
  BY DEF ScanStart
<1> HIDE DEF r
<1>3. e \in Driver
  <2>1. (r.retry_guard /\ s.guard_age = "fresh") \in BOOLEAN
    OBVIOUS
  <2>2. ASSUME NEW b \in BOOLEAN
        PROVE  [r EXCEPT !.retry_guard = b, !.down_empty_polls = 0,
                         !.gen_ok = FALSE, !.scan_ssm = ssm] \in Driver
    BY <1>1, Bounds DEF Driver
  <2> QED BY <2>1, <2>2
<1>4. /\ e.scan_ssm = ssm /\ e.down_timeout = s.down_timeout
      /\ NoTouchFrames(e) /\ SameClaim(s, e) /\ e.guard_age = s.guard_age
      /\ e.retry_guard <=> s.retry_guard /\ s.guard_age = "fresh"
  BY <1>1 DEF Driver, NoTouchFrames, SameClaim, SameGuard
<1>5. e.scan_ssm # NULL /\ "AE" \in States
  BY <1>4, Names DEF States
<1> HIDE DEF e
<1> DEFINE t == Enter(e, "AE")
<1>6. Awaits(e, t, "AE") /\ SameClaim(e, t) /\ SameGuard(e, t) /\ SameTouchFrames(e, t)
  BY <1>3, <1>5, EnterFacts
<1> QED BY <1>2, <1>4, <1>6
        DEF Awaits, SameClaim, SameGuard, SameTouchFrames, NoTouchFrames

LEMMA DeactivateFacts ==
  ASSUME NEW s \in Driver, NEW parks \in BOOLEAN
  PROVE  /\ Ended(Deactivate(s, parks)) /\ SameClaim(s, Deactivate(s, parks))
         /\ \/ s.scan_ssm = NULL /\ SameGuard(s, Deactivate(s, parks))
            \/ Deactivate(s, parks).guard_age = "unset"
<1> DEFINE r == ResetTouchFrames(DropMachine(s))
           q == [r EXCEPT !.session_started = FALSE, !.gen_ok = FALSE,
                          !.down_empty_polls = 0, !.down_timeout = NULL, !.slot = NULL]
<1>1. r \in Driver /\ r.scan_ssm = NULL /\ SameClaim(s, r) /\ SameGuard(s, r)
  BY DropFacts, ResetFacts DEF SameClaim, SameGuard
<1>2. Deactivate(s, parks) = IF parks /\ s.scan_ssm = NULL
                             THEN [q EXCEPT !.tls_parked = TRUE]
                             ELSE [q EXCEPT !.tls_parked = FALSE, !.retry_guard = FALSE,
                                            !.guard_age = "unset"]
  BY DEF Deactivate
<1> HIDE DEF r
<1>3. q \in Driver
  <2>1. NULL \in Waiter /\ 0 \in 0..DOWN_EMPTY_POLL_MAX
    BY WaiterFacts, Bounds
  <2>2. ASSUME NEW u \in Waiter, NEW n \in 0..DOWN_EMPTY_POLL_MAX
        PROVE  [r EXCEPT !.session_started = FALSE, !.gen_ok = FALSE,
                         !.down_empty_polls = n, !.down_timeout = u, !.slot = u] \in Driver
    <3>1. r \in Driver
      BY <1>1
    <3> QED BY <3>1 DEF Driver
  <2> QED BY <2>1, <2>2
<1>4. Ended(q) /\ SameClaim(s, q) /\ SameGuard(s, q)
  BY <1>1, <1>3 DEF Driver, Ended, SameClaim, SameGuard
<1> HIDE DEF q
<1>5. /\ Ended([q EXCEPT !.tls_parked = TRUE])
      /\ SameClaim(s, [q EXCEPT !.tls_parked = TRUE])
      /\ SameGuard(s, [q EXCEPT !.tls_parked = TRUE])
  BY <1>4 DEF Driver, Ended, SameClaim, SameGuard
<1> DEFINE p == [q EXCEPT !.tls_parked = FALSE, !.retry_guard = FALSE,
                          !.guard_age = "unset"]
<1>6. Ended(p) /\ SameClaim(s, p) /\ p.guard_age = "unset"
  BY <1>4 DEF Driver, Ended, SameClaim
<1> HIDE DEF p
<1>7. CASE parks /\ s.scan_ssm = NULL
  BY <1>2, <1>5, <1>7
<1>8. CASE ~(parks /\ s.scan_ssm = NULL)
  <2>1. Deactivate(s, parks) = p
    BY <1>2, <1>8 DEF p
  <2> QED BY <1>6, <2>1
<1> QED BY <1>7, <1>8

LEMMA ToldFacts ==
  ASSUME ScanInv, NEW S, Await(S)
  PROVE  /\ d.scan_ssm # NULL /\ d.state \in S /\ d.down_timeout = NULL
         /\ Running /\ ~bringUp /\ ~suspended
         /\ Told \in Driver /\ Told.scan_ssm = d.scan_ssm /\ Told.slot = NULL
         /\ Told.down_timeout = NULL /\ Told.state = d.state
         /\ SameClaim(d, Told) /\ SameGuard(d, Told) /\ SameTouchFrames(d, Told)
<1>1. d \in Driver /\ d.slot # NULL /\ d.state \in S
  BY DEF ScanInv, TypeOK, Await, Mine
<1>2. d.scan_ssm # NULL /\ d.down_timeout = NULL
  BY <1>1 DEF ScanInv, WaitersOK
<1>3. Running /\ ~bringUp /\ ~suspended
  BY <1>2 DEF ScanInv, ClaimOK
<1>4. NULL \in Waiter
  BY WaiterFacts
<1>5. Told \in Driver
  BY <1>1, <1>4 DEF Told, Driver
<1>6. /\ Told.scan_ssm = d.scan_ssm /\ Told.slot = NULL
      /\ Told.down_timeout = d.down_timeout /\ Told.state = d.state
      /\ SameClaim(d, Told) /\ SameGuard(d, Told) /\ SameTouchFrames(d, Told)
  BY <1>1 DEF Told, Driver, SameClaim, SameGuard, SameTouchFrames
<1> QED BY <1>1, <1>2, <1>3, <1>5, <1>6

(* The scan goes on: its claim and its one waiter stay with it.            *)
LEMMA GoesOn ==
  ASSUME ScanInv, d.scan_ssm # NULL, NEW s \in Driver, NEW q,
         s.scan_ssm = d.scan_ssm, s.down_timeout = NULL,
         s.mode = d.mode, s.enrol_ctx = d.enrol_ctx,
         action = "enroll" => s.enroll_stage < ENROLL_STAGES,
         Awaits(s, d', q), SameClaim(s, d'),
         UNCHANGED <<action, result, bringUp, suspended>>
  PROVE  /\ ClaimOK' /\ WaitersOK'
         /\ d' \in Driver /\ d'.scan_ssm # NULL /\ d'.state = q
<1>1. /\ d' \in Driver /\ d'.scan_ssm = d.scan_ssm /\ d'.state = q
      /\ d'.slot = WaiterOf(d') /\ d'.down_timeout = NULL
  BY DEF Awaits
<1>2. WaitersOK'
  BY <1>1 DEF WaitersOK, WaiterOf
<1>3. ClaimOK'
  BY <1>1 DEF ScanInv, ClaimOK, Running, SameClaim
<1> QED BY <1>1, <1>2, <1>3

(* The scan ends with its claim.                                           *)
LEMMA ScanEnds ==
  ASSUME ScanInv, Ended(d'), action # "none", action' = action,
         result' # "none", ~bringUp', ~suspended'
  PROVE  ClaimOK' /\ WaitersOK' /\ BurstIsOfThisTouch' /\ BestOfBurst'
BY DEF Ended, ClaimOK, Running, WaitersOK, BurstIsOfThisTouch, BestOfBurst

(* Outside of a burst nothing is captured and nothing is judged.           *)
LEMMA NoBurst ==
  ASSUME NoTouchFrames(d'), d'.state # "IMAGE"
  PROVE  BurstIsOfThisTouch' /\ BestOfBurst'
BY DEF NoTouchFrames, BurstIsOfThisTouch, BestOfBurst

LEMMA SameDelivery ==
  ASSUME DeliversBest, UNCHANGED <<burst, given>>, action' = action \/ given = NULL
  PROVE  DeliversBest'
BY DEF DeliversBest

LEMMA ForgottenDelivery ==
  ASSUME ForgetBurst
  PROVE  DeliversBest'
BY DEF DeliversBest, ForgetBurst

LEMMA SensingTypes ==
  ASSUME TypeOK, Sensing
  PROVE  /\ action' \in Single \cup {"none", "enroll"}
         /\ {bringUp, suspended, finger, lift}' \subseteq BOOLEAN
BY DEF TypeOK, Sensing

(* What a client sees of a step: one that TouchContract allows, or nothing.*)
TouchStep ==
  [Touch!Next]_<<action, d.scan_ssm # NULL, d.enroll_stage, result, finger, owed>>

LEMMA Unnoticed ==
  ASSUME d'.scan_ssm = d.scan_ssm, d'.enroll_stage = d.enroll_stage,
         UNCHANGED <<action, result, finger, owed>>
  PROVE  TouchStep
BY DEF TouchStep

LEMMA Aborts ==
  ASSUME Running, d'.scan_ssm = NULL, d'.enroll_stage = d.enroll_stage,
         UNCHANGED <<action, finger>>,
         result' \in {"none", "failed"}, owed' \in {owed, FALSE}
  PROVE  TouchStep
BY DEF TouchStep, Touch!Next, Touch!Abort, Running

(* A scan that fails leaves nothing, and no finger is owed.                *)
LEMMA FailIsSafe ==
  ASSUME ScanInv, NEW S, Await(S), Fails, Sensing, UNCHANGED <<burst, given>>
  PROVE  ScanInv' /\ TouchStep
<1>1. /\ Told \in Driver /\ Told.slot = NULL /\ Running /\ ~bringUp /\ ~suspended
      /\ SameClaim(d, Told)
  BY ToldFacts
<1>2. Ended(d') /\ SameClaim(Told, d') /\ owed' = FALSE /\ result' = "failed"
  BY <1>1, ScanFailedFacts DEF Fails
<1>3. TypeOK'
  <2>1. owed' \in BOOLEAN
    BY <1>2
  <2>2. d' \in Driver
    BY <1>2 DEF Ended
  <2> QED BY <1>2, <2>1, <2>2, SensingTypes DEF ScanInv, TypeOK
<1>4. ClaimOK' /\ WaitersOK' /\ BurstIsOfThisTouch' /\ BestOfBurst'
  BY <1>1, <1>2, ScanEnds DEF Sensing, Running
<1>5. DeliversBest'
  BY SameDelivery DEF Sensing, ScanInv
<1>6. TouchOK'
  BY <1>2 DEF TouchOK, Ended
<1>7. TouchStep
  BY <1>1, <1>2, Aborts DEF Ended, SameClaim, Sensing
<1> QED BY <1>3, <1>4, <1>5, <1>6, <1>7 DEF ScanInv

------------------------------------------------------------------------------
(* The waiters.                                                            *)

LEMMA StepIsSafe ==
  ASSUME ScanInv, StepDone
  PROVE  ScanInv' /\ TouchStep
<1> DEFINE S == {"AE", "UP_1", "UP_AE"}
<1>1. /\ d.scan_ssm # NULL /\ d.state \in S /\ d.state # "IMAGE"
      /\ Running /\ ~bringUp /\ ~suspended
      /\ Told \in Driver /\ Told.scan_ssm = d.scan_ssm /\ Told.down_timeout = NULL
      /\ SameClaim(d, Told) /\ SameGuard(d, Told) /\ SameTouchFrames(d, Told)
  BY ToldFacts DEF StepDone
<1>2. PICK q \in {"D6", "UP_1", "DOWN", "UP_AE", "UP_2"} :
        /\ d' = Enter(Told, q)
        /\ d.state = "AE" <=> q \in {"D6", "UP_1", "DOWN"}
        /\ q = "UP_1" => d.retry_guard
        /\ q = "DOWN" => ~d.retry_guard
  <2>1. CASE d.state = "AE"
    <3>1. d' = EnterD6(Told)
      BY <2>1 DEF StepDone
    <3>2. \/ d' = Enter(Told, "D6")
          \/ d' = Enter(Told, IF Told.retry_guard THEN "UP_1" ELSE "DOWN")
      BY <3>1 DEF EnterD6, AwaitTouch
    <3>3. CASE d.retry_guard
      BY <1>1, <2>1, <3>2, <3>3 DEF SameGuard
    <3>4. CASE ~d.retry_guard
      BY <1>1, <2>1, <3>2, <3>4 DEF SameGuard
    <3> QED BY <3>3, <3>4
  <2>2. CASE d.state = "UP_1"
    BY <2>2 DEF StepDone
  <2>3. CASE d.state = "UP_AE"
    BY <2>3 DEF StepDone
  <2> QED BY <1>1, <2>1, <2>2, <2>3
<1>3. /\ Awaits(Told, d', q) /\ SameClaim(Told, d') /\ SameGuard(Told, d')
      /\ SameTouchFrames(Told, d')
  BY <1>1, <1>2, EnterFacts DEF States
<1>4. UNCHANGED <<action, bringUp, suspended, finger, result, owed>> /\ ForgetBurst
  BY DEF StepDone, Sensing
<1>5. /\ ClaimOK' /\ WaitersOK'
      /\ d' \in Driver /\ d'.scan_ssm # NULL /\ d'.state = q
  BY <1>1, <1>3, <1>4, GoesOn DEF SameClaim, ScanInv, ClaimOK
<1>6. TypeOK'
  BY <1>4, <1>5, SensingTypes DEF StepDone, ScanInv, TypeOK, ForgetBurst
<1>7. NoTouchFrames(d')
  BY <1>1, <1>3 DEF SameTouchFrames, NoTouchFrames, ScanInv, BurstIsOfThisTouch
<1>8. TouchOK'
  <2>1. lift' = IF q = "UP_1" /\ d.state # "UP_1" THEN ~finger ELSE lift
    BY <1>5 DEF StepDone, Sensing
  <2>2. d'.retry_guard = d.retry_guard
    BY <1>1, <1>3 DEF SameGuard
  <2>3. q \in {"DOWN", "IMAGE"} => ~owed'
    BY <1>1, <1>2, <1>4 DEF ScanInv, TouchOK
  <2>4. q \in {"AE", "D6"} => (owed' => d'.retry_guard)
    BY <1>1, <1>2, <1>4, <2>2 DEF ScanInv, TouchOK
  <2>5. q \in Release => ~(lift' /\ owed') /\ (action' \in Single => d'.retry_guard)
    <3>1. CASE q = "UP_1"
      <4>1. d.state # "UP_1" /\ d.retry_guard
        BY <1>2, <3>1
      <4> QED BY <1>4, <2>1, <2>2, <3>1, <4>1 DEF ScanInv, TouchOK
    <3>2. CASE q \in {"UP_AE", "UP_2"}
      <4>1. d.state \in {"UP_1", "UP_AE"} /\ lift' = lift
        BY <1>1, <1>2, <2>1, <3>2
      <4> QED BY <1>1, <1>4, <2>2, <4>1 DEF ScanInv, TouchOK, Release
    <3> QED BY <3>1, <3>2 DEF Release
  <2> QED BY <1>4, <1>5, <2>3, <2>4, <2>5 DEF ScanInv, TouchOK
<1>9. TouchStep
  BY <1>1, <1>3, <1>4, Unnoticed DEF Awaits, SameClaim
<1> QED BY <1>4, <1>5, <1>6, <1>7, <1>8, <1>9, <1>2, NoBurst, ForgottenDelivery DEF ScanInv

LEMMA D6IsSafe ==
  ASSUME ScanInv, D6Replied
  PROVE  ScanInv' /\ TouchStep
<1> DEFINE s == [Told EXCEPT !.session_started = TRUE]
<1>1. /\ d.scan_ssm # NULL /\ d.state = "D6"
      /\ Told \in Driver /\ Told.scan_ssm = d.scan_ssm /\ Told.down_timeout = NULL
      /\ SameClaim(d, Told) /\ SameGuard(d, Told) /\ SameTouchFrames(d, Told)
  BY ToldFacts DEF D6Replied
<1>2. /\ s \in Driver /\ s.scan_ssm = d.scan_ssm /\ s.down_timeout = NULL
      /\ SameClaim(d, s) /\ SameGuard(d, s) /\ SameTouchFrames(d, s)
  BY <1>1 DEF Driver, SameClaim, SameGuard, SameTouchFrames
<1>3. d' = Enter(s, IF s.retry_guard THEN "UP_1" ELSE "DOWN")
  BY DEF D6Replied, AwaitTouch
<1> HIDE DEF s
<1>4. PICK q \in {"UP_1", "DOWN"} : d' = Enter(s, q) /\ (q = "UP_1" <=> d.retry_guard)
  <2>1. CASE d.retry_guard
    BY <1>2, <1>3, <2>1 DEF SameGuard
  <2>2. CASE ~d.retry_guard
    BY <1>2, <1>3, <2>2 DEF SameGuard
  <2> QED BY <2>1, <2>2
<1>5. /\ Awaits(s, d', q) /\ SameClaim(s, d') /\ SameGuard(s, d') /\ SameTouchFrames(s, d')
  BY <1>1, <1>2, <1>4, EnterFacts DEF States
<1>6. UNCHANGED <<action, bringUp, suspended, finger, result, owed, burst, given>>
  BY DEF D6Replied, Sensing, Plain
<1>7. /\ ClaimOK' /\ WaitersOK'
      /\ d' \in Driver /\ d'.scan_ssm # NULL /\ d'.state = q
  <2>1. action = "enroll" => s.enroll_stage < ENROLL_STAGES
    BY <1>1, <1>2 DEF ScanInv, ClaimOK, SameClaim
  <2> QED BY <1>1, <1>2, <1>5, <1>6, <2>1, GoesOn DEF SameClaim
<1>8. TypeOK'
  BY <1>6, <1>7, SensingTypes DEF D6Replied, ScanInv, TypeOK
<1>9. NoTouchFrames(d')
  BY <1>1, <1>2, <1>5 DEF SameTouchFrames, NoTouchFrames, ScanInv, BurstIsOfThisTouch
<1>10. TouchOK'
  <2>1. lift' = IF q = "UP_1" THEN ~finger ELSE lift
    BY <1>1, <1>7 DEF D6Replied, Sensing
  <2>2. d'.retry_guard = d.retry_guard
    BY <1>2, <1>5 DEF SameGuard
  <2>3. q = "DOWN" => ~owed'
    BY <1>1, <1>4, <1>6 DEF ScanInv, TouchOK
  <2>4. q = "UP_1" => ~(lift' /\ owed') /\ d'.retry_guard
    BY <1>4, <1>6, <2>1, <2>2 DEF ScanInv, TouchOK
  <2> QED BY <1>6, <1>7, <2>3, <2>4 DEF ScanInv, TouchOK, Release
<1>11. TouchStep
  BY <1>2, <1>5, <1>6, Unnoticed DEF Awaits, SameClaim
<1> QED BY <1>6, <1>7, <1>8, <1>9, <1>10, <1>11, NoBurst, SameDelivery DEF ScanInv

(* A touch that is confirmed starts a burst of its own.                    *)
LEMMA TouchIsSafe ==
  ASSUME ScanInv, DownTouched
  PROVE  ScanInv' /\ TouchStep
<1> DEFINE s == [Told EXCEPT !.down_empty_polls = 0, !.down_timeout = NULL]
<1>1. /\ d.scan_ssm # NULL /\ d.state = "DOWN"
      /\ Told \in Driver /\ Told.scan_ssm = d.scan_ssm
      /\ SameClaim(d, Told) /\ SameGuard(d, Told) /\ SameTouchFrames(d, Told)
  BY ToldFacts DEF DownTouched
<1>2. /\ s \in Driver /\ s.scan_ssm = d.scan_ssm /\ s.down_timeout = NULL
      /\ SameClaim(d, s) /\ SameTouchFrames(d, s)
  <2>1. NULL \in Waiter /\ 0 \in 0..DOWN_EMPTY_POLL_MAX
    BY WaiterFacts, Bounds
  <2> QED BY <1>1, <2>1 DEF Driver, SameClaim, SameTouchFrames
<1>3. d' = Enter(s, "IMAGE")
  BY DEF DownTouched
<1> HIDE DEF s
<1>4. Awaits(s, d', "IMAGE") /\ SameClaim(s, d') /\ SameTouchFrames(s, d')
  BY <1>1, <1>2, <1>3, EnterFacts DEF States
<1>5. UNCHANGED <<action, bringUp, suspended, finger, result, owed>> /\ ForgetBurst
  BY DEF DownTouched, Sensing
<1>6. /\ ClaimOK' /\ WaitersOK'
      /\ d' \in Driver /\ d'.scan_ssm # NULL /\ d'.state = "IMAGE"
  <2>1. action = "enroll" => s.enroll_stage < ENROLL_STAGES
    BY <1>1, <1>2 DEF ScanInv, ClaimOK, SameClaim
  <2> QED BY <1>1, <1>2, <1>4, <1>5, <2>1, GoesOn DEF SameClaim
<1>7. TypeOK'
  BY <1>5, <1>6, SensingTypes DEF DownTouched, ScanInv, TypeOK, ForgetBurst
<1>8. NoTouchFrames(d')
  BY <1>1, <1>2, <1>4 DEF SameTouchFrames, NoTouchFrames, ScanInv, BurstIsOfThisTouch
<1>9. BurstIsOfThisTouch' /\ BestOfBurst'
  BY <1>5, <1>6, <1>8, Bounds DEF ForgetBurst, NoTouchFrames, BurstIsOfThisTouch, BestOfBurst
<1>10. TouchOK'
  BY <1>1, <1>5, <1>6 DEF ScanInv, TouchOK, Release
<1>11. TouchStep
  BY <1>2, <1>4, <1>5, Unnoticed DEF Awaits, SameClaim
<1> QED BY <1>5, <1>6, <1>7, <1>9, <1>10, <1>11, ForgottenDelivery DEF ScanInv

(* The poll timer takes the place of the command.                          *)
LEMMA PollIsSafe ==
  ASSUME ScanInv, Await({"DOWN"}), NEW n \in 0..DOWN_EMPTY_POLL_MAX,
         d' = Poll([Told EXCEPT !.down_empty_polls = n]),
         UNCHANGED <<result, owed, burst, given>>, Sensing
  PROVE  ScanInv' /\ TouchStep
<1> DEFINE s == [Told EXCEPT !.down_empty_polls = n]
<1>1. /\ d.scan_ssm # NULL /\ d.state = "DOWN"
      /\ Told \in Driver /\ Told.scan_ssm = d.scan_ssm /\ Told.slot = NULL
      /\ Told.state = "DOWN"
      /\ SameClaim(d, Told) /\ SameGuard(d, Told) /\ SameTouchFrames(d, Told)
  BY ToldFacts
<1>2. /\ s \in Driver /\ s.scan_ssm = d.scan_ssm /\ s.slot = NULL /\ s.state = "DOWN"
      /\ SameClaim(d, s) /\ SameTouchFrames(d, s)
  BY <1>1 DEF Driver, SameClaim, SameTouchFrames
<1> HIDE DEF s
<1>3. d' = [s EXCEPT !.down_timeout = WaiterOf(s), !.gen_ok = TRUE]
  BY DEF Poll, s
<1>4. WaiterOf(s) \in Waiter
  BY <1>1, <1>2, WaiterFacts
<1>5. /\ d' \in Driver /\ d'.scan_ssm = d.scan_ssm /\ d'.slot = NULL /\ d'.state = "DOWN"
      /\ d'.down_timeout = WaiterOf(s) /\ d'.gen_ok
      /\ SameClaim(d, d') /\ SameTouchFrames(d, d')
  BY <1>2, <1>3, <1>4 DEF Driver, SameClaim, SameTouchFrames
<1>6. UNCHANGED <<action, bringUp, suspended, finger>> /\ lift' = lift
  BY <1>5 DEF Sensing
<1>7. ClaimOK' /\ WaitersOK'
  <2>1. WaiterOf(s) = WaiterOf(d')
    BY <1>2, <1>5 DEF WaiterOf
  <2>2. WaitersOK'
    BY <1>1, <1>5, <2>1 DEF WaitersOK, WaiterOf
  <2>3. ClaimOK'
    BY <1>1, <1>5, <1>6 DEF ScanInv, ClaimOK, Running, SameClaim
  <2> QED BY <2>2, <2>3
<1>8. TypeOK'
  BY <1>5, <1>6 DEF ScanInv, TypeOK
<1>9. NoTouchFrames(d')
  BY <1>1, <1>5 DEF SameTouchFrames, NoTouchFrames, ScanInv, BurstIsOfThisTouch
<1>10. TouchOK'
  BY <1>1, <1>5, <1>6 DEF ScanInv, TouchOK, Release
<1>11. TouchStep
  BY <1>5, <1>6, Unnoticed DEF SameClaim
<1> QED BY <1>5, <1>6, <1>7, <1>8, <1>9, <1>10, <1>11, NoBurst, SameDelivery DEF ScanInv

LEMMA DownIsSafe ==
  ASSUME ScanInv, Down
  PROVE  ScanInv' /\ TouchStep
<1>1. CASE DownUntouched
  BY <1>1, Bounds, PollIsSafe DEF DownUntouched, Plain
<1>2. CASE DownEmpty
  <2>1. CASE d.down_empty_polls + 1 < DOWN_EMPTY_POLL_MAX
    <3>1. d \in Driver
      BY DEF ScanInv, TypeOK
    <3>2. Told.down_empty_polls = d.down_empty_polls
      BY <3>1 DEF Told, Driver
    <3>3. d.down_empty_polls + 1 \in 0..DOWN_EMPTY_POLL_MAX
      BY <2>1, <3>1, Bounds DEF Driver
    <3>4. d' = Poll([Told EXCEPT !.down_empty_polls = d.down_empty_polls + 1])
      BY <1>2, <2>1, <3>2 DEF DownEmpty
    <3> QED BY <1>2, <2>1, <3>3, <3>4, PollIsSafe DEF DownEmpty
  <2>2. CASE ~(d.down_empty_polls + 1 < DOWN_EMPTY_POLL_MAX)
    BY <1>2, <2>2, FailIsSafe DEF DownEmpty
  <2> QED BY <2>1, <2>2
<1>3. CASE DownFails
  BY <1>3, FailIsSafe DEF DownFails
<1> QED BY <1>1, <1>2, <1>3, TouchIsSafe DEF Down

(* A timer that fires is that of this scan, whose command is sent again.   *)
LEMMA TimerIsSafe ==
  ASSUME ScanInv, PollTimeout
  PROVE  ScanInv' /\ TouchStep
<1> DEFINE s == [d EXCEPT !.down_timeout = NULL]
<1>1. /\ d \in Driver /\ d.scan_ssm # NULL
      /\ d.slot = NULL /\ d.down_timeout = WaiterOf(d) /\ d.gen_ok
  BY DEF ScanInv, TypeOK, WaitersOK, PollTimeout
<1>2. /\ s \in Driver /\ s.scan_ssm = d.scan_ssm /\ s.down_timeout = NULL
      /\ s.state = d.state
      /\ SameClaim(d, s) /\ SameGuard(d, s) /\ SameTouchFrames(d, s)
  BY <1>1, WaiterFacts DEF Driver, SameClaim, SameGuard, SameTouchFrames
<1>3. d' = Arm(s)
  <2>1. Mine(d.down_timeout)
    BY <1>1, WaiterFacts DEF PollTimeout, Mine
  <2> QED BY <1>1, <2>1 DEF PollTimeout
<1> HIDE DEF s
<1>4. /\ Awaits(s, d', d.state) /\ SameClaim(s, d') /\ SameGuard(s, d')
      /\ SameTouchFrames(s, d')
  BY <1>1, <1>2, <1>3, ArmFacts
<1>5. UNCHANGED <<action, bringUp, suspended, finger, result, owed, burst, given>>
  BY DEF PollTimeout, Sensing, Plain
<1>6. /\ ClaimOK' /\ WaitersOK'
      /\ d' \in Driver /\ d'.scan_ssm # NULL /\ d'.state = d.state
  <2>1. action = "enroll" => s.enroll_stage < ENROLL_STAGES
    BY <1>1, <1>2 DEF ScanInv, ClaimOK, SameClaim
  <2> QED BY <1>1, <1>2, <1>4, <1>5, <2>1, GoesOn DEF SameClaim
<1>7. TypeOK' /\ lift' = lift
  BY <1>5, <1>6 DEF PollTimeout, Sensing, ScanInv, TypeOK
<1>8. SameGuard(d, d') /\ SameTouchFrames(d, d')
  BY <1>2, <1>4 DEF SameGuard, SameTouchFrames
<1>9. BurstIsOfThisTouch' /\ BestOfBurst'
  BY <1>1, <1>5, <1>6, <1>8 DEF SameTouchFrames, ScanInv, BurstIsOfThisTouch, BestOfBurst
<1>10. TouchOK'
  BY <1>1, <1>5, <1>6, <1>7, <1>8 DEF ScanInv, TouchOK, SameGuard
<1>11. TouchStep
  BY <1>2, <1>4, <1>5, Unnoticed DEF Awaits, SameClaim
<1> QED BY <1>5, <1>6, <1>7, <1>9, <1>10, <1>11, SameDelivery DEF ScanInv

------------------------------------------------------------------------------
(* The burst.                                                              *)

LEMMA FrameNumbers ==
  ASSUME NEW f \in Frame
  PROVE  Proxy(f) \in Nat /\ f.range \in Nat /\ f.active \in Nat
<1>1. f.quality \in Nat /\ f.overlap \in Nat /\ f.range \in Nat /\ f.active \in Nat
  BY DEF Frame
<1> QED BY <1>1 DEF Proxy

(* One frame beats another by the first criterion they differ in.          *)
LEMMA BeatsFacts ==
  ASSUME NEW f, NEW g
  PROVE  Beats(f, g) <=>
           \/ Proxy(f) > Proxy(g)
           \/ /\ Proxy(f) = Proxy(g)
              /\ f.range > g.range \/ (f.range = g.range /\ f.active > g.active)
<1> DEFINE m == [h \in {f, g} |-> <<Proxy(h), h.range, h.active>>]
<1>1. m[f] = <<Proxy(f), f.range, f.active>> /\ m[g] = <<Proxy(g), g.range, g.active>>
  OBVIOUS
<1>2. Beats(f, g) <=> \E i \in 1..3 : /\ m[f][i] > m[g][i]
                                      /\ \A j \in 1..(i - 1) : m[f][j] = m[g][j]
  BY DEF Beats
<1> HIDE DEF m
<1>3. /\ m[f][1] = Proxy(f) /\ m[f][2] = f.range /\ m[f][3] = f.active
      /\ m[g][1] = Proxy(g) /\ m[g][2] = g.range /\ m[g][3] = g.active
  BY <1>1
<1>4. \A i \in 1..3 : i = 1 \/ i = 2 \/ i = 3
  OBVIOUS
<1>5. /\ \A j \in 1..(1 - 1) : m[f][j] = m[g][j]
      /\ (\A j \in 1..(2 - 1) : m[f][j] = m[g][j]) <=> m[f][1] = m[g][1]
      /\ (\A j \in 1..(3 - 1) : m[f][j] = m[g][j]) <=> m[f][1] = m[g][1] /\ m[f][2] = m[g][2]
  OBVIOUS
<1>6. Beats(f, g) <=> \/ m[f][1] > m[g][1]
                      \/ m[f][2] > m[g][2] /\ m[f][1] = m[g][1]
                      \/ m[f][3] > m[g][3] /\ m[f][1] = m[g][1] /\ m[f][2] = m[g][2]
  <2>1. ASSUME Beats(f, g)
        PROVE  \/ m[f][1] > m[g][1]
               \/ m[f][2] > m[g][2] /\ m[f][1] = m[g][1]
               \/ m[f][3] > m[g][3] /\ m[f][1] = m[g][1] /\ m[f][2] = m[g][2]
    <3>1. PICK i \in 1..3 : /\ m[f][i] > m[g][i]
                            /\ \A j \in 1..(i - 1) : m[f][j] = m[g][j]
      BY <1>2, <2>1
    <3>2. CASE i = 1
      BY <3>1, <3>2
    <3>3. CASE i = 2
      BY <3>1, <3>3, <1>5
    <3>4. CASE i = 3
      BY <3>1, <3>4, <1>5
    <3> QED BY <1>4, <3>2, <3>3, <3>4
  <2>2. m[f][1] > m[g][1] => Beats(f, g)
    BY <1>2, <1>5
  <2>3. m[f][2] > m[g][2] /\ m[f][1] = m[g][1] => Beats(f, g)
    BY <1>2, <1>5
  <2>4. m[f][3] > m[g][3] /\ m[f][1] = m[g][1] /\ m[f][2] = m[g][2] => Beats(f, g)
    BY <1>2, <1>5
  <2> QED BY <2>1, <2>2, <2>3, <2>4
<1> QED BY <1>3, <1>6

(* A frame beats neither itself nor what has beaten it, and what it does   *)
(* not beat, it does not beat after that has been replaced by a better.    *)
LEMMA BeatsOrder ==
  ASSUME NEW f \in Frame, NEW g \in Frame, NEW h \in Frame
  PROVE  /\ ~Beats(f, f)
         /\ Beats(f, g) /\ ~Beats(h, g) => ~Beats(h, f)
<1>1. /\ Proxy(f) \in Nat /\ Proxy(g) \in Nat /\ Proxy(h) \in Nat
      /\ f.range \in Nat /\ g.range \in Nat /\ h.range \in Nat
      /\ f.active \in Nat /\ g.active \in Nat /\ h.active \in Nat
  BY FrameNumbers
<1> QED BY <1>1, BeatsFacts

(* keep_best_frame keeps the best.                                         *)
LEMMA BankKeepsBest ==
  ASSUME NEW s \in Driver, NEW f \in Frames \cup {Air}, NEW B \in SUBSET (Frames \cup {Air}),
         s.best = NULL <=> B = {},
         s.best # NULL => s.best \in B /\ \A g \in B : ~Beats(g, s.best)
  PROVE  /\ Bank(s, f).best \in B \cup {f} /\ Bank(s, f).best # NULL
         /\ \A g \in B \cup {f} : ~Beats(g, Bank(s, f).best)
<1>1. Bank(s, f).best = IF Better(f, s.best) THEN f ELSE s.best
  BY DEF Bank, Driver
<1>2. B \cup {f} \subseteq Frame /\ f # NULL
  BY Names
<1>3. Better(f, s.best) <=> s.best = NULL \/ Beats(f, s.best)
  BY BeatsFacts DEF Better
<1>4. CASE s.best = NULL
  <2>1. B = {} /\ Bank(s, f).best = f
    BY <1>1, <1>3, <1>4
  <2>2. ~Beats(f, f)
    BY <1>2, BeatsOrder
  <2> QED BY <1>2, <2>1, <2>2
<1>5. CASE s.best # NULL /\ Beats(f, s.best)
  <2>1. Bank(s, f).best = f /\ s.best \in Frame /\ f \in Frame
    BY <1>1, <1>2, <1>3, <1>5
  <2>2. \A g \in B : ~Beats(g, f)
    BY <1>2, <1>5, <2>1, BeatsOrder
  <2>3. ~Beats(f, f)
    BY <2>1, BeatsOrder
  <2> QED BY <1>2, <2>1, <2>2, <2>3
<1>6. CASE s.best # NULL /\ ~Beats(f, s.best)
  BY <1>1, <1>3, <1>6
<1> QED BY <1>4, <1>5, <1>6

LEMMA BankFacts ==
  ASSUME NEW s \in Driver, NEW f \in Frames \cup {Air}, s.frame_count < FRAMES_PER_TOUCH
  PROVE  LET t == Bank(s, f)
         IN  /\ t \in Driver /\ t.frame_count = s.frame_count + 1
             /\ t.scan_ssm = s.scan_ssm /\ t.slot = s.slot /\ t.state = s.state
             /\ t.down_timeout = s.down_timeout
             /\ SameClaim(s, t) /\ SameGuard(s, t)
<1> DEFINE b == IF Better(f, s.best) THEN f ELSE s.best
           n == s.frame_count + 1
<1>1. b \in Frames \cup {Air, NULL}
  BY DEF Driver
<1>2. n \in 0..FRAMES_PER_TOUCH
  BY Bounds DEF Driver
<1>3. Bank(s, f) = [s EXCEPT !.frame_count = n, !.best = b]
  BY DEF Bank, Driver
<1> HIDE DEF b, n
<1>4. Bank(s, f) \in Driver
  BY <1>1, <1>2, <1>3 DEF Driver
<1>5. Bank(s, f).frame_count = n
  BY <1>3 DEF Driver
<1> QED BY <1>3, <1>4, <1>5 DEF Driver, SameClaim, SameGuard, n

LEMMA AwaitReleaseFacts ==
  ASSUME NEW s \in Driver, s.scan_ssm # NULL
  PROVE  LET t == AwaitRelease(s)
         IN  /\ Awaits(s, t, "UP_1") /\ SameClaim(s, t) /\ NoTouchFrames(t)
             /\ t.retry_guard = s.retry_guard
<1> DEFINE r == ResetTouchFrames(s)
           e == [r EXCEPT !.guard_age = "fresh"]
<1>1. /\ r \in Driver /\ r.scan_ssm = s.scan_ssm /\ r.down_timeout = s.down_timeout
      /\ NoTouchFrames(r) /\ SameClaim(s, r) /\ SameGuard(s, r)
  BY ResetFacts
<1>2. AwaitRelease(s) = Enter(e, "UP_1")
  BY DEF AwaitRelease
<1> HIDE DEF r
<1>3. /\ e \in Driver /\ e.scan_ssm = s.scan_ssm /\ e.down_timeout = s.down_timeout
      /\ NoTouchFrames(e) /\ SameClaim(s, e) /\ e.retry_guard = s.retry_guard
  BY <1>1 DEF Driver, NoTouchFrames, SameClaim, SameGuard
<1> HIDE DEF e
<1> DEFINE t == Enter(e, "UP_1")
<1>4. Awaits(e, t, "UP_1") /\ SameClaim(e, t) /\ SameGuard(e, t) /\ SameTouchFrames(e, t)
  BY <1>3, EnterFacts DEF States
<1> QED BY <1>2, <1>3, <1>4
        DEF Awaits, SameClaim, SameGuard, SameTouchFrames, NoTouchFrames

LEMMA DiscardFacts ==
  ASSUME NEW s \in Driver, s.scan_ssm # NULL, AirRetry(s)
  PROVE  LET t == Discard(s)
         IN  Awaits(s, t, "DOWN") /\ SameClaim(s, t) /\ SameGuard(s, t) /\ NoTouchFrames(t)
<1> DEFINE r == ResetTouchFrames(s)
           n == r.air_retries + 1
           e == [r EXCEPT !.air_retries = n]
<1>1. /\ r \in Driver /\ r.scan_ssm = s.scan_ssm /\ r.down_timeout = s.down_timeout
      /\ NoTouchFrames(r) /\ SameClaim(s, r) /\ SameGuard(s, r)
  BY ResetFacts
<1>2. r.air_retries = s.air_retries
  BY DEF ResetTouchFrames, Driver
<1>3. Discard(s) = Enter(e, "DOWN")
  BY <1>1 DEF Discard, Driver
<1> HIDE DEF r
<1>4. n \in 0..AIR_RETRY_MAX
  <2>1. s.air_retries \in 0..AIR_RETRY_MAX /\ s.air_retries < AIR_RETRY_MAX
    BY DEF Driver, AirRetry
  <2> QED BY <1>2, <2>1, Bounds
<1> HIDE DEF n
<1>5. /\ e \in Driver /\ e.scan_ssm = s.scan_ssm /\ e.down_timeout = s.down_timeout
      /\ NoTouchFrames(e) /\ SameClaim(s, e) /\ SameGuard(s, e)
  BY <1>1, <1>4 DEF Driver, NoTouchFrames, SameClaim, SameGuard
<1> HIDE DEF e
<1> DEFINE t == Enter(e, "DOWN")
<1>6. Awaits(e, t, "DOWN") /\ SameClaim(e, t) /\ SameGuard(e, t) /\ SameTouchFrames(e, t)
  BY <1>5, EnterFacts DEF States
<1> QED BY <1>3, <1>5, <1>6
        DEF Awaits, SameClaim, SameGuard, SameTouchFrames, NoTouchFrames

LEMMA LastFrameFacts ==
  ASSUME NEW s \in Driver, s.slot = NULL
  PROVE  /\ Ended(LastFrame(s)) /\ SameClaim(s, LastFrame(s))
         /\ LastFrame(s).retry_guard
<1> DEFINE e == [s EXCEPT !.retry_guard = TRUE, !.guard_age = "fresh"]
<1>1. e \in Driver /\ e.slot = NULL /\ SameClaim(s, e) /\ e.retry_guard
  BY DEF Driver, SameClaim
<1>2. LastFrame(s) = ScanComplete(e)
  BY DEF LastFrame
<1> HIDE DEF e
<1> QED BY <1>1, <1>2, ScanCompleteFacts DEF SameClaim, SameGuard

(* How a burst ends, once its best frame is chosen: another touch is       *)
(* awaited, a stage is counted, or the claim has its result.               *)
TouchAgain(q) ==
  /\ d' \in Driver /\ d'.scan_ssm = d.scan_ssm /\ d'.state = q
  /\ d'.slot = WaiterOf(d') /\ d'.down_timeout = NULL
  /\ d'.mode = d.mode /\ d'.enrol_ctx = d.enrol_ctx
  /\ d'.retry_guard = d.retry_guard /\ NoTouchFrames(d')
  /\ result' = result

Repeated ==
  /\ TouchAgain("DOWN") \/ (TouchAgain("UP_1") /\ action = "enroll")
  /\ d'.enroll_stage = d.enroll_stage /\ owed' = owed

Staged ==
  /\ action = "enroll" /\ TouchAgain("UP_1")
  /\ d'.enroll_stage = d.enroll_stage + 1 /\ d'.enroll_stage < ENROLL_STAGES
  /\ owed' = finger

Finished ==
  /\ Ended(d') /\ d'.retry_guard /\ owed' = finger
  /\ \/ /\ action \in Single /\ result' = "judged"
        /\ d'.enroll_stage = d.enroll_stage
     \/ /\ action = "enroll" /\ result' \in {"enrolled", "failed"}
        /\ d'.enroll_stage = d.enroll_stage + 1 /\ d'.enroll_stage = ENROLL_STAGES

(* The driver in mid-burst, as on_read_img leaves it to what follows.      *)
InBurst(s) ==
  /\ s \in Driver /\ s.scan_ssm = d.scan_ssm /\ s.slot = NULL /\ s.down_timeout = NULL
  /\ SameClaim(d, s) /\ SameGuard(d, s)

LEMMA HandOverCases ==
  ASSUME ScanInv, d.scan_ssm # NULL, NEW s, InBurst(s),
         NEW taken \in BOOLEAN, NEW packed \in BOOLEAN, HandOver(s, taken, packed)
  PROVE  Repeated \/ Staged \/ Finished
<1>1. /\ s \in Driver /\ s.scan_ssm # NULL /\ s.slot = NULL /\ s.down_timeout = NULL
      /\ s.mode = d.mode /\ s.enrol_ctx = d.enrol_ctx /\ s.enroll_stage = d.enroll_stage
      /\ s.retry_guard = d.retry_guard
  BY DEF InBurst, SameClaim, SameGuard
<1>2. /\ action \in Single \cup {"enroll"}
      /\ action = "enroll" => d.enrol_ctx /\ d.enroll_stage < ENROLL_STAGES
      /\ d \in Driver
  BY DEF ScanInv, TypeOK, ClaimOK, Running
<1> DEFINE staged == AddImage(s)
<1>3. ASSUME action = "enroll"
      PROVE  /\ staged \in Driver /\ staged.scan_ssm = d.scan_ssm /\ staged.slot = NULL
             /\ staged.down_timeout = NULL
             /\ staged.mode = d.mode /\ staged.enrol_ctx = d.enrol_ctx
             /\ staged.enroll_stage = d.enroll_stage + 1
             /\ staged.retry_guard = d.retry_guard
  <2> DEFINE n == s.enroll_stage + 1
  <2>1. n \in 0..ENROLL_STAGES
    BY <1>1, <1>2, <1>3, Bounds DEF Driver
  <2>2. n = d.enroll_stage + 1
    BY <1>1
  <2>3. staged = [s EXCEPT !.enroll_stage = n]
    BY <1>1 DEF AddImage, Driver
  <2>4. s.scan_ssm = d.scan_ssm
    BY DEF InBurst
  <2> HIDE DEF n
  <2> QED BY <1>1, <2>1, <2>2, <2>3, <2>4 DEF Driver
<1> HIDE DEF staged
<1>4. CASE action \in Single
  <2>1. d' = LastFrame(s) /\ result' = "judged" /\ owed' = finger
    BY <1>4 DEF HandOver, Single
  <2>2. Ended(d') /\ SameClaim(s, d') /\ d'.retry_guard
    BY <1>1, <2>1, LastFrameFacts
  <2> QED BY <1>1, <1>4, <2>1, <2>2 DEF Finished, SameClaim
<1>5. CASE action = "enroll" /\ ~taken
  <2>1. d' = AwaitRelease(s) /\ UNCHANGED <<result, owed>>
    BY <1>1, <1>2, <1>5 DEF HandOver, Single
  <2>2. /\ Awaits(s, d', "UP_1") /\ SameClaim(s, d') /\ NoTouchFrames(d')
        /\ d'.retry_guard = s.retry_guard
    BY <1>1, <2>1, AwaitReleaseFacts
  <2> QED BY <1>1, <1>5, <2>1, <2>2 DEF Repeated, TouchAgain, Awaits, SameClaim, InBurst
<1>6. CASE action = "enroll" /\ taken /\ staged.enroll_stage < ENROLL_STAGES
  <2>1. ~(staged.enroll_stage >= ENROLL_STAGES)
    BY <1>2, <1>3, <1>6, Bounds DEF Driver
  <2>2. d' = AwaitRelease(staged) /\ owed' = finger /\ UNCHANGED result
    BY <1>1, <1>2, <1>6, <2>1 DEF HandOver, Single, staged
  <2>3. staged.scan_ssm # NULL
    BY <1>3, <1>6
  <2>4. /\ Awaits(staged, d', "UP_1") /\ SameClaim(staged, d') /\ NoTouchFrames(d')
        /\ d'.retry_guard = staged.retry_guard
    BY <1>3, <1>6, <2>2, <2>3, AwaitReleaseFacts
  <2> QED BY <1>3, <1>6, <2>2, <2>4 DEF Staged, TouchAgain, Awaits, SameClaim
<1>7. CASE action = "enroll" /\ taken /\ ~(staged.enroll_stage < ENROLL_STAGES)
  <2> DEFINE e == [staged EXCEPT !.enrol_ctx = FALSE]
  <2>1. staged.enroll_stage >= ENROLL_STAGES /\ staged.enroll_stage = ENROLL_STAGES
    BY <1>2, <1>3, <1>7, Bounds DEF Driver
  <2>2. d' = LastFrame(e) /\ owed' = finger /\ result' \in {"enrolled", "failed"}
    BY <1>1, <1>2, <1>7, <2>1 DEF HandOver, Single, staged
  <2>3. e \in Driver /\ e.slot = NULL /\ e.enroll_stage = staged.enroll_stage
    BY <1>3, <1>7 DEF Driver
  <2> HIDE DEF e
  <2>4. Ended(d') /\ SameClaim(e, d') /\ d'.retry_guard
    BY <2>2, <2>3, LastFrameFacts
  <2> QED BY <1>3, <1>7, <2>1, <2>2, <2>3, <2>4 DEF Finished, SameClaim
<1> QED BY <1>2, <1>4, <1>5, <1>6, <1>7

(* choose_best hands over the winner of the burst, or nothing.             *)
LEMMA ChooseCases ==
  ASSUME ScanInv, d.scan_ssm # NULL, NEW s, InBurst(s),
         NEW taken \in BOOLEAN, NEW packed \in BOOLEAN, ChooseBest(s, taken, packed)
  PROVE  /\ Repeated \/ Staged \/ Finished
         /\ given' = given \/ (given' = s.best /\ (action = "enroll" => ~TooFaint(s)))
<1>1. /\ s \in Driver /\ s.scan_ssm # NULL /\ s.scan_ssm = d.scan_ssm
      /\ s.down_timeout = NULL
      /\ s.mode = d.mode /\ s.enrol_ctx = d.enrol_ctx /\ s.enroll_stage = d.enroll_stage
      /\ s.retry_guard = d.retry_guard
  BY DEF InBurst, SameClaim, SameGuard
<1>2. CASE action = "enroll" /\ TooFaint(s)
  <2>1. d' = AwaitRelease(s) /\ UNCHANGED <<result, owed, given>>
    BY <1>2 DEF ChooseBest
  <2>2. /\ Awaits(s, d', "UP_1") /\ SameClaim(s, d') /\ NoTouchFrames(d')
        /\ d'.retry_guard = s.retry_guard
    BY <1>1, <2>1, AwaitReleaseFacts
  <2> QED BY <1>1, <1>2, <2>1, <2>2 DEF Repeated, TouchAgain, Awaits, SameClaim
<1>3. CASE action # "enroll" /\ Spurious(s) /\ AirRetry(s)
  <2>1. d' = Discard(s) /\ UNCHANGED <<result, owed, given>>
    BY <1>3 DEF ChooseBest
  <2>2. Awaits(s, d', "DOWN") /\ SameClaim(s, d') /\ SameGuard(s, d') /\ NoTouchFrames(d')
    BY <1>1, <1>3, <2>1, DiscardFacts
  <2> QED BY <1>1, <2>1, <2>2
          DEF Repeated, TouchAgain, Awaits, SameClaim, SameGuard
<1>4. CASE /\ ~(action = "enroll" /\ TooFaint(s))
           /\ ~(action # "enroll" /\ Spurious(s) /\ AirRetry(s))
  <2> DEFINE n == IF action # "enroll" /\ Spurious(s) THEN 0 ELSE s.air_retries
             e == [s EXCEPT !.air_retries = n]
  <2>1. given' = s.best /\ HandOver(e, taken, packed)
    <3>1. e = [s EXCEPT !.air_retries =
                 IF action # "enroll" /\ Spurious(s) THEN 0 ELSE @]
      BY <1>1 DEF Driver
    <3> HIDE DEF e
    <3> QED BY <1>4, <3>1 DEF ChooseBest
  <2>2. n \in 0..AIR_RETRY_MAX
    BY <1>1, Bounds DEF Driver
  <2> HIDE DEF n
  <2>3. InBurst(e)
    BY <2>2 DEF InBurst, Driver, SameClaim, SameGuard
  <2> HIDE DEF e
  <2> QED BY <1>4, <2>1, <2>3, HandOverCases
<1> QED BY <1>2, <1>3, <1>4

(* Whichever way a burst ends, what was handed over is its best frame, and *)
(* a touch that counted is one that must be lifted.                        *)
LEMMA ChosenIsSafe ==
  ASSUME ScanInv, d.scan_ssm # NULL, d.state = "IMAGE", NEW s, InBurst(s),
         s.best # NULL, s.best \in burst', \A f \in burst' : ~Beats(f, s.best),
         burst' \subseteq Frames \cup {Air},
         NEW taken \in BOOLEAN, NEW packed \in BOOLEAN,
         ChooseBest(s, taken, packed), Sensing
  PROVE  ScanInv' /\ TouchStep
<1>1. /\ Repeated \/ Staged \/ Finished
      /\ given' = given \/ (given' = s.best /\ (action = "enroll" => ~TooFaint(s)))
  BY ChooseCases
<1>2. /\ Running /\ ~bringUp /\ ~suspended /\ given = NULL /\ ~owed
      /\ action = "enroll" => d.enroll_stage < ENROLL_STAGES
  BY DEF ScanInv, ClaimOK, BestOfBurst, TouchOK
<1>3. UNCHANGED <<action, bringUp, suspended, finger>>
  BY DEF Sensing
<1>4. DeliversBest'
  <2>1. TooFaint([best |-> s.best]) <=> TooFaint(s)
    BY DEF TooFaint
  <2>2. CASE given' = given
    BY <1>2, <2>2 DEF DeliversBest
  <2>3. CASE given' = s.best /\ (action = "enroll" => ~TooFaint(s))
    BY <1>3, <2>1, <2>3 DEF DeliversBest
  <2> QED BY <1>1, <2>2, <2>3
<1>5. given' \in Frames \cup {Air, NULL}
  BY <1>1 DEF ScanInv, TypeOK, InBurst, Driver
<1>6. ASSUME NEW q \in {"UP_1", "DOWN"}, TouchAgain(q), q = "UP_1" => action = "enroll",
             d'.enroll_stage = d.enroll_stage \/ d'.enroll_stage < ENROLL_STAGES,
             owed' = owed \/ (owed' = finger /\ q = "UP_1")
      PROVE  ScanInv'
  <2>1. /\ d' \in Driver /\ d'.scan_ssm # NULL /\ d'.state = q
        /\ d'.slot = WaiterOf(d') /\ d'.down_timeout = NULL
        /\ d'.mode = d.mode /\ d'.enrol_ctx = d.enrol_ctx
        /\ d'.retry_guard = d.retry_guard /\ NoTouchFrames(d') /\ result' = result
    BY <1>6 DEF TouchAgain
  <2>2. ClaimOK' /\ WaitersOK'
    BY <1>2, <1>3, <1>6, <2>1 DEF ScanInv, ClaimOK, Running, WaitersOK
  <2>3. owed' \in BOOLEAN
    BY <1>6 DEF ScanInv, TypeOK
  <2>4. TypeOK'
    BY <1>5, <2>1, <2>3, SensingTypes DEF ScanInv, TypeOK
  <2>5. lift' = IF q = "UP_1" THEN ~finger ELSE lift
    BY <2>1 DEF Sensing
  <2>6. TouchOK'
    <3>1. finger' = finger /\ (owed' => finger)
      BY <1>2, <1>3, <1>6
    <3>2. CASE q = "DOWN"
      <4>1. d'.state = "DOWN" /\ ~owed'
        BY <1>2, <1>6, <2>1, <3>2
      <4> QED BY <2>1, <3>1, <4>1 DEF TouchOK, Release
    <3>3. CASE q = "UP_1"
      <4>1. d'.state = "UP_1" /\ action' \notin Single /\ ~(lift' /\ owed')
        BY <1>3, <1>6, <2>1, <2>5, <3>1, <3>3 DEF Single
      <4> QED BY <2>1, <3>1, <4>1 DEF TouchOK, Release
    <3> QED BY <3>2, <3>3
  <2> QED BY <1>4, <2>1, <2>2, <2>4, <2>6, NoBurst DEF ScanInv
<1>7. Repeated \/ Staged => ScanInv'
  BY <1>6 DEF Repeated, Staged
<1>8. ASSUME Finished PROVE ScanInv'
  <2>1. /\ Ended(d') /\ d'.retry_guard /\ owed' = finger
        /\ result' \in {"judged", "enrolled", "failed"}
    BY <1>8 DEF Finished
  <2>2. ClaimOK' /\ WaitersOK' /\ BurstIsOfThisTouch' /\ BestOfBurst'
    BY <1>2, <1>3, <2>1, ScanEnds DEF Running
  <2>3. TypeOK'
    BY <1>5, <2>1, SensingTypes DEF ScanInv, TypeOK, Ended
  <2>4. TouchOK'
    BY <1>3, <2>1 DEF TouchOK, Ended
  <2> QED BY <1>4, <2>2, <2>3, <2>4 DEF ScanInv
<1>9. TouchStep
  <2>1. d.enroll_stage \in 0..ENROLL_STAGES /\ d.scan_ssm # NULL
    BY DEF ScanInv, TypeOK, Driver
  <2>2. CASE Repeated
    BY <1>3, <2>2, Unnoticed DEF Repeated, TouchAgain
  <2>3. CASE Staged
    <3>1. d'.scan_ssm # NULL /\ d'.enroll_stage # ENROLL_STAGES /\ result' = result
      BY <2>1, <2>3 DEF Staged, TouchAgain
    <3> QED BY <1>2, <1>3, <2>1, <2>3, <3>1 DEF TouchStep, Touch!Next, Touch!Count, Staged
  <2>4. CASE Finished /\ action \in Single
    <3>1. d'.scan_ssm = NULL
      BY <2>4 DEF Finished, Ended
    <3> QED BY <1>2, <1>3, <2>1, <2>4, <3>1
            DEF TouchStep, Touch!Next, Touch!Judge, Touch!Single, Single, Finished
  <2>5. CASE Finished /\ action = "enroll"
    <3>1. d'.scan_ssm = NULL
      BY <2>5 DEF Finished, Ended
    <3> QED BY <1>2, <1>3, <2>1, <2>5, <3>1
            DEF TouchStep, Touch!Next, Touch!Count, Single, Finished
  <2> QED BY <1>1, <2>2, <2>3, <2>4, <2>5 DEF Finished
<1> QED BY <1>1, <1>7, <1>8, <1>9

LEMMA CaptureIsSafe ==
  ASSUME ScanInv, NEW f \in Frames \cup {Air},
         NEW matched \in BOOLEAN, NEW taken \in BOOLEAN, NEW packed \in BOOLEAN,
         Captured(f, matched, taken, packed)
  PROVE  ScanInv' /\ TouchStep
<1> DEFINE banked == Bank(Told, f)
<1>1. /\ d.scan_ssm # NULL /\ d.state = "IMAGE" /\ d.down_timeout = NULL
      /\ Told \in Driver /\ Told.scan_ssm = d.scan_ssm /\ Told.slot = NULL
      /\ Told.down_timeout = NULL /\ Told.state = "IMAGE"
      /\ SameClaim(d, Told) /\ SameGuard(d, Told) /\ SameTouchFrames(d, Told)
  BY ToldFacts DEF Captured
<1>2. /\ given = NULL
      /\ d.best = NULL <=> burst = {}
      /\ d.best # NULL => d.best \in burst /\ \A g \in burst : ~Beats(g, d.best)
      /\ d.frame_count < FRAMES_PER_TOUCH
      /\ burst \subseteq Frames \cup {Air} /\ burst' = burst \cup {f}
      /\ ~owed
      /\ action = "enroll" => d.enroll_stage < ENROLL_STAGES
  BY <1>1 DEF ScanInv, BestOfBurst, BurstIsOfThisTouch, TypeOK, Captured, TouchOK, ClaimOK
<1>3. /\ banked.best \in burst' /\ banked.best # NULL
      /\ \A g \in burst' : ~Beats(g, banked.best)
  <2>1. /\ Told.best = NULL <=> burst = {}
        /\ Told.best # NULL => Told.best \in burst /\ \A g \in burst : ~Beats(g, Told.best)
    BY <1>1, <1>2 DEF SameTouchFrames
  <2>2. burst \in SUBSET (Frames \cup {Air})
    BY <1>2
  <2>3. /\ banked.best \in burst \cup {f} /\ banked.best # NULL
        /\ \A g \in burst \cup {f} : ~Beats(g, banked.best)
    <3> HIDE DEF Told
    <3> QED BY <1>1, <2>1, <2>2, BankKeepsBest
  <2> HIDE DEF banked
  <2> QED BY <1>2, <2>3
<1>4. /\ banked \in Driver /\ banked.frame_count = d.frame_count + 1
      /\ banked.scan_ssm = d.scan_ssm /\ banked.slot = NULL /\ banked.down_timeout = NULL
      /\ banked.state = "IMAGE" /\ SameClaim(d, banked) /\ SameGuard(d, banked)
  BY <1>1, <1>2, BankFacts DEF SameTouchFrames, SameClaim, SameGuard
<1>5. \/ ChooseBest(banked, taken, packed)
      \/ /\ banked.frame_count < FRAMES_PER_TOUCH
         /\ d' = Arm(banked) /\ UNCHANGED <<result, owed, given>>
  <2>1. banked.frame_count \in Nat /\ FRAMES_PER_TOUCH \in Nat
    BY <1>4, Bounds DEF Driver
  <2> HIDE DEF banked
  <2>2. \/ ChooseBest(banked, taken, packed)
        \/ /\ ~(banked.frame_count >= FRAMES_PER_TOUCH)
           /\ d' = Arm(banked) /\ UNCHANGED <<result, owed, given>>
    BY DEF Captured, banked
  <2> QED BY <2>1, <2>2
<1> HIDE DEF banked
<1>6. CASE ChooseBest(banked, taken, packed)
  <2>1. InBurst(banked) /\ Sensing /\ burst' \subseteq Frames \cup {Air}
    BY <1>2, <1>4 DEF InBurst, Captured
  <2> QED BY <1>1, <1>3, <1>6, <2>1, ChosenIsSafe
<1>7. CASE /\ banked.frame_count < FRAMES_PER_TOUCH
           /\ d' = Arm(banked) /\ UNCHANGED <<result, owed, given>>
  <2>1. /\ Awaits(banked, d', "IMAGE") /\ SameClaim(banked, d')
        /\ SameTouchFrames(banked, d')
    BY <1>1, <1>4, <1>7, ArmFacts
  <2>2. UNCHANGED <<action, bringUp, suspended, finger>>
    BY DEF Captured, Sensing
  <2>3. /\ ClaimOK' /\ WaitersOK'
        /\ d' \in Driver /\ d'.scan_ssm # NULL /\ d'.state = "IMAGE"
    BY <1>1, <1>2, <1>4, <1>7, <2>1, <2>2, GoesOn DEF SameClaim
  <2>4. TypeOK'
    BY <1>2, <1>7, <2>2, <2>3, SensingTypes DEF Captured, ScanInv, TypeOK
  <2>5. d.frame_count \in Nat /\ d'.frame_count = d.frame_count + 1
        /\ d'.frame_count < FRAMES_PER_TOUCH /\ d'.best = banked.best
    BY <1>4, <1>7, <2>1, Bounds DEF SameTouchFrames, ScanInv, TypeOK, Driver
  <2>6. BurstIsOfThisTouch'
    BY <1>2, <2>3, <2>5 DEF BurstIsOfThisTouch
  <2>7. BestOfBurst'
    <3>1. given' = NULL /\ d'.best # NULL /\ burst' # {}
      BY <1>2, <1>3, <1>7, <2>5
    <3>2. d'.best \in burst' /\ \A g \in burst' : ~Beats(g, d'.best)
      BY <1>3, <2>5
    <3> QED BY <3>1, <3>2, Zenon DEF BestOfBurst
  <2>8. DeliversBest'
    <3>1. given' = NULL
      BY <1>2, <1>7
    <3> QED BY <3>1, Zenon DEF DeliversBest
  <2>9. TouchOK'
    BY <1>2, <1>7, <2>2, <2>3 DEF TouchOK, Release
  <2>10. TouchStep
    BY <1>4, <1>7, <2>1, <2>2, Unnoticed DEF Awaits, SameClaim
  <2> QED BY <2>3, <2>4, <2>6, <2>7, <2>8, <2>9, <2>10 DEF ScanInv
<1> QED BY <1>5, <1>6, <1>7

LEMMA ImageIsSafe ==
  ASSUME ScanInv, Image
  PROVE  ScanInv' /\ TouchStep
<1>1. ASSUME NEW taken \in BOOLEAN, NEW packed \in BOOLEAN, BurstCut(taken, packed)
      PROVE  ScanInv' /\ TouchStep
  <2>1. /\ d.scan_ssm # NULL /\ d.state = "IMAGE" /\ InBurst(Told)
        /\ SameTouchFrames(d, Told)
    BY <1>1, ToldFacts DEF BurstCut, InBurst
  <2>2. /\ Told.best # NULL /\ Told.best \in burst'
        /\ \A f \in burst' : ~Beats(f, Told.best)
        /\ burst' \subseteq Frames \cup {Air}
    BY <1>1, <2>1 DEF BurstCut, SameTouchFrames, ScanInv, BestOfBurst, TypeOK
  <2> QED BY <1>1, <2>1, <2>2, ChosenIsSafe DEF BurstCut
<1>2. CASE FirstFrameFails
  BY <1>2, FailIsSafe DEF FirstFrameFails
<1> QED BY <1>1, <1>2, CaptureIsSafe DEF Image

------------------------------------------------------------------------------
(* The release.                                                            *)

(* A release is awaited by a claim that goes on: the guard is up, or a     *)
(* stage of the enrolment is left.                                         *)
LEMMA ReleaseGoesOn ==
  ASSUME ScanInv, Await({"UP_2"})
  PROVE  d.retry_guard \/ (d.mode \notin Single /\ d.enroll_stage < ENROLL_STAGES)
<1>1. d.scan_ssm # NULL /\ d.state \in Release /\ Running /\ ~suspended
  BY ToldFacts DEF Release
<1>2. CASE action \in Single
  BY <1>1, <1>2 DEF ScanInv, TouchOK
<1>3. CASE action = "enroll"
  BY <1>1, <1>3 DEF ScanInv, ClaimOK, Single
<1> QED BY <1>1, <1>2, <1>3 DEF ScanInv, TypeOK, Running

LEMMA ReleasedIsSafe ==
  ASSUME ScanInv, Released
  PROVE  ScanInv' /\ TouchStep
<1> DEFINE s == [Told EXCEPT !.retry_guard = FALSE, !.guard_age = "unset"]
<1>1. /\ d.scan_ssm # NULL /\ d.state = "UP_2" /\ lift
      /\ Told \in Driver /\ Told.scan_ssm = d.scan_ssm /\ Told.down_timeout = NULL
      /\ SameClaim(d, Told) /\ SameGuard(d, Told) /\ SameTouchFrames(d, Told)
  BY ToldFacts DEF Released
<1>2. /\ s \in Driver /\ s.scan_ssm = d.scan_ssm /\ s.down_timeout = NULL
      /\ SameClaim(d, s) /\ SameTouchFrames(d, s)
  BY <1>1 DEF Driver, SameClaim, SameTouchFrames
<1>3. d' = Enter(s, "DOWN")
  BY <1>1, ReleaseGoesOn DEF Released, ReleaseSeen, SameClaim, SameGuard
<1> HIDE DEF s
<1>4. Awaits(s, d', "DOWN") /\ SameClaim(s, d') /\ SameTouchFrames(s, d')
  BY <1>1, <1>2, <1>3, EnterFacts DEF States
<1>5. UNCHANGED <<action, bringUp, suspended, finger, result, owed, burst, given>>
  BY DEF Released, Sensing, Plain
<1>6. /\ ClaimOK' /\ WaitersOK'
      /\ d' \in Driver /\ d'.scan_ssm # NULL /\ d'.state = "DOWN"
  <2>1. action = "enroll" => s.enroll_stage < ENROLL_STAGES
    BY <1>1, <1>2 DEF ScanInv, ClaimOK, SameClaim
  <2> QED BY <1>1, <1>2, <1>4, <1>5, <2>1, GoesOn DEF SameClaim
<1>7. TypeOK'
  BY <1>5, <1>6, SensingTypes DEF Released, ScanInv, TypeOK
<1>8. NoTouchFrames(d')
  BY <1>1, <1>2, <1>4 DEF SameTouchFrames, NoTouchFrames, ScanInv, BurstIsOfThisTouch
<1>9. TouchOK'
  BY <1>1, <1>5, <1>6 DEF ScanInv, TouchOK, Release
<1>10. TouchStep
  BY <1>2, <1>4, <1>5, Unnoticed DEF Awaits, SameClaim
<1> QED BY <1>5, <1>6, <1>7, <1>8, <1>9, <1>10, NoBurst, SameDelivery DEF ScanInv

LEMMA UpIsSafe ==
  ASSUME ScanInv, Up
  PROVE  ScanInv' /\ TouchStep
<1>1. CASE StillHeld /\ Fails
  BY <1>1, FailIsSafe DEF StillHeld
<1>2. CASE StillHeld /\ d' = Arm(Told) /\ UNCHANGED <<result, owed>>
  <2>1. /\ d.scan_ssm # NULL /\ d.state = "UP_2"
        /\ Told \in Driver /\ Told.scan_ssm = d.scan_ssm /\ Told.down_timeout = NULL
        /\ Told.state = "UP_2"
        /\ SameClaim(d, Told) /\ SameGuard(d, Told) /\ SameTouchFrames(d, Told)
    BY <1>2, ToldFacts DEF StillHeld
  <2>2. /\ Awaits(Told, d', "UP_2") /\ SameClaim(Told, d') /\ SameGuard(Told, d')
        /\ SameTouchFrames(Told, d')
    BY <1>2, <2>1, ArmFacts
  <2>3. UNCHANGED <<action, bringUp, suspended, finger, result, owed, burst, given>>
    BY <1>2 DEF StillHeld, Sensing
  <2>4. /\ ClaimOK' /\ WaitersOK'
        /\ d' \in Driver /\ d'.scan_ssm # NULL /\ d'.state = "UP_2"
    <3>1. action = "enroll" => Told.enroll_stage < ENROLL_STAGES
      BY <2>1 DEF ScanInv, ClaimOK, SameClaim
    <3> QED BY <2>1, <2>2, <2>3, <3>1, GoesOn DEF SameClaim
  <2>5. TypeOK' /\ lift' = lift
    BY <1>2, <2>3, <2>4 DEF StillHeld, Sensing, ScanInv, TypeOK
  <2>6. NoTouchFrames(d') /\ SameGuard(d, d')
    BY <2>1, <2>2
       DEF SameGuard, SameTouchFrames, NoTouchFrames, ScanInv, BurstIsOfThisTouch
  <2>7. TouchOK'
    BY <2>1, <2>3, <2>4, <2>5, <2>6 DEF ScanInv, TouchOK, SameGuard, Release
  <2>8. TouchStep
    BY <2>1, <2>2, <2>3, Unnoticed DEF Awaits, SameClaim
  <2> QED BY <2>3, <2>4, <2>5, <2>6, <2>7, <2>8, NoBurst, SameDelivery DEF ScanInv
<1>3. CASE StillHeld /\ ~d.retry_guard /\ d.mode \in Single
  BY <1>3, ReleaseGoesOn DEF StillHeld
<1> QED BY <1>1, <1>2, <1>3, ReleasedIsSafe DEF Up, StillHeld

------------------------------------------------------------------------------
(* The client, and time.                                                   *)

LEMMA ClaimIsSafe ==
  ASSUME ScanInv, NEW a \in Single \cup {"enroll"},
         NEW usable \in BOOLEAN, NEW reused \in BOOLEAN, Claim(a, usable, reused)
  PROVE  ScanInv' /\ TouchStep
<1>1. /\ d \in Driver /\ d.scan_ssm = NULL /\ d.slot = NULL /\ d.down_timeout = NULL
      /\ action = "none" /\ given = NULL /\ ~suspended
  BY DEF ScanInv, TypeOK, ClaimOK, WaitersOK, Running, Claim
<1>2. /\ action' = a /\ a # "none" /\ bringUp' = usable
      /\ result' = IF usable THEN "none" ELSE "failed"
      /\ UNCHANGED <<suspended, finger, lift, owed, burst, given>>
  BY DEF Claim, Single
<1>3. /\ d' \in Driver /\ d'.scan_ssm = NULL /\ d'.slot = NULL /\ d'.down_timeout = NULL
      /\ usable => d'.mode = IF a = "enroll" THEN "none" ELSE a
      /\ usable /\ a = "enroll" => d'.enrol_ctx /\ d'.enroll_stage < ENROLL_STAGES
      /\ SameGuard(d, d')
  <2> DEFINE m == IF a = "enroll" THEN "none" ELSE a
             n == IF a = "enroll" THEN 0 ELSE d.enroll_stage
             c == IF a = "enroll" THEN usable ELSE d.enrol_ctx
             p == d.tls_parked /\ ~usable
             t == d.session_started /\ (reused \/ ~usable)
  <2>1. m \in Single \cup {"none"} /\ c \in BOOLEAN /\ p \in BOOLEAN /\ t \in BOOLEAN
    BY <1>1 DEF Driver, Single
  <2>2. n \in 0..ENROLL_STAGES
    BY <1>1, Bounds DEF Driver
  <2>3. d' = [d EXCEPT !.mode = m, !.enroll_stage = n, !.enrol_ctx = c,
                       !.tls_parked = p, !.session_started = t]
    BY <1>1 DEF Claim, Driver
  <2>4. a = "enroll" => n = 0 /\ c = usable /\ 0 < ENROLL_STAGES
    BY Bounds
  <2> HIDE DEF n, c, p, t
  <2>5. ASSUME NEW v \in Single \cup {"none"}
        PROVE  [d EXCEPT !.mode = v, !.enroll_stage = n, !.enrol_ctx = c,
                         !.tls_parked = p, !.session_started = t] \in Driver
    BY <1>1, <2>1, <2>2 DEF Driver
  <2>6. d' \in Driver
    BY <2>1, <2>3, <2>5
  <2>7. /\ d'.scan_ssm = NULL /\ d'.slot = NULL /\ d'.down_timeout = NULL
        /\ d'.mode = m /\ d'.enroll_stage = n /\ d'.enrol_ctx = c /\ SameGuard(d, d')
    BY <1>1, <2>3 DEF Driver, SameGuard
  <2> QED BY <2>4, <2>6, <2>7
<1>4. ClaimOK'
  BY <1>1, <1>2, <1>3 DEF ClaimOK, Running
<1>5. WaitersOK' /\ BurstIsOfThisTouch' /\ BestOfBurst'
  BY <1>3 DEF WaitersOK, BurstIsOfThisTouch, BestOfBurst
<1>6. TypeOK'
  BY <1>2, <1>3 DEF ScanInv, TypeOK
<1>7. DeliversBest'
  BY <1>1, <1>2, SameDelivery DEF ScanInv
<1>8. TouchOK'
  BY <1>1, <1>2, <1>3 DEF ScanInv, TouchOK, SameGuard
<1>9. TouchStep
  <2>1. (d'.scan_ssm # NULL) = (d.scan_ssm # NULL) /\ result' \in {"none", "failed"}
    BY <1>1, <1>2, <1>3
  <2>2. d'.enroll_stage = IF a = "enroll" THEN 0 ELSE d.enroll_stage
    BY <1>1 DEF Claim, Driver
  <2>3. Touch!Begin(a)
    BY <1>1, <1>2, <2>1, <2>2 DEF Touch!Begin
  <2> QED BY <2>3 DEF TouchStep, Touch!Next, Touch!Single, Single
<1> QED BY <1>4, <1>5, <1>6, <1>7, <1>8, <1>9 DEF ScanInv

(* What a claim leaves: no machine, and a guard that is down or as it was. *)
LEMMA QuietIsSafe ==
  ASSUME ScanInv, Ended(d'),
         (d.scan_ssm = NULL /\ SameGuard(d, d')) \/ d'.guard_age = "unset",
         UNCHANGED <<finger, lift, owed, burst, given, action>>,
         result' \in {"none", "judged", "enrolled", "failed"},
         bringUp' \in BOOLEAN, suspended' \in BOOLEAN
  PROVE  /\ TypeOK' /\ WaitersOK' /\ BurstIsOfThisTouch' /\ BestOfBurst'
         /\ DeliversBest' /\ TouchOK'
<1>1. d' \in Driver /\ d'.scan_ssm = NULL /\ d'.slot = NULL /\ d'.down_timeout = NULL
  BY DEF Ended
<1>2. TypeOK'
  BY <1>1 DEF ScanInv, TypeOK
<1>3. WaitersOK' /\ BurstIsOfThisTouch' /\ BestOfBurst'
  BY <1>1 DEF WaitersOK, BurstIsOfThisTouch, BestOfBurst
<1>4. DeliversBest'
  BY SameDelivery DEF ScanInv
<1>5. TouchOK'
  BY <1>1 DEF ScanInv, TouchOK, SameGuard
<1> QED BY <1>2, <1>3, <1>4, <1>5

LEMMA CancelIsSafe ==
  ASSUME ScanInv, NEW parks \in BOOLEAN, Cancel(parks)
  PROVE  ScanInv' /\ TouchStep
<1> DEFINE s == [d EXCEPT !.mode = "none", !.enrol_ctx = FALSE]
<1>1. /\ s \in Driver /\ s.scan_ssm = d.scan_ssm /\ SameGuard(d, s)
      /\ s.enroll_stage = d.enroll_stage
  BY DEF ScanInv, TypeOK, Driver, SameGuard
<1>2. d' = Deactivate(s, parks)
  BY DEF Cancel
<1> HIDE DEF s
<1>3. /\ Ended(d') /\ d'.enroll_stage = d.enroll_stage
      /\ ((d.scan_ssm = NULL /\ SameGuard(d, d')) \/ d'.guard_age = "unset")
  BY <1>1, <1>2, DeactivateFacts DEF SameGuard, SameClaim
<1>4. /\ Running /\ result' = "failed" /\ ~bringUp' /\ ~suspended'
      /\ bringUp' \in BOOLEAN /\ suspended' \in BOOLEAN
      /\ UNCHANGED <<finger, lift, owed, burst, given, action>>
  BY DEF Cancel
<1>5. ClaimOK'
  BY <1>3, <1>4 DEF ClaimOK, Running, Ended
<1>6. TouchStep
  BY <1>3, <1>4, Aborts DEF Ended
<1> QED BY <1>3, <1>4, <1>5, <1>6, QuietIsSafe DEF ScanInv

LEMMA SuspendIsSafe ==
  ASSUME ScanInv, Suspend
  PROVE  ScanInv' /\ TouchStep
<1> DEFINE s == Deactivate(d, FALSE)
<1>1. d \in Driver
  BY DEF ScanInv, TypeOK
<1>2. /\ Ended(s) /\ SameClaim(d, s)
      /\ ((d.scan_ssm = NULL /\ SameGuard(d, s)) \/ s.guard_age = "unset")
  BY <1>1, DeactivateFacts
<1>3. d' = [s EXCEPT !.mode = "none", !.enrol_ctx = FALSE]
  BY DEF Suspend
<1> HIDE DEF s
<1>4. /\ Ended(d') /\ d'.enroll_stage = d.enroll_stage
      /\ ((d.scan_ssm = NULL /\ SameGuard(d, d')) \/ d'.guard_age = "unset")
  BY <1>2, <1>3 DEF Ended, SameGuard, SameClaim, Driver
<1>5. /\ Running /\ result' = "none" /\ ~bringUp' /\ suspended'
      /\ bringUp' \in BOOLEAN /\ suspended' \in BOOLEAN
      /\ UNCHANGED <<finger, lift, owed, burst, given, action>>
  BY DEF Suspend, Running
<1>6. ClaimOK'
  BY <1>4, <1>5 DEF ClaimOK, Running, Ended
<1>7. TouchStep
  BY <1>4, <1>5, Aborts DEF Ended
<1> QED BY <1>4, <1>5, <1>6, <1>7, QuietIsSafe DEF ScanInv

LEMMA CloseIsSafe ==
  ASSUME ScanInv, NEW healthy \in BOOLEAN, Close(healthy)
  PROVE  ScanInv' /\ TouchStep
<1> DEFINE s == [d EXCEPT !.mode = "none", !.enrol_ctx = FALSE]
<1>1. /\ s \in Driver /\ s.scan_ssm = d.scan_ssm /\ SameGuard(d, s)
      /\ s.down_timeout = d.down_timeout /\ s.enroll_stage = d.enroll_stage
  BY DEF ScanInv, TypeOK, Driver, SameGuard
<1>2. /\ action = "none" /\ d.scan_ssm = NULL /\ d.slot = NULL /\ d.down_timeout = NULL
  BY DEF ScanInv, ClaimOK, WaitersOK, Running, Close
<1>3. d' = Deactivate(s, TRUE) \/ d' = [DropMachine(s) EXCEPT !.slot = NULL]
  BY DEF Close
<1> HIDE DEF s
<1>4. /\ Ended(d') /\ d'.enroll_stage = d.enroll_stage
      /\ ((d.scan_ssm = NULL /\ SameGuard(d, d')) \/ d'.guard_age = "unset")
  <2>1. CASE d' = Deactivate(s, TRUE)
    BY <1>1, <2>1, DeactivateFacts DEF SameGuard, SameClaim
  <2>2. CASE d' = [DropMachine(s) EXCEPT !.slot = NULL]
    <3> DEFINE t == DropMachine(s)
    <3>1. /\ t \in Driver /\ t.scan_ssm = NULL /\ t.down_timeout = NULL
          /\ SameGuard(s, t) /\ t.enroll_stage = d.enroll_stage
      BY <1>1, <1>2, DropFacts, WaiterFacts DEF SameClaim
    <3> HIDE DEF t
    <3>2. d' = [t EXCEPT !.slot = NULL] /\ NULL \in Waiter
      BY <2>2, WaiterFacts DEF t
    <3>3. Ended(d') /\ SameGuard(t, d') /\ d'.enroll_stage = d.enroll_stage
      BY <3>1, <3>2 DEF Ended, Driver, SameGuard
    <3> QED BY <1>1, <1>2, <3>1, <3>3 DEF SameGuard
  <2> QED BY <1>3, <2>1, <2>2
<1>5. UNCHANGED <<action, result, bringUp, suspended, finger, lift, owed, burst, given>>
  BY DEF Close, claim
<1>6. ClaimOK'
  BY <1>2, <1>4, <1>5 DEF ScanInv, ClaimOK, Running, Ended
<1>7. /\ result' \in {"none", "judged", "enrolled", "failed"}
      /\ bringUp' \in BOOLEAN /\ suspended' \in BOOLEAN
  BY <1>5 DEF ScanInv, TypeOK
<1>8. TouchStep
  BY <1>2, <1>4, <1>5, Unnoticed DEF Ended
<1> QED BY <1>4, <1>5, <1>6, <1>7, <1>8, QuietIsSafe DEF ScanInv

LEMMA ActivatedIsSafe ==
  ASSUME ScanInv, NEW ssm \in Ssm, Activated(ssm)
  PROVE  ScanInv' /\ TouchStep
<1>1. /\ d \in Driver /\ d.scan_ssm = NULL /\ d.slot = NULL /\ d.down_timeout = NULL
      /\ bringUp /\ Running /\ ~suspended
  BY DEF ScanInv, TypeOK, ClaimOK, WaitersOK, Activated
<1>2. d' = ScanStart(d, ssm)
  BY <1>1 DEF Activated
<1>3. /\ d' \in Driver /\ d'.scan_ssm = ssm /\ d'.state = "AE"
      /\ d'.slot = WaiterOf(d') /\ d'.down_timeout = NULL
      /\ NoTouchFrames(d') /\ SameClaim(d, d')
      /\ d'.retry_guard <=> d.retry_guard /\ d.guard_age = "fresh"
  BY <1>1, <1>2, ScanStartFacts
<1>4. /\ owed' = (owed /\ d.guard_age = "fresh") /\ bringUp' = FALSE
      /\ UNCHANGED <<action, result, suspended, finger, lift, burst, given>>
  BY DEF Activated
<1>5. d'.scan_ssm # NULL
  BY <1>3, Names
<1>6. TypeOK'
  <2>1. owed' \in BOOLEAN
    BY <1>4 DEF ScanInv, TypeOK
  <2> QED BY <1>3, <1>4, <2>1 DEF ScanInv, TypeOK
<1>7. ClaimOK'
  BY <1>1, <1>3, <1>4, <1>5 DEF ScanInv, ClaimOK, Running, SameClaim
<1>8. WaitersOK'
  BY <1>3, <1>5 DEF WaitersOK, WaiterOf
<1>9. TouchOK'
  <2>1. owed' => finger' /\ d'.retry_guard
    BY <1>1, <1>3, <1>4 DEF ScanInv, TouchOK
  <2> QED BY <1>3, <1>5, <2>1 DEF TouchOK, Release
<1>10. DeliversBest'
  BY <1>4, SameDelivery DEF ScanInv
<1>11. TouchStep
  <2>1. Touch!Start
    <3>1. (d.scan_ssm # NULL) = FALSE /\ (d'.scan_ssm # NULL) = TRUE
      BY <1>1, <1>5
    <3>2. owed' \in {owed, FALSE} /\ d'.enroll_stage = d.enroll_stage
      BY <1>3, <1>4 DEF SameClaim, ScanInv, TypeOK
    <3> QED BY <1>1, <1>4, <3>1, <3>2 DEF Touch!Start, Running
  <2> QED BY <2>1 DEF TouchStep, Touch!Next
<1> QED BY <1>3, <1>6, <1>7, <1>8, <1>9, <1>10, <1>11, NoBurst DEF ScanInv

(* Nothing is done to the driver: the claim fails to come up, or returns,  *)
(* the guard ages, or the finger moves.                                    *)
LEMMA BringUpFailureIsSafe ==
  ASSUME ScanInv, ActivationFails
  PROVE  ScanInv' /\ TouchStep
<1>1. /\ d.scan_ssm = NULL /\ bringUp' = FALSE /\ result' = "failed" /\ Running
      /\ UNCHANGED <<d, action, suspended, finger, lift, owed, burst, given>>
      /\ ~suspended
  BY DEF ScanInv, ClaimOK, ActivationFails
<1>2. TypeOK'
  BY <1>1 DEF ScanInv, TypeOK
<1>3. ClaimOK'
  BY <1>1 DEF ClaimOK, Running
<1>4. WaitersOK' /\ BurstIsOfThisTouch' /\ BestOfBurst' /\ DeliversBest' /\ TouchOK'
  BY <1>1, SameDelivery
     DEF ScanInv, WaitersOK, WaiterOf, BurstIsOfThisTouch, BestOfBurst, TouchOK
<1>5. TouchStep
  BY <1>1, Aborts
<1> QED BY <1>2, <1>3, <1>4, <1>5 DEF ScanInv

LEMMA ReturnIsSafe ==
  ASSUME ScanInv, Return
  PROVE  ScanInv' /\ TouchStep
<1>1. /\ d.scan_ssm = NULL /\ ~bringUp /\ ~suspended
      /\ action' = "none" /\ result' = "none" /\ burst' = {} /\ given' = NULL
      /\ UNCHANGED <<d, bringUp, suspended, finger, lift, owed>>
  BY DEF ScanInv, ClaimOK, Running, Return
<1>2. TypeOK'
  BY <1>1 DEF ScanInv, TypeOK
<1>3. ClaimOK'
  BY <1>1 DEF ClaimOK, Running
<1>4. WaitersOK' /\ TouchOK'
  BY <1>1 DEF ScanInv, WaitersOK, WaiterOf, TouchOK
<1>5. BurstIsOfThisTouch' /\ BestOfBurst' /\ DeliversBest'
  BY <1>1 DEF BurstIsOfThisTouch, BestOfBurst, DeliversBest
<1>6. TouchStep
  BY <1>1 DEF Return, TouchStep, Touch!Next, Touch!Return
<1> QED BY <1>2, <1>3, <1>4, <1>5, <1>6 DEF ScanInv

LEMMA AgeIsSafe ==
  ASSUME ScanInv, Age
  PROVE  ScanInv' /\ TouchStep
<1>1. d \in Driver
  BY DEF ScanInv, TypeOK
<1>2. UNCHANGED <<action, result, bringUp, suspended, finger, lift, owed, burst, given>>
  BY DEF Age, claim
<1>3. PICK g \in {"aged", "ancient"} : d' = [d EXCEPT !.guard_age = g]
  BY <1>1 DEF Age, Driver
<1>4. /\ d' \in Driver /\ d'.guard_age = g /\ d'.retry_guard = d.retry_guard
      /\ d'.scan_ssm = d.scan_ssm /\ d'.state = d.state /\ d'.slot = d.slot
      /\ d'.down_timeout = d.down_timeout /\ d'.gen_ok = d.gen_ok
      /\ SameClaim(d, d') /\ SameTouchFrames(d, d')
  BY <1>1, <1>3 DEF Driver, SameClaim, SameTouchFrames
<1>5. TypeOK'
  BY <1>2, <1>4 DEF ScanInv, TypeOK
<1>6. ClaimOK'
  BY <1>2, <1>4 DEF ScanInv, ClaimOK, Running, SameClaim
<1>7. WaitersOK'
  BY <1>4 DEF ScanInv, WaitersOK, WaiterOf
<1>8. BurstIsOfThisTouch' /\ BestOfBurst'
  BY <1>2, <1>4 DEF ScanInv, BurstIsOfThisTouch, BestOfBurst, SameTouchFrames
<1>9. DeliversBest'
  BY <1>2, SameDelivery DEF ScanInv
<1>10. TouchOK'
  BY <1>2, <1>4 DEF ScanInv, TouchOK
<1>11. TouchStep
  BY <1>2, <1>4, Unnoticed DEF SameClaim
<1> QED BY <1>5, <1>6, <1>7, <1>8, <1>9, <1>10, <1>11 DEF ScanInv

LEMMA FingerIsSafe ==
  ASSUME ScanInv, MoveFinger
  PROVE  ScanInv' /\ TouchStep
<1>1. /\ finger' = ~finger /\ lift' = (lift \/ finger) /\ owed' = FALSE
      /\ UNCHANGED <<d, action, result, bringUp, suspended, burst, given>>
  BY DEF MoveFinger, claim
<1>2. TypeOK'
  <2>1. finger' \in BOOLEAN /\ lift' \in BOOLEAN /\ owed' \in BOOLEAN
    BY <1>1 DEF ScanInv, TypeOK
  <2> QED BY <1>1, <2>1 DEF ScanInv, TypeOK
<1>3. ClaimOK' /\ WaitersOK'
  BY <1>1 DEF ScanInv, ClaimOK, Running, WaitersOK, WaiterOf
<1>4. BurstIsOfThisTouch' /\ BestOfBurst'
  BY <1>1 DEF ScanInv, BurstIsOfThisTouch, BestOfBurst
<1>5. DeliversBest'
  BY <1>1, SameDelivery DEF ScanInv
<1>6. TouchOK'
  BY <1>1 DEF ScanInv, TouchOK
<1>7. TouchStep
  BY <1>1 DEF TouchStep, Touch!Next, Touch!MoveFinger
<1> QED BY <1>2, <1>3, <1>4, <1>5, <1>6, <1>7 DEF ScanInv

------------------------------------------------------------------------------
(* The specification.                                                      *)

LEMMA ScanInit == Init => ScanInv
<1> SUFFICES ASSUME Init PROVE ScanInv
  OBVIOUS
<1>1. NewDriver \in Driver
  BY Bounds, WaiterFacts DEF NewDriver, Driver, States
<1>2. TypeOK
  BY <1>1 DEF Init, TypeOK
<1>3. ClaimOK /\ WaitersOK /\ BurstIsOfThisTouch /\ BestOfBurst /\ DeliversBest /\ TouchOK
  BY DEF Init, NewDriver, ClaimOK, Running, WaitersOK, BurstIsOfThisTouch, BestOfBurst,
         DeliversBest, TouchOK
<1> QED BY <1>2, <1>3 DEF ScanInv

LEMMA ScanStep == ScanInv /\ [Next]_vars => ScanInv' /\ TouchStep
<1> SUFFICES ASSUME ScanInv, [Next]_vars PROVE ScanInv' /\ TouchStep
  OBVIOUS
<1>1. CASE Client
  BY <1>1, ClaimIsSafe, CancelIsSafe, CloseIsSafe, SuspendIsSafe DEF Client
<1>2. CASE Activation
  BY <1>2, ActivatedIsSafe, BringUpFailureIsSafe DEF Activation
<1>3. CASE Timed
  BY <1>3, StepIsSafe, D6IsSafe, TimerIsSafe, ImageIsSafe, UpIsSafe DEF Timed
<1>4. CASE Down
  BY <1>4, DownIsSafe
<1>5. CASE UNCHANGED vars
  <2>1. UNCHANGED <<d, action, result, bringUp, suspended, finger, lift, owed, burst, given>>
    BY <1>5 DEF vars, claim
  <2>2. TypeOK' /\ ClaimOK' /\ WaitersOK' /\ TouchOK'
    BY <2>1 DEF ScanInv, TypeOK, ClaimOK, Running, WaitersOK, WaiterOf, TouchOK
  <2>3. BurstIsOfThisTouch' /\ BestOfBurst' /\ DeliversBest'
    BY <2>1, SameDelivery DEF ScanInv, BurstIsOfThisTouch, BestOfBurst
  <2> QED BY <2>1, <2>2, <2>3, Unnoticed DEF ScanInv
<1> QED BY <1>1, <1>2, <1>3, <1>4, <1>5, ReturnIsSafe, AgeIsSafe, FingerIsSafe DEF Next

(* Whatever the client, the finger and the engine do, and however the      *)
(* replies come, the scan of goodix5e0a.c keeps its claim, its waiter, its *)
(* burst and its guard together.                                           *)
THEOREM ScanHolds == Spec => []ScanInv
<1>1. ScanInv /\ [Next]_vars => ScanInv'
  BY ScanStep
<1> QED BY <1>1, ScanInit, PTL DEF Spec

(* The fields of goodix5e0a.c's self keep their types and their bounds:    *)
(* the frames, the retries, the empty polls and the stages.                *)
THEOREM ScanTypes == Spec => []TypeOK
<1>1. ScanInv => TypeOK
  BY DEF ScanInv
<1> QED BY <1>1, ScanHolds, PTL

(* The comparison of addresses in the callbacks of scan_run_state and in   *)
(* the poll timer is enough, though the allocator reuses an address: what  *)
(* waits is never of a scan that is over.                                  *)
THEOREM AddressesSuffice == Spec => []NoReusedSsm
<1>1. ScanInv => NoReusedSsm
  BY DEF ScanInv, WaitersOK, WaiterOf, NoReusedSsm
<1> QED BY <1>1, ScanHolds, PTL

(* A claim that is up is neither stuck nor moved twice: on_fdt_down_reply  *)
(* and the poll timer hand one scan to each other.                         *)
THEOREM ScansMove == Spec => []OneMover
<1>1. ScanInv => OneMover
  <2> SUFFICES ASSUME ScanInv, Running, ~bringUp, ~suspended
               PROVE  /\ d.scan_ssm # NULL
                      /\ (Live(d.slot) /\ d.down_timeout = NULL)
                           \/ (Live(d.down_timeout) /\ d.gen_ok /\ d.slot = NULL)
    BY DEF OneMover
  <2>1. d.scan_ssm # NULL /\ d \in Driver
    BY DEF ScanInv, ClaimOK, TypeOK
  <2>2. Live(WaiterOf(d))
    <3>1. WaiterOf(d) \in [ssm : Ssm, mine : BOOLEAN]
      BY <2>1 DEF WaiterOf, Driver
    <3> QED BY <2>1, <3>1, WaiterFacts, Names DEF Live
  <2> QED BY <2>1, <2>2 DEF ScanInv, WaitersOK
<1> QED BY <1>1, ScanHolds, PTL

(* scan_complete, the deactivation, the suspend hook and dev_close leave   *)
(* no machine, no armed command and no timer behind a claim.               *)
THEOREM ClaimsEndScans == Spec => []ScanEndsWithClaim
<1>1. ScanInv => ScanEndsWithClaim
  BY DEF ScanInv, ClaimOK, WaitersOK, ScanEndsWithClaim
<1> QED BY <1>1, ScanHolds, PTL

(* keep_best_frame and choose_best hand over the best frame of the touch,  *)
(* whatever the frames and however the burst was cut short.                *)
THEOREM BestIsDelivered == Spec => []DeliversBest
<1>1. ScanInv => DeliversBest
  BY DEF ScanInv
<1> QED BY <1>1, ScanHolds, PTL

(* No frame of a touch is left in the burst of the next, by on_read_img's  *)
(* errors, retries and fast path, or by a cancelled claim.                 *)
THEOREM BurstsApart == Spec => []BurstIsOfThisTouch
<1>1. ScanInv => BurstIsOfThisTouch
  BY DEF ScanInv
<1> QED BY <1>1, ScanHolds, PTL

(* The lift-off guard of goodix5e0a.c keeps a finger that counted, and     *)
(* rests on the sensor, from a second look.                                *)
THEOREM LiftedBetweenLooks == Spec => []NoSecondLook
<1>1. ScanInv => NoSecondLook
  BY DEF ScanInv, TouchOK, NoSecondLook
<1> QED BY <1>1, ScanHolds, PTL

(* deliver_frame never finds the enrolment without the engine context that *)
(* dev_enroll began, nor with all its stages counted.                      *)
THEOREM ContextsStay == Spec => []EnrolmentHasContext
<1>1. ScanInv => EnrolmentHasContext
  BY DEF ScanInv, ClaimOK, EnrolmentHasContext
<1> QED BY <1>1, ScanHolds, PTL

(* The driver keeps what TouchContract promises a client: each claim ends  *)
(* once, the stages of an enrolment are counted one by one to the last,    *)
(* and no touch counts twice.                                              *)
THEOREM TouchesKept == Spec => KeepsTouchContract
<1>1. Init => Touch!Init
  BY DEF Init, NewDriver, Touch!Init
<1>2. ScanInv /\ [Next]_vars =>
        [Touch!Next]_<<action, d.scan_ssm # NULL, d.enroll_stage, result, finger, owed>>
  BY ScanStep DEF TouchStep
<1> QED BY <1>1, <1>2, ScanHolds, PTL DEF Spec, KeepsTouchContract, Touch!Spec
=============================================================================
