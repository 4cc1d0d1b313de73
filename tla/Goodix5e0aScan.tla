--------------------------- MODULE Goodix5e0aScan ---------------------------
(***************************************************************************)
(* The scan of a 5e0a claim: the scan machine (SSM) that waits for a       *)
(* finger, captures a burst of frames of each touch, keeps the best one,   *)
(* hands it to the matcher or to the enrolment, and waits for the finger   *)
(* to be lifted; and the claims, cancellations and suspends around it.     *)
(*                                                                         *)
(* The machine is heap memory.  Its callbacks carry its address, and tell  *)
(* a reply of their own scan from a late one by comparing addresses, which *)
(* the allocator may hand out again.  Whose scan a waiter really is of is  *)
(* kept beside the address, in a field the driver cannot read.             *)
(*                                                                         *)
(* Bringing the sensor up, parking and the transport are modules of their  *)
(* own: here a claim comes up, or fails to, and a command is answered, or  *)
(* ends in an error.  As in Goodix5e0aSession, C functions are operators   *)
(* from a driver record to a driver record.                                *)
(***************************************************************************)
EXTENDS FiniteSets, Naturals

CONSTANTS
  NULL,
  Ssm,                   \* the addresses of scan machines
  Frames,                \* the frames a finger may leave on the sensor
  FRAMES_PER_TOUCH,      \* the length of a burst
  ENROLL_STAGES,         \* nr_enroll_stages
  AIR_RETRY_MAX,         \* spurious touches a claim may discard
  DOWN_EMPTY_POLL_MAX    \* empty replies in a row before a scan is failed

Frame == [quality : Nat, overlap : Nat, range : Nat, active : Nat]

(* What is captured of no finger, or decoded of a frame cut short.         *)
Air == [quality |-> 0, overlap |-> 0, range |-> 0, active |-> 0]

ASSUME ScanAssumption ==
  /\ Ssm # {} /\ NULL \notin Ssm \cup Frame \cup [ssm : Ssm, mine : BOOLEAN]
  /\ Frames \subseteq Frame
  /\ {FRAMES_PER_TOUCH, ENROLL_STAGES, DOWN_EMPTY_POLL_MAX} \subseteq Nat \ {0}
  /\ AIR_RETRY_MAX \in Nat

(* The thresholds of a frame: fit to be used, in contact at all, and firm  *)
(* enough for the fast path.                                               *)
MIN_QUALITY == 15
MIN_ACTIVE  == 64
FAST_ACTIVE == 1500
FAST_RANGE  == 500

States  == {"AE", "D6", "DOWN", "IMAGE", "UP_1", "UP_AE", "UP_2"}
Release == {"UP_1", "UP_AE", "UP_2"}
Single  == {"verify", "identify"}

VARIABLES
  d,          \* the driver: the scan's part of self, the slot and the timer
  action,     \* the action libfprint runs, or "none"
  result,     \* how it was completed, or "none"
  bringUp,    \* its activation is under way
  suspended,  \* the suspend hook has cleared the claim, a cancel will follow
  finger,     \* the finger rests on the sensor
  lift,       \* it was off the sensor since the last FDT UP was armed
  owed,       \* it was not lifted since the last touch that counted
  burst,      \* the frames captured since the last touch was confirmed,
  given       \* and the one handed over: both forgotten at the next command

claim == <<action, result, bringUp, suspended>>
vars  == <<d, claim, finger, lift, owed, burst, given>>

(* A waiter of the transport, or of the poll timer: the machine it carries *)
(* and whether that is the scan under way.                                 *)
Waiter == [ssm : Ssm, mine : BOOLEAN] \cup {NULL}

Driver ==
  [ scan_ssm        : Ssm \cup {NULL},
    state           : States,                 \* the machine's cur_state
    slot            : Waiter,                 \* the armed command's
    down_timeout    : Waiter,                 \* the 50 ms poll timer's
    gen_ok          : BOOLEAN,                \* scan_timeout_gen = scan_gen
    session_started : BOOLEAN,
    retry_guard     : BOOLEAN,
    guard_age       : {"unset", "fresh", "aged", "ancient"},
    air_retries     : 0..AIR_RETRY_MAX,
    down_empty_polls: 0..DOWN_EMPTY_POLL_MAX,
    frame_count     : 0..FRAMES_PER_TOUCH,
    best            : Frames \cup {Air, NULL},
    mode            : Single \cup {"none"},   \* is_verify, is_identify
    enrol_ctx       : BOOLEAN,                \* milan_enrol_ctx != NULL
    enroll_stage    : 0..ENROLL_STAGES,
    tls_parked      : BOOLEAN,
    turn            : BOOLEAN ]               \* tells two commands in a row apart

NewDriver ==
  [ scan_ssm |-> NULL, state |-> "AE", slot |-> NULL, down_timeout |-> NULL,
    gen_ok |-> TRUE, session_started |-> FALSE, retry_guard |-> FALSE,
    guard_age |-> "unset", air_retries |-> 0, down_empty_polls |-> 0,
    frame_count |-> 0, best |-> NULL, mode |-> "none", enrol_ctx |-> FALSE,
    enroll_stage |-> 0, tls_parked |-> FALSE, turn |-> FALSE ]

------------------------------------------------------------------------------
(* The machine and its waiters.                                            *)

WaiterOf(s) == [ssm |-> s.scan_ssm, mine |-> TRUE]

Arm(s) == [s EXCEPT !.slot = WaiterOf(s), !.turn = ~@]

(* Mutant: the timer does not note the scan it is armed in.                *)
PollUnstamped(s) == [s EXCEPT !.down_timeout = WaiterOf(s)]

Poll(s) == [s EXCEPT !.down_timeout = WaiterOf(s), !.gen_ok = TRUE]

(* The machine is gone: what still waits, waits for a scan that is over.   *)
Orphan(w) == IF w = NULL THEN NULL ELSE [w EXCEPT !.mine = FALSE]

DropMachine(s) ==
  [s EXCEPT !.scan_ssm = NULL, !.slot = Orphan(@), !.down_timeout = Orphan(@)]

ResetTouchFrames(s) == [s EXCEPT !.frame_count = 0, !.best = NULL]

(* Each state but D6 sends its command; D6 is skipped in a session that    *)
(* has started.                                                            *)
Enter(s, state) ==
  Arm([s EXCEPT !.state = state,
                !.down_empty_polls = IF state = "DOWN" THEN 0 ELSE @])

(* Mutant: the finger that ended the claim before is taken for a new one.  *)
AwaitTouchUnguarded(s) == Enter(s, "DOWN")

AwaitTouch(s) == Enter(s, IF s.retry_guard THEN "UP_1" ELSE "DOWN")

EnterD6(s) == IF s.session_started THEN AwaitTouch(s) ELSE Enter(s, "D6")

(* scan_complete.  No winner, retry or poll is carried past the scan.      *)
ScanComplete(s) ==
  [ResetTouchFrames(DropMachine(s)) EXCEPT
     !.gen_ok = FALSE, !.air_retries = 0, !.down_empty_polls = 0,
     !.down_timeout = NULL]

ScanFailed(s) == [ScanComplete(s) EXCEPT !.retry_guard = FALSE]

(* The guard of the claim before expires 2 s after its report.             *)
ScanStart(s, ssm) ==
  Enter([ResetTouchFrames(s) EXCEPT
           !.retry_guard = @ /\ s.guard_age = "fresh",
           !.down_empty_polls = 0, !.gen_ok = FALSE, !.scan_ssm = ssm], "AE")

(* Mutant: the poll timer outlives the claim.                              *)
DeactivateTimed(s, parks) ==
  [ResetTouchFrames(DropMachine(s)) EXCEPT
     !.session_started = FALSE, !.gen_ok = FALSE, !.down_empty_polls = 0,
     !.slot = NULL, !.tls_parked = parks, !.retry_guard = FALSE,
     !.guard_age = "unset"]

(* The teardown of a claim.  The machine is freed first, so that the       *)
(* waiter the reset fails with CANCELLED drops as stale; only a session    *)
(* without a scan is parked, and keeps its guard.                          *)
Deactivate(s, parks) ==
  LET quiet == [ResetTouchFrames(DropMachine(s)) EXCEPT
                  !.session_started = FALSE, !.gen_ok = FALSE,
                  !.down_empty_polls = 0, !.down_timeout = NULL,
                  !.slot = NULL]
  IN  IF parks /\ s.scan_ssm = NULL
      THEN [quiet EXCEPT !.tls_parked = TRUE]
      ELSE [quiet EXCEPT !.tls_parked = FALSE, !.retry_guard = FALSE,
                         !.guard_age = "unset"]

------------------------------------------------------------------------------
(* The burst.                                                              *)

Proxy(f) == f.quality * 256 + f.overlap

(* Mutant: frames of equal quality are taken as equals.                    *)
BetterQuality(f, best) == best = NULL \/ Proxy(f) > Proxy(best)

Better(f, best) ==
  \/ best = NULL
  \/ Proxy(f) > Proxy(best)
  \/ /\ Proxy(f) = Proxy(best)
     /\ f.range > best.range \/ (f.range = best.range /\ f.active > best.active)

(* Mutant: a frame is banked and not counted.                              *)
BankUncounted(s, f) == [s EXCEPT !.best = IF Better(f, @) THEN f ELSE @]

(* keep_best_frame, up to the fast path.                                   *)
Bank(s, f) ==
  [s EXCEPT !.frame_count = @ + 1,
            !.best = IF Better(f, @) THEN f ELSE @]

(* The first frame of a claim that is not an enrolment may be matched at   *)
(* once, which ends the burst.                                             *)
FastPath(s, f) ==
  /\ action \in Single
  /\ s.frame_count = 1 /\ f.active >= FAST_ACTIVE /\ f.range >= FAST_RANGE

(* An enrolment touch without a good frame is to be repeated.              *)
TooFaint(s)  == s.best.active < MIN_ACTIVE \/ s.best.quality < MIN_QUALITY
Spurious(s)  == s.best.quality < MIN_QUALITY

(* Mutants: the clock is not set; the burst is not reset.                  *)
AwaitReleaseUntimed(s) == Enter(ResetTouchFrames(s), "UP_1")
AwaitReleaseKept(s) == Enter([s EXCEPT !.guard_age = "fresh"], "UP_1")

(* The machine goes on to wait for the release; the clock of that wait     *)
(* starts now.                                                             *)
AwaitRelease(s) ==
  Enter([ResetTouchFrames(s) EXCEPT !.guard_age = "fresh"], "UP_1")

(* Mutant: the machine of a finished claim waits for the release itself.   *)
LastFrameHeld(s) ==
  Enter([s EXCEPT !.retry_guard = TRUE, !.guard_age = "fresh"], "UP_1")

(* The last frame of a claim: the machine completes, and the next claim    *)
(* will not take the finger that still rests there for a new touch.        *)
LastFrame(s) ==
  ScanComplete([s EXCEPT !.retry_guard = TRUE, !.guard_age = "fresh"])

(* Mutant: the engine context is finished with every stage.                *)
AddImageFinishing(s) == [s EXCEPT !.enroll_stage = @ + 1, !.enrol_ctx = FALSE]

(* The engine takes the frame for a stage of the enrolment.                *)
AddImage(s) == [s EXCEPT !.enroll_stage = @ + 1]

(* deliver_frame and what follows it in on_read_img, for the action.  The  *)
(* engine decides whether the frame is taken, and commits the template.    *)
HandOver(s, taken, packed) ==
  LET staged == AddImage(s)
      last   == staged.enroll_stage >= ENROLL_STAGES
  IN
  CASE action \in Single ->
         /\ d' = LastFrame(s)
         /\ result' = "judged"
         /\ owed' = finger
    [] action = "enroll" /\ ~s.enrol_ctx ->
         /\ d' = AwaitRelease(s)
         /\ result' = "failed"
         /\ UNCHANGED owed
    [] action = "enroll" /\ s.enrol_ctx /\ ~taken ->
         /\ d' = AwaitRelease(s)
         /\ UNCHANGED <<result, owed>>
    [] action = "enroll" /\ s.enrol_ctx /\ taken /\ ~last ->
         /\ d' = AwaitRelease(staged)
         /\ owed' = finger
         /\ UNCHANGED result
    [] action = "enroll" /\ s.enrol_ctx /\ taken /\ last ->
         /\ d' = LastFrame([staged EXCEPT !.enrol_ctx = FALSE])
         /\ owed' = finger
         /\ result' = IF packed THEN "enrolled" ELSE "failed"
        

(* Mutant: a spurious touch is never the last.                             *)
AirAgain(s) == s.air_retries >= 0

AirRetry(s) == s.air_retries < AIR_RETRY_MAX

(* Mutant: spurious touches are not counted.                               *)
DiscardUncounted(s) == Enter(ResetTouchFrames(s), "DOWN")

Discard(s) ==
  Enter([ResetTouchFrames(s) EXCEPT !.air_retries = @ + 1], "DOWN")

(* choose_best, with a frame banked.                                       *)
ChooseBest(s, taken, packed) ==
  CASE action = "enroll" /\ TooFaint(s) ->
         /\ d' = AwaitRelease(s)
         /\ UNCHANGED <<result, owed, given>>
    [] action # "enroll" /\ Spurious(s) /\ AirRetry(s) ->
         /\ d' = Discard(s)
         /\ UNCHANGED <<result, owed, given>>
    [] OTHER ->
         /\ given' = s.best
         /\ HandOver([s EXCEPT !.air_retries =
                        IF action # "enroll" /\ Spurious(s) THEN 0 ELSE @],
                     taken, packed)

------------------------------------------------------------------------------
(* What libfprint asks of the driver.                                      *)

Init ==
  /\ d = NewDriver
  /\ action = "none" /\ result = "none"
  /\ bringUp = FALSE /\ suspended = FALSE
  /\ finger \in BOOLEAN /\ lift = FALSE
  /\ owed = FALSE /\ burst = {} /\ given = NULL

Running == action # "none" /\ result = "none"

(* dev_verify, dev_identify, dev_enroll.  Without a usable template, or an *)
(* enrolment context, the claim is refused.  A parked session that answers *)
(* its probe is reused: every other way up starts the session anew.        *)
Claim(a, usable, reused) ==
  /\ action = "none"
  /\ a = "identify" => usable
  /\ reused => d.tls_parked /\ usable
  /\ action' = a
  /\ result' = IF usable THEN "none" ELSE "failed"
  /\ bringUp' = usable
  /\ d' = [d EXCEPT
             !.mode = IF a = "enroll" THEN "none" ELSE a,
             !.enroll_stage = IF a = "enroll" THEN 0 ELSE @,
             !.enrol_ctx = IF a = "enroll" THEN usable ELSE @,
             !.tls_parked = @ /\ ~usable,
             !.session_started = @ /\ (reused \/ ~usable)]
  /\ UNCHANGED <<suspended, finger, lift, owed, burst, given>>

(* The chip is enabled, and the scan starts; or the activation fails.      *)
Activated(ssm) ==
  /\ bringUp /\ bringUp' = FALSE
  /\ d' = IF d.scan_ssm = NULL THEN ScanStart(d, ssm) ELSE d
  /\ owed' = (owed /\ d.guard_age = "fresh")
  /\ UNCHANGED <<action, result, suspended, finger, lift, burst, given>>

ActivationFails ==
  /\ bringUp /\ bringUp' = FALSE
  /\ result' = "failed"
  /\ UNCHANGED <<d, action, suspended, finger, lift, owed, burst, given>>

Return ==
  /\ action # "none" /\ result # "none"
  /\ action' = "none" /\ result' = "none"
  /\ burst' = {} /\ given' = NULL
  /\ UNCHANGED <<d, bringUp, suspended, finger, lift, owed>>

(* dev_cancel.  What it parks depends on the TLS session.                  *)
Cancel(parks) ==
  /\ Running
  /\ d' = Deactivate([d EXCEPT !.mode = "none", !.enrol_ctx = FALSE], parks)
  /\ result' = "failed" /\ bringUp' = FALSE /\ suspended' = FALSE
  /\ UNCHANGED <<action, finger, lift, owed, burst, given>>

(* dev_close of an idle device, which parks a healthy session.             *)
Close(healthy) ==
  LET closed == [d EXCEPT !.mode = "none", !.enrol_ctx = FALSE]
  IN
  /\ action = "none"
  /\ d' = IF healthy /\ d.scan_ssm = NULL
          THEN Deactivate(closed, TRUE)
          ELSE [DropMachine(closed) EXCEPT !.slot = NULL]
  /\ UNCHANGED <<claim, finger, lift, owed, burst, given>>

(* The suspend hook refuses, and libfprint cancels the action.             *)
Suspend ==
  /\ Running /\ ~suspended
  /\ d' = [Deactivate(d, FALSE) EXCEPT !.mode = "none", !.enrol_ctx = FALSE]
  /\ bringUp' = FALSE /\ suspended' = TRUE
  /\ UNCHANGED <<action, result, finger, lift, owed, burst, given>>

(* 2 s, then 30 s, pass since the guard's clock was set.                   *)
Age ==
  /\ d.guard_age \in {"fresh", "aged"}
  /\ d' = [d EXCEPT !.guard_age = IF @ = "fresh" THEN "aged" ELSE "ancient"]
  /\ UNCHANGED <<claim, finger, lift, owed, burst, given>>

MoveFinger ==
  /\ finger' = ~finger
  /\ lift' = (lift \/ finger)
  /\ owed' = FALSE
  /\ UNCHANGED <<d, claim, burst, given>>

------------------------------------------------------------------------------
(* What the waiters are told.                                              *)

Told == [d EXCEPT !.slot = NULL]

(* A callback drops what is told to a machine that is not the current one. *)
Mine(w)  == w # NULL /\ d.scan_ssm = w.ssm
Await(S) == Mine(d.slot) /\ d.state \in S

(* FDT_UP_1 asks for the next release.                                     *)
Sensing ==
  /\ lift' = IF d'.state = "UP_1" /\ d.state # "UP_1" THEN ~finger ELSE lift
  /\ UNCHANGED <<action, bringUp, suspended, finger>>
Plain == UNCHANGED <<result, owed, burst, given>>
ForgetBurst == burst' = {} /\ given' = NULL
Fails == result' = "failed" /\ owed' = FALSE /\ d' = ScanFailed(Told)

(* The steps without a reply go on, acknowledged or not.                   *)
StepDone ==
  /\ Await({"AE", "UP_1", "UP_AE"})
  /\ d' = CASE d.state = "AE"    -> EnterD6(Told)
            [] d.state = "UP_1"  -> Enter(Told, "UP_AE")
            [] d.state = "UP_AE" -> Enter(Told, "UP_2")
  /\ ForgetBurst
  /\ Sensing /\ UNCHANGED <<result, owed>>

(* Nor does it matter how the session command ends.                        *)
D6Replied ==
  /\ Await({"D6"})
  /\ d' = AwaitTouch([Told EXCEPT !.session_started = TRUE])
  /\ Sensing /\ Plain

(* A finger, or something that looks like one, is on the sensor.           *)
DownTouched ==
  /\ Await({"DOWN"})
  /\ d' = Enter([Told EXCEPT !.down_empty_polls = 0, !.down_timeout = NULL], "IMAGE")
  /\ ForgetBurst
  /\ Sensing /\ UNCHANGED <<result, owed>>

DownUntouched ==
  /\ Await({"DOWN"})
  /\ d' = Poll([Told EXCEPT !.down_empty_polls = 0])
  /\ Sensing /\ Plain

(* An empty reply is polled again, but not for ever.                       *)
DownEmpty ==
  /\ Await({"DOWN"})
  /\ IF d.down_empty_polls + 1 < DOWN_EMPTY_POLL_MAX
     THEN d' = Poll([Told EXCEPT !.down_empty_polls = @ + 1]) /\ UNCHANGED <<result, owed>>
     ELSE Fails
  /\ Sensing /\ UNCHANGED <<burst, given>>

DownFails == Await({"DOWN"}) /\ Fails /\ Sensing /\ UNCHANGED <<burst, given>>

(* The poll timer of this scan samples again; any other does nothing.      *)
PollTimeout ==
  /\ d.down_timeout # NULL
  /\ LET fired == [d EXCEPT !.down_timeout = NULL]
     IN  d' = IF Mine(d.down_timeout) /\ d.gen_ok THEN Arm(fired) ELSE fired
  /\ Sensing /\ Plain

(* A frame of the burst: of the finger, if it is still there, or of air.   *)
Captured(f, matched, taken, packed) ==
  LET banked == Bank(Told, f)
  IN
  /\ Await({"IMAGE"})
  /\ f \in IF finger THEN Frames \cup {Air} ELSE {Air}
  /\ burst' = burst \cup {f}
  /\ IF (matched /\ FastPath(banked, f)) \/ banked.frame_count >= FRAMES_PER_TOUCH
     THEN ChooseBest(banked, taken, packed)
     ELSE d' = Arm(banked) /\ UNCHANGED <<result, owed, given>>
  /\ Sensing

(* An error, or a short frame, ends a burst that has begun.                *)
BurstCut(taken, packed) ==
  /\ Await({"IMAGE"}) /\ d.best # NULL
  /\ ChooseBest(Told, taken, packed)
  /\ Sensing /\ UNCHANGED burst

FirstFrameFails ==
  /\ Await({"IMAGE"}) /\ d.best = NULL
  /\ Fails /\ Sensing /\ UNCHANGED <<burst, given>>

(* The tail of on_fdt_up_reply: the guard falls, and the next touch may be *)
(* awaited; a single touch that is over completes the machine.             *)
ReleaseSeen(s) ==
  IF s.retry_guard \/ (s.mode \notin Single /\ s.enroll_stage < ENROLL_STAGES)
  THEN Enter([s EXCEPT !.retry_guard = FALSE, !.guard_age = "unset"], "DOWN")
  ELSE ScanComplete(s)

(* The sensor reports the release: the finger was off it since it was      *)
(* asked, be the report the answer to this or to the first FDT UP.         *)
Released ==
  /\ Await({"UP_2"}) /\ lift
  /\ d' = ReleaseSeen(Told)
  /\ Sensing /\ Plain

(* Mutant: an error is taken for the release.                              *)
ReleaseAssumed == Await({"UP_2"}) /\ d' = ReleaseSeen(Told) /\ Sensing /\ Plain

(* No release in 2 s, or an error, is a finger still present: the wait is  *)
(* armed again, for 30 s.                                                  *)
StillHeld ==
  /\ Await({"UP_2"})
  /\ CASE d.retry_guard /\ d.guard_age \in {"ancient", "unset"} -> Fails
       [] ~d.retry_guard /\ d.mode \notin Single /\ d.guard_age = "ancient" -> Fails
       [] ~d.retry_guard /\ d.mode \in Single ->
            d' = ReleaseSeen(Told) /\ UNCHANGED <<result, owed>>
       [] OTHER -> d' = Arm(Told) /\ UNCHANGED <<result, owed>>
  /\ Sensing /\ UNCHANGED <<burst, given>>

------------------------------------------------------------------------------
Client ==
  \/ \E a \in Single \cup {"enroll"}, usable, reused \in BOOLEAN :
       Claim(a, usable, reused)
  \/ \E parks \in BOOLEAN : Cancel(parks)
  \/ \E healthy \in BOOLEAN : Close(healthy)
  \/ Suspend

Activation == (\E ssm \in Ssm : Activated(ssm)) \/ ActivationFails

(* The answers, errors and timeouts of the commands that carry a timer.    *)
Image ==
  \/ \E f \in Frames \cup {Air}, matched, taken, packed \in BOOLEAN :
       Captured(f, matched, taken, packed)
  \/ \E taken, packed \in BOOLEAN : BurstCut(taken, packed)
  \/ FirstFrameFails

Up == Released \/ StillHeld

Timed == StepDone \/ D6Replied \/ PollTimeout \/ Image \/ Up

Down == DownTouched \/ DownUntouched \/ DownEmpty \/ DownFails

Next == Client \/ Activation \/ Return \/ Age \/ MoveFinger \/ Timed \/ Down

Spec == Init /\ [][Next]_vars

(* Timers fire and time passes.                                            *)
TimedSpec == Spec /\ WF_vars(Timed) /\ WF_vars(Age)

(* Touches keep coming, moreover, however often a sample shows none.       *)
TouchedSpec == TimedSpec /\ SF_vars(DownTouched)

------------------------------------------------------------------------------
Live(w) == w # NULL /\ w.mine

(* The types of the variables.                                             *)
TypeOK ==
  /\ d \in Driver
  /\ action \in Single \cup {"none", "enroll"}
  /\ result \in {"none", "judged", "enrolled", "failed"}
  /\ {bringUp, suspended, finger, lift, owed} \subseteq BOOLEAN
  /\ burst \subseteq Frames \cup {Air}
  /\ given \in Frames \cup {Air, NULL}

(* Nothing that an earlier scan armed is left for a new machine at the     *)
(* same address to be taken for its own.                                   *)
NoReusedSsm ==
  \A w \in {d.slot, d.down_timeout} :
    w # NULL /\ ~w.mine => w.ssm # d.scan_ssm

(* A claim that is up has one scan, moved by one waiter: the command it    *)
(* armed, or the poll timer that will send it again, and that timer will   *)
(* not find itself stale.                                                  *)
OneMover ==
  Running /\ ~bringUp /\ ~suspended =>
    /\ d.scan_ssm # NULL
    /\ (Live(d.slot) /\ d.down_timeout = NULL)
         \/ (Live(d.down_timeout) /\ d.gen_ok /\ d.slot = NULL)

(* A scan is over when its claim is, with nothing armed: no reply, timer   *)
(* or enrolment goes on without a client.                                  *)
ScanEndsWithClaim ==
  ~Running \/ bringUp \/ suspended =>
    d.scan_ssm = NULL /\ d.slot = NULL /\ d.down_timeout = NULL

(* f is the better frame, whichever came first: it is of higher quality,   *)
(* or equal in that and wider in range, or in both and larger in contact.  *)
Beats(f, g) ==
  LET merit == [h \in {f, g} |-> <<Proxy(h), h.range, h.active>>]
  IN  \E i \in 1..3 :
        /\ merit[f][i] > merit[g][i]
        /\ \A j \in 1..(i - 1) : merit[f][j] = merit[g][j]

(* What is handed over is the best frame captured since the touch was      *)
(* confirmed, none of an earlier touch; and what is enrolled is fit to be. *)
DeliversBest ==
  /\ given # NULL =>
       given \in burst /\ \A f \in burst : ~Beats(f, given)
  /\ given # NULL /\ action = "enroll" => ~TooFaint([best |-> given])

(* A burst holds nothing of an earlier touch, whichever way that one ended.*)
BurstIsOfThisTouch ==
  d.scan_ssm # NULL =>
    IF d.state = "IMAGE"
    THEN d.frame_count < FRAMES_PER_TOUCH /\ (d.frame_count = 0 <=> burst = {})
    ELSE d.frame_count = 0 /\ d.best = NULL

(* A finger that has counted, and was not lifted, is not looked at again:  *)
(* not for the next stage, nor by the next claim that follows within 2 s.  *)
NoSecondLook ==
  owed /\ d.scan_ssm # NULL => d.state \notin {"DOWN", "IMAGE"}

(* An enrolment under way has its engine context, the one it started with. *)
EnrolmentHasContext ==
  action = "enroll" /\ d.scan_ssm # NULL =>
    d.enrol_ctx /\ d.mode = "none" /\ d.enroll_stage < ENROLL_STAGES

(* A wait for the release ends: the finger is lifted, or 30 s pass.        *)
ReleaseWaitEnds ==
  (d.scan_ssm # NULL /\ d.state \in Release) ~>
    (d.scan_ssm = NULL \/ d.state \notin Release)

(* A burst ends, in a verdict, a stage, a retry or an error.               *)
BurstEnds ==
  (d.scan_ssm # NULL /\ d.state = "IMAGE") ~>
    (d.scan_ssm = NULL \/ d.state # "IMAGE")

(* A verification or identification ends, if the sensor goes on reporting  *)
(* touches: spurious ones are retried a bounded number of times.           *)
SingleTouchEnds ==
  (action \in Single /\ d.scan_ssm # NULL) ~> d.scan_ssm = NULL

------------------------------------------------------------------------------
Touch == INSTANCE TouchContract
           WITH stage <- d.enroll_stage, scanning <- d.scan_ssm # NULL

KeepsTouchContract == Touch!Spec
==============================================================================
