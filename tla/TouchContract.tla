---------------------------- MODULE TouchContract ----------------------------
(***************************************************************************)
(* What a client is promised of its touches, whatever happens between the  *)
(* driver and the sensor: a claim ends once, an enrolment counts its       *)
(* stages one by one and ends with the last, and no touch counts twice:    *)
(* the finger is lifted between two stages, and between a verdict and the  *)
(* scan of a claim that follows at once.                                   *)
(***************************************************************************)
EXTENDS Naturals

CONSTANT ENROLL_STAGES

VARIABLES
  action,   \* the action libfprint runs, or "none"
  scanning, \* its scan has started
  stage,    \* the stages counted for the enrolment
  result,   \* how the action ended, or "none"
  finger,   \* the finger rests on the sensor
  owed      \* it has not been lifted since the last touch that counted

Single == {"verify", "identify"}

Init ==
  /\ action = "none" /\ result = "none" /\ scanning = FALSE /\ stage = 0
  /\ finger \in BOOLEAN /\ owed = FALSE

(* A claim may be refused at once, without a template or a context.        *)
Begin(a) ==
  /\ action = "none" /\ action' = a
  /\ stage' = IF a = "enroll" THEN 0 ELSE stage
  /\ result' \in {"none", "failed"}
  /\ UNCHANGED <<scanning, finger, owed>>

(* A client that lets time pass takes the finger as it finds it.           *)
Start ==
  /\ action # "none" /\ result = "none" /\ ~scanning
  /\ scanning' = TRUE
  /\ owed' \in {owed, FALSE}
  /\ UNCHANGED <<action, stage, result, finger>>

MoveFinger ==
  /\ finger' = ~finger /\ owed' = FALSE
  /\ UNCHANGED <<action, scanning, stage, result>>

Count ==
  /\ action = "enroll" /\ scanning /\ ~owed
  /\ stage < ENROLL_STAGES /\ stage' = stage + 1
  /\ IF stage' = ENROLL_STAGES
     THEN result' \in {"enrolled", "failed"} /\ scanning' = FALSE
     ELSE UNCHANGED <<result, scanning>>
  /\ owed' = finger
  /\ UNCHANGED <<action, finger>>

Judge ==
  /\ action \in Single /\ scanning /\ ~owed
  /\ result' = "judged" /\ scanning' = FALSE
  /\ owed' = finger
  /\ UNCHANGED <<action, stage, finger>>

(* The sensor, the engine, a suspend or a cancellation ends the scan, or   *)
(* the action before there was one.                                        *)
Abort ==
  /\ action # "none" /\ result = "none"
  /\ result' \in {"none", "failed"} /\ scanning' = FALSE
  /\ owed' \in {owed, FALSE}
  /\ UNCHANGED <<action, stage, finger>>

Return ==
  /\ action # "none" /\ result # "none"
  /\ action' = "none" /\ result' = "none"
  /\ UNCHANGED <<scanning, stage, finger, owed>>

Next ==
  \/ \E a \in Single \cup {"enroll"} : Begin(a)
  \/ Start \/ MoveFinger \/ Count \/ Judge \/ Abort \/ Return

Spec == Init /\ [][Next]_<<action, scanning, stage, result, finger, owed>>
=============================================================================
