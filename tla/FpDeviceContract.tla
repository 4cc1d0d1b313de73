-------------------------- MODULE FpDeviceContract --------------------------
(***************************************************************************)
(* What libfprint expects of a driver, whatever its transport: a device is *)
(* open before it acts, an action first brings the sensor up and then      *)
(* waits for a finger, it is reported exactly once, and bringing the       *)
(* sensor up does not take for ever.                                       *)
(***************************************************************************)
EXTENDS Naturals

VARIABLES
  phase,   \* "closed", "idle", or what the action is doing
  reports  \* how often the current, or the last, action was reported

vars == <<phase, reports>>

Phases == {"closed", "idle", "bringUp", "scan", "reported"}

ContractTypeOK == phase \in Phases /\ reports \in {0, 1}

Init == phase = "closed" /\ reports = 0

Open  == phase = "closed" /\ phase' = "idle" /\ UNCHANGED reports
Close == phase = "idle" /\ phase' = "closed" /\ UNCHANGED reports

(* An action may be refused at once, or find the sensor ready.             *)
Start ==
  /\ phase = "idle"
  /\ \/ phase' = "bringUp" /\ reports' = 0
     \/ phase' = "reported" /\ reports' = 1

AwaitFinger == phase = "bringUp" /\ phase' = "scan" /\ UNCHANGED reports

(* A driver asked to let go of the finger has yet to report the action.    *)
Abandon == phase = "scan" /\ phase' = "bringUp" /\ UNCHANGED reports

Report ==
  /\ phase \in {"bringUp", "scan"}
  /\ phase' = "reported" /\ reports' = 1

Return == phase = "reported" /\ phase' = "idle" /\ UNCHANGED reports

(* The process that holds the device ends.                                 *)
Restart == phase' = "closed" /\ reports' = 0

Next ==
  Open \/ Close \/ Start \/ AwaitFinger \/ Abandon \/ Report \/ Return \/ Restart

Settle == AwaitFinger \/ Report \/ Return

SafetySpec == Init /\ [][Next]_vars

Spec == SafetySpec /\ WF_vars(Settle /\ phase # "scan")
=============================================================================
