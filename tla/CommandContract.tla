--------------------------- MODULE CommandContract ---------------------------
(***************************************************************************)
(* What the transport promises whoever sends a command: its callback is    *)
(* told how the command ended, once, and unless the command waits for the  *)
(* user or the device without a limit, it is told at last.                 *)
(***************************************************************************)
CONSTANTS Callers, Commands, TimedCommands, Outcomes

VARIABLES
  pending,  \* the command a caller waits for, or "none"
  told      \* what each caller was told last

vars == <<pending, told>>

ContractTypeOK ==
  /\ pending \in [Callers -> Commands \cup {"none"}]
  /\ told \in [Callers -> Outcomes \cup {"idle", "waiting"}]

Init ==
  /\ pending = [w \in Callers |-> "none"]
  /\ told = [w \in Callers |-> "idle"]

Issue(w, c) ==
  /\ pending[w] = "none"
  /\ pending' = [pending EXCEPT ![w] = c]
  /\ told' = [told EXCEPT ![w] = "waiting"]

Tell(w, o) ==
  /\ pending[w] # "none"
  /\ pending' = [pending EXCEPT ![w] = "none"]
  /\ told' = [told EXCEPT ![w] = o]

Next ==
  \E w \in Callers :
    (\E c \in Commands : Issue(w, c)) \/ (\E o \in Outcomes : Tell(w, o))

TellTimed(w) == pending[w] \in TimedCommands /\ \E o \in Outcomes : Tell(w, o)

(* The promise without its haste.                                         *)
SafetySpec == Init /\ [][Next]_vars

Spec ==
  /\ SafetySpec
  /\ \A w \in Callers : WF_vars(TellTimed(w))
==============================================================================
