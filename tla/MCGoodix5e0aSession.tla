------------------------ MODULE MCGoodix5e0aSession ------------------------
(***************************************************************************)
(* The environments a session is checked in.  The state space is finite as *)
(* it is: the only bound is the counter of reports, which stops at two.    *)
(***************************************************************************)
EXTENDS Goodix5e0aSession

AnyWaiter == Waiters
AnyEvent  == EventKinds

(* The waiters whose callbacks check the generation, or are freed first:   *)
(* cancelling a claim during any of them is clean.                         *)
GuardedWaiter == {"config", "probe", "scan"}
=============================================================================
