-------------------------- MODULE MCGoodix5e0aScan --------------------------
(***************************************************************************)
(* Frames on either side of every threshold, and pairs that differ in one  *)
(* of the criteria only: a firm touch, its equal in quality of a smaller   *)
(* range, one of a smaller area, and a firm touch too faint to be used,    *)
(* which the fast path may still match.                                    *)
(***************************************************************************)
EXTENDS Goodix5e0aScan

Firm  == [quality |-> 18, overlap |-> 98, range |-> 600, active |-> 2000]
Flat  == [quality |-> 18, overlap |-> 98, range |-> 300, active |-> 2000]
Small == [quality |-> 18, overlap |-> 98, range |-> 600, active |-> 60]
Faint == [quality |-> 9, overlap |-> 98, range |-> 600, active |-> 2000]

AllFrames == {Firm, Flat, Small, Faint}
=============================================================================
