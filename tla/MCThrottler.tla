----------------------------- MODULE MCThrottler -----------------------------
(* Three callers; spacing 2, penalty at most 5: the penalty runs through   *)
(* 2, 4 and the cap 5, so doubling and capping both happen.                *)
EXTENDS Throttler
CONSTANTS c1, c2, c3
const_Callers == {c1, c2, c3}
const_Answers == {"accepted", "refused"}
const_Throttled == {"refused"}
=============================================================================
