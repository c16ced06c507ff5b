----------------------------- MODULE MCFetchPool -----------------------------
(* Three pilots for two slots, and a target that is no pilot: goroutines   *)
(* queue for a slot, meet at the mutex and are skipped.                    *)
EXTENDS FetchPool
CONSTANTS p1, p2, p3, p4
const_Requested == {p1, p2, p3, p4}
const_Pilots == {p1, p2, p3}
const_Answers == {"error", "empty", "untimed", "partlyTimed", "timed"}
=============================================================================
