---------------------------- MODULE MCZKillClient ----------------------------
(* Two overlapping goroutines and two characters, of which one goroutine   *)
(* asks for both and the other for one; spacing 1 and penalty at most 2:   *)
(* doubling is the business of MCThrottler.                                *)
EXTENDS ZKillClient, TLC
CONSTANTS c1, c2, k1, k2
const_Callers == {c1, c2}
const_Keys == {k1, k2}
const_Asks == (c1 :> {k1, k2}) @@ (c2 :> {k1})
=============================================================================
