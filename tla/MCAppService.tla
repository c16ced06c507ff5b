---------------------------- MODULE MCAppService ----------------------------
(* Two overlapping calls, two characters of which one is within the        *)
(* budget of details, and four readings of the clock: one session          *)
(* refreshed three times, or two sessions and two refreshes.               *)
EXTENDS AppService, TLC
CONSTANTS p1, p2, a, b
const_Procs == {p1, p2}
const_Chars == {a, b}
const_OneChar == {a}
const_Saves == {[low |-> 1, high |-> 1], [low |-> 2, high |-> 1]}
const_Symmetry == Permutations(const_Procs) \cup Permutations(const_Chars)
=============================================================================
