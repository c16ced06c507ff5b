--------------------------- MODULE MCSessionStore ---------------------------
(* Two callers; two settings, one of them with an id the tables must drop;  *)
(* three sessions of which one or two are kept.                             *)
EXTENDS SessionStore, TLC
CONSTANTS c1, c2, s1, s2, s3
MCInputs == {[t \in Tables |-> {}], [t \in Tables |-> {0, 1}]}
MCSymmetry == Permutations({c1, c2}) \cup Permutations({s1, s2, s3})
=============================================================================
