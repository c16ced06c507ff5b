----------------------------- MODULE MCEsiClient -----------------------------
(* Two overlapping calls on two ids, with one retry (two in NewClient).     *)
EXTENDS EsiClient
CONSTANTS c1, c2, i1, i2
const_Callers == {c1, c2}
const_Ids == {i1, i2}
const_Methods == {"batch", "resolve"}
const_Resolve == {"resolve"}
=============================================================================
