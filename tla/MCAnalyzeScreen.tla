--------------------------- MODULE MCAnalyzeScreen ---------------------------
(* Two rosters that share one pilot of three, in different orders.           *)
EXTENDS AnalyzeScreen, TLC
MCTexts == {"", "a", "b"}
MCRoster == ("" :> <<>>) @@ ("a" :> <<2, 1>>) @@ ("b" :> <<2, 3>>)
=============================================================================
