---------------------------- MODULE MCIdentities ----------------------------
(* One call with any paste of up to three lines of ten kinds, one with a    *)
(* paste of one name; two characters of one corporation and two alliances.  *)
EXTENDS Identities, TLC
CONSTANTS p1, p2
Line(marks, body, cr) == [marks |-> marks, body |-> body, cr |-> cr]
MCLines == {Line(<<>>, "Ann", FALSE), Line(<<"tag">>, "ANN", TRUE), Line(<<"boxed", "tag">>, "Bob", FALSE),
            Line(<<"boxed", "boxed">>, "Bob", TRUE), Line(<<"tag", "stamp">>, "Bob", TRUE),
            Line(<<"stamp">>, "ticker", FALSE), Line(<<>>, "junk", FALSE), Line(<<>>, "blank", TRUE),
            Line(<<"stamp">>, "blank", FALSE), Line(<<>>, "Bob", FALSE)}
MCLower == [n \in {"Ann", "ANN", "Bob"} |-> IF n = "Bob" THEN "bob" ELSE "ann"]
MCTexts == UNION {[1..n -> MCLines] : n \in 0..3}
MCPastes == (p1 :> MCTexts) @@ (p2 :> {<<Line(<<>>, "Bob", FALSE)>>})
MCCorpOf == [c \in {"ann", "bob"} |-> "C1"]
MCAllyOf == [c \in {"ann", "bob"} |-> IF c = "ann" THEN "A1" ELSE "A2"]
=============================================================================
