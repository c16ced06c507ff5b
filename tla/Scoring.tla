------------------------------ MODULE Scoring ------------------------------
(***************************************************************************)
(* internal/scoring as enrichPilots uses it: what is known of a pilot      *)
(* becomes a score and a band.  Numbers are in hundredths, and cut off     *)
(* where the code goes on with a float; where it rounds, they are rounded. *)
(* mergePilotThreat gives the engine neither attackers nor security, so    *)
(* that two of its five components are never known.                        *)
(***************************************************************************)
EXTENDS Naturals

Full == 10000
Least(a, b) == IF a < b THEN a ELSE b
Rounded(a, b) == (2 * a + b) \div (2 * b)

\* The weights of defaults.go; the components never known have 14 and 10, uncertainty never
\* contributes.
Weight == [activity |-> 28, lethality |-> 25, recentness |-> 17]

Activity(in) == Least(Full, 500 * (in.kills + in.losses))

Mutant_ByLosses(in) ==
    IF in.kills + in.losses = 0 THEN 0
    ELSE (7000 * in.losses) \div (in.kills + in.losses) + Least(3000, (15 * in.danger) \div 100)
Lethality(in) ==
    IF in.kills + in.losses = 0 THEN 0
    ELSE (7000 * in.kills) \div (in.kills + in.losses) + Least(3000, (15 * in.danger) \div 100)

\* Times are days, 0 is the zero time.
Dated(in) == in.last # 0
Recentness(in) == IF Dated(in) THEN Full - Least(Full, 500 * (in.snapshot - in.last)) ELSE 0

Contributions(in) ==
    [activity |-> Rounded(Activity(in) * Weight.activity, 100),
     lethality |-> Rounded(Lethality(in) * Weight.lethality, 100),
     recentness |-> Rounded(Recentness(in) * Weight.recentness, 100)]

\* Engine.Score: the contributions over the weight of what is known.
KnownWeight(in) == Weight.activity + Weight.lethality + (IF Dated(in) THEN Weight.recentness ELSE 0)
Score(in) ==
    Rounded(100 * (Contributions(in).activity + Contributions(in).lethality + Contributions(in).recentness),
            KnownWeight(in))

\* topReasons: what contributes, which is never more than the three it keeps.
Reasons(in) == {c \in DOMAIN Weight : Contributions(in)[c] > 0}

\* BandForScore with the default thresholds.
Bands == <<"minimal", "low", "medium", "high", "critical">>
From == [minimal |-> 0, low |-> 2500, medium |-> 4500, high |-> 6500, critical |-> 8500]
BandForScore(score) ==
    IF score >= From.critical THEN "critical"
    ELSE IF score >= From.high THEN "high"
    ELSE IF score >= From.medium THEN "medium"
    ELSE IF score >= From.low THEN "low" ELSE "minimal"

=============================================================================
