----------------------------- MODULE ThreatView -----------------------------
(***************************************************************************)
(* What the frontend makes of one pilot of an AnalysisSessionDTO: the      *)
(* numbers, times and warnings of its row and of its detail pane.  The DTO *)
(* has the numbers twice, from the same threat, so that the fallbacks of   *)
(* resolveMetric from one to the other never change one.  The share of     *)
(* solo kills and the size of gangs are not zero only with kills, and are  *)
(* left out.                                                               *)
(***************************************************************************)
EXTENDS Naturals, Scoring

CONSTANTS NoValue,    \* null or undefined, shown as a dash
          NoShip

\* resolvePilotMetrics: zeros of a pilot that has a score, but nothing else, are no values.
Unsupported(t) == t.ship = NoShip /\ t.lastKill = 0 /\ t.lastLoss = 0
Mutant_Hidden(t) == t.kills = 0 /\ t.losses = 0 /\ Unsupported(t)
Hidden(t) == t.score > 0 /\ t.kills = 0 /\ t.losses = 0 /\ t.danger = 0 /\ Unsupported(t)
Metric(t, n) == IF Hidden(t) THEN NoValue ELSE n

\* toPilotView, and toThreatRowView, which takes a pilot without reasons for one of whom
\* only the summary is known.
Active(t) == t.kills + t.losses + t.danger > 0 \/ ~Unsupported(t)
ReasonsShown(t) == IF t.reasons # {} THEN t.reasons
                   ELSE IF Active(t) /\ t.score > 0 THEN {"activity_observed"} ELSE {}
DangerShown(t) == IF ReasonsShown(t) = {} THEN NoValue ELSE Metric(t, t.danger)

\* A band the adapter does not know, minimal among them, is made up from the score.
Points(t) == Rounded(t.score, 100)
BandShown(t) ==
    IF t.band \in {"critical", "high", "medium", "low"} THEN t.band
    ELSE IF Points(t) >= 90 THEN "critical"
    ELSE IF Points(t) >= 70 THEN "high"
    ELSE IF Points(t) >= 40 THEN "medium" ELSE "low"

-----------------------------------------------------------------------------
\* warningRouting.ts, the codes of an enrichment.
Presentation ==
    [DETAIL_TIME_INVALID |-> [label |-> "Partial timestamps", tier |-> "detail_panel"],
     DETAIL_TIME_MISSING |-> [label |-> "Recent activity incomplete", tier |-> "detail_panel"],
     SUMMARY_FAILED |-> [label |-> "Summary unavailable", tier |-> "status_strip"],
     DETAIL_FAILED |-> [label |-> "Recent activity incomplete", tier |-> "status_strip"]]

\* toAnalysisSessionView: the warnings of a pilot, and one more if the backend hints at it.
Hint == [label |-> "Pilot has warning details", tier |-> "row_hint"]
Presented(ws, hinted) ==
    {Presentation[w.code] : w \in ws} \cup IF hinted THEN {Hint} ELSE {}

Tiers(presented) == {v.tier : v \in presented}
Labels(presented, tier) == {v.label : v \in {u \in presented : u.tier = tier}}
Badge(presented) == IF "row_hint" \in Tiers(presented) THEN "active"
                    ELSE IF presented # {} THEN "muted" ELSE "none"

\* lastSeen and its provenance; the source of an enrichment is never "zkill".
Incomplete == {"Partial timestamps", "Recent activity incomplete"}
LastSeen(t) == IF t.lastKill > t.lastLoss THEN t.lastKill ELSE t.lastLoss
LastSeenState(t, presented) ==
    IF {v.label : v \in presented} \cap Incomplete # {} THEN "partial"
    ELSE IF LastSeen(t) # 0 THEN "fallback"
    ELSE IF ReasonsShown(t) = {} THEN "partial" ELSE "unknown"

\* A row of the table with the pane it opens.
View(t, ws, hinted) ==
    LET presented == Presented(ws, hinted)
    IN  [score |-> Points(t), band |-> BandShown(t),
         kills |-> Metric(t, t.kills), losses |-> Metric(t, t.losses), danger |-> DangerShown(t),
         lastSeen |-> LastSeen(t), lastSeenState |-> LastSeenState(t, presented),
         badge |-> Badge(presented), pane |-> Labels(presented, "detail_panel")]

=============================================================================
