------------------------------- MODULE Gather -------------------------------
(***************************************************************************)
(* What fetchSummaryRows and fetchDetails of internal/app/app_service.go   *)
(* promise enrichPilots: they return once, with the outcome of exactly one *)
(* provider answer for each pilot asked about, whatever order the answers  *)
(* came in.  FetchPool is shown to implement this.                         *)
(***************************************************************************)
CONSTANTS Known,    \* the pilots asked about
          Answers   \* the answers the provider may give

VARIABLE ret        \* {} before the call returns, then {what it returned}

\* "error": the provider failed.  "row": a summary row.  "empty": no
\* killmail.  Otherwise killmails, with all, some or no usable timestamps.
WithKillmails == {"timed", "partlyTimed", "untimed"}
AllAnswers == {"error", "row", "empty"} \cup WithKillmails

AnswersAreKnown == Answers \subseteq AllAnswers

\* The warnings an answer gives rise to: SUMMARY_FAILED or DETAIL_FAILED,
\* DETAIL_TIME_INVALID, DETAIL_TIME_MISSING.
Codes(a) == CASE a = "error" -> {"FAILED"}
              [] a = "partlyTimed" -> {"TIME_INVALID"}
              [] a = "untimed" -> {"TIME_INVALID", "TIME_MISSING"}
              [] OTHER -> {}

Gathered(f) ==
    [fetched  |-> {i \in DOMAIN f : f[i] # "error"},
     evidence |-> {i \in DOMAIN f : f[i] \in WithKillmails},
     warnings |-> UNION {{i} \X Codes(f[i]) : i \in DOMAIN f}]

Init == ret = {}

Return ==
    /\ ret = {}
    /\ \E f \in [Known -> Answers] : ret' = {Gathered(f)}

Spec == Init /\ [][Return]_ret
=============================================================================
