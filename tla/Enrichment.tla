----------------------------- MODULE Enrichment -----------------------------
(***************************************************************************)
(* What one enrichPilots makes of the answers of the fan-outs: baseline    *)
(* rows from the summaries, the choice of the pilots whose killmails are   *)
(* fetched, the evidence of those killmails, the merge of both, and the    *)
(* warnings, of which those about unusable timestamps are aggregated by    *)
(* the caller; and what the frontend shows of it.  A step is a stage.      *)
(* Times are days, 0 is the zero time.  The specification has names of its *)
(* own, for a module that extends AppService, which calls it, as well.     *)
(***************************************************************************)
EXTENDS Integers, FiniteSets, Sequences, Functions, ThreatView
CONSTANTS Pilots,
          Ships,        \* names of ships, NoShip among them
          Summaries,    \* answers of FetchSummary: rows, or Failed
          Feeds,        \* answers of FetchRecentByCharacter: mails, or Failed
          Failed,
          Absent, Garbled,   \* a time field that is empty, or that no layout parses
          Budget,       \* DefaultDetailTargetTopN
          Now, Interval

Days == Nat \ {0}
Killmails == [loss : BOOLEAN, times : [1..3 -> Days \cup {Absent, Garbled}], ship : Ships]
ASSUME EnrichmentAssumption ==
    /\ IsFiniteSet(Pilots) /\ Budget \in Nat \ {0} /\ Now \in Days /\ Interval \in Nat \ {0}
    /\ Summaries \ {Failed} \subseteq [kills : Nat, losses : Nat, danger : Nat, last : Nat]
    /\ Feeds \ {Failed} \subseteq Seq(Killmails)
    /\ {Absent, Garbled} \cap Days = {} /\ NoShip \in Ships

VARIABLES explicit, chosen,   \* the arguments explicitRefresh and selectedPilotID
          summary, feed,      \* what the providers answer
          stage,
          row,                \* pilots: the threat and its freshness
          reason,             \* ReasonsByID
          warnings,           \* of fetchSummaryRows and fetchDetails, then aggregated
          session,            \* the freshness of the whole
          display,            \* AnalysisSessionDTO.WarningDisplay
          view                \* the rows on the screen

enrichVars == <<explicit, chosen, summary, feed, stage, row, reason, warnings, session, display, view>>

\* Of two times the later one; the zero time is before all others.
Mutant_First(a, b) == IF a = 0 THEN b ELSE a
Later(a, b) == IF a > b THEN a ELSE b

-----------------------------------------------------------------------------
\* parseKillmails: of a killmail's three time fields the first that can be parsed.
Usable(times) == {i \in DOMAIN times : times[i] \notin {Absent, Garbled}}
FirstUsable(times) == times[CHOOSE i \in Usable(times) : \A j \in Usable(times) : i =< j]
Parsed(m) ==
    [loss |-> m.loss, ship |-> m.ship,
     time |-> IF Usable(m.times) = {} THEN 0 ELSE FirstUsable(m.times),
     class |-> IF Usable(m.times) # {} THEN "valid"
               ELSE IF Range(m.times) = {Absent} THEN "missing" ELSE "invalid"]

\* deriveDetailThreatEvidence, one killmail after the other.
NoEvidence == [kills |-> 0, losses |-> 0, lastKill |-> 0, lastLoss |-> 0,
               valid |-> 0, bad |-> 0, missing |-> 0, ships |-> <<>>]

With(e, km) ==
    [kills |-> e.kills + (IF km.loss THEN 0 ELSE 1),
     losses |-> e.losses + (IF km.loss THEN 1 ELSE 0),
     lastKill |-> IF km.loss THEN e.lastKill ELSE Later(e.lastKill, km.time),
     lastLoss |-> IF km.loss THEN Later(e.lastLoss, km.time) ELSE e.lastLoss,
     valid |-> e.valid + (IF km.class = "valid" THEN 1 ELSE 0),
     bad |-> e.bad + (IF km.class = "valid" THEN 0 ELSE 1),
     missing |-> e.missing + (IF km.class = "missing" THEN 1 ELSE 0),
     ships |-> IF km.ship = NoShip THEN e.ships ELSE Append(e.ships, km.ship)]

Evidence(mails) ==
    LET e[i \in 0..Len(mails)] == IF i = 0 THEN NoEvidence ELSE With(e[i - 1], Parsed(mails[i]))
    IN  e[Len(mails)]

\* The ship met most; of several the map gives any.
Sightings(ships, s) == Cardinality({i \in DOMAIN ships : ships[i] = s})
MainShips(e) ==
    IF e.ships = <<>> THEN {NoShip}
    ELSE {s \in Range(e.ships) : \A o \in Range(e.ships) : Sightings(e.ships, o) =< Sightings(e.ships, s)}

-----------------------------------------------------------------------------
\* mergePilotThreat.  Evidence with a killmail always has combat volume, so that its
\* cases "detail" and "partial" do not come up.
Age(t) == Now - t
Freshness(source, last) ==
    LET asOf == IF last = 0 THEN Now ELSE last
    IN  [source |-> source, asOf |-> asOf, stale |-> Age(asOf) > Interval]

Volume(e) == e.kills + e.losses > 0
LastActivity(s, e) == IF e.valid > 0 THEN Later(e.lastKill, e.lastLoss) ELSE s.last

\* Whatever is dated is as of its last activity: for the engine no pilot is ever inactive.
Figures(s, e) ==
    [kills |-> IF Volume(e) THEN e.kills ELSE s.kills,
     losses |-> IF Volume(e) THEN e.losses ELSE s.losses,
     danger |-> IF Volume(e) THEN (Full * e.kills) \div (e.kills + e.losses) ELSE s.danger,
     last |-> LastActivity(s, e),
     snapshot |-> IF LastActivity(s, e) = 0 THEN Now ELSE LastActivity(s, e)]
Threat(s, e, ship) ==
    LET in == Figures(s, e)
    IN  [kills |-> in.kills, losses |-> in.losses, danger |-> in.danger,
         lastKill |-> e.lastKill, lastLoss |-> e.lastLoss, ship |-> ship,
         score |-> Score(in), band |-> BandForScore(Score(in)), reasons |-> Reasons(in)]
MergedFreshness(s, e) == Freshness(IF Volume(e) THEN "mixed" ELSE "summary", LastActivity(s, e))

\* A summary that failed is the zero row.
ZeroRow == [kills |-> 0, losses |-> 0, danger |-> 0, last |-> 0]
SummaryOf(p) == IF summary[p] = Failed THEN ZeroRow ELSE summary[p]

\* Evidence without a usable time leaves the freshness of the baseline.
RowFreshness(p, e) ==
    IF Volume(e) /\ e.valid = 0 THEN row[p].fresh ELSE MergedFreshness(SummaryOf(p), e)

-----------------------------------------------------------------------------
EnrichInit ==
    /\ explicit \in BOOLEAN /\ chosen \in IF explicit THEN {0} ELSE Pilots \cup {0}
    /\ summary \in [Pilots -> Summaries] /\ feed \in [Pilots -> Feeds]
    /\ stage = "summaries" /\ row = <<>> /\ reason = <<>> /\ warnings = {} /\ session = <<>>
    /\ display = <<>> /\ view = <<>>

\* A warning of newWarning, without counts.
Lost(p, code) == [pilot |-> p, code |-> code, failures |-> 0, missing |-> 0, unparseable |-> 0]

Baseline ==
    /\ stage = "summaries" /\ stage' = "select"
    /\ row' = [p \in Pilots |-> [threat |-> Threat(SummaryOf(p), NoEvidence, NoShip),
                                 fresh |-> MergedFreshness(SummaryOf(p), NoEvidence)]]
    /\ warnings' = {Lost(p, "SUMMARY_FAILED") : p \in {q \in Pilots : summary[q] = Failed}}
    /\ UNCHANGED <<explicit, chosen, summary, feed, reason, session, display, view>>

\* The first Budget pilots by score, descending; the sort leaves ties in any order.
Mutant_Ascending(t) ==
    {top \in SUBSET Pilots : /\ Cardinality(top) = Least(Budget, Cardinality(Pilots))
                             /\ \A p \in top, q \in Pilots \ top : t[p] =< t[q]}
Top(t) ==
    {top \in SUBSET Pilots : /\ Cardinality(top) = Least(Budget, Cardinality(Pilots))
                             /\ \A p \in top, q \in Pilots \ top : t[p] >= t[q]}

Idle(p) == row[p].threat.kills + row[p].threat.losses = 0
ReasonFor(p, top) == IF explicit THEN "explicit_refresh"
                     ELSE IF p \in top THEN "top_threat_budget"
                     ELSE IF p = chosen THEN "selected_pilot"
                     ELSE IF Idle(p) THEN "zero_activity_bootstrap" ELSE ""

\* SelectDetailFetchTargets.
Select ==
    /\ stage = "select" /\ stage' = "details"
    /\ \E top \in Top([p \in Pilots |-> row[p].threat.score]) :
          reason' = [p \in Pilots |-> ReasonFor(p, top)]
    /\ UNCHANGED <<explicit, chosen, summary, feed, row, warnings, session, display, view>>

Targets == {p \in Pilots : reason[p] # ""}
Answered(p) == p \in Targets /\ feed[p] # Failed
EvidenceOf(p) == IF Answered(p) THEN Evidence(feed[p]) ELSE NoEvidence

\* The warnings of fetchDetails on one pilot.
Bad(p, e) == [pilot |-> p, code |-> "DETAIL_TIME_INVALID",
              failures |-> e.bad, missing |-> e.missing, unparseable |-> e.bad - e.missing]
NoTime(p, e) == [pilot |-> p, code |-> "DETAIL_TIME_MISSING",
                 failures |-> e.bad, missing |-> 0, unparseable |-> 0]
WarningsOn(p) ==
    LET e == EvidenceOf(p)
    IN  {w \in {Bad(p, e), NoTime(p, e), Lost(p, "DETAIL_FAILED")} :
            \/ w.code = "DETAIL_FAILED" /\ p \in Targets /\ feed[p] = Failed
            \/ w.code = "DETAIL_TIME_INVALID" /\ e.bad > 0
            \/ w.code = "DETAIL_TIME_MISSING" /\ Volume(e) /\ e.valid = 0}

\* fetchDetails and the loop that merges.
Details ==
    /\ stage = "details" /\ stage' = "compose"
    /\ warnings' = warnings \cup UNION {WarningsOn(p) : p \in Pilots}
    /\ \E ship \in [Pilots -> UNION {MainShips(EvidenceOf(p)) : p \in Pilots}] :
          /\ \A p \in Pilots : ship[p] \in MainShips(EvidenceOf(p))
          /\ row' = [p \in Pilots |-> [threat |-> Threat(SummaryOf(p), EvidenceOf(p), ship[p]),
                                       fresh |-> RowFreshness(p, EvidenceOf(p))]]
    /\ UNCHANGED <<explicit, chosen, summary, feed, reason, session, display, view>>

\* The freshness of the session: as old as its oldest pilot, stale with any of them.
Mutant_Newest(asOfs) == CHOOSE t \in asOfs : \A u \in asOfs : t >= u
Oldest(asOfs) == CHOOSE t \in asOfs : \A u \in asOfs : t =< u

\* aggregateTimestampWarnings: one warning for each pilot, its counts summed up.
Timing(w) == w.code \in {"DETAIL_TIME_INVALID", "DETAIL_TIME_MISSING"}
Hinted(ws) == {w.pilot : w \in {v \in ws : Timing(v)}}
On(ws, p, code) == {w \in ws : w.pilot = p /\ w.code = code}
Mutant_ByCode(ws) == ws
Aggregate(bad, noTime, p) ==   \* fetchDetails has at most one of each code for a pilot
    LET First(on) == IF on = {} THEN Lost(p, "") ELSE CHOOSE w \in on : TRUE
    IN  [pilot |-> p,
         code |-> IF noTime # {} THEN "DETAIL_TIME_MISSING" ELSE "DETAIL_TIME_INVALID",
         failures |-> First(bad).failures + First(noTime).failures,
         missing |-> First(bad).missing + First(noTime).missing,
         unparseable |-> First(bad).unparseable + First(noTime).unparseable]
Aggregated(ws) ==
    {w \in ws : ~Timing(w)} \cup
    {Aggregate(On(ws, p, "DETAIL_TIME_INVALID"), On(ws, p, "DETAIL_TIME_MISSING"), p) : p \in Hinted(ws)}

Compose ==
    /\ stage = "compose" /\ stage' = "done"
    /\ session' = [asOf |-> Oldest({Now} \cup {row[p].fresh.asOf : p \in Pilots}),
                   stale |-> \E p \in Pilots : row[p].fresh.stale]
    /\ warnings' = Aggregated(warnings)
    /\ UNCHANGED <<explicit, chosen, summary, feed, row, reason, display, view>>

\* buildWarningDisplay.  What makes two warnings one item: the label is the code's own for
\* timestamps and else the message, which names the pilot.
Key(w) == [code |-> w.code, about |-> IF Timing(w) THEN 0 ELSE w.pilot]
Items(ws) ==
    {[code |-> k.code, count |-> Cardinality({w \in ws : Key(w) = k}),
      recency |-> k.code = "DETAIL_TIME_MISSING", timestamps |-> Timing(k)] : k \in {Key(w) : w \in ws}}
Displayed(ws) ==
    [global |-> Items(ws),
     hints |-> [p \in Hinted(ws) |-> Cardinality({w \in ws : Timing(w) /\ w.pilot = p})],
     byPilot |-> [p \in Hinted(ws) |-> Items({w \in ws : Timing(w) /\ w.pilot = p})]]

\* toAnalysisSessionDTO, as far as the warnings go.
Display ==
    /\ stage = "done" /\ stage' = "shown" /\ display' = Displayed(warnings)
    /\ UNCHANGED <<explicit, chosen, summary, feed, row, reason, warnings, session, view>>

\* The frontend: toAnalysisSessionView and the rows of the table.
Show ==
    /\ stage = "shown" /\ stage' = "seen"
    /\ view' = [p \in Pilots |-> View(row[p].threat, {w \in warnings : w.pilot = p},
                                      p \in DOMAIN display.hints)]
    /\ UNCHANGED <<explicit, chosen, summary, feed, row, reason, warnings, session, display>>

EnrichNext == Baseline \/ Select \/ Details \/ Compose \/ Display \/ Show
EnrichSpec == EnrichInit /\ [][EnrichNext]_enrichVars

-----------------------------------------------------------------------------
Fresh == [source : {"summary", "mixed"}, asOf : Days, stale : BOOLEAN]
Threats == [kills : Nat, losses : Nat, danger : Nat, lastKill : Nat, lastLoss : Nat,
            ship : Ships, score : 0..Full, band : Range(Bands), reasons : SUBSET DOMAIN Weight]

\* Types: counts are never negative, whatever classes of timestamps a feed mixes.
EnrichTypeOK ==
    /\ stage \in {"summaries", "select", "details", "compose", "done", "shown", "seen"}
    /\ stage # "summaries" => \A p \in Pilots : row[p].threat \in Threats /\ row[p].fresh \in Fresh
    /\ \A w \in warnings : w.failures \in Nat /\ w.missing \in Nat /\ w.unparseable \in Nat

Mails(p) == IF Answered(p) THEN Range(feed[p]) ELSE {}
HasTime(m) == \E t \in Range(m.times) : t \in Days
Latest(mails) ==
    LET times == {Parsed(m).time : m \in mails}
    IN  IF times = {} THEN 0 ELSE CHOOSE t \in times : \A u \in times : t >= u

\* A pilot whose killmails were fetched has their counts and latest times, in whatever
\* order they came and however many of their time fields are unusable, and is as fresh
\* as the latest; without one usable time its freshness is the summary's.  Any other
\* pilot keeps what the summary says.
RowsMatchFeeds ==
    stage \in {"compose", "done"} => \A p \in Pilots :
        LET timed == {m \in Mails(p) : HasTime(m)}
        IN  /\ row[p].fresh = IF timed = {} THEN MergedFreshness(SummaryOf(p), NoEvidence)
                              ELSE [source |-> "mixed", asOf |-> Latest(timed),
                                    stale |-> Age(Latest(timed)) > Interval]
            /\ IF Mails(p) = {} THEN row[p].threat = Threat(SummaryOf(p), NoEvidence, NoShip)
               ELSE /\ row[p].threat.kills = Cardinality({i \in DOMAIN feed[p] : ~feed[p][i].loss})
                    /\ row[p].threat.losses = Cardinality({i \in DOMAIN feed[p] : feed[p][i].loss})
                    /\ row[p].threat.lastKill = Latest({m \in timed : ~m.loss})
                    /\ row[p].threat.lastLoss = Latest({m \in timed : m.loss})

\* A pilot without details is not idle, not the selected one, and scores by its summary no
\* more than any of those chosen for their rank, of whom there are never more than the budget.
BudgetIsForTheTop ==
    stage \in {"compose", "done"} /\ ~explicit =>
        LET top == {p \in Pilots : reason[p] = "top_threat_budget"}
            rank == [p \in Pilots |-> Score(Figures(SummaryOf(p), NoEvidence))]
        IN  /\ Cardinality(top) =< Budget
            /\ \A p \in Pilots \ Targets :
                  /\ p # chosen /\ SummaryOf(p).kills + SummaryOf(p).losses > 0
                  /\ \A q \in top : rank[q] >= rank[p]

\* A session that is not stale has no pilot whose data is older than the interval, and it
\* is as old as the oldest of them.
SessionIsAsOldAsItsPilots ==
    stage = "done" =>
        /\ \A p \in Pilots : session.asOf =< row[p].fresh.asOf
        /\ session.asOf = Now \/ \E p \in Pilots : session.asOf = row[p].fresh.asOf
        /\ ~session.stale => \A p \in Pilots : Age(row[p].fresh.asOf) =< Interval

Unusable(p) == {m \in Mails(p) : ~HasTime(m)}
Warned == {p \in Pilots : Unusable(p) # {}}
Timeless == {p \in Warned : Unusable(p) = Mails(p)}
LostOnes == {p \in Targets : feed[p] = Failed}
Unknown == {p \in Pilots : summary[p] = Failed}
About(code) == {w.pilot : w \in {v \in warnings : v.code = code}}

ReportedOnce ==
    /\ About("SUMMARY_FAILED") = Unknown /\ About("DETAIL_FAILED") = LostOnes
    /\ About("DETAIL_TIME_MISSING") = Timeless /\ About("DETAIL_TIME_INVALID") = Warned \ Timeless
    /\ \A w \in warnings :
          Timing(w) => w.missing + w.unparseable
                          = Cardinality({i \in DOMAIN feed[w.pilot] : ~HasTime(feed[w.pilot][i])})
CountedOnce ==
    /\ DOMAIN display.hints = Warned /\ DOMAIN display.byPilot = Warned
    /\ \A p \in Warned : display.hints[p] = 1 /\ Cardinality(display.byPilot[p]) = 1
    /\ \A item \in display.global :
          item.count = IF item.recency THEN Cardinality(Timeless)
                       ELSE IF item.timestamps THEN Cardinality(Warned \ Timeless) ELSE 1
SeenAsReported(p) ==
    /\ view[p].badge = IF p \in Warned THEN "active"
                       ELSE IF p \in LostOnes \cup Unknown THEN "muted" ELSE "none"
    /\ view[p].pane = IF p \in Timeless THEN {"Recent activity incomplete"}
                      ELSE IF p \in Warned THEN {"Partial timestamps"} ELSE {}
    /\ p \in Warned \cup LostOnes => view[p].lastSeenState = "partial"

\* After aggregation a pilot has one warning on its timestamps, exactly if some are
\* unusable, of the graver kind exactly if all are, and it counts those killmails; failed
\* fetches are all still reported.  The items of the session count the pilots concerned,
\* each of them once.  On the screen exactly those pilots have the active badge, the pane
\* says which of the two it is, and the last activity of a pilot is qualified if it is
\* unusable or unknown for some killmails (aggregateTimestampWarnings, buildWarningDisplay,
\* toAnalysisSessionView).
WarnedOnce ==
    /\ stage = "done" => ReportedOnce
    /\ stage = "shown" => CountedOnce
    /\ stage = "seen" => \A p \in Pilots : SeenAsReported(p)

\* Of two pilots the one with no fewer kills, as many losses, no less danger and a date if
\* the other has one scores no less, although the engine divides by the volume and by the
\* weight of what is known; and bands order pilots as scores do (Engine.Score).
ScoreOrdersEvidence ==
    stage = "compose" => \A p, q \in Pilots :
        LET a == row[p].threat
            b == row[q].threat
            dated == [r \in {p, q} |-> "recentness" \in row[r].threat.reasons]
            Place(t) == CHOOSE i \in DOMAIN Bands : Bands[i] = t.band
        IN  /\ a.kills >= b.kills /\ a.losses = b.losses /\ a.danger >= b.danger
               /\ (dated[q] => dated[p]) => a.score >= b.score
            /\ a.score >= b.score => Place(a) >= Place(b)

\* Somebody has told something of the pilot: its summary came, or a killmail.
Told(p) == summary[p] # Failed \/ Mails(p) # {}

\* What the screen shows of a pilot is what the backend has: every number that is not zero
\* comes through the adapter and the row mapper as it is, a dash stands for zeros the
\* providers told of a scored pilot, or for the danger of one without a score, the last
\* activity is the later of both, and the band is the backend's, minimal and low being one
\* (resolvePilotMetrics, toPilotView, toThreatRowView).  The kills and losses of a pilot
\* nobody told anything of are the matter of MissingStatsAreMarked.
ShownAsScored ==
    stage = "seen" => \A p \in Pilots :
        LET t == row[p].threat
            v == view[p]
            nothing == t.kills + t.losses + t.danger = 0 /\ t.ship = NoShip
        IN  /\ Told(p) => /\ v.kills \in {t.kills} \cup (IF nothing THEN {NoValue} ELSE {})
                          /\ v.losses \in {t.losses} \cup (IF nothing THEN {NoValue} ELSE {})
            /\ v.danger = IF nothing \/ t.score = 0 THEN NoValue ELSE t.danger
            /\ nothing /\ t.score > 0 => v.kills = NoValue /\ v.losses = NoValue
            /\ {t.lastKill, t.lastLoss} \subseteq 0..v.lastSeen /\ v.lastSeen \in {t.lastKill, t.lastLoss}
            /\ v.band = IF t.band = "minimal" THEN "low" ELSE t.band
            /\ 100 * v.score =< t.score + 50 /\ t.score < 100 * v.score + 50

\* A pilot of whom nobody told anything does not pass for one with a record of zeros.
\* "Missing stats stay `-` and must not fallback to fabricated defaults (`0`, ...)", and
\* "Pilot-scoped warnings appear on pilot row badge + detail panel"
\* (docs/milestones/local-intel-screen-v3.md:11, 29): its kills and losses are dashes, or
\* at the least its pane says that they could not be loaded.
MissingStatsAreMarked ==
    stage = "seen" => \A p \in Pilots : ~Told(p) =>
        \/ view[p].kills = NoValue /\ view[p].losses = NoValue
        \/ view[p].pane # {}

=============================================================================
