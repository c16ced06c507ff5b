----------------------------- MODULE AppService -----------------------------
(***************************************************************************)
(* The session registry of internal/app/app_service.go under overlapping   *)
(* calls: Wails runs every bound method on a goroutine of its own, and the *)
(* mutex of AppService covers single map accesses, not whole calls.        *)
(* AnalyzePastedText publishes a new session; RefreshSession and           *)
(* RefreshPilot take a copy of a session, enrich it without the mutex and  *)
(* write the whole copy back.                                              *)
(*                                                                         *)
(* A stretch of code under the mutex is one step, and so is one that       *)
(* touches no shared state: enrichment asks the providers and returns one  *)
(* gathering of their answers, which is what FetchPool is proved to do.    *)
(*                                                                         *)
(* Three things are shared without the mutex.  a.settings is copied field  *)
(* by field into a new session, or into the answer of LoadSettings and of  *)
(* SaveSettings itself, while SaveSettings may write it.  A                *)
(* session's DurationMetrics is one Go map, shared by every copy of the    *)
(* session and by the DTOs Wails marshals: RefreshSession writes it, and   *)
(* an overlapping write or iteration may abort the process.  And the clock *)
(* is read before the write the reading stands for.                        *)
(*                                                                         *)
(* Time is the order of the clock's readings, no two of them equal.        *)
(* MaxClock bounds the readings, and so the analyses and refreshes;        *)
(* MaxSessions bounds the sessions there are at a time.                    *)
(***************************************************************************)
EXTENDS Integers, FiniteSets

CONSTANTS Procs,     \* goroutines that run bound methods
          Chars,     \* characters a paste may name
          TopN,      \* DefaultDetailTargetTopN
          Saves,     \* settings the user tries to save
          MaxClock,  \* bound on the readings of the clock
          MaxSessions, \* bound on the sessions at a time
          None

ASSUME CharsAssumption == IsFiniteSet(Chars) /\ None \notin Chars
ASSUME BoundsAssumption == {TopN, MaxClock, MaxSessions} \subseteq Nat

VARIABLES front,     \* "ui": the bindings the frontend calls; "all": all
          up,        \* the process runs
          clock,     \* the latest reading
          settings,  \* a.settings
          form,      \* the frontend's settings form
          saving,    \* what it has submitted, until SaveSettings runs
          sessions,  \* a.sessions; a session id is the reading it is made of
          pc, op,    \* each goroutine's place and the method it runs
          id, sel,   \* its arguments: session and pilot
          copy       \* its local AnalysisSession

vars == <<front, up, clock, settings, form, saving, sessions, pc, op, id, sel, copy>>

Ids == 1..MaxClock

settingsForm == <<form, saving>>

\* Settings in two halves, as much as a torn copy can mix; what Validate
\* demands of them relates the halves (low <= medium <= high <= critical).
Halves == {"low", "high"}
Settings == [Halves -> 1..2]
Default == [h \in Halves |-> 2]
Uncopied == [h \in Halves |-> 0]
Ordered(s) == s["low"] <= s["high"]

ASSUME SavesAssumption == Saves \subseteq Settings

\* A session.  chars, unresolved: from Source, never from the pilots.
\* requested, fetched: the pilots with DetailRequested, DetailFetched.
\* failed: the pilots with a DETAIL_FAILED warning.
\* asked, got: the two counts of DetailCoverage.
Session ==
    [created : Ids, updated : Ids, settings : [Halves -> 0..2],
     chars : SUBSET Chars, unresolved : BOOLEAN,
     requested : SUBSET Chars, fetched : SUBSET Chars, failed : SUBSET Chars,
     asked : 0..Cardinality(Chars), got : 0..Cardinality(Chars)]

(* State types.                                                            *)
TypeOK ==
    /\ front \in {"ui", "all"}
    /\ up \in BOOLEAN
    /\ clock \in 0..MaxClock
    /\ settings \in Settings
    /\ form \in [Halves -> 0..2]
    /\ saving = None \/ saving \in Settings
    /\ \A i \in Ids : sessions[i] = None \/ sessions[i] \in Session
    /\ pc \in [Procs -> {"idle", "resolve", "settings", "enrich", "merge",
                         "write", "marshal"}]
    /\ op \in [Procs -> {"none", "analyze", "session", "pilot", "recent"}]
    /\ id \in [Procs -> Ids \cup {0}]
    /\ sel \in [Procs -> Chars \cup {None}]
    /\ \A p \in Procs : copy[p] = None \/ copy[p] \in Session

Init ==
    /\ front \in {"ui", "all"}
    /\ up = TRUE
    /\ clock = 0
    /\ settings = Default
    /\ form = Uncopied
    /\ saving = None
    /\ sessions = [i \in Ids |-> None]
    /\ pc = [p \in Procs |-> "idle"]
    /\ op = [p \in Procs |-> "none"]
    /\ id = [p \in Procs |-> 0]
    /\ sel = [p \in Procs |-> None]
    /\ copy = [p \in Procs |-> None]

-----------------------------------------------------------------------------
Goto(p, place) == pc' = [pc EXCEPT ![p] = place]
Edit(p, s) == copy' = [copy EXCEPT ![p] = s]

Begin(p, o, i, c, place, s) ==
    /\ pc[p] = "idle"
    /\ op' = [op EXCEPT ![p] = o]
    /\ id' = [id EXCEPT ![p] = i]
    /\ sel' = [sel EXCEPT ![p] = c]
    /\ Goto(p, place)
    /\ Edit(p, s)

End(p) ==
    /\ Goto(p, "idle")
    /\ op' = [op EXCEPT ![p] = "none"]
    /\ id' = [id EXCEPT ![p] = 0]
    /\ sel' = [sel EXCEPT ![p] = None]
    /\ Edit(p, None)

\* SelectDetailFetchTargets.  Which pilots are the topN by threat and which
\* have no activity is the providers' business.
Explicit(chars) == {chars}
Policy(chars, selected) ==
    LET topN == IF TopN < Cardinality(chars) THEN TopN ELSE Cardinality(chars)
    IN {R \in SUBSET chars : Cardinality(R) >= topN /\ selected \subseteq R}

\* enrichPilots on session s with targets R, of which F were answered.
Mutant_WarningsKept(s, R, F) ==
    [s EXCEPT !.requested = R, !.fetched = F,
              !.asked = Cardinality(R), !.got = Cardinality(F)]
Mutant_SourceFromPilots(s, R, F) ==
    [s EXCEPT !.requested = R, !.fetched = F, !.failed = R \ F, !.chars = F,
              !.asked = Cardinality(R), !.got = Cardinality(F)]
Enriched(s, R, F) ==
    [s EXCEPT !.requested = R, !.fetched = F, !.failed = R \ F,
              !.asked = Cardinality(R), !.got = Cardinality(F)]

CoverageOfOne(s, c) ==
    [s EXCEPT !.asked = 1, !.got = IF c \in s.fetched THEN 1 ELSE 0]

\* Accesses to the DurationMetrics map of session i by other goroutines.
Writing == {"merge"}
Reading == {"marshal"}
Others(p, i, places) == \E q \in Procs \ {p} : id[q] = i /\ pc[q] \in places

\* A clash is detected by the Go runtime, or goes unnoticed.
MayAbort(clash) == up' \in IF clash THEN BOOLEAN ELSE {TRUE}

-----------------------------------------------------------------------------
\* The sessions there are or will be.
Begun == {i \in Ids : sessions[i] # None}
            \cup {id[p] : p \in {q \in Procs : op[q] = "analyze"}}

(* AnalyzePastedText: the clock is read, the ids are made of the reading.  *)
Analyze(p) ==
    /\ clock < MaxClock
    /\ Cardinality(Begun) < MaxSessions
    /\ clock' = clock + 1
    /\ Begin(p, "analyze", clock + 1, None, "resolve", None)
    /\ UNCHANGED <<settingsForm, front, up, settings, sessions>>

\* resolveIdentities.  A lookup that fails leaves no character and no
\* unresolved name; one that fails for some leaves them out.
Identified == [chars : SUBSET Chars, unresolved : BOOLEAN]

\* The parse, resolveIdentities and enrichPilots.
Resolve(p) ==
    /\ pc[p] = "resolve"
    /\ \E r \in Identified :
       \E R \in Policy(r.chars, {}) : \E F \in SUBSET R :
          Edit(p, Enriched([created |-> id[p], updated |-> id[p],
                     settings |-> Uncopied, chars |-> r.chars,
                     unresolved |-> r.unresolved,
                     requested |-> {}, fetched |-> {}, failed |-> {},
                     asked |-> 0, got |-> 0], R, F))
    /\ Goto(p, "settings")
    /\ UNCHANGED <<settingsForm, front, up, clock, settings, sessions, op, id, sel>>

\* Settings: a.settings, without the mutex.
CopyHalf(p, h) ==
    /\ pc[p] = "settings"
    /\ copy[p].settings[h] = 0
    /\ Edit(p, [copy[p] EXCEPT !.settings[h] = settings[h]])
    /\ UNCHANGED <<settingsForm, front, up, clock, settings, sessions, pc, op, id, sel>>

\* Validate, and the session is published.
Mutant_NotValidated(s) == TRUE
Validated(s) == Ordered(s)

Publish(p) ==
    /\ pc[p] = "settings"
    /\ \A h \in Halves : copy[p].settings[h] # 0
    /\ IF Validated(copy[p].settings)
       THEN /\ sessions' = [sessions EXCEPT ![id[p]] = copy[p]]
            /\ Goto(p, "marshal")
            /\ Edit(p, None)
            /\ UNCHANGED <<op, id, sel>>
       ELSE End(p) /\ UNCHANGED sessions
    /\ UNCHANGED <<settingsForm, front, up, clock, settings>>

-----------------------------------------------------------------------------
(* RefreshSession and RefreshPilot: a copy is taken under the mutex.  A    *)
(* session that is not there, or does not hold the pilot, is an error that *)
(* changes nothing.                                                        *)
RefreshSession(p, i) ==
    /\ front = "all"
    /\ sessions[i] # None
    /\ Begin(p, "session", i, None, "enrich", sessions[i])
    /\ UNCHANGED <<settingsForm, front, up, clock, settings, sessions>>

RefreshPilot(p, i, c) ==
    /\ front = "all"
    /\ sessions[i] # None
    /\ c \in sessions[i].chars
    /\ Begin(p, "pilot", i, c, "enrich", sessions[i])
    /\ UNCHANGED <<settingsForm, front, up, clock, settings, sessions>>

EnrichSession(p) ==
    /\ pc[p] = "enrich"
    /\ op[p] = "session"
    /\ \E R \in Explicit(copy[p].chars) : \E F \in SUBSET R :
          Edit(p, Enriched(copy[p], R, F))
    /\ MayAbort(Others(p, id[p], Reading \cup Writing))
    /\ Goto(p, "merge")
    /\ UNCHANGED <<settingsForm, front, clock, settings, sessions, op, id, sel>>

\* s.UpdatedAt = time.Now(), with the mutex not yet held.
Stamped(s) == [s EXCEPT !.updated = clock + 1]

EnrichPilot(p) ==
    /\ pc[p] = "enrich"
    /\ op[p] = "pilot"
    /\ clock < MaxClock
    /\ clock' = clock + 1
    /\ \E R \in Policy(copy[p].chars, {sel[p]}) : \E F \in SUBSET R :
          Edit(p, Stamped(CoverageOfOne(Enriched(copy[p], R, F), sel[p])))
    /\ Goto(p, "write")
    /\ UNCHANGED <<settingsForm, front, up, settings, sessions, op, id, sel>>

Stamp(p) ==
    /\ pc[p] = "merge"
    /\ clock < MaxClock
    /\ clock' = clock + 1
    /\ Edit(p, Stamped(copy[p]))
    /\ Goto(p, "write")
    /\ UNCHANGED <<settingsForm, front, up, settings, sessions, op, id, sel>>

\* The whole copy goes back, whatever is there by now.
Write(p) ==
    /\ pc[p] = "write"
    /\ sessions' = [sessions EXCEPT ![id[p]] = copy[p]]
    /\ IF op[p] = "session"
       THEN /\ Goto(p, "marshal")
            /\ Edit(p, None)
            /\ MayAbort(Others(p, id[p], Writing))
            /\ UNCHANGED <<op, id, sel>>
       ELSE End(p) /\ UNCHANGED up
    /\ UNCHANGED <<settingsForm, front, clock, settings>>

-----------------------------------------------------------------------------
(* LoadRecentSessions: the map is iterated in any order up to the limit,   *)
(* so any one session may be among those returned and marshalled.          *)
LoadRecent(p, i) ==
    /\ sessions[i] # None
    /\ MayAbort(Others(p, i, Writing))
    /\ Begin(p, "recent", i, None, "marshal", None)
    /\ UNCHANGED <<settingsForm, front, clock, settings, sessions>>

(* Wails has marshalled the DTO, DurationMetrics included.                 *)
Return(p) ==
    /\ pc[p] = "marshal"
    /\ End(p)
    /\ UNCHANGED <<settingsForm, front, up, clock, settings, sessions>>

SaveSettings(s) ==
    /\ Ordered(s)
    /\ settings' = s
    /\ UNCHANGED <<front, up, clock, sessions, pc, op, id, sel, copy>>

-----------------------------------------------------------------------------
FormOnly == UNCHANGED <<front, up, clock, settings, sessions, pc, op, id, sel, copy>>
Loaded == \A h \in Halves : form[h] # 0

(* initializeSettingsForm; a submission may still be under way.            *)
OpenForm ==
    /\ front = "ui"
    /\ form' = Uncopied
    /\ UNCHANGED saving
    /\ FormOnly

(* LoadSettings, and SaveSettings when it returns a.settings.              *)
LoadHalf(h) ==
    /\ front = "ui"
    /\ form[h] = 0
    /\ form' = [form EXCEPT ![h] = settings[h]]
    /\ UNCHANGED saving
    /\ FormOnly

Change(h, v) ==
    /\ Loaded
    /\ form' = [form EXCEPT ![h] = v]
    /\ UNCHANGED saving
    /\ FormOnly

(* persistSettings: what validateSettings refuses is not sent.             *)
Submit ==
    /\ Loaded
    /\ saving = None
    /\ Ordered(form)
    /\ saving' = form
    /\ UNCHANGED form
    /\ FormOnly

(* The form takes what SaveSettings returns.                               *)
Saved ==
    /\ saving # None
    /\ SaveSettings(saving)
    /\ saving' = None
    /\ form' = Uncopied

Form == OpenForm \/ Submit \/ Saved \/ \E h \in Halves : LoadHalf(h) \/ \E v \in 1..2 : Change(h, v)

ClearCache ==
    /\ front = "all"
    /\ sessions' = [i \in Ids |-> None]
    /\ UNCHANGED <<settingsForm, front, up, clock, settings, pc, op, id, sel, copy>>

Call(p) ==
    \/ Analyze(p)
    \/ \E i \in Ids : RefreshSession(p, i) \/ LoadRecent(p, i)
    \/ \E i \in Ids, c \in Chars : RefreshPilot(p, i, c)

Work(p) ==
    \/ Resolve(p) \/ Publish(p) \/ EnrichSession(p) \/ EnrichPilot(p)
    \/ Stamp(p) \/ Write(p) \/ Return(p)
    \/ \E h \in Halves : CopyHalf(p, h)

Next ==
    /\ up
    /\ \/ \E p \in Procs : Call(p) \/ Work(p)
       \/ Form
       \/ \E s \in Saves : front = "all" /\ SaveSettings(s) /\ UNCHANGED settingsForm
       \/ ClearCache

Spec == Init /\ [][Next]_vars

(* A call that has begun goes on: no step of it waits for another call.    *)
Fairness == \A p \in Procs : WF_vars(up /\ Work(p))

FairSpec == Spec /\ Fairness

-----------------------------------------------------------------------------
Stored == {i \in Ids : sessions[i] # None}

(* Every session accounts for its details: the pilots with a detail are    *)
(* among those asked about, the others asked about have a DETAIL_FAILED    *)
(* warning and nobody else has, and the coverage does not count what the   *)
(* pilots do not show.  Overlapping refreshes of both kinds write whole    *)
(* copies back and never mix two enrichments (app_service.go:757-770,      *)
(* 790-811).                                                               *)
DetailsAccounted == \A i \in Stored :
    LET s == sessions[i] IN
    /\ s.fetched \subseteq s.requested
    /\ s.requested \subseteq s.chars
    /\ s.failed = s.requested \ s.fetched
    /\ s.got <= s.asked
    /\ s.asked <= Cardinality(s.requested)
    /\ s.got <= Cardinality(s.fetched)
    /\ s.got < s.asked => s.failed # {}

(* A session stands for the paste it was made from: whatever refreshes,    *)
(* analyses and clears overlap, the id under which it is found, its        *)
(* creation time, its characters, its unresolved names and its settings    *)
(* stay those of the analysis (Source and Settings, app_service.go:178-201 *)
(* and the write-backs).                                                   *)
SourceNeverChanges ==
    [][\A i \in Stored \cap Stored' :
          /\ sessions'[i].created = i
          /\ sessions'[i].chars = sessions[i].chars
          /\ sessions'[i].unresolved = sessions[i].unresolved
          /\ sessions'[i].settings = sessions[i].settings]_vars

(* Neither the registry nor a session ever carries settings that Validate  *)
(* would refuse, though the form and the sessions copy them while          *)
(* SaveSettings may be half way through writing them, and the form may     *)
(* send back what it was handed.                                           *)
SettingsStayValid ==
    /\ Ordered(settings)
    /\ \A i \in Stored : Ordered(sessions[i].settings)

(* analyze_flow_test.go:175-177 expects of a refreshed session that its    *)
(* "updated time [...] move forward".                                      *)
UpdatedAtMovesForward ==
    [][\A i \in Stored \cap Stored' :
          sessions'[i].updated >= sessions[i].updated]_vars

=============================================================================
