# A TLA+ verification of goLocalThreat

goLocalThreat is a Wails desktop application. The user pastes a list of pilot
names; the Go side resolves them with ESI, rates each pilot with data of
zKillboard, and keeps the result as a session the TypeScript frontend shows.
The modules here model the parts of it where calls overlap: the clients of the
two services, the fan-out over pilots, the registry of sessions with the
settings form, the lookup of identities, the SQLite store and the screen; and
the computations in between: what the parser makes of a paste, and what an
enrichment makes of the answers it gets, down to the scores and to what the
screen shows of them.

Paths below are relative to the repository. Line numbers of every definition
are in `PROJECT.json` under `map`, the hazards under `hazards`.

## The system

| Component | State | Operations | Hard behaviour |
| --- | --- | --- | --- |
| `providers/zkill/throttle.go` | mutex, penalty, time of the last request | BeforeRequest, AfterResponse | sleeps inside the mutex; back-off read while others report |
| `providers/zkill/{stats,killmail}_client.go`, `cache.go` | run memo, endpoint cache, throttler | FetchSummary, FetchRecentByCharacter | no single flight; errors remembered for ever; body cached before it is parsed |
| `app/app_service.go` fetchSummaryRows, fetchDetails | local maps, warnings, semaphore, WaitGroup | one goroutine per pilot | lost updates, leaked slots, Wait returning early |
| `app/app_service.go` sessions | sessions, settings | analyse, refresh session, refresh pilot, recent, settings, clear | copy, long enrichment without the mutex, whole write-back, unlocked reads of the settings |
| `app/app_service.go` resolveIdentities, enrichOrganizationMetadata | names of corporations and alliances | resolve names, load characters, fill in what is missing | looks, asks and fills under the mutex in turns; everything may come in part |
| `providers/esi/client.go`, `cache/cache.go` | three TTL caches | ResolveNames, GetCharacters, GetCorporations, GetAlliances | retries of one request, partial batches, rate limits, eviction race |
| `store/` (SQLite) | tables, migrations | save, load, prune, pins, cache metadata | several transactions per operation; the application so far calls only its ValidateSettings |
| `parser/` | none | normalise, extract, choose a strategy | spellings, prefixes, confidences that tie |
| `app/enrichment.go`, `scoring/` | none | pure | ties, boundaries, map order, division by what is known |
| `frontend/src/App.tsx`, `features/local/` | analyse state, selection, preferences | analyse, paste, filter, keys | late answers, stale preferences |
| `frontend/src/features/settings/settingsForm.ts` | the model of the form | load, validate, save | settings of two moments |
| `frontend/src/lib/api/`, `threatRowMapper.ts`, `PilotDetailPanel.tsx` | none | DTO to view model, row and pane | zeros that mean unknown, tiers of warnings |
| `main.go`, `bootstrap/` | none after start | environment to providers | — |

How they interact: the frontend calls bound methods, each on a goroutine of its
own. AnalyzePastedText parses (PasteParser), resolves (Identities, which calls
EsiClient), enriches (FetchPool calling ZKillClient for each pilot, which calls
Throttler; Enrichment and Scoring make rows of the answers) and publishes a
session (AppService), which the frontend turns into rows (ThreatView). A refresh does the enrichment again on a copy. Providers and their
caches are shared by all calls. No context is ever cancelled: every call uses
`context.Background()`.

What makes each part correct:

- throttler: requests never closer than spacing plus the penalty in force, no
  over-long sleep, everyone gets through;
- zKillboard clients: a result always goes back to an answer for that key, a
  goroutine asks at most once for a character;
- fan-out: exactly the outcomes of all pilots, within the limit, and it returns;
- registry: a session accounts for its details whatever overlapped, keeps what
  it was made from, never carries invalid settings;
- parser: every line of a paste is accounted for, and the kind of the text
  follows from it whatever the confidences;
- identities: nobody who was pasted is lost without a word, and organisations
  are named from the shared maps or the user is told;
- ESI client: a batch accounts for every id, retries are used up, only what the
  server answered is cached;
- enrichment: rows say what the killmails say in whatever order they came, the
  budget goes to the top, a pilot is warned about once and with the right
  gravity, nothing looks fresher than it is, scores order the evidence, and the
  screen shows what was scored;
- store: whoever has it open finds its tables, retention is kept and removes only
  the old, the id tables agree with the settings document;
- screen: what is shown is the last analysis, the selection is in it, what is
  stored is what is on the screen, loading ends.

## The modules

| Module | Models | Composes |
| --- | --- | --- |
| `Throttler` | BeforeRequest and AfterResponse under their mutex, and time | |
| `ThrottlerProofs` | its proofs | Throttler |
| `ZKillClient` | both clients: memo, cache, throttler, server | `T == INSTANCE Throttler` |
| `ZKillClientProofs` | its proofs, the refinement of Throttler among them | ZKillClient, `TP == INSTANCE ThrottlerProofs` |
| `Gather` | what a fan-out promises: one atomic gathering | |
| `FetchPool` | the fan-out goroutine by goroutine | `G == INSTANCE Gather` |
| `FetchPoolProofs` | its proofs, the refinement among them | FetchPool |
| `AppService` | the session registry under overlapping calls | uses what Gather promises |
| `AppServiceProofs` | its proofs, and those about Enrichment | AppService, Enrichment |
| `EsiClient` | the ESI client with its cache and retries | |
| `EsiClientProofs` | its proofs | EsiClient |
| `PasteParser` | the parser: lines, candidates, strategies and the choice between them | |
| `Identities` | from the paste to the pilots: resolution and organisation metadata under overlapping analyses | PasteParser; takes what EsiClient establishes |
| `IdentitiesProofs` | their proofs | Identities, PasteParser |
| `Scoring` | the engine as the application uses it | |
| `ThreatView` | the adapter, the row and the pane of one pilot | Scoring |
| `Enrichment` | what enrichPilots makes of the answers, down to what is shown of it | ThreatView, Scoring; takes the answers a gathering may have |
| `Store` | what the store promises: each call at one moment, or not at all | |
| `SessionStore` | the SQLite store under several callers | `Promise == INSTANCE Store` |
| `SessionStoreProofs` | its proofs, the refinement among them | SessionStore |
| `AnalyzeScreen` | the frontend around an analysis | |
| `AnalyzeScreenProofs` | its proofs | AnalyzeScreen |
| `MC*` | constants for TLC | |

**Throttler.** `phase` is where each caller stands: `Ask` (about to call
BeforeRequest), `Enter` (has the mutex, computes its wait), `Grant` (slept, sets
lastSent, unlocks), `Answer`/`Fail` (http.Do), `Report` (AfterResponse). Instead
of a clock the module keeps `age`, the time since lastSent, saturated at the
longest wait the code can compute, and `left`, the rest of the current sleep:
the code only ever looks at differences, so nothing is lost and the number of
requests needs no bound.

**ZKillClient.** One client, of either kind (`client`, chosen in `Init`). `Asks`
says which characters each caller may ask for. A call
goes `idle -> fetch -> before -> spacing -> wire -> after -> caching -> store`,
which are the critical sections of RunMemo.Do, the endpoint cache and the
throttler in the order of the code. The throttler's variables are those of
`Throttler` under a refinement mapping (`PhaseOf`), its actions are used as they
are. A body is known by the answer it came with. `served` and `sent` are history.
Cache entries may expire at any moment.

**Gather / FetchPool.** fetchDetails and fetchSummaryRows are the same program:
a loop that adds to the WaitGroup and starts goroutines, a channel as semaphore,
a mutex around what is collected. The read of the collection (`Lock`) and the
write back (`Record`) are two steps, so that the mutex has something to protect.
The two deferred releases run after the unlock, in the order Go runs them.
fetchSummaryRows is the instance with `Known = Requested` and the answers
`"error"` and `"row"`.

**AppService.** A bound call is a goroutine with a local copy of a session.
Each stretch under the mutex is a step, the enrichment is a step of its own that
returns any gathering FetchPool may return, and three unlocked accesses are
modelled as they are: settings are copied in two halves while SaveSettings may
intervene, the map DurationMetrics is shared by all copies (an overlapping write
may abort the process: the Go runtime detects it or not, so both outcomes are
allowed), and the clock is read before the lock is taken. `front = "ui"` are the
behaviours in which only the bindings called by
`frontend/src/lib/api/adapter.ts` are used: there settings are saved from the
form, which is handed `a.settings` in two halves, since LoadSettings and the
return of SaveSettings read it without the mutex, may be changed by the user,
and is sent back when `validateSettings` lets it pass. A session id is made of a
clock reading, and readings are assumed to differ.

**PasteParser and Identities.** A line is what it starts with (`marks`: a time, a
time in brackets, a sender), what is left of it (`body`: a name as spelled, a
ticker, markup, junk, blank) and whether only a carriage return ended the line
before, because the strategies count chat on text cut at line feeds while
NormalizeText cuts at both. `Parsed` is Orchestrator.Parse: the three strategies
with their confidences in hundredths, and the choice; its loop over the lines adds
one candidate a round (`Added`). `Identities` takes a call
from there: names are resolved (`Resolve`, or `NotResolved` on an error),
characters are loaded in part or whole, and enrichOrganizationMetadata is four
critical sections with ESI asked in between, so that another analysis may look,
fill in or fail at any of them. Names are matched to characters in lower case,
and answered under the spelling asked for. The loop that puts the characters in
the order of the names is `Ordered`: the place of an identity is that of the
`Nth` name that was answered and loaded, as the lines kept of a text are the `Nth`
of those that qualify.

**EsiClient.** A batch looks its ids up in the cache and fetches what is missing
(GetCharacters after all look-ups, getEntityNames at once), with the attempts of
doJSON. TTLCache.Get is two steps when the entry has expired (read, then drop
whatever is there). `spent` says that the body of a POST has been read: the next
attempt with the same request then fails, unless net/http sends it on a
connection used before, when it rewinds the body.

**Enrichment.** `stage` walks through enrichPilots, its caller's aggregation and
toAnalysisSessionDTO: `Baseline` (rows of the summaries), `Select`
(SelectDetailFetchTargets), `Details` (fetchDetails with its warnings, and the
merge), `Compose` (freshness of the session, aggregateTimestampWarnings),
`Display` (buildWarningDisplay), `Show` (the frontend). `Evidence` is the loop of
deriveDetailThreatEvidence, one killmail a round. A killmail is its side,
its ship and its three time fields, each a time, `Absent` or `Garbled`. Nothing
interleaves within a call, so a stage is a step and the providers' answers are
chosen in `EnrichInit`. The ship of a tie is any of the most frequent. Scores are
those of `Scoring`, which computes in hundredths and rounds where the code
does; it has the three components of five that mergePilotThreat ever gives
data for. `ThreatView` has the rules by which the frontend turns one pilot into a
row and a pane: zeros that are shown as a dash, bands it makes up, the tier and
the label of each warning.

**Store / SessionStore.** Everything is in the database, so callers may be goroutines or
processes alike. A statement outside a transaction is atomic; a transaction
works on a copy (`tx`) under the one write lock (`writer`). Between any two
statements another caller may run, a statement may fail (`Fail`) or the caller
die (`Crash`), both losing the open transaction. `at` is the next statement.
`quiet`, `added` and `left` are history. Sessions, settings and cache metadata
share only the lock and the migrations, so a behaviour (`use`) exercises one.
`Store` has none of this: sessions and cache entries are maps, the settings a
document with its lists, and a caller is away, idle, between insert and end of
pruning, about to write settings, or reading. `KeepsPromise` says that
SessionStore implements it. A save takes effect at its insert and then prunes;
settings at the commit. What a reader is given is not part of `Store`, since
LoadSettings reads table by table: `OwnWriteIsSeen` says what is left of it.

**AnalyzeScreen.** A step is an event with the render and the effects that follow
it, which React finishes before the next event. `flight` holds the calls of
runAnalyze that are awaited; they end in any order. `Healed` is the effect that
mends the selection, `Persisted` the one that stores the preferences. `keys`
says whether the user also presses Enter, which is not disabled while loading.
The i-th of the sorted rows (`Shown`) is the one with i rows up to it (`Upto`).

## The runs

| Run | Configuration | Shows |
| --- | --- | --- |
| `throttler` | 3 callers, spacing 2, cap 5, about 6 thousand states | spacing, exact sleeps, everyone gets through |
| `zkill_clients` | 2 callers, 2 characters, one of which both ask for, spacing 1, cap 2, 63 thousand | results go back to answers, one request per goroutine and key, correct use of the throttler, every call returns |
| `fetch_pool` | 4 targets of which 3 are pilots, 2 slots, 34 thousand | Gather is implemented, limit respected, the call returns |
| `app_sessions` | 2 goroutines, 2 characters, 1 session, 3 clock readings, 2.7 million, with symmetry | details accounted for, source kept, settings valid whatever the form sends back |
| `app_updated_at` | 1 character, 4 readings, expected to fail | UpdatedAt goes back |
| `esi_client` | 2 callers, 2 ids, 1 retry, about 360 thousand | batches account for all ids, cache holds only what was served, retries used, calls return |
| `esi_resolve` | 2 retries, expected to fail | the retry of a POST cannot be sent |
| `session_store` | 2 callers, 3 sessions of which 1 is kept, 2 settings, 1 cache key, clock to 3, 930 thousand, with symmetry | tables present when open, retention, what is removed is old, tables agree with the document, own writes are read back, Store is implemented |
| `analyze_screen` | 3 texts, 3 pilots, 2 analyses at a time, 7 thousand | the latest analysis is shown, selection in the data, preferences current, loading ends |
| `enrichment` | 2 pilots, budget 1, 5 summaries, all feeds of two killmails of five kinds, 690 thousand | rows, freshness, choice of details, warnings, scores and what is shown agree with their reference definitions |
| `enrichment_missing` | 1 pilot, expected to fail | a summary that failed is shown as zeros, and its warning does not reach the detail pane |
| `identities` | 2 analyses, one of any paste of up to three lines of ten kinds, 3 spellings of 2 characters in 1 corporation and 2 alliances, 243 thousand | lines accounted for, kind of text, nobody lost, organisations named |

**Why the bounds are enough.** Throttler: the cap is not a multiple of the
spacing, so the penalty passes through 0, 2, 4 and the cap 5, and with three
callers one can report while one sleeps and one waits. ZKillClient: two
goroutines on one key are the race of the memo, the second key, which one of
them asks for as well, shows that keys do not mix; a unit of spacing is enough
because exact delays are the business of `throttler`. FetchPool: more pilots than slots, an unknown target, all answers.
AppService: the hazards are races of two calls on one session, and three
readings are one analysis and two refreshes that overlap it or each other; two
characters with a budget of one make the three kinds of target different.
`MaxSessions = 1` bounds the sessions at a time: calls on different sessions
share only settings. Identities: three lines are a first spelling, another one and
a line between them that changes the kind; the second analysis only has to meet
the first in the maps, so one name is enough for it; a shared corporation is
missing for both. EsiClient: one retry separates first, last and one too many
attempts; two ids make a batch that fails in part, two callers the race on an
expired entry. Enrichment: two killmails are enough for both orders of times,
for kill and loss, for ships that tie or win, and for every mixture of usable,
missing and garbled times; two pilots with a budget of one for a pilot that is
not chosen; the summaries are one that failed, an idle one with a date, an undated
one with danger, and two with volume that the score ranks. SessionStore: two callers for every race on the lock, three sessions
for a prune that has a choice; one of the settings has an id the tables must
drop; `MaxNow` bounds the clock, at ages of 2. AnalyzeScreen: two answers to
reorder (`Slots` bounds the calls awaited), rosters that share a pilot, and one
pilot each that a filter hides.

`CHECK_DEADLOCK FALSE` is set for FetchPool and Enrichment, which stop when the
call has returned, and for AppService, where the bound on clock readings stops the
refreshes under way and an aborted process stops for good.

**Fairness.** Throttler and ZKillClient: time passes, a goroutine that can run
runs (weak), and a goroutine waiting for the mutex of the throttler gets it
(strong, on `Enter` and `Report`): sync.Mutex hands itself to a waiter that has
starved for a millisecond. A request comes back because http.Client has a
timeout; `bootstrap/config.go:113-117` refuses one that is not positive.
FetchPool needs weak fairness only, as each goroutine asks once. EsiClient: weak
fairness of each call. AnalyzeScreen: a call of the backend comes back, with an
answer or an error, as the runs of the parts below it show. AppService: a call
that has begun goes on, for no step of it waits for another (`app_updated_at`).
Identities, SessionStore and Enrichment have no fairness. Nobody is assumed
to start a call, and no server to be well-behaved.

Each property of a passing run has a mutant in `PROJECT.json`: a bug one could
plausibly make in that code, under which TLC finds the property violated.

## What the failing runs say

- `esi_resolve` (code): doJSON reuses the request, but a body can be read once.
  After a 5xx, ResolveNames gives up on its first retry.
- `app_updated_at` (code): overlapping refreshes store their clock readings in
  any order.
- `enrichment_missing` (document): `docs/milestones/local-intel-screen-v3.md:11`
  wants missing stats to "stay `—`" and not to "fallback to fabricated defaults
  (`0`, ...)", and lines 29 and 47 want the warnings of a pilot in its detail pane.
  A summary that failed is the zero row (`app_service.go:361-366`), which has no
  score, and the adapter takes zeros for unknown only where there is a score
  (`adapter.ts:169-175`): the row shows 0 kills and 0 losses. SUMMARY_FAILED, like
  DETAIL_FAILED, is routed to the status strip: the row has a muted dot and the
  diagnostics name the pilot, but its pane says nothing. The property asks for the
  dash or the warning in the pane, and the last state of the run has neither, so
  that one trace refutes both sentences. `ShownAsScored`, which passes, speaks of kills
  and losses only where the summary came or a killmail is known (`Told`).

Other things met while modelling, for which no run stands because nothing in
the repository says otherwise, or because it takes no run to see them:

- A pilot whose killmails all lack a usable time gets two warnings with the same
  count, and the aggregation adds them (`app_service.go:698`): n killmails are
  reported as 2n failures.
- mergePilotThreat dates the snapshot of a pilot to its last activity
  (`enrichment.go:244-247`), so that recentness is full for whoever has a date
  and its explanation is always "Last seen 0.0 days ago". The engine runs with
  its default settings (`enrichment.go:243`): what a user saves changes no score.
  With solo risk and context never known no assessment is "complete-data".
- RunMemo remembers for the life of the client, errors included (`zkill/cache.go:56-68`,
  one per client): once a character has a result, neither an expired cache entry nor
  a refresh nor a new analysis asks the server again. Its test speaks of a run
  (`cache_test.go:23`), the test of refreshes expects a pilot "to be re-enriched"
  (`analyze_flow_test.go:186`) of providers that have no memo, and the lifetimes of the
  endpoint caches, 2 minutes and 45 seconds, are without effect. The model has
  this memo; no property says that it is right.
- RefreshSession writes DurationMetrics, one map for all copies of a session, outside
  the mutex (`app_service.go:764-766`), and an overlapping access may abort the
  process (`MayAbort`). The frontend calls neither refresh
  (`docs/frontend-backend-contract.md:20-21`), and nothing says that they may overlap.
- A pilot that is scored without details is "Summary-only" in its row
  (`threatRowMapper.ts:40`) and "detail-enriched" in its pane
  (`PilotDetailPanel.tsx:76-81`).
- The settings DTO of the frontend has the refresh interval 30 whatever was
  loaded, and loses columns, appearance and lifetimes on the way
  (`adapter.ts:294-316`). A form loaded half before and half after a save can send
  back a mix nobody chose; it is a valid one, since both checks look at the whole.
- Lines of nothing but prefixes vanish in the parser without a count, and its reason
  `empty_after_normalization` cannot come up.

## The proofs

All are checked by TLAPS for every value of the constants that satisfies the
named assumptions of the module.

`ThrottlerProofs` (any set of callers, any spacing and cap in Nat; `Free` is not
a caller, `NoAnswer` not an answer): `TypeCorrect`, `SleepIsExclusive`,
`SleepCorrect`, `Spaced`. The invariant is `TypeOK /\ SleeperHoldsMutex /\
SleepIsExact`. None is inductive alone: that the sleep stays exact when another
caller reports needs that it cannot report while somebody sleeps, which is
`SleeperHoldsMutex`; that `age` may saturate without making a sleep look too
short needs the bound on the penalty in `TypeOK`. The spacing of a grant is
then `SleepIsExact` with `left = 0`.

`FetchPoolProofs` (a finite set of targets, any set of pilots, any positive
limit): `Invariance`, `TypeCorrect`, `Bounded`, `Implements`. The invariant
`IInv` says that `sem` and `wg` equal the number of goroutines they stand for,
that the holder of the mutex has a current copy of the collection, and that the
collection is the gathering of the goroutines that have written. `wg = 0` with
nothing left to start then means that all have written, so `Return` maps to
`Gather`'s `Return` with the function of all answers; every other step leaves
what the caller has seen alone. Cardinality lemmas for moving one goroutine in
or out of a place are stated once.

`ZKillClientProofs` (any callers and a set of characters that is not empty, any
sets `Asks`, any spacing and cap; `None` and the others are not values): `Obeys`,
`SendsSpaced`, `TypeCorrect`, `Explained`, `AskedOnce`. `Obeys` is step
simulation: each action of a client is one of Throttler under `PhaseOf` or leaves
what Throttler sees alone, so that the theorem on spacing of `ThrottlerProofs`
carries over (`SendsSpaced`). `OneRequestEach` is not inductive: it needs to know
that a request once sent is still on its way to the memo or remembered there, and
that whoever is about to send has not (`SentOnce`); a result is explained because
what is cached or held came back for that very key (`BodiesServed`).

`EsiClientProofs` (any callers, ids and number of retries): `TypeCorrect`,
`Accounts`, `KeepsServed`, `BatchRetries`. While a batch runs, every id is in
exactly one place: got, failed, missing, still to do, or current (`Partition`).
The eviction race is the one exception, where the current id has not left `todo`
yet. What is left of that partition when the batch returns is `BatchAccounted`.
That retries are used up rests on the loop variable counting the transient
answers (`Counted`), which holds of GET requests only; for POST `esi_resolve`
shows that it does not.

`AppServiceProofs` (any goroutines, any budget and bounds, a finite set of
characters): `TypeCorrect`, `Accounts`, `SettingsValid`, `SourceStays`. A copy carried without the mutex accounts for its details like
a session in the registry (`Carried`), so writing it back whole is safe. Settings
copied in two halves may be torn, and it is Validate, before the session is
registered, that no torn copy passes: the invariant asks for valid settings only
of the copies of refreshes, which were registered once. `SourceNeverChanges` is not
inductive from the registry alone: a late refresh writes its copy back, so all
copies of a session share the source of the registered one and of each other,
the latter because ClearCache may remove the session while they are carried
(`OneSource`), and nobody else has the id of an analysis (`OwnId`).

`SessionStoreProofs` (finite sets of callers and session ids, any settings whose
tables hold ids, any retention): `TypeCorrect`, `Migrated`, `TablesCorrect`,
`OwnWriteSeen`, `Retained`, `OldGoOnly`, `PromiseKept`. Whoever stands between the first write
and the commit is the writer (`LockInv`), and its transaction differs from the
database by its own edits so far (`Edited`): then a commit cannot lose anything
another caller has done, and a crash leaves the database as it was. Readers
nobody disturbed have the database as far as they have come (`Read`).
`PromiseKept`, the refinement of `Store`, has a lemma for each step (`...Maps`):
what the transaction does inside is a stutter, CommitSettings is `Settle` because
`Edited` says its tables are those of the caller's argument, the prunes remove
only what `Store` allows, and a failure or a crash is `End` or a stutter.

`AnalyzeScreenProofs` (any texts and rosters, any finite number of analyses
awaited): `TypeCorrect`, `LatestShown`, `SelectionStays`,
`StoredCurrent`. Rows and selection of the mounted screen are of the data
(`RowsInData`), which needs that a sort returns rows it was given (`EveryRank`:
a finite set has an element of every rank). With the button alone at most the last
analysis is awaited (`OneFlight`).

About Enrichment `AppServiceProofs` has (any answers of the providers, feeds of
any length, finitely many pilots, any positive budget): `TraceHolds`, `EnrichTyped`,
`RowsRight`, `BudgetRight`, `SessionRight`, `WarningsRight`, `ScoresRight`,
`ShownRight`. The properties speak of one stage each and none is inductive; the
invariant `Trace` says what every stage leaves behind as a function of the answers
and of the choice `Select` made, which the later stages keep. What remains is about
the functions. The loop over a feed is followed round by round (`Summed`,
`EvidenceRight`): what it has after k killmails are the cardinalities and the latest
times of the first k, whatever their time fields, so that the counts never go
negative and the row has what the feed says. The score is ordered by the evidence
(`ScoresOrdered`) because its quotients are: `QuotientsOrdered` is proved from the
division theorem, and the forms with and without a date are compared for every
number up to what the components can add. For `WarnedOnce` the warnings before and
after the aggregation are characterised element by element (`NoticedIs`,
`AggregatedIs`), and the items of the display are counted by a bijection with the
pilots they stand for (`AsMany`).

`IdentitiesProofs` (any goroutines, pastes and organisations): `Invariance`,
`NobodyLost`, `OrganisationsRight`, `Reading`, `LinesAccounted`, `KindRight`. The
invariant of one call (`Mine`) mentions the two shared maps only in formulas their
growth preserves, so the steps of the other calls need one lemma (`Frame`) between
them: an organisation of a pilot has an entry, or is still to be asked for, or the
user is warned, and once it has an entry no call can take it away. `NthIsInverse`
shows that the loop over the names loses nobody and keeps the order. Of the parser
they show, for texts of any length, that each name is a candidate once, under its
first spelling and in its place (`CandidatesRight`, by the rounds of the loop), that
the lines without a name are all reported, and that the strategy believed is the one
the signs in the text call for, by comparing the confidences (`Winner`).

Two of these rest on induction over the rounds of a loop. The library's induction
theorems take an operator as a parameter and cannot be used; `Inductive` takes the
set of rounds for which a statement holds instead, and follows from the least round
that is not in it, and `Iterates` shows that a function defined by its own values
one round earlier exists.

The assumptions on constants say no more than that the markers `None`, `Free` and
`NoAnswer` are not values, that bounds are numbers, and what the code's types
give: goroutines and characters may be any set, sets that are counted are finite.

Only model-checked:

- Liveness (`EveryoneGetsThrough`, `EveryCallReturns`, `Returns`, `CallsReturn`,
  `LoadingEnds`): fairness and ENABLED are beyond the provers.
- The failing runs.

Every safety and action property of the passing runs is a theorem.

The type invariants of the modules other than Throttler are there for their proofs, and no run lists them. `SleepIsExclusive`, the two `Invariance` and
`SendsSpaced` likewise are theorems only. Every inductive invariant was first
checked by TLC on the configuration of its component.

## Not modelled

- Of the engine the components without data, confidence, completeness and the
  wording of reasons; of a threat the share of solo kills and the size of gangs.
  Of the summary's parser only whether a body parses; of the paste parser the
  regular expressions.
- PinPilot and the Ignore calls of AppService: each appends one id under the mutex,
  and no binding the frontend uses calls them. Their tables are in SessionStore.
- Of the store the export snapshots, a scaffold, and the in-memory database of
  tests; reading sessions or cache metadata changes nothing.
- Of the screen pinned rows, columns and their widths, the roster drawer, copying
  and layout; of the adapter identity, tags and the counts of the diagnostics. The
  history list, which keeps nothing but what it awaits; the settings form is in
  AppService, though App mounts neither.
- Logging and wording; SetClock and the other hooks of tests; Startup, Shutdown
  and build info, which nothing reads. Generated bindings, build files, scripts.

## Plan

The order is by what the running application depends on.

1. *Done:* Throttler, ZKillClient, Gather and FetchPool, AppService with the
   settings form, EsiClient, PasteParser and Identities, Scoring, ThreatView and
   Enrichment, Store and SessionStore, AnalyzeScreen; proofs of all of them.
2. If the model grows again: the freshness of a session after RefreshPilot, and a run
   for the lifetime of a remembered result.
