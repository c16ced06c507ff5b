---------------------------- MODULE AnalyzeScreen ----------------------------
(***************************************************************************)
(* The frontend around an analysis: App.tsx keeps the pasted text and the  *)
(* state of the analysis, LocalScreen.tsx the selection and the filters,   *)
(* workspacePrefs.ts what outlives them.  A step is an event with the      *)
(* render and the effects that follow it.  keys says whether the user also *)
(* presses Enter, which unlike the Analyze button is never disabled.       *)
(***************************************************************************)
EXTENDS Integers, Sequences, FiniteSets, Functions
CONSTANTS Texts,      \* what may be pasted, Blank among them
          Blank,
          Roster,     \* the pilots of a text, in the order of the answer
          Low, Named, \* the pilots of threat band low, those the filter text matches
          Slots,      \* bounds the analyses under way
          None

Pilots == UNION {Range(Roster[t]) : t \in Texts}

ASSUME ScreenAssumption ==
    /\ Blank \in Texts /\ None \notin Texts /\ Roster \in [Texts -> Seq(Nat)]
    /\ Slots # {} /\ IsFiniteSet(Slots)

VARIABLES keys,
          tab,        \* App.tab
          text,       \* App.pastedText
          status, data,            \* App.analyzeState; of the data, the text it is for
          selected, visible,       \* LocalScreen.selectedRowId, visibleRowIds
          view,       \* LocalScreen.filterText, quickFilters.nonLowOnly, sortDirection
          stored,     \* localStorage
          flight,     \* the calls of analyzePastedText that are awaited
          last,       \* history: the slot of the last call
          fresh       \* history: what came last is the answer to the last call

vars == <<keys, tab, text, status, data, selected, visible, view, stored, flight, last, fresh>>

Views == [filtering : BOOLEAN, nonLowOnly : BOOLEAN, descending : BOOLEAN]
DefaultView == [filtering |-> FALSE, nonLowOnly |-> FALSE, descending |-> TRUE]

BaseRows(d) == IF d = None THEN <<>> ELSE Roster[d]

\* What the quick filters leave, and of that what the table shows.
Rows(d, v) == {p \in Range(BaseRows(d)) : v.nonLowOnly => p \notin Low}
Matching(rows, v) == {p \in rows : v.filtering => p \in Named}
\* Sorted: the i-th is the one up to which there are i.
Upto(p, rows, v) == {q \in rows : IF v.descending THEN q >= p ELSE q =< p}
Shown(d, v) ==
    LET rows == Matching(Rows(d, v), v)
    IN  [i \in 1..Cardinality(rows) |-> CHOOSE p \in rows : Cardinality(Upto(p, rows, v)) = i]

\* The effect on baseRows.
Mutant_KeepSelection(d, prev) ==
    IF prev = None /\ BaseRows(d) # <<>> THEN Head(BaseRows(d)) ELSE prev
Healed(d, prev) ==
    IF BaseRows(d) = <<>> THEN None
    ELSE IF prev \in Range(BaseRows(d)) THEN prev ELSE Head(BaseRows(d))

\* The effect that stores the preferences, in a mounted LocalScreen only.
Mutant_StaleText(t, v) == [text |-> stored.text, view |-> v]
Persisted(t, v) == [text |-> t, view |-> v]

Init == /\ keys \in BOOLEAN /\ tab = "local"
        /\ text = Blank /\ view = DefaultView /\ stored = [text |-> Blank, view |-> DefaultView]
        /\ status = "idle" /\ data = None /\ selected = None /\ visible = <<>>
        /\ flight = [s \in Slots |-> None] /\ last = None /\ fresh = TRUE

\* A new state of the analysis, and what LocalScreen makes of it when it is there.
Analysis(st, d) ==
    /\ status' = st /\ data' = d
    /\ IF tab = "local"
       THEN selected' = Healed(d, selected) /\ visible' = Shown(d, view)
       ELSE UNCHANGED <<selected, visible>>

-----------------------------------------------------------------------------
Paste(t) ==
    /\ tab = "local" /\ text' = t /\ stored' = Persisted(t, view)
    /\ UNCHANGED <<keys, tab, status, data, selected, visible, view, flight, last, fresh>>

\* runAnalyze up to its await: nothing to analyse is an error, which drops the data.
Refuse == /\ text = Blank /\ Analysis("error", None)
          /\ UNCHANGED <<flight, last, fresh>>

Start(s) == /\ text # Blank /\ flight[s] = None
            /\ Analysis("loading", data)
            /\ flight' = [flight EXCEPT ![s] = text]
            /\ last' = s /\ fresh' = FALSE

Mutant_Enabled == TRUE
Enabled == status # "loading"

Button == /\ tab = "local" /\ Enabled
          /\ (Refuse \/ \E s \in Slots : Start(s))
          /\ UNCHANGED <<keys, tab, text, view, stored>>

EnterKey == /\ keys /\ tab = "local"
            /\ (Refuse \/ \E s \in Slots : Start(s))
            /\ UNCHANGED <<keys, tab, text, view, stored>>

\* runAnalyze after its await, whatever has happened since.
Landed(s) == flight' = [flight EXCEPT ![s] = None] /\ fresh' = (s = last)

Success(s) == /\ flight[s] # None /\ Landed(s) /\ Analysis("success", flight[s])
              /\ UNCHANGED <<keys, tab, text, view, stored, last>>

Mutant_Uncaught == UNCHANGED <<status, data, selected, visible>>
Caught == Analysis("error", None)

Failure(s) == /\ flight[s] # None /\ Landed(s) /\ Caught
              /\ UNCHANGED <<keys, tab, text, view, stored, last>>

-----------------------------------------------------------------------------
\* Filters and sorting; the effects store them and tell the visible rows.
SetView(v) ==
    /\ tab = "local" /\ view' = v
    /\ visible' = Shown(data, v) /\ stored' = Persisted(text, v)
    /\ UNCHANGED <<keys, tab, text, status, data, selected, flight, last, fresh>>

\* nextSelectionIndex, counted from 1: no row, 0, is None.
Least(a, b) == IF a < b THEN a ELSE b
Greatest(a, b) == IF a > b THEN a ELSE b
NextIndex(i, n, down) ==
    IF n = 0 THEN 0
    ELSE IF i = 0 THEN 1
    ELSE IF down THEN Least(n, i + 1) ELSE Greatest(1, i - 1)

Position(p) == IF p \in Range(visible) THEN CHOOSE i \in DOMAIN visible : visible[i] = p ELSE 0

Arrow(down) ==
    /\ tab = "local"
    /\ LET i == NextIndex(Position(selected), Len(visible), down)
       IN  selected' = IF i \in DOMAIN visible THEN visible[i] ELSE None
    /\ UNCHANGED <<keys, tab, text, status, data, visible, view, stored, flight, last, fresh>>

Click(p) ==
    /\ tab = "local" /\ p \in Range(visible) /\ selected' = p
    /\ UNCHANGED <<keys, tab, text, status, data, visible, view, stored, flight, last, fresh>>

\* Another tab unmounts LocalScreen, whose state is gone; coming back mounts a new one.
Leave == /\ tab = "local" /\ tab' = "other"
         /\ selected' = None /\ visible' = <<>> /\ view' = DefaultView
         /\ UNCHANGED <<keys, text, status, data, stored, flight, last, fresh>>

Mounted(v) == /\ view' = v /\ stored' = Persisted(text', v)
              /\ selected' = Healed(data', None) /\ visible' = Shown(data', v)

ComeBack == /\ tab = "other" /\ tab' = "local"
            /\ UNCHANGED <<keys, text, status, data, flight, last, fresh>>
            /\ Mounted(stored.view)

\* The window is closed and opened again: the answers under way are lost.
Restart == /\ tab' = "local" /\ text' = stored.text
           /\ status' = "idle" /\ data' = None
           /\ flight' = [s \in Slots |-> None] /\ last' = None /\ fresh' = TRUE
           /\ UNCHANGED keys
           /\ Mounted(stored.view)

Answer(s) == Success(s) \/ Failure(s)

Next == \/ \E t \in Texts : Paste(t)
        \/ Button \/ EnterKey
        \/ \E s \in Slots : Answer(s)
        \/ \E v \in Views : SetView(v)
        \/ \E down \in BOOLEAN : Arrow(down)
        \/ \E p \in Pilots : Click(p)
        \/ Leave \/ ComeBack \/ Restart

\* Every call of the backend comes back, one way or the other.
Spec == Init /\ [][Next]_vars /\ \A s \in Slots : WF_vars(Answer(s))

-----------------------------------------------------------------------------
TypeOK ==
    /\ keys \in BOOLEAN /\ tab \in {"local", "other"} /\ text \in Texts
    /\ status \in {"idle", "loading", "success", "error"} /\ data \in Texts \cup {None}
    /\ selected \in Pilots \cup {None} /\ visible \in Seq(Pilots) /\ view \in Views
    /\ stored \in [text : Texts, view : Views]
    /\ flight \in [Slots -> Texts \cup {None}] /\ last \in Slots \cup {None}
    /\ fresh \in BOOLEAN

\* What is shown as the result belongs to the analysis asked for last, as long as
\* analyses are started with the button.
ShownIsLatest == ~keys /\ status = "success" => fresh

\* What is selected is a pilot of the data, never one of an earlier analysis.
SelectionInData == selected # None => selected \in Range(BaseRows(data))

\* The preferences that are stored are those of the screen, though App and LocalScreen
\* both write them; so neither a change of tab nor a restart loses a filter or the text.
StoredIsCurrent == /\ stored.text = text
                   /\ tab = "local" => stored.view = view

\* The screen does not say loading for ever.
LoadingEnds == (status = "loading") ~> (status # "loading")

=============================================================================
