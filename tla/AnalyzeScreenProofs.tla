------------------------- MODULE AnalyzeScreenProofs -------------------------
(***************************************************************************)
(* Proofs about AnalyzeScreen for every set of texts, every roster and any *)
(* number of analyses under way.  The inductive invariant ties the rows on *)
(* the screen to the data, and, for users of the button, the one analysis  *)
(* under way to the state of the screen.                                   *)
(***************************************************************************)
EXTENDS AnalyzeScreen, FiniteSetTheorems, TLAPS

InData(p) == p \in Range(BaseRows(data))

\* The rows and the selection of a mounted LocalScreen are of the data.
RowsInData ==
    /\ tab = "local" => /\ \A i \in DOMAIN visible : InData(visible[i])
                        /\ selected # None => InData(selected)
    /\ tab = "other" => visible = <<>> /\ selected = None

\* The button starts no second analysis: the one under way is the last.
OneFlight ==
    ~keys => \A s \in Slots : flight[s] # None => s = last /\ status = "loading"

IInv == TypeOK /\ RowsInData /\ OneFlight /\ ShownIsLatest /\ StoredIsCurrent

-----------------------------------------------------------------------------
Data == Texts \cup {None}
States == {"idle", "loading", "success", "error"}

LEMMA RosterRows ==
    ASSUME NEW d \in Data
    PROVE  /\ BaseRows(d) \in Seq(Nat) /\ Range(BaseRows(d)) \in SUBSET Pilots
           /\ Range(BaseRows(d)) \in SUBSET Nat
           /\ IsFiniteSet(Range(BaseRows(d)))
<1>1. BaseRows(d) \in Seq(Nat)
  BY ScreenAssumption DEF BaseRows, Data
<1>2. Range(BaseRows(d)) \in SUBSET Pilots
  <2>1. CASE d = None
    BY <2>1 DEF BaseRows, Range
  <2>2. CASE d # None
    BY <2>2 DEF BaseRows, Data, Pilots
  <2>3. QED
    BY <2>1, <2>2
<1>3. Range(BaseRows(d)) \in SUBSET Nat
  BY <1>1 DEF Range
<1>4. IsFiniteSet(Range(BaseRows(d)))
  <2> DEFINE f == BaseRows(d)
  <2>1. /\ DOMAIN f = 1..Len(f) /\ Len(f) \in Nat
        /\ f \in [1..Len(f) -> Nat]
    BY <1>1
  <2> HIDE DEF f
  <2>2. f \in Surjection(1..Len(f), Range(f))
    BY <2>1 DEF Surjection, Range
  <2>3. IsFiniteSet(1..Len(f))
    BY <2>1, FS_Interval
  <2>4. QED
    BY <2>2, <2>3, FS_Surjection DEF f
<1>5. QED
  BY <1>1, <1>2, <1>3, <1>4

\* Among finitely many rows there is one of every rank.
LEMMA EveryRank ==
    ASSUME NEW rows \in SUBSET Nat, IsFiniteSet(rows), NEW v \in Views,
           NEW i \in 1..Cardinality(rows)
    PROVE  \E p \in rows : Cardinality(Upto(p, rows, v)) = i
<1> DEFINE n == Cardinality(rows)
           rank == [p \in rows |-> Cardinality(Upto(p, rows, v))]
<1>1. n \in Nat
  BY FS_CardinalityType
<1>2. ASSUME NEW p \in rows
      PROVE  /\ Upto(p, rows, v) \in SUBSET rows /\ p \in Upto(p, rows, v)
             /\ IsFiniteSet(Upto(p, rows, v)) /\ rank[p] \in 1..n
  <2>1. Upto(p, rows, v) \in SUBSET rows /\ p \in Upto(p, rows, v)
    BY DEF Upto
  <2>2. /\ IsFiniteSet(Upto(p, rows, v))
        /\ Cardinality(Upto(p, rows, v)) \in Nat
        /\ Cardinality(Upto(p, rows, v)) <= n
        /\ Cardinality(Upto(p, rows, v)) # 0
    BY <2>1, FS_Subset, FS_CardinalityType, FS_EmptySet
  <2>3. QED
    BY <1>1, <2>1, <2>2
<1>3. ASSUME NEW p \in rows, NEW q \in rows,
             p \notin Upto(q, rows, v), q \in Upto(p, rows, v)
      PROVE  rank[q] # rank[p]
  <2>1. Upto(q, rows, v) \in SUBSET Upto(p, rows, v)
    <3> SUFFICES ASSUME NEW r \in Upto(q, rows, v)
                 PROVE  r \in Upto(p, rows, v)
      OBVIOUS
    <3>1. p \in Nat /\ q \in Nat /\ r \in Nat /\ r \in rows
      BY DEF Upto
    <3>2. IF v.descending THEN r >= q /\ q >= p ELSE r =< q /\ q =< p
      BY <1>3 DEF Upto
    <3>3. IF v.descending THEN r >= p ELSE r =< p
      BY <3>1, <3>2
    <3>4. QED
      BY <3>1, <3>3 DEF Upto
  <2>2. Upto(q, rows, v) # Upto(p, rows, v)
    BY <1>2, <1>3
  <2>3. QED
    BY <1>2, <2>1, <2>2, FS_Subset
<1>4. ASSUME NEW p \in rows, NEW q \in rows, p # q
      PROVE  \/ p \notin Upto(q, rows, v) /\ q \in Upto(p, rows, v)
             \/ q \notin Upto(p, rows, v) /\ p \in Upto(q, rows, v)
  BY <1>4 DEF Upto
<1>5. rank \in Injection(rows, 1..n)
  <2>1. rank \in [rows -> 1..n]
    BY <1>2
  <2>2. \A p, q \in rows : rank[p] = rank[q] => p = q
    BY <1>3, <1>4
  <2> HIDE DEF rank
  <2>3. DOMAIN rank = rows
    BY <2>1
  <2>4. QED
    BY <2>1, <2>2, <2>3 DEF Injection, IsInjective
<1>6. IsFiniteSet(1..n) /\ Cardinality(1..n) = n
  BY <1>1, FS_Interval
<1>7. rank \in Surjection(rows, 1..n)
  BY <1>5, <1>6, FS_Injection
<1>8. \E p \in rows : rank[p] = i
  <2> HIDE DEF rank
  <2>1. QED
    BY <1>7 DEF Surjection
<1>9. QED
  BY <1>8

\* The table shows rows of the data.
LEMMA ShownRows ==
    ASSUME NEW d \in Data, NEW v \in Views
    PROVE  /\ Shown(d, v) \in Seq(Pilots)
           /\ \A i \in DOMAIN Shown(d, v) :
                 Shown(d, v)[i] \in Range(BaseRows(d))
<1> DEFINE rows == Matching(Rows(d, v), v)
<1>1. rows \in SUBSET Range(BaseRows(d))
  BY DEF Matching, Rows
<1> HIDE DEF rows
<1>2. /\ rows \in SUBSET Nat /\ rows \in SUBSET Pilots /\ IsFiniteSet(rows)
      /\ Cardinality(rows) \in Nat
  BY <1>1, RosterRows, FS_Subset, FS_CardinalityType
<1>3. \A i \in 1..Cardinality(rows) :
         (CHOOSE p \in rows : Cardinality(Upto(p, rows, v)) = i) \in rows
  BY <1>2, EveryRank
<1>4. Shown(d, v) = [i \in 1..Cardinality(rows) |->
                       CHOOSE p \in rows : Cardinality(Upto(p, rows, v)) = i]
  BY DEF Shown, rows
<1>5. Shown(d, v) \in [1..Cardinality(rows) -> rows]
  BY <1>3, <1>4
<1>6. Shown(d, v) \in [1..Cardinality(rows) -> Pilots]
  BY <1>2, <1>5
<1>7. Shown(d, v) \in Seq(Pilots)
  BY <1>2, <1>6
<1>8. \A i \in DOMAIN Shown(d, v) : Shown(d, v)[i] \in Range(BaseRows(d))
  BY <1>1, <1>5
<1>9. QED
  BY <1>7, <1>8

LEMMA HealedRow ==
    ASSUME NEW d \in Data, NEW prev
    PROVE  Healed(d, prev) = None \/ Healed(d, prev) \in Range(BaseRows(d))
<1>1. BaseRows(d) # <<>> => Head(BaseRows(d)) \in Range(BaseRows(d))
  BY RosterRows DEF Range
<1>2. QED
  BY <1>1 DEF Healed

LEMMA InitInv == Init => IInv
<1> SUFFICES ASSUME Init PROVE IInv
  OBVIOUS
<1>1. TypeOK
  BY ScreenAssumption DEF Init, TypeOK, Views, DefaultView
<1>2. RowsInData /\ OneFlight /\ ShownIsLatest /\ StoredIsCurrent
  BY DEF Init, RowsInData, OneFlight, ShownIsLatest, StoredIsCurrent
<1>3. QED
  BY <1>1, <1>2 DEF IInv

-----------------------------------------------------------------------------
\* What a step that is about the analysis makes of the screen.
LEMMA AnalysisRows ==
    ASSUME TypeOK, RowsInData, NEW st \in States, NEW d \in Data,
           Analysis(st, d), UNCHANGED <<tab, view>>
    PROVE  /\ status' = st /\ data' = d /\ RowsInData'
           /\ selected' \in Pilots \cup {None} /\ visible' \in Seq(Pilots)
<1>1. status' = st /\ data' = d
  BY DEF Analysis
<1>2. CASE tab = "local"
  <2>1. selected' = Healed(d, selected) /\ visible' = Shown(d, view)
    BY <1>2 DEF Analysis
  <2>2. view \in Views
    BY DEF TypeOK
  <2>3. /\ visible' \in Seq(Pilots)
        /\ \A i \in DOMAIN visible' : visible'[i] \in Range(BaseRows(d))
    BY <2>1, <2>2, ShownRows
  <2>4. selected' = None \/ selected' \in Range(BaseRows(d))
    BY <2>1, HealedRow
  <2>5. selected' \in Pilots \cup {None}
    BY <2>4, RosterRows
  <2>6. tab' = "local"
    BY <1>2
  <2>7. RowsInData'
    BY <1>1, <2>3, <2>4, <2>6 DEF RowsInData, InData
  <2>8. QED
    BY <1>1, <2>3, <2>5, <2>7
<1>3. CASE tab # "local"
  <2>1. UNCHANGED <<tab, selected, visible>> /\ tab = "other"
    BY <1>3 DEF Analysis, TypeOK
  <2>2. RowsInData'
    BY <2>1 DEF RowsInData
  <2>3. QED
    BY <1>1, <2>1, <2>2 DEF TypeOK
<1>4. QED
  BY <1>2, <1>3

LEMMA RunInv ==
    ASSUME IInv, tab = "local", ~keys => Enabled,
           Refuse \/ \E s \in Slots : Start(s),
           UNCHANGED <<keys, tab, text, view, stored>>
    PROVE  IInv'
<1> USE DEF IInv
<1>1. CASE Refuse
  <2>1. Analysis("error", None) /\ UNCHANGED <<flight, last, fresh>>
    BY <1>1 DEF Refuse
  <2>2. /\ status' = "error" /\ data' = None /\ RowsInData'
        /\ selected' \in Pilots \cup {None} /\ visible' \in Seq(Pilots)
    BY <2>1, AnalysisRows DEF States, Data
  <2>3. TypeOK'
    BY <2>1, <2>2 DEF TypeOK
  <2>4. OneFlight' /\ ShownIsLatest'
    BY <2>1, <2>2 DEF OneFlight, ShownIsLatest, Enabled
  <2>5. StoredIsCurrent'
    BY DEF StoredIsCurrent
  <2>6. QED
    BY <2>2, <2>3, <2>4, <2>5
<1>2. ASSUME NEW s \in Slots, Start(s)
      PROVE  IInv'
  <2>1. /\ Analysis("loading", data) /\ flight' = [flight EXCEPT ![s] = text]
        /\ last' = s /\ fresh' = FALSE
    BY <1>2 DEF Start
  <2>2. data \in Data
    BY DEF TypeOK, Data
  <2>3. /\ status' = "loading" /\ RowsInData' /\ data' = data
        /\ selected' \in Pilots \cup {None} /\ visible' \in Seq(Pilots)
    BY <2>1, <2>2, AnalysisRows DEF States
  <2>4. TypeOK'
    BY <2>1, <2>2, <2>3 DEF TypeOK, Data
  <2>5. OneFlight' /\ ShownIsLatest'
    BY <2>1, <2>3 DEF OneFlight, ShownIsLatest, Enabled, TypeOK
  <2>6. StoredIsCurrent'
    BY DEF StoredIsCurrent
  <2>7. QED
    BY <2>3, <2>4, <2>5, <2>6
<1>3. QED
  BY <1>1, <1>2

LEMMA AnswerInv == ASSUME IInv, NEW s \in Slots, Answer(s) PROVE IInv'
<1> USE DEF IInv
<1>1. PICK st \in {"success", "error"}, d \in Data :
         /\ Analysis(st, d) /\ flight[s] # None /\ Landed(s)
         /\ UNCHANGED <<keys, tab, text, view, stored, last>>
  BY DEF Answer, Success, Failure, Caught, Data, TypeOK
<1>2. /\ flight' = [flight EXCEPT ![s] = None] /\ fresh' = (s = last)
  BY <1>1 DEF Landed
<1>3. /\ status' = st /\ RowsInData' /\ data' = d
      /\ selected' \in Pilots \cup {None} /\ visible' \in Seq(Pilots)
  BY <1>1, AnalysisRows DEF States
<1>4. TypeOK'
  BY <1>1, <1>2, <1>3 DEF TypeOK, Data
<1>5. OneFlight' /\ ShownIsLatest'
  BY <1>1, <1>2, <1>3 DEF OneFlight, ShownIsLatest, TypeOK
<1>6. StoredIsCurrent'
  BY <1>1 DEF StoredIsCurrent
<1>7. QED
  BY <1>3, <1>4, <1>5, <1>6

-----------------------------------------------------------------------------
app == <<keys, status, data, flight, last, fresh>>

\* Steps that concern neither the analyses nor the data.
LEMMA ViewStepInv ==
    ASSUME IInv, UNCHANGED app, tab' \in {"local", "other"}, text' \in Texts,
           selected' \in Pilots \cup {None}, visible' \in Seq(Pilots),
           view' \in Views, stored' \in [text : Texts, view : Views],
           StoredIsCurrent', RowsInData'
    PROVE  IInv'
<1>1. TypeOK'
  BY DEF IInv, TypeOK, app
<1>2. OneFlight' /\ ShownIsLatest'
  BY DEF IInv, OneFlight, ShownIsLatest, app
<1>3. QED
  BY <1>1, <1>2 DEF IInv

LEMMA PasteInv == ASSUME IInv, NEW t \in Texts, Paste(t) PROVE IInv'
<1>1. /\ UNCHANGED <<app, tab, selected, visible, view>> /\ text' = t
      /\ stored' = [text |-> t, view |-> view]
  BY DEF Paste, Persisted, app
<1>2. stored' \in [text : Texts, view : Views] /\ StoredIsCurrent'
  BY <1>1 DEF StoredIsCurrent, IInv, TypeOK
<1>3. RowsInData'
  BY <1>1 DEF IInv, RowsInData, InData, app
<1>4. QED
  BY <1>1, <1>2, <1>3, ViewStepInv DEF IInv, TypeOK

LEMMA SetViewInv == ASSUME IInv, NEW v \in Views, SetView(v) PROVE IInv'
<1>1. /\ UNCHANGED <<app, tab, selected, text>> /\ view' = v /\ tab = "local"
      /\ stored' = [text |-> text, view |-> v] /\ visible' = Shown(data, v)
  BY DEF SetView, Persisted, app
<1>2. stored' \in [text : Texts, view : Views] /\ StoredIsCurrent'
  BY <1>1 DEF StoredIsCurrent, IInv, TypeOK
<1>3. /\ visible' \in Seq(Pilots)
      /\ \A i \in DOMAIN visible' : visible'[i] \in Range(BaseRows(data))
  BY <1>1, ShownRows DEF IInv, TypeOK, Data
<1>4. RowsInData'
  BY <1>1, <1>3 DEF IInv, RowsInData, InData, app
<1>5. QED
  BY <1>1, <1>2, <1>3, <1>4, ViewStepInv DEF IInv, TypeOK

\* The arrow keys and the mouse select a row that is shown.
LEMMA SelectInv ==
    ASSUME IInv,
           (\E down \in BOOLEAN : Arrow(down)) \/ \E p \in Pilots : Click(p)
    PROVE  IInv'
<1>1. /\ UNCHANGED <<app, tab, text, visible, view, stored>> /\ tab = "local"
      /\ selected' = None \/ \E i \in DOMAIN visible : selected' = visible[i]
  BY DEF Arrow, Click, Range, app
<1>2. selected' = None \/ selected' \in Range(BaseRows(data))
  BY <1>1 DEF IInv, RowsInData, InData
<1>3. selected' \in Pilots \cup {None}
  BY <1>2, RosterRows DEF IInv, TypeOK, Data
<1>4. RowsInData'
  BY <1>1, <1>2 DEF IInv, RowsInData, InData, app
<1>5. StoredIsCurrent'
  BY <1>1 DEF IInv, StoredIsCurrent
<1>6. QED
  BY <1>1, <1>3, <1>4, <1>5, ViewStepInv DEF IInv, TypeOK

LEMMA LeaveInv == ASSUME IInv, Leave PROVE IInv'
<1>1. /\ UNCHANGED <<app, text, stored>> /\ tab' = "other" /\ selected' = None
      /\ visible' = <<>> /\ view' = DefaultView
  BY DEF Leave, app
<1>2. RowsInData' /\ StoredIsCurrent'
  BY <1>1 DEF IInv, RowsInData, StoredIsCurrent
<1>3. /\ view' \in Views /\ visible' \in Seq(Pilots)
      /\ selected' \in Pilots \cup {None}
  BY <1>1 DEF DefaultView, Views
<1>4. QED
  BY <1>1, <1>2, <1>3, ViewStepInv DEF IInv, TypeOK

\* A new LocalScreen.
LEMMA MountedRows ==
    ASSUME NEW v \in Views, text' \in Texts, data' \in Data, tab' = "local",
           Mounted(v)
    PROVE  /\ RowsInData' /\ StoredIsCurrent' /\ view' \in Views
           /\ stored' \in [text : Texts, view : Views]
           /\ selected' \in Pilots \cup {None} /\ visible' \in Seq(Pilots)
<1>1. /\ view' = v /\ stored' = [text |-> text', view |-> v]
      /\ selected' = Healed(data', None) /\ visible' = Shown(data', v)
  BY DEF Mounted, Persisted
<1>2. PICK d \in Data : data' = d
  OBVIOUS
<1>3. /\ visible' \in Seq(Pilots)
      /\ \A i \in DOMAIN visible' : visible'[i] \in Range(BaseRows(d))
  BY <1>1, <1>2, ShownRows
<1>4. selected' = None \/ selected' \in Range(BaseRows(d))
  BY <1>1, <1>2, HealedRow
<1>5. selected' \in Pilots \cup {None}
  BY <1>4, RosterRows
<1>6. RowsInData'
  BY <1>2, <1>3, <1>4 DEF RowsInData, InData
<1>7. StoredIsCurrent'
  BY <1>1 DEF StoredIsCurrent
<1>8. QED
  BY <1>1, <1>3, <1>5, <1>6, <1>7

LEMMA ComeBackInv == ASSUME IInv, ComeBack PROVE IInv'
<1>1. /\ UNCHANGED <<app, text>> /\ tab' = "local" /\ Mounted(stored.view)
      /\ text' \in Texts /\ data' \in Data /\ stored.view \in Views
  BY DEF ComeBack, app, IInv, TypeOK, Data
<1>2. PICK v \in Views : Mounted(v)
  BY <1>1
<1>3. /\ RowsInData' /\ StoredIsCurrent' /\ view' \in Views
      /\ stored' \in [text : Texts, view : Views]
      /\ selected' \in Pilots \cup {None} /\ visible' \in Seq(Pilots)
  BY <1>1, <1>2, MountedRows
<1>4. QED
  BY <1>1, <1>3, ViewStepInv

LEMMA RestartInv == ASSUME IInv, Restart PROVE IInv'
<1>1. /\ tab' = "local" /\ text' = stored.text /\ status' = "idle"
      /\ data' = None /\ flight' = [s \in Slots |-> None] /\ last' = None
      /\ fresh' = TRUE /\ UNCHANGED keys /\ Mounted(stored.view)
  BY DEF Restart
<1>2. text' \in Texts /\ data' \in Data /\ stored.view \in Views
  BY <1>1 DEF IInv, TypeOK, Data
<1>3. PICK v \in Views : Mounted(v)
  BY <1>1, <1>2
<1>4. /\ RowsInData' /\ StoredIsCurrent' /\ view' \in Views
      /\ stored' \in [text : Texts, view : Views]
      /\ selected' \in Pilots \cup {None} /\ visible' \in Seq(Pilots)
  BY <1>1, <1>2, <1>3, MountedRows
<1>5. TypeOK'
  BY <1>1, <1>2, <1>4 DEF IInv, TypeOK, Data
<1>6. OneFlight' /\ ShownIsLatest'
  BY <1>1 DEF OneFlight, ShownIsLatest
<1>7. QED
  BY <1>4, <1>5, <1>6 DEF IInv

LEMMA StepInv == IInv /\ [Next]_vars => IInv'
<1> SUFFICES ASSUME IInv, [Next]_vars PROVE IInv'
  OBVIOUS
<1>1. CASE Button \/ EnterKey
  BY <1>1, RunInv DEF Button, EnterKey
<1>2. ASSUME NEW s \in Slots, Answer(s)
      PROVE  IInv'
  BY <1>2, AnswerInv
<1>3. CASE \/ \E t \in Texts : Paste(t)
           \/ \E v \in Views : SetView(v)
           \/ \E down \in BOOLEAN : Arrow(down)
           \/ \E p \in Pilots : Click(p)
  BY <1>3, PasteInv, SetViewInv, SelectInv
<1>4. CASE Leave \/ ComeBack \/ Restart
  BY <1>4, LeaveInv, ComeBackInv, RestartInv
<1>5. CASE UNCHANGED vars
  BY <1>5 DEF IInv, TypeOK, RowsInData, InData, OneFlight, ShownIsLatest,
              StoredIsCurrent, vars
<1>6. QED
  BY <1>1, <1>2, <1>3, <1>4, <1>5 DEF Next

LEMMA Invariance == Spec => []IInv
<1>1. IInv /\ [Next]_vars => IInv'
  BY StepInv
<1>2. QED
  BY InitInv, <1>1, PTL DEF Spec

-----------------------------------------------------------------------------
(* The screen and the preferences are always of their types: the rows are  *)
(* pilots of a text, whatever is filtered and sorted.                      *)
THEOREM TypeCorrect == Spec => []TypeOK
BY Invariance, PTL DEF IInv

(* Whoever analyses with the button sees the result of the last analysis.  *)
THEOREM LatestShown == Spec => []ShownIsLatest
BY Invariance, PTL DEF IInv

(* No answer, filter, key or tab leaves a pilot selected that the data do  *)
(* not hold.                                                               *)
THEOREM SelectionStays == Spec => []SelectionInData
<1>1. IInv => SelectionInData
  BY DEF IInv, RowsInData, InData, SelectionInData, TypeOK
<1>2. QED
  BY <1>1, Invariance, PTL

(* App and LocalScreen both write the preferences, and neither writes what *)
(* the other has outdated.                                                 *)
THEOREM StoredCurrent == Spec => []StoredIsCurrent
BY Invariance, PTL DEF IInv

=============================================================================
