--------------------------- MODULE AppServiceProofs ---------------------------
(***************************************************************************)
(* Proofs about AppService for every number of overlapping calls, every    *)
(* set of characters and every sequence of settings the user saves.  The   *)
(* inductive invariant follows the copies of sessions that calls carry     *)
(* without the mutex: all copies of a session, and the session while the   *)
(* registry holds it, have one source, also when ClearCache has dropped    *)
(* the session and a refresh writes it back.                               *)
(*                                                                         *)
(* The second half is about Enrichment, which every such call carries out  *)
(* on its copy, for every answer of the providers: feeds of any length,    *)
(* any number of pilots, any budget.  Its invariant is what each stage     *)
(* leaves behind; the loop over a feed is followed round by round.         *)
(***************************************************************************)
EXTENDS AppService, Enrichment, FiniteSetTheorems, WellFoundedInduction, TLAPS

Places == {"idle", "resolve", "settings", "enrich", "merge", "write", "marshal"}
Ops == {"none", "analyze", "session", "pilot", "recent"}

Analysing(p) == pc[p] \in {"resolve", "settings"}
Refreshing(p) == pc[p] \in {"enrich", "merge", "write"}

\* What no call may change of a session.
Source(s) == <<s.chars, s.unresolved, s.settings>>

\* DetailsAccounted, of one session.
Accounted(s) ==
    /\ s.fetched \subseteq s.requested
    /\ s.requested \subseteq s.chars
    /\ s.failed = s.requested \ s.fetched
    /\ s.got <= s.asked
    /\ s.asked <= Cardinality(s.requested)
    /\ s.got <= Cardinality(s.fetched)
    /\ s.got < s.asked => s.failed # {}

\* The registry and the calls hold sessions or nothing.
Holding ==
    /\ sessions \in [Ids -> Session \cup {None}]
    /\ copy \in [Procs -> Session \cup {None}]

\* A session of the registry.
Kept(i) ==
    sessions[i] # None =>
        /\ i <= clock /\ sessions[i].created = i
        /\ Ordered(sessions[i].settings) /\ Accounted(sessions[i])

\* A call and its copy.
Carried(p) ==
    /\ id[p] <= clock /\ (id[p] = 0 <=> pc[p] = "idle")
    /\ Analysing(p) => op[p] = "analyze"
    /\ op[p] = "pilot" => sel[p] \in Chars
    /\ pc[p] = "settings" \/ Refreshing(p) =>
          /\ copy[p] \in Session /\ copy[p].created = id[p]
          /\ Accounted(copy[p])
    /\ Refreshing(p) =>
          /\ op[p] \in {"session", "pilot"}
          /\ Ordered(copy[p].settings)
    /\ pc[p] = "merge" => op[p] = "session"

\* An analysis has its id to itself until it publishes the session.
OwnId(p) ==
    Analysing(p) => /\ sessions[id[p]] = None
                    /\ \A q \in Procs \ {p} : id[q] # id[p]

\* One source for a session and all its copies.
OneSource(p) ==
    Refreshing(p) =>
        /\ sessions[id[p]] # None => Source(sessions[id[p]]) = Source(copy[p])
        /\ \A q \in Procs : Refreshing(q) /\ id[q] = id[p] =>
                               Source(copy[q]) = Source(copy[p])

IInv == /\ TypeOK /\ Holding /\ Ordered(settings)
        /\ \A i \in Ids : Kept(i)
        /\ \A p \in Procs : Carried(p)
        /\ \A p \in Procs : OwnId(p)
        /\ \A p \in Procs : OneSource(p)

-----------------------------------------------------------------------------
LEMMA SizesOfChars ==
    ASSUME NEW S \in SUBSET Chars
    PROVE  IsFiniteSet(S) /\ Cardinality(S) \in 0..Cardinality(Chars)
<1>1. /\ IsFiniteSet(S) /\ Cardinality(S) <= Cardinality(Chars)
      /\ Cardinality(S) \in Nat /\ Cardinality(Chars) \in Nat
  BY CharsAssumption, FS_Subset, FS_CardinalityType
<1>2. QED
  BY <1>1

LEMMA SizesOfParts ==
    ASSUME NEW S \in SUBSET Chars, NEW F \in SUBSET S
    PROVE  /\ Cardinality(F) \in 0..Cardinality(S)
           /\ F # S => Cardinality(F) < Cardinality(S)
<1>1. IsFiniteSet(S) /\ Cardinality(S) \in Nat
  BY SizesOfChars
<1>2. /\ Cardinality(F) \in Nat /\ Cardinality(F) <= Cardinality(S)
      /\ F # S => Cardinality(F) # Cardinality(S)
  BY <1>1, FS_Subset, FS_CardinalityType
<1>3. QED
  BY <1>1, <1>2

LEMMA NonEmptySize ==
    ASSUME NEW S \in SUBSET Chars, NEW c \in S
    PROVE  Cardinality(S) >= 1
<1>1. IsFiniteSet(S) /\ Cardinality(S) \in Nat
  BY SizesOfChars
<1>2. Cardinality(S) # 0
  BY <1>1, FS_EmptySet
<1>3. QED
  BY <1>1, <1>2

\* One enrichment accounts for itself, whatever the session showed before.
LEMMA EnrichedSession ==
    ASSUME NEW s \in Session, NEW R \in SUBSET s.chars, NEW F \in SUBSET R
    PROVE  /\ Enriched(s, R, F) \in Session /\ Accounted(Enriched(s, R, F))
           /\ Source(Enriched(s, R, F)) = Source(s)
           /\ Enriched(s, R, F).created = s.created
           /\ Enriched(s, R, F).requested = R
           /\ Enriched(s, R, F).fetched = F
<1> DEFINE e == Enriched(s, R, F)
<1>1. /\ s.chars \in SUBSET Chars
      /\ Cardinality(R) \in 0..Cardinality(Chars)
      /\ Cardinality(F) \in 0..Cardinality(Chars)
      /\ Cardinality(F) <= Cardinality(R)
      /\ Cardinality(F) < Cardinality(R) => R \ F # {}
  <2>1. s.chars \in SUBSET Chars
    BY DEF Session
  <2>2. R \in SUBSET Chars /\ F \in SUBSET Chars
    BY <2>1
  <2>3. /\ Cardinality(R) \in 0..Cardinality(Chars)
        /\ Cardinality(F) \in 0..Cardinality(Chars)
        /\ Cardinality(F) <= Cardinality(R)
    <3>1. Cardinality(R) \in 0..Cardinality(Chars)
      BY <2>2, SizesOfChars
    <3>2. Cardinality(F) \in 0..Cardinality(Chars)
      BY <2>2, SizesOfChars
    <3>3. Cardinality(F) \in 0..Cardinality(R)
      BY <2>2, SizesOfParts
    <3>4. QED
      BY <3>1, <3>2, <3>3
  <2>4. Cardinality(F) < Cardinality(R) => F # R
    BY <2>3
  <2>5. QED
    BY <2>1, <2>3, <2>4
<1>2. e \in Session
  BY <1>1 DEF Enriched, Session
<1>3. /\ e.requested = R /\ e.fetched = F /\ e.failed = R \ F
      /\ e.asked = Cardinality(R) /\ e.got = Cardinality(F)
      /\ e.chars = s.chars /\ e.unresolved = s.unresolved
      /\ e.settings = s.settings /\ e.created = s.created
  BY DEF Enriched, Session
<1>4. Accounted(e)
  <2> HIDE DEF e
  <2>1. QED
    BY <1>1, <1>3 DEF Accounted
<1>5. Source(e) = Source(s)
  <2> HIDE DEF e
  <2>1. QED
    BY <1>3 DEF Source
<1>6. QED
  BY <1>2, <1>3, <1>4, <1>5

\* The coverage of one pilot among those asked about.
LEMMA CoveredSession ==
    ASSUME NEW s \in Session, Accounted(s), NEW c \in s.requested,
           s.requested \subseteq s.chars
    PROVE  /\ CoverageOfOne(s, c) \in Session
           /\ Accounted(CoverageOfOne(s, c))
           /\ Source(CoverageOfOne(s, c)) = Source(s)
           /\ CoverageOfOne(s, c).created = s.created
<1> DEFINE e == CoverageOfOne(s, c)
<1>1. /\ s.requested \in SUBSET Chars /\ s.fetched \in SUBSET Chars
      /\ s.fetched \subseteq s.requested /\ s.failed = s.requested \ s.fetched
  BY DEF Session, Accounted
<1>2. /\ Cardinality(s.requested) \in 0..Cardinality(Chars)
      /\ Cardinality(s.fetched) \in 0..Cardinality(Chars)
      /\ Cardinality(s.requested) >= 1
      /\ c \in s.fetched => Cardinality(s.fetched) >= 1
      /\ Cardinality(Chars) \in Nat
  <2>1. Cardinality(Chars) \in Nat
    BY CharsAssumption, FS_CardinalityType
  <2>2. /\ Cardinality(s.requested) \in 0..Cardinality(Chars)
        /\ Cardinality(s.fetched) \in 0..Cardinality(Chars)
    BY <1>1, SizesOfChars
  <2>3. /\ Cardinality(s.requested) >= 1
        /\ c \in s.fetched => Cardinality(s.fetched) >= 1
    BY <1>1, NonEmptySize
  <2>4. QED
    BY <2>1, <2>2, <2>3
<1>3. e \in Session
  <2> DEFINE g == IF c \in s.fetched THEN 1 ELSE 0
  <2>1. 1 \in 0..Cardinality(Chars) /\ g \in 0..Cardinality(Chars)
    BY <1>2
  <2> HIDE DEF g
  <2>2. [s EXCEPT !.asked = 1, !.got = g] \in Session
    BY <2>1 DEF Session
  <2>3. QED
    BY <2>2 DEF CoverageOfOne, g
<1>4. /\ e.requested = s.requested /\ e.fetched = s.fetched
      /\ e.failed = s.failed /\ e.chars = s.chars
      /\ e.unresolved = s.unresolved /\ e.settings = s.settings
      /\ e.created = s.created
      /\ e.asked = 1 /\ e.got = IF c \in s.fetched THEN 1 ELSE 0
  BY DEF CoverageOfOne, Session
<1>5. Accounted(e)
  <2> HIDE DEF e
  <2>1. QED
    BY <1>1, <1>2, <1>4 DEF Accounted
<1>6. Source(e) = Source(s)
  <2> HIDE DEF e
  <2>1. QED
    BY <1>4 DEF Source
<1>7. QED
  BY <1>3, <1>4, <1>5, <1>6

LEMMA StampedSession ==
    ASSUME NEW s \in Session, Accounted(s), clock \in Nat, clock < MaxClock
    PROVE  /\ Stamped(s) \in Session /\ Accounted(Stamped(s))
           /\ Source(Stamped(s)) = Source(s)
           /\ Stamped(s).created = s.created
<1> DEFINE e == Stamped(s)
<1>1. clock + 1 \in Ids
  BY BoundsAssumption DEF Ids
<1>2. e \in Session
  BY <1>1 DEF Stamped, Session
<1>3. /\ e.requested = s.requested /\ e.fetched = s.fetched
      /\ e.failed = s.failed /\ e.chars = s.chars
      /\ e.unresolved = s.unresolved /\ e.settings = s.settings
      /\ e.created = s.created /\ e.asked = s.asked /\ e.got = s.got
  BY DEF Stamped, Session
<1>4. QED
  <2> HIDE DEF e
  <2>1. Accounted(e) /\ Source(e) = Source(s)
    BY <1>3 DEF Accounted, Source
  <2>2. QED
    BY <1>2, <1>3, <2>1 DEF e

LEMMA InitInv == Init => IInv
<1> SUFFICES ASSUME Init PROVE IInv
  OBVIOUS
<1>1. TypeOK
  BY BoundsAssumption
     DEF Init, TypeOK, Default, Uncopied, Halves, Settings, Ids
<1>2. Holding
  BY DEF Init, Holding
<1>3. Ordered(settings)
  BY DEF Init, Default, Halves, Ordered
<1>4. \A i \in Ids : Kept(i)
  BY DEF Init, Kept
<1>5. \A p \in Procs : Carried(p) /\ OwnId(p) /\ OneSource(p)
  BY DEF Init, Carried, OwnId, OneSource, Analysing, Refreshing
<1>6. QED
  BY <1>1, <1>2, <1>3, <1>4, <1>5 DEF IInv, Init

-----------------------------------------------------------------------------
\* What another call has of its own.
Own(p) == <<pc[p], op[p], id[p], sel[p], copy[p]>>

LEMMA OthersCarried ==
    ASSUME TypeOK, NEW q \in Procs, Carried(q), Own(q)' = Own(q),
           front' = front, clock' \in {clock, clock + 1}
    PROVE  Carried(q)'
BY BoundsAssumption DEF Carried, Own, Analysing, Refreshing, TypeOK, Ids

\* The id and the copy of a call are those it had, or a registered session's.
IdFollows(p) ==
    \/ id'[p] \in {0, id[p]}
    \/ ~Analysing(p)' /\ sessions[id'[p]] # None

CopyFollows(p) ==
    Refreshing(p)' =>
       \/ /\ Refreshing(p) /\ id'[p] = id[p]
          /\ Source(copy[p])' = Source(copy[p])
       \/ /\ sessions[id'[p]] # None
          /\ Source(copy[p])' = Source(sessions[id'[p]])

(* A call moves on with its copy, or begins with none, and the registry    *)
(* stays as it is.                                                         *)
LEMMA MoveInv ==
    ASSUME IInv, NEW p \in Procs, TypeOK', Holding', Carried(p)',
           UNCHANGED <<front, settings, sessions>>,
           clock' \in {clock, clock + 1},
           \A q \in Procs \ {p} : Own(q)' = Own(q),
           Analysing(p)' => Analysing(p) /\ id'[p] = id[p],
           IdFollows(p), CopyFollows(p)
    PROVE  IInv'
<1> USE DEF IdFollows, CopyFollows
<1>1. \A i \in Ids : Kept(i)'
  BY BoundsAssumption DEF IInv, Kept, TypeOK, Ids
<1>2. \A q \in Procs : Carried(q)'
  BY OthersCarried DEF IInv
<1>3. \A q \in Procs : OwnId(q)'
  <2> SUFFICES ASSUME NEW q \in Procs, Analysing(q)'
               PROVE  /\ sessions[id'[q]] = None
                      /\ \A r \in Procs \ {q} : id'[r] # id'[q]
    BY DEF OwnId
  <2>1. Analysing(q) /\ id'[q] = id[q]
    BY DEF Own, Analysing
  <2>2. /\ sessions[id[q]] = None /\ id[q] # 0
        /\ \A r \in Procs \ {q} : id[r] # id[q]
    BY <2>1 DEF IInv, OwnId, Carried, Analysing
  <2>3. \A r \in Procs \ {p} : id'[r] = id[r]
    BY DEF Own
  <2>4. QED
    BY <2>1, <2>2, <2>3
<1>4. \A q \in Procs : OneSource(q)'
  <2>1. \A q \in Procs \ {p} : /\ Refreshing(q)' <=> Refreshing(q)
                               /\ id'[q] = id[q]
                               /\ Source(copy[q])' = Source(copy[q])
    BY DEF Own, Refreshing, Source
  <2>2. \A q, r \in Procs : Refreshing(q) /\ Refreshing(r) /\ id[q] = id[r] =>
                              Source(copy[q]) = Source(copy[r])
    BY DEF IInv, OneSource
  <2>3. \A q \in Procs : Refreshing(q) /\ sessions[id[q]] # None =>
                           Source(sessions[id[q]]) = Source(copy[q])
    BY DEF IInv, OneSource
  <2>4. \A q \in Procs : Refreshing(q)' /\ sessions[id'[q]] # None =>
                           Source(sessions[id'[q]]) = Source(copy[q])'
    BY <2>1, <2>3
  <2>5. \A q, r \in Procs :
           Refreshing(q)' /\ Refreshing(r)' /\ id'[q] = id'[r] =>
              Source(copy[q])' = Source(copy[r])'
    BY <2>1, <2>2, <2>3
  <2>6. \A q \in Procs : Source(sessions[id[q]])' = Source(sessions[id'[q]])
    BY DEF Source
  <2>7. QED
    BY <2>4, <2>5, <2>6 DEF OneSource
<1>5. QED
  BY <1>1, <1>2, <1>3, <1>4 DEF IInv, TypeOK

(* A copy goes into the registry: of a new session, or back.               *)
LEMMA PutInv ==
    ASSUME IInv, NEW p \in Procs, TypeOK', Holding', Carried(p)',
           UNCHANGED <<front, settings, clock>>,
           \A q \in Procs \ {p} : Own(q)' = Own(q),
           (pc[p] = "settings" /\ Ordered(copy[p].settings)) \/ pc[p] = "write",
           sessions' = [sessions EXCEPT ![id[p]] = copy[p]],
           id'[p] \in {0, id[p]}, ~Analysing(p)', ~Refreshing(p)'
    PROVE  IInv'
<1>1. /\ id[p] \in Ids /\ id[p] <= clock /\ copy[p] \in Session
      /\ copy[p].created = id[p] /\ Ordered(copy[p].settings)
      /\ Accounted(copy[p])
  BY DEF IInv, Carried, TypeOK, Analysing, Refreshing
<1>2. /\ sessions'[id[p]] = copy[p]
      /\ \A i \in Ids \ {id[p]} : sessions'[i] = sessions[i]
  BY <1>1 DEF IInv, Holding
<1>3. \A i \in Ids : Kept(i)'
  BY <1>1, <1>2 DEF IInv, Kept
<1>4. \A q \in Procs : Carried(q)'
  BY OthersCarried DEF IInv
<1>5. \A q \in Procs \ {p} : /\ Analysing(q)' <=> Analysing(q)
                             /\ Refreshing(q)' <=> Refreshing(q)
                             /\ id'[q] = id[q]
                             /\ copy'[q] = copy[q]
  BY DEF Own, Analysing, Refreshing
<1>6. \A q \in Procs \ {p} : Analysing(q) \/ Refreshing(q) => id[q] \in Ids
  BY DEF IInv, Carried, TypeOK, Analysing, Refreshing
<1>7. \A q \in Procs : OwnId(q)'
  <2> SUFFICES ASSUME NEW q \in Procs, Analysing(q)'
               PROVE  /\ sessions'[id'[q]] = None
                      /\ \A r \in Procs \ {q} : id'[r] # id'[q]
    BY DEF OwnId
  <2>1. /\ q # p /\ id[q] \in Ids /\ sessions[id[q]] = None
        /\ \A r \in Procs \ {q} : id[r] # id[q]
    BY <1>5, <1>6 DEF IInv, OwnId
  <2>2. id[q] # 0
    BY <2>1 DEF Ids
  <2>3. QED
    BY <1>2, <1>5, <2>1, <2>2
<1>8. \A q \in Procs \ {p} : Refreshing(q) /\ id[q] = id[p] =>
                              Source(copy[q]) = Source(copy[p])
  <2>1. CASE pc[p] = "settings"
    BY <2>1 DEF IInv, OwnId, Analysing
  <2>2. CASE pc[p] = "write"
    BY <2>2 DEF IInv, OneSource, Refreshing
  <2>3. QED
    BY <2>1, <2>2
<1>9. \A q \in Procs : OneSource(q)'
  <2> SUFFICES ASSUME NEW q \in Procs, Refreshing(q)'
               PROVE  OneSource(q)'
    BY DEF OneSource
  <2>1. q # p /\ Refreshing(q) /\ id[q] \in Ids
    BY <1>5, <1>6
  <2>2. sessions'[id[q]] # None => Source(sessions'[id[q]]) = Source(copy[q])
    BY <1>2, <1>8, <2>1 DEF IInv, OneSource
  <2>3. \A r \in Procs : Refreshing(r)' /\ id'[r] = id[q] =>
                          Source(copy'[r]) = Source(copy[q])
    BY <1>5, <2>1 DEF IInv, OneSource
  <2>4. QED
    BY <1>5, <2>1, <2>2, <2>3 DEF OneSource, Source
<1>10. QED
  BY <1>3, <1>4, <1>7, <1>9 DEF IInv

(* What a step of one call leaves: of its own it changes its fields.       *)
LEMMA CallTypes ==
    ASSUME IInv, NEW p \in Procs,
           NEW pl \in Places, NEW o \in Ops, NEW i \in Ids \cup {0},
           NEW c \in Chars \cup {None}, NEW s \in Session \cup {None},
           pc' = [pc EXCEPT ![p] = pl], op' = [op EXCEPT ![p] = o],
           id' = [id EXCEPT ![p] = i], sel' = [sel EXCEPT ![p] = c],
           copy' = [copy EXCEPT ![p] = s],
           up' \in BOOLEAN, clock' \in 0..MaxClock,
           sessions' \in [Ids -> Session \cup {None}],
           UNCHANGED <<front, settings, settingsForm>>
    PROVE  /\ TypeOK' /\ Holding'
           /\ pc'[p] = pl /\ op'[p] = o /\ id'[p] = i /\ sel'[p] = c
           /\ copy'[p] = s
           /\ \A q \in Procs \ {p} : Own(q)' = Own(q)
<1>1. Holding'
  BY DEF IInv, Holding
<1>2. /\ pc' \in [Procs -> Places] /\ op' \in [Procs -> Ops]
      /\ id' \in [Procs -> Ids \cup {0}]
      /\ sel' \in [Procs -> Chars \cup {None}]
  BY DEF IInv, TypeOK, Places, Ops
<1>3. TypeOK'
  BY <1>1, <1>2 DEF IInv, TypeOK, Holding, settingsForm, Places, Ops
<1>4. /\ pc'[p] = pl /\ op'[p] = o /\ id'[p] = i /\ sel'[p] = c
      /\ copy'[p] = s
  BY DEF IInv, TypeOK, Holding
<1>5. ASSUME NEW q \in Procs \ {p} PROVE Own(q)' = Own(q)
  BY DEF IInv, TypeOK, Holding, Own
<1>6. QED
  BY <1>1, <1>3, <1>4, <1>5

\* The fields a step does not change.
LEMMA SameFields ==
    ASSUME IInv, NEW p \in Procs
    PROVE  /\ op = [op EXCEPT ![p] = op[p]] /\ op[p] \in Ops
           /\ id = [id EXCEPT ![p] = id[p]] /\ id[p] \in Ids \cup {0}
           /\ sel = [sel EXCEPT ![p] = sel[p]] /\ sel[p] \in Chars \cup {None}
           /\ pc = [pc EXCEPT ![p] = pc[p]] /\ pc[p] \in Places
           /\ copy = [copy EXCEPT ![p] = copy[p]]
           /\ copy[p] \in Session \cup {None}
           /\ sessions \in [Ids -> Session \cup {None}]
           /\ clock \in 0..MaxClock /\ clock \in Nat /\ up \in BOOLEAN
BY BoundsAssumption DEF IInv, TypeOK, Holding, Ops, Places

LEMMA AnalyzeInv == ASSUME IInv, NEW p \in Procs, Analyze(p) PROVE IInv'
<1>1. /\ clock' = clock + 1 /\ clock' \in Ids /\ clock' \in 0..MaxClock
  BY SameFields, BoundsAssumption DEF Analyze, Ids
<1>2. /\ pc[p] = "idle" /\ pc' = [pc EXCEPT ![p] = "resolve"]
      /\ op' = [op EXCEPT ![p] = "analyze"] /\ id' = [id EXCEPT ![p] = clock']
      /\ sel' = [sel EXCEPT ![p] = None] /\ copy' = [copy EXCEPT ![p] = None]
      /\ UNCHANGED <<settingsForm, front, up, settings, sessions>>
  BY DEF Analyze, Begin, Goto, Edit
<1>3. /\ TypeOK' /\ Holding' /\ pc'[p] = "resolve" /\ op'[p] = "analyze"
      /\ id'[p] = clock' /\ \A q \in Procs \ {p} : Own(q)' = Own(q)
  <2>1. /\ "resolve" \in Places /\ "analyze" \in Ops
        /\ None \in Chars \cup {None} /\ None \in Session \cup {None}
    BY DEF Places, Ops
  <2>2. up' \in BOOLEAN /\ sessions' \in [Ids -> Session \cup {None}]
    BY <1>2, SameFields
  <2>3. QED
    BY <1>1, <1>2, <2>1, <2>2, CallTypes
<1>4. Carried(p)'
  BY <1>1, <1>3 DEF Carried, Analysing, Refreshing, Ids
<1>5. \A q \in Procs : Carried(q)'
  BY <1>1, <1>2, <1>3, <1>4, OthersCarried DEF IInv
<1>6. \A i \in Ids : Kept(i)'
  BY <1>1, <1>2, SameFields DEF IInv, Kept, Ids
<1>7. sessions[clock'] = None
  BY <1>1, SameFields DEF IInv, Kept
<1>8. \A q \in Procs \ {p} : /\ Analysing(q)' <=> Analysing(q)
                             /\ Refreshing(q)' <=> Refreshing(q)
                             /\ id'[q] = id[q] /\ id[q] # clock'
                             /\ copy'[q] = copy[q]
  BY <1>1, <1>3, SameFields DEF Own, Analysing, Refreshing, IInv, Carried, Ids
<1>9. \A q \in Procs : OwnId(q)'
  <2> SUFFICES ASSUME NEW q \in Procs, Analysing(q)'
               PROVE  /\ sessions'[id'[q]] = None
                      /\ \A r \in Procs \ {q} : id'[r] # id'[q]
    BY DEF OwnId
  <2>1. CASE q = p
    BY <1>2, <1>3, <1>7, <1>8, <2>1
  <2>2. CASE q # p
    BY <1>2, <1>3, <1>8, <2>2 DEF IInv, OwnId
  <2>3. QED
    BY <2>1, <2>2
<1>10. \A q \in Procs : OneSource(q)'
  <2> SUFFICES ASSUME NEW q \in Procs, Refreshing(q)'
               PROVE  OneSource(q)'
    BY DEF OneSource
  <2>1. ~Refreshing(p)'
    BY <1>3 DEF Refreshing
  <2>2. q # p /\ Refreshing(q) /\ OneSource(q)
    BY <1>8, <2>1 DEF IInv
  <2>3. QED
    BY <1>2, <1>8, <2>1, <2>2 DEF OneSource, Source
<1>11. QED
  BY <1>2, <1>3, <1>5, <1>6, <1>9, <1>10 DEF IInv

LEMMA RefreshInv ==
    ASSUME IInv, NEW p \in Procs, NEW i \in Ids,
           \/ RefreshSession(p, i)
           \/ \E c \in Chars : RefreshPilot(p, i, c)
    PROVE  IInv'
<1>1. PICK o \in {"session", "pilot"}, c \in Chars \cup {None} :
         /\ o = "pilot" => c \in Chars
         /\ pc[p] = "idle" /\ pc' = [pc EXCEPT ![p] = "enrich"]
         /\ op' = [op EXCEPT ![p] = o] /\ id' = [id EXCEPT ![p] = i]
         /\ sel' = [sel EXCEPT ![p] = c]
         /\ copy' = [copy EXCEPT ![p] = sessions[i]]
  <2>1. CASE RefreshSession(p, i)
    BY <2>1 DEF RefreshSession, Begin, Goto, Edit
  <2>2. CASE \E c \in Chars : RefreshPilot(p, i, c)
    BY <2>2 DEF RefreshPilot, Begin, Goto, Edit
  <2>3. QED
    BY <2>1, <2>2
<1>2. /\ sessions[i] # None
      /\ UNCHANGED <<settingsForm, front, up, clock, settings, sessions>>
  BY DEF RefreshSession, RefreshPilot
<1>3. /\ sessions[i] \in Session /\ i <= clock /\ sessions[i].created = i
      /\ Ordered(sessions[i].settings) /\ Accounted(sessions[i])
  BY <1>2, SameFields DEF IInv, Kept
<1>4. /\ TypeOK' /\ Holding' /\ pc'[p] = "enrich" /\ op'[p] = o
      /\ id'[p] = i /\ sel'[p] = c /\ copy'[p] = sessions[i]
      /\ \A q \in Procs \ {p} : Own(q)' = Own(q)
  <2>1. /\ "enrich" \in Places /\ o \in Ops
        /\ i \in Ids \cup {0} /\ sessions[i] \in Session \cup {None}
    BY <1>3 DEF Places, Ops
  <2>2. /\ up' \in BOOLEAN /\ sessions' \in [Ids -> Session \cup {None}]
        /\ clock' \in 0..MaxClock
    BY <1>2, SameFields
  <2>3. QED
    BY <1>1, <1>2, <2>1, <2>2, CallTypes
<1>5. Carried(p)'
  BY <1>1, <1>2, <1>3, <1>4 DEF Carried, Analysing, Refreshing, Ids
<1>6. ~Analysing(p)' /\ Refreshing(p)'
  BY <1>4 DEF Analysing, Refreshing
<1>7. Source(copy[p])' = Source(sessions[id'[p]])
  BY <1>4 DEF Source
<1>8. IdFollows(p) /\ CopyFollows(p)
  BY <1>2, <1>4, <1>6, <1>7 DEF IdFollows, CopyFollows
<1>9. QED
  BY <1>2, <1>4, <1>5, <1>6, <1>8, MoveInv

LEMMA LoadRecentInv ==
    ASSUME IInv, NEW p \in Procs, NEW i \in Ids, LoadRecent(p, i)
    PROVE  IInv'
<1>1. /\ pc[p] = "idle" /\ pc' = [pc EXCEPT ![p] = "marshal"]
      /\ op' = [op EXCEPT ![p] = "recent"] /\ id' = [id EXCEPT ![p] = i]
      /\ sel' = [sel EXCEPT ![p] = None] /\ copy' = [copy EXCEPT ![p] = None]
      /\ sessions[i] # None
      /\ UNCHANGED <<settingsForm, front, clock, settings, sessions>>
  BY DEF LoadRecent, Begin, Goto, Edit
<1>2. up' \in BOOLEAN
  BY DEF LoadRecent, MayAbort
<1>3. /\ TypeOK' /\ Holding' /\ pc'[p] = "marshal" /\ op'[p] = "recent"
      /\ id'[p] = i /\ \A q \in Procs \ {p} : Own(q)' = Own(q)
  <2>1. /\ "marshal" \in Places /\ "recent" \in Ops /\ i \in Ids \cup {0}
        /\ None \in Chars \cup {None} /\ None \in Session \cup {None}
    BY DEF Places, Ops
  <2>2. /\ sessions' \in [Ids -> Session \cup {None}] /\ clock' \in 0..MaxClock
    BY <1>1, SameFields
  <2>3. QED
    BY <1>1, <1>2, <2>1, <2>2, CallTypes
<1>4. i <= clock
  BY <1>1 DEF IInv, Kept
<1>5. Carried(p)' /\ ~Analysing(p)' /\ ~Refreshing(p)'
  BY <1>1, <1>3, <1>4 DEF Carried, Analysing, Refreshing, Ids
<1>6. IdFollows(p) /\ CopyFollows(p)
  BY <1>1, <1>3, <1>5 DEF IdFollows, CopyFollows
<1>7. QED
  BY <1>1, <1>2, <1>3, <1>5, <1>6, MoveInv

(* A call goes on with its copy.                                           *)
LEMMA MoveOn ==
    ASSUME IInv, NEW p \in Procs, NEW pl \in Places \ {"idle"},
           NEW s \in Session, pc[p] # "idle",
           pc' = [pc EXCEPT ![p] = pl], copy' = [copy EXCEPT ![p] = s],
           UNCHANGED <<front, settings, settingsForm, sessions, op, id, sel>>,
           up' \in BOOLEAN,
           clock' \in {clock, clock + 1}, clock' \in 0..MaxClock,
           s.created = id[p], Accounted(s),
           pl \in {"resolve", "settings"} => Analysing(p),
           pl \in {"enrich", "merge", "write"} =>
              Refreshing(p) /\ Source(s) = Source(copy[p]),
           pl = "merge" => op[p] = "session"
    PROVE  IInv'
<1>1. /\ pc'[p] = pl /\ copy'[p] = s
      /\ op'[p] = op[p] /\ id'[p] = id[p] /\ sel'[p] = sel[p]
  BY DEF IInv, TypeOK, Holding
<1>2. \A q \in Procs \ {p} : Own(q)' = Own(q)
  BY DEF IInv, TypeOK, Holding, Own
<1>3. Holding'
  BY DEF IInv, Holding
<1>4. TypeOK'
  <2>1. pc' \in [Procs -> Places]
    BY DEF IInv, TypeOK, Places
  <2>2. QED
    BY <1>3, <2>1 DEF IInv, TypeOK, Holding, settingsForm, Places
<1>5. Refreshing(p)' => Refreshing(p) /\ Source(copy[p])' = Source(copy[p])
  BY <1>1 DEF Refreshing, Source
<1>6. Analysing(p)' => Analysing(p)
  BY <1>1 DEF Analysing
<1>7. Carried(p)'
  <2>1. Carried(p) /\ id[p] <= clock'
    BY SameFields DEF IInv, Carried, Ids
  <2>2. Refreshing(p)' => Ordered(s.settings)
    BY <1>1, <2>1 DEF Carried, Source, Refreshing
  <2>3. QED
    BY <1>1, <2>1, <2>2 DEF Carried, Analysing, Refreshing
<1>8. /\ UNCHANGED <<front, settings, sessions>>
      /\ Analysing(p)' => Analysing(p) /\ id'[p] = id[p]
      /\ IdFollows(p) /\ CopyFollows(p)
  BY <1>1, <1>5, <1>6 DEF IdFollows, CopyFollows
<1>9. QED
  BY <1>2, <1>3, <1>4, <1>7, <1>8, MoveInv

\* What an analysis has before it enriches it.
NewSession(p, r) ==
    [created |-> id[p], updated |-> id[p],
     settings |-> Uncopied, chars |-> r.chars, unresolved |-> r.unresolved,
     requested |-> {}, fetched |-> {}, failed |-> {}, asked |-> 0, got |-> 0]

LEMMA ResolveInv == ASSUME IInv, NEW p \in Procs, Resolve(p) PROVE IInv'
<1>1. /\ pc[p] = "resolve" /\ pc' = [pc EXCEPT ![p] = "settings"]
      /\ UNCHANGED <<settingsForm, front, up, clock, settings, sessions, op, id,
                     sel>>
  BY DEF Resolve, Goto
<1>2. PICK r \in Identified :
         \E R \in Policy(r.chars, {}) : \E F \in SUBSET R :
            copy' = [copy EXCEPT ![p] = Enriched(NewSession(p, r), R, F)]
  BY DEF Resolve, Edit, NewSession
<1>3. PICK R \in Policy(r.chars, {}) : \E F \in SUBSET R :
            copy' = [copy EXCEPT ![p] = Enriched(NewSession(p, r), R, F)]
  BY <1>2
<1>4. PICK F \in SUBSET R :
            copy' = [copy EXCEPT ![p] = Enriched(NewSession(p, r), R, F)]
  BY <1>3
<1> DEFINE s == NewSession(p, r)
<1>5. /\ id[p] \in Ids /\ id[p] <= clock /\ op[p] = "analyze"
      /\ Cardinality(Chars) \in Nat
  BY <1>1, SameFields, CharsAssumption, FS_CardinalityType
     DEF IInv, Carried, Analysing
<1>6. s \in Session /\ s.created = id[p] /\ s.chars = r.chars
  BY <1>5 DEF NewSession, Session, Identified, Uncopied, Halves
<1> HIDE DEF s
<1>7. R \in SUBSET s.chars
  BY <1>6 DEF Policy
<1>8. /\ Enriched(s, R, F) \in Session /\ Accounted(Enriched(s, R, F))
      /\ Enriched(s, R, F).created = id[p]
  BY <1>6, <1>7, EnrichedSession
<1>9. copy' = [copy EXCEPT ![p] = Enriched(s, R, F)]
  BY <1>4 DEF s
<1>10. Analysing(p) /\ up' \in BOOLEAN
  BY <1>1, SameFields DEF Analysing, IInv
<1>11. /\ "settings" \in Places \ {"idle"} /\ clock' = clock
       /\ clock \in 0..MaxClock
  BY <1>1, SameFields DEF Places
<1>12. QED
  BY <1>1, <1>8, <1>9, <1>10, <1>11, MoveOn

LEMMA HalfCopied ==
    ASSUME NEW s \in Session, NEW h \in Halves, NEW v \in 1..2
    PROVE  LET e == [s EXCEPT !.settings[h] = v]
           IN  /\ e \in Session /\ e.created = s.created
               /\ Accounted(s) => Accounted(e)
BY DEF Session, Accounted

LEMMA CopyHalfInv ==
    ASSUME IInv, NEW p \in Procs, NEW h \in Halves, CopyHalf(p, h)
    PROVE  IInv'
<1> DEFINE e == [copy[p] EXCEPT !.settings[h] = settings[h]]
<1>1. /\ pc[p] = "settings" /\ copy' = [copy EXCEPT ![p] = e]
      /\ UNCHANGED <<settingsForm, front, up, clock, settings, sessions, pc, op,
                     id, sel>>
  BY DEF CopyHalf, Edit
<1>2. /\ id[p] \in Ids /\ id[p] <= clock /\ op[p] = "analyze"
      /\ copy[p] \in Session /\ copy[p].created = id[p] /\ Accounted(copy[p])
      /\ settings[h] \in 1..2
  BY <1>1, SameFields DEF IInv, Carried, Analysing, TypeOK, Settings
<1>3. e \in Session /\ e.created = id[p] /\ Accounted(e)
  BY <1>2, HalfCopied
<1> HIDE DEF e
<1>4. Analysing(p) /\ up' \in BOOLEAN
  BY <1>1, SameFields DEF Analysing, IInv
<1>5. /\ "settings" \in Places \ {"idle"} /\ clock' = clock
      /\ clock \in 0..MaxClock /\ pc' = [pc EXCEPT ![p] = "settings"]
  BY <1>1, SameFields DEF Places
<1>6. QED
  BY <1>1, <1>2, <1>3, <1>4, <1>5, MoveOn

LEMMA EnrichSessionInv ==
    ASSUME IInv, NEW p \in Procs, EnrichSession(p) PROVE IInv'
<1>1. /\ pc[p] = "enrich" /\ op[p] = "session"
      /\ pc' = [pc EXCEPT ![p] = "merge"]
      /\ UNCHANGED <<settingsForm, front, clock, settings, sessions, op, id,
                     sel>>
  BY DEF EnrichSession, Goto
<1>2. PICK F \in SUBSET copy[p].chars :
         copy' = [copy EXCEPT ![p] = Enriched(copy[p], copy[p].chars, F)]
  BY DEF EnrichSession, Edit, Explicit
<1>3. /\ Refreshing(p) /\ copy[p] \in Session /\ copy[p].created = id[p]
  BY <1>1 DEF IInv, Carried, Refreshing
<1> DEFINE e == Enriched(copy[p], copy[p].chars, F)
<1>4. /\ e \in Session /\ Accounted(e) /\ Source(e) = Source(copy[p])
      /\ e.created = id[p]
  BY <1>3, EnrichedSession
<1>5. up' \in BOOLEAN
  BY DEF EnrichSession, MayAbort
<1>6. /\ "merge" \in Places \ {"idle"} /\ clock' = clock
      /\ clock \in 0..MaxClock
  BY <1>1, SameFields DEF Places
<1>7. QED
  <2> HIDE DEF e
  <2>1. copy' = [copy EXCEPT ![p] = e]
    BY <1>2 DEF e
  <2>2. QED
    BY <1>1, <1>3, <1>4, <1>5, <1>6, <2>1, MoveOn

LEMMA EnrichPilotInv ==
    ASSUME IInv, NEW p \in Procs, EnrichPilot(p) PROVE IInv'
<1>1. /\ pc[p] = "enrich" /\ op[p] = "pilot" /\ clock < MaxClock
      /\ clock' = clock + 1 /\ pc' = [pc EXCEPT ![p] = "write"]
      /\ UNCHANGED <<settingsForm, front, up, settings, sessions, op, id, sel>>
  BY DEF EnrichPilot, Goto
<1>2. PICK R \in Policy(copy[p].chars, {sel[p]}) : \E F \in SUBSET R :
         copy' = [copy EXCEPT ![p] =
                    Stamped(CoverageOfOne(Enriched(copy[p], R, F), sel[p]))]
  BY DEF EnrichPilot, Edit
<1>3. PICK F \in SUBSET R :
         copy' = [copy EXCEPT ![p] =
                    Stamped(CoverageOfOne(Enriched(copy[p], R, F), sel[p]))]
  BY <1>2
<1>4. /\ Refreshing(p) /\ copy[p] \in Session /\ copy[p].created = id[p]
      /\ sel[p] \in R /\ R \in SUBSET copy[p].chars
  BY <1>1 DEF IInv, Carried, Refreshing, Policy
<1> DEFINE e == Enriched(copy[p], R, F)
           f == CoverageOfOne(e, sel[p])
           g == Stamped(f)
<1>5. /\ e \in Session /\ Accounted(e) /\ Source(e) = Source(copy[p])
      /\ e.created = id[p] /\ e.requested = R
  BY <1>4, EnrichedSession
<1>6. e.requested \subseteq e.chars
  BY <1>5 DEF Accounted
<1>7. /\ f \in Session /\ Accounted(f) /\ Source(f) = Source(e)
      /\ f.created = e.created
  <2> HIDE DEF e
  <2>1. QED
    BY <1>4, <1>5, <1>6, CoveredSession
<1>8. /\ g \in Session /\ Accounted(g) /\ Source(g) = Source(f)
      /\ g.created = f.created
  <2> HIDE DEF f
  <2>1. QED
    BY <1>1, <1>7, SameFields, StampedSession
<1>9. /\ "write" \in Places \ {"idle"} /\ clock + 1 \in 0..MaxClock
      /\ up' \in BOOLEAN
  BY <1>1, SameFields, BoundsAssumption DEF Places
<1>10. QED
  <2>1. copy' = [copy EXCEPT ![p] = g]
    BY <1>3
  <2> HIDE DEF e, f, g
  <2>2. g.created = id[p] /\ Source(g) = Source(copy[p])
    BY <1>5, <1>7, <1>8
  <2>3. QED
    BY <1>1, <1>4, <1>8, <1>9, <2>1, <2>2, MoveOn

LEMMA StampInv == ASSUME IInv, NEW p \in Procs, Stamp(p) PROVE IInv'
<1>1. /\ pc[p] = "merge" /\ clock < MaxClock /\ clock' = clock + 1
      /\ pc' = [pc EXCEPT ![p] = "write"]
      /\ copy' = [copy EXCEPT ![p] = Stamped(copy[p])]
      /\ UNCHANGED <<settingsForm, front, up, settings, sessions, op, id, sel>>
  BY DEF Stamp, Goto, Edit
<1>2. /\ Refreshing(p) /\ copy[p] \in Session /\ copy[p].created = id[p]
      /\ Accounted(copy[p])
  BY <1>1 DEF IInv, Carried, Refreshing
<1> DEFINE e == Stamped(copy[p])
<1>3. /\ e \in Session /\ Accounted(e) /\ Source(e) = Source(copy[p])
      /\ e.created = id[p]
  BY <1>1, <1>2, SameFields, StampedSession
<1>4. /\ "write" \in Places \ {"idle"} /\ clock + 1 \in 0..MaxClock
      /\ up' \in BOOLEAN
  BY <1>1, SameFields, BoundsAssumption DEF Places
<1>5. QED
  <2>1. copy' = [copy EXCEPT ![p] = e]
    BY <1>1
  <2> HIDE DEF e
  <2>2. QED
    BY <1>1, <1>2, <1>3, <1>4, <2>1, MoveOn

\* A call that ends, or returns what it has written.
LEMMA Ended ==
    ASSUME IInv, NEW p \in Procs, End(p), up' \in BOOLEAN,
           clock' \in 0..MaxClock,
           sessions' \in [Ids -> Session \cup {None}],
           UNCHANGED <<front, settings, settingsForm>>
    PROVE  /\ TypeOK' /\ Holding' /\ id'[p] = 0
           /\ ~Analysing(p)' /\ ~Refreshing(p)'
           /\ (clock' = clock => Carried(p)')
           /\ IdFollows(p) /\ CopyFollows(p)
           /\ \A q \in Procs \ {p} : Own(q)' = Own(q)
<1>1. /\ pc' = [pc EXCEPT ![p] = "idle"] /\ op' = [op EXCEPT ![p] = "none"]
      /\ id' = [id EXCEPT ![p] = 0] /\ sel' = [sel EXCEPT ![p] = None]
      /\ copy' = [copy EXCEPT ![p] = None]
  BY DEF End, Goto, Edit
<1>2. /\ "idle" \in Places /\ "none" \in Ops /\ 0 \in Ids \cup {0}
      /\ None \in Chars \cup {None} /\ None \in Session \cup {None}
  BY DEF Places, Ops
<1>3. /\ TypeOK' /\ Holding' /\ pc'[p] = "idle" /\ id'[p] = 0
      /\ op'[p] = "none" /\ \A q \in Procs \ {p} : Own(q)' = Own(q)
  BY <1>1, <1>2, CallTypes
<1>4. clock' = clock => Carried(p)'
  BY <1>3, SameFields DEF Carried, Analysing, Refreshing
<1>5. QED
  BY <1>3, <1>4 DEF Analysing, Refreshing, IdFollows, CopyFollows

LEMMA Marshalled ==
    ASSUME IInv, NEW p \in Procs, pc[p] # "idle", Goto(p, "marshal"),
           Edit(p, None), up' \in BOOLEAN,
           sessions' \in [Ids -> Session \cup {None}],
           UNCHANGED <<front, settings, settingsForm, clock, op, id, sel>>
    PROVE  /\ TypeOK' /\ Holding' /\ id'[p] = id[p]
           /\ ~Analysing(p)' /\ ~Refreshing(p)' /\ Carried(p)'
           /\ \A q \in Procs \ {p} : Own(q)' = Own(q)
<1>1. /\ pc' = [pc EXCEPT ![p] = "marshal"]
      /\ copy' = [copy EXCEPT ![p] = None]
  BY DEF Goto, Edit
<1>2. /\ pc'[p] = "marshal" /\ op'[p] = op[p]
      /\ id'[p] = id[p] /\ sel'[p] = sel[p]
  BY <1>1 DEF IInv, TypeOK
<1>3. \A q \in Procs \ {p} : Own(q)' = Own(q)
  BY <1>1 DEF IInv, TypeOK, Holding, Own
<1>4. Holding'
  BY <1>1 DEF IInv, Holding
<1>5. TypeOK'
  <2>1. pc' \in [Procs -> Places]
    BY <1>1 DEF IInv, TypeOK, Places
  <2>2. QED
    BY <1>4, <2>1 DEF IInv, TypeOK, Holding, settingsForm, Places
<1>6. Carried(p)'
  BY <1>2 DEF IInv, Carried, Analysing, Refreshing
<1>7. QED
  BY <1>2, <1>3, <1>4, <1>5, <1>6 DEF Analysing, Refreshing

LEMMA PublishInv == ASSUME IInv, NEW p \in Procs, Publish(p) PROVE IInv'
<1>1. /\ pc[p] = "settings"
      /\ UNCHANGED <<settingsForm, front, up, clock, settings>>
      /\ up' \in BOOLEAN /\ clock' \in 0..MaxClock
  BY SameFields DEF Publish, IInv
<1>2. CASE Validated(copy[p].settings)
  <2>1. /\ sessions' = [sessions EXCEPT ![id[p]] = copy[p]]
        /\ Goto(p, "marshal") /\ Edit(p, None) /\ UNCHANGED <<op, id, sel>>
    BY <1>2 DEF Publish
  <2>2. copy[p] \in Session
    BY <1>1 DEF IInv, Carried
  <2>3. sessions' \in [Ids -> Session \cup {None}]
    BY <2>1, <2>2, SameFields
  <2>4. /\ TypeOK' /\ Holding' /\ id'[p] = id[p]
        /\ ~Analysing(p)' /\ ~Refreshing(p)' /\ Carried(p)'
        /\ \A q \in Procs \ {p} : Own(q)' = Own(q)
    BY <1>1, <2>1, <2>3, Marshalled
  <2>5. Ordered(copy[p].settings)
    BY <1>2 DEF Validated
  <2>6. QED
    BY <1>1, <2>1, <2>4, <2>5, PutInv
<1>3. CASE ~Validated(copy[p].settings)
  <2>1. End(p) /\ UNCHANGED sessions
    BY <1>3 DEF Publish
  <2>2. sessions' \in [Ids -> Session \cup {None}]
    BY <2>1, SameFields
  <2>3. /\ TypeOK' /\ Holding' /\ id'[p] = 0
        /\ ~Analysing(p)' /\ ~Refreshing(p)' /\ Carried(p)'
        /\ IdFollows(p) /\ CopyFollows(p)
        /\ \A q \in Procs \ {p} : Own(q)' = Own(q)
    BY <1>1, <2>1, <2>2, Ended
  <2>4. QED
    BY <1>1, <2>1, <2>3, MoveInv
<1>4. QED
  BY <1>2, <1>3

LEMMA WriteInv == ASSUME IInv, NEW p \in Procs, Write(p) PROVE IInv'
<1>1. /\ pc[p] = "write" /\ sessions' = [sessions EXCEPT ![id[p]] = copy[p]]
      /\ UNCHANGED <<settingsForm, front, clock, settings>>
      /\ clock' \in 0..MaxClock
  BY SameFields DEF Write
<1>2. copy[p] \in Session
  BY <1>1 DEF IInv, Carried, Refreshing
<1>3. sessions' \in [Ids -> Session \cup {None}]
  BY <1>1, <1>2, SameFields
<1>4. up' \in BOOLEAN
  BY SameFields DEF Write, MayAbort
<1>5. CASE op[p] = "session"
  <2>1. Goto(p, "marshal") /\ Edit(p, None) /\ UNCHANGED <<op, id, sel>>
    BY <1>5 DEF Write
  <2>2. /\ TypeOK' /\ Holding' /\ id'[p] = id[p]
        /\ ~Analysing(p)' /\ ~Refreshing(p)' /\ Carried(p)'
        /\ \A q \in Procs \ {p} : Own(q)' = Own(q)
    BY <1>1, <1>3, <1>4, <2>1, Marshalled
  <2>3. QED
    BY <1>1, <1>2, <2>2, PutInv
<1>6. CASE op[p] # "session"
  <2>1. End(p)
    BY <1>6 DEF Write
  <2>2. /\ TypeOK' /\ Holding' /\ id'[p] = 0
        /\ ~Analysing(p)' /\ ~Refreshing(p)' /\ Carried(p)'
        /\ \A q \in Procs \ {p} : Own(q)' = Own(q)
    BY <1>1, <1>3, <1>4, <2>1, Ended
  <2>3. QED
    BY <1>1, <1>2, <2>2, PutInv
<1>7. QED
  BY <1>5, <1>6

LEMMA ReturnInv == ASSUME IInv, NEW p \in Procs, Return(p) PROVE IInv'
<1>1. /\ End(p)
      /\ UNCHANGED <<settingsForm, front, up, clock, settings, sessions>>
      /\ up' \in BOOLEAN /\ clock' \in 0..MaxClock
      /\ sessions' \in [Ids -> Session \cup {None}]
  BY SameFields DEF Return, IInv
<1>2. /\ TypeOK' /\ Holding' /\ id'[p] = 0
      /\ ~Analysing(p)' /\ ~Refreshing(p)' /\ Carried(p)'
      /\ IdFollows(p) /\ CopyFollows(p)
      /\ \A q \in Procs \ {p} : Own(q)' = Own(q)
  BY <1>1, Ended
<1>3. QED
  BY <1>1, <1>2, MoveInv

-----------------------------------------------------------------------------
calls == <<front, up, clock, pc, op, id, sel, copy>>

\* What concerns settings only.
LEMMA SettingsInv ==
    ASSUME IInv, UNCHANGED <<calls, sessions>>, settings' \in Settings,
           Ordered(settings'), form' \in [Halves -> 0..2],
           saving' = None \/ saving' \in Settings
    PROVE  IInv'
<1>1. TypeOK' /\ Holding'
  BY DEF IInv, TypeOK, Holding, calls
<1>2. Ordered(settings)'
  BY DEF IInv, calls, Ordered
<1>3. \A i \in Ids : Kept(i)'
  BY DEF IInv, Kept, calls
<1>4. \A p \in Procs : Carried(p)'
  BY DEF IInv, Carried, Analysing, Refreshing, calls
<1>5. \A p \in Procs : OwnId(p)' /\ OneSource(p)'
  BY DEF IInv, OwnId, OneSource, Analysing, Refreshing, Source, calls
<1>6. QED
  BY <1>1, <1>2, <1>3, <1>4, <1>5 DEF IInv

LEMMA FormInv ==
    ASSUME IInv, \/ Form
                 \/ \E s \in Saves : SaveSettings(s) /\ UNCHANGED settingsForm
    PROVE  IInv'
<1>1. /\ settings \in Settings /\ Ordered(settings)
      /\ form \in [Halves -> 0..2] /\ (saving = None \/ saving \in Settings)
      /\ Uncopied \in [Halves -> 0..2]
  BY DEF IInv, TypeOK, Uncopied
<1>2. ASSUME NEW s \in Saves, SaveSettings(s), UNCHANGED settingsForm
      PROVE  IInv'
  <2>1. UNCHANGED <<calls, sessions>> /\ settings' = s /\ Ordered(s)
    BY <1>2 DEF SaveSettings, calls
  <2>2. s \in Settings
    BY SavesAssumption
  <2>3. QED
    BY <1>1, <1>2, <2>1, <2>2, SettingsInv DEF settingsForm
<1>3. CASE OpenForm
  <2>1. /\ UNCHANGED <<calls, sessions, settings, saving>> /\ form' = Uncopied
    BY <1>3 DEF OpenForm, FormOnly, calls
  <2>2. QED
    BY <1>1, <2>1, SettingsInv
<1>4. ASSUME NEW h \in Halves, LoadHalf(h) \/ \E v \in 1..2 : Change(h, v)
      PROVE  IInv'
  <2>1. UNCHANGED <<calls, sessions, settings, saving>>
    BY <1>4 DEF LoadHalf, Change, FormOnly, calls
  <2>2. form' \in [Halves -> 0..2]
    BY <1>1, <1>4 DEF LoadHalf, Change, Settings
  <2>3. QED
    BY <1>1, <2>1, <2>2, SettingsInv
<1>5. CASE Submit
  <2>1. UNCHANGED <<calls, sessions, settings, form>> /\ saving' = form
    BY <1>5 DEF Submit, FormOnly, calls
  <2>2. form \in Settings
    BY <1>1, <1>5 DEF Submit, Loaded, Settings
  <2>3. QED
    BY <1>1, <2>1, <2>2, SettingsInv
<1>6. CASE Saved
  <2>1. /\ UNCHANGED <<calls, sessions>> /\ settings' = saving
        /\ Ordered(saving) /\ saving # None /\ saving' = None
        /\ form' = Uncopied
    BY <1>6 DEF Saved, SaveSettings, calls
  <2>2. QED
    BY <1>1, <2>1, SettingsInv
<1>7. QED
  BY <1>2, <1>3, <1>4, <1>5, <1>6 DEF Form

LEMMA ClearCacheInv == ASSUME IInv, ClearCache PROVE IInv'
<1>1. /\ sessions' = [i \in Ids |-> None]
      /\ UNCHANGED <<calls, settingsForm, settings>>
  BY DEF ClearCache, calls
<1>2. TypeOK' /\ Holding'
  BY <1>1 DEF IInv, TypeOK, Holding, calls, settingsForm
<1>3. Ordered(settings)'
  BY <1>1 DEF IInv, calls
<1>4. \A i \in Ids : Kept(i)'
  BY <1>1 DEF Kept
<1>5. \A p \in Procs : Carried(p)'
  BY <1>1 DEF IInv, Carried, Analysing, Refreshing, calls
<1>6. \A p \in Procs : Analysing(p) \/ Refreshing(p) => id[p] \in Ids
  BY SameFields DEF IInv, Carried, Analysing, Refreshing
<1>7. \A p \in Procs : OwnId(p)' /\ OneSource(p)'
  BY <1>1, <1>6 DEF IInv, OwnId, OneSource, Analysing, Refreshing, Source, calls
<1>8. QED
  BY <1>2, <1>3, <1>4, <1>5, <1>7 DEF IInv

LEMMA StepInv == IInv /\ [Next]_vars => IInv'
<1> SUFFICES ASSUME IInv, [Next]_vars PROVE IInv'
  OBVIOUS
<1>1. ASSUME NEW p \in Procs, Call(p)
      PROVE  IInv'
  BY <1>1, AnalyzeInv, RefreshInv, LoadRecentInv DEF Call
<1>2. ASSUME NEW p \in Procs, Work(p)
      PROVE  IInv'
  BY <1>2, ResolveInv, CopyHalfInv, PublishInv, EnrichSessionInv,
     EnrichPilotInv, StampInv, WriteInv, ReturnInv DEF Work
<1>3. CASE Form \/ \E s \in Saves : SaveSettings(s) /\ UNCHANGED settingsForm
  BY <1>3, FormInv
<1>4. CASE ClearCache
  BY <1>4, ClearCacheInv
<1>5. CASE UNCHANGED vars
  <2>1. UNCHANGED <<calls, sessions, settings, form, saving>>
    BY <1>5 DEF vars, calls, settingsForm
  <2>2. QED
    BY <2>1, SettingsInv DEF IInv, TypeOK
<1>6. QED
  BY <1>1, <1>2, <1>3, <1>4, <1>5 DEF Next

LEMMA Invariance == Spec => []IInv
BY InitInv, StepInv, PTL DEF Spec

-----------------------------------------------------------------------------
\* What a step may not do to a session.
SourceKept ==
    \A i \in Stored \cap Stored' :
          /\ sessions'[i].created = i
          /\ sessions'[i].chars = sessions[i].chars
          /\ sessions'[i].unresolved = sessions[i].unresolved
          /\ sessions'[i].settings = sessions[i].settings

LEMMA SourceStep == ASSUME IInv, [Next]_vars PROVE SourceKept
<1>1. CASE UNCHANGED sessions
  BY <1>1 DEF SourceKept, Stored, IInv, Kept
<1>2. ASSUME NEW p \in Procs, Publish(p), ~(UNCHANGED sessions)
      PROVE  SourceKept
  <2>1. /\ sessions' = [sessions EXCEPT ![id[p]] = copy[p]]
        /\ sessions[id[p]] = None
    BY <1>2 DEF Publish, IInv, OwnId, Analysing
  <2>2. \A i \in Stored : sessions'[i] = sessions[i]
    BY <2>1, SameFields DEF Stored
  <2>3. QED
    BY <2>2 DEF SourceKept, Stored, IInv, Kept
<1>3. ASSUME NEW p \in Procs, Write(p)
      PROVE  SourceKept
  <2>1. /\ sessions' = [sessions EXCEPT ![id[p]] = copy[p]]
        /\ Refreshing(p) /\ copy[p].created = id[p]
    BY <1>3 DEF Write, IInv, Carried, Refreshing
  <2>2. \A i \in Stored \ {id[p]} : sessions'[i] = sessions[i]
    BY <2>1, SameFields DEF Stored
  <2>3. id[p] \in Stored => /\ sessions'[id[p]] = copy[p]
                            /\ Source(copy[p]) = Source(sessions[id[p]])
    BY <2>1, SameFields DEF Stored, IInv, OneSource
  <2>4. QED
    BY <2>1, <2>2, <2>3 DEF SourceKept, Stored, Source, IInv, Kept
<1>4. CASE ClearCache
  BY <1>4 DEF ClearCache, SourceKept, Stored
<1>5. ASSUME NEW p \in Procs, Call(p) \/ Work(p), ~Publish(p), ~Write(p)
      PROVE  UNCHANGED sessions
  BY <1>5 DEF Call, Work, Analyze, RefreshSession, RefreshPilot, LoadRecent,
              Resolve, CopyHalf, EnrichSession, EnrichPilot, Stamp, Return
<1>6. CASE Form \/ \E s \in Saves : SaveSettings(s) /\ UNCHANGED settingsForm
  BY <1>1, <1>6 DEF Form, OpenForm, LoadHalf, Change, Submit, Saved, FormOnly,
              SaveSettings
<1>7. CASE UNCHANGED vars
  BY <1>1, <1>7 DEF vars
<1>8. QED
  BY <1>1, <1>2, <1>3, <1>4, <1>5, <1>6, <1>7 DEF Next

-----------------------------------------------------------------------------
(* The registry, the form and every copy under way are of their types: the *)
(* counts of a coverage never exceed the characters of the paste.          *)
THEOREM TypeCorrect == Spec => []TypeOK
BY Invariance, PTL DEF IInv

(* Every session accounts for its details, however refreshes of it, of its *)
(* pilots and ClearCache overlap: the copies are written back as a whole.  *)
THEOREM Accounts == Spec => []DetailsAccounted
<1>1. IInv => DetailsAccounted
  BY DEF IInv, Kept, Accounted, DetailsAccounted, Stored
<1>2. QED
  BY <1>1, Invariance, PTL

(* No session and not the registry carries settings Validate refuses,      *)
(* although a session copies them half by half without the mutex.          *)
THEOREM SettingsValid == Spec => []SettingsStayValid
<1>1. IInv => SettingsStayValid
  BY DEF IInv, Kept, SettingsStayValid, Stored
<1>2. QED
  BY <1>1, Invariance, PTL

(* A write-back never changes what a session is of: the id, characters,    *)
(* unresolved names and settings stay those of the analysis, also of a     *)
(* session a refresh brings back after ClearCache.                         *)
THEOREM SourceStays == Spec => SourceNeverChanges
<1>1. IInv /\ [Next]_vars => SourceKept
  BY SourceStep
<1>2. QED
  BY <1>1, Invariance, PTL DEF Spec, SourceNeverChanges, SourceKept

-----------------------------------------------------------------------------
(***************************************************************************)
(* enrichPilots, which the calls above carry out between two holds of the  *)
(* mutex.  First what the engine's formulas do: quotients, the score and   *)
(* its parts.                                                              *)
(***************************************************************************)

LEMMA LeastType ==
    ASSUME NEW a \in Nat, NEW b \in Nat
    PROVE  Least(a, b) \in Nat /\ Least(a, b) =< a /\ Least(a, b) =< b
BY DEF Least

\* A quotient of natural numbers, by what it is multiplied with.
LEMMA Quotient ==
    ASSUME NEW n \in Nat, NEW d \in Nat \ {0}
    PROVE  /\ n \div d \in Nat
           /\ (n \div d) * d =< n
           /\ \A q \in Nat : q * d =< n => q =< n \div d
<1> DEFINE k == n \div d
<1>1. k \in Int /\ n = d * k + (n % d) /\ 0 =< n % d /\ n % d < d
  OBVIOUS
<1> HIDE DEF k
<1>2. QED
  <2>1. k >= 0
    <3>1. SUFFICES ASSUME k =< -1 PROVE FALSE
      BY <1>1
    <3>2. d * k =< -d
      BY <1>1, <3>1
    <3>3. QED
      BY <1>1, <3>2
  <2>2. ASSUME NEW q \in Nat, q * d =< n
        PROVE  q =< k
    <3>1. SUFFICES ASSUME q >= k + 1 PROVE FALSE
      BY <1>1
    <3>2. q * d >= (k + 1) * d
      BY <1>1, <3>1
    <3>3. (k + 1) * d = d * k + d
      BY <1>1
    <3>4. QED
      BY <1>1, <2>2, <3>2, <3>3
  <2>3. QED
    BY <1>1, <2>1, <2>2 DEF k

\* Of two quotients that of the greater fraction is no less.
LEMMA QuotientsOrdered ==
    ASSUME NEW n \in Nat, NEW d \in Nat \ {0}, NEW m \in Nat, NEW e \in Nat \ {0},
           n * e >= m * d
    PROVE  n \div d >= m \div e
<1> DEFINE q == m \div e
<1>1. q \in Nat /\ q * e =< m
  BY Quotient
<1> HIDE DEF q
<1>2. (q * e) * d =< m * d
  BY <1>1
<1>3. (q * d) * e =< n * e
  BY <1>1, <1>2
<1>4. q * d =< n
  <2>1. SUFFICES ASSUME q * d >= n + 1 PROVE FALSE
    BY <1>1
  <2>2. (q * d) * e >= (n + 1) * e
    BY <1>1, <2>1
  <2>3. (n + 1) * e = n * e + e
    OBVIOUS
  <2>4. QED
    BY <1>1, <1>3, <2>2, <2>3
<1>5. q =< n \div d
  BY <1>1, <1>4, Quotient
<1>6. QED
  BY <1>1, <1>5, Quotient DEF q

\* What the engine is given: natural numbers, as of the last activity if that is dated.
Given(g) ==
    /\ g.kills \in Nat /\ g.losses \in Nat /\ g.danger \in Nat /\ g.last \in Nat
    /\ Dated(g) => g.snapshot = g.last

\* The two parts of the lethality, and what a component contributes by its weight.
Share(k, l) == (7000 * k) \div (k + l)
Bonus(d) == Least(3000, (15 * d) \div 100)
Part(x, w) == (2 * (x * w) + 100) \div 200

LEMMA ShareType ==
    ASSUME NEW k \in Nat, NEW l \in Nat, k + l # 0
    PROVE  Share(k, l) \in Nat /\ Share(k, l) =< 7000
<1> DEFINE n == 7000 * k
           d == k + l
           q == n \div d
<1>1. n \in Nat /\ d \in Nat \ {0} /\ n =< 7000 * d
  OBVIOUS
<1> HIDE DEF n, d
<1>2. q \in Nat /\ q * d =< n
  BY <1>1, Quotient
<1> HIDE DEF q
<1>3. q =< 7000
  <2>1. SUFFICES ASSUME q >= 7001 PROVE FALSE
    BY <1>2
  <2>2. q * d >= 7001 * d
    BY <1>1, <1>2, <2>1
  <2>3. QED
    BY <1>1, <1>2, <2>2
<1>4. q \in Nat /\ q =< 7000
  BY <1>2, <1>3
<1>5. QED
  BY <1>4 DEF Share, q, n, d

LEMMA SharesOrdered ==
    ASSUME NEW k \in Nat, NEW m \in Nat, NEW l \in Nat, k >= m, m + l # 0
    PROVE  k + l # 0 /\ Share(k, l) >= Share(m, l)
<1> DEFINE n == 7000 * k
           d == k + l
           o == 7000 * m
           e == m + l
<1>1. k * l >= m * l
  OBVIOUS
<1>2. n * e >= o * d
  BY <1>1
<1>3. n \in Nat /\ d \in Nat \ {0} /\ o \in Nat /\ e \in Nat \ {0} /\ d # 0
  OBVIOUS
<1> HIDE DEF n, d, o, e
<1>4. n \div d >= o \div e
  BY <1>2, <1>3, QuotientsOrdered
<1>5. QED
  BY <1>3, <1>4 DEF Share, n, d, o, e

LEMMA BonusType ==
    /\ \A d \in Nat : Bonus(d) \in Nat /\ Bonus(d) =< 3000
    /\ \A d, f \in Nat : d >= f => Bonus(d) >= Bonus(f)
<1>1. \A d \in Nat : (15 * d) \div 100 \in Nat
  OBVIOUS
<1>2. \A d, f \in Nat : d >= f => (15 * d) \div 100 >= (15 * f) \div 100
  OBVIOUS
<1>3. \A x, y \in Nat : Least(3000, x) \in Nat /\ Least(3000, x) =< 3000 /\ (x >= y => Least(3000, x) >= Least(3000, y))
  BY DEF Least
<1>4. QED
  BY <1>1, <1>2, <1>3 DEF Bonus

LEMMA PartType ==
    /\ \A x \in Nat : x =< 10000 => /\ Part(x, 28) \in Nat /\ Part(x, 28) =< 2800
                                    /\ Part(x, 25) \in Nat /\ Part(x, 25) =< 2500
    /\ \A x, y \in Nat : x >= y => Part(x, 28) >= Part(y, 28) /\ Part(x, 25) >= Part(y, 25)
    /\ Part(0, 17) = 0 /\ Part(10000, 17) = 1700
BY DEF Part

LEMMA LethalityForm ==
    ASSUME NEW g, Given(g)
    PROVE  /\ g.kills + g.losses = 0 => Lethality(g) = 0
           /\ g.kills + g.losses # 0 => /\ Lethality(g) = Share(g.kills, g.losses) + Bonus(g.danger)
                                        /\ Share(g.kills, g.losses) \in Nat /\ Share(g.kills, g.losses) =< 7000
                                        /\ Bonus(g.danger) \in Nat /\ Bonus(g.danger) =< 3000
<1>1. g.kills \in Nat /\ g.losses \in Nat /\ g.danger \in Nat
  BY DEF Given
<1>2. g.kills + g.losses = 0 => Lethality(g) = 0
  BY DEF Lethality
<1>3. g.kills + g.losses # 0 => Lethality(g) = Share(g.kills, g.losses) + Bonus(g.danger)
  BY DEF Lethality, Share, Bonus
<1>4. g.kills + g.losses # 0 => Share(g.kills, g.losses) \in Nat /\ Share(g.kills, g.losses) =< 7000
  BY <1>1, ShareType
<1>5. Bonus(g.danger) \in Nat /\ Bonus(g.danger) =< 3000
  BY <1>1, BonusType
<1>6. QED
  BY <1>2, <1>3, <1>4, <1>5

\* The three components that are known stay within a hundred per cent.
LEMMA Components ==
    ASSUME NEW g, Given(g)
    PROVE  /\ Activity(g) \in Nat /\ Activity(g) =< 10000
           /\ Lethality(g) \in Nat /\ Lethality(g) =< 10000
           /\ Recentness(g) = IF Dated(g) THEN 10000 ELSE 0
<1>1. Activity(g) \in Nat /\ Activity(g) =< 10000
  <2> DEFINE n == 500 * (g.kills + g.losses)
  <2>1. n \in Nat /\ Activity(g) = Least(10000, n)
    BY DEF Activity, Full, Given
  <2> HIDE DEF n
  <2>2. QED
    BY <2>1 DEF Least
<1>2. Lethality(g) \in Nat /\ Lethality(g) =< 10000
  BY LethalityForm
<1>3. Recentness(g) = IF Dated(g) THEN 10000 ELSE 0
  BY DEF Given, Recentness, Full, Least, Dated
<1>4. QED
  BY <1>1, <1>2, <1>3

\* The contributions, and the score they make.
Base(g) == Contributions(g).activity + Contributions(g).lethality
DatedScore(s) == (200 * (s + 1700) + 70) \div 140
UndatedScore(s) == (200 * s + 53) \div 106

LEMMA ScoreForms ==
    \A s \in Nat : s =< 5300 =>
        /\ Rounded(100 * (s + 1700), 70) = DatedScore(s)
        /\ Rounded(100 * s, 53) = UndatedScore(s)
        /\ DatedScore(s) \in Nat \ {0} /\ DatedScore(s) =< 10000
        /\ UndatedScore(s) \in Nat /\ UndatedScore(s) =< 10000
        /\ UndatedScore(s) = 0 <=> s = 0
        /\ \A t \in Nat : s >= t => /\ DatedScore(s) >= DatedScore(t)
                                    /\ UndatedScore(s) >= UndatedScore(t)
                                    /\ DatedScore(s) >= UndatedScore(t)
BY DEF Rounded, DatedScore, UndatedScore

LEMMA Contributed ==
    ASSUME NEW g, Given(g)
    PROVE  /\ Contributions(g).activity = Part(Activity(g), 28)
           /\ Contributions(g).lethality = Part(Lethality(g), 25)
           /\ Contributions(g).activity \in Nat /\ Contributions(g).activity =< 2800 /\ Contributions(g).lethality \in Nat /\ Contributions(g).lethality =< 2500
           /\ Contributions(g).recentness = IF Dated(g) THEN 1700 ELSE 0
<1>1. \A x \in Nat : /\ Rounded(x * 28, 100) = Part(x, 28)
                     /\ Rounded(x * 25, 100) = Part(x, 25)
                     /\ Rounded(x * 17, 100) = Part(x, 17)
  BY DEF Rounded, Part
<1>2. /\ Contributions(g).activity = Rounded(Activity(g) * 28, 100)
      /\ Contributions(g).lethality = Rounded(Lethality(g) * 25, 100)
      /\ Contributions(g).recentness = Rounded(Recentness(g) * 17, 100)
  BY DEF Contributions, Weight
<1>3. Recentness(g) \in Nat /\ Recentness(g) =< 10000
  BY Components
<1>4. Contributions(g).activity = Part(Activity(g), 28)
      /\ Contributions(g).activity \in Nat /\ Contributions(g).activity =< 2800
  BY <1>1, <1>2, Components, PartType
<1>5. Contributions(g).lethality = Part(Lethality(g), 25)
      /\ Contributions(g).lethality \in Nat /\ Contributions(g).lethality =< 2500
  BY <1>1, <1>2, Components, PartType
<1>6. Contributions(g).recentness = IF Dated(g) THEN 1700 ELSE 0
  <2>1. Contributions(g).recentness = Part(Recentness(g), 17)
    BY <1>1, <1>2, <1>3
  <2>2. QED
    BY <2>1, Components, PartType
<1>7. QED
  BY <1>4, <1>5, <1>6

LEMMA Scored ==
    ASSUME NEW g, Given(g)
    PROVE  /\ Base(g) \in Nat /\ Base(g) =< 5300
           /\ Dated(g) => Score(g) = DatedScore(Base(g))
           /\ ~Dated(g) => Score(g) = UndatedScore(Base(g))
           /\ Score(g) \in Nat /\ Score(g) =< 10000
           /\ Score(g) = 0 <=> (~Dated(g) /\ Base(g) = 0)
<1>1. Base(g) \in Nat /\ Base(g) =< 5300
  BY Contributed DEF Base
<1>2. Score(g) = Rounded(100 * (Base(g) + Contributions(g).recentness), KnownWeight(g))
  BY DEF Score, Base
<1>3. KnownWeight(g) = IF Dated(g) THEN 70 ELSE 53
  BY DEF KnownWeight, Weight
<1>4. Contributions(g).recentness = IF Dated(g) THEN 1700 ELSE 0
  BY Contributed
<1>5. Dated(g) => Score(g) = DatedScore(Base(g))
  <2>1. Dated(g) => Score(g) = Rounded(100 * (Base(g) + 1700), 70)
    BY <1>2, <1>3, <1>4
  <2>2. QED
    BY <1>1, <2>1, ScoreForms
<1>6. ~Dated(g) => Score(g) = UndatedScore(Base(g))
  <2>1. ~Dated(g) => Score(g) = Rounded(100 * (Base(g) + 0), 53)
    BY <1>2, <1>3, <1>4
  <2>2. Base(g) + 0 = Base(g)
    BY <1>1
  <2>3. QED
    BY <1>1, <2>1, <2>2, ScoreForms
<1>7. QED
  BY <1>1, <1>5, <1>6, ScoreForms

\* The reasons are what contributes, and a score without reasons is zero.
LEMMA Reasoned ==
    ASSUME NEW g, Given(g)
    PROVE  /\ Reasons(g) \subseteq {"activity", "lethality", "recentness"}
           /\ "recentness" \in Reasons(g) <=> Dated(g)
           /\ Reasons(g) = {} <=> Score(g) = 0
<1>1. DOMAIN Weight = {"activity", "lethality", "recentness"}
  BY DEF Weight
<1>2. /\ "activity" \in Reasons(g) <=> Contributions(g).activity > 0
      /\ "lethality" \in Reasons(g) <=> Contributions(g).lethality > 0
      /\ "recentness" \in Reasons(g) <=> Contributions(g).recentness > 0
  BY <1>1 DEF Reasons
<1>3. Reasons(g) \subseteq {"activity", "lethality", "recentness"}
  BY <1>1 DEF Reasons
<1> DEFINE a == Contributions(g).activity
           l == Contributions(g).lethality
           r == Contributions(g).recentness
<1>4. a \in Nat /\ a =< 2800 /\ l \in Nat /\ l =< 2500 /\ r = IF Dated(g) THEN 1700 ELSE 0
  BY Contributed
<1>5. Base(g) = a + l
  BY DEF Base
<1> HIDE DEF a, l, r
<1>6. "recentness" \in Reasons(g) <=> Dated(g)
  BY <1>2, <1>4 DEF r
<1>7. Reasons(g) = {} <=> ~Dated(g) /\ Base(g) = 0
  <2>1. Reasons(g) = {} <=> ~(a > 0) /\ ~(l > 0) /\ ~(r > 0)
    BY <1>2, <1>3 DEF a, l, r
  <2>2. Base(g) = 0 <=> ~(a > 0) /\ ~(l > 0)
    BY <1>4, <1>5
  <2>3. Dated(g) <=> r > 0
    BY <1>4
  <2>4. QED
    BY <2>1, <2>2, <2>3
<1>8. QED
  BY <1>3, <1>6, <1>7, Scored

\* Engine.Score: with no fewer kills, as many losses, no less danger and a date if the
\* other has one, the score is no less, for all numbers there are.
LEMMA ScoresOrdered ==
    ASSUME NEW a, NEW b, Given(a), Given(b),
           a.kills >= b.kills, a.losses = b.losses, a.danger >= b.danger, Dated(b) => Dated(a)
    PROVE  Score(a) >= Score(b)
<1>1. Activity(a) >= Activity(b)
  <2> DEFINE n == 500 * (a.kills + a.losses)
             m == 500 * (b.kills + b.losses)
  <2>1. n \in Nat /\ m \in Nat /\ n >= m
    BY DEF Given
  <2>2. Activity(a) = Least(10000, n) /\ Activity(b) = Least(10000, m)
    BY DEF Activity, Full
  <2> HIDE DEF n, m
  <2>3. QED
    BY <2>1, <2>2 DEF Least
<1>2. Lethality(a) >= Lethality(b)
  <2>1. CASE b.kills + b.losses = 0
    <3>1. Lethality(b) = 0
      BY <2>1 DEF Lethality
    <3>2. QED
      BY <3>1, Components
  <2>2. CASE b.kills + b.losses # 0
    <3>1. /\ a.kills \in Nat /\ b.kills \in Nat /\ a.losses \in Nat
          /\ a.danger \in Nat /\ b.danger \in Nat
      BY DEF Given
    <3>2. a.kills + a.losses # 0 /\ Share(a.kills, a.losses) >= Share(b.kills, a.losses)
      BY <2>2, <3>1, SharesOrdered
    <3>3. Bonus(a.danger) >= Bonus(b.danger)
      BY <3>1, BonusType
    <3>4. QED
      BY <2>2, <3>2, <3>3, LethalityForm
  <2>3. QED
    BY <2>1, <2>2
<1>3. Base(a) >= Base(b)
  <2>1. Contributions(a).activity >= Contributions(b).activity
    BY <1>1, Components, PartType, Contributed
  <2>2. Contributions(a).lethality >= Contributions(b).lethality
    BY <1>2, Components, PartType, Contributed
  <2>3. QED
    BY <2>1, <2>2, Contributed DEF Base
<1>4. QED
  BY <1>3, Scored, ScoreForms

-----------------------------------------------------------------------------
(***************************************************************************)
(* Loops over sequences, and what that of deriveDetailThreatEvidence       *)
(* collects of a feed.                                                     *)
(***************************************************************************)

LEMMA Smallest ==
    ASSUME NEW S \in SUBSET Nat, S # {}
    PROVE  \E n \in S : \A m \in S : ~ m < n
<1>1. PICK x \in S : \A y \in S : ~ (<<y, x>> \in OpToRel(<, Nat))
  BY NatLessThanWellFounded, WFMin
<1>2. QED
  BY <1>1 DEF OpToRel

LEMMA Inductive ==
    ASSUME NEW n \in Nat, NEW S \in SUBSET (0..n), 0 \in S,
           \A k \in 1..n : k - 1 \in S => k \in S
    PROVE  S = 0..n
<1> DEFINE Rest == (0..n) \ S
<1>1. SUFFICES ASSUME Rest # {}
               PROVE  FALSE
  OBVIOUS
<1>2. Rest \in SUBSET Nat
  OBVIOUS
<1>3. PICK k \in Rest : \A m \in Rest : ~ m < k
  <2> HIDE DEF Rest
  <2>1. QED
    BY <1>1, <1>2, Smallest
<1>4. k \in 1..n /\ k - 1 \in 0..n /\ k - 1 < k
  OBVIOUS
<1>5. k - 1 \in S
  BY <1>3, <1>4
<1>6. QED
  BY <1>4, <1>5

\* A loop that starts with x0 and takes step i at the i-th of its n rounds.
Iteration(g, n, X, x0, step) ==
    g \in [0..n -> X] /\ g[0] = x0 /\ \A i \in 1..n : g[i] = step[i][g[i - 1]]

LEMMA Iterates ==
    ASSUME NEW n \in Nat, NEW X, NEW x0 \in X, NEW step \in [1..n -> [X -> X]]
    PROVE  \E g : Iteration(g, n, X, x0, step)
<1> DEFINE S == {k \in 0..n : \E g : Iteration(g, k, X, x0, step)}
<1>1. 0 \in S
  <2> DEFINE g == [i \in 0..0 |-> x0]
  <2>1. g \in [0..0 -> X] /\ g[0] = x0
    OBVIOUS
  <2>2. Iteration(g, 0, X, x0, step)
    BY <2>1 DEF Iteration
  <2>3. QED
    BY <2>2
<1>2. ASSUME NEW k \in 1..n, k - 1 \in S
      PROVE  k \in S
  <2>1. PICK g : Iteration(g, k - 1, X, x0, step)
    BY <1>2
  <2>2. g \in [0..k-1 -> X] /\ g[0] = x0 /\ \A i \in 1..k-1 : g[i] = step[i][g[i-1]]
    BY <2>1 DEF Iteration
  <2>3. k - 1 \in 0..k-1 /\ g[k-1] \in X /\ step[k][g[k-1]] \in X
    <3>1. k - 1 \in 0..k-1
      OBVIOUS
    <3>2. g[k-1] \in X
      BY <2>2, <3>1
    <3>3. step[k] \in [X -> X]
      OBVIOUS
    <3>4. QED
      BY <3>1, <3>2, <3>3
  <2> DEFINE h == [i \in 0..k |-> IF i = k THEN step[k][g[k-1]] ELSE g[i]]
  <2>4. \A i \in 0..k : i # k => i \in 0..k-1
    OBVIOUS
  <2>5. h \in [0..k -> X]
    BY <2>2, <2>3, <2>4
  <2>6. h[k] = step[k][g[k-1]] /\ \A i \in 0..k-1 : h[i] = g[i]
    OBVIOUS
  <2> HIDE DEF h
  <2>7. h[0] = x0
    BY <2>2, <2>6
  <2>8. ASSUME NEW i \in 1..k
        PROVE  h[i] = step[i][h[i-1]]
    <3>1. CASE i = k
      BY <2>3, <2>6, <3>1
    <3>2. CASE i # k
      <4>1. i \in 1..k-1 /\ i \in 0..k-1 /\ i-1 \in 0..k-1
        BY <3>2
      <4>2. QED
        BY <4>1, <2>2, <2>6
    <3>3. QED
      BY <3>1, <3>2
  <2>9. Iteration(h, k, X, x0, step)
    BY <2>5, <2>7, <2>8 DEF Iteration
  <2>10. QED
    BY <2>9
<1>3. S = 0..n
  <2>1. S \in SUBSET (0..n)
    OBVIOUS
  <2> HIDE DEF S
  <2>2. QED
    BY <1>1, <1>2, <2>1, Inductive
<1>4. n \in 0..n
  OBVIOUS
<1>5. n \in S
  BY <1>3, <1>4
<1>6. QED
  BY <1>5


\* Of the time fields of a killmail the first usable one counts, and there is one exactly
\* if some layout parses one.
LEMMA ParsedRight ==
    ASSUME NEW m \in Killmails
    PROVE  /\ Parsed(m).loss = m.loss /\ Parsed(m).ship = m.ship
           /\ Parsed(m).time \in Nat
           /\ Parsed(m).class \in {"valid", "missing", "invalid"}
           /\ Parsed(m).class = "valid" <=> HasTime(m)
           /\ HasTime(m) <=> Parsed(m).time # 0
<1> DEFINE times == m.times
           u == Usable(times)
<1>1. times \in [1..3 -> Days \cup {Absent, Garbled}]
  BY DEF Killmails
<1>2. DOMAIN times = 1..3
  BY <1>1
<1>3. u \in SUBSET Nat /\ \A i \in u : times[i] \in Days
  BY <1>1, <1>2 DEF Usable
<1>4. HasTime(m) <=> u # {}
  <2>1. ASSUME NEW i \in 1..3, times[i] \in Days
        PROVE  i \in u
    BY <1>1, <1>2, <2>1, EnrichmentAssumption DEF Usable
  <2>2. ASSUME NEW i \in u
        PROVE  times[i] \in Range(times)
    BY <1>2 DEF Usable, Range
  <2>3. HasTime(m) <=> \E t \in Range(times) : t \in Days
    BY DEF HasTime
  <2>4. \A t \in Range(times) : \E i \in 1..3 : t = times[i]
    BY <1>2 DEF Range
  <2> HIDE DEF u, times
  <2>5. QED
    BY <1>3, <2>1, <2>2, <2>3, <2>4
<1> HIDE DEF times
<1>5. u # {} => FirstUsable(times) \in Days
  <2>1. SUFFICES ASSUME u # {}
                 PROVE  FirstUsable(times) \in Days
    OBVIOUS
  <2> DEFINE P(i) == \A j \in u : i =< j
  <2>2. PICK n \in u : \A j \in u : ~ j < n
    <3> HIDE DEF u
    <3>1. QED
      BY <1>3, <2>1, Smallest
  <2>3. \E i \in u : P(i)
    BY <1>3, <2>2
  <2>4. (CHOOSE i \in u : P(i)) \in u
    <3> HIDE DEF u, P
    <3>1. QED
      BY <2>3
  <2>5. FirstUsable(times) = times[CHOOSE i \in u : P(i)]
    BY DEF FirstUsable
  <2> HIDE DEF u, P
  <2>6. QED
    BY <1>3, <2>4, <2>5
<1>6. /\ Parsed(m).loss = m.loss /\ Parsed(m).ship = m.ship
      /\ Parsed(m).time = (IF u = {} THEN 0 ELSE FirstUsable(times))
      /\ Parsed(m).class = (IF u # {} THEN "valid" ELSE IF Range(times) = {Absent} THEN "missing" ELSE "invalid")
  BY DEF Parsed, times
<1> HIDE DEF u
<1>7. CASE u = {}
  BY <1>4, <1>6, <1>7
<1>8. CASE u # {}
  BY <1>4, <1>5, <1>6, <1>8 DEF Days
<1>9. QED
  BY <1>7, <1>8

Evidences == [kills : Nat, losses : Nat, lastKill : Nat, lastLoss : Nat,
              valid : Nat, bad : Nat, missing : Nat, ships : Seq(Ships)]

LEMMA NoEvidenceTyped == NoEvidence \in Evidences
BY DEF NoEvidence, Evidences

LEMMA WithTyped ==
    ASSUME NEW e \in Evidences, NEW m \in Killmails
    PROVE  With(e, Parsed(m)) \in Evidences
<1> DEFINE km == Parsed(m)
<1>1. km.time \in Nat /\ km.loss \in BOOLEAN /\ km.ship \in Ships
  BY ParsedRight DEF Killmails
<1> HIDE DEF km
<1>2. With(e, km).kills \in Nat /\ With(e, km).losses \in Nat
  BY DEF With, Evidences
<1>3. With(e, km).lastKill \in Nat /\ With(e, km).lastLoss \in Nat
  BY <1>1 DEF With, Evidences, Later
<1>4. With(e, km).valid \in Nat /\ With(e, km).bad \in Nat /\ With(e, km).missing \in Nat
  BY DEF With, Evidences
<1>5. With(e, km).ships \in Seq(Ships)
  <2>1. e.ships \in Seq(Ships)
    BY DEF Evidences
  <2>2. With(e, km).ships = IF km.ship = NoShip THEN e.ships ELSE Append(e.ships, km.ship)
    BY DEF With
  <2>3. QED
    BY <1>1, <2>1, <2>2
<1>6. With(e, km) = [kills |-> With(e, km).kills, losses |-> With(e, km).losses,
                     lastKill |-> With(e, km).lastKill, lastLoss |-> With(e, km).lastLoss,
                     valid |-> With(e, km).valid, bad |-> With(e, km).bad,
                     missing |-> With(e, km).missing, ships |-> With(e, km).ships]
  BY DEF With
<1> DEFINE w == With(e, km)
<1> HIDE DEF w
<1>7. w \in Evidences
  BY <1>2, <1>3, <1>4, <1>5, <1>6 DEF Evidences, w
<1>8. QED
  BY <1>7 DEF w, km

\* The loop of deriveDetailThreatEvidence.
Rounds(e, mails) ==
    /\ e \in [0..Len(mails) -> Evidences] /\ e[0] = NoEvidence
    /\ \A i \in 1..Len(mails) : e[i] = With(e[i - 1], Parsed(mails[i]))

LEMMA EvidenceLoop ==
    ASSUME NEW mails \in Seq(Killmails)
    PROVE  \E e : Rounds(e, mails) /\ Evidence(mails) = e[Len(mails)]
<1> DEFINE n == Len(mails)
           step == [i \in 1..n |-> [s \in Evidences |-> With(s, Parsed(mails[i]))]]
           F(f) == [i \in 0..n |-> IF i = 0 THEN NoEvidence ELSE With(f[i - 1], Parsed(mails[i]))]
           c == CHOOSE f : f = F(f)
<1>1. n \in Nat /\ \A i \in 1..n : mails[i] \in Killmails
  OBVIOUS
<1> HIDE DEF n
<1>2. step \in [1..n -> [Evidences -> Evidences]]
  BY <1>1, WithTyped
<1>3. \A i \in 1..n, s \in Evidences : step[i][s] = With(s, Parsed(mails[i]))
  OBVIOUS
<1>4. PICK g : Iteration(g, n, Evidences, NoEvidence, step)
  <2> HIDE DEF step
  <2>1. QED
    BY <1>1, <1>2, NoEvidenceTyped, Iterates
<1>5. g = F(g)
  <2> HIDE DEF step
  <2>1. g \in [0..n -> Evidences] /\ g[0] = NoEvidence /\ \A i \in 1..n : g[i] = step[i][g[i - 1]]
    BY <1>4 DEF Iteration
  <2>2. \A i \in 1..n : i - 1 \in 0..n /\ i # 0
    BY <1>1
  <2>3. \A i \in 1..n : g[i] = With(g[i - 1], Parsed(mails[i]))
    BY <2>1, <2>2, <1>3
  <2>4. \A i \in 0..n : i = 0 \/ i \in 1..n
    BY <1>1
  <2>5. \A i \in 0..n : g[i] = IF i = 0 THEN NoEvidence ELSE With(g[i - 1], Parsed(mails[i]))
    BY <2>1, <2>3, <2>4
  <2>6. QED
    BY <2>1, <2>5
<1>6. c = F(c)
  <2> HIDE DEF F
  <2>1. QED
    BY <1>5
<1>7. Evidence(mails) = c[n]
  BY DEF Evidence, n
<1> HIDE DEF c, step
<1>8. DOMAIN c = 0..n /\ c[0] = NoEvidence /\ \A i \in 1..n : c[i] = With(c[i - 1], Parsed(mails[i]))
  <2>1. \A i \in 0..n : c[i] = IF i = 0 THEN NoEvidence ELSE With(c[i - 1], Parsed(mails[i]))
    BY <1>6
  <2>2. 0 \in 0..n /\ \A i \in 1..n : i \in 0..n /\ i # 0
    BY <1>1
  <2>3. QED
    BY <1>6, <2>1, <2>2
<1>9. {k \in 0..n : c[k] \in Evidences} = 0..n
  <2> DEFINE S == {k \in 0..n : c[k] \in Evidences}
  <2>1. 0 \in S /\ S \in SUBSET (0..n)
    <3>1. 0 \in 0..n
      BY <1>1
    <3>2. QED
      BY <1>8, <3>1, NoEvidenceTyped
  <2>2. ASSUME NEW k \in 1..n, k - 1 \in S
        PROVE  k \in S
    <3>1. c[k] \in Evidences
      BY <1>1, <1>8, <2>2, WithTyped
    <3>2. QED
      BY <3>1, <1>1
  <2> HIDE DEF S
  <2>3. QED
    BY <1>1, <2>1, <2>2, Inductive DEF S
<1>10. c \in [0..n -> Evidences]
  <2>1. \A k \in 0..n : c[k] \in Evidences
    BY <1>9
  <2>2. c = [i \in 0..n |-> c[i]]
    BY <1>6
  <2>3. QED
    BY <2>1, <2>2
<1>11. QED
  BY <1>7, <1>8, <1>10 DEF Rounds, n

\* L is the greatest of the numbers S, or zero if there is none.
Peak(L, S) == S \subseteq Nat /\ L \in Nat /\ (\A x \in S : x =< L) /\ (L = 0 \/ L \in S)

Kills(mails, k) == {j \in 1..k : ~mails[j].loss}
Losses(mails, k) == {j \in 1..k : mails[j].loss}
Dateless(mails, k) == {j \in 1..k : ~HasTime(mails[j])}
Times(mails, places) == {Parsed(mails[j]).time : j \in places}

\* What the evidence says of the first k killmails.
Summed(e, mails, k) ==
    /\ e \in Evidences
    /\ e.kills = Cardinality(Kills(mails, k)) /\ e.losses = Cardinality(Losses(mails, k))
    /\ Peak(e.lastKill, Times(mails, Kills(mails, k)))
    /\ Peak(e.lastLoss, Times(mails, Losses(mails, k)))
    /\ e.kills + e.losses = k
    /\ e.bad = Cardinality(Dateless(mails, k)) /\ e.valid + e.bad = k
    /\ e.missing =< e.bad

\* One place more.
LEMMA PlaceAdded ==
    ASSUME NEW k \in Nat \ {0}, NEW S \in SUBSET (1..k - 1)
    PROVE  /\ IsFiniteSet(S) /\ IsFiniteSet(S \cup {k}) /\ Cardinality(S) \in Nat
           /\ Cardinality(S \cup {k}) = Cardinality(S) + 1
<1>1. IsFiniteSet(1..k - 1)
  BY FS_Interval
<1>2. IsFiniteSet(S)
  BY <1>1, FS_Subset
<1>3. k \notin S
  OBVIOUS
<1>4. QED
  BY <1>2, <1>3, FS_AddElement, FS_CardinalityType

LEMMA PeakLater ==
    ASSUME NEW L, NEW S, Peak(L, S), NEW t \in Nat
    PROVE  Peak(Later(L, t), S \cup {t})
BY DEF Peak, Later

LEMMA SummedNext ==
    ASSUME NEW mails \in Seq(Killmails), NEW k \in 1..Len(mails), NEW e, Summed(e, mails, k - 1)
    PROVE  Summed(With(e, Parsed(mails[k])), mails, k)
<1> DEFINE m == mails[k]
           km == Parsed(m)
           f == With(e, km)
           K == Kills(mails, k - 1)
           L == Losses(mails, k - 1)
           D == Dateless(mails, k - 1)
<1>1. k \in Nat \ {0} /\ k - 1 \in Nat /\ m \in Killmails /\ e \in Evidences
  BY DEF Summed
<1>2. m.loss \in BOOLEAN
  BY <1>1 DEF Killmails
<1>3. f \in Evidences
  BY <1>1, WithTyped
<1>4. K \in SUBSET (1..k - 1) /\ L \in SUBSET (1..k - 1) /\ D \in SUBSET (1..k - 1)
  BY DEF Kills, Losses, Dateless
<1>5. \A j \in 1..k : j = k \/ j \in 1..k - 1
  BY <1>1
<1>6. (1..k - 1) \subseteq 1..k /\ k \in 1..k
  BY <1>1
<1>7. /\ Kills(mails, k) = IF m.loss THEN K ELSE K \cup {k}
      /\ Losses(mails, k) = IF m.loss THEN L \cup {k} ELSE L
      /\ Dateless(mails, k) = IF HasTime(m) THEN D ELSE D \cup {k}
  <2>1. Kills(mails, k) = IF m.loss THEN K ELSE K \cup {k}
    BY <1>5, <1>6 DEF Kills
  <2>2. Losses(mails, k) = IF m.loss THEN L \cup {k} ELSE L
    BY <1>5, <1>6 DEF Losses
  <2>3. Dateless(mails, k) = IF HasTime(m) THEN D ELSE D \cup {k}
    BY <1>5, <1>6 DEF Dateless
  <2>4. QED
    BY <2>1, <2>2, <2>3
<1>8. /\ km.loss = m.loss /\ km.time \in Nat
      /\ km.class \in {"valid", "missing", "invalid"}
      /\ km.class = "valid" <=> HasTime(m)
  BY <1>1, ParsedRight
<1>9. \A S : Times(mails, S \cup {k}) = Times(mails, S) \cup {km.time}
  BY DEF Times
<1>10. /\ e.kills = Cardinality(K) /\ e.losses = Cardinality(L) /\ e.bad = Cardinality(D)
       /\ Peak(e.lastKill, Times(mails, K)) /\ Peak(e.lastLoss, Times(mails, L))
       /\ e.kills + e.losses = k - 1 /\ e.valid + e.bad = k - 1 /\ e.missing =< e.bad
       /\ e.kills \in Nat /\ e.losses \in Nat /\ e.bad \in Nat /\ e.valid \in Nat /\ e.missing \in Nat
  BY <1>1 DEF Summed, Evidences
<1>11. /\ f.kills = e.kills + (IF km.loss THEN 0 ELSE 1)
       /\ f.losses = e.losses + (IF km.loss THEN 1 ELSE 0)
       /\ f.lastKill = IF km.loss THEN e.lastKill ELSE Later(e.lastKill, km.time)
       /\ f.lastLoss = IF km.loss THEN Later(e.lastLoss, km.time) ELSE e.lastLoss
       /\ f.valid = e.valid + (IF km.class = "valid" THEN 1 ELSE 0)
       /\ f.bad = e.bad + (IF km.class = "valid" THEN 0 ELSE 1)
       /\ f.missing = e.missing + (IF km.class = "missing" THEN 1 ELSE 0)
  BY DEF With
<1> HIDE DEF m, km, f, K, L, D
<1>12. /\ Cardinality(K \cup {k}) = Cardinality(K) + 1
       /\ Cardinality(L \cup {k}) = Cardinality(L) + 1
       /\ Cardinality(D \cup {k}) = Cardinality(D) + 1
  BY <1>1, <1>4, PlaceAdded
<1>13. f.kills = Cardinality(Kills(mails, k)) /\ f.losses = Cardinality(Losses(mails, k))
  BY <1>2, <1>7, <1>8, <1>10, <1>11, <1>12
<1>14. Peak(f.lastKill, Times(mails, Kills(mails, k)))
  BY <1>2, <1>7, <1>8, <1>9, <1>10, <1>11, PeakLater
<1>15. Peak(f.lastLoss, Times(mails, Losses(mails, k)))
  BY <1>2, <1>7, <1>8, <1>9, <1>10, <1>11, PeakLater
<1>16. f.bad = Cardinality(Dateless(mails, k))
  BY <1>7, <1>8, <1>10, <1>11, <1>12
<1>17. f.kills + f.losses = k /\ f.valid + f.bad = k /\ f.missing =< f.bad
  <2>1. f.kills + f.losses = k
    BY <1>1, <1>2, <1>8, <1>10, <1>11
  <2>2. f.valid + f.bad = k
    <3>1. CASE km.class = "valid"
      <4>1. f.valid = e.valid + 1 /\ f.bad = e.bad
        BY <1>10, <1>11, <3>1
      <4>2. QED
        BY <1>1, <1>10, <4>1
    <3>2. CASE km.class # "valid"
      <4>1. f.valid = e.valid /\ f.bad = e.bad + 1
        BY <1>10, <1>11, <3>2
      <4>2. QED
        BY <1>1, <1>10, <4>1
    <3>3. QED
      BY <3>1, <3>2
  <2>3. f.missing =< f.bad
    BY <1>1, <1>8, <1>10, <1>11
  <2>4. QED
    BY <2>1, <2>2, <2>3
<1>18. QED
  BY <1>3, <1>13, <1>14, <1>15, <1>16, <1>17 DEF Summed, f, km, m

\* deriveDetailThreatEvidence: what the loop has added up when the feed is through, for any
\* feed.
LEMMA EvidenceRight ==
    ASSUME NEW mails \in Seq(Killmails)
    PROVE  Summed(Evidence(mails), mails, Len(mails))
<1> DEFINE n == Len(mails)
<1>1. PICK e : Rounds(e, mails) /\ Evidence(mails) = e[n]
  BY EvidenceLoop
<1>2. e \in [0..n -> Evidences] /\ e[0] = NoEvidence /\ \A i \in 1..n : e[i] = With(e[i - 1], Parsed(mails[i]))
  BY <1>1 DEF Rounds
<1>3. Summed(NoEvidence, mails, 0)
  <2>1. Kills(mails, 0) = {} /\ Losses(mails, 0) = {} /\ Dateless(mails, 0) = {}
    BY DEF Kills, Losses, Dateless
  <2>2. Times(mails, {}) = {}
    BY DEF Times
  <2>3. Cardinality({}) = 0
    BY FS_EmptySet
  <2>4. Peak(0, {})
    BY DEF Peak
  <2>5. /\ NoEvidence.kills = 0 /\ NoEvidence.losses = 0 /\ NoEvidence.lastKill = 0 /\ NoEvidence.lastLoss = 0
        /\ NoEvidence.bad = 0 /\ NoEvidence.valid = 0 /\ NoEvidence.missing = 0
    BY DEF NoEvidence
  <2>6. 0 + 0 = 0 /\ 0 =< 0
    OBVIOUS
  <2>7. NoEvidence.kills + NoEvidence.losses = 0 /\ NoEvidence.valid + NoEvidence.bad = 0
        /\ NoEvidence.missing =< NoEvidence.bad
    BY <2>5, <2>6
  <2>8. QED
    BY <2>1, <2>2, <2>3, <2>4, <2>5, <2>7, NoEvidenceTyped DEF Summed
<1> DEFINE S == {k \in 0..n : Summed(e[k], mails, k)}
<1>4. n \in Nat
  OBVIOUS
<1>5. 0 \in S /\ S \in SUBSET (0..n)
  <2>1. 0 \in 0..n
    BY <1>4
  <2>2. QED
    BY <1>2, <1>3, <2>1
<1>6. ASSUME NEW k \in 1..n, k - 1 \in S
      PROVE  k \in S
  <2>1. Summed(e[k], mails, k)
    BY <1>2, <1>6, SummedNext
  <2>2. QED
    BY <2>1, <1>4
<1>7. n \in 0..n
  BY <1>4
<1>8. S = 0..n
  <2> HIDE DEF S, n
  <2>1. QED
    BY <1>4, <1>5, <1>6, Inductive
<1>9. QED
  BY <1>1, <1>7, <1>8

LEMMA LatestIs ==
    ASSUME NEW ms \in SUBSET Killmails, NEW L, Peak(L, {Parsed(m).time : m \in ms}), L = 0 => ms = {}
    PROVE  Latest(ms) = L
<1> DEFINE S == {Parsed(m).time : m \in ms}
           P(t) == \A u \in S : t >= u
<1>1. L \in Nat /\ S \subseteq Nat /\ (\A x \in S : x =< L) /\ (L = 0 \/ L \in S)
  BY DEF Peak
<1>2. Latest(ms) = IF S = {} THEN 0 ELSE CHOOSE t \in S : P(t)
  BY DEF Latest
<1>3. ms = {} <=> S = {}
  OBVIOUS
<1> HIDE DEF S
<1>4. CASE S = {}
  BY <1>1, <1>2, <1>4
<1>5. CASE S # {}
  <2>1. L \in S /\ P(L)
    BY <1>1, <1>3, <1>5
  <2>2. \A t \in S : P(t) => t = L
    BY <1>1, <2>1
  <2>3. (CHOOSE t \in S : P(t)) = L
    <3> HIDE DEF P
    <3>1. QED
      BY <2>1, <2>2
  <2>4. QED
    BY <1>2, <1>5, <2>3
<1>6. QED
  BY <1>4, <1>5

\* The times of some killmails, with and without those that have none.
LEMMA PeakDated ==
    ASSUME NEW ms \in SUBSET Killmails, NEW L, Peak(L, {Parsed(m).time : m \in ms})
    PROVE  Latest({m \in ms : HasTime(m)}) = L
<1> DEFINE ds == {m \in ms : HasTime(m)}
           S == {Parsed(m).time : m \in ms}
           D == {Parsed(m).time : m \in ds}
<1>1. \A m \in ms : HasTime(m) <=> Parsed(m).time # 0
  BY ParsedRight
<1>2. D = S \ {0}
  BY <1>1
<1>3. ds \in SUBSET Killmails /\ (ds = {} <=> D = {})
  OBVIOUS
<1>4. S \subseteq Nat /\ L \in Nat /\ (\A x \in S : x =< L) /\ (L = 0 \/ L \in S)
  BY DEF Peak
<1> HIDE DEF S, ds
<1>5. Peak(L, D)
  <2>1. L = 0 \/ L \in S \ {0}
    BY <1>4
  <2>2. S \ {0} \subseteq Nat /\ \A x \in S \ {0} : x =< L
    BY <1>4
  <2> HIDE DEF D
  <2>3. QED
    BY <1>2, <1>4, <2>1, <2>2 DEF Peak
<1>6. L = 0 => ds = {}
  <2>1. \A x \in S : x \in Nat /\ x =< L
    BY <1>4
  <2>2. L = 0 => \A x \in S : x = 0
    BY <2>1
  <2> HIDE DEF D
  <2>3. L = 0 => D = {}
    BY <1>2, <2>2
  <2>4. QED
    BY <1>3, <2>3
<1>7. Latest(ds) = L
  BY <1>3, <1>5, <1>6, LatestIs
<1>8. QED
  BY <1>7 DEF ds

\* What the evidence of a pilot says of the killmails fetched for it.
Digest(p) ==
    LET e == EvidenceOf(p)
        timed == {m \in Mails(p) : HasTime(m)}
    IN  /\ e \in Evidences
        /\ Volume(e) <=> Mails(p) # {}
        /\ e.valid > 0 <=> timed # {}
        /\ e.bad > 0 <=> \E m \in Mails(p) : ~HasTime(m)
        /\ e.missing =< e.bad
        /\ ~Volume(e) => e.valid = 0 /\ e.lastKill = 0 /\ e.lastLoss = 0
        /\ e.lastKill = Latest({m \in timed : ~m.loss})
        /\ e.lastLoss = Latest({m \in timed : m.loss})
        /\ Later(e.lastKill, e.lastLoss) = Latest(timed)
        /\ timed # {} => Latest(timed) \in Days
        /\ Answered(p) =>
              /\ e.kills = Cardinality({i \in DOMAIN feed[p] : ~feed[p][i].loss})
              /\ e.losses = Cardinality({i \in DOMAIN feed[p] : feed[p][i].loss})
              /\ e.bad = Cardinality({i \in DOMAIN feed[p] : ~HasTime(feed[p][i])})

LEMMA NothingDigested ==
    ASSUME NEW p, ~Answered(p)
    PROVE  Digest(p)
<1>1. EvidenceOf(p) = NoEvidence /\ Mails(p) = {}
  BY DEF EvidenceOf, Mails
<1>2. Latest({}) = 0
  BY DEF Latest
<1>3. /\ NoEvidence.kills = 0 /\ NoEvidence.losses = 0 /\ NoEvidence.lastKill = 0 /\ NoEvidence.lastLoss = 0
      /\ NoEvidence.bad = 0 /\ NoEvidence.valid = 0 /\ NoEvidence.missing = 0
  BY DEF NoEvidence
<1>4. ~Volume(NoEvidence)
  BY <1>3 DEF Volume
<1>5. Later(0, 0) = 0
  BY DEF Later
<1>6. ~(0 > 0) /\ 0 =< 0
  OBVIOUS
<1> DEFINE timed == {m \in Mails(p) : HasTime(m)}
<1>7. timed = {} /\ {m \in timed : m.loss} = {} /\ {m \in timed : ~m.loss} = {}
  BY <1>1
<1>8. ~ \E m \in Mails(p) : ~HasTime(m)
  BY <1>1
<1> HIDE DEF timed
<1>9. QED
  BY <1>1, <1>2, <1>3, <1>4, <1>5, <1>6, <1>7, <1>8, NoEvidenceTyped DEF Digest, timed

LEMMA FeedDigested ==
    ASSUME NEW p, Answered(p), feed[p] \in Feeds
    PROVE  Digest(p)
<1> DEFINE mails == feed[p]
           n == Len(mails)
           e == EvidenceOf(p)
           all == Mails(p)
           timed == {m \in all : HasTime(m)}
<1>1. mails \in Seq(Killmails)
  BY EnrichmentAssumption DEF Answered
<1>2. n \in Nat /\ DOMAIN mails = 1..n /\ \A i \in 1..n : mails[i] \in Killmails
  BY <1>1
<1>3. e = Evidence(mails) /\ all = Range(mails)
  BY DEF EvidenceOf, Mails
<1>4. Summed(e, mails, n)
  BY <1>1, <1>3, EvidenceRight
<1> HIDE DEF mails, n, e
<1>5. all = {mails[i] : i \in 1..n} /\ all \in SUBSET Killmails
  BY <1>2, <1>3 DEF Range
<1> HIDE DEF all
<1>6. e \in Evidences /\ e.kills + e.losses = n /\ e.valid + e.bad = n /\ e.missing =< e.bad
  BY <1>4 DEF Summed
<1>7. e.kills \in Nat /\ e.losses \in Nat /\ e.valid \in Nat /\ e.bad \in Nat
  BY <1>6 DEF Evidences
<1>8. e.kills = Cardinality({i \in DOMAIN mails : ~mails[i].loss})
  BY <1>2, <1>4 DEF Summed, Kills
<1>9. e.losses = Cardinality({i \in DOMAIN mails : mails[i].loss})
  BY <1>2, <1>4 DEF Summed, Losses
<1>10. e.bad = Cardinality({i \in DOMAIN mails : ~HasTime(mails[i])})
  BY <1>2, <1>4 DEF Summed, Dateless
<1>11. Volume(e) <=> all # {}
  <2>1. Volume(e) <=> n > 0
    BY <1>6 DEF Volume
  <2>2. n > 0 <=> 1..n # {}
    BY <1>2
  <2>3. QED
    BY <1>5, <2>1, <2>2
<1> DEFINE B == Dateless(mails, n)
<1>12. B \subseteq 1..n /\ IsFiniteSet(1..n) /\ Cardinality(1..n) = n
  <2>1. IsFiniteSet(1..n) /\ Cardinality(1..n) = n
    BY <1>2, FS_Interval
  <2>2. QED
    BY <2>1 DEF Dateless
<1>13. IsFiniteSet(B) /\ Cardinality(B) = e.bad
  BY <1>4, <1>12, FS_Subset DEF Summed
<1>14. e.bad > 0 <=> \E m \in all : ~HasTime(m)
  <2>1. e.bad > 0 <=> B # {}
    BY <1>7, <1>13, FS_EmptySet
  <2>2. B # {} <=> \E m \in all : ~HasTime(m)
    BY <1>5 DEF Dateless
  <2>3. QED
    BY <2>1, <2>2
<1>15. e.valid > 0 <=> timed # {}
  <2>1. e.valid > 0 <=> e.bad # n
    BY <1>2, <1>6, <1>7
  <2>2. e.bad = n <=> B = 1..n
    BY <1>12, <1>13, FS_Subset
  <2>3. B = 1..n <=> timed = {}
    BY <1>5 DEF Dateless
  <2>4. QED
    BY <2>1, <2>2, <2>3
<1> DEFINE ks == {m \in all : ~m.loss}
           ls == {m \in all : m.loss}
<1>16. Times(mails, Kills(mails, n)) = {Parsed(m).time : m \in ks}
  BY <1>5 DEF Times, Kills
<1>17. Times(mails, Losses(mails, n)) = {Parsed(m).time : m \in ls}
  BY <1>5 DEF Times, Losses
<1>18. ks \in SUBSET Killmails /\ ls \in SUBSET Killmails
  BY <1>5
<1>19. Peak(e.lastKill, {Parsed(m).time : m \in ks}) /\ Peak(e.lastLoss, {Parsed(m).time : m \in ls})
  BY <1>4, <1>16, <1>17 DEF Summed
<1>20. Latest({m \in ks : HasTime(m)}) = e.lastKill /\ Latest({m \in ls : HasTime(m)}) = e.lastLoss
  <2> HIDE DEF ks, ls
  <2>1. QED
    BY <1>18, <1>19, PeakDated
<1>21. {m \in ks : HasTime(m)} = {m \in timed : ~m.loss} /\ {m \in ls : HasTime(m)} = {m \in timed : m.loss}
  OBVIOUS
<1>22. Peak(Later(e.lastKill, e.lastLoss), {Parsed(m).time : m \in all})
  <2> DEFINE SK == {Parsed(m).time : m \in ks}
             SL == {Parsed(m).time : m \in ls}
             SA == {Parsed(m).time : m \in all}
  <2>1. SA = SK \cup SL
    OBVIOUS
  <2> HIDE DEF SK, SL, SA
  <2>2. Peak(e.lastKill, SK) /\ Peak(e.lastLoss, SL)
    BY <1>19 DEF SK, SL
  <2>3. Peak(Later(e.lastKill, e.lastLoss), SK \cup SL)
    BY <2>2 DEF Peak, Later
  <2>4. QED
    BY <2>1, <2>3 DEF SA
<1>23. Latest(timed) = Later(e.lastKill, e.lastLoss)
  BY <1>5, <1>22, PeakDated
<1>24. timed # {} => Latest(timed) \in Days
  <2>1. SUFFICES ASSUME NEW m \in timed
                 PROVE  Latest(timed) \in Days
    OBVIOUS
  <2>2. Parsed(m).time \in Nat \ {0}
    BY <1>5, ParsedRight
  <2> DEFINE L == Later(e.lastKill, e.lastLoss)
             S == {Parsed(i).time : i \in all}
  <2>3. Parsed(m).time \in S
    OBVIOUS
  <2> HIDE DEF L, S
  <2>4. L \in Nat /\ Parsed(m).time =< L
    BY <1>22, <2>3 DEF Peak, L, S
  <2>5. L \in Days
    BY <2>2, <2>4 DEF Days
  <2>6. QED
    BY <1>23, <2>5 DEF L
<1>25. ~Volume(e) => e.valid = 0 /\ e.lastKill = 0 /\ e.lastLoss = 0
  <2>1. SUFFICES ASSUME ~Volume(e)
                 PROVE  e.valid = 0 /\ e.lastKill = 0 /\ e.lastLoss = 0
    OBVIOUS
  <2>2. all = {}
    BY <1>11, <2>1
  <2>3. n = 0
    BY <1>2, <1>6, <2>1 DEF Volume
  <2>4. e.valid = 0
    BY <1>6, <1>7, <2>3
  <2>5. ks = {} /\ ls = {}
    BY <2>2
  <2>6. {Parsed(m).time : m \in ks} = {} /\ {Parsed(m).time : m \in ls} = {}
    BY <2>5
  <2> HIDE DEF ks, ls
  <2>7. e.lastKill = 0 /\ e.lastLoss = 0
    BY <1>19, <2>6 DEF Peak
  <2>8. QED
    BY <2>4, <2>7
<1> HIDE DEF timed, ks, ls
<1>26. QED
  BY <1>6, <1>8, <1>9, <1>10, <1>11, <1>14, <1>15, <1>20, <1>21, <1>23, <1>24, <1>25 DEF Digest, e, all, timed, mails

-----------------------------------------------------------------------------
(***************************************************************************)
(* The inductive invariant says what each stage leaves behind, in terms of *)
(* the answers of the providers alone.                                     *)
(***************************************************************************)

BaseThreat(p) == Threat(SummaryOf(p), NoEvidence, NoShip)
BaseFresh(p) == MergedFreshness(SummaryOf(p), NoEvidence)
Why(p, top) == IF explicit THEN "explicit_refresh"
               ELSE IF p \in top THEN "top_threat_budget"
               ELSE IF p = chosen THEN "selected_pilot"
               ELSE IF BaseThreat(p).kills + BaseThreat(p).losses = 0 THEN "zero_activity_bootstrap" ELSE ""

Inputs == summary \in [Pilots -> Summaries] /\ feed \in [Pilots -> Feeds]
Baselines == \A p \in Pilots : row[p].threat = BaseThreat(p) /\ row[p].fresh = BaseFresh(p)
Selected == \E top \in Top([p \in Pilots |-> BaseThreat(p).score]) : \A p \in Pilots : reason[p] = Why(p, top)
MergedThreat(p) == \E ship \in MainShips(EvidenceOf(p)) : row[p].threat = Threat(SummaryOf(p), EvidenceOf(p), ship)
MergedFresh(p) == row[p].fresh = IF Volume(EvidenceOf(p)) /\ EvidenceOf(p).valid = 0 THEN BaseFresh(p)
                                 ELSE MergedFreshness(SummaryOf(p), EvidenceOf(p))
Merged == \A p \in Pilots : MergedThreat(p) /\ MergedFresh(p)
Raised == {Lost(p, "SUMMARY_FAILED") : p \in {q \in Pilots : summary[q] = Failed}}
Noticed == Raised \cup UNION {WarningsOn(p) : p \in Pilots}
SessionMade == session = [asOf |-> Oldest({Now} \cup {row[p].fresh.asOf : p \in Pilots}),
                          stale |-> \E p \in Pilots : row[p].fresh.stale]
Viewed == view = [p \in Pilots |-> View(row[p].threat, {w \in warnings : w.pilot = p}, p \in DOMAIN display.hints)]

Stages == {"summaries", "select", "details", "compose", "done", "shown", "seen"}
Early == {"select", "details"}
Late == {"compose", "done", "shown", "seen"}
Final == {"done", "shown", "seen"}

Trace ==
    /\ Inputs /\ stage \in Stages
    /\ stage = "summaries" => warnings = {}
    /\ stage \in Early => Baselines /\ warnings = Raised
    /\ stage \in {"details"} \cup Late => Selected
    /\ stage \in Late => Merged
    /\ stage = "compose" => warnings = Noticed
    /\ stage \in Final => warnings = Aggregated(Noticed) /\ SessionMade
    /\ stage \in {"shown", "seen"} => display = Displayed(warnings)
    /\ stage = "seen" => Viewed


LEMMA SummaryTyped ==
    ASSUME Inputs, NEW p \in Pilots
    PROVE  SummaryOf(p) \in [kills : Nat, losses : Nat, danger : Nat, last : Nat]
<1>1. summary[p] \in Summaries
  BY DEF Inputs
<1>2. CASE summary[p] = Failed
  BY <1>2 DEF SummaryOf, ZeroRow
<1>3. CASE summary[p] # Failed
  <2>1. summary[p] \in [kills : Nat, losses : Nat, danger : Nat, last : Nat]
    BY <1>1, <1>3, EnrichmentAssumption
  <2>2. SummaryOf(p) = summary[p]
    BY <1>3 DEF SummaryOf
  <2>3. QED
    BY <2>1, <2>2
<1>4. QED
  BY <1>2, <1>3

\* What the inputs say is theirs alone, and what the killmails say of the choice as well.
LEMMA InputsKept ==
    ASSUME UNCHANGED <<explicit, chosen, summary, feed>>
    PROVE  /\ Inputs' = Inputs /\ Raised' = Raised
           /\ \A p : SummaryOf(p)' = SummaryOf(p) /\ BaseThreat(p)' = BaseThreat(p) /\ BaseFresh(p)' = BaseFresh(p)
           /\ \A p, top : Why(p, top)' = Why(p, top)
<1>1. Inputs' = Inputs /\ Raised' = Raised
  BY DEF Inputs, Raised
<1>2. \A p : SummaryOf(p)' = SummaryOf(p)
  BY DEF SummaryOf
<1>3. \A p : BaseThreat(p)' = BaseThreat(p) /\ BaseFresh(p)' = BaseFresh(p)
  BY <1>2 DEF BaseThreat, BaseFresh
<1>4. \A p, top : Why(p, top)' = Why(p, top)
  BY <1>3 DEF Why
<1>5. QED
  BY <1>1, <1>2, <1>3, <1>4

LEMMA EvidenceKept ==
    ASSUME UNCHANGED <<feed, reason>>
    PROVE  /\ \A p : EvidenceOf(p)' = EvidenceOf(p) /\ WarningsOn(p)' = WarningsOn(p) /\ Mails(p)' = Mails(p)
           /\ Targets' = Targets
<1>1. Targets' = Targets
  BY DEF Targets
<1>2. \A p : Answered(p)' = Answered(p)
  BY <1>1 DEF Answered
<1>3. \A p : EvidenceOf(p)' = EvidenceOf(p) /\ Mails(p)' = Mails(p)
  BY <1>2 DEF EvidenceOf, Mails
<1>4. \A p : WarningsOn(p)' = WarningsOn(p)
  BY <1>1, <1>3 DEF WarningsOn
<1>5. QED
  BY <1>1, <1>3, <1>4

LEMMA SelectedKept ==
    ASSUME UNCHANGED <<explicit, chosen, summary, feed, reason>>
    PROVE  Selected' = Selected /\ Noticed' = Noticed
<1>1. \A p : BaseThreat(p)' = BaseThreat(p)
  BY InputsKept
<1>2. \A p, top : Why(p, top)' = Why(p, top)
  BY InputsKept
<1>3. Raised' = Raised /\ \A p : WarningsOn(p)' = WarningsOn(p)
  BY InputsKept, EvidenceKept
<1>4. Selected' = Selected
  BY <1>1, <1>2 DEF Selected, Top
<1>5. Noticed' = Noticed
  BY <1>3 DEF Noticed
<1>6. QED
  BY <1>4, <1>5

LEMMA MergedKept ==
    ASSUME UNCHANGED <<explicit, chosen, summary, feed, reason, row>>
    PROVE  Merged' = Merged
<1>1. \A p : SummaryOf(p)' = SummaryOf(p) /\ BaseFresh(p)' = BaseFresh(p)
  BY InputsKept
<1>2. \A p : EvidenceOf(p)' = EvidenceOf(p)
  BY EvidenceKept
<1>3. \A p : MergedThreat(p)' = MergedThreat(p) /\ MergedFresh(p)' = MergedFresh(p)
  BY <1>1, <1>2 DEF MergedThreat, MergedFresh
<1>4. QED
  BY <1>3 DEF Merged

LEMMA TraceInit == EnrichInit => Trace
BY DEF EnrichInit, Trace, Inputs, Stages, Early, Late, Final

LEMMA BaselineTrace == ASSUME Trace, Baseline PROVE Trace'
<1>1. UNCHANGED <<explicit, chosen, summary, feed>> /\ stage' = "select" /\ Inputs
  BY DEF Baseline, Trace
<1>2. Inputs' /\ Raised' = Raised /\ \A p : BaseThreat(p)' = BaseThreat(p) /\ BaseFresh(p)' = BaseFresh(p)
  BY <1>1, InputsKept
<1>3. row' = [p \in Pilots |-> [threat |-> BaseThreat(p), fresh |-> BaseFresh(p)]] /\ warnings' = Raised
  BY DEF Baseline, BaseThreat, BaseFresh, Raised
<1>4. Baselines'
  BY <1>2, <1>3 DEF Baselines
<1>5. QED
  BY <1>1, <1>2, <1>3, <1>4 DEF Trace, Stages, Early, Late, Final

LEMMA SelectTrace == ASSUME Trace, Select PROVE Trace'
<1>1. UNCHANGED <<explicit, chosen, summary, feed, row, warnings>> /\ stage' = "details" /\ stage = "select"
  BY DEF Select
<1>2. Inputs /\ Baselines /\ warnings = Raised
  BY <1>1 DEF Trace, Early
<1>3. /\ Inputs' /\ Raised' = Raised
      /\ \A p : BaseThreat(p)' = BaseThreat(p) /\ BaseFresh(p)' = BaseFresh(p)
      /\ \A p, top : Why(p, top)' = Why(p, top)
  BY <1>1, <1>2, InputsKept
<1>4. Baselines'
  BY <1>1, <1>2, <1>3 DEF Baselines
<1>5. [p \in Pilots |-> row[p].threat.score] = [p \in Pilots |-> BaseThreat(p).score]
  BY <1>2 DEF Baselines
<1>6. PICK top \in Top([p \in Pilots |-> BaseThreat(p).score]) : reason' = [p \in Pilots |-> ReasonFor(p, top)]
  BY <1>5 DEF Select
<1>7. \A p \in Pilots : ReasonFor(p, top) = Why(p, top)
  BY <1>2 DEF Baselines, ReasonFor, Why, Idle
<1>8. \A p \in Pilots : reason'[p] = Why(p, top)'
  BY <1>3, <1>6, <1>7
<1>9. top \in Top([p \in Pilots |-> BaseThreat(p).score])'
  BY <1>3, <1>6 DEF Top
<1>10. Selected'
  BY <1>8, <1>9 DEF Selected
<1>11. QED
  BY <1>1, <1>2, <1>3, <1>4, <1>10 DEF Trace, Stages, Early, Late, Final

LEMMA DetailsTrace == ASSUME Trace, Details PROVE Trace'
<1>1. UNCHANGED <<explicit, chosen, summary, feed, reason>> /\ stage' = "compose" /\ stage = "details"
  BY DEF Details
<1>2. Inputs /\ Baselines /\ warnings = Raised /\ Selected
  BY <1>1 DEF Trace, Early
<1>3. Inputs' /\ Selected' /\ Noticed' = Noticed
  BY <1>1, <1>2, InputsKept, SelectedKept
<1>4. warnings' = Noticed
  BY <1>2 DEF Details, Noticed
<1>5. PICK ship \in [Pilots -> UNION {MainShips(EvidenceOf(p)) : p \in Pilots}] :
          /\ \A p \in Pilots : ship[p] \in MainShips(EvidenceOf(p))
          /\ row' = [p \in Pilots |-> [threat |-> Threat(SummaryOf(p), EvidenceOf(p), ship[p]),
                                       fresh |-> RowFreshness(p, EvidenceOf(p))]]
  BY DEF Details
<1>6. \A p : SummaryOf(p)' = SummaryOf(p) /\ BaseFresh(p)' = BaseFresh(p) /\ EvidenceOf(p)' = EvidenceOf(p)
  BY <1>1, InputsKept, EvidenceKept
<1>7. \A p \in Pilots : /\ row'[p].threat = Threat(SummaryOf(p), EvidenceOf(p), ship[p])
                        /\ row'[p].fresh = RowFreshness(p, EvidenceOf(p))
  BY <1>5
<1>8. ASSUME NEW p \in Pilots
      PROVE  MergedThreat(p)' /\ MergedFresh(p)'
  <2>1. MergedThreat(p)'
    BY <1>5, <1>6, <1>7 DEF MergedThreat
  <2>2. RowFreshness(p, EvidenceOf(p)) = IF Volume(EvidenceOf(p)) /\ EvidenceOf(p).valid = 0 THEN BaseFresh(p)
                                         ELSE MergedFreshness(SummaryOf(p), EvidenceOf(p))
    BY <1>2 DEF RowFreshness, Baselines
  <2>3. MergedFresh(p)'
    BY <1>6, <1>7, <2>2 DEF MergedFresh
  <2>4. QED
    BY <2>1, <2>3
<1>9. Merged'
  BY <1>8 DEF Merged
<1>10. QED
  BY <1>1, <1>3, <1>4, <1>9 DEF Trace, Stages, Early, Late, Final

LEMMA ComposeTrace == ASSUME Trace, Compose PROVE Trace'
<1>1. UNCHANGED <<explicit, chosen, summary, feed, reason, row>> /\ stage' = "done" /\ stage = "compose"
  BY DEF Compose
<1>2. Inputs /\ Selected /\ Merged /\ warnings = Noticed
  BY <1>1 DEF Trace, Late
<1>3. Inputs' /\ Selected' /\ Merged' /\ Noticed' = Noticed
  BY <1>1, <1>2, InputsKept, SelectedKept, MergedKept
<1>4. warnings' = Aggregated(Noticed)' /\ SessionMade'
  BY <1>1, <1>2, <1>3 DEF Compose, SessionMade
<1>5. QED
  BY <1>1, <1>3, <1>4 DEF Trace, Stages, Early, Late, Final

LEMMA DisplayTrace == ASSUME Trace, Display PROVE Trace'
<1>1. UNCHANGED <<explicit, chosen, summary, feed, reason, row, warnings, session>> /\ stage' = "shown" /\ stage = "done"
      /\ display' = Displayed(warnings)
  BY DEF Display
<1>2. Inputs /\ Selected /\ Merged /\ warnings = Aggregated(Noticed) /\ SessionMade
  BY <1>1 DEF Trace, Late, Final
<1>3. Inputs' /\ Selected' /\ Merged' /\ Noticed' = Noticed
  BY <1>1, <1>2, InputsKept, SelectedKept, MergedKept
<1>4. warnings' = Aggregated(Noticed)' /\ SessionMade' /\ display' = Displayed(warnings)'
  BY <1>1, <1>2, <1>3 DEF SessionMade
<1>5. QED
  BY <1>1, <1>3, <1>4 DEF Trace, Stages, Early, Late, Final

LEMMA ShowTrace == ASSUME Trace, Show PROVE Trace'
<1>1. UNCHANGED <<explicit, chosen, summary, feed, reason, row, warnings, session, display>>
      /\ stage' = "seen" /\ stage = "shown"
  BY DEF Show
<1>2. Inputs /\ Selected /\ Merged /\ warnings = Aggregated(Noticed) /\ SessionMade /\ display = Displayed(warnings)
  BY <1>1 DEF Trace, Late, Final
<1>3. Inputs' /\ Selected' /\ Merged' /\ Noticed' = Noticed
  BY <1>1, <1>2, InputsKept, SelectedKept, MergedKept
<1>4. warnings' = Aggregated(Noticed)' /\ SessionMade' /\ display' = Displayed(warnings)'
  BY <1>1, <1>2, <1>3 DEF SessionMade
<1>5. Viewed'
  BY <1>1 DEF Show, Viewed
<1>6. QED
  BY <1>1, <1>3, <1>4, <1>5 DEF Trace, Stages, Early, Late, Final

LEMMA TraceStep == Trace /\ [EnrichNext]_enrichVars => Trace'
<1>1. SUFFICES ASSUME Trace, [EnrichNext]_enrichVars
               PROVE  Trace'
  OBVIOUS
<1>2. CASE UNCHANGED enrichVars
  <2>1. UNCHANGED <<explicit, chosen, summary, feed, stage, row, reason, warnings, session, display, view>>
    BY <1>2 DEF enrichVars
  <2>2. Inputs' = Inputs /\ Selected' = Selected /\ Merged' = Merged /\ Raised' = Raised /\ Noticed' = Noticed
    BY <2>1, InputsKept, SelectedKept, MergedKept
  <2>3. Baselines' = Baselines
    <3>1. \A p : BaseThreat(p)' = BaseThreat(p) /\ BaseFresh(p)' = BaseFresh(p)
      BY <2>1, InputsKept
    <3>2. QED
      BY <2>1, <3>1 DEF Baselines
  <2>4. SessionMade' = SessionMade /\ Viewed' = Viewed
    BY <2>1 DEF SessionMade, Viewed
  <2>5. QED
    BY <1>1, <2>1, <2>2, <2>3, <2>4 DEF Trace
<1>3. CASE EnrichNext
  BY <1>1, <1>3, BaselineTrace, SelectTrace, DetailsTrace, ComposeTrace, DisplayTrace, ShowTrace DEF EnrichNext
<1>4. QED
  BY <1>1, <1>2, <1>3

-----------------------------------------------------------------------------
\* What it says of rows, of the choice of the pilots and of the session.

LEMMA Digested == ASSUME Inputs, NEW p \in Pilots PROVE Digest(p)
<1>1. feed[p] \in Feeds
  BY DEF Inputs
<1>2. QED
  BY <1>1, NothingDigested, FeedDigested

\* What is known of a pilot is what the engine can be given.
LEMMA FiguresGiven ==
    ASSUME NEW s \in [kills : Nat, losses : Nat, danger : Nat, last : Nat], NEW e \in Evidences
    PROVE  /\ LastActivity(s, e) \in Nat
           /\ Given(Figures(s, e))
           /\ Dated(Figures(s, e)) <=> LastActivity(s, e) # 0
           /\ ~Volume(e) => /\ Figures(s, e).kills = s.kills /\ Figures(s, e).losses = s.losses
                            /\ Figures(s, e).danger = s.danger
           /\ Volume(e) => Figures(s, e).kills = e.kills /\ Figures(s, e).losses = e.losses
<1>1. e.kills \in Nat /\ e.losses \in Nat /\ e.lastKill \in Nat /\ e.lastLoss \in Nat /\ e.valid \in Nat
  BY DEF Evidences
<1>2. LastActivity(s, e) \in Nat
  BY <1>1 DEF LastActivity, Later
<1> DEFINE f == Figures(s, e)
<1>3. f.last = LastActivity(s, e) /\ f.snapshot = IF LastActivity(s, e) = 0 THEN Now ELSE LastActivity(s, e)
  BY DEF Figures
<1>4. /\ f.kills = IF Volume(e) THEN e.kills ELSE s.kills
      /\ f.losses = IF Volume(e) THEN e.losses ELSE s.losses
      /\ f.danger = IF Volume(e) THEN (Full * e.kills) \div (e.kills + e.losses) ELSE s.danger
  BY DEF Figures
<1>5. Volume(e) => (Full * e.kills) \div (e.kills + e.losses) \in Nat
  <2> DEFINE n == Full * e.kills
             d == e.kills + e.losses
  <2>1. n \in Nat
    BY <1>1 DEF Full
  <2>2. Volume(e) => d \in Nat \ {0}
    BY <1>1 DEF Volume
  <2> HIDE DEF n, d
  <2>3. Volume(e) => n \div d \in Nat
    BY <2>1, <2>2, Quotient
  <2>4. QED
    BY <2>3 DEF n, d
<1> HIDE DEF f
<1>6. f.danger \in Nat
  BY <1>4, <1>5
<1>7. f.kills \in Nat /\ f.losses \in Nat
  BY <1>1, <1>4
<1>8. Dated(f) <=> LastActivity(s, e) # 0
  BY <1>3 DEF Dated
<1>9. Given(f)
  BY <1>2, <1>3, <1>6, <1>7, <1>8 DEF Given
<1>10. QED
  BY <1>2, <1>4, <1>8, <1>9 DEF f

LEMMA FreshTyped ==
    ASSUME NEW s \in [kills : Nat, losses : Nat, danger : Nat, last : Nat], NEW e \in Evidences
    PROVE  MergedFreshness(s, e) \in Fresh
<1> DEFINE l == LastActivity(s, e)
           asOf == IF l = 0 THEN Now ELSE l
           source == IF Volume(e) THEN "mixed" ELSE "summary"
<1>1. l \in Nat
  BY FiguresGiven
<1>2. asOf \in Days
  BY <1>1, EnrichmentAssumption DEF Days
<1>3. MergedFreshness(s, e) = [source |-> source, asOf |-> asOf, stale |-> Age(asOf) > Interval]
  BY DEF MergedFreshness, Freshness
<1>4. (Age(asOf) > Interval) \in BOOLEAN /\ source \in {"summary", "mixed"}
  OBVIOUS
<1> HIDE DEF l, asOf, source
<1>5. QED
  BY <1>2, <1>3, <1>4 DEF Fresh

\* The freshness of a row is never the zero time, and stale if its age exceeds the interval.
LEMMA RowFresh ==
    ASSUME Trace, stage \in Late, NEW p \in Pilots
    PROVE  row[p].fresh \in Fresh /\ row[p].fresh.stale = (Age(row[p].fresh.asOf) > Interval)
<1>1. Inputs /\ MergedFresh(p)
  BY DEF Trace, Merged
<1>2. SummaryOf(p) \in [kills : Nat, losses : Nat, danger : Nat, last : Nat] /\ EvidenceOf(p) \in Evidences
  BY <1>1, SummaryTyped, Digested DEF Digest
<1>3. MergedFreshness(SummaryOf(p), EvidenceOf(p)) \in Fresh /\ BaseFresh(p) \in Fresh
  BY <1>2, FreshTyped, NoEvidenceTyped DEF BaseFresh
<1>4. \A s, e : MergedFreshness(s, e).stale = (Age(MergedFreshness(s, e).asOf) > Interval)
  BY DEF MergedFreshness, Freshness
<1>5. QED
  BY <1>1, <1>3, <1>4 DEF MergedFresh, BaseFresh

LEMMA BudgetHolds == Trace => BudgetIsForTheTop
<1> DEFINE chosenOnes == {p \in Pilots : reason[p] = "top_threat_budget"}
           rank == [p \in Pilots |-> Score(Figures(SummaryOf(p), NoEvidence))]
<1>1. SUFFICES ASSUME Trace, stage \in {"compose", "done"}, ~explicit
               PROVE  /\ Cardinality(chosenOnes) =< Budget
                      /\ \A p \in Pilots \ Targets :
                            /\ p # chosen /\ SummaryOf(p).kills + SummaryOf(p).losses > 0
                            /\ \A q \in chosenOnes : rank[q] >= rank[p]
  BY DEF BudgetIsForTheTop
<1>2. Inputs /\ Selected
  BY <1>1 DEF Trace, Late
<1>3. PICK top \in Top([p \in Pilots |-> BaseThreat(p).score]) : \A p \in Pilots : reason[p] = Why(p, top)
  BY <1>2 DEF Selected
<1>4. \A p : BaseThreat(p).score = Score(Figures(SummaryOf(p), NoEvidence))
  BY DEF BaseThreat, Threat
<1>5. /\ top \subseteq Pilots /\ Cardinality(top) = Least(Budget, Cardinality(Pilots))
      /\ \A p \in top, q \in Pilots \ top : rank[p] >= rank[q]
  BY <1>3, <1>4 DEF Top
<1>6. chosenOnes = top
  BY <1>1, <1>3, <1>5 DEF Why
<1>7. Cardinality(chosenOnes) =< Budget
  <2>1. Cardinality(Pilots) \in Nat /\ Budget \in Nat
    BY FS_CardinalityType, EnrichmentAssumption
  <2>2. QED
    BY <1>5, <1>6, <2>1, LeastType
<1>8. ASSUME NEW p \in Pilots \ Targets
      PROVE  /\ p # chosen /\ SummaryOf(p).kills + SummaryOf(p).losses > 0
             /\ \A q \in chosenOnes : rank[q] >= rank[p]
  <2>1. Why(p, top) = ""
    BY <1>3, <1>8 DEF Targets
  <2>2. p \notin top /\ p # chosen /\ BaseThreat(p).kills + BaseThreat(p).losses # 0
    BY <1>1, <2>1 DEF Why
  <2>3. SummaryOf(p) \in [kills : Nat, losses : Nat, danger : Nat, last : Nat]
    BY <1>2, SummaryTyped
  <2>4. BaseThreat(p).kills = SummaryOf(p).kills /\ BaseThreat(p).losses = SummaryOf(p).losses
    <3>1. ~Volume(NoEvidence)
      BY DEF Volume, NoEvidence
    <3>2. /\ Figures(SummaryOf(p), NoEvidence).kills = SummaryOf(p).kills
          /\ Figures(SummaryOf(p), NoEvidence).losses = SummaryOf(p).losses
      BY <2>3, <3>1, FiguresGiven, NoEvidenceTyped
    <3>3. QED
      BY <3>2 DEF BaseThreat, Threat
  <2>5. SummaryOf(p).kills + SummaryOf(p).losses > 0
    BY <2>2, <2>3, <2>4
  <2>6. QED
    BY <1>5, <1>6, <1>8, <2>2, <2>5
<1>9. QED
  BY <1>7, <1>8

LEMMA OldestIs ==
    ASSUME NEW S \in SUBSET Nat, S # {}
    PROVE  Oldest(S) \in S /\ \A t \in S : Oldest(S) =< t
<1>1. PICK n \in S : \A m \in S : ~ m < n
  BY Smallest
<1>2. \E t \in S : \A u \in S : t =< u
  BY <1>1
<1>3. QED
  BY <1>2 DEF Oldest

LEMMA SessionHolds == Trace => SessionIsAsOldAsItsPilots
<1>1. SUFFICES ASSUME Trace, stage = "done"
               PROVE  /\ \A p \in Pilots : session.asOf =< row[p].fresh.asOf
                      /\ session.asOf = Now \/ \E p \in Pilots : session.asOf = row[p].fresh.asOf
                      /\ ~session.stale => \A p \in Pilots : Age(row[p].fresh.asOf) =< Interval
  BY DEF SessionIsAsOldAsItsPilots
<1>2. SessionMade /\ stage \in Late
  BY <1>1 DEF Trace, Final, Late
<1> DEFINE S == {Now} \cup {row[p].fresh.asOf : p \in Pilots}
<1>3. session.asOf = Oldest(S) /\ (session.stale <=> \E p \in Pilots : row[p].fresh.stale)
  BY <1>2 DEF SessionMade
<1>4. \A p \in Pilots : row[p].fresh.asOf \in Days /\ row[p].fresh.stale = (Age(row[p].fresh.asOf) > Interval)
  BY <1>1, <1>2, RowFresh DEF Fresh
<1>5. S \in SUBSET Nat /\ S # {}
  BY <1>4, EnrichmentAssumption DEF Days
<1>6. Oldest(S) \in S /\ \A t \in S : Oldest(S) =< t
  <2> HIDE DEF S
  <2>1. QED
    BY <1>5, OldestIs
<1>7. ASSUME ~session.stale, NEW p \in Pilots
      PROVE  Age(row[p].fresh.asOf) =< Interval
  <2>1. ~(Age(row[p].fresh.asOf) > Interval)
    BY <1>3, <1>4, <1>7
  <2>2. Age(row[p].fresh.asOf) \in Int /\ Interval \in Int
    BY <1>4, EnrichmentAssumption DEF Age, Days
  <2>3. QED
    BY <2>1, <2>2
<1>8. QED
  BY <1>3, <1>6, <1>7

LEMMA RowsHold == Trace => RowsMatchFeeds
<1>1. SUFFICES ASSUME Trace, stage \in {"compose", "done"}, NEW p \in Pilots
               PROVE  LET timed == {m \in Mails(p) : HasTime(m)}
                      IN  /\ row[p].fresh = IF timed = {} THEN MergedFreshness(SummaryOf(p), NoEvidence)
                                            ELSE [source |-> "mixed", asOf |-> Latest(timed),
                                                  stale |-> Age(Latest(timed)) > Interval]
                          /\ IF Mails(p) = {} THEN row[p].threat = Threat(SummaryOf(p), NoEvidence, NoShip)
                             ELSE /\ row[p].threat.kills = Cardinality({i \in DOMAIN feed[p] : ~feed[p][i].loss})
                                  /\ row[p].threat.losses = Cardinality({i \in DOMAIN feed[p] : feed[p][i].loss})
                                  /\ row[p].threat.lastKill = Latest({m \in timed : ~m.loss})
                                  /\ row[p].threat.lastLoss = Latest({m \in timed : m.loss})
  BY DEF RowsMatchFeeds
<1> DEFINE timed == {m \in Mails(p) : HasTime(m)}
           s == SummaryOf(p)
           e == EvidenceOf(p)
<1>2. Inputs /\ MergedThreat(p) /\ MergedFresh(p)
  BY <1>1 DEF Trace, Late, Merged
<1>3. /\ e \in Evidences
      /\ Volume(e) <=> Mails(p) # {}
      /\ e.valid > 0 <=> timed # {}
      /\ ~Volume(e) => e.valid = 0 /\ e.lastKill = 0 /\ e.lastLoss = 0
      /\ e.lastKill = Latest({m \in timed : ~m.loss})
      /\ e.lastLoss = Latest({m \in timed : m.loss})
      /\ Later(e.lastKill, e.lastLoss) = Latest(timed)
      /\ timed # {} => Latest(timed) \in Days
      /\ Answered(p) => /\ e.kills = Cardinality({i \in DOMAIN feed[p] : ~feed[p][i].loss})
                        /\ e.losses = Cardinality({i \in DOMAIN feed[p] : feed[p][i].loss})
  BY <1>2, Digested DEF Digest
<1>4. s \in [kills : Nat, losses : Nat, danger : Nat, last : Nat] /\ e.valid \in Nat
  BY <1>2, <1>3, SummaryTyped DEF Evidences
<1>5. timed # {} => Mails(p) # {}
  OBVIOUS
<1>6. Mails(p) # {} => Answered(p)
  BY DEF Mails
<1>7. Mails(p) = {} => e = NoEvidence
  <2>1. CASE ~Answered(p)
    BY <2>1 DEF EvidenceOf
  <2>2. CASE Answered(p)
    <3>1. SUFFICES ASSUME Mails(p) = {}
                   PROVE  e = NoEvidence
      OBVIOUS
    <3>2. feed[p] \in Seq(Killmails)
      BY <1>2, <2>2, EnrichmentAssumption DEF Inputs, Answered
    <3>3. Len(feed[p]) \in Nat /\ DOMAIN feed[p] = 1..Len(feed[p])
      BY <3>2
    <3>4. Len(feed[p]) = 0
      <4>1. DOMAIN feed[p] = {}
        BY <2>2, <3>1 DEF Mails, Range
      <4>2. \A n \in Nat : 1..n = {} => n = 0
        OBVIOUS
      <4>3. QED
        BY <3>3, <4>1, <4>2
    <3>5. PICK r : Rounds(r, feed[p]) /\ Evidence(feed[p]) = r[Len(feed[p])]
      BY <3>2, EvidenceLoop
    <3>6. Evidence(feed[p]) = NoEvidence
      BY <3>4, <3>5 DEF Rounds
    <3>7. QED
      BY <2>2, <3>6 DEF EvidenceOf
  <2>3. QED
    BY <2>1, <2>2
<1>8. row[p].fresh = IF Volume(e) /\ e.valid = 0 THEN MergedFreshness(s, NoEvidence) ELSE MergedFreshness(s, e)
  BY <1>2 DEF MergedFresh, BaseFresh
<1>9. PICK ship \in MainShips(e) : row[p].threat = Threat(s, e, ship)
  BY <1>2 DEF MergedThreat
<1> HIDE DEF timed, s, e
<1>10. timed = {} => row[p].fresh = MergedFreshness(s, NoEvidence)
  <2>1. SUFFICES ASSUME timed = {}
                 PROVE  row[p].fresh = MergedFreshness(s, NoEvidence)
    OBVIOUS
  <2>2. e.valid = 0
    BY <1>3, <1>4, <2>1
  <2>3. CASE Volume(e)
    BY <1>8, <2>2, <2>3
  <2>4. CASE ~Volume(e)
    BY <1>3, <1>7, <1>8, <2>4
  <2>5. QED
    BY <2>3, <2>4
<1>11. timed # {} => row[p].fresh = [source |-> "mixed", asOf |-> Latest(timed), stale |-> Age(Latest(timed)) > Interval]
  <2>1. SUFFICES ASSUME timed # {}
                 PROVE  row[p].fresh = [source |-> "mixed", asOf |-> Latest(timed), stale |-> Age(Latest(timed)) > Interval]
    OBVIOUS
  <2>2. e.valid > 0 /\ Volume(e) /\ e.valid # 0
    BY <1>3, <1>4, <1>5, <2>1
  <2>3. LastActivity(s, e) = Latest(timed)
    BY <1>3, <2>2 DEF LastActivity
  <2>4. Latest(timed) # 0
    BY <1>3, <2>1 DEF Days
  <2>5. MergedFreshness(s, e) = Freshness("mixed", Latest(timed))
    BY <2>2, <2>3 DEF MergedFreshness
  <2>6. Freshness("mixed", Latest(timed)) = [source |-> "mixed", asOf |-> Latest(timed), stale |-> Age(Latest(timed)) > Interval]
    BY <2>4 DEF Freshness
  <2>7. QED
    BY <1>8, <2>2, <2>5, <2>6
<1>12. Mails(p) = {} => row[p].threat = Threat(s, NoEvidence, NoShip)
  <2>1. MainShips(NoEvidence) = {NoShip}
    BY DEF MainShips, NoEvidence
  <2>2. QED
    BY <1>7, <1>9, <2>1
<1>13. Mails(p) # {} => /\ row[p].threat.kills = e.kills /\ row[p].threat.losses = e.losses
                        /\ row[p].threat.lastKill = e.lastKill /\ row[p].threat.lastLoss = e.lastLoss
  <2>1. SUFFICES ASSUME Mails(p) # {}
                 PROVE  /\ row[p].threat.kills = e.kills /\ row[p].threat.losses = e.losses
                        /\ row[p].threat.lastKill = e.lastKill /\ row[p].threat.lastLoss = e.lastLoss
    OBVIOUS
  <2>2. Volume(e)
    BY <1>3, <2>1
  <2>3. Figures(s, e).kills = e.kills /\ Figures(s, e).losses = e.losses
    BY <2>2 DEF Figures
  <2>4. QED
    BY <1>9, <2>3 DEF Threat
<1>14. QED
  BY <1>3, <1>6, <1>10, <1>11, <1>12, <1>13 DEF timed, s

-----------------------------------------------------------------------------
\* What it says of scores, and of the screen.

\* A row, by the figures the engine is given.
LEMMA RowScored ==
    ASSUME Trace, stage \in Late, NEW p \in Pilots
    PROVE  \E e \in Evidences, ship \in MainShips(EvidenceOf(p)) :
              LET f == Figures(SummaryOf(p), e)
              IN  /\ e = EvidenceOf(p) /\ Given(f)
                  /\ row[p].threat = Threat(SummaryOf(p), e, ship)
                  /\ f.kills + f.losses = 0 => e.lastKill = 0 /\ e.lastLoss = 0
<1> DEFINE s == SummaryOf(p)
           e == EvidenceOf(p)
           f == Figures(s, e)
<1>1. Inputs /\ MergedThreat(p)
  BY DEF Trace, Merged
<1>2. /\ e \in Evidences
      /\ ~Volume(e) => e.valid = 0 /\ e.lastKill = 0 /\ e.lastLoss = 0
  BY <1>1, Digested DEF Digest
<1>3. s \in [kills : Nat, losses : Nat, danger : Nat, last : Nat]
  BY <1>1, SummaryTyped
<1>4. PICK ship \in MainShips(e) : row[p].threat = Threat(s, e, ship)
  BY <1>1 DEF MergedThreat
<1> HIDE DEF s, e
<1>5. Given(f) /\ (Volume(e) => f.kills = e.kills /\ f.losses = e.losses)
  BY <1>2, <1>3, FiguresGiven
<1> HIDE DEF f
<1>6. f.kills + f.losses = 0 => ~Volume(e)
  <2>1. SUFFICES ASSUME Volume(e), f.kills + f.losses = 0
                 PROVE  FALSE
    OBVIOUS
  <2>2. e.kills + e.losses = 0
    BY <1>5, <2>1
  <2>3. QED
    BY <2>1, <2>2 DEF Volume
<1>7. QED
  BY <1>2, <1>4, <1>5, <1>6 DEF s, e, f

PlaceOf(band) == CHOOSE i \in DOMAIN Bands : Bands[i] = band

LEMMA Places5 ==
    /\ PlaceOf("minimal") = 1 /\ PlaceOf("low") = 2 /\ PlaceOf("medium") = 3
    /\ PlaceOf("high") = 4 /\ PlaceOf("critical") = 5
<1>1. DOMAIN Bands = {1, 2, 3, 4, 5}
  BY DEF Bands
<1>2. /\ Bands[1] = "minimal" /\ Bands[2] = "low" /\ Bands[3] = "medium"
      /\ Bands[4] = "high" /\ Bands[5] = "critical"
  BY DEF Bands
<1>3. \A i, j \in DOMAIN Bands : Bands[i] = Bands[j] => i = j
  BY <1>1, <1>2
<1>4. \A i \in DOMAIN Bands : PlaceOf(Bands[i]) = i
  BY <1>3 DEF PlaceOf
<1>5. QED
  BY <1>1, <1>2, <1>4

\* BandForScore.
LEMMA BandsOrdered ==
    ASSUME NEW a \in Nat, NEW b \in Nat, a >= b
    PROVE  PlaceOf(BandForScore(a)) >= PlaceOf(BandForScore(b))
<1>1. \A x \in Nat : /\ x >= 8500 => BandForScore(x) = "critical"
                     /\ x < 8500 /\ x >= 6500 => BandForScore(x) = "high"
                     /\ x < 6500 /\ x >= 4500 => BandForScore(x) = "medium"
                     /\ x < 4500 /\ x >= 2500 => BandForScore(x) = "low"
                     /\ x < 2500 => BandForScore(x) = "minimal"
  BY DEF BandForScore, From
<1> DEFINE P(x) == PlaceOf(BandForScore(x))
<1>2. \A x \in Nat : /\ x >= 8500 => P(x) = 5
                     /\ x < 8500 /\ x >= 6500 => P(x) = 4
                     /\ x < 6500 /\ x >= 4500 => P(x) = 3
                     /\ x < 4500 /\ x >= 2500 => P(x) = 2
                     /\ x < 2500 => P(x) = 1
  BY <1>1, Places5
<1> HIDE DEF P
<1>3. P(a) >= P(b)
  BY <1>2
<1>4. QED
  BY <1>3 DEF P

LEMMA ScoresHold == Trace => ScoreOrdersEvidence
<1>1. SUFFICES ASSUME Trace, stage = "compose", NEW p \in Pilots, NEW q \in Pilots
               PROVE  LET a == row[p].threat
                          b == row[q].threat
                          dated == [r \in {p, q} |-> "recentness" \in row[r].threat.reasons]
                          Place(t) == CHOOSE i \in DOMAIN Bands : Bands[i] = t.band
                      IN  /\ a.kills >= b.kills /\ a.losses = b.losses /\ a.danger >= b.danger
                             /\ (dated[q] => dated[p]) => a.score >= b.score
                          /\ a.score >= b.score => Place(a) >= Place(b)
  BY DEF ScoreOrdersEvidence
<1> DEFINE a == row[p].threat
           b == row[q].threat
<1>2. stage \in Late
  BY <1>1 DEF Late
<1>3. PICK d \in Evidences, ship \in MainShips(EvidenceOf(p)) :
          Given(Figures(SummaryOf(p), d)) /\ a = Threat(SummaryOf(p), d, ship)
  BY <1>1, <1>2, RowScored
<1>4. PICK e \in Evidences, carrier \in MainShips(EvidenceOf(q)) :
          Given(Figures(SummaryOf(q), e)) /\ b = Threat(SummaryOf(q), e, carrier)
  BY <1>1, <1>2, RowScored
<1> DEFINE f == Figures(SummaryOf(p), d)
           g == Figures(SummaryOf(q), e)
<1>5. /\ a.kills = f.kills /\ a.losses = f.losses /\ a.danger = f.danger
      /\ a.score = Score(f) /\ a.band = BandForScore(Score(f)) /\ a.reasons = Reasons(f)
  BY <1>3 DEF Threat
<1>6. /\ b.kills = g.kills /\ b.losses = g.losses /\ b.danger = g.danger
      /\ b.score = Score(g) /\ b.band = BandForScore(Score(g)) /\ b.reasons = Reasons(g)
  BY <1>4 DEF Threat
<1>7. Given(f) /\ Given(g)
  BY <1>3, <1>4
<1> HIDE DEF a, b, f, g
<1>8. ASSUME a.kills >= b.kills, a.losses = b.losses, a.danger >= b.danger,
             "recentness" \in b.reasons => "recentness" \in a.reasons
      PROVE  a.score >= b.score
  <2>1. Dated(g) => Dated(f)
    BY <1>5, <1>6, <1>7, <1>8, Reasoned
  <2>2. f.kills >= g.kills /\ f.losses = g.losses /\ f.danger >= g.danger
    BY <1>5, <1>6, <1>8
  <2>3. Score(f) >= Score(g)
    BY <1>7, <2>1, <2>2, ScoresOrdered
  <2>4. QED
    BY <1>5, <1>6, <2>3
<1>9. ASSUME a.score >= b.score
      PROVE  PlaceOf(a.band) >= PlaceOf(b.band)
  <2>1. a.score \in Nat /\ b.score \in Nat
    BY <1>5, <1>6, <1>7, Scored
  <2> DEFINE x == a.score
             y == b.score
  <2>2. x \in Nat /\ y \in Nat /\ x >= y
    BY <1>9, <2>1
  <2> HIDE DEF x, y
  <2>3. PlaceOf(BandForScore(x)) >= PlaceOf(BandForScore(y))
    BY <2>2, BandsOrdered
  <2>4. a.band = BandForScore(x) /\ b.band = BandForScore(y)
    BY <1>5, <1>6 DEF x, y
  <2>5. QED
    BY <2>3, <2>4
<1>10. QED
  <2>1. [r \in {p, q} |-> "recentness" \in row[r].threat.reasons][p] = ("recentness" \in a.reasons)
        /\ [r \in {p, q} |-> "recentness" \in row[r].threat.reasons][q] = ("recentness" \in b.reasons)
    BY DEF a, b
  <2>2. QED
    BY <1>8, <1>9, <2>1 DEF a, b, PlaceOf

\* Rounding to whole points.
LEMMA PointsRight ==
    ASSUME NEW s \in Nat
    PROVE  /\ Rounded(s, 100) \in Nat
           /\ 100 * Rounded(s, 100) =< s + 50 /\ s < 100 * Rounded(s, 100) + 50
           /\ s < 2500 => Rounded(s, 100) < 40
BY DEF Rounded

LEMMA ShownHold == Trace => ShownAsScored
<1>1. SUFFICES ASSUME Trace, stage = "seen", NEW p \in Pilots
               PROVE  LET t == row[p].threat
                          v == view[p]
                          nothing == t.kills + t.losses + t.danger = 0 /\ t.ship = NoShip
                      IN  /\ v.kills \in {t.kills} \cup (IF nothing THEN {NoValue} ELSE {})
                          /\ v.losses \in {t.losses} \cup (IF nothing THEN {NoValue} ELSE {})
                          /\ v.danger = IF nothing \/ t.score = 0 THEN NoValue ELSE t.danger
                          /\ nothing /\ t.score > 0 => v.kills = NoValue /\ v.losses = NoValue
                          /\ {t.lastKill, t.lastLoss} \subseteq 0..v.lastSeen /\ v.lastSeen \in {t.lastKill, t.lastLoss}
                          /\ v.band = IF t.band = "minimal" THEN "low" ELSE t.band
                          /\ 100 * v.score =< t.score + 50 /\ t.score < 100 * v.score + 50
  BY DEF ShownAsScored
<1> DEFINE t == row[p].threat
           v == view[p]
           nothing == t.kills + t.losses + t.danger = 0 /\ t.ship = NoShip
           ws == {w \in warnings : w.pilot = p}
           hinted == p \in DOMAIN display.hints
<1>2. v = View(t, ws, hinted)
  BY <1>1 DEF Trace, Viewed
<1>3. stage \in Late
  BY <1>1 DEF Late
<1>4. PICK e \in Evidences, ship \in MainShips(EvidenceOf(p)) :
          /\ Given(Figures(SummaryOf(p), e)) /\ t = Threat(SummaryOf(p), e, ship)
          /\ Figures(SummaryOf(p), e).kills + Figures(SummaryOf(p), e).losses = 0 => e.lastKill = 0 /\ e.lastLoss = 0
  BY <1>1, <1>3, RowScored
<1> DEFINE f == Figures(SummaryOf(p), e)
<1>5. /\ t.kills = f.kills /\ t.losses = f.losses /\ t.danger = f.danger
      /\ t.score = Score(f) /\ t.band = BandForScore(Score(f)) /\ t.reasons = Reasons(f)
      /\ t.lastKill = e.lastKill /\ t.lastLoss = e.lastLoss
  BY <1>4 DEF Threat
<1>6. f.kills \in Nat /\ f.losses \in Nat /\ f.danger \in Nat /\ Given(f)
      /\ (f.kills + f.losses = 0 => e.lastKill = 0 /\ e.lastLoss = 0)
  BY <1>4 DEF Given
<1>7. t.lastKill \in Nat /\ t.lastLoss \in Nat
  BY <1>5 DEF Evidences
<1>8. /\ v.score = Points(t) /\ v.band = BandShown(t)
      /\ v.kills = Metric(t, t.kills) /\ v.losses = Metric(t, t.losses) /\ v.danger = DangerShown(t)
      /\ v.lastSeen = LastSeen(t)
  BY <1>2 DEF View
<1> HIDE DEF t, v, f, ws, hinted
<1>9. t.score \in Nat /\ (t.reasons = {} <=> t.score = 0)
  BY <1>5, <1>6, Scored, Reasoned
<1>10. t.kills \in Nat /\ t.losses \in Nat /\ t.danger \in Nat
  BY <1>5, <1>6
<1>11. nothing <=> t.kills = 0 /\ t.losses = 0 /\ t.danger = 0 /\ t.ship = NoShip
  <2>1. \A a, b, c \in Nat : a + b + c = 0 <=> a = 0 /\ b = 0 /\ c = 0
    OBVIOUS
  <2>2. t.kills + t.losses + t.danger = 0 <=> t.kills = 0 /\ t.losses = 0 /\ t.danger = 0
    BY <1>10, <2>1
  <2>3. QED
    BY <2>2
<1>12. t.kills = 0 /\ t.losses = 0 => t.lastKill = 0 /\ t.lastLoss = 0
  BY <1>5, <1>6
<1> HIDE DEF nothing
<1>13. Hidden(t) <=> nothing /\ t.score > 0
  BY <1>11, <1>12 DEF Hidden, Unsupported
<1>14. /\ v.kills = IF Hidden(t) THEN NoValue ELSE t.kills
       /\ v.losses = IF Hidden(t) THEN NoValue ELSE t.losses
  BY <1>8 DEF Metric
<1>15. v.kills \in {t.kills} \cup (IF nothing THEN {NoValue} ELSE {})
  BY <1>13, <1>14
<1>16. v.losses \in {t.losses} \cup (IF nothing THEN {NoValue} ELSE {})
  BY <1>13, <1>14
<1>17. nothing /\ t.score > 0 => v.kills = NoValue /\ v.losses = NoValue
  BY <1>13, <1>14
<1>18. t.score > 0 <=> t.score # 0
  BY <1>9
<1>19. v.danger = IF nothing \/ t.score = 0 THEN NoValue ELSE t.danger
  <2>1. CASE t.score = 0
    <3>1. t.reasons = {} /\ ~(t.score > 0)
      BY <1>9, <1>18, <2>1
    <3>2. ReasonsShown(t) = {}
      BY <3>1 DEF ReasonsShown
    <3>3. QED
      BY <1>8, <2>1, <3>2 DEF DangerShown
  <2>2. CASE t.score # 0
    <3>1. ReasonsShown(t) # {}
      BY <1>9, <2>2 DEF ReasonsShown
    <3>2. v.danger = IF Hidden(t) THEN NoValue ELSE t.danger
      BY <1>8, <3>1 DEF DangerShown, Metric
    <3>3. QED
      BY <1>13, <1>18, <2>2, <3>2
  <2>3. QED
    BY <2>1, <2>2
<1>20. v.lastSeen \in {t.lastKill, t.lastLoss} /\ {t.lastKill, t.lastLoss} \subseteq 0..v.lastSeen
  <2> DEFINE x == t.lastKill
             y == t.lastLoss
  <2>1. v.lastSeen = IF x > y THEN x ELSE y
    BY <1>8 DEF LastSeen
  <2>2. x \in Nat /\ y \in Nat
    BY <1>7
  <2> HIDE DEF x, y
  <2>3. v.lastSeen \in {x, y} /\ {x, y} \subseteq 0..v.lastSeen
    BY <2>1, <2>2
  <2>4. QED
    BY <2>3 DEF x, y
<1> DEFINE s == t.score
           r == Rounded(s, 100)
<1>21. v.score = r
  BY <1>8 DEF Points
<1>22. s \in Nat
  BY <1>9
<1>23. r \in Nat /\ 100 * r =< s + 50 /\ s < 100 * r + 50 /\ (s < 2500 => r < 40)
  <2> HIDE DEF s
  <2>1. QED
    BY <1>22, PointsRight
<1>24. v.band = IF t.band = "minimal" THEN "low" ELSE t.band
  <2>1. t.band = BandForScore(s)
    BY <1>5
  <2> HIDE DEF s, r
  <2>2. t.band \in {"critical", "high", "medium", "low", "minimal"} /\ (t.band = "minimal" => s < 2500)
    BY <1>22, <2>1 DEF BandForScore, From
  <2>3. CASE t.band = "minimal"
    <3>1. r < 40 /\ ~(r >= 90) /\ ~(r >= 70) /\ ~(r >= 40)
      BY <1>23, <2>2, <2>3
    <3>2. Points(t) = r
      BY <1>8, <1>21
    <3>3. BandShown(t) = "low"
      BY <2>3, <3>1, <3>2 DEF BandShown
    <3>4. QED
      BY <1>8, <2>3, <3>3
  <2>4. CASE t.band # "minimal"
    <3>1. BandShown(t) = t.band
      BY <2>2, <2>4 DEF BandShown
    <3>2. QED
      BY <1>8, <2>4, <3>1
  <2>5. QED
    BY <2>3, <2>4
<1>25. 100 * v.score =< t.score + 50 /\ t.score < 100 * v.score + 50
  <2> HIDE DEF r
  <2>1. QED
    BY <1>21, <1>23
<1> HIDE DEF s, r
<1>26. QED
  BY <1>15, <1>16, <1>17, <1>19, <1>20, <1>24, <1>25 DEF t, v, nothing

-----------------------------------------------------------------------------
\* What it says of warnings: how many there are, on whom, and what they count.

TimeInvalid == "DETAIL_TIME_INVALID"
TimeMissing == "DETAIL_TIME_MISSING"

\* What the evidence says of a pilot is what the warnings are about.
LEMMA Marked ==
    ASSUME Inputs, NEW p \in Pilots
    PROVE  /\ EvidenceOf(p).bad > 0 <=> p \in Warned
           /\ Volume(EvidenceOf(p)) /\ EvidenceOf(p).valid = 0 <=> p \in Timeless
           /\ EvidenceOf(p).bad \in Nat /\ EvidenceOf(p).missing \in Nat
           /\ EvidenceOf(p).missing =< EvidenceOf(p).bad
           /\ p \in Warned => EvidenceOf(p).bad = Cardinality({i \in DOMAIN feed[p] : ~HasTime(feed[p][i])})
<1> DEFINE e == EvidenceOf(p)
           timed == {m \in Mails(p) : HasTime(m)}
<1>1. /\ e \in Evidences
      /\ Volume(e) <=> Mails(p) # {}
      /\ e.valid > 0 <=> timed # {}
      /\ e.bad > 0 <=> \E m \in Mails(p) : ~HasTime(m)
      /\ e.missing =< e.bad
      /\ Answered(p) => e.bad = Cardinality({i \in DOMAIN feed[p] : ~HasTime(feed[p][i])})
  BY Digested DEF Digest
<1>2. e.bad \in Nat /\ e.missing \in Nat /\ e.valid \in Nat
  BY <1>1 DEF Evidences
<1> HIDE DEF e
<1>3. p \in Warned <=> \E m \in Mails(p) : ~HasTime(m)
  BY DEF Warned, Unusable
<1>4. p \in Timeless <=> Mails(p) # {} /\ timed = {}
  BY DEF Timeless, Warned, Unusable
<1> HIDE DEF timed
<1>5. e.valid = 0 <=> timed = {}
  BY <1>1, <1>2
<1>6. p \in Warned => Answered(p)
  BY <1>3 DEF Mails
<1>7. QED
  BY <1>1, <1>2, <1>3, <1>4, <1>5, <1>6 DEF e

LEMMA NoticedIs ==
    ASSUME Inputs, NEW w
    PROVE  w \in Noticed <=> \/ \E p \in Unknown : w = Lost(p, "SUMMARY_FAILED")
                             \/ \E p \in LostOnes : w = Lost(p, "DETAIL_FAILED")
                             \/ \E p \in Warned : w = Bad(p, EvidenceOf(p))
                             \/ \E p \in Timeless : w = NoTime(p, EvidenceOf(p))
<1>1. w \in Raised <=> \E p \in Unknown : w = Lost(p, "SUMMARY_FAILED")
  BY DEF Raised, Unknown
<1>2. LostOnes \subseteq Pilots /\ Warned \subseteq Pilots /\ Timeless \subseteq Pilots
  BY DEF LostOnes, Warned, Timeless, Targets
<1>3. ASSUME NEW p \in Pilots
      PROVE  w \in WarningsOn(p) <=> \/ p \in LostOnes /\ w = Lost(p, "DETAIL_FAILED")
                                     \/ p \in Warned /\ w = Bad(p, EvidenceOf(p))
                                     \/ p \in Timeless /\ w = NoTime(p, EvidenceOf(p))
  <2> DEFINE e == EvidenceOf(p)
  <2>1. (e.bad > 0 <=> p \in Warned) /\ (Volume(e) /\ e.valid = 0 <=> p \in Timeless)
    BY Marked
  <2>2. p \in LostOnes <=> p \in Targets /\ feed[p] = Failed
    BY DEF LostOnes
  <2>3. /\ Lost(p, "DETAIL_FAILED").code = "DETAIL_FAILED"
        /\ Bad(p, e).code = "DETAIL_TIME_INVALID" /\ NoTime(p, e).code = "DETAIL_TIME_MISSING"
    BY DEF Lost, Bad, NoTime
  <2>4. w \in WarningsOn(p) <=> /\ w \in {Bad(p, e), NoTime(p, e), Lost(p, "DETAIL_FAILED")}
                                /\ \/ w.code = "DETAIL_FAILED" /\ p \in Targets /\ feed[p] = Failed
                                   \/ w.code = "DETAIL_TIME_INVALID" /\ e.bad > 0
                                   \/ w.code = "DETAIL_TIME_MISSING" /\ Volume(e) /\ e.valid = 0
    BY DEF WarningsOn
  <2> HIDE DEF e
  <2>5. QED
    BY <2>1, <2>2, <2>3, <2>4 DEF e
<1>4. w \in Noticed <=> w \in Raised \/ \E p \in Pilots : w \in WarningsOn(p)
  BY DEF Noticed
<1>5. (\E p \in Pilots : w \in WarningsOn(p)) <=> \/ \E p \in LostOnes : w = Lost(p, "DETAIL_FAILED")
                                                  \/ \E p \in Warned : w = Bad(p, EvidenceOf(p))
                                                  \/ \E p \in Timeless : w = NoTime(p, EvidenceOf(p))
  BY <1>2, <1>3
<1>6. QED
  BY <1>1, <1>4, <1>5

\* The warning that is left of those on the timestamps of a pilot.
OneOf(p) == Aggregate(On(Noticed, p, TimeInvalid), On(Noticed, p, TimeMissing), p)

LEMMA Gathered ==
    ASSUME Inputs, NEW p \in Pilots
    PROVE  /\ On(Noticed, p, TimeInvalid) = IF p \in Warned THEN {Bad(p, EvidenceOf(p))} ELSE {}
           /\ On(Noticed, p, TimeMissing) = IF p \in Timeless THEN {NoTime(p, EvidenceOf(p))} ELSE {}
<1>1. \A q, code : Lost(q, code).code = code
  BY DEF Lost
<1>2. \A q, e : /\ Bad(q, e).pilot = q /\ Bad(q, e).code = "DETAIL_TIME_INVALID"
                /\ NoTime(q, e).pilot = q /\ NoTime(q, e).code = "DETAIL_TIME_MISSING"
  BY DEF Bad, NoTime
<1>3. \A w : w \in On(Noticed, p, TimeInvalid) <=> p \in Warned /\ w = Bad(p, EvidenceOf(p))
  <2>1. ASSUME NEW w
        PROVE  w \in On(Noticed, p, TimeInvalid) <=> p \in Warned /\ w = Bad(p, EvidenceOf(p))
    <3>1. w \in On(Noticed, p, TimeInvalid) <=> w \in Noticed /\ w.pilot = p /\ w.code = "DETAIL_TIME_INVALID"
      BY DEF On, TimeInvalid
    <3>2. QED
      BY <3>1, <1>1, <1>2, NoticedIs
  <2>2. QED
    BY <2>1
<1>4. \A w : w \in On(Noticed, p, TimeMissing) <=> p \in Timeless /\ w = NoTime(p, EvidenceOf(p))
  <2>1. ASSUME NEW w
        PROVE  w \in On(Noticed, p, TimeMissing) <=> p \in Timeless /\ w = NoTime(p, EvidenceOf(p))
    <3>1. w \in On(Noticed, p, TimeMissing) <=> w \in Noticed /\ w.pilot = p /\ w.code = "DETAIL_TIME_MISSING"
      BY DEF On, TimeMissing
    <3>2. QED
      BY <3>1, <1>1, <1>2, NoticedIs
  <2>2. QED
    BY <2>1
<1>5. QED
  BY <1>3, <1>4

\* It counts what is unusable once, and says whether that is all there is.
LEMMA OneRight ==
    ASSUME Inputs, NEW p \in Warned
    PROVE  /\ OneOf(p).pilot = p
           /\ OneOf(p).code = IF p \in Timeless THEN "DETAIL_TIME_MISSING" ELSE "DETAIL_TIME_INVALID"
           /\ OneOf(p).failures \in Nat /\ OneOf(p).missing \in Nat /\ OneOf(p).unparseable \in Nat
           /\ OneOf(p).missing + OneOf(p).unparseable = EvidenceOf(p).bad
<1> DEFINE e == EvidenceOf(p)
           b == On(Noticed, p, TimeInvalid)
           n == On(Noticed, p, TimeMissing)
           First(on) == IF on = {} THEN Lost(p, "") ELSE CHOOSE w \in on : TRUE
<1>1. p \in Pilots
  BY DEF Warned
<1>2. b = {Bad(p, e)} /\ n = (IF p \in Timeless THEN {NoTime(p, e)} ELSE {})
  BY <1>1, Gathered
<1>3. /\ OneOf(p).pilot = p
      /\ OneOf(p).code = IF n # {} THEN "DETAIL_TIME_MISSING" ELSE "DETAIL_TIME_INVALID"
      /\ OneOf(p).failures = First(b).failures + First(n).failures
      /\ OneOf(p).missing = First(b).missing + First(n).missing
      /\ OneOf(p).unparseable = First(b).unparseable + First(n).unparseable
  BY DEF OneOf, Aggregate
<1>4. e.bad \in Nat /\ e.missing \in Nat /\ e.missing =< e.bad
  BY <1>1, Marked
<1>5. /\ Bad(p, e).failures = e.bad /\ Bad(p, e).missing = e.missing /\ Bad(p, e).unparseable = e.bad - e.missing
      /\ NoTime(p, e).failures = e.bad /\ NoTime(p, e).missing = 0 /\ NoTime(p, e).unparseable = 0
      /\ Lost(p, "").failures = 0 /\ Lost(p, "").missing = 0 /\ Lost(p, "").unparseable = 0
  BY DEF Bad, NoTime, Lost
<1>6. First(b) = Bad(p, e)
  BY <1>2
<1>7. First(n) = IF p \in Timeless THEN NoTime(p, e) ELSE Lost(p, "")
  BY <1>2
<1> HIDE DEF e, b, n, First
<1>8. n # {} <=> p \in Timeless
  BY <1>2
<1>9. First(n).failures \in {0, e.bad} /\ First(n).missing = 0 /\ First(n).unparseable = 0
  BY <1>5, <1>7
<1>10. OneOf(p).failures \in Nat
  <2>1. OneOf(p).failures = e.bad + First(n).failures
    BY <1>3, <1>5, <1>6
  <2>2. QED
    BY <1>4, <1>9, <2>1
<1>11. OneOf(p).missing = e.missing /\ OneOf(p).unparseable = e.bad - e.missing
  <2>1. OneOf(p).missing = e.missing + 0 /\ OneOf(p).unparseable = (e.bad - e.missing) + 0
    BY <1>3, <1>5, <1>6, <1>9
  <2>2. QED
    BY <1>4, <2>1
<1>12. QED
  BY <1>3, <1>4, <1>8, <1>10, <1>11 DEF e

LEMMA HintedIs == ASSUME Inputs PROVE Hinted(Noticed) = Warned
<1>1. \A q, code : Lost(q, code).code = code
  BY DEF Lost
<1>2. \A q, e : /\ Bad(q, e).pilot = q /\ Bad(q, e).code = "DETAIL_TIME_INVALID"
                /\ NoTime(q, e).pilot = q /\ NoTime(q, e).code = "DETAIL_TIME_MISSING"
  BY DEF Bad, NoTime
<1>3. Timeless \subseteq Warned
  BY DEF Timeless
<1>4. ASSUME NEW p
      PROVE  p \in Hinted(Noticed) <=> p \in Warned
  <2>1. p \in Hinted(Noticed) <=> \E w \in Noticed : Timing(w) /\ w.pilot = p
    BY DEF Hinted
  <2>2. ASSUME NEW w \in Noticed, Timing(w)
        PROVE  w.pilot \in Warned
    BY <2>2, <1>1, <1>2, <1>3, NoticedIs DEF Timing
  <2>3. ASSUME p \in Warned
        PROVE  \E w \in Noticed : Timing(w) /\ w.pilot = p
    <3>1. Bad(p, EvidenceOf(p)) \in Noticed
      BY <2>3, NoticedIs
    <3>2. Timing(Bad(p, EvidenceOf(p)))
      BY <1>2 DEF Timing
    <3>3. QED
      BY <3>1, <3>2, <1>2
  <2>4. QED
    BY <2>1, <2>2, <2>3
<1>5. QED
  BY <1>4

\* The warnings of the session.
Lasting(ws) ==
    \A w : w \in ws <=> \/ \E p \in Unknown : w = Lost(p, "SUMMARY_FAILED")
                        \/ \E p \in LostOnes : w = Lost(p, "DETAIL_FAILED")
                        \/ \E p \in Warned : w = OneOf(p)

LEMMA AggregatedIs == ASSUME Inputs PROVE Lasting(Aggregated(Noticed))
<1>1. \A q, code : Lost(q, code).code = code
  BY DEF Lost
<1>2. \A q, e : Timing(Bad(q, e)) /\ Timing(NoTime(q, e))
  BY DEF Bad, NoTime, Timing
<1>3. \A q : ~Timing(Lost(q, "SUMMARY_FAILED")) /\ ~Timing(Lost(q, "DETAIL_FAILED"))
  BY <1>1 DEF Timing
<1>4. ASSUME NEW w
      PROVE  w \in Aggregated(Noticed) <=> \/ w \in Noticed /\ ~Timing(w)
                                           \/ \E p \in Warned : w = OneOf(p)
  BY HintedIs DEF Aggregated, OneOf, TimeInvalid, TimeMissing
<1>5. ASSUME NEW w
      PROVE  w \in Noticed /\ ~Timing(w) <=> \/ \E p \in Unknown : w = Lost(p, "SUMMARY_FAILED")
                                             \/ \E p \in LostOnes : w = Lost(p, "DETAIL_FAILED")
  BY <1>2, <1>3, NoticedIs
<1>6. QED
  BY <1>4, <1>5 DEF Lasting

LEMMA CodesOf ==
    ASSUME Inputs
    PROVE  /\ \A p, code : Lost(p, code).pilot = p /\ Lost(p, code).code = code
           /\ \A p \in Warned : /\ OneOf(p).pilot = p /\ Timing(OneOf(p))
                                /\ OneOf(p).code = IF p \in Timeless THEN "DETAIL_TIME_MISSING" ELSE "DETAIL_TIME_INVALID"
           /\ \A p : ~Timing(Lost(p, "SUMMARY_FAILED")) /\ ~Timing(Lost(p, "DETAIL_FAILED"))
<1>1. \A p, code : Lost(p, code).pilot = p /\ Lost(p, code).code = code
  BY DEF Lost
<1>2. \A p \in Warned : /\ OneOf(p).pilot = p
                        /\ OneOf(p).code = IF p \in Timeless THEN "DETAIL_TIME_MISSING" ELSE "DETAIL_TIME_INVALID"
  BY OneRight
<1>3. QED
  BY <1>1, <1>2 DEF Timing

LEMMA ReportedHolds == ASSUME Inputs, Lasting(warnings) PROVE ReportedOnce
<1>1. /\ \A p, code : Lost(p, code).pilot = p /\ Lost(p, code).code = code
      /\ \A p \in Warned : /\ OneOf(p).pilot = p /\ Timing(OneOf(p))
                           /\ OneOf(p).code = IF p \in Timeless THEN "DETAIL_TIME_MISSING" ELSE "DETAIL_TIME_INVALID"
      /\ \A p : ~Timing(Lost(p, "SUMMARY_FAILED")) /\ ~Timing(Lost(p, "DETAIL_FAILED"))
  BY CodesOf
<1>2. \A w : w \in warnings <=> \/ \E p \in Unknown : w = Lost(p, "SUMMARY_FAILED")
                                \/ \E p \in LostOnes : w = Lost(p, "DETAIL_FAILED")
                                \/ \E p \in Warned : w = OneOf(p)
  BY DEF Lasting
<1>3. Timeless \subseteq Warned
  BY DEF Timeless
<1>4. \A code, p : p \in About(code) <=> \E w \in warnings : w.code = code /\ w.pilot = p
  BY DEF About
<1>5. About("SUMMARY_FAILED") = Unknown
  <2>1. ASSUME NEW p
        PROVE  p \in About("SUMMARY_FAILED") <=> p \in Unknown
    BY <1>1, <1>2, <1>4
  <2>2. QED
    BY <2>1
<1>6. About("DETAIL_FAILED") = LostOnes
  <2>1. ASSUME NEW p
        PROVE  p \in About("DETAIL_FAILED") <=> p \in LostOnes
    BY <1>1, <1>2, <1>4
  <2>2. QED
    BY <2>1
<1>7. About("DETAIL_TIME_MISSING") = Timeless
  <2>1. ASSUME NEW p
        PROVE  p \in About("DETAIL_TIME_MISSING") <=> p \in Timeless
    BY <1>1, <1>2, <1>3, <1>4
  <2>2. QED
    BY <2>1
<1>8. About("DETAIL_TIME_INVALID") = Warned \ Timeless
  <2>1. ASSUME NEW p
        PROVE  p \in About("DETAIL_TIME_INVALID") <=> p \in Warned \ Timeless
    BY <1>1, <1>2, <1>4
  <2>2. QED
    BY <2>1
<1>9. ASSUME NEW w \in warnings, Timing(w)
      PROVE  w.missing + w.unparseable = Cardinality({i \in DOMAIN feed[w.pilot] : ~HasTime(feed[w.pilot][i])})
  <2>1. PICK p \in Warned : w = OneOf(p)
    BY <1>1, <1>2, <1>9
  <2>2. p \in Pilots
    BY DEF Warned
  <2>3. w.pilot = p /\ w.missing + w.unparseable = EvidenceOf(p).bad
    BY <2>1, OneRight
  <2>4. EvidenceOf(p).bad = Cardinality({i \in DOMAIN feed[p] : ~HasTime(feed[p][i])})
    BY <2>2, Marked
  <2>5. QED
    BY <2>3, <2>4
<1>10. QED
  BY <1>5, <1>6, <1>7, <1>8, <1>9 DEF ReportedOnce

\* As many warnings as pilots.
LEMMA AsMany ==
    ASSUME Inputs, NEW S \in SUBSET Warned
    PROVE  Cardinality({OneOf(p) : p \in S}) = Cardinality(S)
<1> DEFINE T == {OneOf(p) : p \in S}
           f == [p \in S |-> OneOf(p)]
<1>1. \A p \in S : OneOf(p).pilot = p
  BY CodesOf
<1>2. IsFiniteSet(S)
  <2>1. S \in SUBSET Pilots
    BY DEF Warned
  <2>2. QED
    BY <2>1, FS_Subset, EnrichmentAssumption
<1>3. f \in [S -> T] /\ (\A x, y \in S : f[x] = f[y] => x = y) /\ (\A t \in T : \E x \in S : f[x] = t)
  BY <1>1
<1>4. f \in Bijection(S, T)
  <2> HIDE DEF f, T
  <2>1. QED
    BY <1>3 DEF Bijection, Injection, Surjection, IsInjective
<1>5. ExistsBijection(S, T)
  BY <1>4 DEF ExistsBijection
<1>6. QED
  BY <1>2, <1>5, FS_Bijection

LEMMA CountedHolds ==
    ASSUME Inputs, Lasting(warnings), display = Displayed(warnings)
    PROVE  CountedOnce
<1>1. /\ \A p, code : Lost(p, code).pilot = p /\ Lost(p, code).code = code
      /\ \A p \in Warned : /\ OneOf(p).pilot = p /\ Timing(OneOf(p))
                           /\ OneOf(p).code = IF p \in Timeless THEN "DETAIL_TIME_MISSING" ELSE "DETAIL_TIME_INVALID"
      /\ \A p : ~Timing(Lost(p, "SUMMARY_FAILED")) /\ ~Timing(Lost(p, "DETAIL_FAILED"))
  BY CodesOf
<1>2. \A w : w \in warnings <=> \/ \E p \in Unknown : w = Lost(p, "SUMMARY_FAILED")
                                \/ \E p \in LostOnes : w = Lost(p, "DETAIL_FAILED")
                                \/ \E p \in Warned : w = OneOf(p)
  BY DEF Lasting
<1>3. \A w : w \in warnings /\ Timing(w) <=> \E p \in Warned : w = OneOf(p)
  BY <1>1, <1>2
<1>4. Hinted(warnings) = Warned
  <2>1. ASSUME NEW p
        PROVE  p \in Hinted(warnings) <=> p \in Warned
    <3>1. p \in Hinted(warnings) <=> \E w \in warnings : Timing(w) /\ w.pilot = p
      BY DEF Hinted
    <3>2. QED
      BY <3>1, <1>1, <1>3
  <2>2. QED
    BY <2>1
<1> DEFINE about(p) == {w \in warnings : Timing(w) /\ w.pilot = p}
<1>5. ASSUME NEW p \in Warned
      PROVE  about(p) = {OneOf(p)}
  <2>1. \A w : w \in about(p) <=> w = OneOf(p)
    BY <1>1, <1>3
  <2>2. QED
    BY <2>1
<1>6. /\ display.hints = [p \in Warned |-> Cardinality(about(p))]
      /\ display.byPilot = [p \in Warned |-> Items(about(p))]
      /\ display.global = Items(warnings)
  BY <1>4 DEF Displayed
<1>7. \A w : Cardinality({w}) = 1
  BY FS_Singleton
<1>8. \A w : \E item : Items({w}) = {item}
  <2>1. SUFFICES ASSUME NEW w
                 PROVE  \E item : Items({w}) = {item}
    OBVIOUS
  <2> DEFINE ItemOf(k) == [code |-> k.code, count |-> Cardinality({v \in {w} : Key(v) = k}),
                           recency |-> k.code = "DETAIL_TIME_MISSING", timestamps |-> Timing(k)]
  <2>2. Items({w}) = {ItemOf(k) : k \in {Key(v) : v \in {w}}}
    BY DEF Items
  <2> HIDE DEF ItemOf
  <2>3. Items({w}) = {ItemOf(Key(w))}
    BY <2>2
  <2>4. QED
    BY <2>3
<1>9. /\ DOMAIN display.hints = Warned /\ DOMAIN display.byPilot = Warned
      /\ \A p \in Warned : display.hints[p] = 1 /\ Cardinality(display.byPilot[p]) = 1
  <2> HIDE DEF about
  <2>1. DOMAIN display.hints = Warned /\ DOMAIN display.byPilot = Warned
    BY <1>6
  <2>2. ASSUME NEW p \in Warned
        PROVE  display.hints[p] = 1 /\ Cardinality(display.byPilot[p]) = 1
    <3>1. display.hints[p] = Cardinality({OneOf(p)}) /\ display.byPilot[p] = Items({OneOf(p)})
      BY <1>5, <1>6
    <3>2. QED
      BY <1>7, <1>8, <3>1
  <2>3. QED
    BY <2>1, <2>2
<1> HIDE DEF about
<1>10. ASSUME NEW item \in display.global
       PROVE  item.count = IF item.recency THEN Cardinality(Timeless)
                           ELSE IF item.timestamps THEN Cardinality(Warned \ Timeless) ELSE 1
  <2> DEFINE alike(k) == {v \in warnings : Key(v) = k}
  <2>1. \E w \in warnings : item = [code |-> Key(w).code, count |-> Cardinality(alike(Key(w))),
                                    recency |-> Key(w).code = "DETAIL_TIME_MISSING", timestamps |-> Timing(Key(w))]
    <3> DEFINE ItemOf(k) == [code |-> k.code, count |-> Cardinality(alike(k)),
                             recency |-> k.code = "DETAIL_TIME_MISSING", timestamps |-> Timing(k)]
    <3>1. display.global = {ItemOf(k) : k \in {Key(w) : w \in warnings}}
      BY <1>6 DEF Items
    <3>2. \E w \in warnings : item = ItemOf(Key(w))
      <4> HIDE DEF ItemOf
      <4>1. QED
        BY <3>1
    <3>3. QED
      BY <3>2
  <2>2. PICK w \in warnings : item = [code |-> Key(w).code, count |-> Cardinality(alike(Key(w))),
                                      recency |-> Key(w).code = "DETAIL_TIME_MISSING", timestamps |-> Timing(Key(w))]
    BY <2>1
  <2>3. \A v : Key(v).code = v.code /\ Key(v).about = IF Timing(v) THEN 0 ELSE v.pilot
    BY DEF Key
  <2>4. \A v, u : Key(v) = Key(u) <=> Key(v).code = Key(u).code /\ Key(v).about = Key(u).about
    BY DEF Key
  <2>5. \A v, u : v.code = u.code => Timing(v) = Timing(u)
    BY DEF Timing
  <2>6. Timing(Key(w)) = Timing(w)
    BY <2>3, <2>5
  <2>7. /\ item.count = Cardinality(alike(Key(w))) /\ (item.recency <=> w.code = "DETAIL_TIME_MISSING")
        /\ (item.timestamps <=> Timing(w))
    BY <2>2, <2>3, <2>6
  <2>8. \A v \in warnings : v \in alike(Key(w)) <=> v.code = w.code /\ (Timing(w) \/ v.pilot = w.pilot)
    BY <2>3, <2>4, <2>5
  <2> HIDE DEF alike
  <2>9. alike(Key(w)) \subseteq warnings
    BY DEF alike
  <2>10. CASE ~Timing(w)
    <3>1. ASSUME NEW v \in alike(Key(w))
          PROVE  v = w
      <4>1. v \in warnings /\ v.code = w.code /\ v.pilot = w.pilot
        BY <2>8, <2>9, <2>10
      <4>2. ~Timing(v)
        BY <2>5, <2>10, <4>1
      <4>3. QED
        BY <1>1, <1>2, <2>10, <4>1, <4>2
    <3>2. w \in alike(Key(w))
      BY <2>8
    <3>3. alike(Key(w)) = {w}
      BY <3>1, <3>2
    <3>4. w.code # "DETAIL_TIME_MISSING"
      BY <2>10 DEF Timing
    <3>5. QED
      BY <1>7, <2>7, <2>10, <3>3, <3>4
  <2>11. CASE Timing(w)
    <3>1. PICK p \in Warned : w = OneOf(p)
      BY <1>3, <2>11
    <3>2. \A v : v \in alike(Key(w)) <=> \E q \in Warned : v = OneOf(q) /\ (q \in Timeless <=> p \in Timeless)
      <4>1. ASSUME NEW v \in alike(Key(w))
            PROVE  \E q \in Warned : v = OneOf(q) /\ (q \in Timeless <=> p \in Timeless)
        <5>1. v \in warnings /\ v.code = w.code /\ Timing(v)
          BY <2>5, <2>8, <2>9, <2>11
        <5>2. QED
          BY <1>1, <1>3, <3>1, <5>1
      <4>2. ASSUME NEW q \in Warned, q \in Timeless <=> p \in Timeless
            PROVE  OneOf(q) \in alike(Key(w))
        <5>1. OneOf(q) \in warnings /\ OneOf(q).code = OneOf(p).code
          BY <1>1, <1>3, <4>2
        <5>2. QED
          BY <2>8, <2>11, <3>1, <5>1
      <4>3. QED
        BY <4>1, <4>2
    <3>3. Timeless \in SUBSET Warned
      BY DEF Timeless
    <3>4. CASE p \in Timeless
      <4>1. alike(Key(w)) = {OneOf(q) : q \in Timeless}
        BY <3>2, <3>3, <3>4
      <4>2. w.code = "DETAIL_TIME_MISSING"
        BY <1>1, <3>1, <3>4
      <4>3. QED
        BY <2>7, <3>3, <4>1, <4>2, AsMany
    <3>5. CASE p \notin Timeless
      <4>1. alike(Key(w)) = {OneOf(q) : q \in Warned \ Timeless}
        BY <3>2, <3>3, <3>5
      <4>2. w.code # "DETAIL_TIME_MISSING"
        BY <1>1, <3>1, <3>5
      <4>3. Cardinality({OneOf(q) : q \in Warned \ Timeless}) = Cardinality(Warned \ Timeless)
        BY AsMany
      <4>4. QED
        BY <2>7, <2>11, <4>1, <4>2, <4>3
    <3>6. QED
      BY <3>4, <3>5
  <2>12. QED
    BY <2>10, <2>11
<1>11. QED
  BY <1>9, <1>10 DEF CountedOnce

\* What the screen makes of each code.
LEMMA Presents ==
    /\ Presentation["DETAIL_TIME_INVALID"] = [label |-> "Partial timestamps", tier |-> "detail_panel"]
    /\ Presentation["DETAIL_TIME_MISSING"] = [label |-> "Recent activity incomplete", tier |-> "detail_panel"]
    /\ Presentation["SUMMARY_FAILED"] = [label |-> "Summary unavailable", tier |-> "status_strip"]
    /\ Presentation["DETAIL_FAILED"] = [label |-> "Recent activity incomplete", tier |-> "status_strip"]
BY DEF Presentation

LEMMA SeenHolds ==
    ASSUME Inputs, Lasting(warnings), display = Displayed(warnings), Viewed, NEW p \in Pilots
    PROVE  SeenAsReported(p)
<1> DEFINE ws == {w \in warnings : w.pilot = p}
           presented == Presented(ws, p \in Warned)
<1>1. /\ \A q, code : Lost(q, code).pilot = q /\ Lost(q, code).code = code
      /\ \A q \in Warned : /\ OneOf(q).pilot = q /\ Timing(OneOf(q))
                           /\ OneOf(q).code = IF q \in Timeless THEN "DETAIL_TIME_MISSING" ELSE "DETAIL_TIME_INVALID"
  BY CodesOf
<1>2. \A w : w \in warnings <=> \/ \E q \in Unknown : w = Lost(q, "SUMMARY_FAILED")
                                \/ \E q \in LostOnes : w = Lost(q, "DETAIL_FAILED")
                                \/ \E q \in Warned : w = OneOf(q)
  BY DEF Lasting
<1>3. DOMAIN display.hints = Warned
  <2>1. CountedOnce
    BY CountedHolds
  <2>2. QED
    BY <2>1 DEF CountedOnce
<1>4. view[p] = View(row[p].threat, ws, p \in Warned)
  BY <1>3 DEF Viewed
<1>5. /\ view[p].badge = Badge(presented) /\ view[p].pane = Labels(presented, "detail_panel")
      /\ view[p].lastSeenState = LastSeenState(row[p].threat, presented)
  BY <1>4 DEF View
<1>6. \A w : w \in ws <=> \/ p \in Unknown /\ w = Lost(p, "SUMMARY_FAILED")
                          \/ p \in LostOnes /\ w = Lost(p, "DETAIL_FAILED")
                          \/ p \in Warned /\ w = OneOf(p)
  <2>1. \A w : w \in ws <=> w \in warnings /\ w.pilot = p
    OBVIOUS
  <2> HIDE DEF ws
  <2>2. QED
    BY <1>1, <1>2, <2>1
<1> HIDE DEF ws
<1>7. \A v : v \in presented <=> \/ \E w \in ws : v = Presentation[w.code]
                                 \/ p \in Warned /\ v = Hint
  BY DEF Presented
<1> HIDE DEF presented
<1>8. \A v : v \in presented <=>
         \/ p \in Unknown /\ v = [label |-> "Summary unavailable", tier |-> "status_strip"]
         \/ p \in LostOnes /\ v = [label |-> "Recent activity incomplete", tier |-> "status_strip"]
         \/ p \in Timeless /\ v = [label |-> "Recent activity incomplete", tier |-> "detail_panel"]
         \/ p \in Warned \ Timeless /\ v = [label |-> "Partial timestamps", tier |-> "detail_panel"]
         \/ p \in Warned /\ v = [label |-> "Pilot has warning details", tier |-> "row_hint"]
  <2>1. Timeless \subseteq Warned
    BY DEF Timeless
  <2>2. Hint = [label |-> "Pilot has warning details", tier |-> "row_hint"]
    BY DEF Hint
  <2>3. ASSUME NEW v
        PROVE  (\E w \in ws : v = Presentation[w.code]) <=>
                  \/ p \in Unknown /\ v = Presentation["SUMMARY_FAILED"]
                  \/ p \in LostOnes /\ v = Presentation["DETAIL_FAILED"]
                  \/ p \in Timeless /\ v = Presentation["DETAIL_TIME_MISSING"]
                  \/ p \in Warned \ Timeless /\ v = Presentation["DETAIL_TIME_INVALID"]
    BY <1>1, <1>6, <2>1
  <2>4. QED
    BY <1>7, <2>2, <2>3, Presents
<1> DEFINE V(l, t) == [label |-> l, tier |-> t]
<1>13. \A l, t : V(l, t).label = l /\ V(l, t).tier = t
  OBVIOUS
<1>14. \A v : v \in presented <=> \/ p \in Unknown /\ v = V("Summary unavailable", "status_strip")
                                  \/ p \in LostOnes /\ v = V("Recent activity incomplete", "status_strip")
                                  \/ p \in Timeless /\ v = V("Recent activity incomplete", "detail_panel")
                                  \/ p \in Warned \ Timeless /\ v = V("Partial timestamps", "detail_panel")
                                  \/ p \in Warned /\ v = V("Pilot has warning details", "row_hint")
  BY <1>8
<1> HIDE DEF V
<1>9. Badge(presented) = IF p \in Warned THEN "active"
                         ELSE IF p \in LostOnes \cup Unknown THEN "muted" ELSE "none"
  <2>1. "row_hint" \in Tiers(presented) <=> p \in Warned
    <3>1. "row_hint" \in Tiers(presented) <=> \E v \in presented : v.tier = "row_hint"
      BY DEF Tiers
    <3>2. p \in Warned => V("Pilot has warning details", "row_hint") \in presented
      BY <1>14
    <3>3. ASSUME NEW v \in presented, v.tier = "row_hint"
          PROVE  p \in Warned
      <4>1. Timeless \subseteq Warned
        BY DEF Timeless
      <4>2. V("Summary unavailable", "status_strip").tier = "status_strip"
            /\ V("Recent activity incomplete", "status_strip").tier = "status_strip"
        BY <1>13
      <4>3. QED
        BY <1>14, <3>3, <4>1, <4>2
    <3>4. QED
      BY <1>13, <3>1, <3>2, <3>3
  <2>2. p \notin Warned => (presented # {} <=> p \in LostOnes \cup Unknown)
    <3>1. Timeless \subseteq Warned
      BY DEF Timeless
    <3>2. presented # {} <=> \E v : v \in presented
      OBVIOUS
    <3>3. QED
      BY <1>13, <1>14, <3>1, <3>2
  <2>3. QED
    BY <2>1, <2>2 DEF Badge
<1>10. Labels(presented, "detail_panel") = IF p \in Timeless THEN {"Recent activity incomplete"}
                                           ELSE IF p \in Warned THEN {"Partial timestamps"} ELSE {}
  <2>1. Timeless \subseteq Warned
    BY DEF Timeless
  <2>2. \A l : l \in Labels(presented, "detail_panel") <=> \E v \in presented : v.tier = "detail_panel" /\ v.label = l
    BY DEF Labels
  <2>3. \A l : l \in Labels(presented, "detail_panel") <=>
                  \/ p \in Timeless /\ l = "Recent activity incomplete"
                  \/ p \in Warned \ Timeless /\ l = "Partial timestamps"
    <3>1. /\ p \in Timeless => V("Recent activity incomplete", "detail_panel") \in presented
          /\ p \in Warned \ Timeless => V("Partial timestamps", "detail_panel") \in presented
      BY <1>14
    <3>2. ASSUME NEW v \in presented, v.tier = "detail_panel"
          PROVE  \/ p \in Timeless /\ v = V("Recent activity incomplete", "detail_panel")
                 \/ p \in Warned \ Timeless /\ v = V("Partial timestamps", "detail_panel")
      <4>1. /\ V("Summary unavailable", "status_strip").tier = "status_strip"
            /\ V("Recent activity incomplete", "status_strip").tier = "status_strip"
            /\ V("Pilot has warning details", "row_hint").tier = "row_hint"
        BY <1>13
      <4>2. QED
        BY <1>14, <3>2, <4>1
    <3>3. /\ V("Recent activity incomplete", "detail_panel").label = "Recent activity incomplete"
          /\ V("Recent activity incomplete", "detail_panel").tier = "detail_panel"
          /\ V("Partial timestamps", "detail_panel").label = "Partial timestamps"
          /\ V("Partial timestamps", "detail_panel").tier = "detail_panel"
      BY <1>13
    <3>4. ASSUME NEW l \in Labels(presented, "detail_panel")
          PROVE  \/ p \in Timeless /\ l = "Recent activity incomplete"
                 \/ p \in Warned \ Timeless /\ l = "Partial timestamps"
      BY <2>2, <3>2, <3>3
    <3>5. /\ p \in Timeless => "Recent activity incomplete" \in Labels(presented, "detail_panel")
          /\ p \in Warned \ Timeless => "Partial timestamps" \in Labels(presented, "detail_panel")
      BY <2>2, <3>1, <3>3
    <3>6. QED
      BY <3>4, <3>5
  <2>4. QED
    BY <2>1, <2>3
<1>11. p \in Warned \cup LostOnes => LastSeenState(row[p].threat, presented) = "partial"
  <2>1. SUFFICES ASSUME p \in Warned \cup LostOnes
                 PROVE  {v.label : v \in presented} \cap Incomplete # {}
    BY DEF LastSeenState
  <2>2. \E v \in presented : v.label \in {"Partial timestamps", "Recent activity incomplete"}
    BY <1>13, <1>14, <2>1
  <2>3. QED
    BY <2>2 DEF Incomplete
<1>12. QED
  BY <1>5, <1>9, <1>10, <1>11 DEF SeenAsReported

LEMMA WarnedHolds == Trace => WarnedOnce
<1>1. SUFFICES ASSUME Trace
               PROVE  WarnedOnce
  OBVIOUS
<1>2. Inputs
  BY <1>1 DEF Trace
<1>3. stage \in Final => Lasting(warnings)
  BY <1>1, <1>2, AggregatedIs DEF Trace
<1>4. stage = "done" => ReportedOnce
  BY <1>2, <1>3, ReportedHolds DEF Final
<1>5. stage = "shown" => CountedOnce
  BY <1>1, <1>2, <1>3, CountedHolds DEF Final, Trace
<1>6. stage = "seen" => \A p \in Pilots : SeenAsReported(p)
  <2>1. SUFFICES ASSUME stage = "seen", NEW p \in Pilots
                 PROVE  SeenAsReported(p)
    OBVIOUS
  <2>2. Lasting(warnings) /\ display = Displayed(warnings) /\ Viewed
    BY <1>1, <1>3, <2>1 DEF Final, Trace
  <2>3. QED
    BY <1>2, <2>2, SeenHolds
<1>7. QED
  BY <1>4, <1>5, <1>6 DEF WarnedOnce

-----------------------------------------------------------------------------
\* Types.

LEMMA ShipTyped ==
    ASSUME NEW e \in Evidences, NEW ship \in MainShips(e)
    PROVE  ship \in Ships
<1>1. NoShip \in Ships
  BY EnrichmentAssumption
<1>2. e.ships \in Seq(Ships)
  BY DEF Evidences
<1>3. Range(e.ships) \subseteq Ships
  BY <1>2 DEF Range
<1>4. ship = NoShip \/ ship \in Range(e.ships)
  BY DEF MainShips
<1>5. QED
  BY <1>1, <1>3, <1>4

LEMMA ThreatTyped ==
    ASSUME NEW s \in [kills : Nat, losses : Nat, danger : Nat, last : Nat], NEW e \in Evidences, NEW ship \in Ships
    PROVE  Threat(s, e, ship) \in Threats
<1> DEFINE f == Figures(s, e)
           t == Threat(s, e, ship)
<1>1. Given(f)
  BY FiguresGiven
<1>2. t = [kills |-> f.kills, losses |-> f.losses, danger |-> f.danger,
           lastKill |-> e.lastKill, lastLoss |-> e.lastLoss, ship |-> ship,
           score |-> Score(f), band |-> BandForScore(Score(f)), reasons |-> Reasons(f)]
  BY DEF Threat
<1> HIDE DEF f, t
<1>3. f.kills \in Nat /\ f.losses \in Nat /\ f.danger \in Nat
  BY <1>1 DEF Given
<1>4. e.lastKill \in Nat /\ e.lastLoss \in Nat
  BY DEF Evidences
<1>5. Score(f) \in 0..Full
  <2>1. Full \in Nat /\ Score(f) \in Nat /\ Score(f) =< Full
    BY <1>1, Scored DEF Full
  <2>2. \A n, most \in Nat : n =< most => n \in 0..most
    OBVIOUS
  <2>3. QED
    BY <2>1, <2>2
<1>6. BandForScore(Score(f)) \in Range(Bands)
  <2>1. BandForScore(Score(f)) \in {"minimal", "low", "medium", "high", "critical"}
    BY DEF BandForScore
  <2>2. DOMAIN Bands = {1, 2, 3, 4, 5}
    BY DEF Bands
  <2>3. /\ Bands[1] = "minimal" /\ Bands[2] = "low" /\ Bands[3] = "medium"
        /\ Bands[4] = "high" /\ Bands[5] = "critical"
    BY DEF Bands
  <2>4. \A i \in DOMAIN Bands : Bands[i] \in Range(Bands)
    BY DEF Range
  <2>5. QED
    BY <2>1, <2>2, <2>3, <2>4
<1>7. Reasons(f) \in SUBSET DOMAIN Weight
  BY DEF Reasons
<1>8. t \in Threats
  BY <1>2, <1>3, <1>4, <1>5, <1>6, <1>7 DEF Threats
<1>9. QED
  BY <1>8 DEF t

LEMMA Typed == Trace => EnrichTypeOK
<1>1. SUFFICES ASSUME Trace
               PROVE  EnrichTypeOK
  OBVIOUS
<1>2. Inputs /\ stage \in Stages
  BY <1>1 DEF Trace
<1>3. ASSUME stage # "summaries", NEW p \in Pilots
      PROVE  row[p].threat \in Threats /\ row[p].fresh \in Fresh
  <2>1. SummaryOf(p) \in [kills : Nat, losses : Nat, danger : Nat, last : Nat]
    BY <1>2, SummaryTyped
  <2>2. NoShip \in Ships
    BY EnrichmentAssumption
  <2>3. CASE stage \in Early
    <3>1. row[p].threat = BaseThreat(p) /\ row[p].fresh = BaseFresh(p)
      BY <1>1, <2>3 DEF Trace, Baselines
    <3>2. QED
      BY <2>1, <2>2, <3>1, ThreatTyped, FreshTyped, NoEvidenceTyped DEF BaseThreat, BaseFresh
  <2>4. CASE stage \in Late
    <3>1. EvidenceOf(p) \in Evidences
      BY <1>2, Digested DEF Digest
    <3>2. PICK ship \in MainShips(EvidenceOf(p)) : row[p].threat = Threat(SummaryOf(p), EvidenceOf(p), ship)
      BY <1>1, <2>4 DEF Trace, Merged, MergedThreat
    <3>3. row[p].threat \in Threats
      BY <2>1, <3>1, <3>2, ShipTyped, ThreatTyped
    <3>4. QED
      BY <1>1, <2>4, <3>3, RowFresh
  <2>5. QED
    BY <1>2, <1>3, <2>3, <2>4 DEF Stages, Early, Late
<1>4. \A p, code : Lost(p, code).failures \in Nat /\ Lost(p, code).missing \in Nat /\ Lost(p, code).unparseable \in Nat
  BY DEF Lost
<1>5. ASSUME NEW w \in warnings
      PROVE  w.failures \in Nat /\ w.missing \in Nat /\ w.unparseable \in Nat
  <2>1. CASE stage = "summaries"
    <3>1. warnings = {}
      BY <1>1, <2>1 DEF Trace
    <3>2. QED
      BY <1>5, <3>1
  <2>2. CASE stage \in Early
    <3>1. warnings = Raised
      BY <1>1, <2>2 DEF Trace
    <3>2. QED
      BY <1>4, <1>5, <3>1 DEF Raised
  <2>3. CASE stage = "compose"
    <3>1. w \in Noticed
      BY <1>1, <1>5, <2>3 DEF Trace
    <3>2. ASSUME NEW p \in Pilots
          PROVE  /\ Bad(p, EvidenceOf(p)).failures \in Nat /\ Bad(p, EvidenceOf(p)).missing \in Nat
                 /\ Bad(p, EvidenceOf(p)).unparseable \in Nat
                 /\ NoTime(p, EvidenceOf(p)).failures \in Nat /\ NoTime(p, EvidenceOf(p)).missing \in Nat
                 /\ NoTime(p, EvidenceOf(p)).unparseable \in Nat
      <4> DEFINE b == EvidenceOf(p).bad
                 m == EvidenceOf(p).missing
      <4>1. b \in Nat /\ m \in Nat /\ m =< b
        BY <1>2, Marked
      <4>2. /\ Bad(p, EvidenceOf(p)).failures = b /\ Bad(p, EvidenceOf(p)).missing = m
            /\ Bad(p, EvidenceOf(p)).unparseable = b - m
            /\ NoTime(p, EvidenceOf(p)).failures = b /\ NoTime(p, EvidenceOf(p)).missing = 0
            /\ NoTime(p, EvidenceOf(p)).unparseable = 0
        BY DEF Bad, NoTime
      <4> HIDE DEF b, m
      <4>3. QED
        BY <4>1, <4>2
    <3>3. Warned \subseteq Pilots /\ Timeless \subseteq Pilots
      BY DEF Warned, Timeless
    <3>4. QED
      BY <1>2, <1>4, <3>1, <3>2, <3>3, NoticedIs
  <2>4. CASE stage \in Final
    <3>1. Lasting(warnings)
      BY <1>1, <1>2, <2>4, AggregatedIs DEF Trace
    <3>2. QED
      BY <1>2, <1>4, <1>5, <3>1, OneRight DEF Lasting
  <2>5. QED
    BY <1>2, <2>1, <2>2, <2>3, <2>4 DEF Stages, Early, Final
<1>6. QED
  BY <1>2, <1>3, <1>5 DEF EnrichTypeOK, Stages

-----------------------------------------------------------------------------
(* At each stage rows, choice, warnings and display are what the stages    *)
(* before make of the answers of the providers (enrichPilots and what it   *)
(* calls).                                                                 *)
THEOREM TraceHolds == EnrichSpec => []Trace
BY TraceInit, TraceStep, PTL DEF EnrichSpec

(* No count of an enrichment is ever negative and no score beyond its      *)
(* scale, whatever the providers answer.                                   *)
THEOREM EnrichTyped == EnrichSpec => []EnrichTypeOK
BY Typed, TraceHolds, PTL

(* The rows say of every pilot what the killmails fetched for it say, for  *)
(* feeds of any length, order and mix of time fields.                      *)
THEOREM RowsRight == EnrichSpec => []RowsMatchFeeds
BY RowsHold, TraceHolds, PTL

(* Who gets no details scores no more than those of the budget, is not     *)
(* idle and not selected, for any budget and any number of pilots.         *)
THEOREM BudgetRight == EnrichSpec => []BudgetIsForTheTop
BY BudgetHolds, TraceHolds, PTL

(* A session is as old as its oldest pilot, and stale with any of them.    *)
THEOREM SessionRight == EnrichSpec => []SessionIsAsOldAsItsPilots
BY SessionHolds, TraceHolds, PTL

(* Every unusable timestamp is counted in one warning of its pilot, every  *)
(* pilot concerned once in the items of the session, and shown as such.    *)
THEOREM WarningsRight == EnrichSpec => []WarnedOnce
BY WarnedHolds, TraceHolds, PTL

(* More evidence never lowers a score, although the engine divides by what *)
(* is known and rounds twice.                                              *)
THEOREM ScoresRight == EnrichSpec => []ScoreOrdersEvidence
BY ScoresHold, TraceHolds, PTL

(* No number the providers told of is changed on its way to the screen; a  *)
(* dash stands for zeros of a scored pilot, or for the danger of one       *)
(* without a score.                                                        *)
THEOREM ShownRight == EnrichSpec => []ShownAsScored
BY ShownHold, TraceHolds, PTL

=============================================================================
