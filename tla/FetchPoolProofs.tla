--------------------------- MODULE FetchPoolProofs ---------------------------
(***************************************************************************)
(* Proofs about FetchPool for every set of pilots, every Limit and every   *)
(* set of answers: the inductive invariant, the bound on calls in flight,  *)
(* and that the fan-out implements Gather.                                 *)
(***************************************************************************)
EXTENDS FetchPool, FiniteSetTheorems, TLAPS

(* The pilots asked about are finitely many.                               *)
LEMMA KnownFinite ==
    /\ IsFiniteSet(Known)
    /\ \A S \in SUBSET Known : IsFiniteSet(S) /\ Cardinality(S) \in Nat
<1>1. IsFiniteSet(Known)
  BY RequestedAssumption, FS_Subset DEF Known
<1>2. QED
  BY <1>1, FS_Subset, FS_CardinalityType

(* A goroutine that moves on changes the set of those at some places by    *)
(* itself only, and its size by one at most.                               *)
LEMMA HoldingStep ==
    ASSUME TypeOK, NEW i \in Known, NEW q \in Places, Goto(i, q), NEW P
    PROVE  /\ Holding(P)' = IF q \in P THEN Holding(P) \cup {i}
                                       ELSE Holding(P) \ {i}
           /\ Cardinality(Holding(P)) \in Nat
           /\ Cardinality(Holding(P)') =
                IF q \in P
                THEN IF pc[i] \in P THEN Cardinality(Holding(P))
                                    ELSE Cardinality(Holding(P)) + 1
                ELSE IF pc[i] \in P THEN Cardinality(Holding(P)) - 1
                                    ELSE Cardinality(Holding(P))
<1>1. Holding(P)' = IF q \in P THEN Holding(P) \cup {i} ELSE Holding(P) \ {i}
  BY DEF Holding, Goto, TypeOK
<1>2. IsFiniteSet(Holding(P)) /\ Cardinality(Holding(P)) \in Nat
  BY KnownFinite DEF Holding
<1>3. i \in Holding(P) <=> pc[i] \in P
  BY DEF Holding
<1>4. CASE q \in P
  BY <1>1, <1>2, <1>3, <1>4, FS_AddElement
<1>5. CASE q \notin P
  BY <1>1, <1>2, <1>3, <1>5, FS_RemoveElement
<1>6. QED
  BY <1>1, <1>2, <1>4, <1>5

(* It changes nothing of a set it neither enters nor leaves.               *)
LEMMA HoldingSame ==
    ASSUME TypeOK, NEW i \in Known, NEW q \in Places, Goto(i, q), NEW P,
           q \in P <=> pc[i] \in P
    PROVE  Holding(P)' = Holding(P)
BY DEF Holding, Goto, TypeOK

(* A step that leaves the goroutines where they are changes no such set.   *)
LEMMA HoldingUnchanged ==
    ASSUME UNCHANGED pc, NEW P
    PROVE  Holding(P)' = Holding(P)
BY DEF Holding

(* One more outcome in the collection is the gathering of one more answer. *)
LEMMA GatheredWith ==
    ASSUME NEW W \in SUBSET Known, NEW i \in Known, NEW f
    PROVE  With(G!Gathered([j \in W |-> f[j]]), i, f[i])
             = G!Gathered([j \in W \cup {i} |-> f[j]])
<1> DEFINE old == [j \in W |-> f[j]]
           new == [j \in W \cup {i} |-> f[j]]
<1>1. G!Gathered(new).fetched
        = With(G!Gathered(old), i, f[i]).fetched
  BY DEF With, G!Gathered
<1>2. G!Gathered(new).evidence
        = With(G!Gathered(old), i, f[i]).evidence
  BY DEF With, G!Gathered
<1>3. G!Gathered(new).warnings
        = With(G!Gathered(old), i, f[i]).warnings
  <2>1. G!Gathered(new).warnings
          = UNION {{j} \X G!Codes(f[j]) : j \in W \cup {i}}
    BY DEF G!Gathered
  <2>2. G!Gathered(old).warnings = UNION {{j} \X G!Codes(f[j]) : j \in W}
    BY DEF G!Gathered
  <2>3. With(G!Gathered(old), i, f[i]).warnings
          = G!Gathered(old).warnings \cup ({i} \X G!Codes(f[i]))
    BY DEF With
  <2>4. UNION {{j} \X G!Codes(f[j]) : j \in W \cup {i}}
          = (UNION {{j} \X G!Codes(f[j]) : j \in W})
              \cup ({i} \X G!Codes(f[i]))
    OBVIOUS
  <2>5. QED
    BY <2>1, <2>2, <2>3, <2>4
<1>4. QED
  BY <1>1, <1>2, <1>3 DEF With, G!Gathered

(* A collection that gathers answers is well typed.                        *)
LEMMA GatheredType ==
    ASSUME NEW W \in SUBSET Known, NEW f
    PROVE  G!Gathered([j \in W |-> f[j]]) \in Collection
<1>1. \A j : G!Codes(f[j]) \subseteq {"FAILED", "TIME_INVALID", "TIME_MISSING"}
  BY DEF G!Codes
<1>2. UNION {{j} \X G!Codes(f[j]) : j \in W} \subseteq Warnings
  BY <1>1 DEF Warnings
<1>3. QED
  BY <1>2 DEF G!Gathered, Collection

LEMMA InitInv == Init => IInv
<1> SUFFICES ASSUME Init PROVE IInv
  OBVIOUS
<1>1. \A P : "unborn" \notin P => Holding(P) = {}
  BY DEF Init, Holding
<1>2. Holding(Slotted) = {} /\ Holding(Live) = {} /\ Written = {}
  BY <1>1 DEF Slotted, Live, Written
<1>3. Answered = {}
  BY <1>1, <1>2 DEF Answered
<1>4. G!Gathered([j \in Written |-> answer[j]]) = Nothing
  BY <1>2 DEF G!Gathered, Nothing
<1>5. Nothing \in Collection
  BY DEF Nothing, Collection
<1>6. TypeOK
  <2>1. pc \in [Known -> Places] /\ answer \in [Known -> Answers \cup {None}]
    BY DEF Init, Places
  <2>2. todo \subseteq Requested /\ returned \in BOOLEAN /\ wg \in Nat
    BY DEF Init
  <2>3. sem \in 0..Limit /\ mu \in Known \cup {Free}
    BY LimitAssumption DEF Init
  <2>4. seen \in Collection /\ shared \in Collection
    BY <1>5 DEF Init
  <2>5. QED
    BY <2>1, <2>2, <2>3, <2>4 DEF TypeOK
<1>7. SlotsCounted /\ LiveCounted
  BY <1>2, FS_EmptySet DEF Init, SlotsCounted, LiveCounted
<1>8. LockDiscipline
  BY FreeAssumption DEF Init, LockDiscipline, Known
<1>9. Progress
  BY <1>3 DEF Init, Progress, Known
<1>10. SharedIsGathered
  BY <1>4 DEF Init, SharedIsGathered
<1>11. QED
  BY <1>6, <1>7, <1>8, <1>9, <1>10 DEF IInv

-----------------------------------------------------------------------------
(* The steps of the caller leave the answers and the collection alone.     *)
LEMMA SkipInv == ASSUME IInv, NEW i \in Requested, Skip(i) PROVE IInv'
<1>1. UNCHANGED <<returned, wg, sem, mu, pc, answer, seen, shared>>
  BY DEF Skip
<1>2. i \notin Known /\ todo' = todo \ {i}
  BY DEF Skip, Known
<1>3. \A P : Holding(P)' = Holding(P)
  BY <1>1, HoldingUnchanged
<1>4. Written' = Written /\ Answered' = Answered
  BY <1>3 DEF Written, Answered
<1>5. TypeOK'
  BY <1>1, <1>2 DEF IInv, TypeOK
<1>6. SlotsCounted' /\ LiveCounted'
  BY <1>1, <1>3 DEF IInv, SlotsCounted, LiveCounted
<1>7. LockDiscipline'
  BY <1>1 DEF IInv, LockDiscipline
<1>8. Progress'
  BY <1>1, <1>2, <1>3, <1>4 DEF IInv, Progress
<1>9. SharedIsGathered'
  BY <1>1, <1>4 DEF IInv, SharedIsGathered
<1>10. QED
  BY <1>5, <1>6, <1>7, <1>8, <1>9 DEF IInv

LEMMA ReturnInv == ASSUME IInv, Return PROVE IInv'
<1>1. UNCHANGED <<todo, wg, sem, mu, pc, answer, seen, shared>>
  BY DEF Return
<1>2. \A P : Holding(P)' = Holding(P)
  BY <1>1, HoldingUnchanged
<1>3. Written' = Written /\ Answered' = Answered
  BY <1>2 DEF Written, Answered
<1>4. TypeOK'
  BY <1>1 DEF IInv, TypeOK, Return
<1>5. SlotsCounted' /\ LiveCounted'
  BY <1>1, <1>2 DEF IInv, SlotsCounted, LiveCounted
<1>6. LockDiscipline'
  BY <1>1 DEF IInv, LockDiscipline
<1>7. Holding(Live) = {}
  <2>1. IsFiniteSet(Holding(Live))
    BY KnownFinite DEF Holding
  <2>2. Cardinality(Holding(Live)) = 0
    BY DEF Return, IInv, LiveCounted
  <2>3. QED
    BY <2>1, <2>2, FS_EmptySet
<1>8. Known \subseteq Holding({"done"})
  BY <1>7 DEF Return, IInv, Progress, TypeOK, Holding, Live, Slotted, Places
<1>9. Progress'
  BY <1>1, <1>2, <1>3, <1>8 DEF IInv, Progress
<1>10. SharedIsGathered'
  BY <1>1, <1>3 DEF IInv, SharedIsGathered
<1>11. QED
  BY <1>4, <1>5, <1>6, <1>9, <1>10 DEF IInv

LEMMA SpawnInv == ASSUME IInv, NEW i \in Requested, Spawn(i) PROVE IInv'
<1>1. UNCHANGED <<returned, sem, mu, answer, seen, shared>>
  BY DEF Spawn
<1>2. i \in Known /\ Goto(i, "queued") /\ pc[i] = "unborn"
  BY DEF Spawn, Known, IInv, TypeOK, Progress
<1>3. TypeOK /\ "queued" \in Places
  BY DEF IInv, Places
<1>4. Holding(Slotted)' = Holding(Slotted)
  BY <1>2, <1>3, HoldingSame DEF Slotted
<1>5. Cardinality(Holding(Live)') = Cardinality(Holding(Live)) + 1
  BY <1>2, <1>3, HoldingStep DEF Live, Slotted
<1>6. Written' = Written
  BY <1>2, <1>3, HoldingSame DEF Written
<1>7. Answered' = Answered
  BY <1>2, <1>3, <1>6, HoldingSame DEF Answered
<1>8. TypeOK'
  BY <1>1, <1>2, <1>3 DEF TypeOK, Spawn, Goto, Added
<1>9. SlotsCounted' /\ LiveCounted'
  BY <1>1, <1>4, <1>5 DEF Spawn, Added, IInv, SlotsCounted, LiveCounted
<1>10. LockDiscipline'
  BY <1>1, <1>2 DEF IInv, LockDiscipline, Goto, TypeOK
<1>11. Progress'
  <2>1. \A j \in Known : j \in todo' <=> pc'[j] = "unborn"
    BY <1>2 DEF Spawn, IInv, Progress, TypeOK, Goto
  <2>2. returned' => FALSE
    BY <1>1, <1>2 DEF IInv, Progress, Holding
  <2>3. QED
    BY <1>1, <1>7, <2>1, <2>2 DEF IInv, Progress
<1>12. SharedIsGathered'
  BY <1>1, <1>6 DEF IInv, SharedIsGathered
<1>13. QED
  BY <1>8, <1>9, <1>10, <1>11, <1>12 DEF IInv

-----------------------------------------------------------------------------
(* The steps of a goroutine.                                               *)
LEMMA AcquireInv == ASSUME IInv, NEW i \in Known, Acquire(i) PROVE IInv'
<1>1. UNCHANGED <<todo, returned, wg, mu, answer, seen, shared>>
  BY DEF Acquire
<1>2. Goto(i, "fetching") /\ pc[i] = "queued"
  BY DEF Acquire
<1>3. TypeOK /\ "fetching" \in Places
  BY DEF IInv, Places
<1>4. Cardinality(Holding(Slotted)') = Cardinality(Holding(Slotted)) + 1
  BY <1>2, <1>3, HoldingStep DEF Slotted
<1>5. Holding(Live)' = Holding(Live)
  BY <1>2, <1>3, HoldingSame DEF Live, Slotted
<1>6. Written' = Written
  BY <1>2, <1>3, HoldingSame DEF Written
<1>7. Answered' = Answered
  BY <1>2, <1>3, <1>6, HoldingSame DEF Answered
<1>8. TypeOK'
  BY <1>1, <1>2, <1>3, LimitAssumption DEF TypeOK, Acquire, Goto, SlotFree
<1>9. SlotsCounted' /\ LiveCounted'
  BY <1>1, <1>4, <1>5 DEF Acquire, IInv, SlotsCounted, LiveCounted
<1>10. LockDiscipline'
  BY <1>1, <1>2 DEF IInv, LockDiscipline, Goto, TypeOK
<1>11. Progress'
  <2>1. \A j \in Known : j \in todo' <=> pc'[j] = "unborn"
    BY <1>1, <1>2 DEF IInv, Progress, TypeOK, Goto
  <2>2. ~returned
    BY <1>2 DEF IInv, Progress, Holding
  <2>3. QED
    BY <1>1, <1>7, <2>1, <2>2 DEF IInv, Progress
<1>12. SharedIsGathered'
  BY <1>1, <1>6 DEF IInv, SharedIsGathered
<1>13. QED
  BY <1>8, <1>9, <1>10, <1>11, <1>12 DEF IInv

LEMMA FetchInv ==
    ASSUME IInv, NEW i \in Known, NEW a \in Answers, Fetch(i, a) PROVE IInv'
<1>1. UNCHANGED <<todo, returned, wg, sem, mu, seen, shared>>
  BY DEF Fetch
<1>2. Goto(i, "answered") /\ pc[i] = "fetching"
  BY DEF Fetch
<1>3. TypeOK /\ "answered" \in Places
  BY DEF IInv, Places
<1>4. Holding(Slotted)' = Holding(Slotted) /\ Holding(Live)' = Holding(Live)
  BY <1>2, <1>3, HoldingSame DEF Slotted, Live
<1>5. Written' = Written /\ i \notin Written
  <2>1. Written' = Written
    BY <1>2, <1>3, HoldingSame DEF Written
  <2>2. QED
    BY <1>2, <2>1 DEF Written, Holding
<1>6. Answered' = Answered \cup {i}
  BY <1>2, <1>3, <1>5, HoldingStep DEF Answered
<1>7. answer' = [answer EXCEPT ![i] = a] /\ answer \in [Known -> Answers \cup {None}]
  BY DEF Fetch, IInv, TypeOK
<1>8. TypeOK'
  BY <1>1, <1>2, <1>3, <1>7 DEF TypeOK, Goto
<1>9. SlotsCounted' /\ LiveCounted'
  BY <1>1, <1>4 DEF IInv, SlotsCounted, LiveCounted
<1>10. LockDiscipline'
  BY <1>1, <1>2 DEF IInv, LockDiscipline, Goto, TypeOK
<1>11. Progress'
  <2>1. \A j \in Known : j \in todo' <=> pc'[j] = "unborn"
    BY <1>1, <1>2 DEF IInv, Progress, TypeOK, Goto
  <2>2. ~returned
    BY <1>2 DEF IInv, Progress, Holding
  <2>3. \A j \in Answered' : answer'[j] \in Answers
    BY <1>6, <1>7 DEF IInv, Progress
  <2>4. QED
    BY <1>1, <2>1, <2>2, <2>3 DEF Progress
<1>12. SharedIsGathered'
  <2>1. [j \in Written' |-> answer'[j]] = [j \in Written |-> answer[j]]
    BY <1>5, <1>7 DEF Written, Holding
  <2>2. QED
    BY <1>1, <2>1 DEF IInv, SharedIsGathered
<1>13. QED
  BY <1>8, <1>9, <1>10, <1>11, <1>12 DEF IInv

LEMMA LockInv == ASSUME IInv, NEW i \in Known, Lock(i) PROVE IInv'
<1>1. UNCHANGED <<todo, returned, wg, sem, answer, shared>>
  BY DEF Lock
<1>2. Goto(i, "locked") /\ pc[i] = "answered"
  BY DEF Lock
<1>3. TypeOK /\ "locked" \in Places
  BY DEF IInv, Places
<1>4. Holding(Slotted)' = Holding(Slotted) /\ Holding(Live)' = Holding(Live)
  BY <1>2, <1>3, HoldingSame DEF Slotted, Live
<1>5. Written' = Written
  BY <1>2, <1>3, HoldingSame DEF Written
<1>6. Answered' = Answered
  BY <1>2, <1>3, <1>5, HoldingSame DEF Answered
<1>7. TypeOK'
  BY <1>1, <1>2, <1>3 DEF TypeOK, Lock, Goto
<1>8. SlotsCounted' /\ LiveCounted'
  BY <1>1, <1>4 DEF IInv, SlotsCounted, LiveCounted
<1>9. LockDiscipline'
  BY <1>1, <1>2, FreeAssumption
     DEF Lock, MutexFree, IInv, LockDiscipline, Goto, TypeOK, Known
<1>10. Progress'
  <2>1. \A j \in Known : j \in todo' <=> pc'[j] = "unborn"
    BY <1>1, <1>2 DEF IInv, Progress, TypeOK, Goto
  <2>2. ~returned
    BY <1>2 DEF IInv, Progress, Holding
  <2>3. QED
    BY <1>1, <1>6, <2>1, <2>2 DEF IInv, Progress
<1>11. SharedIsGathered'
  BY <1>1, <1>5 DEF IInv, SharedIsGathered
<1>12. QED
  BY <1>7, <1>8, <1>9, <1>10, <1>11 DEF IInv

LEMMA RecordInv == ASSUME IInv, NEW i \in Known, Record(i) PROVE IInv'
<1>1. UNCHANGED <<todo, returned, wg, sem, answer>>
  BY DEF Record
<1>2. Goto(i, "recorded") /\ pc[i] = "locked"
  BY DEF Record
<1>3. TypeOK /\ "recorded" \in Places
  BY DEF IInv, Places
<1>4. Holding(Slotted)' = Holding(Slotted) /\ Holding(Live)' = Holding(Live)
  BY <1>2, <1>3, HoldingSame DEF Slotted, Live
<1>5. Written' = Written \cup {i}
  BY <1>2, <1>3, HoldingStep DEF Written
<1>6. Answered' = Answered
  <2>1. Holding({"answered", "locked"})' = Holding({"answered", "locked"}) \ {i}
    BY <1>2, <1>3, HoldingStep
  <2>2. i \in Holding({"answered", "locked"})
    BY <1>2 DEF Holding
  <2>3. QED
    BY <1>5, <2>1, <2>2 DEF Answered
<1>7. shared' = With(shared, i, answer[i])
  BY <1>2 DEF Record, IInv, LockDiscipline
<1>8. SharedIsGathered'
  <2>1. Written \in SUBSET Known
    BY DEF Written, Holding
  <2>2. shared' = G!Gathered([j \in Written \cup {i} |-> answer[j]])
    BY <1>7, <2>1, GatheredWith DEF IInv, SharedIsGathered
  <2>3. QED
    BY <1>1, <1>5, <2>2 DEF SharedIsGathered
<1>9. TypeOK'
  <2>1. Written' \in SUBSET Known
    BY DEF Written, Holding
  <2>2. shared' \in Collection
    BY <1>8, <2>1, GatheredType DEF SharedIsGathered
  <2>3. seen' \in Collection
    BY DEF Record, Nothing, Collection
  <2>4. QED
    BY <1>1, <1>2, <1>3, <2>2, <2>3 DEF TypeOK, Record, Goto
<1>10. SlotsCounted' /\ LiveCounted'
  BY <1>1, <1>4 DEF IInv, SlotsCounted, LiveCounted
<1>11. LockDiscipline'
  BY <1>2, FreeAssumption DEF Record, IInv, LockDiscipline, Goto, TypeOK, Known
<1>12. Progress'
  <2>1. \A j \in Known : j \in todo' <=> pc'[j] = "unborn"
    BY <1>1, <1>2 DEF IInv, Progress, TypeOK, Goto
  <2>2. ~returned
    BY <1>2 DEF IInv, Progress, Holding
  <2>3. QED
    BY <1>1, <1>6, <2>1, <2>2 DEF IInv, Progress
<1>13. QED
  BY <1>8, <1>9, <1>10, <1>11, <1>12 DEF IInv

LEMMA ReleaseInv == ASSUME IInv, NEW i \in Known, Release(i) PROVE IInv'
<1>1. UNCHANGED <<todo, returned, wg, mu, answer, seen, shared>>
  BY DEF Release
<1>2. Goto(i, "released") /\ pc[i] = "recorded"
  BY DEF Release
<1>3. TypeOK /\ "released" \in Places
  BY DEF IInv, Places
<1>4. /\ Cardinality(Holding(Slotted)) \in Nat
      /\ Cardinality(Holding(Slotted)') = Cardinality(Holding(Slotted)) - 1
  BY <1>2, <1>3, HoldingStep DEF Slotted
<1>5. Cardinality(Holding(Slotted)') \in Nat
  BY KnownFinite DEF Holding
<1>6. Holding(Live)' = Holding(Live)
  BY <1>2, <1>3, HoldingSame DEF Live, Slotted
<1>7. Written' = Written
  BY <1>2, <1>3, HoldingSame DEF Written
<1>8. Answered' = Answered
  BY <1>2, <1>3, <1>7, HoldingSame DEF Answered
<1>9. SlotsCounted' /\ LiveCounted'
  BY <1>1, <1>4, <1>6 DEF Release, Freed, IInv, SlotsCounted, LiveCounted
<1>10. TypeOK'
  BY <1>1, <1>2, <1>3, <1>4, <1>5, LimitAssumption
     DEF IInv, SlotsCounted, TypeOK, Release, Freed, Goto
<1>11. LockDiscipline'
  BY <1>1, <1>2 DEF IInv, LockDiscipline, Goto, TypeOK
<1>12. Progress'
  <2>1. \A j \in Known : j \in todo' <=> pc'[j] = "unborn"
    BY <1>1, <1>2 DEF IInv, Progress, TypeOK, Goto
  <2>2. ~returned
    BY <1>2 DEF IInv, Progress, Holding
  <2>3. QED
    BY <1>1, <1>8, <2>1, <2>2 DEF IInv, Progress
<1>13. SharedIsGathered'
  BY <1>1, <1>7 DEF IInv, SharedIsGathered
<1>14. QED
  BY <1>9, <1>10, <1>11, <1>12, <1>13 DEF IInv

LEMMA DoneInv == ASSUME IInv, NEW i \in Known, Done(i) PROVE IInv'
<1>1. UNCHANGED <<todo, returned, sem, mu, answer, seen, shared>>
  BY DEF Done
<1>2. Goto(i, "done") /\ pc[i] = "released"
  BY DEF Done
<1>3. TypeOK /\ "done" \in Places
  BY DEF IInv, Places
<1>4. Holding(Slotted)' = Holding(Slotted)
  BY <1>2, <1>3, HoldingSame DEF Slotted
<1>5. /\ Cardinality(Holding(Live)) \in Nat
      /\ Cardinality(Holding(Live)') = Cardinality(Holding(Live)) - 1
  BY <1>2, <1>3, HoldingStep DEF Live, Slotted
<1>6. Cardinality(Holding(Live)') \in Nat
  BY KnownFinite DEF Holding
<1>7. Written' = Written
  BY <1>2, <1>3, HoldingSame DEF Written
<1>8. Answered' = Answered
  BY <1>2, <1>3, <1>7, HoldingSame DEF Answered
<1>9. SlotsCounted' /\ LiveCounted'
  BY <1>1, <1>4, <1>5 DEF Done, IInv, SlotsCounted, LiveCounted
<1>10. TypeOK'
  BY <1>1, <1>2, <1>3, <1>5, <1>6
     DEF IInv, LiveCounted, TypeOK, Done, Goto
<1>11. LockDiscipline'
  BY <1>1, <1>2 DEF IInv, LockDiscipline, Goto, TypeOK
<1>12. Progress'
  <2>1. \A j \in Known : j \in todo' <=> pc'[j] = "unborn"
    BY <1>1, <1>2 DEF IInv, Progress, TypeOK, Goto
  <2>2. ~returned
    BY <1>2 DEF IInv, Progress, Holding
  <2>3. QED
    BY <1>1, <1>8, <2>1, <2>2 DEF IInv, Progress
<1>13. SharedIsGathered'
  BY <1>1, <1>7 DEF IInv, SharedIsGathered
<1>14. QED
  BY <1>9, <1>10, <1>11, <1>12, <1>13 DEF IInv

LEMMA StutterInv == ASSUME IInv, UNCHANGED vars PROVE IInv'
<1>1. UNCHANGED <<todo, returned, wg, sem, mu, pc, answer, seen, shared>>
  BY DEF vars
<1>2. \A P : Holding(P)' = Holding(P)
  BY <1>1, HoldingUnchanged
<1>3. Written' = Written /\ Answered' = Answered
  BY <1>2 DEF Written, Answered
<1>4. TypeOK' /\ LockDiscipline'
  BY <1>1 DEF IInv, TypeOK, LockDiscipline
<1>5. SlotsCounted' /\ LiveCounted' /\ Progress' /\ SharedIsGathered'
  BY <1>1, <1>2, <1>3
     DEF IInv, SlotsCounted, LiveCounted, Progress, SharedIsGathered
<1>6. QED
  BY <1>4, <1>5 DEF IInv

LEMMA StepInv == IInv /\ [Next]_vars => IInv'
<1> SUFFICES ASSUME IInv, [Next]_vars PROVE IInv'
  OBVIOUS
<1>1. CASE Return
  BY <1>1, ReturnInv
<1>2. ASSUME NEW i \in Requested, Skip(i) PROVE IInv'
  BY <1>2, SkipInv
<1>3. ASSUME NEW i \in Requested, Spawn(i) PROVE IInv'
  BY <1>3, SpawnInv
<1>4. ASSUME NEW i \in Known, Acquire(i) PROVE IInv'
  BY <1>4, AcquireInv
<1>5. ASSUME NEW i \in Known, NEW a \in Answers, Fetch(i, a) PROVE IInv'
  BY <1>5, FetchInv
<1>6. ASSUME NEW i \in Known, Lock(i) PROVE IInv'
  BY <1>6, LockInv
<1>7. ASSUME NEW i \in Known, Record(i) PROVE IInv'
  BY <1>7, RecordInv
<1>8. ASSUME NEW i \in Known, Release(i) PROVE IInv'
  BY <1>8, ReleaseInv
<1>9. ASSUME NEW i \in Known, Done(i) PROVE IInv'
  BY <1>9, DoneInv
<1>10. CASE UNCHANGED vars
  BY <1>10, StutterInv
<1>11. QED
  BY <1>1, <1>2, <1>3, <1>4, <1>5, <1>6, <1>7, <1>8, <1>9, <1>10
     DEF Next, Caller, Goroutine

-----------------------------------------------------------------------------
(* The invariant that explains the fan-out: the semaphore and the          *)
(* WaitGroup of app_service.go count the goroutines they stand for, the    *)
(* mutex protects a read that is still current, and the shared maps hold   *)
(* the outcomes of the goroutines that have written.                       *)
THEOREM Invariance == Spec => []IInv
BY InitInv, StepInv, PTL DEF Spec

(* Every variable keeps its type; sem never exceeds its capacity.          *)
THEOREM TypeCorrect == Spec => []TypeOK
<1>1. IInv => TypeOK
  BY DEF IInv
<1>2. QED
  BY Invariance, <1>1, PTL

(* At most Limit provider calls of a fan-out are in flight.                *)
THEOREM Bounded == Spec => []AtMostLimit
<1>1. IInv => AtMostLimit
  <2> SUFFICES ASSUME IInv PROVE AtMostLimit
    OBVIOUS
  <2>1. IsFiniteSet(Holding(Slotted)) /\ Cardinality(Holding(Slotted)) \in Nat
    BY KnownFinite DEF Holding
  <2>2. InFlight \subseteq Holding(Slotted)
    BY DEF InFlight, Holding, Slotted
  <2>3. Cardinality(InFlight) \in Nat
    BY KnownFinite DEF InFlight
  <2>4. Cardinality(InFlight) <= Cardinality(Holding(Slotted))
    BY <2>1, <2>2, FS_Subset
  <2>5. Cardinality(Holding(Slotted)) <= Limit
    BY LimitAssumption DEF IInv, TypeOK, SlotsCounted
  <2>6. QED
    BY <2>1, <2>3, <2>4, <2>5, LimitAssumption DEF AtMostLimit
<1>2. QED
  BY Invariance, <1>1, PTL

(* A step of the fan-out is the abstract return, with the answers the      *)
(* goroutines got, or changes nothing the caller can see.                  *)
LEMMA StepGathers ==
    IInv /\ [Next]_vars
      => [G!Return]_(IF returned THEN {shared} ELSE {})
<1> SUFFICES ASSUME IInv, [Next]_vars
             PROVE  \/ G!Return
                    \/ UNCHANGED (IF returned THEN {shared} ELSE {})
  OBVIOUS
<1>1. CASE Return
  <2>1. Holding(Live) = {}
    <3>1. IsFiniteSet(Holding(Live)) /\ Cardinality(Holding(Live)) = 0
      BY <1>1, KnownFinite DEF Return, IInv, LiveCounted, Holding
    <3>2. QED
      BY <3>1, FS_EmptySet
  <2>2. Written = Known /\ Known \subseteq Answered
    BY <1>1, <2>1 DEF Return, IInv, Progress, TypeOK, Written, Answered,
                      Holding, Live, Slotted, Places
  <2>3. answer \in [Known -> Answers]
    BY <2>2 DEF IInv, Progress, TypeOK
  <2>4. shared = G!Gathered(answer)
    <3>1. [i \in Known |-> answer[i]] = answer
      BY <2>3
    <3>2. QED
      BY <2>2, <3>1 DEF IInv, SharedIsGathered
  <2>5. QED
    BY <1>1, <2>3, <2>4 DEF Return, G!Return
<1>2. CASE ~Return
  <2>1. UNCHANGED returned
    BY <1>2 DEF Next, Caller, Goroutine, Skip, Spawn, Acquire, Fetch, Lock,
                Record, Release, Done, vars
  <2>2. CASE ~returned
    BY <2>1, <2>2
  <2>3. CASE returned
    <3>1. \A i \in Known : pc[i] = "done"
      BY <2>3 DEF IInv, Progress, Holding
    <3>2. UNCHANGED shared
      BY <3>1, <1>2 DEF Next, Caller, Goroutine, Skip, Spawn, Acquire, Fetch,
                        Lock, Record, Release, Done, vars
    <3>3. QED
      BY <2>1, <3>2
  <2>4. QED
    BY <2>2, <2>3
<1>3. QED
  BY <1>1, <1>2

(* The fan-out implements Gather: seen from enrichPilots it returns once,  *)
(* with the outcome of one provider answer for each pilot, and what it     *)
(* returned is never written again.                                        *)
THEOREM Implements == Spec => Gathers
<1>1. Init => G!Init
  BY DEF Init, G!Init
<1>2. QED
  BY Invariance, StepGathers, <1>1, PTL DEF Spec, Gathers, G!Spec
=============================================================================
