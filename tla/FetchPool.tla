------------------------------ MODULE FetchPool ------------------------------
(***************************************************************************)
(* The fan-out of AppService.fetchSummaryRows and AppService.fetchDetails  *)
(* (internal/app/app_service.go): one goroutine per pilot, a buffered      *)
(* channel used as a semaphore, a mutex around the shared maps and the     *)
(* warnings, and a WaitGroup the caller waits on.  fetchSummaryRows is the *)
(* instance with Known = Requested and the answers "error" and "row";      *)
(* fetchDetails the one with the answers about killmails, where a target   *)
(* that is not a pilot of the session is skipped.                          *)
(*                                                                         *)
(* What is collected, one record:                                          *)
(*   fetched    summaries, fetchedByID                                     *)
(*   evidence   evidenceByID                                               *)
(*   warnings   the warnings slice, as pairs <<pilot, code>>               *)
(* Adding to it reads it and writes it back, which is why it needs mu.     *)
(***************************************************************************)
EXTENDS Integers, FiniteSets

CONSTANTS Requested,  \* targetIDs, or the ids of the identities
          Pilots,     \* the ids of byID
          Answers,    \* what the provider may answer
          Limit,      \* capacity of sem
          Free, None  \* mu is not held; no value yet

Known == Requested \cap Pilots

ASSUME RequestedAssumption == IsFiniteSet(Requested)
ASSUME LimitAssumption == Limit \in Nat \ {0}
ASSUME FreeAssumption == Free \notin Requested

VARIABLES todo,     \* requested ids the spawning loop has not reached
          returned, \* wg.Wait is over
          wg,       \* the WaitGroup's counter
          sem,      \* slots of sem in use
          mu,       \* holder of mu, or Free
          pc,       \* each goroutine's place
          answer,   \* the answer each goroutine has got
          seen,     \* the collection as the goroutine in mu has read it
          shared    \* the collection

vars == <<todo, returned, wg, sem, mu, pc, answer, seen, shared>>

G == INSTANCE Gather WITH ret <- IF returned THEN {shared} ELSE {}

ASSUME AnswersAssumption == G!AnswersAreKnown

Warnings == Known \X {"FAILED", "TIME_INVALID", "TIME_MISSING"}
Collection == [fetched : SUBSET Known, evidence : SUBSET Known,
               warnings : SUBSET Warnings]
Nothing == [fetched |-> {}, evidence |-> {}, warnings |-> {}]

Places == {"unborn", "queued", "fetching", "answered", "locked", "recorded",
           "released", "done"}
Slotted == {"fetching", "answered", "locked", "recorded"}
Live == {"queued", "released"} \cup Slotted

(* State types.                                                            *)
TypeOK ==
    /\ todo \subseteq Requested
    /\ returned \in BOOLEAN
    /\ wg \in Nat
    /\ sem \in 0..Limit
    /\ mu \in Known \cup {Free}
    /\ pc \in [Known -> Places]
    /\ answer \in [Known -> Answers \cup {None}]
    /\ seen \in Collection
    /\ shared \in Collection

Init ==
    /\ todo = Requested
    /\ returned = FALSE
    /\ wg = 0
    /\ sem = 0
    /\ mu = Free
    /\ pc = [i \in Known |-> "unborn"]
    /\ answer = [i \in Known |-> None]
    /\ seen = Nothing
    /\ shared = Nothing

-----------------------------------------------------------------------------
Goto(i, p) == pc' = [pc EXCEPT ![i] = p]

(* The loop: a target without a pilot is skipped, any other gets           *)
(* wg.Add(1) and a goroutine.                                              *)
Skip(i) ==
    /\ i \in todo \ Pilots
    /\ todo' = todo \ {i}
    /\ UNCHANGED <<returned, wg, sem, mu, pc, answer, seen, shared>>

Mutant_AddInGoroutine == wg
Added == wg + 1

Spawn(i) ==
    /\ i \in todo \cap Pilots
    /\ todo' = todo \ {i}
    /\ wg' = Added
    /\ Goto(i, "queued")
    /\ UNCHANGED <<returned, sem, mu, answer, seen, shared>>

(* wg.Wait returns, and with it the call.                                  *)
Return ==
    /\ todo = {}
    /\ wg = 0
    /\ returned = FALSE
    /\ returned' = TRUE
    /\ UNCHANGED <<todo, wg, sem, mu, pc, answer, seen, shared>>

(* sem <- struct{}{}                                                       *)
Mutant_SlotOffByOne == sem <= Limit
SlotFree == sem < Limit

Acquire(i) ==
    /\ pc[i] = "queued"
    /\ SlotFree
    /\ sem' = sem + 1
    /\ Goto(i, "fetching")
    /\ UNCHANGED <<todo, returned, wg, mu, answer, seen, shared>>

(* The provider's call returns.                                            *)
Fetch(i, a) ==
    /\ pc[i] = "fetching"
    /\ answer' = [answer EXCEPT ![i] = a]
    /\ Goto(i, "answered")
    /\ UNCHANGED <<todo, returned, wg, sem, mu, seen, shared>>

(* mu.Lock(), and the collection as it is then.                            *)
Mutant_NoLock == TRUE
MutexFree == mu = Free

Lock(i) ==
    /\ pc[i] = "answered"
    /\ MutexFree
    /\ mu' = i
    /\ seen' = shared
    /\ Goto(i, "locked")
    /\ UNCHANGED <<todo, returned, wg, sem, answer, shared>>

(* The body under the lock, with its two early returns, and mu.Unlock().   *)
With(c, i, a) ==
    [fetched  |-> IF a = "error" THEN c.fetched ELSE c.fetched \cup {i},
     evidence |-> IF a \in G!WithKillmails THEN c.evidence \cup {i}
                                           ELSE c.evidence,
     warnings |-> c.warnings \cup ({i} \X G!Codes(a))]

Record(i) ==
    /\ pc[i] = "locked"
    /\ shared' = With(seen, i, answer[i])
    /\ seen' = Nothing
    /\ mu' = Free
    /\ Goto(i, "recorded")
    /\ UNCHANGED <<todo, returned, wg, sem, answer>>

(* <-sem, the deferred release, after the unlock.                          *)
Mutant_SlotLeaks == sem
Freed == sem - 1

Release(i) ==
    /\ pc[i] = "recorded"
    /\ sem' = Freed
    /\ Goto(i, "released")
    /\ UNCHANGED <<todo, returned, wg, mu, answer, seen, shared>>

(* wg.Done(), the first defer and so the last to run.                      *)
Done(i) ==
    /\ pc[i] = "released"
    /\ wg' = wg - 1
    /\ Goto(i, "done")
    /\ UNCHANGED <<todo, returned, sem, mu, answer, seen, shared>>

Goroutine(i) ==
    \/ Acquire(i) \/ Lock(i) \/ Record(i) \/ Release(i) \/ Done(i)
    \/ \E a \in Answers : Fetch(i, a)

Caller == Return \/ \E i \in Requested : Skip(i) \/ Spawn(i)

Next == Caller \/ \E i \in Known : Goroutine(i)

Spec == Init /\ [][Next]_vars

(* Every goroutine that can run runs, and the provider's call returns (its *)
(* HTTP client has a timeout).  Every goroutine asks for a slot and for mu *)
(* once, so a waiter cannot be overtaken for ever: weak fairness is enough.*)
Fairness == WF_vars(Caller) /\ \A i \in Known : WF_vars(Goroutine(i))

FairSpec == Spec /\ Fairness

-----------------------------------------------------------------------------
InFlight == {i \in Known : pc[i] = "fetching"}

(* At most Limit provider calls are in flight, however many pilots.        *)
AtMostLimit == Cardinality(InFlight) <= Limit

(* The fan-out is one atomic gathering: what the caller gets holds each    *)
(* pilot's outcome exactly once, lost to nobody's write, and does not      *)
(* change under the caller, who goes on to read it without the mutex.      *)
Gathers == G!Spec

(* The call returns.                                                       *)
Returns == <>returned

-----------------------------------------------------------------------------
\* Why it works, as the conjuncts of an inductive invariant.
Holding(p) == {i \in Known : pc[i] \in p}
Written == Holding({"recorded", "released", "done"})
Answered == Written \cup Holding({"answered", "locked"})

\* sem and wg count what they stand for.
SlotsCounted == sem = Cardinality(Holding(Slotted))
LiveCounted == wg = Cardinality(Holding(Live))

\* mu is held by the goroutine that has read the collection, and what it
\* has read is still the collection.
LockDiscipline == \A i \in Known :
    /\ mu = i <=> pc[i] = "locked"
    /\ pc[i] = "locked" => seen = shared

\* The loop and the goroutines: born when reached, answered before mu.
Progress ==
    /\ \A i \in Known : i \in todo <=> pc[i] = "unborn"
    /\ \A i \in Answered : answer[i] \in Answers
    /\ returned => Known \subseteq Holding({"done"})

\* The collection holds the outcomes of those that have written, no more.
SharedIsGathered == shared = G!Gathered([i \in Written |-> answer[i]])

(* Between any two steps the counters match the goroutines they count, the *)
(* mutex protects a read that is still current, and the collection is the  *)
(* gathering of the goroutines that have written it.                       *)
IInv ==
    /\ TypeOK
    /\ SlotsCounted
    /\ LiveCounted
    /\ LockDiscipline
    /\ Progress
    /\ SharedIsGathered
=============================================================================
