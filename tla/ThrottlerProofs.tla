--------------------------- MODULE ThrottlerProofs ---------------------------
(***************************************************************************)
(* Proofs about Throttler for every set of callers and every spacing and   *)
(* bound of the penalty: its three invariants, which are inductive         *)
(* together, and the spacing of the requests it lets through.              *)
(***************************************************************************)
EXTENDS Throttler, TLAPS

IInv == TypeOK /\ SleeperHoldsMutex /\ SleepIsExact

LEMMA PenaltyBounded ==
    ASSUME penalty \in 0..MaxPenalty, NEW a
    PROVE  NextPenalty(a) \in 0..MaxPenalty
BY SpacingAssumption DEF NextPenalty, Capped, Doubled

LEMMA WaitIsExact ==
    ASSUME TypeOK
    PROVE  /\ Wait \in 0..Horizon
           /\ Wait + age >= MinSpacing + penalty
           /\ Wait > 0 => Wait + age = MinSpacing + penalty
BY SpacingAssumption DEF TypeOK, Wait, Positive, Horizon

LEMMA InitInv == Init => IInv
BY SpacingAssumption, FreeAssumption
   DEF Init, IInv, TypeOK, SleeperHoldsMutex, SleepIsExact, Horizon, Phases

LEMMA EnterInv == ASSUME IInv, NEW c \in Callers, Enter(c) PROVE IInv'
<1>1. phase' = [phase EXCEPT ![c] = "sleeping"] /\ mu = Free /\ mu' = c
  BY DEF Enter, Goto, MutexFree
<1>2. left' = Wait /\ UNCHANGED <<penalty, age, answer>>
  BY DEF Enter
<1>3. TypeOK'
  BY <1>1, <1>2, WaitIsExact DEF IInv, TypeOK, Phases
<1>4. SleeperHoldsMutex'
  BY <1>1, FreeAssumption DEF IInv, TypeOK, SleeperHoldsMutex
<1>5. SleepIsExact'
  BY <1>2, WaitIsExact DEF IInv, SleepIsExact
<1>6. QED
  BY <1>3, <1>4, <1>5 DEF IInv

LEMMA GrantInv == ASSUME IInv, NEW c \in Callers, Grant(c) PROVE IInv'
<1>1. /\ phase' = [phase EXCEPT ![c] = "inflight"] /\ phase[c] = "sleeping"
      /\ mu' = Free /\ age' = 0 /\ UNCHANGED <<penalty, left, answer>>
  BY DEF Grant, Goto, Unlocked
<1>2. TypeOK'
  BY <1>1, SpacingAssumption DEF IInv, TypeOK, Phases, Horizon
<1>3. \A d \in Callers : phase'[d] # "sleeping"
  BY <1>1 DEF IInv, TypeOK, SleeperHoldsMutex
<1>4. SleeperHoldsMutex' /\ SleepIsExact'
  BY <1>1, <1>3, FreeAssumption DEF SleeperHoldsMutex, SleepIsExact
<1>5. QED
  BY <1>2, <1>4 DEF IInv

LEMMA ReportInv == ASSUME IInv, NEW c \in Callers, Report(c) PROVE IInv'
<1>1. /\ phase' = [phase EXCEPT ![c] = "idle"] /\ mu = Free
      /\ penalty' = NextPenalty(answer[c])
      /\ answer' = [answer EXCEPT ![c] = NoAnswer]
      /\ UNCHANGED <<mu, age, left>>
  BY DEF Report, Goto, MutexFree
<1>2. TypeOK'
  BY <1>1, PenaltyBounded DEF IInv, TypeOK, Phases
<1>3. \A d \in Callers : phase'[d] # "sleeping"
  BY <1>1, FreeAssumption DEF IInv, TypeOK, SleeperHoldsMutex
<1>4. SleeperHoldsMutex' /\ SleepIsExact'
  BY <1>1, <1>3, FreeAssumption DEF SleeperHoldsMutex, SleepIsExact
<1>5. QED
  BY <1>2, <1>4 DEF IInv

(* Callers that neither enter nor leave the sleep leave the sleeper alone. *)
LEMMA OutsideInv ==
    ASSUME IInv, NEW c \in Callers, NEW p \in Phases \ {"sleeping"},
           Goto(c, p), phase[c] # "sleeping",
           answer' \in [Callers -> Answers \cup {NoAnswer}],
           UNCHANGED <<mu, penalty, age, left>>
    PROVE  IInv'
BY DEF IInv, TypeOK, SleeperHoldsMutex, SleepIsExact, Goto

LEMMA TickInv == ASSUME IInv, Tick PROVE IInv'
<1>1. /\ age' = Capped(age + 1, Horizon)
      /\ left' = IF left > 0 THEN left - 1 ELSE 0
      /\ UNCHANGED <<mu, penalty, phase, answer>>
  BY DEF Tick
<1>2. TypeOK'
  BY <1>1, SpacingAssumption DEF IInv, TypeOK, Capped, Horizon
<1>3. SleeperHoldsMutex'
  BY <1>1 DEF IInv, SleeperHoldsMutex
<1>4. SleepIsExact'
  <2> SUFFICES ASSUME NEW c \in Callers, phase[c] = "sleeping"
               PROVE  /\ left' + age' >= MinSpacing + penalty
                      /\ left' > 0 => left' + age' = MinSpacing + penalty
    BY <1>1 DEF SleepIsExact
  <2>1. /\ left + age >= MinSpacing + penalty
        /\ left > 0 => left + age = MinSpacing + penalty
    BY DEF IInv, SleepIsExact
  <2>2. /\ penalty \in 0..MaxPenalty /\ age \in 0..Horizon
        /\ left \in 0..Horizon
    BY DEF IInv, TypeOK
  <2>3. CASE left > 0
    BY <1>1, <2>1, <2>2, <2>3, SpacingAssumption DEF Capped, Horizon
  <2>4. CASE left = 0
    BY <1>1, <2>1, <2>2, <2>4, SpacingAssumption DEF Capped, Horizon
  <2>5. QED
    BY <2>2, <2>3, <2>4, SpacingAssumption DEF Horizon
<1>5. QED
  BY <1>2, <1>3, <1>4 DEF IInv

LEMMA StepInv == IInv /\ [Next]_tvars => IInv'
<1> SUFFICES ASSUME IInv, [Next]_tvars PROVE IInv'
  OBVIOUS
<1>1. ASSUME NEW c \in Callers, Ask(c) PROVE IInv'
  BY <1>1, OutsideInv DEF Ask, Phases, IInv, TypeOK
<1>2. ASSUME NEW c \in Callers, Enter(c) PROVE IInv'
  BY <1>2, EnterInv
<1>3. ASSUME NEW c \in Callers, Grant(c) PROVE IInv'
  BY <1>3, GrantInv
<1>4. ASSUME NEW c \in Callers, Fail(c) PROVE IInv'
  BY <1>4, OutsideInv DEF Fail, Phases, IInv, TypeOK
<1>5. ASSUME NEW c \in Callers, Report(c) PROVE IInv'
  BY <1>5, ReportInv
<1>6. ASSUME NEW c \in Callers, NEW a \in Answers, Answer(c, a) PROVE IInv'
  <2>1. answer' \in [Callers -> Answers \cup {NoAnswer}]
    BY <1>6 DEF Answer, IInv, TypeOK
  <2>2. QED
    BY <1>6, <2>1, OutsideInv DEF Answer, Phases
<1>7. CASE Tick
  BY <1>7, TickInv
<1>8. CASE UNCHANGED tvars
  BY <1>8 DEF IInv, TypeOK, SleeperHoldsMutex, SleepIsExact, tvars
<1>9. QED
  BY <1>1, <1>2, <1>3, <1>4, <1>5, <1>6, <1>7, <1>8 DEF Next, Step

-----------------------------------------------------------------------------
LEMMA Invariance == Spec => []IInv
BY InitInv, StepInv, PTL DEF Spec

(* Penalty, age and sleep stay within their bounds: throttle.go caps the   *)
(* penalty, and no BeforeRequest sleeps longer than spacing and cap allow. *)
THEOREM TypeCorrect == Spec => []TypeOK
<1>1. IInv => TypeOK
  BY DEF IInv
<1>2. QED
  BY Invariance, <1>1, PTL

(* BeforeRequest sleeps with the mutex held, and only the holder sleeps.   *)
THEOREM SleepIsExclusive == Spec => []SleeperHoldsMutex
<1>1. IInv => SleeperHoldsMutex
  BY DEF IInv
<1>2. QED
  BY Invariance, <1>1, PTL

(* No sleep ends early and none is longer than the penalty calls for.      *)
THEOREM SleepCorrect == Spec => []SleepIsExact
<1>1. IInv => SleepIsExact
  BY DEF IInv
<1>2. QED
  BY Invariance, <1>1, PTL

(* Whoever is let through finds minSpacing plus the penalty in force       *)
(* elapsed since the request before.                                       *)
THEOREM Spaced == Spec => GrantsAreSpaced
<1> DEFINE Ok == \A c \in Callers : Granted(c) => age >= MinSpacing + penalty
<1>1. IInv /\ [Next]_tvars => [Ok]_tvars
  <2> SUFFICES ASSUME IInv, Next, NEW c \in Callers, Granted(c)
               PROVE  age >= MinSpacing + penalty
    OBVIOUS
  <2>1. Grant(c)
    BY DEF Next, Step, Granted, Tick, Ask, Enter, Grant, Fail, Answer, Report,
           Goto, IInv, TypeOK
  <2>2. left = 0 /\ left + age >= MinSpacing + penalty
    BY <2>1 DEF Grant, IInv, SleepIsExact
  <2>3. QED
    BY <2>2 DEF IInv, TypeOK
<1>2. QED
  BY Invariance, <1>1, PTL DEF Spec, GrantsAreSpaced
=============================================================================
