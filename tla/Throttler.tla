------------------------------ MODULE Throttler ------------------------------
(***************************************************************************)
(* The request throttler of internal/providers/zkill/throttle.go: one      *)
(* mutex, a minimum spacing between requests and a back-off penalty that   *)
(* doubles on 429 and 5xx answers and is cleared by any other answer.      *)
(*                                                                         *)
(* Time.  Only differences of the clock matter, so the module keeps the    *)
(* time since lastSent (age) and what is left of the sleep in progress     *)
(* (left) instead of the clock.  age saturates at Horizon, the longest     *)
(* wait the code can compute: beyond it every comparison the code makes    *)
(* has the same outcome.  This makes the state finite without bounding     *)
(* the number of requests.  The zero time of a new throttler is "long      *)
(* ago", that is Horizon.                                                  *)
(***************************************************************************)
EXTENDS Integers

CONSTANTS Callers,      \* goroutines that send requests
          MinSpacing,   \* minSpacing, in ticks
          MaxPenalty,   \* maxPenalty, in ticks
          Answers,      \* the answers a server may give
          Throttled,    \* those with status 429 or >= 500
          Free,         \* mu is not held
          NoAnswer      \* the caller has no answer to report

ASSUME SpacingAssumption == MinSpacing \in Nat /\ MaxPenalty \in Nat
ASSUME AnswersAssumption == Throttled \subseteq Answers
ASSUME FreeAssumption == Free \notin Callers
ASSUME NoAnswerAssumption == NoAnswer \notin Answers

VARIABLES mu,       \* the holder of Throttler.mu, or Free
          penalty,  \* Throttler.penalty
          age,      \* now - lastSent, saturated at Horizon
          left,     \* what is left of the holder's sleep
          phase,    \* where each caller is in the protocol
          answer    \* the answer each caller has still to report

tvars == <<mu, penalty, age, left, phase, answer>>

Horizon == MinSpacing + MaxPenalty

Capped(n, bound) == IF n <= bound THEN n ELSE bound

Phases == {"idle", "waiting", "sleeping", "inflight", "reporting"}

(* State types: every delay stays within its configured bound.             *)
TypeOK ==
    /\ mu \in Callers \cup {Free}
    /\ penalty \in 0..MaxPenalty
    /\ age \in 0..Horizon
    /\ left \in 0..Horizon
    /\ phase \in [Callers -> Phases]
    /\ answer \in [Callers -> Answers \cup {NoAnswer}]

Init ==
    /\ mu = Free
    /\ penalty = 0
    /\ age = Horizon
    /\ left = 0
    /\ phase = [c \in Callers |-> "idle"]
    /\ answer = [c \in Callers |-> NoAnswer]

-----------------------------------------------------------------------------
Goto(c, p) == phase' = [phase EXCEPT ![c] = p]

(* The client has a request to send and calls BeforeRequest.               *)
Ask(c) ==
    /\ phase[c] = "idle"
    /\ Goto(c, "waiting")
    /\ UNCHANGED <<mu, penalty, age, left, answer>>

(* BeforeRequest has the mutex and computes its wait; it keeps the mutex   *)
(* while it sleeps.                                                        *)
Positive(n) == IF n > 0 THEN n ELSE 0

Mutant_WaitIgnoresPenalty == Positive(MinSpacing - age)
Mutant_WaitIgnoresElapsed == MinSpacing + penalty
Wait == Positive(MinSpacing + penalty - age)

Mutant_NoLock == TRUE
MutexFree == mu = Free

Enter(c) ==
    /\ phase[c] = "waiting"
    /\ MutexFree
    /\ mu' = c
    /\ left' = Wait
    /\ Goto(c, "sleeping")
    /\ UNCHANGED <<penalty, age, answer>>

(* The sleep is over: lastSent = now, and the mutex is released.           *)
Mutant_KeepLock == mu
Unlocked == Free

Grant(c) ==
    /\ phase[c] = "sleeping"
    /\ left = 0
    /\ age' = 0
    /\ mu' = Unlocked
    /\ Goto(c, "inflight")
    /\ UNCHANGED <<penalty, left, answer>>

(* The server answers, or http.Do fails: a failed call reports nothing.    *)
Answer(c, a) ==
    /\ phase[c] = "inflight"
    /\ answer' = [answer EXCEPT ![c] = a]
    /\ Goto(c, "reporting")
    /\ UNCHANGED <<mu, penalty, age, left>>

Fail(c) ==
    /\ phase[c] = "inflight"
    /\ Goto(c, "idle")
    /\ UNCHANGED <<mu, penalty, age, left, answer>>

(* AfterResponse.                                                          *)
Doubled == IF penalty = 0 THEN MinSpacing ELSE 2 * penalty

Mutant_NoCap(a) == IF a \in Throttled THEN Doubled ELSE 0
NextPenalty(a) ==
    IF a \in Throttled THEN Capped(Doubled, MaxPenalty) ELSE 0

Report(c) ==
    /\ phase[c] = "reporting"
    /\ MutexFree
    /\ penalty' = NextPenalty(answer[c])
    /\ answer' = [answer EXCEPT ![c] = NoAnswer]
    /\ Goto(c, "idle")
    /\ UNCHANGED <<mu, age, left>>

Tick ==
    /\ age' = Capped(age + 1, Horizon)
    /\ left' = IF left > 0 THEN left - 1 ELSE 0
    /\ UNCHANGED <<mu, penalty, phase, answer>>

Step(c) ==
    \/ Ask(c) \/ Enter(c) \/ Grant(c) \/ Fail(c) \/ Report(c)
    \/ \E a \in Answers : Answer(c, a)

Next == Tick \/ \E c \in Callers : Step(c)

Spec == Init /\ [][Next]_tvars

(* The clock advances, a sleeper wakes, a waiter gets the mutex: sync.Mutex *)
(* hands it to a waiter that has starved for a millisecond, which is strong *)
(* fairness.  Neither the callers nor the server owe anything.              *)
Fairness ==
    /\ WF_tvars(Tick)
    /\ \A c \in Callers :
        /\ WF_tvars(Grant(c))
        /\ SF_tvars(Enter(c))
        /\ SF_tvars(Report(c))

FairSpec == Spec /\ Fairness

-----------------------------------------------------------------------------
Granted(c) == phase[c] = "sleeping" /\ phase'[c] = "inflight"

(* A request is let through only when minSpacing plus the penalty in force *)
(* at that moment has passed since the one before: a penalty raised while  *)
(* a caller sleeps would be ignored by that caller, and the mutex held     *)
(* through the sleep (BeforeRequest) is what excludes it.                  *)
GrantsAreSpaced ==
    [][\A c \in Callers : Granted(c) => age >= MinSpacing + penalty]_tvars

(* Whoever sleeps holds the mutex, and nobody else does: the penalty, the  *)
(* spacing clock and the sleep belong to one BeforeRequest at a time.      *)
SleeperHoldsMutex == \A c \in Callers : mu = c <=> phase[c] = "sleeping"

(* The sleep in progress is exactly long enough: it never ends early and,  *)
(* while it lasts, no part of it is beyond what the penalty calls for.     *)
SleepIsExact ==
    \A c \in Callers : phase[c] = "sleeping" =>
        /\ left + age >= MinSpacing + penalty
        /\ left > 0 => left + age = MinSpacing + penalty

(* Everyone gets through: whoever is in BeforeRequest is let through, and  *)
(* every answer reaches the penalty, as AfterResponse waits for sleepers   *)
(* but not forever, however many compete for the mutex and however often   *)
(* the server pushes back.                                                 *)
EveryoneGetsThrough ==
    \A c \in Callers : /\ phase[c] = "waiting" ~> phase[c] = "inflight"
                       /\ phase[c] = "reporting" ~> phase[c] = "idle"
=============================================================================
