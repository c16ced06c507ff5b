--------------------------- MODULE EsiClientProofs ---------------------------
(***************************************************************************)
(* Proofs about EsiClient for every set of callers and ids and every       *)
(* number of retries.  The inductive invariant says of each caller by      *)
(* itself where the ids of its batch are, and of the caches that they hold *)
(* what the server answered: overlapping calls share nothing else.         *)
(***************************************************************************)
EXTENDS EsiClient, TLAPS

Current(c) == IF cur[c] = None THEN {} ELSE {cur[c]}

\* An id is current from the miss to the store; a resolution has none.
CurrentInTurn(c) ==
    /\ pc[c] \in {"lookup", "evict", "store"} => method[c] = "batch"
    /\ pc[c] # "idle" => method[c] # None
    /\ pc[c] \in {"idle", "lookup"} \/ method[c] # "batch" => cur[c] = None
    /\ pc[c] \notin {"idle", "lookup"} /\ method[c] = "batch" => cur[c] # None
    /\ pc[c] = "idle" \/ method[c] # "batch" => missing[c] = {}

\* Every id of a running batch is in exactly one place; the one being
\* evicted has not left todo.
Partition(c) ==
    pc[c] # "idle" /\ method[c] = "batch" =>
        /\ asked[c] = got[c] \cup failed[c] \cup todo[c] \cup missing[c]
                        \cup Current(c)
        /\ got[c] \cap failed[c] = {}
        /\ todo[c] \cap (got[c] \cup failed[c] \cup missing[c]) = {}
        /\ missing[c] \cap (got[c] \cup failed[c]) = {}
        /\ Current(c) \cap (got[c] \cup failed[c] \cup missing[c]) = {}
        /\ pc[c] = "evict" => cur[c] \in todo[c]
        /\ pc[c] # "evict" => Current(c) \cap todo[c] = {}
        /\ result[c] = None

\* What a batch that has returned tells its caller.
Accounted(c) ==
    method[c] = "batch" =>
        /\ got[c] \cap failed[c] = {}
        /\ result[c] = "ok" => got[c] = asked[c]
        /\ result[c] = "partial" =>
              failed[c] # {} /\ got[c] \cup failed[c] = asked[c]
        /\ result[c] = "limited" => got[c] \cup failed[c] # asked[c]

\* The loop variable of doJSON counts the transient answers to a batch.
Counted(c) ==
    method[c] = "batch" =>
        /\ ~spent[c]
        /\ pc[c] \in {"send", "wire"} => tries[c] = attempt[c]

Answered(c) ==
    /\ got[c] \subseteq served
    /\ pc[c] = "store" => cur[c] \in served

CallInv(c) ==
    /\ CurrentInTurn(c) /\ Partition(c) /\ Accounted(c)
    /\ Counted(c) /\ Answered(c)

CacheServed == \A i \in Ids : cache[i] # None => i \in served

IInv == TypeOK /\ CacheServed /\ \A c \in Callers : CallInv(c)

-----------------------------------------------------------------------------
\* All that a caller has of its own.
Own(c) == <<pc[c], method[c], asked[c], todo[c], missing[c], cur[c],
            attempt[c], spent[c], got[c], failed[c], result[c], tries[c]>>

(* A caller's part of the invariant is its own, but for what the server    *)
(* has answered, which only grows.                                         *)
LEMMA OwnInv ==
    ASSUME NEW c \in Callers, CallInv(c), Own(c)' = Own(c),
           served \subseteq served'
    PROVE  CallInv(c)'
BY DEF Own, CallInv, CurrentInTurn, Partition, Current, Accounted, Counted,
       Answered

(* So a step of c has to keep c's part, the types and the cache.           *)
LEMMA StepOf ==
    ASSUME IInv, NEW c \in Callers,
           \A d \in Callers \ {c} : Own(d)' = Own(d),
           served \subseteq served',
           TypeOK', CacheServed', CallInv(c)'
    PROVE  IInv'
BY OwnInv DEF IInv

LEMMA InitInv == Init => IInv
BY RetryAssumption, NoneAssumption
   DEF Init, IInv, TypeOK, CacheServed, CallInv, CurrentInTurn, Partition,
       Accounted, Counted, Answered

LEMMA BeginInv ==
    ASSUME IInv, NEW c \in Callers, NEW m \in Methods, NEW A \in SUBSET Ids,
           Begin(c, m, A)
    PROVE  IInv'
<1> USE DEF IInv
<1>1. /\ pc[c] = "idle" /\ m \in {"resolve", "batch"}
      /\ method' = [method EXCEPT ![c] = m] /\ asked' = [asked EXCEPT ![c] = A]
      /\ todo' = [todo EXCEPT ![c] = A] /\ got' = [got EXCEPT ![c] = {}]
      /\ failed' = [failed EXCEPT ![c] = {}]
      /\ result' = [result EXCEPT ![c] = None]
      /\ attempt' = [attempt EXCEPT ![c] = 0]
      /\ tries' = [tries EXCEPT ![c] = 0]
      /\ spent' = [spent EXCEPT ![c] = FALSE]
      /\ pc' = [pc EXCEPT ![c] = IF m = "batch" THEN "lookup" ELSE "send"]
      /\ UNCHANGED <<kind, cache, missing, cur, served>>
  BY MethodsAssumption DEF Begin, Put, Goto
<1>2. TypeOK'
  BY <1>1, RetryAssumption DEF TypeOK
<1>3. \A d \in Callers \ {c} : Own(d)' = Own(d)
  BY <1>1 DEF TypeOK, Own
<1>4. cur[c] = None /\ missing[c] = {}
  BY <1>1 DEF CallInv, CurrentInTurn
<1>5. CallInv(c)'
  BY <1>1, <1>4, NoneAssumption
     DEF TypeOK, CallInv, CurrentInTurn, Partition, Current, Accounted,
         Counted, Answered
<1>6. QED
  BY <1>1, <1>2, <1>3, <1>5, StepOf DEF CacheServed

(* An id that was not in the cache: GetCharacters sets it aside, the other *)
(* batch call fetches it.                                                  *)
LEMMA MissedInv ==
    ASSUME IInv, NEW c \in Callers, NEW i \in todo[c], method[c] = "batch",
           pc[c] = "lookup" \/ (pc[c] = "evict" /\ cur[c] = i),
           Missed(c, i), CacheServed',
           UNCHANGED <<kind, method, asked, spent, got, failed, result,
                       served>>,
           cache' \in [Ids -> {"fresh", "expired", None}]
    PROVE  IInv'
<1> USE DEF IInv
<1>1. todo' = [todo EXCEPT ![c] = todo[c] \ {i}] /\ i \in Ids
  BY DEF Missed, Put, TypeOK
<1>2. \/ /\ missing' = [missing EXCEPT ![c] = missing[c] \cup {i}]
         /\ pc' = [pc EXCEPT ![c] = "lookup"] /\ cur' = [cur EXCEPT ![c] = None]
         /\ UNCHANGED <<attempt, tries>>
      \/ /\ UNCHANGED missing
         /\ pc' = [pc EXCEPT ![c] = "send"] /\ cur' = [cur EXCEPT ![c] = i]
         /\ attempt' = [attempt EXCEPT ![c] = 0]
         /\ tries' = [tries EXCEPT ![c] = 0]
  BY DEF Missed, Put, Goto, Fetch
<1>3. TypeOK'
  BY <1>1, <1>2, RetryAssumption DEF TypeOK
<1>4. \A d \in Callers \ {c} : Own(d)' = Own(d)
  BY <1>1, <1>2 DEF TypeOK, Own
<1>5. CallInv(c)'
  <2>1. (CurrentInTurn(c) /\ Counted(c) /\ Answered(c) /\ Accounted(c))'
    BY <1>1, <1>2, NoneAssumption
       DEF TypeOK, CallInv, CurrentInTurn, Counted, Answered, Accounted
  <2>2. Partition(c)'
    BY <1>1, <1>2, NoneAssumption
       DEF TypeOK, CallInv, CurrentInTurn, Partition, Current
  <2>3. QED
    BY <2>1, <2>2 DEF CallInv
<1>6. QED
  BY <1>3, <1>4, <1>5, StepOf

LEMMA LookUpInv ==
    ASSUME IInv, NEW c \in Callers, NEW i \in Ids, LookUp(c, i)
    PROVE  IInv'
<1> USE DEF IInv
<1>1. /\ pc[c] = "lookup" /\ i \in todo[c] /\ method[c] = "batch"
      /\ UNCHANGED <<kind, cache, method, asked, spent, failed, result, served>>
  BY DEF LookUp, CallInv, CurrentInTurn
<1>2. CacheServed' /\ cache' \in [Ids -> {"fresh", "expired", None}]
  BY <1>1 DEF CacheServed, TypeOK
<1>3. CASE Missed(c, i) /\ UNCHANGED got
  BY <1>1, <1>2, <1>3, MissedInv
<1>4. CASE /\ cache[i] = "fresh"
           /\ got' = [got EXCEPT ![c] = got[c] \cup {i}]
           /\ todo' = [todo EXCEPT ![c] = todo[c] \ {i}]
           /\ UNCHANGED <<pc, missing, cur, attempt, tries>>
  <2>1. TypeOK' /\ \A d \in Callers \ {c} : Own(d)' = Own(d)
    BY <1>1, <1>4 DEF TypeOK, Own
  <2>2. i \in served
    BY <1>4, NoneAssumption DEF CacheServed
  <2>3. CallInv(c)'
    BY <1>1, <1>4, <2>2, NoneAssumption
       DEF TypeOK, CallInv, CurrentInTurn, Partition, Current, Accounted,
           Counted, Answered
  <2>4. QED
    BY <1>1, <1>2, <2>1, <2>3, StepOf
<1>5. CASE /\ pc' = [pc EXCEPT ![c] = "evict"] /\ cur' = [cur EXCEPT ![c] = i]
           /\ UNCHANGED <<todo, got, missing, attempt, tries>>
  <2>1. TypeOK' /\ \A d \in Callers \ {c} : Own(d)' = Own(d)
    BY <1>1, <1>5 DEF TypeOK, Own
  <2>2. CallInv(c)'
    BY <1>1, <1>5, NoneAssumption
       DEF TypeOK, CallInv, CurrentInTurn, Partition, Current, Accounted,
           Counted, Answered
  <2>3. QED
    BY <1>1, <1>2, <2>1, <2>2, StepOf
<1>6. QED
  BY <1>3, <1>4, <1>5 DEF LookUp, Put, Goto

LEMMA EvictInv == ASSUME IInv, NEW c \in Callers, Evict(c) PROVE IInv'
<1> USE DEF IInv
<1>1. /\ pc[c] = "evict" /\ method[c] = "batch" /\ cur[c] \in todo[c]
      /\ cur[c] \in Ids
  BY DEF Evict, CallInv, CurrentInTurn, Partition, TypeOK
<1>2. /\ cache' = [cache EXCEPT ![cur[c]] = None] /\ Missed(c, cur[c])
      /\ UNCHANGED <<kind, method, asked, spent, got, failed, result, served>>
  BY DEF Evict
<1>3. CacheServed' /\ cache' \in [Ids -> {"fresh", "expired", None}]
  BY <1>1, <1>2 DEF CacheServed, TypeOK
<1>4. PICK i \in todo[c] : i = cur[c]
  BY <1>1
<1>5. Missed(c, i)
  BY <1>2, <1>4 DEF Missed, Fetch
<1>6. QED
  BY <1>1, <1>2, <1>3, <1>4, <1>5, MissedInv

LEMMA FetchMissingInv ==
    ASSUME IInv, NEW c \in Callers, NEW i \in Ids, FetchMissing(c, i)
    PROVE  IInv'
<1> USE DEF IInv
<1>1. /\ pc[c] = "lookup" /\ i \in missing[c] /\ method[c] = "batch"
      /\ missing' = [missing EXCEPT ![c] = missing[c] \ {i}]
      /\ pc' = [pc EXCEPT ![c] = "send"] /\ cur' = [cur EXCEPT ![c] = i]
      /\ attempt' = [attempt EXCEPT ![c] = 0]
      /\ tries' = [tries EXCEPT ![c] = 0]
      /\ UNCHANGED <<kind, cache, method, asked, todo, spent, got, failed,
                     result, served>>
  BY DEF FetchMissing, Fetch, Put, Goto, CallInv, CurrentInTurn
<1>2. TypeOK' /\ CacheServed' /\ \A d \in Callers \ {c} : Own(d)' = Own(d)
  BY <1>1, RetryAssumption DEF TypeOK, CacheServed, Own
<1>3. CallInv(c)'
  BY <1>1, NoneAssumption
     DEF TypeOK, CallInv, CurrentInTurn, Partition, Current, Accounted,
         Counted, Answered
<1>4. QED
  BY <1>1, <1>2, <1>3, StepOf

\* What a step of c does to the body of its POST and to the count of
\* transient answers; a batch has no body.
Bookkept(c) ==
    /\ spent' \in [Callers -> BOOLEAN]
    /\ tries' \in [Callers -> 0..RetryMax + 1]
    /\ \A d \in Callers \ {c} : spent'[d] = spent[d] /\ tries'[d] = tries[d]
    /\ method[c] = "batch" => spent'[c] = spent[c]

(* A request given up leaves a batch with one more failed id, and ends a   *)
(* resolution.                                                             *)
LEMMA GiveUpInv ==
    ASSUME IInv, NEW c \in Callers, pc[c] \in {"send", "wire"}, GiveUp(c),
           Bookkept(c),
           UNCHANGED <<kind, cache, method, asked, todo, missing, got, served>>
    PROVE  IInv'
<1> USE DEF IInv
<1>1. CASE method[c] = "batch"
  <2>1. /\ failed' = [failed EXCEPT ![c] = failed[c] \cup {cur[c]}]
        /\ cur' = [cur EXCEPT ![c] = None] /\ pc' = [pc EXCEPT ![c] = "lookup"]
        /\ UNCHANGED <<result, attempt>>
    BY <1>1 DEF GiveUp, Noted, Put, Goto
  <2>2. cur[c] \in Ids /\ Current(c) = {cur[c]}
    BY <1>1 DEF CallInv, CurrentInTurn, TypeOK, Current
  <2>3. TypeOK' /\ CacheServed' /\ \A d \in Callers \ {c} : Own(d)' = Own(d)
    BY <2>1, <2>2 DEF TypeOK, CacheServed, Own, Bookkept
  <2>4. CallInv(c)'
    BY <1>1, <2>1, <2>2, NoneAssumption
       DEF TypeOK, CallInv, CurrentInTurn, Partition, Current, Accounted,
           Counted, Answered, Bookkept
  <2>5. QED
    BY <2>3, <2>4, StepOf
<1>2. CASE method[c] # "batch"
  <2>1. /\ result' = [result EXCEPT ![c] = "error"]
        /\ pc' = [pc EXCEPT ![c] = "idle"] /\ UNCHANGED <<failed, cur, attempt>>
    BY <1>2 DEF GiveUp, Put, Goto
  <2>2. TypeOK' /\ CacheServed' /\ \A d \in Callers \ {c} : Own(d)' = Own(d)
    BY <2>1 DEF TypeOK, CacheServed, Own, Bookkept
  <2>3. CallInv(c)'
    BY <1>2, <2>1, NoneAssumption
       DEF TypeOK, CallInv, CurrentInTurn, Partition, Current, Accounted,
           Counted, Answered
  <2>4. QED
    BY <2>2, <2>3, StepOf
<1>3. QED
  BY <1>1, <1>2

LEMMA SendInv == ASSUME IInv, NEW c \in Callers, Send(c) PROVE IInv'
<1> USE DEF IInv
<1>1. /\ pc[c] = "send"
      /\ UNCHANGED <<kind, cache, method, asked, todo, missing, spent, got,
                     served, tries>>
  BY DEF Send
<1>2. CASE GiveUp(c)
  <2>1. Bookkept(c)
    BY <1>1 DEF Bookkept, TypeOK
  <2>2. UNCHANGED <<kind, cache, method, asked, todo, missing, got, served>>
    BY <1>1
  <2>3. QED
    BY <1>1, <1>2, <2>1, <2>2, GiveUpInv
<1>3. CASE /\ pc' = [pc EXCEPT ![c] = "wire"]
           /\ UNCHANGED <<failed, cur, result, attempt>>
  <2>1. TypeOK' /\ CacheServed' /\ \A d \in Callers \ {c} : Own(d)' = Own(d)
    BY <1>1, <1>3 DEF TypeOK, CacheServed, Own
  <2>2. CallInv(c)'
    BY <1>1, <1>3
       DEF TypeOK, CallInv, CurrentInTurn, Partition, Current, Accounted,
           Counted, Answered
  <2>3. QED
    BY <1>1, <2>1, <2>2, StepOf
<1>4. QED
  BY <1>2, <1>3 DEF Send, Goto, Put

LEMMA AnswerBooks ==
    ASSUME IInv, NEW c \in Callers, NEW a \in Answers, Answer(c, a)
    PROVE  /\ pc[c] = "wire" /\ Bookkept(c)
           /\ UNCHANGED <<kind, cache, method, asked, got>>
           /\ a \in Transient => tries'[c] = IF tries[c] <= RetryMax
                                             THEN tries[c] + 1 ELSE tries[c]
           /\ a \notin Transient => tries'[c] = tries[c]
<1>1. /\ pc[c] = "wire" /\ UNCHANGED <<kind, cache, method, asked, got>>
      /\ Spends(c, a)
      /\ tries' = [tries EXCEPT ![c] =
                      IF a \in Transient /\ tries[c] <= RetryMax
                      THEN tries[c] + 1 ELSE tries[c]]
  BY DEF Answer
<1>2. spent' = spent \/ (/\ method[c] # "batch"
                        /\ spent' = [spent EXCEPT ![c] = TRUE])
  BY <1>1 DEF Spends
<1>3. Bookkept(c)
  <2>1. /\ spent' \in [Callers -> BOOLEAN]
        /\ \A d \in Callers \ {c} : spent'[d] = spent[d]
        /\ method[c] = "batch" => spent'[c] = spent[c]
    BY <1>2 DEF IInv, TypeOK
  <2>2. tries[c] \in 0..RetryMax + 1 /\ tries \in [Callers -> 0..RetryMax + 1]
    BY DEF IInv, TypeOK
  <2>3. (IF a \in Transient /\ tries[c] <= RetryMax
           THEN tries[c] + 1 ELSE tries[c]) \in 0..RetryMax + 1
    BY <2>2, RetryAssumption
  <2>4. /\ tries' \in [Callers -> 0..RetryMax + 1]
        /\ \A d \in Callers \ {c} : tries'[d] = tries[d]
    BY <1>1, <2>2, <2>3
  <2>5. QED
    BY <2>1, <2>4 DEF Bookkept
<1>4. QED
  BY <1>1, <1>3 DEF IInv, TypeOK

LEMMA AnswerInv ==
    ASSUME IInv, NEW c \in Callers, NEW a \in Answers, Answer(c, a)
    PROVE  IInv'
<1> USE DEF IInv
<1>1. /\ pc[c] = "wire" /\ UNCHANGED <<kind, cache, method, asked, got>>
      /\ spent' \in [Callers -> BOOLEAN]
      /\ tries' \in [Callers -> 0..RetryMax + 1]
      /\ \A d \in Callers \ {c} : spent'[d] = spent[d] /\ tries'[d] = tries[d]
      /\ method[c] = "batch" => spent'[c] = spent[c]
  BY AnswerBooks DEF Bookkept
<1>2. CASE Usable(a)
  <2>1. /\ UNCHANGED <<todo, missing, cur, failed, attempt>>
        /\ \/ /\ method[c] = "batch"
              /\ pc' = [pc EXCEPT ![c] = "store"] /\ UNCHANGED result
           \/ /\ method[c] # "batch" /\ pc' = [pc EXCEPT ![c] = "idle"]
              /\ result' = [result EXCEPT ![c] = "ok"]
    BY <1>2 DEF Answer, Usable, Transient, Limit, Put, Goto
  <2>2. served' = IF method[c] = "batch" THEN served \cup {cur[c]} ELSE served
    BY <1>2 DEF Answer, Usable
  <2>3. method[c] = "batch" => cur[c] \in Ids
    BY <1>1 DEF CallInv, CurrentInTurn, TypeOK
  <2>4. TypeOK' /\ CacheServed' /\ \A d \in Callers \ {c} : Own(d)' = Own(d)
    BY <1>1, <2>1, <2>2, <2>3 DEF TypeOK, CacheServed, Own
  <2>5. CallInv(c)'
    BY <1>1, <2>1, <2>2, NoneAssumption
       DEF TypeOK, CallInv, CurrentInTurn, Partition, Current, Accounted,
           Counted, Answered
  <2>6. QED
    BY <2>2, <2>4, <2>5, StepOf
<1>3. CASE ~Usable(a)
  <2>1. UNCHANGED served
    BY <1>3 DEF Answer, Usable
  <2>2. CASE /\ a \in Transient /\ attempt[c] < RetryMax
             /\ attempt' = [attempt EXCEPT ![c] = attempt[c] + 1]
             /\ pc' = [pc EXCEPT ![c] = "send"]
             /\ UNCHANGED <<todo, missing, cur, failed, result>>
    <3>1. TypeOK' /\ CacheServed' /\ \A d \in Callers \ {c} : Own(d)' = Own(d)
      BY <1>1, <2>1, <2>2, RetryAssumption DEF TypeOK, CacheServed, Own
    <3>2. method[c] = "batch" => tries'[c] = attempt'[c]
      BY <1>1, <2>2, AnswerBooks, RetryAssumption DEF TypeOK, CallInv, Counted
    <3>3. CallInv(c)'
      BY <1>1, <2>1, <2>2, <3>2
         DEF TypeOK, CallInv, CurrentInTurn, Partition, Current, Accounted,
             Counted, Answered
    <3>4. QED
      BY <2>1, <3>1, <3>3, StepOf
  <2>3. CASE Limit(c)
    <3>1. /\ result' = [result EXCEPT ![c] = "limited"]
          /\ todo' = [todo EXCEPT ![c] = {}]
          /\ missing' = [missing EXCEPT ![c] = {}]
          /\ cur' = [cur EXCEPT ![c] = None] /\ pc' = [pc EXCEPT ![c] = "idle"]
          /\ UNCHANGED <<failed, attempt>>
      BY <2>3 DEF Limit, Put, Goto
    <3>2. TypeOK' /\ CacheServed' /\ \A d \in Callers \ {c} : Own(d)' = Own(d)
      BY <1>1, <2>1, <3>1 DEF TypeOK, CacheServed, Own
    <3>3. method[c] = "batch" =>
             /\ cur[c] \in asked[c] \ (got[c] \cup failed[c])
             /\ got[c] \cap failed[c] = {}
      BY <1>1 DEF CallInv, CurrentInTurn, Partition, Current
    <3>4. CallInv(c)'
      BY <1>1, <2>1, <3>1, <3>3, NoneAssumption
         DEF TypeOK, CallInv, CurrentInTurn, Partition, Current, Accounted,
             Counted, Answered
    <3>5. QED
      BY <2>1, <3>2, <3>4, StepOf
  <2>4. CASE GiveUp(c) /\ UNCHANGED <<todo, missing>>
    <3>1. Bookkept(c)
      BY AnswerBooks
    <3>2. UNCHANGED <<kind, cache, method, asked, todo, missing, got, served>>
      BY <1>1, <2>1, <2>4
    <3>3. QED
      BY <1>1, <2>4, <3>1, <3>2, GiveUpInv
  <2>5. QED
    BY <1>3, <2>2, <2>3, <2>4 DEF Answer, MayRetry, NextAttempt, Put, Goto
<1>4. QED
  BY <1>2, <1>3

LEMMA StoreInv == ASSUME IInv, NEW c \in Callers, Store(c) PROVE IInv'
<1> USE DEF IInv
<1>1. /\ pc[c] = "store" /\ pc' = [pc EXCEPT ![c] = "lookup"]
      /\ cache' = [cache EXCEPT ![cur[c]] = "fresh"]
      /\ got' = [got EXCEPT ![c] = got[c] \cup {cur[c]}]
      /\ cur' = [cur EXCEPT ![c] = None]
      /\ UNCHANGED <<kind, method, asked, todo, missing, attempt, spent, failed,
                     result, served, tries>>
  BY DEF Store, Put, Goto
<1>2. method[c] = "batch" /\ cur[c] \in Ids /\ cur[c] \in served
  BY <1>1 DEF CallInv, CurrentInTurn, Answered, TypeOK
<1>3. TypeOK' /\ CacheServed' /\ \A d \in Callers \ {c} : Own(d)' = Own(d)
  BY <1>1, <1>2 DEF TypeOK, CacheServed, Own
<1>4. CallInv(c)'
  BY <1>1, <1>2, NoneAssumption
     DEF TypeOK, CallInv, CurrentInTurn, Partition, Current, Accounted,
         Counted, Answered
<1>5. QED
  BY <1>1, <1>3, <1>4, StepOf

LEMMA FinishInv == ASSUME IInv, NEW c \in Callers, Finish(c) PROVE IInv'
<1> USE DEF IInv
<1>1. /\ pc[c] = "lookup" /\ todo[c] = {} /\ missing[c] = {}
      /\ method[c] = "batch" /\ pc' = [pc EXCEPT ![c] = "idle"]
      /\ result' = [result EXCEPT ![c] = IF failed[c] = {} THEN "ok"
                                                          ELSE "partial"]
      /\ UNCHANGED <<kind, cache, method, asked, todo, missing, cur, attempt,
                     spent, got, failed, served, tries>>
  BY DEF Finish, Put, Goto, CallInv, CurrentInTurn
<1>2. TypeOK' /\ CacheServed' /\ \A d \in Callers \ {c} : Own(d)' = Own(d)
  BY <1>1 DEF TypeOK, CacheServed, Own
<1>3. asked[c] = got[c] \cup failed[c] /\ cur[c] = None
  BY <1>1 DEF CallInv, CurrentInTurn, Partition, Current
<1>4. CallInv(c)'
  BY <1>1, <1>3, NoneAssumption
     DEF TypeOK, CallInv, CurrentInTurn, Partition, Current, Accounted,
         Counted, Answered
<1>5. QED
  BY <1>1, <1>2, <1>4, StepOf

LEMMA QuietInv ==
    ASSUME IInv, (\E i \in Ids : Expire(i)) \/ UNCHANGED vars
    PROVE  IInv'
<1>1. /\ UNCHANGED <<kind, pc, method, asked, todo, missing, cur, attempt,
                     spent, got, failed, result, served, tries>>
      /\ \/ \E i \in Ids : /\ cache[i] = "fresh"
                           /\ cache' = [cache EXCEPT ![i] = "expired"]
         \/ UNCHANGED cache
  BY DEF Expire, vars, call
<1>2. TypeOK' /\ CacheServed'
  BY <1>1, NoneAssumption DEF IInv, TypeOK, CacheServed
<1>3. \A d \in Callers : CallInv(d)'
  BY <1>1, OwnInv DEF Own, IInv
<1>4. QED
  BY <1>2, <1>3 DEF IInv

LEMMA StepInv == IInv /\ [Next]_vars => IInv'
<1> SUFFICES ASSUME IInv, [Next]_vars PROVE IInv'
  OBVIOUS
<1>1. ASSUME NEW c \in Callers, Work(c) PROVE IInv'
  BY <1>1, EvictInv, SendInv, StoreInv, FinishInv, LookUpInv, FetchMissingInv,
     AnswerInv DEF Work
<1>2. CASE \E c \in Callers, m \in Methods, A \in SUBSET Ids : Begin(c, m, A)
  BY <1>2, BeginInv
<1>3. CASE (\E i \in Ids : Expire(i)) \/ UNCHANGED vars
  BY <1>3, QuietInv
<1>4. QED
  BY <1>1, <1>2, <1>3 DEF Next

LEMMA Invariance == Spec => []IInv
BY InitInv, StepInv, PTL DEF Spec

-----------------------------------------------------------------------------
(* The loop variable of doJSON stays within retryMax and an id is fetched, *)
(* kept or failed only if it was asked for.                                *)
THEOREM TypeCorrect == Spec => []TypeOK
<1>1. IInv => TypeOK
  BY DEF IInv
<1>2. QED
  BY Invariance, <1>1, PTL

(* No batch call loses an id, or reports one both found and failed.        *)
THEOREM Accounts == Spec => []BatchAccounted
<1>1. IInv => BatchAccounted
  BY DEF IInv, CallInv, Accounted, BatchAccounted
<1>2. QED
  BY Invariance, <1>1, PTL

(* Nothing is cached or returned that the server did not answer.           *)
THEOREM KeepsServed == Spec => []OnlyServedIsKept
<1>1. IInv => OnlyServedIsKept
  BY DEF IInv, CallInv, Answered, CacheServed, OnlyServedIsKept
<1>2. QED
  BY Invariance, <1>1, PTL

(* The GETs of a batch call are retried as configured before an id is      *)
(* given up: unlike the POST of ResolveNames they have no body to spend.   *)
THEOREM BatchRetries == Spec => BatchRetriesAreUsed
<1> DEFINE Ok == \A c \in Callers :
                    method[c] = "batch" /\ GivesUp(c) => Rightly(c)
<1>1. IInv /\ [Next]_vars => [Ok]_vars
  <2> SUFFICES ASSUME IInv, Next, NEW c \in Callers,
                      method[c] = "batch", GivesUp(c)
               PROVE  Rightly(c)
    OBVIOUS
  <2> USE DEF IInv
  <2>1. \/ failed'[c] # failed[c] /\ failed'[c] # {}
        \/ result'[c] # result[c] /\ result'[c] = "error"
    BY NoneAssumption DEF GivesUp
  <2>2. ASSUME NEW d \in Callers \ {c}, Work(d) PROVE FALSE
    <3>1. failed'[c] = failed[c] /\ result'[c] = result[c]
      BY <2>2 DEF Work, Evict, Send, Store, Finish, LookUp, FetchMissing,
                  Answer, GiveUp, Limit, Put, Goto, TypeOK
    <3>2. QED
      BY <2>1, <3>1
  <2>3. ASSUME NEW d \in Callers, NEW m \in Methods, NEW A \in SUBSET Ids,
               Begin(d, m, A)
        PROVE  FALSE
    <3>1. /\ failed' = [failed EXCEPT ![d] = {}]
          /\ result' = [result EXCEPT ![d] = None]
      BY <2>3 DEF Begin, Put
    <3>2. QED
      BY <2>1, <3>1, NoneAssumption DEF TypeOK
  <2>4. ASSUME Work(c), \A a \in Answers : ~Answer(c, a) PROVE FALSE
    <3>1. ~(spent[c] /\ GiveUp(c))
      BY DEF CallInv, Counted
    <3>2. failed' = failed
      BY <2>4, <3>1 DEF Work, Evict, Send, Store, Finish, LookUp, FetchMissing
    <3>3. result'[c] = result[c] \/ result'[c] \in {"ok", "partial"}
      BY <2>4, <3>1 DEF Work, Evict, Send, Store, Finish, LookUp,
                        FetchMissing, Put, TypeOK
    <3>4. QED
      BY <2>1, <3>2, <3>3
  <2>5. ASSUME NEW a \in Answers, Answer(c, a) PROVE Rightly(c)
    <3>1. CASE a \notin Transient
      BY <2>5, <3>1, AnswerBooks DEF Rightly
    <3>2. CASE a \in Transient
      <4>1. a \in {"5xx", "timeout"} /\ ~Usable(a)
        BY <3>2 DEF Transient, Usable
      <4>2. ~(UNCHANGED <<todo, missing, cur, failed, result>>)
        BY <2>1
      <4>3. ~MayRetry(c)
        BY <2>5, <3>2, <4>1, <4>2 DEF Answer
      <4>4. pc[c] = "wire" /\ attempt[c] = RetryMax /\ tries[c] = attempt[c]
        BY <2>5, <4>3, RetryAssumption
           DEF Answer, MayRetry, TypeOK, CallInv, Counted
      <4>5. tries'[c] = RetryMax + 1
        BY <2>5, <3>2, <4>4, AnswerBooks, RetryAssumption
      <4>6. QED
        BY <4>5 DEF Rightly
    <3>3. QED
      BY <3>1, <3>2
  <2>6. ASSUME NEW i \in Ids, Expire(i) PROVE FALSE
    BY <2>1, <2>6 DEF Expire, call
  <2>7. QED
    BY <2>2, <2>3, <2>4, <2>5, <2>6 DEF Next
<1>2. QED
  BY Invariance, <1>1, PTL DEF Spec, BatchRetriesAreUsed
==============================================================================
