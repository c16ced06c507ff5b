------------------------------ MODULE EsiClient ------------------------------
(***************************************************************************)
(* The ESI client of internal/providers/esi/client.go over the TTL cache   *)
(* of internal/cache/cache.go: ResolveNames, and the batch calls           *)
(* GetCharacters and GetCorporations / GetAlliances (getEntityNames), with *)
(* the retries of doJSON.  Callers are goroutines of overlapping analyses; *)
(* the caches are all they share.  The three batch calls have a cache      *)
(* each, so a behaviour is about one of the two kinds of batch, chosen in  *)
(* the initial state, beside any number of name resolutions.               *)
(*                                                                         *)
(* Entries expire at any moment: no ttl is 0 here (TTLFromHeaders falls    *)
(* back to 24 h).  Ids are positive and distinct (dedupeIDs), and fetched  *)
(* in any order.  The context is context.Background(), never cancelled.    *)
(***************************************************************************)
EXTENDS Integers, FiniteSets

CONSTANTS Callers, Ids,
          RetryMax,    \* Client.retryMax
          Methods,     \* what is called: subset of {"resolve", "batch"}
          None

ASSUME RetryAssumption == RetryMax \in Nat
ASSUME MethodsAssumption == Methods \subseteq {"resolve", "batch"}

\* One attempt: a usable answer, 200 without a name, 200 that does not
\* decode, 4xx, 429, 5xx, http.Client.Timeout, any other transport error.
Answers == {"ok", "unnamed", "garbled", "4xx", "429", "5xx", "timeout",
            "refused"}
Transient == {"5xx", "timeout"}

ASSUME NoneAssumption ==
    None \notin Ids \cup {"fresh", "expired", "batch", "resolve", "ok",
                          "partial", "limited", "error"}

VARIABLES kind,      \* "characters" or "entities": the batch call
          cache,     \* the call's TTLCache: None, "fresh" or "expired"
          pc,        \* each caller's place
          method,    \* what it runs, or ran last
          asked,     \* the ids of its call
          todo,      \* ids it has not looked up yet
          missing,   \* ids not found in the cache, to be fetched later
          cur,       \* the id being fetched
          attempt,   \* doJSON's loop variable
          spent,     \* the body of the call's POST has been read
          got, failed, result,  \* what the call has, and its error
          served,    \* history: ids the server has given an answer for
          tries      \* history: transient answers to the request under way

call == <<method, asked, todo, missing, cur, attempt, spent, got, failed,
          result>>
vars == <<kind, cache, pc, call, served, tries>>

(* State types.                                                            *)
TypeOK ==
    /\ kind \in {"characters", "entities"}
    /\ cache \in [Ids -> {"fresh", "expired", None}]
    /\ pc \in [Callers -> {"idle", "lookup", "evict", "send", "wire", "store"}]
    /\ method \in [Callers -> {"resolve", "batch", None}]
    /\ asked \in [Callers -> SUBSET Ids]
    /\ todo \in [Callers -> SUBSET Ids]
    /\ missing \in [Callers -> SUBSET Ids]
    /\ cur \in [Callers -> Ids \cup {None}]
    /\ attempt \in [Callers -> 0..RetryMax]
    /\ spent \in [Callers -> BOOLEAN]
    /\ got \in [Callers -> SUBSET Ids]
    /\ failed \in [Callers -> SUBSET Ids]
    /\ result \in [Callers -> {"ok", "partial", "limited", "error", None}]
    /\ served \subseteq Ids
    /\ tries \in [Callers -> 0..RetryMax + 1]

Init ==
    /\ kind \in {"characters", "entities"}
    /\ cache = [i \in Ids |-> None]
    /\ pc = [c \in Callers |-> "idle"]
    /\ method = [c \in Callers |-> None]
    /\ asked = [c \in Callers |-> {}]
    /\ todo = [c \in Callers |-> {}]
    /\ missing = [c \in Callers |-> {}]
    /\ cur = [c \in Callers |-> None]
    /\ attempt = [c \in Callers |-> 0]
    /\ spent = [c \in Callers |-> FALSE]
    /\ got = [c \in Callers |-> {}]
    /\ failed = [c \in Callers |-> {}]
    /\ result = [c \in Callers |-> None]
    /\ served = {}
    /\ tries = [c \in Callers |-> 0]

-----------------------------------------------------------------------------
Put(f, c, v) == f' = [f EXCEPT ![c] = v]
Goto(c, p) == Put(pc, c, p)

(* A call begins; what the last one left is gone.                          *)
Begin(c, m, A) ==
    /\ pc[c] = "idle"
    /\ Put(method, c, m) /\ Put(asked, c, A) /\ Put(todo, c, A)
    /\ Put(got, c, {}) /\ Put(failed, c, {}) /\ Put(result, c, None)
    /\ Put(attempt, c, 0) /\ Put(tries, c, 0) /\ Put(spent, c, FALSE)
    /\ Goto(c, IF m = "batch" THEN "lookup" ELSE "send")
    /\ UNCHANGED <<kind, cache, missing, cur, served>>

\* GetCharacters looks every id up before it fetches any; getEntityNames
\* fetches an id as soon as it misses it.
Fetch(c, i) ==
    /\ Put(cur, c, i) /\ Put(attempt, c, 0) /\ Put(tries, c, 0)
    /\ Goto(c, "send")

Missed(c, i) ==
    /\ Put(todo, c, todo[c] \ {i})
    /\ \/ /\ kind = "characters"
          /\ Put(missing, c, missing[c] \cup {i})
          /\ Goto(c, "lookup")
          /\ Put(cur, c, None)
          /\ UNCHANGED <<attempt, tries>>
       \/ kind = "entities" /\ Fetch(c, i) /\ UNCHANGED missing

(* TTLCache.Get, up to the release of the read lock.                       *)
LookUp(c, i) ==
    /\ pc[c] = "lookup"
    /\ i \in todo[c]
    /\ \/ /\ cache[i] = "fresh"
          /\ Put(got, c, got[c] \cup {i}) /\ Put(todo, c, todo[c] \ {i})
          /\ UNCHANGED <<pc, missing, cur, attempt, tries>>
       \/ cache[i] = None /\ Missed(c, i) /\ UNCHANGED got
       \/ /\ cache[i] = "expired"
          /\ Goto(c, "evict") /\ Put(cur, c, i)
          /\ UNCHANGED <<todo, got, missing, attempt, tries>>
    /\ UNCHANGED <<kind, cache, method, asked, spent, failed, result, served>>

(* TTLCache.Get goes on to drop the entry, whatever it is by now.          *)
Evict(c) ==
    /\ pc[c] = "evict"
    /\ cache' = [cache EXCEPT ![cur[c]] = None]
    /\ Missed(c, cur[c])
    /\ UNCHANGED <<kind, method, asked, spent, got, failed, result, served>>

FetchMissing(c, i) ==
    /\ pc[c] = "lookup" /\ todo[c] = {}
    /\ i \in missing[c]
    /\ Put(missing, c, missing[c] \ {i})
    /\ Fetch(c, i)
    /\ UNCHANGED <<kind, cache, method, asked, todo, spent, got, failed,
                   result, served>>

-----------------------------------------------------------------------------
\* A request that has failed for good: getEntityNames and GetCharacters
\* note the id and go on, ResolveNames returns the error.
Mutant_Forgotten(c) == failed[c]
Noted(c) == failed[c] \cup {cur[c]}

GiveUp(c) ==
    /\ IF method[c] = "batch"
       THEN /\ Put(failed, c, Noted(c)) /\ Put(cur, c, None)
            /\ Goto(c, "lookup")
            /\ UNCHANGED result
       ELSE Put(result, c, "error") /\ Goto(c, "idle") /\ UNCHANGED <<failed, cur>>
    /\ UNCHANGED attempt

\* A 429 ends the whole call, with what it has so far.
Limit(c) ==
    /\ Put(result, c, "limited")
    /\ Put(todo, c, {}) /\ Put(missing, c, {}) /\ Put(cur, c, None)
    /\ Goto(c, "idle")
    /\ UNCHANGED <<failed, attempt>>

(* doJSON: httpClient.Do with the one request there is.  Its body, which   *)
(* only the POST of ResolveNames has, is read by the attempt that sends    *)
(* it.  The next one fails in net/http (ContentLength=n with Body length   *)
(* 0), and not with a transient error, unless it goes out on a connection  *)
(* used before: only then does the transport rewind the body.              *)
Send(c) ==
    /\ pc[c] = "send"
    /\ \/ spent[c] /\ GiveUp(c)
       \/ Goto(c, "wire") /\ UNCHANGED <<failed, cur, result, attempt>>
    /\ UNCHANGED <<kind, cache, method, asked, todo, missing, spent, got, served,
                   tries>>

\* A 5xx comes after the body was sent, a timeout before or after.
Spends(c, a) ==
    spent' \in IF method[c] = "batch" THEN {spent}
               ELSE {[spent EXCEPT ![c] = TRUE]}
                      \cup IF a = "timeout" THEN {spent} ELSE {}

Mutant_OneTryLess(c) == attempt[c] < RetryMax - 1
MayRetry(c) == attempt[c] < RetryMax

Mutant_SameAttempt(c) == attempt[c]
NextAttempt(c) == attempt[c] + 1

\* What is usable: the name check is getEntityNames's.
Mutant_AnyBody(a) == a \in {"ok", "unnamed", "4xx"}
Usable(a) == a = "ok" \/ (a = "unnamed" /\ kind = "characters")

Answer(c, a) ==
    /\ pc[c] = "wire"
    /\ a = "unnamed" => method[c] = "batch"
    /\ \/ /\ Usable(a)
          /\ IF method[c] = "batch" THEN Goto(c, "store") /\ UNCHANGED result
                                    ELSE Goto(c, "idle") /\ Put(result, c, "ok")
          /\ UNCHANGED <<todo, missing, cur, failed, attempt>>
       \/ /\ ~Usable(a) /\ a \in Transient /\ MayRetry(c)
          /\ Put(attempt, c, NextAttempt(c))
          /\ Goto(c, "send")
          /\ UNCHANGED <<todo, missing, cur, failed, result>>
       \/ a = "429" /\ Limit(c)
       \/ /\ ~Usable(a) /\ a # "429"
          /\ a \in Transient => ~MayRetry(c)
          /\ GiveUp(c)
          /\ UNCHANGED <<todo, missing>>
    /\ Spends(c, a)
    /\ tries' = [tries EXCEPT ![c] =
                    IF a \in Transient /\ @ <= RetryMax THEN @ + 1 ELSE @]
    /\ served' = IF method[c] = "batch"
                    /\ (a = "ok" \/ (a = "unnamed" /\ kind = "characters"))
                 THEN served \cup {cur[c]} ELSE served
    /\ UNCHANGED <<kind, cache, method, asked, got>>

(* TTLCache.Set.                                                           *)
Store(c) ==
    /\ pc[c] = "store"
    /\ cache' = [cache EXCEPT ![cur[c]] = "fresh"]
    /\ Put(got, c, got[c] \cup {cur[c]}) /\ Put(cur, c, None)
    /\ Goto(c, "lookup")
    /\ UNCHANGED <<kind, method, asked, todo, missing, attempt, spent, failed,
                   result, served, tries>>

Finish(c) ==
    /\ pc[c] = "lookup" /\ todo[c] = {} /\ missing[c] = {}
    /\ Put(result, c, IF failed[c] = {} THEN "ok" ELSE "partial")
    /\ Goto(c, "idle")
    /\ UNCHANGED <<kind, cache, method, asked, todo, missing, cur, attempt,
                   spent, got, failed, served, tries>>

Expire(i) ==
    /\ cache[i] = "fresh"
    /\ cache' = [cache EXCEPT ![i] = "expired"]
    /\ UNCHANGED <<kind, pc, call, served, tries>>

Work(c) ==
    \/ Evict(c) \/ Send(c) \/ Store(c) \/ Finish(c)
    \/ \E i \in Ids : LookUp(c, i) \/ FetchMissing(c, i)
    \/ \E a \in Answers : Answer(c, a)

Next ==
    \/ \E c \in Callers : Work(c)
    \/ \E c \in Callers, m \in Methods, A \in SUBSET Ids :
          (A = {} <=> m = "resolve") /\ Begin(c, m, A)
    \/ \E i \in Ids : Expire(i)

Spec == Init /\ [][Next]_vars

(* A goroutine that can run runs, a back-off ends, and http.Client.Timeout *)
(* makes every attempt come back.                                          *)
FairSpec == Spec /\ \A c \in Callers : WF_vars(Work(c))

-----------------------------------------------------------------------------
(* A batch call accounts for every id: without an error all are there,     *)
(* with PartialBatchError its FailedIDs are exactly those that are not,    *)
(* and only a rate limit leaves ids unaccounted for (client.go:93-128,     *)
(* 138-179).                                                               *)
BatchAccounted == \A c \in Callers : method[c] = "batch" =>
    /\ got[c] \cap failed[c] = {}
    /\ result[c] = "ok" => got[c] = asked[c]
    /\ result[c] = "partial" =>
          failed[c] # {} /\ got[c] \cup failed[c] = asked[c]
    /\ result[c] = "limited" => got[c] \cup failed[c] # asked[c]

(* Whatever is returned or cached has been answered for by the server:     *)
(* failures, nameless entities and overlapping calls leave nothing in the  *)
(* cache that a later call could take for an entity.                       *)
OnlyServedIsKept ==
    /\ \A i \in Ids : cache[i] # None => i \in served
    /\ \A c \in Callers : got[c] \subseteq served

\* A request is given up rightly on an answer that is final, or after
\* RetryMax + 1 transient ones.
GivesUp(c) ==
    \/ failed[c] # failed'[c] /\ failed[c] \subseteq failed'[c]
    \/ result[c] = None /\ result'[c] = "error"

Rightly(c) ==
    \/ pc[c] = "wire" /\ tries'[c] = tries[c]
    \/ tries'[c] = RetryMax + 1

(* No id of a batch fails for a fault that a retry would have cured        *)
(* (doJSON, client.go:218-250).                                            *)
BatchRetriesAreUsed ==
    [][\A c \in Callers :
          method[c] = "batch" /\ GivesUp(c) => Rightly(c)]_vars

(* client_test.go:55-80, TestRetryOn5xxThenSuccess: a call whose request   *)
(* meets a 5xx retries and succeeds.  Here of every call of the client.    *)
RetriesAreUsed == [][\A c \in Callers : GivesUp(c) => Rightly(c)]_vars

(* Every call returns, whatever the server does.                           *)
CallsReturn == \A c \in Callers : pc[c] # "idle" ~> pc[c] = "idle"
=============================================================================
