----------------------------- MODULE ZKillClient -----------------------------
(***************************************************************************)
(* The two zKillboard clients of internal/providers/zkill: StatsClient     *)
(* and KillmailClient.  Both run the same protocol on state of their own:  *)
(*   RunMemo.Do -> endpoint cache -> Throttler -> HTTP -> Throttler ->     *)
(*   endpoint cache -> RunMemo                                             *)
(* and differ in what they make of a 200 answer whose body does not parse: *)
(* StatsClient returns the error, KillmailClient an empty list.  A         *)
(* behaviour is about one client, chosen in the initial state.             *)
(*                                                                         *)
(* Callers are the goroutines of fetchSummaryRows and fetchDetails, of     *)
(* overlapping analyses and refreshes too; Keys the positive character     *)
(* ids.  The entries of the endpoint cache expire at any moment (ttl), and *)
(* a body is known by the server's answer it came with.  The context of    *)
(* every call is context.Background(), so no call is cancelled.            *)
(***************************************************************************)
EXTENDS Integers

CONSTANTS Callers, Keys, MinSpacing, MaxPenalty, Free, NoAnswer,
          Asks,         \* the keys each caller may ask for
          None          \* no entry, no result

ASSUME AsksAssumption == Keys # {} /\ Asks \in [Callers -> SUBSET Keys]
ASSUME ThrottleAssumption == MinSpacing \in Nat /\ MaxPenalty \in Nat

\* Answers: 200 with a good body, with one that does not parse or with one
\* that breaks off; a 4xx other than 429; 429 or 5xx.
Outcomes == {"ok", "malformed", "truncated", "rejected", "throttled"}
Throttled == {"throttled"}
ErrorStatus == {"rejected", "throttled"}
Results == {"row", "empty", "error"}

ASSUME NotValuesAssumption ==
    /\ None \notin Results \cup Outcomes
    /\ NoAnswer \notin Outcomes
    /\ Free \notin Callers

VARIABLES client,   \* "stats" or "killmail"
          memo,     \* RunMemo.results: key -> result
          cache,    \* the endpoint's TTLCache: key -> answer its body came with
          pc, key,  \* each caller's place and the key it asks for
          body,     \* the body a caller holds between two steps
          got,      \* the result of a caller's last call
          mu, penalty, age, left,     \* the client's Throttler
          served,   \* history: what has come back for each key
          sent      \* history: requests on the wire per key and caller

throttle == <<mu, penalty, age, left>>
history == <<served, sent>>
vars == <<client, memo, cache, pc, key, body, got, throttle, history>>

\* Where a caller stands in the Throttler's protocol.
PhaseOf(p) == CASE p = "before" -> "waiting"
                [] p = "spacing" -> "sleeping"
                [] p = "wire" -> "inflight"
                [] p = "after" -> "reporting"
                [] OTHER -> "idle"

T == INSTANCE Throttler WITH
        Answers <- Outcomes,
        phase <- [c \in Callers |-> PhaseOf(pc[c])],
        answer <- [c \in Callers |->
                      IF pc[c] = "after" THEN body[c] ELSE NoAnswer]

(* State types: the throttler's, and a cache that only ever holds bodies   *)
(* of answers below 400, read to the end.                                  *)
TypeOK ==
    /\ client \in {"stats", "killmail"}
    /\ memo \in [Keys -> Results \cup {None}]
    /\ cache \in [Keys -> {"ok", "malformed", None}]
    /\ pc \in [Callers -> {"idle", "fetch", "before", "spacing", "wire",
                           "after", "caching", "store"}]
    /\ key \in [Callers -> Keys]
    /\ body \in [Callers -> Outcomes \cup {None}]
    /\ got \in [Callers -> Results \cup {None}]
    /\ T!TypeOK
    /\ served \in [Keys -> SUBSET {"data", "garbage", "failure"}]
    /\ sent \in [Keys -> [Callers -> 0..2]]

Init ==
    /\ client \in {"stats", "killmail"}
    /\ memo = [k \in Keys |-> None]
    /\ cache = [k \in Keys |-> None]
    /\ pc = [c \in Callers |-> "idle"]
    /\ key = [c \in Callers |-> CHOOSE k \in Keys : TRUE]
    /\ body = [c \in Callers |-> None]
    /\ got = [c \in Callers |-> None]
    /\ mu = Free /\ penalty = 0 /\ left = 0 /\ age = T!Horizon
    /\ served = [k \in Keys |-> {}]
    /\ sent = [k \in Keys |-> [c \in Callers |-> 0]]

-----------------------------------------------------------------------------
Goto(c, p) == pc' = [pc EXCEPT ![c] = p]
Hold(c, b) == body' = [body EXCEPT ![c] = b]
Return(c, r) == got' = [got EXCEPT ![c] = r]

(* RunMemo.Do, first critical section.  A remembered error is a hit.       *)
MemoHit(k) == memo[k] # None

Call(c, k) ==
    /\ pc[c] = "idle"
    /\ key' = [key EXCEPT ![c] = k]
    /\ IF MemoHit(k) THEN Return(c, memo[k]) /\ UNCHANGED pc
                     ELSE Return(c, None) /\ Goto(c, "fetch")
    /\ UNCHANGED <<client, memo, cache, body, throttle, history>>

(* parseSummaryRow and parseKillmails on a body read to the end.           *)
Parsed(b) == CASE b = "ok" -> "row"
               [] b # "ok" /\ client = "stats" -> "error"
               [] OTHER -> "empty"

(* fetchSummary and fetchKillmails up to BeforeRequest.                    *)
Mutant_Unthrottled == "wire"
OnMiss == "before"

LookUp(c) ==
    /\ pc[c] = "fetch"
    /\ \/ /\ cache[key[c]] # None
          /\ Return(c, Parsed(cache[key[c]]))
          /\ Goto(c, "store")
       \/ /\ cache[key[c]] = None
          /\ Goto(c, OnMiss)
          /\ UNCHANGED got
    /\ UNCHANGED <<client, memo, cache, key, body, throttle, history>>

Enter(c) ==
    /\ Goto(c, "spacing")
    /\ UNCHANGED <<client, memo, cache, key, body, got, history>>
    /\ T!Enter(c)

Grant(c) ==
    /\ Goto(c, "wire")
    /\ sent' = [sent EXCEPT ![key[c]][c] = T!Capped(@ + 1, 2)]
    /\ UNCHANGED <<client, memo, cache, key, body, got, served>>
    /\ T!Grant(c)

(* http.Do returns an error: neither AfterResponse nor the cache see it.   *)
Lose(c) ==
    /\ pc[c] = "wire"
    /\ served' = [served EXCEPT ![key[c]] = @ \cup {"failure"}]
    /\ Return(c, "error")
    /\ Goto(c, "store")
    /\ UNCHANGED <<client, memo, cache, key, body, throttle, sent>>

Kind(a) == CASE a = "ok" -> "data"
             [] a = "malformed" -> "garbage"
             [] OTHER -> "failure"

Receive(c, a) ==
    /\ pc[c] = "wire"
    /\ served' = [served EXCEPT ![key[c]] = @ \cup {Kind(a)}]
    /\ Hold(c, a)
    /\ Goto(c, "after")
    /\ UNCHANGED <<client, memo, cache, key, got, throttle, sent>>

(* AfterResponse, then the checks on the status and on reading the body.   *)
Mutant_StatusUnchecked(a) == a = "truncated"
Failed(a) == a \in ErrorStatus \cup {"truncated"}

Report(c) ==
    /\ pc[c] = "after"
    /\ IF Failed(body[c])
       THEN Hold(c, None) /\ Return(c, "error") /\ Goto(c, "store")
       ELSE UNCHANGED <<body, got>> /\ Goto(c, "caching")
    /\ UNCHANGED <<client, memo, cache, key, history>>
    /\ T!Report(c)

(* The body is cached before it is parsed.                                 *)
Keep(c) ==
    /\ pc[c] = "caching"
    /\ cache' = [cache EXCEPT ![key[c]] = body[c]]
    /\ Return(c, Parsed(body[c]))
    /\ Hold(c, None)
    /\ Goto(c, "store")
    /\ UNCHANGED <<client, memo, key, throttle, history>>

(* RunMemo.Do, second critical section: whatever is there is overwritten.  *)
Mutant_ErrorsNotKept(k, r) == IF r = "error" THEN memo[k] ELSE r
Stored(k, r) == r

Mutant_NeverStored(c) == pc[c] = "store" /\ memo[key[c]] # None
MayStore(c) == pc[c] = "store"

Store(c) ==
    /\ MayStore(c)
    /\ memo' = [memo EXCEPT ![key[c]] = Stored(key[c], got[c])]
    /\ Goto(c, "idle")
    /\ UNCHANGED <<client, cache, key, body, got, throttle, history>>

(* An entry's ttl runs out: the next Get drops it.                         *)
Expire(k) ==
    /\ cache[k] # None
    /\ cache' = [cache EXCEPT ![k] = None]
    /\ UNCHANGED <<client, memo, pc, key, body, got, throttle, history>>

Tick ==
    /\ UNCHANGED <<client, memo, cache, pc, key, body, got, history>>
    /\ T!Tick

Work(c) ==
    \/ LookUp(c) \/ Enter(c) \/ Grant(c) \/ Lose(c) \/ Report(c)
    \/ Keep(c) \/ Store(c)
    \/ \E a \in Outcomes : Receive(c, a)

Next ==
    \/ Tick
    \/ \E c \in Callers : Work(c)
    \/ \E c \in Callers : \E k \in Asks[c] : Call(c, k)
    \/ \E k \in Keys : Expire(k)

Spec == Init /\ [][Next]_vars

(* A goroutine that can run runs, the mutex of the throttler is starvation *)
(* free, and http.Client.Timeout (5 s, or the configured one, which is     *)
(* positive) makes every request come back, as an answer or as an error.   *)
(* Nobody owes a call.                                                     *)
Fairness ==
    /\ WF_vars(Tick)
    /\ \A c \in Callers :
        /\ WF_vars(Work(c))
        /\ SF_vars(Enter(c))
        /\ SF_vars(Report(c))

FairSpec == Spec /\ Fairness

-----------------------------------------------------------------------------
\* What the server did that explains a result.
Causes(r) ==
    CASE r = "row" -> {"data"}
      [] r = "empty" -> {"garbage"}
      [] OTHER -> IF client = "stats" THEN {"failure", "garbage"}
                                      ELSE {"failure"}

(* Every result a caller gets, and every result remembered, goes back to   *)
(* an answer the server gave for that very key: memo, cache and retries of *)
(* overlapping calls never turn a failure into data or data into a         *)
(* failure (RunMemo.Do, endpointCache, the status checks).                 *)
ResultsExplained ==
    /\ \A c \in Callers : got[c] # None =>
          Causes(got[c]) \cap served[key[c]] # {}
    /\ \A k \in Keys : memo[k] # None => Causes(memo[k]) \cap served[k] # {}

(* A goroutine asks the server at most once for a character, however       *)
(* often it is called and whatever the answers were, and whether or not    *)
(* the cache entry has expired (RunMemo.Do around the whole fetch).        *)
OneRequestEach == \A k \in Keys, c \in Callers : sent[k][c] <= 1

(* Seen by the throttler the client is a well-behaved user: it sends only  *)
(* what was let through, reports each answer once, and never reports a     *)
(* request that failed.                                                    *)
ObeysThrottler == T!Spec

(* Every call returns.                                                     *)
EveryCallReturns == \A c \in Callers : pc[c] # "idle" ~> pc[c] = "idle"

=============================================================================
