-------------------------- MODULE ZKillClientProofs --------------------------
(***************************************************************************)
(* Proofs about ZKillClient for every set of callers and characters and    *)
(* every spacing.  It implements Throttler, so that what ThrottlerProofs   *)
(* proves of the throttler holds of the client's; and its own invariants,  *)
(* along an inductive invariant that follows each call from the memo to    *)
(* the wire and back.                                                      *)
(***************************************************************************)
EXTENDS ZKillClient, TLAPS

TP == INSTANCE ThrottlerProofs WITH
        Answers <- Outcomes,
        phase <- [c \in Callers |-> PhaseOf(pc[c])],
        answer <- [c \in Callers |->
                      IF pc[c] = "after" THEN body[c] ELSE NoAnswer]

-----------------------------------------------------------------------------
\* The state the client keeps itself.
Places == {"idle", "fetch", "before", "spacing", "wire", "after", "caching",
           "store"}

OwnTypeOK ==
    /\ client \in {"stats", "killmail"}
    /\ memo \in [Keys -> Results \cup {None}]
    /\ cache \in [Keys -> {"ok", "malformed", None}]
    /\ pc \in [Callers -> Places]
    /\ key \in [Callers -> Keys]
    /\ body \in [Callers -> Outcomes \cup {None}]
    /\ got \in [Callers -> Results \cup {None}]
    /\ served \in [Keys -> SUBSET {"data", "garbage", "failure"}]
    /\ sent \in [Keys -> [Callers -> 0..2]]

(* A body is held from the answer to the cache, and has passed the checks  *)
(* by then; a caller that stores has a result, one still fetching has none.*)
HeldInTurn ==
    \A c \in Callers :
        /\ pc[c] = "after" => body[c] \in Outcomes
        /\ pc[c] = "caching" => body[c] \in {"ok", "malformed"}
        /\ pc[c] \notin {"after", "caching"} => body[c] = None
        /\ pc[c] = "store" => got[c] # None
        /\ pc[c] \notin {"store", "idle"} => got[c] = None

(* What is cached or held came back from the server for that key.          *)
BodiesServed ==
    /\ \A k \in Keys : cache[k] # None => Kind(cache[k]) \in served[k]
    /\ \A c \in Callers : body[c] # None => Kind(body[c]) \in served[key[c]]

(* A request that was sent is on its way to the memo or remembered there,  *)
(* and one about to be sent is the first.                                  *)
SentOnce ==
    \A k \in Keys, c \in Callers :
        /\ sent[k][c] <= 1
        /\ sent[k][c] # 0 /\ memo[k] = None =>
              key[c] = k /\ pc[c] \in {"wire", "after", "caching", "store"}
        /\ key[c] = k /\ pc[c] \in {"fetch", "before", "spacing"} =>
              sent[k][c] = 0

IInv == OwnTypeOK /\ HeldInTurn /\ BodiesServed /\ ResultsExplained /\ SentOnce

-----------------------------------------------------------------------------
LEMMA ParsedExplained ==
    ASSUME NEW b \in {"ok", "malformed"}, client \in {"stats", "killmail"}
    PROVE  Parsed(b) \in Results /\ Kind(b) \in Causes(Parsed(b))
BY DEF Parsed, Results, Kind, Causes

LEMMA InitInv == Init => IInv
<1> SUFFICES ASSUME Init PROVE IInv
  OBVIOUS
<1>1. (CHOOSE k \in Keys : TRUE) \in Keys
  BY AsksAssumption
<1>2. OwnTypeOK
  BY <1>1 DEF Init, OwnTypeOK, Places
<1>3. HeldInTurn /\ BodiesServed /\ ResultsExplained /\ SentOnce
  BY <1>2 DEF Init, HeldInTurn, BodiesServed, ResultsExplained, SentOnce,
              OwnTypeOK
<1>4. QED
  BY <1>2, <1>3 DEF IInv

LEMMA CallInv ==
    ASSUME IInv, NEW c \in Callers, NEW k \in Keys, Call(c, k) PROVE IInv'
<1> USE DEF IInv
<1>1. /\ pc[c] = "idle" /\ key' = [key EXCEPT ![c] = k]
      /\ got' = [got EXCEPT ![c] = memo[k]]
      /\ UNCHANGED <<client, memo, cache, body, served, sent>>
  BY DEF Call, MemoHit, Return, history
<1>2. \/ memo[k] # None /\ UNCHANGED pc
      \/ memo[k] = None /\ pc' = [pc EXCEPT ![c] = "fetch"]
  BY DEF Call, MemoHit, Goto
<1>3. OwnTypeOK'
  BY <1>1, <1>2 DEF OwnTypeOK, Places
<1>4. HeldInTurn'
  BY <1>1, <1>2 DEF OwnTypeOK, HeldInTurn
<1>5. BodiesServed'
  BY <1>1, <1>2 DEF OwnTypeOK, HeldInTurn, BodiesServed
<1>6. ResultsExplained'
  BY <1>1, <1>2 DEF OwnTypeOK, ResultsExplained, Causes
<1>7. SentOnce'
  BY <1>1, <1>2 DEF OwnTypeOK, SentOnce
<1>8. QED
  BY <1>3, <1>4, <1>5, <1>6, <1>7

LEMMA LookUpInv == ASSUME IInv, NEW c \in Callers, LookUp(c) PROVE IInv'
<1> USE DEF IInv
<1>1. /\ pc[c] = "fetch"
      /\ UNCHANGED <<client, memo, cache, key, body, served, sent>>
  BY DEF LookUp, history
<1>2. \/ /\ cache[key[c]] \in {"ok", "malformed"}
         /\ got' = [got EXCEPT ![c] = Parsed(cache[key[c]])]
         /\ pc' = [pc EXCEPT ![c] = "store"]
      \/ /\ UNCHANGED got
         /\ pc' = [pc EXCEPT ![c] = "before"]
  BY DEF LookUp, Goto, Return, OnMiss, OwnTypeOK
<1>3. OwnTypeOK'
  BY <1>1, <1>2, ParsedExplained DEF OwnTypeOK, Places
<1>4. HeldInTurn'
  BY <1>1, <1>2, ParsedExplained, NotValuesAssumption DEF OwnTypeOK, HeldInTurn
<1>5. BodiesServed'
  BY <1>1, <1>2 DEF OwnTypeOK, BodiesServed
<1>6. ResultsExplained'
  <2>1. \A r : Causes(r)' = Causes(r)
    BY <1>1 DEF Causes
  <2>2. CASE UNCHANGED got
    BY <1>1, <2>1, <2>2 DEF ResultsExplained
  <2>3. CASE /\ cache[key[c]] \in {"ok", "malformed"}
             /\ got' = [got EXCEPT ![c] = Parsed(cache[key[c]])]
    <3>1. Kind(cache[key[c]]) \in Causes(got'[c]) \cap served[key[c]]
      BY <2>3, ParsedExplained, NotValuesAssumption
         DEF OwnTypeOK, BodiesServed, Outcomes
    <3>2. \A d \in Callers \ {c} : got'[d] = got[d]
      BY <2>3 DEF OwnTypeOK
    <3>3. QED
      BY <1>1, <2>1, <3>1, <3>2 DEF ResultsExplained
  <2>4. QED
    BY <1>2, <2>2, <2>3
<1>7. SentOnce'
  BY <1>1, <1>2 DEF OwnTypeOK, SentOnce
<1>8. QED
  BY <1>3, <1>4, <1>5, <1>6, <1>7

LEMMA EnterInv == ASSUME IInv, NEW c \in Callers, Enter(c) PROVE IInv'
<1> USE DEF IInv
<1>1. /\ PhaseOf(pc[c]) = "waiting" /\ pc' = [pc EXCEPT ![c] = "spacing"]
      /\ UNCHANGED <<client, memo, cache, key, body, got, served, sent>>
  BY DEF Enter, Goto, history, T!Enter
<1>2. pc[c] = "before"
  BY <1>1 DEF PhaseOf, OwnTypeOK, Places
<1>3. QED
  BY <1>1, <1>2 DEF OwnTypeOK, Places, HeldInTurn, BodiesServed,
                    ResultsExplained, Causes, SentOnce

LEMMA GrantInv == ASSUME IInv, NEW c \in Callers, Grant(c) PROVE IInv'
<1> USE DEF IInv
<1>1. /\ PhaseOf(pc[c]) = "sleeping" /\ pc' = [pc EXCEPT ![c] = "wire"]
      /\ sent' = [sent EXCEPT ![key[c]][c] = T!Capped(sent[key[c]][c] + 1, 2)]
      /\ UNCHANGED <<client, memo, cache, key, body, got, served>>
  BY DEF Grant, Goto, T!Grant
<1>2. pc[c] = "spacing"
  BY <1>1 DEF PhaseOf, OwnTypeOK, Places
<1>3. sent' = [sent EXCEPT ![key[c]][c] = 1]
  <2>1. sent[key[c]][c] = 0
    BY <1>2 DEF OwnTypeOK, SentOnce
  <2>2. T!Capped(sent[key[c]][c] + 1, 2) = 1
    BY <2>1 DEF T!Capped
  <2>3. QED
    BY <1>1, <2>2
<1>4. OwnTypeOK'
  BY <1>1, <1>3 DEF OwnTypeOK, Places
<1>5. HeldInTurn' /\ BodiesServed' /\ ResultsExplained'
  BY <1>1, <1>2
     DEF OwnTypeOK, HeldInTurn, BodiesServed, ResultsExplained, Causes
<1>6. SentOnce'
  BY <1>1, <1>2, <1>3 DEF OwnTypeOK, SentOnce
<1>7. QED
  BY <1>4, <1>5, <1>6

LEMMA LoseInv == ASSUME IInv, NEW c \in Callers, Lose(c) PROVE IInv'
<1> USE DEF IInv
<1>1. /\ pc[c] = "wire" /\ pc' = [pc EXCEPT ![c] = "store"]
      /\ served' = [served EXCEPT ![key[c]] = @ \cup {"failure"}]
      /\ got' = [got EXCEPT ![c] = "error"]
      /\ UNCHANGED <<client, memo, cache, key, body, sent>>
  BY DEF Lose, Goto, Return
<1>2. OwnTypeOK'
  BY <1>1 DEF OwnTypeOK, Places, Results
<1>3. HeldInTurn'
  BY <1>1, NotValuesAssumption DEF OwnTypeOK, HeldInTurn, Results
<1>4. \A k \in Keys : served[k] \subseteq served'[k]
  BY <1>1 DEF OwnTypeOK
<1>5. BodiesServed'
  BY <1>1, <1>4 DEF OwnTypeOK, BodiesServed
<1>6. ResultsExplained'
  <2>1. \A r : Causes(r)' = Causes(r)
    BY <1>1 DEF Causes
  <2>2. "failure" \in Causes(got'[c]) \cap served'[key[c]]
    BY <1>1 DEF OwnTypeOK, Causes
  <2>3. \A d \in Callers \ {c} : got'[d] = got[d]
    BY <1>1 DEF OwnTypeOK
  <2>4. QED
    BY <1>1, <1>4, <2>1, <2>2, <2>3 DEF OwnTypeOK, ResultsExplained
<1>7. SentOnce'
  BY <1>1 DEF OwnTypeOK, SentOnce
<1>8. QED
  BY <1>2, <1>3, <1>5, <1>6, <1>7

LEMMA ReceiveInv ==
    ASSUME IInv, NEW c \in Callers, NEW a \in Outcomes, Receive(c, a)
    PROVE  IInv'
<1> USE DEF IInv
<1>1. /\ pc[c] = "wire" /\ pc' = [pc EXCEPT ![c] = "after"]
      /\ served' = [served EXCEPT ![key[c]] = @ \cup {Kind(a)}]
      /\ body' = [body EXCEPT ![c] = a]
      /\ UNCHANGED <<client, memo, cache, key, got, sent>>
  BY DEF Receive, Goto, Hold
<1>2. OwnTypeOK'
  BY <1>1 DEF OwnTypeOK, Places, Kind
<1>3. HeldInTurn'
  BY <1>1 DEF OwnTypeOK, HeldInTurn
<1>4. \A k \in Keys : served[k] \subseteq served'[k]
  BY <1>1 DEF OwnTypeOK
<1>5. BodiesServed'
  BY <1>1, <1>4 DEF OwnTypeOK, BodiesServed
<1>6. ResultsExplained'
  <2>1. \A r : Causes(r)' = Causes(r)
    BY <1>1 DEF Causes
  <2>2. QED
    BY <1>1, <1>4, <2>1 DEF OwnTypeOK, ResultsExplained
<1>7. SentOnce'
  BY <1>1 DEF OwnTypeOK, SentOnce
<1>8. QED
  BY <1>2, <1>3, <1>5, <1>6, <1>7

(* Every answer that fails the checks counts as a failure of the server.   *)
LEMMA ReportInv == ASSUME IInv, NEW c \in Callers, Report(c) PROVE IInv'
<1> USE DEF IInv
<1>1. /\ pc[c] = "after"
      /\ UNCHANGED <<client, memo, cache, key, served, sent>>
  BY DEF Report, history
<1>2. \/ /\ Failed(body[c])
         /\ body' = [body EXCEPT ![c] = None]
         /\ got' = [got EXCEPT ![c] = "error"]
         /\ pc' = [pc EXCEPT ![c] = "store"]
      \/ /\ ~Failed(body[c]) /\ UNCHANGED <<body, got>>
         /\ pc' = [pc EXCEPT ![c] = "caching"]
  BY DEF Report, Goto, Hold, Return
<1>3. OwnTypeOK'
  BY <1>1, <1>2 DEF OwnTypeOK, Places, Results
<1>4. /\ body[c] \in Outcomes
      /\ ~Failed(body[c]) => body[c] \in {"ok", "malformed"}
  BY <1>1 DEF HeldInTurn, Failed, ErrorStatus, Outcomes
<1>5. HeldInTurn'
  BY <1>1, <1>2, <1>4, NotValuesAssumption DEF OwnTypeOK, HeldInTurn, Results
<1>6. BodiesServed'
  BY <1>1, <1>2 DEF OwnTypeOK, BodiesServed
<1>7. ResultsExplained'
  <2>1. \A r : Causes(r)' = Causes(r)
    BY <1>1 DEF Causes
  <2>2. CASE UNCHANGED got
    BY <1>1, <2>1, <2>2 DEF ResultsExplained
  <2>3. CASE Failed(body[c]) /\ got' = [got EXCEPT ![c] = "error"]
    <3>1. Kind(body[c]) = "failure" /\ "failure" \in Causes("error")
      BY <2>3 DEF Failed, ErrorStatus, Kind, Causes
    <3>2. got'[c] = "error" /\ "failure" \in served[key[c]]
      BY <1>4, <2>3, <3>1, NotValuesAssumption DEF OwnTypeOK, BodiesServed
    <3>3. \A d \in Callers \ {c} : got'[d] = got[d]
      BY <2>3 DEF OwnTypeOK
    <3>4. QED
      BY <1>1, <2>1, <3>1, <3>2, <3>3 DEF ResultsExplained
  <2>4. QED
    BY <1>2, <2>2, <2>3
<1>8. SentOnce'
  BY <1>1, <1>2 DEF OwnTypeOK, SentOnce
<1>9. QED
  BY <1>3, <1>5, <1>6, <1>7, <1>8

LEMMA KeepInv == ASSUME IInv, NEW c \in Callers, Keep(c) PROVE IInv'
<1> USE DEF IInv
<1>1. /\ pc[c] = "caching" /\ pc' = [pc EXCEPT ![c] = "store"]
      /\ cache' = [cache EXCEPT ![key[c]] = body[c]]
      /\ got' = [got EXCEPT ![c] = Parsed(body[c])]
      /\ body' = [body EXCEPT ![c] = None]
      /\ UNCHANGED <<client, memo, key, served, sent>>
  BY DEF Keep, Goto, Hold, Return, history
<1>2. body[c] \in {"ok", "malformed"} /\ Kind(body[c]) \in served[key[c]]
  BY <1>1, NotValuesAssumption DEF HeldInTurn, BodiesServed, Outcomes
<1>3. /\ Parsed(body[c]) \in Results
      /\ Kind(body[c]) \in Causes(Parsed(body[c]))
  BY <1>2, ParsedExplained DEF OwnTypeOK
<1>4. OwnTypeOK'
  BY <1>1, <1>2, <1>3 DEF OwnTypeOK, Places
<1>5. HeldInTurn'
  BY <1>1, <1>3, NotValuesAssumption DEF OwnTypeOK, HeldInTurn
<1>6. BodiesServed'
  BY <1>1, <1>2 DEF OwnTypeOK, BodiesServed
<1>7. ResultsExplained'
  <2>1. \A r : Causes(r)' = Causes(r)
    BY <1>1 DEF Causes
  <2>2. \A d \in Callers \ {c} : got'[d] = got[d]
    BY <1>1 DEF OwnTypeOK
  <2>3. got'[c] = Parsed(body[c])
    BY <1>1 DEF OwnTypeOK
  <2>4. QED
    BY <1>1, <1>2, <1>3, <2>1, <2>2, <2>3 DEF ResultsExplained
<1>8. SentOnce'
  BY <1>1 DEF OwnTypeOK, SentOnce
<1>9. QED
  BY <1>4, <1>5, <1>6, <1>7, <1>8

LEMMA StoreInv == ASSUME IInv, NEW c \in Callers, Store(c) PROVE IInv'
<1> USE DEF IInv
<1>1. /\ pc[c] = "store" /\ pc' = [pc EXCEPT ![c] = "idle"]
      /\ memo' = [memo EXCEPT ![key[c]] = got[c]]
      /\ UNCHANGED <<client, cache, key, body, got, served, sent>>
  BY DEF Store, MayStore, Stored, Goto, history
<1>2. got[c] # None
  BY <1>1 DEF HeldInTurn
<1>3. OwnTypeOK'
  BY <1>1 DEF OwnTypeOK, Places
<1>4. HeldInTurn' /\ BodiesServed'
  BY <1>1 DEF OwnTypeOK, HeldInTurn, BodiesServed
<1>5. ResultsExplained'
  <2>1. \A r : Causes(r)' = Causes(r)
    BY <1>1 DEF Causes
  <2>2. QED
    BY <1>1, <1>2, <2>1 DEF OwnTypeOK, ResultsExplained
<1>6. SentOnce'
  BY <1>1, <1>2 DEF OwnTypeOK, SentOnce
<1>7. QED
  BY <1>3, <1>4, <1>5, <1>6

LEMMA ExpireInv == ASSUME IInv, NEW k \in Keys, Expire(k) PROVE IInv'
BY DEF Expire, history, IInv, OwnTypeOK, HeldInTurn, BodiesServed,
       ResultsExplained, Causes, SentOnce

LEMMA StepInv == IInv /\ [Next]_vars => IInv'
<1> SUFFICES ASSUME IInv, [Next]_vars PROVE IInv'
  OBVIOUS
<1>1. CASE \E c \in Callers : Work(c)
  BY <1>1, LookUpInv, EnterInv, GrantInv, LoseInv, ReceiveInv, ReportInv,
     KeepInv, StoreInv DEF Work
<1>2. CASE \E c \in Callers : \E k \in Asks[c] : Call(c, k)
  BY <1>2, CallInv, AsksAssumption
<1>3. CASE \E k \in Keys : Expire(k)
  BY <1>3, ExpireInv
<1>4. CASE Tick \/ UNCHANGED vars
  <2>1. UNCHANGED <<client, memo, cache, pc, key, body, got, served, sent>>
    BY <1>4 DEF Tick, vars, history
  <2>2. (OwnTypeOK /\ HeldInTurn /\ BodiesServed /\ SentOnce)'
    BY <2>1 DEF IInv, OwnTypeOK, HeldInTurn, BodiesServed, SentOnce
  <2>3. ResultsExplained'
    BY <2>1 DEF IInv, ResultsExplained, Causes
  <2>4. QED
    BY <2>2, <2>3 DEF IInv
<1>5. QED
  BY <1>1, <1>2, <1>3, <1>4 DEF Next

LEMMA Invariance == Spec => []IInv
BY InitInv, StepInv, PTL DEF Spec

-----------------------------------------------------------------------------
(* Refinement of the throttler: a miss in the cache is a request to send,  *)
(* an error of http.Do one that fails, an answer one to report; between    *)
(* the two the client does not touch the throttler.                        *)
LEMMA PhaseSet ==
    ASSUME OwnTypeOK, NEW c \in Callers, NEW p, pc' = [pc EXCEPT ![c] = p]
    PROVE  [d \in Callers |-> PhaseOf(pc[d])]'
             = [[d \in Callers |-> PhaseOf(pc[d])] EXCEPT ![c] = PhaseOf(p)]
BY DEF OwnTypeOK

LEMMA InitMaps == Init => T!Init
BY DEF Init, T!Init, PhaseOf

LEMMA StepMaps == IInv /\ [Next]_vars => [T!Next]_(T!tvars)
<1> SUFFICES ASSUME IInv, [Next]_vars PROVE [T!Next]_(T!tvars)
  OBVIOUS
<1> USE DEF IInv
<1>1. ASSUME NEW c \in Callers, NEW k \in Asks[c], Call(c, k)
      PROVE  UNCHANGED T!tvars
  <2>1. \/ UNCHANGED pc
        \/ pc[c] = "idle" /\ pc' = [pc EXCEPT ![c] = "fetch"]
    BY <1>1 DEF Call, Goto
  <2>2. UNCHANGED <<body, mu, penalty, age, left>>
    BY <1>1 DEF Call, throttle
  <2>3. \A d \in Callers : /\ PhaseOf(pc[d])' = PhaseOf(pc[d])
                           /\ pc'[d] = "after" <=> pc[d] = "after"
    BY <2>1 DEF OwnTypeOK, PhaseOf
  <2>4. QED
    BY <2>2, <2>3 DEF T!tvars
<1>2. ASSUME NEW c \in Callers, LookUp(c)
      PROVE  T!Ask(c) \/ UNCHANGED T!tvars
  <2>1. /\ pc[c] = "fetch"
        /\ \/ pc' = [pc EXCEPT ![c] = "store"]
           \/ pc' = [pc EXCEPT ![c] = "before"]
        /\ UNCHANGED <<body, mu, penalty, age, left>>
    BY <1>2 DEF LookUp, Goto, OnMiss, throttle
  <2>2. \A d \in Callers : pc'[d] = "after" <=> pc[d] = "after"
    BY <2>1 DEF OwnTypeOK
  <2>3. CASE pc' = [pc EXCEPT ![c] = "store"]
    <3>1. \A d \in Callers : PhaseOf(pc[d])' = PhaseOf(pc[d])
      BY <2>1, <2>3 DEF OwnTypeOK, PhaseOf
    <3>2. QED
      BY <2>1, <2>2, <3>1 DEF T!tvars
  <2>4. CASE pc' = [pc EXCEPT ![c] = "before"]
    <3>1. PhaseOf(pc[c]) = "idle" /\ PhaseOf("before") = "waiting"
      BY <2>1 DEF PhaseOf
    <3>2. T!Goto(c, "waiting")
      BY <2>4, <3>1, PhaseSet DEF T!Goto
    <3>3. UNCHANGED [d \in Callers |-> IF pc[d] = "after" THEN body[d]
                                                       ELSE NoAnswer]
      BY <2>1, <2>2
    <3>4. QED
      BY <2>1, <3>1, <3>2, <3>3 DEF T!Ask
  <2>5. QED
    BY <2>1, <2>3, <2>4
<1>3. ASSUME NEW c \in Callers, Lose(c)
      PROVE  T!Fail(c)
  <2>1. /\ pc[c] = "wire" /\ pc' = [pc EXCEPT ![c] = "store"]
        /\ UNCHANGED <<body, mu, penalty, age, left>>
    BY <1>3 DEF Lose, Goto, throttle
  <2>2. \A d \in Callers : pc'[d] = "after" <=> pc[d] = "after"
    BY <2>1 DEF OwnTypeOK
  <2>3. PhaseOf(pc[c]) = "inflight" /\ PhaseOf("store") = "idle"
    BY <2>1 DEF PhaseOf
  <2>4. T!Goto(c, "idle")
    BY <2>1, <2>3, PhaseSet DEF T!Goto
  <2>5. UNCHANGED [d \in Callers |-> IF pc[d] = "after" THEN body[d]
                                                       ELSE NoAnswer]
    BY <2>1, <2>2
  <2>6. QED
    BY <2>1, <2>3, <2>4, <2>5 DEF T!Fail
<1>4. ASSUME NEW c \in Callers, NEW a \in Outcomes, Receive(c, a)
      PROVE  T!Answer(c, a)
  <2>1. /\ pc[c] = "wire" /\ pc' = [pc EXCEPT ![c] = "after"]
        /\ body' = [body EXCEPT ![c] = a]
        /\ UNCHANGED <<mu, penalty, age, left>>
    BY <1>4 DEF Receive, Goto, Hold, throttle
  <2>2. [d \in Callers |-> IF pc[d] = "after" THEN body[d] ELSE NoAnswer]'
          = [[d \in Callers |-> IF pc[d] = "after" THEN body[d] ELSE NoAnswer]
                EXCEPT ![c] = a]
    BY <2>1 DEF OwnTypeOK
  <2>3. PhaseOf(pc[c]) = "inflight" /\ PhaseOf("after") = "reporting"
    BY <2>1 DEF PhaseOf
  <2>4. T!Goto(c, "reporting")
    BY <2>1, <2>3, PhaseSet DEF T!Goto
  <2>5. QED
    BY <2>1, <2>2, <2>3, <2>4 DEF T!Answer
<1>5. ASSUME NEW c \in Callers, Keep(c) \/ Store(c)
      PROVE  UNCHANGED T!tvars
  <2>1. /\ \/ pc[c] = "caching" /\ pc' = [pc EXCEPT ![c] = "store"]
           \/ pc[c] = "store" /\ pc' = [pc EXCEPT ![c] = "idle"]
        /\ \A d \in Callers \ {c} : body'[d] = body[d]
        /\ UNCHANGED <<mu, penalty, age, left>>
    BY <1>5 DEF Keep, Store, MayStore, Goto, Hold, throttle, OwnTypeOK
  <2>2. \A d \in Callers :
          /\ pc'[d] = "after" <=> pc[d] = "after"
          /\ PhaseOf(pc[d])' = PhaseOf(pc[d])
          /\ pc[d] = "after" => body'[d] = body[d]
    BY <2>1 DEF OwnTypeOK, PhaseOf
  <2>3. QED
    BY <2>1, <2>2 DEF T!tvars
<1>6. ASSUME NEW k \in Keys, Expire(k)
      PROVE  UNCHANGED T!tvars
  BY <1>6 DEF Expire, throttle, T!tvars
<1>7. CASE UNCHANGED vars
  BY <1>7 DEF vars, throttle, T!tvars
<1>8. CASE Tick
  BY <1>8 DEF Tick, T!Next
<1>9. ASSUME NEW c \in Callers, Enter(c) \/ Grant(c) \/ Report(c)
      PROVE  T!Next
  BY <1>9 DEF Enter, Grant, Report, T!Next, T!Step
<1>10. QED
  BY <1>1, <1>2, <1>3, <1>4, <1>5, <1>6, <1>7, <1>8, <1>9
     DEF Next, Work, T!Next, T!Step

(* ThrottlerProofs speaks of its own instance of the throttler.            *)
LEMMA SameThrottler ==
    /\ T!Init <=> TP!Init
    /\ [T!Next]_(T!tvars) <=> [TP!Next]_(TP!tvars)
    /\ TP!TypeOK <=> T!TypeOK
<1>1. T!Init <=> TP!Init
  BY DEF T!Init, TP!Init, T!Horizon, TP!Horizon
<1>2. (T!tvars' = T!tvars <=> TP!tvars' = TP!tvars) /\ (TP!TypeOK <=> T!TypeOK)
  BY DEF T!tvars, TP!tvars, TP!TypeOK, T!TypeOK, T!Horizon, TP!Horizon,
         T!Phases, TP!Phases
<1>3. T!Tick <=> TP!Tick
  BY DEF T!Tick, TP!Tick, T!Capped, TP!Capped, T!Horizon, TP!Horizon
<1>4. ASSUME NEW c \in Callers
      PROVE  T!Step(c) <=> TP!Step(c)
  BY DEF T!Step, TP!Step, T!Ask, TP!Ask, T!Enter, TP!Enter, T!Grant, TP!Grant,
         T!Fail, TP!Fail, T!Report, TP!Report, T!Answer, TP!Answer,
         T!Goto, TP!Goto, T!MutexFree, TP!MutexFree, T!Wait, TP!Wait,
         T!Positive, TP!Positive, T!Unlocked, TP!Unlocked,
         T!NextPenalty, TP!NextPenalty, T!Doubled, TP!Doubled,
         T!Capped, TP!Capped
<1>5. T!Next <=> TP!Next
  BY <1>3, <1>4 DEF T!Next, TP!Next
<1>6. ([T!Next]_(T!tvars)) <=> ([TP!Next]_(TP!tvars))
  BY <1>2, <1>5
<1>7. QED
  BY <1>1, <1>2, <1>6

-----------------------------------------------------------------------------
(* Seen by the throttler, every client is a well-behaved user of it.       *)
THEOREM Obeys == Spec => ObeysThrottler
<1>1. Spec => T!Spec
  BY InitMaps, StepMaps, Invariance, PTL DEF Spec, T!Spec
<1>2. QED
  BY <1>1 DEF ObeysThrottler

(* The throttler's bounds and the client's own types: no wait is longer    *)
(* than configured, and the cache holds only bodies that passed the checks *)
(* (endpointCache.Set is after the status checks).                         *)
THEOREM TypeCorrect == Spec => []TypeOK
<1>1. TP!Spec => []TP!IInv
  BY TP!Invariance, NotValuesAssumption, ThrottleAssumption
     DEF Outcomes, Throttled
<1>2. TP!IInv => TP!TypeOK
  BY DEF TP!IInv
<1>3. T!Spec => TP!Spec
  BY SameThrottler, PTL DEF T!Spec, TP!Spec
<1>4. IInv /\ T!TypeOK => TypeOK
  BY DEF IInv, OwnTypeOK, TypeOK, Places
<1>5. Spec => T!Spec
  BY InitMaps, StepMaps, Invariance, PTL DEF Spec, T!Spec
<1>6. QED
  BY <1>1, <1>2, <1>3, <1>4, <1>5, SameThrottler, Invariance, PTL

(* Two requests of one client, whichever goroutines send them, are at      *)
(* least minSpacing and the penalty in force apart.                        *)
THEOREM SendsSpaced == Spec => TP!GrantsAreSpaced
<1>1. TP!Spec => TP!GrantsAreSpaced
  BY TP!Spaced, NotValuesAssumption, ThrottleAssumption
     DEF Outcomes, Throttled
<1>2. T!Spec => TP!Spec
  BY SameThrottler, PTL DEF T!Spec, TP!Spec
<1>3. Spec => T!Spec
  BY InitMaps, StepMaps, Invariance, PTL DEF Spec, T!Spec
<1>4. QED
  BY <1>1, <1>2, <1>3

(* A result goes back to an answer the server gave for that character,     *)
(* whichever memo, cache or overlapping call it came through.              *)
THEOREM Explained == Spec => []ResultsExplained
<1>1. IInv => ResultsExplained
  BY DEF IInv
<1>2. QED
  BY Invariance, <1>1, PTL

(* RunMemo.Do around the whole fetch: one goroutine, one request for a     *)
(* character.                                                              *)
THEOREM AskedOnce == Spec => []OneRequestEach
<1>1. IInv => OneRequestEach
  BY DEF IInv, SentOnce, OneRequestEach
<1>2. QED
  BY Invariance, <1>1, PTL

==============================================================================
