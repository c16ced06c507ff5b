-------------------------------- MODULE Store --------------------------------
(***************************************************************************)
(* What internal/store promises its callers, without migrations, locks,    *)
(* transactions and statements: each call takes effect at one moment, or   *)
(* not at all when it fails or its caller dies first.  Only the pruning at *)
(* the end of a save is a step of its own, and may be left undone.         *)
(* SessionStore is shown to implement this.                                *)
(***************************************************************************)
EXTENDS Integers, FiniteSets, Functions
CONSTANTS Callers, SessionIds, Keys, Ids, Inputs, Tables,
          MaxSessions, MaxAge, MaxCacheAge, MaxNow, None

VARIABLES now,
          call,     \* where each caller is: "away" before the store is open
          asked,    \* the settings a caller is saving, or None
          sessions, \* when each saved session was updated
          cache,    \* when each entry expires, and when it was updated
          doc, ids  \* the settings saved last, or None; the ids of each list

store == <<sessions, cache, doc, ids>>
vars == <<now, call, asked, store>>

Init == /\ now = 0 /\ call = [c \in Callers |-> "away"]
        /\ asked = [c \in Callers |-> None]
        /\ sessions = <<>> /\ cache = <<>>
        /\ doc = None /\ ids = [t \in Tables |-> {}]

Moves(c, from, to) == call[c] = from /\ call' = [call EXCEPT ![c] = to]
With(rows, i, row) == [j \in {i} \cup DOMAIN rows |-> IF j = i THEN row ELSE rows[j]]

Come(c) == Moves(c, "away", "idle") /\ UNCHANGED <<now, asked, store>>

\* A call fails, or its caller dies: what it had not done by then is never done.
End(c) == /\ \E from \in {"idle", "saved", "writing", "reading"}, to \in {"away", "idle"} :
                Moves(c, from, to)
          /\ asked' = [asked EXCEPT ![c] = None]
          /\ UNCHANGED <<now, store>>

-----------------------------------------------------------------------------
SaveSession(c) ==
    /\ Moves(c, "idle", "saved")
    /\ \E s \in SessionIds, updated \in 0..now : sessions' = With(sessions, s, updated)
    /\ UNCHANGED <<now, asked, cache, doc, ids>>

\* The oldest go first, and none that is neither aged nor outnumbered.
OnlyOldOut(kept) ==
    \A s \in DOMAIN sessions \ kept :
       /\ \A k \in kept : sessions[k] >= sessions[s]
       /\ sessions[s] + MaxAge =< now \/ Cardinality(kept) >= MaxSessions

Keep(kept) == OnlyOldOut(kept) /\ sessions' = Restrict(sessions, kept)

PruneSome(c) ==
    /\ call[c] = "saved" /\ \E kept \in SUBSET DOMAIN sessions : Keep(kept)
    /\ UNCHANGED <<now, call, asked, cache, doc, ids>>

FinishSave(c) ==
    /\ Moves(c, "saved", "idle")
    /\ \E kept \in SUBSET DOMAIN sessions : Cardinality(kept) =< MaxSessions /\ Keep(kept)
    /\ UNCHANGED <<now, asked, cache, doc, ids>>

-----------------------------------------------------------------------------
SaveSettings(c) ==
    /\ Moves(c, "idle", "writing")
    /\ \E settings \in Inputs : asked' = [asked EXCEPT ![c] = settings]
    /\ UNCHANGED <<now, store>>

\* The document and all its lists, of one caller, at one moment.
Settle(c) ==
    /\ Moves(c, "writing", "reading")
    /\ doc' = asked[c] /\ ids' = [t \in Tables |-> {i \in asked[c][t] : i > 0}]
    /\ asked' = [asked EXCEPT ![c] = None]
    /\ UNCHANGED <<now, sessions, cache>>

AddId(c) ==
    /\ Moves(c, "idle", "reading")
    /\ \E t \in Tables, id \in Ids : ids' = [ids EXCEPT ![t] = @ \cup {id}]
    /\ UNCHANGED <<now, asked, sessions, cache, doc>>

Read(c) == Moves(c, "idle", "reading") /\ UNCHANGED <<now, asked, store>>
Answer(c) == Moves(c, "reading", "idle") /\ UNCHANGED <<now, asked, store>>

-----------------------------------------------------------------------------
Refresh(c) ==
    /\ call[c] = "idle"
    /\ \E k \in Keys, expires \in 0..MaxNow :
          cache' = With(cache, k, [expires |-> expires, updated |-> now])
    /\ UNCHANGED <<now, call, asked, sessions, doc, ids>>

Fresh(entry) == entry.expires > now /\ entry.updated + MaxCacheAge > now

Expire(c) ==
    /\ call[c] = "idle"
    /\ cache' = Restrict(cache, {k \in DOMAIN cache : Fresh(cache[k])})
    /\ UNCHANGED <<now, call, asked, sessions, doc, ids>>

Tick == now < MaxNow /\ now' = now + 1 /\ UNCHANGED <<call, asked, store>>

Next == \/ Tick
        \/ \E c \in Callers :
              \/ Come(c) \/ End(c) \/ SaveSession(c) \/ PruneSome(c) \/ FinishSave(c)
              \/ SaveSettings(c) \/ Settle(c) \/ AddId(c) \/ Read(c) \/ Answer(c)
              \/ Refresh(c) \/ Expire(c)

Spec == Init /\ [][Next]_vars
=============================================================================
