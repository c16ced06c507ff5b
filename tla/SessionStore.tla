---------------------------- MODULE SessionStore ----------------------------
(***************************************************************************)
(* internal/store: one SQLite file, used by several callers (goroutines    *)
(* with their pooled connections, or processes: a Store keeps nothing of   *)
(* its own that changes).  A statement outside a transaction is atomic;    *)
(* inside one it works on a copy of the database (tx) that Commit makes    *)
(* the database, and the first write takes the one write lock.  Any        *)
(* statement may fail (SQLITE_BUSY, a full disk) and a caller may die at   *)
(* any point: the open transaction is then gone.                           *)
(***************************************************************************)
EXTENDS Integers, FiniteSets, Functions
CONSTANTS Callers, SessionIds,
          Ids,          \* the positive ids a settings list may hold
          Inputs,       \* the settings that pass ValidateSettings, by their lists
          Keys,         \* of the cache metadata
          MaxSessions, MaxAge, MaxCacheAge,   \* RetentionPolicy
          MaxNow,       \* bound of the clock
          None

ASSUME StoreAssumption ==
    /\ MaxSessions \in Nat \ {0} /\ MaxAge \in Nat \ {0} /\ MaxCacheAge \in Nat \ {0}
    /\ MaxNow \in Nat
    /\ IsFiniteSet(Callers) /\ IsFiniteSet(SessionIds)

VARIABLES use,      \* which operations are called: the three kinds share only the lock
          db,       \* the committed database
          tx,       \* the copy of the open write transaction, or None
          writer,   \* who holds the write lock, or None
          now,      \* s.now()
          at,       \* the statement each caller executes next
          arg,      \* the settings or the pin a caller was given
          table,    \* the id table replaceIDSet or loadIDSet comes to next
          got,      \* what LoadSettings has read so far
          quiet,    \* history: nobody else has changed the settings since the caller's own write
          added,    \* history: the ids pinned since the last SaveSettings
          left      \* history: saves that ended between insert and prune, since the last prune

vars == <<use, db, tx, writer, now, at, arg, table, got, quiet, added, left>>

Tables == 1..3      \* pinned_pilots, ignored_corps, ignored_alliances: the order of the code
NoIds == [t \in Tables |-> {}]
Empty == [schema |-> FALSE, version |-> FALSE, sessions |-> <<>>, cache |-> <<>>,
          doc |-> None, tables |-> NoIds]

RowsOf(keys, row) == UNION {[k -> row] : k \in SUBSET keys}
Databases == [schema : BOOLEAN, version : BOOLEAN,
              sessions : RowsOf(SessionIds, 0..MaxNow),
              cache : RowsOf(Keys, [expires : 0..MaxNow, updated : 0..MaxNow]),
              doc : Inputs \cup {None}, tables : [Tables -> SUBSET Ids]]

\* The settings that pass hold every positive id the tables may hold, and what else is in
\* their lists is not positive.
ASSUME SettingsAssumption ==
    /\ Ids \subseteq Nat \ {0} /\ Inputs \subseteq [Tables -> SUBSET Int]
    /\ \A settings \in Inputs, t \in Tables : \A i \in settings[t] : i > 0 => i \in Ids
ASSUME NoneAssumption == None \notin Callers \cup Inputs \cup Databases

Nothing == [doc |-> None, tables |-> NoIds]

Opening == {"check", "apply", "record", "commit_migration"}
Saving == {"prune_age", "prune_count"}
Stored == {"replace", "commit_settings"}
Loading == {"load_doc", "load_table", "return"}

Init == /\ use \in {"sessions", "settings", "cache"}
        /\ db = Empty /\ tx = None /\ writer = None /\ now = 0
        /\ at = [c \in Callers |-> "closed"]
        /\ arg = [c \in Callers |-> NoIds]
        /\ table = [c \in Callers |-> 1]
        /\ got = [c \in Callers |-> Nothing]
        /\ quiet = [c \in Callers |-> TRUE]
        /\ added = NoIds /\ left = 0

GoTo(c, step) == at' = [at EXCEPT ![c] = step]
Mutant_NoTransaction(new) == tx' = new /\ db' = new
InTransaction(new) == tx' = new /\ UNCHANGED db
BeginWrite(c) == writer = None /\ writer' = c
Commit(c) == writer = c /\ db' = tx /\ tx' = None /\ writer' = None
\* A statement of its own: it waits for (or fails on, see Fail) the write lock.
Autocommit(new) == writer = None /\ db' = new /\ UNCHANGED <<tx, writer>>

-----------------------------------------------------------------------------
\* OpenSQLite and migrate.
Open(c) == /\ at[c] = "closed" /\ GoTo(c, "check")
           /\ UNCHANGED <<use, db, tx, writer, now, arg, table, got, quiet, added, left>>

MigrationApplied(c) ==
    /\ at[c] = "check"
    /\ GoTo(c, IF db.version THEN "ready" ELSE "apply")
    /\ UNCHANGED <<use, db, tx, writer, now, arg, table, got, quiet, added, left>>

\* CREATE TABLE IF NOT EXISTS: harmless when another caller has been faster.
Mutant_RecordFirst(c) ==
    /\ at[c] = "apply" /\ BeginWrite(c) /\ Mutant_NoTransaction([db EXCEPT !.version = TRUE])
    /\ GoTo(c, "commit_migration")
    /\ UNCHANGED <<use, now, arg, table, got, quiet, added, left>>
Apply(c) ==
    /\ at[c] = "apply" /\ BeginWrite(c) /\ InTransaction([db EXCEPT !.schema = TRUE])
    /\ GoTo(c, "record")
    /\ UNCHANGED <<use, now, arg, table, got, quiet, added, left>>

\* The version is a primary key: if it is there already only Fail is left.
Record(c) ==
    /\ at[c] = "record" /\ ~tx.version /\ InTransaction([tx EXCEPT !.version = TRUE])
    /\ GoTo(c, "commit_migration")
    /\ UNCHANGED <<use, writer, now, arg, table, got, quiet, added, left>>

CommitMigration(c) ==
    /\ at[c] = "commit_migration" /\ Commit(c) /\ GoTo(c, "ready")
    /\ UNCHANGED <<use, now, arg, table, got, quiet, added, left>>

-----------------------------------------------------------------------------
\* INSERT ... ON CONFLICT DO UPDATE.
With(rows, id, row) == [i \in {id} \cup DOMAIN rows |-> IF i = id THEN row ELSE rows[i]]

\* SaveAnalysisSession: the upsert and the two deletes are three transactions.
Upsert(c, s, updated) ==
    /\ use = "sessions" /\ at[c] = "ready"
    /\ Autocommit([db EXCEPT !.sessions = With(@, s, updated)])
    /\ GoTo(c, "prune_age")
    /\ UNCHANGED <<use, now, arg, table, got, quiet, added, left>>

PruneAge(c) ==
    /\ at[c] = "prune_age"
    /\ Autocommit([db EXCEPT !.sessions = Restrict(@, {s \in DOMAIN @ : @[s] + MaxAge > now})])
    /\ GoTo(c, "prune_count")
    /\ UNCHANGED <<use, now, arg, table, got, quiet, added, left>>

\* ORDER BY updated_at DESC LIMIT n; equal times come in any order.
Least(a, b) == IF a < b THEN a ELSE b
Mutant_OldestFirst(rows, n) ==
    {kept \in SUBSET DOMAIN rows :
        /\ Cardinality(kept) = Least(n, Cardinality(DOMAIN rows))
        /\ \A s \in kept, o \in DOMAIN rows \ kept : rows[s] =< rows[o]}
Mutant_OneMore(rows, n) ==
    {kept \in SUBSET DOMAIN rows :
        /\ Cardinality(kept) = Least(n + 1, Cardinality(DOMAIN rows))
        /\ \A s \in kept, o \in DOMAIN rows \ kept : rows[s] >= rows[o]}
Newest(rows, n) ==
    {kept \in SUBSET DOMAIN rows :
        /\ Cardinality(kept) = Least(n, Cardinality(DOMAIN rows))
        /\ \A s \in kept, o \in DOMAIN rows \ kept : rows[s] >= rows[o]}

PruneCount(c) ==
    /\ at[c] = "prune_count"
    /\ \E kept \in Newest(db.sessions, MaxSessions) :
          Autocommit([db EXCEPT !.sessions = Restrict(@, kept)])
    /\ GoTo(c, "ready") /\ left' = 0
    /\ UNCHANGED <<use, now, arg, table, got, quiet, added>>

-----------------------------------------------------------------------------
\* UpsertCacheMetadata and PruneCacheMetadata, a statement each.
UpsertCache(c, k, expires) ==
    /\ use = "cache" /\ at[c] = "ready"
    /\ Autocommit([db EXCEPT !.cache = With(@, k, [expires |-> expires, updated |-> now])])
    /\ UNCHANGED <<use, now, at, arg, table, got, quiet, added, left>>

Outdated(entry) == entry.expires =< now \/ entry.updated + MaxCacheAge =< now

PruneCache(c) ==
    /\ use = "cache" /\ at[c] = "ready"
    /\ Autocommit([db EXCEPT !.cache = Restrict(@, {k \in DOMAIN @ : ~Outdated(@[k])})])
    /\ UNCHANGED <<use, now, at, arg, table, got, quiet, added, left>>

-----------------------------------------------------------------------------
\* replaceIDSet keeps the positive ids; a table has no duplicates.
Mutant_All(list) == list
Positive(list) == {i \in list : i > 0}

\* What a caller that is reading has of the settings may now be of two states.
Disturbed(c) == [o \in Callers |-> o = c \/ at[o] \notin Loading]

SaveSettings(c, settings) ==
    /\ use = "settings" /\ at[c] = "ready" /\ BeginWrite(c)
    /\ InTransaction([db EXCEPT !.doc = settings])
    /\ arg' = [arg EXCEPT ![c] = settings] /\ table' = [table EXCEPT ![c] = 1]
    /\ GoTo(c, "replace")
    /\ UNCHANGED <<use, now, got, quiet, added, left>>

Replace(c) ==
    /\ at[c] = "replace"
    /\ InTransaction([tx EXCEPT !.tables[table[c]] = Positive(arg[c][table[c]])])
    /\ \/ table[c] < 3 /\ table' = [table EXCEPT ![c] = @ + 1] /\ UNCHANGED at
       \/ table[c] = 3 /\ GoTo(c, "commit_settings") /\ UNCHANGED table
    /\ UNCHANGED <<use, writer, now, arg, got, quiet, added, left>>

CommitSettings(c) ==
    /\ at[c] = "commit_settings" /\ Commit(c) /\ GoTo(c, "load_doc")
    /\ added' = NoIds /\ quiet' = Disturbed(c)
    /\ UNCHANGED <<use, now, arg, table, got, left>>

\* PinPilot, IgnoreCorp and IgnoreAlliance: INSERT OR IGNORE into a table each.
Pin(c, t, id) ==
    /\ use = "settings" /\ at[c] = "ready"
    /\ Autocommit([db EXCEPT !.tables[t] = @ \cup {id}])
    /\ added' = [added EXCEPT ![t] = @ \cup {id}]
    /\ quiet' = Disturbed(c) /\ GoTo(c, "load_doc")
    /\ UNCHANGED <<use, now, arg, table, got, left>>

LoadSettings(c) ==
    /\ use = "settings" /\ at[c] = "ready" /\ GoTo(c, "load_doc")
    /\ quiet' = [quiet EXCEPT ![c] = TRUE]
    /\ UNCHANGED <<use, db, tx, writer, now, arg, table, got, added, left>>

\* LoadSettings reads the document, then one table after the other.
LoadDocument(c) ==
    /\ at[c] = "load_doc" /\ GoTo(c, "load_table")
    /\ got' = [got EXCEPT ![c].doc = db.doc]
    /\ table' = [table EXCEPT ![c] = 1]
    /\ UNCHANGED <<use, db, tx, writer, now, arg, quiet, added, left>>

Mutant_IdsOfDocument(t) == IF db.doc = None THEN {} ELSE Positive(db.doc[t])
IdsOf(t) == db.tables[t]

LoadTable(c) ==
    /\ at[c] = "load_table"
    /\ got' = [got EXCEPT ![c].tables[table[c]] = IdsOf(table[c])]
    /\ \/ table[c] < 3 /\ table' = [table EXCEPT ![c] = @ + 1] /\ UNCHANGED at
       \/ table[c] = 3 /\ GoTo(c, "return") /\ UNCHANGED table
    /\ UNCHANGED <<use, db, tx, writer, now, arg, quiet, added, left>>

Forget(c) == /\ got' = [got EXCEPT ![c] = Nothing] /\ table' = [table EXCEPT ![c] = 1]
             /\ arg' = [arg EXCEPT ![c] = NoIds] /\ quiet' = [quiet EXCEPT ![c] = TRUE]

Return(c) ==
    /\ at[c] = "return" /\ GoTo(c, "ready") /\ Forget(c)
    /\ UNCHANGED <<use, db, tx, writer, now, added, left>>

-----------------------------------------------------------------------------
\* The end of a call, or of the caller, in the middle of its work.
Abandon(c, step) ==
    /\ GoTo(c, step)
    /\ IF writer = c THEN tx' = None /\ writer' = None ELSE UNCHANGED <<tx, writer>>
    /\ left' = IF at[c] \in Saving THEN Least(left + 1, Cardinality(SessionIds)) ELSE left
    /\ Forget(c) /\ UNCHANGED <<use, db, now, added>>

\* A statement fails: the transaction is rolled back and the error returned.
Fail(c) == \/ at[c] \in Opening /\ Abandon(c, "closed")
           \/ at[c] \in Saving \cup Stored \cup Loading /\ Abandon(c, "ready")

Crash(c) == at[c] # "closed" /\ Abandon(c, "closed")

Tick == /\ use # "settings" /\ now < MaxNow /\ now' = now + 1
        /\ UNCHANGED <<use, db, tx, writer, at, arg, table, got, quiet, added, left>>

Next == \/ Tick
        \/ \E c \in Callers :
              \/ Open(c) \/ MigrationApplied(c) \/ Apply(c) \/ Record(c) \/ CommitMigration(c)
              \/ \E s \in SessionIds, updated \in 0..now : Upsert(c, s, updated)
              \/ PruneAge(c) \/ PruneCount(c)
              \/ \E k \in Keys, expires \in 0..MaxNow : UpsertCache(c, k, expires)
              \/ PruneCache(c)
              \/ \E settings \in Inputs : SaveSettings(c, settings)
              \/ Replace(c) \/ CommitSettings(c)
              \/ \E t \in Tables, id \in Ids : Pin(c, t, id)
              \/ LoadSettings(c) \/ LoadDocument(c) \/ LoadTable(c) \/ Return(c)
              \/ Fail(c) \/ Crash(c)

Spec == Init /\ [][Next]_vars

-----------------------------------------------------------------------------
\* Types: the tables hold positive ids only, whatever lists replaceIDSet is given,
\* and the write transaction belongs to the holder of the lock.
TypeOK ==
    /\ use \in {"sessions", "settings", "cache"} /\ db \in Databases /\ now \in 0..MaxNow
    /\ tx \in Databases \cup {None} /\ writer \in Callers \cup {None}
    /\ at \in [Callers -> {"closed", "ready"} \cup Opening \cup Saving \cup Stored \cup Loading]
    /\ arg \in [Callers -> Inputs \cup {NoIds}] /\ table \in [Callers -> Tables]
    /\ got \in [Callers -> [doc : Inputs \cup {None}, tables : [Tables -> SUBSET Ids]]]
    /\ quiet \in [Callers -> BOOLEAN] /\ added \in [Tables -> SUBSET Ids]
    /\ left \in 0..Cardinality(SessionIds)
    /\ (tx = None) = (writer = None)

\* A caller whose OpenSQLite has returned finds every table, and a recorded version
\* means its tables are there, after whatever crashes and races of migrations.
ReadyMeansMigrated ==
    /\ db.version => db.schema
    /\ \A c \in Callers : at[c] \notin {"closed"} \cup Opening => db.schema /\ db.version

\* Retention: the sessions exceed MaxSessions by no more than the saves that have
\* inserted and not pruned yet, and those that died or failed in between.
RetentionKept ==
    Cardinality(DOMAIN db.sessions) =<
        MaxSessions + Cardinality({c \in Callers : at[c] \in Saving}) + left

\* No save, its own session among them, removes a session while it leaves an older one,
\* nor one that is neither aged nor outnumbered; and no cache entry goes unless it has
\* expired or has not been refreshed for long.
OnlyTheOldGo ==
    [][LET gone == DOMAIN db.sessions \ DOMAIN db'.sessions
           kept == DOMAIN db.sessions \cap DOMAIN db'.sessions
       IN  /\ \A s \in gone :
                 /\ \A k \in kept : db.sessions[k] >= db.sessions[s]
                 /\ db.sessions[s] + MaxAge =< now \/ Cardinality(kept) >= MaxSessions
           /\ \A k \in DOMAIN db.cache \ DOMAIN db'.cache : Outdated(db.cache[k])]_vars

\* The id tables are those of the settings document and what was pinned since, also when
\* SaveSettings fails half way, its caller dies, or pins and saves overlap.
TablesMatchDocument ==
    \A t \in Tables :
       db.tables[t] = added[t] \cup (IF db.doc = None THEN {} ELSE Positive(db.doc[t]))

\* SaveSettings, PinPilot and the Ignore calls return what they have written, as long as
\* nobody else writes before they have read it back table by table.
OwnWriteIsSeen ==
    \A c \in Callers : at[c] = "return" /\ quiet[c] =>
                          got[c] = [doc |-> db.doc, tables |-> db.tables]

-----------------------------------------------------------------------------
\* What a caller is doing for a reader of Store.
Doing(step) == CASE step \in Opening \cup {"closed"} -> "away"
                 [] step = "ready" -> "idle"
                 [] step \in Saving -> "saved"
                 [] step \in Stored -> "writing"
                 [] OTHER -> "reading"

Promise == INSTANCE Store WITH
        call <- [c \in Callers |-> Doing(at[c])],
        asked <- [c \in Callers |-> IF at[c] \in Stored THEN arg[c] ELSE None],
        sessions <- db.sessions, cache <- db.cache, doc <- db.doc, ids <- db.tables

\* Seen from outside, the store is Store: whatever the transactions, their failures and
\* the crashes do, every call has its whole effect at one moment or none, but for the
\* pruning after a save, which Store bounds.
KeepsPromise == Promise!Spec

=============================================================================
