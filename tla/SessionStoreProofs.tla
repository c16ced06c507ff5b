-------------------------- MODULE SessionStoreProofs --------------------------
(***************************************************************************)
(* Proofs about SessionStore for every number of callers, every settings   *)
(* and every retention.  The inductive invariant says what the transaction *)
(* of the holder of the write lock has of the database and of its own      *)
(* edits, and what a reader has of the settings.  From it follows that     *)
(* every step is one of Store or a stutter.                                *)
(***************************************************************************)
EXTENDS SessionStore, TLAPS, FiniteSetTheorems

Holding == {"record", "commit_migration"} \cup Stored
Steps == {"closed", "ready"} \cup Opening \cup Saving \cup Stored \cup Loading

\* The write lock is held from the first write of a transaction to its end.
LockInv ==
    /\ \A c \in Callers : writer = c <=> at[c] \in Holding
    /\ tx = None <=> writer = None

\* A transaction differs from the database by its own edits.
Edited(c) ==
    /\ tx.sessions = db.sessions /\ tx.cache = db.cache
    /\ at[c] \in {"record", "commit_migration"} =>
          tx.schema /\ tx.doc = db.doc /\ tx.tables = db.tables
    /\ at[c] = "commit_migration" => tx.version
    /\ at[c] \in Stored =>
          /\ tx.schema = db.schema /\ tx.version = db.version
          /\ arg[c] \in Inputs /\ tx.doc = arg[c]
    /\ at[c] = "replace" => \A t \in Tables :
          t < table[c] => tx.tables[t] = Positive(arg[c][t])
    /\ at[c] = "commit_settings" => \A t \in Tables :
          tx.tables[t] = Positive(arg[c][t])

\* An undisturbed reader has the settings of the database as far as it has come.
Read(c) ==
    quiet[c] =>
        /\ at[c] \in {"load_table", "return"} => got[c].doc = db.doc
        /\ at[c] = "load_table" => \A t \in Tables :
              t < table[c] => got[c].tables[t] = db.tables[t]
        /\ at[c] = "return" => \A t \in Tables :
              got[c].tables[t] = db.tables[t]

IInv == /\ TypeOK /\ LockInv /\ ReadyMeansMigrated /\ TablesMatchDocument
        /\ \A c \in Callers : writer = c => Edited(c)
        /\ \A c \in Callers : Read(c)

-----------------------------------------------------------------------------
LEMMA PositiveType ==
    ASSUME NEW settings \in Inputs, NEW t \in Tables
    PROVE  Positive(settings[t]) \in SUBSET Ids
BY SettingsAssumption DEF Positive

\* Rows are kept by key.
LEMMA RowsType ==
    ASSUME NEW K, NEW R, NEW rows
    PROVE  rows \in RowsOf(K, R)
              <=> DOMAIN rows \in SUBSET K /\ rows \in [DOMAIN rows -> R]
BY DEF RowsOf

LEMMA EmptyType == Empty \in Databases
<1>1. <<>> \in [{} -> 0..MaxNow]
  OBVIOUS
<1>2. <<>> \in [{} -> [expires : 0..MaxNow, updated : 0..MaxNow]]
  OBVIOUS
<1>3. QED
  BY <1>1, <1>2 DEF Empty, Databases, NoIds, RowsOf

LEMMA WithType ==
    ASSUME NEW K, NEW R, NEW rows \in RowsOf(K, R),
           NEW i \in K, NEW r \in R
    PROVE  /\ With(rows, i, r) \in RowsOf(K, R)
           /\ DOMAIN With(rows, i, r) = DOMAIN rows \cup {i}
           /\ \A j \in DOMAIN rows \ {i} : With(rows, i, r)[j] = rows[j]
<1>1. DOMAIN rows \in SUBSET K /\ rows \in [DOMAIN rows -> R]
  BY RowsType
<1>2. DOMAIN With(rows, i, r) = DOMAIN rows \cup {i}
  BY DEF With
<1>3. \A j \in DOMAIN rows \ {i} : With(rows, i, r)[j] = rows[j]
  BY DEF With
<1>4. With(rows, i, r) \in [DOMAIN rows \cup {i} -> R]
  BY <1>1 DEF With
<1>5. DOMAIN rows \cup {i} \in SUBSET K
  BY <1>1
<1>6. With(rows, i, r) \in RowsOf(K, R)
  BY <1>2, <1>4, <1>5, RowsType
<1>7. QED
  BY <1>2, <1>3, <1>6
LEMMA RestrictType ==
    ASSUME NEW K, NEW R, NEW rows \in RowsOf(K, R),
           NEW S \in SUBSET DOMAIN rows
    PROVE  /\ Restrict(rows, S) \in RowsOf(K, R)
           /\ DOMAIN Restrict(rows, S) = S
           /\ \A j \in S : Restrict(rows, S)[j] = rows[j]
BY RowsType DEF Restrict

LEMMA InitInv == Init => IInv
<1> SUFFICES ASSUME Init PROVE IInv
  OBVIOUS
<1>1. TypeOK
  <2>1. 0 \in 0..MaxNow /\ Cardinality(SessionIds) \in Nat
    BY StoreAssumption, FS_CardinalityType
  <2>2. db \in Databases
    BY EmptyType DEF Init
  <2>3. QED
    BY <2>1, <2>2, StoreAssumption
       DEF Init, TypeOK, Tables, NoIds, Nothing
<1>2. LockInv
  BY NoneAssumption DEF Init, LockInv, Holding, Stored
<1>3. ReadyMeansMigrated /\ TablesMatchDocument
  BY DEF Init, Empty, ReadyMeansMigrated, TablesMatchDocument, NoIds
<1>4. \A c \in Callers : writer # c /\ Read(c)
  BY NoneAssumption DEF Init, Read
<1>5. QED
  BY <1>1, <1>2, <1>3, <1>4 DEF IInv

-----------------------------------------------------------------------------
SessionRows == RowsOf(SessionIds, 0..MaxNow)
CacheRows == RowsOf(Keys, [expires : 0..MaxNow, updated : 0..MaxNow])

\* What a caller has of its own.
Own(c) == <<arg[c], table[c], got[c], quiet[c]>>
Settings(d) == <<d.schema, d.version, d.doc, d.tables>>

LEMMA OthersRead ==
    ASSUME NEW c \in Callers, Read(c), at'[c] = at[c], Own(c)' = Own(c),
           Settings(db)' = Settings(db)
    PROVE  Read(c)'
BY DEF Read, Own, Settings

LEMMA OthersEdited ==
    ASSUME NEW c \in Callers, Edited(c), at'[c] = at[c], Own(c)' = Own(c),
           UNCHANGED <<db, tx>>
    PROVE  Edited(c)'
BY DEF Edited, Own

(* A step outside transactions that leaves the settings alone, whatever it *)
(* does to sessions and cache: while it writes nobody holds the lock.      *)
LEMMA OutsideInv ==
    ASSUME IInv, NEW c \in Callers, NEW p \in Steps \ Holding,
           at[c] \notin Holding, at' = [at EXCEPT ![c] = p],
           UNCHANGED <<tx, writer, added>>,
           TypeOK', Settings(db)' = Settings(db), writer = None \/ UNCHANGED db,
           \A d \in Callers \ {c} : Own(d)' = Own(d),
           p \notin {"closed"} \cup Opening => db.schema /\ db.version,
           Read(c)'
    PROVE  IInv'
<1> USE DEF IInv
<1>1. \A d \in Callers \ {c} : at'[d] = at[d]
  BY DEF TypeOK
<1>2. at'[c] = p
  BY DEF TypeOK
<1>3. LockInv'
  BY <1>1, <1>2 DEF LockInv
<1>4. ReadyMeansMigrated'
  BY <1>1, <1>2 DEF ReadyMeansMigrated, Settings
<1>5. TablesMatchDocument'
  BY DEF TablesMatchDocument, Settings
<1>6. \A d \in Callers : writer' = d => Edited(d)'
  <2> SUFFICES ASSUME NEW d \in Callers, writer = d PROVE Edited(d)'
    OBVIOUS
  <2>1. d # c /\ UNCHANGED db
    BY NoneAssumption DEF LockInv
  <2>2. QED
    BY <1>1, <2>1, OthersEdited
<1>7. \A d \in Callers : Read(d)'
  BY <1>1, OthersRead
<1>8. QED
  BY <1>3, <1>4, <1>5, <1>6, <1>7

LEMMA OpenInv ==
    ASSUME IInv, NEW c \in Callers, Open(c) \/ MigrationApplied(c) PROVE IInv'
<1> DEFINE p == IF at[c] = "closed" THEN "check"
                ELSE IF db.version THEN "ready" ELSE "apply"
<1> USE DEF IInv
<1>1. /\ at[c] \in {"closed", "check"} /\ at' = [at EXCEPT ![c] = p]
      /\ UNCHANGED <<use, db, tx, writer, now, arg, table, got, quiet, added,
                     left>>
  BY DEF Open, MigrationApplied, GoTo
<1>2. p \in {"check", "ready", "apply"}
  OBVIOUS
<1>3. TypeOK'
  BY <1>1, <1>2 DEF TypeOK, Opening
<1>4. p = "ready" => db.schema /\ db.version
  BY DEF ReadyMeansMigrated
<1>5. Read(c)'
  BY <1>1, <1>2 DEF Read, TypeOK
<1>6. QED
  <2> HIDE DEF p, IInv
  <2>1. \A d \in Callers \ {c} : Own(d)' = Own(d)
    BY <1>1 DEF Own
  <2>2. Settings(db)' = Settings(db)
    BY <1>1
  <2>3. p \in Steps \ Holding /\ at[c] \notin Holding
    BY <1>1, <1>2 DEF Steps, Holding, Opening, Stored
  <2>4. p \notin {"closed"} \cup Opening => db.schema /\ db.version
    BY <1>2, <1>4 DEF Opening
  <2>5. UNCHANGED <<tx, writer, added>>
    BY <1>1
  <2>6. QED
    BY <1>1, <1>3, <1>5, <2>1, <2>2, <2>3, <2>4, <2>5, OutsideInv

LEMMA SessionsEdit ==
    ASSUME NEW d \in Databases, NEW rows \in SessionRows
    PROVE  LET e == [d EXCEPT !.sessions = rows]
           IN  /\ e \in Databases /\ Settings(e) = Settings(d)
               /\ e.sessions = rows /\ e.cache = d.cache
BY DEF Databases, SessionRows, Settings

LEMMA CacheEdit ==
    ASSUME NEW d \in Databases, NEW rows \in CacheRows
    PROVE  LET e == [d EXCEPT !.cache = rows]
           IN  /\ e \in Databases /\ Settings(e) = Settings(d)
               /\ e.cache = rows /\ e.sessions = d.sessions
BY DEF Databases, CacheRows, Settings

(* A statement on sessions or cache, and the step the caller comes to.     *)
LEMMA RowsInv ==
    ASSUME IInv, NEW c \in Callers,
           NEW p \in {"ready"} \cup Saving, at[c] \in {"ready"} \cup Saving,
           at' = [at EXCEPT ![c] = p], writer = None,
           db' \in Databases, Settings(db)' = Settings(db),
           UNCHANGED <<use, tx, writer, now, arg, table, got, quiet, added>>,
           left' \in {left, 0}
    PROVE  IInv'
<1> USE DEF IInv
<1>1. p \in Steps \ Holding /\ at[c] \notin Holding
  BY DEF Steps, Holding, Saving, Stored, Opening
<1>2. at[c] \notin {"closed"} \cup Opening /\ p \notin {"closed"} \cup Opening
  BY DEF Saving, Opening
<1>3. TypeOK'
  <2>1. Cardinality(SessionIds) \in Nat
    BY StoreAssumption, FS_CardinalityType
  <2>2. at' \in [Callers -> Steps]
    BY <1>1 DEF TypeOK, Steps
  <2>3. left' \in 0..Cardinality(SessionIds)
    BY <2>1 DEF TypeOK
  <2>4. QED
    BY <2>2, <2>3 DEF TypeOK, Steps
<1>4. Read(c)'
  BY <1>2 DEF Read, TypeOK, Saving
<1>5. db.schema /\ db.version
  BY <1>2 DEF ReadyMeansMigrated
<1>6. \A d \in Callers \ {c} : Own(d)' = Own(d)
  BY DEF Own
<1>7. QED
  <2> HIDE DEF IInv
  <2>1. UNCHANGED <<tx, writer, added>>
    OBVIOUS
  <2>2. QED
    BY <1>1, <1>3, <1>4, <1>5, <1>6, <2>1, OutsideInv

LEMMA Rows ==
    ASSUME IInv
    PROVE  /\ db \in Databases
           /\ db.sessions \in SessionRows /\ db.cache \in CacheRows
BY DEF IInv, TypeOK, Databases, SessionRows, CacheRows

LEMMA UpsertInv ==
    ASSUME IInv, NEW c \in Callers,
           NEW s \in SessionIds, NEW updated \in 0..now,
           Upsert(c, s, updated)
    PROVE  IInv'
<1>1. updated \in 0..MaxNow
  BY StoreAssumption DEF IInv, TypeOK
<1>2. With(db.sessions, s, updated) \in SessionRows
  BY <1>1, Rows, WithType DEF SessionRows
<1>3. db' = [db EXCEPT !.sessions = With(db.sessions, s, updated)]
  BY DEF Upsert, Autocommit
<1>4. db' \in Databases /\ Settings(db)' = Settings(db)
  BY <1>2, <1>3, Rows, SessionsEdit DEF Settings
<1>5. /\ at[c] = "ready" /\ at' = [at EXCEPT ![c] = "prune_age"]
      /\ writer = None
      /\ UNCHANGED <<use, tx, writer, now, arg, table, got, quiet, added, left>>
  BY DEF Upsert, Autocommit, GoTo
<1>6. QED
  BY <1>4, <1>5, RowsInv DEF Saving

LEMMA PruneAgeInv == ASSUME IInv, NEW c \in Callers, PruneAge(c) PROVE IInv'
<1> DEFINE young == {s \in DOMAIN db.sessions : db.sessions[s] + MaxAge > now}
<1>1. Restrict(db.sessions, young) \in SessionRows
  BY Rows, RestrictType DEF SessionRows
<1>2. db' = [db EXCEPT !.sessions = Restrict(db.sessions, young)]
  BY DEF PruneAge, Autocommit
<1>3. db' \in Databases /\ Settings(db)' = Settings(db)
  BY <1>1, <1>2, Rows, SessionsEdit DEF Settings
<1>4. /\ at[c] = "prune_age" /\ at' = [at EXCEPT ![c] = "prune_count"]
      /\ writer = None
      /\ UNCHANGED <<use, tx, writer, now, arg, table, got, quiet, added, left>>
  BY DEF PruneAge, Autocommit, GoTo
<1>5. QED
  BY <1>3, <1>4, RowsInv DEF Saving

LEMMA PruneCountInv == ASSUME IInv, NEW c \in Callers, PruneCount(c) PROVE IInv'
<1>1. PICK kept \in Newest(db.sessions, MaxSessions) :
         Autocommit([db EXCEPT !.sessions = Restrict(@, kept)])
  BY DEF PruneCount
<1>2. Restrict(db.sessions, kept) \in SessionRows
  BY Rows, RestrictType DEF SessionRows, Newest
<1>3. db' = [db EXCEPT !.sessions = Restrict(db.sessions, kept)]
  BY <1>1 DEF Autocommit
<1>4. db' \in Databases /\ Settings(db)' = Settings(db)
  BY <1>2, <1>3, Rows, SessionsEdit DEF Settings
<1>5. /\ at[c] = "prune_count" /\ at' = [at EXCEPT ![c] = "ready"] /\ left' = 0
      /\ writer = None
      /\ UNCHANGED <<use, tx, writer, now, arg, table, got, quiet, added>>
  BY <1>1 DEF PruneCount, Autocommit, GoTo
<1>6. QED
  BY <1>4, <1>5, RowsInv DEF Saving

LEMMA CacheInv ==
    ASSUME IInv, NEW c \in Callers,
           \/ \E k \in Keys, expires \in 0..MaxNow : UpsertCache(c, k, expires)
           \/ PruneCache(c)
    PROVE  IInv'
<1> DEFINE fresh == {k \in DOMAIN db.cache : ~Outdated(db.cache[k])}
<1>1. PICK rows \in CacheRows : db' = [db EXCEPT !.cache = rows]
  <2>1. CASE PruneCache(c)
    <3>1. Restrict(db.cache, fresh) \in CacheRows
      BY Rows, RestrictType DEF CacheRows
    <3>2. QED
      BY <2>1, <3>1 DEF PruneCache, Autocommit
  <2>2. CASE \E k \in Keys, expires \in 0..MaxNow : UpsertCache(c, k, expires)
    <3>1. PICK k \in Keys, expires \in 0..MaxNow : UpsertCache(c, k, expires)
      BY <2>2
    <3>2. [expires |-> expires, updated |-> now]
             \in [expires : 0..MaxNow, updated : 0..MaxNow]
      BY DEF IInv, TypeOK
    <3>3. With(db.cache, k, [expires |-> expires, updated |-> now])
             \in CacheRows
      BY <3>2, Rows, WithType DEF CacheRows
    <3>4. QED
      BY <3>1, <3>3 DEF UpsertCache, Autocommit
  <2>3. QED
    BY <2>1, <2>2
<1>2. db' \in Databases /\ Settings(db)' = Settings(db)
  BY <1>1, Rows, CacheEdit DEF Settings
<1>3. /\ at[c] = "ready" /\ writer = None
      /\ UNCHANGED <<use, tx, writer, now, at, arg, table, got, quiet, added,
                     left>>
  BY DEF UpsertCache, PruneCache, Autocommit
<1>4. at' = [at EXCEPT ![c] = "ready"]
  BY <1>3 DEF IInv, TypeOK
<1>5. QED
  BY <1>2, <1>3, <1>4, RowsInv

-----------------------------------------------------------------------------
LEMMA LoadSettingsInv ==
    ASSUME IInv, NEW c \in Callers, LoadSettings(c) PROVE IInv'
<1>1. /\ at[c] = "ready" /\ at' = [at EXCEPT ![c] = "load_doc"]
      /\ quiet' = [quiet EXCEPT ![c] = TRUE]
      /\ UNCHANGED <<use, db, tx, writer, now, arg, table, got, added, left>>
  BY DEF LoadSettings, GoTo
<1>2. TypeOK'
  BY <1>1 DEF IInv, TypeOK, Loading
<1>3. db.schema /\ db.version
  BY <1>1 DEF IInv, ReadyMeansMigrated, Opening
<1>4. Read(c)' /\ \A d \in Callers \ {c} : Own(d)' = Own(d)
  BY <1>1 DEF Read, IInv, TypeOK, Own
<1>5. "load_doc" \in Steps \ Holding /\ at[c] \notin Holding
  BY <1>1 DEF Steps, Loading, Holding, Stored
<1>6. UNCHANGED <<tx, writer, added>> /\ Settings(db)' = Settings(db)
  BY <1>1
<1>7. QED
  BY <1>1, <1>2, <1>3, <1>4, <1>5, <1>6, OutsideInv

LEMMA LoadDocumentInv ==
    ASSUME IInv, NEW c \in Callers, LoadDocument(c) PROVE IInv'
<1>1. /\ at[c] = "load_doc" /\ at' = [at EXCEPT ![c] = "load_table"]
      /\ got' = [got EXCEPT ![c].doc = db.doc]
      /\ table' = [table EXCEPT ![c] = 1]
      /\ UNCHANGED <<use, db, tx, writer, now, arg, quiet, added, left>>
  BY DEF LoadDocument, GoTo
<1>2. TypeOK'
  BY <1>1 DEF IInv, TypeOK, Loading, Tables, Databases
<1>3. db.schema /\ db.version
  BY <1>1 DEF IInv, ReadyMeansMigrated, Opening
<1>4. Read(c)' /\ \A d \in Callers \ {c} : Own(d)' = Own(d)
  BY <1>1 DEF Read, IInv, TypeOK, Own, Tables
<1>5. "load_table" \in Steps \ Holding /\ at[c] \notin Holding
  BY <1>1 DEF Steps, Loading, Holding, Stored
<1>6. UNCHANGED <<tx, writer, added>> /\ Settings(db)' = Settings(db)
  BY <1>1
<1>7. QED
  BY <1>1, <1>2, <1>3, <1>4, <1>5, <1>6, OutsideInv

LEMMA LoadTableInv ==
    ASSUME IInv, NEW c \in Callers, LoadTable(c) PROVE IInv'
<1> DEFINE p == IF table[c] < 3 THEN "load_table" ELSE "return"
           n == IF table[c] < 3 THEN table[c] + 1 ELSE table[c]
<1>0. /\ table \in [Callers -> 1..3] /\ table[c] \in 1..3
      /\ at \in [Callers -> Steps]
  BY DEF IInv, TypeOK, Tables, Steps
<1>1. /\ at[c] = "load_table" /\ at' = [at EXCEPT ![c] = p]
      /\ table' = [table EXCEPT ![c] = n]
      /\ got' = [got EXCEPT ![c].tables[table[c]] = db.tables[table[c]]]
      /\ UNCHANGED <<use, db, tx, writer, now, arg, quiet, added, left>>
  BY <1>0 DEF LoadTable, GoTo, IdsOf
<1>2. TypeOK'
  <2>1. at' \in [Callers -> Steps]
    BY <1>0, <1>1 DEF Steps, Loading
  <2>2. table' \in [Callers -> Tables]
    BY <1>0, <1>1 DEF Tables
  <2>3. got' \in [Callers -> [doc : Inputs \cup {None},
                             tables : [Tables -> SUBSET Ids]]]
    BY <1>0, <1>1 DEF IInv, TypeOK, Databases, Tables
  <2>4. QED
    BY <1>1, <2>1, <2>2, <2>3 DEF IInv, TypeOK, Steps
<1>3. db.schema /\ db.version
  BY <1>1 DEF IInv, ReadyMeansMigrated, Opening
<1>4. Read(c)'
  <2> SUFFICES ASSUME quiet[c] PROVE Read(c)'
    BY <1>1 DEF Read
  <2>1. /\ got[c].doc = db.doc
        /\ \A t \in Tables : t < table[c] => got[c].tables[t] = db.tables[t]
    BY <1>1 DEF IInv, Read
  <2>2. /\ got'[c].doc = got[c].doc
        /\ got'[c].tables[table[c]] = db.tables[table[c]]
        /\ \A t \in Tables \ {table[c]} : got'[c].tables[t] = got[c].tables[t]
    BY <1>0, <1>1 DEF IInv, TypeOK, Tables
  <2>3. \A t \in Tables : t <= table[c] => got'[c].tables[t] = db.tables[t]
    BY <1>0, <2>1, <2>2 DEF Tables
  <2>4. at'[c] = p /\ table'[c] = n
    BY <1>0, <1>1
  <2>5. QED
    BY <1>0, <1>1, <2>1, <2>2, <2>3, <2>4 DEF Read, Tables
<1>5. p \in Steps \ Holding /\ at[c] \notin Holding
  BY <1>1 DEF Steps, Loading, Holding, Stored
<1>6. /\ UNCHANGED <<tx, writer, added>> /\ Settings(db)' = Settings(db)
      /\ \A d \in Callers \ {c} : Own(d)' = Own(d)
  BY <1>1 DEF Own, IInv, TypeOK
<1>7. QED
  <2> HIDE DEF p
  <2>1. QED
    BY <1>1, <1>2, <1>3, <1>4, <1>5, <1>6, OutsideInv

\* Whatever a call ends with, it forgets what it was given and has read.
LEMMA ForgetInv ==
    ASSUME IInv, NEW c \in Callers, NEW p \in {"closed", "ready"},
           at[c] \notin Holding, at' = [at EXCEPT ![c] = p], Forget(c),
           p = "ready" => at[c] \in Saving \cup Loading,
           UNCHANGED <<use, db, tx, writer, now, added>>,
           left' \in 0..Cardinality(SessionIds)
    PROVE  IInv'
<1>1. /\ got' = [got EXCEPT ![c] = Nothing] /\ table' = [table EXCEPT ![c] = 1]
      /\ arg' = [arg EXCEPT ![c] = NoIds] /\ quiet' = [quiet EXCEPT ![c] = TRUE]
  BY DEF Forget
<1>2. TypeOK'
  <2>1. Nothing \in [doc : Inputs \cup {None}, tables : [Tables -> SUBSET Ids]]
    BY DEF Nothing, NoIds
  <2>2. QED
    BY <1>1, <2>1 DEF IInv, TypeOK, Tables
<1>3. p = "ready" => db.schema /\ db.version
  BY DEF IInv, ReadyMeansMigrated, Opening, Saving, Loading
<1>4. Read(c)' /\ \A d \in Callers \ {c} : Own(d)' = Own(d)
  BY <1>1 DEF Read, IInv, TypeOK, Own
<1>5. p \in Steps \ Holding
  BY DEF Steps, Holding, Stored
<1>6. UNCHANGED <<tx, writer, added>> /\ Settings(db)' = Settings(db)
  OBVIOUS
<1>7. QED
  BY <1>2, <1>3, <1>4, <1>5, <1>6, OutsideInv

LEMMA ReturnInv == ASSUME IInv, NEW c \in Callers, Return(c) PROVE IInv'
<1>1. /\ at[c] = "return" /\ at' = [at EXCEPT ![c] = "ready"] /\ Forget(c)
      /\ UNCHANGED <<use, db, tx, writer, now, added>> /\ UNCHANGED left
  BY DEF Return, GoTo
<1>2. left' \in 0..Cardinality(SessionIds)
  BY <1>1 DEF IInv, TypeOK
<1>3. at[c] \notin Holding /\ at[c] \in Loading
  BY <1>1 DEF Holding, Stored, Loading
<1>4. QED
  BY <1>1, <1>2, <1>3, ForgetInv

-----------------------------------------------------------------------------
(* A write in a transaction: the database is as it was, and nobody else    *)
(* has a transaction.                                                      *)
LEMMA InsideInv ==
    ASSUME IInv, NEW c \in Callers, NEW p \in Holding,
           writer \in {None, c}, writer' = c, at' = [at EXCEPT ![c] = p],
           UNCHANGED <<use, db, now, got, quiet, added, left>>,
           tx' \in Databases,
           arg' \in [Callers -> Inputs \cup {NoIds}],
           table' \in [Callers -> Tables],
           \A d \in Callers \ {c} : Own(d)' = Own(d),
           p \in Stored => db.schema /\ db.version,
           Edited(c)'
    PROVE  IInv'
<1>1. /\ at'[c] = p /\ p \notin {"load_table", "return"}
      /\ \A d \in Callers \ {c} : at'[d] = at[d]
  BY DEF IInv, TypeOK, Holding, Stored
<1>2. tx' # None /\ c # None
  BY NoneAssumption
<1>3. TypeOK'
  <2>1. at' \in [Callers -> Steps]
    BY DEF IInv, TypeOK, Steps, Holding, Opening
  <2>2. QED
    BY <1>2, <2>1 DEF IInv, TypeOK, Steps
<1>4. LockInv'
  BY <1>1, <1>2, NoneAssumption DEF IInv, LockInv
<1>5. ReadyMeansMigrated'
  BY <1>1 DEF IInv, ReadyMeansMigrated, Opening, Holding, Stored
<1>6. TablesMatchDocument'
  BY DEF IInv, TablesMatchDocument
<1>7. \A d \in Callers : writer' = d => Edited(d)'
  OBVIOUS
<1>8. \A d \in Callers : Read(d)'
  <2>1. Settings(db)' = Settings(db)
    OBVIOUS
  <2>2. \A d \in Callers \ {c} : Read(d)'
    BY <1>1, <2>1, OthersRead DEF IInv
  <2>3. Read(c)'
    BY <1>1 DEF Read
  <2>4. QED
    BY <2>2, <2>3
<1>9. QED
  BY <1>3, <1>4, <1>5, <1>6, <1>7, <1>8 DEF IInv

LEMMA ApplyInv == ASSUME IInv, NEW c \in Callers, Apply(c) PROVE IInv'
<1>1. /\ at' = [at EXCEPT ![c] = "record"] /\ writer = None /\ writer' = c
      /\ tx' = [db EXCEPT !.schema = TRUE]
      /\ UNCHANGED <<use, db, now, arg, table, got, quiet, added, left>>
  BY DEF Apply, BeginWrite, InTransaction, GoTo
<1>2. /\ tx' \in Databases /\ tx'.schema
      /\ tx'.sessions = db.sessions /\ tx'.cache = db.cache
      /\ tx'.doc = db.doc /\ tx'.tables = db.tables
  BY <1>1 DEF IInv, TypeOK, Databases
<1>3. Edited(c)'
  BY <1>1, <1>2 DEF Edited, IInv, TypeOK, Stored
<1>4. QED
  BY <1>1, <1>2, <1>3, InsideInv DEF Holding, Stored, Own, IInv, TypeOK

LEMMA RecordInv == ASSUME IInv, NEW c \in Callers, Record(c) PROVE IInv'
<1>1. /\ at[c] = "record" /\ at' = [at EXCEPT ![c] = "commit_migration"]
      /\ tx' = [tx EXCEPT !.version = TRUE]
      /\ UNCHANGED <<use, db, writer, now, arg, table, got, quiet, added, left>>
  BY DEF Record, InTransaction, GoTo
<1>2. writer = c /\ tx \in Databases /\ Edited(c)
  BY <1>1, NoneAssumption DEF IInv, LockInv, TypeOK, Holding
<1>3. /\ tx' \in Databases /\ tx'.schema /\ tx'.version
      /\ tx'.sessions = db.sessions /\ tx'.cache = db.cache
      /\ tx'.doc = db.doc /\ tx'.tables = db.tables
  BY <1>1, <1>2 DEF Databases, Edited
<1>4. Edited(c)'
  BY <1>1, <1>3 DEF Edited, IInv, TypeOK, Stored
<1>5. QED
  BY <1>1, <1>2, <1>3, <1>4, InsideInv DEF Holding, Stored, Own, IInv, TypeOK

LEMMA SaveSettingsInv ==
    ASSUME IInv, NEW c \in Callers, NEW settings \in Inputs,
           SaveSettings(c, settings)
    PROVE  IInv'
<1>1. /\ at[c] = "ready" /\ at' = [at EXCEPT ![c] = "replace"]
      /\ writer = None /\ writer' = c /\ tx' = [db EXCEPT !.doc = settings]
      /\ arg' = [arg EXCEPT ![c] = settings] /\ table' = [table EXCEPT ![c] = 1]
      /\ UNCHANGED <<use, db, now, got, quiet, added, left>>
  BY DEF SaveSettings, BeginWrite, InTransaction, GoTo
<1>2. /\ tx' \in Databases /\ tx'.doc = settings
      /\ tx'.sessions = db.sessions /\ tx'.cache = db.cache
      /\ tx'.schema = db.schema /\ tx'.version = db.version
  BY <1>1 DEF IInv, TypeOK, Databases
<1>3. /\ arg' \in [Callers -> Inputs \cup {NoIds}] /\ arg'[c] = settings
      /\ table' \in [Callers -> Tables] /\ table'[c] = 1
      /\ at'[c] = "replace" /\ \A d \in Callers \ {c} : Own(d)' = Own(d)
  BY <1>1 DEF IInv, TypeOK, Tables, Own
<1>4. Edited(c)'
  BY <1>1, <1>2, <1>3 DEF Edited, Tables
<1>5. db.schema /\ db.version
  BY <1>1 DEF IInv, ReadyMeansMigrated, Opening
<1>6. QED
  BY <1>1, <1>2, <1>3, <1>4, <1>5, InsideInv DEF Holding, Stored

LEMMA ReplaceInv == ASSUME IInv, NEW c \in Callers, Replace(c) PROVE IInv'
<1> DEFINE p == IF table[c] < 3 THEN "replace" ELSE "commit_settings"
           n == IF table[c] < 3 THEN table[c] + 1 ELSE table[c]
<1>0. /\ table \in [Callers -> 1..3] /\ table[c] \in 1..3
      /\ at \in [Callers -> Steps]
  BY DEF IInv, TypeOK, Tables, Steps
<1>1. /\ at[c] = "replace" /\ at' = [at EXCEPT ![c] = p]
      /\ table' = [table EXCEPT ![c] = n]
      /\ tx' = [tx EXCEPT !.tables[table[c]] = Positive(arg[c][table[c]])]
      /\ UNCHANGED <<use, db, writer, now, arg, got, quiet, added, left>>
  BY <1>0 DEF Replace, InTransaction, GoTo
<1>2. writer = c /\ tx \in Databases /\ Edited(c) /\ arg[c] \in Inputs
  BY <1>1, NoneAssumption DEF IInv, LockInv, TypeOK, Holding, Stored, Edited
<1>3. Positive(arg[c][table[c]]) \in SUBSET Ids
  BY <1>0, <1>2, PositiveType DEF Tables
<1>4. /\ tx' \in Databases
      /\ tx'.sessions = tx.sessions /\ tx'.cache = tx.cache
      /\ tx'.schema = tx.schema /\ tx'.version = tx.version /\ tx'.doc = tx.doc
      /\ tx'.tables[table[c]] = Positive(arg[c][table[c]])
      /\ \A t \in Tables \ {table[c]} : tx'.tables[t] = tx.tables[t]
  BY <1>0, <1>1, <1>2, <1>3 DEF Databases, Tables
<1>5. at'[c] = p /\ table'[c] = n
  BY <1>0, <1>1
<1>6. Edited(c)'
  <2>1. \A t \in Tables : t < table[c] => tx.tables[t] = Positive(arg[c][t])
    BY <1>1, <1>2 DEF Edited
  <2>2. \A t \in Tables : t <= table[c] => tx'.tables[t] = Positive(arg[c][t])
    BY <1>0, <1>4, <2>1 DEF Tables
  <2>3. CASE table[c] < 3
    BY <1>0, <1>1, <1>2, <1>4, <1>5, <2>2, <2>3 DEF Edited, Tables, Stored
  <2>4. CASE table[c] = 3
    BY <1>0, <1>1, <1>2, <1>4, <1>5, <2>2, <2>4 DEF Edited, Tables, Stored
  <2>5. QED
    BY <1>0, <2>3, <2>4
<1>7. /\ table' \in [Callers -> Tables]
      /\ arg' \in [Callers -> Inputs \cup {NoIds}]
      /\ \A d \in Callers \ {c} : Own(d)' = Own(d)
  BY <1>0, <1>1 DEF IInv, TypeOK, Tables, Own
<1>8. db.schema /\ db.version
  BY <1>1 DEF IInv, ReadyMeansMigrated, Opening
<1>9. p \in Holding
  BY DEF Holding, Stored
<1>10. QED
  <2> HIDE DEF p
  <2>1. QED
    BY <1>1, <1>2, <1>4, <1>6, <1>7, <1>8, <1>9, InsideInv

(* Commit: what the transaction has is the database, and the lock is free. *)
LEMMA CommitMigrationInv ==
    ASSUME IInv, NEW c \in Callers, CommitMigration(c) PROVE IInv'
<1>1. /\ at[c] = "commit_migration" /\ at' = [at EXCEPT ![c] = "ready"]
      /\ writer = c /\ writer' = None /\ db' = tx /\ tx' = None
      /\ UNCHANGED <<use, now, arg, table, got, quiet, added, left>>
  BY DEF CommitMigration, Commit, GoTo
<1>2. tx \in Databases /\ Edited(c)
  BY <1>1, NoneAssumption DEF IInv, LockInv, TypeOK
<1>3. /\ db'.schema /\ db'.version
      /\ db'.doc = db.doc /\ db'.tables = db.tables
  BY <1>1, <1>2 DEF Edited, IInv, ReadyMeansMigrated
<1>4. at'[c] = "ready" /\ \A d \in Callers \ {c} : at'[d] = at[d]
  BY <1>1 DEF IInv, TypeOK
<1>5. TypeOK'
  BY <1>1, <1>2 DEF IInv, TypeOK
<1>6. LockInv'
  BY <1>1, <1>4, NoneAssumption DEF IInv, LockInv, Holding, Stored
<1>7. ReadyMeansMigrated' /\ TablesMatchDocument'
  BY <1>1, <1>3 DEF IInv, ReadyMeansMigrated, TablesMatchDocument
<1>8. \A d \in Callers : writer' # d
  BY <1>1, NoneAssumption
<1>9. \A d \in Callers : Read(d)'
  BY <1>1, <1>3, <1>4 DEF IInv, Read
<1>10. QED
  BY <1>5, <1>6, <1>7, <1>8, <1>9 DEF IInv

LEMMA CommitSettingsInv ==
    ASSUME IInv, NEW c \in Callers, CommitSettings(c) PROVE IInv'
<1>1. /\ at[c] = "commit_settings" /\ at' = [at EXCEPT ![c] = "load_doc"]
      /\ writer = c /\ writer' = None /\ db' = tx /\ tx' = None
      /\ added' = NoIds /\ quiet' = Disturbed(c)
      /\ UNCHANGED <<use, now, arg, table, got, left>>
  BY DEF CommitSettings, Commit, GoTo
<1>2. tx \in Databases /\ Edited(c)
  BY <1>1, NoneAssumption DEF IInv, LockInv, TypeOK
<1>3. db.schema /\ db.version
  BY <1>1 DEF IInv, ReadyMeansMigrated, Opening
<1>4. /\ db'.schema /\ db'.version
      /\ arg[c] \in Inputs /\ db'.doc = arg[c] /\ arg[c] # None
      /\ \A t \in Tables : db'.tables[t] = Positive(arg[c][t])
  BY <1>1, <1>2, <1>3, NoneAssumption DEF Edited, Stored
<1>5. at'[c] = "load_doc" /\ \A d \in Callers \ {c} : at'[d] = at[d]
  BY <1>1 DEF IInv, TypeOK
<1>6. TypeOK'
  <2>1. quiet' \in [Callers -> BOOLEAN] /\ added' \in [Tables -> SUBSET Ids]
    BY <1>1 DEF Disturbed, NoIds
  <2>2. QED
    BY <1>1, <1>2, <2>1 DEF IInv, TypeOK, Loading
<1>7. LockInv'
  BY <1>1, <1>5, NoneAssumption DEF IInv, LockInv, Holding, Stored
<1>8. ReadyMeansMigrated'
  BY <1>4 DEF ReadyMeansMigrated
<1>9. TablesMatchDocument'
  BY <1>1, <1>4 DEF TablesMatchDocument, NoIds
<1>10. \A d \in Callers : writer' # d
  BY <1>1, NoneAssumption
<1>11. \A d \in Callers : Read(d)'
  BY <1>1, <1>5 DEF Read, Disturbed, Loading
<1>12. QED
  BY <1>6, <1>7, <1>8, <1>9, <1>10, <1>11 DEF IInv

LEMMA PinInv ==
    ASSUME IInv, NEW c \in Callers, NEW t \in Tables, NEW id \in Ids,
           Pin(c, t, id)
    PROVE  IInv'
<1>1. /\ at[c] = "ready" /\ at' = [at EXCEPT ![c] = "load_doc"]
      /\ writer = None /\ db' = [db EXCEPT !.tables[t] = db.tables[t] \cup {id}]
      /\ added' = [added EXCEPT ![t] = added[t] \cup {id}]
      /\ quiet' = Disturbed(c)
      /\ UNCHANGED <<use, tx, writer, now, arg, table, got, left>>
  BY DEF Pin, Autocommit, GoTo
<1>2. /\ db' \in Databases /\ db'.doc = db.doc
      /\ db'.schema = db.schema /\ db'.version = db.version
      /\ db'.tables = [db.tables EXCEPT ![t] = db.tables[t] \cup {id}]
      /\ db.tables \in [Tables -> SUBSET Ids]
  BY <1>1 DEF IInv, TypeOK, Databases
<1>3. at'[c] = "load_doc" /\ \A d \in Callers \ {c} : at'[d] = at[d]
  BY <1>1 DEF IInv, TypeOK
<1>4. TypeOK'
  <2>1. quiet' \in [Callers -> BOOLEAN] /\ added' \in [Tables -> SUBSET Ids]
    BY <1>1 DEF Disturbed, IInv, TypeOK
  <2>2. QED
    BY <1>1, <1>2, <2>1 DEF IInv, TypeOK, Loading
<1>5. LockInv'
  BY <1>1, <1>3, NoneAssumption DEF IInv, LockInv, Holding, Stored
<1>6. ReadyMeansMigrated'
  BY <1>1, <1>2, <1>3 DEF IInv, ReadyMeansMigrated, Opening
<1>7. TablesMatchDocument'
  BY <1>1, <1>2 DEF IInv, TypeOK, TablesMatchDocument
<1>8. \A d \in Callers : writer' # d
  BY <1>1, NoneAssumption
<1>9. \A d \in Callers : Read(d)'
  BY <1>1, <1>3 DEF Read, Disturbed, Loading
<1>10. QED
  BY <1>4, <1>5, <1>6, <1>7, <1>8, <1>9 DEF IInv

-----------------------------------------------------------------------------
LEMMA LeftType ==
    ASSUME IInv
    PROVE  /\ Cardinality(SessionIds) \in Nat
           /\ left \in 0..Cardinality(SessionIds)
           /\ Least(left + 1, Cardinality(SessionIds))
                 \in 0..Cardinality(SessionIds)
<1>1. Cardinality(SessionIds) \in Nat
  BY StoreAssumption, FS_CardinalityType
<1>2. QED
  BY <1>1 DEF IInv, TypeOK, Least

(* A call, or its caller, ends in the middle: without the lock it leaves   *)
(* the database alone, and with it what the transaction had is gone.       *)
LEMMA AbandonInv ==
    ASSUME IInv, NEW c \in Callers, NEW p \in {"closed", "ready"},
           p = "ready" => at[c] \in Saving \cup Stored \cup Loading,
           Abandon(c, p)
    PROVE  IInv'
<1>1. /\ at' = [at EXCEPT ![c] = p] /\ Forget(c)
      /\ UNCHANGED <<use, db, now, added>>
      /\ left' \in {left, Least(left + 1, Cardinality(SessionIds))}
  BY DEF Abandon, GoTo
<1>2. left' \in 0..Cardinality(SessionIds)
  BY <1>1, LeftType
<1>3. CASE writer # c
  <2>1. UNCHANGED <<tx, writer>>
    BY <1>3 DEF Abandon
  <2>2. at[c] \notin Holding
    BY <1>3 DEF IInv, LockInv
  <2>3. UNCHANGED <<use, db, tx, writer, now, added>>
    BY <1>1, <2>1
  <2>4. p = "ready" => at[c] \in Saving \cup Loading
    BY <2>2 DEF Holding
  <2>5. QED
    BY <1>1, <1>2, <2>2, <2>3, <2>4, ForgetInv
<1>4. CASE writer = c
  <2>1. tx' = None /\ writer' = None
    BY <1>4 DEF Abandon
  <2>2. /\ got' = [got EXCEPT ![c] = Nothing]
        /\ table' = [table EXCEPT ![c] = 1]
        /\ arg' = [arg EXCEPT ![c] = NoIds]
        /\ quiet' = [quiet EXCEPT ![c] = TRUE]
    BY <1>1 DEF Forget
  <2>3. at'[c] = p /\ \A d \in Callers \ {c} : at'[d] = at[d]
    BY <1>1 DEF IInv, TypeOK
  <2>4. TypeOK'
    <3>1. Nothing \in [doc : Inputs \cup {None},
                       tables : [Tables -> SUBSET Ids]]
      BY DEF Nothing, NoIds
    <3>2. QED
      BY <1>1, <1>2, <2>1, <2>2, <3>1 DEF IInv, TypeOK, Tables
  <2>5. LockInv'
    BY <1>4, <2>1, <2>3, NoneAssumption DEF IInv, LockInv, Holding, Stored
  <2>6. ReadyMeansMigrated' /\ TablesMatchDocument'
    BY <1>1, <2>3 DEF IInv, ReadyMeansMigrated, TablesMatchDocument, Opening,
                      Saving, Stored, Loading
  <2>7. \A d \in Callers : writer' # d
    BY <2>1, NoneAssumption
  <2>8. \A d \in Callers : Read(d)'
    BY <1>1, <2>2, <2>3 DEF IInv, TypeOK, Read
  <2>9. QED
    BY <2>4, <2>5, <2>6, <2>7, <2>8 DEF IInv
<1>5. QED
  BY <1>3, <1>4

LEMMA QuietInv == ASSUME IInv, Tick \/ UNCHANGED vars PROVE IInv'
<1>1. UNCHANGED <<use, db, tx, writer, at, arg, table, got, quiet, added, left>>
  BY DEF Tick, vars
<1>2. now' \in 0..MaxNow
  BY StoreAssumption DEF Tick, vars, IInv, TypeOK
<1>3. TypeOK' /\ LockInv' /\ ReadyMeansMigrated' /\ TablesMatchDocument'
  BY <1>1, <1>2 DEF IInv, TypeOK, LockInv, ReadyMeansMigrated,
                    TablesMatchDocument
<1>4. \A d \in Callers : (writer' = d => Edited(d)') /\ Read(d)'
  BY <1>1 DEF IInv, Edited, Read
<1>5. QED
  BY <1>3, <1>4 DEF IInv

LEMMA StepInv == IInv /\ [Next]_vars => IInv'
<1> SUFFICES ASSUME IInv, [Next]_vars PROVE IInv'
  OBVIOUS
<1>1. ASSUME NEW c \in Callers, Fail(c) PROVE IInv'
  BY <1>1, AbandonInv DEF Fail
<1>2. ASSUME NEW c \in Callers, Crash(c) PROVE IInv'
  BY <1>2, AbandonInv DEF Crash
<1>3. ASSUME NEW c \in Callers,
             \/ Open(c) \/ MigrationApplied(c) \/ Apply(c) \/ Record(c)
             \/ CommitMigration(c)
      PROVE  IInv'
  BY <1>3, OpenInv, ApplyInv, RecordInv, CommitMigrationInv
<1>4. ASSUME NEW c \in Callers,
             \/ \E s \in SessionIds, updated \in 0..now : Upsert(c, s, updated)
             \/ PruneAge(c) \/ PruneCount(c) \/ PruneCache(c)
             \/ \E k \in Keys, expires \in 0..MaxNow :
                   UpsertCache(c, k, expires)
      PROVE  IInv'
  BY <1>4, UpsertInv, PruneAgeInv, PruneCountInv, CacheInv
<1>5. ASSUME NEW c \in Callers,
             \/ \E settings \in Inputs : SaveSettings(c, settings)
             \/ Replace(c) \/ CommitSettings(c)
             \/ \E t \in Tables, id \in Ids : Pin(c, t, id)
      PROVE  IInv'
  BY <1>5, SaveSettingsInv, ReplaceInv, CommitSettingsInv, PinInv
<1>6. ASSUME NEW c \in Callers,
             LoadSettings(c) \/ LoadDocument(c) \/ LoadTable(c) \/ Return(c)
      PROVE  IInv'
  BY <1>6, LoadSettingsInv, LoadDocumentInv, LoadTableInv, ReturnInv
<1>7. CASE Tick \/ UNCHANGED vars
  BY <1>7, QuietInv
<1>8. QED
  BY <1>1, <1>2, <1>3, <1>4, <1>5, <1>6, <1>7 DEF Next

LEMMA Invariance == Spec => []IInv
BY InitInv, StepInv, PTL DEF Spec

-----------------------------------------------------------------------------
(* Which steps change sessions or cache, and how.                          *)
LEMMA SessionSteps ==
    ASSUME IInv, [Next]_vars
    PROVE  \/ /\ db'.sessions = db.sessions
              /\ db'.cache = db.cache
           \/ \E c \in Callers :
                 \/ \E s \in SessionIds, updated \in 0..now :
                       Upsert(c, s, updated)
                 \/ PruneAge(c) \/ PruneCount(c) \/ PruneCache(c)
                 \/ \E k \in Keys, expires \in 0..MaxNow :
                       UpsertCache(c, k, expires)
<1>1. CASE UNCHANGED db
  BY <1>1
<1>2. ASSUME NEW c \in Callers, CommitMigration(c) \/ CommitSettings(c)
      PROVE  db'.sessions = db.sessions /\ db'.cache = db.cache
  BY <1>2 DEF CommitMigration, CommitSettings, Commit, IInv, Edited
<1>3. ASSUME NEW c \in Callers, NEW t \in Tables, NEW id \in Ids, Pin(c, t, id)
      PROVE  db'.sessions = db.sessions /\ db'.cache = db.cache
  BY <1>3 DEF Pin, Autocommit, IInv, TypeOK, Databases
<1>4. ASSUME NEW c \in Callers,
             \/ Open(c) \/ MigrationApplied(c) \/ Apply(c) \/ Record(c)
             \/ \E settings \in Inputs : SaveSettings(c, settings)
             \/ Replace(c) \/ LoadSettings(c) \/ LoadDocument(c) \/ LoadTable(c)
             \/ Return(c) \/ Fail(c) \/ Crash(c)
      PROVE  UNCHANGED db
  BY <1>4 DEF Open, MigrationApplied, Apply, Record, SaveSettings, Replace,
              LoadSettings, LoadDocument, LoadTable, Return, Fail, Crash,
              Abandon, InTransaction
<1>5. CASE Tick \/ UNCHANGED vars
  BY <1>5 DEF Tick, vars
<1>6. QED
  BY <1>1, <1>2, <1>3, <1>4, <1>5 DEF Next

LEMMA SessionsFinite ==
    ASSUME IInv
    PROVE  /\ IsFiniteSet(DOMAIN db.sessions)
           /\ Cardinality(DOMAIN db.sessions) \in Nat
           /\ Cardinality(DOMAIN db.sessions) <= Cardinality(SessionIds)
<1>1. DOMAIN db.sessions \in SUBSET SessionIds
  BY Rows, RowsType DEF SessionRows
<1>2. QED
  BY <1>1, StoreAssumption, FS_Subset, FS_CardinalityType

LEMMA NewestKept ==
    ASSUME IInv, NEW kept \in Newest(db.sessions, MaxSessions)
    PROVE  /\ kept \in SUBSET DOMAIN db.sessions
           /\ Cardinality(kept) \in Nat /\ Cardinality(kept) <= MaxSessions
           /\ kept # DOMAIN db.sessions => Cardinality(kept) = MaxSessions
<1>1. /\ kept \in SUBSET DOMAIN db.sessions
      /\ Cardinality(kept)
            = Least(MaxSessions, Cardinality(DOMAIN db.sessions))
  BY DEF Newest
<1>2. kept # DOMAIN db.sessions =>
         Cardinality(kept) # Cardinality(DOMAIN db.sessions)
  BY <1>1, SessionsFinite, FS_Subset
<1>3. QED
  BY <1>1, <1>2, SessionsFinite, StoreAssumption DEF Least

\* What each statement leaves in the tables.
LEMMA UpsertRows ==
    ASSUME IInv, NEW c \in Callers,
           NEW s \in SessionIds, NEW updated \in 0..now, Upsert(c, s, updated)
    PROVE  /\ DOMAIN db'.sessions = DOMAIN db.sessions \cup {s}
           /\ db'.cache = db.cache
<1> DEFINE rows == With(db.sessions, s, updated)
<1>1. updated \in 0..MaxNow
  BY StoreAssumption DEF IInv, TypeOK
<1>2. rows \in SessionRows /\ DOMAIN rows = DOMAIN db.sessions \cup {s}
  <2>1. rows \in SessionRows
    BY <1>1, Rows, WithType DEF SessionRows
  <2>2. DOMAIN rows = DOMAIN db.sessions \cup {s}
    BY DEF With
  <2>3. QED
    BY <2>1, <2>2
<1>3. db' = [db EXCEPT !.sessions = rows]
  BY DEF Upsert, Autocommit
<1>4. db'.sessions = rows /\ db'.cache = db.cache
  <2> HIDE DEF rows
  <2>1. QED
    BY <1>2, <1>3, Rows, SessionsEdit
<1>5. QED
  BY <1>2, <1>4

LEMMA PruneAgeRows ==
    ASSUME IInv, NEW c \in Callers, PruneAge(c)
    PROVE  /\ DOMAIN db'.sessions = {s \in DOMAIN db.sessions :
                                      db.sessions[s] + MaxAge > now}
           /\ db'.cache = db.cache
<1> DEFINE young == {s \in DOMAIN db.sessions : db.sessions[s] + MaxAge > now}
           rows == Restrict(db.sessions, young)
<1>1. rows \in SessionRows /\ DOMAIN rows = young
  BY Rows, RestrictType DEF SessionRows
<1>2. db' = [db EXCEPT !.sessions = rows]
  BY DEF PruneAge, Autocommit
<1>3. db'.sessions = rows /\ db'.cache = db.cache
  <2> HIDE DEF rows
  <2>1. QED
    BY <1>1, <1>2, Rows, SessionsEdit
<1>4. QED
  BY <1>1, <1>3

LEMMA PruneCountRows ==
    ASSUME IInv, NEW c \in Callers, PruneCount(c)
    PROVE  /\ DOMAIN db'.sessions \in Newest(db.sessions, MaxSessions)
           /\ db'.cache = db.cache
<1>1. PICK kept \in Newest(db.sessions, MaxSessions) :
         db' = [db EXCEPT !.sessions = Restrict(db.sessions, kept)]
  BY DEF PruneCount, Autocommit
<1> DEFINE rows == Restrict(db.sessions, kept)
<1>2. rows \in SessionRows /\ DOMAIN rows = kept
  BY Rows, RestrictType DEF SessionRows, Newest
<1>3. db'.sessions = rows /\ db'.cache = db.cache
  <2> HIDE DEF rows
  <2>1. db' = [db EXCEPT !.sessions = rows]
    BY <1>1 DEF rows
  <2>2. QED
    BY <1>2, <2>1, Rows, SessionsEdit
<1>4. QED
  BY <1>2, <1>3

LEMMA CacheRowsAfter ==
    ASSUME IInv, NEW c \in Callers,
           \/ \E k \in Keys, expires \in 0..MaxNow : UpsertCache(c, k, expires)
           \/ PruneCache(c)
    PROVE  /\ db'.sessions = db.sessions
           /\ \A k \in DOMAIN db.cache \ DOMAIN db'.cache :
                 Outdated(db.cache[k])
<1>1. PICK rows \in CacheRows :
         /\ db' = [db EXCEPT !.cache = rows]
         /\ \A k \in DOMAIN db.cache \ DOMAIN rows : Outdated(db.cache[k])
  <2>1. CASE PruneCache(c)
    <3> DEFINE fresh == {k \in DOMAIN db.cache : ~Outdated(db.cache[k])}
    <3>1. /\ Restrict(db.cache, fresh) \in CacheRows
          /\ DOMAIN Restrict(db.cache, fresh) = fresh
      BY Rows, RestrictType DEF CacheRows
    <3>2. db' = [db EXCEPT !.cache = Restrict(db.cache, fresh)]
      BY <2>1 DEF PruneCache, Autocommit
    <3>3. \A k \in DOMAIN db.cache \ fresh : Outdated(db.cache[k])
      OBVIOUS
    <3>4. QED
      BY <3>1, <3>2, <3>3
  <2>2. CASE \E k \in Keys, expires \in 0..MaxNow : UpsertCache(c, k, expires)
    <3>1. PICK k \in Keys, expires \in 0..MaxNow : UpsertCache(c, k, expires)
      BY <2>2
    <3> DEFINE row == [expires |-> expires, updated |-> now]
    <3>2. row \in [expires : 0..MaxNow, updated : 0..MaxNow]
      BY DEF IInv, TypeOK
    <3>3. db' = [db EXCEPT !.cache = With(db.cache, k, row)]
      BY <3>1 DEF UpsertCache, Autocommit
    <3> HIDE DEF row
    <3>4. With(db.cache, k, row) \in CacheRows
      BY <3>2, Rows, WithType DEF CacheRows
    <3>5. DOMAIN db.cache \subseteq DOMAIN With(db.cache, k, row)
      BY DEF With
    <3>6. QED
      BY <3>3, <3>4, <3>5
  <2>3. QED
    BY <2>1, <2>2
<1>2. db'.sessions = db.sessions /\ db'.cache = rows
  BY <1>1, Rows, CacheEdit
<1>3. QED
  BY <1>1, <1>2

\* Saves between the insert and the end of the pruning.
Savers == {c \in Callers : at[c] \in Saving}

LEMMA SaversFinite ==
    ASSUME NEW S \in SUBSET Callers
    PROVE  IsFiniteSet(S) /\ Cardinality(S) \in Nat
BY StoreAssumption, FS_Subset, FS_CardinalityType

LEMMA SaversAfter ==
    ASSUME IInv, NEW c \in Callers, NEW p, at' = [at EXCEPT ![c] = p]
    PROVE  Savers' = IF p \in Saving THEN Savers \cup {c} ELSE Savers \ {c}
BY DEF IInv, TypeOK, Savers

LEMMA UpsertSaves ==
    ASSUME IInv, NEW c \in Callers, NEW s \in SessionIds,
           NEW updated \in 0..now, Upsert(c, s, updated)
    PROVE  c \notin Savers /\ Savers' = Savers \cup {c} /\ left' = left
<1>1. /\ at[c] = "ready" /\ at' = [at EXCEPT ![c] = "prune_age"]
      /\ left' = left
  BY DEF Upsert, GoTo
<1>2. QED
  BY <1>1, SaversAfter DEF Savers, Saving

\* An upsert begins a save; pruning by count, a failure or a crash ends one.
LEMMA SaverSteps ==
    ASSUME IInv, [Next]_vars
    PROVE  \/ Savers' = Savers /\ left' = left
           \/ \E c \in Callers \ Savers :
                 /\ Savers' = Savers \cup {c} /\ left' = left
                 /\ \E s \in SessionIds, updated \in 0..now :
                       Upsert(c, s, updated)
           \/ \E c \in Callers : PruneCount(c)
           \/ \E c \in Savers :
                 /\ Savers' = Savers \ {c} /\ UNCHANGED db
                 /\ left' = Least(left + 1, Cardinality(SessionIds))
<1>1. ASSUME NEW c \in Callers, NEW s \in SessionIds, NEW updated \in 0..now,
             Upsert(c, s, updated)
      PROVE  c \notin Savers /\ Savers' = Savers \cup {c} /\ left' = left
  BY <1>1, UpsertSaves
<1>2. ASSUME NEW c \in Callers, PruneAge(c)
      PROVE  Savers' = Savers /\ left' = left
  <2>1. /\ at[c] = "prune_age" /\ at' = [at EXCEPT ![c] = "prune_count"]
        /\ left' = left
    BY <1>2 DEF PruneAge, GoTo
  <2>2. QED
    BY <2>1, SaversAfter DEF Savers, Saving
<1>3. ASSUME NEW c \in Callers, NEW p \in {"closed", "ready"}, Abandon(c, p)
      PROVE  \/ Savers' = Savers /\ left' = left
             \/ /\ c \in Savers /\ Savers' = Savers \ {c} /\ UNCHANGED db
                /\ left' = Least(left + 1, Cardinality(SessionIds))
  <2>1. /\ at' = [at EXCEPT ![c] = p] /\ UNCHANGED db
        /\ left' = IF at[c] \in Saving
                   THEN Least(left + 1, Cardinality(SessionIds)) ELSE left
    BY <1>3 DEF Abandon, GoTo
  <2>2. QED
    BY <2>1, SaversAfter DEF Savers, Saving
<1>4. ASSUME NEW c \in Callers, NEW p \in Steps \ Saving,
             at' = [at EXCEPT ![c] = p], at[c] \notin Saving, left' = left
      PROVE  Savers' = Savers /\ left' = left
  BY <1>4, SaversAfter DEF Savers
<1>5. ASSUME NEW c \in Callers,
             \/ Open(c) \/ MigrationApplied(c) \/ Apply(c) \/ Record(c)
             \/ CommitMigration(c)
      PROVE  Savers' = Savers /\ left' = left
  <2>1. PICK p \in Opening \cup {"ready"} :
           /\ at' = [at EXCEPT ![c] = p] /\ left' = left
           /\ at[c] \in Opening \cup {"closed"}
    BY <1>5 DEF Open, MigrationApplied, Apply, Record, CommitMigration, GoTo,
                Opening
  <2>2. p \in Steps \ Saving /\ at[c] \notin Saving
    BY <2>1 DEF Steps, Opening, Saving
  <2>3. QED
    BY <1>4, <2>1, <2>2
<1>6. ASSUME NEW c \in Callers,
             \/ \E settings \in Inputs : SaveSettings(c, settings)
             \/ Replace(c) \/ CommitSettings(c)
             \/ \E t \in Tables, id \in Ids : Pin(c, t, id)
             \/ LoadSettings(c) \/ LoadDocument(c) \/ LoadTable(c) \/ Return(c)
      PROVE  Savers' = Savers /\ left' = left
  <2>1. /\ at[c] \in {"ready"} \cup Stored \cup Loading /\ left' = left
        /\ \/ UNCHANGED at
           \/ \E p \in {"ready"} \cup Stored \cup Loading : GoTo(c, p)
    BY <1>6 DEF SaveSettings, Replace, CommitSettings, Pin, LoadSettings,
                LoadDocument, LoadTable, Return, Stored, Loading
  <2>2. CASE UNCHANGED at
    BY <2>1, <2>2 DEF Savers
  <2>3. ASSUME NEW p \in {"ready"} \cup Stored \cup Loading, GoTo(c, p)
        PROVE  Savers' = Savers
    BY <1>4, <2>1, <2>3 DEF GoTo, Steps, Stored, Loading, Saving
  <2>4. QED
    BY <2>1, <2>2, <2>3
<1>7. ASSUME NEW c \in Callers,
             \/ PruneCache(c) \/ Tick \/ UNCHANGED vars
             \/ \E k \in Keys, expires \in 0..MaxNow :
                   UpsertCache(c, k, expires)
      PROVE  Savers' = Savers /\ left' = left
  BY <1>7 DEF PruneCache, UpsertCache, Tick, vars, Savers
<1>8. CASE Tick \/ UNCHANGED vars
  BY <1>8 DEF Tick, vars, Savers
<1>9. QED
  BY <1>1, <1>2, <1>3, <1>5, <1>6, <1>7, <1>8 DEF Next, Fail, Crash

LEMMA RetentionStep ==
    ASSUME IInv, RetentionKept, [Next]_vars PROVE RetentionKept'
<1> DEFINE rows == DOMAIN db.sessions
           room == MaxSessions + Cardinality(Savers) + left
<1>1. /\ IsFiniteSet(rows) /\ Cardinality(rows) \in Nat
      /\ Cardinality(rows) <= Cardinality(SessionIds)
      /\ IsFiniteSet(Savers) /\ Cardinality(Savers) \in Nat
      /\ left \in Nat /\ Cardinality(SessionIds) \in Nat /\ MaxSessions \in Nat
  BY SessionsFinite, SaversFinite, LeftType, StoreAssumption DEF Savers
<1>2. Cardinality(rows) <= room
  BY DEF RetentionKept, Savers
<1>3. SUFFICES Cardinality(rows') <= room'
  BY DEF RetentionKept, Savers
<1>4. ASSUME NEW c \in Callers, PruneCount(c)
      PROVE  Cardinality(rows') <= room'
  <2>1. Cardinality(rows') \in Nat /\ Cardinality(rows') <= MaxSessions
    BY <1>4, PruneCountRows, NewestKept
  <2>2. left' = 0 /\ Savers' \in SUBSET Callers
    BY <1>4 DEF PruneCount, Savers
  <2>3. Cardinality(Savers') \in Nat
    BY <2>2, SaversFinite
  <2>4. QED
    BY <1>1, <2>1, <2>2, <2>3
<1>5. ASSUME NEW c \in Callers \ Savers, NEW s \in SessionIds,
             NEW updated \in 0..now, Upsert(c, s, updated),
             Savers' = Savers \cup {c}, left' = left
      PROVE  Cardinality(rows') <= room'
  <2>1. rows' = rows \cup {s}
    BY <1>5, UpsertRows
  <2>2. Cardinality(rows \cup {s}) <= Cardinality(rows) + 1
    <3> HIDE DEF rows
    <3>1. Cardinality(rows \cup {s})
             = IF s \in rows THEN Cardinality(rows) ELSE Cardinality(rows) + 1
      BY <1>1, FS_AddElement
    <3>2. QED
      BY <1>1, <3>1
  <2>3. Cardinality(Savers') = Cardinality(Savers) + 1
    BY <1>1, <1>5, FS_AddElement
  <2>4. Cardinality(rows \cup {s}) \in Nat
    BY <1>1, FS_AddElement, FS_CardinalityType
  <2>5. QED
    BY <1>1, <1>2, <1>5, <2>1, <2>2, <2>3, <2>4
<1>6. ASSUME NEW c \in Savers, Savers' = Savers \ {c}, UNCHANGED db,
             left' = Least(left + 1, Cardinality(SessionIds))
      PROVE  Cardinality(rows') <= room'
  <2>1. Cardinality(Savers') = Cardinality(Savers) - 1
    BY <1>1, <1>6, FS_RemoveElement
  <2>2. Cardinality(Savers') \in Nat
    BY <1>6, SaversFinite DEF Savers
  <2>3. CASE left + 1 <= Cardinality(SessionIds)
    BY <1>1, <1>2, <1>6, <2>1, <2>3 DEF Least
  <2>4. CASE ~(left + 1 <= Cardinality(SessionIds))
    BY <1>1, <1>6, <2>2, <2>4 DEF Least
  <2>5. QED
    BY <2>3, <2>4
<1>7. CASE Savers' = Savers /\ left' = left
  <2>1. ASSUME NEW c \in Callers, NEW s \in SessionIds, NEW updated \in 0..now,
               Upsert(c, s, updated)
        PROVE  FALSE
    BY <1>7, <2>1, UpsertSaves
  <2>2. rows' \in SUBSET rows
    <3>1. ASSUME NEW c \in Callers, PruneAge(c)
          PROVE  rows' \in SUBSET rows
      BY <3>1, PruneAgeRows
    <3>2. ASSUME NEW c \in Callers, PruneCount(c)
          PROVE  rows' \in SUBSET rows
      BY <3>2, PruneCountRows, NewestKept
    <3>3. QED
      BY <2>1, <3>1, <3>2, SessionSteps, CacheRowsAfter
  <2>3. Cardinality(rows') \in Nat /\ Cardinality(rows') <= Cardinality(rows)
    BY <1>1, <2>2, FS_Subset, FS_CardinalityType
  <2>4. QED
    BY <1>1, <1>2, <1>7, <2>3
<1>8. QED
  BY <1>4, <1>5, <1>6, <1>7, SaverSteps

LEMMA InitRetention == Init => RetentionKept
<1> SUFFICES ASSUME Init PROVE RetentionKept
  OBVIOUS
<1>1. DOMAIN db.sessions = {} /\ left = 0
  BY DEF Init, Empty
<1>2. Cardinality(Savers) \in Nat
  BY SaversFinite DEF Savers
<1>3. QED
  BY <1>1, <1>2, FS_EmptySet, StoreAssumption DEF RetentionKept, Savers

\* What a step may remove.
OldGo ==
    LET gone == DOMAIN db.sessions \ DOMAIN db'.sessions
        kept == DOMAIN db.sessions \cap DOMAIN db'.sessions
    IN  /\ \A s \in gone :
              /\ \A k \in kept : db.sessions[k] >= db.sessions[s]
              /\ db.sessions[s] + MaxAge =< now
                    \/ Cardinality(kept) >= MaxSessions
        /\ \A k \in DOMAIN db.cache \ DOMAIN db'.cache :
              Outdated(db.cache[k])

LEMMA OldGoStep == ASSUME IInv, [Next]_vars PROVE OldGo
<1>1. CASE db'.sessions = db.sessions /\ db'.cache = db.cache
  BY <1>1 DEF OldGo
<1>2. ASSUME NEW c \in Callers, NEW s \in SessionIds, NEW updated \in 0..now,
             Upsert(c, s, updated)
      PROVE  OldGo
  BY <1>2, UpsertRows DEF OldGo
<1>3. ASSUME NEW c \in Callers, PruneAge(c)
      PROVE  OldGo
  <2>1. /\ \A s \in DOMAIN db.sessions : db.sessions[s] \in Nat
        /\ MaxAge \in Nat /\ now \in Nat
    BY Rows, RowsType, StoreAssumption DEF SessionRows, IInv, TypeOK
  <2>2. QED
    BY <1>3, <2>1, PruneAgeRows DEF OldGo
<1>4. ASSUME NEW c \in Callers, PruneCount(c)
      PROVE  OldGo
  <2>1. PICK kept \in Newest(db.sessions, MaxSessions) :
           DOMAIN db'.sessions = kept
    BY <1>4, PruneCountRows
  <2>2. kept \in SUBSET DOMAIN db.sessions /\ MaxSessions \in Nat
    BY NewestKept, StoreAssumption
  <2>3. kept # DOMAIN db.sessions => Cardinality(kept) = MaxSessions
    BY NewestKept
  <2>4. \A s \in kept, o \in DOMAIN db.sessions \ kept :
           db.sessions[s] >= db.sessions[o]
    BY DEF Newest
  <2>5. DOMAIN db.sessions \cap DOMAIN db'.sessions = kept
    BY <2>1, <2>2
  <2>6. db'.cache = db.cache
    BY <1>4, PruneCountRows
  <2>7. QED
    BY <2>1, <2>2, <2>3, <2>4, <2>5, <2>6 DEF OldGo
<1>5. ASSUME NEW c \in Callers,
             \/ \E k \in Keys, expires \in 0..MaxNow :
                   UpsertCache(c, k, expires)
             \/ PruneCache(c)
      PROVE  OldGo
  BY <1>5, CacheRowsAfter DEF OldGo
<1>6. QED
  BY <1>1, <1>2, <1>3, <1>4, <1>5, SessionSteps

-----------------------------------------------------------------------------
(* The refinement: what the instance of Store sees of a caller.            *)
Call == [c \in Callers |-> Doing(at[c])]
Asked == [c \in Callers |-> IF at[c] \in Stored THEN arg[c] ELSE None]
Seen == <<now, Call, Asked, db.sessions, db.cache, db.doc, db.tables>>

LEMMA DoingIs ==
    /\ \A p \in {"closed"} \cup Opening : Doing(p) = "away"
    /\ Doing("ready") = "idle"
    /\ \A p \in Saving : Doing(p) = "saved"
    /\ \A p \in Stored : Doing(p) = "writing"
    /\ \A p \in Loading : Doing(p) = "reading"
BY DEF Doing, Opening, Saving, Stored, Loading

LEMMA Moved ==
    ASSUME IInv, NEW c \in Callers, NEW p, at' = [at EXCEPT ![c] = p]
    PROVE  /\ Call[c] = Doing(at[c])
           /\ Call' = [Call EXCEPT ![c] = Doing(p)]
           /\ Doing(at[c]) = Doing(p) => Call' = Call
BY DEF Call, IInv, TypeOK

LEMMA AskedNow ==
    ASSUME IInv, NEW c \in Callers, NEW p, at' = [at EXCEPT ![c] = p],
           \A d \in Callers \ {c} : arg'[d] = arg[d]
    PROVE  /\ p \in Stored => Asked' = [Asked EXCEPT ![c] = arg'[c]]
           /\ p \notin Stored => Asked' = [Asked EXCEPT ![c] = None]
           /\ p \notin Stored /\ at[c] \notin Stored => Asked' = Asked
           /\ p \in Stored /\ at[c] \in Stored /\ arg'[c] = arg[c]
                 => Asked' = Asked
BY DEF Asked, IInv, TypeOK

\* A step that leaves the database and the clock alone.
LEMMA MovesOnly ==
    ASSUME IInv, NEW c \in Callers, NEW p, at' = [at EXCEPT ![c] = p],
           UNCHANGED arg, at[c] \in Stored <=> p \in Stored, UNCHANGED now,
           db'.sessions = db.sessions, db'.cache = db.cache,
           db'.doc = db.doc, db'.tables = db.tables
    PROVE  /\ Doing(at[c]) = Doing(p) => UNCHANGED Seen
           /\ Doing(at[c]) = "away" /\ Doing(p) = "idle" => Promise!Come(c)
           /\ Doing(at[c]) = "idle" /\ Doing(p) = "reading" => Promise!Read(c)
           /\ Doing(at[c]) = "reading" /\ Doing(p) = "idle" => Promise!Answer(c)
<1>1. /\ Call[c] = Doing(at[c]) /\ Call' = [Call EXCEPT ![c] = Doing(p)]
      /\ Doing(at[c]) = Doing(p) => Call' = Call
      /\ Asked' = Asked
  BY Moved, AskedNow
<1>2. QED
  BY <1>1 DEF Seen, Call, Asked, Promise!Come, Promise!Read, Promise!Answer, Promise!Moves, Promise!store

LEMMA OpeningMaps ==
    ASSUME IInv, NEW c \in Callers,
           \/ Open(c) \/ MigrationApplied(c) \/ Apply(c) \/ Record(c)
           \/ CommitMigration(c)
    PROVE  Promise!Come(c) \/ UNCHANGED Seen
<1>1. PICK p \in Opening \cup {"ready"} :
         at' = [at EXCEPT ![c] = p] /\ at[c] \in Opening \cup {"closed"}
  BY DEF Open, MigrationApplied, Apply, Record, CommitMigration, GoTo, Opening
<1>2. UNCHANGED <<now, arg>>
  BY DEF Open, MigrationApplied, Apply, Record, CommitMigration
<1>3. /\ db'.sessions = db.sessions /\ db'.cache = db.cache
      /\ db'.doc = db.doc /\ db'.tables = db.tables
  <2>1. CASE CommitMigration(c)
    <3>1. at[c] = "commit_migration" /\ writer = c /\ db' = tx
      BY <2>1 DEF CommitMigration, Commit
    <3>2. QED
      BY <3>1 DEF IInv, Edited
  <2>2. CASE ~CommitMigration(c)
    BY <2>2 DEF Open, MigrationApplied, Apply, Record, InTransaction
  <2>3. QED
    BY <2>1, <2>2
<1>4. at[c] \notin Stored /\ p \notin Stored
  BY <1>1 DEF Opening, Stored
<1>5. Doing(at[c]) = "away" /\ Doing(p) \in {"away", "idle"}
  BY <1>1, DoingIs
<1>6. QED
  BY <1>1, <1>2, <1>3, <1>4, <1>5, MovesOnly

LEMMA ReadingMaps ==
    ASSUME IInv, NEW c \in Callers,
           LoadSettings(c) \/ LoadDocument(c) \/ LoadTable(c)
    PROVE  Promise!Read(c) \/ UNCHANGED Seen
<1>1. PICK p \in Loading :
         at' = [at EXCEPT ![c] = p] /\ at[c] \in Loading \cup {"ready"}
  <2>1. CASE LoadTable(c) /\ UNCHANGED at
    <3>1. at' = [at EXCEPT ![c] = "load_table"] /\ at[c] = "load_table"
      BY <2>1 DEF LoadTable, IInv, TypeOK
    <3>2. QED
      BY <3>1 DEF Loading
  <2>2. CASE ~(LoadTable(c) /\ UNCHANGED at)
    BY <2>2 DEF LoadSettings, LoadDocument, LoadTable, GoTo, Loading
  <2>3. QED
    BY <2>1, <2>2
<1>2. UNCHANGED <<now, arg, db>>
  BY DEF LoadSettings, LoadDocument, LoadTable
<1>3. at[c] \notin Stored /\ p \notin Stored
  BY <1>1 DEF Loading, Stored
<1>4. Doing(at[c]) \in {"idle", "reading"} /\ Doing(p) = "reading"
  BY <1>1, DoingIs
<1>5. QED
  BY <1>1, <1>2, <1>3, <1>4, MovesOnly

\* The settings of Forget are nobody's: only a caller that writes has any.
LEMMA Ended ==
    ASSUME IInv, NEW c \in Callers, NEW p \in {"closed", "ready"},
           at' = [at EXCEPT ![c] = p], Forget(c), UNCHANGED <<now, db>>
    PROVE  /\ Call[c] = Doing(at[c]) /\ Call' = [Call EXCEPT ![c] = Doing(p)]
           /\ Asked' = [Asked EXCEPT ![c] = None]
           /\ at[c] \notin Stored => Asked' = Asked
<1>1. \A d \in Callers \ {c} : arg'[d] = arg[d]
  BY DEF Forget, IInv, TypeOK
<1>2. p \notin Stored
  BY DEF Stored
<1>3. QED
  BY <1>1, <1>2, Moved, AskedNow

LEMMA ReturnMaps ==
    ASSUME IInv, NEW c \in Callers, Return(c) PROVE Promise!Answer(c)
<1>1. /\ at[c] = "return" /\ at' = [at EXCEPT ![c] = "ready"] /\ Forget(c)
      /\ UNCHANGED <<db, now>>
  BY DEF Return, GoTo
<1>2. at[c] \in Loading /\ at[c] \notin Stored
  BY <1>1 DEF Loading, Stored
<1>3. /\ Call[c] = "reading" /\ Call' = [Call EXCEPT ![c] = "idle"]
      /\ Asked' = Asked
  BY <1>1, <1>2, Ended, DoingIs
<1>4. QED
  BY <1>1, <1>3 DEF Call, Asked, Promise!Answer, Promise!Moves, Promise!store

LEMMA AbandonMaps ==
    ASSUME IInv, NEW c \in Callers, NEW p \in {"closed", "ready"},
           at[c] # "closed",
           p = "ready" => at[c] \in Saving \cup Stored \cup Loading,
           Abandon(c, p)
    PROVE  Promise!End(c) \/ UNCHANGED Seen
<1>1. /\ at' = [at EXCEPT ![c] = p] /\ Forget(c) /\ UNCHANGED <<db, now>>
  BY DEF Abandon, GoTo
<1>2. /\ Call[c] = Doing(at[c]) /\ Call' = [Call EXCEPT ![c] = Doing(p)]
      /\ Asked' = [Asked EXCEPT ![c] = None]
      /\ at[c] \notin Stored => Asked' = Asked
  BY <1>1, Ended
<1>3. Doing(p) \in {"away", "idle"}
  BY DoingIs
<1>4. CASE at[c] \in Opening
  <2>1. at[c] \notin Saving \cup Stored \cup Loading
    BY <1>4 DEF Opening, Saving, Stored, Loading
  <2>2. p = "closed" /\ Doing(at[c]) = "away" /\ Doing(p) = "away"
    BY <1>4, <2>1, DoingIs
  <2>3. Call' = Call
    BY <1>1, <2>2, Moved
  <2>4. QED
    BY <1>1, <1>2, <2>1, <2>3 DEF Seen
<1>5. CASE at[c] \notin Opening
  <2>1. at[c] \in {"ready"} \cup Saving \cup Stored \cup Loading
    BY <1>5 DEF IInv, TypeOK
  <2>2. Doing(at[c]) \in {"idle", "saved", "writing", "reading"}
    BY <2>1, DoingIs
  <2>3. \E from \in {"idle", "saved", "writing", "reading"}, to \in {"away", "idle"} :
           Call[c] = from /\ Call' = [Call EXCEPT ![c] = to]
    BY <1>2, <1>3, <2>2
  <2>4. QED
    BY <1>1, <1>2, <2>3 DEF Call, Asked, Promise!End, Promise!Moves, Promise!store
<1>6. QED
  BY <1>4, <1>5

LEMMA SameRestrict ==
    ASSUME NEW f, NEW K PROVE Promise!Restrict(f, K) = Restrict(f, K)
BY DEF Restrict, Promise!Restrict

LEMMA SameCardinality ==
    ASSUME NEW K PROVE Promise!Cardinality(K) = Cardinality(K)
BY DEF Cardinality, Promise!Cardinality

\* A statement on sessions or cache.
LEMMA RowsMap ==
    ASSUME IInv, NEW c \in Callers, NEW p \in {"ready"} \cup Saving,
           at[c] \in {"ready"} \cup Saving, at' = [at EXCEPT ![c] = p],
           UNCHANGED <<now, arg>>
    PROVE  /\ Call[c] = Doing(at[c]) /\ Call' = [Call EXCEPT ![c] = Doing(p)]
           /\ Doing(at[c]) = Doing(p) => Call' = Call
           /\ Asked' = Asked
<1>1. at[c] \notin Stored /\ p \notin Stored
  BY DEF Saving, Stored
<1>2. QED
  BY <1>1, Moved, AskedNow

LEMMA UpsertMaps ==
    ASSUME IInv, NEW c \in Callers, NEW s \in SessionIds, NEW updated \in 0..now,
           Upsert(c, s, updated)
    PROVE  Promise!SaveSession(c)
<1> DEFINE rows == With(db.sessions, s, updated)
<1>1. /\ at[c] = "ready" /\ at' = [at EXCEPT ![c] = "prune_age"]
      /\ db' = [db EXCEPT !.sessions = rows] /\ UNCHANGED <<now, arg>>
  BY DEF Upsert, Autocommit, GoTo
<1>2. /\ Call[c] = "idle" /\ Call' = [Call EXCEPT ![c] = "saved"]
      /\ Asked' = Asked
  <2>1. "prune_age" \in Saving /\ Doing("prune_age") = "saved"
    BY DoingIs DEF Saving
  <2>2. /\ Call[c] = Doing("ready") /\ Asked' = Asked
        /\ Call' = [Call EXCEPT ![c] = Doing("prune_age")]
    BY <1>1, <2>1, RowsMap
  <2>3. QED
    BY <2>1, <2>2, DoingIs
<1>3. updated \in 0..MaxNow
  BY StoreAssumption DEF IInv, TypeOK
<1>4. rows \in SessionRows
  BY <1>3, Rows, WithType DEF SessionRows
<1>5. /\ db'.sessions = rows /\ db'.cache = db.cache
      /\ db'.doc = db.doc /\ db'.tables = db.tables
  <2> HIDE DEF rows
  <2>1. QED
    BY <1>1, <1>4, Rows, SessionsEdit DEF Settings
<1>6. rows = Promise!With(db.sessions, s, updated)
  BY DEF With, Promise!With
<1>7. QED
  BY <1>1, <1>2, <1>5, <1>6 DEF Call, Asked, Promise!SaveSession, Promise!Moves

LEMMA PruneAgeMaps ==
    ASSUME IInv, NEW c \in Callers, PruneAge(c) PROVE Promise!PruneSome(c)
<1> DEFINE young == {s \in DOMAIN db.sessions : db.sessions[s] + MaxAge > now}
           rows == Restrict(db.sessions, young)
<1>1. /\ at[c] = "prune_age" /\ at' = [at EXCEPT ![c] = "prune_count"]
      /\ db' = [db EXCEPT !.sessions = rows] /\ UNCHANGED <<now, arg>>
  BY DEF PruneAge, Autocommit, GoTo
<1>2. Call[c] = "saved" /\ Call' = Call /\ Asked' = Asked
  BY <1>1, RowsMap, DoingIs DEF Saving
<1>3. rows \in SessionRows
  BY Rows, RestrictType DEF SessionRows
<1>4. /\ db'.sessions = rows /\ db'.cache = db.cache
      /\ db'.doc = db.doc /\ db'.tables = db.tables
  <2> HIDE DEF rows
  <2>1. QED
    BY <1>1, <1>3, Rows, SessionsEdit DEF Settings
<1>5. Promise!OnlyOldOut(young)
  <2>1. /\ \A s \in DOMAIN db.sessions : db.sessions[s] \in Nat
        /\ MaxAge \in Nat /\ now \in Nat
    BY Rows, RowsType, StoreAssumption DEF SessionRows, IInv, TypeOK
  <2>2. QED
    BY <2>1 DEF Promise!OnlyOldOut
<1>6. young \in SUBSET DOMAIN db.sessions /\ Promise!Keep(young)
  BY <1>4, <1>5, SameRestrict DEF Promise!Keep
<1>7. QED
  BY <1>1, <1>2, <1>4, <1>6 DEF Call, Asked, Promise!PruneSome

LEMMA PruneCountMaps ==
    ASSUME IInv, NEW c \in Callers, PruneCount(c) PROVE Promise!FinishSave(c)
<1>1. PICK kept \in Newest(db.sessions, MaxSessions) :
         db' = [db EXCEPT !.sessions = Restrict(db.sessions, kept)]
  BY DEF PruneCount, Autocommit
<1> DEFINE rows == Restrict(db.sessions, kept)
<1>2. /\ at[c] = "prune_count" /\ at' = [at EXCEPT ![c] = "ready"]
      /\ UNCHANGED <<now, arg>>
  BY DEF PruneCount, GoTo
<1>3. /\ Call[c] = "saved" /\ Call' = [Call EXCEPT ![c] = "idle"]
      /\ Asked' = Asked
  <2>1. "prune_count" \in Saving /\ Doing("prune_count") = "saved"
    BY DoingIs DEF Saving
  <2>2. /\ Call[c] = Doing("prune_count") /\ Asked' = Asked
        /\ Call' = [Call EXCEPT ![c] = Doing("ready")]
    BY <1>2, <2>1, RowsMap
  <2>3. QED
    BY <2>1, <2>2, DoingIs
<1>4. rows \in SessionRows
  BY Rows, RestrictType DEF SessionRows, Newest
<1>5. /\ db'.sessions = rows /\ db'.cache = db.cache
      /\ db'.doc = db.doc /\ db'.tables = db.tables
  <2>1. db' = [db EXCEPT !.sessions = rows]
    BY <1>1
  <2> HIDE DEF rows
  <2>2. QED
    BY <2>1, <1>4, Rows, SessionsEdit DEF Settings
<1>6. /\ kept \in SUBSET DOMAIN db.sessions
      /\ Cardinality(kept) \in Nat /\ Cardinality(kept) <= MaxSessions
      /\ kept # DOMAIN db.sessions => Cardinality(kept) = MaxSessions
  BY NewestKept
<1>7. Promise!OnlyOldOut(kept)
  <2>1. \A s \in kept, o \in DOMAIN db.sessions \ kept :
           db.sessions[s] >= db.sessions[o]
    BY DEF Newest
  <2>2. MaxSessions \in Nat
    BY StoreAssumption
  <2>3. QED
    BY <1>6, <2>1, <2>2, SameCardinality DEF Promise!OnlyOldOut
<1>8. Promise!Keep(kept)
  BY <1>5, <1>7, SameRestrict DEF Promise!Keep
<1>9. QED
  BY <1>2, <1>3, <1>5, <1>6, <1>8, SameCardinality DEF Call, Asked, Promise!FinishSave, Promise!Moves

LEMMA UpsertCacheMaps ==
    ASSUME IInv, NEW c \in Callers, NEW k \in Keys, NEW expires \in 0..MaxNow,
           UpsertCache(c, k, expires)
    PROVE  Promise!Refresh(c)
<1> DEFINE row == [expires |-> expires, updated |-> now]
           rows == With(db.cache, k, row)
<1>1. /\ at[c] = "ready" /\ db' = [db EXCEPT !.cache = rows]
      /\ UNCHANGED <<now, at, arg>>
  BY DEF UpsertCache, Autocommit
<1>2. rows \in CacheRows
  <2>1. row \in [expires : 0..MaxNow, updated : 0..MaxNow]
    BY DEF IInv, TypeOK
  <2> HIDE DEF row
  <2>2. QED
    BY <2>1, Rows, WithType DEF CacheRows
<1>3. /\ db'.cache = rows /\ db'.sessions = db.sessions
      /\ db'.doc = db.doc /\ db'.tables = db.tables
  <2> HIDE DEF rows
  <2>1. QED
    BY <1>1, <1>2, Rows, CacheEdit DEF Settings
<1>4. Call[c] = "idle" /\ Call' = Call /\ Asked' = Asked
  BY <1>1, DoingIs DEF Call, Asked
<1>5. rows = Promise!With(db.cache, k, row)
  BY DEF With, Promise!With
<1>6. QED
  BY <1>1, <1>3, <1>4, <1>5 DEF Call, Asked, Promise!Refresh

LEMMA PruneCacheMaps ==
    ASSUME IInv, NEW c \in Callers, PruneCache(c) PROVE Promise!Expire(c)
<1> DEFINE fresh == {k \in DOMAIN db.cache : ~Outdated(db.cache[k])}
           rows == Restrict(db.cache, fresh)
<1>1. /\ at[c] = "ready" /\ db' = [db EXCEPT !.cache = rows]
      /\ UNCHANGED <<now, at, arg>>
  BY DEF PruneCache, Autocommit
<1>2. rows \in CacheRows
  BY Rows, RestrictType DEF CacheRows
<1>3. /\ db'.cache = rows /\ db'.sessions = db.sessions
      /\ db'.doc = db.doc /\ db'.tables = db.tables
  <2> HIDE DEF rows
  <2>1. QED
    BY <1>1, <1>2, Rows, CacheEdit DEF Settings
<1>4. Call[c] = "idle" /\ Call' = Call /\ Asked' = Asked
  BY <1>1, DoingIs DEF Call, Asked
<1>5. fresh = {k \in DOMAIN db.cache : Promise!Fresh(db.cache[k])}
  <2>1. ASSUME NEW k \in DOMAIN db.cache
        PROVE  ~Outdated(db.cache[k]) <=> Promise!Fresh(db.cache[k])
    <3>1. db.cache[k] \in [expires : 0..MaxNow, updated : 0..MaxNow]
      <4>1. db.cache \in [DOMAIN db.cache ->
                             [expires : 0..MaxNow, updated : 0..MaxNow]]
        BY Rows, RowsType DEF CacheRows
      <4>2. QED
        BY <4>1
    <3>2. now \in Nat /\ MaxCacheAge \in Nat /\ MaxNow \in Nat
      BY StoreAssumption DEF IInv, TypeOK
    <3>3. QED
      BY <3>1, <3>2 DEF Outdated, Promise!Fresh
  <2>2. QED
    BY <2>1
<1>6. QED
  BY <1>1, <1>3, <1>4, <1>5, SameRestrict DEF Call, Asked, Promise!Expire

LEMMA SaveSettingsMaps ==
    ASSUME IInv, NEW c \in Callers, NEW settings \in Inputs,
           SaveSettings(c, settings)
    PROVE  Promise!SaveSettings(c)
<1>1. /\ at[c] = "ready" /\ at' = [at EXCEPT ![c] = "replace"]
      /\ arg' = [arg EXCEPT ![c] = settings] /\ UNCHANGED <<now, db>>
  BY DEF SaveSettings, InTransaction, GoTo
<1>2. arg'[c] = settings /\ \A d \in Callers \ {c} : arg'[d] = arg[d]
  BY <1>1 DEF IInv, TypeOK
<1>3. "replace" \in Stored /\ Doing("replace") = "writing"
  BY DoingIs DEF Stored
<1>4. /\ Call[c] = "idle" /\ Call' = [Call EXCEPT ![c] = "writing"]
      /\ Asked' = [Asked EXCEPT ![c] = settings]
  <2>1. /\ Call[c] = Doing("ready")
        /\ Call' = [Call EXCEPT ![c] = Doing("replace")]
    BY <1>1, Moved
  <2>2. Asked' = [Asked EXCEPT ![c] = settings]
    BY <1>1, <1>2, <1>3, AskedNow
  <2>3. QED
    BY <1>3, <2>1, <2>2, DoingIs
<1>5. QED
  BY <1>1, <1>4 DEF Call, Asked, Promise!SaveSettings, Promise!Moves, Promise!store

LEMMA ReplaceMaps ==
    ASSUME IInv, NEW c \in Callers, Replace(c) PROVE UNCHANGED Seen
<1>1. PICK p \in Stored : at' = [at EXCEPT ![c] = p] /\ at[c] \in Stored
  <2>1. CASE UNCHANGED at
    <3>1. at' = [at EXCEPT ![c] = "replace"] /\ at[c] = "replace"
      BY <2>1 DEF Replace, IInv, TypeOK
    <3>2. QED
      BY <3>1 DEF Stored
  <2>2. CASE ~UNCHANGED at
    BY <2>2 DEF Replace, GoTo, Stored
  <2>3. QED
    BY <2>1, <2>2
<1>2. UNCHANGED <<now, arg, db>>
  BY DEF Replace, InTransaction
<1>3. Doing(at[c]) = Doing(p)
  BY <1>1, DoingIs
<1>4. QED
  BY <1>1, <1>2, <1>3, MovesOnly

\* The transaction makes document and lists those of its caller, and nothing else.
LEMMA CommitSettingsMaps ==
    ASSUME IInv, NEW c \in Callers, CommitSettings(c) PROVE Promise!Settle(c)
<1>1. /\ at[c] = "commit_settings" /\ at' = [at EXCEPT ![c] = "load_doc"]
      /\ writer = c /\ db' = tx /\ tx # None /\ UNCHANGED <<now, arg>>
  BY NoneAssumption DEF CommitSettings, Commit, GoTo, IInv, LockInv
<1>2. /\ "commit_settings" \in Stored /\ "load_doc" \in Loading
      /\ "load_doc" \notin Stored
  BY DEF Stored, Loading
<1>3. Doing(at[c]) = "writing" /\ Doing("load_doc") = "reading"
  BY <1>1, <1>2, DoingIs
<1>4. /\ Call[c] = "writing" /\ Call' = [Call EXCEPT ![c] = "reading"]
      /\ Asked' = [Asked EXCEPT ![c] = None]
  <2>1. /\ Call[c] = Doing(at[c])
        /\ Call' = [Call EXCEPT ![c] = Doing("load_doc")]
    BY <1>1, Moved
  <2>2. Asked' = [Asked EXCEPT ![c] = None]
    BY <1>1, <1>2, AskedNow
  <2>3. QED
    BY <1>3, <2>1, <2>2
<1>5. Asked[c] = arg[c]
  BY <1>1, <1>2 DEF Asked
<1>6. tx \in Databases /\ Edited(c)
  BY <1>1 DEF IInv, TypeOK
<1>7. /\ db'.sessions = db.sessions /\ db'.cache = db.cache
      /\ db'.doc = arg[c]
  BY <1>1, <1>2, <1>6 DEF Edited
<1>8. db'.tables = [t \in Tables |-> {i \in arg[c][t] : i > 0}]
  <2>1. \A t \in Tables : tx.tables[t] = {i \in arg[c][t] : i > 0}
    BY <1>1, <1>6 DEF Edited, Positive
  <2>2. tx.tables \in [Tables -> SUBSET Ids]
    BY <1>6 DEF Databases
  <2>3. QED
    BY <1>1, <2>1, <2>2
<1>9. QED
  BY <1>1, <1>4, <1>5, <1>7, <1>8 DEF Call, Asked, Promise!Settle, Promise!Moves

LEMMA PinMaps ==
    ASSUME IInv, NEW c \in Callers, NEW t \in Tables, NEW id \in Ids,
           Pin(c, t, id)
    PROVE  Promise!AddId(c)
<1>1. /\ at[c] = "ready" /\ at' = [at EXCEPT ![c] = "load_doc"]
      /\ db' = [db EXCEPT !.tables[t] = db.tables[t] \cup {id}]
      /\ UNCHANGED <<now, arg>>
  BY DEF Pin, Autocommit, GoTo
<1>2. /\ db'.sessions = db.sessions /\ db'.cache = db.cache
      /\ db'.doc = db.doc
      /\ db'.tables = [db.tables EXCEPT ![t] = db.tables[t] \cup {id}]
  BY <1>1 DEF IInv, TypeOK, Databases
<1>3. "load_doc" \in Loading /\ "load_doc" \notin Stored /\ at[c] \notin Stored
  BY <1>1 DEF Stored, Loading
<1>4. Doing(at[c]) = "idle" /\ Doing("load_doc") = "reading"
  BY <1>1, <1>3, DoingIs
<1>5. /\ Call[c] = "idle" /\ Call' = [Call EXCEPT ![c] = "reading"]
      /\ Asked' = Asked
  <2>1. /\ Call[c] = Doing(at[c])
        /\ Call' = [Call EXCEPT ![c] = Doing("load_doc")]
    BY <1>1, Moved
  <2>2. Asked' = Asked
    BY <1>1, <1>3, AskedNow
  <2>3. QED
    BY <1>4, <2>1, <2>2
<1>6. QED
  BY <1>1, <1>2, <1>5 DEF Call, Asked, Promise!AddId, Promise!Moves

LEMMA InitMaps == Init => Promise!Init
<1> SUFFICES ASSUME Init PROVE Promise!Init
  OBVIOUS
<1>1. "closed" \notin Stored
  BY DEF Stored
<1>2. /\ Call = [c \in Callers |-> "away"]
      /\ Asked = [c \in Callers |-> None]
  BY <1>1, DoingIs DEF Init, Call, Asked
<1>3. /\ db.sessions = <<>> /\ db.cache = <<>> /\ db.doc = None
      /\ db.tables = [t \in Tables |-> {}] /\ now = 0
  BY DEF Init, Empty, NoIds
<1>4. QED
  BY <1>2, <1>3 DEF Call, Asked, Promise!Init

LEMMA StepMaps == IInv /\ [Next]_vars => [Promise!Next]_(Promise!vars)
<1> SUFFICES ASSUME IInv, [Next]_vars, ~UNCHANGED Seen PROVE Promise!Next
  BY DEF Seen, Call, Asked, Promise!vars, Promise!store
<1>1. ASSUME NEW c \in Callers,
             \/ Open(c) \/ MigrationApplied(c) \/ Apply(c) \/ Record(c)
             \/ CommitMigration(c)
      PROVE  Promise!Next
  BY <1>1, OpeningMaps DEF Promise!Next
<1>2. ASSUME NEW c \in Callers,
             \/ \E s \in SessionIds, updated \in 0..now : Upsert(c, s, updated)
             \/ PruneAge(c) \/ PruneCount(c)
      PROVE  Promise!Next
  BY <1>2, UpsertMaps, PruneAgeMaps, PruneCountMaps DEF Promise!Next
<1>3. ASSUME NEW c \in Callers,
             \/ \E k \in Keys, expires \in 0..MaxNow :
                   UpsertCache(c, k, expires)
             \/ PruneCache(c)
      PROVE  Promise!Next
  BY <1>3, UpsertCacheMaps, PruneCacheMaps DEF Promise!Next
<1>4. ASSUME NEW c \in Callers,
             \/ \E settings \in Inputs : SaveSettings(c, settings)
             \/ Replace(c) \/ CommitSettings(c)
             \/ \E t \in Tables, id \in Ids : Pin(c, t, id)
      PROVE  Promise!Next
  BY <1>4, SaveSettingsMaps, ReplaceMaps, CommitSettingsMaps, PinMaps
     DEF Promise!Next
<1>5. ASSUME NEW c \in Callers,
             LoadSettings(c) \/ LoadDocument(c) \/ LoadTable(c) \/ Return(c)
      PROVE  Promise!Next
  BY <1>5, ReadingMaps, ReturnMaps DEF Promise!Next
<1>6. ASSUME NEW c \in Callers, Fail(c) \/ Crash(c) PROVE Promise!Next
  <2>1. PICK p \in {"closed", "ready"} :
           /\ Abandon(c, p) /\ at[c] # "closed"
           /\ p = "ready" => at[c] \in Saving \cup Stored \cup Loading
    BY <1>6 DEF Fail, Crash, Opening, Saving, Stored, Loading
  <2>2. Promise!End(c)
    BY <2>1, AbandonMaps
  <2>3. QED
    BY <2>2 DEF Promise!Next
<1>7. CASE Tick
  <2>1. Promise!Tick
    BY <1>7 DEF Tick, Promise!Tick, Promise!store
  <2>2. QED
    BY <2>1 DEF Promise!Next
<1>8. CASE UNCHANGED vars
  BY <1>8 DEF vars, Seen, Call, Asked
<1>9. QED
  BY <1>1, <1>2, <1>3, <1>4, <1>5, <1>6, <1>7, <1>8 DEF Next

-----------------------------------------------------------------------------
\* The database and every caller are always of their types: the id tables hold
\* positive ids only and a transaction is open exactly while the lock is held.
THEOREM TypeCorrect == Spec => []TypeOK
BY Invariance, PTL DEF IInv

\* However migrations race, fail or die, a Store that OpenSQLite has returned
\* works on a database whose tables are there and whose version is recorded.
THEOREM Migrated == Spec => []ReadyMeansMigrated
BY Invariance, PTL DEF IInv

\* SaveSettings replaces the document and the id tables as one: no failure,
\* crash or overlapping pin leaves the tables with less or more than the ids of
\* the document and the pins added since.
THEOREM TablesCorrect == Spec => []TablesMatchDocument
BY Invariance, PTL DEF IInv

\* A caller that reads its settings back table by table gets the ones it wrote
\* when nobody has written in between.
THEOREM OwnWriteSeen == Spec => []OwnWriteIsSeen
<1>1. IInv => OwnWriteIsSeen
  <2> SUFFICES ASSUME IInv, NEW c \in Callers, at[c] = "return", quiet[c]
               PROVE  got[c] = [doc |-> db.doc, tables |-> db.tables]
    BY DEF OwnWriteIsSeen
  <2>1. /\ got[c].doc = db.doc
        /\ \A t \in Tables : got[c].tables[t] = db.tables[t]
    BY DEF IInv, Read
  <2>2. /\ got[c] \in [doc : Inputs \cup {None},
                      tables : [Tables -> SUBSET Ids]]
        /\ db.tables \in [Tables -> SUBSET Ids]
    BY DEF IInv, TypeOK, Databases
  <2>3. got[c].tables = db.tables
    BY <2>1, <2>2
  <2>4. QED
    BY <2>1, <2>2, <2>3
<1>2. QED
  BY <1>1, Invariance, PTL

\* The retention limit is exceeded by no more sessions than there are saves
\* between insert and prune, and saves that ended there.
THEOREM Retained == Spec => []RetentionKept
<1>1. IInv /\ RetentionKept /\ [Next]_vars => RetentionKept'
  BY RetentionStep
<1>2. QED
  BY <1>1, InitRetention, Invariance, PTL DEF Spec

\* No statement of any caller removes a session before an older one, nor one
\* that is neither aged nor outnumbered, nor a cache entry that is still good.
THEOREM OldGoOnly == Spec => OnlyTheOldGo
<1>1. IInv /\ [Next]_vars => OldGo
  BY OldGoStep
<1>2. QED
  BY <1>1, Invariance, PTL DEF Spec, OnlyTheOldGo, OldGo

\* The SQLite store implements Store: the settings document and its id tables
\* change together, to what one caller asked for; a call that fails or dies has
\* done nothing or all of its work but the pruning; a session goes only by that.
THEOREM PromiseKept == Spec => KeepsPromise
<1>1. Init => Promise!Init
  BY InitMaps
<1>2. IInv /\ [Next]_vars => [Promise!Next]_(Promise!vars)
  BY StepMaps
<1>3. QED
  BY <1>1, <1>2, Invariance, PTL DEF Spec, KeepsPromise, Promise!Spec

=============================================================================
