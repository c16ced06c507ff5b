-------------------------- MODULE IdentitiesProofs --------------------------
(***************************************************************************)
(* Proofs about PasteParser and Identities for any number of overlapping   *)
(* calls, any pastes and any organisations.  A call's own invariant speaks *)
(* of the two shared maps only in ways that their growth cannot disturb,   *)
(* so that the steps of the other calls preserve it.  Of the parser's loop *)
(* an induction over its rounds says what it has collected.                *)
(***************************************************************************)
EXTENDS Identities, FiniteSetTheorems, TLAPS

Orgs == Range(CorpOf) \cup Range(AllyOf) \cup {NoOrg}
Identity == [char : Characters, corp : Orgs, ally : Orgs]
Codes == {"RATE_LIMITED", "RESOLVE_FAILED", "UNRESOLVED_NAME", "IDENTITY_PARTIAL",
          "CORP_METADATA_PARTIAL", "ALLIANCE_METADATA_PARTIAL"}
Stages == {"idle", "parsed", "characters", "look", "corps", "allies", "naming", "named"}

TypeOK ==
    /\ pc \in [Procs -> Stages]
    /\ names \in [Procs -> Seq(Names)] /\ DOMAIN found = Procs
    /\ unresolved \in [Procs -> SUBSET Names]
    /\ warnings \in [Procs -> SUBSET [code : Codes, about : Names \cup {""}]]
    /\ missing \in [Procs -> [corps : SUBSET Orgs, allies : SUBSET Orgs]]
    /\ pilots \in [Procs -> Seq(Identity)]

\* What was answered is of the names, and under the names as spelled.
Answered(p) ==
    /\ found[p] = [n \in DOMAIN found[p] |-> Lower[n]]
    /\ DOMAIN found[p] \in SUBSET Range(names[p])
    /\ DOMAIN found[p] \cap unresolved[p] = {}
    /\ pc[p] = "characters" =>
          \A n \in Range(names[p]) :
              \/ n \in DOMAIN found[p]
              \/ n \in unresolved[p] /\ Warned(p, "UNRESOLVED_NAME", n)

\* The identities, from their loading to the return.
Failed(p) == \E code \in {"RATE_LIMITED", "RESOLVE_FAILED", "IDENTITY_PARTIAL"} : Warned(p, code, "")
Accounted(p) ==
    \A n \in Range(names[p]) :
        \/ IsPilot(p, Lower[n]) /\ n \notin unresolved[p]
        \/ n \in unresolved[p] /\ Warned(p, "UNRESOLVED_NAME", n)
        \/ Failed(p)
InOrder(p) ==
    \E place \in [DOMAIN pilots[p] -> DOMAIN names[p]] :
        /\ \A i \in DOMAIN place : Lower[names[p][place[i]]] = pilots[p][i].char
        /\ \A i, j \in DOMAIN place : i < j => place[i] < place[j]
Loaded(p) ==
    IF pc[p] \in {"idle", "parsed", "characters"} THEN pilots[p] = <<>>
    ELSE Accounted(p) /\ InOrder(p)

\* An organisation of the pilots has its entry, or is still to be asked for, or the user
\* is told.
Corp(p, i) == CorpOf[pilots[p][i].char]
Ally(p, i) == AllyOf[pilots[p][i].char]
NoCorps(p) == Warned(p, "CORP_METADATA_PARTIAL", "")
NoAllies(p) == Warned(p, "ALLIANCE_METADATA_PARTIAL", "")
CorpsSought(p) ==
    /\ pc[p] = "corps" =>
          \A i \in DOMAIN pilots[p] : Corp(p, i) \in corpMeta \cup missing[p].corps \cup {NoOrg}
    /\ pc[p] \in {"allies", "naming"} =>
          \A i \in DOMAIN pilots[p] : Corp(p, i) \in corpMeta \cup {NoOrg} \/ NoCorps(p)
AlliesSought(p) ==
    /\ pc[p] \in {"corps", "allies"} =>
          \A i \in DOMAIN pilots[p] : Ally(p, i) \in allyMeta \cup missing[p].allies \cup {NoOrg}
    /\ pc[p] = "naming" =>
          \A i \in DOMAIN pilots[p] : Ally(p, i) \in allyMeta \cup {NoOrg} \/ NoAllies(p)
Named(p) ==
    pc[p] = "named" =>
        /\ \A i \in DOMAIN pilots[p] :
              /\ pilots[p][i].corp = Corp(p, i) \/ NoCorps(p)
              /\ pilots[p][i].ally = Ally(p, i) \/ NoAllies(p)
        /\ \A i, j \in DOMAIN pilots[p] :
              Corp(p, i) = Corp(p, j) => pilots[p][i].corp = pilots[p][j].corp

Mine(p) == Answered(p) /\ Loaded(p) /\ CorpsSought(p) /\ AlliesSought(p) /\ Named(p)
IInv == TypeOK /\ \A p \in Procs : Mine(p)

\* What was parsed is a text of the call; no other call disturbs it.
Read ==
    /\ DOMAIN pc = Procs /\ DOMAIN text = Procs /\ DOMAIN parsed = Procs
    /\ \A p \in Procs : pc[p] = "parsed" =>
          text[p] \in Pastes[p] /\ parsed[p] = Parsed(text[p])

-----------------------------------------------------------------------------
\* How many of the places are no later than k, and that Nth is its inverse.
UpTo(places, k) == {j \in places : j =< k}

LEMMA RankGrows ==
    ASSUME NEW places \in SUBSET Nat, IsFiniteSet(places), NEW j \in places, NEW k \in places,
           j < k
    PROVE  Cardinality(UpTo(places, j)) < Cardinality(UpTo(places, k))
<1>1. /\ j \in Nat /\ k \in Nat
      /\ UpTo(places, j) \in SUBSET UpTo(places, k) /\ UpTo(places, k) \in SUBSET places
      /\ k \in UpTo(places, k) /\ k \notin UpTo(places, j)
  <2>1. j \in Nat /\ k \in Nat /\ k =< k /\ ~ k =< j
    OBVIOUS
  <2>2. ASSUME NEW i \in UpTo(places, j)
        PROVE  i \in UpTo(places, k)
    <3>1. i \in places /\ i \in Nat /\ i =< j
      BY DEF UpTo
    <3>2. i =< k
      BY <2>1, <3>1
    <3>3. QED
      BY <3>1, <3>2 DEF UpTo
  <2>3. QED
    BY <2>1, <2>2 DEF UpTo
<1>2. IsFiniteSet(UpTo(places, k))
  BY <1>1, FS_Subset
<1>3. IsFiniteSet(UpTo(places, j)) /\ Cardinality(UpTo(places, j)) # Cardinality(UpTo(places, k))
      /\ Cardinality(UpTo(places, j)) <= Cardinality(UpTo(places, k))
  BY <1>1, <1>2, FS_Subset
<1>4. QED
  BY <1>2, <1>3, FS_CardinalityType

LEMMA RankRange ==
    ASSUME NEW places \in SUBSET Nat, IsFiniteSet(places), NEW k \in places
    PROVE  Cardinality(UpTo(places, k)) \in 1..Cardinality(places)
<1>1. k \in Nat /\ UpTo(places, k) \in SUBSET places /\ k \in UpTo(places, k)
  BY DEF UpTo
<1>2. IsFiniteSet(UpTo(places, k)) /\ Cardinality(UpTo(places, k)) <= Cardinality(places)
  BY <1>1, FS_Subset
<1>3. Cardinality(UpTo(places, k)) # 0
  BY <1>1, <1>2, FS_EmptySet
<1>4. QED
  BY <1>2, <1>3, FS_CardinalityType

LEMMA EveryRank ==
    ASSUME NEW places \in SUBSET Nat, IsFiniteSet(places), NEW i \in 1..Cardinality(places)
    PROVE  \E k \in places : Cardinality(UpTo(places, k)) = i
<1> DEFINE n == Cardinality(places)
           rank == [k \in places |-> Cardinality(UpTo(places, k))]
<1>1. rank \in [places -> 1..n]
  BY RankRange
<1>2. \A j, k \in places : rank[j] = rank[k] => j = k
  <2>1. SUFFICES ASSUME NEW j \in places, NEW k \in places, rank[j] = rank[k], j # k
                 PROVE  FALSE
    OBVIOUS
  <2>2. rank[j] \in Int /\ rank[k] \in Int /\ (j < k \/ k < j)
    BY <1>1, <2>1, FS_CardinalityType
  <2>3. rank[j] < rank[k] \/ rank[k] < rank[j]
    BY <2>2, RankGrows
  <2>4. QED
    BY <2>1, <2>2, <2>3
<1>3. n \in Nat /\ IsFiniteSet(1..n) /\ Cardinality(1..n) = n
  BY FS_CardinalityType, FS_Interval
<1>4. \E k \in places : rank[k] = i
  <2> HIDE DEF rank
  <2>1. rank \in Injection(places, 1..n)
    BY <1>1, <1>2 DEF Injection, IsInjective
  <2>2. rank \in Surjection(places, 1..n)
    BY <1>3, <2>1, FS_Injection
  <2>3. QED
    BY <2>2 DEF Surjection
<1>5. QED
  BY <1>4

LEMMA NthIsInverse ==
    ASSUME NEW places \in SUBSET Nat, IsFiniteSet(places)
    PROVE  /\ \A i \in 1..Cardinality(places) :
                 Nth(places, i) \in places /\ Cardinality(UpTo(places, Nth(places, i))) = i
           /\ \A k \in places : \E i \in 1..Cardinality(places) : Nth(places, i) = k
           /\ \A i, j \in 1..Cardinality(places) : i < j => Nth(places, i) < Nth(places, j)
<1>1. ASSUME NEW i \in 1..Cardinality(places)
      PROVE  /\ Nth(places, i) \in places /\ Nth(places, i) \in Nat
             /\ Cardinality(UpTo(places, Nth(places, i))) = i
  <2>1. Nth(places, i) \in places /\ Cardinality(UpTo(places, Nth(places, i))) = i
    BY EveryRank DEF Nth, UpTo
  <2>2. QED
    BY <2>1
<1>2. ASSUME NEW j \in places, NEW k \in places,
             Cardinality(UpTo(places, j)) =< Cardinality(UpTo(places, k))
      PROVE  j =< k
  <2>1. j \in Nat /\ k \in Nat /\ Cardinality(UpTo(places, j)) \in Int
        /\ Cardinality(UpTo(places, k)) \in Int
    BY RankRange, FS_CardinalityType
  <2>2. ~ k < j
    BY <1>2, <2>1, RankGrows
  <2>3. QED
    BY <2>1, <2>2
<1>3. ASSUME NEW k \in places
      PROVE  \E i \in 1..Cardinality(places) : Nth(places, i) = k
  <2>1. PICK i \in 1..Cardinality(places) : Cardinality(UpTo(places, k)) = i
    BY RankRange
  <2>2. /\ Nth(places, i) \in places /\ Nth(places, i) \in Nat /\ k \in Nat /\ i \in Int
        /\ Cardinality(UpTo(places, Nth(places, i))) = i
    BY <1>1
  <2>3. Nth(places, i) =< k /\ k =< Nth(places, i)
    BY <1>2, <2>1, <2>2
  <2>4. Nth(places, i) = k
    BY <2>2, <2>3
  <2>5. QED
    BY <2>4
<1>4. ASSUME NEW i \in 1..Cardinality(places), NEW j \in 1..Cardinality(places), i < j
      PROVE  Nth(places, i) < Nth(places, j)
  <2>1. /\ Nth(places, i) \in places /\ Nth(places, i) \in Nat /\ i \in Int
        /\ Nth(places, j) \in places /\ Nth(places, j) \in Nat /\ j \in Int
        /\ Cardinality(UpTo(places, Nth(places, i))) = i
        /\ Cardinality(UpTo(places, Nth(places, j))) = j
    BY <1>1
  <2>2. Nth(places, i) # Nth(places, j)
    BY <1>4, <2>1
  <2>3. ~ Nth(places, j) < Nth(places, i)
    <3>1. SUFFICES ASSUME Nth(places, j) < Nth(places, i)
                   PROVE  FALSE
      OBVIOUS
    <3>2. j < i
      BY <2>1, <3>1, RankGrows
    <3>3. QED
      BY <1>4, <2>1, <3>2
  <2>4. QED
    BY <2>1, <2>2, <2>3
<1>5. QED
  BY <1>1, <1>3, <1>4

\* The identities are in the order of the names, and all that were loaded are there.
LEMMA OrderedRight ==
    ASSUME NEW ns \in Seq(Names), NEW answer, NEW loaded,
           answer = [n \in DOMAIN answer |-> Lower[n]]
    PROVE  /\ Ordered(ns, answer, loaded) \in Seq(Characters)
           /\ \E place \in [DOMAIN Ordered(ns, answer, loaded) -> DOMAIN ns] :
                 /\ \A i \in DOMAIN place : Lower[ns[place[i]]] = Ordered(ns, answer, loaded)[i]
                 /\ \A i, j \in DOMAIN place : i < j => place[i] < place[j]
           /\ \A n \in Range(ns) : n \in DOMAIN answer /\ answer[n] \in loaded =>
                 \E i \in DOMAIN Ordered(ns, answer, loaded) :
                     Ordered(ns, answer, loaded)[i] = Lower[n]
<1> DEFINE known == Places(ns, answer, loaded)
           o == Ordered(ns, answer, loaded)
           c == Cardinality(known)
<1>1. /\ known \in SUBSET Nat /\ known \in SUBSET DOMAIN ns /\ IsFiniteSet(known)
      /\ \A k \in known : ns[k] \in Names /\ ns[k] \in DOMAIN answer /\ answer[ns[k]] \in loaded
  <2>1. DOMAIN ns = 1..Len(ns) /\ Len(ns) \in Nat /\ \A k \in DOMAIN ns : ns[k] \in Names
    OBVIOUS
  <2>2. known \in SUBSET (1..Len(ns))
    BY <2>1 DEF Places
  <2>3. IsFiniteSet(1..Len(ns)) /\ 1..Len(ns) \in SUBSET Nat
    BY <2>1, FS_Interval
  <2>4. IsFiniteSet(known)
    BY <2>2, <2>3, FS_Subset
  <2>5. QED
    BY <2>1, <2>2, <2>3, <2>4 DEF Places
<1>2. c \in Nat
  BY <1>1, FS_CardinalityType
<1>3. /\ \A i \in 1..c : Nth(known, i) \in known
      /\ \A k \in known : \E i \in 1..c : Nth(known, i) = k
      /\ \A i, j \in 1..c : i < j => Nth(known, i) < Nth(known, j)
  <2> HIDE DEF known
  <2>1. QED
    BY <1>1, NthIsInverse
<1>4. o = [i \in 1..c |-> answer[ns[Nth(known, i)]]]
  BY DEF Ordered
<1>5. \A k \in known : answer[ns[k]] = Lower[ns[k]] /\ Lower[ns[k]] \in Characters
  BY <1>1 DEF Characters
<1> HIDE DEF known, o, c
<1>6. /\ DOMAIN o = 1..c
      /\ \A i \in 1..c : o[i] = Lower[ns[Nth(known, i)]] /\ o[i] \in Characters
  BY <1>3, <1>4, <1>5
<1>7. o \in Seq(Characters)
  <2>1. o \in [1..c -> Characters]
    BY <1>4, <1>6
  <2>2. QED
    BY <1>2, <2>1
<1>8. \E place \in [DOMAIN o -> DOMAIN ns] :
         /\ \A i \in DOMAIN place : Lower[ns[place[i]]] = o[i]
         /\ \A i, j \in DOMAIN place : i < j => place[i] < place[j]
  <2> DEFINE place == [i \in 1..c |-> Nth(known, i)]
  <2>1. place \in [DOMAIN o -> DOMAIN ns]
    BY <1>1, <1>3, <1>6
  <2>2. \A i \in DOMAIN place : Lower[ns[place[i]]] = o[i]
    BY <1>6
  <2>3. \A i, j \in DOMAIN place : i < j => place[i] < place[j]
    BY <1>3
  <2> HIDE DEF place
  <2>4. QED
    BY <2>1, <2>2, <2>3
<1>9. ASSUME NEW n \in Range(ns), n \in DOMAIN answer /\ answer[n] \in loaded
      PROVE  \E i \in DOMAIN o : o[i] = Lower[n]
  <2>1. PICK k \in DOMAIN ns : ns[k] = n
    BY DEF Range
  <2>2. k \in known
    BY <1>9, <2>1 DEF known, Places
  <2>3. QED
    BY <1>3, <1>6, <2>1, <2>2
<1>10. QED
  BY <1>7, <1>8, <1>9 DEF o

-----------------------------------------------------------------------------
\* The library's induction theorems take an operator; that every set of numbers has a
\* least one does not, and induction over a set of the numbers that hold follows from it.
LEMMA Least ==
    ASSUME NEW S \in SUBSET Nat, S # {}
    PROVE  \E n \in S : \A m \in S : ~ m < n
<1>1. PICK x \in S : \A y \in S : ~ (<<y, x>> \in OpToRel(<, Nat))
  BY NatLessThanWellFounded, WFMin
<1>2. QED
  BY <1>1 DEF OpToRel

LEMMA Inductive ==
    ASSUME NEW n \in Nat, NEW S \in SUBSET (0..n), 0 \in S,
           \A k \in 1..n : k - 1 \in S => k \in S
    PROVE  S = 0..n
<1> DEFINE Bad == (0..n) \ S
<1>1. SUFFICES ASSUME Bad # {}
               PROVE  FALSE
  OBVIOUS
<1>2. Bad \in SUBSET Nat
  OBVIOUS
<1>3. PICK k \in Bad : \A m \in Bad : ~ m < k
  <2> HIDE DEF Bad
  <2>1. QED
    BY <1>1, <1>2, Least
<1>4. k \in 1..n /\ k - 1 \in 0..n /\ k - 1 < k
  OBVIOUS
<1>5. k - 1 \in S
  BY <1>3, <1>4
<1>6. QED
  BY <1>4, <1>5

\* A loop that starts with x0 and takes step i at the i-th of its n rounds.
Iteration(g, n, X, x0, step) ==
    g \in [0..n -> X] /\ g[0] = x0 /\ \A i \in 1..n : g[i] = step[i][g[i - 1]]

LEMMA Iterates ==
    ASSUME NEW n \in Nat, NEW X, NEW x0 \in X, NEW step \in [1..n -> [X -> X]]
    PROVE  \E g : Iteration(g, n, X, x0, step)
<1> DEFINE S == {k \in 0..n : \E g : Iteration(g, k, X, x0, step)}
<1>1. 0 \in S
  <2> DEFINE g == [i \in 0..0 |-> x0]
  <2>1. g \in [0..0 -> X] /\ g[0] = x0
    OBVIOUS
  <2>2. Iteration(g, 0, X, x0, step)
    BY <2>1 DEF Iteration
  <2>3. QED
    BY <2>2
<1>2. ASSUME NEW k \in 1..n, k - 1 \in S
      PROVE  k \in S
  <2>1. PICK g : Iteration(g, k - 1, X, x0, step)
    BY <1>2
  <2>2. g \in [0..k-1 -> X] /\ g[0] = x0 /\ \A i \in 1..k-1 : g[i] = step[i][g[i-1]]
    BY <2>1 DEF Iteration
  <2>3. k - 1 \in 0..k-1 /\ g[k-1] \in X /\ step[k][g[k-1]] \in X
    <3>1. k - 1 \in 0..k-1
      OBVIOUS
    <3>2. g[k-1] \in X
      BY <2>2, <3>1
    <3>3. step[k] \in [X -> X]
      OBVIOUS
    <3>4. QED
      BY <3>1, <3>2, <3>3
  <2> DEFINE h == [i \in 0..k |-> IF i = k THEN step[k][g[k-1]] ELSE g[i]]
  <2>4. \A i \in 0..k : i # k => i \in 0..k-1
    OBVIOUS
  <2>5. h \in [0..k -> X]
    BY <2>2, <2>3, <2>4
  <2>6. h[k] = step[k][g[k-1]] /\ \A i \in 0..k-1 : h[i] = g[i]
    OBVIOUS
  <2> HIDE DEF h
  <2>7. h[0] = x0
    BY <2>2, <2>6
  <2>8. ASSUME NEW i \in 1..k
        PROVE  h[i] = step[i][h[i-1]]
    <3>1. CASE i = k
      BY <2>3, <2>6, <3>1
    <3>2. CASE i # k
      <4>1. i \in 1..k-1 /\ i \in 0..k-1 /\ i-1 \in 0..k-1
        BY <3>2
      <4>2. QED
        BY <4>1, <2>2, <2>6
    <3>3. QED
      BY <3>1, <3>2
  <2>9. Iteration(h, k, X, x0, step)
    BY <2>5, <2>7, <2>8 DEF Iteration
  <2>10. QED
    BY <2>9
<1>3. S = 0..n
  <2>1. S \in SUBSET (0..n)
    OBVIOUS
  <2> HIDE DEF S
  <2>2. QED
    BY <1>1, <1>2, <2>1, Inductive
<1>4. n \in 0..n
  OBVIOUS
<1>5. n \in S
  BY <1>3, <1>4
<1>6. QED
  BY <1>5

\* The loop of Candidates.
Turns(seen, lines) ==
    /\ seen \in [0..Len(lines) -> Seq(Names)] /\ seen[0] = <<>>
    /\ \A i \in 1..Len(lines) : seen[i] = Added(seen[i - 1], lines[i])

LEMMA AddedTyped ==
    ASSUME NEW s \in Seq(Names), NEW l
    PROVE  Added(s, l) \in Seq(Names)
BY DEF Added, Valid

LEMMA CandidatesLoop ==
    ASSUME NEW lines, Len(lines) \in Nat
    PROVE  \E seen : Turns(seen, lines) /\ Candidates(lines) = seen[Len(lines)]
<1> DEFINE n == Len(lines)
           X == Seq(Names)
           step == [i \in 1..n |-> [s \in X |-> Added(s, lines[i])]]
           F(f) == [i \in 0..n |-> IF i = 0 THEN <<>> ELSE Added(f[i - 1], lines[i])]
           c == CHOOSE f : f = F(f)
<1>1. <<>> \in X /\ n \in Nat
  OBVIOUS
<1>2. step \in [1..n -> [X -> X]]
  BY AddedTyped
<1>3. \A i \in 1..n, s \in X : step[i][s] = Added(s, lines[i])
  OBVIOUS
<1>4. PICK g : Iteration(g, n, X, <<>>, step)
  <2> HIDE DEF step, X, n
  <2>1. QED
    BY <1>1, <1>2, Iterates
<1>5. g = F(g)
  <2> HIDE DEF step
  <2>1. g \in [0..n -> X] /\ g[0] = <<>> /\ \A i \in 1..n : g[i] = step[i][g[i - 1]]
    BY <1>4 DEF Iteration
  <2>2. \A i \in 1..n : i - 1 \in 0..n /\ i # 0
    BY <1>1
  <2>3. \A i \in 1..n : g[i] = Added(g[i - 1], lines[i])
    BY <2>1, <2>2, <1>3
  <2>4. \A i \in 0..n : i = 0 \/ i \in 1..n
    BY <1>1
  <2>5. \A i \in 0..n : g[i] = IF i = 0 THEN <<>> ELSE Added(g[i - 1], lines[i])
    BY <2>1, <2>3, <2>4
  <2>6. QED
    BY <2>1, <2>5
<1>6. c = F(c)
  <2> HIDE DEF F
  <2>1. QED
    BY <1>5
<1>7. Candidates(lines) = c[n]
  BY DEF Candidates
<1> HIDE DEF c, step
<1>8. DOMAIN c = 0..n /\ c[0] = <<>> /\ \A i \in 1..n : c[i] = Added(c[i - 1], lines[i])
  <2>1. \A i \in 0..n : c[i] = IF i = 0 THEN <<>> ELSE Added(c[i - 1], lines[i])
    BY <1>6
  <2>2. 0 \in 0..n /\ \A i \in 1..n : i \in 0..n /\ i # 0
    BY <1>1
  <2>3. QED
    BY <1>6, <2>1, <2>2
<1>9. {k \in 0..n : c[k] \in X} = 0..n
  <2> DEFINE S == {k \in 0..n : c[k] \in X}
  <2>1. 0 \in S /\ S \in SUBSET (0..n)
    <3>1. 0 \in 0..n
      BY <1>1
    <3>2. QED
      BY <1>1, <1>8, <3>1
  <2>2. ASSUME NEW k \in 1..n, k - 1 \in S
        PROVE  k \in S
    <3>1. c[k] \in X
      BY <1>8, <2>2, AddedTyped
    <3>2. QED
      BY <3>1, <1>1
  <2> HIDE DEF S, n
  <2>3. QED
    BY <1>1, <2>1, <2>2, Inductive DEF S
<1>10. c \in [0..n -> X]
  <2>1. \A k \in 0..n : c[k] \in X
    BY <1>9
  <2>2. c = [i \in 0..n |-> c[i]]
    BY <1>6
  <2>3. QED
    BY <2>1, <2>2
<1>11. QED
  BY <1>7, <1>8, <1>10 DEF Turns

LEMMA UpToUpTo ==
    ASSUME NEW places \in SUBSET Nat, NEW k \in Nat, NEW i \in Nat, i =< k
    PROVE  UpTo(UpTo(places, k), i) = UpTo(places, i)
<1>1. ASSUME NEW j \in places, j =< i
      PROVE  j =< k
  BY <1>1
<1>2. QED
  BY <1>1 DEF UpTo

\* The lines that are the first to spell a name.
FirstLines(lines) ==
    {i \in DOMAIN lines : Valid(lines[i]) /\ \A j \in DOMAIN lines :
        Valid(lines[j]) /\ j < i => Lower[lines[j].body] # Lower[lines[i].body]}

\* What the loop has collected of the first k lines.
Collected(s, k, lines) ==
    LET F == FirstLines(lines)
    IN  /\ Len(s) = Cardinality(UpTo(F, k))
        /\ \A i \in UpTo(F, k) : s[Cardinality(UpTo(F, i))] = lines[i].body
        /\ \A m \in 1..Len(s) : \E i \in UpTo(F, k) : s[m] = lines[i].body
        /\ \A j \in 1..k : Valid(lines[j]) =>
              \E i \in UpTo(F, k) : Lower[lines[i].body] = Lower[lines[j].body]

LEMMA OneTurn ==
    ASSUME NEW lines, NEW n \in Nat, DOMAIN lines = 1..n, NEW k \in 1..n,
           NEW s \in Seq(Names), Collected(s, k - 1, lines)
    PROVE  Collected(Added(s, lines[k]), k, lines)
<1> DEFINE F == FirstLines(lines)
           u == UpTo(F, k - 1)
           v == UpTo(F, k)
           body == lines[k].body
<1>1. /\ Len(s) = Cardinality(u)
      /\ \A i \in u : s[Cardinality(UpTo(F, i))] = lines[i].body
      /\ \A m \in 1..Len(s) : \E i \in u : s[m] = lines[i].body
      /\ \A j \in 1..k - 1 : Valid(lines[j]) =>
            \E i \in u : Lower[lines[i].body] = Lower[lines[j].body]
  BY DEF Collected
<1>2. /\ F \in SUBSET (1..n) /\ F \in SUBSET Nat
      /\ \A i \in F : Valid(lines[i]) /\ i \in Nat
  BY DEF FirstLines
<1>3. \A i \in u : i \in F /\ i < k /\ i \in v /\ i \in 1..k - 1
  BY <1>2 DEF UpTo
<1>4. \A i \in v : i = k \/ i \in u
  BY <1>2 DEF UpTo
<1>5. IsFiniteSet(u) /\ IsFiniteSet(F) /\ Cardinality(u) \in Nat
  <2>1. IsFiniteSet(1..n)
    BY FS_Interval
  <2>2. u \in SUBSET F
    BY <1>3
  <2>3. QED
    BY <1>2, <2>1, <2>2, FS_Subset, FS_CardinalityType
<1> HIDE DEF u, v, F
<1>6. u \in SUBSET Nat /\ \A i \in u : UpTo(F, i) = UpTo(u, i)
  <2>1. ASSUME NEW i \in u
        PROVE  i \in Nat /\ UpTo(F, i) = UpTo(u, i)
    <3>1. i \in Nat /\ k - 1 \in Nat /\ i =< k - 1
      BY <1>3
    <3>2. QED
      BY <1>2, <3>1, UpToUpTo DEF u
  <2>2. QED
    BY <2>1
<1>7. CASE k \in F
  <2>1. Valid(lines[k]) /\ k \in v /\ v = u \cup {k} /\ k \notin u /\ body \in Names
    <3>1. k \in v
      BY <1>7 DEF v, UpTo
    <3>2. k \notin u
      BY <1>3
    <3>3. v = u \cup {k}
      BY <1>3, <1>4, <3>1
    <3>4. Valid(lines[k])
      BY <1>2, <1>7
    <3>5. QED
      BY <3>1, <3>2, <3>3, <3>4 DEF Valid
  <2>2. ~Seen(s, body)
    <3>1. SUFFICES ASSUME NEW m \in DOMAIN s, Lower[s[m]] = Lower[body]
                   PROVE  FALSE
      BY DEF Seen
    <3>2. PICK i \in u : s[m] = lines[i].body
      BY <1>1
    <3>3. i \in 1..n /\ i < k /\ Valid(lines[i])
      BY <1>2, <1>3
    <3>4. QED
      BY <1>7, <3>1, <3>2, <3>3 DEF F, FirstLines
  <2>3. Added(s, lines[k]) = Append(s, body)
    BY <2>1, <2>2 DEF Added
  <2>4. Cardinality(v) = Cardinality(u) + 1
    BY <1>5, <2>1, FS_AddElement
  <2>5. /\ Len(Append(s, body)) = Len(s) + 1 /\ Append(s, body)[Len(s) + 1] = body
        /\ \A m \in 1..Len(s) : Append(s, body)[m] = s[m]
    BY <2>1
  <2> DEFINE a == Append(s, body)
  <2> HIDE DEF a
  <2>6. Len(a) = Len(s) + 1 /\ a[Len(s) + 1] = body /\ \A m \in 1..Len(s) : a[m] = s[m]
    BY <2>5 DEF a
  <2>7. \A i \in v : a[Cardinality(UpTo(F, i))] = lines[i].body
    <3>1. ASSUME NEW i \in u
          PROVE  a[Cardinality(UpTo(F, i))] = lines[i].body
      <4>1. Cardinality(UpTo(F, i)) \in 1..Len(s)
        BY <1>1, <1>5, <1>6, RankRange
      <4>2. QED
        BY <1>1, <2>6, <4>1
    <3>2. a[Cardinality(UpTo(F, k))] = body
      BY <1>1, <2>4, <2>6 DEF v
    <3>3. QED
      BY <1>4, <3>1, <3>2
  <2>8. \A m \in 1..Len(a) : \E i \in v : a[m] = lines[i].body
    <3>1. ASSUME NEW m \in 1..Len(a)
          PROVE  \E i \in v : a[m] = lines[i].body
      <4>1. CASE m \in 1..Len(s)
        BY <1>1, <1>3, <2>6, <4>1
      <4>2. CASE m \notin 1..Len(s)
        <5>1. m = Len(s) + 1
          BY <2>6, <4>2
        <5>2. QED
          BY <2>1, <2>6, <5>1
      <4>3. QED
        BY <4>1, <4>2
    <3>2. QED
      BY <3>1
  <2>9. \A j \in 1..k : Valid(lines[j]) => \E i \in v : Lower[lines[i].body] = Lower[lines[j].body]
    <3>1. \A j \in 1..k : j = k \/ j \in 1..k - 1
      OBVIOUS
    <3>2. QED
      BY <1>1, <1>3, <2>1, <3>1
  <2>10. Len(a) = Cardinality(v)
    BY <1>1, <2>4, <2>6
  <2>11. Collected(a, k, lines)
    BY <2>7, <2>8, <2>9, <2>10 DEF Collected, v, F
  <2>12. QED
    BY <2>3, <2>11 DEF a
<1>8. CASE k \notin F
  <2>1. v = u
    BY <1>3, <1>4, <1>8 DEF v, UpTo
  <2>2. Valid(lines[k]) => \E i \in u : Lower[lines[i].body] = Lower[body]
    <3>1. SUFFICES ASSUME Valid(lines[k])
                   PROVE  \E i \in u : Lower[lines[i].body] = Lower[body]
      OBVIOUS
    <3>2. PICK j \in 1..n : Valid(lines[j]) /\ j < k /\ Lower[lines[j].body] = Lower[body]
      BY <1>8, <3>1 DEF F, FirstLines
    <3>3. j \in 1..k - 1
      BY <3>2
    <3>4. QED
      BY <1>1, <3>2, <3>3
  <2>3. Added(s, lines[k]) = s
    <3>1. SUFFICES ASSUME Valid(lines[k])
                   PROVE  Seen(s, body)
      BY DEF Added
    <3>2. PICK i \in u : Lower[lines[i].body] = Lower[body]
      BY <2>2, <3>1
    <3>3. Cardinality(UpTo(F, i)) \in 1..Len(s)
      BY <1>1, <1>5, <1>6, RankRange
    <3>4. QED
      BY <1>1, <3>2, <3>3 DEF Seen
  <2>4. \A j \in 1..k : Valid(lines[j]) => \E i \in u : Lower[lines[i].body] = Lower[lines[j].body]
    <3>1. \A j \in 1..k : j = k \/ j \in 1..k - 1
      OBVIOUS
    <3>2. QED
      BY <1>1, <2>2, <3>1
  <2>5. QED
    BY <1>1, <2>1, <2>3, <2>4 DEF Collected, u, v, F
<1>9. QED
  BY <1>7, <1>8

LEMMA CandidatesRight ==
    ASSUME NEW lines, NEW n \in Nat, Len(lines) = n, DOMAIN lines = 1..n
    PROVE  /\ Candidates(lines) \in Seq(Names)
           /\ Len(Candidates(lines)) = Cardinality(FirstLines(lines))
           /\ \A i \in FirstLines(lines) :
                 Candidates(lines)[Cardinality(UpTo(FirstLines(lines), i))] = lines[i].body
<1>1. PICK seen : Turns(seen, lines) /\ Candidates(lines) = seen[n]
  BY CandidatesLoop
<1>2. /\ \A i \in 0..n : seen[i] \in Seq(Names)
      /\ seen[0] = <<>> /\ \A i \in 1..n : seen[i] = Added(seen[i - 1], lines[i])
  BY <1>1 DEF Turns
<1> DEFINE F == FirstLines(lines)
           S == {k \in 0..n : Collected(seen[k], k, lines)}
<1>3. F \in SUBSET (1..n)
  BY DEF FirstLines
<1>4. 0 \in S
  <2>1. UpTo(F, 0) = {} /\ Len(<<>>) = 0 /\ Cardinality({}) = 0
    BY <1>3, FS_EmptySet DEF UpTo
  <2>2. 0 \in 0..n /\ 1..0 = {}
    OBVIOUS
  <2>3. Collected(<<>>, 0, lines)
    BY <2>1, <2>2 DEF Collected
  <2>4. QED
    BY <1>2, <2>2, <2>3
<1>5. ASSUME NEW k \in 1..n, k - 1 \in S
      PROVE  k \in S
  <2>1. k - 1 \in 0..n /\ k \in 0..n /\ seen[k - 1] \in Seq(Names)
    BY <1>2
  <2>2. Collected(Added(seen[k - 1], lines[k]), k, lines)
    BY <1>5, <2>1, OneTurn
  <2>3. QED
    BY <1>2, <2>1, <2>2
<1>6. S = 0..n
  <2>1. S \in SUBSET (0..n)
    OBVIOUS
  <2> HIDE DEF S
  <2>2. QED
    BY <1>4, <1>5, <2>1, Inductive
<1>7. n \in 0..n
  OBVIOUS
<1>8. Collected(seen[n], n, lines)
  BY <1>6, <1>7
<1>9. UpTo(F, n) = F
  BY <1>3 DEF UpTo
<1>10. QED
  BY <1>1, <1>2, <1>7, <1>8, <1>9 DEF Collected

-----------------------------------------------------------------------------
LEMMA AtRight ==
    ASSUME NEW list, NEW places \in SUBSET Nat, IsFiniteSet(places)
    PROVE  /\ Cardinality(places) \in Nat
           /\ Len(At(list, places)) = Cardinality(places)
           /\ DOMAIN At(list, places) = 1..Cardinality(places)
           /\ At(list, places) = <<>> <=> Cardinality(places) = 0
           /\ \A i \in 1..Cardinality(places) : At(list, places)[i] = list[Nth(places, i)]
<1> DEFINE c == Cardinality(places)
           X == {list[k] : k \in places}
           a == At(list, places)
<1>1. c \in Nat /\ \A i \in 1..c : Nth(places, i) \in places
  BY FS_CardinalityType, NthIsInverse
<1>2. a = [i \in 1..c |-> list[Nth(places, i)]]
  BY DEF At
<1> HIDE DEF a, c
<1>3. a \in [1..c -> X]
  BY <1>1, <1>2
<1>4. a \in Seq(X)
  <2> HIDE DEF X
  <2>1. QED
    BY <1>1, <1>3
<1>5. DOMAIN a = 1..Len(a) /\ Len(a) \in Nat
  BY <1>4
<1>6. Len(a) = c
  BY <1>1, <1>3, <1>5
<1>7. a = <<>> <=> Len(a) = 0
  BY <1>4
<1>8. QED
  BY <1>1, <1>2, <1>6, <1>7 DEF a, c

\* Places that correspond, one by one and in the same order, are equally many and have the
\* same ranks.
LEMMA SameSize ==
    ASSUME NEW places \in SUBSET Nat, IsFiniteSet(places),
           NEW K \in SUBSET (1..Cardinality(places)), NEW M \in SUBSET places,
           \A r \in 1..Cardinality(places) : r \in K <=> Nth(places, r) \in M
    PROVE  IsFiniteSet(K) /\ IsFiniteSet(M) /\ Cardinality(M) = Cardinality(K)
<1> DEFINE c == Cardinality(places)
           h == [r \in K |-> Nth(places, r)]
<1>1. /\ \A r \in 1..c : Nth(places, r) \in places
      /\ \A k \in places : \E r \in 1..c : Nth(places, r) = k
      /\ \A q, r \in 1..c : q < r => Nth(places, q) < Nth(places, r)
  BY NthIsInverse
<1>2. IsFiniteSet(K)
  <2>1. IsFiniteSet(1..c)
    BY FS_CardinalityType, FS_Interval
  <2>2. QED
    BY <2>1, FS_Subset
<1>3. h \in [K -> M] /\ DOMAIN h = K
  BY <1>1
<1>4. \A m \in M : \E r \in K : h[r] = m
  BY <1>1
<1>5. ASSUME NEW q \in K, NEW r \in K, h[q] = h[r]
      PROVE  q = r
  <2>1. q \in 1..c /\ r \in 1..c /\ q \in Int /\ r \in Int
    OBVIOUS
  <2>2. Nth(places, q) \in Nat /\ Nth(places, q) = Nth(places, r)
    BY <1>1, <1>5, <2>1
  <2>3. ~ q < r /\ ~ r < q
    BY <1>1, <2>1, <2>2
  <2>4. QED
    BY <2>1, <2>3
<1> HIDE DEF h
<1>6. h \in Bijection(K, M)
  BY <1>3, <1>4, <1>5 DEF Bijection, Injection, Surjection, IsInjective
<1>7. ExistsBijection(K, M)
  BY <1>6 DEF ExistsBijection
<1>8. QED
  BY <1>2, <1>7, FS_Bijection

LEMMA SameRank ==
    ASSUME NEW places \in SUBSET Nat, IsFiniteSet(places),
           NEW K \in SUBSET (1..Cardinality(places)), NEW M \in SUBSET places,
           \A r \in 1..Cardinality(places) : r \in K <=> Nth(places, r) \in M,
           NEW r \in K
    PROVE  Cardinality(UpTo(M, Nth(places, r))) = Cardinality(UpTo(K, r))
<1> DEFINE c == Cardinality(places)
           k == UpTo(K, r)
           m == UpTo(M, Nth(places, r))
<1>1. k \in SUBSET (1..c) /\ m \in SUBSET places
  BY DEF UpTo
<1>2. ASSUME NEW q \in 1..c
      PROVE  q =< r <=> Nth(places, q) =< Nth(places, r)
  <2>1. q \in 1..c /\ r \in 1..c /\ q \in Int /\ r \in Int
    OBVIOUS
  <2>2. /\ Nth(places, q) \in places /\ Nth(places, r) \in places
        /\ q < r => Nth(places, q) < Nth(places, r)
        /\ r < q => Nth(places, r) < Nth(places, q)
    BY <2>1, NthIsInverse
  <2>3. Nth(places, q) \in Int /\ Nth(places, r) \in Int
    <3>1. \A x \in places : x \in Int
      OBVIOUS
    <3>2. QED
      BY <2>2, <3>1
  <2>4. QED
    BY <2>1, <2>2, <2>3
<1>3. \A q \in 1..c : q \in k <=> Nth(places, q) \in m
  BY <1>2 DEF UpTo
<1> HIDE DEF k, m
<1>4. Cardinality(m) = Cardinality(k)
  BY <1>1, <1>3, SameSize
<1>5. QED
  BY <1>4 DEF k, m

LEMMA CleanedRight ==
    ASSUME NEW l \in Lines
    PROVE  /\ Cleaned(l).body = l.body
           /\ Empty(Cleaned(l)) <=> l.body = "blank"
           /\ Valid(Cleaned(l)) <=> l.body \in Names /\ Cleaned(l).marks = <<>>
           /\ l.body \in Names => l.body # "blank"
<1>1. /\ l \in [marks : Seq(Stamps \cup Senders), body : Names \cup Others, cr : BOOLEAN]
      /\ l.body = "blank" => Cleaned(l).marks = <<>>
  BY LinesAssumption
<1>2. Cleaned(l).body = l.body
  BY <1>1 DEF Cleaned
<1>3. l.body \in Names => l.body # "blank"
  BY LinesAssumption DEF Others
<1>4. QED
  BY <1>1, <1>2, <1>3 DEF Empty, Valid

LEMMA NormalizedRight ==
    ASSUME NEW t \in Seq(Lines)
    PROVE  /\ Bodies(t) \in SUBSET Nat /\ IsFiniteSet(Bodies(t)) /\ Cardinality(Bodies(t)) \in Nat
           /\ Len(Normalized(t)) = Cardinality(Bodies(t))
           /\ DOMAIN Normalized(t) = 1..Cardinality(Bodies(t))
           /\ Normalized(t) = <<>> <=> Cardinality(Bodies(t)) = 0
           /\ \A i \in 1..Cardinality(Bodies(t)) : Normalized(t)[i] = Cleaned(t[Nth(Bodies(t), i)])
<1> DEFINE c == Cardinality(Bodies(t))
           cleaned == [i \in DOMAIN t |-> Cleaned(t[i])]
<1>1. DOMAIN t = 1..Len(t) /\ Len(t) \in Nat /\ \A i \in DOMAIN t : t[i] \in Lines
  OBVIOUS
<1>2. Bodies(t) \in SUBSET (1..Len(t)) /\ Bodies(t) \in SUBSET Nat
  BY <1>1 DEF Bodies
<1>3. IsFiniteSet(Bodies(t))
  <2>1. IsFiniteSet(1..Len(t))
    BY <1>1, FS_Interval
  <2>2. QED
    BY <1>2, <2>1, FS_Subset
<1>4. {i \in DOMAIN t : ~Empty(Cleaned(t[i]))} = Bodies(t)
  BY <1>1, CleanedRight DEF Bodies
<1>5. Normalized(t) = At(cleaned, Bodies(t))
  BY <1>4 DEF Normalized
<1> HIDE DEF cleaned
<1>6. /\ c \in Nat /\ Len(Normalized(t)) = c /\ DOMAIN Normalized(t) = 1..c
      /\ Normalized(t) = <<>> <=> c = 0
      /\ \A i \in 1..c : Normalized(t)[i] = cleaned[Nth(Bodies(t), i)]
  BY <1>2, <1>3, <1>5, AtRight
<1>7. \A i \in 1..c : cleaned[Nth(Bodies(t), i)] = Cleaned(t[Nth(Bodies(t), i)])
  <2>1. \A i \in 1..c : Nth(Bodies(t), i) \in Bodies(t)
    BY <1>2, <1>3, NthIsInverse
  <2>2. \A k \in Bodies(t) : k \in DOMAIN t
    BY DEF Bodies
  <2>3. QED
    BY <2>1, <2>2 DEF cleaned
<1>8. QED
  BY <1>2, <1>3, <1>6, <1>7

\* The first spellings of the cleaned lines are those of the text.
LEMMA FirstsMove ==
    ASSUME NEW t \in Seq(Lines)
    PROVE  /\ FirstLines(Normalized(t)) \in SUBSET (1..Cardinality(Bodies(t)))
           /\ Firsts(t) \in SUBSET Bodies(t)
           /\ \A r \in 1..Cardinality(Bodies(t)) :
                 r \in FirstLines(Normalized(t)) <=> Nth(Bodies(t), r) \in Firsts(t)
<1> DEFINE c == Cardinality(Bodies(t))
           lines == Normalized(t)
           h(r) == Nth(Bodies(t), r)
<1>1. /\ Bodies(t) \in SUBSET Nat /\ IsFiniteSet(Bodies(t)) /\ c \in Nat
      /\ DOMAIN lines = 1..c /\ \A i \in 1..c : lines[i] = Cleaned(t[h(i)])
  BY NormalizedRight
<1>2. /\ \A r \in 1..c : h(r) \in Bodies(t)
      /\ \A k \in Bodies(t) : \E r \in 1..c : h(r) = k
      /\ \A q, r \in 1..c : q < r => h(q) < h(r)
  BY <1>1, NthIsInverse
<1>3. \A i \in Bodies(t) : i \in DOMAIN t /\ t[i] \in Lines /\ i \in Nat
  BY <1>1 DEF Bodies
<1>4. \A i \in DOMAIN t : t[i] \in Lines
  OBVIOUS
<1>5. NameLines(t) \in SUBSET Bodies(t)
  BY <1>4, CleanedRight DEF NameLines, Bodies
<1>6. ASSUME NEW r \in 1..c
      PROVE  /\ lines[r].body = t[h(r)].body
             /\ Valid(lines[r]) <=> h(r) \in NameLines(t)
  <2>1. h(r) \in DOMAIN t /\ t[h(r)] \in Lines
    BY <1>2, <1>3
  <2>2. QED
    BY <1>1, <2>1, CleanedRight DEF NameLines
<1> HIDE DEF c, lines, h
<1>7. ASSUME NEW q \in 1..c, NEW r \in 1..c
      PROVE  q < r <=> h(q) < h(r)
  <2>1. q \in Int /\ r \in Int /\ h(q) \in Nat /\ h(r) \in Nat
    BY <1>2, <1>3
  <2>2. (q < r => h(q) < h(r)) /\ (r < q => h(r) < h(q)) /\ (q = r => h(q) = h(r))
    BY <1>2
  <2>3. QED
    BY <2>1, <2>2
<1>8. ASSUME NEW r \in 1..c
      PROVE  r \in FirstLines(lines) <=> h(r) \in Firsts(t)
  <2>1. ASSUME r \in FirstLines(lines)
        PROVE  h(r) \in Firsts(t)
    <3>1. /\ Valid(lines[r])
          /\ \A j \in 1..c : Valid(lines[j]) /\ j < r => Lower[lines[j].body] # Lower[lines[r].body]
      BY <1>1, <2>1 DEF FirstLines
    <3>2. ASSUME NEW j \in NameLines(t), j < h(r)
          PROVE  Lower[t[j].body] # Lower[t[h(r)].body]
      <4>1. PICK q \in 1..c : h(q) = j
        BY <1>2, <1>5
      <4>2. Valid(lines[q]) /\ q < r /\ lines[q].body = t[j].body
        BY <1>6, <1>7, <3>2, <4>1
      <4>3. QED
        BY <1>6, <3>1, <4>2
    <3>3. QED
      BY <1>6, <3>1, <3>2 DEF Firsts
  <2>2. ASSUME h(r) \in Firsts(t)
        PROVE  r \in FirstLines(lines)
    <3>1. /\ h(r) \in NameLines(t)
          /\ \A j \in NameLines(t) : j < h(r) => Lower[t[j].body] # Lower[t[h(r)].body]
      BY <2>2 DEF Firsts
    <3>2. ASSUME NEW q \in 1..c, Valid(lines[q]), q < r
          PROVE  Lower[lines[q].body] # Lower[lines[r].body]
      BY <1>6, <1>7, <3>1, <3>2
    <3>3. QED
      BY <1>1, <1>6, <3>1, <3>2 DEF FirstLines
  <2>3. QED
    BY <2>1, <2>2
<1>9. FirstLines(lines) \in SUBSET (1..c) /\ Firsts(t) \in SUBSET Bodies(t)
  BY <1>1, <1>5 DEF FirstLines, Firsts
<1>10. QED
  BY <1>8, <1>9 DEF c, lines, h

\* What the parser returns of a text (extractCandidates).
LEMMA NamesFound ==
    ASSUME NEW t \in Seq(Lines)
    PROVE  LET listed == Candidates(Normalized(t))
           IN  /\ listed \in Seq(Names)
               /\ IsFiniteSet(Firsts(t)) /\ Len(listed) = Cardinality(Firsts(t))
               /\ \A i \in Firsts(t) : listed[Cardinality(UpTo(Firsts(t), i))] = t[i].body
<1> DEFINE B == Bodies(t)
           c == Cardinality(Bodies(t))
           lines == Normalized(t)
           K == FirstLines(lines)
           M == Firsts(t)
           C == Candidates(lines)
<1>1. /\ B \in SUBSET Nat /\ IsFiniteSet(B) /\ c \in Nat /\ Len(lines) = c
      /\ DOMAIN lines = 1..c /\ \A i \in 1..c : lines[i] = Cleaned(t[Nth(B, i)])
  BY NormalizedRight
<1>2. /\ K \in SUBSET (1..Cardinality(B)) /\ M \in SUBSET B
      /\ \A r \in 1..Cardinality(B) : r \in K <=> Nth(B, r) \in M
  BY FirstsMove
<1>3. /\ \A r \in 1..c : Nth(B, r) \in B
      /\ \A k \in B : \E r \in 1..c : Nth(B, r) = k
  BY <1>1, NthIsInverse
<1>4. \A k \in B : t[k] \in Lines
  BY DEF Bodies
<1> HIDE DEF B, lines, K, M, C
<1>5. IsFiniteSet(M) /\ Cardinality(M) = Cardinality(K)
  BY <1>1, <1>2, SameSize
<1>6. /\ C \in Seq(Names) /\ Len(C) = Cardinality(K)
      /\ \A r \in K : C[Cardinality(UpTo(K, r))] = lines[r].body
  BY <1>1, CandidatesRight DEF C, K
<1>7. ASSUME NEW i \in M
      PROVE  C[Cardinality(UpTo(M, i))] = t[i].body
  <2>1. PICK r \in 1..c : Nth(B, r) = i
    BY <1>2, <1>3
  <2>2. r \in K
    BY <1>2, <2>1 DEF B
  <2>3. Cardinality(UpTo(M, i)) = Cardinality(UpTo(K, r))
    BY <1>1, <1>2, <2>1, <2>2, SameRank
  <2>4. lines[r].body = t[i].body
    BY <1>1, <1>2, <1>4, <2>1, CleanedRight
  <2>5. QED
    BY <1>6, <2>2, <2>3, <2>4
<1>8. QED
  BY <1>5, <1>6, <1>7 DEF C, M, lines

\* The lines that are not valid, by their number.
LEMMA InvalidRight ==
    ASSUME NEW lines, NEW n \in Nat, DOMAIN lines = 1..n
    PROVE  /\ Len(Invalid(lines)) \in Nat /\ DOMAIN Invalid(lines) = 1..Len(Invalid(lines))
           /\ Invalid(lines) = <<>> <=> \A i \in 1..n : Valid(lines[i])
<1> DEFINE K == {i \in DOMAIN lines : ~Valid(lines[i])}
<1>1. K \in SUBSET (1..n) /\ K \in SUBSET Nat
  OBVIOUS
<1>2. IsFiniteSet(K)
  <2>1. IsFiniteSet(1..n)
    BY FS_Interval
  <2>2. QED
    BY <1>1, <2>1, FS_Subset
<1>3. Cardinality(K) = 0 <=> \A i \in 1..n : Valid(lines[i])
  <2>1. Cardinality(K) = 0 <=> K = {}
    BY <1>2, FS_EmptySet
  <2>2. K = {} <=> \A i \in 1..n : Valid(lines[i])
    OBVIOUS
  <2>3. QED
    BY <2>1, <2>2
<1>4. Invalid(lines) = At(lines, K)
  BY DEF Invalid
<1> HIDE DEF K
<1>5. /\ Cardinality(K) \in Nat /\ Len(Invalid(lines)) = Cardinality(K)
      /\ DOMAIN Invalid(lines) = 1..Cardinality(K)
      /\ Invalid(lines) = <<>> <=> Cardinality(K) = 0
  BY <1>1, <1>2, <1>4, AtRight
<1>6. QED
  BY <1>3, <1>5

\* Every line with a body is a candidate, a duplicate or invalid (buildResult).
LEMMA ParsedAccounts ==
    ASSUME NEW t \in Seq(Lines)
    PROVE  AllAccounted(t, Parsed(t)) /\ Parsed(t).candidates \in Seq(Names)
<1> DEFINE lines == Normalized(t)
           listed == Candidates(lines)
           r == Parsed(t)
           c == Cardinality(Bodies(t))
<1>1. c \in Nat /\ Len(lines) = c /\ DOMAIN lines = 1..c /\ IsFiniteSet(Bodies(t))
  BY NormalizedRight
<1>2. /\ listed \in Seq(Names) /\ Len(listed) \in Nat
      /\ IsFiniteSet(Firsts(t)) /\ Len(listed) = Cardinality(Firsts(t))
      /\ \A i \in Firsts(t) : listed[Cardinality(UpTo(Firsts(t), i))] = t[i].body
  BY NamesFound
<1>3. Len(Invalid(lines)) \in Nat
  BY <1>1, InvalidRight
<1>4. /\ r.candidates = listed /\ r.invalid = Invalid(lines)
      /\ r.removed = Len(lines) - Len(Invalid(lines)) - Len(listed)
      /\ ("duplicates_removed" \in r.warnings) <=> r.removed > 0
      /\ ("no_valid_candidates" \in r.warnings) <=> listed = <<>> /\ lines # <<>>
  BY DEF Parsed
<1> HIDE DEF r, lines, listed
<1>5. Len(r.candidates) + r.removed + Len(r.invalid) = c
  BY <1>1, <1>2, <1>3, <1>4
<1>6. ("duplicates_removed" \in r.warnings) = (r.removed > 0)
  BY <1>4
<1>7. ASSUME Bodies(t) # {}, Firsts(t) = {}
      PROVE  "no_valid_candidates" \in r.warnings
  <2>1. c # 0 /\ Len(listed) = 0
    BY <1>1, <1>2, <1>7, FS_EmptySet
  <2>2. listed = <<>> /\ lines # <<>>
    BY <1>1, <1>2, <2>1
  <2>3. QED
    BY <1>4, <2>2
<1>8. QED
  BY <1>2, <1>4, <1>5, <1>6, <1>7 DEF AllAccounted, UpTo, r

\* What the confidences depend on: is there a line, a name, an invalid line, a mark that
\* cleaning leaves.
LEMMA Signs ==
    ASSUME NEW t \in Seq(Lines)
    PROVE  LET lines == Normalized(t)
           IN  /\ lines = <<>> => /\ Candidates(lines) = <<>> /\ Invalid(lines) = <<>>
                                  /\ ~Loose(lines)
               /\ lines # <<>> /\ Candidates(lines) = <<>> => Invalid(lines) # <<>>
               /\ Invalid(lines) = <<>> => ~Loose(lines)
               /\ Loose(lines) <=> \E i \in DOMAIN t : Cleaned(t[i]).marks # <<>>
<1> DEFINE lines == Normalized(t)
           B == Bodies(t)
           c == Cardinality(Bodies(t))
           F == FirstLines(lines)
<1>1. /\ c \in Nat /\ Len(lines) = c /\ DOMAIN lines = 1..c /\ B \in SUBSET Nat /\ IsFiniteSet(B)
      /\ lines = <<>> <=> c = 0
      /\ \A i \in 1..c : lines[i] = Cleaned(t[Nth(B, i)])
  BY NormalizedRight
<1>2. /\ \A i \in 1..c : Nth(B, i) \in B
      /\ \A k \in B : \E i \in 1..c : Nth(B, i) = k
  BY <1>1, NthIsInverse
<1>3. (\A k \in B : k \in DOMAIN t) /\ (\A k \in DOMAIN t : t[k] \in Lines)
  BY DEF Bodies
<1> HIDE DEF lines, c
<1>4. Candidates(lines) \in Seq(Names) /\ Len(Candidates(lines)) = Cardinality(F)
  BY <1>1, CandidatesRight
<1>5. Invalid(lines) = <<>> <=> \A i \in 1..c : Valid(lines[i])
  BY <1>1, InvalidRight
<1>6. IsFiniteSet(F) /\ (Candidates(lines) = <<>> <=> F = {})
  <2>1. F \in SUBSET (1..c) /\ IsFiniteSet(1..c)
    BY <1>1, FS_Interval DEF FirstLines
  <2>2. IsFiniteSet(F)
    BY <2>1, FS_Subset
  <2> HIDE DEF F
  <2>3. Cardinality(F) = 0 <=> F = {}
    BY <2>2, FS_EmptySet
  <2>4. QED
    BY <1>4, <2>2, <2>3
<1>7. ASSUME lines = <<>>
      PROVE  Candidates(lines) = <<>> /\ Invalid(lines) = <<>> /\ ~Loose(lines)
  <2>1. c = 0 /\ 1..c = {} /\ DOMAIN lines = {}
    BY <1>1, <1>7
  <2>2. F = {} /\ ~Loose(lines)
    BY <2>1 DEF FirstLines, Loose
  <2>3. QED
    BY <1>5, <1>6, <2>1, <2>2
<1>8. ASSUME lines # <<>>, Candidates(lines) = <<>>
      PROVE  Invalid(lines) # <<>>
  <2>1. SUFFICES ASSUME \A i \in 1..c : Valid(lines[i])
                 PROVE  FALSE
    BY <1>5
  <2>2. 1 \in 1..c /\ \A j \in 1..c : ~ j < 1
    BY <1>1, <1>8
  <2>3. 1 \in F
    BY <1>1, <2>1, <2>2 DEF FirstLines
  <2>4. QED
    BY <1>6, <1>8, <2>3
<1>9. ASSUME Invalid(lines) = <<>>
      PROVE  ~Loose(lines)
  BY <1>1, <1>5, <1>9 DEF Loose, Valid
<1>10. ASSUME Loose(lines)
       PROVE  \E i \in DOMAIN t : Cleaned(t[i]).marks # <<>>
  <2>1. PICK i \in 1..c : lines[i].marks # <<>>
    BY <1>1, <1>10 DEF Loose
  <2>2. QED
    BY <1>1, <1>2, <1>3, <2>1
<1>11. ASSUME NEW i \in DOMAIN t, Cleaned(t[i]).marks # <<>>
       PROVE  Loose(lines)
  <2>1. t[i] \in Lines /\ t[i].body # "blank"
    BY <1>3, <1>11, LinesAssumption
  <2>2. i \in B
    BY <2>1 DEF Bodies
  <2>3. PICK k \in 1..c : Nth(B, k) = i
    BY <1>2, <2>2
  <2>4. QED
    BY <1>1, <1>11, <2>3 DEF Loose
<1>12. QED
  BY <1>7, <1>8, <1>9, <1>10, <1>11 DEF lines

\* Which strategy wins: chat wherever the start of a line shows it, else the list of members
\* unless a mark is left, which leaves the fallback (strategies.go, Parse).
LEMMA Winner ==
    ASSUME NEW t, NEW lines, lines = <<>> => Candidates(lines) = <<>> /\ ~Loose(lines)
    PROVE  LET best == Better(Better(Better(Guess("none", 0, FALSE), Chat(t, lines)), Local(lines)),
                              Fallback(t, lines))
           IN  IF ChatLike(t) THEN best = Chat(t, lines) /\ best.confidence >= 50
               ELSE IF Loose(lines) THEN best = Fallback(t, lines)
               ELSE best = Local(lines) /\ (lines # <<>> => best.confidence >= 50)
<1> DEFINE none == Guess("none", 0, FALSE)
           chat == Chat(t, lines)
           loc == Local(lines)
           back == Fallback(t, lines)
           chatlike == ChatLike(t)
           loose == Loose(lines)
           noNames == Candidates(lines) = <<>>
           noLines == lines = <<>>
<1>1. /\ none.confidence = 0
      /\ chat.confidence = (IF chatlike THEN 85 ELSE 30) - (IF noNames THEN 20 ELSE 0)
      /\ loc.confidence = (IF noLines THEN 45 ELSE 60) + (IF loose THEN -30 ELSE 25)
                              - (IF noNames THEN 25 ELSE 0)
      /\ back.confidence = (IF noNames THEN 40 ELSE 55)
  BY DEF Guess, Chat, Local, Fallback
<1>2. noLines => noNames /\ ~loose
  OBVIOUS
<1> HIDE DEF none, chat, loc, back, chatlike, loose, noNames, noLines
<1> DEFINE one == Better(none, chat)
           two == Better(one, loc)
           best == Better(two, back)
<1>3. one = chat
  BY <1>1 DEF Better
<1>4. CASE chatlike
  <2>1. loc.confidence =< chat.confidence /\ back.confidence < chat.confidence
        /\ chat.confidence >= 50 /\ chat.confidence \in Int /\ loc.confidence \in Int
        /\ back.confidence \in Int
    BY <1>1, <1>2, <1>4
  <2>2. best = chat
    BY <1>3, <2>1 DEF Better
  <2>3. QED
    BY <1>4, <2>1, <2>2 DEF none, chat, loc, back, chatlike
<1>5. CASE ~chatlike /\ loose
  <2>1. loc.confidence =< chat.confidence /\ back.confidence > chat.confidence
        /\ chat.confidence \in Int /\ loc.confidence \in Int /\ back.confidence \in Int
    BY <1>1, <1>2, <1>5
  <2>2. best = back
    BY <1>3, <2>1 DEF Better
  <2>3. QED
    BY <1>5, <2>2 DEF none, chat, loc, back, chatlike, loose
<1>6. CASE ~chatlike /\ ~loose
  <2>1. loc.confidence > chat.confidence /\ back.confidence =< loc.confidence
        /\ (~noLines => loc.confidence >= 50)
        /\ chat.confidence \in Int /\ loc.confidence \in Int /\ back.confidence \in Int
    BY <1>1, <1>2, <1>6
  <2>2. best = loc
    BY <1>3, <2>1 DEF Better
  <2>3. QED
    BY <1>6, <2>1, <2>2 DEF none, chat, loc, back, chatlike, loose, noLines
<1>7. QED
  BY <1>4, <1>5, <1>6

LEMMA ParsedKind ==
    ASSUME NEW t \in Seq(Lines)
    PROVE  OfItsKind(t, Parsed(t))
<1> DEFINE lines == Normalized(t)
           best == Better(Better(Better(Guess("none", 0, FALSE), Chat(t, lines)), Local(lines)),
                          Fallback(t, lines))
           listed == Candidates(lines)
           wrong == Invalid(lines)
           chosen == Chosen(t, lines)
           left == \E i \in DOMAIN t : Cleaned(t[i]).marks # <<>>
<1>1. /\ lines = <<>> => listed = <<>> /\ wrong = <<>> /\ ~Loose(lines)
      /\ lines # <<>> /\ listed = <<>> => wrong # <<>>
      /\ wrong = <<>> => ~Loose(lines)
      /\ Loose(lines) <=> left
  BY Signs
<1>2. /\ ChatLike(t) => best = Chat(t, lines) /\ best.confidence >= 50
      /\ ~ChatLike(t) /\ Loose(lines) => best = Fallback(t, lines)
      /\ ~ChatLike(t) /\ ~Loose(lines) =>
            best = Local(lines) /\ (lines # <<>> => best.confidence >= 50)
      /\ best.confidence \in Int
  <2>1. /\ Chat(t, lines).confidence \in Int /\ Local(lines).confidence \in Int
        /\ Fallback(t, lines).confidence \in Int
    BY DEF Guess, Chat, Local, Fallback
  <2>2. lines = <<>> => listed = <<>> /\ ~Loose(lines)
    BY <1>1
  <2> HIDE DEF lines
  <2>3. IF ChatLike(t) THEN best = Chat(t, lines) /\ best.confidence >= 50
        ELSE IF Loose(lines) THEN best = Fallback(t, lines)
        ELSE best = Local(lines) /\ (lines # <<>> => best.confidence >= 50)
    BY <2>2, Winner
  <2> HIDE DEF best
  <2>4. QED
    BY <2>1, <2>3
<1>3. /\ Chat(t, lines).kind = "chat_transcript" /\ Local(lines).kind = "local_member_list"
      /\ Fallback(t, lines).kind = "unknown"
      /\ Chat(t, lines).chat = ChatLike(t) /\ Fallback(t, lines).chat = ChatLike(t)
      /\ Local(lines).chat = Loose(lines)
  BY DEF Guess, Chat, Local, Fallback
<1>4. chosen = IF lines # <<>> /\ (best.confidence < 50 \/ (wrong # <<>> /\ listed # <<>>))
               THEN Fallback(t, lines) ELSE best
  BY DEF Chosen
<1>5. /\ Parsed(t).kind = chosen.kind /\ Parsed(t).candidates = listed /\ Parsed(t).invalid = wrong
      /\ ("chat_like_input_detected" \in Parsed(t).warnings) <=> chosen.chat
  BY DEF Parsed
<1>6. ChatLike(t) \in BOOLEAN /\ Loose(lines) \in BOOLEAN
  BY DEF ChatLike, Loose
<1> HIDE DEF lines, best, listed, wrong, chosen, left
<1>7. /\ chosen.kind = IF listed # <<>> /\ wrong # <<>> THEN "unknown"
                       ELSE IF ChatLike(t) THEN "chat_transcript"
                       ELSE IF left THEN "unknown" ELSE "local_member_list"
      /\ chosen.chat = ChatLike(t)
  <2>1. CASE listed # <<>> /\ wrong # <<>>
    BY <1>1, <1>3, <1>4, <2>1
  <2>2. CASE ~(listed # <<>> /\ wrong # <<>>) /\ ChatLike(t)
    <3>1. chosen = Chat(t, lines)
      BY <1>2, <1>4, <2>2
    <3>2. QED
      BY <1>3, <2>2, <3>1
  <2>3. CASE ~(listed # <<>> /\ wrong # <<>>) /\ ~ChatLike(t) /\ left
    <3>1. chosen = Fallback(t, lines)
      BY <1>1, <1>2, <1>4, <2>3
    <3>2. QED
      BY <1>3, <2>3, <3>1
  <2>4. CASE ~(listed # <<>> /\ wrong # <<>>) /\ ~ChatLike(t) /\ ~left
    <3>1. ~Loose(lines) /\ chosen = Local(lines)
      BY <1>1, <1>2, <1>4, <2>4
    <3>2. QED
      BY <1>3, <1>6, <2>4, <3>1
  <2>5. QED
    BY <2>1, <2>2, <2>3, <2>4
<1>8. ("chat_like_input_detected" \in Parsed(t).warnings) = ChatLike(t)
  BY <1>5, <1>6, <1>7
<1>9. QED
  BY <1>5, <1>7, <1>8 DEF OfItsKind, left

-----------------------------------------------------------------------------
LEMMA ReadInv == Read /\ [Next]_vars => Read'
<1> SUFFICES ASSUME Read, [Next]_vars
             PROVE  Read'
  OBVIOUS
<1>1. CASE UNCHANGED vars
  BY <1>1 DEF Read, vars, local
<1>2. ASSUME NEW p \in Procs, NEW t \in Pastes[p], Paste(p, t)
      PROVE  Read'
  BY <1>2 DEF Read, Paste, Goto
<1>3. ASSUME NEW p \in Procs, NotResolved(p) \/ Resolve(p) \/ Load(p) \/ FindMissing(p)
                               \/ FillCorps(p) \/ FillAllies(p) \/ Name(p) \/ Return(p)
      PROVE  Read'
  <2>1. PICK place : pc' = [pc EXCEPT ![p] = place] /\ place # "parsed"
    <3>1. CASE Resolve(p)
      <4>1. PICK known \in SUBSET Range(names[p]) :
               Goto(p, IF known = {} THEN "named" ELSE "characters")
        BY <3>1 DEF Resolve
      <4> DEFINE place == IF known = {} THEN "named" ELSE "characters"
      <4>2. place # "parsed" /\ pc' = [pc EXCEPT ![p] = place]
        BY <4>1 DEF Goto
      <4> HIDE DEF place
      <4>3. QED
        BY <4>2
    <3>2. CASE Load(p)
      BY <3>2 DEF Load, Goto
    <3>3. CASE ~Resolve(p) /\ ~Load(p)
      BY <1>3, <3>3 DEF NotResolved, FindMissing, FillCorps, FillAllies, Name, Return, Goto
    <3>4. QED
      BY <3>1, <3>2, <3>3
  <2>2. /\ text' = text \/ text' = [text EXCEPT ![p] = <<>>]
        /\ parsed' = parsed \/ parsed' = [parsed EXCEPT ![p] = <<>>]
    BY <1>3 DEF NotResolved, Resolve, Resolving, Load, FindMissing, FillCorps, FillAllies, Name, Return
  <2>3. QED
    BY <2>1, <2>2 DEF Read
<1>4. QED
  BY <1>1, <1>2, <1>3 DEF Next

-----------------------------------------------------------------------------
SameCall(q) ==
    /\ pc'[q] = pc[q] /\ names'[q] = names[q] /\ found'[q] = found[q]
    /\ unresolved'[q] = unresolved[q] /\ warnings'[q] = warnings[q]
    /\ missing'[q] = missing[q] /\ pilots'[q] = pilots[q]
Grown == corpMeta \in SUBSET corpMeta' /\ allyMeta \in SUBSET allyMeta'

\* Nobody is in any order, and no name is one of nobody.
LEMMA NobodyInOrder ==
    ASSUME NEW ns
    PROVE  /\ DOMAIN <<>> = {} /\ Range(<<>>) = {}
           /\ \E place \in [DOMAIN <<>> -> DOMAIN ns] :
                 /\ \A i \in DOMAIN place : Lower[ns[place[i]]] = <<>>[i].char
                 /\ \A i, j \in DOMAIN place : i < j => place[i] < place[j]
<1>1. DOMAIN <<>> = {} /\ Range(<<>>) = {}
  BY DEF Range
<1>2. [i \in {} |-> i] \in [{} -> DOMAIN ns] /\ DOMAIN [i \in {} |-> i] = {}
  OBVIOUS
<1>3. QED
  BY <1>1, <1>2

\* What the other calls do disturbs nothing.
LEMMA Frame ==
    ASSUME NEW q \in Procs, Mine(q), SameCall(q), Grown
    PROVE  Mine(q)'
<1>1. Answered(q)'
  BY DEF Mine, SameCall, Answered, Warned
<1>2. Loaded(q)'
  BY DEF Mine, SameCall, Loaded, Accounted, InOrder, Failed, IsPilot, Warned
<1>3. CorpsSought(q)'
  BY DEF Mine, SameCall, Grown, CorpsSought, Corp, NoCorps, Warned
<1>4. AlliesSought(q)'
  BY DEF Mine, SameCall, Grown, AlliesSought, Ally, NoAllies, Warned
<1>5. Named(q)'
  <2>1. /\ pc'[q] = pc[q] /\ pilots'[q] = pilots[q] /\ Named(q)
        /\ NoCorps(q)' = NoCorps(q) /\ NoAllies(q)' = NoAllies(q)
        /\ \A i : Corp(q, i)' = Corp(q, i) /\ Ally(q, i)' = Ally(q, i)
    BY DEF Mine, SameCall, Corp, Ally, NoCorps, NoAllies, Warned
  <2>2. QED
    BY <2>1 DEF Named
<1>6. QED
  BY <1>1, <1>2, <1>3, <1>4, <1>5 DEF Mine

LEMMA OneCall ==
    ASSUME IInv, NEW p \in Procs, TypeOK', Mine(p)', Grown,
           \A q \in Procs \ {p} : SameCall(q)
    PROVE  IInv'
BY Frame DEF IInv

-----------------------------------------------------------------------------
LEMMA InitInv == Init => IInv
<1> SUFFICES ASSUME Init
             PROVE  IInv
  OBVIOUS
<1>1. TypeOK
  BY DEF Init, TypeOK, Stages, Nothing
<1>2. ASSUME NEW p \in Procs
      PROVE  Mine(p)
  BY DEF Init, Mine, Answered, Loaded, CorpsSought, AlliesSought, Named
<1>3. QED
  BY <1>1, <1>2 DEF IInv

LEMMA PasteInv ==
    ASSUME IInv, NEW p \in Procs, NEW t \in Pastes[p], Paste(p, t)
    PROVE  IInv'
<1>1. TypeOK'
  <2>1. Parsed(t).candidates \in Seq(Names)
    BY PastesAssumption, ParsedAccounts
  <2>2. [corps |-> {}, allies |-> {}] \in [corps : SUBSET Orgs, allies : SUBSET Orgs]
        /\ "parsed" \in Stages /\ <<>> \in Seq(Identity)
    BY DEF Stages
  <2>3. QED
    BY <2>1, <2>2 DEF IInv, TypeOK, Paste, Goto, Nothing
<1>2. /\ pc'[p] = "parsed" /\ pilots'[p] = <<>> /\ found'[p] = <<>> /\ unresolved'[p] = {}
      /\ names'[p] = Parsed(t).candidates
  BY DEF IInv, TypeOK, Paste, Goto
<1>3. Mine(p)'
  BY <1>2 DEF Mine, Answered, Loaded, CorpsSought, AlliesSought, Named
<1>4. Grown /\ \A q \in Procs \ {p} : SameCall(q)
  BY DEF IInv, TypeOK, Paste, Goto, Grown, SameCall
<1>5. QED
  BY <1>1, <1>3, <1>4, OneCall

LEMMA NotResolvedInv ==
    ASSUME IInv, NEW p \in Procs, NotResolved(p)
    PROVE  IInv'
<1>1. PICK ws \in SUBSET [code : Codes, about : Names \cup {""}] :
         /\ warnings' = [warnings EXCEPT ![p] = @ \cup ws]
         /\ names[p] = <<>> \/ \E code \in {"RATE_LIMITED", "RESOLVE_FAILED"} :
                                   Warning(code, "") \in ws
  <2>1. CASE names[p] = <<>>
    <3>1. warnings' = [warnings EXCEPT ![p] = @ \cup {}]
      BY <2>1 DEF IInv, TypeOK, NotResolved
    <3>2. QED
      BY <2>1, <3>1
  <2>2. CASE names[p] # <<>>
    <3>1. PICK code \in {"RATE_LIMITED", "RESOLVE_FAILED"} : Warn(p, {Warning(code, "")})
      BY <2>2 DEF NotResolved
    <3>2. {Warning(code, "")} \in SUBSET [code : Codes, about : Names \cup {""}]
      BY DEF Warning, Codes
    <3>3. QED
      BY <3>1, <3>2 DEF Warn
  <2>3. QED
    BY <2>1, <2>2
<1>2. /\ pc' = [pc EXCEPT ![p] = "named"] /\ pc[p] = "parsed"
      /\ UNCHANGED <<corpMeta, allyMeta, names, found, unresolved, missing, pilots>>
  BY DEF NotResolved, Resolving, Goto
<1>3. TypeOK'
  BY <1>1, <1>2 DEF IInv, TypeOK, Stages
<1>4. pilots'[p] = <<>> /\ pc'[p] = "named" /\ warnings'[p] = warnings[p] \cup ws
  BY <1>1, <1>2 DEF IInv, TypeOK, Mine, Loaded
<1>5. Accounted(p)'
  <2>1. CASE names[p] = <<>>
    BY <1>2, <2>1, NobodyInOrder DEF Accounted
  <2>2. CASE names[p] # <<>>
    BY <1>1, <1>4, <2>2 DEF Accounted, Failed, Warned
  <2>3. QED
    BY <2>1, <2>2
<1>6. InOrder(p)'
  BY <1>4, NobodyInOrder DEF InOrder
<1>7. Mine(p)'
  <2>1. /\ Answered(p) /\ found'[p] = found[p] /\ unresolved'[p] = unresolved[p]
        /\ names'[p] = names[p]
    BY <1>2 DEF IInv, Mine
  <2>2. Answered(p)'
    BY <1>4, <2>1 DEF Answered
  <2>3. Loaded(p)'
    BY <1>4, <1>5, <1>6 DEF Loaded
  <2>4. CorpsSought(p)' /\ AlliesSought(p)' /\ Named(p)'
    BY <1>4, NobodyInOrder DEF CorpsSought, AlliesSought, Named
  <2>5. QED
    BY <2>2, <2>3, <2>4 DEF Mine
<1>8. Grown /\ \A q \in Procs \ {p} : SameCall(q)
  BY <1>1, <1>2 DEF IInv, TypeOK, Grown, SameCall
<1>9. QED
  BY <1>3, <1>7, <1>8, OneCall

LEMMA ResolveInv ==
    ASSUME IInv, NEW p \in Procs, Resolve(p)
    PROVE  IInv'
<1>1. PICK known \in SUBSET Range(names[p]) :
         /\ found' = [found EXCEPT ![p] = [n \in known |-> Lower[n]]]
         /\ unresolved' = [unresolved EXCEPT ![p] = Range(names[p]) \ known]
         /\ Warn(p, {Warning("UNRESOLVED_NAME", n) : n \in Range(names[p]) \ known})
         /\ Goto(p, IF known = {} THEN "named" ELSE "characters")
  BY DEF Resolve
<1> DEFINE ws == {Warning("UNRESOLVED_NAME", n) : n \in Range(names[p]) \ known}
<1>2. /\ pc[p] = "parsed" /\ UNCHANGED <<corpMeta, allyMeta, names, missing, pilots>>
      /\ pc' = [pc EXCEPT ![p] = IF known = {} THEN "named" ELSE "characters"]
      /\ warnings' = [warnings EXCEPT ![p] = @ \cup ws]
  BY <1>1 DEF Resolve, Resolving, Goto, Warn
<1>3. Range(names[p]) \in SUBSET Names
  <2>1. names[p] \in Seq(Names)
    BY DEF IInv, TypeOK
  <2>2. QED
    BY <2>1 DEF Range
<1>4. ws \in SUBSET [code : Codes, about : Names \cup {""}]
  <2>1. \A n \in Names : Warning("UNRESOLVED_NAME", n) \in [code : Codes, about : Names \cup {""}]
    BY DEF Warning, Codes
  <2>2. \A n \in Range(names[p]) \ known : n \in Names
    BY <1>3
  <2>3. QED
    BY <2>1, <2>2
<1>5. \A n \in Range(names[p]) \ known : Warning("UNRESOLVED_NAME", n) \in ws
  OBVIOUS
<1> HIDE DEF ws
<1>6. TypeOK'
  BY <1>1, <1>2, <1>3, <1>4 DEF IInv, TypeOK, Stages
<1>7. /\ found'[p] = [n \in known |-> Lower[n]] /\ unresolved'[p] = Range(names[p]) \ known
      /\ names'[p] = names[p] /\ pilots'[p] = <<>>
      /\ warnings'[p] = warnings[p] \cup ws
      /\ pc'[p] = IF known = {} THEN "named" ELSE "characters"
  BY <1>1, <1>2 DEF IInv, TypeOK, Mine, Loaded
<1>8. Answered(p)'
  BY <1>5, <1>7 DEF Answered, Warned
<1>9. known = {} => Accounted(p)'
  BY <1>5, <1>7 DEF Accounted, Warned
<1>10. InOrder(p)'
  BY <1>7, NobodyInOrder DEF InOrder
<1>11. Mine(p)'
  BY <1>7, <1>8, <1>9, <1>10 DEF Mine, Loaded, CorpsSought, AlliesSought, Named
<1>12. Grown /\ \A q \in Procs \ {p} : SameCall(q)
  BY <1>1, <1>2 DEF IInv, TypeOK, Grown, SameCall
<1>13. QED
  BY <1>6, <1>11, <1>12, OneCall

LEMMA LoadInv ==
    ASSUME IInv, NEW p \in Procs, Load(p)
    PROVE  IInv'
<1>1. PICK loaded \in SUBSET Range(found[p]) :
         /\ pilots' = [pilots EXCEPT ![p] =
                [i \in DOMAIN Ordered(names[p], found[p], loaded) |->
                    [char |-> Ordered(names[p], found[p], loaded)[i], corp |-> NoOrg, ally |-> NoOrg]]]
         /\ WarnUnless(p, loaded = Range(found[p]), "IDENTITY_PARTIAL")
         /\ Goto(p, IF pilots'[p] = <<>> THEN "named" ELSE "look")
  BY DEF Load
<1> DEFINE o == Ordered(names[p], found[p], loaded)
           ws == IF loaded = Range(found[p]) THEN {} ELSE {Warning("IDENTITY_PARTIAL", "")}
<1>2. /\ pc[p] = "characters" /\ pc' = [pc EXCEPT ![p] = IF pilots'[p] = <<>> THEN "named" ELSE "look"]
      /\ warnings' = [warnings EXCEPT ![p] = @ \cup ws]
      /\ UNCHANGED <<corpMeta, allyMeta, names, found, unresolved, missing>>
  BY <1>1 DEF Load, Goto, WarnUnless, Warn
<1>3. names[p] \in Seq(Names) /\ found[p] = [n \in DOMAIN found[p] |-> Lower[n]] /\ Answered(p)
  BY DEF IInv, TypeOK, Mine, Answered
<1>4. /\ o \in Seq(Characters)
      /\ \E place \in [DOMAIN o -> DOMAIN names[p]] :
            /\ \A i \in DOMAIN place : Lower[names[p][place[i]]] = o[i]
            /\ \A i, j \in DOMAIN place : i < j => place[i] < place[j]
      /\ \A n \in Range(names[p]) : n \in DOMAIN found[p] /\ found[p][n] \in loaded =>
            \E i \in DOMAIN o : o[i] = Lower[n]
  <2> DEFINE ns == names[p]
             answer == found[p]
  <2>1. ns \in Seq(Names) /\ answer = [n \in DOMAIN answer |-> Lower[n]]
    BY <1>3
  <2>2. o = Ordered(ns, answer, loaded)
    OBVIOUS
  <2> HIDE DEF o, ns, answer
  <2>3. /\ o \in Seq(Characters)
        /\ \E place \in [DOMAIN o -> DOMAIN ns] :
              /\ \A i \in DOMAIN place : Lower[ns[place[i]]] = o[i]
              /\ \A i, j \in DOMAIN place : i < j => place[i] < place[j]
        /\ \A n \in Range(ns) : n \in DOMAIN answer /\ answer[n] \in loaded =>
              \E i \in DOMAIN o : o[i] = Lower[n]
    BY <2>1, <2>2, OrderedRight
  <2>4. QED
    BY <2>3 DEF ns, answer
<1>5. ws \in SUBSET [code : Codes, about : Names \cup {""}]
  BY DEF Warning, Codes
<1>6. loaded # Range(found[p]) => Warning("IDENTITY_PARTIAL", "") \in ws
  OBVIOUS
<1>7. pilots' = [pilots EXCEPT ![p] =
          [i \in DOMAIN o |-> [char |-> o[i], corp |-> NoOrg, ally |-> NoOrg]]]
  BY <1>1
<1> HIDE DEF ws, o
<1>8. /\ pilots'[p] = [i \in DOMAIN o |-> [char |-> o[i], corp |-> NoOrg, ally |-> NoOrg]]
      /\ pc'[p] \in {"named", "look"} /\ (pc'[p] = "named" <=> pilots'[p] = <<>>)
      /\ warnings'[p] = warnings[p] \cup ws
      /\ names'[p] = names[p] /\ found'[p] = found[p] /\ unresolved'[p] = unresolved[p]
  BY <1>2, <1>7 DEF IInv, TypeOK
<1>9. TypeOK'
  <2>1. pilots'[p] \in Seq(Identity)
    <3>1. DOMAIN o = 1..Len(o) /\ Len(o) \in Nat /\ \A i \in DOMAIN o : o[i] \in Characters
      BY <1>4
    <3>2. pilots'[p] \in [1..Len(o) -> Identity]
      BY <1>8, <3>1 DEF Identity, Orgs
    <3>3. QED
      BY <3>1, <3>2
  <2>2. pilots' \in [Procs -> Seq(Identity)]
    BY <1>7, <2>1 DEF IInv, TypeOK
  <2>3. pc' \in [Procs -> Stages]
    BY <1>2 DEF IInv, TypeOK, Stages
  <2>4. QED
    BY <1>2, <1>5, <2>2, <2>3 DEF IInv, TypeOK
<1>10. DOMAIN pilots'[p] = DOMAIN o /\ \A i \in DOMAIN o : pilots'[p][i].char = o[i]
  BY <1>8
<1>11. Accounted(p)'
  <2> SUFFICES ASSUME NEW n \in Range(names[p])
               PROVE  \/ IsPilot(p, Lower[n])' /\ n \notin unresolved'[p]
                      \/ n \in unresolved'[p] /\ Warned(p, "UNRESOLVED_NAME", n)'
                      \/ Failed(p)'
    BY <1>8 DEF Accounted
  <2>1. CASE n \notin DOMAIN found[p]
    BY <1>2, <1>3, <1>8, <2>1 DEF Answered, Warned
  <2>2. CASE n \in DOMAIN found[p] /\ loaded = Range(found[p])
    <3>1. n \notin unresolved[p] /\ found[p][n] \in loaded
      BY <1>3, <2>2 DEF Answered, Range
    <3>2. \E i \in DOMAIN o : o[i] = Lower[n]
      BY <1>4, <2>2, <3>1
    <3>3. QED
      BY <1>8, <1>10, <3>1, <3>2 DEF IsPilot
  <2>3. CASE loaded # Range(found[p])
    BY <1>6, <1>8, <2>3 DEF Failed, Warned
  <2>4. QED
    BY <2>1, <2>2, <2>3
<1>12. InOrder(p)'
  <2>1. PICK place \in [DOMAIN o -> DOMAIN names[p]] :
           /\ \A i \in DOMAIN place : Lower[names[p][place[i]]] = o[i]
           /\ \A i, j \in DOMAIN place : i < j => place[i] < place[j]
    BY <1>4
  <2>2. \A i \in DOMAIN place : Lower[names'[p][place[i]]] = pilots'[p][i].char
    BY <1>8, <1>10, <2>1
  <2>3. QED
    BY <1>8, <1>10, <2>1, <2>2 DEF InOrder
<1>13. Mine(p)'
  <2>1. Answered(p)'
    BY <1>3, <1>8 DEF Answered
  <2>2. Loaded(p)'
    BY <1>8, <1>11, <1>12 DEF Loaded
  <2>3. CorpsSought(p)' /\ AlliesSought(p)'
    BY <1>8 DEF CorpsSought, AlliesSought
  <2>4. Named(p)'
    BY <1>8, NobodyInOrder DEF Named
  <2>5. QED
    BY <2>1, <2>2, <2>3, <2>4 DEF Mine
<1>14. Grown /\ \A q \in Procs \ {p} : SameCall(q)
  BY <1>2, <1>7 DEF IInv, TypeOK, Grown, SameCall
<1>15. QED
  BY <1>9, <1>13, <1>14, OneCall

\* From the look to the naming a call keeps its identities and what it knows of the names.
Kept(p) ==
    /\ pc[p] \in {"look", "corps", "allies", "naming"}
    /\ pc'[p] \in {"corps", "allies", "naming", "named"}
    /\ names'[p] = names[p] /\ found'[p] = found[p] /\ unresolved'[p] = unresolved[p]
    /\ warnings[p] \in SUBSET warnings'[p]
    /\ DOMAIN pilots'[p] = DOMAIN pilots[p]
    /\ \A i \in DOMAIN pilots[p] : pilots'[p][i].char = pilots[p][i].char

LEMMA KeptInv ==
    ASSUME NEW p \in Procs, Mine(p), Kept(p)
    PROVE  Answered(p)' /\ Loaded(p)'
<1>1. Answered(p)'
  BY DEF Mine, Kept, Answered
<1>2. Accounted(p)'
  <2>1. \A c : IsPilot(p, c) => IsPilot(p, c)'
    BY DEF Kept, IsPilot
  <2>2. \A code, about : Warned(p, code, about) => Warned(p, code, about)'
    BY DEF Kept, Warned
  <2>3. Failed(p) => Failed(p)'
    BY <2>2 DEF Failed
  <2>4. Accounted(p) /\ names'[p] = names[p] /\ unresolved'[p] = unresolved[p]
    BY DEF Mine, Kept, Loaded
  <2>5. QED
    BY <2>1, <2>2, <2>3, <2>4 DEF Accounted
<1>3. InOrder(p)'
  BY DEF Mine, Kept, Loaded, InOrder
<1>4. QED
  BY <1>1, <1>2, <1>3 DEF Kept, Loaded

-----------------------------------------------------------------------------
\* The organisations of the identities are organisations.
LEMMA OrgsTyped ==
    ASSUME TypeOK, NEW p \in Procs, NEW i \in DOMAIN pilots[p]
    PROVE  /\ pilots[p][i] \in Identity /\ pilots[p][i].char \in Characters
           /\ Corp(p, i) \in Orgs /\ Ally(p, i) \in Orgs
<1>1. pilots[p] \in Seq(Identity)
  BY DEF TypeOK
<1>2. pilots[p][i] \in Identity
  BY <1>1
<1>3. pilots[p][i].char \in Characters
  BY <1>2 DEF Identity
<1>4. QED
  BY <1>2, <1>3, OrgAssumption DEF Corp, Ally, Orgs, Range

LEMMA FindMissingInv ==
    ASSUME IInv, NEW p \in Procs, FindMissing(p)
    PROVE  IInv'
<1> DEFINE m == [corps |-> OrgsOf(p, CorpOf) \ corpMeta, allies |-> OrgsOf(p, AllyOf) \ allyMeta]
<1>1. /\ pc[p] = "look" /\ pc' = [pc EXCEPT ![p] = "corps"] /\ missing' = [missing EXCEPT ![p] = m]
      /\ UNCHANGED <<corpMeta, allyMeta, names, found, unresolved, warnings, pilots>>
  BY DEF FindMissing, Goto
<1>2. \A i \in DOMAIN pilots[p] :
         /\ Corp(p, i) \in corpMeta \cup m.corps \cup {NoOrg}
         /\ Ally(p, i) \in allyMeta \cup m.allies \cup {NoOrg}
  BY DEF OrgsOf, Corp, Ally
<1>3. m \in [corps : SUBSET Orgs, allies : SUBSET Orgs]
  <2>1. \A i \in DOMAIN pilots[p] : Corp(p, i) \in Orgs /\ Ally(p, i) \in Orgs
    BY OrgsTyped DEF IInv
  <2>2. QED
    BY <2>1 DEF OrgsOf, Corp, Ally
<1> HIDE DEF m
<1>4. TypeOK'
  BY <1>1, <1>3 DEF IInv, TypeOK, Stages
<1>5. /\ pc'[p] = "corps" /\ missing'[p] = m /\ pilots'[p] = pilots[p] /\ names'[p] = names[p]
      /\ found'[p] = found[p] /\ unresolved'[p] = unresolved[p] /\ warnings'[p] = warnings[p]
  BY <1>1 DEF IInv, TypeOK
<1>6. Answered(p)' /\ Loaded(p)'
  BY <1>1, <1>5, KeptInv DEF IInv, Kept
<1>7. CorpsSought(p)' /\ AlliesSought(p)' /\ Named(p)'
  <2>1. \A i : Corp(p, i)' = Corp(p, i) /\ Ally(p, i)' = Ally(p, i)
    BY <1>5 DEF Corp, Ally
  <2>2. QED
    BY <1>1, <1>2, <1>5, <2>1 DEF CorpsSought, AlliesSought, Named
<1>8. Grown /\ \A q \in Procs \ {p} : SameCall(q)
  BY <1>1 DEF IInv, TypeOK, Grown, SameCall
<1>9. QED
  BY <1>4, <1>6, <1>7, <1>8, OneCall DEF Mine

LEMMA FillCorpsInv ==
    ASSUME IInv, NEW p \in Procs, FillCorps(p)
    PROVE  IInv'
<1>1. PICK got \in SUBSET missing[p].corps :
         /\ corpMeta' = Filled(corpMeta, got)
         /\ WarnUnless(p, got = missing[p].corps, "CORP_METADATA_PARTIAL")
  BY DEF FillCorps
<1> DEFINE ws == IF got = missing[p].corps THEN {} ELSE {Warning("CORP_METADATA_PARTIAL", "")}
<1>2. /\ pc[p] = "corps" /\ pc' = [pc EXCEPT ![p] = "allies"]
      /\ warnings' = [warnings EXCEPT ![p] = @ \cup ws] /\ corpMeta' = corpMeta \cup got
      /\ UNCHANGED <<allyMeta, names, found, unresolved, missing, pilots>>
  BY <1>1 DEF FillCorps, Goto, WarnUnless, Warn, Filled
<1>3. ws \in SUBSET [code : Codes, about : Names \cup {""}]
  BY DEF Warning, Codes
<1>4. got = missing[p].corps \/ Warning("CORP_METADATA_PARTIAL", "") \in ws
  OBVIOUS
<1> HIDE DEF ws
<1>5. TypeOK'
  BY <1>2, <1>3 DEF IInv, TypeOK, Stages
<1>6. /\ pc'[p] = "allies" /\ missing'[p] = missing[p] /\ pilots'[p] = pilots[p]
      /\ names'[p] = names[p] /\ found'[p] = found[p] /\ unresolved'[p] = unresolved[p]
      /\ warnings'[p] = warnings[p] \cup ws
  BY <1>2 DEF IInv, TypeOK
<1>7. Answered(p)' /\ Loaded(p)'
  BY <1>2, <1>6, KeptInv DEF IInv, Kept
<1>8. \A i : Corp(p, i)' = Corp(p, i) /\ Ally(p, i)' = Ally(p, i)
  BY <1>6 DEF Corp, Ally
<1>9. CorpsSought(p)'
  <2>1. \A i \in DOMAIN pilots[p] : Corp(p, i) \in corpMeta \cup missing[p].corps \cup {NoOrg}
    BY <1>2 DEF IInv, Mine, CorpsSought
  <2>2. got = missing[p].corps \/ NoCorps(p)'
    BY <1>4, <1>6 DEF NoCorps, Warned
  <2>3. QED
    BY <1>2, <1>6, <1>8, <2>1, <2>2 DEF CorpsSought
<1>10. AlliesSought(p)'
  <2>1. \A i \in DOMAIN pilots[p] : Ally(p, i) \in allyMeta \cup missing[p].allies \cup {NoOrg}
    BY <1>2 DEF IInv, Mine, AlliesSought
  <2>2. QED
    BY <1>2, <1>6, <1>8, <2>1 DEF AlliesSought
<1>11. Named(p)'
  BY <1>6 DEF Named
<1>12. Grown /\ \A q \in Procs \ {p} : SameCall(q)
  BY <1>2 DEF IInv, TypeOK, Grown, SameCall
<1>13. QED
  BY <1>5, <1>7, <1>9, <1>10, <1>11, <1>12, OneCall DEF Mine

LEMMA FillAlliesInv ==
    ASSUME IInv, NEW p \in Procs, FillAllies(p)
    PROVE  IInv'
<1>1. PICK got \in SUBSET missing[p].allies :
         /\ allyMeta' = Filled(allyMeta, got)
         /\ WarnUnless(p, got = missing[p].allies, "ALLIANCE_METADATA_PARTIAL")
  BY DEF FillAllies
<1> DEFINE ws == IF got = missing[p].allies THEN {}
                 ELSE {Warning("ALLIANCE_METADATA_PARTIAL", "")}
<1>2. /\ pc[p] = "allies" /\ pc' = [pc EXCEPT ![p] = "naming"]
      /\ warnings' = [warnings EXCEPT ![p] = @ \cup ws] /\ allyMeta' = allyMeta \cup got
      /\ UNCHANGED <<corpMeta, names, found, unresolved, missing, pilots>>
  BY <1>1 DEF FillAllies, Goto, WarnUnless, Warn, Filled
<1>3. ws \in SUBSET [code : Codes, about : Names \cup {""}]
  BY DEF Warning, Codes
<1>4. got = missing[p].allies \/ Warning("ALLIANCE_METADATA_PARTIAL", "") \in ws
  OBVIOUS
<1> HIDE DEF ws
<1>5. TypeOK'
  BY <1>2, <1>3 DEF IInv, TypeOK, Stages
<1>6. /\ pc'[p] = "naming" /\ missing'[p] = missing[p] /\ pilots'[p] = pilots[p]
      /\ names'[p] = names[p] /\ found'[p] = found[p] /\ unresolved'[p] = unresolved[p]
      /\ warnings'[p] = warnings[p] \cup ws
  BY <1>2 DEF IInv, TypeOK
<1>7. Answered(p)' /\ Loaded(p)'
  BY <1>2, <1>6, KeptInv DEF IInv, Kept
<1>8. \A i : Corp(p, i)' = Corp(p, i) /\ Ally(p, i)' = Ally(p, i)
  BY <1>6 DEF Corp, Ally
<1>9. CorpsSought(p)'
  <2>1. \A i \in DOMAIN pilots[p] : Corp(p, i) \in corpMeta \cup {NoOrg} \/ NoCorps(p)
    BY <1>2 DEF IInv, Mine, CorpsSought
  <2>2. NoCorps(p) => NoCorps(p)'
    BY <1>6 DEF NoCorps, Warned
  <2>3. QED
    BY <1>2, <1>6, <1>8, <2>1, <2>2 DEF CorpsSought
<1>10. AlliesSought(p)'
  <2>1. \A i \in DOMAIN pilots[p] : Ally(p, i) \in allyMeta \cup missing[p].allies \cup {NoOrg}
    BY <1>2 DEF IInv, Mine, AlliesSought
  <2>2. got = missing[p].allies \/ NoAllies(p)'
    BY <1>4, <1>6 DEF NoAllies, Warned
  <2>3. QED
    BY <1>2, <1>6, <1>8, <2>1, <2>2 DEF AlliesSought
<1>11. Named(p)'
  BY <1>6 DEF Named
<1>12. Grown /\ \A q \in Procs \ {p} : SameCall(q)
  BY <1>2 DEF IInv, TypeOK, Grown, SameCall
<1>13. QED
  BY <1>5, <1>7, <1>9, <1>10, <1>11, <1>12, OneCall DEF Mine

LEMMA NameInv ==
    ASSUME IInv, NEW p \in Procs, Name(p)
    PROVE  IInv'
<1> DEFINE corp(i) == IF Corp(p, i) \in corpMeta THEN Corp(p, i) ELSE NoOrg
           ally(i) == IF Ally(p, i) \in allyMeta THEN Ally(p, i) ELSE NoOrg
           named == [i \in DOMAIN pilots[p] |->
                        [char |-> pilots[p][i].char, corp |-> corp(i), ally |-> ally(i)]]
<1>1. /\ pc[p] = "naming" /\ pc' = [pc EXCEPT ![p] = "named"]
      /\ missing' = [missing EXCEPT ![p] = Nothing]
      /\ UNCHANGED <<corpMeta, allyMeta, names, found, unresolved, warnings>>
  BY DEF Name, Goto
<1>2. pilots' = [pilots EXCEPT ![p] = named]
  BY DEF Name, IInv, TypeOK, Corp, Ally
<1>3. \A i \in DOMAIN pilots[p] :
         /\ named[i].char = pilots[p][i].char
         /\ named[i].corp = corp(i) /\ named[i].ally = ally(i) /\ named[i] \in Identity
  BY OrgsTyped DEF IInv, Identity, Orgs
<1>4. named \in Seq(Identity)
  <2>1. pilots[p] \in Seq(Identity)
    BY DEF IInv, TypeOK
  <2>2. DOMAIN pilots[p] = 1..Len(pilots[p]) /\ Len(pilots[p]) \in Nat
    BY <2>1
  <2>3. named \in [1..Len(pilots[p]) -> Identity]
    BY <1>3, <2>2
  <2> HIDE DEF named
  <2>4. QED
    BY <2>2, <2>3
<1>5. DOMAIN named = DOMAIN pilots[p]
  OBVIOUS
<1> HIDE DEF named
<1>6. TypeOK'
  <2>1. [corps |-> {}, allies |-> {}] \in [corps : SUBSET Orgs, allies : SUBSET Orgs]
    OBVIOUS
  <2>2. QED
    BY <1>1, <1>2, <1>4, <2>1 DEF IInv, TypeOK, Stages, Nothing
<1>7. /\ pc'[p] = "named" /\ pilots'[p] = named /\ names'[p] = names[p] /\ found'[p] = found[p]
      /\ unresolved'[p] = unresolved[p] /\ warnings'[p] = warnings[p]
  BY <1>1, <1>2 DEF IInv, TypeOK
<1>8. Answered(p)' /\ Loaded(p)'
  BY <1>1, <1>3, <1>5, <1>7, KeptInv DEF IInv, Kept
<1>9. CorpsSought(p)' /\ AlliesSought(p)'
  BY <1>7 DEF CorpsSought, AlliesSought
<1>10. Named(p)'
  <2>1. \A i \in DOMAIN pilots[p] :
           /\ Corp(p, i) \in corpMeta \cup {NoOrg} \/ NoCorps(p)
           /\ Ally(p, i) \in allyMeta \cup {NoOrg} \/ NoAllies(p)
    BY <1>1 DEF IInv, Mine, CorpsSought, AlliesSought
  <2>2. NoCorps(p)' = NoCorps(p) /\ NoAllies(p)' = NoAllies(p)
    BY <1>7 DEF NoCorps, NoAllies, Warned
  <2>3. \A i \in DOMAIN pilots[p] : Corp(p, i)' = Corp(p, i) /\ Ally(p, i)' = Ally(p, i)
    BY <1>3, <1>7 DEF Corp, Ally
  <2>4. \A i \in DOMAIN pilots[p] :
           /\ pilots'[p][i].corp = corp(i)
           /\ pilots'[p][i].corp = Corp(p, i) \/ NoCorps(p)
           /\ pilots'[p][i].ally = Ally(p, i) \/ NoAllies(p)
    BY <1>3, <1>7, <2>1
  <2>5. \A i, j \in DOMAIN pilots[p] : Corp(p, i) = Corp(p, j) => corp(i) = corp(j)
    OBVIOUS
  <2> HIDE DEF corp, ally
  <2>6. \A i, j \in DOMAIN pilots[p] :
           Corp(p, i) = Corp(p, j) => pilots'[p][i].corp = pilots'[p][j].corp
    BY <2>4, <2>5
  <2>7. QED
    BY <1>5, <1>7, <2>2, <2>3, <2>4, <2>6 DEF Named
<1>11. Grown /\ \A q \in Procs \ {p} : SameCall(q)
  BY <1>1, <1>2 DEF IInv, TypeOK, Grown, SameCall
<1>12. QED
  BY <1>6, <1>8, <1>9, <1>10, <1>11, OneCall DEF Mine

LEMMA ReturnInv ==
    ASSUME IInv, NEW p \in Procs, Return(p)
    PROVE  IInv'
<1>1. TypeOK'
  <2>1. "idle" \in Stages /\ <<>> \in Seq(Identity) /\ <<>> \in Seq(Names)
    BY DEF Stages
  <2>2. QED
    BY <2>1 DEF IInv, TypeOK, Return, Goto
<1>2. /\ pc'[p] = "idle" /\ pilots'[p] = <<>> /\ found'[p] = <<>> /\ unresolved'[p] = {}
      /\ names'[p] = <<>>
  BY DEF IInv, TypeOK, Return, Goto
<1>3. Mine(p)'
  BY <1>2 DEF Mine, Answered, Loaded, CorpsSought, AlliesSought, Named
<1>4. Grown /\ \A q \in Procs \ {p} : SameCall(q)
  BY DEF IInv, TypeOK, Return, Goto, Grown, SameCall
<1>5. QED
  BY <1>1, <1>3, <1>4, OneCall

LEMMA NextInv == IInv /\ [Next]_vars => IInv'
<1> SUFFICES ASSUME IInv, [Next]_vars
             PROVE  IInv'
  OBVIOUS
<1>1. CASE UNCHANGED vars
  <2>1. UNCHANGED <<corpMeta, allyMeta, pc, names, found, unresolved, warnings, missing, pilots>>
    BY <1>1 DEF vars, local
  <2>2. TypeOK'
    BY <2>1 DEF IInv, TypeOK
  <2>3. Grown /\ \A q \in Procs : SameCall(q)
    BY <2>1 DEF Grown, SameCall
  <2>4. QED
    BY <2>2, <2>3, Frame DEF IInv
<1>2. ASSUME NEW p \in Procs, NEW t \in Pastes[p], Paste(p, t)
      PROVE  IInv'
  BY <1>2, PasteInv
<1>3. ASSUME NEW p \in Procs, NotResolved(p) \/ Resolve(p) \/ Load(p)
      PROVE  IInv'
  BY <1>3, NotResolvedInv, ResolveInv, LoadInv
<1>4. ASSUME NEW p \in Procs, FindMissing(p) \/ FillCorps(p) \/ FillAllies(p) \/ Name(p)
      PROVE  IInv'
  BY <1>4, FindMissingInv, FillCorpsInv, FillAlliesInv, NameInv
<1>5. ASSUME NEW p \in Procs, Return(p)
      PROVE  IInv'
  BY <1>5, ReturnInv
<1>6. QED
  BY <1>1, <1>2, <1>3, <1>4, <1>5 DEF Next

\* Whatever the calls do, what each knows of its names and of their organisations is as
\* the inductive invariant says.
THEOREM Invariance == Spec => []IInv
BY InitInv, NextInv, PTL DEF Spec

\* Nobody named in a paste is lost between the lookup and the answer, and the pilots come
\* in the order of the names (resolveIdentities).
THEOREM NobodyLost == Spec => []NobodyIsLost
<1>1. IInv => NobodyIsLost
  BY DEF IInv, Mine, Loaded, Accounted, InOrder, Failed, NobodyIsLost
<1>2. QED
  BY <1>1, Invariance, PTL

\* The pilots of a finished call have their organisations' names or a warning, whatever
\* entries other calls have made meanwhile (enrichOrganizationMetadata).
THEOREM OrganisationsRight == Spec => []OrganisationsNamed
<1>1. IInv => OrganisationsNamed
  BY DEF IInv, Mine, Named, Corp, Ally, NoCorps, NoAllies, OrganisationsNamed
<1>2. QED
  BY <1>1, Invariance, PTL

\* What a call goes on with is the report on one of its own pastes.
THEOREM Reading == Spec => []Read
<1>1. Init => Read
  BY DEF Init, Read
<1>2. QED
  BY <1>1, ReadInv, PTL DEF Spec

\* No line of a paste is lost between the text and the report: of any text, the candidates
\* are the first spellings in their order, and with what was removed as a duplicate and what
\* was invalid they are all there is (extractCandidates, buildResult).
THEOREM LinesAccounted == Spec => []EveryLineAccounted
<1>1. Read => EveryLineAccounted
  <2> SUFFICES ASSUME Read, NEW p \in Procs, pc[p] = "parsed"
               PROVE  AllAccounted(text[p], parsed[p])
    BY DEF EveryLineAccounted
  <2>1. text[p] \in Seq(Lines) /\ parsed[p] = Parsed(text[p])
    BY PastesAssumption DEF Read
  <2>2. QED
    BY <2>1, ParsedAccounts
<1>2. QED
  BY <1>1, Reading, PTL

\* The confidences of the three strategies order them as intended for any text, and users
\* are warned of chat exactly if the start of a line shows it (Orchestrator.Parse).
THEOREM KindRight == Spec => []KindFollowsText
<1>1. Read => KindFollowsText
  <2> SUFFICES ASSUME Read, NEW p \in Procs, pc[p] = "parsed"
               PROVE  OfItsKind(text[p], parsed[p])
    BY DEF KindFollowsText
  <2>1. text[p] \in Seq(Lines) /\ parsed[p] = Parsed(text[p])
    BY PastesAssumption DEF Read
  <2>2. QED
    BY <2>1, ParsedKind
<1>2. QED
  BY <1>1, Reading, PTL

=============================================================================
