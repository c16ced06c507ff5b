----------------------------- MODULE Identities -----------------------------
(***************************************************************************)
(* The first half of AnalyzePastedText under overlapping calls: the paste  *)
(* is parsed, its names are resolved, the characters are loaded, and the   *)
(* names of their corporations and alliances are looked up in two maps the *)
(* calls share.  resolveIdentities touches no shared state;                *)
(* enrichOrganizationMetadata takes the mutex four times and asks ESI in   *)
(* between.  A character is known by the lower case of its name.  What ESI *)
(* returns is what EsiClient establishes: part of what was asked for, and  *)
(* an error exactly if something is missing.                               *)
(***************************************************************************)
EXTENDS PasteParser

CONSTANTS Procs,
          Pastes,       \* the texts each goroutine may be given
          CorpOf, AllyOf,    \* of each character
          NoOrg         \* the id 0

Characters == {Lower[n] : n \in Names}
ASSUME OrgAssumption == DOMAIN CorpOf = Characters /\ DOMAIN AllyOf = Characters
ASSUME PastesAssumption ==
    /\ DOMAIN Pastes = Procs
    /\ \A p \in Procs : Pastes[p] \in SUBSET Seq(Lines)

VARIABLES corpMeta, allyMeta,   \* the ids with an entry; none is ever removed
          pc,
          text, parsed,         \* until the names are resolved
          names,                \* parsed.Candidates
          found,                \* resolved.Characters: from names as spelled to characters
          unresolved,           \* resolved.Unresolved
          warnings,
          missing,              \* ids without an entry when it was looked
          pilots                \* the identities, in the order of the names

local == <<text, parsed, names, found, unresolved, warnings, missing, pilots>>
vars == <<corpMeta, allyMeta, pc, local>>

Nothing == [corps |-> {}, allies |-> {}]

Init ==
    /\ corpMeta = {} /\ allyMeta = {}
    /\ pc = [p \in Procs |-> "idle"]
    /\ text = [p \in Procs |-> <<>>] /\ parsed = [p \in Procs |-> <<>>]
    /\ names = [p \in Procs |-> <<>>] /\ found = [p \in Procs |-> <<>>]
    /\ unresolved = [p \in Procs |-> {}] /\ warnings = [p \in Procs |-> {}]
    /\ missing = [p \in Procs |-> Nothing] /\ pilots = [p \in Procs |-> <<>>]

Goto(p, place) == pc' = [pc EXCEPT ![p] = place]
Warning(code, about) == [code |-> code, about |-> about]
Warn(p, ws) == warnings' = [warnings EXCEPT ![p] = @ \cup ws]
WarnUnless(p, complete, code) == Warn(p, IF complete THEN {} ELSE {Warning(code, "")})

-----------------------------------------------------------------------------
\* The parse; what an earlier call of this goroutine has left is gone.
Paste(p, t) ==
    /\ pc[p] = "idle"
    /\ Goto(p, "parsed")
    /\ text' = [text EXCEPT ![p] = t]
    /\ parsed' = [parsed EXCEPT ![p] = Parsed(t)]
    /\ names' = [names EXCEPT ![p] = Parsed(t).candidates]
    /\ found' = [found EXCEPT ![p] = <<>>]
    /\ unresolved' = [unresolved EXCEPT ![p] = {}]
    /\ warnings' = [warnings EXCEPT ![p] = {}]
    /\ missing' = [missing EXCEPT ![p] = Nothing]
    /\ pilots' = [pilots EXCEPT ![p] = <<>>]
    /\ UNCHANGED <<corpMeta, allyMeta>>

Resolving(p) ==
    /\ pc[p] = "parsed"
    /\ text' = [text EXCEPT ![p] = <<>>] /\ parsed' = [parsed EXCEPT ![p] = <<>>]
    /\ UNCHANGED <<corpMeta, allyMeta, names, missing, pilots>>

\* No name, or ResolveNames fails.
NotResolved(p) ==
    /\ Resolving(p)
    /\ IF names[p] = <<>> THEN UNCHANGED warnings
       ELSE \E code \in {"RATE_LIMITED", "RESOLVE_FAILED"} : Warn(p, {Warning(code, "")})
    /\ Goto(p, "named")
    /\ UNCHANGED <<found, unresolved>>

\* ResolveNames compares in lower case and answers under the names as spelled.
Resolve(p) ==
    /\ names[p] # <<>> /\ Resolving(p)
    /\ \E known \in SUBSET Range(names[p]) :
          /\ found' = [found EXCEPT ![p] = [n \in known |-> Lower[n]]]
          /\ unresolved' = [unresolved EXCEPT ![p] = Range(names[p]) \ known]
          /\ Warn(p, {Warning("UNRESOLVED_NAME", n) : n \in Range(names[p]) \ known})
          /\ Goto(p, IF known = {} THEN "named" ELSE "characters")

\* The order of the names; one that was not answered or not loaded is passed over.
Mutant_ByCanonicalName(ns, answer, loaded) ==
    SelectSeq([i \in DOMAIN ns |-> Lower[ns[i]]], LAMBDA c : c \in DOMAIN answer /\ c \in loaded)
Places(ns, answer, loaded) == {k \in DOMAIN ns : ns[k] \in DOMAIN answer /\ answer[ns[k]] \in loaded}
Ordered(ns, answer, loaded) ==
    LET known == Places(ns, answer, loaded)
    IN  [i \in 1..Cardinality(known) |-> answer[ns[Nth(known, i)]]]

\* GetCharacters.
Load(p) ==
    /\ pc[p] = "characters"
    /\ \E loaded \in SUBSET Range(found[p]) :
          /\ pilots' = [pilots EXCEPT ![p] =
                  [i \in DOMAIN Ordered(names[p], found[p], loaded) |->
                      [char |-> Ordered(names[p], found[p], loaded)[i], corp |-> NoOrg, ally |-> NoOrg]]]
          /\ WarnUnless(p, loaded = Range(found[p]), "IDENTITY_PARTIAL")
          /\ Goto(p, IF pilots'[p] = <<>> THEN "named" ELSE "look")
    /\ UNCHANGED <<corpMeta, allyMeta, text, parsed, names, found, unresolved, missing>>

-----------------------------------------------------------------------------
OrgsOf(p, Of) == {Of[pilots[p][i].char] : i \in DOMAIN pilots[p]} \ {NoOrg}

\* enrichOrganizationMetadata, first critical section.
FindMissing(p) ==
    /\ pc[p] = "look"
    /\ missing' = [missing EXCEPT ![p] = [corps |-> OrgsOf(p, CorpOf) \ corpMeta,
                                          allies |-> OrgsOf(p, AllyOf) \ allyMeta]]
    /\ Goto(p, "corps")
    /\ UNCHANGED <<corpMeta, allyMeta, text, parsed, names, found, unresolved, warnings, pilots>>

\* GetCorporations and the second critical section, if a corporation is missing.
Mutant_Replaced(meta, got) == IF got = {} THEN meta ELSE got
Filled(meta, got) == meta \cup got

FillCorps(p) ==
    /\ pc[p] = "corps"
    /\ \E got \in SUBSET missing[p].corps :
          /\ corpMeta' = Filled(corpMeta, got)
          /\ WarnUnless(p, got = missing[p].corps, "CORP_METADATA_PARTIAL")
    /\ Goto(p, "allies")
    /\ UNCHANGED <<allyMeta, text, parsed, names, found, unresolved, missing, pilots>>

\* GetAlliances and the third.
FillAllies(p) ==
    /\ pc[p] = "allies"
    /\ \E got \in SUBSET missing[p].allies :
          /\ allyMeta' = Filled(allyMeta, got)
          /\ WarnUnless(p, got = missing[p].allies, "ALLIANCE_METADATA_PARTIAL")
    /\ Goto(p, "naming")
    /\ UNCHANGED <<corpMeta, text, parsed, names, found, unresolved, missing, pilots>>

\* The last critical section.  Without an entry the names stay empty, and toPilotDTO shows
\* the id.
Name(p) ==
    /\ pc[p] = "naming"
    /\ pilots' = [pilots EXCEPT ![p] = [i \in DOMAIN @ |->
          [char |-> @[i].char,
           corp |-> IF CorpOf[@[i].char] \in corpMeta THEN CorpOf[@[i].char] ELSE NoOrg,
           ally |-> IF AllyOf[@[i].char] \in allyMeta THEN AllyOf[@[i].char] ELSE NoOrg]]]
    /\ missing' = [missing EXCEPT ![p] = Nothing]
    /\ Goto(p, "named")
    /\ UNCHANGED <<corpMeta, allyMeta, text, parsed, names, found, unresolved, warnings>>

\* The identities go into a session (AppService); the goroutine may be given another call.
Return(p) ==
    /\ pc[p] = "named"
    /\ Goto(p, "idle")
    /\ UNCHANGED <<corpMeta, allyMeta>>
    /\ names' = [names EXCEPT ![p] = <<>>] /\ found' = [found EXCEPT ![p] = <<>>]
    /\ unresolved' = [unresolved EXCEPT ![p] = {}] /\ warnings' = [warnings EXCEPT ![p] = {}]
    /\ pilots' = [pilots EXCEPT ![p] = <<>>]
    /\ UNCHANGED <<text, parsed, missing>>

Next ==
    \E p \in Procs :
        \/ \E t \in Pastes[p] : Paste(p, t)
        \/ NotResolved(p) \/ Resolve(p) \/ Load(p)
        \/ FindMissing(p) \/ FillCorps(p) \/ FillAllies(p) \/ Name(p)
        \/ Return(p)

Spec == Init /\ [][Next]_vars

-----------------------------------------------------------------------------
NameLines(t) == {i \in DOMAIN t : t[i].body \in Names /\ Cleaned(t[i]).marks = <<>>}
\* The lines that are the first to spell a name.
Firsts(t) == {i \in NameLines(t) : \A j \in NameLines(t) : j < i => Lower[t[j].body] # Lower[t[i].body]}

Bodies(t) == {i \in DOMAIN t : t[i].body # "blank"}
AllAccounted(t, r) ==
    /\ Len(r.candidates) + r.removed + Len(r.invalid) = Cardinality(Bodies(t))
    /\ Len(r.candidates) = Cardinality(Firsts(t))
    /\ \A i \in Firsts(t) : r.candidates[Cardinality({j \in Firsts(t) : j =< i})] = t[i].body
    /\ ("duplicates_removed" \in r.warnings) = (r.removed > 0)
    /\ Bodies(t) # {} /\ Firsts(t) = {} => "no_valid_candidates" \in r.warnings

\* Every line of a paste with more than marks on it is accounted for: as the first spelling
\* of a candidate, in the order of the paste, as a duplicate removed or as an invalid line;
\* and the user is warned of duplicates and of a paste that names nobody (NormalizeText,
\* extractCandidates, buildResult).
EveryLineAccounted == \A p \in Procs : pc[p] = "parsed" => AllAccounted(text[p], parsed[p])

OfItsKind(t, r) ==
    /\ r.kind = IF r.candidates # <<>> /\ r.invalid # <<>> THEN "unknown"
                ELSE IF ChatLike(t) THEN "chat_transcript"
                ELSE IF \E i \in DOMAIN t : Cleaned(t[i]).marks # <<>> THEN "unknown"
                ELSE "local_member_list"
    /\ ("chat_like_input_detected" \in r.warnings) = ChatLike(t)

\* What the orchestrator's confidences amount to: a paste of which only some lines name a
\* pilot is of unknown kind, another is a transcript if the start of one of its lines is
\* marked as chat, and else a list of members, unless chat is hidden behind carriage
\* returns.  Users are warned of chat exactly if the start of a line shows it.
KindFollowsText == \A p \in Procs : pc[p] = "parsed" => OfItsKind(text[p], parsed[p])

Warned(p, code, about) == Warning(code, about) \in warnings[p]
IsPilot(p, c) == \E i \in DOMAIN pilots[p] : pilots[p][i].char = c

\* Every candidate ends as a pilot, as a name the user is told is unknown, or under a
\* warning that the lookup or the loading failed; each at most once, in the order of the
\* candidates, and nobody is there who was not asked for (resolveIdentities).
NobodyIsLost ==
    \A p \in Procs : pc[p] = "named" =>
        /\ \A n \in Range(names[p]) :
              \/ IsPilot(p, Lower[n]) /\ n \notin unresolved[p]
              \/ n \in unresolved[p] /\ Warned(p, "UNRESOLVED_NAME", n)
              \/ \E code \in {"RATE_LIMITED", "RESOLVE_FAILED", "IDENTITY_PARTIAL"} : Warned(p, code, "")
        /\ \E place \in [DOMAIN pilots[p] -> DOMAIN names[p]] :
              /\ \A i \in DOMAIN place : Lower[names[p][place[i]]] = pilots[p][i].char
              /\ \A i, j \in DOMAIN place : i < j => place[i] < place[j]

\* Every pilot has the name of its corporation and alliance, or the user is told that some
\* are missing, although a name may have been there already, or be fetched or failed to be
\* fetched by another call meanwhile; pilots of one corporation show it alike
\* (enrichOrganizationMetadata).
OrganisationsNamed ==
    \A p \in Procs : pc[p] = "named" =>
        /\ \A i \in DOMAIN pilots[p] :
              /\ pilots[p][i].corp = CorpOf[pilots[p][i].char] \/ Warned(p, "CORP_METADATA_PARTIAL", "")
              /\ pilots[p][i].ally = AllyOf[pilots[p][i].char] \/ Warned(p, "ALLIANCE_METADATA_PARTIAL", "")
        /\ \A i, j \in DOMAIN pilots[p] :
              CorpOf[pilots[p][i].char] = CorpOf[pilots[p][j].char] => pilots[p][i].corp = pilots[p][j].corp

=============================================================================
