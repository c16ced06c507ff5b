---------------------------- MODULE PasteParser ----------------------------
(***************************************************************************)
(* internal/parser: what the paste is cut into, which lines name a pilot,  *)
(* and which of three strategies the orchestrator believes.  A line is     *)
(* what it starts with (marks), what is left of it (body), and whether a   *)
(* lone carriage return came before it (cr).  A mark is a time of day      *)
(* ("stamp"), one in brackets ("boxed"), which both patterns of            *)
(* normalize.go match, or a sender ("tag").  A body is a pilot's name,     *)
(* "ticker", "markup", "junk" (too short, too long, no letters) or         *)
(* "blank".  Confidences are in hundredths: all sums of the code that tie  *)
(* in hundredths tie in its floats.                                        *)
(***************************************************************************)
EXTENDS Integers, Sequences, FiniteSets, Functions

CONSTANTS Lines,
          Names,      \* names as they are spelled
          Lower       \* what a name is in lower case

Stamps == {"stamp", "boxed"}
Senders == {"boxed", "tag"}
Strip(marks, kinds) ==
    IF marks # <<>> /\ Head(marks) \in kinds THEN Tail(marks) ELSE marks

\* NormalizeText, line by line: trimmed, one timestamp off, then one sender.
Cleaned(l) == [l EXCEPT !.marks = Strip(Strip(l.marks, Stamps), Senders)]

\* What is left of a mark makes a line of any kind suspicious; for junk that would depend on
\* its letters, and a blank with a mark left is one of the others.
Others == {"ticker", "markup", "junk", "blank"}
ASSUME LinesAssumption ==
    /\ Names \cap Others = {}
    /\ Lines \subseteq [marks : Seq(Stamps \cup Senders), body : Names \cup Others, cr : BOOLEAN]
    /\ \A l \in Lines : l.body \in {"junk", "blank"} => Cleaned(l).marks = <<>>
ASSUME LowerAssumption == DOMAIN Lower = Names

Empty(l) == l.marks = <<>> /\ l.body = "blank"

\* What of a list is at the places, in its order.
Nth(places, i) == CHOOSE k \in places : Cardinality({j \in places : j =< k}) = i
At(list, places) == [i \in 1..Cardinality(places) |-> list[Nth(places, i)]]

Normalized(text) ==
    At([i \in DOMAIN text |-> Cleaned(text[i])], {i \in DOMAIN text : ~Empty(Cleaned(text[i]))})

-----------------------------------------------------------------------------
\* validateCandidateLine.
Valid(l) == l.marks = <<>> /\ l.body \in Names
Suspicious(l) == ~Valid(l) /\ l.body # "junk"

\* extractCandidates: of names that differ only in case the first spelling.
Mutant_AsSpelled(seen, name) == \E i \in DOMAIN seen : seen[i] = name
Seen(seen, name) == \E i \in DOMAIN seen : Lower[seen[i]] = Lower[name]
Added(seen, l) == IF Valid(l) /\ ~Seen(seen, l.body) THEN Append(seen, l.body) ELSE seen
Candidates(lines) ==
    LET seen[i \in 0..Len(lines)] == IF i = 0 THEN <<>> ELSE Added(seen[i - 1], lines[i])
    IN  seen[Len(lines)]
Invalid(lines) == At(lines, {i \in DOMAIN lines : ~Valid(lines[i])})

\* countChatLike on the raw text, which is cut at line feeds only: what follows a lone
\* carriage return is the start of a line only if nothing but blanks is before it.
Leads(text, i) ==
    \E j \in 1..i :
        /\ j = 1 \/ ~text[j].cr
        /\ \A k \in j + 1..i : text[k].cr
        /\ \A k \in j..i - 1 : Empty(text[k])
ChatLike(text) == \E i \in DOMAIN text : text[i].marks # <<>> /\ Leads(text, i)

\* The three strategies, which agree on everything but these.  The local one counts chat
\* on the lines that have been cleaned.
Loose(lines) == \E i \in DOMAIN lines : lines[i].marks # <<>>
Guess(strategy, confidence, chat) == [kind |-> strategy, confidence |-> confidence, chat |-> chat]
Local(lines) ==
    Guess("local_member_list",
          (IF lines = <<>> THEN 45 ELSE 60) + (IF Loose(lines) THEN -30 ELSE 25)
              - (IF Candidates(lines) = <<>> THEN 25 ELSE 0), Loose(lines))
Chat(text, lines) ==
    Guess("chat_transcript", (IF ChatLike(text) THEN 85 ELSE 30)
                                 - (IF Candidates(lines) = <<>> THEN 20 ELSE 0), ChatLike(text))
Fallback(text, lines) ==
    Guess("unknown", IF Candidates(lines) = <<>> THEN 40 ELSE 55, ChatLike(text))

\* Orchestrator.Parse.
Mutant_LastOfEqual(best, g) == IF g.confidence >= best.confidence THEN g ELSE best
Better(best, g) == IF g.confidence > best.confidence THEN g ELSE best
Chosen(text, lines) ==
    LET best == Better(Better(Better(Guess("none", 0, FALSE), Chat(text, lines)), Local(lines)),
                       Fallback(text, lines))
        mixed == Invalid(lines) # <<>> /\ Candidates(lines) # <<>>
    IN  IF lines # <<>> /\ (best.confidence < 50 \/ mixed) THEN Fallback(text, lines) ELSE best

\* buildResult and what the orchestrator adds.
Parsed(text) ==
    LET lines == Normalized(text)
        names == Candidates(lines)
        guess == Chosen(text, lines)
        removed == Len(lines) - Len(Invalid(lines)) - Len(names)
    IN  [kind |-> guess.kind, candidates |-> names, invalid |-> Invalid(lines), removed |-> removed,
         warnings |->
             {w \in {"chat_like_input_detected", "duplicates_removed", "suspicious_artifacts_detected",
                     "no_valid_candidates", "empty_input"} :
                 \/ w = "chat_like_input_detected" /\ guess.chat
                 \/ w = "duplicates_removed" /\ removed > 0
                 \/ w = "suspicious_artifacts_detected" /\ \E i \in DOMAIN lines : Suspicious(lines[i])
                 \/ w = "no_valid_candidates" /\ names = <<>> /\ lines # <<>>
                 \/ w = "empty_input" /\ text = <<>>}]

=============================================================================
