---------------------------- MODULE DeckSections ----------------------------
(***************************************************************************)
(* The keywords of a deck and how they are found (KeywordContainer), the   *)
(* section that begins with a keyword (Section), and the test a strict     *)
(* reading of a deck makes of the order of the sections.                   *)
(***************************************************************************)
EXTENDS Integers, SequencesExt, FiniteSetsExt

Delimiter ==
  {"RUNSPEC", "GRID", "EDIT", "PROPS", "REGIONS", "SOLUTION", "SUMMARY", "SCHEDULE"}

(* Section::isSectionDelimiter(); a mistake forgets one. *)
IsSectionDelimiterButSummary(name) == name \in Delimiter \ {"SUMMARY"}

IsSectionDelimiter(name) == name \in Delimiter

PlacesOf(deck, name) == {i \in DOMAIN deck : deck[i].name = name}

NumKeywords(deck, name) == Cardinality(PlacesOf(deck, name))

HasKeyword(deck, name) == NumKeywords(deck, name) > 0

(* getKeyword(name) returns the last one. *)
GetKeyword(deck, name) == deck[Max(PlacesOf(deck, name))]

NoSection == << >>

(* Section::populateSection(): from the keyword that names it to the one   *)
(* before the next delimiter; none if that keyword is missing or repeated. *)
Section(deck, name) ==
  LET start == Min(PlacesOf(deck, name))
      next == {i \in start + 1 .. Len(deck) : IsSectionDelimiter(deck[i].name)}
  IN IF NumKeywords(deck, name) # 1 THEN NoSection
     ELSE SubSeq(deck, start, Min(next \union {Len(deck) + 1}) - 1)

(* What may come after a section. *)
Follows ==
  [RUNSPEC |-> {"GRID"}, GRID |-> {"EDIT", "PROPS"}, EDIT |-> {"PROPS"},
   PROPS |-> {"REGIONS", "SOLUTION"}, REGIONS |-> {"SOLUTION"},
   SOLUTION |-> {"SUMMARY", "SCHEDULE"}, SUMMARY |-> {"SCHEDULE"}, SCHEDULE |-> {}]

(* Section::checkSectionTopology() *)
CheckSectionTopology(deck) ==
  LET delimiters == {i \in DOMAIN deck : IsSectionDelimiter(deck[i].name)}
  IN /\ deck # << >>
     /\ deck[1].name = "RUNSPEC"
     /\ \A i, j \in delimiters :
          i < j /\ (\A k \in delimiters : k <= i \/ j <= k) =>
            deck[j].name \in Follows[deck[i].name]
     /\ deck[Max(delimiters)].name = "SCHEDULE"
=============================================================================
