----------------------------- MODULE RecordScan -----------------------------
(***************************************************************************)
(* How the text of one record becomes a record of the deck: RawRecord cuts *)
(* the text into tokens, ParserKeyword and ParserRecord let each item of   *)
(* the keyword take its values from them (ParserItemScan, StarToken), and  *)
(* once the whole deck is read Parser::applyUnitsToDeck() gives the items  *)
(* the units of the deck.                                                  *)
(*                                                                         *)
(* A text is a sequence of characters, of which only blanks, quotes,       *)
(* slashes, stars and digits mean anything; other characters make words.   *)
(***************************************************************************)
EXTENDS ParserKeywords

CONSTANTS
  Session,     \* what is done: definitions loaded and dropped, a keyword, and the text of a record
  MaxInt,      \* the largest int
  UnitSystem,  \* the unit systems of decks
  Metric,      \* the one that defaults are in
  SIScaling    \* the factor of each dimension in each unit system, or NaN

Blank == " "
Quote == "'"
Slash == "/"
Star == "*"
Digit == ("0" :> 0) @@ ("1" :> 1) @@ ("2" :> 2)

ASSUME RecordScanAssumption ==
  /\ MaxInt \in Nat
  /\ Metric \in UnitSystem
  /\ \A u \in UnitSystem : DOMAIN SIScaling[u] = DOMAIN SIScaling[Metric]
-----------------------------------------------------------------------------
(* UnitSystem::getNewDimension(): a dimension is a name that the system    *)
(* has, or names with * between them and at most one / (parse(),           *)
(* parseFactor()).  Here a dimension is the sequence of its names and      *)
(* signs, and what is divided comes out whole.                             *)
IsBase(dim) == Len(dim) = 1

Factors(part) == SelectSeq(part, LAMBDA name : name # "*")

Divided(dim) == {p \in DOMAIN dim : dim[p] = "/"}

HasFactor(u, dim) ==
  /\ Cardinality(Divided(dim)) <= 1
  /\ \A p \in DOMAIN dim : dim[p] \notin {"*", "/"} =>
       dim[p] \in DOMAIN SIScaling[u] /\ (~ IsBase(dim) => SIScaling[u][dim[p]] # NaN)

ParseFactor(u, part) == FoldLeft(LAMBDA f, name : f * SIScaling[u][name], 1, Factors(part))

GetNewDimension(u, dim) ==
  IF IsBase(dim) THEN SIScaling[u][dim[1]]
  ELSE IF Divided(dim) = {} THEN ParseFactor(u, dim)
  ELSE LET p == Min(Divided(dim))
       IN ParseFactor(u, SubSeq(dim, 1, p - 1)) \div ParseFactor(u, SubSeq(dim, p + 1, Len(dim)))
-----------------------------------------------------------------------------
VARIABLES
  session, \* what is done with the parser
  done,    \* the number of steps that were
  parser,  \* the maps of the Parser
  layout,  \* ParserRecord::m_items of the keyword that is read
  tokens,  \* RawRecord::m_recordItems
  record,  \* DeckRecord::m_items: the data of an item, and its dimensions
  units,   \* the unit system of the deck
  stage    \* "keywords", "text", "scanning", "scanned", "complete",
           \* "skipped" (a keyword without records), "refused" (the keyword),
           \* "thrown" (the record) or "no units"

keywords == <<session, done, parser>>

vars == <<keywords, layout, tokens, record, units, stage>>

(* What the file says, up to the end of a line with a slash. *)
text == session.text

Init ==
  /\ session \in Session
  /\ done = 0
  /\ parser = NoKeywords
  /\ layout = << >>
  /\ tokens = << >>
  /\ record = << >>
  /\ units = Metric
  /\ stage = "keywords"

Throws == stage' = "thrown" /\ UNCHANGED <<keywords, layout, tokens, record, units>>
-----------------------------------------------------------------------------
(* The parser is set up, one call after the other. *)
Setup(op) ==
  /\ stage = "keywords"
  /\ done < Len(session.script) /\ session.script[done + 1].op = op
  /\ done' = done + 1
  /\ UNCHANGED <<session, layout, tokens, record, units, stage>>

Load ==
  Setup("load") /\ parser' = LoadKeywords(parser, session.script[done + 1].configs)

LoadDirectory ==
  /\ Setup("directory")
  /\ parser' = LoadKeywordsFromDirectory(parser, session.script[done + 1].configs)

Drop ==
  Setup("drop") /\ parser' = DropParserKeyword(parser, session.script[done + 1].name)

(* createRawKeyword() in a strict parse, and what parseStream() does with  *)
(* the action of the keyword.                                              *)
CreateRawKeyword ==
  LET name == session.name
      kw == GetParserKeyword(parser, name)
  IN /\ stage = "keywords"
     /\ done = Len(session.script)
     /\ \/ /\ CanParseDeckKeyword(parser, name)
           /\ kw.action # "THROW_EXCEPTION"
           /\ layout' = kw.record
           /\ stage' = IF kw.action = "INTERNALIZE" /\ kw.size # Fixed(0) THEN "text" ELSE "skipped"
           /\ UNCHANGED <<keywords, tokens, record, units>>
        \/ /\ CanParseDeckKeyword(parser, name) => kw.action = "THROW_EXCEPTION"
           /\ stage' = "refused"
           /\ UNCHANGED <<keywords, layout, tokens, record, units>>
-----------------------------------------------------------------------------
(* findTerminatingSlash(): the first slash, but not one before the last    *)
(* quote.  0 if there is none.                                             *)
PlacesOf(c, t) == {p \in DOMAIN t : t[p] = c}

TerminatingSlash(t) ==
  LET slashes == PlacesOf(Slash, t)
      quotes == PlacesOf(Quote, t)
      behind == {p \in slashes : \A q \in quotes : q < p}
  IN IF behind = {} THEN 0 ELSE Min(behind)

IsTerminated(t) ==
  TerminatingSlash(t) # 0 /\ Cardinality(PlacesOf(Quote, t)) % 2 = 0

(* splitSingleRecordString(): character by character, with the token that  *)
(* has begun and what it has begun with.  Nothing between two blanks is no *)
(* token.  A mistake ends tokens at any blank.                             *)
Pushed(s) ==
  IF s.current = << >> THEN s
  ELSE [s EXCEPT !.tokens = Append(@, s.current), !.current = << >>]

CharWithQuotesIgnored(s, c) ==
  CASE c = Blank -> [Pushed(s) EXCEPT !.start = c]
    [] c = Quote /\ s.start = Quote -> [Pushed(s) EXCEPT !.start = "none"]
    [] c = Quote /\ s.start # Quote -> [s EXCEPT !.start = Quote, !.current = << >>]
    [] OTHER -> [s EXCEPT !.current = Append(@, c)]

Char(s, c) ==
  CASE c = Blank /\ s.start # Quote -> [Pushed(s) EXCEPT !.start = c]
    [] c = Quote /\ s.start = Quote -> [Pushed(s) EXCEPT !.start = "none"]
    [] c = Quote /\ s.start # Quote -> [s EXCEPT !.start = Quote, !.current = << >>]
    [] OTHER -> [s EXCEPT !.current = Append(@, c)]

Split(t) ==
  Pushed(FoldLeft(Char, [tokens |-> << >>, current |-> << >>, start |-> Blank], t)).tokens

(* RawRecord::RawRecord(); the text is trimmed, which leaves its tokens. *)
NewRawRecord ==
  /\ stage = "text"
  /\ \/ /\ IsTerminated(text)
        /\ tokens' = Split(SubSeq(text, 1, TerminatingSlash(text) - 1))
        /\ stage' = "scanning"
        /\ UNCHANGED <<keywords, layout, record, units>>
     \/ ~ IsTerminated(text) /\ Throws
-----------------------------------------------------------------------------
IsNumber(t) == t # << >> /\ \A p \in DOMAIN t : t[p] \in DOMAIN Digit

Number(t) == FoldLeft(LAMBDA n, c : 10 * n + Digit[c], 0, t)

IsInt(t) == IsNumber(t) /\ Number(t) <= MaxInt

(* readValueToken(): what a type can read, and what it makes of it. *)
CanRead(type, t) ==
  CASE type = "INT" -> IsInt(t)
    [] type \in {"DOUBLE", "FLOAT"} -> IsNumber(t)
    [] type = "STRING" -> TRUE

Value(type, t) == IF type = "STRING" THEN t ELSE Number(t)

(* isStarToken(): digits that make an int, a star, and the value behind.   *)
(* What has too many digits is no repetition.                              *)
StarPlace(t) ==
  LET others == {p \in DOMAIN t : t[p] \notin DOMAIN Digit}
  IN IF others = {} \/ t[Min(others)] # Star THEN 0 ELSE Min(others)

CountString(t) == SubSeq(t, 1, StarPlace(t) - 1)
ValueString(t) == SubSeq(t, StarPlace(t) + 1, Len(t))

IsStarToken(t) == StarPlace(t) # 0 /\ (CountString(t) = << >> \/ IsInt(CountString(t)))

(* StarToken::init_(): a star alone is 1*, and neither *2 nor 0* is a      *)
(* repetition.                                                             *)
IsRepetition(t) ==
  IF CountString(t) = << >> THEN ValueString(t) = << >> ELSE Number(CountString(t)) # 0

Count(t) == IF CountString(t) = << >> THEN 1 ELSE Number(CountString(t))

Given(type, t) == [value |-> Value(type, t), defaulted |-> FALSE]
Default(item) == [value |-> GetDefault(item), defaulted |-> TRUE]
Times(n, x) == [i \in 1 .. n |-> x]

(* What one token is for an item: its data, or an error. *)
Fails(type, t) ==
  IF IsStarToken(t)
    THEN ~ IsRepetition(t) \/ (ValueString(t) # << >> /\ ~ CanRead(type, ValueString(t)))
    ELSE ~ CanRead(type, t)

(* An item of size ALL takes every token that is left, repeated.           *)
DataOf(item, t) ==
  CASE ~ IsStarToken(t) -> <<Given(item.type, t)>>
    [] IsStarToken(t) /\ ValueString(t) # << >> -> Times(Count(t), Given(item.type, ValueString(t)))
    [] OTHER -> Times(Count(t), Default(item))

ScanAll(item, ts) ==
  [data |-> FoldLeft(LAMBDA data, t : data \o DataOf(item, t), << >>, ts), rest |-> << >>]

(* One with a single value takes the first; of a repetition it puts back   *)
(* all but one.  A mistake puts all of them back.                          *)
RestWithOneTooMany(ts) ==
  LET t == Head(ts)
      again == IF ValueString(t) = << >> THEN <<"1", Star>> ELSE ValueString(t)
  IN IF IsStarToken(t) /\ Count(t) > 1 THEN Times(Count(t), again) \o Tail(ts) ELSE Tail(ts)

Rest(ts) ==
  LET t == Head(ts)
      again == IF ValueString(t) = << >> THEN <<"1", Star>> ELSE ValueString(t)
  IN IF IsStarToken(t) THEN Times(Count(t) - 1, again) \o Tail(ts) ELSE Tail(ts)

ScanSingle(item, ts) ==
  IF ts = << >> THEN [data |-> <<Default(item)>>, rest |-> << >>]
  ELSE [data |-> <<Head(DataOf(item, Head(ts)))>>, rest |-> Rest(ts)]

(* ParserRecord::parse(): the next item of the layout. *)
ScanItem ==
  LET item == layout[Len(record) + 1]
      taken == IF item.size = "ALL" \/ tokens = << >> THEN tokens ELSE <<Head(tokens)>>
      scan == IF item.size = "ALL" THEN ScanAll(item, tokens) ELSE ScanSingle(item, tokens)
  IN /\ stage = "scanning"
     /\ Len(record) < Len(layout)
     /\ \/ /\ \A p \in DOMAIN taken : ~ Fails(item.type, taken[p])
           /\ record' = Append(record, [data |-> scan.data, dims |-> << >>])
           /\ tokens' = scan.rest
           /\ UNCHANGED <<keywords, layout, units, stage>>
        \/ (\E p \in DOMAIN taken : Fails(item.type, taken[p])) /\ Throws

(* What is left over when every item has its data is too much. *)
EndRecord ==
  /\ stage = "scanning"
  /\ Len(record) = Len(layout)
  /\ \/ /\ tokens = << >>
        /\ stage' = "scanned"
        /\ UNCHANGED <<keywords, layout, tokens, record, units>>
     \/ tokens # << >> /\ Throws

(* Deck::initUnitSystem() and applyUnitsToDeck(): the last of the data of  *)
(* an item decides for all of them whether they are in the units of the    *)
(* deck or, as defaults are, metric.  A mistake has all in those of the    *)
(* deck.  A dimension that either of the two systems cannot make ends it.  *)
UnitsOfDeck(data, u) == u

UnitsOf(data, u) == IF data = << >> \/ Last(data).defaulted THEN Metric ELSE u

HasUnits(u) ==
  \A i \in DOMAIN layout : \A d \in DOMAIN layout[i].dims :
    HasFactor(u, layout[i].dims[d]) /\ HasFactor(Metric, layout[i].dims[d])

ApplyUnits(u) ==
  /\ stage = "scanned"
  /\ units' = u
  /\ \/ /\ HasUnits(u)
        /\ record' = [i \in DOMAIN record |->
             [record[i] EXCEPT !.dims = [d \in DOMAIN layout[i].dims |->
                GetNewDimension(UnitsOf(record[i].data, u), layout[i].dims[d])]]]
        /\ stage' = "complete"
     \/ ~ HasUnits(u) /\ stage' = "no units" /\ UNCHANGED record
  /\ UNCHANGED <<keywords, layout, tokens>>

Next ==
  \/ Load \/ LoadDirectory \/ Drop \/ CreateRawKeyword
  \/ NewRawRecord
  \/ ScanItem
  \/ EndRecord
  \/ \E u \in UnitSystem : ApplyUnits(u)

Spec == Init /\ [][Next]_vars

(* assertSIData(): the dimensions take turns.  An item without one has no  *)
(* SI data, nor has a value whose dimension depends on the context.        *)
SIData(item) ==
  [p \in DOMAIN item.data |->
     LET factor == item.dims[((p - 1) % Len(item.dims)) + 1]
     IN IF item.data[p].value = NaN \/ factor = NaN THEN NaN ELSE item.data[p].value * factor]
-----------------------------------------------------------------------------
(* A keyword that is internalised with records has items, each of which    *)
(* its constructor accepts, and one of data takes them all                 *)
(* (ParserKeyword.cpp:125-163 and 255-271).                                *)
IsSound(kw) ==
  /\ kw.record = << >> => kw.size = Fixed(0) \/ kw.action # "INTERNALIZE"
  /\ \A i \in DOMAIN kw.record : IsItem(kw.record[i])
  /\ kw.isDataKeyword => kw.size = Fixed(1) /\ Len(kw.record) = 1 /\ kw.record[1].size = "ALL"

TypeOK ==
  /\ done \in 0 .. Len(session.script)
  /\ \A map \in DOMAIN parser : \A key \in DOMAIN parser[map] : IsSound(parser[map][key])
  /\ tokens \in Seq(Seq(STRING)) /\ \A p \in DOMAIN tokens : tokens[p] # << >>
  /\ Len(record) <= Len(layout)
  /\ \A i \in DOMAIN record :
       /\ record[i].data \in
            Seq([value : IF layout[i].type = "STRING" THEN Seq(STRING) ELSE {NaN} \union Int,
                 defaulted : BOOLEAN])
       /\ layout[i].size = "SINGLE" => Len(record[i].data) = 1
  /\ units \in UnitSystem
  /\ stage \in {"keywords", "text", "scanning", "scanned", "complete", "skipped", "refused",
                "thrown", "no units"}
-----------------------------------------------------------------------------
(* What was done to the parser so far, as keywords added and names dropped: *)
(* an array up to the first definition that is refused, and of the files   *)
(* all but those.                                                          *)
EventsOf(step) ==
  IF step.op = "drop" THEN <<[dropped |-> step.name]>>
  ELSE LET made == [i \in DOMAIN step.configs |-> NewKeyword(step.configs[i])]
           upTo == SelectInSeq(made, LAMBDA kw : kw = Refused)
           kept == IF step.op = "load" /\ upTo # 0 THEN SubSeq(made, 1, upTo - 1)
                   ELSE SelectSeq(made, LAMBDA kw : kw # Refused)
       IN [i \in DOMAIN kept |-> [kw |-> kept[i]]]

Events == FlattenSeq([i \in 1 .. done |-> EventsOf(session.script[i])])

Added(events) == {e \in DOMAIN events : Has(events[e], "kw")}

IsLive(events, e) ==
  \A f \in DOMAIN events \ Added(events) : f > e => events[f].dropped # events[e].kw.name

(* The keyword that reads a name: the one that listed it last, unless it   *)
(* was dropped since.  Then the first by name of those whose last          *)
(* expression, or the names given with it, has the name.                   *)
ReaderOf(events, d) ==
  LET added == Added(events)
      lists == {e \in added : d \in events[e].kw.deckNames}
      expressions(n) == {e \in added : events[e].kw.name = n /\ events[e].kw.regex # {}}
      matching == SelectSeq(InternalNames, LAMBDA n :
        /\ expressions(n) # {}
        /\ IsLive(events, Max(expressions(n)))
        /\ LET kw == events[Max(expressions(n))].kw IN d \in kw.regex \union kw.deckNames)
  IN IF lists # {} /\ IsLive(events, Max(lists)) THEN events[Max(lists)].kw
     ELSE IF matching # << >> THEN events[Max(expressions(Head(matching)))].kw
     ELSE Refused

(* However definitions were added, replaced and dropped, the three maps of *)
(* the parser agree on the keyword that reads a name, and a dropped one    *)
(* reads nothing (Parser.cpp:129-200).                                     *)
LastDefinitionReads ==
  LET events == Events
  IN stage = "keywords" =>
       \A d \in ValidDeckName :
         IF CanParseDeckKeyword(parser, d) THEN GetParserKeyword(parser, d) = ReaderOf(events, d)
         ELSE ReaderOf(events, d) = Refused
-----------------------------------------------------------------------------
(* The data of a record, read off its text at once.                        *)

Body == SubSeq(text, 1, TerminatingSlash(text) - 1)

(* Between which quotes a place is; they come in pairs. *)
QuotesBefore(p) == Cardinality({q \in 1 .. p - 1 : Body[q] = Quote})
Quoted(p) == Body[p] # Quote /\ QuotesBefore(p) % 2 = 1

(* A quote opens behind a blank, or at the start. *)
QuotesStandAlone ==
  \A p \in DOMAIN Body :
    Body[p] = Quote /\ QuotesBefore(p) % 2 = 0 /\ p > 1 => Body[p - 1] = Blank

(* No character of a record is lost but the quotes and the blanks outside  *)
(* them, as long as quotes open behind a blank (RawRecord.cpp:102-149).    *)
NothingIsLost ==
  stage = "scanning" /\ record = << >> /\ QuotesStandAlone =>
    FlattenSeq(tokens) = [q \in 1 .. Cardinality({p \in DOMAIN Body :
                             Quoted(p) \/ Body[p] \notin {Quote, Blank}}) |->
      Body[CHOOSE p \in DOMAIN Body :
             /\ Quoted(p) \/ Body[p] \notin {Quote, Blank}
             /\ q = Cardinality({o \in 1 .. p :
                      Quoted(o) \/ Body[o] \notin {Quote, Blank}})]]

(* The tokens with every repetition written out; << >> is a default. *)
WrittenOut ==
  FlattenSeq([p \in DOMAIN Split(Body) |->
    LET t == Split(Body)[p]
    IN IF IsStarToken(t) THEN Times(Count(t), ValueString(t)) ELSE <<t>>])

Lists == {i \in DOMAIN layout : layout[i].size = "ALL"}

(* The values of item i among those of the record. *)
Share(i) ==
  CASE i > Len(WrittenOut) \/ \E l \in Lists : l < i -> << >>
    [] i \in Lists /\ \A l \in Lists : i <= l -> SubSeq(WrittenOut, i, Len(WrittenOut))
    [] OTHER -> SubSeq(WrittenOut, i, i)

Expected(i) ==
  IF Share(i) = << >> /\ layout[i].size = "SINGLE" THEN <<Default(layout[i])>>
  ELSE [p \in DOMAIN Share(i) |->
         IF Share(i)[p] = << >> THEN Default(layout[i]) ELSE Given(layout[i].type, Share(i)[p])]

IsReadable ==
  /\ IsTerminated(text)
  /\ \A p \in DOMAIN Split(Body) :
       LET t == Split(Body)[p]
       IN IsStarToken(t) =>
            \/ CountString(t) = << >> /\ ValueString(t) = << >>
            \/ CountString(t) # << >> /\ Number(CountString(t)) > 0
  /\ Lists = {} => Len(WrittenOut) <= Len(layout)
  /\ \A i \in DOMAIN layout : \A p \in DOMAIN Share(i) :
       Share(i)[p] # << >> => CanRead(layout[i].type, Share(i)[p])

(* A value that is repeated is not one more repetition: 2*2*x.             *)
NoNestedStars ==
  \A p \in DOMAIN Split(Body) :
    LET t == Split(Body)[p] IN IsStarToken(t) => ~ IsStarToken(ValueString(t))

(* Each item has the values that the record gives it if repetitions are    *)
(* written out first, over the ends of items too; and a record that one    *)
(* item cannot read, or with too many values, is refused                   *)
(* (ParserItem.hpp:102-169, ParserRecord.cpp:94-109).                      *)
ReadAsWritten ==
  NoNestedStars =>
    /\ stage = "thrown" => ~ IsReadable
    /\ stage \in {"scanned", "complete"} =>
         IsReadable /\ \A i \in DOMAIN layout : record[i].data = Expected(i)

(* A value that the record gives is in the units of the deck, and a        *)
(* default is metric, unless a list of values ends with another kind than  *)
(* it has (DeckDoubleItem.cpp:42-61 and 115-120).                          *)
ValuesHaveTheirUnits ==
  stage = "complete" =>
    \A i \in {j \in DOMAIN layout : layout[j].dims # << >>} :
      \A p \in DOMAIN record[i].data :
        LET x == record[i].data[p]
            dim == layout[i].dims[((p - 1) % Len(layout[i].dims)) + 1]
        IN x.defaulted = Last(record[i].data).defaulted /\ x.value # NaN =>
             LET u == IF x.defaulted THEN Metric ELSE units
                 side(q) == \E e \in Divided(dim) : e < q
                 product(below) == FoldLeft(LAMBDA f, q :
                   IF side(q) = below /\ dim[q] \notin {"*", "/"} THEN f * SIScaling[u][dim[q]] ELSE f,
                   1, [q \in DOMAIN dim |-> q])
             IN SIData(record[i])[p] # NaN =>
                  SIData(record[i])[p] * product(TRUE) = x.value * product(FALSE)
=============================================================================
