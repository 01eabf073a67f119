--------------------------- MODULE ParserKeywords ---------------------------
(***************************************************************************)
(* The keywords a Parser knows: how a definition in JSON becomes one       *)
(* (ParserKeyword, ParserRecord and the kinds of ParserItem), the three    *)
(* maps the parser keeps them in, and which of them a name in a deck finds.*)
(*                                                                         *)
(* A definition is a record with the fields that the JSON object has; a    *)
(* regular expression is the set of deck names that it matches.            *)
(* The values of a definition are of the JSON types they should be.        *)
(***************************************************************************)
EXTENDS Integers, SequencesExt, FiniteSetsExt

CONSTANTS
  InternalNames,  \* the names of parser keywords, in alphabetical order
  DeckName,       \* names a deck can have
  ValidDeckName,  \* those of up to eight capitals, digits and -, _ or +
  NaN,            \* not a number: what real items without a default begin with
  NoDefault       \* the default is not set

ASSUME ParserKeywordsAssumption == ValidDeckName \subseteq DeckName

(* What a constructor that throws leaves. *)
Refused == << >>

Has(config, field) == field \in DOMAIN config
-----------------------------------------------------------------------------
(* The items of a keyword: a type, whether it has one value or all that    *)
(* are left, the default if one is set, and dimensions.  A list of ints or *)
(* strings has no default, and one value has at most one dimension.        *)
ItemSize == {"SINGLE", "ALL"}

IsIntItem(item) == item.type = "INT" /\ (item.size = "ALL" => item.default = NoDefault)
IsStringItem(item) == item.type = "STRING" /\ (item.size = "ALL" => item.default = NoDefault)
IsDoubleItem(item) == item.type = "DOUBLE" /\ (item.size = "SINGLE" => Len(item.dims) <= 1)
IsFloatItem(item) == item.type = "FLOAT" /\ (item.size = "SINGLE" => Len(item.dims) <= 1)

IsItem(item) ==
  /\ item.size \in ItemSize
  /\ \/ IsIntItem(item) \/ IsStringItem(item) \/ IsDoubleItem(item) \/ IsFloatItem(item)

GetDefault(item) ==
  IF item.default # NoDefault THEN item.default
  ELSE CASE item.type = "INT" -> -1
         [] item.type = "STRING" -> << >>
         [] item.type \in {"DOUBLE", "FLOAT"} -> NaN

DimensionsOf(config) ==
  IF Has(config, "dimension") /\ config.value_type \in {"DOUBLE", "FLOAT"}
    THEN config.dimension ELSE << >>

(* The item of a definition; IsItem() says whether its constructor, and    *)
(* setDefault() and push_backDimension(), accept it.                       *)
NewItem(config, name, size) ==
  [name |-> name, type |-> config.value_type, size |-> size,
   default |-> IF Has(config, "default") THEN config.default ELSE NoDefault,
   dims |-> DimensionsOf(config)]

MakeItem(config) ==
  NewItem(config, config.name, IF Has(config, "size_type") THEN config.size_type ELSE "SINGLE")

ItemFails(config) ==
  ~ Has(config, "name") \/ ~ Has(config, "value_type") \/ ~ IsItem(MakeItem(config))
-----------------------------------------------------------------------------
(* ParserKeyword::initSize(): the size that a definition gives, or leaves  *)
(* to its items.                                                           *)
Fixed(n) == [type |-> "FIXED", n |-> n]
ByKeyword(object) == [type |-> "OTHER_KEYWORD_IN_DECK", keyword |-> object.keyword, item |-> object.item]

InitSize(config) ==
  CASE Has(config, "size") ->
         (CASE Has(config.size, "number") -> Fixed(config.size.number)
            [] Has(config.size, "string") -> [type |-> config.size.string]
            [] OTHER -> ByKeyword(config.size))
    [] ~ Has(config, "size") /\ Has(config, "num_tables") -> ByKeyword(config.num_tables)
    [] OTHER -> IF Has(config, "items") THEN [type |-> "SLASH_TERMINATED"]
                ELSE Fixed(IF Has(config, "data") THEN 1 ELSE 0)

(* Names are those listed, or the name of the keyword itself unless there  *)
(* is a list or an expression.  A malformed expression is dropped.         *)
InitDeckNames(config) ==
  IF Has(config, "deck_names") THEN Range(config.deck_names)
  ELSE IF Has(config, "deck_name_regex") THEN {}
  ELSE {config.name}

InitMatchRegex(config) ==
  IF Has(config, "deck_name_regex") /\ config.deck_name_regex.wellFormed
    THEN config.deck_name_regex.names ELSE {}

(* addItems() and initData(): the items, or one that takes all values. *)
RecordOf(config) ==
  IF Has(config, "data") THEN <<NewItem(config.data, config.name, "ALL")>>
  ELSE IF Has(config, "items") THEN [i \in DOMAIN config.items |-> MakeItem(config.items[i])]
  ELSE << >>

Action(config) == IF Has(config, "action") THEN config.action ELSE "INTERNALIZE"

(* A keyword that is internalised needs items, unless it has no records. *)
IsEmpty(config) ==
  RecordOf(config) = << >> /\ InitSize(config) # Fixed(0) /\ Action(config) = "INTERNALIZE"

(* The constructor of ParserKeyword from JSON. *)
KeywordFails(config) ==
  \/ ~ Has(config, "name")
  \/ Has(config, "items") /\ \E i \in DOMAIN config.items : ItemFails(config.items[i])
  \/ Has(config, "items") /\ \E i, j \in DOMAIN config.items :
       i # j /\ config.items[i].name = config.items[j].name
  \/ Has(config, "items") /\ config.items # << >> /\ Has(config, "data")
  \/ Has(config, "data") /\ (~ Has(config.data, "value_type") \/ ~ IsItem(NewItem(config.data, "", "ALL")))
  \/ IsEmpty(config)

NewKeyword(config) ==
  IF KeywordFails(config) THEN Refused
  ELSE [name |-> config.name,
        action |-> Action(config),
        size |-> IF Has(config, "data") THEN Fixed(1) ELSE InitSize(config),
        isTableCollection |-> ~ Has(config, "size") /\ Has(config, "num_tables"),
        deckNames |-> InitDeckNames(config),
        regex |-> InitMatchRegex(config),
        record |-> RecordOf(config),
        isDataKeyword |-> Has(config, "data")]
-----------------------------------------------------------------------------
(* The maps of a parser, by internal name, by deck name, and of those with *)
(* an expression.                                                          *)
NoKeywords == [internal |-> << >>, byDeckName |-> << >>, wildCards |-> << >>]

Without(map, keys) == [k \in DOMAIN map \ keys |-> map[k]]

(* addParserKeyword(): what a keyword of the same name had is not taken    *)
(* away.                                                                   *)
AddParserKeyword(p, kw) ==
  [internal |-> (kw.name :> kw) @@ p.internal,
   byDeckName |-> [d \in kw.deckNames |-> kw] @@ p.byDeckName,
   wildCards |-> IF kw.regex # {} THEN (kw.name :> kw) @@ p.wildCards ELSE p.wildCards]

(* dropParserKeyword(): a deck name does not go back to the keyword that   *)
(* had it before.  A mistake leaves the names of definitions that were     *)
(* replaced.                                                               *)
DropOfLastDefinition(p, name) ==
  [internal |-> Without(p.internal, {name}),
   byDeckName |-> Without(p.byDeckName,
     {d \in DOMAIN p.byDeckName : name \in DOMAIN p.internal /\ p.byDeckName[d] = p.internal[name]}),
   wildCards |-> Without(p.wildCards, {name})]

DropParserKeyword(p, name) ==
  [internal |-> Without(p.internal, {name}),
   byDeckName |-> Without(p.byDeckName, {d \in DOMAIN p.byDeckName : p.byDeckName[d].name = name}),
   wildCards |-> Without(p.wildCards, {name})]

(* loadKeywords(): a definition that is refused ends the loading of an     *)
(* array with those before it in place.                                    *)
LoadKeywords(p, configs) ==
  LET refused == {i \in DOMAIN configs : NewKeyword(configs[i]) = Refused}
      good == SubSeq(configs, 1, Min(refused \union {Len(configs) + 1}) - 1)
  IN FoldLeft(LAMBDA q, config : AddParserKeyword(q, NewKeyword(config)), p, good)

(* loadKeywordFromFile() and loadKeywordsFromDirectory(): a file with such *)
(* a definition is left out.                                               *)
LoadKeywordsFromDirectory(p, configs) ==
  LET good == SelectSeq(configs, LAMBDA config : NewKeyword(config) # Refused)
  IN FoldLeft(LAMBDA q, config : AddParserKeyword(q, NewKeyword(config)), p, good)

Matches(kw, d) == d \in ValidDeckName /\ (d \in kw.deckNames \/ d \in kw.regex)

(* matchingKeyword(): the first in alphabetical order. *)
Matching(p, d) ==
  SelectSeq(InternalNames, LAMBDA n : n \in DOMAIN p.wildCards /\ Matches(p.wildCards[n], d))

CanParseDeckKeyword(p, d) ==
  d \in ValidDeckName /\ (d \in DOMAIN p.byDeckName \/ Matching(p, d) # << >>)

GetParserKeyword(p, d) ==
  IF d \in DOMAIN p.byDeckName THEN p.byDeckName[d] ELSE p.wildCards[Head(Matching(p, d))]
=============================================================================
