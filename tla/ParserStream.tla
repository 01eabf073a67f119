----------------------------- MODULE ParserStream -----------------------------
(***************************************************************************)
(* The raw layer of the parser (Parser/Parser.cpp, RawDeck/RawKeyword.cpp  *)
(* and RawRecord.cpp): the lines of a data file and of the files it        *)
(* includes are cut into raw keywords and records, and the finished raw    *)
(* keywords are added to the deck or obeyed.  parseStream() calls itself   *)
(* for an INCLUDE, so the files being read form a stack, each file with a  *)
(* ParserState of its own.                                                 *)
(*                                                                         *)
(* The content of a file is chosen while it is read: any line may come     *)
(* next, and a file may end after any line.  A line is what the scanner    *)
(* tells apart: a keyword name, data with or without a terminating slash,  *)
(* data with an odd number of quotes, a slash on its own, a comment, or    *)
(* nothing.  A record is the sequence of the lines it was put together     *)
(* from, given by their positions in the input.                            *)
(***************************************************************************)
EXTENDS Integers, Sequences, FiniteSets

CONSTANTS
  Line,       \* the lines a file can have, see LineType
  Name,       \* the names of keywords the lines hold
  Shape,      \* the keywords the parser has: a function from names to shapes
  Value,      \* what the first item of a record can be
  Readable,   \* the paths at which there is a file
  Strict,     \* strictParsing
  MaxLines,   \* bound: lines read, all files together
  None,       \* no keyword; no name
  Alias,      \* the item "$PATH/file", PATH being the one alias
  Blank,      \* the path an alias nobody has defined stands for: ""
  Default,    \* an item that is not there
  Word        \* an item that is neither a number nor a path

Known == DOMAIN Shape

(* A name may have a comment or more text behind it on the line; "exact"   *)
(* says that it stands alone.                                              *)
LineType ==
  [kind : {"name"}, name : Name, exact : BOOLEAN, value : {Word}]
    \cup [kind : {"text", "end"}, value : Value]
    \cup [kind : {"quote"}, value : {Word}]
    \cup [kind : {"slash"}, value : {Default}]
    \cup [kind : {"nothing", "comment"}, value : {Default}]

ShapeType ==
  [size : {"FIXED", "OTHER", "SLASH", "UNKNOWN"},
   count : Nat,             \* of a FIXED keyword
   from : Name,             \* of an OTHER_KEYWORD_IN_DECK: where the size is
   tables : BOOLEAN,        \* isTableCollection()
   action : {"INTERNALIZE", "IGNORE", "IGNORE_WARNING", "THROW_EXCEPTION"},
   integer : BOOLEAN]       \* the first item of its records is an integer

(* What has its size in another keyword finds one integer there; only      *)
(* keywords with "num_tables" are table collections (ParserKeyword.cpp:    *)
(* 86-115); INCLUDE and TITLE are one record each.                         *)
ASSUME ParserStreamAssumption ==
  /\ Known \subseteq Name
  /\ Shape \in [Known -> ShapeType]
  /\ Line \subseteq LineType
  /\ \A k \in Known : Shape[k].size = "OTHER" =>
        /\ Shape[k].from \in Known
        /\ Shape[Shape[k].from].size = "FIXED"
        /\ Shape[Shape[k].from].count = 1
        /\ Shape[Shape[k].from].integer
  /\ \A k \in Known : Shape[k].tables => Shape[k].size = "OTHER"
  /\ \A k \in Known \cap {"INCLUDE", "TITLE"} : Shape[k].size = "FIXED"
  /\ Strict \in BOOLEAN
  /\ MaxLines \in Nat
  /\ None \notin Name
  /\ Alias \notin {Default, Word}

VARIABLES
  files,      \* the ParserStates, the innermost file last
  deck,       \* the keywords of the deck
  warnings,   \* the positions of the keywords the deck has a warning about
  stop,       \* the result of the parseStream() that returned last
  outcome,    \* "parsing", "parsed" or "thrown"
  input       \* history: the lines read, each with the file it is in

vars == <<files, deck, warnings, stop, outcome, input>>

(***************************************************************************)
(* A ParserState, a RawKeyword and a DeckKeyword.  A file is known by the  *)
(* position in the input at which it was opened.                           *)
(***************************************************************************)
Position == 1 .. MaxLines

RawKeyword ==
  [name : Name,
   type : {"FIXED", "SLASH", "UNKNOWN", "TABLES"},
   target : Nat,            \* m_fixedSize or m_numTables
   tables : Nat,            \* m_currentNumTables
   records : Seq(Seq(Position)),
   partial : Seq(Position), \* m_partialRecordString
   finished : BOOLEAN,
   lineNR : Nat,
   at : Position]           \* history: the position of its name

ASSUME NoneIsNoKeyword == None \notin RawKeyword

ParserState ==
  [file : Nat,
   lineNR : Nat,
   rawKeyword : RawKeyword \cup {None},
   nextKeyword : Name \cup {None},
   path : Value \cup {None, Blank},   \* pathMap: what the alias stands for
   pc : {"reading", "finished", "ended", "returning"}]

(* The code keeps the name, the flag and the records of a keyword; the     *)
(* file, the line and the position it was read at are history.             *)
DeckKeyword ==
  [name : Name, known : BOOLEAN, records : Seq(Seq(Position)),
   file : Nat, lineNR : Nat, at : Position]

TypeOK ==
  /\ files \in Seq(ParserState)
  /\ deck \in Seq(DeckKeyword)
  /\ warnings \subseteq Position
  /\ stop \in BOOLEAN
  /\ outcome \in {"parsing", "parsed", "thrown"}
  /\ input \in Seq([line : Line, file : Nat])
  /\ (files = <<>>) = (outcome = "parsed")

NewFile(id) ==
  [file |-> id, lineNR |-> 0, rawKeyword |-> None, nextKeyword |-> None,
   path |-> None, pc |-> "reading"]

Init ==
  /\ files = <<NewFile(0)>>
  /\ deck = <<>>
  /\ warnings = {}
  /\ stop = FALSE
  /\ outcome = "parsing"
  /\ input = <<>>

Top == files[Len(files)]

SetTop(f) == files' = [files EXCEPT ![Len(files)] = f]

Throw == /\ outcome' = "thrown"
         /\ UNCHANGED <<files, deck, warnings, stop>>

(***************************************************************************)
(* createRawKeyword(): the shape of the keyword says how it ends.          *)
(***************************************************************************)
PositionsOf(k) == {i \in DOMAIN deck : deck[i].name = k}

LastOf(k) == CHOOSE i \in PositionsOf(k) : \A j \in PositionsOf(k) : j <= i

FirstItem(record) == input[record[1]].line.value

(* getInt(0) of the size item; an item that is not there has its default,  *)
(* which is one.                                                           *)
IntegerOf(value) == IF value = Default THEN 1 ELSE value

SizeIn(k) == IntegerOf(FirstItem(deck[LastOf(k)].records[1]))

CanCreate(k) ==
  IF k \in Known
  THEN /\ Shape[k].action # "THROW_EXCEPTION"
       /\ Shape[k].size = "OTHER" => PositionsOf(Shape[k].from) # {}
  ELSE ~Strict

Target(k) ==
  IF k \notin Known THEN 0
  ELSE IF Shape[k].size = "OTHER" THEN SizeIn(Shape[k].from)
  ELSE Shape[k].count

RawType(k) ==
  IF k \notin Known THEN "FIXED"
  ELSE IF Shape[k].size \in {"SLASH", "UNKNOWN"} THEN Shape[k].size
  ELSE IF Shape[k].tables THEN "TABLES" ELSE "FIXED"

NewRawKeyword(k, lineNR, at) ==
  [name |-> k, type |-> RawType(k), target |-> Target(k), tables |-> 0,
   records |-> <<>>, partial |-> <<>>,
   finished |-> RawType(k) = "FIXED" /\ Target(k) = 0,
   lineNR |-> lineNR, at |-> at]

(***************************************************************************)
(* addRawRecordString(): the line at position p joins the partial record.  *)
(***************************************************************************)
(* Parser::doSpecialHandlingForTitleKeyword() puts a slash behind the      *)
(* line, which ends data, makes a slash of a blank line, and is lost       *)
(* behind a comment or inside quotes.                                      *)
Handled(l, raw) ==
  IF raw = None \/ raw.name # "TITLE" THEN l
  ELSE IF l.kind = "nothing" THEN [kind |-> "slash", value |-> Default]
  ELSE IF l.kind \in {"text", "name"} THEN [kind |-> "end", value |-> Word]
  ELSE l

(* RawKeyword::useLine() *)
UseLine(l) == l.kind \notin {"nothing", "comment"}

HasSlash(l) == l.kind \in {"end", "slash"}

(* isTerminator(): the partial record starts with a slash. *)
IsTerminator(raw, l) ==
  raw.type # "FIXED" /\ raw.partial = <<>> /\ l.kind = "slash"

Tables(raw, l) ==
  raw.tables + (IF raw.type = "TABLES" /\ IsTerminator(raw, l) THEN 1 ELSE 0)

IsLast(raw, l) ==
  IsTerminator(raw, l) /\ (raw.type = "TABLES" => Tables(raw, l) = raw.target)

QuotesOf(partial) ==
  {i \in DOMAIN partial : input[partial[i]].line.kind = "quote"}

EndsRecord(raw, l) == ~raw.finished /\ ~IsLast(raw, l) /\ HasSlash(l)

(* The constructor of RawRecord counts the quotes of the whole record,     *)
(* isTerminatedRecordString() those of the line.                           *)
CanAdd(raw, l) ==
  EndsRecord(raw, l) => Cardinality(QuotesOf(raw.partial)) % 2 = 0

Added(raw, l, p) ==
  IF IsLast(raw, l)
  THEN [raw EXCEPT !.tables = Tables(raw, l), !.partial = <<>>,
                   !.finished = TRUE]
  ELSE IF EndsRecord(raw, l)
  THEN LET records == Append(raw.records, Append(raw.partial, p))
       IN  [raw EXCEPT !.tables = Tables(raw, l), !.records = records,
                       !.partial = <<>>,
                       !.finished = raw.type = "FIXED"
                                      /\ Len(records) = raw.target]
  ELSE [raw EXCEPT !.partial = Append(@, p)]

-----------------------------------------------------------------------------
(***************************************************************************)
(* tryParseKeyword(), one line at a time.                                  *)
(***************************************************************************)
(* Mistakes: nextKeyword is not reset, or no keyword is started. *)
StartedKept(raw) == [Top EXCEPT !.rawKeyword = raw]

StartedNothing(raw) == [Top EXCEPT !.nextKeyword = None]

Started(raw) == [Top EXCEPT !.rawKeyword = raw, !.nextKeyword = None]

(* The line that ended a keyword of unknown size was the name of the next. *)
StartNext ==
  /\ Top.pc = "reading"
  /\ Top.nextKeyword # None
  /\ IF CanCreate(Top.nextKeyword)
     THEN /\ SetTop(Started(NewRawKeyword(Top.nextKeyword, Top.lineNR,
                                           Len(input))))
          /\ UNCHANGED <<deck, warnings, stop, outcome>>
     ELSE Throw
  /\ UNCHANGED input

AfterLine(raw) ==
  IF raw # None /\ raw.finished THEN "finished" ELSE "reading"

Read(raw) ==
  /\ SetTop([Top EXCEPT !.lineNR = @ + 1, !.rawKeyword = raw,
                        !.pc = AfterLine(raw)])
  /\ UNCHANGED <<deck, warnings, stop, outcome>>

NameLine(f) == f.lineNR + 1

(* Outside a keyword everything that is not a name is passed over. *)
LineOutside(l) ==
  /\ Top.rawKeyword = None
  /\ IF l.kind # "name" THEN Read(None)
     ELSE IF CanCreate(l.name)
     THEN Read(NewRawKeyword(l.name, NameLine(Top), Len(input) + 1))
     ELSE Throw

EndsUnknown(l) ==
  /\ Top.rawKeyword.type = "UNKNOWN"
  /\ l.kind = "name" /\ l.exact /\ l.name \in Known

LineInside(l) ==
  /\ Top.rawKeyword # None
  /\ LET raw == Top.rawKeyword
         line == Handled(l, raw)
     IN  IF EndsUnknown(l)
         THEN /\ SetTop([Top EXCEPT !.lineNR = @ + 1,
                                    !.rawKeyword.finished = TRUE,
                                    !.nextKeyword = l.name,
                                    !.pc = "finished"])
              /\ UNCHANGED <<deck, warnings, stop, outcome>>
         ELSE IF ~UseLine(line) THEN Read(raw)
         ELSE IF CanAdd(raw, line)
         THEN Read(Added(raw, line, Len(input) + 1))
         ELSE Throw

ReadLine(l) ==
  /\ Top.pc = "reading"
  /\ Top.nextKeyword = None
  /\ Len(input) < MaxLines
  /\ input' = Append(input, [line |-> l, file |-> Top.file])
  /\ LineOutside(l) \/ LineInside(l)

(* The file has no more lines: an unfinished keyword is handled as it is.  *)
EndOfFile ==
  /\ Top.pc = "reading"
  /\ Top.nextKeyword = None
  /\ LET raw == Top.rawKeyword
     IN  SetTop([Top EXCEPT
           !.pc = IF raw = None THEN "returning" ELSE "ended",
           !.rawKeyword =
              IF raw = None THEN None
              ELSE [raw EXCEPT !.finished = @ \/ raw.type = "UNKNOWN"]])
  /\ UNCHANGED <<deck, warnings, stop, outcome, input>>

-----------------------------------------------------------------------------
(***************************************************************************)
(* parseStream(): what is done with the raw keyword.                       *)
(***************************************************************************)
Handling(k) ==
  /\ Top.pc \in {"finished", "ended"}
  /\ Top.rawKeyword.name = k

HandlingOther ==
  /\ Top.pc \in {"finished", "ended"}
  /\ Top.rawKeyword.name \notin {"END", "ENDINC", "PATHS", "INCLUDE"}

Done(f) ==
  [f EXCEPT !.rawKeyword = None,
            !.pc = IF f.pc = "ended" THEN "returning" ELSE "reading"]

End ==
  /\ Handling("END")
  /\ stop' = TRUE
  /\ SetTop([Top EXCEPT !.pc = "returning"])
  /\ UNCHANGED <<deck, warnings, outcome, input>>

EndInclude ==
  /\ Handling("ENDINC")
  /\ SetTop([Top EXCEPT !.pc = "returning"])
  /\ UNCHANGED <<deck, warnings, stop, outcome, input>>

HasTwoItems(record) == FirstItem(record) \notin {Default, Word}

AliasInserted(path, value) == IF path = None THEN value ELSE path

(* insert() leaves an alias that is in the map as it is. *)
Paths ==
  /\ Handling("PATHS")
  /\ LET records == Top.rawKeyword.records
     IN  IF \A i \in DOMAIN records : HasTwoItems(records[i])
         THEN /\ SetTop([Done(Top) EXCEPT
                    !.path = IF records = <<>> THEN @
                             ELSE AliasInserted(@, FirstItem(records[1]))])
              /\ UNCHANGED <<deck, warnings, stop, outcome>>
         ELSE Throw
  /\ UNCHANGED input

(* getIncludeFilePath(): operator[] puts an alias that is not in the map   *)
(* there, with an empty path.                                              *)
PathAfter(value) ==
  IF value = Alias /\ Top.path = None THEN Blank ELSE Top.path

IncludeFile(value) == IF value = Alias THEN PathAfter(value) ELSE value

(* A mistake: the aliases are handed on to the included file. *)
IncludedWithAliases(f, id) == [NewFile(id) EXCEPT !.path = f.path]

IncludedBy(f, id) == NewFile(id)

Include ==
  /\ Handling("INCLUDE")
  /\ LET records == Top.rawKeyword.records
         value == FirstItem(records[1])
     IN  IF records # <<>> /\ IncludeFile(value) \in Readable
         THEN /\ files' = Append(
                    [files EXCEPT ![Len(files)].path = PathAfter(value)],
                    IncludedBy(Top, Len(input)))
              /\ UNCHANGED <<deck, warnings, stop, outcome>>
         ELSE Throw
  /\ UNCHANGED input

NewDeckKeyword(raw, known) ==
  [name |-> raw.name, known |-> known, records |-> raw.records,
   file |-> Top.file, lineNR |-> raw.lineNR, at |-> raw.at]

(* A mistake: the keyword is put in front. *)
AddToDeckInFront(raw, known) ==
  deck' = <<NewDeckKeyword(raw, known)>> \o deck

AddToDeck(raw, known) == deck' = Append(deck, NewDeckKeyword(raw, known))

(* A mistake: it does not ask whether the keyword is finished. *)
CanParseUnfinished(raw) ==
  Shape[raw.name].integer =>
    \A i \in DOMAIN raw.records :
       FirstItem(raw.records[i]) \in Nat \cup {Default}

(* ParserKeyword::parse() wants a finished keyword whose items have the    *)
(* types of their parser items.                                            *)
CanParse(raw) ==
  /\ raw.finished
  /\ Shape[raw.name].integer =>
       \A i \in DOMAIN raw.records :
          FirstItem(raw.records[i]) \in Nat \cup {Default}

Internalize ==
  /\ HandlingOther
  /\ Top.rawKeyword.name \in Known
  /\ Shape[Top.rawKeyword.name].action = "INTERNALIZE"
  /\ IF CanParse(Top.rawKeyword)
     THEN /\ AddToDeck(Top.rawKeyword, TRUE)
          /\ SetTop(Done(Top))
          /\ UNCHANGED <<warnings, stop, outcome>>
     ELSE Throw
  /\ UNCHANGED input

Ignore ==
  /\ HandlingOther
  /\ Top.rawKeyword.name \in Known
  /\ Shape[Top.rawKeyword.name].action \in {"IGNORE", "IGNORE_WARNING"}
  /\ warnings' = IF Shape[Top.rawKeyword.name].action = "IGNORE_WARNING"
                 THEN warnings \cup {Top.rawKeyword.at} ELSE warnings
  /\ SetTop(Done(Top))
  /\ UNCHANGED <<deck, stop, outcome, input>>

Unrecognised ==
  /\ HandlingOther
  /\ Top.rawKeyword.name \notin Known
  /\ AddToDeck(Top.rawKeyword, FALSE)
  /\ warnings' = warnings \cup {Top.rawKeyword.at}
  /\ SetTop(Done(Top))
  /\ UNCHANGED <<stop, outcome, input>>

(* A mistake: the result of the inner parseStream() is not looked at. *)
ResumedAnyhow(f) == Done(f)

Resumed(f) == IF stop THEN [f EXCEPT !.pc = "returning"] ELSE Done(f)

Result(n) == IF n = 0 THEN "parsed" ELSE outcome

(* The parseStream() of the innermost file returns to the one that         *)
(* included the file, or to its caller.                                    *)
Return ==
  /\ Top.pc = "returning"
  /\ LET outer == SubSeq(files, 1, Len(files) - 1)
         n == Len(outer)
     IN  /\ files' = IF n = 0 THEN <<>>
                     ELSE [outer EXCEPT ![n] = Resumed(@)]
         /\ outcome' = Result(n)
  /\ UNCHANGED <<deck, warnings, stop, input>>

Step ==
  \/ StartNext
  \/ \E l \in Line : ReadLine(l)
  \/ EndOfFile
  \/ End \/ EndInclude \/ Paths \/ Include
  \/ Internalize \/ Ignore \/ Unrecognised
  \/ Return

Next == outcome = "parsing" /\ Step

Spec == Init /\ [][Next]_vars

(* The parser runs until it has read the file: nothing else is running.    *)
FairSpec == Spec /\ WF_vars(Next)
-----------------------------------------------------------------------------
(***************************************************************************)
(* Properties.                                                             *)
(***************************************************************************)
Open == {files[n].rawKeyword : n \in DOMAIN files} \ {None}

LinesOf(k) ==
  UNION {{k.records[r][x] : x \in DOMAIN k.records[r]} :
            r \in DOMAIN k.records}

FileOf(p) == input[p].file

InOrder(k) ==
  \A r, s \in DOMAIN k.records :
    \A x \in DOMAIN k.records[r], y \in DOMAIN k.records[s] :
       (r < s \/ (r = s /\ x < y)) => k.records[r][x] < k.records[s][y]

(* A keyword has its lines in the order of the input, all of them after    *)
(* its name and from the file its name is in, and the keywords of the deck *)
(* follow each other as in the input, across INCLUDE and its return:       *)
(* parseStream() and tryParseKeyword() share one deck and keep one raw     *)
(* keyword per file.  The line number a keyword gets is that of its name   *)
(* in its own file, also when the name was read while the keyword before   *)
(* it was still open (nextKeyword) or files were included in between.      *)
KeywordsKeepTheirLines ==
  /\ \A k \in Open \cup {deck[i] : i \in DOMAIN deck} :
       /\ InOrder(k)
       /\ k.lineNR = Cardinality({p \in 1 .. k.at : FileOf(p) = FileOf(k.at)})
       /\ \A p \in LinesOf(k) : k.at < p /\ FileOf(p) = FileOf(k.at)
  /\ \A i, j \in DOMAIN deck : i < j =>
       \A p \in LinesOf(deck[i]) \cup {deck[i].at} : p < deck[j].at

(* The size of a keyword when it was created, read off the deck: the       *)
(* keyword that holds the size is the last one before it.                  *)
SizeBefore(i, k) ==
  LET before == {j \in 1 .. (i - 1) : deck[j].name = k}
      last   == CHOOSE j \in before : \A m \in before : m <= j
  IN  IntegerOf(FirstItem(deck[last].records[1]))

Expected(i) ==
  LET shape == Shape[deck[i].name]
  IN  IF shape.size = "OTHER" THEN SizeBefore(i, shape.from)
      ELSE shape.count

IsSlash(record) == Len(record) = 1 /\ input[record[1]].line.kind = "slash"

(* No half keyword gets into the deck: a keyword of known size has all its *)
(* records and no more, where EQLDIMS and the like say how many; a table   *)
(* collection has all its tables; a slash-terminated keyword has records   *)
(* of data only, and one of unknown size has not run over the next known   *)
(* name that stands alone on its line, as the comment in VFPPROD says.     *)
(* Otherwise ParserKeyword::parse() throws.                                *)
DeckKeywordsAreWhole ==
  \A i \in DOMAIN deck : deck[i].known =>
    LET records == deck[i].records
        slashes == {r \in DOMAIN records : IsSlash(records[r])}
    IN  CASE Shape[deck[i].name].tables ->
               Cardinality(slashes) = Expected(i) - 1
          [] Shape[deck[i].name].size \in {"FIXED", "OTHER"}
               /\ ~ Shape[deck[i].name].tables ->
               Len(records) = Expected(i)
          [] Shape[deck[i].name].size = "SLASH" -> slashes = {}
          [] Shape[deck[i].name].size = "UNKNOWN" ->
               /\ slashes = {}
               /\ \A p \in LinesOf(deck[i]) :
                    ~(input[p].line.kind = "name" /\ input[p].line.exact
                        /\ input[p].line.name \in Known)

(* The one way to lose a line: it follows a keyword without records that   *)
(* ended a keyword of unknown size.  The line is read before anybody asks  *)
(* isFinished(), although docs/keywords says such a keyword has no data.   *)
Swallowed(p) ==
  \E i \in DOMAIN deck \ {1} :
    /\ deck[i].at = p - 1 /\ deck[i].known
    /\ Shape[deck[i].name].size # "SLASH" /\ Expected(i) = 0
    /\ deck[i - 1].known /\ Shape[deck[i - 1].name].size = "UNKNOWN"

(* When the whole input has been parsed, every known name that stands      *)
(* alone on its line is a keyword of the deck or part of the data of one,  *)
(* but for the case above: none is passed over between two keywords or     *)
(* left in a record that never ends.  (For inputs of keywords that go into *)
(* the deck.)  A name with a comment behind it can be lost: it does not    *)
(* end a keyword of unknown size, and finalizeUnknownSize() drops the      *)
(* record that was begun with it.                                          *)
NoKeywordIsLost ==
  outcome = "parsed" =>
    \A p \in DOMAIN input :
      input[p].line.kind = "name" /\ input[p].line.exact
        /\ input[p].line.name \in Known =>
      \/ \E i \in DOMAIN deck : p \in LinesOf(deck[i]) \cup {deck[i].at}
      \/ Swallowed(p)

(* END stops all files: once it is obeyed no file reads another line and   *)
(* the deck stays as it is, however deep the file with END is included.    *)
EndStopsEveryFile == [][stop => UNCHANGED <<deck, input>>]_vars

(* An alias belongs to the file that defines it: an included file knows    *)
(* none of the aliases of the file that included it.                       *)
AliasesAreLocal ==
  \A n \in DOMAIN files : files[n].path # None =>
    \E p \in DOMAIN input : FileOf(p) = files[n].file
                              /\ input[p].line.kind \in {"text", "end"}
                              /\ input[p].line.value
                                   \in {files[n].path, Alias}

(* The parser comes to an end on every input: it has a deck or has thrown. *)
ParsingEnds == <>(outcome # "parsing")
=============================================================================
