--------------------------- MODULE GridProperties ---------------------------
(***************************************************************************)
(* How the sections of a deck fill the properties of the grid: the two     *)
(* scans of EclipseState::processGridProperties(), the boxes (BoxManager,  *)
(* Box) and the properties (GridProperties, GridProperty), each with one   *)
(* value for every cell.                                                   *)
(*                                                                         *)
(* The sections from GRID to SOLUTION are scanned for the properties with  *)
(* whole numbers, then once more for those with real ones, which may begin *)
(* with values looked up by region.  What the deck says is chosen during   *)
(* the first scan and kept in deck for the second.  A keyword with several *)
(* records is one item of the deck for each of them, and one for its end.  *)
(***************************************************************************)
EXTENDS EndpointDefaults, SequencesExt

CONSTANTS
  NX, NY, NZ,   \* the cells of the grid in each direction
  Unit,         \* numbers of the deck and real properties count parts of
                \* one: Unit of them are 1
  SIScaling,    \* a factor for each keyword with real values
  NoBox,        \* no box: the items of a record are all defaulted
  PartialBox,   \* some of them are
  Defaulted,    \* a value that the deck leaves out
  Item,         \* the items a deck is made of
  MaxItems      \* bound: items in the deck

Cell == 0 .. NX * NY * NZ - 1

IntKeyword ==
  {"SATNUM", "IMBNUM", "PVTNUM", "EQLNUM", "ENDNUM", "FLUXNUM", "MULTNUM", "FIPNUM"}

(* The other real properties begin with no number, with 1 or with 0.       *)
UnsetKeyword ==
  {"PORO", "PORV", "PERMX", "PERMY", "PERMZ", "PERMXY", "PERMXZ", "PERMYZ"}

UnitKeyword ==
  {"MULTPV", "NTG", "MULTX", "MULTY", "MULTZ", "MULTX-", "MULTY-", "MULTZ-"}

ConstantDefault ==
  [kw \in UnsetKeyword \union UnitKeyword \union {"SWATINIT"} |->
     IF kw \in UnsetKeyword THEN NaN ELSE IF kw \in UnitKeyword THEN Unit ELSE 0]

DoubleKeyword == EndpointKeyword \union DOMAIN ConstantDefault

Keyword == IntKeyword \union DoubleKeyword

ASSUME GridAssumption ==
  /\ {NX, NY, NZ, Unit} \subseteq Nat \ {0}
  /\ SIScaling \in [DoubleKeyword -> Nat \ {0}]
  /\ MaxItems \in Nat

VARIABLES
  deck,        \* the items the first scan has come by
  scan,        \* enabledTypes: "Int" or "Double"
  next,        \* where the scan is
  properties,  \* m_intGridProperties and m_doubleGridProperties
  inputBox,    \* BoxManager::m_inputBox
  keywordBox,  \* BoxManager::m_keywordBox
  phase        \* "scanning", "complete", "thrown", or "asserted": stopped
               \* by an assertion of the initializer

boxVars == <<inputBox, keywordBox>>
vars == <<deck, scan, next, properties, inputBox, keywordBox, phase>>

Kind(kw) ==
  IF kw \in IntKeyword THEN "Int" ELSE IF kw \in DoubleKeyword THEN "Double" ELSE "None"

Init ==
  /\ deck = << >>
  /\ scan = "Int"
  /\ next = 1
  /\ properties = [kw \in {} |-> 0]
  /\ inputBox = NoBox
  /\ keywordBox = NoBox
  /\ phase = "scanning"
-----------------------------------------------------------------------------
(* Boxes are in numbers of the deck, which count from 1.                   *)
Box == [i1 : Int, i2 : Int, j1 : Int, j2 : Int, k1 : Int, k2 : Int]

(* What the deck has in its items: names of properties, numbers for what   *)
(* they are given, numbers for a box, or their defaults; and what there is *)
(* in a table of depths.                                                   *)
ASSUME ItemAssumption ==
  \A item \in Item :
    /\ item.kind = "LOAD" =>
         item.name \in Keyword /\ item.values \in Seq(Int \union {Defaulted})
    /\ item.kind = "BOX" => item.box \in Box
    /\ item.kind \in {"ADD", "MULTIPLY", "EQUALS"} => item.value \in Int
    /\ item.kind \in {"ADD", "MULTIPLY", "EQUALS", "COPY"} =>
         item.box \in {NoBox, PartialBox} \union Box

ASSUME DepthAssumption ==
  \A tables \in {EnptvdTables, ImptvdTables} : tables # << >> =>
    \A family \in Family :
      tables[1][DepthColumn[family]] \in [Cell -> Int \union {NaN}]

GlobalBox == [i1 |-> 1, i2 |-> NX, j1 |-> 1, j2 |-> NY, k1 |-> 1, k2 |-> NZ]

BoxFits(b) ==
  /\ 1 <= b.i1 /\ b.i1 <= b.i2 /\ b.i2 <= NX
  /\ 1 <= b.j1 /\ b.j1 <= b.j2 /\ b.j2 <= NY
  /\ 1 <= b.k1 /\ b.k1 <= b.k2 /\ b.k2 <= NZ

BoxDim(b) == <<b.i2 - b.i1 + 1, b.j2 - b.j1 + 1, b.k2 - b.k1 + 1>>

BoxSize(b) == BoxDim(b)[1] * BoxDim(b)[2] * BoxDim(b)[3]

(* The cells of a box, i first; a mistake has the stride of the box.       *)
IndexListOfBoxStride(b) ==
  [l \in 1 .. BoxSize(b) |->
     LET ii == (l - 1) % BoxDim(b)[1]
         ij == ((l - 1) \div BoxDim(b)[1]) % BoxDim(b)[2]
         ik == (l - 1) \div (BoxDim(b)[1] * BoxDim(b)[2])
     IN (b.i1 - 1 + ii) + (b.j1 - 1 + ij) * BoxDim(b)[1]
          + (b.k1 - 1 + ik) * BoxDim(b)[1] * BoxDim(b)[2]]

IndexList(b) ==
  [l \in 1 .. BoxSize(b) |->
     LET ii == (l - 1) % BoxDim(b)[1]
         ij == ((l - 1) \div BoxDim(b)[1]) % BoxDim(b)[2]
         ik == (l - 1) \div (BoxDim(b)[1] * BoxDim(b)[2])
     IN (b.i1 - 1 + ii) + (b.j1 - 1 + ij) * NX + (b.k1 - 1 + ik) * NX * NY]

ActiveBox(input, keyword) ==
  IF keyword # NoBox THEN keyword ELSE IF input # NoBox THEN input ELSE GlobalBox

(* setKeywordBox(): a record without a box leaves the one of the record    *)
(* before, which is taken back only at the end of the keyword.             *)
BoxRefused(b) == b = PartialBox \/ (b \notin {NoBox, PartialBox} /\ ~ BoxFits(b))

KeywordBoxAfter(b) == IF b = NoBox THEN keywordBox ELSE b
-----------------------------------------------------------------------------
(* static_cast<int>: toward zero, and no longer in parts of one. *)
Truncated(x) == IF x < 0 THEN -((-x) \div Unit) ELSE x \div Unit

Plus(x, y) == IF x = NaN THEN NaN ELSE x + y

(* Of two numbers in parts of one. *)
Times(x, y) == IF x = NaN THEN NaN ELSE (x * y) \div Unit

(* What a number of the deck is in a property: a whole number, or one in   *)
(* SI units.                                                               *)
Stored(kw, x) == IF Kind(kw) = "Int" THEN Truncated(x) ELSE x * SIScaling[kw]

(* The data with value(c) in the cells of a box: for the global one all    *)
(* cells are taken, for another those of its list.                         *)
SetInBox(data, b, value(_)) ==
  IF BoxSize(b) = BoxSize(GlobalBox)
    THEN [c \in Cell |-> value(c)]
    ELSE [c \in Cell |-> IF c \in Range(IndexList(b)) THEN value(c) ELSE data[c]]

Regions == [kw \in IntKeyword \intersect DOMAIN properties |-> properties[kw]]

(* The data a property begins with.                                        *)
InitialData(kw, regions) ==
  IF kw \in IntKeyword THEN [c \in Cell |-> 1]
  ELSE IF kw \in EndpointKeyword THEN EndpointDefault(regions, kw, Cell)
  ELSE [c \in Cell |-> ConstantDefault[kw]]

(* getKeyword() makes the properties that are not there yet. *)
WithKeyword(props, kw, regions) ==
  [k \in DOMAIN props \union {kw} |->
     IF k \in DOMAIN props THEN props[k] ELSE InitialData(k, regions)]

LooksUp(kw) == kw \notin DOMAIN properties /\ kw \in EndpointKeyword

CannotBegin(kw) == LooksUp(kw) /\ NotEnoughTables(kw)

Asserts(kw) == LooksUp(kw) /\ ~ AssertionsHold(Regions, Cell)

(* The properties once kw has been changed to data(its data so far). *)
Changed(props, kw, regions, data(_)) ==
  [WithKeyword(props, kw, regions) EXCEPT ![kw] = data(@)]
-----------------------------------------------------------------------------
(* The values of a keyword go to the cells of the box in their order, and  *)
(* those that are missing or defaulted leave the cell alone.               *)
Loaded(data, kw, values, b) ==
  [c \in Cell |->
     IF \E l \in DOMAIN IndexList(b) \intersect DOMAIN values :
          IndexList(b)[l] = c /\ values[l] # Defaulted
       THEN LET l == CHOOSE l \in DOMAIN IndexList(b) : IndexList(b)[l] = c
            IN Stored(kw, values[l])
       ELSE data[c]]

(* What a record of ADD, MULTIPLY or EQUALS makes of the data in a box.    *)
Operated(op, data, kw, x, b) ==
  LET new(c) == CASE op = "EQUALS" -> Stored(kw, x)
                  [] op = "ADD" -> Plus(data[c], Stored(kw, x))
                  [] op = "MULTIPLY" ->
                       IF Kind(kw) = "Int" THEN data[c] * Truncated(x) ELSE Times(data[c], x)
  IN SetInBox(data, b, new)

Copied(data, source, b) == LET of(c) == source[c] IN SetInBox(data, b, of)
-----------------------------------------------------------------------------
Goes == next' = next + 1 /\ UNCHANGED <<scan, phase>>

Stops(how) == phase' = how /\ UNCHANGED <<scan, next, properties, inputBox, keywordBox>>

(* A keyword with a property's own values: its type is not for this scan,  *)
(* or it is loaded into the active box.                                    *)
PassBy(item) ==
  /\ item.kind = "LOAD"
  /\ Kind(item.name) # scan
  /\ Goes
  /\ keywordBox' = NoBox
  /\ UNCHANGED <<properties, inputBox>>

Load(item) ==
  /\ item.kind = "LOAD"
  /\ Kind(item.name) = scan
  /\ ~ CannotBegin(item.name) /\ ~ Asserts(item.name)
  /\ Len(item.values) <= BoxSize(GlobalBox)
  /\ LET data(d) == Loaded(d, item.name, item.values, ActiveBox(inputBox, keywordBox))
     IN properties' = Changed(properties, item.name, Regions, data)
  /\ Goes
  /\ UNCHANGED boxVars

BoxKeyword(item) ==
  /\ item.kind = "BOX"
  /\ BoxFits(item.box)
  /\ inputBox' = item.box
  /\ keywordBox' = NoBox
  /\ Goes
  /\ UNCHANGED properties

EndBoxKeyword(item) ==
  /\ item.kind = "ENDBOX"
  /\ keywordBox = NoBox
  /\ inputBox' = NoBox
  /\ Goes
  /\ UNCHANGED <<properties, keywordBox>>

(* A record of ADD or MULTIPLY changes a property that is there; for one   *)
(* that is not it does nothing.  A mistake does not ask for the type.      *)
ShiftOrScaleInBothScans(item) ==
  /\ item.kind \in {"ADD", "MULTIPLY"}
  /\ item.field \in Keyword
  /\ ~ BoxRefused(item.box)
  /\ keywordBox' = KeywordBoxAfter(item.box)
  /\ IF item.field \in DOMAIN properties
       THEN LET data(d) == Operated(item.kind, d, item.field, item.value,
                                    ActiveBox(inputBox, keywordBox'))
            IN properties' = Changed(properties, item.field, Regions, data)
       ELSE UNCHANGED properties
  /\ Goes
  /\ UNCHANGED inputBox

ShiftOrScale(item) ==
  /\ item.kind \in {"ADD", "MULTIPLY"}
  /\ item.field \in Keyword
  /\ ~ BoxRefused(item.box)
  /\ keywordBox' = KeywordBoxAfter(item.box)
  /\ IF item.field \in DOMAIN properties /\ Kind(item.field) = scan
       THEN LET data(d) == Operated(item.kind, d, item.field, item.value,
                                    ActiveBox(inputBox, keywordBox'))
            IN properties' = Changed(properties, item.field, Regions, data)
       ELSE UNCHANGED properties
  /\ Goes
  /\ UNCHANGED inputBox

(* EQUALS makes the property if it is not there. *)
Equals(item) ==
  /\ item.kind = "EQUALS"
  /\ item.field \in Keyword
  /\ ~ BoxRefused(item.box)
  /\ keywordBox' = KeywordBoxAfter(item.box)
  /\ IF Kind(item.field) = scan
       THEN /\ ~ CannotBegin(item.field) /\ ~ Asserts(item.field)
            /\ LET data(d) == Operated("EQUALS", d, item.field, item.value,
                                       ActiveBox(inputBox, keywordBox'))
               IN properties' = Changed(properties, item.field, Regions, data)
       ELSE UNCHANGED properties
  /\ Goes
  /\ UNCHANGED inputBox

(* COPY makes the target, which has to be of the type of the source.       *)
Copy(item) ==
  /\ item.kind = "COPY"
  /\ item.source \in Keyword
  /\ ~ BoxRefused(item.box)
  /\ keywordBox' = KeywordBoxAfter(item.box)
  /\ IF item.source \in DOMAIN properties /\ Kind(item.source) = scan
       THEN /\ Kind(item.target) = scan
            /\ ~ CannotBegin(item.target) /\ ~ Asserts(item.target)
            /\ LET data(d) == Copied(d, properties[item.source],
                                     ActiveBox(inputBox, keywordBox'))
               IN properties' = Changed(properties, item.target, Regions, data)
       ELSE UNCHANGED properties
  /\ Goes
  /\ UNCHANGED inputBox

(* BoxManager::endKeyword(); a mistake leaves the box. *)
EndKeywordKeepsBox(item) ==
  /\ item.kind = "/"
  /\ Goes
  /\ UNCHANGED <<properties, inputBox, keywordBox>>

EndKeyword(item) ==
  /\ item.kind = "/"
  /\ keywordBox' = NoBox
  /\ Goes
  /\ UNCHANGED <<properties, inputBox>>

(* The next section, with a box manager of its own.                        *)
NextSection(item) ==
  /\ item.kind = "section"
  /\ keywordBox = NoBox
  /\ inputBox' = NoBox
  /\ Goes
  /\ UNCHANGED <<properties, keywordBox>>
-----------------------------------------------------------------------------
(* The property whose initializer runs when the item is scanned, if any.   *)
Begins(item) ==
  CASE item.kind = "LOAD" /\ Kind(item.name) = scan -> {item.name}
    [] item.kind = "EQUALS" /\ Kind(item.field) = scan -> {item.field}
    [] item.kind = "COPY" /\ item.source \in DOMAIN properties
         /\ Kind(item.source) = scan /\ Kind(item.target) = scan -> {item.target}
    [] OTHER -> {}

(* What the handlers refuse. *)
Refused(item) ==
  \/ /\ item.kind = "LOAD" /\ Kind(item.name) = scan
     /\ ~ Asserts(item.name) /\ Len(item.values) > BoxSize(GlobalBox)
  \/ item.kind \in {"ENDBOX", "section"} /\ keywordBox # NoBox
  \/ item.kind = "BOX" /\ ~ BoxFits(item.box)
  \/ item.kind \in {"ADD", "MULTIPLY", "EQUALS"}
       /\ (BoxRefused(item.box) \/ item.field \notin Keyword)
  \/ /\ item.kind = "COPY"
     /\ \/ BoxRefused(item.box) \/ item.source \notin Keyword
        \/ /\ item.source \in DOMAIN properties /\ Kind(item.source) = scan
           /\ Kind(item.target) # scan

ScanThrows(item) ==
  /\ Refused(item) \/ \E kw \in Begins(item) : CannotBegin(kw) /\ ~ Asserts(kw)
  /\ Stops("thrown")

(* An assertion is in the way of everything that apply() does. *)
ScanAsserts(item) ==
  /\ ~ (item.kind \in {"EQUALS", "COPY"} /\ BoxRefused(item.box))
  /\ \E kw \in Begins(item) : Asserts(kw)
  /\ Stops("asserted")

Handle(item) ==
  \/ PassBy(item) \/ Load(item) \/ BoxKeyword(item) \/ EndBoxKeyword(item)
  \/ ShiftOrScale(item) \/ Equals(item) \/ Copy(item) \/ EndKeyword(item)
  \/ NextSection(item) \/ ScanThrows(item) \/ ScanAsserts(item)

(* A keyword goes on with records of its own kind until it ends. *)
Record == {"ADD", "MULTIPLY", "EQUALS", "COPY"}

MayFollow(item) ==
  LET open == deck # << >> /\ Last(deck).kind \in Record
  IN /\ open => item.kind \in {Last(deck).kind, "/"}
     /\ item.kind = "/" => open

FirstScan ==
  /\ scan = "Int"
  /\ Len(deck) < MaxItems
  /\ \E item \in Item :
       /\ MayFollow(item)
       /\ deck' = Append(deck, item)
       /\ Handle(item)

SecondScan ==
  /\ scan = "Double"
  /\ next <= Len(deck)
  /\ Handle(deck[next])
  /\ UNCHANGED deck

(* The end of the last section, of the first scan or of both. *)
EndOfDeck ==
  /\ scan = "Double" => next > Len(deck)
  /\ deck # << >> => Last(deck).kind \notin Record
  /\ IF scan = "Int" THEN scan' = "Double" /\ next' = 1 /\ UNCHANGED phase
                     ELSE phase' = "complete" /\ UNCHANGED <<scan, next>>
  /\ inputBox' = NoBox
  /\ keywordBox' = NoBox
  /\ UNCHANGED <<deck, properties>>

Next ==
  /\ phase = "scanning"
  /\ FirstScan \/ SecondScan \/ EndOfDeck

Spec == Init /\ [][Next]_vars
-----------------------------------------------------------------------------
Number == Int \union {NaN}

TypeOK ==
  /\ deck \in Seq(Item)
  /\ scan \in {"Int", "Double"}
  /\ next \in 1 .. Len(deck) + 1
  /\ DOMAIN properties \subseteq Keyword
  /\ \A kw \in DOMAIN properties :
       properties[kw] \in [Cell -> IF kw \in IntKeyword THEN Int ELSE Number]
  /\ inputBox \in Box \union {NoBox}
  /\ keywordBox \in Box \union {NoBox}
  /\ phase \in {"scanning", "complete", "thrown", "asserted"}
-----------------------------------------------------------------------------
(* The box the deck asks for at item i, read off the deck alone: the last  *)
(* one a record of the same keyword has given, or else the last BOX since  *)
(* its section began and that no ENDBOX has taken back.                    *)
LastBefore(i, P(_)) ==
  LET before == {j \in 1 .. i - 1 : P(deck[j])}
  IN IF before = {} THEN 0 ELSE CHOOSE j \in before : \A k \in before : k <= j

InputBoxAt(i) ==
  LET last == LastBefore(i, LAMBDA item : item.kind \in {"BOX", "ENDBOX", "section"})
  IN IF last > 0 /\ deck[last].kind = "BOX" THEN deck[last].box ELSE NoBox

KeywordBoxAt(i) ==
  LET last == LastBefore(i, LAMBDA item :
                item.kind \notin Record \/ item.box # NoBox)
  IN IF last > 0 /\ deck[last].kind \in Record THEN deck[last].box ELSE NoBox

(* At every place of either scan the boxes are the ones the deck asks for: *)
(* none is left over from another keyword, section or scan                 *)
(* (BoxManager.cpp:46-78 and EclipseState.cpp:640-673).                    *)
BoxesFollowTheDeck ==
  phase = "scanning" =>
    /\ inputBox = InputBoxAt(next)
    /\ keywordBox = KeywordBoxAt(next)

(* What a deck means if it is read once, with all keywords in their order  *)
(* and with the regions it ends with for the lookups.                      *)
Meant(props, item, b, regions) ==
  CASE item.kind = "LOAD" ->
         LET data(d) == Loaded(d, item.name, item.values, b)
         IN Changed(props, item.name, regions, data)
    [] item.kind = "EQUALS" \/ (item.kind \in {"ADD", "MULTIPLY"} /\ item.field \in DOMAIN props) ->
         LET data(d) == Operated(item.kind, d, item.field, item.value, b)
         IN Changed(props, item.field, regions, data)
    [] item.kind = "COPY" /\ item.source \in DOMAIN props ->
         LET data(d) == Copied(d, props[item.source], b)
         IN Changed(props, item.target, regions, data)
    [] OTHER -> props

(* The box item i is about. *)
BoxAt(i) ==
  LET own == IF deck[i].kind \in Record THEN deck[i].box ELSE NoBox
  IN ActiveBox(InputBoxAt(i), IF own # NoBox THEN own ELSE KeywordBoxAt(i))

MeaningOfDeck ==
  LET meaning[i \in 0 .. Len(deck)] ==
        IF i = 0 THEN [kw \in {} |-> 0]
        ELSE Meant(meaning[i - 1], deck[i], BoxAt(i), Regions)
  IN meaning[Len(deck)]

(* Two scans do what one would: every item has acted on the properties     *)
(* exactly once, in the order of the deck, and the lookups have seen the   *)
(* regions as the whole deck leaves them (EclipseState.cpp:601-604, "first *)
(* process all integer grid properties").                                  *)
AsIfInOneScan == phase = "complete" => properties = MeaningOfDeck

InBox(c, b) ==
  /\ c % NX \in b.i1 - 1 .. b.i2 - 1
  /\ (c \div NX) % NY \in b.j1 - 1 .. b.j2 - 1
  /\ c \div (NX * NY) \in b.k1 - 1 .. b.k2 - 1

(* No cell outside the box of an item changes in a property that is there, *)
(* whatever boxes came before (Box.cpp:111-130, GridProperty.hpp:144-220). *)
OnlyTheBoxChanges ==
  [][\A i \in 1 .. MaxItems, kw \in DOMAIN properties, c \in Cell :
       i = next /\ properties'[kw][c] # properties[kw][c] => InBox(c, BoxAt(i)')]_vars

(* What the second scan may build on: it changes no region.                *)
RegionsAreFinal == [][scan = "Double" => Regions' = Regions]_vars

(* Every cell has a saturation table if SATNUM and IMBNUM name tables that *)
(* there are: the assertions of the initializer                            *)
(* (GridPropertyInitializers.hpp:202-203) hold.                            *)
SaturationTablesExist ==
  (\A kw \in {"SATNUM", "IMBNUM"} \intersect DOMAIN Regions, c \in Cell :
     Regions[kw][c] \in SaturationTable)
  => phase # "asserted"
=============================================================================
