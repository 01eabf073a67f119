----------------------------- MODULE DeckState ------------------------------
(***************************************************************************)
(* What the constructor of EclipseState makes of a deck before it walks    *)
(* over the schedule: a strict reading tests the order of the sections,    *)
(* then come the phases, one kind of table after the other, and the grid.  *)
(* An exception ends the construction wherever it is thrown.               *)
(***************************************************************************)
EXTENDS Tables, EclipseGrid

CONSTANT Deck  \* the decks: sequences of keywords, [name, records]

SimpleKind ==
  <<"ENKRVD", "ENPTVD", "IMKRVD", "IMPTVD", "PLYADS", "PLYMAX", "PLYROCK", "PLYVISC",
    "PVDG", "PVDO", "RSVD", "RVVD", "SGOF", "SWOF", "TLMIXPAR">>

TableOrder == SimpleKind \o <<"ROCKTAB", "PVTG", "PVTO">>

(* A deck is a sequence; the size of a grid is positive, the numbers that  *)
(* say how thick its layers are and where they begin are given, and the    *)
(* records of tables are sequences of items with values.                   *)
ASSUME DeckAssumption ==
  \A d \in Deck :
    /\ d \in Seq(Range(d))
    /\ \A i \in DOMAIN d :
         /\ d[i].name \in {"DIMENS", "SPECGRID"} => GetDims(d[i]) \in [1 .. 3 -> Nat \ {0}]
         /\ d[i].name \in {"DZ", "DZV", "TOPS"} => SIDoubleData(d[i]) \in Seq(Int)
         /\ d[i].name \in Range(TableOrder) => d[i].records \in Seq(Seq(Seq(Value)))

PhaseName == {"OIL", "GAS", "WATER"}

VARIABLES
  deck,    \* the deck that was parsed
  strict,  \* beStrict
  stage,   \* "sections", "phases", "tables", "grid", "done",
           \* "invalid" (its sections are refused) or "thrown"
  todo,    \* the kinds of tables still to be looked for
  phases,  \* EclipseState::phases
  tables,  \* the tables of each kind
  grid     \* m_eclipseGrid

vars == <<deck, strict, stage, todo, phases, tables, grid>>

Init ==
  /\ deck \in Deck
  /\ strict \in BOOLEAN
  /\ stage = "sections"
  /\ todo = {kind \in Range(TableOrder) : HasKeyword(deck, kind)}
  /\ phases = {}
  /\ tables = [kind \in Range(TableOrder) |-> << >>]
  /\ grid = NoGrid

CheckTopology ==
  /\ stage = "sections"
  /\ stage' = IF strict /\ ~ CheckSectionTopology(deck) THEN "invalid" ELSE "phases"
  /\ UNCHANGED <<deck, strict, todo, phases, tables, grid>>

InitPhases ==
  /\ stage = "phases"
  /\ phases' = {p \in PhaseName : HasKeyword(deck, p)}
  /\ stage' = IF todo = {} THEN "grid" ELSE "tables"
  /\ UNCHANGED <<deck, strict, todo, tables, grid>>

(* A keyword of tables may be given once, and a table that is refused      *)
(* leaves nothing.                                                         *)
Installed(kind, made) ==
  IF NumKeywords(deck, kind) > 1 \/ \E i \in DOMAIN made : made[i] = Refused
    THEN stage' = "thrown" /\ UNCHANGED <<todo, tables>>
    ELSE /\ tables' = [tables EXCEPT ![kind] = made]
         /\ todo' = todo \ {kind}
         /\ stage' = IF todo = {kind} THEN "grid" ELSE "tables"

(* Kind after kind, in the order in which initTables() looks for them. *)
NextKind == TableOrder[Min({i \in DOMAIN TableOrder : TableOrder[i] \in todo})]

TableRecords(kind) == GetKeyword(deck, kind).records

InitSimpleTables ==
  /\ stage = "tables" /\ NextKind \in Range(SimpleKind)
  /\ Installed(NextKind, SimpleTables(SimpleTable[NextKind], TableRecords(NextKind)))
  /\ UNCHANGED <<deck, strict, phases, grid>>

(* The copy of a table to the place behind the last one (line 348) is not  *)
(* reached: the first table is always refused.                             *)
RocktabKind ==
  RocktabTable(HasKeyword(deck, "RKTRMDIR"),
               HasKeyword(deck, "ROCKOPTS") /\ TableRecords("ROCKOPTS")[1][1][1] = "STRESS")

InitRocktabTables ==
  /\ stage = "tables" /\ NextKind = "ROCKTAB"
  /\ Installed("ROCKTAB", SimpleTables(RocktabKind, TableRecords("ROCKTAB")))
  /\ UNCHANGED <<deck, strict, phases, grid>>

InitFullTables ==
  /\ stage = "tables" /\ NextKind \in DOMAIN FullTable
  /\ Installed(NextKind, FullTables(FullTable[NextKind], TableRecords(NextKind)))
  /\ UNCHANGED <<deck, strict, phases, grid>>

InitEclipseGrid ==
  /\ stage = "grid"
  /\ grid' = MakeGrid(deck)
  /\ stage' = IF MakeGrid(deck) = NoGrid THEN "thrown" ELSE "done"
  /\ UNCHANGED <<deck, strict, todo, phases, tables>>

Next ==
  \/ CheckTopology \/ InitPhases
  \/ InitSimpleTables \/ InitRocktabTables \/ InitFullTables
  \/ InitEclipseGrid

Spec == Init /\ [][Next]_vars
-----------------------------------------------------------------------------
Stage == {"sections", "phases", "tables", "grid", "done", "invalid", "thrown"}

(* A table has its columns, of one length, and no value is left defaulted  *)
(* but in SWMAX.                                                           *)
IsTable(kind, table) ==
  /\ DOMAIN table = Range(kind.columns)
  /\ \A c \in DOMAIN table :
       /\ table[c] \in Seq(Value)
       /\ Len(table[c]) = Len(table[kind.columns[1]])
       /\ c # "SWMAX" => \A r \in DOMAIN table[c] : ~ table[c][r].defaulted /\ table[c][r].si \in Int

IsFullTable(kind, table) ==
  /\ IsTable(kind.outer, table.outer)
  /\ \A r \in DOMAIN table.inner : IsTable(kind.inner, table.inner[r])

(* Every table that is there is whole: Tables/*.hpp and EclipseState.hpp.  *)
TypeOK ==
  /\ strict \in BOOLEAN /\ stage \in Stage
  /\ phases \subseteq PhaseName
  /\ \A kind \in Range(SimpleKind) : \A i \in DOMAIN tables[kind] :
       IsTable(SimpleTable[kind], tables[kind][i])
  /\ \A kind \in DOMAIN FullTable : \A i \in DOMAIN tables[kind] :
       IsFullTable(FullTable[kind], tables[kind][i])

(* The sections of a deck, one behind the other in the order of the file   *)
(* format, with what cannot be left out.                                   *)
InSections(d) ==
  Section(d, "RUNSPEC") \o Section(d, "GRID") \o Section(d, "EDIT") \o Section(d, "PROPS")
    \o Section(d, "REGIONS") \o Section(d, "SOLUTION") \o Section(d, "SUMMARY")
    \o Section(d, "SCHEDULE")

(* A strict reading goes on exactly if the deck is its sections, so that   *)
(* every keyword is in the section that is later scanned for it:           *)
(* Section.cpp tests the order in one place and cuts in another.           *)
SectionsCoverTheDeck ==
  strict /\ stage # "sections" =>
    (stage # "invalid" <=>
       /\ InSections(deck) = deck
       /\ \A name \in {"RUNSPEC", "GRID", "PROPS", "SOLUTION", "SCHEDULE"} :
            Section(deck, name) # NoSection)

(* The values a record gives, whatever was defaulted. *)
Says(value, cell) == ~ cell.defaulted => value.si = cell.si

RowSays(kind, table, r, cells) ==
  \A c \in DOMAIN kind.columns : Says(table[kind.columns[c]][r], cells[c])

(* Simple tables: the record of table i, or the last one before it that is *)
(* not empty.  The getters of PLYADS and PLYVISC return the first column   *)
(* for the second (PlyadsTable.hpp:65), and are left out.                  *)
SimpleFollows(kind, made, records) ==
  /\ Len(made) = Len(records)
  /\ \A i \in DOMAIN made :
       LET source == Max({j \in 1 .. i : records[j][1] # << >>})
           flat == FlattenSeq(records[source])
           n == Len(kind.columns)
       IN \A r \in 1 .. Len(flat) \div n :
            RowSays(kind, made[i], r, SubSeq(flat, (r - 1) * n + 1, r * n))

(* Full tables: the records that are not empty, in their order, are the    *)
(* rows of the tables, in theirs.                                          *)
FullFollows(kind, made, records) ==
  LET given == SelectSeq(records, LAMBDA record : ~ Separates(record))
      rows == FlattenSeq([t \in DOMAIN made |-> [r \in DOMAIN made[t].inner |-> <<t, r>>]])
      m == Len(kind.inner.columns)
  IN /\ Len(rows) = Len(given)
     /\ \A i \in DOMAIN rows :
          LET table == made[rows[i][1]]
              r == rows[i][2]
              flat == FlattenSeq(given[i])
          IN /\ RowSays(kind.outer, table.outer, r, flat)
             /\ \A q \in 1 .. (Len(flat) - 1) \div m :
                  RowSays(kind.inner, table.inner[r], q, SubSeq(flat, (q - 1) * m + 2, q * m + 1))

(* What the deck says is what is in the tables: the walks over empty       *)
(* records in EclipseState::initSimpleTables() and MultiRecordTable.       *)
TablesFollowRecords ==
  \A kind \in DOMAIN tables :
    tables[kind] # << >> =>
      IF kind \in Range(SimpleKind)
        THEN SimpleFollows(SimpleTable[kind], tables[kind], TableRecords(kind))
        ELSE FullFollows(FullTable[kind], tables[kind], TableRecords(kind))

(* What a defaulted value must be, from the values that were given: on the *)
(* line through the two around it, or the only one next to it.             *)
Fits(xs, ys, r, given) ==
  LET before == {q \in given : q < r}
      after == {q \in given : q > r}
      b == Max(before)
      a == Min(after)
  IN CASE before = {} -> ys[r].si = ys[a].si
       [] after = {} -> ys[r].si = ys[b].si
       [] OTHER -> (ys[r].si - ys[b].si) * (xs[a].si - xs[b].si)
                     = (ys[a].si - ys[b].si) * (xs[r].si - xs[b].si)

(* Rows that were filled in do not pull the ones after them off the line:  *)
(* SingleRecordTable::applyDefaultsLinear() fills them one by one.         *)
DefaultsLieOnLines ==
  \A kind \in Range(SimpleKind) \ {"PLYROCK", "TLMIXPAR"} : \A i \in DOMAIN tables[kind] :
    LET columns == SimpleTable[kind].columns
        table == tables[kind][i]
        records == TableRecords(kind)
        flat == FlattenSeq(records[Max({j \in 1 .. i : records[j][1] # << >>})])
        cell(r, c) == flat[(r - 1) * Len(columns) + c]
    IN \A c \in DOMAIN columns :
         LET ys == table[columns[c]]
             given == {r \in DOMAIN ys : ~ cell(r, c).defaulted}
         IN columns[c] # "SWMAX" =>
              \A r \in DOMAIN ys \ given : Fits(table[columns[1]], ys, r, given)

(* The value at x: that of the nearest row outside, and inside on the line *)
(* between the two rows around it.                                         *)
Interpolates(xs, ys, x, result) ==
  LET n == Len(xs)
      value(r) == result[1] = ys[r].si * result[2]
      between(r) == xs[r].si = x \/ xs[r + 1].si = x \/ (xs[r].si < x) = (x < xs[r + 1].si)
      chord(r) == (result[1] - ys[r].si * result[2]) * (xs[r + 1].si - xs[r].si)
                    = result[2] * (ys[r + 1].si - ys[r].si) * (x - xs[r].si)
      outside == \A r \in 1 .. n - 1 : ~ between(r)
      nearest == IF (x < xs[1].si) = (xs[1].si < xs[n].si) THEN 1 ELSE n
  IN /\ result[2] # 0
     /\ outside => value(nearest)
     /\ \A r \in 1 .. n - 1 : between(r) => chord(r)

(* Halving finds the right interval, whichever way the first column goes:  *)
(* SingleRecordTable::evaluate().  A table of one row is read behind its   *)
(* end (SingleRecordTable.cpp:124) and is left out.                        *)
EvaluatedRight(kind, table, xs) ==
  Len(table[kind.columns[1]]) > 1 =>
    \A c \in Range(kind.columns) \ {"SWMAX"}, x \in xs :
      Interpolates(table[kind.columns[1]], table[c], x, Evaluate(kind, table, c, x))

EvaluateInterpolates ==
  LET probes == -1 .. 7
  IN /\ \A kind \in Range(SimpleKind) : \A i \in DOMAIN tables[kind] :
          SimpleTable[kind].evaluated => EvaluatedRight(SimpleTable[kind], tables[kind][i], probes)
     /\ \A kind \in DOMAIN FullTable : \A i \in DOMAIN tables[kind] :
          \A r \in DOMAIN tables[kind][i].inner :
            EvaluatedRight(FullTable[kind].inner, tables[kind][i].inner[r], probes)

(* The layer of a cell, and the cell of its column in a layer. *)
LayerOf(dims, c) == (c - 1) \div Area(dims) + 1

CellAt(dims, c, layer) == ((c - 1) % Area(dims)) + 1 + (layer - 1) * Area(dims)

ColumnTo(dims, c) == {CellAt(dims, c, layer) : layer \in 1 .. LayerOf(dims, c)}

(* What the deck says of the thickness of a cell: that of its layer, or of *)
(* the lowest cell given that is not below it.                             *)
Thickness(d, dims, c) ==
  LET dz == GetSIDoubleData(d, "DZ")
  IN IF HasKeyword(d, "DZ") THEN dz[Max({o \in ColumnTo(dims, c) : o <= Len(dz)})]
     ELSE GetSIDoubleData(d, "DZV")[LayerOf(dims, c)]

(* The thickness of all cells above a cell. *)
ThicknessAbove(d, dims, c) ==
  LET down[layer \in 1 .. LayerOf(dims, c)] ==
        IF layer = 1 THEN 0
        ELSE down[layer - 1] + Thickness(d, dims, CellAt(dims, c, layer - 1))
  IN down[LayerOf(dims, c)]

Stacked(d, dims, shape) ==
  /\ \A f \in {"dx", "dy", "dz", "tops"} : DOMAIN shape[f] = 1 .. Volume(dims)
  /\ \A c \in 1 .. Volume(dims) :
       /\ shape.dz[c] = Thickness(d, dims, c)
       /\ Len(GetSIDoubleData(d, "TOPS")) = Area(dims) =>
            shape.tops[c] = shape.tops[CellAt(dims, c, 1)] + ThicknessAbove(d, dims, c)

(* Where a cell lies: below the cells of its column, all layers of which   *)
(* are as thick as the deck says, the lowest one given for those below it. *)
(* EclipseGrid::createTOPSVector(), createDVector() and scatterDim().      *)
CellsAreStacked ==
  grid # NoGrid /\ grid.shape.geometry = "tops" => Stacked(deck, grid.dims, grid.shape)

(* RocktabTable.hpp:34-37, EclipseState.cpp:175-176: the keyword ROCKTAB   *)
(* is read, with the columns that RKTRMDIR asks for.  Here, a table whose  *)
(* values are all given and fall as they must.                             *)
RocktabIsRead ==
  LET n == IF HasKeyword(deck, "RKTRMDIR") THEN 5 ELSE 3
      flat == FlattenSeq(TableRecords("ROCKTAB")[1])
      whole == /\ Len(TableRecords("ROCKTAB")) = 1
               /\ flat # << >> /\ Len(flat) % n = 0
               /\ \A i \in DOMAIN flat : ~ flat[i].defaulted
               /\ \A i, j \in DOMAIN flat : i % n = 1 /\ j % n = 1 /\ i < j => flat[i].si > flat[j].si
  IN stage = "thrown" /\ todo # {} /\ NextKind = "ROCKTAB" =>
       ~ (NumKeywords(deck, "ROCKTAB") = 1 /\ ~ HasKeyword(deck, "ROCKOPTS") /\ whole)
=============================================================================
