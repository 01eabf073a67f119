------------------------------- MODULE Tables -------------------------------
(***************************************************************************)
(* The tables of the PROPS and SOLUTION sections: how a record, or a run   *)
(* of records, becomes columns (SingleRecordTable, MultiRecordTable and    *)
(* FullTable), what each kind of table asks of its columns and fills in,   *)
(* and how a table is evaluated.                                           *)
(*                                                                         *)
(* A record is a sequence of items and an item a sequence of values, each  *)
(* in SI units and with the flag that says it was defaulted; one that is   *)
(* given is a number.  Values are whole numbers, in decks where every      *)
(* interpolated value is whole.                                            *)
(***************************************************************************)
EXTENDS Integers, SequencesExt, FiniteSetsExt

CONSTANT NaN  \* a defaulted value of an item that has no default

ASSUME NaNAssumption == NaN \notin Int

Value ==
  [si : Int, defaulted : {FALSE}] \union [si : Int \union {NaN}, defaulted : {TRUE}]

(* What a constructor that throws leaves: no table at all. *)
Refused == << >>

ColumnNo(names, name) == CHOOSE c \in DOMAIN names : names[c] = name
-----------------------------------------------------------------------------
(* SingleRecordTable::init(): the values of a record, behind the first     *)
(* offset ones, row by row.                                                *)
SingleRecord(names, record, offset) ==
  LET flat == FlattenSeq(record)
      n == Len(names)
      size == Len(flat) - offset
  IN IF size < 0 \/ size % n # 0 THEN Refused
     ELSE [name \in Range(names) |->
             [r \in 1 .. size \div n |-> flat[(r - 1) * n + offset + ColumnNo(names, name)]]]

(* MultiRecordTable::getNumFlatItems() stops at an item without a value or *)
(* with a defaulted one: a record that begins so counts as an empty one,   *)
(* which stands between two tables.                                        *)
NumFlatItems(record) ==
  LET starts(i) == \A j \in 1 .. i : record[j] # << >> /\ ~ record[j][1].defaulted
      items == Max({i \in 0 .. Len(record) : starts(i)})
  IN Len(FlattenSeq(SubSeq(record, 1, items)))

Separates(record) == NumFlatItems(record) = 0

NumTables(records) == 1 + Quantify(DOMAIN records, LAMBDA i : Separates(records[i]))

(* The number of records before the first one of the t-th table; a mistake *)
(* stops at the record that ends the table before it.                      *)
FirstRecordIdxAtTheEnd(records, t) ==
  Max({i \in 0 .. Len(records) : Quantify(1 .. i, LAMBDA j : Separates(records[j])) < t - 1}
        \union {0})

FirstRecordIdx(records, t) ==
  Min({i \in 0 .. Len(records) : Quantify(1 .. i, LAMBDA j : Separates(records[j])) = t - 1})

NumRecords(records, first) ==
  Max({n \in 0 .. Len(records) - first : \A r \in 1 .. n : ~ Separates(records[first + r])})

(* MultiRecordTable::init(): the first values of each record are a row. *)
MultiRecord(names, records, t) ==
  LET first == FirstRecordIdx(records, t)
      row(r) == FlattenSeq(records[first + r])
      rows == 1 .. NumRecords(records, first)
  IN IF \E r \in rows : NumFlatItems(records[first + r]) < Len(names) THEN Refused
     ELSE [name \in Range(names) |-> [r \in rows |-> row(r)[ColumnNo(names, name)]]]
-----------------------------------------------------------------------------
(* What the init() of a table does with its columns. *)
Given(column) == [do |-> "checkNonDefaultable", column |-> column]
Rising(column) == [do |-> "checkMonotonic", column |-> column, ascending |-> TRUE, strict |-> TRUE]
Falling(column) == [do |-> "checkMonotonic", column |-> column, ascending |-> FALSE, strict |-> TRUE]
NeverFalling(column) == [do |-> "checkMonotonic", column |-> column, ascending |-> TRUE, strict |-> FALSE]
Linear(column) == [do |-> "applyDefaultsLinear", column |-> column]
Constant(column, value) == [do |-> "applyDefaultsConstant", column |-> column, value |-> value]
CopyOf(column, other) == [do |-> "copy", column |-> column, other |-> other]

AllOf(Step(_), columns) == [i \in DOMAIN columns |-> Step(columns[i])]

CheckNonDefaultable(table, c) ==
  IF \E r \in DOMAIN table[c] : table[c][r].defaulted THEN Refused ELSE table

InOrder(step, before, after) ==
  /\ IF step.ascending THEN before <= after ELSE before >= after
  /\ step.strict => before # after

CheckMonotonic(table, c, step) ==
  IF \A r \in 2 .. Len(table[c]) : InOrder(step, table[c][r - 1].si, table[c][r].si)
    THEN table ELSE Refused

(* The value at x of the line through two points; a mistake weighs them    *)
(* the other way round.                                                    *)
OnLineBackwards(x, x1, y1, x2, y2) ==
  LET dx == IF x1 < x2 THEN x2 - x1 ELSE x1 - x2
      to == IF x1 < x2 THEN x2 - x ELSE x - x2
  IN y1 + ((y2 - y1) * to) \div dx

OnLine(x, x1, y1, x2, y2) ==
  LET dx == IF x1 < x2 THEN x2 - x1 ELSE x1 - x2
      to == IF x1 < x2 THEN x - x1 ELSE x1 - x
  IN y1 + ((y2 - y1) * to) \div dx

(* A defaulted value between two others, or at the fringe, where the row   *)
(* before it may have been filled in just now.                             *)
FillRow(table, xs, c, r) ==
  LET ys == table[c]
      given == {q \in DOMAIN ys : ~ ys[q].defaulted}
      before == {q \in given : q < r}
      after == {q \in given : q > r}
      value ==
        IF before = {} THEN ys[Min(after)].si
        ELSE IF after = {} THEN ys[Max(before)].si
        ELSE OnLine(xs[r].si, xs[Max(before)].si, ys[Max(before)].si,
                    xs[Min(after)].si, ys[Min(after)].si)
  IN IF table[c][r].defaulted
       THEN [table EXCEPT ![c][r] = [si |-> value, defaulted |-> FALSE]]
       ELSE table

ApplyDefaultsLinear(table, x, c) ==
  LET n == Len(table[c])
      filled[r \in 0 .. n] == IF r = 0 THEN table ELSE FillRow(filled[r - 1], table[x], c, r)
  IN IF n > 0 /\ \A r \in 1 .. n : table[c][r].defaulted THEN Refused ELSE filled[n]

ApplyDefaults(table, c, values) ==
  [table EXCEPT ![c] = [r \in DOMAIN @ |->
     IF @[r].defaulted THEN [si |-> values[r], defaulted |-> FALSE] ELSE @[r]]]

(* A column that the table does not have is refused by m_columnNames. *)
DoStep(table, x, step) ==
  LET c == step.column
  IN IF table = Refused \/ c \notin DOMAIN table THEN Refused
     ELSE CASE step.do = "checkNonDefaultable" -> CheckNonDefaultable(table, c)
            [] step.do = "checkMonotonic" -> CheckMonotonic(table, c, step)
            [] step.do = "applyDefaultsLinear" -> ApplyDefaultsLinear(table, x, c)
            [] step.do = "applyDefaultsConstant" ->
                 ApplyDefaults(table, c, [r \in DOMAIN table[c] |-> step.value])
            [] step.do = "copy" ->
                 ApplyDefaults(table, c, [r \in DOMAIN table[c] |-> table[step.other][r].si])

InitTable(kind, table) ==
  LET after[i \in 0 .. Len(kind.steps)] ==
        IF i = 0 THEN table ELSE DoStep(after[i - 1], kind.columns[1], kind.steps[i])
  IN after[Len(kind.steps)]
-----------------------------------------------------------------------------
(* The kinds of tables: their columns, what init() does with them, and the *)
(* column each of the getters returns.                                     *)
Kind(columns, steps) ==
  [columns |-> columns, steps |-> steps, getters |-> columns, evaluated |-> TRUE]

RelpermColumns ==
  <<"KRWMAX", "KRGMAX", "KROMAX", "KRWCRIT", "KRGCRIT", "KROCRITG", "KROCRITW">>

EnkrvdTable ==
  Kind(<<"DEPTH">> \o RelpermColumns,
       <<Given("DEPTH"), Rising("DEPTH")>> \o AllOf(Linear, RelpermColumns))

ImkrvdTable ==
  Kind(<<"DEPTH">> \o RelpermColumns,
       <<Given("DEPTH"), Rising("DEPTH")>> \o AllOf(Linear, RelpermColumns))

SaturationColumns ==
  <<"SWCO", "SWCRIT", "SWMAX", "SGCO", "SGCRIT", "SGMAX", "SOWCRIT", "SOGCRIT">>

(* SWMAX is left as it is. *)
FilledSaturations ==
  <<"SWCO", "SWCRIT", "SGCO", "SGCRIT", "SGMAX", "SOWCRIT", "SOGCRIT">>

EnptvdTable ==
  Kind(<<"DEPTH">> \o SaturationColumns,
       <<Given("DEPTH"), Rising("DEPTH")>> \o AllOf(Linear, FilledSaturations))

ImptvdTable ==
  Kind(<<"DEPTH">> \o SaturationColumns,
       <<Given("DEPTH"), Rising("DEPTH")>> \o AllOf(Linear, FilledSaturations))

PlyadsTable ==
  [Kind(<<"PolymerConcentration", "AdsorbedPolymer">>,
        <<Given("PolymerConcentration"), Rising("PolymerConcentration"),
          Given("AdsorbedPolymer"), Rising("AdsorbedPolymer")>>)
     EXCEPT !.getters = <<"PolymerConcentration", "PolymerConcentration">>]

PlymaxTable ==
  Kind(<<"C_POLYMER", "C_POLYMER_MAX">>,
       <<Given("C_POLYMER"), Falling("C_POLYMER"),
         Given("C_POLYMER_MAX"), Falling("C_POLYMER_MAX")>>)

PlyrockColumns ==
  <<"DeadPoreVolume", "ResidualResistanceFactor", "RockDensityFactor",
    "AdsorbtionIndex", "MaxAdsorbtion">>

PlyrockTable ==
  [Kind(PlyrockColumns,
        <<Constant("AdsorbtionIndex", 1)>> \o AllOf(Given, PlyrockColumns))
     EXCEPT !.evaluated = FALSE]

PlyviscTable ==
  [Kind(<<"PolymerConcentration", "ViscosityMultiplier">>,
        <<Given("PolymerConcentration"), Rising("PolymerConcentration"),
          Given("ViscosityMultiplier"), Rising("ViscosityMultiplier")>>)
     EXCEPT !.getters = <<"PolymerConcentration", "PolymerConcentration">>]

PvdgTable ==
  Kind(<<"P", "BG", "MUG">>,
       <<Given("P"), Rising("P"), Linear("BG"), Falling("BG"), Linear("MUG"), NeverFalling("MUG")>>)

PvdoTable ==
  Kind(<<"P", "BO", "MUO">>,
       <<Given("P"), Rising("P"), Linear("BO"), Falling("BO"), Linear("MUO"), NeverFalling("MUO")>>)

RsvdTable == Kind(<<"DEPTH", "RS">>, <<Given("DEPTH"), Rising("DEPTH"), Given("RS")>>)

RvvdTable == Kind(<<"DEPTH", "RV">>, <<Given("DEPTH"), Rising("DEPTH"), Given("RV")>>)

SgofTable ==
  Kind(<<"SG", "KRG", "KROG", "PCOG">>,
       <<Given("SG"), Rising("SG"), Linear("KRG"), Linear("KROG"), Linear("PCOG")>>)

SwofTable ==
  Kind(<<"SW", "KRW", "KROW", "PCOW">>,
       <<Given("SW"), Rising("SW"), Linear("KRW"), Linear("KROW"), Linear("PCOW")>>)

TlmixparTable ==
  [Kind(<<"VISC_PARA", "DENS_PARA">>,
        <<Given("VISC_PARA"), CopyOf("DENS_PARA", "VISC_PARA")>>)
     EXCEPT !.evaluated = FALSE]

(* The columns of a table by direction are filled in when it is not by     *)
(* direction, and the other way round.                                     *)
RocktabTable(directional, stress) ==
  LET byDirection == <<"TRANSMIS_MULT_X", "TRANSMIS_MULT_Y", "TRANSMIS_MULT_Z">>
      overall == <<"TRANSMIS_MULT">>
  IN Kind(<<"PO", "PV_MULT">> \o (IF directional THEN byDirection ELSE overall),
          <<Given("PO"), IF stress THEN Rising("PO") ELSE Falling("PO"), Linear("PV_MULT")>>
            \o AllOf(Linear, IF directional THEN overall ELSE byDirection))

PvtoOuterTable ==
  Kind(<<"RS", "P", "BO", "MU">>,
       <<Given("RS"), Rising("RS"), Linear("P"), Linear("BO"), Linear("MU")>>)

PvtoInnerTable ==
  Kind(<<"P", "BO", "MU">>, <<Given("P"), Rising("P"), Linear("BO"), Linear("MU")>>)

PvtgOuterTable ==
  Kind(<<"P", "RV", "BG", "MUG">>,
       <<Given("P"), Rising("P"), Linear("RV"), Linear("BG"), Linear("MUG")>>)

PvtgInnerTable ==
  Kind(<<"RV", "BG", "MUG">>, <<Given("RV"), Falling("RV"), Linear("BG"), Linear("MUG")>>)

SimpleTable ==
  [ENKRVD |-> EnkrvdTable, ENPTVD |-> EnptvdTable, IMKRVD |-> ImkrvdTable,
   IMPTVD |-> ImptvdTable, PLYADS |-> PlyadsTable, PLYMAX |-> PlymaxTable,
   PLYROCK |-> PlyrockTable, PLYVISC |-> PlyviscTable, PVDG |-> PvdgTable,
   PVDO |-> PvdoTable, RSVD |-> RsvdTable, RVVD |-> RvvdTable, SGOF |-> SgofTable,
   SWOF |-> SwofTable, TLMIXPAR |-> TlmixparTable]

FullTable ==
  [PVTG |-> [outer |-> PvtgOuterTable, inner |-> PvtgInnerTable],
   PVTO |-> [outer |-> PvtoOuterTable, inner |-> PvtoInnerTable]]
-----------------------------------------------------------------------------
(* EclipseState::initSimpleTables(): a record without values repeats the   *)
(* table before it.                                                        *)
SimpleTables(kind, records) ==
  LET made[i \in 1 .. Len(records)] ==
        IF records[i][1] # << >>
          THEN InitTable(kind, SingleRecord(kind.columns, records[i], 0))
        ELSE IF i = 1 THEN Refused ELSE made[i - 1]
  IN made

(* FullTable::init(): a row of the outer table and the inner table that    *)
(* starts in the same record.                                              *)
FullTableAt(kind, records, t) ==
  LET outer == InitTable(kind.outer, MultiRecord(kind.outer.columns, records, t))
      first == FirstRecordIdx(records, t)
      inner == [r \in 1 .. NumRecords(records, first) |->
                  InitTable(kind.inner, SingleRecord(kind.inner.columns, records[first + r], 1))]
  IN IF outer = Refused \/ \E r \in DOMAIN inner : inner[r] = Refused THEN Refused
     ELSE [outer |-> outer, inner |-> inner]

FullTables(kind, records) ==
  [t \in 1 .. NumTables(records) |-> FullTableAt(kind, records, t)]
-----------------------------------------------------------------------------
(* SingleRecordTable::evaluate(), as a numerator and a denominator: outside *)
(* the first column the nearest row, inside it the line over the interval  *)
(* that halving finds.  A single row is read behind its end.  A mistake    *)
(* takes every first column for an ascending one.                          *)
IntervalAscending(xs, descending, x) ==
  Max({1} \union {i \in 1 .. Len(xs) - 1 : xs[i].si < x})

Interval(xs, descending, x) ==
  LET search[b \in (1 .. Len(xs)) \X (1 .. Len(xs))] ==
        LET middle == (b[1] + b[2] - 2) \div 2 + 1
        IN IF b[1] + 1 >= b[2] THEN middle
           ELSE IF (xs[middle].si < x) # descending
                  THEN search[<<middle, b[2]>>]
                  ELSE search[<<b[1], middle>>]
  IN search[<<1, Len(xs)>>]

Evaluate(kind, table, column, x) ==
  LET xs == table[kind.columns[1]]
      ys == table[column]
      n == Len(xs)
      descending == xs[1].si > xs[n].si
      low == IF descending THEN xs[n].si ELSE xs[1].si
      high == IF descending THEN xs[1].si ELSE xs[n].si
      i == Interval(xs, descending, x)
      dx == xs[i + 1].si - xs[i].si
  IN IF x < low THEN <<ys[IF descending THEN n ELSE 1].si, 1>>
     ELSE IF x > high THEN <<ys[IF descending THEN 1 ELSE n].si, 1>>
     ELSE <<ys[i].si * dx + (ys[i + 1].si - ys[i].si) * (x - xs[i].si), dx>>
=============================================================================
