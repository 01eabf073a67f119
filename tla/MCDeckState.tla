---------------------------- MODULE MCDeckState -----------------------------
EXTENDS DeckState

V(n) == [si |-> n, defaulted |-> FALSE]
D == [si |-> NaN, defaulted |-> TRUE]

Keyword(name, records) == [name |-> name, records |-> records]
Bare(name) == Keyword(name, << >>)
Data(name, values) == Keyword(name, <<<<values>>>>)
Count(name, n) == Data(name, [i \in 1 .. n |-> V(3 * i)])
Dims(name, nx, ny, nz) == Keyword(name, <<<<<<V(nx)>>, <<V(ny)>>, <<V(nz)>>>>>>)

SmallGrid ==
  <<Dims("DIMENS", 1, 1, 1), Count("DX", 1), Count("DY", 1), Count("DZ", 1), Count("TOPS", 1)>>

(* The records of simple tables: a first column, and one other column with *)
(* any pattern of values, the rest rising and falling in turn.             *)
FirstColumns ==
  {<<V(0)>>, <<V(0), V(3)>>, <<V(0), V(0)>>, <<V(0), V(2), V(3)>>, <<V(6), V(3), V(1)>>,
   <<V(0), D, V(3)>>, <<V(0), V(1), V(3), V(6)>>}

Patterns(n) == [1 .. n -> IF n < 3 THEN {D, V(0), V(30), V(60)} ELSE {D, V(30), V(60)}]

Usual(c, r) == IF c % 2 = 0 THEN V(30 * (5 - r)) ELSE V(30 * r)

Rows(n, xs, c, pattern) ==
  [i \in 1 .. n * Len(xs) |->
     LET r == (i - 1) \div n + 1
         col == ((i - 1) % n) + 1
     IN IF col = 1 THEN xs[r] ELSE IF col = c THEN pattern[r] ELSE Usual(col, r)]

Width(kind) == Len(SimpleTable[kind].columns)

Listed == Range(SimpleKind) \ {"PLYMAX", "PLYROCK", "TLMIXPAR"}

ListTables ==
  UNION {UNION {{<<Data(kind, Rows(Width(kind), xs, c, pattern))>> :
                    pattern \in Patterns(Len(xs))} :
                  <<xs, c>> \in FirstColumns \X ({2, 4, Width(kind)} \intersect 2 .. Width(kind))} :
           kind \in Listed}

ItemTables ==
  UNION {{<<Keyword(kind, <<[c \in 1 .. Width(kind) |-> <<p[c]>>]>>)>> :
            p \in [1 .. Width(kind) -> {D, V(30), V(60)}]} : kind \in {"PLYMAX", "PLYROCK", "TLMIXPAR"}}

Whole(kind) == <<Rows(Width(kind), <<V(0), V(3)>>, 2, <<V(30), D>>)>>

Repeats ==
  UNION {{<<Keyword(kind, <<<<<< >>>>, Whole(kind)>>)>>,
          <<Keyword(kind, <<Whole(kind), <<<< >>>>, Whole(kind), <<<< >>>>>>)>>,
          <<Data(kind, <<V(0), V(1), V(2), V(3), V(4), V(5), V(6), V(7), V(8), V(9), V(10)>>)>>,
          <<Keyword(kind, <<Whole(kind)>>), Keyword(kind, <<Whole(kind)>>)>>} : kind \in {"SWOF", "PVDG", "ENPTVD"}}

(* The records of PVTO and PVTG; one that says nothing ends a table, and   *)
(* the last one of a keyword is taken by the parser.                       *)
FullRecords(rising) ==
  LET second == IF rising THEN V(6) ELSE V(1)
      third == IF rising THEN V(7) ELSE V(0)
  IN {<<<<D>>, << >>>>,
      <<<<V(1)>>, <<V(2), V(30), V(60)>>>>,
      <<<<V(2)>>, <<V(4), V(60), V(90), second, D, V(30)>>>>,
      <<<<V(3)>>, <<V(5), V(30), V(60), second, V(120), D, third, V(60), V(0)>>>>,
      <<<<V(4)>>, <<V(3), D, V(60), second, V(30), V(30)>>>>,
      <<<<D>>, <<V(2), V(30), V(60)>>>>,
      <<<<V(3)>>, <<D, V(30), V(60)>>>>,
      <<<<V(3)>>, <<V(5), V(30)>>>>}

FullDecks ==
  UNION {{<<Keyword(kind, records)>> :
            records \in {s \in BoundedSeq(FullRecords(kind = "PVTO"), 3) :
                           s # << >> /\ s[Len(s)] # <<<<D>>, << >>>>}} : kind \in {"PVTO", "PVTG"}}

RocktabDecks ==
  {<<Data("ROCKTAB", <<V(6), V(30), V(30), V(3), V(60), V(60)>>)>>,
   <<Data("ROCKTAB", <<V(3), V(30), V(30), V(6), V(60), V(60)>>),
     Keyword("ROCKOPTS", <<<<<<"STRESS">>>>>>)>>,
   <<Bare("RKTRMDIR"), Data("ROCKTAB", <<V(6), V(30), V(30), V(30), V(30)>>)>>,
   <<Keyword("ROCKTAB", <<<<<< >>>>>>)>>}

TableDecks ==
  {<<Bare("OIL")>> \o tables0 \o SmallGrid :
     tables0 \in ListTables \union ItemTables \union Repeats \union FullDecks \union RocktabDecks}

(* Decks of sections: every legal order with one keyword taken out, put in *)
(* a second time, moved by one place, or another one put in.               *)
LegalOrders ==
  {<<"RUNSPEC", "GRID">> \o edit \o <<"PROPS">> \o regions \o <<"SOLUTION">> \o summary \o <<"SCHEDULE">> :
     <<edit, regions, summary>> \in {<< >>, <<"EDIT">>} \X {<< >>, <<"REGIONS">>} \X {<< >>, <<"SUMMARY">>}}

Without(s, i) == SubSeq(s, 1, i - 1) \o SubSeq(s, i + 1, Len(s))
Swapped(s, i) == [s EXCEPT ![i] = s[i + 1], ![i + 1] = s[i]]
With(s, i, name) == SubSeq(s, 1, i) \o <<name>> \o SubSeq(s, i + 1, Len(s))

Edited(s) ==
  {s} \union {Without(s, i) : i \in DOMAIN s} \union {Swapped(s, i) : i \in 1 .. Len(s) - 1}
    \union {With(s, i, name) : i \in 0 .. Len(s), name \in Range(s) \union {"WATER", "EDIT"}}

SectionDecks ==
  {[i \in DOMAIN names |-> Bare(names[i])] : names \in UNION {Edited(s) : s \in LegalOrders} \union {<< >>}}

(* Decks of grids of two by three by two cells. *)
Sizes(name) == {Count(name, n) : n \in {5, 6, 7, 12, 13}}
Directions == [DX |-> <<"DXV", 2>>, DY |-> <<"DYV", 3>>, DZ |-> <<"DZV", 2>>]

SizeKeywords(name) ==
  {<<kw>> : kw \in Sizes(name) \union {Count(Directions[name][1], Directions[name][2]), Count(Directions[name][1], 4)}}
    \union {<< >>}

Usually == [DX |-> <<Count("DX", 6)>>, DY |-> <<Count("DYV", 3)>>, DZ |-> <<Count("DZ", 7)>>]

Geometries ==
  {dx \o Usually.DY \o dz \o <<tops>> :
     <<dx, dz, tops>> \in SizeKeywords("DX") \X SizeKeywords("DZ") \X Sizes("TOPS")}
  \union {Usually.DX \o dy \o Usually.DZ \o <<Count("TOPS", 6)>> : dy \in SizeKeywords("DY")}
  \union {<<Count("DXV", 2), Count("DYV", 3), Count("DZV", n), Count("DEPTHZ", m)>> :
            <<n, m>> \in {2, 3} \X {11, 12}}
  \union {<<Count("ZCORN", n), Count("COORD", m)>> \o more :
            <<n, m, more>> \in {96, 95} \X {72, 71} \X
              {<< >>, <<Count("ACTNUM", 12)>>, <<Count("ACTNUM", 11), Count("MINPV", 1)>>,
               <<Keyword("MAPAXES", <<[i \in 1 .. 6 |-> <<V(i)>>]>>), Count("PINCH", 1)>>}}

Begins ==
  {<<Dims("DIMENS", 2, 3, 2)>>, <<Dims("SPECGRID", 2, 3, 2), Dims("DIMENS", 1, 1, 1)>>,
   <<Bare("RUNSPEC"), Dims("DIMENS", 2, 3, 2), Bare("GRID")>>,
   <<Bare("RUNSPEC"), Bare("GRID"), Dims("DIMENS", 2, 3, 2)>>,
   <<Bare("GRID"), Dims("SPECGRID", 2, 3, 2)>>, <<Bare("GRID"), Dims("DIMENS", 2, 3, 2)>>, << >>}

GridDecks ==
  {<<Dims("DIMENS", 2, 3, 2)>> \o g : g \in Geometries}
    \union {b \o Usually.DX \o Usually.DY \o Usually.DZ \o <<Count("TOPS", 6)>> : b \in Begins}

Decks == TableDecks \union SectionDecks \union GridDecks

FewDecks == {<<Bare("OIL")>> \o tables0 \o SmallGrid : tables0 \in RocktabDecks \union ItemTables}
=============================================================================
