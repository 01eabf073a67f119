---------------------------- MODULE EclipseGrid -----------------------------
(***************************************************************************)
(* How the grid is made from the deck: where its size is looked up, which  *)
(* of the three descriptions of its geometry is taken, how vectors that    *)
(* give the upper layers only are continued downwards, and when the sizes  *)
(* of keywords are refused.  The corner points themselves are the business *)
(* of the ecl library.  A cell is its global index, counted from 1.        *)
(***************************************************************************)
EXTENDS DeckSections

NoGrid == << >>
Unset == << >>

(* The values of a keyword of one record with one item. *)
SIDoubleData(keyword) ==
  LET item == keyword.records[1][1]
  IN [i \in DOMAIN item |-> item[i].si]

GetSIDoubleData(deck, name) == SIDoubleData(GetKeyword(deck, name))

FirstValue(deck, name) == GetKeyword(deck, name).records[1][1][1].si

GetDims(keyword) == [d \in 1 .. 3 |-> keyword.records[1][d][1].si]

Volume(dims) == dims[1] * dims[2] * dims[3]
Area(dims) == dims[1] * dims[2]

(* The keyword that gives the dimensions, for the sections the deck has. *)
DimsKeyword(deck) ==
  LET runspec == Section(deck, "RUNSPEC")
      found(keywords, name) ==
        IF HasKeyword(keywords, name) THEN GetKeyword(keywords, name) ELSE NoGrid
  IN IF HasKeyword(deck, "RUNSPEC") /\ HasKeyword(deck, "GRID") THEN found(runspec, "DIMENS")
     ELSE IF HasKeyword(deck, "GRID") \/ HasKeyword(deck, "SPECGRID") THEN found(deck, "SPECGRID")
     ELSE found(deck, "DIMENS")

HasCornerPointKeywords(deck) == HasKeyword(deck, "ZCORN") /\ HasKeyword(deck, "COORD")

HasDVDEPTHZKeywords(deck) ==
  \A name \in {"DXV", "DYV", "DZV", "DEPTHZ"} : HasKeyword(deck, name)

HasDTOPSKeywords(deck) ==
  /\ \A names \in {{"DX", "DXV"}, {"DY", "DYV"}, {"DZ", "DZV"}} :
       \E name \in names : HasKeyword(deck, name)
  /\ HasKeyword(deck, "TOPS")

(* EclipseGrid::assertCornerPointKeywords() *)
CornerPointSizesHold(dims, deck) ==
  /\ Len(GetSIDoubleData(deck, "ZCORN")) = 8 * Volume(dims)
  /\ Len(GetSIDoubleData(deck, "COORD")) = 6 * (dims[1] + 1) * (dims[2] + 1)
  /\ HasKeyword(deck, "ACTNUM") => Len(GetSIDoubleData(deck, "ACTNUM")) = Volume(dims)

(* Only this geometry knows of cells that are not active. *)
InitCornerPointGrid(dims, deck) ==
  IF ~ CornerPointSizesHold(dims, deck) THEN NoGrid
  ELSE [geometry |-> "corner point",
        zcorn |-> GetSIDoubleData(deck, "ZCORN"),
        coord |-> GetSIDoubleData(deck, "COORD"),
        actnum |-> IF HasKeyword(deck, "ACTNUM") THEN GetSIDoubleData(deck, "ACTNUM") ELSE Unset,
        mapaxes |-> IF HasKeyword(deck, "MAPAXES")
                      THEN [i \in 1 .. 6 |-> GetKeyword(deck, "MAPAXES").records[1][i][1].si]
                      ELSE Unset]

InitDVDEPTHZGrid(dims, deck) ==
  LET size(name) == Len(GetSIDoubleData(deck, name))
  IN IF \/ size("DEPTHZ") # (dims[1] + 1) * (dims[2] + 1)
        \/ \E d \in 1 .. 3 : size(<<"DXV", "DYV", "DZV">>[d]) # dims[d]
       THEN NoGrid
       ELSE [geometry |-> "depthz",
             dxv |-> GetSIDoubleData(deck, "DXV"), dyv |-> GetSIDoubleData(deck, "DYV"),
             dzv |-> GetSIDoubleData(deck, "DZV"), depthz |-> GetSIDoubleData(deck, "DEPTHZ")]

(* A vector continued to all layers: a cell that is not given takes the    *)
(* value of the one above it.                                              *)
Continued(values, size, area) ==
  LET f[c \in 1 .. size] == IF c <= Len(values) THEN values[c] ELSE f[c - area]
  IN f

(* scatterDim(): the value of a cell is that of its column, row or layer. *)
ScatterDim(dims, d, values) ==
  LET place(c) == CASE d = 1 -> (c - 1) % dims[1]
                    [] d = 2 -> ((c - 1) \div dims[1]) % dims[2]
                    [] d = 3 -> (c - 1) \div Area(dims)
  IN [c \in 1 .. Volume(dims) |-> values[place(c) + 1]]

CreateDVector(dims, d, key, keyV, deck) ==
  LET values == GetSIDoubleData(deck, key)
      valuesV == GetSIDoubleData(deck, keyV)
  IN IF HasKeyword(deck, key)
       THEN IF Len(values) \in Area(dims) .. Volume(dims)
              THEN Continued(values, Volume(dims), Area(dims))
              ELSE NoGrid
       ELSE IF Len(valuesV) = dims[d] THEN ScatterDim(dims, d, valuesV) ELSE NoGrid

(* Unlike the vectors of sizes, tops that are too many are cut off.  A     *)
(* mistake adds the thickness of the cell itself, not of the one above.    *)
CreateTOPSVectorOfOwnCell(dims, dz, deck) ==
  LET tops == GetSIDoubleData(deck, "TOPS")
      area == Area(dims)
      f[c \in 1 .. Volume(dims)] == IF c <= Len(tops) THEN tops[c] ELSE f[c - area] + dz[c]
  IN IF Len(tops) < area THEN NoGrid ELSE f

CreateTOPSVector(dims, dz, deck) ==
  LET tops == GetSIDoubleData(deck, "TOPS")
      area == Area(dims)
      f[c \in 1 .. Volume(dims)] == IF c <= Len(tops) THEN tops[c] ELSE f[c - area] + dz[c - area]
  IN IF Len(tops) < area THEN NoGrid ELSE f

InitDTOPSGrid(dims, deck) ==
  LET dx == CreateDVector(dims, 1, "DX", "DXV", deck)
      dy == CreateDVector(dims, 2, "DY", "DYV", deck)
      dz == CreateDVector(dims, 3, "DZ", "DZV", deck)
      tops == CreateTOPSVector(dims, dz, deck)
  IN IF dx = NoGrid \/ dy = NoGrid \/ dz = NoGrid \/ tops = NoGrid THEN NoGrid
     ELSE [geometry |-> "tops", dx |-> dx, dy |-> dy, dz |-> dz, tops |-> tops]

InitCartesianGrid(dims, deck) ==
  IF HasDVDEPTHZKeywords(deck) THEN InitDVDEPTHZGrid(dims, deck)
  ELSE IF HasDTOPSKeywords(deck) THEN InitDTOPSGrid(dims, deck)
  ELSE NoGrid

(* PINCH and MINPV are read from the whole deck, as everything here is. *)
InitGrid(dims, deck) ==
  LET shape == IF HasCornerPointKeywords(deck) THEN InitCornerPointGrid(dims, deck)
               ELSE InitCartesianGrid(dims, deck)
      optional(name) == IF HasKeyword(deck, name) THEN {FirstValue(deck, name)} ELSE {}
  IN IF shape = NoGrid THEN NoGrid
     ELSE [dims |-> dims, shape |-> shape,
           pinch |-> optional("PINCH"), minpv |-> optional("MINPV")]

MakeGrid(deck) ==
  LET keyword == DimsKeyword(deck)
  IN IF keyword = NoGrid THEN NoGrid ELSE InitGrid(GetDims(keyword), deck)
=============================================================================
