-------------------------- MODULE EndpointDefaults --------------------------
(***************************************************************************)
(* What the endpoint properties (SWL, SGU, ...) are where the deck does    *)
(* not say it: GridPropertyEndpointTableLookupInitializer::apply().  A     *)
(* cell gets the value at its depth in a table of ENPTVD or IMPTVD, and    *)
(* if there is none, an endpoint of its saturation table, a row of SWOF    *)
(* or SGOF.  Saturations are whole numbers, One of them a saturation of 1. *)
(***************************************************************************)
EXTENDS Integers, Sequences

CONSTANTS
  One,          \* the saturation 1
  NaN,          \* not a number
  SwofTables,   \* rows of water saturation, krw and krow, by table
  SgofTables,   \* rows of gas saturation, krg and krog, by table
  EnptvdTables, \* ENPTVD: for each table, column and cell the value at
                \* the depth of the cell, NaN if the column is defaulted
  ImptvdTables  \* IMPTVD

SaturationTable == 1 .. Len(SwofTables)

ASSUME EndpointAssumption ==
  /\ One \in Nat
  /\ NaN \notin Int
  /\ SwofTables \in Seq(Seq([s : Nat, kr : Nat, kro : Nat]) \ {<< >>})
  /\ SgofTables \in Seq(Seq([s : Nat, kr : Nat, kro : Nat]) \ {<< >>})
  /\ Len(SgofTables) = Len(SwofTables)

Connate(table) == table[1].s

Maximal(table) == table[Len(table)].s

IsFirst(table, r, P(_)) == P(table[r]) /\ \A q \in 1 .. r - 1 : ~ P(table[q])

(* The saturation of the last row in which the phase does not flow. *)
Critical(table) ==
  LET flows(row) == row.kr > 0
      rows == {r \in 2 .. Len(table) : IsFirst(table, r, flows)}
  IN IF rows = {} THEN 0 ELSE table[(CHOOSE r \in rows : TRUE) - 1].s

(* What is left for the oil in the first row in which it does not flow. *)
CriticalOil(table, connateOfOther) ==
  LET stands(row) == row.kro = 0
      rows == {r \in 1 .. Len(table) : IsFirst(table, r, stands)}
  IN IF rows = {} THEN 0 ELSE One - table[CHOOSE r \in rows : TRUE].s - connateOfOther

(* The endpoint of each family of keywords in saturation table t. *)
TableEndpoint(family, t) ==
  CASE family = "SGL"   -> Connate(SgofTables[t])
    [] family = "SWL"   -> Connate(SwofTables[t])
    [] family = "SGU"   -> Maximal(SgofTables[t])
    [] family = "SWU"   -> Maximal(SwofTables[t])
    [] family = "SGCR"  -> Critical(SgofTables[t])
    [] family = "SWCR"  -> Critical(SwofTables[t])
    [] family = "SOGCR" -> CriticalOil(SgofTables[t], Connate(SwofTables[t]))
    [] family = "SOWCR" -> CriticalOil(SwofTables[t], Connate(SgofTables[t]))

(* The column of ENPTVD and IMPTVD that has it; SWU is 1 minus its column. *)
DepthColumn ==
  [SGL |-> "SGCO", SWL |-> "SWCO", SGU |-> "SGMAX", SWU |-> "SWCO",
   SGCR |-> "SGCRIT", SWCR |-> "SWCRIT", SOGCR |-> "SOGCRIT", SOWCR |-> "SOWCRIT"]

Family == DOMAIN DepthColumn

(* The keywords, of drainage and of imbibition; those for a single         *)
(* direction (SWLX, SWLX-, ...) are found by the same beginnings.          *)
EndpointRule ==
  [SGL |-> <<"SGL", "drainage">>, ISGL |-> <<"SGL", "imbibition">>,
   SWL |-> <<"SWL", "drainage">>, ISWL |-> <<"SWL", "imbibition">>,
   SGU |-> <<"SGU", "drainage">>, ISGU |-> <<"SGU", "imbibition">>,
   SWU |-> <<"SWU", "drainage">>, ISWU |-> <<"SWU", "imbibition">>,
   SGCR |-> <<"SGCR", "drainage">>, ISGCR |-> <<"SGCR", "imbibition">>,
   SWCR |-> <<"SWCR", "drainage">>, ISWCR |-> <<"SWCR", "imbibition">>,
   SOGCR |-> <<"SOGCR", "drainage">>, ISOGCR |-> <<"SOGCR", "imbibition">>,
   SOWCR |-> <<"SOWCR", "drainage">>, ISOWCR |-> <<"SOWCR", "imbibition">>]

EndpointKeyword == DOMAIN EndpointRule

(* The saturation table of a cell, from the region properties there are.   *)
(* Those of ENDNUM take the place of the ones of SATNUM (line 110), but    *)
(* not in what imbibition starts from.                                     *)
SaturationRegion(regions, kw, c) ==
  LET satnum == IF "SATNUM" \in DOMAIN regions THEN regions["SATNUM"][c] ELSE 1
  IN IF EndpointRule[kw][2] = "drainage"
       THEN IF "ENDNUM" \in DOMAIN regions THEN regions["ENDNUM"][c] ELSE satnum
       ELSE IF "IMBNUM" \in DOMAIN regions THEN regions["IMBNUM"][c] ELSE satnum

(* The assertions on the table of a cell are about the drainage one and    *)
(* the imbibition one, whatever the keyword.                               *)
AssertionsHold(regions, cells) ==
  \A kw \in {"SWL", "ISWL"}, c \in cells :
    SaturationRegion(regions, kw, c) \in SaturationTable

(* Whether the depth tables are asked: endnumData is always 1, hence the   *)
(* first table.  ISWU asks those of IMPTVD if there are some of ENPTVD.    *)
DepthTables(kw) ==
  IF EndpointRule[kw][2] = "drainage" THEN EnptvdTables ELSE ImptvdTables

AsksDepthTables(kw) ==
  IF kw = "ISWU" THEN EnptvdTables # << >> ELSE DepthTables(kw) # << >>

NotEnoughTables(kw) == AsksDepthTables(kw) /\ DepthTables(kw) = << >>

SelectValue(kw, c, fallback) ==
  LET family == EndpointRule[kw][1]
      value == DepthTables(kw)[1][DepthColumn[family]][c]
  IN IF ~ AsksDepthTables(kw) \/ value = NaN THEN fallback
     ELSE IF family = "SWU" THEN One - value ELSE value

(* The property a keyword begins with. *)
EndpointDefault(regions, kw, cells) ==
  [c \in cells |->
     SelectValue(kw, c,
       TableEndpoint(EndpointRule[kw][1], SaturationRegion(regions, kw, c)))]
=============================================================================
