-------------------------- MODULE MCGridProperties --------------------------
EXTENDS GridProperties

(* A grid of two by two cells; numbers count halves. *)
Bottom == [i1 |-> 1, i2 |-> 2, j1 |-> 2, j2 |-> 2, k1 |-> 1, k2 |-> 1]
Right == [i1 |-> 2, i2 |-> 2, j1 |-> 1, j2 |-> 2, k1 |-> 1, k2 |-> 1]
Outside == [i1 |-> 2, i2 |-> 3, j1 |-> 1, j2 |-> 2, k1 |-> 1, k2 |-> 1]

Scaling == [kw \in DoubleKeyword |-> IF kw = "PERMX" THEN 3 ELSE 1]

Op(op, field, value, box) == [kind |-> op, field |-> field, value |-> value, box |-> box]
Cp(source, target, box) == [kind |-> "COPY", source |-> source, target |-> target, box |-> box]
Ld(name, values) == [kind |-> "LOAD", name |-> name, values |-> values]

Items ==
  {[kind |-> k] : k \in {"section", "ENDBOX", "/"}}
    \union {[kind |-> "BOX", box |-> b] : b \in {Bottom, Outside}}
    \union {Ld("SATNUM", <<4, Defaulted>>), Ld("PERMX", <<4, 2, 4>>),
            Ld("PERMX", <<2, 2, 2, 2, 2>>)}
    \union {Op("EQUALS", kw, 5, b) : kw \in {"SATNUM", "PERMX", "SWL"}, b \in {NoBox, Right}}
    \union {Op("MULTIPLY", kw, 4, NoBox) : kw \in {"SATNUM", "PERMX", "SWL"}}
    \union {Op("ADD", "PERMX", 2, Right), Op("EQUALS", "SWL", 5, PartialBox)}
    \union {Cp("SATNUM", "IMBNUM", NoBox), Cp("PERMX", "PORO", Right), Cp("SWL", "ISWU", NoBox)}

Row(s, kr, kro) == [s |-> s, kr |-> kr, kro |-> kro]

Swof == <<<<Row(1, 0, 8), Row(2, 0, 4), Row(9, 8, 0)>>, <<Row(2, 0, 8), Row(8, 8, 0)>>>>
Sgof == <<<<Row(0, 0, 8), Row(9, 8, 0)>>, <<Row(0, 0, 8), Row(3, 1, 2), Row(8, 8, 0)>>>>

NoTables == << >>

(* One table of ENPTVD, with the column of SWCO only and not in every cell. *)
Enptvd ==
  << [column \in {DepthColumn[f] : f \in Family} |->
        [c \in Cell |-> IF column = "SWCO" /\ c = 3 THEN 4 ELSE NaN]] >>

(* For the assertions: a region of ENDNUM and of SATNUM. *)
RegionItems ==
  {[kind |-> "/"], Ld("SWL", <<2, 2>>)}
    \union {Op("EQUALS", kw, x, b) : kw \in {"SATNUM", "ENDNUM"}, x \in {2, 4, 6}, b \in {NoBox, Right}}
=============================================================================
