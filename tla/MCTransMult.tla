---------------------------- MODULE MCTransMult ----------------------------
EXTENDS TransMult

(* A grid of two by two by two cells; every factor is a prime of its own. *)
Multx == {<< >>, [d \in {"X+", "Z-"} |-> [c \in Cell |-> IF c = 5 THEN 2 ELSE 1]]}

OfCells(s) == [c \in Cell |-> s[c + 1]]
Checkered == OfCells(<<1, 2, 2, 1, 2, 1, 3, 2>>)
Layered == OfCells(<<1, 1, 1, 1, 2, 2, 2, 2>>)
Regions == {[MULTNUM |-> Checkered, FLUXNUM |-> Layered], [MULTNUM |-> Layered]}

On(name, i, j, k, dir) ==
  [fault |-> name, dir |-> dir,
   range |-> [i1 |-> i[1], i2 |-> i[2], j1 |-> j[1], j2 |-> j[2], k1 |-> k[1], k2 |-> k[2]]]

Faces ==
  {On("f", <<1, 1>>, <<2, 2>>, <<1, 2>>, "X"), On("f", <<1, 2>>, <<1, 1>>, <<2, 2>>, "K-"),
   On("g", <<1, 2>>, <<2, 2>>, <<2, 2>>, "Z-"), On("g", <<1, 2>>, <<1, 1>>, <<1, 1>>, "X")}

From(source, target, factor, directions, region) ==
  [source |-> source, target |-> target, factor |-> factor,
   directions |-> directions, nnc |-> "ALL", region |-> region]

Records ==
  {From(1, 2, 7, "XYZ", "F"), From(1, 2, 11, "Z", "M"), From(1, 2, 13, "XY", Defaulted),
   From(2, 1, 17, "YZ", Defaulted), From(2, 2, 19, "X", Defaulted),
   From(1, 2, 23, "X", "FIPNUM")}
=============================================================================
