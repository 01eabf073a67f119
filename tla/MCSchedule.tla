----------------------------- MODULE MCSchedule -----------------------------
EXTENDS Schedule, TLC

CONSTANTS w1, w2, low, high, opened, shut

Heads == w1 :> [i |-> 0, j |-> 2] @@ w2 :> [i |-> 1, j |-> 2]

(* One well in a group of its own, the other in FIELD. *)
Specs == {<<w1, "G1">>, <<w2, "FIELD">>}

Trees == {<<"G1", "FIELD">>}

Patterns == {{w1}, {w1, w2}}

(* Records that differ in what the loop and the checks tell apart. *)
Producer(prediction, st, cmode) ==
  [prediction |-> prediction, status |-> st, cmode |-> cmode, given |-> {"BHP"}]

Producers ==
  {Producer(TRUE, "OPEN", "GRUP"), Producer(TRUE, "SHUT", "ORAT"),
   Producer(FALSE, "OPEN", "ORAT"), Producer(FALSE, "SHUT", "ORAT")}

Injector(st, cmode, given) ==
  [multi |-> FALSE, status |-> st, cmode |-> cmode, given |-> given]

Injectors ==
  {Injector("OPEN", "RATE", {"RATE"}), Injector("OPEN", "BHP", {"BHP"}),
   Injector("SHUT", "NONE", {"RATE"})}

TwoPhases == [phase : {"WATER", "GAS"}, mode : {"RATE"}, target : {high}]

TwoTargets == [mode : {"ORAT"}, target : {high}]

(* The column of the head of each well, by number and by default; one      *)
(* layer, two layers, and none.                                            *)
Compdat(w, i, layers, d) ==
  [well |-> w, i |-> i, j |-> 0, k1 |-> layers[1], k2 |-> layers[2], data |-> d]

Records ==
  {Compdat(w1, i, <<1, 1>>, d) : i \in {0, 1}, d \in {opened, shut}}
    \union {Compdat(w2, i, <<1, 1>>, d) : i \in {0, 2}, d \in {opened, shut}}
    \union {Compdat(w1, 0, layers, opened) : layers \in {<<1, 2>>, <<2, 1>>}}

(* Two wells and how they are run, a group, completions of two wells, and *)
(* some of each.                                                           *)
Budgets ==
  {[wells |-> 2, controls |-> 2, groups |-> 0, compdat |-> 0],
   [wells |-> 1, controls |-> 0, groups |-> 3, compdat |-> 0],
   [wells |-> 2, controls |-> 0, groups |-> 0, compdat |-> 2],
   [wells |-> 1, controls |-> 1, groups |-> 1, compdat |-> 0],
   [wells |-> 1, controls |-> 1, groups |-> 0, compdat |-> 1],
   [wells |-> 1, controls |-> 0, groups |-> 1, compdat |-> 1]}
=============================================================================
