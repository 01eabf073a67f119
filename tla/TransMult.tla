------------------------------ MODULE TransMult ------------------------------
(***************************************************************************)
(* The multipliers of the faces between cells, as the constructor of       *)
(* EclipseState makes them from three sources, in this order: the          *)
(* properties MULTX to MULTZ- (initTransMult), the faults of FAULTS with   *)
(* the factors of MULTFLT (initFaults), and the regions of MULTREGT        *)
(* (initMULTREGT, MULTREGTScanner).  The properties and regions are those  *)
(* of the grid, which are there by then; the records come from the GRID    *)
(* and then from the EDIT section.                                         *)
(***************************************************************************)
EXTENDS Integers, SequencesExt, FiniteSetsExt

CONSTANTS
  NX, NY, NZ,     \* the cells of the grid in each direction
  Fault,          \* the names of faults
  MultProperties, \* which of MULTX to MULTZ- there can be, and their data
  RegionProperties, \* which region properties there can be, and their data
  FaultRecord,    \* the records of FAULTS
  Factor,         \* factors of MULTFLT
  RegionRecord,   \* the records of MULTREGT
  Defaulted,      \* a region or region set a record leaves out
  MaxFaces,       \* bound: records of FAULTS
  MaxFactors,     \* bound: records of MULTFLT
  MaxRegions,     \* bound: records of MULTREGT,
  MaxPerKeyword   \* bound: and of one of its keywords

Cell == 0 .. NX * NY * NZ - 1

(* FaceDir::DirEnum, which are bits; sets of them are sets here. *)
FaceDir == {"X+", "X-", "Y+", "Y-", "Z+", "Z-"}

(* What the deck calls the direction of a face, and those of MULTREGT. *)
FromString ==
  [name \in {"X", "I", "X-", "I-", "Y", "J", "Y-", "J-", "Z", "K", "Z-", "K-"} |->
     CASE name \in {"X", "I"}   -> "X+"
       [] name \in {"X-", "I-"} -> "X-"
       [] name \in {"Y", "J"}   -> "Y+"
       [] name \in {"Y-", "J-"} -> "Y-"
       [] name \in {"Z", "K"}   -> "Z+"
       [] name \in {"Z-", "K-"} -> "Z-"]

FromMultregtString ==
  LET x == {"X+", "X-"}  y == {"Y+", "Y-"}  z == {"Z+", "Z-"}
  IN [X |-> x, Y |-> y, Z |-> z, XY |-> x \union y, XZ |-> x \union z,
      YZ |-> y \union z, XYZ |-> x \union y \union z]

(* RegionNameFromDeckValue() *)
RegionName == [O |-> "OPERNUM", F |-> "FLUXNUM", M |-> "MULTNUM"]

(* Data of some of the directions. *)
IsData(t) == \E dirs \in SUBSET FaceDir : t \in [dirs -> [Cell -> Int]]

Range6 == [i1 : Nat, i2 : Nat, j1 : Nat, j2 : Nat, k1 : Nat, k2 : Nat]

ASSUME TransMultAssumption ==
  /\ {NX, NY, NZ} \subseteq Nat \ {0}
  /\ \A props \in MultProperties : IsData(props)
  /\ \A r \in FaultRecord : r.fault \in Fault /\ r.range \in Range6
  /\ Factor \subseteq Int
  /\ Defaulted \notin Int
  /\ \A r \in RegionRecord :
       /\ r.source \in Int \union {Defaulted} /\ r.target \in Int \union {Defaulted}
       /\ r.factor \in Int
  /\ {MaxFaces, MaxFactors, MaxRegions} \subseteq Nat
  /\ MaxPerKeyword \in Nat \ {0}

VARIABLES
  multProperties, \* the properties MULTX, ... by the direction they are for
  regions,        \* the integer properties that MULTREGT asks for
  stage,          \* "FAULTS", "MULTFLT", "MULTREGT", or "done"
  faults,         \* FaultCollection: the faults in their order
  records,        \* MULTREGTScanner::m_records
  trans,          \* TransMult::m_trans: data of the directions there are
  phase,          \* "reading", or "thrown"
  asked           \* history: the records of each keyword, in their order

inputVars == <<multProperties, regions>>
vars == <<multProperties, regions, stage, faults, records, trans, phase, asked>>

(* getDirectionProperty() makes a property of ones. *)
WithDirection(t, dir) ==
  [d \in DOMAIN t \union {dir} |-> IF d \in DOMAIN t THEN t[d] ELSE [c \in Cell |-> 1]]

Multiplied(t, dir, c, factor) ==
  [WithDirection(t, dir) EXCEPT ![dir][c] = @ * factor]

(* applyMULT() with each of the six properties that the grid has. *)
InitTransMult(props) ==
  [d \in DOMAIN props |-> [c \in Cell |-> 1 * props[d][c]]]

Init ==
  /\ multProperties \in MultProperties
  /\ regions \in RegionProperties
  /\ stage = "FAULTS"
  /\ faults = << >>
  /\ records = << >>
  /\ trans = InitTransMult(multProperties)
  /\ phase = "reading"
  /\ asked = [faults |-> << >>, factors |-> << >>, regions |-> << >>]

Throws == phase' = "thrown" /\ UNCHANGED <<inputVars, stage, faults, records, trans>>

Reads == UNCHANGED <<inputVars, phase>>
-----------------------------------------------------------------------------
(* The face of a record: ranges count from 1 in the deck.  FaultFace takes *)
(* it if it is in the grid and one cell thick in its direction.            *)
IsFace(r) ==
  LET b == r.range
  IN /\ 1 <= b.i1 /\ b.i1 <= b.i2 /\ b.i2 <= NX
     /\ 1 <= b.j1 /\ b.j1 <= b.j2 /\ b.j2 <= NY
     /\ 1 <= b.k1 /\ b.k1 <= b.k2 /\ b.k2 <= NZ
     /\ r.dir \in DOMAIN FromString
     /\ FromString[r.dir] \in {"X+", "X-"} => b.i1 = b.i2
     /\ FromString[r.dir] \in {"Y+", "Y-"} => b.j1 = b.j2
     /\ FromString[r.dir] \in {"Z+", "Z-"} => b.k1 = b.k2

(* Its cells.  A mistake swaps the strides of the rows and the layers.     *)
FaceWithSwappedStrides(r) ==
  [dir |-> FromString[r.dir],
   cells |-> {i + j * NX * NZ + k * NX :
                i \in r.range.i1 - 1 .. r.range.i2 - 1,
                j \in r.range.j1 - 1 .. r.range.j2 - 1,
                k \in r.range.k1 - 1 .. r.range.k2 - 1} \intersect Cell]

Face(r) ==
  [dir |-> FromString[r.dir],
   cells |-> {i + j * NX + k * NX * NY :
                i \in r.range.i1 - 1 .. r.range.i2 - 1,
                j \in r.range.j1 - 1 .. r.range.j2 - 1,
                k \in r.range.k1 - 1 .. r.range.k2 - 1}]

(* The place of a fault in the OrderedMap, or 0. *)
PlaceOf(fs, name) ==
  LET places == {p \in DOMAIN fs : fs[p].name = name}
  IN IF places = {} THEN 0 ELSE CHOOSE p \in places : TRUE

NewFault(name) == [name |-> name, factor |-> 1, faces |-> << >>]

(* A record adds its face to its fault, which the first one makes.         *)
WithFace(fs, name, face) ==
  LET with == IF PlaceOf(fs, name) = 0 THEN Append(fs, NewFault(name)) ELSE fs
  IN [with EXCEPT ![PlaceOf(with, name)].faces = Append(@, face)]

FaultsRecord(r) ==
  /\ stage = "FAULTS"
  /\ Len(asked.faults) < MaxFaces
  /\ asked' = [asked EXCEPT !.faults = Append(@, r)]
  /\ \/ /\ IsFace(r)
        /\ faults' = WithFace(faults, r.fault, Face(r))
        /\ Reads
        /\ UNCHANGED <<stage, records, trans>>
     \/ ~ IsFace(r) /\ Throws

EndFaults ==
  /\ stage = "FAULTS"
  /\ stage' = "MULTFLT"
  /\ Reads
  /\ UNCHANGED <<faults, records, trans, asked>>

(* A factor replaces the one of before, in whichever section that was.     *)
WithFactor(fs, name, factor) ==
  [fs EXCEPT ![PlaceOf(fs, name)].factor = factor]

MultfltRecord(name, factor) ==
  /\ stage = "MULTFLT"
  /\ Len(asked.factors) < MaxFactors
  /\ asked' = [asked EXCEPT !.factors = Append(@, [fault |-> name, factor |-> factor])]
  /\ \/ /\ PlaceOf(faults, name) # 0
        /\ faults' = WithFactor(faults, name, factor)
        /\ Reads
        /\ UNCHANGED <<stage, records, trans>>
     \/ PlaceOf(faults, name) = 0 /\ Throws

(* applyMULTFLT(): face by face and cell by cell. *)
MultipliedByFace(t, face, factor) ==
  LET with == WithDirection(t, face.dir)
  IN [d \in DOMAIN with |->
        [c \in Cell |->
           with[d][c] * (IF d = face.dir /\ c \in face.cells THEN factor ELSE 1)]]

MultipliedByFault(t, fault) ==
  LET after[n \in 0 .. Len(fault.faces)] ==
        IF n = 0 THEN t ELSE MultipliedByFace(after[n - 1], fault.faces[n], fault.factor)
  IN after[Len(fault.faces)]

MultipliedByFaults(t, fs) ==
  LET after[n \in 0 .. Len(fs)] ==
        IF n = 0 THEN t ELSE MultipliedByFault(after[n - 1], fs[n])
  IN after[Len(fs)]

ApplyMultflt ==
  /\ stage = "MULTFLT"
  /\ trans' = MultipliedByFaults(trans, faults)
  /\ stage' = "MULTREGT"
  /\ Reads
  /\ UNCHANGED <<faults, records, asked>>
-----------------------------------------------------------------------------
(* assertKeywordSupported(), of which the constructor of the record is the *)
(* first part: it refuses names of directions and of region sets that are  *)
(* none.                                                                   *)
Supported(r) ==
  /\ r.directions \in DOMAIN FromMultregtString
  /\ r.region \in DOMAIN RegionName \union {Defaulted}
  /\ r.nnc = "ALL"
  /\ Defaulted \notin {r.source, r.target}
  /\ r.source # r.target

(* A record that does not name its regions has those of the record before, *)
(* and the first one MULTNUM.  A mistake takes MULTNUM for all of them.    *)
InheritedOrMultnum(rs, r) ==
  IF r.region # Defaulted THEN RegionName[r.region] ELSE "MULTNUM"

RegionOf(rs, r) ==
  IF r.region # Defaulted THEN RegionName[r.region]
  ELSE IF rs # << >> THEN Last(rs).region ELSE "MULTNUM"

WithRecord(rs, r) ==
  Append(rs, [pair |-> <<r.source, r.target>>, factor |-> r.factor,
              directions |-> FromMultregtString[r.directions],
              region |-> RegionOf(rs, r)])

WithRecords(rs, new) ==
  LET after[n \in 0 .. Len(new)] ==
        IF n = 0 THEN rs ELSE WithRecord(after[n - 1], new[n])
  IN after[Len(new)]

(* addKeyword(): all records of the keyword are looked at before one of    *)
(* them is added.                                                          *)
MultregtKeyword(rs) ==
  /\ stage = "MULTREGT"
  /\ Len(asked.regions) + Len(rs) <= MaxRegions
  /\ asked' = [asked EXCEPT !.regions = @ \o rs]
  /\ \/ /\ \A p \in DOMAIN rs : Supported(rs[p])
        /\ records' = WithRecords(records, rs)
        /\ Reads
        /\ UNCHANGED <<stage, faults, trans>>
     \/ (\E p \in DOMAIN rs : ~ Supported(rs[p])) /\ Throws

(* The map scanRegions() makes of the records: the last one of each pair   *)
(* of regions.                                                             *)
SearchMap(rs) ==
  {rs[p] : p \in {q \in DOMAIN rs : \A o \in q + 1 .. Len(rs) : rs[o].pair # rs[q].pair}}

(* The steps to the next cell, for the faces on the two sides of it.       *)
Across ==
  {[plus |-> "X+", minus |-> "X-", by |-> 1],
   [plus |-> "Y+", minus |-> "Y-", by |-> NX],
   [plus |-> "Z+", minus |-> "Z-", by |-> NX * NY]}

HasNext(c, step) ==
  CASE step.plus = "X+" -> (c % NX) + 1 < NX
    [] step.plus = "Y+" -> ((c \div NX) % NY) + 1 < NY
    [] step.plus = "Z+" -> (c \div (NX * NY)) + 1 < NZ

(* checkConnection() for a cell and the next one: the record of the pair   *)
(* is for the face of the first, that of the reverse pair for the face of  *)
(* the second.  Each connection is one, by the record it comes from.       *)
CheckConnection(rs, props, c, step) ==
  {[record |-> r, cell |-> c, dir |-> step.plus] :
     r \in {r \in SearchMap(rs) : /\ step.plus \in r.directions
                                  /\ r.pair = <<props[r.region][c], props[r.region][c + step.by]>>}}
  \union
  {[record |-> r, cell |-> c + step.by, dir |-> step.minus] :
     r \in {r \in SearchMap(rs) : /\ step.minus \in r.directions
                                  /\ r.pair = <<props[r.region][c + step.by], props[r.region][c]>>}}

(* All cells, and of each the next ones that are in the grid. *)
Connections(rs, props) ==
  UNION {UNION {CheckConnection(rs, props, c, step) : step \in {s \in Across : HasNext(c, s)}} :
           c \in Cell}

(* Connection after connection; the order does not matter. *)
MultipliedByConnections(t, conns) ==
  LET after[done \in SUBSET conns] ==
        IF done = {} THEN t
        ELSE LET conn == CHOOSE x \in done : TRUE
             IN Multiplied(after[done \ {conn}], conn.dir, conn.cell, conn.record.factor)
  IN after[conns]

(* applyMULTREGT(), unless a record asks for regions that are not there. *)
ApplyMultregt ==
  /\ stage = "MULTREGT"
  /\ \/ /\ \A p \in DOMAIN records : records[p].region \in DOMAIN regions
        /\ trans' = MultipliedByConnections(trans, Connections(records, regions))
        /\ stage' = "done"
        /\ Reads
        /\ UNCHANGED <<faults, records>>
     \/ /\ \E p \in DOMAIN records : records[p].region \notin DOMAIN regions
        /\ Throws
  /\ UNCHANGED asked

Next ==
  /\ phase = "reading"
  /\ \/ \E r \in FaultRecord : FaultsRecord(r)
     \/ EndFaults
     \/ \E name \in Fault, factor \in Factor : MultfltRecord(name, factor)
     \/ ApplyMultflt
     \/ \E rs \in UNION {[1 .. n -> RegionRecord] : n \in 1 .. MaxPerKeyword} : MultregtKeyword(rs)
     \/ ApplyMultregt

Spec == Init /\ [][Next]_vars
-----------------------------------------------------------------------------
FaceType == [dir : FaceDir, cells : SUBSET Cell]
FaultType == [name : Fault, factor : Int, faces : Seq(FaceType)]
RecordType == [pair : Int \X Int, factor : Int, directions : SUBSET FaceDir,
               region : {"OPERNUM", "FLUXNUM", "MULTNUM"}]

TypeOK ==
  /\ multProperties \in MultProperties /\ regions \in RegionProperties
  /\ stage \in {"FAULTS", "MULTFLT", "MULTREGT", "done"}
  /\ faults \in Seq(FaultType) /\ records \in Seq(RecordType)
  /\ IsData(trans)
  /\ phase \in {"reading", "thrown"}
  /\ asked \in [faults : Seq(FaultRecord), factors : Seq([fault : Fault, factor : Factor]),
                regions : Seq(RegionRecord)]
-----------------------------------------------------------------------------
(* The rest of the module says what the multipliers should be, from the    *)
(* records of the deck alone and the places of the cells.                  *)
ProductOf(s) ==
  LET upTo[n \in 0 .. Len(s)] == IF n = 0 THEN 1 ELSE upTo[n - 1] * s[n]
  IN upTo[Len(s)]

At(c) == [i |-> c % NX, j |-> (c \div NX) % NY, k |-> c \div (NX * NY)]

IsAcross(c, dir, other) ==
  At(other) = CASE dir = "X+" -> [At(c) EXCEPT !.i = @ + 1]
                [] dir = "X-" -> [At(c) EXCEPT !.i = @ - 1]
                [] dir = "Y+" -> [At(c) EXCEPT !.j = @ + 1]
                [] dir = "Y-" -> [At(c) EXCEPT !.j = @ - 1]
                [] dir = "Z+" -> [At(c) EXCEPT !.k = @ + 1]
                [] dir = "Z-" -> [At(c) EXCEPT !.k = @ - 1]

OnFace(r, c, dir) ==
  /\ dir = FromString[r.dir]
  /\ At(c).i + 1 \in r.range.i1 .. r.range.i2
  /\ At(c).j + 1 \in r.range.j1 .. r.range.j2
  /\ At(c).k + 1 \in r.range.k1 .. r.range.k2

FactorOfFault(name) ==
  LET given == {p \in DOMAIN asked.factors : asked.factors[p].fault = name}
  IN IF given = {} THEN 1
     ELSE asked.factors[CHOOSE p \in given : \A o \in given : o <= p].factor

(* The regions of a record: those it or the nearest one before it names. *)
RegionAsked(p) ==
  LET named == {q \in 1 .. p : asked.regions[q].region # Defaulted}
  IN IF named = {} THEN "MULTNUM"
     ELSE RegionName[asked.regions[CHOOSE q \in named : \A o \in named : o <= q].region]

Between(r) == <<r.source, r.target>>

RecordHolds(p, c, dir) ==
  LET r == asked.regions[p]
      region == regions[RegionAsked(p)]
  IN /\ \A q \in p + 1 .. Len(asked.regions) : Between(asked.regions[q]) # Between(r)
     /\ dir \in FromMultregtString[r.directions]
     /\ \E other \in Cell : IsAcross(c, dir, other) /\ Between(r) = <<region[c], region[other]>>

FactorsOfFaults(c, dir) ==
  [p \in DOMAIN asked.faults |->
     IF OnFace(asked.faults[p], c, dir) THEN FactorOfFault(asked.faults[p].fault) ELSE 1]

FactorsOfRegions(c, dir) ==
  [p \in DOMAIN asked.regions |->
     IF RecordHolds(p, c, dir) THEN asked.regions[p].factor ELSE 1]

Meant(c, dir) ==
  (IF dir \in DOMAIN multProperties THEN multProperties[dir][c] ELSE 1)
  * ProductOf(FactorsOfFaults(c, dir)) * ProductOf(FactorsOfRegions(c, dir))

(* TransMult::getMultiplier() *)
Multiplier(c, dir) == IF dir \in DOMAIN trans THEN trans[dir][c] ELSE 1

(* In the end the multiplier of every face is the product of all that the  *)
(* deck says of it: its MULTX, ..., one factor, the last of MULTFLT, for   *)
(* each record of FAULTS that it lies on, and the factor of the last       *)
(* record of MULTREGT for the regions of its cell and of the one across,   *)
(* in that order (MULTREGTScanner.cpp:147-200, "completely overwritten").  *)
MultipliersAreProducts ==
  stage = "done" => \A c \in Cell, dir \in FaceDir : Multiplier(c, dir) = Meant(c, dir)

(* The records take the regions they leave out from the ones before,       *)
(* across keywords and sections (MULTREGTScanner.cpp:129-140).             *)
RegionIsInherited ==
  phase = "reading" =>
    /\ Len(records) = Len(asked.regions)
    /\ \A p \in DOMAIN records : records[p].region = RegionAsked(p)
=============================================================================
