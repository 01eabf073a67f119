--------------------------- MODULE DeckState_proof ---------------------------
(***************************************************************************)
(* Proofs about the sections of a deck, the cells of its grid and the      *)
(* evaluation of its tables: a strict reading goes on exactly if the deck  *)
(* is its sections, every cell lies below those of its column, and a table *)
(* answers with the value on the line between the rows around x.           *)
(***************************************************************************)
EXTENDS DeckState, FiniteSetTheorems, SequenceTheorems, WellFoundedInduction, TLAPS

(* Induction: a set of numbers that is not empty has a least one.          *)
LEMMA NatMin ==
  ASSUME NEW T \in SUBSET Nat, T # {}
  PROVE  \E x \in T : \A y \in T : x <= y
  <1> DEFINE R == {p \in Nat \X Nat : p[1] < p[2]}
  <1>1. IsWellFoundedOn(R, Nat)
    BY NatLessThanWellFounded DEF OpToRel
  <1>2. \A a, b \in Nat : a < b => <<a, b>> \in R
    OBVIOUS
  <1> HIDE DEF R
  <1>3. PICK x \in T : \A y \in T : ~ (<<y, x>> \in R)
    BY <1>1, WFMin
  <1>4. ASSUME NEW y \in T
        PROVE  x <= y
    <2>1. x \in Nat /\ y \in Nat /\ ~ (y < x)
      BY <1>2, <1>3
    <2>2. QED
      BY <2>1
  <1>5. QED
    BY <1>4

(* Induction, for a set in the place of a predicate. *)
LEMMA NatSet ==
  ASSUME NEW T, 0 \in T, \A n \in Nat : n \in T => n + 1 \in T
  PROVE  Nat \subseteq T
  <1> DEFINE Rest == {n \in Nat : n \notin T}
  <1>1. SUFFICES ASSUME Rest # {}
                 PROVE  FALSE
    OBVIOUS
  <1>2. PICK x \in Rest : \A y \in Rest : x <= y
    <2>1. Rest \in SUBSET Nat
      OBVIOUS
    <2> HIDE DEF Rest
    <2>2. QED
      BY <1>1, <2>1, NatMin
  <1>3. x \in Nat /\ x # 0 /\ x - 1 \in Nat
    OBVIOUS
  <1>4. x - 1 \in T
    BY <1>2, <1>3
  <1>5. QED
    BY <1>2, <1>3, <1>4

(* The least and the greatest of a set of numbers. *)
LEMMA MinIs ==
  ASSUME NEW T \in SUBSET Nat, T # {}
  PROVE  Min(T) \in T /\ \A y \in T : Min(T) <= y
  <1>1. \E x \in T : \A y \in T : x <= y
    BY NatMin
  <1>2. QED
    BY <1>1 DEF Min

LEMMA MaxIs ==
  ASSUME NEW n \in Nat, NEW T \in SUBSET 0 .. n, T # {}
  PROVE  Max(T) \in T /\ \A y \in T : y <= Max(T)
  <1> DEFINE U == {n - x : x \in T}
  <1>1. U \in SUBSET Nat /\ U # {}
    <2>1. \A x \in T : n - x \in Nat
      OBVIOUS
    <2>2. QED
      BY <2>1
  <1>2. PICK u \in U : \A y \in U : u <= y
    <2> HIDE DEF U
    <2> QED
      BY <1>1, NatMin
  <1>3. PICK x \in T : u = n - x
    BY <1>2
  <1>4. ASSUME NEW y \in T
        PROVE  y <= x
    <2>1. n - y \in U /\ x \in Nat /\ y \in Nat
      OBVIOUS
    <2>2. n - x <= n - y
      BY <1>2, <1>3, <2>1
    <2>3. QED
      BY <2>1, <2>2
  <1>5. QED
    BY <1>3, <1>4 DEF Max
-----------------------------------------------------------------------------
(* The sections in their order. *)
Rank(name) ==
  CASE name = "RUNSPEC" -> 1 [] name = "GRID" -> 2 [] name = "EDIT" -> 3 [] name = "PROPS" -> 4
    [] name = "REGIONS" -> 5 [] name = "SOLUTION" -> 6 [] name = "SUMMARY" -> 7
    [] name = "SCHEDULE" -> 8

(* Their numbers tell them apart. *)
LEMMA RankIs ==
  /\ Rank("RUNSPEC") = 1 /\ Rank("GRID") = 2 /\ Rank("EDIT") = 3 /\ Rank("PROPS") = 4
  /\ Rank("REGIONS") = 5 /\ Rank("SOLUTION") = 6 /\ Rank("SUMMARY") = 7 /\ Rank("SCHEDULE") = 8
  BY DEF Rank

LEMMA RankType == \A n \in Delimiter : Rank(n) \in 1 .. 8
  BY RankIs DEF Delimiter

LEMMA RankTells == \A n, m \in Delimiter : Rank(n) = Rank(m) => n = m
  BY RankIs DEF Delimiter

LEMMA FollowsIs ==
  /\ Follows["RUNSPEC"] = {"GRID"} /\ Follows["GRID"] = {"EDIT", "PROPS"}
  /\ Follows["EDIT"] = {"PROPS"} /\ Follows["PROPS"] = {"REGIONS", "SOLUTION"}
  /\ Follows["REGIONS"] = {"SOLUTION"} /\ Follows["SOLUTION"] = {"SUMMARY", "SCHEDULE"}
  /\ Follows["SUMMARY"] = {"SCHEDULE"} /\ Follows["SCHEDULE"] = {}
  BY DEF Follows

(* What may follow comes later. *)
LEMMA FollowsRank == \A n, m \in Delimiter : m \in Follows[n] => Rank(n) < Rank(m)
  BY FollowsIs, RankIs DEF Delimiter

(* Where the delimiters are, and what CheckSectionTopology asks of two     *)
(* that come one after the other.                                          *)
Delimiters(d) == {i \in DOMAIN d : IsSectionDelimiter(d[i].name)}

Neighbours(d, i, j) == i < j /\ \A k \in Delimiters(d) : k <= i \/ j <= k

AllFollow(d) ==
  \A i, j \in Delimiters(d) : Neighbours(d, i, j) => d[j].name \in Follows[d[i].name]

(* checkSectionTopology() in these words. *)
LEMMA TopologyIs ==
  ASSUME NEW d
  PROVE  CheckSectionTopology(d) <=>
           /\ d # << >> /\ d[1].name = "RUNSPEC" /\ AllFollow(d)
           /\ d[Max(Delimiters(d))].name = "SCHEDULE"
  BY DEF CheckSectionTopology, Delimiters, Neighbours, AllFollow

(* Delimiters are places in the deck. *)
LEMMA DelimitersType ==
  ASSUME NEW S, NEW d \in Seq(S)
  PROVE  /\ Delimiters(d) \in SUBSET (1 .. Len(d)) /\ Delimiters(d) \in SUBSET Nat
         /\ \A i \in Delimiters(d) : i \in 1 .. Len(d) /\ d[i].name \in Delimiter
         /\ \A i \in 1 .. Len(d) : d[i].name \in Delimiter => i \in Delimiters(d)
  BY DEF Delimiters, IsSectionDelimiter

(* Between two delimiters there is one right before the second. *)
LEMMA Before ==
  ASSUME NEW S, NEW d \in Seq(S), NEW i \in Delimiters(d), NEW j \in Delimiters(d), i < j
  PROVE  \E k \in Delimiters(d) : i <= k /\ Neighbours(d, k, j)
  <1> DEFINE T == {k \in Delimiters(d) : k < j}
  <1>1. T \in SUBSET (0 .. Len(d)) /\ T # {} /\ i \in T
    BY DelimitersType
  <1>2. Max(T) \in T /\ \A y \in T : y <= Max(T)
    <2>1. Len(d) \in Nat
      OBVIOUS
    <2> HIDE DEF T
    <2>2. QED
      BY <1>1, <2>1, MaxIs
  <1>3. Neighbours(d, Max(T), j)
    <2>1. ASSUME NEW k \in Delimiters(d), ~ (k <= Max(T))
          PROVE  j <= k
      <3>1. k \notin T
        BY <1>2, <2>1
      <3>2. k \in Nat /\ j \in Nat
        BY DelimitersType
      <3>3. QED
        BY <3>1, <3>2
    <2>2. QED
      BY <1>2, <2>1 DEF Neighbours
  <1>4. QED
    BY <1>1, <1>2, <1>3

(* And one right after the first. *)
LEMMA After ==
  ASSUME NEW S, NEW d \in Seq(S), NEW i \in Delimiters(d), NEW j \in Delimiters(d), i < j
  PROVE  \E k \in Delimiters(d) : Neighbours(d, i, k)
  <1> DEFINE T == {k \in Delimiters(d) : i < k}
  <1>1. T \in SUBSET Nat /\ T # {}
    BY DelimitersType
  <1>2. Min(T) \in T /\ \A y \in T : Min(T) <= y
    <2> HIDE DEF T
    <2> QED
      BY <1>1, MinIs
  <1>3. Neighbours(d, i, Min(T))
    <2>1. ASSUME NEW k \in Delimiters(d), ~ (k <= i)
          PROVE  Min(T) <= k
      <3>1. k \in Nat /\ i \in Nat
        BY DelimitersType
      <3>2. k \in T
        BY <2>1, <3>1
      <3>3. QED
        BY <1>2, <3>2
    <2>2. QED
      BY <1>2, <2>1 DEF Neighbours
  <1>4. QED
    BY <1>2, <1>3

(* So delimiters go up. *)
LEMMA RanksGoUp ==
  ASSUME NEW S, NEW d \in Seq(S), AllFollow(d)
  PROVE  \A i, j \in Delimiters(d) : i < j => Rank(d[i].name) < Rank(d[j].name)
  <1> DEFINE Up(j) == \A i \in Delimiters(d) : i < j => Rank(d[i].name) < Rank(d[j].name)
             Bad == {j \in Delimiters(d) : ~ Up(j)}
  <1>1. SUFFICES ASSUME Bad # {}
                 PROVE  FALSE
    OBVIOUS
  <1>2. PICK j \in Bad : \A y \in Bad : j <= y
    <2>1. Bad \in SUBSET Nat
      BY DelimitersType
    <2> HIDE DEF Bad
    <2>2. QED
      BY <1>1, <2>1, NatMin
  <1>3. PICK i \in Delimiters(d) : i < j /\ ~ (Rank(d[i].name) < Rank(d[j].name))
    BY <1>2
  <1>4. PICK k \in Delimiters(d) : i <= k /\ Neighbours(d, k, j)
    BY <1>2, <1>3, Before
  <1>5. /\ d[i].name \in Delimiter /\ d[j].name \in Delimiter /\ d[k].name \in Delimiter
        /\ i \in Nat /\ j \in Nat /\ k \in Nat
    BY <1>2, DelimitersType
  <1>6. k < j /\ Rank(d[k].name) < Rank(d[j].name)
    <2>1. d[j].name \in Follows[d[k].name]
      BY <1>2, <1>4 DEF AllFollow
    <2>2. QED
      BY <1>4, <1>5, <2>1, FollowsRank DEF Neighbours
  <1>7. Rank(d[i].name) \in Nat /\ Rank(d[j].name) \in Nat /\ Rank(d[k].name) \in Nat
    <2>1. \A r \in 1 .. 8 : r \in Nat
      OBVIOUS
    <2>2. QED
      BY <1>5, <2>1, RankType
  <1>8. CASE i = k
    BY <1>3, <1>6, <1>8
  <1>9. CASE i < k
    <2>1. k \notin Bad
      BY <1>2, <1>5, <1>6
    <2>2. Rank(d[i].name) < Rank(d[k].name)
      BY <1>9, <2>1
    <2>3. QED
      BY <1>3, <1>6, <1>7, <2>2
  <1>10. QED
    BY <1>4, <1>5, <1>8, <1>9
(* Where a section is found: it ends before the next delimiter. *)
End(d, p) == Min({i \in Delimiters(d) : p < i} \union {Len(d) + 1}) - 1

(* No delimiter is between the first keyword of a section and its end. *)
LEMMA EndIs ==
  ASSUME NEW S, NEW d \in Seq(S), NEW p \in 1 .. Len(d)
  PROVE  /\ End(d, p) \in p .. Len(d)
         /\ \A i \in p + 1 .. End(d, p) : i \notin Delimiters(d)
  <1> DEFINE T == {i \in Delimiters(d) : p < i} \union {Len(d) + 1}
  <1>1. T \in SUBSET Nat /\ T # {} /\ Len(d) + 1 \in T /\ \A i \in T : p < i
    BY DelimitersType
  <1>2. Min(T) \in T /\ \A y \in T : Min(T) <= y
    <2> HIDE DEF T
    <2> QED
      BY <1>1, MinIs
  <1>3. End(d, p) = Min(T) - 1
    BY DEF End
  <1>4. Min(T) \in Nat /\ p < Min(T) /\ Min(T) <= Len(d) + 1
    BY <1>1, <1>2
  <1>5. ASSUME NEW i \in p + 1 .. Min(T) - 1
        PROVE  i \notin Delimiters(d)
    <2>1. i \in Nat /\ p < i /\ i < Min(T)
      BY <1>4
    <2>2. i \notin T
      <3> HIDE DEF T
      <3> QED
        BY <1>2, <1>4, <2>1
    <2>3. QED
      BY <2>1, <2>2
  <1> HIDE DEF T
  <1>6. QED
    BY <1>3, <1>4, <1>5

(* Section::populateSection(): a keyword that is there once has a section. *)
LEMMA SectionIs ==
  ASSUME NEW S, NEW d \in Seq(S), NEW name
  PROVE  /\ Section(d, name) # NoSection => \E p \in 1 .. Len(d) : PlacesOf(d, name) = {p}
         /\ \A p \in 1 .. Len(d) :
              PlacesOf(d, name) = {p} => Section(d, name) = SubSeq(d, p, End(d, p))
         /\ PlacesOf(d, name) = {} => Section(d, name) = << >>
  <1>1. PlacesOf(d, name) \in SUBSET (1 .. Len(d))
    BY DEF PlacesOf
  <1>2. NumKeywords(d, name) = 1 => \E p \in 1 .. Len(d) : PlacesOf(d, name) = {p}
    <2>1. IsFiniteSet(PlacesOf(d, name))
      BY <1>1, FS_Interval, FS_Subset
    <2>2. QED
      BY <1>1, <2>1, FS_Singleton DEF NumKeywords
  <1>3. ASSUME NEW p \in 1 .. Len(d), PlacesOf(d, name) = {p}
        PROVE  Section(d, name) = SubSeq(d, p, End(d, p))
    <2>1. NumKeywords(d, name) = 1
      BY <1>3, FS_Singleton DEF NumKeywords
    <2>2. Min(PlacesOf(d, name)) = p
      <3>1. {p} \in SUBSET Nat /\ {p} # {}
        OBVIOUS
      <3>2. Min({p}) \in {p}
        BY <3>1, MinIs
      <3>3. QED
        BY <1>3, <3>2
    <2>3. {i \in p + 1 .. Len(d) : IsSectionDelimiter(d[i].name)} = {i \in Delimiters(d) : p < i}
      BY DEF Delimiters
    <2>4. QED
      BY <2>1, <2>2, <2>3 DEF Section, End
  <1>4. PlacesOf(d, name) = {} => NumKeywords(d, name) = 0
    BY FS_EmptySet DEF NumKeywords
  <1>5. QED
    BY <1>2, <1>3, <1>4 DEF Section, NoSection

(* A section begins with its name, and no other delimiter is in it. *)
IsBlock(s, name) ==
  s # << >> => s[1].name = name /\ \A i \in 2 .. Len(s) : s[i].name \notin Delimiter

(* Every section is such a block. *)
LEMMA SectionIsBlock ==
  ASSUME NEW S, NEW d \in Seq(S), NEW name \in Delimiter
  PROVE  Section(d, name) \in Seq(S) /\ IsBlock(Section(d, name), name)
  <1>1. CASE Section(d, name) = << >>
    BY <1>1 DEF IsBlock
  <1>2. CASE Section(d, name) # << >>
    <2>1. PICK p \in 1 .. Len(d) : PlacesOf(d, name) = {p}
      BY <1>2, SectionIs DEF NoSection
    <2> DEFINE e == End(d, p)
    <2>2. e \in p .. Len(d) /\ \A i \in p + 1 .. e : i \notin Delimiters(d)
      BY EndIs
    <2>3. Section(d, name) = SubSeq(d, p, e)
      BY <2>1, SectionIs
    <2>4. d[p].name = name
      BY <2>1 DEF PlacesOf
    <2> HIDE DEF e
    <2>5. /\ SubSeq(d, p, e) \in Seq(S) /\ Len(SubSeq(d, p, e)) = e - p + 1
          /\ \A i \in 1 .. e - p + 1 : SubSeq(d, p, e)[i] = d[p + i - 1]
      BY <2>2
    <2>6. SubSeq(d, p, e)[1].name = name
      BY <2>2, <2>4, <2>5
    <2>7. ASSUME NEW i \in 2 .. e - p + 1
          PROVE  SubSeq(d, p, e)[i].name \notin Delimiter
      <3> DEFINE q == p + i - 1
      <3>1. q \in p + 1 .. e /\ q \in 1 .. Len(d) /\ i \in 1 .. e - p + 1
        BY <2>2
      <3>2. SubSeq(d, p, e)[i] = d[q]
        BY <2>5, <3>1
      <3> HIDE DEF q
      <3>3. d[q].name \notin Delimiter
        BY <2>2, <3>1, DelimitersType
      <3>4. QED
        BY <3>2, <3>3
    <2>8. QED
      BY <2>3, <2>5, <2>6, <2>7 DEF IsBlock
  <1>3. QED
    BY <1>1, <1>2
-----------------------------------------------------------------------------
(* A deck that is in order is its sections: the first k of them end before *)
(* the first delimiter that comes later.                                   *)
RanksUp(d) == \A i, j \in Delimiters(d) : i < j => Rank(d[i].name) < Rank(d[j].name)

Above(d, k) == {i \in Delimiters(d) : k < Rank(d[i].name)}

UpTo(d, k) == Min(Above(d, k) \union {Len(d) + 1}) - 1

(* The first delimiter that comes later, or the end of the deck. *)
LEMMA UpToIs ==
  ASSUME NEW S, NEW d \in Seq(S), NEW k \in Nat
  PROVE  /\ UpTo(d, k) \in 0 .. Len(d)
         /\ UpTo(d, k) + 1 \in Above(d, k) \union {Len(d) + 1}
         /\ \A i \in Above(d, k) : UpTo(d, k) + 1 <= i
  <1> DEFINE T == Above(d, k) \union {Len(d) + 1}
  <1>1. T \in SUBSET Nat /\ T # {} /\ \A i \in T : 1 <= i /\ i <= Len(d) + 1
    BY DelimitersType DEF Above
  <1>2. Min(T) \in T /\ \A y \in T : Min(T) <= y
    <2> HIDE DEF T
    <2> QED
      BY <1>1, MinIs
  <1>3. UpTo(d, k) = Min(T) - 1
    BY DEF UpTo
  <1>4. Min(T) \in Nat /\ 1 <= Min(T) /\ Min(T) <= Len(d) + 1
    BY <1>1, <1>2
  <1>5. UpTo(d, k) + 1 = Min(T) /\ UpTo(d, k) \in 0 .. Len(d)
    BY <1>3, <1>4
  <1>6. QED
    BY <1>2, <1>5

(* Two parts of a deck that meet. *)
LEMMA Joined ==
  ASSUME NEW S, NEW d \in Seq(S), NEW a \in Nat, NEW b \in Nat, a <= b, b <= Len(d)
  PROVE  SubSeq(d, 1, a) \o SubSeq(d, a + 1, b) = SubSeq(d, 1, b)
  <1> DEFINE s == SubSeq(d, 1, a)
             t == SubSeq(d, a + 1, b)
             u == SubSeq(d, 1, b)
  <1>1. s \in Seq(S) /\ Len(s) = a /\ \A i \in 1 .. a : s[i] = d[i]
    OBVIOUS
  <1>2. t \in Seq(S) /\ Len(t) = b - a /\ \A i \in 1 .. b - a : t[i] = d[a + i]
    OBVIOUS
  <1>3. u \in Seq(S) /\ Len(u) = b /\ \A i \in 1 .. b : u[i] = d[i]
    OBVIOUS
  <1> HIDE DEF s, t, u
  <1>4. s \o t \in Seq(S) /\ Len(s \o t) = b
    <2>1. s \o t \in Seq(S) /\ Len(s \o t) = Len(s) + Len(t)
      <3>1. s \in Seq(S) /\ t \in Seq(S)
        BY <1>1, <1>2
      <3>2. QED
        BY <3>1
    <2>2. a + (b - a) = b
      OBVIOUS
    <2>3. QED
      BY <1>1, <1>2, <2>1, <2>2
  <1>5. ASSUME NEW i \in 1 .. b
        PROVE  (s \o t)[i] = u[i]
    <2>1. CASE i <= a
      <3>1. i \in 1 .. a
        BY <2>1
      <3>2. (s \o t)[i] = s[i]
        <4>1. s \in Seq(S) /\ t \in Seq(S) /\ i \in 1 .. Len(s)
          BY <1>1, <1>2, <3>1
        <4>2. QED
          BY <4>1
      <3>3. QED
        BY <1>1, <1>3, <3>1, <3>2
    <2>2. CASE a < i
      <3>1. i - a \in 1 .. b - a /\ a + (i - a) = i
        BY <2>2
      <3>2. (s \o t)[i] = t[i - a]
        BY <1>1, <1>2, <2>2, <3>1
      <3>3. t[i - a] = d[i]
        BY <1>2, <3>1
      <3>4. QED
        BY <1>3, <3>2, <3>3
    <2>3. i <= a \/ a < i
      OBVIOUS
    <2>4. QED
      BY <2>1, <2>2, <2>3
  <1> DEFINE w == s \o t
  <1> HIDE DEF w
  <1>6. w \in Seq(S) /\ Len(w) = b /\ \A i \in 1 .. b : w[i] = u[i]
    BY <1>4, <1>5 DEF w
  <1>7. w = u
    BY <1>3, <1>6
  <1>8. QED
    BY <1>7 DEF w, s, t, u

(* One section more is put behind those before it. *)
LEMMA OneMoreSection ==
  ASSUME NEW S, NEW d \in Seq(S), RanksUp(d), NEW name \in Delimiter
  PROVE  SubSeq(d, 1, UpTo(d, Rank(name) - 1)) \o Section(d, name)
           = SubSeq(d, 1, UpTo(d, Rank(name)))
  <1> DEFINE r == Rank(name)
             P == PlacesOf(d, name)
  <1>1. r \in Nat /\ r - 1 \in Nat
    <2>1. \A q \in 1 .. 8 : q \in Nat /\ q - 1 \in Nat
      OBVIOUS
    <2>2. QED
      BY <2>1, RankType
  <1>2. \A i \in Delimiters(d) : Rank(d[i].name) \in 1 .. 8
    BY DelimitersType, RankType
  <1>3. P \subseteq Delimiters(d)
    BY DEF PlacesOf, Delimiters, IsSectionDelimiter
  <1>4. \A i \in Delimiters(d) : i \in P <=> Rank(d[i].name) = r
    BY DelimitersType, RankTells DEF PlacesOf
  <1>5. Above(d, r - 1) = Above(d, r) \union P
    <2> HIDE DEF r, P
    <2> QED
      BY <1>1, <1>2, <1>3, <1>4 DEF Above
  <1>6. CASE P = {}
    <2>1. UpTo(d, r - 1) = UpTo(d, r)
      BY <1>5, <1>6 DEF UpTo
    <2>2. Section(d, name) = << >>
      BY <1>6, SectionIs
    <2>3. UpTo(d, r) \in 0 .. Len(d)
      BY <1>1, UpToIs
    <2>4. SubSeq(d, 1, UpTo(d, r)) \in Seq(S)
      BY <2>3
    <2>5. SubSeq(d, 1, UpTo(d, r)) \o << >> = SubSeq(d, 1, UpTo(d, r))
      BY <2>4
    <2>6. QED
      BY <2>1, <2>2, <2>5
  <1>7. CASE P # {}
    <2>1. PICK p \in P : TRUE
      BY <1>7
    <2>2. p \in Delimiters(d) /\ Rank(d[p].name) = r /\ p \in 1 .. Len(d)
      BY <1>3, <1>4, DelimitersType
    <2>3. ASSUME NEW i \in Delimiters(d)
          PROVE  /\ i < p => Rank(d[i].name) < r
                 /\ p < i => r < Rank(d[i].name)
                 /\ i < p \/ i = p \/ p < i
      <3>1. i \in Nat /\ p \in Nat
        BY <2>2, DelimitersType
      <3>2. QED
        BY <2>2, <3>1 DEF RanksUp
    <2> HIDE DEF r
    <2>4. P = {p}
      <3>1. ASSUME NEW i \in P
            PROVE  i = p
        <4>1. i \in Delimiters(d) /\ Rank(d[i].name) = r
          BY <1>3, <1>4
        <4>2. QED
          BY <1>1, <2>3, <4>1
      <3>2. QED
        BY <2>1, <3>1
    <2>5. Above(d, r) = {i \in Delimiters(d) : p < i}
      <3>1. ASSUME NEW i \in Delimiters(d), r < Rank(d[i].name)
            PROVE  p < i
        <4>1. ~ (i < p) /\ i # p
          BY <1>1, <1>2, <2>2, <2>3, <3>1
        <4>2. QED
          BY <2>3, <4>1
      <3>2. QED
        BY <2>3, <3>1 DEF Above
    <2>6. UpTo(d, r) = End(d, p)
      BY <2>5 DEF UpTo, End
    <2>7. UpTo(d, r - 1) = p - 1
      <3> DEFINE T == Above(d, r) \union {p} \union {Len(d) + 1}
      <3>1. T \in SUBSET Nat /\ T # {} /\ p \in T /\ \A i \in T : p <= i
        BY <2>2, <2>5, DelimitersType
      <3>2. Min(T) \in T /\ \A y \in T : Min(T) <= y
        <4> HIDE DEF T
        <4> QED
          BY <3>1, MinIs
      <3>3. Min(T) = p
        <4>1. p \in Nat
          BY <2>2
        <4> HIDE DEF T
        <4>2. Min(T) \in Nat /\ p <= Min(T) /\ Min(T) <= p
          BY <3>1, <3>2
        <4>3. QED
          BY <4>1, <4>2
      <3>4. UpTo(d, r - 1) = Min(T) - 1
        BY <1>5, <2>4 DEF UpTo
      <3> HIDE DEF T
      <3>5. QED
        BY <3>3, <3>4
    <2>8. Section(d, name) = SubSeq(d, p, End(d, p))
      BY <2>2, <2>4, SectionIs
    <2>9. End(d, p) \in p .. Len(d)
      BY <2>2, EndIs
    <2>10. SubSeq(d, 1, p - 1) \o SubSeq(d, p, End(d, p)) = SubSeq(d, 1, End(d, p))
      <3> DEFINE a == p - 1
                 e == End(d, p)
      <3>1. a \in Nat /\ e \in Nat /\ a <= e /\ e <= Len(d) /\ a + 1 = p
        BY <2>2, <2>9
      <3> HIDE DEF a, e
      <3>2. SubSeq(d, 1, a) \o SubSeq(d, a + 1, e) = SubSeq(d, 1, e)
        BY <3>1, Joined
      <3>3. QED
        BY <3>1, <3>2 DEF a, e
    <2>11. QED
      BY <2>6, <2>7, <2>8, <2>10 DEF r
  <1>8. QED
    BY <1>6, <1>7

(* All eight of them are the deck. *)
LEMMA OrderedIsCovered ==
  ASSUME NEW S, NEW d \in Seq(S), RanksUp(d), 1 \in Delimiters(d)
  PROVE  InSections(d) = d
  <1> DEFINE U(k) == SubSeq(d, 1, UpTo(d, k))
  <1>1. \A name \in Delimiter : U(Rank(name) - 1) \o Section(d, name) = U(Rank(name))
    BY OneMoreSection
  <1>2. Len(d) \in Nat
    OBVIOUS
  <1>3. U(0) = << >>
    <2>1. 1 \in Above(d, 0)
      <3>1. \A r \in 1 .. 8 : 0 < r
        OBVIOUS
      <3>2. QED
        BY <3>1, DelimitersType, RankType DEF Above
    <2>2. UpTo(d, 0) \in Nat /\ UpTo(d, 0) + 1 <= 1
      BY <2>1, UpToIs
    <2>3. UpTo(d, 0) = 0
      BY <2>2
    <2>4. QED
      BY <2>3
  <1>4. U(8) = d
    <2>1. Above(d, 8) = {}
      <3>1. \A r \in 1 .. 8 : ~ (8 < r)
        OBVIOUS
      <3>2. QED
        BY <3>1, DelimitersType, RankType DEF Above
    <2>2. UpTo(d, 8) \in 0 .. Len(d) /\ UpTo(d, 8) + 1 = Len(d) + 1
      BY <2>1, UpToIs
    <2>3. UpTo(d, 8) = Len(d)
      BY <1>2, <2>2
    <2>4. SubSeq(d, 1, Len(d)) = d
      OBVIOUS
    <2>5. QED
      BY <2>3, <2>4
  <1> HIDE DEF U
  <1> DEFINE Step(a, b, name) == U(a) \o Section(d, name) = U(b)
  <1>0. \A name \in Delimiter : Step(Rank(name) - 1, Rank(name), name)
    BY <1>1
  <1>R. /\ 1 - 1 = 0 /\ 2 - 1 = 1 /\ 3 - 1 = 2 /\ 4 - 1 = 3 /\ 5 - 1 = 4 /\ 6 - 1 = 5
        /\ 7 - 1 = 6 /\ 8 - 1 = 7
    OBVIOUS
  <1> HIDE DEF Step
  <1>S. /\ Step(0, 1, "RUNSPEC") /\ Step(1, 2, "GRID") /\ Step(2, 3, "EDIT")
        /\ Step(3, 4, "PROPS") /\ Step(4, 5, "REGIONS") /\ Step(5, 6, "SOLUTION")
        /\ Step(6, 7, "SUMMARY") /\ Step(7, 8, "SCHEDULE")
    <2>1. \A name \in Delimiter : \A a, b : Rank(name) = b /\ b - 1 = a => Step(a, b, name)
      BY <1>0
    <2>2. QED
      BY <2>1, <1>R, RankIs DEF Delimiter
  <1>5. Section(d, "RUNSPEC") = U(1)
    <2>1. << >> \o Section(d, "RUNSPEC") = Section(d, "RUNSPEC")
      <3>1. Section(d, "RUNSPEC") \in Seq(S)
        BY SectionIsBlock DEF Delimiter
      <3>2. QED
        BY <3>1
    <2>2. U(0) \o Section(d, "RUNSPEC") = U(1)
      BY <1>S DEF Step
    <2>3. QED
      BY <1>3, <2>1, <2>2
  <1>6. /\ U(1) \o Section(d, "GRID") = U(2) /\ U(2) \o Section(d, "EDIT") = U(3)
        /\ U(3) \o Section(d, "PROPS") = U(4) /\ U(4) \o Section(d, "REGIONS") = U(5)
        /\ U(5) \o Section(d, "SOLUTION") = U(6) /\ U(6) \o Section(d, "SUMMARY") = U(7)
        /\ U(7) \o Section(d, "SCHEDULE") = U(8)
    BY <1>S DEF Step
  <1>7. QED
    BY <1>4, <1>5, <1>6 DEF InSections

(* What is there once has a section. *)
LEMMA SectionOf ==
  ASSUME NEW S, NEW d \in Seq(S), RanksUp(d), NEW i \in Delimiters(d)
  PROVE  Section(d, d[i].name) # NoSection
  <1>1. i \in 1 .. Len(d) /\ d[i].name \in Delimiter
    BY DelimitersType
  <1>2. PlacesOf(d, d[i].name) = {i}
    <2>1. ASSUME NEW j \in 1 .. Len(d), d[j].name = d[i].name, j # i
          PROVE  FALSE
      <3>1. j \in Delimiters(d)
        BY <1>1, <2>1, DelimitersType
      <3>2. Rank(d[i].name) < Rank(d[i].name)
        <4>1. i < j \/ j < i
          BY <1>1, <2>1
        <4>2. QED
          BY <2>1, <3>1, <4>1 DEF RanksUp
      <3>3. \A r \in 1 .. 8 : ~ (r < r)
        OBVIOUS
      <3>4. QED
        BY <1>1, <3>2, <3>3, RankType
    <2>2. QED
      BY <1>1, <2>1 DEF PlacesOf
  <1>3. Section(d, d[i].name) = SubSeq(d, i, End(d, i)) /\ End(d, i) \in i .. Len(d)
    BY <1>1, <1>2, SectionIs, EndIs
  <1>4. Len(SubSeq(d, i, End(d, i))) = End(d, i) - i + 1
    BY <1>1, <1>3
  <1>5. Len(SubSeq(d, i, End(d, i))) # 0
    BY <1>1, <1>3, <1>4
  <1>6. SubSeq(d, i, End(d, i)) # << >>
    <2>1. Len(<< >>) = 0
      OBVIOUS
    <2>2. QED
      BY <1>5, <2>1
  <1>7. QED
    BY <1>3, <1>6 DEF NoSection

(* The sections that cannot be left out, and that a deck in order has. *)
Required == {"RUNSPEC", "GRID", "PROPS", "SOLUTION", "SCHEDULE"}

LEMMA TopologyCovers ==
  ASSUME NEW S, NEW d \in Seq(S), CheckSectionTopology(d)
  PROVE  InSections(d) = d /\ \A name \in Required : Section(d, name) # NoSection
  <1> DEFINE m == Max(Delimiters(d))
             Has(name) == \E i \in Delimiters(d) : d[i].name = name
  <1>1. d # << >> /\ d[1].name = "RUNSPEC" /\ AllFollow(d) /\ d[m].name = "SCHEDULE"
    BY TopologyIs
  <1>2. 1 \in Delimiters(d)
    <2>1. 1 \in 1 .. Len(d)
      BY <1>1
    <2>2. "RUNSPEC" \in Delimiter
      BY DEF Delimiter
    <2>3. QED
      BY <1>1, <2>1, <2>2, DelimitersType
  <1>3. RanksUp(d)
    BY <1>1, RanksGoUp DEF RanksUp
  <1>4. m \in Delimiters(d) /\ \A i \in Delimiters(d) : i <= m
    <2>1. Len(d) \in Nat /\ Delimiters(d) \in SUBSET (0 .. Len(d)) /\ Delimiters(d) # {}
      BY <1>2, DelimitersType
    <2>2. QED
      BY <2>1, MaxIs
  <1> HIDE DEF m
  <1>5. ASSUME NEW i \in Delimiters(d), d[i].name # "SCHEDULE"
        PROVE  \E j \in Delimiters(d) : d[j].name \in Follows[d[i].name]
    <2>1. i < m
      <3>1. i \in Nat /\ m \in Nat /\ i # m /\ i <= m
        BY <1>1, <1>4, <1>5, DelimitersType
      <3>2. QED
        BY <3>1
    <2>2. PICK k \in Delimiters(d) : Neighbours(d, i, k)
      BY <1>4, <2>1, After
    <2>3. QED
      BY <1>1, <2>2 DEF AllFollow
  <1>6. \A name : Has(name) /\ name # "SCHEDULE" => \E next \in Follows[name] : Has(next)
    BY <1>5
  <1>7. Has("RUNSPEC") /\ Has("SCHEDULE")
    BY <1>1, <1>2, <1>4
  <1>8. \A name : Has(name) => Section(d, name) # NoSection
    BY <1>3, SectionOf
  <1> HIDE DEF Has
  <1>9. Has("GRID")
    BY <1>6, <1>7, FollowsIs
  <1>10. Has("PROPS")
    BY <1>6, <1>9, FollowsIs
  <1>11. Has("SOLUTION")
    BY <1>6, <1>10, FollowsIs
  <1>12. InSections(d) = d
    BY <1>2, <1>3, OrderedIsCovered
  <1>13. QED
    BY <1>7, <1>8, <1>9, <1>10, <1>11, <1>12 DEF Required
-----------------------------------------------------------------------------
(* The other way: sections that are put one behind the other are in order. *)
Reaches(t, name) ==
  /\ t # << >> /\ t[1].name = "RUNSPEC" /\ AllFollow(t)
  /\ \E last \in Delimiters(t) :
       t[last].name = name /\ \A i \in Delimiters(t) : i <= last

(* The first section alone is in order. *)
LEMMA FirstBlock ==
  ASSUME NEW S, NEW s \in Seq(S), s # << >>, IsBlock(s, "RUNSPEC")
  PROVE  Reaches(s, "RUNSPEC")
  <1>1. s[1].name = "RUNSPEC" /\ \A i \in 2 .. Len(s) : s[i].name \notin Delimiter
    BY DEF IsBlock
  <1>2. Len(s) \in Nat /\ 1 \in 1 .. Len(s) /\ "RUNSPEC" \in Delimiter
    BY DEF Delimiter
  <1>3. 1 \in Delimiters(s)
    BY <1>1, <1>2, DelimitersType
  <1>4. ASSUME NEW i \in Delimiters(s)
        PROVE  i = 1
    <2>1. i \in 1 .. Len(s) /\ ~ (i \in 2 .. Len(s))
      BY <1>1, DelimitersType
    <2>2. QED
      BY <1>2, <2>1
  <1>5. Delimiters(s) = {1}
    BY <1>3, <1>4
  <1>6. AllFollow(s)
    <2>1. ~ (1 < 1)
      OBVIOUS
    <2>2. QED
      BY <1>5, <2>1 DEF AllFollow, Neighbours
  <1>7. 1 <= 1
    OBVIOUS
  <1>8. QED
    BY <1>1, <1>5, <1>6, <1>7 DEF Reaches

(* A section that may follow the last one keeps the order. *)
LEMMA NextBlock ==
  ASSUME NEW S, NEW t \in Seq(S), NEW name \in Delimiter, Reaches(t, name),
         NEW s \in Seq(S), NEW next \in Delimiter, IsBlock(s, next), s # << >>,
         next \in Follows[name]
  PROVE  Reaches(t \o s, next)
  <1> DEFINE d == t \o s
             n == Len(t)
             D == Delimiters(d)
  <1>1. d \in Seq(S) /\ Len(d) = n + Len(s) /\ n \in Nat /\ Len(s) \in Nat /\ Len(s) # 0
    OBVIOUS
  <1>2. (\A i \in 1 .. n : d[i] = t[i]) /\ (\A i \in 1 .. Len(s) : d[n + i] = s[i])
    OBVIOUS
  <1>3. s[1].name = next /\ \A i \in 2 .. Len(s) : s[i].name \notin Delimiter
    BY DEF IsBlock
  <1>4. PICK last \in Delimiters(t) :
          t[last].name = name /\ \A i \in Delimiters(t) : i <= last
    BY DEF Reaches
  <1>5. t # << >> /\ t[1].name = "RUNSPEC" /\ AllFollow(t)
    BY DEF Reaches
  <1>6. \A i \in Delimiters(t) : i \in 1 .. n
    BY DelimitersType
  <1> HIDE DEF d, n
  <1>7. n + 1 \in D /\ d[n + 1].name = next
    <2>1. n + 1 \in 1 .. Len(d) /\ 1 \in 1 .. Len(s)
      BY <1>1
    <2>2. d[n + 1].name = next
      BY <1>2, <1>3, <2>1
    <2>3. QED
      BY <1>1, <2>1, <2>2, DelimitersType
  <1>8. ASSUME NEW i \in Delimiters(t)
        PROVE  i \in D /\ d[i] = t[i]
    <2>1. i \in 1 .. n /\ i \in 1 .. Len(d)
      BY <1>1, <1>6
    <2>2. d[i] = t[i] /\ t[i].name \in Delimiter
      BY <1>2, <2>1, DelimitersType
    <2>3. QED
      BY <1>1, <2>1, <2>2, DelimitersType
  <1>9. ASSUME NEW i \in D, i # n + 1
        PROVE  i \in Delimiters(t)
    <2>1. i \in 1 .. Len(d) /\ d[i].name \in Delimiter
      BY <1>1, DelimitersType
    <2>2. i \in 1 .. n
      <3>1. SUFFICES ASSUME ~ (i \in 1 .. n)
                     PROVE  FALSE
        OBVIOUS
      <3> DEFINE q == i - n
      <3>2. q \in 2 .. Len(s) /\ q \in 1 .. Len(s) /\ n + q = i
        BY <1>1, <1>9, <2>1, <3>1
      <3> HIDE DEF q
      <3>3. d[i] = s[q]
        BY <1>2, <3>2
      <3>4. QED
        BY <1>3, <2>1, <3>2, <3>3
    <2>3. d[i] = t[i]
      BY <1>2, <2>2
    <2>4. QED
      BY <2>1, <2>2, <2>3, DelimitersType DEF n
  <1>10. AllFollow(d)
    <2>1. SUFFICES ASSUME NEW i \in D, NEW j \in D, Neighbours(d, i, j)
                   PROVE  d[j].name \in Follows[d[i].name]
      BY DEF AllFollow
    <2>2. i < j /\ \A k \in D : k <= i \/ j <= k
      BY <2>1 DEF Neighbours
    <2>3. i \in Nat /\ j \in Nat /\ last \in 1 .. n
      BY <1>1, <1>6, DelimitersType
    <2>4. i # n + 1
      <3>1. SUFFICES ASSUME i = n + 1
                     PROVE  FALSE
        OBVIOUS
      <3>2. j # n + 1
        BY <2>2, <2>3, <3>1
      <3>3. j \in 1 .. n
        BY <1>6, <1>9, <3>2
      <3>4. QED
        BY <1>1, <2>2, <3>1, <3>3
    <2>5. i \in Delimiters(t) /\ d[i] = t[i]
      BY <1>8, <1>9, <2>4
    <2>6. CASE j = n + 1
      <3>1. last <= i \/ j <= last
        BY <1>8, <2>2
      <3>2. i <= last
        BY <1>4, <2>5
      <3>3. i = last
        BY <1>1, <2>3, <2>6, <3>1, <3>2
      <3>4. QED
        BY <1>4, <1>7, <2>5, <2>6, <3>3
    <2>7. CASE j # n + 1
      <3>1. j \in Delimiters(t) /\ d[j] = t[j]
        BY <1>8, <1>9, <2>7
      <3>2. Neighbours(t, i, j)
        BY <1>8, <2>2 DEF Neighbours
      <3>3. QED
        BY <1>5, <2>5, <3>1, <3>2 DEF AllFollow
    <2>8. QED
      BY <2>6, <2>7
  <1>11. \A i \in D : i <= n + 1
    <2>1. ASSUME NEW i \in D, i # n + 1
          PROVE  i <= n + 1
      <3>1. i \in 1 .. n
        BY <1>6, <1>9, <2>1
      <3>2. QED
        BY <1>1, <3>1
    <2>2. n + 1 <= n + 1
      BY <1>1
    <2>3. QED
      BY <2>1, <2>2
  <1>12. d # << >> /\ d[1].name = "RUNSPEC"
    <2>1. 1 \in 1 .. n
      BY <1>5 DEF n
    <2>2. d[1] = t[1]
      BY <1>2, <2>1
    <2>3. Len(d) # 0
      BY <1>1
    <2>4. QED
      BY <1>5, <2>2, <2>3
  <1>13. Reaches(d, next)
    BY <1>7, <1>10, <1>11, <1>12 DEF Reaches
  <1>14. QED
    BY <1>13 DEF d

(* So a deck that is its sections passes the test. *)
LEMMA CoveredIsOrdered ==
  ASSUME NEW S, NEW d \in Seq(S), InSections(d) = d,
         \A name \in Required : Section(d, name) # NoSection
  PROVE  CheckSectionTopology(d)
  <1> DEFINE s(name) == Section(d, name)
             t1 == s("RUNSPEC")
             t2 == t1 \o s("GRID")
             t3 == t2 \o s("EDIT")
             t4 == t3 \o s("PROPS")
             t5 == t4 \o s("REGIONS")
             t6 == t5 \o s("SOLUTION")
             t7 == t6 \o s("SUMMARY")
             t8 == t7 \o s("SCHEDULE")
  <1>1. \A name \in Delimiter : s(name) \in Seq(S) /\ IsBlock(s(name), name)
    BY SectionIsBlock
  <1>2. \A name \in Required : s(name) # << >>
    BY DEF NoSection
  <1>3. t8 = d
    BY DEF InSections
  <1> HIDE DEF s
  <1>4. ASSUME NEW t \in Seq(S), NEW name \in Delimiter
        PROVE  t \o s(name) \in Seq(S) /\ (s(name) = << >> => t \o s(name) = t)
    <2>1. s(name) \in Seq(S)
      BY <1>1
    <2>2. QED
      BY <2>1
  <1>5. t1 \in Seq(S)
    BY <1>1 DEF Delimiter
  <1> HIDE DEF t1
  <1>6. t2 \in Seq(S)
    BY <1>4, <1>5 DEF Delimiter
  <1> HIDE DEF t2
  <1>7. t3 \in Seq(S)
    BY <1>4, <1>6 DEF Delimiter
  <1> HIDE DEF t3
  <1>8. t4 \in Seq(S)
    BY <1>4, <1>7 DEF Delimiter
  <1> HIDE DEF t4
  <1>9. t5 \in Seq(S)
    BY <1>4, <1>8 DEF Delimiter
  <1> HIDE DEF t5
  <1>10. t6 \in Seq(S)
    BY <1>4, <1>9 DEF Delimiter
  <1> HIDE DEF t6
  <1>11. t7 \in Seq(S)
    BY <1>4, <1>10 DEF Delimiter
  <1> HIDE DEF t7, t8
  <1>12. ASSUME NEW t \in Seq(S), NEW name \in Delimiter, Reaches(t, name),
                NEW next \in Delimiter, next \in Follows[name]
         PROVE  IF s(next) = << >> THEN Reaches(t \o s(next), name)
                                   ELSE Reaches(t \o s(next), next)
    <2>1. s(next) \in Seq(S) /\ IsBlock(s(next), next)
      BY <1>1
    <2>2. CASE s(next) = << >>
      BY <1>4, <1>12, <2>2
    <2>3. CASE s(next) # << >>
      BY <1>12, <2>1, <2>3, NextBlock
    <2>4. QED
      BY <2>2, <2>3
  <1>13. Reaches(t1, "RUNSPEC")
    BY <1>1, <1>2, FirstBlock DEF Delimiter, Required, t1
  <1>14. Reaches(t2, "GRID")
    BY <1>2, <1>5, <1>12, <1>13, FollowsIs DEF Delimiter, Required, t2
  <1>15. Reaches(t3, "GRID") \/ Reaches(t3, "EDIT")
    BY <1>6, <1>12, <1>14, FollowsIs DEF Delimiter, t3
  <1>16. Reaches(t4, "PROPS")
    <2>1. CASE Reaches(t3, "GRID")
      BY <1>2, <1>7, <1>12, <2>1, FollowsIs DEF Delimiter, Required, t4
    <2>2. CASE Reaches(t3, "EDIT")
      BY <1>2, <1>7, <1>12, <2>2, FollowsIs DEF Delimiter, Required, t4
    <2>3. QED
      BY <1>15, <2>1, <2>2
  <1>17. Reaches(t5, "PROPS") \/ Reaches(t5, "REGIONS")
    BY <1>8, <1>12, <1>16, FollowsIs DEF Delimiter, t5
  <1>18. Reaches(t6, "SOLUTION")
    <2>1. CASE Reaches(t5, "PROPS")
      BY <1>2, <1>9, <1>12, <2>1, FollowsIs DEF Delimiter, Required, t6
    <2>2. CASE Reaches(t5, "REGIONS")
      BY <1>2, <1>9, <1>12, <2>2, FollowsIs DEF Delimiter, Required, t6
    <2>3. QED
      BY <1>17, <2>1, <2>2
  <1>19. Reaches(t7, "SOLUTION") \/ Reaches(t7, "SUMMARY")
    BY <1>10, <1>12, <1>18, FollowsIs DEF Delimiter, t7
  <1>20. Reaches(t8, "SCHEDULE")
    <2>1. CASE Reaches(t7, "SOLUTION")
      BY <1>2, <1>11, <1>12, <2>1, FollowsIs DEF Delimiter, Required, t8
    <2>2. CASE Reaches(t7, "SUMMARY")
      BY <1>2, <1>11, <1>12, <2>2, FollowsIs DEF Delimiter, Required, t8
    <2>3. QED
      BY <1>19, <2>1, <2>2
  <1>21. PICK last \in Delimiters(d) :
           d[last].name = "SCHEDULE" /\ \A i \in Delimiters(d) : i <= last
    BY <1>3, <1>20 DEF Reaches
  <1>22. Max(Delimiters(d)) = last
    <2>1. Len(d) \in Nat /\ Delimiters(d) \in SUBSET (0 .. Len(d)) /\ Delimiters(d) # {}
      BY <1>21, DelimitersType
    <2>2. Max(Delimiters(d)) \in Delimiters(d) /\ last <= Max(Delimiters(d))
      BY <1>21, <2>1, MaxIs
    <2>3. Max(Delimiters(d)) \in Nat /\ last \in Nat /\ Max(Delimiters(d)) <= last
      BY <1>21, <2>2, DelimitersType
    <2>4. QED
      BY <2>2, <2>3
  <1>23. d # << >> /\ d[1].name = "RUNSPEC" /\ AllFollow(d)
    BY <1>3, <1>20 DEF Reaches
  <1>24. QED
    BY <1>21, <1>22, <1>23, TopologyIs
-----------------------------------------------------------------------------
(* While a deck is read it stays what it was, and a strict reading that    *)
(* has begun knows whether its sections are in order.                      *)
SectionsInv ==
  /\ deck \in Deck /\ strict \in BOOLEAN
  /\ strict /\ stage # "sections" => (stage # "invalid" <=> CheckSectionTopology(deck))

(* No table brings the deck back to the test of its sections. *)
LEMMA InstalledStage ==
  ASSUME NEW kind, NEW made, Installed(kind, made)
  PROVE  stage' \in {"thrown", "grid", "tables"}
  BY DEF Installed

(* That invariant is inductive. *)
LEMMA SectionsInvHolds == Spec => []SectionsInv
  <1>1. Init => SectionsInv
    BY DEF Init, SectionsInv
  <1>2. SectionsInv /\ [Next]_vars => SectionsInv'
    <2>1. SUFFICES ASSUME SectionsInv, [Next]_vars
                   PROVE  SectionsInv'
      OBVIOUS
    <2>2. CASE CheckTopology
      BY <2>1, <2>2 DEF CheckTopology, SectionsInv
    <2>3. CASE InitPhases
      BY <2>1, <2>3 DEF InitPhases, SectionsInv
    <2>4. CASE InitSimpleTables \/ InitRocktabTables \/ InitFullTables
      <3>1. stage = "tables" /\ deck' = deck /\ strict' = strict
        BY <2>4 DEF InitSimpleTables, InitRocktabTables, InitFullTables
      <3>2. stage' \in {"thrown", "grid", "tables"}
        BY <2>4, InstalledStage DEF InitSimpleTables, InitRocktabTables, InitFullTables
      <3>3. QED
        BY <2>1, <3>1, <3>2 DEF SectionsInv
    <2>5. CASE InitEclipseGrid
      BY <2>1, <2>5 DEF InitEclipseGrid, SectionsInv
    <2>6. CASE UNCHANGED vars
      BY <2>1, <2>6 DEF vars, SectionsInv
    <2>7. QED
      BY <2>1, <2>2, <2>3, <2>4, <2>5, <2>6 DEF Next
  <1>3. QED
    BY <1>1, <1>2, PTL DEF Spec

(* A strict reading goes on exactly if the deck is its sections, one       *)
(* behind the other, with those that cannot be left out:                   *)
(* Section::checkSectionTopology() and Section::populateSection().         *)
THEOREM NothingIsOutsideTheSections == Spec => []SectionsCoverTheDeck
  <1>1. SectionsInv => SectionsCoverTheDeck
    <2>1. SUFFICES ASSUME SectionsInv, strict, stage # "sections"
                   PROVE  (stage # "invalid" <=>
                             /\ InSections(deck) = deck
                             /\ \A name \in Required : Section(deck, name) # NoSection)
      BY DEF SectionsCoverTheDeck, Required
    <2>2. deck \in Seq(Range(deck))
      BY <2>1, DeckAssumption DEF SectionsInv
    <2>3. CheckSectionTopology(deck) <=>
            /\ InSections(deck) = deck
            /\ \A name \in Required : Section(deck, name) # NoSection
      BY <2>2, TopologyCovers, CoveredIsOrdered
    <2>4. QED
      BY <2>1, <2>3 DEF SectionsInv
  <1>2. QED
    BY <1>1, SectionsInvHolds, PTL
-----------------------------------------------------------------------------
(* The parts of a cell's number: its layer and its column. *)
LEMMA Parts ==
  ASSUME NEW a \in Nat \ {0}, NEW x \in Nat
  PROVE  /\ x \div a \in Nat /\ x % a \in Nat /\ x % a < a
         /\ x = a * (x \div a) + (x % a)
  OBVIOUS

(* No other two numbers make up the cell. *)
LEMMA PartsAre ==
  ASSUME NEW a \in Nat \ {0}, NEW q \in Nat, NEW r \in Nat, r < a
  PROVE  (a * q + r) \div a = q /\ (a * q + r) % a = r
  <1> DEFINE x == a * q + r
             p == x \div a
             s == x % a
  <1>1. x \in Nat /\ a \in Nat /\ 0 < a
    OBVIOUS
  <1> HIDE DEF x
  <1>2. p \in Nat /\ s \in Nat /\ s < a /\ x = a * p + s
    BY <1>1, Parts
  <1>3. x = a * q + r
    BY DEF x
  <1> HIDE DEF p, s
  <1>4. ASSUME NEW m \in Nat, NEW n \in Nat, m < n
        PROVE  a * m + a <= a * n
    <2>1. n = m + 1 + (n - m - 1) /\ n - m - 1 \in Nat
      BY <1>4
    <2>2. \A k \in Nat : a * (m + 1 + k) = a * m + a + a * k /\ 0 <= a * k
      BY <1>1
    <2>3. QED
      BY <2>1, <2>2
  <1>5. a * p \in Nat /\ a * q \in Nat
    BY <1>1, <1>2
  <1>6. ~ (p < q)
    <2>1. p < q => a * p + a <= a * q
      BY <1>2, <1>4
    <2>2. QED
      BY <1>1, <1>2, <1>3, <1>5, <2>1
  <1>7. ~ (q < p)
    <2>1. q < p => a * q + a <= a * p
      BY <1>2, <1>4
    <2>2. QED
      BY <1>1, <1>2, <1>3, <1>5, <2>1
  <1>8. p = q
    BY <1>2, <1>6, <1>7
  <1>9. s = r
    BY <1>2, <1>3, <1>5, <1>8
  <1>10. QED
    BY <1>8, <1>9 DEF p, s, x

(* The sizes of a grid are positive. *)
LEMMA DimsAre ==
  ASSUME NEW dims \in [1 .. 3 -> Nat \ {0}]
  PROVE  /\ Area(dims) \in Nat \ {0} /\ Volume(dims) \in Nat
         /\ Volume(dims) = Area(dims) * dims[3]
  <1>1. dims[1] \in Nat \ {0} /\ dims[2] \in Nat \ {0} /\ dims[3] \in Nat \ {0}
    OBVIOUS
  <1>2. \A x, y \in Nat \ {0} : x * y \in Nat \ {0}
    OBVIOUS
  <1>3. QED
    BY <1>1, <1>2 DEF Area, Volume

(* The first layer, and how a cell lies below the one above it. *)
LEMMA FirstLayer ==
  ASSUME NEW dims \in [1 .. 3 -> Nat \ {0}], NEW c \in 1 .. Area(dims)
  PROVE  LayerOf(dims, c) = 1 /\ CellAt(dims, c, 1) = c
  <1> DEFINE a == Area(dims)
  <1>1. a \in Nat \ {0}
    BY DimsAre
  <1>2. c - 1 \in Nat /\ c - 1 < a /\ c \in Nat
    BY <1>1
  <1> HIDE DEF a
  <1>3. (a * 0 + (c - 1)) \div a = 0 /\ (a * 0 + (c - 1)) % a = c - 1
    BY <1>1, <1>2, PartsAre
  <1>4. a * 0 + (c - 1) = c - 1
    BY <1>1, <1>2
  <1>5. LayerOf(dims, c) = 0 + 1 /\ CellAt(dims, c, 1) = (c - 1) + 1 + (1 - 1) * a
    BY <1>3, <1>4 DEF LayerOf, CellAt, a
  <1>6. QED
    BY <1>1, <1>2, <1>5

(* A cell below the first layer has the column of the one above it. *)
LEMMA NextLayer ==
  ASSUME NEW dims \in [1 .. 3 -> Nat \ {0}], NEW c \in Nat, Area(dims) < c
  PROVE  /\ c - Area(dims) \in Nat \ {0}
         /\ LayerOf(dims, c) = LayerOf(dims, c - Area(dims)) + 1
         /\ \A layer : CellAt(dims, c, layer) = CellAt(dims, c - Area(dims), layer)
  <1> DEFINE a == Area(dims)
             x == c - a - 1
             q == x \div a
             r == x % a
  <1>1. a \in Nat \ {0}
    BY DimsAre
  <1>2. x \in Nat /\ c - a \in Nat \ {0} /\ (c - a) - 1 = x
    BY <1>1
  <1> HIDE DEF a, x
  <1>3. q \in Nat /\ r \in Nat /\ r < a /\ x = a * q + r
    BY <1>1, <1>2, Parts
  <1> HIDE DEF q, r
  <1>4. (a * (q + 1) + r) \div a = q + 1 /\ (a * (q + 1) + r) % a = r
    <2>1. q + 1 \in Nat
      BY <1>3
    <2>2. QED
      BY <1>1, <1>3, <2>1, PartsAre
  <1>5. a * (q + 1) + r = c - 1
    <2>1. a * (q + 1) = a * q + a
      BY <1>1, <1>3
    <2>2. c - 1 = x + a
      BY <1>1, <1>2
    <2>3. a * q \in Nat
      BY <1>1, <1>3
    <2>4. QED
      BY <1>1, <1>3, <2>1, <2>2, <2>3
  <1>6. LayerOf(dims, c) = (q + 1) + 1 /\ LayerOf(dims, c - a) = q + 1
    BY <1>2, <1>4, <1>5 DEF LayerOf, a, q
  <1>7. \A layer : CellAt(dims, c, layer) = CellAt(dims, c - a, layer)
    BY <1>2, <1>4, <1>5 DEF CellAt, a, r
  <1>8. QED
    BY <1>2, <1>6, <1>7 DEF a

(* Induction over the cells of a grid, a layer at a time. *)
LEMMA CellInduction ==
  ASSUME NEW a \in Nat \ {0}, NEW size \in Nat, NEW T,
         \A c \in 1 .. size : (a < c => c - a \in T) => c \in T
  PROVE  1 .. size \subseteq T
  <1> DEFINE Rest == {c \in 1 .. size : c \notin T}
  <1>1. SUFFICES ASSUME Rest # {}
                 PROVE  FALSE
    OBVIOUS
  <1>2. PICK c \in Rest : \A y \in Rest : c <= y
    <2>1. Rest \in SUBSET Nat
      OBVIOUS
    <2> HIDE DEF Rest
    <2>2. QED
      BY <1>1, <2>1, NatMin
  <1>3. ASSUME a < c
        PROVE  c - a \in T
    <2>1. c - a \in 1 .. size /\ ~ (c <= c - a)
      BY <1>2, <1>3
    <2>2. QED
      BY <1>2, <2>1
  <1>4. QED
    BY <1>2, <1>3

(* A cell is the one of its column in its layer. *)
LEMMA LayerIs ==
  ASSUME NEW dims \in [1 .. 3 -> Nat \ {0}], NEW c \in 1 .. Volume(dims)
  PROVE  /\ LayerOf(dims, c) \in 1 .. dims[3]
         /\ CellAt(dims, c, LayerOf(dims, c)) = c
  <1> DEFINE a == Area(dims)
             x == c - 1
             q == x \div a
             r == x % a
  <1>1. a \in Nat \ {0} /\ dims[3] \in Nat /\ c <= a * dims[3]
    BY DimsAre
  <1>2. x \in Nat /\ c = x + 1
    BY DimsAre
  <1> HIDE DEF a, x
  <1>3. q \in Nat /\ r \in Nat /\ r < a /\ x = a * q + r
    BY <1>1, <1>2, Parts
  <1>4. LayerOf(dims, c) = q + 1
    BY DEF LayerOf, q, a, x
  <1>5. CellAt(dims, c, q + 1) = r + 1 + ((q + 1) - 1) * a
    BY DEF CellAt, r, a, x
  <1> HIDE DEF q, r
  <1>6. q < dims[3]
    <2>1. SUFFICES ASSUME dims[3] <= q
                   PROVE  FALSE
      BY <1>1, <1>3
    <2>2. q = dims[3] + (q - dims[3]) /\ q - dims[3] \in Nat
      BY <1>1, <1>3, <2>1
    <2>3. \A k \in Nat : a * (dims[3] + k) = a * dims[3] + a * k /\ 0 <= a * k
      BY <1>1
    <2>4. a * dims[3] <= a * q /\ a * dims[3] \in Nat /\ a * q \in Nat
      BY <1>1, <1>3, <2>2, <2>3
    <2>5. QED
      BY <1>1, <1>2, <1>3, <2>4
  <1>7. ((q + 1) - 1) * a = a * q /\ a * q \in Nat
    BY <1>1, <1>3
  <1>8. CellAt(dims, c, q + 1) = c
    BY <1>2, <1>3, <1>5, <1>7
  <1>9. QED
    BY <1>1, <1>3, <1>4, <1>6, <1>8
-----------------------------------------------------------------------------
(* What is computed from the cell above. *)
GoesDown(f, size, n, a, base, step) ==
  \A c \in 1 .. size : f[c] = IF c <= n THEN base[c] ELSE step[c][f[c - a]]

(* It exists, whatever the layers add: by induction over the cells. *)
LEMMA DownwardExists ==
  ASSUME NEW V, NEW a \in Nat \ {0}, NEW size \in Nat, NEW n \in Nat, a <= n,
         NEW base \in [1 .. n -> V], NEW step \in [1 .. size -> [V -> V]]
  PROVE  \E f \in [1 .. size -> V] : GoesDown(f, size, n, a, base, step)
  <1> DEFINE value(f, c) == IF c <= n THEN base[c] ELSE step[c][f[c - a]]
             Goes(f, m) == \A c \in 1 .. m : f[c] = value(f, c)
             U == {m \in Nat : m <= size => \E f \in [1 .. m -> V] : Goes(f, m)}
  <1>1. 0 \in U
    <2>1. [c \in 1 .. 0 |-> c] \in [1 .. 0 -> V] /\ Goes([c \in 1 .. 0 |-> c], 0)
      OBVIOUS
    <2>2. QED
      BY <2>1
  <1>2. ASSUME NEW m \in Nat, m \in U
        PROVE  m + 1 \in U
    <2>1. SUFFICES ASSUME m + 1 <= size
                   PROVE  \E f \in [1 .. m + 1 -> V] : Goes(f, m + 1)
      OBVIOUS
    <2>2. PICK f \in [1 .. m -> V] : Goes(f, m)
      <3>1. m <= size
        BY <2>1
      <3>2. QED
        BY <1>2, <3>1
    <2> DEFINE h == [c \in 1 .. m + 1 |-> IF c = m + 1 THEN value(f, m + 1) ELSE f[c]]
    <2>3. value(f, m + 1) \in V
      <3>1. CASE m + 1 <= n
        <4>1. m + 1 \in 1 .. n
          BY <3>1
        <4>2. QED
          BY <3>1, <4>1
      <3>2. CASE ~ (m + 1 <= n)
        <4>1. m + 1 \in 1 .. size /\ m + 1 - a \in 1 .. m
          BY <2>1, <3>2
        <4>2. step[m + 1] \in [V -> V] /\ f[m + 1 - a] \in V
          BY <4>1
        <4>3. QED
          BY <3>2, <4>2
      <3>3. QED
        BY <3>1, <3>2
    <2>4. h \in [1 .. m + 1 -> V] /\ h[m + 1] = value(f, m + 1) /\ \A c \in 1 .. m : h[c] = f[c]
      <3> HIDE DEF value
      <3> QED
        BY <2>3
    <2> HIDE DEF h
    <2>5. ASSUME NEW c \in 1 .. m + 1
          PROVE  h[c] = value(h, c)
      <3>1. value(h, c) = value(f, c)
        <4>1. CASE c <= n
          BY <4>1
        <4>2. CASE ~ (c <= n)
          <5>1. c - a \in 1 .. m
            BY <4>2
          <5>2. h[c - a] = f[c - a]
            BY <2>4, <5>1
          <5>3. QED
            BY <4>2, <5>2
        <4>3. QED
          BY <4>1, <4>2
      <3>2. CASE c = m + 1
        BY <2>4, <3>1, <3>2
      <3>3. CASE c # m + 1
        <4>1. c \in 1 .. m
          BY <3>3
        <4>2. h[c] = f[c] /\ f[c] = value(f, c)
          BY <2>2, <2>4, <4>1
        <4>3. QED
          BY <3>1, <4>2
      <3>4. QED
        BY <3>2, <3>3
    <2>6. QED
      BY <2>4, <2>5
  <1>3. Nat \subseteq U
    <2> HIDE DEF U
    <2> QED
      BY <1>1, <1>2, NatSet
  <1>4. PICK f \in [1 .. size -> V] : Goes(f, size)
    BY <1>3
  <1>5. QED
    BY <1>4 DEF GoesDown

(* A vector continued downwards. *)
IsVector(f, size) == f = [c \in 1 .. size |-> f[c]]

LEMMA ContinuedIs ==
  ASSUME NEW values, NEW a \in Nat \ {0}, NEW size \in Nat, Len(values) \in a .. size
  PROVE  LET f == Continued(values, size, a)
         IN /\ IsVector(f, size)
            /\ \A c \in 1 .. size :
                 f[c] = IF c <= Len(values) THEN values[c] ELSE f[c - a]
  <1> DEFINE n == Len(values)
             V == {values[c] : c \in 1 .. n}
             base == [c \in 1 .. n |-> values[c]]
             step == [c \in 1 .. size |-> [v \in V |-> v]]
             shape(f) == [c \in 1 .. size |-> IF c <= n THEN values[c] ELSE f[c - a]]
  <1>1. n \in Nat /\ a <= n
    OBVIOUS
  <1>2. base \in [1 .. n -> V] /\ step \in [1 .. size -> [V -> V]]
    OBVIOUS
  <1> HIDE DEF n, V
  <1>3. \E f \in [1 .. size -> V] : GoesDown(f, size, n, a, base, step)
    <2> HIDE DEF base, step
    <2> QED
      BY <1>1, <1>2, DownwardExists
  <1>4. PICK f \in [1 .. size -> V] : GoesDown(f, size, n, a, base, step)
    BY <1>3
  <1>5. ASSUME NEW c \in 1 .. size
        PROVE  f[c] = IF c <= n THEN values[c] ELSE f[c - a]
    <2>1. f[c] = IF c <= n THEN base[c] ELSE step[c][f[c - a]]
      BY <1>4 DEF GoesDown
    <2>2. CASE c <= n
      <3>1. c \in 1 .. n
        BY <1>1, <2>2
      <3>2. QED
        BY <2>1, <2>2, <3>1
    <2>3. CASE ~ (c <= n)
      <3>1. c - a \in 1 .. size
        BY <1>1, <2>3
      <3>2. f[c - a] \in V
        BY <3>1
      <3>3. QED
        BY <2>1, <2>3, <3>2
    <2>4. QED
      BY <2>2, <2>3
  <1>6. f = shape(f)
    BY <1>5
  <1>7. Continued(values, size, a) = CHOOSE g : g = shape(g)
    BY DEF Continued, n
  <1> HIDE DEF shape
  <1>8. Continued(values, size, a) = shape(Continued(values, size, a))
    BY <1>6, <1>7
  <1> DEFINE made == Continued(values, size, a)
  <1>9. made = shape(made)
    BY <1>8
  <1> HIDE DEF made
  <1>10. made = [c \in 1 .. size |-> IF c <= n THEN values[c] ELSE made[c - a]]
    BY <1>9 DEF shape
  <1>11. /\ IsVector(made, size)
         /\ \A c \in 1 .. size : made[c] = IF c <= n THEN values[c] ELSE made[c - a]
    BY <1>10 DEF IsVector
  <1>12. QED
    BY <1>11 DEF made, n

(* What EclipseGrid::createTOPSVector() makes. *)
LEMMA TopsAre ==
  ASSUME NEW d, NEW dims \in [1 .. 3 -> Nat \ {0}], NEW dz \in [1 .. Volume(dims) -> Int],
         GetSIDoubleData(d, "TOPS") \in Seq(Int),
         CreateTOPSVector(dims, dz, d) # NoGrid
  PROVE  LET f == CreateTOPSVector(dims, dz, d)
             tops == GetSIDoubleData(d, "TOPS")
             a == Area(dims)
         IN /\ f \in [1 .. Volume(dims) -> Int]
            /\ \A c \in 1 .. Volume(dims) :
                 f[c] = IF c <= Len(tops) THEN tops[c] ELSE f[c - a] + dz[c - a]
  <1> DEFINE tops == GetSIDoubleData(d, "TOPS")
             a == Area(dims)
             size == Volume(dims)
             n == Len(tops)
             base == [c \in 1 .. n |-> tops[c]]
             up(c) == IF c <= n THEN 0 ELSE dz[c - a]
             step == [c \in 1 .. size |-> [v \in Int |-> v + up(c)]]
             shape(f) == [c \in 1 .. size |-> IF c <= n THEN tops[c] ELSE f[c - a] + dz[c - a]]
             made == CreateTOPSVector(dims, dz, d)
  <1>1. a \in Nat \ {0} /\ size \in Nat /\ n \in Nat /\ a <= n
    <2>1. ~ (n < a)
      BY DEF CreateTOPSVector
    <2>2. a \in Nat \ {0} /\ size \in Nat /\ n \in Nat
      BY DimsAre
    <2> HIDE DEF a, size, n
    <2>3. QED
      BY <2>1, <2>2
  <1>2. made = CHOOSE g : g = shape(g)
    BY <1>1 DEF CreateTOPSVector
  <1>3. dz \in [1 .. size -> Int] /\ tops \in Seq(Int)
    OBVIOUS
  <1>4. base \in [1 .. n -> Int]
    BY <1>3
  <1> HIDE DEF a, size, n, tops, made
  <1>5. \A c \in 1 .. size : up(c) \in Int
    <2>1. ASSUME NEW c \in 1 .. size
          PROVE  up(c) \in Int
      <3>1. CASE c <= n
        BY <3>1
      <3>2. CASE ~ (c <= n)
        <4>1. c - a \in 1 .. size
          BY <1>1, <3>2
        <4>2. dz[c - a] \in Int
          BY <1>3, <4>1
        <4>3. QED
          BY <3>2, <4>2
      <3>3. QED
        BY <3>1, <3>2
    <2> HIDE DEF up
    <2>2. QED
      BY <2>1
  <1>6. step \in [1 .. size -> [Int -> Int]]
    <2> HIDE DEF up
    <2> QED
      BY <1>5
  <1>7. PICK f \in [1 .. size -> Int] : GoesDown(f, size, n, a, base, step)
    <2> HIDE DEF base, step
    <2> QED
      BY <1>1, <1>4, <1>6, DownwardExists
  <1>8. ASSUME NEW g, g = shape(g)
        PROVE  g = f
    <2> DEFINE T == {c \in 1 .. size : g[c] = f[c]}
    <2>1. ASSUME NEW c \in 1 .. size, a < c => c - a \in T
          PROVE  c \in T
      <3>1. g[c] = IF c <= n THEN tops[c] ELSE g[c - a] + dz[c - a]
        BY <1>8
      <3>2. f[c] = IF c <= n THEN base[c] ELSE step[c][f[c - a]]
        BY <1>7 DEF GoesDown
      <3>3. CASE c <= n
        <4>1. c \in 1 .. n
          BY <1>1, <3>3
        <4>2. QED
          BY <3>1, <3>2, <3>3, <4>1
      <3>4. CASE ~ (c <= n)
        <4>1. a < c /\ c - a \in 1 .. size
          BY <1>1, <3>4
        <4>2. g[c - a] = f[c - a] /\ f[c - a] \in Int
          BY <1>7, <2>1, <4>1
        <4>3. step[c][f[c - a]] = f[c - a] + dz[c - a]
          BY <3>4, <4>2
        <4>4. QED
          BY <3>1, <3>2, <3>4, <4>2, <4>3
      <3>5. QED
        BY <3>3, <3>4
    <2>2. 1 .. size \subseteq T
      <3> HIDE DEF T
      <3> QED
        BY <1>1, <2>1, CellInduction
    <2>3. \A c \in 1 .. size : g[c] = f[c]
      BY <2>2
    <2>4. DOMAIN g = 1 .. size /\ g = [c \in 1 .. size |-> g[c]]
      BY <1>8
    <2>5. f = [c \in 1 .. size |-> f[c]]
      BY <1>7
    <2>6. QED
      BY <2>3, <2>4, <2>5
  <1>9. ASSUME NEW c \in 1 .. size
        PROVE  f[c] = IF c <= n THEN tops[c] ELSE f[c - a] + dz[c - a]
    <2>1. f[c] = IF c <= n THEN base[c] ELSE step[c][f[c - a]]
      BY <1>7 DEF GoesDown
    <2>2. CASE c <= n
      <3>1. c \in 1 .. n
        BY <1>1, <2>2
      <3>2. QED
        BY <2>1, <2>2, <3>1
    <2>3. CASE ~ (c <= n)
      <3>1. c - a \in 1 .. size
        BY <1>1, <2>3
      <3>2. f[c - a] \in Int
        BY <1>7, <3>1
      <3>3. step[c][f[c - a]] = f[c - a] + dz[c - a]
        BY <2>3, <3>2
      <3>4. QED
        BY <2>1, <2>3, <3>3
    <2>4. QED
      BY <2>2, <2>3
  <1>10. f = shape(f)
    BY <1>9
  <1> HIDE DEF shape
  <1>11. made = f /\ made = shape(made)
    BY <1>2, <1>8, <1>10
  <1>12. QED
    BY <1>7, <1>9, <1>11 DEF made, a, size, n, tops
-----------------------------------------------------------------------------
(* The cells of a column down to a cell. *)
LEMMA ColumnIs ==
  ASSUME NEW dims \in [1 .. 3 -> Nat \ {0}], NEW c \in 1 .. Volume(dims)
  PROVE  /\ c <= Area(dims) => ColumnTo(dims, c) = {c}
         /\ Area(dims) < c => /\ c - Area(dims) \in 1 .. Volume(dims)
                              /\ ColumnTo(dims, c) = ColumnTo(dims, c - Area(dims)) \union {c}
  <1> DEFINE a == Area(dims)
  <1>1. a \in Nat \ {0} /\ Volume(dims) \in Nat /\ c \in Nat
    BY DimsAre
  <1>2. ASSUME c <= a
        PROVE  ColumnTo(dims, c) = {c}
    <2>1. c \in 1 .. Area(dims)
      BY <1>1, <1>2
    <2>2. LayerOf(dims, c) = 1 /\ CellAt(dims, c, 1) = c
      BY <2>1, FirstLayer
    <2>3. 1 .. 1 = {1}
      OBVIOUS
    <2>4. QED
      BY <2>2, <2>3 DEF ColumnTo
  <1>3. ASSUME a < c
        PROVE  /\ c - a \in 1 .. Volume(dims)
               /\ ColumnTo(dims, c) = ColumnTo(dims, c - a) \union {c}
    <2>1. c - a \in 1 .. Volume(dims)
      BY <1>1, <1>3
    <2> DEFINE q == LayerOf(dims, c - a)
    <2>2. q \in Nat
      <3>1. q \in 1 .. dims[3]
        BY <2>1, LayerIs
      <3>2. QED
        BY <3>1
    <2>3. LayerOf(dims, c) = q + 1 /\ \A layer : CellAt(dims, c, layer) = CellAt(dims, c - a, layer)
      BY <1>1, <1>3, NextLayer
    <2>4. CellAt(dims, c, q + 1) = c
      BY <2>3, LayerIs
    <2> HIDE DEF q
    <2>5. 1 .. q + 1 = (1 .. q) \union {q + 1}
      BY <2>2
    <2>6. ColumnTo(dims, c) = {CellAt(dims, c, layer) : layer \in 1 .. q} \union {c}
      BY <2>3, <2>4, <2>5 DEF ColumnTo
    <2>7. ColumnTo(dims, c - a) = {CellAt(dims, c, layer) : layer \in 1 .. q}
      BY <2>3 DEF ColumnTo, q
    <2>8. QED
      BY <2>1, <2>6, <2>7
  <1>4. QED
    BY <1>2, <1>3

(* A column goes down to its cell. *)
LEMMA ColumnType ==
  ASSUME NEW dims \in [1 .. 3 -> Nat \ {0}]
  PROVE  \A c \in 1 .. Volume(dims) : ColumnTo(dims, c) \subseteq 1 .. c /\ c \in ColumnTo(dims, c)
  <1> DEFINE a == Area(dims)
             size == Volume(dims)
             T == {c \in 1 .. size : ColumnTo(dims, c) \subseteq 1 .. c}
  <1>1. a \in Nat \ {0} /\ size \in Nat
    BY DimsAre
  <1>2. ASSUME NEW c \in 1 .. size, a < c => c - a \in T
        PROVE  c \in T
    <2>1. c \in Nat /\ c \in 1 .. c
      BY <1>1
    <2>2. CASE c <= a
      BY <2>1, <2>2, ColumnIs
    <2>3. CASE a < c
      <3>1. ColumnTo(dims, c) = ColumnTo(dims, c - a) \union {c}
        BY <2>3, ColumnIs
      <3>2. ColumnTo(dims, c - a) \subseteq 1 .. c - a
        BY <1>2, <2>3
      <3>3. 1 .. c - a \subseteq 1 .. c
        BY <1>1, <2>1
      <3>4. QED
        BY <2>1, <3>1, <3>2, <3>3
    <2>4. c <= a \/ a < c
      BY <1>1, <2>1
    <2>5. QED
      BY <2>2, <2>3, <2>4
  <1>3. 1 .. size \subseteq T
    <2> HIDE DEF T, a, size
    <2> QED
      BY <1>1, <1>2, CellInduction
  <1>4. ASSUME NEW c \in 1 .. size
        PROVE  c \in ColumnTo(dims, c)
    <2>1. c <= a \/ a < c
      BY <1>1
    <2>2. QED
      BY <2>1, ColumnIs
  <1>5. QED
    BY <1>3, <1>4

(* A vector continued downwards has the value of the lowest cell given. *)
LEMMA ContinuedTakesTheLowest ==
  ASSUME NEW dims \in [1 .. 3 -> Nat \ {0}], NEW values,
         Len(values) \in Area(dims) .. Volume(dims)
  PROVE  /\ IsVector(Continued(values, Volume(dims), Area(dims)), Volume(dims))
         /\ \A c \in 1 .. Volume(dims) :
              LET o == Max({k \in ColumnTo(dims, c) : k <= Len(values)})
              IN /\ o \in 1 .. Len(values)
                 /\ Continued(values, Volume(dims), Area(dims))[c] = values[o]
  <1> DEFINE a == Area(dims)
             size == Volume(dims)
             n == Len(values)
             f == Continued(values, size, a)
             given(c) == {k \in ColumnTo(dims, c) : k <= n}
             T == {c \in 1 .. size : Max(given(c)) \in 1 .. n /\ f[c] = values[Max(given(c))]}
  <1>1. a \in Nat \ {0} /\ size \in Nat /\ n \in Nat /\ a <= n
    BY DimsAre
  <1>3. IsVector(f, size) /\ \A c \in 1 .. size : f[c] = IF c <= n THEN values[c] ELSE f[c - a]
    BY <1>1, ContinuedIs
  <1> HIDE DEF f
  <1>4. ASSUME NEW c \in 1 .. size, a < c => c - a \in T
        PROVE  c \in T
    <2>1. c \in Nat /\ ColumnTo(dims, c) \subseteq 1 .. c /\ c \in ColumnTo(dims, c)
      BY <1>1, ColumnType
    <2>2. CASE c <= n
      <3>1. given(c) \in SUBSET (0 .. c) /\ c \in given(c) /\ given(c) # {}
        BY <1>1, <2>1, <2>2
      <3> HIDE DEF given
      <3>2. Max(given(c)) \in given(c) /\ c <= Max(given(c))
        BY <2>1, <3>1, MaxIs
      <3>3. Max(given(c)) = c
        BY <2>1, <3>1, <3>2
      <3>4. c \in 1 .. n
        BY <1>1, <2>2
      <3>5. QED
        BY <1>3, <2>2, <3>3, <3>4
    <2>3. CASE ~ (c <= n)
      <3>1. a < c
        BY <1>1, <2>1, <2>3
      <3>2. ColumnTo(dims, c) = ColumnTo(dims, c - a) \union {c}
        BY <3>1, ColumnIs
      <3>3. given(c) = given(c - a)
        BY <2>3, <3>2
      <3>4. f[c] = f[c - a]
        BY <1>3, <2>3
      <3>5. Max(given(c - a)) \in 1 .. n /\ f[c - a] = values[Max(given(c - a))]
        BY <1>4, <3>1
      <3> HIDE DEF given
      <3>6. QED
        BY <3>3, <3>4, <3>5
    <2>4. QED
      BY <2>2, <2>3
  <1>5. 1 .. size \subseteq T
    <2> HIDE DEF T, a, size
    <2> QED
      BY <1>1, <1>4, CellInduction
  <1>6. \A c \in 1 .. size : Max(given(c)) \in 1 .. n /\ f[c] = values[Max(given(c))]
    BY <1>5
  <1>7. QED
    BY <1>3, <1>6 DEF f

(* What EclipseGrid::createDVector() makes. *)
LEMMA DVectorIs ==
  ASSUME NEW dims \in [1 .. 3 -> Nat \ {0}], NEW d, NEW k \in 1 .. 3, NEW key, NEW keyV,
         CreateDVector(dims, k, key, keyV, d) # NoGrid
  PROVE  IsVector(CreateDVector(dims, k, key, keyV, d), Volume(dims))
  <1>1. CASE HasKeyword(d, key)
    <2>1. /\ Len(GetSIDoubleData(d, key)) \in Area(dims) .. Volume(dims)
          /\ CreateDVector(dims, k, key, keyV, d)
               = Continued(GetSIDoubleData(d, key), Volume(dims), Area(dims))
      BY <1>1 DEF CreateDVector
    <2>2. QED
      BY <2>1, ContinuedTakesTheLowest
  <1>2. CASE ~ HasKeyword(d, key)
    <2>1. CreateDVector(dims, k, key, keyV, d) = ScatterDim(dims, k, GetSIDoubleData(d, keyV))
      BY <1>2 DEF CreateDVector
    <2>2. QED
      BY <2>1 DEF ScatterDim, IsVector
  <1>3. QED
    BY <1>1, <1>2

(* The thickness createDVector() finds is the one the deck says. *)
LEMMA ThicknessIs ==
  ASSUME NEW dims \in [1 .. 3 -> Nat \ {0}], NEW d,
         CreateDVector(dims, 3, "DZ", "DZV", d) # NoGrid,
         HasKeyword(d, "DZ") => GetSIDoubleData(d, "DZ") \in Seq(Int),
         ~ HasKeyword(d, "DZ") => GetSIDoubleData(d, "DZV") \in Seq(Int)
  PROVE  \A c \in 1 .. Volume(dims) :
           /\ CreateDVector(dims, 3, "DZ", "DZV", d)[c] = Thickness(d, dims, c)
           /\ Thickness(d, dims, c) \in Int
  <1> DEFINE made == CreateDVector(dims, 3, "DZ", "DZV", d)
  <1>1. SUFFICES ASSUME NEW c \in 1 .. Volume(dims)
                 PROVE  made[c] = Thickness(d, dims, c) /\ Thickness(d, dims, c) \in Int
    OBVIOUS
  <1>2. CASE HasKeyword(d, "DZ")
    <2> DEFINE dz == GetSIDoubleData(d, "DZ")
               o == Max({k \in ColumnTo(dims, c) : k <= Len(dz)})
    <2>1. Len(dz) \in Area(dims) .. Volume(dims) /\ made = Continued(dz, Volume(dims), Area(dims))
      BY <1>2 DEF CreateDVector
    <2>2. o \in 1 .. Len(dz) /\ made[c] = dz[o]
      BY <2>1, ContinuedTakesTheLowest
    <2>3. Thickness(d, dims, c) = dz[o] /\ dz \in Seq(Int)
      BY <1>2 DEF Thickness
    <2> HIDE DEF dz, o, made
    <2>4. QED
      BY <2>2, <2>3
  <1>3. CASE ~ HasKeyword(d, "DZ")
    <2> DEFINE dzv == GetSIDoubleData(d, "DZV")
    <2>1. Len(dzv) = dims[3] /\ made = ScatterDim(dims, 3, dzv)
      BY <1>3 DEF CreateDVector
    <2>2. ScatterDim(dims, 3, dzv)[c] = dzv[LayerOf(dims, c)]
      BY DEF ScatterDim, LayerOf
    <2>3. LayerOf(dims, c) \in 1 .. dims[3]
      BY LayerIs
    <2>4. Thickness(d, dims, c) = dzv[LayerOf(dims, c)] /\ dzv \in Seq(Int)
      BY <1>3 DEF Thickness
    <2> HIDE DEF dzv, made
    <2>5. QED
      BY <2>1, <2>2, <2>3, <2>4
  <1>4. QED
    BY <1>2, <1>3
-----------------------------------------------------------------------------
(* The thickness above a cell is that above the cell on it, and of that    *)
(* cell itself.                                                            *)
IsDown(f, d, dims, c) ==
  f = [layer \in 1 .. LayerOf(dims, c) |->
         IF layer = 1 THEN 0
         ELSE f[layer - 1] + Thickness(d, dims, CellAt(dims, c, layer - 1))]

(* The sum over the cells above a cell exists. *)
LEMMA DownExists ==
  ASSUME NEW dims \in [1 .. 3 -> Nat \ {0}], NEW d,
         \A c \in 1 .. Volume(dims) : Thickness(d, dims, c) \in Int,
         NEW c \in 1 .. Volume(dims)
  PROVE  \E f \in [1 .. LayerOf(dims, c) -> Int] :
           IsDown(f, d, dims, c) /\ ThicknessAbove(d, dims, c) = f[LayerOf(dims, c)]
  <1> DEFINE m == LayerOf(dims, c)
             t(layer) == Thickness(d, dims, CellAt(dims, c, layer - 1))
             add(layer) == IF layer = 1 THEN 0 ELSE t(layer)
             base == [layer \in 1 .. 1 |-> 0]
             step == [layer \in 1 .. m |-> [v \in Int |-> v + add(layer)]]
             shape(f) == [layer \in 1 .. m |-> IF layer = 1 THEN 0 ELSE f[layer - 1] + t(layer)]
             down == CHOOSE f : f = shape(f)
  <1>1. m \in Nat
    <2>1. m \in 1 .. dims[3] /\ dims[3] \in Nat
      BY LayerIs
    <2>2. QED
      BY <2>1
  <1>2. \A layer \in 1 .. m : Thickness(d, dims, CellAt(dims, c, layer)) \in Int
    <2>1. ASSUME NEW layer \in 1 .. m
          PROVE  CellAt(dims, c, layer) \in 1 .. Volume(dims)
      <3>1. CellAt(dims, c, layer) \in ColumnTo(dims, c)
        BY DEF ColumnTo
      <3>2. ColumnTo(dims, c) \subseteq 1 .. c
        BY ColumnType
      <3>3. Volume(dims) \in Nat
        BY DimsAre
      <3>4. 1 .. c \subseteq 1 .. Volume(dims)
        BY <3>3
      <3>5. QED
        BY <3>1, <3>2, <3>4
    <2>2. QED
      BY <2>1
  <1>3. ThicknessAbove(d, dims, c) = down[m]
    BY DEF ThicknessAbove
  <1> HIDE DEF m
  <1>4. \A layer \in 1 .. m : layer # 1 => t(layer) \in Int
    <2>1. ASSUME NEW layer \in 1 .. m, layer # 1
          PROVE  layer - 1 \in 1 .. m
      BY <1>1, <2>1
    <2>2. QED
      BY <1>2, <2>1
  <1> HIDE DEF t
  <1>5. \A layer \in 1 .. m : add(layer) \in Int
    BY <1>4
  <1>6. base \in [1 .. 1 -> Int] /\ step \in [1 .. m -> [Int -> Int]]
    <2> HIDE DEF add
    <2> QED
      BY <1>5
  <1>7. PICK f \in [1 .. m -> Int] : GoesDown(f, m, 1, 1, base, step)
    <2>1. 1 \in Nat \ {0} /\ 1 \in Nat /\ 1 <= 1
      OBVIOUS
    <2> HIDE DEF base, step
    <2>2. QED
      BY <1>1, <1>6, <2>1, DownwardExists
  <1>8. ASSUME NEW layer \in 1 .. m
        PROVE  f[layer] = IF layer = 1 THEN 0 ELSE f[layer - 1] + t(layer)
    <2>1. f[layer] = IF layer <= 1 THEN base[layer] ELSE step[layer][f[layer - 1]]
      BY <1>7 DEF GoesDown
    <2>2. CASE layer = 1
      <3>1. layer <= 1 /\ base[layer] = 0
        BY <2>2
      <3>2. QED
        BY <2>1, <2>2, <3>1
    <2>3. CASE layer # 1
      <3>1. ~ (layer <= 1) /\ layer - 1 \in 1 .. m
        BY <1>1, <2>3
      <3>2. f[layer - 1] \in Int
        BY <1>7, <3>1
      <3>3. step[layer][f[layer - 1]] = f[layer - 1] + t(layer)
        BY <2>3, <3>2
      <3>4. QED
        BY <2>1, <2>3, <3>1, <3>3
    <2>4. QED
      BY <2>2, <2>3
  <1>9. f = shape(f)
    BY <1>8
  <1>10. ASSUME NEW g, g = shape(g)
         PROVE  g = f
    <2> DEFINE T == {layer \in 1 .. m : g[layer] = f[layer]}
    <2>1. \A layer \in 1 .. m : g[layer] = IF layer = 1 THEN 0 ELSE g[layer - 1] + t(layer)
      BY <1>10
    <2>2. ASSUME NEW layer \in 1 .. m, 1 < layer => layer - 1 \in T
          PROVE  layer \in T
      <3>1. CASE layer = 1
        BY <1>8, <2>1, <3>1
      <3>2. CASE layer # 1
        <4>1. 1 < layer
          BY <3>2
        <4>2. g[layer - 1] = f[layer - 1]
          BY <2>2, <4>1
        <4>3. QED
          BY <1>8, <2>1, <3>2, <4>2
      <3>3. QED
        BY <3>1, <3>2
    <2>3. 1 .. m \subseteq T
      <3>1. 1 \in Nat \ {0}
        OBVIOUS
      <3> HIDE DEF T
      <3>2. QED
        BY <1>1, <2>2, <3>1, CellInduction
    <2>4. \A layer \in 1 .. m : g[layer] = f[layer]
      BY <2>3
    <2>5. g = [layer \in 1 .. m |-> g[layer]]
      BY <1>10
    <2>6. f = [layer \in 1 .. m |-> f[layer]]
      BY <1>7
    <2>7. QED
      BY <2>4, <2>5, <2>6
  <1> HIDE DEF shape
  <1>11. down = f
    BY <1>9, <1>10
  <1>12. IsDown(f, d, dims, c)
    BY <1>9 DEF IsDown, shape, m, t
  <1> HIDE DEF down
  <1>13. QED
    BY <1>3, <1>7, <1>11, <1>12 DEF m

(* It grows by one layer from a cell to the next one down. *)
LEMMA ThicknessAboveIs ==
  ASSUME NEW dims \in [1 .. 3 -> Nat \ {0}], NEW d,
         \A c \in 1 .. Volume(dims) : Thickness(d, dims, c) \in Int,
         NEW c \in 1 .. Volume(dims)
  PROVE  /\ ThicknessAbove(d, dims, c) \in Int
         /\ c <= Area(dims) => ThicknessAbove(d, dims, c) = 0
         /\ Area(dims) < c =>
              ThicknessAbove(d, dims, c)
                = ThicknessAbove(d, dims, c - Area(dims)) + Thickness(d, dims, c - Area(dims))
  <1> DEFINE a == Area(dims)
             m == LayerOf(dims, c)
  <1>1. a \in Nat \ {0} /\ Volume(dims) \in Nat /\ c \in Nat
    BY DimsAre
  <1>2. m \in Nat /\ m \in 1 .. m
    <2>1. m \in 1 .. dims[3] /\ dims[3] \in Nat
      BY LayerIs
    <2>2. QED
      BY <2>1
  <1>3. PICK f \in [1 .. m -> Int] :
          IsDown(f, d, dims, c) /\ ThicknessAbove(d, dims, c) = f[m]
    BY DownExists
  <1>4. \A layer \in 1 .. m :
          f[layer] = IF layer = 1 THEN 0
                     ELSE f[layer - 1] + Thickness(d, dims, CellAt(dims, c, layer - 1))
    BY <1>3 DEF IsDown
  <1> HIDE DEF m
  <1>5. ThicknessAbove(d, dims, c) \in Int
    BY <1>2, <1>3
  <1>6. ASSUME c <= a
        PROVE  ThicknessAbove(d, dims, c) = 0
    <2>1. c \in 1 .. Area(dims)
      BY <1>1, <1>6
    <2>2. m = 1
      BY <2>1, FirstLayer DEF m
    <2>3. QED
      BY <1>2, <1>3, <1>4, <2>2
  <1>7. ASSUME a < c
        PROVE  ThicknessAbove(d, dims, c)
                 = ThicknessAbove(d, dims, c - a) + Thickness(d, dims, c - a)
    <2> DEFINE b == c - a
               q == LayerOf(dims, b)
    <2>1. b \in 1 .. Volume(dims)
      BY <1>1, <1>7
    <2>2. m = q + 1 /\ \A layer : CellAt(dims, c, layer) = CellAt(dims, b, layer)
      BY <1>1, <1>7, NextLayer DEF m
    <2> HIDE DEF b
    <2>3. q \in Nat /\ q \in 1 .. q
      <3>1. q \in 1 .. dims[3] /\ dims[3] \in Nat
        BY <2>1, LayerIs
      <3>2. QED
        BY <3>1
    <2>4. PICK g \in [1 .. q -> Int] :
            IsDown(g, d, dims, b) /\ ThicknessAbove(d, dims, b) = g[q]
      BY <2>1, DownExists
    <2>5. \A layer \in 1 .. q :
            g[layer] = IF layer = 1 THEN 0
                       ELSE g[layer - 1] + Thickness(d, dims, CellAt(dims, b, layer - 1))
      BY <2>4 DEF IsDown
    <2>6. CellAt(dims, b, q) = b
      BY <2>1, LayerIs
    <2> HIDE DEF q
    <2> DEFINE T == {layer \in 1 .. q : f[layer] = g[layer]}
    <2>7. ASSUME NEW layer \in 1 .. q, 1 < layer => layer - 1 \in T
          PROVE  layer \in T
      <3>1. layer \in 1 .. m
        BY <2>2, <2>3
      <3>2. CASE layer = 1
        BY <1>4, <2>5, <3>1, <3>2
      <3>3. CASE layer # 1
        <4>1. 1 < layer
          BY <3>3
        <4>2. f[layer - 1] = g[layer - 1]
          BY <2>7, <4>1
        <4>3. QED
          BY <1>4, <2>2, <2>5, <3>1, <3>3, <4>2
      <3>4. QED
        BY <3>2, <3>3
    <2>8. 1 .. q \subseteq T
      <3>1. 1 \in Nat \ {0}
        OBVIOUS
      <3> HIDE DEF T
      <3>2. QED
        BY <2>3, <2>7, <3>1, CellInduction
    <2>9. f[q] = g[q]
      BY <2>3, <2>8
    <2>10. m # 1 /\ m - 1 = q
      BY <2>2, <2>3
    <2>11. f[m] = f[q] + Thickness(d, dims, b)
      BY <1>2, <1>4, <2>2, <2>6, <2>10
    <2>12. QED
      BY <1>3, <2>4, <2>9, <2>11 DEF b
  <1>8. QED
    BY <1>5, <1>6, <1>7

(* What EclipseGrid::initDTOPSGrid() makes is stacked. *)
LEMMA DTOPSGridIsStacked ==
  ASSUME NEW dims \in [1 .. 3 -> Nat \ {0}], NEW d,
         GetSIDoubleData(d, "TOPS") \in Seq(Int),
         HasKeyword(d, "DZ") => GetSIDoubleData(d, "DZ") \in Seq(Int),
         ~ HasKeyword(d, "DZ") => GetSIDoubleData(d, "DZV") \in Seq(Int),
         InitDTOPSGrid(dims, d) # NoGrid
  PROVE  Stacked(d, dims, InitDTOPSGrid(dims, d))
  <1> DEFINE dx == CreateDVector(dims, 1, "DX", "DXV", d)
             dy == CreateDVector(dims, 2, "DY", "DYV", d)
             dz == CreateDVector(dims, 3, "DZ", "DZV", d)
             tops == CreateTOPSVector(dims, dz, d)
             shape == InitDTOPSGrid(dims, d)
             a == Area(dims)
             size == Volume(dims)
             given == GetSIDoubleData(d, "TOPS")
             thick(c) == Thickness(d, dims, c)
             above(c) == ThicknessAbove(d, dims, c)
  <1>1. /\ dx # NoGrid /\ dy # NoGrid /\ dz # NoGrid /\ tops # NoGrid
        /\ shape = [geometry |-> "tops", dx |-> dx, dy |-> dy, dz |-> dz, tops |-> tops]
    BY DEF InitDTOPSGrid
  <1>2. a \in Nat \ {0} /\ size \in Nat
    BY DimsAre
  <1>3. IsVector(dx, size) /\ IsVector(dy, size) /\ IsVector(dz, size)
    <2>1. 1 \in 1 .. 3 /\ 2 \in 1 .. 3 /\ 3 \in 1 .. 3
      OBVIOUS
    <2>2. QED
      BY <1>1, <2>1, DVectorIs
  <1>4. \A c \in 1 .. size : dz[c] = thick(c) /\ thick(c) \in Int
    BY <1>1, ThicknessIs
  <1>5. /\ tops \in [1 .. size -> Int]
        /\ \A c \in 1 .. size :
             tops[c] = IF c <= Len(given) THEN given[c] ELSE tops[c - a] + dz[c - a]
    <2> HIDE DEF dz, thick
    <2>1. dz \in [1 .. size -> Int]
      BY <1>3, <1>4 DEF IsVector
    <2>2. QED
      BY <1>1, <2>1, TopsAre
  <1>6. \A c \in 1 .. size :
          /\ above(c) \in Int
          /\ c <= a => above(c) = 0
          /\ a < c => above(c) = above(c - a) + thick(c - a)
    BY <1>4, ThicknessAboveIs
  <1>7. /\ shape.dx = dx /\ shape.dy = dy /\ shape.dz = dz /\ shape.tops = tops
        /\ \A f \in {"dx", "dy", "dz", "tops"} : DOMAIN shape[f] = 1 .. size
    <2> HIDE DEF dx, dy, dz, tops, shape, size
    <2>1. DOMAIN dx = 1 .. size /\ DOMAIN dy = 1 .. size /\ DOMAIN dz = 1 .. size
      BY <1>3 DEF IsVector
    <2>2. DOMAIN tops = 1 .. size
      BY <1>5
    <2>3. QED
      BY <1>1, <2>1, <2>2
  <1> HIDE DEF dx, dy, dz, tops, shape, thick, above
  <1>8. ASSUME Len(given) = a
        PROVE  \A c \in 1 .. size : tops[c] = tops[CellAt(dims, c, 1)] + above(c)
    <2> DEFINE T == {c \in 1 .. size : tops[c] = tops[CellAt(dims, c, 1)] + above(c)}
    <2>1. ASSUME NEW c \in 1 .. size, a < c => c - a \in T
          PROVE  c \in T
      <3>1. c \in Nat /\ tops[c] \in Int
        <4>1. c \in Nat
          BY <1>2
        <4>2. tops[c] \in Int
          BY <1>5
        <4>3. QED
          BY <4>1, <4>2
      <3>2. tops[c] = IF c <= a THEN given[c] ELSE tops[c - a] + dz[c - a]
        BY <1>5, <1>8
      <3>3. CASE c <= a
        <4>1. c \in 1 .. Area(dims)
          BY <3>1, <3>3
        <4>2. CellAt(dims, c, 1) = c
          BY <4>1, FirstLayer
        <4>3. above(c) = 0
          BY <1>6, <3>3
        <4>4. tops[c] = tops[c] + 0
          BY <3>1
        <4>5. QED
          BY <4>2, <4>3, <4>4
      <3>4. CASE ~ (c <= a)
        <4> DEFINE b == c - a
        <4>1. a < c /\ b \in 1 .. size
          <5>1. c <= size
            OBVIOUS
          <5> HIDE DEF a, size, T
          <5>2. QED
            BY <1>2, <3>1, <3>4, <5>1
        <4>2. CellAt(dims, c, 1) = CellAt(dims, b, 1)
          BY <3>1, <4>1, NextLayer
        <4>3. b \in T
          BY <2>1, <4>1
        <4>4. tops[c] = tops[b] + dz[b] /\ above(c) = above(b) + thick(b)
          BY <1>6, <3>2, <3>4, <4>1
        <4> HIDE DEF b
        <4> DEFINE top == CellAt(dims, b, 1)
        <4>5. tops[b] = tops[top] + above(b) /\ dz[b] = thick(b)
          BY <1>4, <4>1, <4>3
        <4>6. tops[top] \in Int
          <5>1. LayerOf(dims, b) \in 1 .. dims[3] /\ dims[3] \in Nat
            BY <4>1, LayerIs
          <5>2. 1 \in 1 .. LayerOf(dims, b)
            BY <5>1
          <5>3. top \in ColumnTo(dims, b)
            BY <5>2 DEF ColumnTo
          <5>4. top \in 1 .. b
            BY <4>1, <5>3, ColumnType
          <5>5. top \in 1 .. size
            BY <1>2, <4>1, <5>4
          <5>6. QED
            BY <1>5, <5>5
        <4>7. above(b) \in Int /\ thick(b) \in Int
          BY <1>4, <1>6, <4>1
        <4> HIDE DEF top, T
        <4>8. tops[c] = tops[top] + above(c)
          BY <4>4, <4>5, <4>6, <4>7
        <4>9. QED
          BY <4>2, <4>8 DEF T, top
      <3>5. QED
        BY <3>3, <3>4
    <2>2. 1 .. size \subseteq T
      <3> HIDE DEF T, a, size
      <3> QED
        BY <1>2, <2>1, CellInduction
    <2>3. QED
      BY <2>2
  <1>9. Stacked(d, dims, shape)
    BY <1>4, <1>7, <1>8 DEF Stacked, thick, above
  <1>10. QED
    BY <1>9 DEF shape
-----------------------------------------------------------------------------
(* A keyword that is found is one of those looked through. *)
LEMMA KeywordIs ==
  ASSUME NEW S, NEW d \in Seq(S), NEW name, HasKeyword(d, name)
  PROVE  \E i \in 1 .. Len(d) : d[i].name = name /\ GetKeyword(d, name) = d[i]
  <1> DEFINE P == PlacesOf(d, name)
  <1>1. P \in SUBSET (0 .. Len(d)) /\ \A i \in P : i \in 1 .. Len(d) /\ d[i].name = name
    BY DEF PlacesOf
  <1>2. P # {}
    <2>1. Cardinality(P) > 0
      BY DEF HasKeyword, NumKeywords
    <2>2. Cardinality({}) = 0
      BY FS_EmptySet
    <2> HIDE DEF P
    <2>3. P # {}
      BY <2>1, <2>2
    <2>4. QED
      BY <2>3
  <1>3. Len(d) \in Nat
    OBVIOUS
  <1> HIDE DEF P
  <1>4. Max(P) \in P
    BY <1>1, <1>2, <1>3, MaxIs
  <1>5. GetKeyword(d, name) = d[Max(P)]
    BY DEF GetKeyword, P
  <1>6. QED
    BY <1>1, <1>4, <1>5

(* The size of a grid is read from a keyword of the deck. *)
LEMMA DimsKeywordIs ==
  ASSUME NEW d \in Deck, DimsKeyword(d) # NoGrid
  PROVE  GetDims(DimsKeyword(d)) \in [1 .. 3 -> Nat \ {0}]
  <1> DEFINE S == Range(d)
             runspec == Section(d, "RUNSPEC")
             keyword == DimsKeyword(d)
  <1>1. d \in Seq(S)
    BY DeckAssumption
  <1>2. \A k \in S : \E i \in DOMAIN d : d[i] = k
    BY DEF Range
  <1>3. runspec \in Seq(S)
    <2>1. "RUNSPEC" \in Delimiter
      BY DEF Delimiter
    <2> HIDE DEF S
    <2>2. QED
      BY <1>1, <2>1, SectionIsBlock
  <1>4. \/ HasKeyword(runspec, "DIMENS") /\ keyword = GetKeyword(runspec, "DIMENS")
        \/ HasKeyword(d, "SPECGRID") /\ keyword = GetKeyword(d, "SPECGRID")
        \/ HasKeyword(d, "DIMENS") /\ keyword = GetKeyword(d, "DIMENS")
    BY DEF DimsKeyword
  <1> HIDE DEF S, runspec, keyword
  <1>5. keyword \in S /\ keyword.name \in {"DIMENS", "SPECGRID"}
    <2>1. CASE HasKeyword(runspec, "DIMENS") /\ keyword = GetKeyword(runspec, "DIMENS")
      BY <1>3, <2>1, KeywordIs
    <2>2. CASE HasKeyword(d, "SPECGRID") /\ keyword = GetKeyword(d, "SPECGRID")
      BY <1>1, <2>2, KeywordIs
    <2>3. CASE HasKeyword(d, "DIMENS") /\ keyword = GetKeyword(d, "DIMENS")
      BY <1>1, <2>3, KeywordIs
    <2>4. QED
      BY <1>4, <2>1, <2>2, <2>3
  <1>6. PICK i \in DOMAIN d : d[i] = keyword
    BY <1>2, <1>5
  <1>7. QED
    BY <1>5, <1>6, DeckAssumption DEF keyword

(* The numbers of such a keyword are integers. *)
LEMMA DataIs ==
  ASSUME NEW d \in Deck, NEW name \in {"DZ", "DZV", "TOPS"}, HasKeyword(d, name)
  PROVE  GetSIDoubleData(d, name) \in Seq(Int)
  <1>1. d \in Seq(Range(d))
    BY DeckAssumption
  <1>2. PICK i \in 1 .. Len(d) : d[i].name = name /\ GetKeyword(d, name) = d[i]
    BY <1>1, KeywordIs
  <1>3. i \in DOMAIN d
    BY <1>1
  <1>4. SIDoubleData(d[i]) \in Seq(Int)
    BY <1>2, <1>3, DeckAssumption
  <1>5. QED
    BY <1>2, <1>4 DEF GetSIDoubleData

(* Of the three geometries only this one is called "tops". *)
LEMMA MadeGridIsStacked ==
  ASSUME NEW d \in Deck, MakeGrid(d) # NoGrid, MakeGrid(d).shape.geometry = "tops"
  PROVE  Stacked(d, MakeGrid(d).dims, MakeGrid(d).shape)
  <1> DEFINE dims == GetDims(DimsKeyword(d))
  <1>1. DimsKeyword(d) # NoGrid /\ MakeGrid(d) = InitGrid(dims, d)
    BY DEF MakeGrid
  <1>2. dims \in [1 .. 3 -> Nat \ {0}]
    BY <1>1, DimsKeywordIs
  <1> HIDE DEF dims
  <1> DEFINE shape == IF HasCornerPointKeywords(d) THEN InitCornerPointGrid(dims, d)
                      ELSE InitCartesianGrid(dims, d)
  <1>3. shape # NoGrid /\ MakeGrid(d).dims = dims /\ MakeGrid(d).shape = shape
    BY <1>1 DEF InitGrid
  <1>4. shape.geometry = "tops"
    BY <1>3
  <1>5. ~ HasCornerPointKeywords(d)
    <2>1. SUFFICES ASSUME HasCornerPointKeywords(d)
                   PROVE  FALSE
      OBVIOUS
    <2>2. shape = InitCornerPointGrid(dims, d) /\ InitCornerPointGrid(dims, d) # NoGrid
      BY <1>3, <2>1
    <2>3. InitCornerPointGrid(dims, d).geometry = "corner point"
      BY <2>2 DEF InitCornerPointGrid
    <2> HIDE DEF shape
    <2>4. QED
      BY <1>4, <2>2, <2>3
  <1>6. ~ HasDVDEPTHZKeywords(d)
    <2>1. SUFFICES ASSUME HasDVDEPTHZKeywords(d)
                   PROVE  FALSE
      OBVIOUS
    <2>2. shape = InitDVDEPTHZGrid(dims, d) /\ InitDVDEPTHZGrid(dims, d) # NoGrid
      BY <1>3, <1>5, <2>1 DEF InitCartesianGrid
    <2>3. InitDVDEPTHZGrid(dims, d).geometry = "depthz"
      BY <2>2 DEF InitDVDEPTHZGrid
    <2> HIDE DEF shape
    <2>4. QED
      BY <1>4, <2>2, <2>3
  <1>7. HasDTOPSKeywords(d) /\ shape = InitDTOPSGrid(dims, d)
    BY <1>3, <1>5, <1>6 DEF InitCartesianGrid
  <1>8. HasKeyword(d, "TOPS") /\ (HasKeyword(d, "DZ") \/ HasKeyword(d, "DZV"))
    BY <1>7 DEF HasDTOPSKeywords
  <1> HIDE DEF shape
  <1>9. GetSIDoubleData(d, "TOPS") \in Seq(Int)
    BY <1>8, DataIs
  <1>10. HasKeyword(d, "DZ") => GetSIDoubleData(d, "DZ") \in Seq(Int)
    BY DataIs
  <1>11. ~ HasKeyword(d, "DZ") => GetSIDoubleData(d, "DZV") \in Seq(Int)
    BY <1>8, DataIs
  <1>12. Stacked(d, dims, InitDTOPSGrid(dims, d))
    BY <1>2, <1>3, <1>7, <1>9, <1>10, <1>11, DTOPSGridIsStacked
  <1>13. QED
    BY <1>3, <1>7, <1>12

(* The grid is that of the deck. *)
GridInv == deck \in Deck /\ (grid # NoGrid => grid = MakeGrid(deck))

(* That invariant is inductive. *)
LEMMA GridInvHolds == Spec => []GridInv
  <1>1. Init => GridInv
    BY DEF Init, GridInv
  <1>2. GridInv /\ [Next]_vars => GridInv'
    <2>1. SUFFICES ASSUME GridInv, [Next]_vars
                   PROVE  GridInv'
      OBVIOUS
    <2>2. CASE InitEclipseGrid
      BY <2>1, <2>2 DEF InitEclipseGrid, GridInv
    <2>3. CASE ~ InitEclipseGrid
      <3>1. deck' = deck /\ grid' = grid
        BY <2>1, <2>3 DEF Next, vars, CheckTopology, InitPhases, InitSimpleTables,
                          InitRocktabTables, InitFullTables
      <3>2. QED
        BY <2>1, <3>1 DEF GridInv
    <2>4. QED
      BY <2>2, <2>3
  <1>3. QED
    BY <1>1, <1>2, PTL DEF Spec

(* Every cell lies below the cells of its column, whose layers are as      *)
(* thick as the deck says: EclipseGrid::initDTOPSGrid().                   *)
THEOREM CellsLieBelowTheirColumn == Spec => []CellsAreStacked
  <1>1. GridInv => CellsAreStacked
    BY MadeGridIsStacked DEF GridInv, CellsAreStacked
  <1>2. QED
    BY <1>1, GridInvHolds, PTL

-----------------------------------------------------------------------------
(* Evaluation: the interval that halving finds. *)
(* The row in the middle of what is left of the column, and one step of   *)
(* the search on it.                                                       *)
Middle(b) == (b[1] + b[2] - 2) \div 2 + 1

Halves(f, xs, descending, x, b) ==
  IF b[1] + 1 >= b[2] THEN Middle(b)
  ELSE IF (xs[Middle(b)].si < x) # descending
         THEN f[<<Middle(b), b[2]>>]
         ELSE f[<<b[1], Middle(b)>>]

(* The middle lies strictly between the ends, while there is a row there.  *)
LEMMA MiddleIs ==
  ASSUME NEW i \in Nat \ {0}, NEW j \in Nat \ {0}
  PROVE  /\ i + 1 < j => Middle(<<i, j>>) \in i + 1 .. j - 1
         /\ i + 1 = j => Middle(<<i, j>>) = i
  <1> DEFINE k == i + j - 2
  <1>1. Middle(<<i, j>>) = k \div 2 + 1 /\ k \in Nat
    BY DEF Middle
  <1>2. k \div 2 \in Nat /\ 2 * (k \div 2) <= k /\ k <= 2 * (k \div 2) + 1
    BY <1>1
  <1>3. ASSUME i + 1 < j
        PROVE  Middle(<<i, j>>) \in i + 1 .. j - 1
    BY <1>1, <1>2, <1>3
  <1>4. ASSUME i + 1 = j
        PROVE  Middle(<<i, j>>) = i
    BY <1>1, <1>2, <1>4
  <1>5. QED
    BY <1>3, <1>4

(* f is the search that Interval makes in a column of n rows. *)
Searches(f, xs, n, descending, x) ==
  /\ Interval(xs, descending, x) = f[<<1, n>>]
  /\ \A b \in (1 .. n) \X (1 .. n) : f[b] = Halves(f, xs, descending, x, b)

(* The search exists, by induction over the width of what is left. *)
LEMMA IntervalIs ==
  ASSUME NEW xs, NEW n \in Nat, Len(xs) = n, NEW descending, NEW x
  PROVE  \E f : Searches(f, xs, n, descending, x)
  <1> DEFINE D == (1 .. n) \X (1 .. n)
             rhs(f, b) == Halves(f, xs, descending, x, b)
             Upto(f, k) == \A b \in D : b[2] - b[1] <= k => f[b] = rhs(f, b)
             U == {k \in Nat : \E f : Upto(f, k)}
  <1>1. 0 \in U
    <2> DEFINE f == [b \in D |-> Middle(b)]
    <2>1. ASSUME NEW b \in D, b[2] - b[1] <= 0
          PROVE  f[b] = rhs(f, b)
      <3>1. b[1] + 1 >= b[2]
        BY <2>1
      <3>2. rhs(f, b) = Middle(b)
        BY <3>1 DEF Halves
      <3>3. QED
        BY <3>2
    <2>2. Upto(f, 0)
      BY <2>1
    <2>3. QED
      BY <2>2
  <1>2. ASSUME NEW k \in Nat, k \in U
        PROVE  k + 1 \in U
    <2>1. PICK f : Upto(f, k)
      BY <1>2
    <2> DEFINE g == [b \in D |-> IF b[2] - b[1] <= k THEN f[b] ELSE rhs(f, b)]
    <2>2. ASSUME NEW b \in D, b[2] - b[1] <= k + 1
          PROVE  rhs(g, b) = rhs(f, b)
      <3>1. CASE b[1] + 1 >= b[2]
        BY <3>1 DEF Halves
      <3>2. CASE ~ (b[1] + 1 >= b[2])
        <4> DEFINE i == b[1]
                   j == b[2]
                   m == Middle(b)
        <4>1. /\ i \in Nat \ {0} /\ j \in Nat \ {0} /\ i + 1 < j /\ b = <<i, j>>
              /\ j - i <= k + 1 /\ j <= n
          BY <2>2, <3>2
        <4>2. m \in i + 1 .. j - 1
          BY <4>1, MiddleIs
        <4> HIDE DEF i, j, m
        <4>3. <<m, j>> \in D /\ <<i, m>> \in D /\ j - m <= k /\ m - i <= k
          BY <4>1, <4>2
        <4>4. g[<<m, j>>] = f[<<m, j>>] /\ g[<<i, m>>] = f[<<i, m>>]
          BY <4>3
        <4> HIDE DEF g
        <4>5. QED
          BY <4>4 DEF Halves, i, j, m
      <3>3. QED
        BY <3>1, <3>2
    <2>3. ASSUME NEW b \in D, b[2] - b[1] <= k + 1
          PROVE  g[b] = rhs(g, b)
      <3>1. g[b] = rhs(f, b)
        <4> HIDE DEF rhs
        <4>1. CASE b[2] - b[1] <= k
          BY <2>1, <4>1
        <4>2. CASE ~ (b[2] - b[1] <= k)
          BY <4>2
        <4>3. QED
          BY <4>1, <4>2
      <3>2. QED
        BY <2>2, <2>3, <3>1
    <2>4. Upto(g, k + 1)
      <3> HIDE DEF g, rhs
      <3> QED
        BY <2>3
    <2> HIDE DEF g, Upto
    <2>5. k + 1 \in Nat /\ \E e : Upto(e, k + 1)
      BY <2>4
    <2>6. QED
      BY <2>5
  <1>3. Nat \subseteq U
    <2> HIDE DEF U
    <2> QED
      BY <1>1, <1>2, NatSet
  <1>4. PICK f : Upto(f, n)
    BY <1>3
  <1> DEFINE h == [b \in D |-> f[b]]
             shape(g) == [b \in D |-> rhs(g, b)]
  <1>5. ASSUME NEW b \in D
        PROVE  h[b] = rhs(h, b)
    <2>1. f[b] = rhs(f, b)
      <3>1. b[2] - b[1] <= n
        OBVIOUS
      <3> HIDE DEF rhs
      <3>2. QED
        BY <1>4, <3>1
    <2>2. rhs(h, b) = rhs(f, b)
      <3>1. CASE b[1] + 1 >= b[2]
        BY <3>1 DEF Halves
      <3>2. CASE ~ (b[1] + 1 >= b[2])
        <4> DEFINE i == b[1]
                   j == b[2]
                   m == Middle(b)
        <4>1. i \in Nat \ {0} /\ j \in Nat \ {0} /\ i + 1 < j /\ b = <<i, j>> /\ j <= n
          BY <3>2
        <4>2. m \in i + 1 .. j - 1
          BY <4>1, MiddleIs
        <4> HIDE DEF i, j, m
        <4>3. <<m, j>> \in D /\ <<i, m>> \in D
          BY <4>1, <4>2
        <4>4. h[<<m, j>>] = f[<<m, j>>] /\ h[<<i, m>>] = f[<<i, m>>]
          BY <4>3
        <4> HIDE DEF h
        <4>5. QED
          BY <4>4 DEF Halves, i, j, m
      <3>3. QED
        BY <3>1, <3>2
    <2>3. QED
      BY <2>1, <2>2
  <1>6. h = shape(h)
    <2> HIDE DEF rhs
    <2> QED
      BY <1>5
  <1> DEFINE search == CHOOSE g : g = shape(g)
  <1>7. Interval(xs, descending, x) = search[<<1, n>>]
    BY DEF Interval, Halves, Middle
  <1> HIDE DEF shape
  <1>8. search = shape(search)
    BY <1>6
  <1> HIDE DEF search
  <1>9. \A b \in D : search[b] = rhs(search, b)
    <2> HIDE DEF rhs
    <2> QED
      BY <1>8 DEF shape
  <1>10. QED
    BY <1>7, <1>9 DEF Searches

(* A first column goes up or down. *)
GoesUp(xs) == \A i, j \in 1 .. Len(xs) : i < j => xs[i].si < xs[j].si
FallsDown(xs) == \A i, j \in 1 .. Len(xs) : i < j => xs[j].si < xs[i].si

(* A column of n numbers. *)
IsColumn(xs, n) == n \in Nat /\ Len(xs) = n /\ \A i \in 1 .. n : xs[i].si \in Int

(* What is left always has x between its ends, so that halving ends at two *)
(* rows with x between them, whichever way the column goes.                *)
LEMMA HalvingFinds ==
  ASSUME NEW xs, NEW n, 1 < n, IsColumn(xs, n), NEW descending \in BOOLEAN, NEW x \in Int,
         IF descending THEN xs[n].si <= x /\ x <= xs[1].si ELSE xs[1].si <= x /\ x <= xs[n].si
  PROVE  LET i == Interval(xs, descending, x)
         IN /\ i \in 1 .. n - 1
            /\ IF descending THEN xs[i + 1].si <= x /\ x <= xs[i].si
                             ELSE xs[i].si <= x /\ x <= xs[i + 1].si
  <1> DEFINE D == (1 .. n) \X (1 .. n)
             within(i, j) == IF descending THEN xs[j].si <= x /\ x <= xs[i].si
                                           ELSE xs[i].si <= x /\ x <= xs[j].si
  <1>1. n \in Nat /\ Len(xs) = n /\ \A i \in 1 .. n : xs[i].si \in Int
    BY DEF IsColumn
  <1>0. PICK f : Searches(f, xs, n, descending, x)
    BY <1>1, IntervalIs
  <1>2. /\ Interval(xs, descending, x) = f[<<1, n>>]
        /\ \A b \in D : f[b] = Halves(f, xs, descending, x, b)
    BY <1>0 DEF Searches
  <1> DEFINE right(i) == i \in 1 .. n - 1 /\ within(i, i + 1)
             T == {k \in Nat : \A i, j \in 1 .. n :
                     i < j /\ j - i <= k /\ within(i, j) => right(f[<<i, j>>])}
  <1>3. 0 \in T
    <2>1. \A i, j \in 1 .. n : i < j => ~ (j - i <= 0)
      OBVIOUS
    <2> HIDE DEF within, right
    <2>2. QED
      BY <2>1
  <1>4. ASSUME NEW k \in Nat, k \in T
        PROVE  k + 1 \in T
    <2>1. SUFFICES ASSUME NEW i \in 1 .. n, NEW j \in 1 .. n,
                          i < j, j - i <= k + 1, within(i, j)
                   PROVE  right(f[<<i, j>>])
      <3> HIDE DEF within, right
      <3> QED
        OBVIOUS
    <2> DEFINE m == Middle(<<i, j>>)
    <2>2. i \in Nat \ {0} /\ j \in Nat \ {0}
      BY <1>1
    <2>3. /\ i + 1 < j => m \in i + 1 .. j - 1
          /\ i + 1 = j => m = i
      BY <2>2, MiddleIs
    <2> HIDE DEF m
    <2>4. f[<<i, j>>] = IF i + 1 >= j THEN m
                        ELSE IF (xs[m].si < x) # descending THEN f[<<m, j>>] ELSE f[<<i, m>>]
      <3>1. <<i, j>> \in D
        OBVIOUS
      <3>2. f[<<i, j>>] = Halves(f, xs, descending, x, <<i, j>>)
        BY <1>2, <3>1
      <3>3. QED
        BY <3>2 DEF Halves, m
    <2>5. CASE i + 1 = j
      <3>1. f[<<i, j>>] = i
        BY <2>2, <2>3, <2>4, <2>5
      <3>2. i \in 1 .. n - 1 /\ within(i, i + 1)
        BY <1>1, <2>1, <2>2, <2>5
      <3>3. QED
        BY <3>1, <3>2
    <2>6. CASE i + 1 < j
      <3>1. /\ m \in 1 .. n /\ i < m /\ m < j /\ j - m <= k /\ m - i <= k /\ ~ (i + 1 >= j)
            /\ xs[m].si \in Int
        <4>1. m \in i + 1 .. j - 1 /\ m \in Nat
          BY <2>2, <2>3, <2>6
        <4>2. i < m /\ m < j /\ m \in 1 .. n
          BY <1>1, <2>2, <4>1
        <4>3. j - m <= k /\ m - i <= k
          BY <2>1, <2>2, <4>1, <4>2
        <4>4. ~ (i + 1 >= j)
          BY <2>2, <2>6
        <4>5. QED
          BY <1>1, <4>2, <4>3, <4>4
      <3>2. CASE (xs[m].si < x) # descending
        <4>1. within(m, j)
          BY <2>1, <3>1, <3>2
        <4>2. f[<<i, j>>] = f[<<m, j>>]
          BY <2>4, <3>1, <3>2
        <4> HIDE DEF within, right
        <4>3. right(f[<<m, j>>])
          BY <1>4, <3>1, <4>1
        <4>4. QED
          BY <4>2, <4>3
      <3>3. CASE ~ ((xs[m].si < x) # descending)
        <4>1. within(i, m)
          BY <2>1, <3>1, <3>3
        <4>2. f[<<i, j>>] = f[<<i, m>>]
          BY <2>4, <3>1, <3>3
        <4> HIDE DEF within, right
        <4>3. right(f[<<i, m>>])
          BY <1>4, <3>1, <4>1
        <4>4. QED
          BY <4>2, <4>3
      <3>4. QED
        BY <3>2, <3>3
    <2>7. i + 1 = j \/ i + 1 < j
      BY <2>1, <2>2
    <2>8. QED
      BY <2>5, <2>6, <2>7
  <1>5. Nat \subseteq T
    <2> HIDE DEF T
    <2> QED
      BY <1>3, <1>4, NatSet
  <1>6. right(f[<<1, n>>])
    <2>1. 1 \in 1 .. n /\ n \in 1 .. n /\ n - 1 <= n
      BY <1>1
    <2>2. within(1, n)
      OBVIOUS
    <2>3. n \in T
      BY <1>1, <1>5
    <2> HIDE DEF within, right
    <2>4. QED
      BY <2>1, <2>2, <2>3
  <1>7. QED
    BY <1>2, <1>6

(* On the line through two points, whichever interval x is taken to be in. *)
IsOnChord(v, w, x, p1, p2, q1, q2) == (v - q1 * w) * (p2 - p1) = w * (q2 - q1) * (x - p1)

LEMMA Chords ==
  ASSUME NEW x1 \in Int, NEW x2 \in Int, NEW y1 \in Int, NEW y2 \in Int, NEW x \in Int,
         NEW p1 \in Int, NEW p2 \in Int, NEW q1 \in Int, NEW q2 \in Int,
         \/ p1 = x1 /\ p2 = x2 /\ q1 = y1 /\ q2 = y2
         \/ x = x1 /\ p2 = x1 /\ q2 = y1
         \/ x = x2 /\ p1 = x2 /\ q1 = y2
  PROVE  IsOnChord(y1 * (x2 - x1) + (y2 - y1) * (x - x1), x2 - x1, x, p1, p2, q1, q2)
  <1>1. CASE p1 = x1 /\ p2 = x2 /\ q1 = y1 /\ q2 = y2
    BY <1>1 DEF IsOnChord
  <1>2. CASE x = x1 /\ p2 = x1 /\ q2 = y1
    BY <1>2 DEF IsOnChord
  <1>3. CASE x = x2 /\ p1 = x2 /\ q1 = y2
    BY <1>3 DEF IsOnChord
  <1>4. QED
    BY <1>1, <1>2, <1>3

(* For any table whose first column goes up or down and any x, what        *)
(* SingleRecordTable::evaluate() answers is the value of the nearest row   *)
(* outside, and inside the value on the line between the rows around x.    *)
THEOREM HalvingInterpolates ==
  ASSUME NEW kind, NEW table, NEW c, NEW x \in Int, NEW n, 1 < n,
         IsColumn(table[kind.columns[1]], n), IsColumn(table[c], n),
         GoesUp(table[kind.columns[1]]) \/ FallsDown(table[kind.columns[1]])
  PROVE  Interpolates(table[kind.columns[1]], table[c], x, Evaluate(kind, table, c, x))
  <1> DEFINE xs == table[kind.columns[1]]
             ys == table[c]
             result == Evaluate(kind, table, c, x)
             descending == xs[1].si > xs[n].si
             low == IF descending THEN xs[n].si ELSE xs[1].si
             high == IF descending THEN xs[1].si ELSE xs[n].si
             i == Interval(xs, descending, x)
             dx == xs[i + 1].si - xs[i].si
             value(r) == result[1] = ys[r].si * result[2]
             between(r) == \/ xs[r].si = x \/ xs[r + 1].si = x
                           \/ (xs[r].si < x) = (x < xs[r + 1].si)
             chord(r) == (result[1] - ys[r].si * result[2]) * (xs[r + 1].si - xs[r].si)
                           = result[2] * (ys[r + 1].si - ys[r].si) * (x - xs[r].si)
             nearest == IF (x < xs[1].si) = (xs[1].si < xs[n].si) THEN 1 ELSE n
  <1>1. /\ n \in Nat /\ Len(xs) = n /\ 1 \in 1 .. n /\ n \in 1 .. n
        /\ (\A r \in 1 .. n : xs[r].si \in Int) /\ (\A r \in 1 .. n : ys[r].si \in Int)
    BY DEF IsColumn
  <1>2. /\ descending => \A r, s \in 1 .. n : r < s => xs[s].si < xs[r].si
        /\ ~ descending => \A r, s \in 1 .. n : r < s => xs[r].si < xs[s].si
    <2>1. GoesUp(xs) \/ FallsDown(xs)
      OBVIOUS
    <2>2. xs[1].si \in Int /\ xs[n].si \in Int /\ 1 < n
      BY <1>1
    <2> HIDE DEF xs
    <2>3. GoesUp(xs) => ~ descending
      BY <1>1, <2>2 DEF GoesUp
    <2>4. FallsDown(xs) => descending
      BY <1>1, <2>2 DEF FallsDown
    <2> HIDE DEF descending
    <2>5. QED
      BY <1>1, <2>1, <2>3, <2>4 DEF GoesUp, FallsDown
  <1>3. result = IF x < low THEN <<ys[IF descending THEN n ELSE 1].si, 1>>
                 ELSE IF x > high THEN <<ys[IF descending THEN 1 ELSE n].si, 1>>
                 ELSE <<ys[i].si * dx + (ys[i + 1].si - ys[i].si) * (x - xs[i].si), dx>>
    BY <1>1 DEF Evaluate
  <1>4. SUFFICES /\ result[2] # 0
                 /\ (\A r \in 1 .. n - 1 : ~ between(r)) => value(nearest)
                 /\ \A r \in 1 .. n - 1 : between(r) => chord(r)
    BY <1>1 DEF Interpolates
  <1> HIDE DEF xs, ys, result
  <1>5. ASSUME NEW r \in 1 .. n - 1
        PROVE  /\ r \in 1 .. n /\ r + 1 \in 1 .. n /\ r < r + 1
               /\ xs[r].si \in Int /\ xs[r + 1].si \in Int
               /\ ys[r].si \in Int /\ ys[r + 1].si \in Int
    <2>1. r \in 1 .. n /\ r + 1 \in 1 .. n /\ r < r + 1
      BY <1>1
    <2>2. QED
      BY <1>1, <2>1
  <1>6. \A r \in 1 .. n : low <= xs[r].si /\ xs[r].si <= high
    <2>1. SUFFICES ASSUME NEW r \in 1 .. n
                   PROVE  low <= xs[r].si /\ xs[r].si <= high
      OBVIOUS
    <2>2. r = 1 \/ 1 < r
      BY <1>1
    <2>3. r = n \/ r < n
      BY <1>1
    <2>4. QED
      BY <1>1, <1>2, <2>2, <2>3
  <1>7. CASE x < low \/ x > high
    <2>1. \A r \in 1 .. n - 1 : ~ between(r)
      BY <1>1, <1>5, <1>6, <1>7
    <2>2. result[2] = 1 /\ result[1] = ys[nearest].si /\ ys[nearest].si \in Int
      <3>1. 1 < n
        OBVIOUS
      <3>2. xs[1].si # xs[n].si
        BY <1>1, <1>2, <3>1
      <3>3. QED
        BY <1>1, <1>3, <1>7, <3>2
    <2>3. value(nearest)
      BY <2>2
    <2> HIDE DEF between, value, nearest, chord
    <2>4. result[2] # 0
      BY <2>2
    <2>5. QED
      BY <2>1, <2>3, <2>4
  <1>8. CASE low <= x /\ x <= high
    <2>1. descending \in BOOLEAN
      OBVIOUS
    <2>2. /\ i \in 1 .. n - 1
          /\ IF descending THEN xs[i + 1].si <= x /\ x <= xs[i].si
                           ELSE xs[i].si <= x /\ x <= xs[i + 1].si
      <3>1. IsColumn(xs, n)
        BY DEF xs
      <3>2. IF descending THEN xs[n].si <= x /\ x <= xs[1].si ELSE xs[1].si <= x /\ x <= xs[n].si
        BY <1>8
      <3> HIDE DEF descending
      <3>3. QED
        BY <2>1, <3>1, <3>2, HalvingFinds
    <2>3. /\ result[1] = ys[i].si * dx + (ys[i + 1].si - ys[i].si) * (x - xs[i].si)
          /\ result[2] = dx
      BY <1>1, <1>3, <1>8
    <2> HIDE DEF i
    <2>4. /\ i \in 1 .. n /\ i + 1 \in 1 .. n /\ i < i + 1 /\ i \in Nat
          /\ xs[i].si \in Int /\ xs[i + 1].si \in Int /\ ys[i].si \in Int /\ ys[i + 1].si \in Int
      BY <1>1, <1>5, <2>2
    <2>5. dx \in Int /\ dx # 0
      BY <1>2, <2>4
    <2>6. between(i)
      BY <2>2, <2>4
    <2>7. ASSUME NEW r \in 1 .. n - 1, between(r)
          PROVE  chord(r)
      <3>1. /\ r \in 1 .. n /\ r + 1 \in 1 .. n /\ r < r + 1
            /\ xs[r].si \in Int /\ xs[r + 1].si \in Int
            /\ ys[r].si \in Int /\ ys[r + 1].si \in Int
        BY <1>5
      <3>2. IF descending THEN xs[r + 1].si <= x /\ x <= xs[r].si
                          ELSE xs[r].si <= x /\ x <= xs[r + 1].si
        BY <1>2, <2>7, <3>1
      <3>3. \/ r = i
            \/ r + 1 = i /\ x = xs[i].si
            \/ r = i + 1 /\ x = xs[i + 1].si
        <4>1. CASE r < i
          <5>1. r + 1 = i \/ r + 1 < i
            BY <2>4, <3>1, <4>1
          <5>2. r + 1 < i => IF descending THEN xs[i].si < xs[r + 1].si ELSE xs[r + 1].si < xs[i].si
            BY <1>2, <2>4, <3>1
          <5> HIDE DEF descending
          <5>3. QED
            BY <2>2, <2>4, <3>1, <3>2, <5>1, <5>2
        <4>2. CASE i < r
          <5>1. i + 1 = r \/ i + 1 < r
            BY <2>4, <3>1, <4>2
          <5>2. i + 1 < r => IF descending THEN xs[r].si < xs[i + 1].si ELSE xs[i + 1].si < xs[r].si
            BY <1>2, <2>4, <3>1
          <5> HIDE DEF descending
          <5>3. QED
            BY <2>2, <2>4, <3>1, <3>2, <5>1, <5>2
        <4>3. r < i \/ r = i \/ i < r
          BY <2>4, <3>1
        <4>4. QED
          BY <4>1, <4>2, <4>3
      <3>4. IsOnChord(result[1], result[2], x, xs[r].si, xs[r + 1].si, ys[r].si, ys[r + 1].si)
        <4> DEFINE p1 == xs[r].si
                   p2 == xs[r + 1].si
                   q1 == ys[r].si
                   q2 == ys[r + 1].si
                   x1 == xs[i].si
                   x2 == xs[i + 1].si
                   y1 == ys[i].si
                   y2 == ys[i + 1].si
        <4>1. \/ p1 = x1 /\ p2 = x2 /\ q1 = y1 /\ q2 = y2
              \/ x = x1 /\ p2 = x1 /\ q2 = y1
              \/ x = x2 /\ p1 = x2 /\ q1 = y2
          BY <3>3
        <4>2. /\ p1 \in Int /\ p2 \in Int /\ q1 \in Int /\ q2 \in Int
              /\ x1 \in Int /\ x2 \in Int /\ y1 \in Int /\ y2 \in Int
          BY <2>4, <3>1
        <4>3. result[1] = y1 * (x2 - x1) + (y2 - y1) * (x - x1) /\ result[2] = x2 - x1
          BY <2>3
        <4> HIDE DEF p1, p2, q1, q2, x1, x2, y1, y2
        <4>4. IsOnChord(y1 * (x2 - x1) + (y2 - y1) * (x - x1), x2 - x1, x, p1, p2, q1, q2)
          BY <4>1, <4>2, Chords
        <4>5. IsOnChord(result[1], result[2], x, p1, p2, q1, q2)
          BY <4>3, <4>4
        <4>6. QED
          BY <4>5 DEF p1, p2, q1, q2
      <3>5. QED
        BY <3>4 DEF IsOnChord
    <2> HIDE DEF between, chord, value, nearest, dx
    <2>8. QED
      BY <2>2, <2>3, <2>5, <2>6, <2>7
  <1>9. x < low \/ x > high \/ (low <= x /\ x <= high)
    <2>1. low \in Int /\ high \in Int
      BY <1>1
    <2> HIDE DEF low, high
    <2>2. QED
      BY <2>1
  <1>10. QED
    BY <1>7, <1>8, <1>9
-----------------------------------------------------------------------------
(* Tables: what init() makes of the columns that a record gives. *)

(* Columns of n rows. *)
Columns(cols, n) == [cols -> [1 .. n -> Value]]

(* No row of a column is left defaulted. *)
IsFilled(ys, n) == \A r \in 1 .. n : ~ ys[r].defaulted

(* What checkMonotonic() asks of a column. *)
IsOrdered(xs, n, step) == \A r \in 2 .. n : InOrder(step, xs[r - 1].si, xs[r].si)

(* No two rows of a column have the same value. *)
AreApart(xs, n) == \A p, q \in 1 .. n : p < q => xs[p].si # xs[q].si

LEMMA ValueIs ==
  /\ \A v \in Value : v.defaulted \in BOOLEAN /\ (~ v.defaulted => v.si \in Int)
  /\ \A i \in Int : [si |-> i, defaulted |-> FALSE] \in Value
  BY DEF Value

LEMMA RowsAre ==
  ASSUME NEW n \in Nat, NEW ys \in [1 .. n -> Value]
  PROVE  ys \in Seq(Value) /\ Len(ys) = n /\ DOMAIN ys = 1 .. n
  OBVIOUS

(* A strictly monotonic column of numbers goes up or falls. *)
LEMMA OrderedGoes ==
  ASSUME NEW n \in Nat, NEW xs \in [1 .. n -> Value], IsFilled(xs, n),
         NEW step, step.strict, IsOrdered(xs, n, step)
  PROVE  (GoesUp(xs) \/ FallsDown(xs)) /\ AreApart(xs, n)
  <1> DEFINE Precedes(p, q) == IF step.ascending THEN xs[p].si < xs[q].si ELSE xs[q].si < xs[p].si
             T == {k \in Nat : \A p, q \in 1 .. n : p < q /\ q - p <= k => Precedes(p, q)}
  <1>1. Len(xs) = n /\ \A r \in 1 .. n : xs[r].si \in Int
    BY RowsAre, ValueIs DEF IsFilled
  <1>2. 0 \in T
    <2>1. \A p, q \in 1 .. n : p < q => ~ (q - p <= 0)
      OBVIOUS
    <2> HIDE DEF Precedes
    <2>2. QED
      BY <2>1
  <1>3. ASSUME NEW k \in Nat, k \in T
        PROVE  k + 1 \in T
    <2>1. SUFFICES ASSUME NEW p \in 1 .. n, NEW q \in 1 .. n, p < q, q - p <= k + 1
                   PROVE  Precedes(p, q)
      <3> HIDE DEF Precedes
      <3> QED
        OBVIOUS
    <2> DEFINE m == q - 1
    <2>2. q \in 2 .. n /\ m \in 1 .. n /\ q = m + 1
      BY <2>1
    <2>3. Precedes(m, q)
      <3>1. InOrder(step, xs[m].si, xs[q].si)
        BY <2>2 DEF IsOrdered
      <3>2. xs[m].si \in Int /\ xs[q].si \in Int
        BY <1>1, <2>2
      <3> HIDE DEF m
      <3>3. QED
        BY <3>1, <3>2 DEF InOrder
    <2>4. CASE p = m
      <3> HIDE DEF Precedes, m
      <3> QED
        BY <2>3, <2>4
    <2>5. CASE p # m
      <3>1. p < m /\ m - p <= k
        BY <2>1, <2>2, <2>5
      <3> HIDE DEF m
      <3>2. Precedes(p, m)
        <4> HIDE DEF Precedes
        <4> QED
          BY <1>3, <2>2, <3>1
      <3>3. xs[p].si \in Int /\ xs[m].si \in Int /\ xs[q].si \in Int
        BY <1>1, <2>2
      <3>4. QED
        BY <2>3, <3>2, <3>3
    <2>6. QED
      BY <2>4, <2>5
  <1>4. Nat \subseteq T
    <2> HIDE DEF T
    <2> QED
      BY <1>2, <1>3, NatSet
  <1>5. \A p, q \in 1 .. n : p < q => Precedes(p, q)
    <2>1. n \in T
      BY <1>4
    <2>2. \A p, q \in 1 .. n : q - p <= n
      OBVIOUS
    <2> HIDE DEF Precedes
    <2>3. QED
      BY <2>1, <2>2
  <1>6. QED
    BY <1>1, <1>5 DEF GoesUp, FallsDown, AreApart

(* A table with one row of a column filled in. *)
RowIsFilled(u, t, cols, n, c, r) ==
  /\ u \in Columns(cols, n)
  /\ \A d \in cols \ {c} : u[d] = t[d]
  /\ \A q \in (1 .. n) \ {r} : u[c][q] = t[c][q]
  /\ ~ u[c][r].defaulted

LEMMA FillRowIs ==
  ASSUME NEW cols, NEW n \in Nat, NEW t \in Columns(cols, n), NEW c \in cols, NEW r \in 1 .. n,
         NEW xs \in [1 .. n -> Value], IsFilled(xs, n), AreApart(xs, n),
         NEW g \in 1 .. n, ~ t[c][g].defaulted
  PROVE  RowIsFilled(FillRow(t, xs, c, r), t, cols, n, c, r)
  <1> DEFINE ys == t[c]
             given == {q \in DOMAIN ys : ~ ys[q].defaulted}
             before == {q \in given : q < r}
             after == {q \in given : q > r}
             value ==
               IF before = {} THEN ys[Min(after)].si
               ELSE IF after = {} THEN ys[Max(before)].si
               ELSE OnLine(xs[r].si, xs[Max(before)].si, ys[Max(before)].si,
                           xs[Min(after)].si, ys[Min(after)].si)
  <1>1. t \in [cols -> [1 .. n -> Value]] /\ ys \in [1 .. n -> Value]
    BY DEF Columns
  <1>2. \A q \in given : q \in 1 .. n /\ ys[q].si \in Int
    BY <1>1, ValueIs
  <1>3. CASE ~ t[c][r].defaulted
    BY <1>3 DEF FillRow, RowIsFilled
  <1>4. CASE t[c][r].defaulted
    <2> DEFINE u == [t EXCEPT ![c][r] = [si |-> value, defaulted |-> FALSE]]
    <2>1. FillRow(t, xs, c, r) = u
      BY <1>4 DEF FillRow
    <2>2. value \in Int
      <3>1. before # {} => Max(before) \in before
        <4>1. before \in SUBSET (0 .. n)
          BY <1>2
        <4> HIDE DEF before
        <4>2. QED
          BY <4>1, MaxIs
      <3>2. after # {} => Min(after) \in after
        <4>1. after \in SUBSET Nat
          BY <1>2
        <4> HIDE DEF after
        <4>2. QED
          BY <4>1, MinIs
      <3>3. before # {} \/ after # {}
        <4>1. g \in given /\ g # r
          BY <1>1, <1>4
        <4>2. QED
          BY <4>1
      <3>4. CASE before = {}
        BY <1>2, <3>2, <3>3, <3>4
      <3>5. CASE before # {} /\ after = {}
        BY <1>2, <3>1, <3>5
      <3>6. CASE before # {} /\ after # {}
        <4> DEFINE b == Max(before)
                   a == Min(after)
        <4>1. b \in 1 .. n /\ a \in 1 .. n /\ b < a /\ ys[b].si \in Int /\ ys[a].si \in Int
          <5>1. b \in given /\ a \in given /\ b < r /\ a > r
            BY <3>1, <3>2, <3>6
          <5> HIDE DEF a, b, given
          <5>2. b \in 1 .. n /\ a \in 1 .. n /\ ys[b].si \in Int /\ ys[a].si \in Int
            BY <1>2, <5>1
          <5>3. QED
            BY <5>1, <5>2
        <4>2. value = OnLine(xs[r].si, xs[b].si, ys[b].si, xs[a].si, ys[a].si)
          BY <3>6
        <4> HIDE DEF b, a, value
        <4>3. xs[r].si \in Int /\ xs[b].si \in Int /\ xs[a].si \in Int /\ xs[b].si # xs[a].si
          BY <4>1, ValueIs DEF IsFilled, AreApart
        <4>4. \A x0, x1, y1, x2, y2 \in Int : x1 # x2 => OnLine(x0, x1, y1, x2, y2) \in Int
          BY DEF OnLine
        <4>5. QED
          BY <4>1, <4>2, <4>3, <4>4
      <3>7. QED
        BY <3>4, <3>5, <3>6
    <2> HIDE DEF value
    <2>3. [si |-> value, defaulted |-> FALSE] \in Value
      BY <2>2, ValueIs
    <2>4. /\ u \in [cols -> [1 .. n -> Value]]
          /\ \A d \in cols \ {c} : u[d] = t[d]
          /\ \A q \in (1 .. n) \ {r} : u[c][q] = t[c][q]
          /\ u[c][r] = [si |-> value, defaulted |-> FALSE]
      BY <1>1, <2>3
    <2>5. QED
      BY <2>1, <2>4 DEF Columns, RowIsFilled
  <1>5. QED
    BY <1>3, <1>4


(* The loop of applyDefaultsLinear(), one row after the other. *)
FillsRows(f, t, xs, c, n) ==
  f = [r \in 0 .. n |-> IF r = 0 THEN t ELSE FillRow(f[r - 1], xs, c, r)]

LEMMA FillsExists ==
  ASSUME NEW t, NEW xs, NEW c, NEW n \in Nat
  PROVE  \E f : FillsRows(f, t, xs, c, n)
  <1> DEFINE rhs(f, r) == IF r = 0 THEN t ELSE FillRow(f[r - 1], xs, c, r)
             Upto(f, k) == \A r \in 0 .. n : r <= k => f[r] = rhs(f, r)
             U == {k \in Nat : \E f : Upto(f, k)}
  <1>1. 0 \in U
    <2> DEFINE f == [r \in 0 .. n |-> t]
    <2>1. Upto(f, 0)
      OBVIOUS
    <2>2. QED
      BY <2>1
  <1>2. ASSUME NEW k \in Nat, k \in U
        PROVE  k + 1 \in U
    <2>1. PICK f : Upto(f, k)
      BY <1>2
    <2> DEFINE g == [r \in 0 .. n |-> IF r <= k THEN f[r] ELSE rhs(f, r)]
    <2>2. ASSUME NEW r \in 0 .. n, r <= k + 1
          PROVE  g[r] = rhs(g, r)
      <3>1. rhs(g, r) = rhs(f, r)
        <4>1. CASE r = 0
          BY <4>1
        <4>2. CASE r # 0
          <5>1. r - 1 \in 0 .. n /\ r - 1 <= k
            BY <2>2, <4>2
          <5>2. g[r - 1] = f[r - 1]
            BY <5>1
          <5> HIDE DEF g
          <5>3. QED
            BY <5>2
        <4>3. QED
          BY <4>1, <4>2
      <3>2. g[r] = rhs(f, r)
        <4> HIDE DEF rhs
        <4> QED
          BY <2>1
      <3>3. QED
        BY <3>1, <3>2
    <2>3. Upto(g, k + 1)
      <3> HIDE DEF g, rhs
      <3> QED
        BY <2>2
    <2> HIDE DEF g, Upto
    <2>4. \E e : Upto(e, k + 1)
      BY <2>3
    <2>5. QED
      BY <2>4
  <1>3. Nat \subseteq U
    <2> HIDE DEF U
    <2> QED
      BY <1>1, <1>2, NatSet
  <1>4. PICK f : Upto(f, n)
    BY <1>3
  <1> DEFINE h == [r \in 0 .. n |-> f[r]]
             shape(g) == [r \in 0 .. n |-> rhs(g, r)]
  <1>5. ASSUME NEW r \in 0 .. n
        PROVE  h[r] = rhs(h, r)
    <2>1. f[r] = rhs(f, r)
      <3> HIDE DEF rhs
      <3> QED
        BY <1>4
    <2>2. rhs(h, r) = rhs(f, r)
      <3>1. CASE r = 0
        BY <3>1
      <3>2. CASE r # 0
        <4>1. r - 1 \in 0 .. n
          BY <3>2
        <4>2. h[r - 1] = f[r - 1]
          BY <4>1
        <4> HIDE DEF h
        <4>3. QED
          BY <4>2
      <3>3. QED
        BY <3>1, <3>2
    <2>3. QED
      BY <2>1, <2>2
  <1>6. h = shape(h)
    <2> HIDE DEF rhs
    <2> QED
      BY <1>5
  <1> HIDE DEF h
  <1>7. QED
    BY <1>6 DEF FillsRows

(* applyDefaultsLinear() fills a column in, and leaves the others. *)
LEMMA LinearIs ==
  ASSUME NEW cols, NEW n \in Nat, NEW t \in Columns(cols, n), NEW c \in cols, NEW x \in cols,
         IsFilled(t[x], n), AreApart(t[x], n)
  PROVE  LET u == ApplyDefaultsLinear(t, x, c)
         IN \/ u = Refused
            \/ /\ u \in Columns(cols, n)
               /\ \A d \in cols \ {c} : u[d] = t[d]
               /\ IsFilled(u[c], n)
  <1> DEFINE xs == t[x]
             ys == t[c]
             u == ApplyDefaultsLinear(t, x, c)
             f == CHOOSE f : FillsRows(f, t, xs, c, n)
  <1>1. xs \in [1 .. n -> Value] /\ ys \in [1 .. n -> Value] /\ Len(ys) = n
    <2>1. xs \in [1 .. n -> Value] /\ ys \in [1 .. n -> Value]
      BY DEF Columns
    <2>2. QED
      BY <2>1, RowsAre
  <1>2. u = IF n > 0 /\ \A r \in 1 .. n : ys[r].defaulted THEN Refused ELSE f[n]
    BY <1>1 DEF ApplyDefaultsLinear, FillsRows
  <1>3. FillsRows(f, t, xs, c, n)
    BY FillsExists
  <1> HIDE DEF f, u, xs
  <1>4. f[0] = t /\ \A r \in 1 .. n : f[r] = FillRow(f[r - 1], xs, c, r)
    <2>1. 0 \in 0 .. n /\ \A r \in 1 .. n : r \in 0 .. n /\ r # 0
      OBVIOUS
    <2>2. QED
      BY <1>3, <2>1 DEF FillsRows
  <1>5. CASE n > 0 /\ \A r \in 1 .. n : ys[r].defaulted
    BY <1>2, <1>5 DEF u
  <1>6. CASE n = 0
    <2>1. u = t
      BY <1>2, <1>4, <1>6
    <2>2. IsFilled(t[c], n)
      BY <1>6 DEF IsFilled
    <2>3. QED
      BY <2>1, <2>2 DEF u
  <1>7. CASE n # 0 /\ \E r \in 1 .. n : ~ ys[r].defaulted
    <2>1. PICK g \in 1 .. n : ~ ys[g].defaulted
      BY <1>7
    <2> DEFINE Good(r) == /\ f[r] \in Columns(cols, n)
                          /\ \A d \in cols \ {c} : f[r][d] = t[d]
                          /\ ~ f[r][c][g].defaulted
                          /\ \A q \in 1 .. r : ~ f[r][c][q].defaulted
               T == {r \in Nat : r <= n => Good(r)}
    <2>2. 0 \in T
      BY <1>4, <2>1
    <2>3. ASSUME NEW k \in Nat, k \in T
          PROVE  k + 1 \in T
      <3>1. SUFFICES ASSUME k + 1 <= n
                     PROVE  Good(k + 1)
        OBVIOUS
      <3> DEFINE r == k + 1
                 v == f[k]
                 w == f[r]
      <3>2. r \in 1 .. n /\ r - 1 = k
        BY <3>1
      <3>3. w = FillRow(v, xs, c, r)
        BY <1>4, <3>2
      <3>4. Good(k)
        BY <2>3, <3>1
      <3>5. IsFilled(xs, n) /\ AreApart(xs, n)
        BY DEF xs
      <3>6. /\ w \in Columns(cols, n)
            /\ \A d \in cols \ {c} : w[d] = v[d]
            /\ \A q \in (1 .. n) \ {r} : w[c][q] = v[c][q]
            /\ ~ w[c][r].defaulted
        <4> HIDE DEF v, w, r
        <4>1. v \in Columns(cols, n) /\ ~ v[c][g].defaulted
          BY <3>4 DEF v
        <4>2. RowIsFilled(FillRow(v, xs, c, r), v, cols, n, c, r)
          BY <1>1, <3>2, <3>5, <4>1, FillRowIs
        <4>3. QED
          BY <3>3, <4>2 DEF RowIsFilled
      <3>7. \A q \in 1 .. r : ~ w[c][q].defaulted
        <4>1. SUFFICES ASSUME NEW q \in 1 .. r
                       PROVE  ~ w[c][q].defaulted
          OBVIOUS
        <4>2. CASE q = r
          BY <3>6, <4>2
        <4>3. CASE q # r
          <5>1. q \in 1 .. k /\ q \in (1 .. n) \ {r}
            BY <3>2, <4>3
          <5>2. ~ v[c][q].defaulted
            BY <3>4, <5>1
          <5> HIDE DEF v, w, r
          <5>3. QED
            BY <3>6, <5>1, <5>2
        <4>4. QED
          BY <4>2, <4>3
      <3>8. ~ w[c][g].defaulted
        <4>1. ~ v[c][g].defaulted
          BY <3>4
        <4> HIDE DEF v, w, r
        <4>2. QED
          BY <3>6, <4>1
      <3>9. \A d \in cols \ {c} : w[d] = t[d]
        BY <3>4, <3>6
      <3>10. QED
        BY <3>6, <3>7, <3>8, <3>9
    <2>4. n \in T
      <3> HIDE DEF T
      <3> QED
        BY <2>2, <2>3, NatSet
    <2>5. u = f[n] /\ Good(n)
      BY <1>2, <1>7, <2>4
    <2>6. QED
      BY <2>5 DEF u, IsFilled
  <1>8. QED
    BY <1>5, <1>6, <1>7


(* What the steps of a kind of table do to its columns. *)
Fills(step, c) == step.column = c /\ step.do # "checkMonotonic"

Orders(step, x) == step.column = x /\ step.do = "checkMonotonic" /\ step.strict

(* A step is a check or fills in another column than the first, by the     *)
(* line once the first column is filled and ordered.                       *)
IsSound(kind, i) ==
  LET step == kind.steps[i]
      x == kind.columns[1]
  IN \/ step.do \in {"checkNonDefaultable", "checkMonotonic"}
     \/ /\ step.do = "applyDefaultsLinear" /\ step.column # x
        /\ \E j \in 1 .. i - 1 : Fills(kind.steps[j], x)
        /\ \E j \in 1 .. i - 1 : Orders(kind.steps[j], x)
     \/ step.do = "applyDefaultsConstant" /\ step.column # x /\ step.value \in Int
     \/ /\ step.do = "copy" /\ step.column # x /\ step.other \in Range(kind.columns)
        /\ \E j \in 1 .. i - 1 : Fills(kind.steps[j], step.other)

(* A kind of table all columns of which are filled in but SWMAX, the first *)
(* one among them, which is ordered if the kind is evaluated.              *)
IsSoundKind(kind) ==
  /\ Len(kind.columns) \in Nat \ {0} /\ DOMAIN kind.columns = 1 .. Len(kind.columns)
  /\ Len(kind.steps) \in Nat
  /\ \A i \in 1 .. Len(kind.steps) : IsSound(kind, i)
  /\ \A c \in {kind.columns[1]} \union (Range(kind.columns) \ {"SWMAX"}) :
       \E i \in 1 .. Len(kind.steps) : Fills(kind.steps[i], c)
  /\ kind.evaluated => \E i \in 1 .. Len(kind.steps) : Orders(kind.steps[i], kind.columns[1])

(* What is known of a table after the first i steps. *)
Holds(kind, t, n, i) ==
  /\ t \in Columns(Range(kind.columns), n)
  /\ \A j \in 1 .. i, c \in Range(kind.columns) : Fills(kind.steps[j], c) => IsFilled(t[c], n)
  /\ \A j \in 1 .. i : Orders(kind.steps[j], kind.columns[1]) =>
       IsOrdered(t[kind.columns[1]], n, kind.steps[j])

(* What one step may do: it refuses a table, leaves it, or fills in a      *)
(* column that is not the first.                                           *)
MayBecome(kind, i, n, t, u) ==
  LET step == kind.steps[i]
      c == step.column
      x == kind.columns[1]
  IN \/ u = Refused
     \/ /\ u = t /\ c \in Range(kind.columns)
        /\ Fills(step, c) => IsFilled(t[c], n)
        /\ Orders(step, x) => IsOrdered(t[x], n, step)
     \/ /\ u \in Columns(Range(kind.columns), n)
        /\ c \in Range(kind.columns) /\ c # x /\ ~ Orders(step, x)
        /\ \A d \in Range(kind.columns) \ {c} : u[d] = t[d]
        /\ IsFilled(u[c], n)

LEMMA StepIs ==
  ASSUME NEW kind, IsSoundKind(kind), NEW n \in Nat, NEW i \in 1 .. Len(kind.steps),
         NEW t, Holds(kind, t, n, i - 1)
  PROVE  MayBecome(kind, i, n, t, DoStep(t, kind.columns[1], kind.steps[i]))
  <1> DEFINE cols == Range(kind.columns)
             step == kind.steps[i]
             c == step.column
             x == kind.columns[1]
             u == DoStep(t, x, step)
  <1>1. t \in Columns(cols, n) /\ IsSound(kind, i) /\ x \in cols
    BY DEF Holds, IsSoundKind, Range
  <1>2. DOMAIN t = cols /\ \A d \in cols : t[d] \in [1 .. n -> Value]
    BY <1>1 DEF Columns
  <1>3. \A d \in cols : DOMAIN t[d] = 1 .. n /\ Len(t[d]) = n
    BY <1>2, RowsAre
  <1> HIDE DEF cols, step, x
  <1>0. SUFFICES \/ u = Refused
                 \/ /\ u = t /\ c \in cols
                    /\ Fills(step, c) => IsFilled(t[c], n)
                    /\ Orders(step, x) => IsOrdered(t[x], n, step)
                 \/ /\ u \in Columns(cols, n)
                    /\ c \in cols /\ c # x /\ ~ Orders(step, x)
                    /\ \A d \in cols \ {c} : u[d] = t[d]
                    /\ IsFilled(u[c], n)
    BY DEF MayBecome, cols, step, x
  <1>4. CASE t = Refused \/ c \notin DOMAIN t
    BY <1>4 DEF DoStep, step, x
  <1>5. CASE ~ (t = Refused \/ c \notin DOMAIN t)
    <2>1. c \in cols
      BY <1>2, <1>5
    <2>2. \A values \in [1 .. n -> Int] :
            /\ ApplyDefaults(t, c, values) \in Columns(cols, n)
            /\ \A d \in cols \ {c} : ApplyDefaults(t, c, values)[d] = t[d]
            /\ IsFilled(ApplyDefaults(t, c, values)[c], n)
      <3>1. SUFFICES ASSUME NEW values \in [1 .. n -> Int]
                     PROVE  /\ ApplyDefaults(t, c, values) \in Columns(cols, n)
                            /\ \A d \in cols \ {c} : ApplyDefaults(t, c, values)[d] = t[d]
                            /\ IsFilled(ApplyDefaults(t, c, values)[c], n)
        OBVIOUS
      <3> DEFINE ys == t[c]
                 zs == [r \in 1 .. n |-> IF ys[r].defaulted
                                           THEN [si |-> values[r], defaulted |-> FALSE] ELSE ys[r]]
      <3>2. ys \in [1 .. n -> Value] /\ DOMAIN ys = 1 .. n
        BY <1>2, <1>3, <2>1
      <3>3. ApplyDefaults(t, c, values) = [t EXCEPT ![c] = zs]
        BY <1>2, <1>3, <2>1 DEF ApplyDefaults
      <3> HIDE DEF ys, c
      <3>4. zs \in [1 .. n -> Value] /\ IsFilled(zs, n)
        <4>1. ASSUME NEW r \in 1 .. n
              PROVE  zs[r] \in Value /\ ~ zs[r].defaulted
          <5>1. ys[r] \in Value /\ [si |-> values[r], defaulted |-> FALSE] \in Value
            BY <3>2, ValueIs
          <5>2. QED
            BY <5>1
        <4>2. QED
          BY <4>1 DEF IsFilled
      <3> HIDE DEF zs
      <3>5. t \in [cols -> [1 .. n -> Value]]
        BY <1>1 DEF Columns
      <3>6. /\ [t EXCEPT ![c] = zs] \in [cols -> [1 .. n -> Value]]
            /\ \A d \in cols \ {c} : [t EXCEPT ![c] = zs][d] = t[d]
            /\ [t EXCEPT ![c] = zs][c] = zs
        BY <2>1, <3>4, <3>5
      <3>7. QED
        BY <3>3, <3>4, <3>6 DEF Columns
    <2>3. CASE step.do = "checkNonDefaultable"
      <3>1. u = CheckNonDefaultable(t, c)
        BY <1>5, <2>3 DEF DoStep
      <3>2. u = Refused \/ (u = t /\ IsFilled(t[c], n))
        BY <1>3, <2>1, <3>1 DEF CheckNonDefaultable, IsFilled
      <3>3. QED
        BY <2>1, <2>3, <3>2 DEF Orders, cols, step, x
    <2>4. CASE step.do = "checkMonotonic"
      <3>1. u = CheckMonotonic(t, c, step)
        BY <1>5, <2>4 DEF DoStep
      <3>2. u = Refused \/ (u = t /\ IsOrdered(t[c], n, step))
        BY <1>3, <2>1, <3>1 DEF CheckMonotonic, IsOrdered
      <3>3. QED
        BY <2>1, <2>4, <3>2 DEF Fills, Orders, cols, step, x
    <2>5. CASE step.do = "applyDefaultsLinear"
      <3>1. u = ApplyDefaultsLinear(t, x, c)
        BY <1>5, <2>5 DEF DoStep
      <3>2. /\ c # x
            /\ \E j \in 1 .. i - 1 : Fills(kind.steps[j], x)
            /\ \E j \in 1 .. i - 1 : Orders(kind.steps[j], x)
        BY <1>1, <2>5 DEF IsSound, step, x
      <3>3. IsFilled(t[x], n)
        BY <1>1, <3>2 DEF Holds, cols
      <3>4. AreApart(t[x], n)
        <4>1. PICK j \in 1 .. i - 1 : Orders(kind.steps[j], x)
          BY <3>2
        <4>2. IsOrdered(t[x], n, kind.steps[j]) /\ kind.steps[j].strict
          BY <4>1 DEF Holds, Orders, x
        <4>3. QED
          BY <1>1, <1>2, <3>3, <4>2, OrderedGoes
      <3>5. \/ u = Refused
            \/ /\ u \in Columns(cols, n)
               /\ \A d \in cols \ {c} : u[d] = t[d]
               /\ IsFilled(u[c], n)
        BY <1>1, <2>1, <3>1, <3>3, <3>4, LinearIs
      <3>6. QED
        BY <2>1, <2>5, <3>2, <3>5 DEF Orders, cols, step, x
    <2>6. CASE step.do = "applyDefaultsConstant"
      <3>1. u = ApplyDefaults(t, c, [r \in DOMAIN t[c] |-> step.value])
        BY <1>5, <2>6 DEF DoStep
      <3>2. c # x /\ step.value \in Int
        BY <1>1, <2>6 DEF IsSound, step, x
      <3>3. [r \in DOMAIN t[c] |-> step.value] \in [1 .. n -> Int]
        BY <1>3, <2>1, <3>2
      <3>4. QED
        BY <2>1, <2>2, <2>6, <3>1, <3>2, <3>3 DEF Orders, cols, step, x
    <2>7. CASE step.do = "copy"
      <3>1. u = ApplyDefaults(t, c, [r \in DOMAIN t[c] |-> t[step.other][r].si])
        BY <1>5, <2>7 DEF DoStep
      <3>2. /\ c # x /\ step.other \in cols
            /\ \E j \in 1 .. i - 1 : Fills(kind.steps[j], step.other)
        BY <1>1, <2>7 DEF IsSound, cols, step, x
      <3>3. IsFilled(t[step.other], n)
        BY <3>2 DEF Holds, cols
      <3>4. \A r \in 1 .. n : t[step.other][r].si \in Int
        BY <1>2, <3>2, <3>3, ValueIs DEF IsFilled
      <3>5. [r \in DOMAIN t[c] |-> t[step.other][r].si] \in [1 .. n -> Int]
        BY <1>3, <2>1, <3>4
      <3>6. QED
        BY <2>1, <2>2, <2>7, <3>1, <3>2, <3>5 DEF Orders, cols, step, x
    <2>8. QED
      BY <1>1, <2>3, <2>4, <2>5, <2>6, <2>7 DEF IsSound, step, x
  <1>6. QED
    BY <1>4, <1>5

(* The steps of init(), one after the other. *)
TakesSteps(f, kind, t, n) ==
  f = [i \in 0 .. n |-> IF i = 0 THEN t ELSE DoStep(f[i - 1], kind.columns[1], kind.steps[i])]

LEMMA StepsExist ==
  ASSUME NEW kind, NEW t, NEW n \in Nat
  PROVE  \E f : TakesSteps(f, kind, t, n)
  <1> DEFINE rhs(f, i) == IF i = 0 THEN t ELSE DoStep(f[i - 1], kind.columns[1], kind.steps[i])
             Upto(f, k) == \A i \in 0 .. n : i <= k => f[i] = rhs(f, i)
             U == {k \in Nat : \E f : Upto(f, k)}
  <1>1. 0 \in U
    <2> DEFINE f == [i \in 0 .. n |-> t]
    <2>1. Upto(f, 0)
      OBVIOUS
    <2>2. QED
      BY <2>1
  <1>2. ASSUME NEW k \in Nat, k \in U
        PROVE  k + 1 \in U
    <2>1. PICK f : Upto(f, k)
      BY <1>2
    <2> DEFINE g == [i \in 0 .. n |-> IF i <= k THEN f[i] ELSE rhs(f, i)]
    <2>2. ASSUME NEW i \in 0 .. n, i <= k + 1
          PROVE  g[i] = rhs(g, i)
      <3>1. rhs(g, i) = rhs(f, i)
        <4>1. CASE i = 0
          BY <4>1
        <4>2. CASE i # 0
          <5>1. i - 1 \in 0 .. n /\ i - 1 <= k
            BY <2>2, <4>2
          <5>2. g[i - 1] = f[i - 1]
            BY <5>1
          <5> HIDE DEF g
          <5>3. QED
            BY <5>2
        <4>3. QED
          BY <4>1, <4>2
      <3>2. g[i] = rhs(f, i)
        <4> HIDE DEF rhs
        <4> QED
          BY <2>1
      <3>3. QED
        BY <3>1, <3>2
    <2>3. Upto(g, k + 1)
      <3> HIDE DEF g, rhs
      <3> QED
        BY <2>2
    <2> HIDE DEF g, Upto
    <2>4. \E e : Upto(e, k + 1)
      BY <2>3
    <2>5. QED
      BY <2>4
  <1>3. Nat \subseteq U
    <2> HIDE DEF U
    <2> QED
      BY <1>1, <1>2, NatSet
  <1>4. PICK f : Upto(f, n)
    BY <1>3
  <1> DEFINE h == [i \in 0 .. n |-> f[i]]
             shape(g) == [i \in 0 .. n |-> rhs(g, i)]
  <1>5. ASSUME NEW i \in 0 .. n
        PROVE  h[i] = rhs(h, i)
    <2>1. f[i] = rhs(f, i)
      <3> HIDE DEF rhs
      <3> QED
        BY <1>4
    <2>2. rhs(h, i) = rhs(f, i)
      <3>1. CASE i = 0
        BY <3>1
      <3>2. CASE i # 0
        <4>1. i - 1 \in 0 .. n
          BY <3>2
        <4>2. h[i - 1] = f[i - 1]
          BY <4>1
        <4> HIDE DEF h
        <4>3. QED
          BY <4>2
      <3>3. QED
        BY <3>1, <3>2
    <2>3. QED
      BY <2>1, <2>2
  <1>6. h = shape(h)
    <2> HIDE DEF rhs
    <2> QED
      BY <1>5
  <1> HIDE DEF h
  <1>7. QED
    BY <1>6 DEF TakesSteps

(* init() refuses a table, or fills its columns in and has made sure that  *)
(* the first one goes up or falls.                                         *)
LEMMA InitTableIs ==
  ASSUME NEW kind, IsSoundKind(kind), NEW n \in Nat,
         NEW t, t = Refused \/ t \in Columns(Range(kind.columns), n)
  PROVE  LET u == InitTable(kind, t)
         IN \/ u = Refused
            \/ /\ u \in Columns(Range(kind.columns), n)
               /\ \A c \in Range(kind.columns) \ {"SWMAX"} : IsFilled(u[c], n)
               /\ IsFilled(u[kind.columns[1]], n)
               /\ kind.evaluated =>
                    GoesUp(u[kind.columns[1]]) \/ FallsDown(u[kind.columns[1]])
  <1> DEFINE m == Len(kind.steps)
             x == kind.columns[1]
             cols == Range(kind.columns)
             u == InitTable(kind, t)
             f == CHOOSE f : TakesSteps(f, kind, t, m)
             Good(i) == f[i] = Refused \/ Holds(kind, f[i], n, i)
             T == {i \in Nat : i <= m => Good(i)}
  <1>1. m \in Nat /\ x \in cols
    BY DEF IsSoundKind, Range
  <1>2. u = f[m] /\ TakesSteps(f, kind, t, m)
    <2>1. u = f[m]
      BY DEF InitTable, TakesSteps
    <2>2. TakesSteps(f, kind, t, m)
      BY <1>1, StepsExist
    <2>3. QED
      BY <2>1, <2>2
  <1> HIDE DEF f, u
  <1>3. f[0] = t /\ \A i \in 1 .. m : f[i] = DoStep(f[i - 1], x, kind.steps[i])
    <2>1. 0 \in 0 .. m /\ \A i \in 1 .. m : i \in 0 .. m /\ i # 0
      BY <1>1
    <2>2. QED
      BY <1>2, <2>1 DEF TakesSteps
  <1>4. 0 \in T
    BY <1>3 DEF Holds
  <1>5. ASSUME NEW k \in Nat, k \in T
        PROVE  k + 1 \in T
    <2>1. SUFFICES ASSUME k + 1 <= m
                   PROVE  Good(k + 1)
      OBVIOUS
    <2> DEFINE i == k + 1
               v == f[k]
               w == f[i]
               step == kind.steps[i]
               c == step.column
    <2>2. i \in 1 .. m /\ i - 1 = k
      BY <1>1, <2>1
    <2>3. w = DoStep(v, x, step)
      BY <1>3, <2>2
    <2>4. v = Refused \/ Holds(kind, v, n, k)
      BY <1>5, <2>1
    <2>5. CASE v = Refused
      <3>1. w = Refused
        BY <2>3, <2>5 DEF DoStep
      <3>2. QED
        BY <3>1
    <2>6. CASE Holds(kind, v, n, k)
      <3>1. \/ w = Refused
            \/ /\ w = v /\ c \in cols
               /\ Fills(step, c) => IsFilled(v[c], n)
               /\ Orders(step, x) => IsOrdered(v[x], n, step)
            \/ /\ w \in Columns(cols, n)
               /\ c \in cols /\ c # x /\ ~ Orders(step, x)
               /\ \A d \in cols \ {c} : w[d] = v[d]
               /\ IsFilled(w[c], n)
        <4> HIDE DEF v, w, i
        <4>1. i \in 1 .. Len(kind.steps) /\ Holds(kind, v, n, i - 1)
          BY <2>2, <2>6
        <4>2. MayBecome(kind, i, n, v, w)
          BY <2>3, <4>1, StepIs
        <4>3. QED
          BY <4>2 DEF MayBecome
      <3>2. /\ v \in Columns(cols, n)
            /\ \A j \in 1 .. k, d \in cols : Fills(kind.steps[j], d) => IsFilled(v[d], n)
            /\ \A j \in 1 .. k : Orders(kind.steps[j], x) => IsOrdered(v[x], n, kind.steps[j])
        BY <2>6 DEF Holds
      <3>3. \A j \in 1 .. i : j = i \/ j \in 1 .. k
        OBVIOUS
      <3>4. \A d : Fills(step, d) => d = c
        BY DEF Fills
      <3> HIDE DEF v, w, i, c, cols, x, step
      <3>5. CASE w = Refused
        BY <3>5 DEF w, i
      <3>6. CASE /\ w = v /\ c \in cols
                 /\ Fills(step, c) => IsFilled(v[c], n)
                 /\ Orders(step, x) => IsOrdered(v[x], n, step)
        <4>1. \A j \in 1 .. i, d \in cols : Fills(kind.steps[j], d) => IsFilled(w[d], n)
          BY <3>2, <3>3, <3>4, <3>6 DEF step
        <4>2. \A j \in 1 .. i : Orders(kind.steps[j], x) => IsOrdered(w[x], n, kind.steps[j])
          BY <3>2, <3>3, <3>6 DEF step
        <4>3. Holds(kind, w, n, i)
          BY <3>2, <3>6, <4>1, <4>2 DEF Holds, cols, x
        <4>4. QED
          BY <4>3 DEF w, i
      <3>7. CASE /\ w \in Columns(cols, n)
                 /\ c \in cols /\ c # x /\ ~ Orders(step, x)
                 /\ \A d \in cols \ {c} : w[d] = v[d]
                 /\ IsFilled(w[c], n)
        <4>1. \A j \in 1 .. i, d \in cols : Fills(kind.steps[j], d) => IsFilled(w[d], n)
          <5>1. SUFFICES ASSUME NEW j \in 1 .. i, NEW d \in cols, Fills(kind.steps[j], d), d # c
                         PROVE  IsFilled(w[d], n)
            BY <3>7
          <5>2. j \in 1 .. k
            BY <3>3, <3>4, <5>1 DEF step
          <5>3. QED
            BY <3>2, <3>7, <5>1, <5>2
        <4>2. \A j \in 1 .. i : Orders(kind.steps[j], x) => IsOrdered(w[x], n, kind.steps[j])
          <5>1. w[x] = v[x]
            BY <1>1, <3>7 DEF x, cols
          <5>2. QED
            BY <3>2, <3>3, <3>7, <5>1 DEF step
        <4>3. Holds(kind, w, n, i)
          BY <3>7, <4>1, <4>2 DEF Holds, cols, x
        <4>4. QED
          BY <4>3 DEF w, i
      <3>8. QED
        BY <3>1, <3>5, <3>6, <3>7
    <2>7. QED
      BY <2>4, <2>5, <2>6
  <1>6. u = Refused \/ Holds(kind, u, n, m)
    <2>1. m \in T
      <3> HIDE DEF T
      <3> QED
        BY <1>1, <1>4, <1>5, NatSet
    <2>2. QED
      BY <1>1, <1>2, <2>1
  <1>7. CASE Holds(kind, u, n, m)
    <2>1. /\ \A c \in cols \ {"SWMAX"} : IsFilled(u[c], n)
          /\ IsFilled(u[x], n)
      BY <1>1, <1>7 DEF Holds, IsSoundKind
    <2>2. ASSUME kind.evaluated
          PROVE  GoesUp(u[x]) \/ FallsDown(u[x])
      <3>1. PICK i \in 1 .. m : Orders(kind.steps[i], x)
        BY <2>2 DEF IsSoundKind
      <3>2. IsOrdered(u[x], n, kind.steps[i]) /\ kind.steps[i].strict
        BY <1>7, <3>1 DEF Holds, Orders
      <3>3. u[x] \in [1 .. n -> Value]
        BY <1>1, <1>7 DEF Holds, Columns
      <3>4. IsFilled(u[x], n)
        BY <2>1
      <3> HIDE DEF x
      <3>5. QED
        BY <3>2, <3>3, <3>4, OrderedGoes
    <2>3. QED
      BY <1>7, <2>1, <2>2 DEF Holds, u
  <1>8. QED
    BY <1>6, <1>7 DEF u


(* The kinds of tables: most begin with the checks of the first column,    *)
(* and fill in or check the others.                                        *)
ChecksFirst(kind, x, p, m) ==
  /\ p \in Nat \ {0} /\ m \in Nat /\ 2 <= m
  /\ Len(kind.columns) = p /\ DOMAIN kind.columns = 1 .. p /\ Len(kind.steps) = m
  /\ kind.columns[1] = x
  /\ kind.steps[1] = Given(x) /\ kind.steps[2] \in {Rising(x), Falling(x)}
  /\ \A i \in 3 .. m :
       \/ kind.steps[i].do \in {"checkNonDefaultable", "checkMonotonic"}
       \/ kind.steps[i].do = "applyDefaultsLinear" /\ kind.steps[i].column # x
  /\ \A c \in 2 .. p : kind.columns[c] # "SWMAX" =>
       \E i \in 3 .. m : Fills(kind.steps[i], kind.columns[c])

LEMMA CheckedFirst ==
  ASSUME NEW kind, NEW x, NEW p, NEW m, ChecksFirst(kind, x, p, m)
  PROVE  IsSoundKind(kind)
  <1> SUFFICES ASSUME p \in Nat \ {0}, m \in Nat, 2 <= m,
                      Len(kind.columns) = p, DOMAIN kind.columns = 1 .. p, Len(kind.steps) = m,
                      kind.columns[1] = x,
                      kind.steps[1] = Given(x), kind.steps[2] \in {Rising(x), Falling(x)},
                      \A i \in 3 .. m :
                        \/ kind.steps[i].do \in {"checkNonDefaultable", "checkMonotonic"}
                        \/ kind.steps[i].do = "applyDefaultsLinear" /\ kind.steps[i].column # x,
                      \A c \in 2 .. p : kind.columns[c] # "SWMAX" =>
                        \E i \in 3 .. m : Fills(kind.steps[i], kind.columns[c])
               PROVE  IsSoundKind(kind)
    BY DEF ChecksFirst
  <1>1. Fills(kind.steps[1], x) /\ Orders(kind.steps[2], x)
    BY DEF Fills, Orders, Given, Rising, Falling
  <1>2. kind.steps[1].do = "checkNonDefaultable" /\ kind.steps[2].do = "checkMonotonic"
    BY DEF Given, Rising, Falling
  <1>3. ASSUME NEW i \in 1 .. m
        PROVE  IsSound(kind, i)
    <2>1. CASE i \in 1 .. 2
      <3>1. i = 1 \/ i = 2
        BY <2>1
      <3>2. QED
        BY <1>2, <3>1 DEF IsSound
    <2>2. CASE i \in 3 .. m
      <3>1. 1 \in 1 .. i - 1 /\ 2 \in 1 .. i - 1
        BY <2>2
      <3>2. QED
        BY <1>1, <2>2, <3>1 DEF IsSound
    <2>3. i \in 1 .. 2 \/ i \in 3 .. m
      OBVIOUS
    <2>4. QED
      BY <2>1, <2>2, <2>3
  <1>4. ASSUME NEW c \in {kind.columns[1]} \union (Range(kind.columns) \ {"SWMAX"})
        PROVE  \E i \in 1 .. m : Fills(kind.steps[i], c)
    <2>1. PICK j \in 1 .. p : c = kind.columns[j] /\ (j = 1 \/ c # "SWMAX")
      <3>1. 1 \in 1 .. p
        OBVIOUS
      <3>2. QED
        BY <3>1 DEF Range
    <2>2. CASE j = 1
      <3>1. 1 \in 1 .. m
        OBVIOUS
      <3>2. QED
        BY <1>1, <2>1, <2>2, <3>1
    <2>3. CASE j # 1
      <3>1. j \in 2 .. p
        BY <2>3
      <3>2. PICK i \in 3 .. m : Fills(kind.steps[i], c)
        BY <2>1, <3>1
      <3>3. i \in 1 .. m
        OBVIOUS
      <3>4. QED
        BY <3>2, <3>3
    <2>4. QED
      BY <2>2, <2>3
  <1>5. \E i \in 1 .. m : Orders(kind.steps[i], kind.columns[1])
    <2>1. 2 \in 1 .. m
      OBVIOUS
    <2>2. QED
      BY <1>1, <2>1
  <1>6. QED
    BY <1>3, <1>4, <1>5 DEF IsSoundKind

(* Those whose other columns are all filled in by lines. *)
IsAmong(cs, a, fs, b) ==
  \A i \in 1 .. a : cs[i] # "SWMAX" => \E j \in 1 .. b : fs[j] = cs[i]

LEMMA AllLinear ==
  ASSUME NEW S, NEW d \in S, NEW a \in Nat, NEW b \in Nat,
         NEW cs \in Seq(S), Len(cs) = a, NEW fs \in Seq(S), Len(fs) = b,
         IsAmong(cs, a, fs, b),
         \A j \in 1 .. b : fs[j] # d
  PROVE  IsSoundKind(Kind(<<d>> \o cs, <<Given(d), Rising(d)>> \o AllOf(Linear, fs)))
  <1> DEFINE columns == <<d>> \o cs
             linear == [i \in 1 .. b |-> Linear(fs[i])]
             checks == <<Given(d), Rising(d)>>
             steps == checks \o linear
             kind == Kind(columns, <<Given(d), Rising(d)>> \o AllOf(Linear, fs))
             Step == {Given(d), Rising(d)} \union {Linear(c) : c \in S}
  <1>1. AllOf(Linear, fs) = linear
    BY DEF AllOf
  <1>2. kind.columns = columns /\ kind.steps = steps
    BY <1>1 DEF Kind
  <1>3. linear \in Seq(Step) /\ Len(linear) = b /\ checks \in Seq(Step) /\ Len(checks) = 2
    <2>1. \A i \in 1 .. b : Linear(fs[i]) \in Step
      OBVIOUS
    <2> HIDE DEF Step
    <2>2. linear \in Seq(Step) /\ Len(linear) = b
      BY <2>1
    <2>3. Given(d) \in Step /\ Rising(d) \in Step
      BY DEF Step
    <2>4. checks \in Seq(Step) /\ Len(checks) = 2
      BY <2>3
    <2>5. QED
      BY <2>2, <2>4
  <1>4. /\ Len(columns) = a + 1 /\ DOMAIN columns = 1 .. a + 1
        /\ columns[1] = d /\ \A i \in 1 .. a : columns[i + 1] = cs[i]
    <2>1. <<d>> \in Seq(S) /\ Len(<<d>>) = 1 /\ <<d>>[1] = d
      OBVIOUS
    <2>2. columns \in Seq(S) /\ Len(columns) = 1 + a /\ \A i \in 1 .. 1 + a :
            columns[i] = IF i <= 1 THEN <<d>>[i] ELSE cs[i - 1]
      BY <2>1, ConcatProperties
    <2>3. \A i \in 1 .. a : i + 1 \in 1 .. 1 + a /\ ~ (i + 1 <= 1) /\ i + 1 - 1 = i
      OBVIOUS
    <2>4. 1 \in 1 .. 1 + a
      OBVIOUS
    <2> HIDE DEF columns
    <2>5. QED
      BY <2>1, <2>2, <2>3, <2>4
  <1>5. \A i \in 1 .. b : linear[i] = Linear(fs[i])
    OBVIOUS
  <1>6. checks[1] = Given(d) /\ checks[2] = Rising(d)
    OBVIOUS
  <1> HIDE DEF linear, checks, columns, Step
  <1>7. /\ Len(steps) = b + 2
        /\ steps[1] = Given(d) /\ steps[2] = Rising(d)
        /\ \A i \in 1 .. b : steps[i + 2] = Linear(fs[i])
    <2>1. Len(steps) = b + 2 /\ \A i \in 1 .. b + 2 :
            steps[i] = IF i <= 2 THEN checks[i] ELSE linear[i - 2]
      <3>1. /\ Len(steps) = Len(checks) + Len(linear)
            /\ \A i \in 1 .. Len(checks) + Len(linear) :
                 steps[i] = IF i <= Len(checks) THEN checks[i] ELSE linear[i - Len(checks)]
        <4>1. checks \in Seq(Step) /\ linear \in Seq(Step)
          BY <1>3
        <4>2. QED
          BY <4>1, ConcatProperties
      <3>2. Len(checks) + Len(linear) = b + 2
        BY <1>3
      <3> HIDE DEF steps
      <3>3. QED
        BY <1>3, <3>1, <3>2
    <2>2. \A i \in 1 .. b : i + 2 \in 1 .. b + 2 /\ ~ (i + 2 <= 2) /\ i + 2 - 2 = i
      OBVIOUS
    <2>3. 1 \in 1 .. b + 2 /\ 2 \in 1 .. b + 2
      OBVIOUS
    <2> HIDE DEF steps
    <2>4. QED
      BY <1>5, <1>6, <2>1, <2>2, <2>3
  <1> HIDE DEF steps, kind
  <1>8. \A i \in 3 .. b + 2 : kind.steps[i].do = "applyDefaultsLinear" /\ kind.steps[i].column # d
    <2>1. SUFFICES ASSUME NEW i \in 3 .. b + 2
                   PROVE  kind.steps[i].do = "applyDefaultsLinear" /\ kind.steps[i].column # d
      OBVIOUS
    <2>2. i - 2 \in 1 .. b /\ i = (i - 2) + 2
      OBVIOUS
    <2>3. steps[i] = Linear(fs[i - 2])
      BY <1>7, <2>2
    <2>4. QED
      BY <1>2, <2>2, <2>3 DEF Linear
  <1>9. ASSUME NEW c \in 2 .. a + 1, kind.columns[c] # "SWMAX"
        PROVE  \E i \in 3 .. b + 2 : Fills(kind.steps[i], kind.columns[c])
    <2>1. c - 1 \in 1 .. a /\ c = (c - 1) + 1
      OBVIOUS
    <2>2. columns[c] = cs[c - 1]
      BY <1>4, <2>1
    <2>3. PICK j \in 1 .. b : fs[j] = cs[c - 1]
      BY <1>2, <1>9, <2>1, <2>2 DEF IsAmong
    <2>4. j + 2 \in 3 .. b + 2 /\ steps[j + 2] = Linear(fs[j])
      BY <1>7
    <2>5. Fills(kind.steps[j + 2], kind.columns[c])
      BY <1>2, <2>2, <2>3, <2>4 DEF Fills, Linear
    <2>6. QED
      BY <2>4, <2>5
  <1>10. a + 1 \in Nat \ {0} /\ b + 2 \in Nat /\ 2 <= b + 2
    OBVIOUS
  <1>11. IsSoundKind(kind)
    <2> DEFINE p == a + 1
               m == b + 2
    <2>1. /\ p \in Nat \ {0} /\ m \in Nat /\ 2 <= m
          /\ Len(kind.columns) = p /\ DOMAIN kind.columns = 1 .. p /\ Len(kind.steps) = m
          /\ kind.columns[1] = d /\ kind.steps[1] = Given(d)
          /\ kind.steps[2] \in {Rising(d), Falling(d)}
      BY <1>2, <1>4, <1>7, <1>10
    <2>2. \A i \in 3 .. m :
            kind.steps[i].do = "applyDefaultsLinear" /\ kind.steps[i].column # d
      BY <1>8
    <2>3. \A c \in 2 .. p : kind.columns[c] # "SWMAX" =>
            \E i \in 3 .. m : Fills(kind.steps[i], kind.columns[c])
      BY <1>9
    <2> HIDE DEF p, m
    <2>4. ChecksFirst(kind, d, p, m)
      BY <2>1, <2>2, <2>3 DEF ChecksFirst
    <2>5. QED
      BY <2>4, CheckedFirst
  <1>12. QED
    BY <1>11 DEF kind, columns

LEMMA RelpermKinds == IsSoundKind(EnkrvdTable) /\ IsSoundKind(ImkrvdTable)
  <1> DEFINE cs == RelpermColumns
             S == {"DEPTH", "KRWMAX", "KRGMAX", "KROMAX", "KRWCRIT", "KRGCRIT", "KROCRITG",
                   "KROCRITW"}
  <1>1. cs \in Seq(S) /\ Len(cs) = 7 /\ \A j \in 1 .. 7 : cs[j] # "DEPTH"
    <2>1. cs \in Seq(S)
      BY DEF RelpermColumns
    <2>2. Len(cs) = 7
      BY DEF RelpermColumns
    <2>3. \A j \in 1 .. 7 : cs[j] # "DEPTH"
      BY DEF RelpermColumns
    <2>4. QED
      BY <2>1, <2>2, <2>3
  <1>2. "DEPTH" \in S /\ IsAmong(cs, 7, cs, 7)
    BY DEF IsAmong
  <1> HIDE DEF cs, S
  <1>3. IsSoundKind(Kind(<<"DEPTH">> \o cs, <<Given("DEPTH"), Rising("DEPTH")>> \o AllOf(Linear, cs)))
    BY <1>1, <1>2, AllLinear
  <1>4. QED
    BY <1>3 DEF EnkrvdTable, ImkrvdTable, cs

LEMMA SaturationKinds == IsSoundKind(EnptvdTable) /\ IsSoundKind(ImptvdTable)
  <1> DEFINE cs == SaturationColumns
             fs == FilledSaturations
             S == {"DEPTH", "SWCO", "SWCRIT", "SWMAX", "SGCO", "SGCRIT", "SGMAX", "SOWCRIT",
                   "SOGCRIT"}
  <1>1. cs \in Seq(S) /\ Len(cs) = 8
    BY DEF SaturationColumns
  <1>2. fs \in Seq(S) /\ Len(fs) = 7 /\ \A j \in 1 .. 7 : fs[j] # "DEPTH"
    <2>1. fs \in Seq(S)
      BY DEF FilledSaturations
    <2>2. Len(fs) = 7
      BY DEF FilledSaturations
    <2>3. \A j \in 1 .. 7 : fs[j] # "DEPTH"
      BY DEF FilledSaturations
    <2>4. QED
      BY <2>1, <2>2, <2>3
  <1>3. IsAmong(cs, 8, fs, 7)
    <2>1. /\ cs[1] = fs[1] /\ cs[2] = fs[2] /\ cs[3] = "SWMAX" /\ cs[4] = fs[3]
          /\ cs[5] = fs[4] /\ cs[6] = fs[5] /\ cs[7] = fs[6] /\ cs[8] = fs[7]
      BY DEF SaturationColumns, FilledSaturations
    <2> HIDE DEF cs, fs
    <2>2. \A i \in 1 .. 8 : i = 1 \/ i = 2 \/ i = 3 \/ i = 4 \/ i = 5 \/ i = 6 \/ i = 7 \/ i = 8
      OBVIOUS
    <2>3. \A j \in {1, 2, 3, 4, 5, 6, 7} : j \in 1 .. 7
      OBVIOUS
    <2>4. QED
      BY <2>1, <2>2, <2>3 DEF IsAmong
  <1>4. "DEPTH" \in S
    OBVIOUS
  <1> HIDE DEF cs, fs, S
  <1>5. IsSoundKind(Kind(<<"DEPTH">> \o cs, <<Given("DEPTH"), Rising("DEPTH")>> \o AllOf(Linear, fs)))
    BY <1>1, <1>2, <1>3, <1>4, AllLinear
  <1>6. QED
    BY <1>5 DEF EnptvdTable, ImptvdTable, cs, fs


(* Kinds of two, three and four columns. *)
LEMMA TwoColumns ==
  ASSUME NEW kind, NEW x, NEW y, NEW m \in {3, 4},
         Len(kind.columns) = 2, DOMAIN kind.columns = 1 .. 2,
         kind.columns[1] = x, kind.columns[2] = y,
         Len(kind.steps) = m, kind.steps[1] = Given(x),
         kind.steps[2] \in {Rising(x), Falling(x)}, kind.steps[3] = Given(y),
         m = 4 => kind.steps[4].do = "checkMonotonic"
  PROVE  IsSoundKind(kind)
  <1>1. Fills(kind.steps[3], y) /\ kind.steps[3].do = "checkNonDefaultable"
    BY DEF Fills, Given
  <1>2. \A i \in 3 .. m : i = 3 \/ (i = 4 /\ m = 4)
    OBVIOUS
  <1>3. m \in Nat /\ 2 <= m /\ 3 \in 3 .. m /\ \A c \in 2 .. 2 : c = 2
    OBVIOUS
  <1>4. \A i \in 3 .. m : kind.steps[i].do \in {"checkNonDefaultable", "checkMonotonic"}
    BY <1>1, <1>2
  <1>5. \A c \in 2 .. 2 : kind.columns[c] # "SWMAX" =>
          \E i \in 3 .. m : Fills(kind.steps[i], kind.columns[c])
    BY <1>1, <1>3
  <1> DEFINE p == 2
  <1>6. p \in Nat \ {0} /\ Len(kind.columns) = p /\ DOMAIN kind.columns = 1 .. p
    OBVIOUS
  <1>7. ChecksFirst(kind, x, p, m)
    BY <1>3, <1>4, <1>5, <1>6 DEF ChecksFirst
  <1>8. QED
    BY <1>7, CheckedFirst

LEMMA ThreeColumns ==
  ASSUME NEW kind, NEW x, NEW y, NEW z, x # y, x # z, NEW m \in {4, 6},
         Len(kind.columns) = 3, DOMAIN kind.columns = 1 .. 3,
         kind.columns[1] = x, kind.columns[2] = y, kind.columns[3] = z,
         Len(kind.steps) = m, kind.steps[1] = Given(x),
         kind.steps[2] \in {Rising(x), Falling(x)}, kind.steps[3] = Linear(y),
         IF m = 4 THEN kind.steps[4] = Linear(z)
         ELSE /\ kind.steps[4].do = "checkMonotonic" /\ kind.steps[5] = Linear(z)
              /\ kind.steps[6].do = "checkMonotonic"
  PROVE  IsSoundKind(kind)
  <1> DEFINE p == 3
             last == IF m = 4 THEN 4 ELSE 5
  <1>1. /\ Fills(kind.steps[3], y) /\ Fills(kind.steps[last], z)
        /\ kind.steps[3].do = "applyDefaultsLinear" /\ kind.steps[3].column = y
        /\ kind.steps[last].do = "applyDefaultsLinear" /\ kind.steps[last].column = z
    BY DEF Fills, Linear
  <1>2. \A i \in 3 .. m : i = 3 \/ i = last \/ (kind.steps[i].do = "checkMonotonic")
    OBVIOUS
  <1>3. m \in Nat /\ 2 <= m /\ 3 \in 3 .. m /\ last \in 3 .. m /\ p \in Nat \ {0}
    OBVIOUS
  <1>4. \A c \in 2 .. p : c = 2 \/ c = 3
    OBVIOUS
  <1>5. Len(kind.columns) = p /\ DOMAIN kind.columns = 1 .. p
    OBVIOUS
  <1> HIDE DEF last, p
  <1>6. \A i \in 3 .. m :
           \/ kind.steps[i].do \in {"checkNonDefaultable", "checkMonotonic"}
           \/ kind.steps[i].do = "applyDefaultsLinear" /\ kind.steps[i].column # x
    BY <1>1, <1>2
  <1>7. \A c \in 2 .. p : kind.columns[c] # "SWMAX" =>
          \E i \in 3 .. m : Fills(kind.steps[i], kind.columns[c])
    BY <1>1, <1>3, <1>4
  <1>8. ChecksFirst(kind, x, p, m)
    BY <1>3, <1>5, <1>6, <1>7 DEF ChecksFirst
  <1>9. QED
    BY <1>8, CheckedFirst

LEMMA FourColumns ==
  ASSUME NEW kind, NEW x, NEW y, NEW z, NEW w, x # y, x # z, x # w,
         Len(kind.columns) = 4, DOMAIN kind.columns = 1 .. 4,
         kind.columns[1] = x, kind.columns[2] = y, kind.columns[3] = z, kind.columns[4] = w,
         Len(kind.steps) = 5, kind.steps[1] = Given(x), kind.steps[2] = Rising(x),
         kind.steps[3] = Linear(y), kind.steps[4] = Linear(z), kind.steps[5] = Linear(w)
  PROVE  IsSoundKind(kind)
  <1> DEFINE p == 4
             m == 5
  <1>1. /\ Fills(kind.steps[3], y) /\ Fills(kind.steps[4], z) /\ Fills(kind.steps[5], w)
        /\ kind.steps[3].do = "applyDefaultsLinear" /\ kind.steps[3].column = y
        /\ kind.steps[4].do = "applyDefaultsLinear" /\ kind.steps[4].column = z
        /\ kind.steps[5].do = "applyDefaultsLinear" /\ kind.steps[5].column = w
    BY DEF Fills, Linear
  <1>2. /\ \A i \in 3 .. m : i = 3 \/ i = 4 \/ i = 5
        /\ \A c \in 2 .. p : c = 2 \/ c = 3 \/ c = 4
        /\ 3 \in 3 .. m /\ 4 \in 3 .. m /\ 5 \in 3 .. m
        /\ m \in Nat /\ 2 <= m /\ p \in Nat \ {0}
    OBVIOUS
  <1>3. Len(kind.columns) = p /\ DOMAIN kind.columns = 1 .. p /\ Len(kind.steps) = m
    OBVIOUS
  <1> HIDE DEF m, p
  <1>4. \A i \in 3 .. m : kind.steps[i].do = "applyDefaultsLinear" /\ kind.steps[i].column # x
    BY <1>1, <1>2
  <1>5. \A c \in 2 .. p : kind.columns[c] # "SWMAX" =>
          \E i \in 3 .. m : Fills(kind.steps[i], kind.columns[c])
    BY <1>1, <1>2
  <1>6. kind.steps[2] \in {Rising(x), Falling(x)}
    OBVIOUS
  <1>7. ChecksFirst(kind, x, p, m)
    BY <1>2, <1>3, <1>4, <1>5, <1>6 DEF ChecksFirst
  <1>8. QED
    BY <1>7, CheckedFirst

(* init() of PvdgTable, PvdoTable, SgofTable, ...: what the steps are.     *)
LEMMA RsvdRvvdKinds ==
  /\ IsSoundKind(RsvdTable)
  /\ IsSoundKind(RvvdTable)
  <1>1. IsSoundKind(RsvdTable)
    <2> DEFINE kind == RsvdTable
    <2>1. /\ Len(kind.columns) = 2 /\ DOMAIN kind.columns = 1 .. 2
          /\ kind.columns[1] = "DEPTH" /\ kind.columns[2] = "RS"
      BY DEF RsvdTable, Kind
    <2>2. /\ Len(kind.steps) = 3 /\ kind.steps[1] = Given("DEPTH")
          /\ kind.steps[2] = Rising("DEPTH") /\ kind.steps[3] = Given("RS")
      BY DEF RsvdTable, Kind
    <2> HIDE DEF kind
    <2>4. IsSoundKind(kind)
      BY <2>1, <2>2, TwoColumns
    <2>5. QED
      BY <2>4 DEF kind
  <1>2. IsSoundKind(RvvdTable)
    <2> DEFINE kind == RvvdTable
    <2>1. /\ Len(kind.columns) = 2 /\ DOMAIN kind.columns = 1 .. 2
          /\ kind.columns[1] = "DEPTH" /\ kind.columns[2] = "RV"
      BY DEF RvvdTable, Kind
    <2>2. /\ Len(kind.steps) = 3 /\ kind.steps[1] = Given("DEPTH")
          /\ kind.steps[2] = Rising("DEPTH") /\ kind.steps[3] = Given("RV")
      BY DEF RvvdTable, Kind
    <2> HIDE DEF kind
    <2>4. IsSoundKind(kind)
      BY <2>1, <2>2, TwoColumns
    <2>5. QED
      BY <2>4 DEF kind
  <1>3. QED
    BY <1>1, <1>2

LEMMA PolymerKinds ==
  /\ IsSoundKind(PlyadsTable)
  /\ IsSoundKind(PlyviscTable)
  /\ IsSoundKind(PlymaxTable)
  <1>1. IsSoundKind(PlyadsTable)
    <2> DEFINE kind == PlyadsTable
    <2>1. /\ Len(kind.columns) = 2 /\ DOMAIN kind.columns = 1 .. 2
          /\ kind.columns[1] = "PolymerConcentration" /\ kind.columns[2] = "AdsorbedPolymer"
      BY DEF PlyadsTable, Kind
    <2>2. /\ Len(kind.steps) = 4 /\ kind.steps[1] = Given("PolymerConcentration")
          /\ kind.steps[2] = Rising("PolymerConcentration")
          /\ kind.steps[3] = Given("AdsorbedPolymer")
          /\ kind.steps[4] = Rising("AdsorbedPolymer")
      BY DEF PlyadsTable, Kind
    <2>3. kind.steps[4].do = "checkMonotonic"
      BY <2>2 DEF Rising
    <2> HIDE DEF kind
    <2>4. IsSoundKind(kind)
      BY <2>1, <2>2, <2>3, TwoColumns
    <2>5. QED
      BY <2>4 DEF kind
  <1>2. IsSoundKind(PlyviscTable)
    <2> DEFINE kind == PlyviscTable
    <2>1. /\ Len(kind.columns) = 2 /\ DOMAIN kind.columns = 1 .. 2
          /\ kind.columns[1] = "PolymerConcentration"
          /\ kind.columns[2] = "ViscosityMultiplier"
      BY DEF PlyviscTable, Kind
    <2>2. /\ Len(kind.steps) = 4 /\ kind.steps[1] = Given("PolymerConcentration")
          /\ kind.steps[2] = Rising("PolymerConcentration")
          /\ kind.steps[3] = Given("ViscosityMultiplier")
          /\ kind.steps[4] = Rising("ViscosityMultiplier")
      BY DEF PlyviscTable, Kind
    <2>3. kind.steps[4].do = "checkMonotonic"
      BY <2>2 DEF Rising
    <2> HIDE DEF kind
    <2>4. IsSoundKind(kind)
      BY <2>1, <2>2, <2>3, TwoColumns
    <2>5. QED
      BY <2>4 DEF kind
  <1>3. IsSoundKind(PlymaxTable)
    <2> DEFINE kind == PlymaxTable
    <2>1. /\ Len(kind.columns) = 2 /\ DOMAIN kind.columns = 1 .. 2
          /\ kind.columns[1] = "C_POLYMER" /\ kind.columns[2] = "C_POLYMER_MAX"
      BY DEF PlymaxTable, Kind
    <2>2. /\ Len(kind.steps) = 4 /\ kind.steps[1] = Given("C_POLYMER")
          /\ kind.steps[2] = Falling("C_POLYMER") /\ kind.steps[3] = Given("C_POLYMER_MAX")
          /\ kind.steps[4] = Falling("C_POLYMER_MAX")
      BY DEF PlymaxTable, Kind
    <2>3. kind.steps[4].do = "checkMonotonic"
      BY <2>2 DEF Falling
    <2> HIDE DEF kind
    <2>4. IsSoundKind(kind)
      BY <2>1, <2>2, <2>3, TwoColumns
    <2>5. QED
      BY <2>4 DEF kind
  <1>4. QED
    BY <1>1, <1>2, <1>3

LEMMA PvdKinds ==
  /\ IsSoundKind(PvdgTable)
  /\ IsSoundKind(PvdoTable)
  <1>1. IsSoundKind(PvdgTable)
    <2> DEFINE kind == PvdgTable
    <2>1. /\ Len(kind.columns) = 3 /\ DOMAIN kind.columns = 1 .. 3 /\ kind.columns[1] = "P"
          /\ kind.columns[2] = "BG" /\ kind.columns[3] = "MUG"
      BY DEF PvdgTable, Kind
    <2>2. /\ Len(kind.steps) = 6 /\ kind.steps[1] = Given("P")
          /\ kind.steps[2] = Rising("P") /\ kind.steps[3] = Linear("BG")
          /\ kind.steps[4] = Falling("BG") /\ kind.steps[5] = Linear("MUG")
          /\ kind.steps[6] = NeverFalling("MUG")
      BY DEF PvdgTable, Kind
    <2>3. kind.steps[4].do = "checkMonotonic" /\ kind.steps[6].do = "checkMonotonic"
      BY <2>2 DEF Falling, NeverFalling
    <2> HIDE DEF kind
    <2>4. IsSoundKind(kind)
      BY <2>1, <2>2, <2>3, ThreeColumns
    <2>5. QED
      BY <2>4 DEF kind
  <1>2. IsSoundKind(PvdoTable)
    <2> DEFINE kind == PvdoTable
    <2>1. /\ Len(kind.columns) = 3 /\ DOMAIN kind.columns = 1 .. 3 /\ kind.columns[1] = "P"
          /\ kind.columns[2] = "BO" /\ kind.columns[3] = "MUO"
      BY DEF PvdoTable, Kind
    <2>2. /\ Len(kind.steps) = 6 /\ kind.steps[1] = Given("P")
          /\ kind.steps[2] = Rising("P") /\ kind.steps[3] = Linear("BO")
          /\ kind.steps[4] = Falling("BO") /\ kind.steps[5] = Linear("MUO")
          /\ kind.steps[6] = NeverFalling("MUO")
      BY DEF PvdoTable, Kind
    <2>3. kind.steps[4].do = "checkMonotonic" /\ kind.steps[6].do = "checkMonotonic"
      BY <2>2 DEF Falling, NeverFalling
    <2> HIDE DEF kind
    <2>4. IsSoundKind(kind)
      BY <2>1, <2>2, <2>3, ThreeColumns
    <2>5. QED
      BY <2>4 DEF kind
  <1>3. QED
    BY <1>1, <1>2

LEMMA SatfuncKinds ==
  /\ IsSoundKind(SgofTable)
  /\ IsSoundKind(SwofTable)
  <1>1. IsSoundKind(SgofTable)
    <2> DEFINE kind == SgofTable
    <2>1. /\ Len(kind.columns) = 4 /\ DOMAIN kind.columns = 1 .. 4 /\ kind.columns[1] = "SG"
          /\ kind.columns[2] = "KRG" /\ kind.columns[3] = "KROG" /\ kind.columns[4] = "PCOG"
      BY DEF SgofTable, Kind
    <2>2. /\ Len(kind.steps) = 5 /\ kind.steps[1] = Given("SG")
          /\ kind.steps[2] = Rising("SG") /\ kind.steps[3] = Linear("KRG")
          /\ kind.steps[4] = Linear("KROG") /\ kind.steps[5] = Linear("PCOG")
      BY DEF SgofTable, Kind
    <2> HIDE DEF kind
    <2>4. IsSoundKind(kind)
      BY <2>1, <2>2, FourColumns
    <2>5. QED
      BY <2>4 DEF kind
  <1>2. IsSoundKind(SwofTable)
    <2> DEFINE kind == SwofTable
    <2>1. /\ Len(kind.columns) = 4 /\ DOMAIN kind.columns = 1 .. 4 /\ kind.columns[1] = "SW"
          /\ kind.columns[2] = "KRW" /\ kind.columns[3] = "KROW" /\ kind.columns[4] = "PCOW"
      BY DEF SwofTable, Kind
    <2>2. /\ Len(kind.steps) = 5 /\ kind.steps[1] = Given("SW")
          /\ kind.steps[2] = Rising("SW") /\ kind.steps[3] = Linear("KRW")
          /\ kind.steps[4] = Linear("KROW") /\ kind.steps[5] = Linear("PCOW")
      BY DEF SwofTable, Kind
    <2> HIDE DEF kind
    <2>4. IsSoundKind(kind)
      BY <2>1, <2>2, FourColumns
    <2>5. QED
      BY <2>4 DEF kind
  <1>3. QED
    BY <1>1, <1>2

LEMMA OuterKinds ==
  /\ IsSoundKind(PvtoOuterTable)
  /\ IsSoundKind(PvtgOuterTable)
  <1>1. IsSoundKind(PvtoOuterTable)
    <2> DEFINE kind == PvtoOuterTable
    <2>1. /\ Len(kind.columns) = 4 /\ DOMAIN kind.columns = 1 .. 4 /\ kind.columns[1] = "RS"
          /\ kind.columns[2] = "P" /\ kind.columns[3] = "BO" /\ kind.columns[4] = "MU"
      BY DEF PvtoOuterTable, Kind
    <2>2. /\ Len(kind.steps) = 5 /\ kind.steps[1] = Given("RS")
          /\ kind.steps[2] = Rising("RS") /\ kind.steps[3] = Linear("P")
          /\ kind.steps[4] = Linear("BO") /\ kind.steps[5] = Linear("MU")
      BY DEF PvtoOuterTable, Kind
    <2> HIDE DEF kind
    <2>4. IsSoundKind(kind)
      BY <2>1, <2>2, FourColumns
    <2>5. QED
      BY <2>4 DEF kind
  <1>2. IsSoundKind(PvtgOuterTable)
    <2> DEFINE kind == PvtgOuterTable
    <2>1. /\ Len(kind.columns) = 4 /\ DOMAIN kind.columns = 1 .. 4 /\ kind.columns[1] = "P"
          /\ kind.columns[2] = "RV" /\ kind.columns[3] = "BG" /\ kind.columns[4] = "MUG"
      BY DEF PvtgOuterTable, Kind
    <2>2. /\ Len(kind.steps) = 5 /\ kind.steps[1] = Given("P")
          /\ kind.steps[2] = Rising("P") /\ kind.steps[3] = Linear("RV")
          /\ kind.steps[4] = Linear("BG") /\ kind.steps[5] = Linear("MUG")
      BY DEF PvtgOuterTable, Kind
    <2> HIDE DEF kind
    <2>4. IsSoundKind(kind)
      BY <2>1, <2>2, FourColumns
    <2>5. QED
      BY <2>4 DEF kind
  <1>3. QED
    BY <1>1, <1>2

LEMMA InnerKinds ==
  /\ IsSoundKind(PvtoInnerTable)
  /\ IsSoundKind(PvtgInnerTable)
  <1>1. IsSoundKind(PvtoInnerTable)
    <2> DEFINE kind == PvtoInnerTable
    <2>1. /\ Len(kind.columns) = 3 /\ DOMAIN kind.columns = 1 .. 3 /\ kind.columns[1] = "P"
          /\ kind.columns[2] = "BO" /\ kind.columns[3] = "MU"
      BY DEF PvtoInnerTable, Kind
    <2>2. /\ Len(kind.steps) = 4 /\ kind.steps[1] = Given("P")
          /\ kind.steps[2] = Rising("P") /\ kind.steps[3] = Linear("BO")
          /\ kind.steps[4] = Linear("MU")
      BY DEF PvtoInnerTable, Kind
    <2> HIDE DEF kind
    <2>4. IsSoundKind(kind)
      BY <2>1, <2>2, ThreeColumns
    <2>5. QED
      BY <2>4 DEF kind
  <1>2. IsSoundKind(PvtgInnerTable)
    <2> DEFINE kind == PvtgInnerTable
    <2>1. /\ Len(kind.columns) = 3 /\ DOMAIN kind.columns = 1 .. 3 /\ kind.columns[1] = "RV"
          /\ kind.columns[2] = "BG" /\ kind.columns[3] = "MUG"
      BY DEF PvtgInnerTable, Kind
    <2>2. /\ Len(kind.steps) = 4 /\ kind.steps[1] = Given("RV")
          /\ kind.steps[2] = Falling("RV") /\ kind.steps[3] = Linear("BG")
          /\ kind.steps[4] = Linear("MUG")
      BY DEF PvtgInnerTable, Kind
    <2> HIDE DEF kind
    <2>4. IsSoundKind(kind)
      BY <2>1, <2>2, ThreeColumns
    <2>5. QED
      BY <2>4 DEF kind
  <1>3. QED
    BY <1>1, <1>2


(* The two kinds that are not evaluated. *)
LEMMA PlyrockKind == IsSoundKind(PlyrockTable)
  <1> DEFINE cs == PlyrockColumns
             S == {"DeadPoreVolume", "ResidualResistanceFactor", "RockDensityFactor",
                   "AdsorbtionIndex", "MaxAdsorbtion"}
             kind == PlyrockTable
             one == <<Constant("AdsorbtionIndex", 1)>>
             given == [i \in 1 .. 5 |-> Given(cs[i])]
             steps == one \o given
             Step == {Constant("AdsorbtionIndex", 1)} \union {Given(c) : c \in S}
  <1>1. cs \in Seq(S) /\ Len(cs) = 5 /\ DOMAIN cs = 1 .. 5 /\ cs[1] = "DeadPoreVolume"
    BY DEF PlyrockColumns
  <1>2. kind.columns = cs /\ kind.steps = steps /\ kind.evaluated = FALSE
    <2>1. AllOf(Given, cs) = given
      BY <1>1 DEF AllOf
    <2>2. kind.columns = cs /\ kind.steps = one \o AllOf(Given, cs) /\ kind.evaluated = FALSE
      BY DEF PlyrockTable, Kind
    <2>3. QED
      BY <2>1, <2>2
  <1> HIDE DEF cs, kind
  <1>3. Len(steps) = 6 /\ steps[1] = Constant("AdsorbtionIndex", 1)
        /\ \A i \in 1 .. 5 : steps[i + 1] = Given(cs[i])
    <2>1. given \in Seq(Step) /\ Len(given) = 5 /\ one \in Seq(Step) /\ Len(one) = 1
      <3>1. \A i \in 1 .. 5 : Given(cs[i]) \in Step
        <4>1. \A i \in 1 .. 5 : cs[i] \in S
          BY DEF cs, PlyrockColumns
        <4>2. \A c \in S : Given(c) \in Step
          OBVIOUS
        <4> HIDE DEF Step, S
        <4>3. QED
          BY <4>1, <4>2
      <3>2. Constant("AdsorbtionIndex", 1) \in Step
        OBVIOUS
      <3> HIDE DEF Step
      <3>3. QED
        BY <3>1, <3>2
    <2>2. /\ one[1] = Constant("AdsorbtionIndex", 1)
          /\ \A i \in 1 .. 5 : given[i] = Given(cs[i])
      OBVIOUS
    <2> HIDE DEF one, given, Step
    <2>3. /\ Len(steps) = Len(one) + Len(given)
          /\ \A i \in 1 .. Len(one) + Len(given) :
               steps[i] = IF i <= Len(one) THEN one[i] ELSE given[i - Len(one)]
      <3>1. one \in Seq(Step) /\ given \in Seq(Step)
        BY <2>1
      <3>2. QED
        BY <3>1, ConcatProperties
    <2>4. \A i \in 1 .. 5 : i + 1 \in 1 .. 6 /\ ~ (i + 1 <= 1) /\ i + 1 - 1 = i
      OBVIOUS
    <2> HIDE DEF steps
    <2>5. QED
      BY <2>1, <2>2, <2>3, <2>4
  <1> HIDE DEF steps
  <1>4. ASSUME NEW i \in 1 .. 6
        PROVE  IsSound(kind, i)
    <2>1. CASE i = 1
      BY <1>1, <1>2, <1>3, <2>1 DEF IsSound, Constant
    <2>2. CASE i # 1
      <3>1. i - 1 \in 1 .. 5 /\ i = (i - 1) + 1
        BY <2>2
      <3>2. steps[i] = Given(cs[i - 1])
        BY <1>3, <3>1
      <3>3. QED
        BY <1>2, <3>2 DEF IsSound, Given
    <2>3. QED
      BY <2>1, <2>2
  <1>5. ASSUME NEW c \in Range(kind.columns)
        PROVE  \E i \in 1 .. 6 : Fills(kind.steps[i], c)
    <2>1. PICK j \in 1 .. 5 : c = cs[j]
      BY <1>1, <1>2 DEF Range
    <2>2. j + 1 \in 1 .. 6 /\ steps[j + 1] = Given(c)
      BY <1>3, <2>1
    <2>3. QED
      BY <1>2, <2>2 DEF Fills, Given
  <1>6. Len(kind.columns) = 5 /\ DOMAIN kind.columns = 1 .. 5 /\ Len(kind.steps) = 6
    BY <1>1, <1>2, <1>3
  <1>7. kind.columns[1] \in Range(kind.columns)
    BY <1>6 DEF Range
  <1>8. QED
    BY <1>2, <1>4, <1>5, <1>6, <1>7 DEF IsSoundKind, kind

LEMMA TlmixparKind == IsSoundKind(TlmixparTable)
  <1> DEFINE kind == TlmixparTable
  <1>1. /\ Len(kind.columns) = 2 /\ DOMAIN kind.columns = 1 .. 2
        /\ kind.columns[1] = "VISC_PARA" /\ kind.columns[2] = "DENS_PARA"
        /\ kind.evaluated = FALSE
    BY DEF TlmixparTable, Kind
  <1>2. /\ Len(kind.steps) = 2 /\ kind.steps[1] = Given("VISC_PARA")
        /\ kind.steps[2] = CopyOf("DENS_PARA", "VISC_PARA")
    BY DEF TlmixparTable, Kind
  <1>3. /\ Fills(kind.steps[1], "VISC_PARA") /\ Fills(kind.steps[2], "DENS_PARA")
        /\ kind.steps[1].do = "checkNonDefaultable" /\ kind.steps[2].do = "copy"
        /\ kind.steps[2].column = "DENS_PARA" /\ kind.steps[2].other = "VISC_PARA"
    BY <1>2 DEF Fills, Given, CopyOf
  <1> HIDE DEF kind
  <1>4. Range(kind.columns) = {"VISC_PARA", "DENS_PARA"}
    BY <1>1 DEF Range
  <1>5. IsSound(kind, 1)
    BY <1>3 DEF IsSound
  <1>6. IsSound(kind, 2)
    <2>1. 1 \in 1 .. 2 - 1
      OBVIOUS
    <2>2. QED
      BY <1>1, <1>3, <1>4, <2>1 DEF IsSound
  <1>7. \A i \in 1 .. 2 : IsSound(kind, i)
    <2>1. \A i \in 1 .. 2 : i = 1 \/ i = 2
      OBVIOUS
    <2>2. QED
      BY <1>5, <1>6, <2>1
  <1>8. \A c \in Range(kind.columns) : \E i \in 1 .. 2 : Fills(kind.steps[i], c)
    BY <1>3, <1>4
  <1>9. kind.columns[1] \in Range(kind.columns)
    BY <1>1, <1>4
  <1>10. QED
    BY <1>1, <1>2, <1>7, <1>8, <1>9 DEF IsSoundKind, kind

(* All of them, as initTables() asks for them by the name of the keyword.  *)
LEMMA KindsAreSound ==
  /\ \A name \in Range(SimpleKind) : IsSoundKind(SimpleTable[name])
  /\ \A name \in DOMAIN FullTable :
       IsSoundKind(FullTable[name].outer) /\ IsSoundKind(FullTable[name].inner)
  <1>1. Range(SimpleKind) = DOMAIN SimpleTable
    BY DEF Range, SimpleKind, SimpleTable
  <1>2. ASSUME NEW name \in DOMAIN SimpleTable
        PROVE  IsSoundKind(SimpleTable[name])
    BY RelpermKinds, SaturationKinds, PolymerKinds, PlyrockKind, PvdKinds, RsvdRvvdKinds,
       SatfuncKinds, TlmixparKind DEF SimpleTable
  <1>3. ASSUME NEW name \in DOMAIN FullTable
        PROVE  IsSoundKind(FullTable[name].outer) /\ IsSoundKind(FullTable[name].inner)
    BY OuterKinds, InnerKinds DEF FullTable
  <1>4. QED
    BY <1>1, <1>2, <1>3


(* The values of the items of a record, one after the other.               *)
Flattens(f, items) ==
  f = [i \in 1 .. Len(items) |-> IF i = 1 THEN items[i] ELSE f[i - 1] \o items[i]]

LEMMA FlattensExists ==
  ASSUME NEW S, NEW items \in Seq(Seq(S)), NEW n \in Nat, n = Len(items)
  PROVE  \E f : Flattens(f, items)
  <1> DEFINE rhs(f, i) == IF i = 1 THEN items[i] ELSE f[i - 1] \o items[i]
             Upto(f, k) == \A i \in 1 .. n : i <= k => f[i] = rhs(f, i)
             U == {k \in Nat : \E f : Upto(f, k)}
  <1>1. 0 \in U
    <2> DEFINE f == [i \in 1 .. n |-> items[i]]
    <2>1. Upto(f, 0)
      OBVIOUS
    <2>2. QED
      BY <2>1
  <1>2. ASSUME NEW k \in Nat, k \in U
        PROVE  k + 1 \in U
    <2>1. PICK f : Upto(f, k)
      BY <1>2
    <2> DEFINE g == [i \in 1 .. n |-> IF i <= k THEN f[i] ELSE rhs(f, i)]
    <2>2. ASSUME NEW i \in 1 .. n, i <= k + 1
          PROVE  g[i] = rhs(g, i)
      <3>1. rhs(g, i) = rhs(f, i)
        <4>1. CASE i = 1
          BY <4>1
        <4>2. CASE i # 1
          <5>1. i - 1 \in 1 .. n /\ i - 1 <= k
            BY <2>2, <4>2
          <5>2. g[i - 1] = f[i - 1]
            BY <5>1
          <5> HIDE DEF g
          <5>3. QED
            BY <5>2
        <4>3. QED
          BY <4>1, <4>2
      <3>2. g[i] = rhs(f, i)
        <4> HIDE DEF rhs
        <4> QED
          BY <2>1
      <3>3. QED
        BY <3>1, <3>2
    <2>3. Upto(g, k + 1)
      <3> HIDE DEF g, rhs
      <3> QED
        BY <2>2
    <2> HIDE DEF g, Upto
    <2>4. \E e : Upto(e, k + 1)
      BY <2>3
    <2>5. QED
      BY <2>4
  <1>3. Nat \subseteq U
    <2> HIDE DEF U
    <2> QED
      BY <1>1, <1>2, NatSet
  <1>4. PICK f : Upto(f, n)
    BY <1>3
  <1> DEFINE h == [i \in 1 .. n |-> f[i]]
             shape(g) == [i \in 1 .. n |-> rhs(g, i)]
  <1>5. ASSUME NEW i \in 1 .. n
        PROVE  h[i] = rhs(h, i)
    <2>1. f[i] = rhs(f, i)
      <3> HIDE DEF rhs
      <3> QED
        BY <1>4
    <2>2. rhs(h, i) = rhs(f, i)
      <3>1. CASE i = 1
        BY <3>1
      <3>2. CASE i # 1
        <4>1. i - 1 \in 1 .. n
          BY <3>2
        <4>2. h[i - 1] = f[i - 1]
          BY <4>1
        <4> HIDE DEF h
        <4>3. QED
          BY <4>2
      <3>3. QED
        BY <3>1, <3>2
    <2>3. QED
      BY <2>1, <2>2
  <1>6. h = shape(h)
    <2> HIDE DEF rhs
    <2> QED
      BY <1>5
  <1> HIDE DEF h
  <1>7. QED
    BY <1>6 DEF Flattens

LEMMA FlattensIs ==
  ASSUME NEW S, NEW items \in Seq(Seq(S)), NEW f, Flattens(f, items)
  PROVE  /\ \A i \in 1 .. Len(items) : f[i] \in Seq(S)
         /\ \A i \in 1 .. Len(items) : Len(f[i]) <= Len(f[Len(items)])
  <1> DEFINE n == Len(items)
             T == {k \in Nat : \A i \in 1 .. n : i <= k => f[i] \in Seq(S)}
             U == {k \in Nat : \A i \in 1 .. n : i = n - k => Len(f[i]) <= Len(f[n])}
  <1>1. n \in Nat /\ \A i \in 1 .. n : items[i] \in Seq(S)
    OBVIOUS
  <1>2. \A i \in 1 .. n : f[i] = IF i = 1 THEN items[i] ELSE f[i - 1] \o items[i]
    BY DEF Flattens
  <1> HIDE DEF n
  <1>3. 0 \in T
    BY <1>1
  <1>4. ASSUME NEW k \in Nat, k \in T
        PROVE  k + 1 \in T
    <2>1. SUFFICES ASSUME NEW i \in 1 .. n, i <= k + 1
                   PROVE  f[i] \in Seq(S)
      OBVIOUS
    <2>2. CASE i = 1
      BY <1>1, <1>2, <2>2
    <2>3. CASE i # 1
      <3>1. i - 1 \in 1 .. n /\ i - 1 <= k
        BY <1>1, <2>1, <2>3
      <3>2. f[i - 1] \in Seq(S) /\ items[i] \in Seq(S)
        BY <1>1, <1>4, <3>1
      <3>3. QED
        BY <1>2, <2>3, <3>2, ConcatProperties
    <2>4. QED
      BY <2>2, <2>3
  <1>5. Nat \subseteq T
    <2> HIDE DEF T
    <2> QED
      BY <1>3, <1>4, NatSet
  <1>6. \A i \in 1 .. n : f[i] \in Seq(S)
    <2>1. n \in T
      BY <1>1, <1>5
    <2>2. QED
      BY <2>1
  <1>7. 0 \in U
    <2>1. SUFFICES ASSUME NEW i \in 1 .. n, i = n
                   PROVE  Len(f[i]) <= Len(f[n])
      BY <1>1
    <2>2. Len(f[i]) \in Nat
      BY <1>6
    <2>3. QED
      BY <2>1, <2>2
  <1>8. ASSUME NEW k \in Nat, k \in U
        PROVE  k + 1 \in U
    <2>1. SUFFICES ASSUME NEW i \in 1 .. n, i = n - (k + 1)
                   PROVE  Len(f[i]) <= Len(f[n])
      OBVIOUS
    <2> DEFINE j == i + 1
    <2>2. j \in 1 .. n /\ j = n - k /\ j # 1 /\ j - 1 = i /\ n \in 1 .. n
      BY <1>1, <2>1
    <2> HIDE DEF j
    <2>3. Len(f[j]) <= Len(f[n])
      BY <1>8, <2>2
    <2>4. f[j] = f[i] \o items[j] /\ f[i] \in Seq(S) /\ items[j] \in Seq(S)
      BY <1>1, <1>2, <1>6, <2>2
    <2>5. Len(f[j]) = Len(f[i]) + Len(items[j])
      BY <2>4, ConcatProperties
    <2>6. Len(f[i]) \in Nat /\ Len(items[j]) \in Nat /\ Len(f[n]) \in Nat
      <3>1. f[n] \in Seq(S)
        BY <1>6, <2>2
      <3>2. \A e \in Seq(S) : Len(e) \in Nat
        OBVIOUS
      <3>3. QED
        BY <2>4, <3>1, <3>2
    <2> DEFINE a == Len(f[i])
               b == Len(items[j])
               c == Len(f[n])
    <2>7. a \in Nat /\ b \in Nat /\ c \in Nat /\ a + b <= c
      BY <2>3, <2>5, <2>6
    <2> HIDE DEF a, b, c
    <2>8. a <= c
      BY <2>7
    <2>9. QED
      BY <2>8 DEF a, c
  <1>9. Nat \subseteq U
    <2> HIDE DEF U
    <2> QED
      BY <1>7, <1>8, NatSet
  <1>10. \A i \in 1 .. n : Len(f[i]) <= Len(f[n])
    <2>1. SUFFICES ASSUME NEW i \in 1 .. n
                   PROVE  Len(f[i]) <= Len(f[n])
      OBVIOUS
    <2> DEFINE k == n - i
    <2>2. k \in Nat /\ i = n - k
      BY <1>1
    <2> HIDE DEF k
    <2>3. QED
      BY <1>9, <2>2
  <1>11. QED
    BY <1>6, <1>10 DEF n

(* They are values, and no fewer than those of its first items.            *)
LEMMA FlattenIs ==
  ASSUME NEW S, NEW items \in Seq(Seq(S))
  PROVE  /\ FlattenSeq(items) \in Seq(S)
         /\ \A m \in 0 .. Len(items) :
              /\ FlattenSeq(SubSeq(items, 1, m)) \in Seq(S)
              /\ Len(FlattenSeq(SubSeq(items, 1, m))) <= Len(FlattenSeq(items))
  <1> DEFINE n == Len(items)
             f == CHOOSE f : Flattens(f, items)
  <1>1. n \in Nat
    OBVIOUS
  <1>2. FlattenSeq(items) = IF n = 0 THEN items ELSE f[n]
    BY DEF FlattenSeq, Flattens
  <1>3. Flattens(f, items)
    BY <1>1, FlattensExists
  <1> HIDE DEF f
  <1>4. FlattenSeq(items) \in Seq(S)
    <2>1. CASE n = 0
      <3>1. items = << >>
        BY <2>1
      <3>2. QED
        BY <1>2, <2>1, <3>1
    <2>2. CASE n # 0
      <3>1. n \in 1 .. n
        BY <1>1, <2>2
      <3>2. f[n] \in Seq(S)
        BY <1>3, <3>1, FlattensIs
      <3>3. QED
        BY <1>2, <2>2, <3>2
    <2>3. QED
      BY <2>1, <2>2
  <1>5. ASSUME NEW m \in 0 .. n
        PROVE  LET flat == FlattenSeq(SubSeq(items, 1, m))
               IN flat \in Seq(S) /\ Len(flat) <= Len(FlattenSeq(items))
    <2> DEFINE sub == SubSeq(items, 1, m)
               g == CHOOSE g : Flattens(g, sub)
    <2>1. sub \in Seq(Seq(S)) /\ Len(sub) = m /\ \A i \in 1 .. m : sub[i] = items[i]
      <3>1. /\ m \in Nat /\ m <= n /\ \A i \in 1 .. m : i \in 1 .. n
        BY <1>1
      <3>2. QED
        BY <3>1
    <2>2. FlattenSeq(sub) = IF m = 0 THEN sub ELSE g[m]
      <3> HIDE DEF sub
      <3> QED
        BY <2>1 DEF FlattenSeq, Flattens
    <2>3. Flattens(g, sub)
      <3> HIDE DEF sub
      <3>1. m \in Nat
        OBVIOUS
      <3>2. QED
        BY <2>1, <3>1, FlattensExists
    <2> HIDE DEF sub, g
    <2>4. Len(FlattenSeq(items)) \in Nat
      BY <1>4
    <2>5. CASE m = 0
      <3>1. sub = << >>
        BY <2>1, <2>5
      <3>2. FlattenSeq(sub) = << >>
        BY <2>2, <2>5, <3>1
      <3>3. << >> \in Seq(S) /\ Len(<< >>) = 0
        OBVIOUS
      <3>4. FlattenSeq(sub) \in Seq(S) /\ Len(FlattenSeq(sub)) <= Len(FlattenSeq(items))
        BY <2>4, <3>2, <3>3
      <3>5. QED
        BY <3>4 DEF sub
    <2>6. CASE m # 0
      <3> DEFINE T == {k \in Nat : \A i \in 1 .. m : i <= k => g[i] = f[i]}
      <3>1. \A i \in 1 .. m : g[i] = IF i = 1 THEN sub[i] ELSE g[i - 1] \o sub[i]
        BY <2>1, <2>3 DEF Flattens
      <3>2. \A i \in 1 .. m : f[i] = IF i = 1 THEN items[i] ELSE f[i - 1] \o items[i]
        <4>1. \A i \in 1 .. m : i \in 1 .. n
          BY <1>1
        <4>2. QED
          BY <1>3, <4>1 DEF Flattens
      <3>3. 0 \in T
        OBVIOUS
      <3>4. ASSUME NEW k \in Nat, k \in T
            PROVE  k + 1 \in T
        <4>1. SUFFICES ASSUME NEW i \in 1 .. m, i <= k + 1
                       PROVE  g[i] = f[i]
          OBVIOUS
        <4>2. CASE i = 1
          BY <2>1, <3>1, <3>2, <4>2
        <4>3. CASE i # 1
          <5>1. i - 1 \in 1 .. m /\ i - 1 <= k
            BY <4>1, <4>3
          <5>2. g[i - 1] = f[i - 1]
            BY <3>4, <5>1
          <5>3. g[i] = g[i - 1] \o sub[i]
            BY <3>1, <4>3
          <5>4. f[i] = f[i - 1] \o items[i]
            BY <3>2, <4>3
          <5>5. sub[i] = items[i]
            BY <2>1
          <5>6. QED
            BY <5>2, <5>3, <5>4, <5>5
        <4>4. QED
          BY <4>2, <4>3
      <3>5. m \in T
        <4>1. m \in Nat
          OBVIOUS
        <4> HIDE DEF T
        <4>2. QED
          BY <3>3, <3>4, <4>1, NatSet
      <3>6. m \in 1 .. m /\ m \in 1 .. n /\ n # 0
        BY <1>1, <2>6
      <3>7. FlattenSeq(sub) = f[m] /\ FlattenSeq(items) = f[n]
        BY <1>2, <2>2, <2>6, <3>5, <3>6
      <3>8. f[m] \in Seq(S) /\ Len(f[m]) <= Len(f[n])
        BY <1>3, <3>6, FlattensIs
      <3>9. QED
        BY <3>7, <3>8 DEF sub
    <2>7. QED
      BY <2>5, <2>6
  <1>6. QED
    BY <1>4, <1>5


(* Number by number, the columns of a record.                              *)
LEMMA ColumnNoIs ==
  ASSUME NEW names, NEW p \in Nat \ {0}, DOMAIN names = 1 .. p, NEW name \in Range(names)
  PROVE  ColumnNo(names, name) \in 1 .. p
  BY DEF ColumnNo, Range

LEMMA SingleRecordIs ==
  ASSUME NEW names, NEW p \in Nat \ {0}, Len(names) = p, DOMAIN names = 1 .. p,
         NEW record \in Seq(Seq(Value)), NEW offset \in Nat
  PROVE  LET u == SingleRecord(names, record, offset)
         IN u = Refused \/ \E n \in Nat : u \in Columns(Range(names), n)
  <1> DEFINE flat == FlattenSeq(record)
             size == Len(flat) - offset
             n == size \div p
             u == SingleRecord(names, record, offset)
  <1>1. flat \in Seq(Value) /\ Len(flat) \in Nat /\ size \in Int
    <2>1. flat \in Seq(Value)
      BY FlattenIs
    <2> HIDE DEF flat
    <2>2. QED
      BY <2>1
  <1>2. u = IF size < 0 \/ size % p # 0 THEN Refused
            ELSE [name \in Range(names) |->
                    [r \in 1 .. n |-> flat[(r - 1) * p + offset + ColumnNo(names, name)]]]
    BY DEF SingleRecord
  <1> HIDE DEF u, flat
  <1>3. CASE size < 0 \/ size % p # 0
    BY <1>2, <1>3 DEF u
  <1>4. CASE ~ (size < 0 \/ size % p # 0)
    <2>1. size \in Nat /\ n \in Nat /\ size = p * n
      <3>1. size \in Nat
        BY <1>1, <1>4
      <3> HIDE DEF size
      <3>2. size % p = 0
        BY <1>4
      <3>3. n \in Nat /\ size = p * n + (size % p)
        BY <3>1, Parts
      <3> HIDE DEF n
      <3>4. p * n \in Nat
        BY <3>3
      <3>5. QED
        BY <3>1, <3>2, <3>3, <3>4
    <2> HIDE DEF n
    <2>2. ASSUME NEW name \in Range(names), NEW r \in 1 .. n
          PROVE  flat[(r - 1) * p + offset + ColumnNo(names, name)] \in Value
      <3> DEFINE c == ColumnNo(names, name)
                 k == n - r
                 s == r - 1
      <3>1. c \in 1 .. p /\ k \in Nat /\ s \in Nat /\ n = s + 1 + k
        BY <2>1, ColumnNoIs
      <3>2. size = s * p + p + p * k /\ s * p \in Nat /\ p * k \in Nat
        <4> HIDE DEF c, k, s, size
        <4>1. p * (s + 1 + k) = s * p + p + p * k /\ s * p \in Nat /\ p * k \in Nat
          BY <3>1
        <4>2. QED
          BY <2>1, <3>1, <4>1
      <3> DEFINE q == s * p
                 e == p * k
      <3>3. Len(flat) = offset + q + p + e /\ q \in Nat /\ e \in Nat
        BY <1>1, <3>2
      <3> HIDE DEF q, e, c, k
      <3>4. q + offset + c \in 1 .. Len(flat)
        BY <3>1, <3>3
      <3>5. flat[q + offset + c] \in Value
        BY <1>1, <3>4, ElementOfSeq
      <3>6. QED
        BY <3>5 DEF q, c
    <2>3. u = [name \in Range(names) |->
                 [r \in 1 .. n |-> flat[(r - 1) * p + offset + ColumnNo(names, name)]]]
      BY <1>2, <1>4 DEF n
    <2>4. u \in [Range(names) -> [1 .. n -> Value]]
      BY <2>2, <2>3
    <2>5. QED
      BY <2>1, <2>4 DEF Columns, u
  <1>5. QED
    BY <1>3, <1>4

(* The records of a table of several records. *)
IsRecords(records) == records \in Seq(Seq(Seq(Value)))

LEMMA NumRecordsIs ==
  ASSUME NEW records, IsRecords(records), NEW first \in 0 .. Len(records)
  PROVE  /\ NumRecords(records, first) \in 0 .. Len(records) - first
         /\ \A r \in 1 .. NumRecords(records, first) :
              first + r \in 1 .. Len(records) /\ records[first + r] \in Seq(Seq(Value))
  <1> DEFINE k == Len(records) - first
             T == {n \in 0 .. k : \A r \in 1 .. n : ~ Separates(records[first + r])}
  <1>1. Len(records) \in Nat /\ k \in Nat
    BY DEF IsRecords
  <1>2. T \in SUBSET (0 .. k) /\ 0 \in T
    BY <1>1
  <1>3. Max(T) \in T
    <2> HIDE DEF T, k
    <2> QED
      BY <1>1, <1>2, MaxIs
  <1>4. NumRecords(records, first) = Max(T)
    BY DEF NumRecords
  <1>5. Max(T) \in 0 .. k
    BY <1>2, <1>3
  <1> DEFINE m == Max(T)
  <1> HIDE DEF T
  <1>6. \A r \in 1 .. m : first + r \in 1 .. Len(records)
    BY <1>1, <1>5
  <1>7. \A i \in 1 .. Len(records) : records[i] \in Seq(Seq(Value))
    BY DEF IsRecords
  <1>8. QED
    BY <1>4, <1>5, <1>6, <1>7

(* There is a first record of each table that is counted. *)
LEMMA FirstRecordIs ==
  ASSUME NEW records, IsRecords(records), NEW t \in 1 .. NumTables(records)
  PROVE  FirstRecordIdx(records, t) \in 0 .. Len(records)
  <1> DEFINE n == Len(records)
             Sep(i) == {j \in 1 .. i : Separates(records[j])}
             count(i) == Cardinality(Sep(i))
             Reach == {i \in 0 .. n : count(i) >= t - 1}
             Here == {i \in 0 .. n : count(i) = t - 1}
  <1>1. n \in Nat /\ DOMAIN records = 1 .. n
    BY DEF IsRecords
  <1>2. NumTables(records) = 1 + count(n)
    BY <1>1 DEF NumTables, Quantify
  <1>3. FirstRecordIdx(records, t) = Min(Here)
    BY DEF FirstRecordIdx, Quantify
  <1>4. \A i \in Nat : IsFiniteSet(Sep(i)) /\ count(i) \in Nat
    <2>1. SUFFICES ASSUME NEW i \in Nat
                   PROVE  IsFiniteSet(Sep(i)) /\ count(i) \in Nat
      OBVIOUS
    <2>2. IsFiniteSet(1 .. i)
      BY FS_Interval
    <2>3. Sep(i) \in SUBSET (1 .. i)
      OBVIOUS
    <2> HIDE DEF Sep
    <2>4. IsFiniteSet(Sep(i))
      BY <2>2, <2>3, FS_Subset
    <2>5. QED
      BY <2>4, FS_CardinalityType
  <1>5. count(0) = 0
    <2>1. Sep(0) = {}
      OBVIOUS
    <2>2. QED
      BY <2>1, FS_EmptySet
  <1>6. ASSUME NEW i \in Nat \ {0}
        PROVE  count(i) <= count(i - 1) + 1
    <2>1. i - 1 \in Nat /\ Sep(i) \subseteq Sep(i - 1) \cup {i}
      OBVIOUS
    <2> DEFINE A == Sep(i - 1)
    <2>2. IsFiniteSet(A) /\ Cardinality(A) \in Nat
      BY <1>4, <2>1
    <2> HIDE DEF Sep, A
    <2>3. IsFiniteSet(A \cup {i}) /\ Cardinality(A \cup {i}) <= Cardinality(A) + 1
      BY <2>2, FS_AddElement
    <2>4. Sep(i) \in SUBSET (A \cup {i})
      BY <2>1 DEF A
    <2>5. Cardinality(Sep(i)) <= Cardinality(A \cup {i})
      BY <2>3, <2>4, FS_Subset
    <2>6. Cardinality(Sep(i)) \in Nat /\ Cardinality(A \cup {i}) \in Nat
      BY <1>4, <2>3, FS_CardinalityType
    <2>7. QED
      BY <2>2, <2>3, <2>5, <2>6 DEF A
  <1> HIDE DEF Sep, n
  <1>7. t \in Nat /\ 1 <= t /\ t - 1 <= count(n) /\ count(n) \in Nat
    BY <1>1, <1>2, <1>4
  <1> HIDE DEF count
  <1>8. n \in Reach /\ Reach \in SUBSET Nat
    BY <1>1, <1>7
  <1>9. PICK i \in Reach : \A j \in Reach : i <= j
    <2> HIDE DEF Reach
    <2> QED
      BY <1>8, NatMin
  <1>10. i \in 0 .. n /\ count(i) >= t - 1 /\ count(i) \in Nat
    BY <1>4, <1>9
  <1>11. count(i) = t - 1
    <2>1. CASE i = 0
      BY <1>5, <1>7, <1>10, <2>1
    <2>2. CASE i # 0
      <3>1. i - 1 \in 0 .. n /\ i - 1 \in Nat /\ i \in Nat \ {0} /\ ~ (i <= i - 1)
        BY <1>1, <1>10, <2>2
      <3>2. i - 1 \notin Reach
        <4> HIDE DEF Reach
        <4> QED
          BY <1>9, <3>1
      <3>3. ~ (count(i - 1) >= t - 1)
        BY <3>1, <3>2
      <3>4. count(i - 1) \in Nat /\ count(i) <= count(i - 1) + 1
        BY <1>4, <1>6, <3>1
      <3>5. QED
        BY <1>7, <1>10, <3>3, <3>4
    <2>3. QED
      BY <2>1, <2>2
  <1>12. i \in Here /\ Here \in SUBSET Nat
    BY <1>1, <1>10, <1>11
  <1>13. Min(Here) \in Here
    <2> HIDE DEF Here
    <2> QED
      BY <1>12, MinIs
  <1>14. QED
    BY <1>3, <1>13 DEF n


LEMMA NumFlatItemsIs ==
  ASSUME NEW record \in Seq(Seq(Value))
  PROVE  /\ NumFlatItems(record) \in Nat
         /\ NumFlatItems(record) <= Len(FlattenSeq(record))
  <1> DEFINE starts(i) == \A j \in 1 .. i : record[j] # << >> /\ ~ record[j][1].defaulted
             T == {i \in 0 .. Len(record) : starts(i)}
  <1>1. Len(record) \in Nat
    OBVIOUS
  <1>2. T \in SUBSET (0 .. Len(record)) /\ 0 \in T
    BY <1>1
  <1>3. NumFlatItems(record) = Len(FlattenSeq(SubSeq(record, 1, Max(T))))
    BY DEF NumFlatItems
  <1> HIDE DEF T
  <1>4. Max(T) \in T
    BY <1>1, <1>2, MaxIs
  <1>5. Max(T) \in 0 .. Len(record)
    BY <1>2, <1>4
  <1> DEFINE flat == FlattenSeq(SubSeq(record, 1, Max(T)))
  <1>6. flat \in Seq(Value) /\ Len(flat) <= Len(FlattenSeq(record))
    BY <1>5, FlattenIs
  <1> HIDE DEF flat
  <1>7. Len(flat) \in Nat
    BY <1>6
  <1>8. QED
    BY <1>3, <1>6, <1>7 DEF flat

(* A row of a table of several records has a value for every column.       *)
LEMMA MultiRecordIs ==
  ASSUME NEW names, NEW p \in Nat \ {0}, Len(names) = p, DOMAIN names = 1 .. p,
         NEW records, IsRecords(records), NEW t \in 1 .. NumTables(records)
  PROVE  LET u == MultiRecord(names, records, t)
         IN u = Refused \/ \E n \in Nat : u \in Columns(Range(names), n)
  <1> DEFINE first == FirstRecordIdx(records, t)
             n == NumRecords(records, first)
             row(r) == FlattenSeq(records[first + r])
             short(r) == NumFlatItems(records[first + r]) < p
             u == MultiRecord(names, records, t)
  <1>1. first \in 0 .. Len(records)
    BY FirstRecordIs
  <1>2. u = IF \E r \in 1 .. n : short(r) THEN Refused
            ELSE [name \in Range(names) |-> [r \in 1 .. n |-> row(r)[ColumnNo(names, name)]]]
    BY DEF MultiRecord
  <1> HIDE DEF first, u
  <1>3. n \in Nat /\ \A r \in 1 .. n : records[first + r] \in Seq(Seq(Value))
    <2>1. Len(records) \in Nat
      BY DEF IsRecords
    <2>2. n \in 0 .. Len(records) - first
      BY <1>1, NumRecordsIs
    <2>3. n \in Nat
      BY <1>1, <2>1, <2>2
    <2>4. QED
      BY <1>1, <2>3, NumRecordsIs
  <1> HIDE DEF n
  <1>4. CASE \E r \in 1 .. n : short(r)
    BY <1>2, <1>4 DEF u
  <1>5. CASE ~ \E r \in 1 .. n : short(r)
    <2>1. ASSUME NEW name \in Range(names), NEW r \in 1 .. n
          PROVE  row(r)[ColumnNo(names, name)] \in Value
      <3> DEFINE c == ColumnNo(names, name)
                 flat == row(r)
                 k == NumFlatItems(records[first + r])
      <3>1. c \in 1 .. p
        BY ColumnNoIs
      <3>2. flat \in Seq(Value) /\ k \in Nat /\ k <= Len(flat)
        BY <1>3, FlattenIs, NumFlatItemsIs
      <3>3. ~ (k < p)
        BY <1>5
      <3> HIDE DEF c, flat, k
      <3>4. Len(flat) \in Nat
        BY <3>2
      <3>5. c \in 1 .. Len(flat)
        BY <3>1, <3>2, <3>3, <3>4
      <3>6. flat[c] \in Value
        BY <3>2, <3>5, ElementOfSeq
      <3>7. QED
        BY <3>6 DEF flat, c
    <2>2. u = [name \in Range(names) |-> [r \in 1 .. n |-> row(r)[ColumnNo(names, name)]]]
      BY <1>2, <1>5
    <2> HIDE DEF row
    <2>3. u \in [Range(names) -> [1 .. n -> Value]]
      BY <2>1, <2>2 DEF row
    <2>4. QED
      BY <1>3, <2>3 DEF Columns, u
  <1>6. QED
    BY <1>4, <1>5

(* A whole table whose first column is given and goes up or falls. *)
IsGood(kind, table) ==
  /\ IsTable(kind, table)
  /\ \A r \in DOMAIN table[kind.columns[1]] : table[kind.columns[1]][r].si \in Int
  /\ kind.evaluated => GoesUp(table[kind.columns[1]]) \/ FallsDown(table[kind.columns[1]])

IsGoodFull(kind, table) ==
  /\ IsGood(kind.outer, table.outer)
  /\ \A r \in DOMAIN table.inner : IsGood(kind.inner, table.inner[r])

(* What init() makes of the columns of a record, or of several. *)
LEMMA InitTableIsGood ==
  ASSUME NEW kind, IsSoundKind(kind),
         NEW t, t = Refused \/ \E n \in Nat : t \in Columns(Range(kind.columns), n)
  PROVE  InitTable(kind, t) = Refused \/ IsGood(kind, InitTable(kind, t))
  <1> DEFINE u == InitTable(kind, t)
             x == kind.columns[1]
             cols == Range(kind.columns)
  <1>1. PICK n \in Nat : t = Refused \/ t \in Columns(cols, n)
    OBVIOUS
  <1>2. x \in cols
    BY DEF IsSoundKind, Range
  <1>3. \/ u = Refused
        \/ /\ u \in Columns(cols, n)
           /\ \A c \in cols \ {"SWMAX"} : IsFilled(u[c], n)
           /\ IsFilled(u[x], n)
           /\ kind.evaluated => GoesUp(u[x]) \/ FallsDown(u[x])
    BY <1>1, InitTableIs
  <1> HIDE DEF u
  <1>4. CASE /\ u \in Columns(cols, n)
             /\ \A c \in cols \ {"SWMAX"} : IsFilled(u[c], n)
             /\ IsFilled(u[x], n)
             /\ kind.evaluated => GoesUp(u[x]) \/ FallsDown(u[x])
    <2>1. DOMAIN u = cols /\ \A c \in cols : u[c] \in [1 .. n -> Value]
      BY <1>4 DEF Columns
    <2>2. \A c \in cols : u[c] \in Seq(Value) /\ Len(u[c]) = n /\ DOMAIN u[c] = 1 .. n
      BY <2>1, RowsAre
    <2>3. ASSUME NEW c \in cols, c # "SWMAX", NEW r \in 1 .. n
          PROVE  ~ u[c][r].defaulted /\ u[c][r].si \in Int
      <3>1. u[c][r] \in Value /\ ~ u[c][r].defaulted
        BY <1>4, <2>1, <2>3 DEF IsFilled
      <3> HIDE DEF cols
      <3>2. QED
        BY <3>1, ValueIs
    <2>4. IsTable(kind, u)
      BY <1>2, <2>1, <2>2, <2>3 DEF IsTable
    <2>5. \A r \in 1 .. n : u[x][r].si \in Int
      <3>1. \A r \in 1 .. n : u[x][r] \in Value /\ ~ u[x][r].defaulted
        BY <1>2, <1>4, <2>1 DEF IsFilled
      <3> HIDE DEF x
      <3>2. QED
        BY <3>1, ValueIs
    <2>6. DOMAIN u[x] = 1 .. n
      BY <1>2, <2>2
    <2>7. QED
      BY <1>4, <2>4, <2>5, <2>6 DEF IsGood, u
  <1>5. QED
    BY <1>3, <1>4 DEF u


(* initSimpleTables(): a record without values repeats the table before.   *)
Repeats(f, kind, records) ==
  f = [i \in 1 .. Len(records) |->
         IF records[i][1] # << >>
           THEN InitTable(kind, SingleRecord(kind.columns, records[i], 0))
         ELSE IF i = 1 THEN Refused ELSE f[i - 1]]

LEMMA RepeatsExist ==
  ASSUME NEW kind, NEW records, NEW n \in Nat, n = Len(records)
  PROVE  \E f : Repeats(f, kind, records)
  <1> DEFINE rhs(f, i) == IF records[i][1] # << >>
                           THEN InitTable(kind, SingleRecord(kind.columns, records[i], 0))
                         ELSE IF i = 1 THEN Refused ELSE f[i - 1]
             Upto(f, k) == \A i \in 1 .. n : i <= k => f[i] = rhs(f, i)
             U == {k \in Nat : \E f : Upto(f, k)}
  <1>1. 0 \in U
    <2> DEFINE f == [i \in 1 .. n |-> Refused]
    <2>1. Upto(f, 0)
      OBVIOUS
    <2>2. QED
      BY <2>1
  <1>2. ASSUME NEW k \in Nat, k \in U
        PROVE  k + 1 \in U
    <2>1. PICK f : Upto(f, k)
      BY <1>2
    <2> DEFINE g == [i \in 1 .. n |-> IF i <= k THEN f[i] ELSE rhs(f, i)]
    <2>2. ASSUME NEW i \in 1 .. n, i <= k + 1
          PROVE  g[i] = rhs(g, i)
      <3>1. rhs(g, i) = rhs(f, i)
        <4>1. CASE i = 1
          BY <4>1
        <4>2. CASE i # 1
          <5>1. i - 1 \in 1 .. n /\ i - 1 <= k
            BY <2>2, <4>2
          <5>2. g[i - 1] = f[i - 1]
            BY <5>1
          <5> HIDE DEF g
          <5>3. QED
            BY <5>2
        <4>3. QED
          BY <4>1, <4>2
      <3>2. g[i] = rhs(f, i)
        <4> HIDE DEF rhs
        <4> QED
          BY <2>1
      <3>3. QED
        BY <3>1, <3>2
    <2>3. Upto(g, k + 1)
      <3> HIDE DEF g, rhs
      <3> QED
        BY <2>2
    <2> HIDE DEF g, Upto
    <2>4. \E e : Upto(e, k + 1)
      BY <2>3
    <2>5. QED
      BY <2>4
  <1>3. Nat \subseteq U
    <2> HIDE DEF U
    <2> QED
      BY <1>1, <1>2, NatSet
  <1>4. PICK f : Upto(f, n)
    BY <1>3
  <1> DEFINE h == [i \in 1 .. n |-> f[i]]
             shape(g) == [i \in 1 .. n |-> rhs(g, i)]
  <1>5. ASSUME NEW i \in 1 .. n
        PROVE  h[i] = rhs(h, i)
    <2>1. f[i] = rhs(f, i)
      <3> HIDE DEF rhs
      <3> QED
        BY <1>4
    <2>2. rhs(h, i) = rhs(f, i)
      <3>1. CASE i = 1
        BY <3>1
      <3>2. CASE i # 1
        <4>1. i - 1 \in 1 .. n
          BY <3>2
        <4>2. h[i - 1] = f[i - 1]
          BY <4>1
        <4> HIDE DEF h
        <4>3. QED
          BY <4>2
      <3>3. QED
        BY <3>1, <3>2
    <2>3. QED
      BY <2>1, <2>2
  <1>6. h = shape(h)
    <2> HIDE DEF rhs
    <2> QED
      BY <1>5
  <1> HIDE DEF h
  <1>7. QED
    BY <1>6 DEF Repeats


LEMMA SimpleTablesAreGood ==
  ASSUME NEW kind, IsSoundKind(kind), NEW records, IsRecords(records)
  PROVE  \A i \in DOMAIN SimpleTables(kind, records) :
           LET made == SimpleTables(kind, records)
           IN made[i] = Refused \/ IsGood(kind, made[i])
  <1> DEFINE n == Len(records)
             f == CHOOSE f : Repeats(f, kind, records)
             Made(t) == t = Refused \/ IsGood(kind, t)
             single(i) == InitTable(kind, SingleRecord(kind.columns, records[i], 0))
             T == {k \in Nat : \A i \in 1 .. n : i <= k => Made(f[i])}
  <1>1. n \in Nat /\ \A i \in 1 .. n : records[i] \in Seq(Seq(Value))
    BY DEF IsRecords
  <1>2. SimpleTables(kind, records) = f
    BY DEF SimpleTables, Repeats
  <1>3. Repeats(f, kind, records)
    <2> HIDE DEF n
    <2>1. n = Len(records)
      BY DEF n
    <2>2. QED
      BY <1>1, <2>1, RepeatsExist
  <1> HIDE DEF f
  <1>4. ASSUME NEW i \in 1 .. n
        PROVE  Made(single(i))
    <2> DEFINE p == Len(kind.columns)
               t == SingleRecord(kind.columns, records[i], 0)
    <2>1. p \in Nat \ {0} /\ DOMAIN kind.columns = 1 .. p /\ p = Len(kind.columns)
      BY DEF IsSoundKind
    <2>2. records[i] \in Seq(Seq(Value))
      BY <1>1
    <2> HIDE DEF p
    <2>3. t = Refused \/ \E m \in Nat : t \in Columns(Range(kind.columns), m)
      <3> DEFINE zero == 0
      <3>1. zero \in Nat
        OBVIOUS
      <3> HIDE DEF zero
      <3>2. LET u == SingleRecord(kind.columns, records[i], zero)
            IN u = Refused \/ \E m \in Nat : u \in Columns(Range(kind.columns), m)
        BY <2>1, <2>2, <3>1, SingleRecordIs
      <3>3. QED
        BY <3>2 DEF zero
    <2> HIDE DEF t
    <2>4. InitTable(kind, t) = Refused \/ IsGood(kind, InitTable(kind, t))
      BY <2>3, InitTableIsGood
    <2>5. QED
      BY <2>4 DEF t
  <1>5. /\ DOMAIN f = 1 .. n
        /\ \A i \in 1 .. n : f[i] = IF records[i][1] # << >> THEN single(i)
                                    ELSE IF i = 1 THEN Refused ELSE f[i - 1]
    BY <1>3 DEF Repeats
  <1> HIDE DEF n, Made, single
  <1>6. 0 \in T
    BY <1>1
  <1>7. ASSUME NEW k \in Nat, k \in T
        PROVE  k + 1 \in T
    <2>1. SUFFICES ASSUME NEW i \in 1 .. n, i <= k + 1
                   PROVE  Made(f[i])
      OBVIOUS
    <2>2. CASE records[i][1] # << >>
      BY <1>4, <1>5, <2>2
    <2>3. CASE records[i][1] = << >> /\ i = 1
      BY <1>5, <2>3 DEF Made
    <2>4. CASE records[i][1] = << >> /\ i # 1
      <3>1. i - 1 \in 1 .. n /\ i - 1 <= k
        BY <1>1, <2>1, <2>4
      <3>2. Made(f[i - 1])
        BY <1>7, <3>1
      <3>3. QED
        BY <1>5, <2>4, <3>2
    <2>5. QED
      BY <2>2, <2>3, <2>4
  <1>8. \A i \in 1 .. n : Made(f[i])
    <2>1. n \in T
      <3> HIDE DEF T
      <3> QED
        BY <1>1, <1>6, <1>7, NatSet
    <2>2. QED
      BY <1>1, <2>1
  <1>9. QED
    BY <1>2, <1>5, <1>8 DEF Made

(* FullTable::init(): an outer table and the inner tables of its rows.     *)
LEMMA FullTablesAreGood ==
  ASSUME NEW kind, IsSoundKind(kind.outer), IsSoundKind(kind.inner),
         NEW records, IsRecords(records)
  PROVE  \A t \in DOMAIN FullTables(kind, records) :
           LET made == FullTables(kind, records)
           IN made[t] = Refused \/ IsGoodFull(kind, made[t])
  <1>1. SUFFICES ASSUME NEW t \in 1 .. NumTables(records)
                 PROVE  \/ FullTableAt(kind, records, t) = Refused
                        \/ IsGoodFull(kind, FullTableAt(kind, records, t))
    BY DEF FullTables
  <1> DEFINE first == FirstRecordIdx(records, t)
             n == NumRecords(records, first)
             outer == InitTable(kind.outer, MultiRecord(kind.outer.columns, records, t))
             one(r) == InitTable(kind.inner,
                                 SingleRecord(kind.inner.columns, records[first + r], 1))
             inner == [r \in 1 .. n |-> one(r)]
             u == FullTableAt(kind, records, t)
  <1>2. u = IF outer = Refused \/ \E r \in DOMAIN inner : inner[r] = Refused THEN Refused
            ELSE [outer |-> outer, inner |-> inner]
    BY DEF FullTableAt
  <1>3. outer = Refused \/ IsGood(kind.outer, outer)
    <2> DEFINE p == Len(kind.outer.columns)
               v == MultiRecord(kind.outer.columns, records, t)
    <2>1. p \in Nat \ {0} /\ DOMAIN kind.outer.columns = 1 .. p /\ p = Len(kind.outer.columns)
      BY DEF IsSoundKind
    <2> HIDE DEF p
    <2>2. v = Refused \/ \E m \in Nat : v \in Columns(Range(kind.outer.columns), m)
      BY <2>1, MultiRecordIs
    <2> HIDE DEF v
    <2>3. InitTable(kind.outer, v) = Refused \/ IsGood(kind.outer, InitTable(kind.outer, v))
      BY <2>2, InitTableIsGood
    <2>4. QED
      BY <2>3 DEF v
  <1>4. \A r \in 1 .. n : records[first + r] \in Seq(Seq(Value))
    <2>1. first \in 0 .. Len(records)
      BY FirstRecordIs
    <2> HIDE DEF first
    <2>2. QED
      BY <2>1, NumRecordsIs
  <1>5. ASSUME NEW r \in 1 .. n
        PROVE  one(r) = Refused \/ IsGood(kind.inner, one(r))
    <2> DEFINE p == Len(kind.inner.columns)
               record == records[first + r]
               off == 1
               v == SingleRecord(kind.inner.columns, record, off)
    <2>1. /\ p \in Nat \ {0} /\ DOMAIN kind.inner.columns = 1 .. p
          /\ p = Len(kind.inner.columns) /\ off \in Nat
      BY DEF IsSoundKind
    <2>2. record \in Seq(Seq(Value))
      BY <1>4
    <2>3. one(r) = InitTable(kind.inner, v)
      OBVIOUS
    <2> HIDE DEF p, record, off, one
    <2>4. v = Refused \/ \E m \in Nat : v \in Columns(Range(kind.inner.columns), m)
      BY <2>1, <2>2, SingleRecordIs
    <2> HIDE DEF v
    <2>5. InitTable(kind.inner, v) = Refused \/ IsGood(kind.inner, InitTable(kind.inner, v))
      BY <2>4, InitTableIsGood
    <2>6. QED
      BY <2>3, <2>5
  <1> HIDE DEF u, outer, one, n
  <1>6. CASE outer = Refused \/ \E r \in DOMAIN inner : inner[r] = Refused
    BY <1>2, <1>6 DEF u
  <1>7. CASE ~ (outer = Refused \/ \E r \in DOMAIN inner : inner[r] = Refused)
    <2>1. u = [outer |-> outer, inner |-> inner] /\ IsGood(kind.outer, outer)
      BY <1>2, <1>3, <1>7
    <2>2. \A r \in 1 .. n : IsGood(kind.inner, inner[r])
      BY <1>5, <1>7
    <2>3. u.outer = outer /\ u.inner = inner /\ DOMAIN inner = 1 .. n
      BY <2>1
    <2> HIDE DEF inner
    <2>4. IsGoodFull(kind, u)
      BY <2>1, <2>2, <2>3 DEF IsGoodFull
    <2>5. QED
      BY <2>4 DEF u
  <1>8. QED
    BY <1>6, <1>7

(* A good table is evaluated right, at whatever x. *)
LEMMA GoodEvaluates ==
  ASSUME NEW kind, IsSoundKind(kind), kind.evaluated, NEW table, IsGood(kind, table),
         NEW xs \in SUBSET Int
  PROVE  EvaluatedRight(kind, table, xs)
  <1> DEFINE first == kind.columns[1]
             cols == Range(kind.columns)
             n == Len(table[first])
  <1>1. SUFFICES ASSUME 1 < n, NEW c \in cols \ {"SWMAX"}, NEW x \in xs
                 PROVE  Interpolates(table[first], table[c], x, Evaluate(kind, table, c, x))
    BY DEF EvaluatedRight
  <1>2. first \in cols /\ (GoesUp(table[first]) \/ FallsDown(table[first]))
    BY DEF IsSoundKind, IsGood, Range
  <1>3. \A d \in cols : table[d] \in Seq(Value) /\ Len(table[d]) = n
    BY DEF IsGood, IsTable
  <1>4. n \in Nat /\ \A d \in cols : DOMAIN table[d] = 1 .. n
    BY <1>2, <1>3
  <1>5. \A r \in 1 .. n : table[first][r].si \in Int /\ table[c][r].si \in Int
    BY <1>1, <1>2, <1>4 DEF IsGood, IsTable
  <1>6. IsColumn(table[first], n) /\ IsColumn(table[c], n)
    BY <1>2, <1>3, <1>4, <1>5 DEF IsColumn
  <1>7. x \in Int
    OBVIOUS
  <1> HIDE DEF n
  <1>8. QED
    BY <1>1, <1>2, <1>6, <1>7, HalvingInterpolates


(* The kinds of tables of a deck. *)
KindsOf(d) == {kind \in Range(TableOrder) : HasKeyword(d, kind)}

(* What is known of the tables wherever the construction is: the kinds     *)
(* still to come are among those of the deck, and every table that is      *)
(* there is a good one.                                                    *)
TablesInv ==
  /\ deck \in Deck
  /\ strict \in BOOLEAN /\ stage \in Stage /\ phases \subseteq PhaseName
  /\ todo \subseteq KindsOf(deck)
  /\ stage = "tables" => todo # {}
  /\ DOMAIN tables = Range(TableOrder)
  /\ \A kind \in Range(SimpleKind) : \A i \in DOMAIN tables[kind] :
       IsGood(SimpleTable[kind], tables[kind][i])
  /\ \A kind \in DOMAIN FullTable : \A i \in DOMAIN tables[kind] :
       IsGoodFull(FullTable[kind], tables[kind][i])

(* The names of tables: no simple table is a full one, ROCKTAB is neither. *)
LEMMA TableNames ==
  /\ TableOrder \in Seq(Range(TableOrder)) /\ Len(TableOrder) \in Nat
  /\ DOMAIN TableOrder = 1 .. Len(TableOrder)
  /\ Range(SimpleKind) = DOMAIN SimpleTable
  /\ Range(SimpleKind) \subseteq Range(TableOrder) /\ DOMAIN FullTable \subseteq Range(TableOrder)
  /\ Range(SimpleKind) \intersect DOMAIN FullTable = {}
  /\ "ROCKTAB" \in Range(TableOrder)
  /\ "ROCKTAB" \notin Range(SimpleKind) /\ "ROCKTAB" \notin DOMAIN FullTable
  <1> DEFINE S == {"ENKRVD", "ENPTVD", "IMKRVD", "IMPTVD", "PLYADS", "PLYMAX", "PLYROCK",
                   "PLYVISC", "PVDG", "PVDO", "RSVD", "RVVD", "SGOF", "SWOF", "TLMIXPAR"}
             F == {"ROCKTAB", "PVTG", "PVTO"}
             full == <<"ROCKTAB", "PVTG", "PVTO">>
  <1>1. Range(SimpleKind) = S /\ S = DOMAIN SimpleTable
    BY DEF Range, SimpleKind, SimpleTable
  <1>2. DOMAIN FullTable = {"PVTG", "PVTO"}
    BY DEF FullTable
  <1>3. SimpleKind \in Seq(S) /\ Len(SimpleKind) = 15 /\ full \in Seq(F) /\ Len(full) = 3
        /\ Range(full) = F
    BY DEF SimpleKind, Range
  <1>4. SimpleKind \in Seq(S \union F) /\ full \in Seq(S \union F)
    <2> HIDE DEF S, F, full
    <2>1. S \subseteq S \union F /\ F \subseteq S \union F
      OBVIOUS
    <2>2. QED
      BY <1>3, <2>1
  <1>5. TableOrder = SimpleKind \o full
    BY DEF TableOrder
  <1> HIDE DEF S, F, full
  <1>6. /\ TableOrder \in Seq(S \union F) /\ Len(TableOrder) = 18
        /\ \A i \in 1 .. 18 : TableOrder[i] = IF i <= 15 THEN SimpleKind[i] ELSE full[i - 15]
    <2> DEFINE A == S \union F
               s == SimpleKind
    <2>1. s \in Seq(A) /\ full \in Seq(A) /\ Len(s) = 15 /\ Len(full) = 3
      BY <1>3, <1>4
    <2> HIDE DEF A, s
    <2>2. /\ s \o full \in Seq(A) /\ Len(s \o full) = Len(s) + Len(full)
          /\ \A i \in 1 .. Len(s) + Len(full) :
               (s \o full)[i] = IF i <= Len(s) THEN s[i] ELSE full[i - Len(s)]
      BY <2>1, ConcatProperties
    <2> DEFINE order == s \o full
    <2> HIDE DEF order
    <2>3. /\ order \in Seq(A) /\ Len(order) = Len(s) + Len(full)
          /\ \A i \in 1 .. Len(s) + Len(full) :
               order[i] = IF i <= Len(s) THEN s[i] ELSE full[i - Len(s)]
      BY <2>2 DEF order
    <2>4. Len(s) + Len(full) = 18
      BY <2>1
    <2>5. /\ order \in Seq(A) /\ Len(order) = 18
          /\ \A i \in 1 .. 18 : order[i] = IF i <= 15 THEN s[i] ELSE full[i - 15]
      BY <2>1, <2>3, <2>4
    <2>6. QED
      BY <1>5, <2>5 DEF order, s, A
  <1>7. DOMAIN TableOrder = 1 .. 18 /\ DOMAIN SimpleKind = 1 .. 15 /\ DOMAIN full = 1 .. 3
    BY <1>3, <1>6
  <1>8. Range(SimpleKind) \subseteq Range(TableOrder)
    <2>1. SUFFICES ASSUME NEW i \in 1 .. 15
                   PROVE  SimpleKind[i] \in Range(TableOrder)
      BY <1>7 DEF Range
    <2>2. i \in 1 .. 18 /\ TableOrder[i] = SimpleKind[i]
      BY <1>6
    <2>3. QED
      BY <1>7, <2>2 DEF Range
  <1>9. Range(full) \subseteq Range(TableOrder)
    <2>1. SUFFICES ASSUME NEW i \in 1 .. 3
                   PROVE  full[i] \in Range(TableOrder)
      BY <1>7 DEF Range
    <2>2. i + 15 \in 1 .. 18 /\ ~ (i + 15 <= 15) /\ i + 15 - 15 = i
      OBVIOUS
    <2>3. TableOrder[i + 15] = full[i]
      <3> DEFINE j == i + 15
      <3>1. j \in 1 .. 18 /\ ~ (j <= 15) /\ j - 15 = i
        BY <2>2
      <3> HIDE DEF j
      <3>2. TableOrder[j] = full[i]
        BY <1>6, <3>1
      <3>3. QED
        BY <3>2 DEF j
    <2>4. QED
      BY <1>7, <2>2, <2>3 DEF Range
  <1>10. TableOrder \in Seq(Range(TableOrder))
    <2>1. \A i \in 1 .. 18 : TableOrder[i] \in Range(TableOrder)
      BY <1>7 DEF Range
    <2> DEFINE order == TableOrder
               names == Range(TableOrder)
    <2>2. order \in Seq(S \union F) /\ Len(order) = 18 /\ \A i \in 1 .. 18 : order[i] \in names
      BY <1>6, <2>1
    <2> HIDE DEF order, names
    <2>3. order = [i \in 1 .. 18 |-> order[i]]
      BY <2>2
    <2>4. order \in Seq(names)
      <3>1. order \in [1 .. 18 -> names]
        BY <2>2, <2>3
      <3> DEFINE n == 18
      <3>2. n \in Nat /\ order \in [1 .. n -> names]
        BY <3>1
      <3> HIDE DEF n
      <3>3. QED
        BY <3>2
    <2>5. QED
      BY <2>4 DEF order, names
  <1>11. QED
    BY <1>1, <1>2, <1>3, <1>6, <1>7, <1>8, <1>9, <1>10 DEF S, F

(* The next kind is one of those to come. *)
LEMMA NextIsToCome ==
  ASSUME todo \subseteq KindsOf(deck), todo # {}
  PROVE  NextKind \in todo
  <1> DEFINE P == {i \in DOMAIN TableOrder : TableOrder[i] \in todo}
  <1>1. PICK kind \in todo : kind \in Range(TableOrder)
    BY DEF KindsOf
  <1>2. PICK i \in DOMAIN TableOrder : TableOrder[i] = kind
    BY <1>1 DEF Range
  <1>3. i \in P /\ P \in SUBSET Nat
    BY <1>1, <1>2, TableNames
  <1>4. Min(P) \in P
    <2> HIDE DEF P
    <2> QED
      BY <1>3, MinIs
  <1>5. NextKind = TableOrder[Min(P)]
    BY DEF NextKind
  <1>6. QED
    BY <1>4, <1>5

(* The records of a keyword of tables are items with values. *)
LEMMA TableRecordsAre ==
  ASSUME deck \in Deck, NEW kind \in KindsOf(deck)
  PROVE  IsRecords(TableRecords(kind))
  <1>1. deck \in Seq(Range(deck)) /\ kind \in Range(TableOrder) /\ HasKeyword(deck, kind)
    BY DeckAssumption DEF KindsOf
  <1>2. PICK i \in 1 .. Len(deck) : deck[i].name = kind /\ GetKeyword(deck, kind) = deck[i]
    BY <1>1, KeywordIs
  <1>3. i \in DOMAIN deck
    BY <1>1
  <1>4. deck[i].records \in Seq(Seq(Seq(Value)))
    BY <1>1, <1>2, <1>3, DeckAssumption
  <1>5. QED
    BY <1>2, <1>4 DEF TableRecords, IsRecords

LEMMA InitTables == Init => TablesInv
  <1> SUFFICES ASSUME Init
               PROVE  TablesInv
    OBVIOUS
  <1>1. \A kind \in Range(TableOrder) : tables[kind] = << >> /\ DOMAIN tables[kind] = {}
    BY DEF Init
  <1>2. DOMAIN tables = Range(TableOrder) /\ stage = "sections" /\ phases = {}
    BY DEF Init
  <1>3. deck \in Deck /\ strict \in BOOLEAN /\ todo \subseteq KindsOf(deck)
    BY DEF Init, KindsOf
  <1>4. QED
    BY <1>1, <1>2, <1>3, TableNames DEF TablesInv, Stage

(* A kind of simple tables, and one of full tables, is installed. *)
LEMMA SimpleInstalled ==
  ASSUME TablesInv, InitSimpleTables
  PROVE  TablesInv'
  <1> DEFINE kind == NextKind
             made == SimpleTables(SimpleTable[kind], TableRecords(kind))
  <1>1. /\ stage = "tables" /\ kind \in Range(SimpleKind) /\ Installed(kind, made)
        /\ UNCHANGED <<deck, strict, phases, grid>>
    BY DEF InitSimpleTables
  <1>2. kind \in todo /\ kind \in KindsOf(deck)
    BY <1>1, NextIsToCome DEF TablesInv
  <1>3. IsRecords(TableRecords(kind)) /\ IsSoundKind(SimpleTable[kind])
    BY <1>1, <1>2, TableRecordsAre, KindsAreSound DEF TablesInv
  <1>4. \A i \in DOMAIN made : made[i] = Refused \/ IsGood(SimpleTable[kind], made[i])
    <2> DEFINE k == SimpleTable[kind]
               records == TableRecords(kind)
    <2>1. IsSoundKind(k) /\ IsRecords(records)
      BY <1>3
    <2> HIDE DEF k, records, kind
    <2>2. \A i \in DOMAIN SimpleTables(k, records) :
            SimpleTables(k, records)[i] = Refused \/ IsGood(k, SimpleTables(k, records)[i])
      BY <2>1, SimpleTablesAreGood
    <2>3. QED
      BY <2>2 DEF k, records
  <1> HIDE DEF kind, made
  <1>5. CASE stage' = "thrown" /\ UNCHANGED <<todo, tables>>
    BY <1>1, <1>5 DEF TablesInv, Stage
  <1>6. CASE /\ \A i \in DOMAIN made : made[i] # Refused
             /\ tables' = [tables EXCEPT ![kind] = made]
             /\ todo' = todo \ {kind}
             /\ stage' = IF todo = {kind} THEN "grid" ELSE "tables"
    <2>1. kind \in DOMAIN tables /\ DOMAIN tables' = Range(TableOrder)
      BY <1>1, <1>6, TableNames DEF TablesInv
    <2>2. tables'[kind] = made /\ \A k \in Range(TableOrder) \ {kind} : tables'[k] = tables[k]
      BY <1>6, <2>1 DEF TablesInv
    <2>3. ASSUME NEW k \in Range(SimpleKind), NEW i \in DOMAIN tables'[k]
          PROVE  IsGood(SimpleTable[k], tables'[k][i])
      <3>1. CASE k = kind
        BY <1>4, <1>6, <2>2, <2>3, <3>1
      <3>2. CASE k # kind
        BY <2>2, <2>3, <3>2, TableNames DEF TablesInv
      <3>3. QED
        BY <3>1, <3>2
    <2>4. ASSUME NEW k \in DOMAIN FullTable, NEW i \in DOMAIN tables'[k]
          PROVE  IsGoodFull(FullTable[k], tables'[k][i])
      BY <1>1, <2>2, <2>4, TableNames DEF TablesInv
    <2>5. todo' \subseteq KindsOf(deck) /\ stage' \in Stage /\ (stage' = "tables" => todo' # {})
      BY <1>2, <1>6 DEF TablesInv, Stage
    <2>6. deck' = deck /\ strict' = strict /\ phases' = phases
      BY <1>1
    <2>7. QED
      BY <2>1, <2>3, <2>4, <2>5, <2>6 DEF TablesInv
  <1>7. QED
    BY <1>1, <1>5, <1>6 DEF Installed

LEMMA FullInstalled ==
  ASSUME TablesInv, InitFullTables
  PROVE  TablesInv'
  <1> DEFINE kind == NextKind
             made == FullTables(FullTable[kind], TableRecords(kind))
  <1>1. /\ stage = "tables" /\ kind \in DOMAIN FullTable /\ Installed(kind, made)
        /\ UNCHANGED <<deck, strict, phases, grid>>
    BY DEF InitFullTables
  <1>2. kind \in todo /\ kind \in KindsOf(deck)
    BY <1>1, NextIsToCome DEF TablesInv
  <1>3. /\ IsRecords(TableRecords(kind))
        /\ IsSoundKind(FullTable[kind].outer) /\ IsSoundKind(FullTable[kind].inner)
    BY <1>1, <1>2, TableRecordsAre, KindsAreSound DEF TablesInv
  <1>4. \A i \in DOMAIN made : made[i] = Refused \/ IsGoodFull(FullTable[kind], made[i])
    <2> DEFINE k == FullTable[kind]
               records == TableRecords(kind)
    <2>1. IsSoundKind(k.outer) /\ IsSoundKind(k.inner) /\ IsRecords(records)
      BY <1>3
    <2> HIDE DEF k, records, kind
    <2>2. \A i \in DOMAIN FullTables(k, records) :
            FullTables(k, records)[i] = Refused \/ IsGoodFull(k, FullTables(k, records)[i])
      BY <2>1, FullTablesAreGood
    <2>3. QED
      BY <2>2 DEF k, records
  <1> HIDE DEF kind, made
  <1>5. CASE stage' = "thrown" /\ UNCHANGED <<todo, tables>>
    BY <1>1, <1>5 DEF TablesInv, Stage
  <1>6. CASE /\ \A i \in DOMAIN made : made[i] # Refused
             /\ tables' = [tables EXCEPT ![kind] = made]
             /\ todo' = todo \ {kind}
             /\ stage' = IF todo = {kind} THEN "grid" ELSE "tables"
    <2>1. kind \in DOMAIN tables /\ DOMAIN tables' = Range(TableOrder)
      BY <1>1, <1>6, TableNames DEF TablesInv
    <2>2. tables'[kind] = made /\ \A k \in Range(TableOrder) \ {kind} : tables'[k] = tables[k]
      BY <1>6, <2>1 DEF TablesInv
    <2>3. ASSUME NEW k \in Range(SimpleKind), NEW i \in DOMAIN tables'[k]
          PROVE  IsGood(SimpleTable[k], tables'[k][i])
      BY <1>1, <2>2, <2>3, TableNames DEF TablesInv
    <2>4. ASSUME NEW k \in DOMAIN FullTable, NEW i \in DOMAIN tables'[k]
          PROVE  IsGoodFull(FullTable[k], tables'[k][i])
      <3>1. CASE k = kind
        BY <1>4, <1>6, <2>2, <2>4, <3>1
      <3>2. CASE k # kind
        BY <2>2, <2>4, <3>2, TableNames DEF TablesInv
      <3>3. QED
        BY <3>1, <3>2
    <2>5. todo' \subseteq KindsOf(deck) /\ stage' \in Stage /\ (stage' = "tables" => todo' # {})
      BY <1>2, <1>6 DEF TablesInv, Stage
    <2>6. deck' = deck /\ strict' = strict /\ phases' = phases
      BY <1>1
    <2>7. QED
      BY <2>1, <2>3, <2>4, <2>5, <2>6 DEF TablesInv
  <1>7. QED
    BY <1>1, <1>5, <1>6 DEF Installed

(* No invariant speaks of the tables of ROCKTAB, but they take their turn. *)
LEMMA RocktabInstalled ==
  ASSUME TablesInv, InitRocktabTables
  PROVE  TablesInv'
  <1> DEFINE made == SimpleTables(RocktabKind, TableRecords("ROCKTAB"))
  <1>1. /\ stage = "tables" /\ NextKind = "ROCKTAB" /\ Installed("ROCKTAB", made)
        /\ UNCHANGED <<deck, strict, phases, grid>>
    BY DEF InitRocktabTables
  <1>2. "ROCKTAB" \in todo
    BY <1>1, NextIsToCome DEF TablesInv
  <1> HIDE DEF made
  <1>3. CASE stage' = "thrown" /\ UNCHANGED <<todo, tables>>
    BY <1>1, <1>3 DEF TablesInv, Stage
  <1>4. CASE /\ tables' = [tables EXCEPT !["ROCKTAB"] = made]
             /\ todo' = todo \ {"ROCKTAB"}
             /\ stage' = IF todo = {"ROCKTAB"} THEN "grid" ELSE "tables"
    <2>1. DOMAIN tables' = Range(TableOrder)
      BY <1>4 DEF TablesInv
    <2>2. \A k \in Range(TableOrder) \ {"ROCKTAB"} : tables'[k] = tables[k]
      BY <1>4 DEF TablesInv
    <2>3. ASSUME NEW k \in Range(SimpleKind), NEW i \in DOMAIN tables'[k]
          PROVE  IsGood(SimpleTable[k], tables'[k][i])
      BY <2>2, <2>3, TableNames DEF TablesInv
    <2>4. ASSUME NEW k \in DOMAIN FullTable, NEW i \in DOMAIN tables'[k]
          PROVE  IsGoodFull(FullTable[k], tables'[k][i])
      BY <2>2, <2>4, TableNames DEF TablesInv
    <2>5. todo' \subseteq KindsOf(deck) /\ stage' \in Stage /\ (stage' = "tables" => todo' # {})
      BY <1>2, <1>4 DEF TablesInv, Stage
    <2>6. deck' = deck /\ strict' = strict /\ phases' = phases
      BY <1>1
    <2>7. QED
      BY <2>1, <2>3, <2>4, <2>5, <2>6 DEF TablesInv
  <1>5. QED
    BY <1>1, <1>3, <1>4 DEF Installed

LEMMA NextTables == TablesInv /\ [Next]_vars => TablesInv'
  <1> SUFFICES ASSUME TablesInv, [Next]_vars
               PROVE  TablesInv'
    OBVIOUS
  <1>1. CASE CheckTopology
    BY <1>1 DEF CheckTopology, TablesInv, Stage
  <1>2. CASE InitPhases
    BY <1>2 DEF InitPhases, TablesInv, Stage
  <1>3. CASE InitSimpleTables
    BY <1>3, SimpleInstalled
  <1>4. CASE InitRocktabTables
    BY <1>4, RocktabInstalled
  <1>5. CASE InitFullTables
    BY <1>5, FullInstalled
  <1>6. CASE InitEclipseGrid
    BY <1>6 DEF InitEclipseGrid, TablesInv, Stage
  <1>7. CASE UNCHANGED vars
    BY <1>7 DEF vars, TablesInv
  <1>8. QED
    BY <1>1, <1>2, <1>3, <1>4, <1>5, <1>6, <1>7 DEF Next

(* A good table is whole, and is evaluated right. *)
LEMMA GoodTables == TablesInv => TypeOK /\ EvaluateInterpolates
  <1> SUFFICES ASSUME TablesInv
               PROVE  TypeOK /\ EvaluateInterpolates
    OBVIOUS
  <1>1. TypeOK
    BY DEF TablesInv, TypeOK, IsGood, IsGoodFull, IsFullTable
  <1> DEFINE probes == -1 .. 7
  <1>2. probes \in SUBSET Int
    OBVIOUS
  <1> HIDE DEF probes
  <1>3. ASSUME NEW kind \in Range(SimpleKind), NEW i \in DOMAIN tables[kind],
               SimpleTable[kind].evaluated
        PROVE  EvaluatedRight(SimpleTable[kind], tables[kind][i], probes)
    <2>1. IsSoundKind(SimpleTable[kind]) /\ IsGood(SimpleTable[kind], tables[kind][i])
      BY KindsAreSound DEF TablesInv
    <2> DEFINE k == SimpleTable[kind]
               table == tables[kind][i]
    <2>2. IsSoundKind(k) /\ IsGood(k, table) /\ k.evaluated
      BY <1>3, <2>1
    <2> HIDE DEF k, table
    <2>3. EvaluatedRight(k, table, probes)
      BY <1>2, <2>2, GoodEvaluates
    <2>4. QED
      BY <2>3 DEF k, table
  <1>4. ASSUME NEW kind \in DOMAIN FullTable, NEW i \in DOMAIN tables[kind],
               NEW r \in DOMAIN tables[kind][i].inner
        PROVE  EvaluatedRight(FullTable[kind].inner, tables[kind][i].inner[r], probes)
    <2> DEFINE k == FullTable[kind].inner
               table == tables[kind][i].inner[r]
    <2>1. IsSoundKind(k) /\ IsGood(k, table)
      BY KindsAreSound DEF TablesInv, IsGoodFull
    <2>2. k.evaluated
      BY DEF FullTable, PvtgInnerTable, PvtoInnerTable, Kind
    <2> HIDE DEF k, table
    <2>3. EvaluatedRight(k, table, probes)
      BY <1>2, <2>1, <2>2, GoodEvaluates
    <2>4. QED
      BY <2>3 DEF k, table
  <1>5. EvaluateInterpolates
    BY <1>3, <1>4 DEF EvaluateInterpolates, probes
  <1>6. QED
    BY <1>1, <1>5

(* Every table that is there is whole, whichever deck is read: it has its  *)
(* columns, of one length, and no value of it is left defaulted.           *)
THEOREM TablesAreWhole == Spec => []TypeOK
  <1>1. TablesInv => TypeOK
    BY GoodTables
  <1>2. QED
    BY <1>1, InitTables, NextTables, PTL DEF Spec

(* Every table that is there is evaluated right: init() has made sure that *)
(* its first column goes up or falls, and halving then finds the interval. *)
THEOREM TablesEvaluateRight == Spec => []EvaluateInterpolates
  <1>1. TablesInv => EvaluateInterpolates
    BY GoodTables
  <1>2. QED
    BY <1>1, InitTables, NextTables, PTL DEF Spec
=============================================================================
