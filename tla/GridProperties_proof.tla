------------------------ MODULE GridProperties_proof ------------------------
(***************************************************************************)
(* Proofs about GridProperties for every size of the grid, every set of    *)
(* items decks are made of and every length of a deck.                     *)
(*                                                                         *)
(* In four parts: the boxes are the ones the deck asks for (GridInv); what *)
(* a handler does to the properties is what its item means, which gives    *)
(* that two scans do what one would (OneScanInv: a history of the first    *)
(* scan and one of the deck read at once are kept by every step, and meet  *)
(* at the end); the list of the cells of a box has its cells and each of   *)
(* them once; and the data of a property are numbers of its type, the      *)
(* lookups in the tables of end points included.                           *)
(***************************************************************************)
EXTENDS GridProperties, WellFoundedInduction, TLAPS

(* A set of natural numbers has a least one.                               *)
LEMMA NatMin ==
  ASSUME NEW T \in SUBSET Nat, T # {}
  PROVE  \E x \in T : \A y \in T : x <= y
  <1> DEFINE R == {p \in Nat \X Nat : p[1] < p[2]}
  <1>1. IsWellFoundedOn(R, Nat)
    BY NatLessThanWellFounded DEF OpToRel
  <1>2. \A a, b \in Nat : a < b => <<a, b>> \in R
    OBVIOUS
  <1> HIDE DEF R
  <1>3. PICK x \in T : \A y \in T : ~ (<<y, x>> \in R)
    BY <1>1, WFMin
  <1>4. ASSUME NEW y \in T
        PROVE  x <= y
    <2>1. x \in Nat /\ y \in Nat /\ ~ (y < x)
      BY <1>2, <1>3
    <2>2. QED
      BY <2>1
  <1>5. QED
    BY <1>4

(* A set with 0 and with the number after each of its own has all natural  *)
(* numbers.                                                                *)
LEMMA NatSet ==
  ASSUME NEW T, 0 \in T, \A n \in Nat : n \in T => n + 1 \in T
  PROVE  Nat \subseteq T
  <1> DEFINE Rest == {n \in Nat : n \notin T}
  <1>1. SUFFICES ASSUME Rest # {}
                 PROVE  FALSE
    OBVIOUS
  <1>2. PICK x \in Rest : \A y \in Rest : x <= y
    <2>1. Rest \in SUBSET Nat
      OBVIOUS
    <2> HIDE DEF Rest
    <2>2. QED
      BY <1>1, <2>1, NatMin
  <1>3. x \in Nat /\ x # 0 /\ x - 1 \in Nat
    OBVIOUS
  <1>4. x - 1 \in T
    BY <1>2, <1>3
  <1>5. QED
    BY <1>2, <1>3, <1>4
-----------------------------------------------------------------------------
(* The largest number of a set, 0 if there is none.                        *)
Top(S) == IF S = {} THEN 0 ELSE CHOOSE j \in S : \A k \in S : k <= j

(* The places before i where the input box is given or taken back, and     *)
(* those where the box of a record is.                                     *)
BoxMarks(d, i) == {j \in 1 .. i - 1 : d[j].kind \in {"BOX", "ENDBOX", "section"}}

RecordMarks(d, i) == {j \in 1 .. i - 1 : d[j].kind \notin Record \/ d[j].box # NoBox}

(* The boxes deck d asks for at place i: InputBoxAt(), KeywordBoxAt() and  *)
(* BoxAt() of another deck than the one of the state.                      *)
InputBoxIn(d, i) ==
  IF Top(BoxMarks(d, i)) > 0 /\ d[Top(BoxMarks(d, i))].kind = "BOX"
    THEN d[Top(BoxMarks(d, i))].box ELSE NoBox

KeywordBoxIn(d, i) ==
  IF Top(RecordMarks(d, i)) > 0 /\ d[Top(RecordMarks(d, i))].kind \in Record
    THEN d[Top(RecordMarks(d, i))].box ELSE NoBox

BoxIn(d, i) ==
  LET own == IF d[i].kind \in Record THEN d[i].box ELSE NoBox
  IN ActiveBox(InputBoxIn(d, i), IF own # NoBox THEN own ELSE KeywordBoxIn(d, i))

(* For the deck of the state they are those of the specification.          *)
LEMMA BoxesAt ==
  ASSUME NEW i
  PROVE  /\ InputBoxAt(i) = InputBoxIn(deck, i)
         /\ KeywordBoxAt(i) = KeywordBoxIn(deck, i)
         /\ BoxAt(i) = BoxIn(deck, i)
  <1>1. InputBoxAt(i) = InputBoxIn(deck, i)
    BY DEF InputBoxAt, LastBefore, InputBoxIn, BoxMarks, Top
  <1>2. KeywordBoxAt(i) = KeywordBoxIn(deck, i)
    BY DEF KeywordBoxAt, LastBefore, KeywordBoxIn, RecordMarks, Top
  <1>3. QED
    BY <1>1, <1>2 DEF BoxAt, BoxIn

(* What Top() returns: the maximum of a finite set of places.              *)
LEMMA TopIs ==
  ASSUME NEW n \in Nat, NEW S \in SUBSET (1 .. n)
  PROVE  /\ S = {} => Top(S) = 0
         /\ S # {} => Top(S) \in S /\ \A k \in S : k <= Top(S)
         /\ n \in S => Top(S) = n
  <1> DEFINE T == {m \in Nat : \A R \in SUBSET (1 .. m) : 
                      R # {} => \E j \in R : \A k \in R : k <= j}
  <1>1. 0 \in T
    <2>1. 1 .. 0 = {}
      OBVIOUS
    <2>2. QED
      BY <2>1
  <1>2. ASSUME NEW m \in Nat, m \in T
        PROVE  m + 1 \in T
    <2> SUFFICES ASSUME NEW R \in SUBSET (1 .. m + 1), R # {}
                 PROVE  \E j \in R : \A k \in R : k <= j
      OBVIOUS
    <2>1. CASE m + 1 \in R
      BY <2>1
    <2>2. CASE m + 1 \notin R
      <3>1. R \in SUBSET (1 .. m)
        BY <2>2
      <3>2. QED
        BY <1>2, <3>1
    <2>3. QED
      BY <2>1, <2>2
  <1>3. Nat \subseteq T
    <2> HIDE DEF T
    <2> QED
      BY <1>1, <1>2, NatSet
  <1>4. S # {} => \E j \in S : \A k \in S : k <= j
    BY <1>3
  <1>5. S # {} => Top(S) \in S /\ \A k \in S : k <= Top(S)
    BY <1>4 DEF Top
  <1>6. ASSUME n \in S
        PROVE  Top(S) = n
    <2>1. Top(S) \in 1 .. n /\ n <= Top(S)
      BY <1>5, <1>6
    <2>2. QED
      BY <2>1
  <1>7. QED
    BY <1>5, <1>6 DEF Top

(* Item i is a mark for place i + 1 or it is not; the others are those for *)
(* place i.                                                                *)
LEMMA MarksNext ==
  ASSUME NEW d, NEW i \in Nat \ {0}
  PROVE  /\ BoxMarks(d, i) \in SUBSET (1 .. i - 1) /\ RecordMarks(d, i) \in SUBSET (1 .. i - 1)
         /\ BoxMarks(d, i + 1) =
              IF d[i].kind \in {"BOX", "ENDBOX", "section"}
                THEN BoxMarks(d, i) \union {i} ELSE BoxMarks(d, i)
         /\ RecordMarks(d, i + 1) =
              IF d[i].kind \notin Record \/ d[i].box # NoBox
                THEN RecordMarks(d, i) \union {i} ELSE RecordMarks(d, i)
  <1>1. 1 .. (i + 1) - 1 = (1 .. i - 1) \union {i} /\ i \notin 1 .. i - 1
    OBVIOUS
  <1>2. QED
    BY <1>1 DEF BoxMarks, RecordMarks

(* A deck begins without a box.                                            *)
LEMMA NoMarksBefore ==
  ASSUME NEW d
  PROVE  InputBoxIn(d, 1) = NoBox /\ KeywordBoxIn(d, 1) = NoBox
  <1>1. BoxMarks(d, 1) = {} /\ RecordMarks(d, 1) = {}
    BY DEF BoxMarks, RecordMarks
  <1>2. QED
    BY <1>1 DEF InputBoxIn, KeywordBoxIn, Top

(* What the deck asks for at the next place, by the item that is passed.   *)
LEMMA BoxesNext ==
  ASSUME NEW d, NEW i \in Nat \ {0}
  PROVE  /\ InputBoxIn(d, i + 1) = IF d[i].kind = "BOX" THEN d[i].box
                                   ELSE IF d[i].kind \in {"ENDBOX", "section"} THEN NoBox
                                   ELSE InputBoxIn(d, i)
         /\ KeywordBoxIn(d, i + 1) = IF d[i].kind \notin Record THEN NoBox
                                     ELSE IF d[i].box # NoBox THEN d[i].box
                                     ELSE KeywordBoxIn(d, i)
  <1>1. (i + 1) - 1 = i /\ i > 0 /\ i \in Nat
    OBVIOUS
  <1>2. BoxMarks(d, i + 1) \in SUBSET (1 .. i) /\ RecordMarks(d, i + 1) \in SUBSET (1 .. i)
    <2>1. i + 1 \in Nat \ {0}
      OBVIOUS
    <2>2. QED
      BY <1>1, <2>1, MarksNext
  <1>3. d[i].kind \in {"BOX", "ENDBOX", "section"} => Top(BoxMarks(d, i + 1)) = i
    <2>1. d[i].kind \in {"BOX", "ENDBOX", "section"} => i \in BoxMarks(d, i + 1)
      BY MarksNext
    <2>2. QED
      BY <1>1, <1>2, <2>1, TopIs
  <1>4. d[i].kind \notin Record \/ d[i].box # NoBox => Top(RecordMarks(d, i + 1)) = i
    <2>1. d[i].kind \notin Record \/ d[i].box # NoBox => i \in RecordMarks(d, i + 1)
      BY MarksNext
    <2>2. QED
      BY <1>1, <1>2, <2>1, TopIs
  <1>5. InputBoxIn(d, i + 1) = IF d[i].kind = "BOX" THEN d[i].box
                               ELSE IF d[i].kind \in {"ENDBOX", "section"} THEN NoBox
                               ELSE InputBoxIn(d, i)
    BY <1>1, <1>3, MarksNext DEF InputBoxIn
  <1>6. KeywordBoxIn(d, i + 1) = IF d[i].kind \notin Record THEN NoBox
                                 ELSE IF d[i].box # NoBox THEN d[i].box
                                 ELSE KeywordBoxIn(d, i)
    BY <1>1, <1>4, MarksNext DEF KeywordBoxIn
  <1>7. QED
    BY <1>5, <1>6

(* What a deck asks for at place i depends on nothing after it.            *)
LEMMA BoxesOfPrefix ==
  ASSUME NEW d, NEW e, NEW i \in Nat \ {0}, \A j \in 1 .. i - 1 : d[j] = e[j]
  PROVE  /\ InputBoxIn(d, i) = InputBoxIn(e, i)
         /\ KeywordBoxIn(d, i) = KeywordBoxIn(e, i)
         /\ d[i] = e[i] => BoxIn(d, i) = BoxIn(e, i)
  <1>1. i - 1 \in Nat
    OBVIOUS
  <1>2. BoxMarks(d, i) = BoxMarks(e, i) /\ RecordMarks(d, i) = RecordMarks(e, i)
    BY DEF BoxMarks, RecordMarks
  <1>3. /\ BoxMarks(d, i) \in SUBSET (1 .. i - 1)
        /\ RecordMarks(d, i) \in SUBSET (1 .. i - 1)
    BY MarksNext
  <1>4. \A S \in SUBSET (1 .. i - 1) : Top(S) > 0 => d[Top(S)] = e[Top(S)]
    BY <1>1, TopIs
  <1>5. InputBoxIn(d, i) = InputBoxIn(e, i) /\ KeywordBoxIn(d, i) = KeywordBoxIn(e, i)
    BY <1>2, <1>3, <1>4 DEF InputBoxIn, KeywordBoxIn
  <1>6. QED
    BY <1>5 DEF BoxIn
-----------------------------------------------------------------------------
(* A box that has been set is one in the grid (Box.cpp:53-85).             *)
BoxOK(b) == b = NoBox \/ (b \in Box /\ BoxFits(b))

(* The items that are about a property.                                    *)
PropertyKinds == Record \union {"LOAD"}

(* The inductive invariant of the scans: the boxes are those of the deck,  *)
(* a keyword with records goes on until it ends, and the first scan is     *)
(* always at the end of what it has come by.                               *)
GridInv ==
  /\ deck \in Seq(Item) /\ scan \in {"Int", "Double"} /\ next \in 1 .. Len(deck) + 1
  /\ \A i \in 2 .. Len(deck) :
       deck[i - 1].kind \in Record => deck[i].kind \in {deck[i - 1].kind, "/"}
  /\ BoxOK(inputBox) /\ BoxOK(keywordBox)
  /\ phase = "scanning" =>
       /\ inputBox = InputBoxIn(deck, next)
       /\ keywordBox = KeywordBoxIn(deck, next)
       /\ scan = "Int" => next = Len(deck) + 1
  /\ phase = "complete" => scan = "Double" /\ next = Len(deck) + 1

(* A handler that does not throw leaves the boxes that the deck asks for   *)
(* at the next place, and it has worked with the one of its own place.     *)
(* That a record takes only records of its own kind before it is what      *)
(* makes the box it inherits one of its keyword.                           *)
LEMMA HandlerKeepsBoxes ==
  ASSUME NEW d, NEW item \in Item, d[next] = item, next \in Nat \ {0},
         next # 1 /\ d[next - 1].kind \in Record => item.kind \in {d[next - 1].kind, "/"},
         inputBox = InputBoxIn(d, next), keywordBox = KeywordBoxIn(d, next),
         BoxOK(inputBox), BoxOK(keywordBox), Handle(item), phase = "scanning"
  PROVE  /\ BoxOK(inputBox') /\ BoxOK(keywordBox') /\ scan' = scan
         /\ \/ phase' \in {"thrown", "asserted"} /\ next' = next /\ properties' = properties
            \/ /\ phase' = "scanning" /\ next' = next + 1
               /\ inputBox' = InputBoxIn(d, next + 1)
               /\ keywordBox' = KeywordBoxIn(d, next + 1)
               /\ item.kind \in PropertyKinds => BoxIn(d, next) = ActiveBox(inputBox', keywordBox')
  <1>1. /\ InputBoxIn(d, next + 1) = IF item.kind = "BOX" THEN item.box
                                     ELSE IF item.kind \in {"ENDBOX", "section"} THEN NoBox
                                     ELSE inputBox
        /\ KeywordBoxIn(d, next + 1) = IF item.kind \notin Record THEN NoBox
                                       ELSE IF item.box # NoBox THEN item.box
                                       ELSE keywordBox
    BY BoxesNext
  <1>2. item.kind \notin Record \union {"/"} => keywordBox = NoBox
    <2>1. CASE next = 1
      BY <2>1, NoMarksBefore
    <2>2. CASE next # 1
      <3>1. next - 1 \in Nat \ {0} /\ (next - 1) + 1 = next
        BY <2>2
      <3>2. ASSUME item.kind \notin Record \union {"/"}
            PROVE  d[next - 1].kind \notin Record
        BY <2>2, <3>2
      <3>3. d[next - 1].kind \notin Record => KeywordBoxIn(d, next) = NoBox
        BY <3>1, BoxesNext
      <3>4. QED
        BY <3>2, <3>3
    <2>3. QED
      BY <2>1, <2>2
  <1>3. /\ item.kind = "BOX" => item.box \in Box
        /\ item.kind \in Record => item.box \in {NoBox, PartialBox} \union Box
    BY ItemAssumption DEF Record
  <1>4. BoxIn(d, next) = ActiveBox(inputBox, IF item.kind \in Record /\ item.box # NoBox
                                              THEN item.box ELSE keywordBox)
    BY DEF BoxIn
  <1>5. CASE PassBy(item)
    BY <1>1, <1>2, <1>4, <1>5 DEF PassBy, Goes, Record, PropertyKinds, BoxOK
  <1>6. CASE Load(item)
    BY <1>1, <1>2, <1>4, <1>6 DEF Load, Goes, boxVars, Record, PropertyKinds
  <1>7. CASE BoxKeyword(item)
    BY <1>1, <1>3, <1>7 DEF BoxKeyword, Goes, Record, PropertyKinds, BoxOK
  <1>8. CASE EndBoxKeyword(item)
    BY <1>1, <1>8 DEF EndBoxKeyword, Goes, Record, PropertyKinds, BoxOK
  <1>9. ASSUME item.kind \in Record, ~ BoxRefused(item.box),
               keywordBox' = KeywordBoxAfter(item.box),
               Goes, UNCHANGED inputBox
        PROVE  /\ BoxOK(inputBox') /\ BoxOK(keywordBox') /\ scan' = scan
               /\ phase' = "scanning" /\ next' = next + 1
               /\ inputBox' = InputBoxIn(d, next + 1)
               /\ keywordBox' = KeywordBoxIn(d, next + 1)
               /\ BoxIn(d, next) = ActiveBox(inputBox', keywordBox')
    <2>1. keywordBox' = IF item.box = NoBox THEN keywordBox ELSE item.box
      BY <1>9 DEF KeywordBoxAfter
    <2>2. item.kind \notin {"BOX", "ENDBOX", "section"}
      BY <1>9 DEF Record
    <2>3. BoxOK(keywordBox')
      BY <1>3, <1>9, <2>1 DEF BoxOK, BoxRefused
    <2>4. QED
      BY <1>1, <1>4, <1>9, <2>1, <2>2, <2>3 DEF Goes
  <1>10. CASE ShiftOrScale(item) \/ Equals(item) \/ Copy(item)
    <2>1. /\ item.kind \in Record /\ ~ BoxRefused(item.box)
          /\ keywordBox' = KeywordBoxAfter(item.box) /\ Goes /\ UNCHANGED inputBox
      BY <1>10 DEF ShiftOrScale, Equals, Copy, Record
    <2>2. QED
      BY <1>9, <2>1
  <1>11. CASE EndKeyword(item)
    BY <1>1, <1>11 DEF EndKeyword, Goes, Record, PropertyKinds, BoxOK
  <1>12. CASE NextSection(item)
    BY <1>1, <1>12 DEF NextSection, Goes, Record, PropertyKinds, BoxOK
  <1>13. CASE ScanThrows(item) \/ ScanAsserts(item)
    BY <1>13 DEF ScanThrows, ScanAsserts, Stops
  <1>14. QED
    BY <1>5, <1>6, <1>7, <1>8, <1>10, <1>11, <1>12, <1>13 DEF Handle

(* A step of the first scan: an item comes to the deck and is handled; the *)
(* boxes at the places before it stay what they were.                      *)
LEMMA FirstScanStep ==
  ASSUME GridInv, phase = "scanning", FirstScan
  PROVE  \E item \in Item :
           /\ deck' = Append(deck, item) /\ deck' \in Seq(Item) /\ Len(deck') = Len(deck) + 1
           /\ \A i \in 1 .. Len(deck) : deck'[i] = deck[i]
           /\ deck'[next] = item /\ Handle(item) /\ scan = "Int" /\ next = Len(deck')
           /\ next # 1 /\ deck'[next - 1].kind \in Record
                => item.kind \in {deck'[next - 1].kind, "/"}
           /\ inputBox = InputBoxIn(deck', next) /\ keywordBox = KeywordBoxIn(deck', next)
           /\ GridInv'
  <1>1. PICK item \in Item : MayFollow(item) /\ deck' = Append(deck, item) /\ Handle(item)
    BY DEF FirstScan
  <1>2. scan = "Int" /\ next = Len(deck) + 1 /\ deck \in Seq(Item) /\ Len(deck) \in Nat
    BY DEF FirstScan, GridInv
  <1>3. /\ deck' \in Seq(Item) /\ Len(deck') = Len(deck) + 1 /\ deck'[next] = item
        /\ \A i \in 1 .. Len(deck) : deck'[i] = deck[i]
    BY <1>1, <1>2
  <1>4. next # 1 /\ deck'[next - 1].kind \in Record => item.kind \in {deck'[next - 1].kind, "/"}
    <2>1. SUFFICES ASSUME next # 1, deck'[next - 1].kind \in Record
                   PROVE  item.kind \in {deck'[next - 1].kind, "/"}
      OBVIOUS
    <2>2. deck # << >> /\ Last(deck) = deck'[next - 1]
      BY <1>2, <1>3, <2>1 DEF Last
    <2>3. QED
      BY <1>1, <2>1, <2>2 DEF MayFollow
  <1>5. inputBox = InputBoxIn(deck', next) /\ keywordBox = KeywordBoxIn(deck', next)
    <2>1. next \in Nat \ {0} /\ \A j \in 1 .. next - 1 : deck'[j] = deck[j]
      BY <1>2, <1>3
    <2>2. QED
      BY <2>1, BoxesOfPrefix DEF GridInv
  <1>6. GridInv'
    <2>1. /\ BoxOK(inputBox') /\ BoxOK(keywordBox') /\ scan' = scan
          /\ \/ phase' \in {"thrown", "asserted"} /\ next' = next /\ properties' = properties
             \/ /\ phase' = "scanning" /\ next' = next + 1
                /\ inputBox' = InputBoxIn(deck', next + 1)
                /\ keywordBox' = KeywordBoxIn(deck', next + 1)
      <3>1. next \in Nat \ {0} /\ BoxOK(inputBox) /\ BoxOK(keywordBox)
        BY <1>2 DEF GridInv
      <3>2. QED
        BY <1>1, <1>3, <1>4, <1>5, <3>1, HandlerKeepsBoxes
    <2>2. \A i \in 2 .. Len(deck') :
            deck'[i - 1].kind \in Record => deck'[i].kind \in {deck'[i - 1].kind, "/"}
      <3>1. TAKE i \in 2 .. Len(deck')
      <3>2. CASE i \in 2 .. Len(deck)
        <4>1. deck[i - 1].kind \in Record => deck[i].kind \in {deck[i - 1].kind, "/"}
          BY <3>2 DEF GridInv
        <4>2. deck'[i] = deck[i] /\ deck'[i - 1] = deck[i - 1]
          BY <1>2, <1>3, <3>2
        <4>3. QED
          BY <4>1, <4>2
      <3>3. CASE i = next
        BY <1>2, <1>3, <1>4, <3>3
      <3>4. QED
        BY <1>2, <1>3, <3>2, <3>3
    <2>3. next' \in 1 .. Len(deck') + 1 /\ (phase' = "scanning" => next' = Len(deck') + 1)
      BY <1>2, <1>3, <2>1
    <2>4. QED
      BY <1>2, <1>3, <2>1, <2>2, <2>3 DEF GridInv
  <1>7. QED
    BY <1>1, <1>2, <1>3, <1>4, <1>5, <1>6

(* A step of the second scan: the item at next is handled.                 *)
LEMMA SecondScanStep ==
  ASSUME GridInv, phase = "scanning", SecondScan
  PROVE  /\ scan = "Double" /\ next \in 1 .. Len(deck) /\ deck[next] \in Item
         /\ Handle(deck[next]) /\ deck' = deck
         /\ next # 1 /\ deck[next - 1].kind \in Record
              => deck[next].kind \in {deck[next - 1].kind, "/"}
         /\ GridInv'
  <1>1. /\ scan = "Double" /\ next \in 1 .. Len(deck) /\ deck[next] \in Item /\ deck \in Seq(Item)
        /\ Handle(deck[next]) /\ deck' = deck /\ next \in Nat \ {0} /\ Len(deck) \in Nat
    BY DEF SecondScan, GridInv
  <1>2. next # 1 /\ deck[next - 1].kind \in Record
          => deck[next].kind \in {deck[next - 1].kind, "/"}
    BY <1>1 DEF GridInv
  <1>3. /\ BoxOK(inputBox') /\ BoxOK(keywordBox') /\ scan' = scan
        /\ \/ phase' \in {"thrown", "asserted"} /\ next' = next /\ properties' = properties
           \/ /\ phase' = "scanning" /\ next' = next + 1
              /\ inputBox' = InputBoxIn(deck, next + 1)
              /\ keywordBox' = KeywordBoxIn(deck, next + 1)
    <2>1. /\ BoxOK(inputBox) /\ BoxOK(keywordBox)
          /\ inputBox = InputBoxIn(deck, next) /\ keywordBox = KeywordBoxIn(deck, next)
      BY DEF GridInv
    <2>2. QED
      BY <1>1, <1>2, <2>1, HandlerKeepsBoxes
  <1>4. next' \in 1 .. Len(deck) + 1
    BY <1>1, <1>3
  <1>5. GridInv'
    BY <1>1, <1>3, <1>4 DEF GridInv
  <1>6. QED
    BY <1>1, <1>2, <1>5

(* GridInv holds in every state: the boxes of a scan, the order of the     *)
(* items and the place of the scan fit the deck (BoxManager.cpp:46-78,     *)
(* EclipseState.cpp:640-673).                                              *)
THEOREM GridInvariant == Spec => []GridInv
  <1>1. Init => GridInv
    BY NoMarksBefore DEF Init, GridInv, BoxOK
  <1>2. GridInv /\ [Next]_vars => GridInv'
    <2> SUFFICES ASSUME GridInv, [Next]_vars
                 PROVE  GridInv'
      OBVIOUS
    <2>1. CASE UNCHANGED vars
      BY <2>1 DEF vars, GridInv
    <2>2. CASE Next /\ FirstScan
      BY <2>2, FirstScanStep DEF Next
    <2>3. CASE Next /\ SecondScan
      BY <2>3, SecondScanStep DEF Next
    <2>4. CASE Next /\ EndOfDeck
      <3>1. CASE scan = "Int"
        <4>1. /\ scan' = "Double" /\ next' = 1 /\ phase' = "scanning" /\ deck' = deck
              /\ inputBox' = NoBox /\ keywordBox' = NoBox
          BY <2>4, <3>1 DEF Next, EndOfDeck
        <4>2. QED
          BY <4>1, NoMarksBefore DEF GridInv, BoxOK
      <3>2. CASE scan = "Double"
        <4>1. /\ scan' = scan /\ next' = next /\ phase' = "complete" /\ deck' = deck
              /\ inputBox' = NoBox /\ keywordBox' = NoBox /\ next > Len(deck)
          BY <2>4, <3>2 DEF Next, EndOfDeck
        <4>2. next = Len(deck) + 1 /\ Len(deck) \in Nat
          BY <4>1 DEF GridInv
        <4>3. QED
          BY <3>2, <4>1, <4>2 DEF GridInv, BoxOK
      <3>3. QED
        BY <3>1, <3>2 DEF GridInv
    <2>5. QED
      BY <2>1, <2>2, <2>3, <2>4 DEF Next
  <1>3. QED
    BY <1>1, <1>2, PTL DEF Spec

(* At every place of either scan the boxes are the ones the deck asks for; *)
(* none is left over from another keyword, section or scan                 *)
(* (BoxManager.cpp:46-78, EclipseState.cpp:640-673).                       *)
THEOREM BoxesAreTheDecks == Spec => []BoxesFollowTheDeck
  <1>1. GridInv => BoxesFollowTheDeck
    BY BoxesAt DEF GridInv, BoxesFollowTheDeck
  <1>2. QED
    BY <1>1, GridInvariant, PTL
-----------------------------------------------------------------------------
(* The keyword that decides whether an item is for a scan, and the one     *)
(* whose property it changes.                                              *)
Subject(item) ==
  CASE item.kind = "LOAD" -> item.name [] item.kind = "COPY" -> item.source
    [] OTHER -> item.field

Target(item) ==
  CASE item.kind = "LOAD" -> item.name [] item.kind = "COPY" -> item.target
    [] OTHER -> item.field

(* Whether an item changes a property, among the properties there are.     *)
Acts(props, item) ==
  /\ item.kind \in PropertyKinds
  /\ item.kind \in {"LOAD", "EQUALS"} \/ Subject(item) \in DOMAIN props

(* The data an item finds, made by the initializer if there are none.      *)
BeforeIt(props, kw, regions) ==
  IF kw \in DOMAIN props THEN props[kw] ELSE InitialData(kw, regions)

(* The data it leaves.                                                     *)
NewData(props, item, b, regions) ==
  LET old == BeforeIt(props, Target(item), regions)
  IN CASE item.kind = "LOAD" -> Loaded(old, item.name, item.values, b)
       [] item.kind = "COPY" -> Copied(old, props[item.source], b)
       [] OTHER -> Operated(item.kind, old, item.field, item.value, b)

(* The properties with new data for one keyword.                           *)
Written(props, kw, data) ==
  [k \in DOMAIN props \union {kw} |-> IF k = kw THEN data ELSE props[k]]

(* Changed() writes one keyword and makes no other.                        *)
LEMMA ChangedIsWritten ==
  ASSUME NEW props, NEW kw, NEW regions
  PROVE  /\ WithKeyword(props, kw, regions)[kw] = BeforeIt(props, kw, regions)
         /\ \A data : [WithKeyword(props, kw, regions) EXCEPT ![kw] = data]
                        = Written(props, kw, data)
  BY DEF WithKeyword, Written, BeforeIt

(* The meaning of an item in one form: new data for its target, or         *)
(* nothing.                                                                *)
LEMMA MeantIs ==
  ASSUME NEW props, NEW item, NEW b, NEW regions
  PROVE  Meant(props, item, b, regions) =
           IF Acts(props, item)
             THEN Written(props, Target(item), NewData(props, item, b, regions))
             ELSE props
  <1>1. CASE item.kind = "LOAD"
    BY <1>1, ChangedIsWritten DEF Meant, Changed, Acts, PropertyKinds, Record, Target, NewData
  <1>2. CASE item.kind = "COPY"
    BY <1>2, ChangedIsWritten
    DEF Meant, Changed, Acts, PropertyKinds, Record, Subject, Target, NewData
  <1>3. CASE item.kind \in {"EQUALS", "ADD", "MULTIPLY"}
    BY <1>3, ChangedIsWritten
    DEF Meant, Changed, Acts, PropertyKinds, Record, Subject, Target, NewData
  <1>4. CASE item.kind \notin PropertyKinds
    BY <1>4 DEF Meant, Acts, PropertyKinds, Record
  <1>5. QED
    BY <1>1, <1>2, <1>3, <1>4 DEF PropertyKinds, Record

(* Whether a scan acts on an item at all.                                  *)
OfScan(item, which) == item.kind \in PropertyKinds /\ Kind(Subject(item)) = which

(* Every handler that returns has done to the properties what its item     *)
(* means in the box it worked with, or nothing if the item is not for the  *)
(* scan; and it has written to properties of the type of the scan only.    *)
LEMMA HandlerMeans ==
  ASSUME NEW item \in Item, Handle(item), phase' \notin {"thrown", "asserted"}
  PROVE  /\ properties' =
              IF OfScan(item, scan)
                THEN Meant(properties, item, ActiveBox(inputBox', keywordBox'), Regions)
                ELSE properties
         /\ item.kind \in PropertyKinds => Subject(item) \in Keyword
         /\ OfScan(item, scan) /\ Acts(properties, item) => Kind(Target(item)) = scan
  <1> DEFINE b == ActiveBox(inputBox', keywordBox')
             kw == Target(item)
             Result == IF Acts(properties, item)
                         THEN Written(properties, kw, NewData(properties, item, b, Regions))
                         ELSE properties
  <1>1. Meant(properties, item, b, Regions) = Result
    BY MeantIs
  <1>2. CASE PassBy(item)
    BY <1>2, ItemAssumption DEF PassBy, OfScan, PropertyKinds, Subject
  <1>3. CASE Load(item)
    <2>1. Acts(properties, item) /\ OfScan(item, scan) /\ kw = item.name /\ kw \in Keyword
      BY <1>3, ItemAssumption DEF Load, Acts, OfScan, PropertyKinds, Subject, Target
    <2>2. NewData(properties, item, b, Regions)
            = Loaded(BeforeIt(properties, kw, Regions), item.name, item.values, b)
      BY <1>3 DEF Load, NewData
    <2>3. b = ActiveBox(inputBox, keywordBox)
      BY <1>3 DEF Load, boxVars
    <2>4. properties' = Written(properties, kw, NewData(properties, item, b, Regions))
      BY <1>3, <2>1, <2>2, <2>3, ChangedIsWritten DEF Load, Changed
    <2>5. QED
      BY <1>1, <1>3, <2>1, <2>4 DEF Load, OfScan, Subject, Target
  <1>4. CASE ShiftOrScale(item)
    <2>1. /\ item.kind \in {"ADD", "MULTIPLY"} /\ kw = item.field /\ Subject(item) = item.field
          /\ item.field \in Keyword /\ item.kind \in PropertyKinds
          /\ (Acts(properties, item) <=> item.field \in DOMAIN properties)
          /\ (OfScan(item, scan) <=> Kind(item.field) = scan)
      BY <1>4 DEF ShiftOrScale, Acts, OfScan, PropertyKinds, Record, Subject, Target
    <2>2. NewData(properties, item, b, Regions)
            = Operated(item.kind, BeforeIt(properties, kw, Regions), item.field, item.value, b)
      BY <2>1 DEF NewData
    <2>3. b = ActiveBox(inputBox, keywordBox')
      BY <1>4 DEF ShiftOrScale
    <2>4. CASE item.field \in DOMAIN properties /\ Kind(item.field) = scan
      <3>1. properties' = Written(properties, kw, NewData(properties, item, b, Regions))
        BY <1>4, <2>1, <2>2, <2>3, <2>4, ChangedIsWritten DEF ShiftOrScale, Changed
      <3>2. QED
        BY <1>1, <2>1, <2>4, <3>1
    <2>5. CASE ~ (item.field \in DOMAIN properties /\ Kind(item.field) = scan)
      <3>1. properties' = properties
        BY <1>4, <2>5 DEF ShiftOrScale
      <3>2. QED
        BY <1>1, <2>1, <2>5, <3>1
    <2>6. QED
      BY <2>4, <2>5
  <1>5. CASE Equals(item)
    <2>1. /\ item.kind = "EQUALS" /\ kw = item.field /\ Subject(item) = item.field
          /\ item.field \in Keyword /\ item.kind \in PropertyKinds /\ Acts(properties, item)
          /\ (OfScan(item, scan) <=> Kind(item.field) = scan)
      BY <1>5 DEF Equals, Acts, OfScan, PropertyKinds, Record, Subject, Target
    <2>2. NewData(properties, item, b, Regions)
            = Operated("EQUALS", BeforeIt(properties, kw, Regions), item.field, item.value, b)
      BY <2>1 DEF NewData
    <2>3. b = ActiveBox(inputBox, keywordBox')
      BY <1>5 DEF Equals
    <2>4. CASE Kind(item.field) = scan
      <3>1. properties' = Written(properties, kw, NewData(properties, item, b, Regions))
        BY <1>5, <2>1, <2>2, <2>3, <2>4, ChangedIsWritten DEF Equals, Changed
      <3>2. QED
        BY <1>1, <2>1, <2>4, <3>1
    <2>5. CASE Kind(item.field) # scan
      <3>1. properties' = properties
        BY <1>5, <2>5 DEF Equals
      <3>2. QED
        BY <1>1, <2>1, <2>5, <3>1
    <2>6. QED
      BY <2>4, <2>5
  <1>6. CASE Copy(item)
    <2>1. /\ item.kind = "COPY" /\ kw = item.target /\ Subject(item) = item.source
          /\ item.source \in Keyword /\ item.kind \in PropertyKinds
          /\ (Acts(properties, item) <=> item.source \in DOMAIN properties)
          /\ (OfScan(item, scan) <=> Kind(item.source) = scan)
      BY <1>6 DEF Copy, Acts, OfScan, PropertyKinds, Record, Subject, Target
    <2>2. NewData(properties, item, b, Regions)
            = Copied(BeforeIt(properties, kw, Regions), properties[item.source], b)
      BY <2>1 DEF NewData
    <2>3. b = ActiveBox(inputBox, keywordBox')
      BY <1>6 DEF Copy
    <2>4. CASE item.source \in DOMAIN properties /\ Kind(item.source) = scan
      <3>1. properties' = Written(properties, kw, NewData(properties, item, b, Regions))
        BY <1>6, <2>1, <2>2, <2>3, <2>4, ChangedIsWritten DEF Copy, Changed
      <3>2. Kind(kw) = scan
        BY <1>6, <2>1, <2>4 DEF Copy
      <3>3. QED
        BY <1>1, <2>1, <2>4, <3>1, <3>2
    <2>5. CASE ~ (item.source \in DOMAIN properties /\ Kind(item.source) = scan)
      <3>1. properties' = properties
        BY <1>6, <2>5 DEF Copy
      <3>2. QED
        BY <1>1, <2>1, <2>5, <3>1
    <2>6. QED
      BY <2>4, <2>5
  <1>7. CASE BoxKeyword(item) \/ EndBoxKeyword(item) \/ EndKeyword(item) \/ NextSection(item)
    <2>1. item.kind \notin PropertyKinds /\ properties' = properties
      BY <1>7 DEF BoxKeyword, EndBoxKeyword, EndKeyword, NextSection, PropertyKinds, Record
    <2>2. QED
      BY <2>1 DEF OfScan
  <1>8. ~ (ScanThrows(item) \/ ScanAsserts(item))
    BY DEF ScanThrows, ScanAsserts, Stops
  <1>9. QED
    BY <1>2, <1>3, <1>4, <1>5, <1>6, <1>7, <1>8 DEF Handle
-----------------------------------------------------------------------------
(* The keywords are of one type each.                                      *)
LEMMA Kinds ==
  ASSUME NEW kw
  PROVE  /\ Kind(kw) = "Int" <=> kw \in IntKeyword
         /\ Kind(kw) = "Double" <=> kw \in DoubleKeyword
         /\ ~ (kw \in IntKeyword /\ kw \in DoubleKeyword)
  <1>1. ASSUME kw \in DoubleKeyword
        PROVE  kw \notin IntKeyword
    BY <1>1 DEF IntKeyword, DoubleKeyword, EndpointKeyword, EndpointRule, ConstantDefault,
      UnsetKeyword, UnitKeyword
  <1>2. QED
    BY <1>1 DEF Kind

(* The properties of some keywords.                                        *)
Part(props, keywords) == [kw \in keywords \intersect DOMAIN props |-> props[kw]]

(* An item that writes to none of them leaves a part as it is.             *)
LEMMA PartOfOther ==
  ASSUME NEW props, NEW item, NEW b, NEW regions, NEW keywords,
         Acts(props, item) => Target(item) \notin keywords
  PROVE  Part(Meant(props, item, b, regions), keywords) = Part(props, keywords)
  <1> DEFINE data == NewData(props, item, b, regions)
  <1>1. Meant(props, item, b, regions)
          = IF Acts(props, item) THEN Written(props, Target(item), data) ELSE props
    BY MeantIs
  <1> HIDE DEF data
  <1>2. CASE Acts(props, item)
    BY <1>1, <1>2 DEF Part, Written
  <1>3. QED
    BY <1>1, <1>2

(* What an item makes of a part follows from that part, if its subject and *)
(* its target are in it and what the target begins with is the same.       *)
LEMMA PartOfSame ==
  ASSUME NEW props, NEW other, NEW item, NEW b, NEW regions, NEW otherRegions, NEW keywords,
         Part(props, keywords) = Part(other, keywords), Subject(item) \in keywords,
         Acts(props, item) => Target(item) \in keywords,
         InitialData(Target(item), regions) = InitialData(Target(item), otherRegions)
  PROVE  /\ Acts(props, item) <=> Acts(other, item)
         /\ Part(Meant(props, item, b, regions), keywords)
              = Part(Meant(other, item, b, otherRegions), keywords)
  <1>1. \A kw \in keywords : /\ kw \in DOMAIN props <=> kw \in DOMAIN other
                             /\ kw \in DOMAIN props => props[kw] = other[kw]
    <2>1. \A p : DOMAIN Part(p, keywords) = keywords \intersect DOMAIN p
      BY DEF Part
    <2>2. \A p : \A kw \in keywords \intersect DOMAIN p : Part(p, keywords)[kw] = p[kw]
      BY DEF Part
    <2>3. QED
      BY <2>1, <2>2
  <1>2. Acts(props, item) <=> Acts(other, item)
    BY <1>1 DEF Acts
  <1>3. ASSUME Acts(props, item)
        PROVE  NewData(props, item, b, regions) = NewData(other, item, b, otherRegions)
    <2>1. BeforeIt(props, Target(item), regions) = BeforeIt(other, Target(item), otherRegions)
      BY <1>1, <1>3 DEF BeforeIt
    <2>2. item.kind = "COPY" => props[item.source] = other[item.source]
      BY <1>1, <1>3 DEF Acts, Subject
    <2>3. QED
      BY <2>1, <2>2 DEF NewData
  <1>4. CASE Acts(props, item)
    <2> DEFINE data == NewData(props, item, b, regions)
               kw == Target(item)
    <2>1. /\ Meant(props, item, b, regions) = Written(props, kw, data)
          /\ Meant(other, item, b, otherRegions) = Written(other, kw, data)
      BY <1>2, <1>3, <1>4, MeantIs
    <2>2. kw \in keywords
      BY <1>4
    <2> HIDE DEF data, kw
    <2>3. Part(Written(props, kw, data), keywords) = Part(Written(other, kw, data), keywords)
      <3> DEFINE one == Part(Written(props, kw, data), keywords)
                 two == Part(Written(other, kw, data), keywords)
      <3>1. one = [k \in keywords \intersect (DOMAIN props \union {kw}) |->
                     IF k = kw THEN data ELSE props[k]]
        BY DEF Part, Written
      <3>2. two = [k \in keywords \intersect (DOMAIN other \union {kw}) |->
                     IF k = kw THEN data ELSE other[k]]
        BY DEF Part, Written
      <3>3. keywords \intersect (DOMAIN props \union {kw})
              = keywords \intersect (DOMAIN other \union {kw})
        BY <1>1
      <3> HIDE DEF one, two
      <3>4. QED
        BY <1>1, <3>1, <3>2, <3>3 DEF one, two
    <2>4. QED
      BY <1>2, <2>1, <2>3
  <1>5. CASE ~ Acts(props, item)
    BY <1>2, <1>5, MeantIs
  <1>6. QED
    BY <1>2, <1>4, <1>5
(* A handler returns, or it throws or asserts and leaves the properties.   *)
LEMMA HandlerOutcome ==
  ASSUME NEW item, Handle(item), phase = "scanning"
  PROVE  /\ scan' = scan
         /\ \/ phase' = "scanning"
            \/ phase' \in {"thrown", "asserted"} /\ properties' = properties
  <1>1. CASE ScanThrows(item) \/ ScanAsserts(item)
    BY <1>1 DEF ScanThrows, ScanAsserts, Stops
  <1>2. CASE ~ (ScanThrows(item) \/ ScanAsserts(item))
    BY <1>2 DEF Handle, PassBy, Load, BoxKeyword, EndBoxKeyword, ShiftOrScale, Equals, Copy,
      EndKeyword, NextSection, Goes
  <1>3. QED
    BY <1>1, <1>2

(* A handler of the second scan writes to no region.                       *)
LEMMA RegionsOfHandler ==
  ASSUME NEW item \in Item, Handle(item), phase = "scanning", scan = "Double"
  PROVE  Regions' = Regions
  <1> DEFINE b == ActiveBox(inputBox', keywordBox')
  <1>1. Regions = Part(properties, IntKeyword) /\ Regions' = Part(properties', IntKeyword)
    BY DEF Regions, Part
  <1>2. CASE phase' = "scanning" /\ OfScan(item, scan)
    <2>1. /\ properties' = Meant(properties, item, b, Regions)
          /\ Acts(properties, item) => Kind(Target(item)) = "Double"
      BY <1>2, HandlerMeans
    <2>2. Acts(properties, item) => Target(item) \notin IntKeyword
      BY <2>1, Kinds
    <2>3. QED
      BY <1>1, <2>1, <2>2, PartOfOther
  <1>3. CASE phase' # "scanning" \/ ~ OfScan(item, scan)
    <2>1. properties' = properties
      BY <1>3, HandlerOutcome, HandlerMeans
    <2>2. QED
      BY <2>1 DEF Regions
  <1>4. QED
    BY <1>2, <1>3

(* The second scan changes no property with whole numbers: the regions its *)
(* lookups see are the final ones (EclipseState.cpp:601-604).              *)
THEOREM RegionsStay == Spec => RegionsAreFinal
  <1>1. ASSUME GridInv, [Next]_vars
        PROVE  [scan = "Double" => Regions' = Regions]_vars
    <2> SUFFICES ASSUME Next, scan = "Double"
                 PROVE  Regions' = Regions
      BY <1>1
    <2>1. CASE FirstScan
      BY <2>1 DEF FirstScan
    <2>2. CASE SecondScan
      <3>1. phase = "scanning" /\ deck[next] \in Item /\ Handle(deck[next])
        BY <1>1, <2>2, SecondScanStep DEF Next
      <3>2. QED
        BY <3>1, RegionsOfHandler
    <2>3. CASE EndOfDeck
      BY <2>3 DEF EndOfDeck, Regions
    <2>4. QED
      BY <2>1, <2>2, <2>3 DEF Next
  <1>2. QED
    BY <1>1, GridInvariant, PTL DEF Spec, RegionsAreFinal
-----------------------------------------------------------------------------
(* The properties before the first item.                                   *)
NoProperties == [kw \in {} |-> 0]

(* g[i] is what the first scan has made of the first i items: whole        *)
(* numbers only, and nothing of it depends on the regions.                 *)
IntHistory(g, d) ==
  /\ g[0] = NoProperties
  /\ \A i \in 0 .. Len(d) : Part(g[i], IntKeyword) = g[i]
  /\ \A i \in 1 .. Len(d) :
       /\ g[i] = IF OfScan(d[i], "Int") THEN Meant(g[i - 1], d[i], BoxIn(d, i), NoProperties)
                                        ELSE g[i - 1]
       /\ OfScan(d[i], "Int") /\ Acts(g[i - 1], d[i]) => Target(d[i]) \in IntKeyword

(* m[i] is what the first n items mean, up to item i, if the lookups see   *)
(* the given regions.                                                      *)
MeantHistory(m, d, n, regions) ==
  /\ m[0] = NoProperties
  /\ \A i \in 1 .. n : m[i] = Meant(m[i - 1], d[i], BoxIn(d, i), regions)

(* The first scan is at the end of its history.                            *)
InFirstScan == \E g : IntHistory(g, deck) /\ properties = g[Len(deck)]

(* In the second scan the history of the first is over the whole deck, and *)
(* the properties are its end and the real ones of the meaning of the      *)
(* items passed so far; the meaning has the regions of the first scan at   *)
(* each place.                                                             *)
InSecondScan ==
  \E g, m :
    /\ IntHistory(g, deck)
    /\ MeantHistory(m, deck, next - 1, Regions)
    /\ \A i \in 0 .. next - 1 :
         Part(m[i], IntKeyword) = g[i] /\ Part(m[i], Keyword) = m[i]
    /\ Part(properties, IntKeyword) = g[Len(deck)]
    /\ Part(properties, DoubleKeyword) = Part(m[next - 1], DoubleKeyword)
    /\ Part(properties, Keyword) = properties

(* The inductive invariant of AsIfInOneScan. A state does not keep the     *)
(* histories, hence the quantifiers over them.                             *)
OneScanInv ==
  phase \in {"scanning", "complete"} =>
    IF scan = "Int" THEN InFirstScan ELSE InSecondScan

(* There is a history of nothing.                                          *)
LEMMA OneScanInit == Init => OneScanInv
  <1> SUFFICES ASSUME Init
               PROVE  InFirstScan
    BY DEF Init, OneScanInv
  <1>1. IntHistory([i \in {0} |-> NoProperties], << >>)
    <2>1. 1 .. Len(<< >>) = {} /\ 0 .. Len(<< >>) = {0}
      OBVIOUS
    <2>2. Part(NoProperties, IntKeyword) = NoProperties
      BY DEF Part, NoProperties
    <2>3. QED
      BY <2>1, <2>2 DEF IntHistory
  <1>2. QED
    BY <1>1 DEF Init, InFirstScan, NoProperties

(* What a property with whole numbers begins with is not looked up.        *)
LEMMA InitialInt ==
  ASSUME NEW kw \in IntKeyword
  PROVE  \A r, s : InitialData(kw, r) = InitialData(kw, s)
  BY DEF InitialData

(* A step of the first scan makes its history longer by one item.          *)
LEMMA FirstScanMeans ==
  ASSUME GridInv, InFirstScan, phase = "scanning", phase' = "scanning", FirstScan
  PROVE  InFirstScan'
  <1>1. PICK g : IntHistory(g, deck) /\ properties = g[Len(deck)]
    BY DEF InFirstScan
  <1> DEFINE n == Len(deck)
  <1>2. PICK item \in Item :
          /\ deck' = Append(deck, item) /\ Len(deck') = n + 1 /\ n \in Nat /\ next = n + 1
          /\ \A i \in 1 .. n : deck'[i] = deck[i]
          /\ deck'[n + 1] = item /\ Handle(item) /\ scan = "Int"
          /\ item.kind \in PropertyKinds
               => BoxIn(deck', n + 1) = ActiveBox(inputBox', keywordBox')
    <2>1. PICK item \in Item :
           /\ deck' = Append(deck, item) /\ Len(deck') = Len(deck) + 1
           /\ \A i \in 1 .. Len(deck) : deck'[i] = deck[i]
           /\ deck'[next] = item /\ Handle(item) /\ scan = "Int"
           /\ next # 1 /\ deck'[next - 1].kind \in Record
                => item.kind \in {deck'[next - 1].kind, "/"}
           /\ inputBox = InputBoxIn(deck', next) /\ keywordBox = KeywordBoxIn(deck', next)
      BY FirstScanStep
    <2>2. n \in Nat /\ next = n + 1 /\ next \in Nat \ {0}
      BY <2>1 DEF GridInv
    <2>3. item.kind \in PropertyKinds => BoxIn(deck', next) = ActiveBox(inputBox', keywordBox')
      BY <2>1, <2>2, HandlerKeepsBoxes DEF GridInv
    <2>4. QED
      BY <2>1, <2>2, <2>3
  <1> DEFINE b == BoxIn(deck', n + 1)
             h == [i \in 0 .. n + 1 |-> IF i = n + 1 THEN properties' ELSE g[i]]
  <1>3. properties' = IF OfScan(item, "Int") THEN Meant(properties, item, b, Regions)
                                             ELSE properties
    BY <1>2, HandlerMeans DEF OfScan
  <1>4. OfScan(item, "Int") /\ Acts(properties, item) => Target(item) \in IntKeyword
    BY <1>2, HandlerMeans, Kinds
  <1>5. Part(properties, IntKeyword) = properties
    BY <1>1, <1>2 DEF IntHistory
  <1>6. ASSUME OfScan(item, "Int"), NEW r
        PROVE  /\ Meant(properties, item, b, r) = Meant(properties, item, b, NoProperties)
               /\ Part(Meant(properties, item, b, r), IntKeyword)
                    = Meant(properties, item, b, r)
    <2>1. CASE Acts(properties, item)
      <3> DEFINE kw == Target(item)
      <3>1. InitialData(kw, r) = InitialData(kw, NoProperties) /\ kw \in IntKeyword
        BY <1>4, <1>6, <2>1, InitialInt
      <3>2. BeforeIt(properties, kw, r) = BeforeIt(properties, kw, NoProperties)
        BY <3>1 DEF BeforeIt
      <3>3. NewData(properties, item, b, r) = NewData(properties, item, b, NoProperties)
        BY <3>2 DEF NewData
      <3>4. \A data : Part(Written(properties, kw, data), IntKeyword)
                        = Written(properties, kw, data)
        <4>1. DOMAIN properties \subseteq IntKeyword
          <5>1. DOMAIN Part(properties, IntKeyword) = IntKeyword \intersect DOMAIN properties
            BY DEF Part
          <5>2. QED
            BY <1>5, <5>1
        <4>2. IntKeyword \intersect (DOMAIN properties \union {kw}) = DOMAIN properties \union {kw}
          BY <3>1, <4>1
        <4> HIDE DEF kw
        <4>3. QED
          BY <4>2 DEF Part, Written
      <3>5. QED
        BY <2>1, <3>3, <3>4, MeantIs
    <2>2. CASE ~ Acts(properties, item)
      BY <1>5, <2>2, MeantIs
    <2>3. QED
      BY <2>1, <2>2
  <1>7. /\ properties' = IF OfScan(item, "Int") THEN Meant(properties, item, b, NoProperties)
                                                ELSE properties
        /\ Part(properties', IntKeyword) = properties'
    BY <1>3, <1>5, <1>6
  <1>8. /\ \A i \in 0 .. n : h[i] = g[i]
        /\ h[n + 1] = properties' /\ h[n] = properties
    BY <1>1, <1>2
  <1> HIDE DEF h
  <1>9. \A i \in 1 .. n : BoxIn(deck', i) = BoxIn(deck, i)
    <2> TAKE i \in 1 .. n
    <2>1. i \in Nat \ {0} /\ deck'[i] = deck[i] /\ \A j \in 1 .. i - 1 : deck'[j] = deck[j]
      BY <1>2
    <2>2. QED
      BY <2>1, BoxesOfPrefix
  <1> HIDE DEF b
  <1>10. IntHistory(h, deck')
    <2>1. h[0] = NoProperties
      BY <1>1, <1>2, <1>8 DEF IntHistory
    <2>2. ASSUME NEW i \in 0 .. n + 1
          PROVE  Part(h[i], IntKeyword) = h[i]
      <3>1. CASE i = n + 1
        BY <1>7, <1>8, <3>1
      <3>2. CASE i \in 0 .. n
        BY <1>1, <1>8, <3>2 DEF IntHistory
      <3>3. QED
        BY <1>2, <3>1, <3>2
    <2>3. ASSUME NEW i \in 1 .. n + 1
          PROVE  /\ h[i] = IF OfScan(deck'[i], "Int")
                             THEN Meant(h[i - 1], deck'[i], BoxIn(deck', i), NoProperties)
                             ELSE h[i - 1]
                 /\ OfScan(deck'[i], "Int") /\ Acts(h[i - 1], deck'[i])
                      => Target(deck'[i]) \in IntKeyword
      <3>1. CASE i = n + 1
        <4>1. i - 1 = n /\ h[i - 1] = properties /\ h[i] = properties' /\ deck'[i] = item
              /\ BoxIn(deck', i) = b
          BY <1>2, <1>8, <3>1 DEF b
        <4>2. QED
          BY <1>4, <1>7, <4>1
      <3>2. CASE i \in 1 .. n
        <4>1. i - 1 \in 0 .. n /\ i \in 0 .. n
          BY <1>2, <3>2
        <4>2. h[i - 1] = g[i - 1] /\ h[i] = g[i] /\ deck'[i] = deck[i]
              /\ BoxIn(deck', i) = BoxIn(deck, i)
          BY <1>2, <1>8, <1>9, <3>2, <4>1
        <4>3. QED
          BY <1>1, <3>2, <4>2 DEF IntHistory
      <3>3. QED
        BY <1>2, <3>1, <3>2
    <2>4. QED
      BY <1>2, <2>1, <2>2, <2>3 DEF IntHistory
  <1>11. QED
    BY <1>2, <1>8, <1>10 DEF InFirstScan
(* The end of the first scan begins the second, with the whole history of  *)
(* the first one and none of the meaning.                                  *)
LEMMA SecondScanBegins ==
  ASSUME GridInv, InFirstScan, phase = "scanning", scan = "Int", EndOfDeck
  PROVE  scan' = "Double" /\ phase' = phase /\ InSecondScan'
  <1>1. /\ scan' = "Double" /\ next' = 1 /\ phase' = phase /\ deck' = deck
        /\ properties' = properties
    BY DEF EndOfDeck
  <1>2. PICK g : IntHistory(g, deck) /\ properties = g[Len(deck)]
    BY DEF InFirstScan
  <1> DEFINE m == [i \in {0} |-> NoProperties]
  <1>3. Len(deck) \in Nat /\ next' - 1 = 0 /\ 0 .. next' - 1 = {0} /\ 1 .. next' - 1 = {}
    BY <1>1 DEF GridInv
  <1>4. Part(properties, IntKeyword) = properties
    BY <1>2, <1>3 DEF IntHistory
  <1>5. DOMAIN properties \subseteq IntKeyword
    <2>1. DOMAIN Part(properties, IntKeyword) = IntKeyword \intersect DOMAIN properties
      BY DEF Part
    <2>2. QED
      BY <1>4, <2>1
  <1>6. Part(properties, Keyword) = properties
    <2>1. Keyword \intersect DOMAIN properties = IntKeyword \intersect DOMAIN properties
      BY <1>5 DEF Keyword
    <2>2. QED
      BY <1>4, <2>1 DEF Part
  <1>7. Part(properties, DoubleKeyword) = Part(NoProperties, DoubleKeyword)
    <2>1. /\ DoubleKeyword \intersect DOMAIN properties = {}
          /\ DoubleKeyword \intersect DOMAIN NoProperties = {}
      BY <1>5, Kinds DEF NoProperties
    <2>2. QED
      BY <2>1 DEF Part
  <1>8. \A keywords : Part(NoProperties, keywords) = NoProperties
    BY DEF Part, NoProperties
  <1>9. g[0] = NoProperties /\ m[0] = NoProperties
    BY <1>2 DEF IntHistory
  <1> HIDE DEF m
  <1>10. MeantHistory(m, deck, next' - 1, Regions')
    BY <1>3, <1>9 DEF MeantHistory
  <1>11. \A i \in 0 .. next' - 1 : Part(m[i], IntKeyword) = g[i] /\ Part(m[i], Keyword) = m[i]
    BY <1>3, <1>8, <1>9
  <1>12. InSecondScan'
    BY <1>1, <1>2, <1>3, <1>4, <1>6, <1>7, <1>9, <1>10, <1>11 DEF InSecondScan
  <1>13. QED
    BY <1>1, <1>12

(* Writing to a keyword makes no property that is not one of a keyword.    *)
LEMMA PartKeyword ==
  ASSUME NEW props, NEW kw, NEW data, Part(props, Keyword) = props, kw \in Keyword
  PROVE  Part(Written(props, kw, data), Keyword) = Written(props, kw, data)
  <1>1. DOMAIN props \subseteq Keyword
    <2>1. DOMAIN Part(props, Keyword) = Keyword \intersect DOMAIN props
      BY DEF Part
    <2>2. QED
      BY <2>1
  <1>2. Keyword \intersect (DOMAIN props \union {kw}) = DOMAIN props \union {kw}
    BY <1>1
  <1>3. QED
    BY <1>2 DEF Part, Written

(* A step of the second scan makes the meaning longer by one item: its     *)
(* whole numbers are those of the history of the first scan, its real ones *)
(* those of the properties.                                                *)
LEMMA SecondScanMeans ==
  ASSUME GridInv, InSecondScan, phase = "scanning", phase' = "scanning", SecondScan
  PROVE  scan' = "Double" /\ InSecondScan'
  <1> DEFINE n == next - 1
             item == deck[next]
             b == BoxIn(deck, next)
  <1>1. PICK g, m :
          /\ IntHistory(g, deck)
          /\ MeantHistory(m, deck, n, Regions)
          /\ \A i \in 0 .. n : Part(m[i], IntKeyword) = g[i] /\ Part(m[i], Keyword) = m[i]
          /\ Part(properties, IntKeyword) = g[Len(deck)]
          /\ Part(properties, DoubleKeyword) = Part(m[n], DoubleKeyword)
          /\ Part(properties, Keyword) = properties
    BY DEF InSecondScan
  <1>2. /\ scan = "Double" /\ next \in 1 .. Len(deck) /\ item \in Item /\ Handle(item)
        /\ deck' = deck /\ Len(deck) \in Nat
        /\ next # 1 /\ deck[next - 1].kind \in Record => item.kind \in {deck[next - 1].kind, "/"}
    BY SecondScanStep DEF GridInv
  <1>3. n \in Nat /\ next \in Nat \ {0} /\ n + 1 = next /\ n \in 0 .. n /\ 0 \in 0 .. n
    BY <1>2
  <1>4. /\ scan' = scan /\ next' = next + 1
        /\ item.kind \in PropertyKinds => b = ActiveBox(inputBox', keywordBox')
    BY <1>2, <1>3, HandlerKeepsBoxes DEF GridInv
  <1>5. /\ properties' = IF OfScan(item, "Double") THEN Meant(properties, item, b, Regions)
                                                   ELSE properties
        /\ item.kind \in PropertyKinds => Subject(item) \in Keyword
        /\ OfScan(item, "Double") /\ Acts(properties, item) => Target(item) \in DoubleKeyword
    BY <1>2, <1>4, HandlerMeans, Kinds DEF OfScan
  <1>6. Regions' = Regions
    BY <1>2, RegionsOfHandler
  <1> DEFINE new == Meant(m[n], item, b, Regions)
             k == [i \in 0 .. next |-> IF i = next THEN new ELSE m[i]]
  <1>7. /\ g[next] = IF OfScan(item, "Int") THEN Meant(g[n], item, b, NoProperties) ELSE g[n]
        /\ OfScan(item, "Int") /\ Acts(g[n], item) => Target(item) \in IntKeyword
    BY <1>1, <1>2 DEF IntHistory
  <1>8. Part(m[n], IntKeyword) = g[n] /\ Part(m[n], Keyword) = m[n]
    BY <1>1, <1>3
  <1>9. \A keywords : Part(Part(m[n], keywords), keywords) = Part(m[n], keywords)
    BY DEF Part
  <1> HIDE DEF b
  <1>10. /\ Part(new, IntKeyword) = g[next] /\ Part(new, Keyword) = new
         /\ Part(properties', IntKeyword) = Part(properties, IntKeyword)
         /\ Part(properties', DoubleKeyword) = Part(new, DoubleKeyword)
         /\ Part(properties', Keyword) = properties'
    <2>1. CASE OfScan(item, "Int")
      <3>1. Subject(item) \in IntKeyword /\ ~ OfScan(item, "Double") /\ properties' = properties
        BY <1>5, <2>1, Kinds DEF OfScan
      <3>2. Part(m[n], IntKeyword) = Part(g[n], IntKeyword)
        BY <1>8, <1>9
      <3>3. Acts(m[n], item) <=> Acts(g[n], item)
        <4>1. Subject(item) \in DOMAIN m[n] <=> Subject(item) \in DOMAIN g[n]
          <5>1. DOMAIN Part(m[n], IntKeyword) = IntKeyword \intersect DOMAIN m[n]
            BY DEF Part
          <5>2. QED
            BY <1>8, <3>1, <5>1
        <4>2. QED
          BY <4>1 DEF Acts
      <3>4. Acts(m[n], item) => Target(item) \in IntKeyword
        BY <1>7, <2>1, <3>3
      <3>5. Part(new, IntKeyword) = Part(Meant(g[n], item, b, NoProperties), IntKeyword)
        <4>1. CASE Acts(m[n], item)
          BY <3>1, <3>2, <3>4, <4>1, InitialInt, PartOfSame
        <4>2. CASE ~ Acts(m[n], item)
          BY <3>2, <3>3, <4>2, MeantIs
        <4>3. QED
          BY <4>1, <4>2
      <3>6. Part(g[next], IntKeyword) = g[next]
        BY <1>1, <1>2 DEF IntHistory
      <3>7. Part(new, IntKeyword) = g[next]
        BY <1>7, <2>1, <3>5, <3>6
      <3>8. Part(new, DoubleKeyword) = Part(m[n], DoubleKeyword)
        BY <3>4, Kinds, PartOfOther
      <3>9. Part(new, Keyword) = new
        <4>1. CASE Acts(m[n], item)
          BY <1>8, <3>4, <4>1, MeantIs, PartKeyword DEF Keyword
        <4>2. CASE ~ Acts(m[n], item)
          BY <1>8, <4>2, MeantIs
        <4>3. QED
          BY <4>1, <4>2
      <3>10. QED
        BY <1>1, <3>1, <3>7, <3>8, <3>9
    <2>2. CASE OfScan(item, "Double")
      <3>1. Subject(item) \in DoubleKeyword /\ ~ OfScan(item, "Int") /\ g[next] = g[n]
        BY <1>7, <2>2, Kinds DEF OfScan
      <3>2. Acts(m[n], item) <=> Acts(properties, item)
        <4>1. Subject(item) \in DOMAIN m[n] <=> Subject(item) \in DOMAIN properties
          <5>1. \A p : DOMAIN Part(p, DoubleKeyword) = DoubleKeyword \intersect DOMAIN p
            BY DEF Part
          <5>2. DOMAIN Part(m[n], DoubleKeyword) = DOMAIN Part(properties, DoubleKeyword)
            BY <1>1
          <5>3. QED
            BY <3>1, <5>1, <5>2
        <4>2. QED
          BY <4>1 DEF Acts
      <3>3. Acts(properties, item) => Target(item) \in DoubleKeyword
        BY <1>5, <2>2
      <3>4. properties' = Meant(properties, item, b, Regions)
        BY <1>5, <2>2
      <3>5. Part(properties', DoubleKeyword) = Part(new, DoubleKeyword)
        BY <1>1, <3>1, <3>3, <3>4, PartOfSame
      <3>6. /\ Part(properties', IntKeyword) = Part(properties, IntKeyword)
            /\ Part(new, IntKeyword) = Part(m[n], IntKeyword)
        BY <3>2, <3>3, <3>4, Kinds, PartOfOther
      <3>7. Part(new, Keyword) = new /\ Part(properties', Keyword) = properties'
        <4>1. CASE Acts(properties, item)
          BY <1>1, <1>8, <3>2, <3>3, <3>4, <4>1, MeantIs, PartKeyword DEF Keyword
        <4>2. CASE ~ Acts(properties, item)
          BY <1>1, <1>8, <3>2, <3>4, <4>2, MeantIs
        <4>3. QED
          BY <4>1, <4>2
      <3>8. QED
        BY <1>8, <3>1, <3>5, <3>6, <3>7
    <2>3. CASE item.kind \notin PropertyKinds
      <3>1. new = m[n] /\ properties' = properties /\ g[next] = g[n]
        BY <1>5, <1>7, <2>3, MeantIs DEF Acts, OfScan
      <3>2. QED
        BY <1>1, <1>8, <3>1
    <2>4. QED
      BY <1>5, <2>1, <2>2, <2>3, Kinds DEF OfScan, Keyword
  <1> HIDE DEF new
  <1>11. k[next] = new /\ \A i \in 0 .. n : k[i] = m[i]
    BY <1>3
  <1> HIDE DEF k
  <1>12. next' - 1 = next
    BY <1>2, <1>4
  <1>13. MeantHistory(k, deck, next, Regions)
    <2>1. k[0] = NoProperties
      BY <1>1, <1>3, <1>11 DEF MeantHistory
    <2>2. ASSUME NEW i \in 1 .. next
          PROVE  k[i] = Meant(k[i - 1], deck[i], BoxIn(deck, i), Regions)
      <3>1. CASE i = next
        BY <1>3, <1>11, <3>1 DEF new, b
      <3>2. CASE i \in 1 .. n
        <4>1. i - 1 \in 0 .. n /\ i \in 0 .. n
          BY <1>3, <3>2
        <4>2. k[i] = m[i] /\ k[i - 1] = m[i - 1]
          BY <1>11, <4>1
        <4>3. QED
          BY <1>1, <3>2, <4>2 DEF MeantHistory
      <3>3. QED
        BY <1>3, <3>1, <3>2
    <2>3. QED
      BY <2>1, <2>2 DEF MeantHistory
  <1>14. \A i \in 0 .. next : Part(k[i], IntKeyword) = g[i] /\ Part(k[i], Keyword) = k[i]
    BY <1>1, <1>3, <1>10, <1>11
  <1>15. InSecondScan'
    BY <1>1, <1>2, <1>6, <1>10, <1>11, <1>12, <1>13, <1>14 DEF InSecondScan
  <1>16. QED
    BY <1>2, <1>4, <1>15

(* Properties are equal if their whole numbers and their real ones are.    *)
LEMMA EqualParts ==
  ASSUME NEW p, NEW q, Part(p, Keyword) = p, Part(q, Keyword) = q,
         Part(p, IntKeyword) = Part(q, IntKeyword), Part(p, DoubleKeyword) = Part(q, DoubleKeyword)
  PROVE  p = q
  <1>1. \A r, keywords : DOMAIN Part(r, keywords) = keywords \intersect DOMAIN r
    BY DEF Part
  <1>2. \A r, keywords : \A kw \in keywords \intersect DOMAIN r : Part(r, keywords)[kw] = r[kw]
    BY DEF Part
  <1>3. Keyword \intersect DOMAIN p = Keyword \intersect DOMAIN q
    <2>1. /\ IntKeyword \intersect DOMAIN p = IntKeyword \intersect DOMAIN q
          /\ DoubleKeyword \intersect DOMAIN p = DoubleKeyword \intersect DOMAIN q
      BY <1>1
    <2>2. QED
      BY <2>1 DEF Keyword
  <1>4. \A kw \in Keyword \intersect DOMAIN p : p[kw] = q[kw]
    <2>1. TAKE kw \in Keyword \intersect DOMAIN p
    <2>2. CASE kw \in IntKeyword
      BY <1>2, <1>3, <2>2
    <2>3. CASE kw \in DoubleKeyword
      BY <1>2, <1>3, <2>3
    <2>4. QED
      BY <2>2, <2>3 DEF Keyword
  <1>5. Part(p, Keyword) = Part(q, Keyword)
    BY <1>3, <1>4 DEF Part
  <1>6. QED
    BY <1>5

(* The meaning of a deck is the end of any history of it.                  *)
LEMMA MeaningIs ==
  ASSUME NEW m, Len(deck) \in Nat, MeantHistory(m, deck, Len(deck), Regions)
  PROVE  MeaningOfDeck = m[Len(deck)]
  <1> DEFINE len == Len(deck)
             Rec(f) == f = [i \in 0 .. len |->
                              IF i = 0 THEN NoProperties
                              ELSE Meant(f[i - 1], deck[i], BoxAt(i), Regions)]
             meaning == CHOOSE f : Rec(f)
             f == [i \in 0 .. len |-> m[i]]
  <1>1. MeaningOfDeck = meaning[len]
    BY DEF MeaningOfDeck, NoProperties
  <1>2. \A i \in 0 .. len : f[i] = IF i = 0 THEN NoProperties
                                   ELSE Meant(f[i - 1], deck[i], BoxAt(i), Regions)
    <2>1. TAKE i \in 0 .. len
    <2>2. CASE i = 0
      BY <2>2 DEF MeantHistory
    <2>3. CASE i # 0
      <3>1. i \in 1 .. len /\ i - 1 \in 0 .. len
        BY <2>3
      <3>2. QED
        BY <2>3, <3>1, BoxesAt DEF MeantHistory
    <2>4. QED
      BY <2>2, <2>3
  <1>3. Rec(f)
    <2>1. f = [i \in 0 .. len |-> f[i]]
      OBVIOUS
    <2> HIDE DEF f
    <2>2. QED
      BY <1>2, <2>1
  <1>4. Rec(meaning)
    <2> HIDE DEF Rec
    <2>1. QED
      BY <1>3
  <1> HIDE DEF meaning
  <1>5. meaning[0] = NoProperties
    BY <1>4
  <1>6. \A i \in 1 .. len : meaning[i] = Meant(meaning[i - 1], deck[i], BoxAt(i), Regions)
    BY <1>4
  <1> DEFINE T == {i \in Nat : i <= len => meaning[i] = m[i]}
  <1>7. 0 \in T
    BY <1>5 DEF MeantHistory
  <1>8. ASSUME NEW i \in Nat, i \in T
        PROVE  i + 1 \in T
    <2>1. SUFFICES ASSUME i + 1 <= len
                   PROVE  meaning[i + 1] = m[i + 1]
      OBVIOUS
    <2>2. i + 1 \in 1 .. len /\ (i + 1) - 1 = i /\ meaning[i] = m[i]
      BY <1>8, <2>1
    <2>3. meaning[i + 1] = Meant(meaning[i], deck[i + 1], BoxAt(i + 1), Regions)
      BY <1>6, <2>2
    <2>4. m[i + 1] = Meant(m[i], deck[i + 1], BoxIn(deck, i + 1), Regions)
      BY <2>2 DEF MeantHistory
    <2>5. QED
      BY <2>2, <2>3, <2>4, BoxesAt
  <1>9. Nat \subseteq T
    <2> HIDE DEF T
    <2>1. QED
      BY <1>7, <1>8, NatSet
  <1>10. QED
    BY <1>1, <1>9

(* Once the scans are complete the properties are what the deck means if   *)
(* it is read once, with the regions it ends with for the lookups          *)
(* (EclipseState.cpp:601-604, 640-673): no item has acted twice, none has  *)
(* been left out or overtaken.                                             *)
THEOREM TwoScansAreOne == Spec => []AsIfInOneScan
  <1>1. GridInv /\ OneScanInv /\ [Next]_vars => OneScanInv'
    <2> SUFFICES ASSUME GridInv, OneScanInv, [Next]_vars, phase' \in {"scanning", "complete"}
                 PROVE  IF scan' = "Int" THEN InFirstScan' ELSE InSecondScan'
      BY DEF OneScanInv
    <2>1. CASE UNCHANGED vars
      BY <2>1 DEF vars, OneScanInv, InFirstScan, InSecondScan, Regions
    <2>2. CASE Next
      <3>1. phase = "scanning"
        BY <2>2 DEF Next
      <3>2. CASE FirstScan
        <4>1. scan = "Int" /\ InFirstScan /\ \E item : Handle(item)
          BY <3>1, <3>2 DEF FirstScan, OneScanInv
        <4>2. scan' = scan /\ phase' = "scanning"
          BY <3>1, <4>1, HandlerOutcome
        <4>3. QED
          BY <3>1, <3>2, <4>1, <4>2, FirstScanMeans
      <3>3. CASE SecondScan
        <4>1. scan = "Double" /\ InSecondScan /\ \E item : Handle(item)
          BY <3>1, <3>3 DEF SecondScan, OneScanInv
        <4>2. phase' = "scanning"
          BY <3>1, <4>1, HandlerOutcome
        <4>3. QED
          BY <3>1, <3>3, <4>1, <4>2, SecondScanMeans
      <3>4. CASE EndOfDeck
        <4>1. CASE scan = "Int"
          BY <3>1, <3>4, <4>1, SecondScanBegins DEF OneScanInv
        <4>2. CASE scan # "Int"
          <5>1. /\ scan' = scan /\ next' = next /\ deck' = deck /\ properties' = properties
                /\ InSecondScan
            BY <3>1, <3>4, <4>2 DEF EndOfDeck, OneScanInv
          <5>2. QED
            BY <4>2, <5>1 DEF InSecondScan, Regions
        <4>3. QED
          BY <4>1, <4>2
      <3>5. QED
        BY <2>2, <3>2, <3>3, <3>4 DEF Next
    <2>3. QED
      BY <2>1, <2>2
  <1>2. ASSUME GridInv, OneScanInv
        PROVE  AsIfInOneScan
    <2> SUFFICES ASSUME phase = "complete"
                 PROVE  properties = MeaningOfDeck
      BY DEF AsIfInOneScan
    <2>1. scan = "Double" /\ next - 1 = Len(deck) /\ Len(deck) \in Nat
      BY <1>2 DEF GridInv
    <2>2. InSecondScan
      BY <1>2, <2>1 DEF OneScanInv
    <2>3. PICK g, m :
            /\ MeantHistory(m, deck, Len(deck), Regions)
            /\ \A i \in 0 .. Len(deck) :
                 Part(m[i], IntKeyword) = g[i] /\ Part(m[i], Keyword) = m[i]
            /\ Part(properties, IntKeyword) = g[Len(deck)]
            /\ Part(properties, DoubleKeyword) = Part(m[Len(deck)], DoubleKeyword)
            /\ Part(properties, Keyword) = properties
      BY <2>1, <2>2 DEF InSecondScan
    <2>4. properties = m[Len(deck)]
      BY <2>1, <2>3, EqualParts
    <2>5. QED
      BY <2>1, <2>3, <2>4, MeaningIs
  <1>3. QED
    BY <1>1, <1>2, OneScanInit, GridInvariant, PTL DEF Spec
-----------------------------------------------------------------------------
(* Multiplication keeps the order.                                         *)
LEMMA MulMono ==
  ASSUME NEW a \in Nat, NEW b \in Nat, NEW n \in Nat, a <= b
  PROVE  a * n \in Nat /\ b * n \in Nat /\ a * n <= b * n
  <1>1. PICK k \in Nat : b = a + k
    <2>1. b - a \in Nat /\ b = a + (b - a)
      OBVIOUS
    <2>2. QED
      BY <2>1
  <1>2. a * n \in Nat /\ k * n \in Nat
    OBVIOUS
  <1>3. b * n = a * n + k * n
    BY <1>1
  <1>4. QED
    BY <1>2, <1>3

(* A number is its quotient times the divisor and its rest.                *)
LEMMA DivideBack ==
  ASSUME NEW a \in Nat, NEW n \in Nat \ {0}
  PROVE  a \div n \in Nat /\ a % n \in 0 .. n - 1 /\ a = (a \div n) * n + (a % n)
  OBVIOUS

(* Quotient and rest are the only such numbers.                            *)
LEMMA Divide ==
  ASSUME NEW q \in Nat, NEW n \in Nat \ {0}, NEW r \in 0 .. n - 1
  PROVE  q * n + r \in Nat /\ (q * n + r) \div n = q /\ (q * n + r) % n = r
  <1> DEFINE a == q * n + r
             p == a \div n
             s == a % n
  <1>1. a \in Nat /\ q * n \in Nat
    OBVIOUS
  <1>2. p \in Nat /\ s \in 0 .. n - 1 /\ a = p * n + s
    BY <1>1, DivideBack
  <1>3. p * n \in Nat /\ p * n + s = q * n + r
    BY <1>2
  <1> HIDE DEF p, s, a
  <1>4. ~ (p < q)
    <2>1. SUFFICES ASSUME p < q PROVE FALSE
      OBVIOUS
    <2>2. (p + 1) * n <= q * n
      BY <1>2, <2>1, MulMono
    <2>3. (p + 1) * n = p * n + n
      BY <1>2
    <2>4. QED
      BY <1>1, <1>2, <1>3, <2>2, <2>3
  <1>5. ~ (q < p)
    <2>1. SUFFICES ASSUME q < p PROVE FALSE
      OBVIOUS
    <2>2. (q + 1) * n <= p * n
      BY <1>2, <2>1, MulMono
    <2>3. (q + 1) * n = q * n + n
      OBVIOUS
    <2>4. QED
      BY <1>1, <1>2, <1>3, <2>2, <2>3
  <1>6. p = q
    BY <1>2, <1>4, <1>5
  <1>7. s = r
    BY <1>1, <1>2, <1>3, <1>6
  <1>8. QED
    BY <1>1, <1>6, <1>7 DEF p, s, a

(* The quotient of a number below a product.                               *)
LEMMA QuotientBelow ==
  ASSUME NEW a \in Nat, NEW n \in Nat \ {0}, NEW m \in Nat \ {0}, a < m * n
  PROVE  a \div n \in 0 .. m - 1
  <1> DEFINE q == a \div n
  <1>1. q \in Nat /\ a % n \in Nat /\ a = q * n + (a % n)
    BY DivideBack
  <1> HIDE DEF q
  <1>2. ~ (q >= m)
    <2>1. SUFFICES ASSUME q >= m PROVE FALSE
      OBVIOUS
    <2>2. m * n <= q * n /\ q * n \in Nat /\ m * n \in Nat
      BY <1>1, <2>1, MulMono
    <2>3. QED
      BY <1>1, <2>2
  <1>3. q \in 0 .. m - 1
    BY <1>1, <1>2
  <1>4. QED
    BY <1>3 DEF q

(* Two factors with the largest product are the largest.                   *)
LEMMA FullProduct ==
  ASSUME NEW a \in Nat \ {0}, NEW A \in Nat \ {0}, NEW p \in Nat \ {0}, NEW P \in Nat \ {0},
         a <= A, p <= P, a * p = A * P
  PROVE  a = A /\ p = P
  <1>1. a * p \in Nat /\ A * p \in Nat /\ A * P \in Nat /\ a * P \in Nat
    OBVIOUS
  <1>2. ~ (a < A)
    <2>1. SUFFICES ASSUME a < A PROVE FALSE
      OBVIOUS
    <2>2. (a + 1) * p <= A * p
      BY <2>1, MulMono
    <2>3. (a + 1) * p = a * p + p
      OBVIOUS
    <2>4. p * A <= P * A
      BY MulMono
    <2>5. p * A = A * p /\ P * A = A * P
      OBVIOUS
    <2>6. QED
      BY <1>1, <2>2, <2>3, <2>4, <2>5
  <1>3. ~ (p < P)
    <2>1. SUFFICES ASSUME p < P PROVE FALSE
      OBVIOUS
    <2>2. (p + 1) * a <= P * a
      BY <2>1, MulMono
    <2>3. (p + 1) * a = a * p + a /\ P * a = a * P
      OBVIOUS
    <2>4. a * P <= A * P
      BY MulMono
    <2>5. QED
      BY <1>1, <2>2, <2>3, <2>4
  <1>4. QED
    BY <1>2, <1>3

(* The dimensions of a box in the grid (Box.cpp:58-60).                    *)
LEMMA BoxSizes ==
  ASSUME NEW b \in Box, BoxFits(b)
  PROVE  /\ BoxDim(b)[1] \in 1 .. NX /\ BoxDim(b)[2] \in 1 .. NY /\ BoxDim(b)[3] \in 1 .. NZ
         /\ b.i1 \in 1 .. NX /\ b.j1 \in 1 .. NY /\ b.k1 \in 1 .. NZ
         /\ b.i1 + BoxDim(b)[1] - 1 = b.i2 /\ b.i2 \in 1 .. NX
         /\ b.j1 + BoxDim(b)[2] - 1 = b.j2 /\ b.j2 \in 1 .. NY
         /\ b.k1 + BoxDim(b)[3] - 1 = b.k2 /\ b.k2 \in 1 .. NZ
  <1>1. NX \in Nat \ {0} /\ NY \in Nat \ {0} /\ NZ \in Nat \ {0}
    BY GridAssumption
  <1>2. /\ b.i1 \in Int /\ b.i2 \in Int /\ b.j1 \in Int /\ b.j2 \in Int /\ b.k1 \in Int
        /\ b.k2 \in Int
    BY DEF Box
  <1>3. QED
    BY <1>1, <1>2 DEF BoxFits, BoxDim

(* The coordinates of a cell in the list of a box: IndexList() goes        *)
(* through the box row by row and gives the global index                   *)
(* (Box.cpp:111-130).                                                      *)
LEMMA ListedCellIs ==
  ASSUME NEW b \in Box, BoxFits(b), NEW l \in DOMAIN IndexList(b)
  PROVE  LET di == BoxDim(b)[1]
             dj == BoxDim(b)[2]
             dk == BoxDim(b)[3]
             c == IndexList(b)[l]
         IN /\ (l - 1) % di \in 0 .. di - 1
            /\ ((l - 1) \div di) % dj \in 0 .. dj - 1
            /\ (l - 1) \div (di * dj) \in 0 .. dk - 1
            /\ c % NX = b.i1 - 1 + ((l - 1) % di)
            /\ (c \div NX) % NY = b.j1 - 1 + (((l - 1) \div di) % dj)
            /\ c \div (NX * NY) = b.k1 - 1 + ((l - 1) \div (di * dj))
  <1> DEFINE di == BoxDim(b)[1]
             dj == BoxDim(b)[2]
             dk == BoxDim(b)[3]
             ii == (l - 1) % di
             ij == ((l - 1) \div di) % dj
             ik == (l - 1) \div (di * dj)
             x == b.i1 - 1 + ii
             y == b.j1 - 1 + ij
             z == b.k1 - 1 + ik
  <1>1. NX \in Nat \ {0} /\ NY \in Nat \ {0} /\ NZ \in Nat \ {0}
    BY GridAssumption
  <1>2. /\ di \in 1 .. NX /\ dj \in 1 .. NY /\ dk \in 1 .. NZ
        /\ b.i1 \in 1 .. NX /\ b.j1 \in 1 .. NY /\ b.k1 \in 1 .. NZ
        /\ b.i1 + di - 1 = b.i2 /\ b.i2 \in 1 .. NX
        /\ b.j1 + dj - 1 = b.j2 /\ b.j2 \in 1 .. NY
        /\ b.k1 + dk - 1 = b.k2 /\ b.k2 \in 1 .. NZ
    BY BoxSizes
  <1>3. l \in 1 .. BoxSize(b) /\ IndexList(b)[l] = x + y * NX + z * NX * NY
        /\ BoxSize(b) = di * dj * dk
    BY DEF IndexList, BoxSize
  <1> HIDE DEF di, dj, dk
  <1>4. /\ di \in Nat \ {0} /\ dj \in Nat \ {0} /\ dk \in Nat \ {0} /\ di * dj \in Nat \ {0}
        /\ dk * (di * dj) = di * dj * dk
    <2>1. di \in Nat \ {0} /\ dj \in Nat \ {0} /\ dk \in Nat \ {0}
      BY <1>1, <1>2
    <2>2. 1 * dj <= di * dj /\ di * dj \in Nat
      BY <2>1, MulMono
    <2>3. QED
      BY <2>1, <2>2
  <1>5. l - 1 \in Nat /\ l - 1 < dk * (di * dj)
    <2>1. di * dj * dk \in Nat
      BY <1>4
    <2>2. QED
      BY <1>3, <1>4, <2>1
  <1>6. ii \in 0 .. di - 1 /\ (l - 1) \div di \in Nat
    BY <1>4, <1>5, DivideBack
  <1>7. ij \in 0 .. dj - 1
    BY <1>4, <1>6, DivideBack
  <1>8. ik \in 0 .. dk - 1
    BY <1>4, <1>5, QuotientBelow
  <1> HIDE DEF ii, ij, ik
  <1>9. x \in b.i1 - 1 .. b.i2 - 1 /\ x \in 0 .. NX - 1
    BY <1>1, <1>2, <1>6
  <1>10. y \in b.j1 - 1 .. b.j2 - 1 /\ y \in 0 .. NY - 1
    BY <1>1, <1>2, <1>7
  <1>11. z \in b.k1 - 1 .. b.k2 - 1 /\ z \in Nat
    BY <1>1, <1>2, <1>8
  <1> DEFINE c == x + y * NX + z * NX * NY
             w == z * NY + y
  <1>12. IndexList(b)[l] = c
    BY <1>3
  <1> HIDE DEF x, y, z
  <1>13. w \in Nat /\ w \div NY = z /\ w % NY = y
    BY <1>1, <1>10, <1>11, Divide
  <1>14. c = w * NX + x
    <2>1. y \in Nat /\ x \in Nat
      BY <1>1, <1>9, <1>10
    <2>2. QED
      BY <1>1, <1>11, <2>1
  <1>15. c \div NX = w /\ c % NX = x
    <2> HIDE DEF w, c
    <2> QED
      BY <1>1, <1>9, <1>13, <1>14, Divide
  <1> DEFINE v == y * NX + x
  <1>16. v \in Nat /\ v < NX * NY
    <2>1. x \in Nat /\ y \in Nat /\ x <= NX - 1 /\ y + 1 <= NY
      BY <1>1, <1>9, <1>10
    <2>2. (y + 1) * NX <= NY * NX /\ NY * NX = NX * NY
      BY <1>1, <2>1, MulMono
    <2>3. (y + 1) * NX = y * NX + NX /\ y * NX \in Nat /\ NX * NY \in Nat
      BY <1>1, <2>1
    <2>4. QED
      BY <1>1, <2>1, <2>2, <2>3
  <1>17. c = z * (NX * NY) + v
    <2>1. y \in Nat /\ x \in Nat
      BY <1>1, <1>9, <1>10
    <2>2. QED
      BY <1>1, <1>11, <2>1
  <1>18. c \div (NX * NY) = z
    <2>1. NX * NY \in Nat \ {0} /\ v \in 0 .. NX * NY - 1
      BY <1>1, <1>16
    <2> HIDE DEF v, c
    <2>2. QED
      BY <1>11, <1>17, <2>1, Divide
  <1> HIDE DEF c, w, v
  <1>19. QED
    BY <1>6, <1>7, <1>8, <1>12, <1>13, <1>15, <1>18 DEF x, y, z, ii, ij, ik, di, dj, dk

(* The list has only cells of the box.                                     *)
LEMMA ListedCellIsInBox ==
  ASSUME NEW b \in Box, BoxFits(b), NEW l \in DOMAIN IndexList(b)
  PROVE  InBox(IndexList(b)[l], b)
  <1> DEFINE di == BoxDim(b)[1]
             dj == BoxDim(b)[2]
             dk == BoxDim(b)[3]
             c == IndexList(b)[l]
             ii == (l - 1) % di
             ij == ((l - 1) \div di) % dj
             ik == (l - 1) \div (di * dj)
  <1>1. /\ ii \in 0 .. di - 1 /\ ij \in 0 .. dj - 1 /\ ik \in 0 .. dk - 1
        /\ c % NX = b.i1 - 1 + ii
        /\ (c \div NX) % NY = b.j1 - 1 + ij
        /\ c \div (NX * NY) = b.k1 - 1 + ik
    BY ListedCellIs
  <1>2. /\ di \in Int /\ dj \in Int /\ dk \in Int
        /\ b.i1 \in Int /\ b.j1 \in Int /\ b.k1 \in Int
        /\ b.i1 + di - 1 = b.i2 /\ b.j1 + dj - 1 = b.j2 /\ b.k1 + dk - 1 = b.k2
    <2>1. NX \in Nat /\ NY \in Nat /\ NZ \in Nat
      BY GridAssumption
    <2>2. QED
      BY <2>1, BoxSizes
  <1> HIDE DEF di, dj, dk, c, ii, ij, ik
  <1>3. /\ b.i1 - 1 + ii \in b.i1 - 1 .. b.i2 - 1
        /\ b.j1 - 1 + ij \in b.j1 - 1 .. b.j2 - 1
        /\ b.k1 - 1 + ik \in b.k1 - 1 .. b.k2 - 1
    BY <1>1, <1>2
  <1>4. InBox(c, b)
    BY <1>1, <1>3 DEF InBox
  <1>5. QED
    BY <1>4 DEF c

(* A number from its digits with two different bases.                      *)
LEMMA DivideTwice ==
  ASSUME NEW a \in Nat, NEW m \in Nat \ {0}, NEW n \in Nat \ {0}
  PROVE  a = (a \div (m * n)) * (m * n) + ((a \div m) % n) * m + (a % m)
  <1> DEFINE p == a \div m
             q == p \div n
             r == p % n
             s == a % m
             v == r * m + s
  <1>1. p \in Nat /\ s \in 0 .. m - 1 /\ a = p * m + s
    BY DivideBack
  <1> HIDE DEF p, s
  <1>2. q \in Nat /\ r \in 0 .. n - 1 /\ p = q * n + r
    BY <1>1, DivideBack
  <1> HIDE DEF q, r
  <1>3. m * n \in Nat \ {0}
    <2>1. 1 * n <= m * n /\ m * n \in Nat
      BY MulMono
    <2>2. QED
      BY <2>1
  <1>4. v \in 0 .. m * n - 1
    <2>1. (r + 1) * m <= n * m /\ n * m = m * n
      BY <1>2, MulMono
    <2>2. (r + 1) * m = r * m + m /\ r * m \in Nat
      BY <1>2
    <2>3. QED
      BY <1>1, <1>2, <1>3, <2>1, <2>2
  <1>5. a = q * (m * n) + v
    BY <1>1, <1>2
  <1> HIDE DEF v
  <1>6. a \div (m * n) = q
    BY <1>2, <1>3, <1>4, <1>5, Divide
  <1>7. a = q * (m * n) + r * m + s
    BY <1>1, <1>2, <1>5 DEF v
  <1>8. QED
    BY <1>6, <1>7 DEF r, s, p

(* The list has every cell once: a value loaded from a deck goes to one    *)
(* cell, and no cell gets two.                                             *)
LEMMA ListedOnce ==
  ASSUME NEW b \in Box, BoxFits(b), NEW l \in DOMAIN IndexList(b), NEW n \in DOMAIN IndexList(b),
         IndexList(b)[l] = IndexList(b)[n]
  PROVE  l = n
  <1> DEFINE di == BoxDim(b)[1]
             dj == BoxDim(b)[2]
             ii(e) == (e - 1) % di
             ij(e) == ((e - 1) \div di) % dj
             ik(e) == (e - 1) \div (di * dj)
  <1>1. NX \in Nat \ {0} /\ NY \in Nat \ {0} /\ NZ \in Nat \ {0}
    BY GridAssumption
  <1>2. /\ di \in Nat \ {0} /\ dj \in Nat \ {0} /\ BoxDim(b)[3] \in Nat \ {0}
        /\ b.i1 \in Int /\ b.j1 \in Int /\ b.k1 \in Int
    BY <1>1, BoxSizes
  <1>3. ASSUME NEW e \in DOMAIN IndexList(b)
        PROVE  /\ ii(e) \in Int /\ ij(e) \in Int /\ ik(e) \in Int
               /\ IndexList(b)[e] % NX = b.i1 - 1 + ii(e)
               /\ (IndexList(b)[e] \div NX) % NY = b.j1 - 1 + ij(e)
               /\ IndexList(b)[e] \div (NX * NY) = b.k1 - 1 + ik(e)
    BY <1>2, ListedCellIs
  <1>4. ASSUME NEW e \in DOMAIN IndexList(b)
        PROVE  e \in Int /\ e - 1 = ik(e) * (di * dj) + ij(e) * di + ii(e)
    <2>1. e \in 1 .. BoxSize(b)
      BY DEF IndexList
    <2>2. e - 1 \in Nat /\ e \in Int
      BY <2>1
    <2> DEFINE a == e - 1
    <2>3. a = (a \div (di * dj)) * (di * dj) + ((a \div di) % dj) * di + (a % di)
      <3> HIDE DEF a, di, dj
      <3>1. a \in Nat
        BY <2>2 DEF a
      <3>2. QED
        BY <1>2, <3>1, DivideTwice
    <2>4. QED
      BY <2>2, <2>3
  <1> HIDE DEF di, dj, ii, ij, ik
  <1>5. ii(l) = ii(n) /\ ij(l) = ij(n) /\ ik(l) = ik(n)
    <2>1. /\ b.i1 - 1 + ii(l) = b.i1 - 1 + ii(n)
          /\ b.j1 - 1 + ij(l) = b.j1 - 1 + ij(n)
          /\ b.k1 - 1 + ik(l) = b.k1 - 1 + ik(n)
      BY <1>3
    <2>2. /\ ii(l) \in Int /\ ii(n) \in Int /\ ij(l) \in Int /\ ij(n) \in Int
          /\ ik(l) \in Int /\ ik(n) \in Int
      BY <1>3
    <2>3. QED
      BY <1>2, <2>1, <2>2
  <1>6. l - 1 = n - 1
    BY <1>4, <1>5
  <1>7. QED
    BY <1>4, <1>6

(* A box with as many cells as the grid is the whole of it (Box.cpp:70-73  *)
(* compares the sizes alone).                                              *)
LEMMA FullBoxHasAll ==
  ASSUME NEW b \in Box, BoxFits(b), BoxSize(b) = BoxSize(GlobalBox), NEW c \in Cell
  PROVE  InBox(c, b)
  <1> DEFINE di == BoxDim(b)[1]
             dj == BoxDim(b)[2]
             dk == BoxDim(b)[3]
  <1>1. NX \in Nat \ {0} /\ NY \in Nat \ {0} /\ NZ \in Nat \ {0}
    BY GridAssumption
  <1>2. /\ di \in 1 .. NX /\ dj \in 1 .. NY /\ dk \in 1 .. NZ
        /\ b.i1 \in 1 .. NX /\ b.j1 \in 1 .. NY /\ b.k1 \in 1 .. NZ
        /\ b.i1 + di - 1 = b.i2 /\ b.i2 \in 1 .. NX
        /\ b.j1 + dj - 1 = b.j2 /\ b.j2 \in 1 .. NY
        /\ b.k1 + dk - 1 = b.k2 /\ b.k2 \in 1 .. NZ
    BY BoxSizes
  <1>3. BoxSize(b) = di * dj * dk /\ BoxSize(GlobalBox) = NX * NY * NZ
    BY <1>1 DEF BoxSize, BoxDim, GlobalBox
  <1> HIDE DEF di, dj, dk
  <1>4. /\ di \in Nat \ {0} /\ dj \in Nat \ {0} /\ dk \in Nat \ {0}
        /\ di <= NX /\ dj <= NY /\ dk <= NZ
    BY <1>1, <1>2
  <1>5. /\ di * dj \in Nat \ {0} /\ NX * NY \in Nat \ {0} /\ di * dj <= NX * NY
    <2>1. di * dj <= NX * dj /\ NX * dj \in Nat /\ 1 * dj <= di * dj /\ di * dj \in Nat
      BY <1>1, <1>4, MulMono
    <2>2. dj * NX <= NY * NX /\ NY * NX \in Nat
      BY <1>1, <1>4, MulMono
    <2>3. dj * NX = NX * dj /\ NY * NX = NX * NY
      BY <1>1, <1>4
    <2>4. QED
      BY <1>4, <2>1, <2>2, <2>3
  <1>6. di * dj = NX * NY /\ dk = NZ
    <2>1. (di * dj) * dk = (NX * NY) * NZ
      BY <1>3
    <2>2. QED
      BY <1>1, <1>4, <1>5, <2>1, FullProduct
  <1>7. di = NX /\ dj = NY
    BY <1>1, <1>4, <1>6, FullProduct
  <1>8. b.i1 = 1 /\ b.i2 = NX /\ b.j1 = 1 /\ b.j2 = NY /\ b.k1 = 1 /\ b.k2 = NZ
    BY <1>1, <1>2, <1>6, <1>7
  <1>9. c \in Nat /\ c < NZ * (NX * NY) /\ NZ * (NX * NY) = NX * NY * NZ
    <2>1. NX * NY * NZ \in Nat /\ NZ * (NX * NY) = NX * NY * NZ
      BY <1>1
    <2>2. QED
      BY <2>1 DEF Cell
  <1>10. c % NX \in 0 .. NX - 1 /\ c \div NX \in Nat
    BY <1>1, <1>9, DivideBack
  <1>11. (c \div NX) % NY \in 0 .. NY - 1
    BY <1>1, <1>10, DivideBack
  <1>12. c \div (NX * NY) \in 0 .. NZ - 1
    BY <1>1, <1>5, <1>9, QuotientBelow
  <1>13. QED
    BY <1>8, <1>10, <1>11, <1>12 DEF InBox

(* The meaning of an item in a box of the grid is about the cells of it.   *)
LEMMA MeantInBox ==
  ASSUME NEW props, NEW item, NEW b \in Box, BoxFits(b), NEW regions,
         NEW kw \in DOMAIN props, NEW c \in Cell,
         Meant(props, item, b, regions)[kw][c] # props[kw][c]
  PROVE  InBox(c, b)
  <1> DEFINE old == props[kw]
  <1>1. /\ Acts(props, item) /\ kw = Target(item)
        /\ NewData(props, item, b, regions)[c] # old[c]
    <2>1. CASE ~ Acts(props, item)
      BY <2>1, MeantIs
    <2>2. CASE Acts(props, item)
      <3> DEFINE data == NewData(props, item, b, regions)
      <3>1. Meant(props, item, b, regions) = Written(props, Target(item), data)
        BY <2>2, MeantIs
      <3>2. Written(props, Target(item), data)[kw] = IF kw = Target(item) THEN data ELSE old
        BY DEF Written
      <3> HIDE DEF data
      <3>3. QED
        BY <2>2, <3>1, <3>2 DEF data
    <2>3. QED
      BY <2>1, <2>2
  <1>2. BeforeIt(props, Target(item), regions) = old
    BY <1>1 DEF BeforeIt
  <1>3. c \in Range(IndexList(b)) => InBox(c, b)
    BY ListedCellIsInBox DEF Range
  <1>4. BoxSize(b) = BoxSize(GlobalBox) => InBox(c, b)
    BY FullBoxHasAll
  <1>5. CASE item.kind = "LOAD"
    <2>1. Loaded(old, item.name, item.values, b)[c] # old[c]
      BY <1>1, <1>2, <1>5 DEF NewData
    <2>2. \E l \in DOMAIN IndexList(b) : IndexList(b)[l] = c
      BY <2>1 DEF Loaded
    <2>3. QED
      BY <1>3, <2>2 DEF Range
  <1>6. CASE item.kind = "COPY"
    <2>1. Copied(old, props[item.source], b)[c] # old[c]
      BY <1>1, <1>2, <1>6 DEF NewData
    <2>2. BoxSize(b) = BoxSize(GlobalBox) \/ c \in Range(IndexList(b))
      BY <2>1 DEF Copied, SetInBox
    <2>3. QED
      BY <1>3, <1>4, <2>2
  <1>7. CASE item.kind \in {"EQUALS", "ADD", "MULTIPLY"}
    <2>1. Operated(item.kind, old, item.field, item.value, b)[c] # old[c]
      BY <1>1, <1>2, <1>7 DEF NewData
    <2>2. BoxSize(b) = BoxSize(GlobalBox) \/ c \in Range(IndexList(b))
      BY <2>1 DEF Operated, SetInBox
    <2>3. QED
      BY <1>3, <1>4, <2>2
  <1>8. QED
    BY <1>1, <1>5, <1>6, <1>7 DEF Acts, PropertyKinds, Record

(* The box of the whole grid is in the grid.                               *)
LEMMA GlobalBoxFits == GlobalBox \in Box /\ BoxFits(GlobalBox)
  <1>1. NX \in Nat \ {0} /\ NY \in Nat \ {0} /\ NZ \in Nat \ {0}
    BY GridAssumption
  <1>2. QED
    BY <1>1 DEF GlobalBox, Box, BoxFits

(* No step changes a property that is there outside the box that the deck  *)
(* asks for at its place, whatever boxes came before (Box.cpp:111-130,     *)
(* GridProperty.hpp:144-220).                                              *)
THEOREM OthersKeepTheirValues == Spec => OnlyTheBoxChanges
  <1> DEFINE A == \A i \in 1 .. MaxItems, kw \in DOMAIN properties, c \in Cell :
                    i = next /\ properties'[kw][c] # properties[kw][c] => InBox(c, BoxAt(i)')
  <1>1. ASSUME GridInv, [Next]_vars
        PROVE  [A]_vars
    <2> SUFFICES ASSUME Next, NEW i \in 1 .. MaxItems, NEW kw \in DOMAIN properties,
                        NEW c \in Cell, i = next, properties'[kw][c] # properties[kw][c]
                 PROVE  InBox(c, BoxAt(i)')
      BY <1>1
    <2> DEFINE b == ActiveBox(inputBox', keywordBox')
    <2>1. ~ EndOfDeck /\ phase = "scanning"
      BY DEF Next, EndOfDeck
    <2>2. PICK item \in Item :
            /\ Handle(item) /\ deck'[next] = item /\ next \in Nat \ {0}
            /\ next # 1 /\ deck'[next - 1].kind \in Record
                 => item.kind \in {deck'[next - 1].kind, "/"}
            /\ inputBox = InputBoxIn(deck', next) /\ keywordBox = KeywordBoxIn(deck', next)
            /\ BoxOK(inputBox) /\ BoxOK(keywordBox)
      <3>1. next \in Nat \ {0} /\ BoxOK(inputBox) /\ BoxOK(keywordBox)
        BY <1>1 DEF GridInv
      <3>2. CASE FirstScan
        BY <1>1, <2>1, <3>1, <3>2, FirstScanStep
      <3>3. CASE SecondScan
        <4>1. inputBox = InputBoxIn(deck, next) /\ keywordBox = KeywordBoxIn(deck, next)
          BY <1>1, <2>1 DEF GridInv
        <4>2. QED
          BY <1>1, <2>1, <3>1, <3>3, <4>1, SecondScanStep
      <3>4. QED
        BY <2>1, <3>2, <3>3 DEF Next
    <2>3. properties' # properties
      OBVIOUS
    <2>4. /\ BoxOK(inputBox') /\ BoxOK(keywordBox')
          /\ phase' = "scanning"
          /\ item.kind \in PropertyKinds => BoxIn(deck', next) = b
      BY <2>1, <2>2, <2>3, HandlerKeepsBoxes
    <2>5. OfScan(item, scan) /\ properties' = Meant(properties, item, b, Regions)
      BY <2>2, <2>3, <2>4, HandlerMeans
    <2>6. b \in Box /\ BoxFits(b)
      BY <2>4, GlobalBoxFits DEF BoxOK, ActiveBox
    <2>7. InBox(c, b)
      <3> HIDE DEF b
      <3> QED
        BY <2>5, <2>6, MeantInBox
    <2>8. BoxAt(i)' = b
      <3>1. InputBoxAt(i)' = InputBoxIn(deck', i)
        BY DEF InputBoxAt, LastBefore, InputBoxIn, BoxMarks, Top
      <3>2. KeywordBoxAt(i)' = KeywordBoxIn(deck', i)
        BY DEF KeywordBoxAt, LastBefore, KeywordBoxIn, RecordMarks, Top
      <3>3. BoxAt(i)' = BoxIn(deck', i)
        BY <3>1, <3>2 DEF BoxAt, BoxIn
      <3>4. QED
        BY <2>4, <2>5, <3>3 DEF OfScan
    <2>9. QED
      BY <2>7, <2>8
  <1>2. QED
    BY <1>1, GridInvariant, PTL DEF Spec, OnlyTheBoxChanges
-----------------------------------------------------------------------------
(* The values of a property.                                               *)
Values(kw) == IF kw \in IntKeyword THEN Int ELSE Number

(* Every property is that of a keyword, with a value of its type for every *)
(* cell.                                                                   *)
Typed(props) ==
  DOMAIN props \subseteq Keyword /\ \A kw \in DOMAIN props : props[kw] \in [Cell -> Values(kw)]

(* The cast to int is a whole number.                                      *)
LEMMA TruncatedType ==
  ASSUME NEW x \in Int
  PROVE  Truncated(x) \in Int
  <1>1. Unit \in Nat \ {0}
    BY GridAssumption
  <1>2. CASE x < 0
    <2>1. (-x) \div Unit \in Nat
      BY <1>1, <1>2, DivideBack
    <2>2. QED
      BY <1>2, <2>1 DEF Truncated
  <1>3. CASE x >= 0
    <2>1. x \div Unit \in Nat
      BY <1>1, <1>3, DivideBack
    <2>2. QED
      BY <1>3, <2>1 DEF Truncated
  <1>4. QED
    BY <1>2, <1>3

(* So is what a number of the deck becomes.                                *)
LEMMA StoredType ==
  ASSUME NEW kw \in Keyword, NEW x \in Int
  PROVE  Stored(kw, x) \in Int
  <1>1. CASE kw \in IntKeyword
    BY <1>1, TruncatedType, Kinds DEF Stored
  <1>2. CASE kw \in DoubleKeyword
    <2>1. SIScaling[kw] \in Int /\ Kind(kw) # "Int"
      BY <1>2, GridAssumption, Kinds
    <2>2. QED
      BY <2>1 DEF Stored
  <1>3. QED
    BY <1>1, <1>2 DEF Keyword

(* If the assertions hold and there are enough tables, the lookup of an    *)
(* end point reads no table out of its range: each cell gets a number      *)
(* (GridPropertyInitializers.hpp:89-347).                                  *)
LEMMA EndpointType ==
  ASSUME NEW regions, NEW kw \in EndpointKeyword, AssertionsHold(regions, Cell),
         ~ NotEnoughTables(kw)
  PROVE  EndpointDefault(regions, kw, Cell) \in [Cell -> Number]
  <1> DEFINE family == EndpointRule[kw][1]
  <1>1. /\ family \in Family /\ EndpointRule[kw][2] \in {"drainage", "imbibition"}
        /\ EndpointRule["SWL"][2] = "drainage" /\ EndpointRule["ISWL"][2] = "imbibition"
    BY DEF EndpointKeyword, EndpointRule, Family, DepthColumn
  <1> HIDE DEF family
  <1>2. ASSUME NEW c \in Cell
        PROVE  SaturationRegion(regions, kw, c) \in SaturationTable
    <2>1. \/ SaturationRegion(regions, kw, c) = SaturationRegion(regions, "SWL", c)
          \/ SaturationRegion(regions, kw, c) = SaturationRegion(regions, "ISWL", c)
      BY <1>1 DEF SaturationRegion
    <2>2. QED
      BY <2>1 DEF AssertionsHold
  <1> DEFINE Row == [s : Nat, kr : Nat, kro : Nat]
  <1>3. ASSUME NEW t \in SaturationTable
        PROVE  TableEndpoint(family, t) \in Int
    <2>1. /\ SwofTables \in Seq(Seq(Row) \ {<< >>}) /\ SgofTables \in Seq(Seq(Row) \ {<< >>})
          /\ Len(SgofTables) = Len(SwofTables) /\ One \in Int
      BY EndpointAssumption
    <2>2. t \in DOMAIN SwofTables /\ t \in DOMAIN SgofTables
      BY <2>1 DEF SaturationTable
    <2>3. SwofTables[t] \in Seq(Row) \ {<< >>} /\ SgofTables[t] \in Seq(Row) \ {<< >>}
      BY <2>1, <2>2
    <2>4. ASSUME NEW table \in Seq(Row) \ {<< >>}
          PROVE  /\ Connate(table) \in Int /\ Maximal(table) \in Int
                 /\ Critical(table) \in Int
                 /\ \A other \in Int : CriticalOil(table, other) \in Int
      <3>1. Len(table) \in Nat \ {0} /\ \A n \in 1 .. Len(table) : table[n].s \in Int
        <4>1. table \in Seq(Row) /\ table # << >>
          BY <2>4
        <4>2. \A row \in Row : row.s \in Int
          OBVIOUS
        <4> HIDE DEF Row
        <4>3. \A n \in 1 .. Len(table) : table[n] \in Row
          BY <4>1
        <4>4. Len(table) \in Nat \ {0}
          BY <4>1
        <4>5. QED
          BY <4>2, <4>3, <4>4
      <3>2. 1 \in 1 .. Len(table) /\ Len(table) \in 1 .. Len(table)
        BY <3>1
      <3>3. Critical(table) \in Int
        <4> DEFINE flows(row) == row.kr > 0
                   rows == {r \in 2 .. Len(table) : IsFirst(table, r, flows)}
        <4>1. Critical(table) = IF rows = {} THEN 0 ELSE table[(CHOOSE r \in rows : TRUE) - 1].s
          BY DEF Critical
        <4>2. rows \subseteq 2 .. Len(table)
          OBVIOUS
        <4> HIDE DEF rows
        <4>3. rows # {} => (CHOOSE r \in rows : TRUE) \in 2 .. Len(table)
          BY <4>2
        <4>4. \A r \in 2 .. Len(table) : r - 1 \in 1 .. Len(table)
          <5>1. Len(table) \in Nat
            BY <3>1
          <5> DEFINE n == Len(table)
          <5> HIDE DEF n
          <5>2. n \in Nat => \A r \in 2 .. n : r - 1 \in 1 .. n
            OBVIOUS
          <5>3. QED
            BY <5>1, <5>2 DEF n
        <4> DEFINE r == CHOOSE r \in rows : TRUE
        <4>5. rows # {} => r - 1 \in 1 .. Len(table)
          BY <4>3, <4>4
        <4>6. rows # {} => table[r - 1].s \in Int
          BY <3>1, <4>5
        <4>7. Critical(table) = IF rows = {} THEN 0 ELSE table[r - 1].s
          BY <4>1
        <4> HIDE DEF r
        <4>8. QED
          BY <4>6, <4>7
      <3>4. ASSUME NEW other \in Int
            PROVE  CriticalOil(table, other) \in Int
        <4> DEFINE stands(row) == row.kro = 0
                   rows == {r \in 1 .. Len(table) : IsFirst(table, r, stands)}
        <4>1. CriticalOil(table, other)
                = IF rows = {} THEN 0 ELSE One - table[CHOOSE r \in rows : TRUE].s - other
          BY DEF CriticalOil
        <4>2. rows \subseteq 1 .. Len(table)
          OBVIOUS
        <4> HIDE DEF rows
        <4>3. rows # {} => (CHOOSE r \in rows : TRUE) \in 1 .. Len(table)
          BY <4>2
        <4>4. rows # {} => table[CHOOSE r \in rows : TRUE].s \in Int
          BY <3>1, <4>3
        <4> DEFINE s == table[CHOOSE r \in rows : TRUE].s
        <4>5. rows # {} => s \in Int
          BY <4>4
        <4>6. CriticalOil(table, other) = IF rows = {} THEN 0 ELSE One - s - other
          BY <4>1
        <4> HIDE DEF s
        <4>7. QED
          BY <2>1, <3>4, <4>5, <4>6
      <3>5. QED
        BY <3>1, <3>2, <3>3, <3>4 DEF Connate, Maximal
    <2>5. family \in {"SGL", "SWL", "SGU", "SWU", "SGCR", "SWCR", "SOGCR", "SOWCR"}
      BY <1>1 DEF Family, DepthColumn
    <2>6. /\ Connate(SwofTables[t]) \in Int /\ Connate(SgofTables[t]) \in Int
          /\ Maximal(SwofTables[t]) \in Int /\ Maximal(SgofTables[t]) \in Int
          /\ Critical(SwofTables[t]) \in Int /\ Critical(SgofTables[t]) \in Int
          /\ \A other \in Int : /\ CriticalOil(SwofTables[t], other) \in Int
                                /\ CriticalOil(SgofTables[t], other) \in Int
      BY <2>3, <2>4
    <2>7. QED
      BY <2>5, <2>6 DEF TableEndpoint
  <1>4. ASSUME NEW c \in Cell, NEW fallback \in Int
        PROVE  SelectValue(kw, c, fallback) \in Number
    <2>1. CASE ~ AsksDepthTables(kw)
      BY <2>1 DEF SelectValue, Number
    <2>2. CASE AsksDepthTables(kw)
      <3> DEFINE value == DepthTables(kw)[1][DepthColumn[family]][c]
      <3>1. DepthTables(kw) # << >> /\ DepthTables(kw) \in {EnptvdTables, ImptvdTables}
        BY <2>2 DEF NotEnoughTables, DepthTables
      <3>2. value \in Int \union {NaN}
        BY <1>1, <3>1, DepthAssumption
      <3>3. SelectValue(kw, c, fallback)
              = IF value = NaN THEN fallback ELSE IF family = "SWU" THEN One - value ELSE value
        BY <2>2 DEF SelectValue, family
      <3>4. One \in Int
        BY EndpointAssumption
      <3> HIDE DEF value
      <3>5. QED
        BY <3>2, <3>3, <3>4 DEF Number
    <2>3. QED
      BY <2>1, <2>2
  <1>5. \A c \in Cell : SelectValue(kw, c,
            TableEndpoint(EndpointRule[kw][1], SaturationRegion(regions, kw, c))) \in Number
    BY <1>2, <1>3, <1>4 DEF family
  <1>6. QED
    BY <1>5 DEF EndpointDefault

(* What a property begins with is of its type.                             *)
LEMMA InitialType ==
  ASSUME NEW kw \in Keyword,
         kw \in EndpointKeyword => AssertionsHold(Regions, Cell) /\ ~ NotEnoughTables(kw)
  PROVE  InitialData(kw, Regions) \in [Cell -> Values(kw)]
  <1>1. CASE kw \in IntKeyword
    BY <1>1 DEF InitialData, Values
  <1>2. CASE kw \notin IntKeyword /\ kw \in EndpointKeyword
    BY <1>2, EndpointType DEF InitialData, Values
  <1>3. CASE kw \notin IntKeyword /\ kw \notin EndpointKeyword
    <2>1. Unit \in Int
      BY GridAssumption
    <2>2. ConstantDefault[kw] \in Number
      BY <1>3, <2>1 DEF Keyword, DoubleKeyword, ConstantDefault, Number
    <2>3. QED
      BY <1>3, <2>2 DEF InitialData, Values
  <1>4. QED
    BY <1>1, <1>2, <1>3

(* A handler that returns has begun a property only if its initializer     *)
(* could.                                                                  *)
LEMMA HandlerBegins ==
  ASSUME NEW item, Handle(item), phase = "scanning", phase' = "scanning",
         OfScan(item, scan), Acts(properties, item), Target(item) \notin DOMAIN properties
  PROVE  ~ CannotBegin(Target(item)) /\ ~ Asserts(Target(item))
  <1>1. CASE Load(item)
    BY <1>1 DEF Load, Target
  <1>2. CASE Equals(item)
    BY <1>2 DEF Equals, Target, OfScan, Subject
  <1>3. CASE Copy(item)
    BY <1>3 DEF Copy, Target, OfScan, Subject, Acts
  <1>4. ~ ShiftOrScale(item)
    BY DEF ShiftOrScale, Target, Acts, Subject
  <1>5. ~ PassBy(item)
    BY DEF PassBy, OfScan, Subject
  <1>6. ~ (BoxKeyword(item) \/ EndBoxKeyword(item) \/ EndKeyword(item) \/ NextSection(item))
    BY DEF BoxKeyword, EndBoxKeyword, EndKeyword, NextSection, OfScan, PropertyKinds, Record
  <1>7. ~ (ScanThrows(item) \/ ScanAsserts(item))
    BY DEF ScanThrows, ScanAsserts, Stops
  <1>8. QED
    BY <1>1, <1>2, <1>3, <1>4, <1>5, <1>6, <1>7 DEF Handle

(* EQUALS, ADD and MULTIPLY keep the type.                                 *)
LEMMA OperatedType ==
  ASSUME NEW kw \in Keyword, NEW old \in [Cell -> Values(kw)], NEW x \in Int, NEW b,
         NEW op \in {"EQUALS", "ADD", "MULTIPLY"}
  PROVE  Operated(op, old, kw, x, b) \in [Cell -> Values(kw)]
  <1> DEFINE new(c) == CASE op = "EQUALS" -> Stored(kw, x)
                         [] op = "ADD" -> Plus(old[c], Stored(kw, x))
                         [] op = "MULTIPLY" ->
                              IF Kind(kw) = "Int" THEN old[c] * Truncated(x) ELSE Times(old[c], x)
  <1>1. Stored(kw, x) \in Int /\ Truncated(x) \in Int /\ Unit \in Nat \ {0} /\ NaN \notin Int
    BY StoredType, TruncatedType, GridAssumption, EndpointAssumption
  <1>2. ASSUME NEW c \in Cell
        PROVE  new(c) \in Values(kw)
    <2>1. CASE op = "EQUALS"
      BY <1>1, <2>1 DEF Values, Number
    <2>2. CASE op = "ADD"
      <3>1. CASE old[c] = NaN
        BY <1>1, <2>2, <3>1 DEF Values, Number, Plus
      <3>2. CASE old[c] # NaN
        <4>1. old[c] \in Int
          BY <3>2 DEF Values, Number
        <4>2. new(c) = old[c] + Stored(kw, x)
          BY <2>2, <3>2 DEF Plus
        <4>3. QED
          BY <1>1, <4>1, <4>2 DEF Values, Number
      <3>3. QED
        BY <3>1, <3>2
    <2>3. CASE op = "MULTIPLY" /\ kw \in IntKeyword
      <3>1. old[c] \in Int /\ new(c) = old[c] * Truncated(x)
        BY <2>3, Kinds DEF Values
      <3>2. QED
        BY <1>1, <2>3, <3>1 DEF Values
    <2>4. CASE op = "MULTIPLY" /\ kw \notin IntKeyword
      <3>1. new(c) = Times(old[c], x) /\ Values(kw) = Number
        BY <2>4, Kinds DEF Values
      <3>2. CASE old[c] = NaN
        BY <3>1, <3>2 DEF Times, Number
      <3>3. CASE old[c] # NaN
        <4>1. old[c] \in Int
          BY <3>1, <3>3 DEF Number
        <4>2. old[c] * x \in Int
          BY <4>1
        <4>3. (old[c] * x) \div Unit \in Int
          <5> DEFINE y == old[c] * x
          <5>1. y \in Int
            BY <4>2
          <5> HIDE DEF y
          <5>2. y \div Unit \in Int
            BY <1>1, <5>1
          <5>3. QED
            BY <5>2 DEF y
        <4>4. QED
          BY <3>1, <3>3, <4>3 DEF Times, Number
      <3>4. QED
        BY <3>2, <3>3
    <2>5. QED
      BY <2>1, <2>2, <2>3, <2>4
  <1>3. Operated(op, old, kw, x, b)
          = IF BoxSize(b) = BoxSize(GlobalBox) THEN [c \in Cell |-> new(c)]
            ELSE [c \in Cell |-> IF c \in Range(IndexList(b)) THEN new(c) ELSE old[c]]
    BY DEF Operated, SetInBox
  <1> HIDE DEF new
  <1>4. QED
    BY <1>2, <1>3

(* So do the values of a deck. That the list has every cell once is what   *)
(* makes the value read for a cell one that is there.                      *)
LEMMA LoadedType ==
  ASSUME NEW kw \in Keyword, NEW old \in [Cell -> Values(kw)],
         NEW values \in Seq(Int \union {Defaulted}), NEW b \in Box, BoxFits(b)
  PROVE  Loaded(old, kw, values, b) \in [Cell -> Values(kw)]
  <1>1. ASSUME NEW c \in Cell
        PROVE  Loaded(old, kw, values, b)[c] \in Values(kw)
    <2> DEFINE list == IndexList(b)
               place == CHOOSE l \in DOMAIN list : list[l] = c
    <2>1. CASE \E l \in DOMAIN list \intersect DOMAIN values :
                 list[l] = c /\ values[l] # Defaulted
      <3>1. PICK l \in DOMAIN list \intersect DOMAIN values :
                   list[l] = c /\ values[l] # Defaulted
        BY <2>1
      <3>2. place \in DOMAIN list /\ list[place] = c
        BY <3>1
      <3>3. place = l
        <4> HIDE DEF place
        <4>1. QED
          BY <3>1, <3>2, ListedOnce
      <3>4. values[l] \in Int
        BY <3>1
      <3>5. Loaded(old, kw, values, b)[c] = Stored(kw, values[l])
        BY <2>1, <3>3 DEF Loaded
      <3>6. QED
        BY <3>4, <3>5, StoredType DEF Values, Number
    <2>2. CASE ~ \E l \in DOMAIN list \intersect DOMAIN values :
                   list[l] = c /\ values[l] # Defaulted
      BY <2>2 DEF Loaded
    <2>3. QED
      BY <2>1, <2>2
  <1>2. Loaded(old, kw, values, b) = [c \in Cell |-> Loaded(old, kw, values, b)[c]]
    BY DEF Loaded
  <1>3. QED
    BY <1>1, <1>2

(* Every handler keeps the types.                                          *)
LEMMA TypedStep ==
  ASSUME GridInv, Typed(properties), NEW item \in Item, Handle(item), phase = "scanning",
         BoxOK(inputBox'), BoxOK(keywordBox')
  PROVE  Typed(properties')
  <1> DEFINE b == ActiveBox(inputBox', keywordBox')
             kw == Target(item)
  <1>1. CASE properties' = properties
    BY <1>1
  <1>2. CASE properties' # properties
    <2>1. phase' = "scanning"
      BY <1>2, HandlerOutcome
    <2>2. /\ OfScan(item, scan) /\ properties' = Meant(properties, item, b, Regions)
          /\ Acts(properties, item) => Kind(kw) = scan
      BY <1>2, <2>1, HandlerMeans
    <2>3. Acts(properties, item)
      BY <1>2, <2>2, MeantIs
    <2>4. /\ properties' = Written(properties, kw, NewData(properties, item, b, Regions))
          /\ Kind(kw) = scan /\ scan \in {"Int", "Double"}
      BY <2>2, <2>3, MeantIs DEF GridInv
    <2>5. kw \in Keyword
      BY <2>4, Kinds DEF Keyword
    <2>6. b \in Box /\ BoxFits(b)
      BY GlobalBoxFits DEF BoxOK, ActiveBox
    <2> HIDE DEF b
    <2> DEFINE old == BeforeIt(properties, kw, Regions)
    <2>7. old \in [Cell -> Values(kw)]
      <3>1. CASE kw \in DOMAIN properties
        BY <3>1 DEF BeforeIt, Typed
      <3>2. CASE kw \notin DOMAIN properties
        <4>1. ~ CannotBegin(kw) /\ ~ Asserts(kw)
          BY <2>1, <2>2, <2>3, <3>2, HandlerBegins
        <4>2. kw \in EndpointKeyword => AssertionsHold(Regions, Cell) /\ ~ NotEnoughTables(kw)
          BY <3>2, <4>1 DEF CannotBegin, Asserts, LooksUp
        <4>3. QED
          BY <2>5, <3>2, <4>2, InitialType DEF BeforeIt
      <3>3. QED
        BY <3>1, <3>2
    <2> HIDE DEF old
    <2>8. NewData(properties, item, b, Regions) \in [Cell -> Values(kw)]
      <3>1. CASE item.kind = "LOAD"
        <4>1. kw = item.name /\ item.values \in Seq(Int \union {Defaulted})
          BY <3>1, ItemAssumption DEF Target
        <4>2. NewData(properties, item, b, Regions) = Loaded(old, kw, item.values, b)
          BY <3>1, <4>1 DEF NewData, old
        <4> DEFINE values == item.values
        <4>3. values \in Seq(Int \union {Defaulted})
          BY <4>1
        <4>4. NewData(properties, item, b, Regions) = Loaded(old, kw, values, b)
          BY <4>2
        <4> HIDE DEF kw, values
        <4>5. Loaded(old, kw, values, b) \in [Cell -> Values(kw)]
          BY <2>5, <2>6, <2>7, <4>3, LoadedType
        <4>6. QED
          BY <4>4, <4>5
      <3>2. CASE item.kind = "COPY"
        <4> DEFINE source == properties[item.source]
        <4>1. NewData(properties, item, b, Regions) = Copied(old, source, b)
          BY <3>2 DEF NewData, old
        <4>2. /\ item.source \in DOMAIN properties /\ Kind(item.source) = scan
              /\ item.source \in Keyword
          BY <2>2, <2>3, <3>2 DEF Acts, Subject, OfScan, Typed
        <4>3. Values(item.source) = Values(kw)
          BY <2>4, <4>2, Kinds DEF Values
        <4>4. source \in [Cell -> Values(kw)]
          BY <4>2, <4>3 DEF Typed
        <4> HIDE DEF source, kw
        <4>5. QED
          BY <2>7, <4>1, <4>4 DEF Copied, SetInBox
      <3>3. CASE item.kind \in {"EQUALS", "ADD", "MULTIPLY"}
        <4>1. kw = item.field /\ item.value \in Int
          BY <3>3, ItemAssumption DEF Target
        <4>2. NewData(properties, item, b, Regions) = Operated(item.kind, old, kw, item.value, b)
          BY <3>3, <4>1 DEF NewData, old
        <4> HIDE DEF kw
        <4>3. QED
          BY <2>5, <2>7, <3>3, <4>1, <4>2, OperatedType
      <3>4. QED
        BY <2>3, <3>1, <3>2, <3>3 DEF Acts, PropertyKinds, Record
    <2> DEFINE data == NewData(properties, item, b, Regions)
    <2>9. properties' = Written(properties, kw, data) /\ data \in [Cell -> Values(kw)]
      BY <2>4, <2>8
    <2> HIDE DEF data, kw
    <2>10. QED
      BY <2>5, <2>9 DEF Typed, Written
  <1>3. QED
    BY <1>1, <1>2

(* The type invariant of the grid properties: each has a number of its     *)
(* type in every cell of the grid, whatever was looked up, copied or       *)
(* loaded (GridProperty.hpp:144-220, GridPropertyInitializers.hpp:89-347). *)
THEOREM TypeCorrect == Spec => []TypeOK
  <1>1. Init => Typed(properties) /\ phase \in {"scanning", "complete", "thrown", "asserted"}
    BY DEF Init, Typed
  <1>2. ASSUME GridInv, Typed(properties), [Next]_vars,
               phase \in {"scanning", "complete", "thrown", "asserted"}
        PROVE  Typed(properties)' /\ (phase \in {"scanning", "complete", "thrown", "asserted"})'
    <2>1. CASE UNCHANGED vars
      BY <1>2, <2>1 DEF vars, Typed
    <2>2. CASE Next /\ EndOfDeck
      BY <1>2, <2>2 DEF Next, EndOfDeck, Typed
    <2>3. ASSUME NEW item \in Item, Handle(item), phase = "scanning", BoxOK(inputBox'),
                 BoxOK(keywordBox')
          PROVE  Typed(properties)' /\ (phase \in {"scanning", "complete", "thrown", "asserted"})'
      BY <1>2, <2>3, TypedStep, HandlerOutcome DEF Typed
    <2>4. CASE Next /\ FirstScan
      BY <1>2, <2>3, <2>4, FirstScanStep DEF Next, GridInv
    <2>5. CASE Next /\ SecondScan
      BY <1>2, <2>3, <2>5, SecondScanStep DEF Next, GridInv
    <2>6. QED
      BY <1>2, <2>1, <2>2, <2>4, <2>5 DEF Next
  <1>3. GridInv /\ Typed(properties) /\ phase \in {"scanning", "complete", "thrown", "asserted"}
          => TypeOK
    BY DEF GridInv, BoxOK, Typed, TypeOK, Values
  <1>4. QED
    BY <1>1, <1>2, <1>3, GridInvariant, PTL DEF Spec
=============================================================================
