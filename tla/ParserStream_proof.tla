------------------------ MODULE ParserStream_proof ------------------------
(***************************************************************************)
(* Proofs about ParserStream for every table of keywords, every input of   *)
(* at most MaxLines lines and every depth of included files: the keywords  *)
(* of the deck are whole and keep their lines and their order, aliases     *)
(* stay in their file, END stops every file and, in a file all of whose    *)
(* keywords go into the deck, no known name is lost.                       *)
(* The invariant describes what lies between two calls of                  *)
(* tryParseKeyword(): each file's raw keyword is as far as its lines say   *)
(* (RawOK), each keyword of the deck is complete by the keywords before it *)
(* (KeywordOK), and all files but the innermost wait at their INCLUDE      *)
(* (Waiting). Input and deck only grow, so the facts are stated of an      *)
(* input and a deck (inp, dk) and kept by every extension of the two (the  *)
(* ...Stays lemmas); what is left for each action is the one file it       *)
(* changes (TopChanges, IncludeInv, ReturnInv). The last section adds      *)
(* where every known name of the input is (NamesInv).                      *)
(***************************************************************************)
EXTENDS ParserStream, FiniteSetTheorems, WellFoundedInduction, TLAPS

(* The values of input, and what growing leaves alone in an input and in a *)
(* deck.                                                                   *)
Inputs == Seq([line : Line, file : Nat])

Extends(s, t) ==
  /\ Len(s) <= Len(t)
  /\ \A n \in 1 .. Len(s) : t[n] = s[n]

(* The lines of one file among the first n.                                *)
Count(inp, file, n) == Cardinality({p \in 1 .. n : inp[p].file = file})

(* The lines of a keyword: all from one file, its name first, then its     *)
(* records, none of them empty, in the order they were read; and its line  *)
(* number counts the lines of that file.                                   *)
Placed(inp, k, file) ==
  /\ k.at \in 1 .. Len(inp)
  /\ inp[k.at].file = file
  /\ k.lineNR = Count(inp, file, k.at)
  /\ InOrder(k)
  /\ \A r \in DOMAIN k.records :
       /\ k.records[r] # <<>>
       /\ \A x \in DOMAIN k.records[r] :
            /\ k.at < k.records[r][x] /\ k.records[r][x] <= Len(inp)
            /\ inp[k.records[r][x]].file = file

(* The record that was begun follows the whole ones                        *)
(* (RawKeyword::m_partialRecordString).                                    *)
PartialPlaced(inp, raw, file) ==
  /\ \A x \in DOMAIN raw.partial :
       /\ raw.at < raw.partial[x] /\ raw.partial[x] <= Len(inp)
       /\ inp[raw.partial[x]].file = file
  /\ \A x, y \in DOMAIN raw.partial : x < y => raw.partial[x] < raw.partial[y]
  /\ \A r \in DOMAIN raw.records : \A x \in DOMAIN raw.records[r], y \in DOMAIN raw.partial :
       raw.records[r][x] < raw.partial[y]

(* A keyword has its lines before line n; so have all the keywords of a    *)
(* deck.                                                                   *)
Below(k, n) ==
  /\ k.at < n
  /\ \A r \in DOMAIN k.records : \A x \in DOMAIN k.records[r] : k.records[r][x] < n

AllBelow(dk, n) == \A i \in DOMAIN dk : Below(dk[i], n)

(* The size a keyword k has behind the first n keywords of the deck: a     *)
(* number of its own or the first item of the last keyword that holds it   *)
(* (Parser.cpp:329-343).                                                   *)
SizeAsked(inp, dk, n, k) ==
  LET found == {i \in 1 .. n : dk[i].name = k}
      last  == CHOOSE i \in found : \A j \in found : j <= i
  IN  IntegerOf(inp[dk[last].records[1][1]].line.value)

TargetAt(inp, dk, n, k) ==
  IF k \notin Known THEN 0
  ELSE IF Shape[k].size = "OTHER" THEN SizeAsked(inp, dk, n, Shape[k].from)
  ELSE Shape[k].count

(* The keyword that holds the size is in the deck; otherwise               *)
(* createRawKeyword() throws.                                              *)
SizeThere(dk, n, k) ==
  k \in Known /\ Shape[k].size = "OTHER" => \E i \in 1 .. n : dk[i].name = Shape[k].from

(* The records that are a slash and nothing else: each ends a table.       *)
SlashIn(inp, record) == Len(record) = 1 /\ inp[record[1]].line.kind = "slash"

Slashes(inp, rs) == {r \in DOMAIN rs : SlashIn(inp, rs[r])}

(* A line that is the name of a known keyword ends one of unknown size.    *)
KnownName(inp, p) ==
  inp[p].line.kind = "name" /\ inp[p].line.exact /\ inp[p].line.name \in Known

NoNames(inp, record) == \A x \in DOMAIN record : ~ KnownName(inp, record[x])

NoNamesIn(inp, rs) == \A r \in DOMAIN rs : NoNames(inp, rs[r])

(* A keyword in the deck is whole, for the size it had when its name was   *)
(* read.                                                                   *)
Whole(inp, k, target) ==
  /\ RawType(k.name) = "FIXED" => Len(k.records) = target
  /\ RawType(k.name) = "TABLES" => Cardinality(Slashes(inp, k.records)) = target - 1
  /\ RawType(k.name) \in {"SLASH", "UNKNOWN"} => Slashes(inp, k.records) = {}
  /\ RawType(k.name) = "UNKNOWN" => NoNamesIn(inp, k.records)

(* A raw keyword is on the way to that, and finished exactly when it is    *)
(* there (RawKeyword.cpp:78-104). A slash on its own goes into no keyword  *)
(* whose end it is.                                                        *)
WholeSoFar(inp, raw) ==
  /\ raw.type = "FIXED" =>
       Len(raw.records) <= raw.target /\ (raw.finished <=> Len(raw.records) = raw.target)
  /\ raw.type = "TABLES" =>
       /\ raw.tables = Cardinality(Slashes(inp, raw.records)) + (IF raw.finished THEN 1 ELSE 0)
       /\ raw.finished => raw.tables = raw.target
  /\ raw.type \in {"SLASH", "UNKNOWN"} => Slashes(inp, raw.records) = {}
  /\ raw.type = "UNKNOWN" => NoNamesIn(inp, raw.records) /\ NoNames(inp, raw.partial)

(* The raw keyword of a file. No keyword gets into the deck while it is    *)
(* read, but for an INCLUDE, below which whole files are read.             *)
RawOK(inp, dk, raw, file) ==
  /\ Placed(inp, raw, file)
  /\ PartialPlaced(inp, raw, file)
  /\ raw.type = RawType(raw.name)
  /\ raw.target = TargetAt(inp, dk, Len(dk), raw.name)
  /\ SizeThere(dk, Len(dk), raw.name)
  /\ WholeSoFar(inp, raw)
  /\ raw.name # "INCLUDE" => AllBelow(dk, raw.at)

(* The name that ended a keyword of unknown size is the line read last,    *)
(* and it waits there until that keyword is handled (Parser.cpp:379-384).  *)
NextOK(inp, dk, f) ==
  f.nextKeyword # None =>
    /\ f.nextKeyword \in Known
    /\ f.rawKeyword # None =>
         /\ f.rawKeyword.type = "UNKNOWN" /\ f.rawKeyword.finished
         /\ Below(f.rawKeyword, Len(inp))
    /\ inp # <<>> /\ inp[Len(inp)].file = f.file
    /\ AllBelow(dk, Len(inp))

(* An alias that is in use was on a line of the same file                  *)
(* (Parser.cpp:252-259).                                                   *)
PathOK(inp, f) ==
  f.path # None =>
    \E p \in 1 .. Len(inp) :
      /\ inp[p].file = f.file
      /\ inp[p].line.kind \in {"text", "end"}
      /\ inp[p].line.value \in {f.path, Alias}

(* One file of the stack. While it reads on, a finished keyword can only   *)
(* be one that has no records at all.                                      *)
FileOK(inp, dk, f) ==
  /\ f.file <= Len(inp)
  /\ f.rawKeyword # None => RawOK(inp, dk, f.rawKeyword, f.file)
  /\ f.pc \in {"finished", "ended"} => f.rawKeyword # None
  /\ f.pc = "reading" /\ f.rawKeyword # None /\ f.rawKeyword.finished =>
       f.rawKeyword.type = "FIXED"
  /\ NextOK(inp, dk, f)
  /\ PathOK(inp, f)

(* All files but the innermost are in the middle of an INCLUDE.            *)
Waiting(f) ==
  f.pc \in {"finished", "ended"} /\ f.rawKeyword # None /\ f.rawKeyword.name = "INCLUDE"

StackOK ==
  /\ \A n \in DOMAIN files : FileOK(input, deck, files[n])
  /\ \A m, n \in DOMAIN files : m < n => files[m].file < files[n].file /\ Waiting(files[m])

(* ParserState::lineNR is the number of lines read of the file, as long as *)
(* nothing throws.                                                         *)
LinesCounted ==
  outcome # "thrown" =>
    \A n \in DOMAIN files : files[n].lineNR = Count(input, files[n].file, Len(input))

(* The lines, and the files they are of: file number p is opened when at   *)
(* least p lines have been read.                                           *)
InputOK ==
  /\ Len(input) <= MaxLines
  /\ \A p \in DOMAIN input : input[p].file < p

(* A keyword of the deck: where its lines are, that it is whole by what    *)
(* was in the deck before it, and that it follows all of that.             *)
KeywordOK(inp, dk, i) ==
  /\ Placed(inp, dk[i], inp[dk[i].at].file)
  /\ dk[i].known <=> (dk[i].name \in Known)
  /\ dk[i].known =>
       /\ SizeThere(dk, i - 1, dk[i].name)
       /\ Whole(inp, dk[i], TargetAt(inp, dk, i - 1, dk[i].name))
       /\ Shape[dk[i].name].integer =>
            \A r \in DOMAIN dk[i].records :
              inp[dk[i].records[r][1]].line.value \in Nat \cup {Default}
  /\ \A j \in 1 .. i - 1 : Below(dk[j], dk[i].at)

DeckOK == \A i \in DOMAIN deck : KeywordOK(input, deck, i)

(* Once END was obeyed no file goes on.                                    *)
StopOK == stop => files = <<>> \/ Top.pc = "returning"

(* The inductive invariant.                                                *)
ParserInv == TypeOK /\ InputOK /\ StackOK /\ LinesCounted /\ DeckOK /\ StopOK

(* What the assumptions say of the table of keywords.                      *)
LEMMA ConstantFacts ==
  /\ Known \subseteq Name /\ None \notin Name /\ None \notin RawKeyword /\ MaxLines \in Nat
  /\ \A k \in Known :
       /\ Shape[k] \in ShapeType
       /\ Shape[k].size \in {"FIXED", "OTHER", "SLASH", "UNKNOWN"}
       /\ Shape[k].count \in Nat /\ Shape[k].tables \in BOOLEAN
       /\ Shape[k].tables => Shape[k].size = "OTHER"
       /\ Shape[k].size = "OTHER" =>
            /\ Shape[k].from \in Known
            /\ Shape[Shape[k].from].size = "FIXED"
            /\ Shape[Shape[k].from].count = 1
            /\ Shape[Shape[k].from].integer
       /\ k \in {"INCLUDE", "TITLE"} => Shape[k].size = "FIXED"
  <1>1. \A k \in Known : Shape[k] \in ShapeType
    BY ParserStreamAssumption
  <1>2. \A s \in ShapeType : /\ s.size \in {"FIXED", "OTHER", "SLASH", "UNKNOWN"}
                             /\ s.count \in Nat /\ s.tables \in BOOLEAN
    BY DEF ShapeType
  <1>3. QED
    BY <1>1, <1>2, ParserStreamAssumption, NoneIsNoKeyword

(* What the fields of a line can be, by its kind. *)
LEMMA LineFacts ==
  ASSUME NEW l \in Line
  PROVE  /\ l.kind \in {"name", "text", "end", "quote", "slash", "nothing", "comment"}
         /\ l.kind = "name" => l.name \in Name /\ l.value = Word
         /\ l.kind \in {"text", "end"} => l.value \in Value
         /\ l.kind = "quote" => l.value = Word
         /\ l.kind \in {"slash", "nothing", "comment"} => l.value = Default
  <1>1. l \in LineType
    BY ParserStreamAssumption
  <1>2. CASE l \in [kind : {"name"}, name : Name, exact : BOOLEAN, value : {Word}]
    BY <1>2
  <1>3. CASE l \in [kind : {"text", "end"}, value : Value]
    BY <1>3
  <1>4. CASE l \in [kind : {"quote"}, value : {Word}]
    BY <1>4
  <1>5. CASE l \in [kind : {"slash"}, value : {Default}]
    BY <1>5
  <1>6. CASE l \in [kind : {"nothing", "comment"}, value : {Default}]
    BY <1>6
  <1>7. QED
    BY <1>1, <1>2, <1>3, <1>4, <1>5, <1>6 DEF LineType

(* A set of positions that is not empty has a last one. *)
LEMMA LastExists ==
  ASSUME NEW n \in Nat, NEW S \in SUBSET (1 .. n), S # {}
  PROVE  \E x \in S : \A y \in S : y <= x
  <1> DEFINE R == {p \in Nat \X Nat : p[1] < p[2]}
             T == {n - x : x \in S}
  <1>1. IsWellFoundedOn(R, Nat)
    BY NatLessThanWellFounded DEF OpToRel
  <1>2. \A a, b \in Nat : a < b => <<a, b>> \in R
    OBVIOUS
  <1>3. T \subseteq Nat /\ T # {}
    <2>1. \A x \in S : n - x \in Nat
      OBVIOUS
    <2>2. PICK x \in S : TRUE
      OBVIOUS
    <2>3. n - x \in T
      BY <2>2
    <2>4. QED
      BY <2>1, <2>3
  <1> HIDE DEF R, T
  <1>4. PICK t \in T : \A u \in T : ~ (<<u, t>> \in R)
    BY <1>1, <1>3, WFMin
  <1>5. PICK x \in S : t = n - x
    BY <1>4 DEF T
  <1>6. ASSUME NEW y \in S
        PROVE  y <= x
    <2>1. n - y \in T /\ n - y \in Nat /\ n - x \in Nat
      BY <1>3, <1>4, <1>5 DEF T
    <2>2. ~ (n - y < n - x)
      BY <1>2, <1>4, <1>5, <2>1
    <2>3. QED
      BY <2>2
  <1>7. QED
    BY <1>6

(* The lines a file has among the first n. *)
LEMMA CountFacts ==
  ASSUME NEW inp, NEW file, NEW n \in Nat
  PROVE  /\ IsFiniteSet({p \in 1 .. n : inp[p].file = file})
         /\ Count(inp, file, n) \in Nat
  <1>1. IsFiniteSet(1 .. n)
    BY FS_Interval
  <1>2. IsFiniteSet({p \in 1 .. n : inp[p].file = file})
    BY <1>1, FS_Subset
  <1>3. QED
    BY <1>2, FS_CardinalityType DEF Count

(* The lines there are stay, so their number does;                         *)
LEMMA CountStays ==
  ASSUME NEW inp, NEW new, Extends(inp, new), NEW n \in Nat, n <= Len(inp), NEW file
  PROVE  Count(new, file, n) = Count(inp, file, n)
  <1>1. {p \in 1 .. n : new[p].file = file} = {p \in 1 .. n : inp[p].file = file}
    BY DEF Extends
  <1>2. QED
    BY <1>1 DEF Count

(* and one more line counts for its own file.                              *)
LEMMA CountGrows ==
  ASSUME NEW inp, NEW n \in Nat, NEW file
  PROVE  Count(inp, file, n + 1)
           = IF inp[n + 1].file = file THEN Count(inp, file, n) + 1 ELSE Count(inp, file, n)
  <1> DEFINE S == {p \in 1 .. n : inp[p].file = file}
  <1>1. IsFiniteSet(S) /\ n + 1 \notin S
    <2>1. n + 1 \notin 1 .. n
      OBVIOUS
    <2>2. QED
      BY <2>1, CountFacts
  <1>2. CASE inp[n + 1].file = file
    <2>1. {p \in 1 .. n + 1 : inp[p].file = file} = S \cup {n + 1}
      BY <1>2
    <2> HIDE DEF S
    <2>2. Cardinality(S \cup {n + 1}) = Cardinality(S) + 1
      BY <1>1, FS_AddElement
    <2>3. QED
      BY <1>2, <2>1, <2>2 DEF Count, S
  <1>3. CASE inp[n + 1].file # file
    <2>1. {p \in 1 .. n + 1 : inp[p].file = file} = S
      BY <1>3
    <2>2. QED
      BY <1>3, <2>1 DEF Count
  <1>4. QED
    BY <1>2, <1>3

(* A file without lines so far. *)
LEMMA CountNothing ==
  ASSUME NEW inp, NEW file, NEW n \in Nat, \A p \in 1 .. n : inp[p].file # file
  PROVE  Count(inp, file, n) = 0
  <1>1. {p \in 1 .. n : inp[p].file = file} = {}
    OBVIOUS
  <1>2. QED
    BY <1>1, FS_EmptySet DEF Count

(* What is said of the place of a keyword is said of its fields. *)
LEMMA PlacedAlike ==
  ASSUME NEW inp, NEW k, NEW m, NEW file,
         m.at = k.at, m.lineNR = k.lineNR, m.records = k.records, Placed(inp, k, file)
  PROVE  Placed(inp, m, file)
  <1>1. InOrder(k)
    BY DEF Placed
  <1>2. InOrder(m)
    BY <1>1 DEF InOrder
  <1>3. QED
    BY <1>2 DEF Placed

(* One more element at the end of a sequence. *)
LEMMA OneMore ==
  ASSUME NEW S, NEW s \in Seq(S), NEW e \in S, NEW t, t = Append(s, e)
  PROVE  /\ t \in Seq(S) /\ Len(s) \in Nat /\ Len(t) = Len(s) + 1
         /\ DOMAIN s = 1 .. Len(s) /\ DOMAIN t = 1 .. Len(s) + 1
         /\ t[Len(s) + 1] = e /\ \A i \in 1 .. Len(s) : t[i] = s[i]
  OBVIOUS
-----------------------------------------------------------------------------
(* What has been read stays where it is when more is read, and what is in  *)
(* the deck when more is added to it.                                      *)
LEMMA PlacedStays ==
  ASSUME NEW inp \in Inputs, NEW new \in Inputs, Extends(inp, new),
         NEW k, k.at \in Nat, k.records \in Seq(Seq(Position)), NEW file, Placed(inp, k, file)
  PROVE  Placed(new, k, file)
  <1>1. Len(inp) \in Nat /\ Len(new) \in Nat /\ Len(inp) <= Len(new)
    BY DEF Inputs, Extends
  <1>2. \A p \in 1 .. Len(inp) : new[p] = inp[p]
    BY DEF Extends
  <1>3. k.at \in 1 .. Len(new) /\ new[k.at].file = file /\ k.lineNR = Count(new, file, k.at)
    <2>1. k.at <= Len(inp) /\ k.at \in 1 .. Len(inp) /\ k.lineNR = Count(inp, file, k.at)
          /\ inp[k.at].file = file
      BY <1>1 DEF Placed
    <2>2. Count(new, file, k.at) = Count(inp, file, k.at)
      BY <2>1, CountStays
    <2>3. QED
      BY <1>1, <1>2, <2>1, <2>2
  <1>4. ASSUME NEW r \in DOMAIN k.records
        PROVE  /\ k.records[r] # <<>>
               /\ \A x \in DOMAIN k.records[r] :
                    /\ k.at < k.records[r][x] /\ k.records[r][x] <= Len(new)
                    /\ new[k.records[r][x]].file = file
    <2>1. SUFFICES ASSUME NEW x \in DOMAIN k.records[r]
                   PROVE  /\ k.at < k.records[r][x] /\ k.records[r][x] <= Len(new)
                          /\ new[k.records[r][x]].file = file
      BY DEF Placed
    <2>2. k.records[r] \in Seq(Position)
      OBVIOUS
    <2>3. k.records[r][x] \in Nat /\ k.records[r][x] >= 1
      BY <2>2, ConstantFacts DEF Position
    <2>4. k.at < k.records[r][x] /\ k.records[r][x] <= Len(inp)
          /\ inp[k.records[r][x]].file = file
      BY DEF Placed
    <2>5. k.records[r][x] \in 1 .. Len(inp)
      BY <1>1, <2>3, <2>4
    <2>6. QED
      BY <1>1, <1>2, <2>3, <2>4, <2>5
  <1>5. InOrder(k)
    BY DEF Placed
  <1>6. QED
    BY <1>3, <1>4, <1>5 DEF Placed

(* A record that was begun stays where it is.                              *)
LEMMA PartialStays ==
  ASSUME NEW inp \in Inputs, NEW new \in Inputs, Extends(inp, new),
         NEW raw \in RawKeyword, NEW file, PartialPlaced(inp, raw, file)
  PROVE  PartialPlaced(new, raw, file)
  <1>1. Len(inp) \in Nat /\ Len(new) \in Nat /\ Len(inp) <= Len(new)
    BY DEF Inputs, Extends
  <1>2. \A p \in 1 .. Len(inp) : new[p] = inp[p]
    BY DEF Extends
  <1>3. ASSUME NEW x \in DOMAIN raw.partial
        PROVE  /\ raw.at < raw.partial[x] /\ raw.partial[x] <= Len(new)
               /\ new[raw.partial[x]].file = file
    <2>1. raw.partial \in Seq(Position)
      BY DEF RawKeyword
    <2>2. raw.partial[x] \in Nat /\ raw.partial[x] >= 1
      BY <2>1, ConstantFacts DEF Position
    <2>3. raw.at < raw.partial[x] /\ raw.partial[x] <= Len(inp)
          /\ inp[raw.partial[x]].file = file
      BY DEF PartialPlaced
    <2>4. raw.partial[x] \in 1 .. Len(inp)
      BY <1>1, <2>2, <2>3
    <2>5. QED
      BY <1>1, <1>2, <2>2, <2>3, <2>4
  <1>4. QED
    BY <1>3 DEF PartialPlaced

(* What a record is does not depend on the lines behind it.                *)
LEMMA SlashesStay ==
  ASSUME NEW inp \in Inputs, NEW new \in Inputs, Extends(inp, new),
         NEW rs \in Seq(Seq(Position)),
         \A r \in DOMAIN rs : \A x \in DOMAIN rs[r] : rs[r][x] <= Len(inp)
  PROVE  /\ Slashes(new, rs) = Slashes(inp, rs)
         /\ NoNamesIn(inp, rs) => NoNamesIn(new, rs)
  <1>1. \A p \in 1 .. Len(inp) : new[p] = inp[p]
    BY DEF Extends
  <1>2. ASSUME NEW r \in DOMAIN rs, NEW x \in DOMAIN rs[r]
        PROVE  new[rs[r][x]] = inp[rs[r][x]]
    <2>1. rs[r] \in Seq(Position)
      OBVIOUS
    <2>2. rs[r][x] \in Nat /\ rs[r][x] >= 1
      BY <2>1, ConstantFacts DEF Position
    <2>3. rs[r][x] \in 1 .. Len(inp)
      BY <2>2 DEF Inputs
    <2>4. QED
      BY <1>1, <2>3
  <1>3. ASSUME NEW r \in DOMAIN rs
        PROVE  SlashIn(new, rs[r]) <=> SlashIn(inp, rs[r])
    <2>1. rs[r] \in Seq(Position)
      OBVIOUS
    <2>2. Len(rs[r]) = 1 => 1 \in DOMAIN rs[r]
      BY <2>1
    <2>3. QED
      BY <1>2, <2>2 DEF SlashIn
  <1>4. Slashes(new, rs) = Slashes(inp, rs)
    BY <1>3 DEF Slashes
  <1>5. NoNamesIn(inp, rs) => NoNamesIn(new, rs)
    BY <1>2 DEF NoNamesIn, NoNames, KnownName
  <1>6. QED
    BY <1>4, <1>5

(* The keyword that holds a size has one record with a number in it. *)
LEMMA SizeFound ==
  ASSUME NEW inp \in Inputs, NEW dk \in Seq(DeckKeyword),
         \A i \in DOMAIN dk : KeywordOK(inp, dk, i),
         NEW n \in Nat, n <= Len(dk), NEW k \in Known, Shape[k].size = "OTHER",
         SizeThere(dk, n, k)
  PROVE  \E last \in 1 .. n :
           /\ last = CHOOSE i \in {m \in 1 .. n : dk[m].name = Shape[k].from} :
                       \A j \in {m \in 1 .. n : dk[m].name = Shape[k].from} : j <= i
           /\ dk[last].records[1][1] \in 1 .. Len(inp)
           /\ inp[dk[last].records[1][1]].line.value \in Nat \cup {Default}
  <1> DEFINE S == {i \in 1 .. n : dk[i].name = Shape[k].from}
  <1>1. S \in SUBSET (1 .. n) /\ S # {}
    BY DEF SizeThere
  <1>2. \E i \in S : \A j \in S : j <= i
    <2> HIDE DEF S
    <2> QED
      BY <1>1, LastExists
  <1> DEFINE last == CHOOSE i \in S : \A j \in S : j <= i
  <1>3. last \in S
    <2> HIDE DEF S
    <2> QED
      BY <1>2
  <1> HIDE DEF last
  <1>4. /\ last \in DOMAIN dk /\ last \in 1 .. n /\ dk[last].name = Shape[k].from
        /\ dk[last] \in DeckKeyword
    BY <1>3
  <1>5. /\ KeywordOK(inp, dk, last) /\ dk[last].name \in Known /\ dk[last].known
        /\ Shape[dk[last].name].size = "FIXED" /\ Shape[dk[last].name].count = 1
        /\ Shape[dk[last].name].integer /\ ~ Shape[dk[last].name].tables
    <2>1. /\ Shape[k].from \in Known
          /\ Shape[Shape[k].from].size = "FIXED"
          /\ Shape[Shape[k].from].count = 1
          /\ Shape[Shape[k].from].integer
          /\ ~ Shape[Shape[k].from].tables
      BY ConstantFacts
    <2>2. KeywordOK(inp, dk, last)
      BY <1>4
    <2>3. dk[last].known <=> (dk[last].name \in Known)
      BY <2>2 DEF KeywordOK
    <2>4. QED
      BY <1>4, <2>1, <2>2, <2>3
  <1>6. RawType(dk[last].name) = "FIXED" /\ TargetAt(inp, dk, last - 1, dk[last].name) = 1
    BY <1>5 DEF RawType, TargetAt
  <1>7. Len(dk[last].records) = 1
    BY <1>5, <1>6 DEF KeywordOK, Whole
  <1>8. dk[last].records \in Seq(Seq(Position))
    BY <1>4 DEF DeckKeyword
  <1>9. 1 \in DOMAIN dk[last].records /\ dk[last].records[1] \in Seq(Position)
    BY <1>7, <1>8
  <1>10. dk[last].records[1] # <<>>
    BY <1>5, <1>9 DEF KeywordOK, Placed
  <1>11. 1 \in DOMAIN dk[last].records[1] /\ dk[last].records[1][1] \in Position
    BY <1>9, <1>10
  <1>12. dk[last].records[1][1] <= Len(inp)
    BY <1>5, <1>9, <1>11 DEF KeywordOK, Placed
  <1>13. dk[last].records[1][1] \in 1 .. Len(inp)
    BY <1>11, <1>12, ConstantFacts DEF Position, Inputs
  <1>14. inp[dk[last].records[1][1]].line.value \in Nat \cup {Default}
    BY <1>5, <1>9 DEF KeywordOK
  <1>15. QED
    BY <1>4, <1>13, <1>14 DEF last

(* A size is a number.                                                     *)
LEMMA TargetType ==
  ASSUME NEW inp \in Inputs, NEW dk \in Seq(DeckKeyword),
         \A i \in DOMAIN dk : KeywordOK(inp, dk, i),
         NEW n \in Nat, n <= Len(dk), NEW k, SizeThere(dk, n, k)
  PROVE  TargetAt(inp, dk, n, k) \in Nat
  <1>1. CASE k \in Known /\ Shape[k].size = "OTHER"
    <2> DEFINE S == {i \in 1 .. n : dk[i].name = Shape[k].from}
               size(i) == IntegerOf(inp[dk[i].records[1][1]].line.value)
    <2>1. SizeAsked(inp, dk, n, Shape[k].from) \in Nat
      <3>1. PICK last \in 1 .. n :
               /\ last = CHOOSE i \in S : \A j \in S : j <= i
               /\ inp[dk[last].records[1][1]].line.value \in Nat \cup {Default}
        BY <1>1, SizeFound
      <3>2. last = CHOOSE i \in S : \A j \in S : j <= i
        BY <3>1
      <3>3. SizeAsked(inp, dk, n, Shape[k].from) = size(CHOOSE i \in S : \A j \in S : j <= i)
        BY DEF SizeAsked
      <3>4. size(last) \in Nat
        BY <3>1 DEF IntegerOf
      <3>5. QED
        BY <3>2, <3>3, <3>4
    <2>2. QED
      BY <1>1, <2>1 DEF TargetAt
  <1>2. CASE ~ (k \in Known /\ Shape[k].size = "OTHER")
    BY <1>2, ConstantFacts DEF TargetAt
  <1>3. QED
    BY <1>1, <1>2

(* The size that was asked for once stays, since the deck before it does.  *)
LEMMA TargetStays ==
  ASSUME NEW inp \in Inputs, NEW new \in Inputs, Extends(inp, new),
         NEW dk \in Seq(DeckKeyword), NEW more \in Seq(DeckKeyword), Extends(dk, more),
         \A i \in DOMAIN dk : KeywordOK(inp, dk, i),
         NEW n \in Nat, n <= Len(dk), NEW k, SizeThere(dk, n, k)
  PROVE  TargetAt(new, more, n, k) = TargetAt(inp, dk, n, k) /\ SizeThere(more, n, k)
  <1>1. \A i \in 1 .. n : more[i] = dk[i]
    BY DEF Extends
  <1>2. CASE k \in Known /\ Shape[k].size = "OTHER"
    <2> DEFINE S == {i \in 1 .. n : dk[i].name = Shape[k].from}
    <2>1. PICK last \in 1 .. n :
             /\ last = CHOOSE i \in S : \A j \in S : j <= i
             /\ dk[last].records[1][1] \in 1 .. Len(inp)
      BY <1>2, SizeFound
    <2>2. {i \in 1 .. n : more[i].name = Shape[k].from} = S
      BY <1>1
    <2>3. more[last] = dk[last] /\ new[dk[last].records[1][1]] = inp[dk[last].records[1][1]]
      BY <1>1, <2>1 DEF Extends
    <2>4. SizeAsked(inp, dk, n, Shape[k].from)
            = IntegerOf(inp[dk[last].records[1][1]].line.value)
      BY <2>1 DEF SizeAsked
    <2>5. SizeAsked(new, more, n, Shape[k].from)
            = IntegerOf(new[more[last].records[1][1]].line.value)
      BY <2>1, <2>2 DEF SizeAsked
    <2>6. QED
      BY <1>1, <1>2, <2>3, <2>4, <2>5 DEF TargetAt, SizeThere
  <1>3. CASE ~ (k \in Known /\ Shape[k].size = "OTHER")
    BY <1>3 DEF TargetAt, SizeThere
  <1>4. QED
    BY <1>2, <1>3

(* A raw keyword stays as it is when other files read on below it.         *)
LEMMA RawStays ==
  ASSUME NEW inp \in Inputs, NEW new \in Inputs, Extends(inp, new),
         NEW dk \in Seq(DeckKeyword), NEW more \in Seq(DeckKeyword), Extends(dk, more),
         \A i \in DOMAIN dk : KeywordOK(inp, dk, i),
         NEW raw \in RawKeyword, raw.name = "INCLUDE" \/ more = dk,
         NEW file, RawOK(inp, dk, raw, file)
  PROVE  RawOK(new, more, raw, file)
  <1>1. /\ raw.at \in Nat /\ raw.records \in Seq(Seq(Position)) /\ raw.partial \in Seq(Position)
        /\ Len(dk) \in Nat /\ Len(more) \in Nat /\ Len(dk) <= Len(more)
    BY ConstantFacts DEF RawKeyword, Position, Extends
  <1>2. Placed(new, raw, file) /\ PartialPlaced(new, raw, file)
    BY <1>1, PlacedStays, PartialStays DEF RawOK
  <1>3. /\ TargetAt(new, more, Len(dk), raw.name) = TargetAt(inp, dk, Len(dk), raw.name)
        /\ SizeThere(more, Len(dk), raw.name)
    <2>1. SizeThere(dk, Len(dk), raw.name)
      BY DEF RawOK
    <2>2. Len(dk) <= Len(dk)
      BY <1>1
    <2>3. QED
      BY ONLY <1>1, <2>1, <2>2, TargetStays, inp \in Inputs, new \in Inputs, Extends(inp, new),
              dk \in Seq(DeckKeyword), more \in Seq(DeckKeyword), Extends(dk, more),
              \A i \in DOMAIN dk : KeywordOK(inp, dk, i)
  <1>4. /\ TargetAt(new, more, Len(more), raw.name) = TargetAt(inp, dk, Len(dk), raw.name)
        /\ SizeThere(more, Len(more), raw.name)
    <2>1. CASE more = dk
      BY <1>3, <2>1
    <2>2. CASE raw.name = "INCLUDE"
      <3>1. ~ (raw.name \in Known /\ Shape[raw.name].size = "OTHER")
        BY <2>2, ConstantFacts
      <3>2. QED
        BY <3>1 DEF TargetAt, SizeThere
    <2>3. QED
      BY <2>1, <2>2
  <1>5. WholeSoFar(new, raw)
    <2>1. \A r \in DOMAIN raw.records : \A x \in DOMAIN raw.records[r] :
            raw.records[r][x] <= Len(inp)
      BY DEF RawOK, Placed
    <2>2. /\ Slashes(new, raw.records) = Slashes(inp, raw.records)
          /\ NoNamesIn(inp, raw.records) => NoNamesIn(new, raw.records)
      BY <1>1, <2>1, SlashesStay
    <2>3. NoNames(inp, raw.partial) => NoNames(new, raw.partial)
      <3>1. ASSUME NEW x \in DOMAIN raw.partial
            PROVE  new[raw.partial[x]] = inp[raw.partial[x]]
        <4>1. raw.partial[x] \in Nat /\ raw.partial[x] >= 1 /\ raw.partial[x] <= Len(inp)
          BY <1>1, ConstantFacts DEF Position, RawOK, PartialPlaced
        <4>2. raw.partial[x] \in 1 .. Len(inp)
          BY <4>1 DEF Inputs
        <4>3. QED
          BY <4>2 DEF Extends
      <3>2. QED
        BY <3>1 DEF NoNames, KnownName
    <2>4. WholeSoFar(inp, raw)
      BY DEF RawOK
    <2>5. QED
      BY <2>2, <2>3, <2>4 DEF WholeSoFar
  <1>6. raw.name # "INCLUDE" => AllBelow(more, raw.at)
    BY DEF RawOK
  <1>7. QED
    BY <1>2, <1>4, <1>5, <1>6 DEF RawOK

(* A whole keyword stays whole.                                            *)
LEMMA WholeStays ==
  ASSUME NEW inp \in Inputs, NEW new \in Inputs, Extends(inp, new),
         NEW k, k.records \in Seq(Seq(Position)), NEW target,
         \A r \in DOMAIN k.records : \A x \in DOMAIN k.records[r] : k.records[r][x] <= Len(inp),
         Whole(inp, k, target)
  PROVE  Whole(new, k, target)
  <1>1. /\ Slashes(new, k.records) = Slashes(inp, k.records)
        /\ NoNamesIn(inp, k.records) => NoNamesIn(new, k.records)
    BY SlashesStay
  <1>2. QED
    BY <1>1 DEF Whole

(* The keywords of the deck stay as they are when more is read and         *)
(* handled.                                                                *)
LEMMA KeywordStays ==
  ASSUME NEW inp \in Inputs, NEW new \in Inputs, Extends(inp, new),
         NEW dk \in Seq(DeckKeyword), NEW more \in Seq(DeckKeyword), Extends(dk, more),
         \A n \in DOMAIN dk : KeywordOK(inp, dk, n), NEW i \in DOMAIN dk
  PROVE  KeywordOK(new, more, i)
  <1>1. /\ i \in 1 .. Len(dk) /\ more[i] = dk[i] /\ \A j \in 1 .. i - 1 : more[j] = dk[j]
        /\ i - 1 \in Nat /\ i - 1 <= Len(dk) /\ KeywordOK(inp, dk, i)
    BY DEF Extends
  <1>2. dk[i] \in DeckKeyword /\ dk[i].at \in Nat /\ dk[i].records \in Seq(Seq(Position))
    <2>1. dk[i] \in DeckKeyword
      OBVIOUS
    <2>2. dk[i].at \in Position /\ dk[i].records \in Seq(Seq(Position))
      BY <2>1 DEF DeckKeyword
    <2>3. QED
      BY <2>1, <2>2, ConstantFacts DEF Position
  <1>3. /\ new[dk[i].at] = inp[dk[i].at]
        /\ Placed(new, dk[i], new[dk[i].at].file)
    <2>1. Placed(inp, dk[i], inp[dk[i].at].file) /\ dk[i].at \in 1 .. Len(inp)
      BY <1>1 DEF KeywordOK, Placed
    <2>2. new[dk[i].at] = inp[dk[i].at]
      BY <2>1 DEF Extends
    <2>3. QED
      BY <1>2, <2>1, <2>2, PlacedStays
  <1>4. ASSUME dk[i].known
        PROVE  /\ SizeThere(more, i - 1, dk[i].name)
               /\ Whole(new, dk[i], TargetAt(new, more, i - 1, dk[i].name))
               /\ Shape[dk[i].name].integer =>
                    \A r \in DOMAIN dk[i].records :
                      new[dk[i].records[r][1]].line.value \in Nat \cup {Default}
    <2>1. /\ SizeThere(dk, i - 1, dk[i].name)
          /\ Whole(inp, dk[i], TargetAt(inp, dk, i - 1, dk[i].name))
          /\ Shape[dk[i].name].integer =>
               \A r \in DOMAIN dk[i].records :
                 inp[dk[i].records[r][1]].line.value \in Nat \cup {Default}
      BY <1>1, <1>4 DEF KeywordOK
    <2>2. /\ SizeThere(more, i - 1, dk[i].name)
          /\ TargetAt(new, more, i - 1, dk[i].name) = TargetAt(inp, dk, i - 1, dk[i].name)
      BY <1>1, <2>1, TargetStays
    <2>3. \A r \in DOMAIN dk[i].records :
            /\ dk[i].records[r] # <<>>
            /\ \A x \in DOMAIN dk[i].records[r] : dk[i].records[r][x] <= Len(inp)
      BY <1>1 DEF KeywordOK, Placed
    <2>4. Whole(new, dk[i], TargetAt(new, more, i - 1, dk[i].name))
      BY <1>2, <2>1, <2>2, <2>3, WholeStays
    <2>5. ASSUME NEW r \in DOMAIN dk[i].records
          PROVE  new[dk[i].records[r][1]] = inp[dk[i].records[r][1]]
      <3>1. dk[i].records[r] \in Seq(Position) /\ dk[i].records[r] # <<>>
        BY <1>2, <2>3
      <3>2. 1 \in DOMAIN dk[i].records[r] /\ dk[i].records[r][1] \in Position
        BY <3>1
      <3>3. dk[i].records[r][1] \in 1 .. Len(inp)
        BY <2>3, <3>2, ConstantFacts DEF Position, Inputs
      <3>4. QED
        BY <3>3 DEF Extends
    <2>6. QED
      BY <2>1, <2>2, <2>4, <2>5
  <1>5. /\ more[i].known <=> (more[i].name \in Known)
        /\ \A j \in 1 .. i - 1 : Below(more[j], more[i].at)
    BY <1>1 DEF KeywordOK
  <1>6. QED
    BY <1>1, <1>3, <1>4, <1>5 DEF KeywordOK

(* A file further out keeps what is true of it. *)
LEMMA FileStays ==
  ASSUME NEW inp \in Inputs, NEW new \in Inputs, Extends(inp, new),
         NEW dk \in Seq(DeckKeyword), NEW more \in Seq(DeckKeyword), Extends(dk, more),
         \A i \in DOMAIN dk : KeywordOK(inp, dk, i),
         NEW f \in ParserState, FileOK(inp, dk, f), Waiting(f)
  PROVE  FileOK(new, more, f)
  <1>1. /\ Len(inp) \in Nat /\ Len(new) \in Nat /\ Len(inp) <= Len(new) /\ f.file \in Nat
        /\ f.rawKeyword \in RawKeyword
    BY DEF Inputs, Extends, ParserState, Waiting
  <1>2. f.rawKeyword.type # "UNKNOWN" /\ f.nextKeyword = None
    <2>1. RawType("INCLUDE") # "UNKNOWN"
      BY ConstantFacts DEF RawType
    <2>2. f.rawKeyword.type = RawType(f.rawKeyword.name)
      BY DEF FileOK, RawOK, Waiting
    <2>3. QED
      BY <2>1, <2>2 DEF Waiting, FileOK, NextOK
  <1>3. RawOK(new, more, f.rawKeyword, f.file)
    BY <1>1, RawStays DEF FileOK, Waiting
  <1>4. PathOK(new, f)
    <2>1. \A p \in 1 .. Len(inp) : p \in 1 .. Len(new) /\ new[p] = inp[p]
      BY <1>1 DEF Extends
    <2>2. QED
      BY <2>1 DEF FileOK, PathOK
  <1>5. QED
    BY <1>1, <1>2, <1>3, <1>4 DEF FileOK, NextOK, Waiting
-----------------------------------------------------------------------------
(* One more record, and whether it is a slash on its own. *)
LEMMA SlashesGrow ==
  ASSUME NEW inp, NEW rs \in Seq(Seq(Position)), NEW record \in Seq(Position)
  PROVE  /\ Cardinality(Slashes(inp, rs)) \in Nat
         /\ Cardinality(Slashes(inp, Append(rs, record)))
              = Cardinality(Slashes(inp, rs)) + (IF SlashIn(inp, record) THEN 1 ELSE 0)
         /\ ~ SlashIn(inp, record) => Slashes(inp, Append(rs, record)) = Slashes(inp, rs)
  <1> DEFINE S == Slashes(inp, rs)
             all == Append(rs, record)
  <1>1. /\ Len(rs) \in Nat /\ DOMAIN rs = 1 .. Len(rs) /\ DOMAIN all = 1 .. Len(rs) + 1
        /\ \A r \in 1 .. Len(rs) : all[r] = rs[r]
        /\ all[Len(rs) + 1] = record
    OBVIOUS
  <1>2. IsFiniteSet(S) /\ Len(rs) + 1 \notin S /\ Cardinality(S) \in Nat
    <2>1. S \subseteq 1 .. Len(rs)
      BY <1>1 DEF Slashes
    <2>2. IsFiniteSet(S)
      <3>1. IsFiniteSet(1 .. Len(rs))
        BY <1>1, FS_Interval
      <3> HIDE DEF S
      <3>2. QED
        BY <2>1, <3>1, FS_Subset
    <2>3. Len(rs) + 1 \notin 1 .. Len(rs)
      BY <1>1
    <2>4. QED
      BY <2>1, <2>2, <2>3, FS_CardinalityType
  <1> HIDE DEF all
  <1>3. CASE SlashIn(inp, record)
    <2>1. Slashes(inp, all) = S \cup {Len(rs) + 1}
      BY <1>1, <1>3 DEF Slashes
    <2> HIDE DEF S
    <2>2. Cardinality(S \cup {Len(rs) + 1}) = Cardinality(S) + 1
      BY <1>2, FS_AddElement
    <2>3. QED
      BY <1>2, <1>3, <2>1, <2>2 DEF S, all
  <1>4. CASE ~ SlashIn(inp, record)
    <2>1. Slashes(inp, all) = S
      BY <1>1, <1>4 DEF Slashes
    <2> HIDE DEF S
    <2>2. QED
      BY <1>2, <1>4, <2>1 DEF S, all
  <1>5. QED
    BY <1>3, <1>4

(* A keyword of which only the name has been read. *)
LEMMA NewRawOK ==
  ASSUME NEW inp \in Inputs, NEW dk \in Seq(DeckKeyword), NEW k \in Name,
         NEW at \in 1 .. Len(inp), at <= MaxLines, NEW file, inp[at].file = file,
         NEW t \in Nat, t = TargetAt(inp, dk, Len(dk), k), SizeThere(dk, Len(dk), k),
         k # "INCLUDE" => AllBelow(dk, at), NEW raw \in RawKeyword,
         raw.name = k, raw.type = RawType(k), raw.target = t, raw.tables = 0,
         raw.records = <<>>, raw.partial = <<>>, raw.at = at,
         raw.finished <=> RawType(k) = "FIXED" /\ t = 0,
         raw.lineNR = Count(inp, file, at)
  PROVE  RawOK(inp, dk, raw, file)
  <1>4. raw.records = <<>> /\ raw.partial = <<>> /\ DOMAIN raw.records = {}
        /\ DOMAIN raw.partial = {}
    OBVIOUS
  <1>5. Placed(inp, raw, file) /\ PartialPlaced(inp, raw, file)
    BY <1>4 DEF Placed, PartialPlaced, InOrder
  <1>6. WholeSoFar(inp, raw)
    <2>1. Slashes(inp, raw.records) = {} /\ NoNamesIn(inp, raw.records)
          /\ NoNames(inp, raw.partial)
      BY <1>4 DEF Slashes, NoNamesIn, NoNames
    <2>2. Cardinality(Slashes(inp, raw.records)) = 0
      BY <2>1, FS_EmptySet
    <2>3. Len(raw.records) = 0
      BY <1>4
    <2>4. raw.type = RawType(k) /\ raw.target = t /\ raw.tables = 0
          /\ (raw.finished <=> RawType(k) = "FIXED" /\ t = 0)
      OBVIOUS
    <2>5. CASE RawType(k) = "FIXED"
      BY <2>3, <2>4, <2>5 DEF WholeSoFar
    <2>6. CASE RawType(k) # "FIXED"
      BY <2>1, <2>2, <2>4, <2>6 DEF WholeSoFar
    <2>7. QED
      BY <2>5, <2>6
  <1>7. QED
    BY <1>5, <1>6 DEF RawOK

(* One more line of a keyword, behind those it has. *)
LEMMA LineJoins ==
  ASSUME NEW inp \in Inputs, NEW new \in Inputs, Extends(inp, new),
         Len(new) = Len(inp) + 1, Len(new) <= MaxLines,
         NEW raw \in RawKeyword, NEW file, new[Len(new)].file = file,
         Placed(inp, raw, file), PartialPlaced(inp, raw, file),
         NEW longer \in RawKeyword,
         longer.at = raw.at, longer.lineNR = raw.lineNR,
         \/ longer.records = raw.records /\ longer.partial = Append(raw.partial, Len(new))
         \/ /\ longer.records = Append(raw.records, Append(raw.partial, Len(new)))
            /\ longer.partial = <<>>
  PROVE  Placed(new, longer, file) /\ PartialPlaced(new, longer, file)
  <1> DEFINE p == Len(new)
             R == raw.records
             Q == Append(raw.partial, p)
  <1>1. /\ R \in Seq(Seq(Position)) /\ raw.partial \in Seq(Position) /\ raw.at \in Nat
        /\ Len(inp) \in Nat /\ p \in Nat /\ p = Len(inp) + 1 /\ p \in Position
    <2>1. Len(inp) \in Nat /\ p \in Nat /\ p = Len(inp) + 1 /\ p <= MaxLines
      BY DEF Inputs
    <2>2. p \in Position
      BY <2>1, ConstantFacts DEF Position
    <2>3. R \in Seq(Seq(Position)) /\ raw.partial \in Seq(Position) /\ raw.at \in Position
      BY DEF RawKeyword
    <2>4. raw.at \in Nat
      BY <2>3, ConstantFacts DEF Position
    <2>5. QED
      BY <2>1, <2>2, <2>3, <2>4
  <1>2. Placed(new, raw, file) /\ PartialPlaced(new, raw, file)
    BY <1>1, PlacedStays, PartialStays
  <1>3. /\ raw.at < p
        /\ \A r \in DOMAIN R : \A x \in DOMAIN R[r] : R[r][x] < p /\ R[r][x] \in Nat
        /\ \A x \in DOMAIN raw.partial : raw.partial[x] < p /\ raw.partial[x] \in Nat
    <2>1. raw.at <= Len(inp)
      BY DEF Placed
    <2>2. ASSUME NEW r \in DOMAIN R, NEW x \in DOMAIN R[r]
          PROVE  R[r][x] < p /\ R[r][x] \in Nat
      <3>1. R[r] \in Seq(Position)
        BY <1>1
      <3>2. R[r][x] \in Nat
        BY <3>1, ConstantFacts DEF Position
      <3>3. R[r][x] <= Len(inp)
        BY DEF Placed
      <3>4. QED
        BY <1>1, <3>2, <3>3
    <2>3. ASSUME NEW x \in DOMAIN raw.partial
          PROVE  raw.partial[x] < p /\ raw.partial[x] \in Nat
      <3>1. raw.partial[x] \in Nat
        BY <1>1, ConstantFacts DEF Position
      <3>2. raw.partial[x] <= Len(inp)
        BY DEF PartialPlaced
      <3>3. QED
        BY <1>1, <3>1, <3>2
    <2>4. QED
      BY <1>1, <2>1, <2>2, <2>3
  <1>4. /\ Q \in Seq(Position) /\ DOMAIN Q = 1 .. Len(raw.partial) + 1 /\ Q # <<>>
        /\ DOMAIN raw.partial = 1 .. Len(raw.partial) /\ Len(raw.partial) \in Nat
        /\ Q[Len(raw.partial) + 1] = p
        /\ \A x \in 1 .. Len(raw.partial) : Q[x] = raw.partial[x]
    BY <1>1
  <1> HIDE DEF p, Q, R
  <1>5. \A x \in DOMAIN Q : raw.at < Q[x] /\ Q[x] <= Len(new) /\ new[Q[x]].file = file
    <2> TAKE x \in DOMAIN Q
    <2>1. CASE x \in 1 .. Len(raw.partial)
      BY <1>2, <1>4, <2>1 DEF PartialPlaced
    <2>2. CASE x = Len(raw.partial) + 1
      BY <1>1, <1>3, <1>4, <2>2 DEF p
    <2>3. QED
      BY <1>4, <2>1, <2>2
  <1>6. \A x, y \in DOMAIN Q : x < y => Q[x] < Q[y]
    <2> SUFFICES ASSUME NEW x \in DOMAIN Q, NEW y \in DOMAIN Q, x < y
                 PROVE  Q[x] < Q[y]
      OBVIOUS
    <2>1. x \in 1 .. Len(raw.partial)
      BY <1>4
    <2>2. CASE y \in 1 .. Len(raw.partial)
      BY <1>2, <1>4, <2>1, <2>2 DEF PartialPlaced
    <2>3. CASE y = Len(raw.partial) + 1
      BY <1>3, <1>4, <2>1, <2>3
    <2>4. QED
      BY <1>4, <2>2, <2>3
  <1>7. \A r \in DOMAIN R : \A x \in DOMAIN R[r], y \in DOMAIN Q : R[r][x] < Q[y]
    <2> TAKE r \in DOMAIN R
    <2> TAKE x \in DOMAIN R[r], y \in DOMAIN Q
    <2>1. CASE y \in 1 .. Len(raw.partial)
      BY <1>2, <1>4, <2>1 DEF PartialPlaced, R
    <2>2. CASE y = Len(raw.partial) + 1
      BY <1>3, <1>4, <2>2
    <2>3. QED
      BY <1>4, <2>1, <2>2
  <1>8. CASE longer.records = R /\ longer.partial = Q
    <2>1. Placed(new, longer, file)
      BY <1>2, <1>8 DEF Placed, InOrder, R
    <2>2. PartialPlaced(new, longer, file)
      BY <1>5, <1>6, <1>7, <1>8 DEF PartialPlaced
    <2>3. QED
      BY <2>1, <2>2
  <1>9. CASE longer.records = Append(R, Q) /\ longer.partial = <<>>
    <2> DEFINE L == Append(R, Q)
    <2>1. /\ DOMAIN L = 1 .. Len(R) + 1 /\ DOMAIN R = 1 .. Len(R) /\ Len(R) \in Nat
          /\ L[Len(R) + 1] = Q /\ \A r \in 1 .. Len(R) : L[r] = R[r]
      BY <1>1, <1>4
    <2> HIDE DEF L
    <2>2. ASSUME NEW r \in DOMAIN L
          PROVE  /\ L[r] # <<>>
                 /\ \A x \in DOMAIN L[r] :
                      raw.at < L[r][x] /\ L[r][x] <= Len(new) /\ new[L[r][x]].file = file
      <3>1. CASE r \in 1 .. Len(R)
        BY <1>2, <2>1, <3>1 DEF Placed, R
      <3>2. CASE r = Len(R) + 1
        BY <1>4, <1>5, <2>1, <3>2
      <3>3. QED
        BY <2>1, <3>1, <3>2
    <2>3. ASSUME NEW r \in DOMAIN L, NEW s \in DOMAIN L, NEW x \in DOMAIN L[r],
                 NEW y \in DOMAIN L[s], r < s \/ (r = s /\ x < y)
          PROVE  L[r][x] < L[s][y]
      <3>1. CASE s \in 1 .. Len(R)
        <4>1. r \in 1 .. Len(R)
          BY <2>1, <2>3, <3>1
        <4>2. QED
          BY <1>2, <2>1, <2>3, <3>1, <4>1 DEF Placed, InOrder, R
      <3>2. CASE s = Len(R) + 1 /\ r \in 1 .. Len(R)
        BY <1>7, <2>1, <3>2
      <3>3. CASE s = Len(R) + 1 /\ r = Len(R) + 1
        <4>1. x < y
          BY <2>1, <2>3, <3>3
        <4>2. QED
          BY <1>6, <2>1, <3>3, <4>1
      <3>4. QED
        BY <2>1, <3>1, <3>2, <3>3
    <2>4. longer.records = L /\ DOMAIN longer.partial = {}
      BY <1>9 DEF L
    <2>5. InOrder(longer)
      BY <2>3, <2>4 DEF InOrder
    <2>6. Placed(new, longer, file)
      BY <1>2, <2>2, <2>4, <2>5 DEF Placed
    <2>7. PartialPlaced(new, longer, file)
      BY <2>4 DEF PartialPlaced
    <2>8. QED
      BY <2>6, <2>7
  <1>10. QED
    BY <1>8, <1>9 DEF p, Q, R

(* addRawRecordString() keeps a keyword in the order of its lines, and the *)
(* count of its records and tables right.                                  *)
LEMMA AddedOK ==
  ASSUME NEW inp \in Inputs, NEW dk \in Seq(DeckKeyword),
         \A i \in DOMAIN dk : KeywordOK(inp, dk, i),
         NEW l \in Line, NEW file \in Nat, Len(inp) < MaxLines,
         NEW new, new = Append(inp, [line |-> l, file |-> file]),
         NEW raw \in RawKeyword, RawOK(inp, dk, raw, file),
         raw.finished => raw.type = "FIXED",
         raw.type = "UNKNOWN" => ~ (l.kind = "name" /\ l.exact /\ l.name \in Known),
         NEW line, line = Handled(l, raw)
  PROVE  /\ Added(raw, line, Len(new)) \in RawKeyword
         /\ RawOK(new, dk, Added(raw, line, Len(new)), file)
         /\ Added(raw, line, Len(new)).name = raw.name
  <1> DEFINE p == Len(new)
             Q == Append(raw.partial, p)
             longer == Added(raw, line, p)
  <1>1. /\ new \in Inputs /\ Len(inp) \in Nat /\ Len(new) = Len(inp) + 1 /\ Extends(inp, new)
        /\ new[p].line = l /\ new[p].file = file /\ p \in Nat /\ p <= MaxLines /\ p \in Position
    <2>1. inp \in Seq([line : Line, file : Nat]) /\ Len(inp) \in Nat
      BY DEF Inputs
    <2>2. [line |-> l, file |-> file] \in [line : Line, file : Nat]
      OBVIOUS
    <2>3. /\ new \in Seq([line : Line, file : Nat]) /\ Len(new) = Len(inp) + 1
          /\ new[Len(inp) + 1] = [line |-> l, file |-> file]
          /\ \A n \in 1 .. Len(inp) : new[n] = inp[n]
      BY <2>1, <2>2
    <2>4. MaxLines \in Nat
      BY ConstantFacts
    <2>5. QED
      BY <2>1, <2>3, <2>4 DEF Inputs, Extends, Position
  <1>2. RawOK(new, dk, raw, file)
    <2>1. Extends(dk, dk)
      BY DEF Extends
    <2>2. QED
      BY <1>1, <2>1, RawStays
  <1>3. /\ raw.records \in Seq(Seq(Position)) /\ raw.partial \in Seq(Position)
        /\ raw.tables \in Nat /\ raw.target \in Nat /\ raw.finished \in BOOLEAN
        /\ raw.type \in {"FIXED", "SLASH", "UNKNOWN", "TABLES"}
        /\ raw.type = RawType(raw.name)
    BY DEF RawKeyword, RawOK
  <1>4. /\ Q \in Seq(Position) /\ Len(Q) = Len(raw.partial) + 1 /\ Len(raw.partial) \in Nat
        /\ Append(raw.records, Q) \in Seq(Seq(Position))
        /\ Len(Append(raw.records, Q)) = Len(raw.records) + 1 /\ Len(raw.records) \in Nat
        /\ raw.partial = <<>> => Len(raw.partial) = 0 /\ Q[1] = p
        /\ raw.partial # <<>> => Len(raw.partial) # 0
    <2> HIDE DEF p
    <2>1. QED
      BY <1>1, <1>3
  <1>5. raw.type # "FIXED" => line = l
    <2>1. RawType("TITLE") = "FIXED"
      BY ConstantFacts DEF RawType
    <2>2. QED
      BY <1>3, <2>1 DEF Handled
  <1>6. Tables(raw, line) \in Nat
    BY <1>3 DEF Tables
  <1>7. /\ SlashIn(new, Q) /\ raw.type # "FIXED" => IsTerminator(raw, line)
        /\ IsTerminator(raw, line) => SlashIn(new, Q)
    <2>1. Len(Q) = 1 <=> raw.partial = <<>>
      BY <1>4
    <2>2. raw.partial = <<>> => new[Q[1]].line = l
      BY <1>1, <1>4
    <2>3. QED
      BY <1>5, <2>1, <2>2 DEF SlashIn, IsTerminator
  <1>8. WholeSoFar(new, raw)
    BY <1>2 DEF RawOK
  <1>9. /\ Cardinality(Slashes(new, raw.records)) \in Nat
        /\ Cardinality(Slashes(new, Append(raw.records, Q)))
             = Cardinality(Slashes(new, raw.records)) + (IF SlashIn(new, Q) THEN 1 ELSE 0)
        /\ ~ SlashIn(new, Q) => Slashes(new, Append(raw.records, Q)) = Slashes(new, raw.records)
    BY <1>3, <1>4, SlashesGrow
  <1>10. raw.type = "UNKNOWN" => NoNames(new, Q) /\ NoNamesIn(new, Append(raw.records, Q))
    <2>1. SUFFICES ASSUME raw.type = "UNKNOWN"
                   PROVE  NoNames(new, Q) /\ NoNamesIn(new, Append(raw.records, Q))
      OBVIOUS
    <2>2. NoNames(new, raw.partial) /\ NoNamesIn(new, raw.records)
      BY <1>8, <2>1 DEF WholeSoFar
    <2>3. ~ KnownName(new, p)
      BY <1>1, <2>1 DEF KnownName
    <2>4. ASSUME NEW x \in DOMAIN Q
          PROVE  ~ KnownName(new, Q[x])
      <3>1. CASE x \in 1 .. Len(raw.partial)
        <4>1. Q[x] = raw.partial[x] /\ x \in DOMAIN raw.partial
          BY <1>3, <3>1
        <4>2. QED
          BY <2>2, <4>1 DEF NoNames
      <3>2. CASE x = Len(raw.partial) + 1
        BY <1>3, <2>3, <3>2
      <3>3. QED
        BY <1>4, <3>1, <3>2
    <2>5. NoNames(new, Q)
      BY <2>4 DEF NoNames
    <2>6. ASSUME NEW r \in DOMAIN Append(raw.records, Q)
          PROVE  NoNames(new, Append(raw.records, Q)[r])
      <3> HIDE DEF Q
      <3>1. CASE r \in 1 .. Len(raw.records)
        <4>1. Append(raw.records, Q)[r] = raw.records[r] /\ r \in DOMAIN raw.records
          BY <1>3, <1>4, <3>1
        <4>2. QED
          BY <2>2, <4>1 DEF NoNamesIn
      <3>2. CASE r = Len(raw.records) + 1
        BY <1>3, <1>4, <2>5, <3>2
      <3>3. QED
        BY <1>3, <1>4, <3>1, <3>2
    <2>7. QED
      BY <2>5, <2>6 DEF NoNamesIn
  <1>11. ASSUME longer \in RawKeyword, longer.name = raw.name, longer.type = raw.type,
                longer.target = raw.target, longer.at = raw.at,
                Placed(new, longer, file), PartialPlaced(new, longer, file),
                WholeSoFar(new, longer)
         PROVE  RawOK(new, dk, longer, file)
    BY <1>2, <1>11 DEF RawOK
  <1> HIDE DEF p, Q
  <1>12. CASE IsLast(raw, line)
    <2>1. longer = [raw EXCEPT !.tables = Tables(raw, line), !.partial = <<>>,
                               !.finished = TRUE]
      BY <1>12 DEF Added
    <2>2. IsTerminator(raw, line) /\ raw.type # "FIXED" /\ raw.partial = <<>>
      BY <1>12 DEF IsLast, IsTerminator
    <2>3. /\ longer \in RawKeyword /\ longer.name = raw.name /\ longer.type = raw.type
          /\ longer.target = raw.target /\ longer.at = raw.at /\ longer.lineNR = raw.lineNR
          /\ longer.records = raw.records /\ longer.partial = raw.partial
          /\ longer.tables = Tables(raw, line) /\ longer.finished = TRUE
      BY <1>3, <1>6, <2>1, <2>2 DEF RawKeyword
    <2> HIDE DEF longer
    <2>4. Placed(new, longer, file) /\ PartialPlaced(new, longer, file)
      <3>1. Placed(new, raw, file) /\ PartialPlaced(new, raw, file)
        BY <1>2 DEF RawOK
      <3>2. Placed(new, longer, file)
        BY <2>3, <3>1, PlacedAlike
      <3>3. PartialPlaced(new, longer, file)
        <4>1. longer.partial = <<>>
          BY <2>2, <2>3
        <4>2. DOMAIN longer.partial = {}
          BY <4>1
        <4>3. QED
          BY <4>2 DEF PartialPlaced
      <3>4. QED
        BY <3>2, <3>3
    <2>5. WholeSoFar(new, longer)
      <3>1. CASE raw.type = "TABLES"
        <4>1. raw.finished = FALSE /\ Tables(raw, line) = raw.tables + 1
          BY <1>3, <2>2, <3>1 DEF Tables
        <4>2. raw.tables = Cardinality(Slashes(new, raw.records))
          BY <1>8, <1>9, <3>1, <4>1 DEF WholeSoFar
        <4>3. Tables(raw, line) = raw.target
          BY <1>12, <3>1 DEF IsLast
        <4>4. QED
          BY <2>3, <3>1, <4>1, <4>2, <4>3 DEF WholeSoFar
      <3>2. CASE raw.type # "TABLES"
        BY <1>8, <2>2, <2>3, <3>2 DEF WholeSoFar
      <3>3. QED
        BY <3>1, <3>2
    <2>6. QED
      BY <1>11, <2>3, <2>4, <2>5 DEF longer, p
  <1>13. CASE ~ IsLast(raw, line) /\ EndsRecord(raw, line)
    <2> DEFINE records == Append(raw.records, Q)
               finished == raw.type = "FIXED" /\ Len(records) = raw.target
               tables == Tables(raw, line)
    <2>1. longer = [raw EXCEPT !.tables = tables, !.records = records,
                               !.partial = <<>>, !.finished = finished]
      BY <1>13 DEF Added, Q
    <2>2. /\ records \in Seq(Seq(Position)) /\ finished \in BOOLEAN /\ <<>> \in Seq(Position)
          /\ tables \in Nat
      BY <1>4, <1>6
    <2> HIDE DEF records, finished, tables, longer
    <2>3. /\ longer \in RawKeyword /\ longer.name = raw.name /\ longer.type = raw.type
          /\ longer.target = raw.target /\ longer.at = raw.at /\ longer.lineNR = raw.lineNR
          /\ longer.records = records /\ longer.partial = <<>>
          /\ longer.tables = tables /\ longer.finished = finished
      BY ONLY raw \in RawKeyword, <2>1, <2>2 DEF RawKeyword
    <2>4. Placed(new, longer, file) /\ PartialPlaced(new, longer, file)
      <3>1. longer.records = Append(raw.records, Append(raw.partial, Len(new)))
        BY <2>3 DEF records, Q, p
      <3>2. Placed(inp, raw, file) /\ PartialPlaced(inp, raw, file)
        BY DEF RawOK
      <3>3. Len(new) <= MaxLines /\ new[Len(new)].file = file
        BY <1>1 DEF p
      <3>4. QED
        BY <1>1, <2>3, <3>1, <3>2, <3>3, LineJoins
    <2>5. ~ raw.finished
      BY <1>13 DEF EndsRecord
    <2>6. WholeSoFar(new, longer)
      <3>1. CASE raw.type = "FIXED"
        <4>1. Len(raw.records) <= raw.target /\ Len(raw.records) # raw.target
          BY <1>8, <2>5, <3>1 DEF WholeSoFar
        <4>2. Len(records) <= raw.target
          BY <1>3, <1>4, <4>1 DEF records
        <4>3. QED
          BY <2>3, <3>1, <4>2 DEF WholeSoFar, finished
      <3>2. CASE raw.type = "TABLES"
        <4>1. raw.tables = Cardinality(Slashes(new, raw.records))
          BY <1>8, <1>9, <2>5, <3>2 DEF WholeSoFar
        <4>2. Tables(raw, line) = Cardinality(Slashes(new, records))
          BY <1>3, <1>7, <1>9, <3>2, <4>1 DEF Tables, records
        <4>3. Cardinality(Slashes(new, records)) \in Nat /\ finished = FALSE
          BY <1>6, <3>2, <4>2 DEF finished
        <4>4. QED
          BY <2>3, <3>2, <4>2, <4>3 DEF WholeSoFar, tables
      <3>3. CASE raw.type \in {"SLASH", "UNKNOWN"}
        <4>1. ~ IsTerminator(raw, line)
          BY <1>13, <3>3 DEF IsLast
        <4>2. Slashes(new, records) = {}
          BY <1>7, <1>8, <1>9, <3>3, <4>1 DEF WholeSoFar, records
        <4>3. NoNames(new, <<>>)
          BY DEF NoNames
        <4>4. QED
          BY <1>10, <2>3, <3>3, <4>2, <4>3 DEF WholeSoFar, records
      <3>4. QED
        BY <1>3, <3>1, <3>2, <3>3
    <2>7. QED
      BY <1>11, <2>3, <2>4, <2>6 DEF longer, p
  <1>14. CASE ~ IsLast(raw, line) /\ ~ EndsRecord(raw, line)
    <2>1. longer = [raw EXCEPT !.partial = Append(@, p)]
      BY <1>14 DEF Added
    <2>2. /\ longer \in RawKeyword /\ longer.name = raw.name /\ longer.type = raw.type
          /\ longer.target = raw.target /\ longer.at = raw.at /\ longer.lineNR = raw.lineNR
          /\ longer.records = raw.records /\ longer.partial = Q
          /\ longer.tables = raw.tables /\ longer.finished = raw.finished
      BY <1>3, <1>4, <2>1 DEF RawKeyword, Q
    <2> HIDE DEF longer
    <2>3. Placed(new, longer, file) /\ PartialPlaced(new, longer, file)
      <3>1. longer.partial = Append(raw.partial, Len(new))
        BY <2>2 DEF Q, p
      <3>2. Placed(inp, raw, file) /\ PartialPlaced(inp, raw, file)
        BY DEF RawOK
      <3>3. Len(new) <= MaxLines /\ new[Len(new)].file = file
        BY <1>1 DEF p
      <3>4. QED
        BY <1>1, <2>2, <3>1, <3>2, <3>3, LineJoins
    <2>4. WholeSoFar(new, longer)
      BY <1>8, <1>10, <2>2 DEF WholeSoFar
    <2>5. QED
      BY <1>11, <2>2, <2>3, <2>4 DEF longer, p
  <1>15. QED
    BY <1>12, <1>13, <1>14
-----------------------------------------------------------------------------
(* The input grows by a line of one file. *)
Grown(inp, new, file) ==
  \/ new = inp
  \/ /\ Len(inp) < MaxLines
     /\ \E l \in Line : new = Append(inp, [line |-> l, file |-> file])

(* One more line, of one file.                                             *)
LEMMA InputGrows ==
  ASSUME NEW inp \in Inputs, NEW file \in Nat, NEW new, Grown(inp, new, file)
  PROVE  /\ new \in Inputs /\ Extends(inp, new) /\ Len(inp) \in Nat /\ Len(new) \in Nat
         /\ \A p \in DOMAIN new : (p \in DOMAIN inp /\ new[p] = inp[p])
                                    \/ (p = Len(inp) + 1 /\ new[p].file = file)
         /\ \A g : g # file => Count(new, g, Len(new)) = Count(inp, g, Len(inp))
         /\ Len(inp) <= MaxLines => Len(new) <= MaxLines
  <1>1. inp \in Seq([line : Line, file : Nat]) /\ Len(inp) \in Nat /\ DOMAIN inp = 1 .. Len(inp)
    BY DEF Inputs
  <1>2. CASE new = inp
    <2>1. Extends(inp, new)
      BY <1>1, <1>2 DEF Extends
    <2>2. QED
      BY <1>1, <1>2, <2>1
  <1>3. CASE new # inp
    <2>1. PICK l \in Line : /\ Len(inp) < MaxLines
                            /\ new = Append(inp, [line |-> l, file |-> file])
      BY <1>3 DEF Grown
    <2>2. [line |-> l, file |-> file] \in [line : Line, file : Nat]
      OBVIOUS
    <2>3. /\ new \in Seq([line : Line, file : Nat]) /\ Len(new) = Len(inp) + 1
          /\ DOMAIN new = 1 .. Len(inp) + 1
          /\ new[Len(inp) + 1] = [line |-> l, file |-> file]
          /\ \A n \in 1 .. Len(inp) : new[n] = inp[n]
      BY <1>1, <2>1, <2>2
    <2>4. new[Len(inp) + 1].file = file
      BY <2>3
    <2>5. Extends(inp, new)
      BY <1>1, <2>3 DEF Extends
    <2>6. ASSUME NEW g, g # file
          PROVE  Count(new, g, Len(new)) = Count(inp, g, Len(inp))
      <3>1. Count(new, g, Len(inp) + 1) = Count(new, g, Len(inp))
        BY <1>1, <2>4, <2>6, CountGrows
      <3>2. Count(new, g, Len(inp)) = Count(inp, g, Len(inp))
        BY <1>1, <2>5, CountStays
      <3>3. QED
        BY <2>3, <3>1, <3>2
    <2>7. Len(new) <= MaxLines
      BY <1>1, <2>1, <2>3, ConstantFacts
    <2>8. QED
      BY <1>1, <2>3, <2>4, <2>5, <2>6, <2>7 DEF Inputs
  <1>4. QED
    BY <1>2, <1>3

(* What the invariant says of the innermost file while the parser runs. *)
LEMMA WhileParsing ==
  ASSUME ParserInv, outcome = "parsing"
  PROVE  /\ files \in Seq(ParserState) /\ Len(files) \in Nat /\ Len(files) >= 1
         /\ DOMAIN files = 1 .. Len(files) /\ Len(files) \in DOMAIN files
         /\ Top \in ParserState /\ Top.file \in Nat /\ FileOK(input, deck, Top)
         /\ Top.lineNR = Count(input, Top.file, Len(input))
         /\ input \in Inputs /\ Len(input) \in Nat /\ DOMAIN input = 1 .. Len(input)
         /\ deck \in Seq(DeckKeyword) /\ Len(deck) \in Nat /\ DOMAIN deck = 1 .. Len(deck)
         /\ \A i \in DOMAIN deck : KeywordOK(input, deck, i)
         /\ stop => Top.pc = "returning"
         /\ Len(input) <= MaxLines
  <1>1. files \in Seq(ParserState) /\ files # <<>>
    BY DEF ParserInv, TypeOK
  <1>2. /\ Len(files) \in Nat /\ Len(files) >= 1 /\ DOMAIN files = 1 .. Len(files)
        /\ Len(files) \in DOMAIN files /\ Top \in ParserState
    BY <1>1 DEF Top
  <1>3. Top.file \in Nat
    BY <1>2 DEF ParserState
  <1>4. FileOK(input, deck, Top) /\ Top.lineNR = Count(input, Top.file, Len(input))
    BY <1>2 DEF ParserInv, StackOK, LinesCounted, Top
  <1>5. /\ input \in Inputs /\ Len(input) \in Nat /\ DOMAIN input = 1 .. Len(input)
        /\ deck \in Seq(DeckKeyword) /\ Len(deck) \in Nat /\ DOMAIN deck = 1 .. Len(deck)
    BY DEF ParserInv, TypeOK, Inputs
  <1>6. (\A i \in DOMAIN deck : KeywordOK(input, deck, i)) /\ (stop => Top.pc = "returning")
    BY <1>1 DEF ParserInv, DeckOK, StopOK
  <1>7. Len(input) <= MaxLines
    BY DEF ParserInv, InputOK
  <1>8. QED
    BY <1>1, <1>2, <1>3, <1>4, <1>5, <1>6, <1>7

(* The sizes the program takes from the deck are those of the invariant. *)
LEMMA SizesAgree ==
  ASSUME deck \in Seq(DeckKeyword), NEW k
  PROVE  /\ Target(k) = TargetAt(input, deck, Len(deck), k)
         /\ CanCreate(k) => SizeThere(deck, Len(deck), k)
  <1>1. DOMAIN deck = 1 .. Len(deck)
    OBVIOUS
  <1>2. \A n : PositionsOf(n) = {i \in 1 .. Len(deck) : deck[i].name = n}
    BY <1>1 DEF PositionsOf
  <1>3. \A n : SizeIn(n) = SizeAsked(input, deck, Len(deck), n)
    BY <1>2 DEF SizeIn, LastOf, FirstItem, SizeAsked
  <1>4. Target(k) = TargetAt(input, deck, Len(deck), k)
    BY <1>3 DEF Target, TargetAt
  <1>5. CanCreate(k) => SizeThere(deck, Len(deck), k)
    BY <1>2 DEF CanCreate, SizeThere
  <1>6. QED
    BY <1>4, <1>5

(* createRawKeyword() *)
LEMMA CreatedOK ==
  ASSUME ParserInv, outcome = "parsing", NEW k \in Name, CanCreate(k),
         NEW new \in Inputs, Extends(input, new), NEW at \in 1 .. Len(new), at <= MaxLines,
         k # "INCLUDE" => AllBelow(deck, at),
         NEW lineNR, lineNR = Count(new, new[at].file, at),
         NEW raw, raw = NewRawKeyword(k, lineNR, at)
  PROVE  /\ raw \in RawKeyword /\ RawOK(new, deck, raw, new[at].file)
         /\ raw.finished => raw.type = "FIXED"
  <1>1. /\ input \in Inputs /\ deck \in Seq(DeckKeyword) /\ Len(deck) \in Nat
        /\ \A i \in DOMAIN deck : KeywordOK(input, deck, i)
    BY WhileParsing
  <1>2. Extends(deck, deck)
    BY <1>1 DEF Extends
  <1>3. Target(k) = TargetAt(input, deck, Len(deck), k) /\ SizeThere(deck, Len(deck), k)
    BY <1>1, SizesAgree
  <1>4. TargetAt(new, deck, Len(deck), k) = TargetAt(input, deck, Len(deck), k)
    BY <1>1, <1>2, <1>3, TargetStays
  <1>5. Target(k) \in Nat /\ Target(k) = TargetAt(new, deck, Len(deck), k)
    BY <1>1, <1>3, <1>4, TargetType
  <1>6. raw = [name |-> k, type |-> RawType(k), target |-> Target(k), tables |-> 0,
               records |-> <<>>, partial |-> <<>>,
               finished |-> RawType(k) = "FIXED" /\ Target(k) = 0,
               lineNR |-> lineNR, at |-> at]
    BY DEF NewRawKeyword
  <1>7. /\ raw \in RawKeyword /\ raw.name = k /\ raw.type = RawType(k)
        /\ raw.target = Target(k) /\ raw.tables = 0 /\ raw.records = <<>>
        /\ raw.partial = <<>> /\ raw.at = at /\ raw.lineNR = lineNR
        /\ (raw.finished <=> RawType(k) = "FIXED" /\ Target(k) = 0)
    <2>1. RawType(k) \in {"FIXED", "SLASH", "UNKNOWN", "TABLES"}
      BY DEF RawType
    <2>2. lineNR \in Nat /\ at \in Position
      <3>1. at \in Nat /\ at >= 1 /\ MaxLines \in Nat
        BY ConstantFacts DEF Inputs
      <3>2. lineNR \in Nat
        BY <3>1, CountFacts
      <3>3. QED
        BY <3>1, <3>2 DEF Position
    <2>3. <<>> \in Seq(Position) /\ <<>> \in Seq(Seq(Position))
      OBVIOUS
    <2> DEFINE done == RawType(k) = "FIXED" /\ Target(k) = 0
    <2>4. done \in BOOLEAN /\ (done <=> RawType(k) = "FIXED" /\ Target(k) = 0)
      OBVIOUS
    <2>5. raw = [name |-> k, type |-> RawType(k), target |-> Target(k), tables |-> 0,
                 records |-> <<>>, partial |-> <<>>, finished |-> done,
                 lineNR |-> lineNR, at |-> at]
      BY <1>6
    <2> HIDE DEF done
    <2>6. QED
      BY <1>5, <2>1, <2>2, <2>3, <2>4, <2>5 DEF RawKeyword
  <1>8. RawOK(new, deck, raw, new[at].file)
    BY <1>1, <1>3, <1>5, <1>7, NewRawOK
  <1>9. QED
    BY <1>7, <1>8

(* The innermost file changes, by the line it reads or by what is done     *)
(* with its keyword; the others wait at their INCLUDE.                     *)
LEMMA TopChanges ==
  ASSUME ParserInv, outcome = "parsing", NEW f \in ParserState, SetTop(f),
         f.file = Top.file, Grown(input, input', Top.file), FileOK(input', deck', f),
         f.lineNR = Count(input', f.file, Len(input')),
         deck' \in Seq(DeckKeyword), Extends(deck, deck'), DeckOK',
         stop' \in BOOLEAN, stop' => f.pc = "returning",
         warnings' \subseteq Position, outcome' = outcome
  PROVE  ParserInv'
  <1> DEFINE n == Len(files)
  <1>1. /\ files \in Seq(ParserState) /\ n \in Nat /\ n >= 1 /\ DOMAIN files = 1 .. n
        /\ n \in DOMAIN files /\ Top.file \in Nat /\ Top.file <= Len(input)
        /\ input \in Inputs /\ deck \in Seq(DeckKeyword)
        /\ \A i \in DOMAIN deck : KeywordOK(input, deck, i)
    BY WhileParsing DEF FileOK
  <1>2. /\ input' \in Inputs /\ Extends(input, input') /\ Len(input) \in Nat
        /\ Len(input') \in Nat
        /\ \A p \in DOMAIN input' : (p \in DOMAIN input /\ input'[p] = input[p])
                                      \/ (p = Len(input) + 1 /\ input'[p].file = Top.file)
        /\ \A g : g # Top.file => Count(input', g, Len(input')) = Count(input, g, Len(input))
        /\ Len(input') <= MaxLines
    BY <1>1, InputGrows, WhileParsing
  <1>3. /\ files' \in Seq(ParserState) /\ Len(files') = n /\ DOMAIN files' = 1 .. n
        /\ files'[n] = f /\ \A m \in 1 .. n : m # n => files'[m] = files[m]
        /\ files' # <<>>
    <2>1. files' = [files EXCEPT ![n] = f]
      BY DEF SetTop
    <2> HIDE DEF n
    <2>2. files' \in Seq(ParserState) /\ Len(files') = n
      BY <1>1, <2>1
    <2>3. QED
      BY <1>1, <2>1, <2>2
  <1> HIDE DEF n
  <1>4. ASSUME NEW m \in 1 .. n, m # n
        PROVE  /\ files[m] \in ParserState /\ FileOK(input, deck, files[m]) /\ Waiting(files[m])
               /\ files[m].file < Top.file /\ files[m].file \in Nat
               /\ FileOK(input', deck', files[m])
    <2>1. m < n
      BY <1>1, <1>4
    <2>2. /\ files[m] \in ParserState /\ FileOK(input, deck, files[m])
          /\ files[m].file < Top.file /\ Waiting(files[m])
      <3>1. StackOK /\ Top = files[n]
        BY DEF ParserInv, Top, n
      <3>2. files[m] \in ParserState /\ m \in DOMAIN files
        BY <1>1, <1>4
      <3>3. QED
        BY <1>1, <2>1, <3>1, <3>2 DEF StackOK
    <2>3. FileOK(input', deck', files[m])
      BY <1>1, <1>2, <2>2, FileStays
    <2>4. QED
      BY <2>2, <2>3 DEF ParserState
  <1>5. InputOK'
    <2> SUFFICES ASSUME NEW p \in DOMAIN input'
                 PROVE  input'[p].file < p
      BY <1>2 DEF InputOK
    <2>1. CASE p \in DOMAIN input /\ input'[p] = input[p]
      BY <2>1 DEF ParserInv, InputOK
    <2>2. CASE p = Len(input) + 1 /\ input'[p].file = Top.file
      BY <1>1, <1>2, <2>2
    <2>3. QED
      BY <1>2, <2>1, <2>2
  <1>6. StackOK'
    <2>1. \A m \in DOMAIN files' : FileOK(input', deck', files'[m])
      BY <1>3, <1>4
    <2>2. ASSUME NEW l \in 1 .. n, NEW m \in 1 .. n, l < m
          PROVE  files'[l].file < files'[m].file /\ Waiting(files'[l])
      <3>1. l # n /\ files'[l] = files[l]
        BY <1>1, <1>3, <2>2
      <3>2. Waiting(files'[l])
        BY <1>4, <3>1
      <3>3. CASE m = n
        BY <1>3, <1>4, <3>1, <3>2, <3>3
      <3>4. CASE m # n
        <4>1. files[l].file < files[m].file
          BY <1>1, <2>2 DEF ParserInv, StackOK
        <4>2. files'[m] = files[m]
          BY <1>3, <3>4
        <4>3. QED
          BY <3>1, <3>2, <4>1, <4>2
      <3>5. QED
        BY <3>2, <3>3, <3>4
    <2>3. QED
      BY <1>3, <2>1, <2>2 DEF StackOK
  <1>7. LinesCounted'
    <2> SUFFICES ASSUME NEW m \in 1 .. n
                 PROVE  files'[m].lineNR = Count(input', files'[m].file, Len(input'))
      BY <1>3 DEF LinesCounted
    <2>1. CASE m = n
      BY <1>3, <2>1
    <2>2. CASE m # n
      <3>1. files[m].lineNR = Count(input, files[m].file, Len(input))
        BY <1>1 DEF ParserInv, LinesCounted
      <3>2. files[m].file # Top.file
        BY <1>1, <1>4, <2>2
      <3>3. QED
        BY <1>2, <1>3, <2>2, <3>1, <3>2
    <2>3. QED
      BY <2>1, <2>2
  <1>8. Top' = f
    BY <1>3 DEF Top
  <1>9. StopOK'
    BY <1>8 DEF StopOK
  <1>10. TypeOK'
    BY <1>2, <1>3 DEF TypeOK, Inputs
  <1>11. QED
    BY <1>5, <1>6, <1>7, <1>9, <1>10 DEF ParserInv
-----------------------------------------------------------------------------
(* The innermost file changes and nothing else does. *)
LEMMA OnlyTopChanges ==
  ASSUME ParserInv, outcome = "parsing", NEW f \in ParserState, SetTop(f),
         f.file = Top.file, Grown(input, input', Top.file), FileOK(input', deck, f),
         f.lineNR = Count(input', f.file, Len(input')),
         UNCHANGED <<deck, warnings, stop, outcome>>, Top.pc # "returning"
  PROVE  ParserInv'
  <1>1. /\ input \in Inputs /\ Top.file \in Nat /\ deck \in Seq(DeckKeyword)
        /\ Len(deck) \in Nat /\ \A i \in DOMAIN deck : KeywordOK(input, deck, i)
        /\ ~ stop
    BY WhileParsing
  <1>2. input' \in Inputs /\ Extends(input, input')
    BY <1>1, InputGrows
  <1>3. Extends(deck, deck)
    BY <1>1 DEF Extends
  <1>4. DeckOK'
    <2>1. \A i \in DOMAIN deck : KeywordOK(input', deck, i)
      BY <1>1, <1>2, <1>3, KeywordStays
    <2>2. QED
      BY <2>1 DEF DeckOK
  <1>5. stop \in BOOLEAN /\ warnings \subseteq Position
    BY DEF ParserInv, TypeOK
  <1>6. deck' = deck /\ stop' = stop /\ warnings' = warnings /\ outcome' = outcome
    OBVIOUS
  <1>7. deck' \in Seq(DeckKeyword) /\ Extends(deck, deck') /\ FileOK(input', deck', f)
    BY <1>1, <1>3, <1>6
  <1>8. stop' \in BOOLEAN /\ ~ stop' /\ warnings' \subseteq Position
    BY <1>1, <1>5, <1>6
  <1>9. QED
    BY <1>4, <1>6, <1>7, <1>8, TopChanges

(* A file that is not waiting for the name it has read. *)
LEMMA NewTop ==
  ASSUME ParserInv, outcome = "parsing", NEW new \in Inputs, Extends(input, new), NEW dk,
         NEW f \in ParserState, f.file = Top.file, f.nextKeyword = None, f.path = Top.path,
         f.rawKeyword # None => RawOK(new, dk, f.rawKeyword, f.file),
         f.pc \in {"finished", "ended"} => f.rawKeyword # None,
         f.pc = "reading" /\ f.rawKeyword # None /\ f.rawKeyword.finished =>
           f.rawKeyword.type = "FIXED"
  PROVE  FileOK(new, dk, f)
  <1>1. FileOK(input, deck, Top) /\ Top.file \in Nat /\ Len(input) \in Nat
    BY WhileParsing
  <1>2. /\ Len(new) \in Nat /\ Len(input) <= Len(new)
        /\ \A p \in 1 .. Len(input) : p \in 1 .. Len(new) /\ new[p] = input[p]
    BY <1>1 DEF Inputs, Extends
  <1>3. f.file <= Len(new)
    BY <1>1, <1>2 DEF FileOK
  <1>4. PathOK(new, f)
    BY <1>1, <1>2 DEF FileOK, PathOK
  <1>5. QED
    BY <1>3, <1>4 DEF FileOK, NextOK

(* What is known of a line that is read. *)
LEMMA OneLine ==
  ASSUME ParserInv, outcome = "parsing", NEW l \in Line, Len(input) < MaxLines,
         input' = Append(input, [line |-> l, file |-> Top.file])
  PROVE  /\ Grown(input, input', Top.file) /\ input' \in Inputs /\ Extends(input, input')
         /\ Len(input') = Len(input) + 1 /\ input'[Len(input')].line = l
         /\ input'[Len(input')].file = Top.file /\ input' # <<>>
         /\ Count(input', Top.file, Len(input')) = Top.lineNR + 1
         /\ AllBelow(deck, Len(input')) /\ Len(input') <= MaxLines
  <1>1. /\ input \in Inputs /\ Len(input) \in Nat /\ Top.file \in Nat
        /\ Top.lineNR = Count(input, Top.file, Len(input))
        /\ \A i \in DOMAIN deck : KeywordOK(input, deck, i)
        /\ deck \in Seq(DeckKeyword)
    BY WhileParsing
  <1>2. Grown(input, input', Top.file)
    BY DEF Grown
  <1>3. input' \in Inputs /\ Extends(input, input')
    BY <1>1, <1>2, InputGrows
  <1>4. /\ Len(input') = Len(input) + 1 /\ input' # <<>>
        /\ input'[Len(input) + 1] = [line |-> l, file |-> Top.file]
    <2>1. [line |-> l, file |-> Top.file] \in [line : Line, file : Nat]
      BY <1>1
    <2>2. input \in Seq([line : Line, file : Nat])
      BY <1>1 DEF Inputs
    <2>3. QED
      BY <2>1, <2>2
  <1>5. input'[Len(input')].line = l /\ input'[Len(input')].file = Top.file
    BY <1>4
  <1>6. Count(input', Top.file, Len(input')) = Top.lineNR + 1
    <2>1. Count(input', Top.file, Len(input)) = Top.lineNR
      BY <1>1, <1>3, CountStays
    <2>2. Count(input', Top.file, Len(input) + 1) = Count(input', Top.file, Len(input)) + 1
      <3>1. input'[Len(input) + 1].file = Top.file
        BY <1>4
      <3>2. QED
        BY <1>1, <3>1, CountGrows
    <2>3. QED
      BY <1>4, <2>1, <2>2
  <1>7. ASSUME NEW i \in DOMAIN deck
        PROVE  Below(deck[i], Len(input) + 1)
    <2>1. Placed(input, deck[i], input[deck[i].at].file) /\ deck[i] \in DeckKeyword
      BY <1>1 DEF KeywordOK
    <2>2. deck[i].at \in 1 .. Len(input) /\ deck[i].records \in Seq(Seq(Position))
      BY <2>1 DEF Placed, DeckKeyword
    <2>3. ASSUME NEW r \in DOMAIN deck[i].records, NEW x \in DOMAIN deck[i].records[r]
          PROVE  deck[i].records[r][x] < Len(input) + 1
      <3>1. deck[i].records[r] \in Seq(Position)
        BY <2>2
      <3>2. deck[i].records[r][x] \in Nat
        BY <3>1, ConstantFacts DEF Position
      <3>3. deck[i].records[r][x] <= Len(input)
        BY <2>1 DEF Placed
      <3>4. QED
        BY <1>1, <3>2, <3>3
    <2>4. QED
      BY <1>1, <2>2, <2>3 DEF Below
  <1>8. AllBelow(deck, Len(input'))
    BY <1>4, <1>7 DEF AllBelow
  <1>9. Len(input') <= MaxLines
    BY <1>1, <1>4, ConstantFacts
  <1>10. QED
    BY <1>2, <1>3, <1>4, <1>5, <1>6, <1>8, <1>9

(* The parser gives up, with the line it read or without one. *)
LEMMA ThrowKeeps ==
  ASSUME ParserInv, outcome = "parsing", Throw,
         \/ input' = input
         \/ /\ Top.nextKeyword = None /\ Len(input) < MaxLines
            /\ \E l \in Line : input' = Append(input, [line |-> l, file |-> Top.file])
  PROVE  ParserInv'
  <1>1. files' = files /\ deck' = deck /\ warnings' = warnings /\ stop' = stop
        /\ outcome' = "thrown"
    BY DEF Throw
  <1>2. LinesCounted'
    BY <1>1 DEF LinesCounted
  <1>3. StopOK'
    BY <1>1 DEF ParserInv, StopOK, Top
  <1>4. files # <<>> /\ files \in Seq(ParserState) /\ (files = <<>>) = (outcome = "parsed")
    BY WhileParsing DEF ParserInv, TypeOK
  <1>5. CASE input' = input
    <2>1. TypeOK'
      BY <1>1, <1>4, <1>5 DEF ParserInv, TypeOK
    <2>2. InputOK' /\ StackOK' /\ DeckOK'
      BY <1>1, <1>5 DEF ParserInv, InputOK, StackOK, DeckOK
    <2>3. QED
      BY <1>2, <1>3, <2>1, <2>2 DEF ParserInv
  <1>6. CASE /\ Top.nextKeyword = None /\ Len(input) < MaxLines
             /\ \E l \in Line : input' = Append(input, [line |-> l, file |-> Top.file])
    <2>1. PICK l \in Line : input' = Append(input, [line |-> l, file |-> Top.file])
      BY <1>6
    <2>2. /\ Grown(input, input', Top.file) /\ input' \in Inputs /\ Extends(input, input')
      BY <1>6, <2>1, OneLine
    <2>3. /\ input \in Inputs /\ Len(input) \in Nat /\ DOMAIN input = 1 .. Len(input)
          /\ Top.file \in Nat /\ FileOK(input, deck, Top) /\ Top \in ParserState
          /\ deck \in Seq(DeckKeyword) /\ Len(deck) \in Nat
          /\ \A i \in DOMAIN deck : KeywordOK(input, deck, i)
          /\ DOMAIN files = 1 .. Len(files) /\ Len(files) \in Nat
      BY WhileParsing
    <2>4. Extends(deck, deck)
      BY <2>3 DEF Extends
    <2>5. FileOK(input', deck, Top)
      <3>1. ASSUME Top.rawKeyword # None
            PROVE  RawOK(input', deck, Top.rawKeyword, Top.file)
        <4>1. Top.rawKeyword \in RawKeyword /\ RawOK(input, deck, Top.rawKeyword, Top.file)
          BY <2>3, <3>1 DEF ParserState, FileOK
        <4>2. QED
          BY <2>2, <2>3, <2>4, <4>1, RawStays
      <3>2. QED
        BY <1>6, <2>2, <2>3, <3>1, NewTop DEF FileOK
    <2>6. ASSUME NEW m \in DOMAIN files
          PROVE  FileOK(input', deck, files[m])
      <3>1. CASE m = Len(files)
        BY <2>5, <3>1 DEF Top
      <3>2. CASE m # Len(files)
        <4>1. m < Len(files) /\ Len(files) \in DOMAIN files
          BY <2>3, <3>2
        <4>2. FileOK(input, deck, files[m]) /\ Waiting(files[m]) /\ files[m] \in ParserState
          BY <1>4, <4>1 DEF ParserInv, StackOK
        <4>3. QED
          BY <2>2, <2>3, <2>4, <4>2, FileStays
      <3>3. QED
        BY <3>1, <3>2
    <2>7. StackOK'
      BY <1>1, <2>6 DEF ParserInv, StackOK
    <2>8. DeckOK'
      <3>1. \A i \in DOMAIN deck : KeywordOK(input', deck, i)
        BY <2>2, <2>3, <2>4, KeywordStays
      <3>2. QED
        BY <1>1, <3>1 DEF DeckOK
    <2>9. InputOK'
      <3> SUFFICES ASSUME NEW p \in DOMAIN input'
                   PROVE  input'[p].file < p
        BY <1>6, <2>1, OneLine DEF InputOK
      <3>1. \/ p \in DOMAIN input /\ input'[p] = input[p]
            \/ p = Len(input) + 1 /\ input'[p].file = Top.file
        BY <2>2, <2>3, InputGrows
      <3>2. QED
        BY <2>3, <3>1 DEF ParserInv, InputOK, FileOK
    <2>10. TypeOK'
      BY <1>1, <1>4, <2>2 DEF ParserInv, TypeOK, Inputs
    <2>11. QED
      BY <1>2, <1>3, <2>7, <2>8, <2>9, <2>10 DEF ParserInv
  <1>7. QED
    BY <1>5, <1>6
-----------------------------------------------------------------------------
(* The ParserState after a line. *)
LEMMA StateAfterLine ==
  ASSUME NEW s \in ParserState, NEW raw \in RawKeyword \cup {None},
         NEW next \in Name \cup {None}, NEW pc \in {"reading", "finished"}, NEW f,
         f = [file |-> s.file, lineNR |-> s.lineNR + 1, rawKeyword |-> raw,
              nextKeyword |-> next, path |-> s.path, pc |-> pc]
  PROVE  /\ f \in ParserState /\ f.file = s.file /\ f.lineNR = s.lineNR + 1
         /\ f.rawKeyword = raw /\ f.nextKeyword = next /\ f.path = s.path /\ f.pc = pc
  <1> DEFINE n == s.lineNR + 1
  <1>1. n \in Nat
    BY DEF ParserState
  <1>2. s.file \in Nat /\ s.path \in Value \cup {None, Blank}
    BY DEF ParserState
  <1>3. pc \in {"reading", "finished", "ended", "returning"}
    OBVIOUS
  <1>4. f = [file |-> s.file, lineNR |-> n, rawKeyword |-> raw, nextKeyword |-> next,
             path |-> s.path, pc |-> pc]
    OBVIOUS
  <1> HIDE DEF n
  <1>5. f \in ParserState
    BY <1>1, <1>2, <1>3, <1>4 DEF ParserState
  <1>6. QED
    BY <1>4, <1>5 DEF n

(* The parser begins with one file and nothing read (Parser.cpp:90-116).   *)
LEMMA InitParserInv == Init => ParserInv
  <1> SUFFICES ASSUME Init
               PROVE  ParserInv
    OBVIOUS
  <1> DEFINE f == NewFile(0)
  <1>1. f \in ParserState /\ f.rawKeyword = None /\ f.nextKeyword = None /\ f.path = None
        /\ f.pc = "reading" /\ f.file = 0 /\ f.lineNR = 0
    BY DEF NewFile, ParserState
  <1> HIDE DEF f
  <1>2. /\ files = <<f>> /\ files \in Seq(ParserState) /\ DOMAIN files = {1} /\ files[1] = f
        /\ files # <<>> /\ deck = <<>> /\ input = <<>> /\ Len(input) = 0
        /\ DOMAIN input = {} /\ DOMAIN deck = {} /\ stop = FALSE /\ outcome = "parsing"
    BY <1>1 DEF Init, f
  <1>3. TypeOK
    <2>1. (files = <<>>) = (outcome = "parsed")
      BY <1>2
    <2>2. warnings = {} /\ deck \in Seq(DeckKeyword) /\ input \in Seq([line : Line, file : Nat])
      BY <1>2 DEF Init
    <2>3. QED
      BY <1>2, <2>1, <2>2 DEF TypeOK
  <1>4. InputOK /\ DeckOK /\ StopOK
    BY <1>2, ConstantFacts DEF InputOK, DeckOK, StopOK
  <1>5. StackOK
    BY <1>1, <1>2 DEF StackOK, FileOK, NextOK, PathOK
  <1>6. LinesCounted
    <2>1. Count(input, 0, 0) = 0
      BY CountNothing
    <2>2. QED
      BY <1>1, <1>2, <2>1 DEF LinesCounted
  <1>7. QED
    BY <1>3, <1>4, <1>5, <1>6 DEF ParserInv

(* The name that ended a keyword becomes the next one                      *)
(* (Parser.cpp:361-367).                                                   *)
LEMMA StartNextInv ==
  ASSUME ParserInv, outcome = "parsing", StartNext
  PROVE  ParserInv'
  <1> DEFINE k == Top.nextKeyword
             raw == NewRawKeyword(k, Top.lineNR, Len(input))
             f == Started(raw)
  <1>1. /\ Top \in ParserState /\ Top.file \in Nat /\ FileOK(input, deck, Top)
        /\ Top.lineNR = Count(input, Top.file, Len(input))
        /\ input \in Inputs /\ Len(input) \in Nat
    BY WhileParsing
  <1>2. /\ Top.pc = "reading" /\ k # None /\ input' = input
    BY DEF StartNext
  <1>3. CASE ~ CanCreate(k)
    BY <1>2, <1>3, ThrowKeeps DEF StartNext
  <1>4. CASE CanCreate(k)
    <2>1. /\ k \in Known /\ k \in Name /\ input # <<>> /\ input[Len(input)].file = Top.file
          /\ AllBelow(deck, Len(input))
      BY <1>1, <1>2, ConstantFacts DEF FileOK, NextOK
    <2>2. Len(input) \in 1 .. Len(input) /\ Extends(input, input) /\ Len(input) <= MaxLines
      <3>1. Len(input) \in 1 .. Len(input) /\ Extends(input, input)
        BY <1>1, <2>1 DEF Inputs, Extends
      <3>2. QED
        BY <3>1, WhileParsing
    <2>3. /\ raw \in RawKeyword /\ RawOK(input, deck, raw, Top.file)
          /\ raw.finished => raw.type = "FIXED"
      BY <1>1, <1>4, <2>1, <2>2, CreatedOK
    <2> HIDE DEF raw
    <2>4. /\ f \in ParserState /\ f.file = Top.file /\ f.lineNR = Top.lineNR
          /\ f.rawKeyword = raw /\ f.nextKeyword = None /\ f.path = Top.path
          /\ f.pc = "reading"
      BY <1>1, <1>2, <2>3 DEF Started, ParserState
    <2>5. SetTop(f) /\ UNCHANGED <<deck, warnings, stop, outcome>>
      BY <1>4 DEF StartNext, raw
    <2> HIDE DEF f
    <2>6. FileOK(input, deck, f)
      BY <1>1, <2>2, <2>3, <2>4, NewTop
    <2>7. Grown(input, input', Top.file)
      BY <1>2 DEF Grown
    <2>8. QED
      BY <1>1, <1>2, <2>4, <2>5, <2>6, <2>7, OnlyTopChanges
  <1>5. QED
    BY <1>3, <1>4
-----------------------------------------------------------------------------
(* A line leaves the file with no keyword or with one that is all right. *)
LEMMA ReadInv ==
  ASSUME ParserInv, outcome = "parsing", Top.nextKeyword = None, Top.pc = "reading",
         Len(input) < MaxLines, NEW l \in Line,
         input' = Append(input, [line |-> l, file |-> Top.file]),
         NEW raw, raw = None \/ (raw \in RawKeyword /\ RawOK(input', deck, raw, Top.file)),
         Read(raw)
  PROVE  ParserInv'
  <1> DEFINE f == [Top EXCEPT !.lineNR = @ + 1, !.rawKeyword = raw, !.pc = AfterLine(raw)]
  <1>1. /\ Top \in ParserState /\ Top.lineNR \in Nat
    BY WhileParsing DEF ParserState
  <1>2. AfterLine(raw) \in {"reading", "finished"}
        /\ (AfterLine(raw) = "finished" => raw # None)
        /\ (AfterLine(raw) = "reading" => raw = None \/ ~ raw.finished)
    BY DEF AfterLine
  <1>3. /\ f \in ParserState /\ f.file = Top.file /\ f.lineNR = Top.lineNR + 1
        /\ f.rawKeyword = raw /\ f.nextKeyword = None /\ f.path = Top.path
        /\ f.pc = AfterLine(raw)
    <2>1. raw \in RawKeyword \cup {None}
      OBVIOUS
    <2>2. PICK pc \in {"reading", "finished"} : pc = AfterLine(raw)
      BY <1>2
    <2>3. f = [Top EXCEPT !.lineNR = @ + 1, !.rawKeyword = raw, !.pc = pc]
      BY <2>2
    <2> HIDE DEF f
    <2>4. f = [file |-> Top.file, lineNR |-> Top.lineNR + 1, rawKeyword |-> raw,
               nextKeyword |-> None, path |-> Top.path, pc |-> pc]
      BY <1>1, <2>3 DEF ParserState
    <2>5. f \in ParserState
      <3> DEFINE n == Top.lineNR + 1
      <3>1. f = [file |-> Top.file, lineNR |-> n, rawKeyword |-> raw,
                 nextKeyword |-> None, path |-> Top.path, pc |-> pc]
        BY <2>4
      <3>2. n \in Nat /\ Top.file \in Nat /\ Top.path \in Value \cup {None, Blank}
        BY <1>1 DEF ParserState
      <3> HIDE DEF n
      <3>3. QED
        BY <2>1, <2>2, <3>1, <3>2 DEF ParserState
    <2>6. QED
      BY <2>2, <2>4, <2>5
  <1>4. SetTop(f) /\ UNCHANGED <<deck, warnings, stop, outcome>>
    BY DEF Read
  <1> HIDE DEF f
  <1>5. /\ Grown(input, input', Top.file) /\ input' \in Inputs /\ Extends(input, input')
        /\ Count(input', Top.file, Len(input')) = Top.lineNR + 1
    BY OneLine
  <1>6. FileOK(input', deck, f)
    BY <1>2, <1>3, <1>5, NewTop
  <1>7. QED
    BY <1>3, <1>4, <1>5, <1>6, OnlyTopChanges

(* A line that finds no keyword begun (Parser.cpp:374-378).                *)
LEMMA LineOutsideInv ==
  ASSUME ParserInv, outcome = "parsing", Top.nextKeyword = None, Top.pc = "reading",
         Len(input) < MaxLines, NEW l \in Line,
         input' = Append(input, [line |-> l, file |-> Top.file]), LineOutside(l)
  PROVE  ParserInv'
  <1>1. CASE l.kind # "name"
    <2>1. PICK raw : raw = None
      OBVIOUS
    <2>2. Read(raw)
      BY <1>1, <2>1 DEF LineOutside
    <2>3. raw = None \/ (raw \in RawKeyword /\ RawOK(input', deck, raw, Top.file))
      BY <2>1
    <2>4. QED
      BY <2>2, <2>3, ReadInv
  <1>2. CASE l.kind = "name" /\ ~ CanCreate(l.name)
    BY <1>2, ThrowKeeps DEF LineOutside
  <1>3. CASE l.kind = "name" /\ CanCreate(l.name)
    <2> DEFINE at == Len(input) + 1
               raw == NewRawKeyword(l.name, NameLine(Top), at)
    <2>1. /\ input' \in Inputs /\ Extends(input, input') /\ Len(input') = at
          /\ input'[at].file = Top.file /\ at <= MaxLines /\ AllBelow(deck, at)
          /\ NameLine(Top) = Count(input', input'[at].file, at)
      BY OneLine DEF NameLine
    <2>2. l.name \in Name
      BY <1>3, LineFacts
    <2>3. at \in 1 .. Len(input')
      BY <2>1, WhileParsing
    <2>4. Read(raw)
      BY <1>3 DEF LineOutside
    <2> HIDE DEF at
    <2>5. raw \in RawKeyword /\ RawOK(input', deck, raw, Top.file)
      BY <1>3, <2>1, <2>2, <2>3, CreatedOK
    <2> HIDE DEF raw
    <2>6. QED
      BY <2>4, <2>5, ReadInv
  <1>4. QED
    BY <1>1, <1>2, <1>3

(* The name of the keyword that follows ends one of unknown size. *)
LEMMA EndsUnknownInv ==
  ASSUME ParserInv, outcome = "parsing", Top.nextKeyword = None, Top.pc = "reading",
         Len(input) < MaxLines, NEW l \in Line,
         input' = Append(input, [line |-> l, file |-> Top.file]),
         Top.rawKeyword # None, EndsUnknown(l), LineInside(l)
  PROVE  ParserInv'
  <1> DEFINE raw == Top.rawKeyword
             f == [Top EXCEPT !.lineNR = @ + 1, !.rawKeyword.finished = TRUE,
                              !.nextKeyword = l.name, !.pc = "finished"]
  <1>1. /\ Top \in ParserState /\ Top.lineNR \in Nat /\ raw \in RawKeyword
        /\ FileOK(input, deck, Top) /\ Len(input) \in Nat /\ input \in Inputs
        /\ deck \in Seq(DeckKeyword) /\ \A i \in DOMAIN deck : KeywordOK(input, deck, i)
        /\ Top.file \in Nat
    BY WhileParsing DEF ParserState
  <1>2. l.name \in Known /\ l.name \in Name /\ l.name # None /\ raw.type = "UNKNOWN"
    BY ConstantFacts DEF EndsUnknown
  <1>3. SetTop(f) /\ UNCHANGED <<deck, warnings, stop, outcome>>
    BY DEF LineInside
  <1> DEFINE ended == [raw EXCEPT !.finished = TRUE]
  <1>4. f = [file |-> Top.file, lineNR |-> Top.lineNR + 1, rawKeyword |-> ended,
             nextKeyword |-> l.name, path |-> Top.path, pc |-> "finished"]
    <2>1. f = [Top EXCEPT !.lineNR = @ + 1, !.rawKeyword = ended,
                          !.nextKeyword = l.name, !.pc = "finished"]
      BY <1>1 DEF ParserState
    <2> HIDE DEF f, ended
    <2>2. QED
      BY <1>1, <2>1 DEF ParserState
  <1>5. /\ ended \in RawKeyword /\ ended.name = raw.name /\ ended.type = raw.type
        /\ ended.target = raw.target /\ ended.tables = raw.tables
        /\ ended.records = raw.records /\ ended.partial = raw.partial
        /\ ended.finished = TRUE /\ ended.lineNR = raw.lineNR /\ ended.at = raw.at
    BY <1>1 DEF RawKeyword
  <1> HIDE DEF f, ended
  <1>6. /\ f \in ParserState /\ f.file = Top.file /\ f.lineNR = Top.lineNR + 1
        /\ f.rawKeyword = ended /\ f.nextKeyword = l.name /\ f.path = Top.path
        /\ f.pc = "finished"
    BY <1>1, <1>2, <1>4, <1>5, StateAfterLine
  <1>7. /\ Grown(input, input', Top.file) /\ input' \in Inputs /\ Extends(input, input')
        /\ Count(input', Top.file, Len(input')) = Top.lineNR + 1 /\ input' # <<>>
        /\ input'[Len(input')].file = Top.file /\ Len(input') = Len(input) + 1
        /\ AllBelow(deck, Len(input'))
    BY OneLine
  <1>8. RawOK(input', deck, raw, Top.file) /\ RawOK(input, deck, raw, Top.file)
    <2>1. Extends(deck, deck)
      BY <1>1 DEF Extends
    <2>2. RawOK(input, deck, raw, Top.file)
      BY <1>1 DEF FileOK
    <2>3. QED
      BY <1>1, <1>7, <2>1, <2>2, RawStays
  <1>9. RawOK(input', deck, ended, Top.file)
    <2>1. Placed(input', raw, Top.file) /\ PartialPlaced(input', raw, Top.file)
          /\ WholeSoFar(input', raw)
      BY <1>8 DEF RawOK
    <2>2. Placed(input', ended, Top.file)
      BY <1>5, <2>1, PlacedAlike
    <2>3. PartialPlaced(input', ended, Top.file)
      BY <1>5, <2>1 DEF PartialPlaced
    <2>4. WholeSoFar(input', ended)
      BY <1>2, <1>5, <2>1 DEF WholeSoFar
    <2>5. QED
      BY <1>5, <1>8, <2>2, <2>3, <2>4 DEF RawOK
  <1>10. Below(ended, Len(input'))
    <2>1. Placed(input, raw, Top.file)
      BY <1>8 DEF RawOK
    <2>2. raw.at \in 1 .. Len(input) /\ raw.records \in Seq(Seq(Position))
      BY <1>1, <2>1 DEF Placed, RawKeyword
    <2>3. ASSUME NEW r \in DOMAIN raw.records, NEW x \in DOMAIN raw.records[r]
          PROVE  raw.records[r][x] < Len(input')
      <3>1. raw.records[r] \in Seq(Position)
        BY <2>2
      <3>2. raw.records[r][x] \in Nat
        BY <3>1, ConstantFacts DEF Position
      <3>3. raw.records[r][x] <= Len(input)
        BY <2>1 DEF Placed
      <3>4. QED
        BY <1>1, <1>7, <3>2, <3>3
    <2>4. QED
      BY <1>1, <1>5, <1>7, <2>2, <2>3 DEF Below
  <1>11. NextOK(input', deck, f)
    BY <1>2, <1>5, <1>6, <1>7, <1>10 DEF NextOK
  <1>12. PathOK(input', f) /\ f.file <= Len(input')
    <2>1. \A p \in 1 .. Len(input) : p \in 1 .. Len(input') /\ input'[p] = input[p]
      BY <1>1, <1>7 DEF Extends
    <2>2. PathOK(input', f)
      BY <1>1, <1>6, <2>1 DEF FileOK, PathOK
    <2>3. QED
      BY <1>1, <1>6, <1>7, <2>2 DEF FileOK
  <1>13. FileOK(input', deck, f)
    <2>1. ended # None
      BY <1>5, ConstantFacts
    <2>2. QED
      BY <1>6, <1>9, <1>11, <1>12, <2>1 DEF FileOK
  <1>14. QED
    BY <1>3, <1>6, <1>7, <1>13, OnlyTopChanges

(* A line that finds one (Parser.cpp:378-389).                             *)
LEMMA LineInsideInv ==
  ASSUME ParserInv, outcome = "parsing", Top.nextKeyword = None, Top.pc = "reading",
         Len(input) < MaxLines, NEW l \in Line,
         input' = Append(input, [line |-> l, file |-> Top.file]), LineInside(l)
  PROVE  ParserInv'
  <1> DEFINE raw == Top.rawKeyword
             line == Handled(l, raw)
  <1>1. /\ Top \in ParserState /\ raw \in RawKeyword /\ FileOK(input, deck, Top)
        /\ RawOK(input, deck, raw, Top.file) /\ Top.file \in Nat
        /\ input \in Inputs /\ deck \in Seq(DeckKeyword)
        /\ \A i \in DOMAIN deck : KeywordOK(input, deck, i)
    BY WhileParsing DEF LineInside, FileOK, ParserState
  <1>2. raw.finished => raw.type = "FIXED"
    BY <1>1 DEF FileOK, LineInside
  <1>3. CASE EndsUnknown(l)
    BY <1>3, EndsUnknownInv DEF LineInside
  <1>4. CASE ~ EndsUnknown(l) /\ ~ UseLine(line)
    <2>1. Read(raw)
      BY <1>4 DEF LineInside
    <2>2. input' \in Inputs /\ Extends(input, input') /\ Extends(deck, deck)
      BY <1>1, OneLine DEF Extends
    <2>3. RawOK(input', deck, raw, Top.file)
      BY <1>1, <2>2, RawStays
    <2> HIDE DEF raw
    <2>4. QED
      BY <1>1, <2>1, <2>3, ReadInv
  <1>5. CASE ~ EndsUnknown(l) /\ UseLine(line) /\ ~ CanAdd(raw, line)
    BY <1>5, ThrowKeeps DEF LineInside
  <1>6. CASE ~ EndsUnknown(l) /\ UseLine(line) /\ CanAdd(raw, line)
    <2> DEFINE longer == Added(raw, line, Len(input'))
    <2>1. Len(input') = Len(input) + 1
      BY OneLine
    <2>2. Read(longer)
      BY <1>6, <2>1 DEF LineInside
    <2>3. raw.type = "UNKNOWN" => ~ (l.kind = "name" /\ l.exact /\ l.name \in Known)
      BY <1>6 DEF EndsUnknown
    <2> HIDE DEF raw, line
    <2>4. longer \in RawKeyword /\ RawOK(input', deck, longer, Top.file)
      BY <1>1, <1>2, <2>3, AddedOK DEF line
    <2> HIDE DEF longer
    <2>5. QED
      BY <2>2, <2>4, ReadInv
  <1>7. QED
    BY <1>3, <1>4, <1>5, <1>6

(* One pass of the loop of tryParseKeyword().                              *)
LEMMA ReadLineInv ==
  ASSUME ParserInv, outcome = "parsing", NEW l \in Line, ReadLine(l)
  PROVE  ParserInv'
  <1>1. /\ Top.pc = "reading" /\ Top.nextKeyword = None /\ Len(input) < MaxLines
        /\ input' = Append(input, [line |-> l, file |-> Top.file])
        /\ LineOutside(l) \/ LineInside(l)
    BY DEF ReadLine
  <1>2. QED
    BY <1>1, LineOutsideInv, LineInsideInv

(* The end of a file, which may be the end of a keyword of unknown size    *)
(* (Parser.cpp:394-398).                                                   *)
LEMMA EndOfFileInv ==
  ASSUME ParserInv, outcome = "parsing", EndOfFile
  PROVE  ParserInv'
  <1> DEFINE raw == Top.rawKeyword
             ended == [raw EXCEPT !.finished = @ \/ raw.type = "UNKNOWN"]
             f == [Top EXCEPT !.pc = IF raw = None THEN "returning" ELSE "ended",
                              !.rawKeyword = IF raw = None THEN None ELSE ended]
  <1>1. /\ Top \in ParserState /\ Top.lineNR \in Nat /\ FileOK(input, deck, Top)
        /\ input \in Inputs /\ raw \in RawKeyword \cup {None}
        /\ Top.lineNR = Count(input, Top.file, Len(input))
    BY WhileParsing DEF ParserState
  <1>2. /\ SetTop(f) /\ UNCHANGED <<deck, warnings, stop, outcome>> /\ input' = input
        /\ Top.nextKeyword = None /\ Top.pc = "reading"
    BY DEF EndOfFile
  <1>3. Grown(input, input', Top.file) /\ Extends(input, input)
    BY <1>1, <1>2 DEF Grown, Extends, Inputs
  <1>4. CASE raw = None
    <2>1. f = [Top EXCEPT !.pc = "returning", !.rawKeyword = None]
      BY <1>4
    <2> HIDE DEF f
    <2>2. /\ f \in ParserState /\ f.file = Top.file /\ f.lineNR = Top.lineNR
          /\ f.rawKeyword = None /\ f.nextKeyword = None /\ f.path = Top.path
          /\ f.pc = "returning"
      BY <1>1, <1>2, <2>1 DEF ParserState
    <2>3. FileOK(input, deck, f)
      BY <1>1, <1>3, <2>2, NewTop
    <2>4. QED
      BY <1>1, <1>2, <1>3, <2>2, <2>3, OnlyTopChanges
  <1>5. CASE raw # None
    <2>1. f = [Top EXCEPT !.pc = "ended", !.rawKeyword = ended]
      BY <1>5
    <2>2. /\ raw \in RawKeyword /\ raw.finished \in BOOLEAN
      BY <1>1, <1>5 DEF RawKeyword
    <2>3. /\ ended \in RawKeyword /\ ended.name = raw.name /\ ended.type = raw.type
          /\ ended.target = raw.target /\ ended.tables = raw.tables
          /\ ended.records = raw.records /\ ended.partial = raw.partial
          /\ ended.lineNR = raw.lineNR /\ ended.at = raw.at
          /\ (ended.finished <=> raw.finished \/ raw.type = "UNKNOWN")
      BY <2>2 DEF RawKeyword
    <2> HIDE DEF f, ended
    <2>4. /\ f \in ParserState /\ f.file = Top.file /\ f.lineNR = Top.lineNR
          /\ f.rawKeyword = ended /\ f.nextKeyword = None /\ f.path = Top.path
          /\ f.pc = "ended"
      BY <1>1, <1>2, <2>1, <2>3 DEF ParserState
    <2>5. RawOK(input, deck, ended, Top.file)
      <3>1. RawOK(input, deck, raw, Top.file)
        BY <1>1, <1>5 DEF FileOK
      <3>2. Placed(input, raw, Top.file) /\ PartialPlaced(input, raw, Top.file)
            /\ WholeSoFar(input, raw)
        BY <3>1 DEF RawOK
      <3>3. Placed(input, ended, Top.file)
        BY <2>3, <3>2, PlacedAlike
      <3>4. PartialPlaced(input, ended, Top.file)
        BY <2>3, <3>2 DEF PartialPlaced
      <3>5. WholeSoFar(input, ended)
        BY <2>3, <3>2 DEF WholeSoFar
      <3>6. QED
        BY <2>3, <3>1, <3>3, <3>4, <3>5 DEF RawOK
    <2>6. ended # None
      BY <2>3, ConstantFacts
    <2>7. FileOK(input, deck, f)
      BY <1>1, <1>3, <2>4, <2>5, <2>6, NewTop
    <2>8. QED
      BY <1>1, <1>2, <1>3, <2>4, <2>7, OnlyTopChanges
  <1>6. QED
    BY <1>4, <1>5
-----------------------------------------------------------------------------
(* The keyword that is handled. *)
LEMMA BeingHandled ==
  ASSUME ParserInv, outcome = "parsing", Top.pc \in {"finished", "ended"}
  PROVE  /\ Top \in ParserState /\ Top.file \in Nat /\ Top.lineNR \in Nat
         /\ Top.path \in Value \cup {None, Blank} /\ Top.nextKeyword \in Name \cup {None}
         /\ Top.rawKeyword \in RawKeyword /\ RawOK(input, deck, Top.rawKeyword, Top.file)
         /\ FileOK(input, deck, Top) /\ NextOK(input, deck, Top) /\ PathOK(input, Top)
         /\ Grown(input, input, Top.file) /\ Extends(input, input) /\ Extends(deck, deck)
  <1>1. Top \in ParserState /\ FileOK(input, deck, Top) /\ input \in Inputs
        /\ deck \in Seq(DeckKeyword)
    BY WhileParsing
  <1>2. /\ Top.file \in Nat /\ Top.lineNR \in Nat /\ Top.path \in Value \cup {None, Blank}
        /\ Top.nextKeyword \in Name \cup {None} /\ Top.rawKeyword \in RawKeyword \cup {None}
    BY <1>1 DEF ParserState
  <1>3. Top.rawKeyword # None
    BY <1>1 DEF FileOK
  <1>4. Extends(input, input) /\ Extends(deck, deck)
    BY <1>1 DEF Extends, Inputs
  <1>5. QED
    BY <1>1, <1>2, <1>3, <1>4 DEF FileOK, Grown

(* What goes into the deck is the raw keyword.                             *)
LEMMA NewKeywordType ==
  ASSUME ParserInv, outcome = "parsing", Top.pc \in {"finished", "ended"},
         NEW known \in BOOLEAN, NEW new, new = NewDeckKeyword(Top.rawKeyword, known)
  PROVE  /\ new \in DeckKeyword /\ new.name = Top.rawKeyword.name /\ new.known = known
         /\ new.records = Top.rawKeyword.records /\ new.file = Top.file
         /\ new.lineNR = Top.rawKeyword.lineNR /\ new.at = Top.rawKeyword.at
  <1> DEFINE raw == Top.rawKeyword
  <1>1. /\ Top.file \in Nat /\ raw.name \in Name /\ raw.records \in Seq(Seq(Position))
        /\ raw.lineNR \in Nat /\ raw.at \in Position
    BY BeingHandled DEF RawKeyword
  <1>2. new = [name |-> raw.name, known |-> known, records |-> raw.records,
               file |-> Top.file, lineNR |-> raw.lineNR, at |-> raw.at]
    BY DEF NewDeckKeyword
  <1> HIDE DEF raw
  <1>3. new \in DeckKeyword
    BY <1>1, <1>2 DEF DeckKeyword
  <1>4. QED
    BY <1>2, <1>3 DEF raw

(* The first item of a record of it. *)
LEMMA FirstItemFacts ==
  ASSUME ParserInv, outcome = "parsing", Top.pc \in {"finished", "ended"},
         NEW r \in DOMAIN Top.rawKeyword.records,
         NEW value, value = FirstItem(Top.rawKeyword.records[r])
  PROVE  \E p \in 1 .. Len(input) :
           /\ input[p].file = Top.file /\ value = input[p].line.value
           /\ value \notin {Default, Word} =>
                input[p].line.kind \in {"text", "end"} /\ value \in Value
  <1> DEFINE record == Top.rawKeyword.records[r]
             p == record[1]
  <1>1. /\ Top.rawKeyword.records \in Seq(Seq(Position))
        /\ Placed(input, Top.rawKeyword, Top.file)
    BY BeingHandled DEF RawOK, RawKeyword
  <1>2. record \in Seq(Position) /\ record # <<>>
    BY <1>1 DEF Placed
  <1>3. 1 \in DOMAIN record /\ p \in Position
    BY <1>2
  <1>4. p <= Len(input) /\ input[p].file = Top.file
    BY <1>1, <1>3 DEF Placed
  <1>5. p \in 1 .. Len(input)
    BY <1>3, <1>4, WhileParsing, ConstantFacts DEF Position
  <1>6. value = input[p].line.value
    BY DEF FirstItem
  <1> HIDE DEF p
  <1>7. input[p].line \in Line
    <2> DEFINE S == [line : Line, file : Nat]
    <2>1. input \in Seq(S)
      BY WhileParsing DEF Inputs
    <2>2. input[p] \in S
      <3> HIDE DEF S
      <3>1. p \in DOMAIN input
        BY <1>5, WhileParsing
      <3>2. QED
        BY <2>1, <3>1
    <2>3. QED
      BY <2>2
  <1>8. value \notin {Default, Word} =>
          input[p].line.kind \in {"text", "end"} /\ value \in Value
    BY <1>6, <1>7, LineFacts
  <1>9. QED
    BY <1>4, <1>5, <1>6, <1>8

(* The keyword is done with: it is dropped and the file goes on. *)
LEMMA DoneOK ==
  ASSUME ParserInv, outcome = "parsing", Top.pc \in {"finished", "ended"},
         NEW f \in ParserState, f.file = Top.file, f.nextKeyword = Top.nextKeyword,
         f.rawKeyword = None, f.pc \in {"reading", "returning"}, PathOK(input, f), NEW more,
         more = deck \/ \E known \in BOOLEAN :
                          more = Append(deck, NewDeckKeyword(Top.rawKeyword, known))
  PROVE  FileOK(input, more, f)
  <1>1. /\ FileOK(input, deck, Top) /\ NextOK(input, deck, Top)
        /\ Top.rawKeyword \in RawKeyword /\ Top.rawKeyword # None
    BY BeingHandled, ConstantFacts
  <1>2. deck \in Seq(DeckKeyword) /\ DOMAIN deck = 1 .. Len(deck) /\ Len(deck) \in Nat
    BY WhileParsing
  <1>3. ASSUME AllBelow(deck, Len(input)), Below(Top.rawKeyword, Len(input))
        PROVE  AllBelow(more, Len(input))
    <2>1. CASE more = deck
      BY <1>3, <2>1
    <2>2. CASE more # deck
      <3>1. PICK known \in BOOLEAN :
              more = Append(deck, NewDeckKeyword(Top.rawKeyword, known))
        BY <2>2
      <3> DEFINE new == NewDeckKeyword(Top.rawKeyword, known)
      <3>2. /\ new \in DeckKeyword /\ new.at = Top.rawKeyword.at
            /\ new.records = Top.rawKeyword.records
        BY NewKeywordType
      <3> HIDE DEF new
      <3>0. more = Append(deck, new)
        BY <3>1 DEF new
      <3>3. /\ DOMAIN more = 1 .. Len(deck) + 1 /\ more[Len(deck) + 1] = new
            /\ \A i \in 1 .. Len(deck) : more[i] = deck[i]
        <4>1. deck \in Seq(DeckKeyword)
          BY <1>2
        <4>2. new \in DeckKeyword
          BY <3>2
        <4>3. QED
          BY <3>0, <4>1, <4>2, OneMore
      <3>4. Below(new, Len(input))
        BY <1>3, <3>2 DEF Below
      <3>5. ASSUME NEW i \in DOMAIN more
            PROVE  Below(more[i], Len(input))
        <4>1. CASE i \in 1 .. Len(deck)
          BY <1>2, <1>3, <3>3, <4>1 DEF AllBelow
        <4>2. CASE i = Len(deck) + 1
          BY <3>3, <3>4, <4>2
        <4>3. QED
          BY <1>2, <3>3, <4>1, <4>2
      <3>6. QED
        BY <3>5 DEF AllBelow
    <2>3. QED
      BY <2>1, <2>2
  <1>4. NextOK(input, more, f)
    BY <1>1, <1>3 DEF NextOK
  <1>5. QED
    BY <1>1, <1>4 DEF FileOK

(* What is left of the state of a file when its keyword was handled.       *)
LEMMA DoneType ==
  ASSUME NEW s \in ParserState
  PROVE  /\ Done(s) \in ParserState /\ Done(s).file = s.file /\ Done(s).lineNR = s.lineNR
         /\ Done(s).rawKeyword = None /\ Done(s).nextKeyword = s.nextKeyword
         /\ Done(s).path = s.path /\ Done(s).pc \in {"reading", "returning"}
  <1> DEFINE pc == IF s.pc = "ended" THEN "returning" ELSE "reading"
             f == Done(s)
  <1>1. pc \in {"reading", "returning"}
    OBVIOUS
  <1>2. f = [s EXCEPT !.rawKeyword = None, !.pc = pc]
    BY DEF Done
  <1> HIDE DEF pc, f
  <1>3. f \in ParserState
    BY <1>1, <1>2 DEF ParserState
  <1>4. /\ f.file = s.file /\ f.lineNR = s.lineNR /\ f.rawKeyword = None
        /\ f.nextKeyword = s.nextKeyword /\ f.path = s.path /\ f.pc = pc
    BY <1>2 DEF ParserState
  <1>5. QED
    BY <1>1, <1>3, <1>4 DEF f

(* END and ENDINC (Parser.cpp:245-251).                                    *)
LEMMA EndInv ==
  ASSUME ParserInv, outcome = "parsing", End \/ EndInclude
  PROVE  ParserInv'
  <1> DEFINE f == [Top EXCEPT !.pc = "returning"]
  <1>1. /\ SetTop(f) /\ Top.pc \in {"finished", "ended"} /\ stop' \in BOOLEAN
        /\ deck' = deck /\ warnings' = warnings /\ outcome' = outcome /\ input' = input
    BY DEF End, EndInclude, Handling, ParserInv, TypeOK
  <1>2. Top \in ParserState /\ FileOK(input, deck, Top) /\ Grown(input, input, Top.file)
        /\ Extends(deck, deck) /\ Top.lineNR = Count(input, Top.file, Len(input))
    BY <1>1, BeingHandled, WhileParsing
  <1>3. /\ f \in ParserState /\ f.file = Top.file /\ f.lineNR = Top.lineNR
        /\ f.rawKeyword = Top.rawKeyword /\ f.nextKeyword = Top.nextKeyword
        /\ f.path = Top.path /\ f.pc = "returning"
    BY <1>2 DEF ParserState
  <1> HIDE DEF f
  <1>4. FileOK(input, deck, f)
    BY <1>2, <1>3 DEF FileOK, NextOK, PathOK
  <1>5. DeckOK' /\ deck' \in Seq(DeckKeyword) /\ warnings' \subseteq Position
    BY <1>1 DEF ParserInv, DeckOK, TypeOK
  <1>6. QED
    BY <1>1, <1>2, <1>3, <1>4, <1>5, TopChanges

(* PATHS (Parser.cpp:252-259).                                             *)
LEMMA PathsInv ==
  ASSUME ParserInv, outcome = "parsing", Paths
  PROVE  ParserInv'
  <1> DEFINE records == Top.rawKeyword.records
             path == IF records = <<>> THEN Top.path
                     ELSE AliasInserted(Top.path, FirstItem(records[1]))
             f == [Done(Top) EXCEPT !.path = path]
  <1>1. Top.pc \in {"finished", "ended"} /\ input' = input
    BY DEF Paths, Handling
  <1>2. CASE ~ \A i \in DOMAIN records : HasTwoItems(records[i])
    BY <1>2, ThrowKeeps DEF Paths
  <1>3. CASE \A i \in DOMAIN records : HasTwoItems(records[i])
    <2>1. /\ Top \in ParserState /\ Top.path \in Value \cup {None, Blank}
          /\ Top.rawKeyword \in RawKeyword /\ PathOK(input, Top)
          /\ Grown(input, input, Top.file)
          /\ Top.lineNR = Count(input, Top.file, Len(input))
      BY <1>1, BeingHandled, WhileParsing
    <2>2. /\ path \in Value \cup {None, Blank}
          /\ path # None /\ path # Top.path =>
               \E p \in 1 .. Len(input) :
                 /\ input[p].file = Top.file /\ path = input[p].line.value
                 /\ input[p].line.kind \in {"text", "end"}
      <3>1. CASE records = <<>> \/ Top.path # None
        BY <2>1, <3>1 DEF AliasInserted
      <3>2. CASE records # <<>> /\ Top.path = None
        <4>1. records \in Seq(Seq(Position))
          BY <2>1 DEF RawKeyword
        <4>2. 1 \in DOMAIN records
          BY <3>2, <4>1
        <4>3. path = FirstItem(records[1]) /\ path \notin {Default, Word}
          BY <1>3, <3>2, <4>2 DEF AliasInserted, HasTwoItems
        <4> HIDE DEF path
        <4>4. QED
          BY <1>1, <4>2, <4>3, FirstItemFacts
      <3>3. QED
        BY <3>1, <3>2
    <2>3. SetTop(f) /\ UNCHANGED <<deck, warnings, stop, outcome>>
      <3>1. SetTop([Done(Top) EXCEPT
                      !.path = IF records = <<>> THEN @
                               ELSE AliasInserted(@, FirstItem(records[1]))])
            /\ UNCHANGED <<deck, warnings, stop, outcome>>
        BY <1>3 DEF Paths
      <3>2. Done(Top).path = Top.path
        BY <2>1, DoneType
      <3>3. QED
        BY <3>1, <3>2
    <2> HIDE DEF path
    <2>4. /\ f \in ParserState /\ f.file = Top.file /\ f.lineNR = Top.lineNR
          /\ f.rawKeyword = None /\ f.nextKeyword = Top.nextKeyword
          /\ f.path = path /\ f.pc \in {"reading", "returning"}
      <3> DEFINE g == Done(Top)
      <3>1. /\ g \in ParserState /\ g.file = Top.file /\ g.lineNR = Top.lineNR
            /\ g.rawKeyword = None /\ g.nextKeyword = Top.nextKeyword
            /\ g.pc \in {"reading", "returning"}
        BY <2>1, DoneType
      <3> HIDE DEF g
      <3>2. [g EXCEPT !.path = path] \in ParserState
        BY <2>2, <3>1 DEF ParserState
      <3>3. /\ [g EXCEPT !.path = path].file = g.file
            /\ [g EXCEPT !.path = path].lineNR = g.lineNR
            /\ [g EXCEPT !.path = path].rawKeyword = g.rawKeyword
            /\ [g EXCEPT !.path = path].nextKeyword = g.nextKeyword
            /\ [g EXCEPT !.path = path].path = path
            /\ [g EXCEPT !.path = path].pc = g.pc
        BY <3>1 DEF ParserState
      <3>4. QED
        BY <3>1, <3>2, <3>3 DEF g
    <2> HIDE DEF f
    <2>5. PathOK(input, f)
      BY <2>1, <2>2, <2>4 DEF PathOK
    <2>6. FileOK(input, deck, f)
      BY <1>1, <2>4, <2>5, DoneOK
    <2>7. QED
      BY <1>1, <2>1, <2>3, <2>4, <2>6, OnlyTopChanges
  <1>4. QED
    BY <1>2, <1>3
-----------------------------------------------------------------------------
(* A keyword that goes into the deck is whole, and all of it follows what  *)
(* is in the deck.                                                         *)
LEMMA AddedToDeck ==
  ASSUME ParserInv, outcome = "parsing", HandlingOther, NEW known \in BOOLEAN,
         known <=> Top.rawKeyword.name \in Known, known => CanParse(Top.rawKeyword),
         NEW more, more = Append(deck, NewDeckKeyword(Top.rawKeyword, known))
  PROVE  /\ more \in Seq(DeckKeyword) /\ Extends(deck, more)
         /\ \A i \in DOMAIN more : KeywordOK(input, more, i)
  <1> DEFINE raw == Top.rawKeyword
             new == NewDeckKeyword(raw, known)
             n == Len(deck)
  <1>1. /\ deck \in Seq(DeckKeyword) /\ n \in Nat /\ DOMAIN deck = 1 .. n
        /\ \A i \in DOMAIN deck : KeywordOK(input, deck, i)
        /\ input \in Inputs /\ Top.pc \in {"finished", "ended"} /\ Extends(input, input)
    BY WhileParsing, BeingHandled DEF HandlingOther
  <1>2. raw \in RawKeyword /\ RawOK(input, deck, raw, Top.file) /\ raw.name # "INCLUDE"
    BY <1>1, BeingHandled DEF HandlingOther
  <1>3. /\ new \in DeckKeyword /\ new.name = raw.name /\ new.known = known
        /\ new.records = raw.records /\ new.lineNR = raw.lineNR /\ new.at = raw.at
    BY <1>1, NewKeywordType
  <1>4. more = Append(deck, new)
    OBVIOUS
  <1> HIDE DEF new
  <1>5. /\ more \in Seq(DeckKeyword) /\ Len(more) = n + 1 /\ DOMAIN more = 1 .. n + 1
        /\ more[n + 1] = new /\ \A i \in 1 .. n : more[i] = deck[i]
    <2>1. deck \in Seq(DeckKeyword) /\ new \in DeckKeyword
      BY <1>1, <1>3
    <2>2. QED
      BY <1>4, <2>1, OneMore
  <1>6. Extends(deck, more)
    BY <1>1, <1>5 DEF Extends
  <1>7. ASSUME NEW i \in 1 .. n
        PROVE  KeywordOK(input, more, i)
    <2>1. i \in DOMAIN deck
      BY <1>1
    <2>2. /\ input \in Inputs /\ Extends(input, input)
          /\ deck \in Seq(DeckKeyword) /\ more \in Seq(DeckKeyword)
          /\ \A k \in DOMAIN deck : KeywordOK(input, deck, k)
      BY <1>1, <1>5
    <2>3. QED
      BY ONLY <1>6, <2>1, <2>2, KeywordStays
  <1>8. Placed(input, new, Top.file) /\ input[new.at].file = Top.file
    <2>1. Placed(input, raw, Top.file)
      BY <1>2 DEF RawOK
    <2>2. Placed(input, new, Top.file)
      BY <1>3, <2>1, PlacedAlike
    <2>3. QED
      BY <2>2 DEF Placed
  <1>9. \A j \in 1 .. n : Below(more[j], new.at)
    BY <1>1, <1>2, <1>3, <1>5 DEF RawOK, AllBelow
  <1>10. ASSUME known
         PROVE  /\ SizeThere(more, n, raw.name)
                /\ Whole(input, new, TargetAt(input, more, n, raw.name))
                /\ Shape[raw.name].integer =>
                     \A r \in DOMAIN new.records :
                       input[new.records[r][1]].line.value \in Nat \cup {Default}
    <2>1. /\ SizeThere(deck, n, raw.name) /\ raw.target = TargetAt(input, deck, n, raw.name)
          /\ raw.type = RawType(raw.name) /\ WholeSoFar(input, raw) /\ raw.target \in Nat
      BY <1>2 DEF RawOK, RawKeyword
    <2>2. /\ SizeThere(more, n, raw.name)
          /\ TargetAt(input, more, n, raw.name) = raw.target
      <3>1. /\ input \in Inputs /\ Extends(input, input)
            /\ deck \in Seq(DeckKeyword) /\ more \in Seq(DeckKeyword)
            /\ \A k \in DOMAIN deck : KeywordOK(input, deck, k)
            /\ n \in Nat /\ n <= Len(deck)
        BY <1>1, <1>5
      <3> HIDE DEF raw, n
      <3>2. QED
        BY ONLY <1>6, <2>1, <3>1, TargetStays
    <2>3. raw.finished
      BY <1>10 DEF CanParse
    <2>4. raw.records \in Seq(Seq(Position)) /\ Cardinality(Slashes(input, raw.records)) \in Nat
      <3>1. raw.records \in Seq(Seq(Position))
        BY <1>2 DEF RawKeyword
      <3>2. <<>> \in Seq(Position)
        OBVIOUS
      <3>3. QED
        BY <3>1, <3>2, SlashesGrow
    <2>5. Whole(input, new, raw.target)
      <3>1. raw.type = "FIXED" => Len(raw.records) = raw.target
        BY <2>1, <2>3 DEF WholeSoFar
      <3>2. raw.type = "TABLES" => Cardinality(Slashes(input, raw.records)) = raw.target - 1
        BY <2>1, <2>3, <2>4 DEF WholeSoFar
      <3>3. /\ raw.type \in {"SLASH", "UNKNOWN"} => Slashes(input, raw.records) = {}
            /\ raw.type = "UNKNOWN" => NoNamesIn(input, raw.records)
        BY <2>1 DEF WholeSoFar
      <3>4. QED
        BY <1>3, <2>1, <3>1, <3>2, <3>3 DEF Whole
    <2>6. Shape[raw.name].integer =>
            \A r \in DOMAIN new.records :
              input[new.records[r][1]].line.value \in Nat \cup {Default}
      BY <1>3, <1>10 DEF CanParse, FirstItem
    <2>7. QED
      BY <2>2, <2>5, <2>6
  <1>11. KeywordOK(input, more, n + 1)
    <2>1. known <=> new.name \in Known
      BY <1>3
    <2>2. QED
      <3> DEFINE i == n + 1
      <3> HIDE DEF raw, n
      <3>1. more[i] = new
        BY <1>5
      <3>2. i - 1 = n
        BY <1>1
      <3> HIDE DEF i
      <3>3. /\ Placed(input, more[i], input[more[i].at].file)
            /\ more[i].known <=> more[i].name \in Known
            /\ \A j \in 1 .. i - 1 : Below(more[j], more[i].at)
        BY <1>3, <1>8, <1>9, <2>1, <3>1, <3>2
      <3>4. more[i].known =>
              /\ SizeThere(more, i - 1, more[i].name)
              /\ Whole(input, more[i], TargetAt(input, more, i - 1, more[i].name))
              /\ Shape[more[i].name].integer =>
                   \A r \in DOMAIN more[i].records :
                     input[more[i].records[r][1]].line.value \in Nat \cup {Default}
        BY <1>3, <1>10, <3>1, <3>2
      <3>5. KeywordOK(input, more, i)
        BY ONLY <3>3, <3>4 DEF KeywordOK
      <3>6. QED
        BY <3>5 DEF i
  <1>12. QED
    BY <1>1, <1>5, <1>6, <1>7, <1>11

(* What is done with a keyword that is no part of the control of files. *)
LEMMA OtherInv ==
  ASSUME ParserInv, outcome = "parsing", HandlingOther, SetTop(Done(Top)),
         deck' = deck \/ \E known \in BOOLEAN :
                           /\ known <=> Top.rawKeyword.name \in Known
                           /\ known => CanParse(Top.rawKeyword)
                           /\ deck' = Append(deck, NewDeckKeyword(Top.rawKeyword, known)),
         warnings' = warnings \/ warnings' = warnings \cup {Top.rawKeyword.at},
         UNCHANGED <<stop, outcome, input>>
  PROVE  ParserInv'
  <1> DEFINE f == Done(Top)
  <1>1. Top.pc \in {"finished", "ended"}
    BY DEF HandlingOther
  <1>2. /\ Top \in ParserState /\ Top.rawKeyword \in RawKeyword /\ PathOK(input, Top)
        /\ Grown(input, input, Top.file) /\ Extends(deck, deck)
        /\ Top.lineNR = Count(input, Top.file, Len(input)) /\ ~ stop
    BY <1>1, BeingHandled, WhileParsing
  <1>3. /\ f \in ParserState /\ f.file = Top.file /\ f.lineNR = Top.lineNR
        /\ f.rawKeyword = None /\ f.nextKeyword = Top.nextKeyword
        /\ f.path = Top.path /\ f.pc \in {"reading", "returning"}
    BY <1>2, DoneType
  <1>4. SetTop(f)
    OBVIOUS
  <1> HIDE DEF f
  <1>5. PathOK(input, f)
    BY <1>2, <1>3 DEF PathOK
  <1>6. FileOK(input, deck', f)
    BY <1>1, <1>3, <1>5, DoneOK
  <1>7. deck' \in Seq(DeckKeyword) /\ Extends(deck, deck') /\ DeckOK'
    <2>1. CASE deck' = deck
      BY <1>2, <2>1, WhileParsing DEF ParserInv, DeckOK
    <2>2. CASE deck' # deck
      <3>1. PICK known \in BOOLEAN :
              /\ known <=> Top.rawKeyword.name \in Known
              /\ known => CanParse(Top.rawKeyword)
              /\ deck' = Append(deck, NewDeckKeyword(Top.rawKeyword, known))
        BY <2>2
      <3>2. /\ deck' \in Seq(DeckKeyword) /\ Extends(deck, deck')
            /\ \A i \in DOMAIN deck' : KeywordOK(input, deck', i)
        BY <3>1, AddedToDeck
      <3>3. QED
        BY <3>2 DEF DeckOK
    <2>3. QED
      BY <2>1, <2>2
  <1>8. warnings' \subseteq Position
    BY <1>2 DEF ParserInv, TypeOK, RawKeyword
  <1>9. /\ Grown(input, input', Top.file) /\ FileOK(input', deck', f)
        /\ f.lineNR = Count(input', f.file, Len(input'))
        /\ stop' \in BOOLEAN /\ (stop' => f.pc = "returning") /\ outcome' = outcome
    BY <1>2, <1>3, <1>6 DEF ParserInv, TypeOK
  <1>10. QED
    BY <1>3, <1>4, <1>7, <1>8, <1>9, TopChanges

(* A keyword that is put into the deck (Parser.cpp:275-280),               *)
LEMMA InternalizeInv ==
  ASSUME ParserInv, outcome = "parsing", Internalize
  PROVE  ParserInv'
  <1>1. CASE ~ CanParse(Top.rawKeyword)
    BY <1>1, ThrowKeeps DEF Internalize
  <1>2. CASE CanParse(Top.rawKeyword)
    <2>1. /\ HandlingOther /\ SetTop(Done(Top)) /\ warnings' = warnings
          /\ UNCHANGED <<stop, outcome, input>> /\ Top.rawKeyword.name \in Known
          /\ deck' = Append(deck, NewDeckKeyword(Top.rawKeyword, TRUE))
      BY <1>2 DEF Internalize, AddToDeck
    <2>2. \E known \in BOOLEAN :
            /\ known <=> Top.rawKeyword.name \in Known
            /\ known => CanParse(Top.rawKeyword)
            /\ deck' = Append(deck, NewDeckKeyword(Top.rawKeyword, known))
      BY <1>2, <2>1
    <2>3. QED
      BY <2>1, <2>2, OtherInv
  <1>3. QED
    BY <1>1, <1>2

(* one that no parser knows (Parser.cpp:283-287)                           *)
LEMMA UnrecognisedInv ==
  ASSUME ParserInv, outcome = "parsing", Unrecognised
  PROVE  ParserInv'
  <1>1. /\ HandlingOther /\ SetTop(Done(Top)) /\ UNCHANGED <<stop, outcome, input>>
        /\ warnings' = warnings \cup {Top.rawKeyword.at}
        /\ Top.rawKeyword.name \notin Known
        /\ deck' = Append(deck, NewDeckKeyword(Top.rawKeyword, FALSE))
    BY DEF Unrecognised, AddToDeck
  <1>2. \E known \in BOOLEAN :
          /\ known <=> Top.rawKeyword.name \in Known
          /\ known => CanParse(Top.rawKeyword)
          /\ deck' = Append(deck, NewDeckKeyword(Top.rawKeyword, known))
    BY <1>1
  <1>3. QED
    BY <1>1, <1>2, OtherInv

(* and one that is known and ignored (Parser.cpp:276-282).                 *)
LEMMA IgnoreInv ==
  ASSUME ParserInv, outcome = "parsing", Ignore
  PROVE  ParserInv'
  <1>1. /\ HandlingOther /\ SetTop(Done(Top)) /\ UNCHANGED <<stop, outcome, input>>
        /\ warnings' = warnings \/ warnings' = warnings \cup {Top.rawKeyword.at}
        /\ deck' = deck
    BY DEF Ignore
  <1>2. QED
    BY <1>1, OtherInv

(* INCLUDE: the file that is opened has read no line, and the one that     *)
(* includes it waits.                                                      *)
LEMMA IncludeInv ==
  ASSUME ParserInv, outcome = "parsing", Include
  PROVE  ParserInv'
  <1> DEFINE records == Top.rawKeyword.records
             value == FirstItem(records[1])
             n == Len(files)
             g == [Top EXCEPT !.path = PathAfter(value)]
             h == NewFile(Len(input))
  <1>1. Top.pc \in {"finished", "ended"} /\ Top.rawKeyword.name = "INCLUDE" /\ input' = input
    BY DEF Include, Handling
  <1>2. CASE ~ (records # <<>> /\ IncludeFile(value) \in Readable)
    <2>1. Throw
      BY <1>2 DEF Include
    <2>2. QED
      BY <1>1, <2>1, ThrowKeeps
  <1>3. CASE records # <<>> /\ IncludeFile(value) \in Readable
    <2>1. /\ Top \in ParserState /\ Top.path \in Value \cup {None, Blank}
          /\ Top.rawKeyword \in RawKeyword /\ FileOK(input, deck, Top) /\ PathOK(input, Top)
          /\ RawOK(input, deck, Top.rawKeyword, Top.file) /\ Top.file \in Nat
          /\ Top.lineNR = Count(input, Top.file, Len(input)) /\ ~ stop
          /\ input \in Inputs /\ Len(input) \in Nat /\ DOMAIN input = 1 .. Len(input)
      BY <1>1, BeingHandled, WhileParsing
    <2>2. /\ files \in Seq(ParserState) /\ n \in Nat /\ n >= 1 /\ DOMAIN files = 1 .. n
          /\ Top = files[n]
      BY WhileParsing DEF Top
    <2>3. /\ files' = Append([files EXCEPT ![n].path = PathAfter(value)], h)
          /\ UNCHANGED <<deck, warnings, stop, outcome>>
      BY <1>3 DEF Include, IncludedBy
    <2>4. /\ g \in ParserState /\ g.file = Top.file /\ g.lineNR = Top.lineNR
          /\ g.rawKeyword = Top.rawKeyword /\ g.nextKeyword = Top.nextKeyword
          /\ g.path = PathAfter(value) /\ g.pc = Top.pc
      <3>1. PathAfter(value) \in Value \cup {None, Blank}
        BY <2>1 DEF PathAfter
      <3>2. QED
        BY <2>1, <3>1 DEF ParserState
    <2>5. /\ h \in ParserState /\ h.file = Len(input) /\ h.lineNR = 0 /\ h.rawKeyword = None
          /\ h.nextKeyword = None /\ h.path = None /\ h.pc = "reading"
      BY <2>1 DEF NewFile, ParserState
    <2>6. [files EXCEPT ![n].path = PathAfter(value)] = [files EXCEPT ![n] = g]
      BY <2>2
    <2> DEFINE outer == [files EXCEPT ![n] = g]
    <2>7. /\ outer \in Seq(ParserState) /\ Len(outer) = n /\ outer[n] = g
          /\ \A m \in 1 .. n : m # n => outer[m] = files[m]
      <3> HIDE DEF g, n
      <3>1. QED
        BY <2>2, <2>4
    <2>8. files' = Append(outer, h)
      BY <2>3, <2>6
    <2> HIDE DEF outer, g, h
    <2>9. /\ files' \in Seq(ParserState) /\ Len(files') = n + 1 /\ DOMAIN files' = 1 .. n + 1
          /\ files'[n + 1] = h /\ files'[n] = g /\ files' # <<>>
          /\ \A m \in 1 .. n : m # n => files'[m] = files[m]
      <3>1. outer \in Seq(ParserState) /\ h \in ParserState
        BY <2>5, <2>7
      <3>2. /\ files' \in Seq(ParserState) /\ Len(files') = Len(outer) + 1
            /\ DOMAIN files' = 1 .. Len(outer) + 1 /\ files'[Len(outer) + 1] = h
            /\ \A i \in 1 .. Len(outer) : files'[i] = outer[i]
        BY <2>8, <3>1, OneMore
      <3> HIDE DEF n
      <3>3. QED
        BY <2>2, <2>7, <3>2
    <2> HIDE DEF n
    <2>10. PathOK(input, g)
      <3>1. CASE value = Alias /\ Top.path = None
        <4>1. records \in Seq(Seq(Position))
          BY <2>1 DEF RawKeyword
        <4>2. 1 \in DOMAIN records
          BY <1>3, <4>1
        <4>3. value \notin {Default, Word}
          BY <3>1, ParserStreamAssumption
        <4>4. PICK p \in 1 .. Len(input) :
                /\ input[p].file = Top.file /\ value = input[p].line.value
                /\ value \notin {Default, Word} =>
                     input[p].line.kind \in {"text", "end"} /\ value \in Value
          BY <1>1, <4>2, FirstItemFacts
        <4>5. QED
          BY <2>4, <3>1, <4>3, <4>4 DEF PathOK
      <3>2. CASE ~ (value = Alias /\ Top.path = None)
        BY <2>1, <2>4, <3>2 DEF PathAfter, PathOK
      <3>3. QED
        BY <3>1, <3>2
    <2>11. FileOK(input, deck, g)
      BY <2>1, <2>4, <2>10 DEF FileOK, NextOK
    <2>12. FileOK(input, deck, h)
      BY <2>1, <2>5 DEF FileOK, NextOK, PathOK
    <2>13. Top.file < Len(input)
      <3>1. Top.rawKeyword.at \in 1 .. Len(input) /\ input[Top.rawKeyword.at].file = Top.file
        BY <2>1 DEF RawOK, Placed
      <3>2. Top.file < Top.rawKeyword.at
        BY <2>1, <3>1 DEF ParserInv, InputOK
      <3>3. QED
        BY <2>1, <3>1, <3>2
    <2>14. Waiting(g)
      <3>1. Top.rawKeyword # None
        BY <2>1, ConstantFacts
      <3>2. QED
        BY <1>1, <2>4, <3>1 DEF Waiting
    <2>15. ASSUME NEW m \in 1 .. n, m # n
           PROVE  /\ FileOK(input, deck, files[m]) /\ Waiting(files[m])
                  /\ files[m].file < Top.file /\ files[m].file \in Nat
                  /\ files[m].lineNR = Count(input, files[m].file, Len(input))
      <3>1. m < n /\ n \in DOMAIN files /\ m \in DOMAIN files
        BY <2>2, <2>15
      <3>2. /\ FileOK(input, deck, files[m]) /\ Waiting(files[m])
            /\ files[m].file < Top.file
        BY <2>2, <3>1 DEF ParserInv, StackOK
      <3>3. files[m].lineNR = Count(input, files[m].file, Len(input))
        BY <3>1 DEF ParserInv, LinesCounted
      <3>4. files[m] \in ParserState
        BY <2>2
      <3>5. QED
        BY <3>2, <3>3, <3>4 DEF ParserState
    <2>16. StackOK'
      <3>1. ASSUME NEW m \in 1 .. n + 1
            PROVE  FileOK(input, deck, files'[m])
        <4>1. CASE m = n + 1
          BY <2>9, <2>12, <4>1
        <4>2. CASE m = n
          BY <2>9, <2>11, <4>2
        <4>3. CASE m \in 1 .. n /\ m # n
          BY <2>9, <2>15, <4>3
        <4>4. QED
          BY <2>2, <4>1, <4>2, <4>3
      <3>2. ASSUME NEW l \in 1 .. n + 1, NEW m \in 1 .. n + 1, l < m
            PROVE  files'[l].file < files'[m].file /\ Waiting(files'[l])
        <4>1. l \in 1 .. n
          BY <2>2, <3>2
        <4>2. CASE l = n
          <5>1. m = n + 1
            BY <2>2, <3>2, <4>2
          <5>2. QED
            BY <2>4, <2>5, <2>9, <2>13, <2>14, <4>2, <5>1
        <4>3. CASE l # n /\ m = n + 1
          <5>1. files'[l] = files[l] /\ files'[m] = h
            BY <2>9, <4>1, <4>3
          <5>2. files[l].file < Top.file /\ files[l].file \in Nat /\ Waiting(files[l])
            BY <2>15, <4>1, <4>3
          <5>3. QED
            BY <2>1, <2>5, <2>13, <5>1, <5>2
        <4>4. CASE l # n /\ m = n
          BY <2>4, <2>9, <2>15, <4>1, <4>4
        <4>5. CASE l # n /\ m \in 1 .. n /\ m # n
          <5>1. files'[l] = files[l] /\ files'[m] = files[m]
            BY <2>9, <4>1, <4>5
          <5>2. files[l].file < files[m].file /\ Waiting(files[l])
            BY <2>2, <3>2, <4>1, <4>5 DEF ParserInv, StackOK
          <5>3. QED
            BY <5>1, <5>2
        <4>6. QED
          BY <2>2, <4>2, <4>3, <4>4, <4>5
      <3>3. input' = input /\ deck' = deck
        BY <1>1, <2>3
      <3>4. QED
        BY <2>9, <3>1, <3>2, <3>3 DEF StackOK
    <2>17. LinesCounted'
      <3>1. Count(input, Len(input), Len(input)) = 0
        <4>1. \A p \in 1 .. Len(input) : input[p].file # Len(input)
          <5> TAKE p \in 1 .. Len(input)
          <5>1. input[p].file < p
            BY <2>1 DEF ParserInv, InputOK
          <5>2. QED
            BY <2>1, <5>1
        <4>2. QED
          BY <2>1, <4>1, CountNothing
      <3>2. ASSUME NEW m \in 1 .. n + 1
            PROVE  files'[m].lineNR = Count(input, files'[m].file, Len(input))
        <4>1. CASE m = n + 1
          BY <2>5, <2>9, <3>1, <4>1
        <4>2. CASE m = n
          BY <2>1, <2>4, <2>9, <4>2
        <4>3. CASE m \in 1 .. n /\ m # n
          BY <2>9, <2>15, <4>3
        <4>4. QED
          BY <2>2, <4>1, <4>2, <4>3
      <3>3. QED
        BY <1>1, <2>9, <3>2 DEF LinesCounted
    <2>18. TypeOK' /\ InputOK' /\ DeckOK' /\ StopOK'
      <3>1. (files' = <<>>) = (outcome' = "parsed")
        BY <2>3, <2>9
      <3>2. TypeOK'
        BY <1>1, <2>3, <2>9, <3>1 DEF ParserInv, TypeOK
      <3>3. InputOK' /\ DeckOK' /\ StopOK'
        BY <1>1, <2>1, <2>3 DEF ParserInv, InputOK, DeckOK, StopOK
      <3>4. QED
        BY <3>2, <3>3
    <2>19. QED
      BY <2>16, <2>17, <2>18 DEF ParserInv
  <1>4. QED
    BY <1>2, <1>3

(* The innermost file is left, and the one that waited goes on or returns  *)
(* as well.                                                                *)
LEMMA ReturnInv ==
  ASSUME ParserInv, outcome = "parsing", Return
  PROVE  ParserInv'
  <1> DEFINE n == Len(files) - 1
             outer == SubSeq(files, 1, n)
  <1>1. /\ files \in Seq(ParserState) /\ Len(files) \in Nat /\ Len(files) >= 1
        /\ DOMAIN files = 1 .. Len(files) /\ n \in Nat
    BY WhileParsing
  <1>2. /\ outer \in Seq(ParserState) /\ Len(outer) = n
        /\ \A m \in 1 .. n : outer[m] = files[m]
    BY <1>1
  <1>3. /\ files' = IF n = 0 THEN <<>> ELSE [outer EXCEPT ![n] = Resumed(@)]
        /\ outcome' = Result(n)
        /\ UNCHANGED <<deck, warnings, stop, input>>
    <2>1. /\ files' = IF Len(outer) = 0 THEN <<>>
                      ELSE [outer EXCEPT ![Len(outer)] = Resumed(@)]
          /\ outcome' = Result(Len(outer))
          /\ UNCHANGED <<deck, warnings, stop, input>>
      BY DEF Return
    <2>2. QED
      BY <1>2, <2>1
  <1>4. InputOK' /\ DeckOK'
    BY <1>3 DEF ParserInv, InputOK, DeckOK
  <1> HIDE DEF outer
  <1>5. CASE n = 0
    <2>1. files' = <<>> /\ DOMAIN files' = {} /\ outcome' = "parsed"
      BY <1>3, <1>5 DEF Result
    <2>2. StackOK' /\ LinesCounted' /\ StopOK'
      BY <2>1 DEF StackOK, LinesCounted, StopOK
    <2>3. (files' = <<>>) = (outcome' = "parsed") /\ files' \in Seq(ParserState)
      BY <2>1
    <2>4. TypeOK'
      BY <1>3, <2>1, <2>3 DEF ParserInv, TypeOK
    <2>5. QED
      BY <1>4, <2>2, <2>4 DEF ParserInv
  <1>6. CASE n # 0
    <2> DEFINE s == files[n]
               f == Resumed(s)
    <2>1. n \in 1 .. n /\ n \in DOMAIN files /\ n + 1 \in DOMAIN files /\ n < n + 1
          /\ Len(files) = n + 1
      BY <1>1, <1>6
    <2> HIDE DEF n
    <2>2. /\ s \in ParserState /\ FileOK(input, deck, s) /\ Waiting(s)
          /\ s.lineNR = Count(input, s.file, Len(input))
      BY <1>1, <2>1 DEF ParserInv, StackOK, LinesCounted
    <2>3. s.rawKeyword \in RawKeyword /\ s.rawKeyword # None /\ s.nextKeyword = None
      <3>1. RawType("INCLUDE") # "UNKNOWN"
        BY ConstantFacts DEF RawType
      <3>2. s.rawKeyword.type = RawType(s.rawKeyword.name) /\ s.rawKeyword \in RawKeyword
        BY <2>2 DEF FileOK, RawOK, Waiting, ParserState
      <3>3. QED
        BY <2>2, <3>1, <3>2 DEF Waiting, FileOK, NextOK
    <2>4. /\ f \in ParserState /\ f.file = s.file /\ f.lineNR = s.lineNR
          /\ f.nextKeyword = None /\ f.path = s.path /\ f.pc \in {"reading", "returning"}
          /\ f.rawKeyword \in {None, s.rawKeyword}
          /\ f.pc = "reading" => f.rawKeyword = None
          /\ stop => f.pc = "returning"
      <3>1. CASE stop
        <4>1. f = [s EXCEPT !.pc = "returning"]
          BY <3>1 DEF Resumed
        <4> HIDE DEF f
        <4>2. QED
          BY <2>2, <2>3, <3>1, <4>1 DEF ParserState
      <3>2. CASE ~ stop
        <4>1. f = Done(s)
          BY <3>2 DEF Resumed
        <4>2. QED
          BY <2>2, <2>3, <3>2, <4>1, DoneType
      <3>3. QED
        BY <3>1, <3>2
    <2> HIDE DEF s
    <2>5. FileOK(input, deck, f)
      BY <2>2, <2>4 DEF FileOK, NextOK, PathOK
    <2>6. /\ files' \in Seq(ParserState) /\ Len(files') = n /\ DOMAIN files' = 1 .. n
          /\ files'[n] = f /\ files' # <<>>
          /\ \A m \in 1 .. n : m # n => files'[m] = files[m]
      <3>1. files' = [outer EXCEPT ![n] = f]
        BY <1>2, <1>3, <1>6, <2>1 DEF s
      <3> HIDE DEF f
      <3>2. QED
        BY <1>1, <1>2, <2>1, <2>4, <3>1
    <2> HIDE DEF f
    <2>7. ASSUME NEW m \in 1 .. n, m # n
          PROVE  /\ FileOK(input, deck, files[m]) /\ Waiting(files[m])
                 /\ files[m].file < s.file
                 /\ files[m].lineNR = Count(input, files[m].file, Len(input))
      <3>1. m < n /\ m \in DOMAIN files
        BY <1>1, <2>1, <2>7
      <3>2. FileOK(input, deck, files[m]) /\ Waiting(files[m]) /\ files[m].file < s.file
        BY <2>1, <3>1 DEF ParserInv, StackOK, s
      <3>3. files[m].lineNR = Count(input, files[m].file, Len(input))
        BY <3>1 DEF ParserInv, LinesCounted
      <3>4. QED
        BY <3>2, <3>3
    <2>8. StackOK'
      <3>1. ASSUME NEW m \in 1 .. n
            PROVE  FileOK(input, deck, files'[m])
        BY <2>5, <2>6, <2>7
      <3>2. ASSUME NEW l \in 1 .. n, NEW m \in 1 .. n, l < m
            PROVE  files'[l].file < files'[m].file /\ Waiting(files'[l])
        <4>1. l # n /\ files'[l] = files[l] /\ Waiting(files[l])
          <5>1. l # n
            BY <1>1, <3>2
          <5>2. QED
            BY <2>6, <2>7, <5>1
        <4>2. CASE m = n
          BY <2>4, <2>6, <2>7, <4>1, <4>2
        <4>3. CASE m # n
          <5>1. l \in DOMAIN files /\ m \in DOMAIN files /\ files'[m] = files[m]
            BY <1>1, <2>1, <2>6, <4>3
          <5>2. files[l].file < files[m].file
            BY <3>2, <5>1 DEF ParserInv, StackOK
          <5>3. QED
            BY <4>1, <5>1, <5>2
        <4>4. QED
          BY <4>2, <4>3
      <3>3. QED
        BY <1>3, <2>6, <3>1, <3>2 DEF StackOK
    <2>9. LinesCounted'
      <3>1. \A m \in 1 .. n :
              files'[m].lineNR = Count(input, files'[m].file, Len(input))
        BY <2>2, <2>4, <2>6, <2>7
      <3>2. QED
        BY <1>3, <2>6, <3>1 DEF LinesCounted
    <2>10. StopOK'
      <3>1. Top' = f
        BY <2>6 DEF Top
      <3>2. QED
        BY <1>3, <2>4, <3>1 DEF StopOK
    <2>11. outcome' = outcome
      BY <1>3, <1>6 DEF Result
    <2>12. (files' = <<>>) = (outcome' = "parsed")
      BY <2>6, <2>11
    <2>13. TypeOK'
      BY <1>3, <2>6, <2>11, <2>12 DEF ParserInv, TypeOK
    <2>14. QED
      BY <1>4, <2>8, <2>9, <2>10, <2>13 DEF ParserInv
  <1>7. QED
    BY <1>5, <1>6
-----------------------------------------------------------------------------
(* Every line read, every keyword handled and every file opened or left    *)
(* keeps the files, the keywords begun and the deck as described           *)
(* (Parser.cpp:238-297 and 361-400).                                       *)
THEOREM ParserInvariant == Spec => []ParserInv
  <1>1. ASSUME ParserInv, [Next]_vars
        PROVE  ParserInv'
    <2>1. CASE UNCHANGED vars
      BY <1>1, <2>1 DEF vars, ParserInv, TypeOK, InputOK, StackOK, LinesCounted, DeckOK,
                        StopOK, Top
    <2>2. CASE Next
      <3>1. outcome = "parsing" /\ Step
        BY <2>2 DEF Next
      <3>2. CASE StartNext
        BY <1>1, <3>1, <3>2, StartNextInv
      <3>3. ASSUME NEW l \in Line, ReadLine(l)
            PROVE  ParserInv'
        BY <1>1, <3>1, <3>3, ReadLineInv
      <3>4. CASE EndOfFile
        BY <1>1, <3>1, <3>4, EndOfFileInv
      <3>5. CASE End \/ EndInclude
        BY <1>1, <3>1, <3>5, EndInv
      <3>6. CASE Paths
        BY <1>1, <3>1, <3>6, PathsInv
      <3>7. CASE Include
        BY <1>1, <3>1, <3>7, IncludeInv
      <3>8. CASE Internalize
        BY <1>1, <3>1, <3>8, InternalizeInv
      <3>9. CASE Ignore
        BY <1>1, <3>1, <3>9, IgnoreInv
      <3>10. CASE Unrecognised
        BY <1>1, <3>1, <3>10, UnrecognisedInv
      <3>11. CASE Return
        BY <1>1, <3>1, <3>11, ReturnInv
      <3>12. QED
        BY <3>1, <3>2, <3>3, <3>4, <3>5, <3>6, <3>7, <3>8, <3>9, <3>10, <3>11 DEF Step
    <2>3. QED
      BY <1>1, <2>1, <2>2
  <1>2. QED
    BY <1>1, InitParserInv, PTL DEF Spec

(* The keywords of the deck follow each other as in the input, across      *)
(* INCLUDE and its return, each with its lines behind its name and the     *)
(* line number of its name in its own file, for parseStream() shares one   *)
(* deck and keeps one raw keyword per file (Parser.cpp:238-297).           *)
THEOREM LinesAreKept == Spec => []KeywordsKeepTheirLines
  <1>1. ASSUME ParserInv
        PROVE  KeywordsKeepTheirLines
    <2>1. /\ deck \in Seq(DeckKeyword) /\ files \in Seq(ParserState)
          /\ DOMAIN deck = 1 .. Len(deck) /\ Len(deck) \in Nat
          /\ \A i \in DOMAIN deck : KeywordOK(input, deck, i)
          /\ \A n \in DOMAIN files : FileOK(input, deck, files[n])
      BY <1>1 DEF ParserInv, TypeOK, DeckOK, StackOK
    <2>2. ASSUME NEW k \in Open \cup {deck[i] : i \in DOMAIN deck}
          PROVE  /\ Placed(input, k, FileOf(k.at))
                 /\ k.records \in Seq(Seq(Position))
      <3>1. CASE k \in Open
        <4>1. PICK n \in DOMAIN files : k = files[n].rawKeyword /\ k # None
          BY <3>1 DEF Open
        <4>2. RawOK(input, deck, k, files[n].file)
          BY <2>1, <4>1 DEF FileOK
        <4>3. Placed(input, k, files[n].file)
          BY <4>2 DEF RawOK
        <4>4. FileOf(k.at) = files[n].file
          BY <4>3 DEF Placed, FileOf
        <4>5. files[n] \in ParserState
          BY <2>1
        <4>6. k \in RawKeyword
          BY <4>1, <4>5 DEF ParserState
        <4>7. QED
          BY <4>3, <4>4, <4>6 DEF RawKeyword
      <3>2. CASE k \in {deck[i] : i \in DOMAIN deck}
        <4>1. PICK i \in DOMAIN deck : k = deck[i]
          BY <3>2
        <4>2. KeywordOK(input, deck, i) /\ k \in DeckKeyword
          BY <2>1, <4>1
        <4>3. QED
          BY <4>1, <4>2 DEF KeywordOK, DeckKeyword, FileOf
      <3>3. QED
        BY <3>1, <3>2
    <2>3. ASSUME NEW k \in Open \cup {deck[i] : i \in DOMAIN deck}
          PROVE  /\ InOrder(k)
                 /\ k.lineNR = Cardinality({p \in 1 .. k.at : FileOf(p) = FileOf(k.at)})
                 /\ \A p \in LinesOf(k) : k.at < p /\ FileOf(p) = FileOf(k.at)
      <3>1. Placed(input, k, FileOf(k.at))
        BY <2>2
      <3>2. k.lineNR = Cardinality({p \in 1 .. k.at : FileOf(p) = FileOf(k.at)})
        BY <3>1 DEF Placed, Count, FileOf
      <3>3. ASSUME NEW p \in LinesOf(k)
            PROVE  k.at < p /\ FileOf(p) = FileOf(k.at)
        <4>1. PICK r \in DOMAIN k.records : p \in {k.records[r][x] : x \in DOMAIN k.records[r]}
          BY DEF LinesOf
        <4>2. PICK x \in DOMAIN k.records[r] : p = k.records[r][x]
          BY <4>1
        <4>3. QED
          BY <3>1, <4>2 DEF Placed, FileOf
      <3>4. QED
        BY <3>1, <3>2, <3>3 DEF Placed
    <2>4. ASSUME NEW i \in DOMAIN deck, NEW j \in DOMAIN deck, i < j,
                 NEW p \in LinesOf(deck[i]) \cup {deck[i].at}
          PROVE  p < deck[j].at
      <3>1. Below(deck[i], deck[j].at)
        BY <2>1, <2>4 DEF KeywordOK
      <3>2. CASE p = deck[i].at
        BY <3>1, <3>2 DEF Below
      <3>3. CASE p \in LinesOf(deck[i])
        <4>1. PICK r \in DOMAIN deck[i].records :
                p \in {deck[i].records[r][x] : x \in DOMAIN deck[i].records[r]}
          BY <3>3 DEF LinesOf
        <4>2. PICK x \in DOMAIN deck[i].records[r] : p = deck[i].records[r][x]
          BY <4>1
        <4>3. QED
          BY <3>1, <4>2 DEF Below
      <3>4. QED
        BY <3>2, <3>3
    <2>5. QED
      BY <2>3, <2>4 DEF KeywordsKeepTheirLines
  <1>2. QED
    BY <1>1, ParserInvariant, PTL

(* No half keyword gets into the deck, however its size is known: by       *)
(* number, by an earlier keyword, by tables, by a slash or by the next     *)
(* name (Parser.cpp:312-352, RawKeyword.cpp:78-112).                       *)
THEOREM NoHalfKeywords == Spec => []DeckKeywordsAreWhole
  <1>1. ASSUME ParserInv
        PROVE  DeckKeywordsAreWhole
    <2> DEFINE records(i) == deck[i].records
               slashes(i) == {r \in DOMAIN records(i) : IsSlash(records(i)[r])}
               shape(i) == Shape[deck[i].name]
    <2> SUFFICES ASSUME NEW i \in DOMAIN deck, deck[i].known
                 PROVE  CASE shape(i).tables -> Cardinality(slashes(i)) = Expected(i) - 1
                          [] shape(i).size \in {"FIXED", "OTHER"} /\ ~ shape(i).tables ->
                               Len(records(i)) = Expected(i)
                          [] shape(i).size = "SLASH" -> slashes(i) = {}
                          [] shape(i).size = "UNKNOWN" ->
                               /\ slashes(i) = {}
                               /\ \A p \in LinesOf(deck[i]) :
                                    ~(input[p].line.kind = "name" /\ input[p].line.exact
                                        /\ input[p].line.name \in Known)
      BY DEF DeckKeywordsAreWhole
    <2>1. /\ KeywordOK(input, deck, i) /\ deck[i].name \in Known
          /\ Whole(input, deck[i], TargetAt(input, deck, i - 1, deck[i].name))
      <3>1. KeywordOK(input, deck, i)
        BY <1>1 DEF ParserInv, DeckOK
      <3>2. QED
        BY <3>1 DEF KeywordOK
    <2>2. slashes(i) = Slashes(input, deck[i].records)
      BY DEF IsSlash, SlashIn, Slashes
    <2>3. Expected(i) = TargetAt(input, deck, i - 1, deck[i].name)
      <3>1. \A k : SizeBefore(i, k) = SizeAsked(input, deck, i - 1, k)
        BY DEF SizeBefore, SizeAsked, FirstItem
      <3>2. QED
        BY <2>1, <3>1 DEF Expected, TargetAt
    <2>4. /\ shape(i).size \in {"FIXED", "OTHER", "SLASH", "UNKNOWN"}
          /\ shape(i).tables \in BOOLEAN
          /\ shape(i).tables => shape(i).size = "OTHER"
      BY <2>1, ConstantFacts
    <2>5. /\ shape(i).tables => RawType(deck[i].name) = "TABLES"
          /\ shape(i).size \in {"FIXED", "OTHER"} /\ ~ shape(i).tables =>
               RawType(deck[i].name) = "FIXED"
          /\ shape(i).size \in {"SLASH", "UNKNOWN"} => RawType(deck[i].name) = shape(i).size
      BY <2>1, <2>4 DEF RawType
    <2>6. ASSUME shape(i).size = "UNKNOWN", NEW p \in LinesOf(deck[i])
          PROVE  ~ KnownName(input, p)
      <3>1. NoNamesIn(input, deck[i].records)
        BY <2>1, <2>5, <2>6 DEF Whole
      <3>2. PICK r \in DOMAIN deck[i].records :
              p \in {deck[i].records[r][x] : x \in DOMAIN deck[i].records[r]}
        BY <2>6 DEF LinesOf
      <3>3. PICK x \in DOMAIN deck[i].records[r] : p = deck[i].records[r][x]
        BY <3>2
      <3>4. QED
        BY <3>1, <3>3 DEF NoNamesIn, NoNames
    <2> DEFINE unread == \A p \in LinesOf(deck[i]) : ~ KnownName(input, p)
               target == TargetAt(input, deck, i - 1, deck[i].name)
    <2>7. /\ shape(i).tables => Cardinality(slashes(i)) = target - 1
          /\ shape(i).size \in {"FIXED", "OTHER"} /\ ~ shape(i).tables =>
               Len(records(i)) = target
          /\ shape(i).size \in {"SLASH", "UNKNOWN"} => slashes(i) = {}
          /\ shape(i).size = "UNKNOWN" => unread
      BY <2>1, <2>2, <2>5, <2>6 DEF Whole
    <2> HIDE DEF slashes
    <2>8. CASE shape(i).tables
      BY <2>3, <2>4, <2>7, <2>8
    <2>9. CASE shape(i).size \in {"FIXED", "OTHER"} /\ ~ shape(i).tables
      BY <2>3, <2>4, <2>7, <2>9
    <2>10. CASE shape(i).size = "SLASH"
      BY <2>4, <2>7, <2>10
    <2>11. CASE shape(i).size = "UNKNOWN"
      BY <2>4, <2>7, <2>11 DEF KnownName
    <2>12. QED
      BY <2>4, <2>8, <2>9, <2>10, <2>11
  <1>2. QED
    BY <1>1, ParserInvariant, PTL

(* An alias belongs to the file that defines it, whatever file includes or *)
(* is included (Parser.cpp:214-235 and 252-259).                           *)
THEOREM AliasesStayLocal == Spec => []AliasesAreLocal
  <1>1. ASSUME ParserInv
        PROVE  AliasesAreLocal
    <2> SUFFICES ASSUME NEW n \in DOMAIN files, files[n].path # None
                 PROVE  \E p \in DOMAIN input :
                          /\ FileOf(p) = files[n].file
                          /\ input[p].line.kind \in {"text", "end"}
                          /\ input[p].line.value \in {files[n].path, Alias}
      BY DEF AliasesAreLocal
    <2>1. PathOK(input, files[n])
      BY <1>1 DEF ParserInv, StackOK, FileOK
    <2>2. DOMAIN input = 1 .. Len(input)
      BY <1>1 DEF ParserInv, TypeOK
    <2>3. QED
      BY <2>1, <2>2 DEF PathOK, FileOf
  <1>2. QED
    BY <1>1, ParserInvariant, PTL

(* After END no file reads another line and the deck stays as it is        *)
(* (Parser.cpp:245-248 and 291-297).                                       *)
THEOREM EndIsForAllFiles == Spec => EndStopsEveryFile
  <1>1. ASSUME ParserInv, [Next]_vars
        PROVE  [stop => UNCHANGED <<deck, input>>]_vars
    <2>1. CASE UNCHANGED vars
      BY <2>1
    <2>2. CASE Next
      <3> SUFFICES ASSUME stop
                   PROVE  UNCHANGED <<deck, input>>
        OBVIOUS
      <3>1. outcome = "parsing" /\ Step
        BY <2>2 DEF Next
      <3>2. Top.pc = "returning"
        BY <1>1, <3>1, WhileParsing
      <3>3. QED
        BY <3>1, <3>2 DEF Step, StartNext, ReadLine, EndOfFile, End, EndInclude, Paths,
                          Include, Internalize, Ignore, Unrecognised, Return, Handling,
                          HandlingOther
    <2>3. QED
      BY <1>1, <2>1, <2>2
  <1>2. QED
    BY <1>1, ParserInvariant, PTL DEF Spec, EndStopsEveryFile

-----------------------------------------------------------------------------
(* Where a known name may be: in a keyword of the deck, in the keyword     *)
(* that is read, or in nextKeyword; or the parser has swallowed it.        *)
InDeck(dk, p) == \E i \in DOMAIN dk : p \in LinesOf(dk[i]) \cup {dk[i].at}

InRaw(raw, p) ==
  p \in LinesOf(raw) \cup {raw.at} \/ \E x \in DOMAIN raw.partial : raw.partial[x] = p

InFile(inp, f, p) ==
  \/ f.rawKeyword # None /\ InRaw(f.rawKeyword, p)
  \/ f.nextKeyword # None /\ p = Len(inp)

NamesKept ==
  \A p \in DOMAIN input : KnownName(input, p) =>
    InDeck(deck, p) \/ Swallowed(p) \/ (files # <<>> /\ InFile(input, Top, p))

(* The deck ends with a keyword of unknown size.                           *)
AfterUnknown(dk) ==
  dk # <<>> /\ dk[Len(dk)].known /\ Shape[dk[Len(dk)].name].size = "UNKNOWN"

(* A keyword is finished and the file still reads, or it has a line that   *)
(* is in no record: it has no records, and its name has ended a keyword of *)
(* unknown size (Parser.cpp:361-367 and 386-389).                          *)
Early(inp, dk, f) ==
  LET raw == f.rawKeyword
  IN  /\ AfterUnknown(dk) /\ raw.name \in Known /\ raw.records = <<>>
      /\ IF f.pc = "reading" THEN raw.partial = <<>> /\ raw.at = Len(inp)
                             ELSE raw.partial = <<raw.at + 1>>

(* What a file still has to hand over, besides the lines of its keyword.   *)
HandsOver(inp, dk, f) ==
  /\ f.pc = "returning" => f.rawKeyword = None
  /\ f.pc \in {"ended", "returning"} => f.nextKeyword = None
  /\ f.nextKeyword # None =>
       IF f.rawKeyword = None THEN AfterUnknown(dk) ELSE f.pc = "finished"
  /\ f.rawKeyword # None /\ f.rawKeyword.finished /\ f.rawKeyword.type # "UNKNOWN" =>
       IF f.rawKeyword.type = "FIXED" /\ (f.pc = "reading" \/ f.rawKeyword.partial # <<>>)
         THEN Early(inp, dk, f) ELSE f.rawKeyword.partial = <<>>

(* The inductive invariant of NoKeywordIsLost.                             *)
NamesInv ==
  outcome # "thrown" =>
    /\ Len(files) <= 1
    /\ files # <<>> => HandsOver(input, deck, Top)
    /\ NamesKept

(* A deck of one file, all of whose keywords go into it.                   *)
OnlyRecords ==
  /\ Name \cap {"END", "ENDINC", "PATHS", "INCLUDE"} = {}
  /\ \A k \in Known : Shape[k].action \notin {"IGNORE", "IGNORE_WARNING"}

(* A name that was in the deck stays there, and so does what has swallowed *)
(* one.                                                                    *)
LEMMA InDeckStays ==
  ASSUME NEW dk \in Seq(DeckKeyword), NEW more \in Seq(DeckKeyword), Extends(dk, more),
         NEW p, InDeck(dk, p)
  PROVE  InDeck(more, p)
  <1>1. PICK i \in DOMAIN dk : p \in LinesOf(dk[i]) \cup {dk[i].at}
    BY DEF InDeck
  <1>2. i \in DOMAIN more /\ more[i] = dk[i]
    BY DEF Extends
  <1>3. QED
    BY <1>1, <1>2 DEF InDeck

(* The size a keyword of the deck had is that of the invariant.            *)
LEMMA ExpectedIs ==
  ASSUME NEW i \in DOMAIN deck, deck[i].name \in Known
  PROVE  Expected(i) = TargetAt(input, deck, i - 1, deck[i].name)
  <1>1. \A k : SizeBefore(i, k) = SizeAsked(input, deck, i - 1, k)
    BY DEF SizeBefore, SizeAsked, FirstItem
  <1>2. QED
    BY <1>1 DEF Expected, TargetAt

(* Swallowed() of any input and deck.                                      *)
SwallowedIn(inp, dk, p) ==
  \E i \in DOMAIN dk \ {1} :
    /\ dk[i].at = p - 1 /\ dk[i].known
    /\ Shape[dk[i].name].size # "SLASH" /\ TargetAt(inp, dk, i - 1, dk[i].name) = 0
    /\ dk[i - 1].known /\ Shape[dk[i - 1].name].size = "UNKNOWN"

LEMMA SwallowedIs ==
  ASSUME ParserInv, NEW p
  PROVE  Swallowed(p) <=> SwallowedIn(input, deck, p)
  <1>1. ASSUME NEW i \in DOMAIN deck, deck[i].known
        PROVE  Expected(i) = TargetAt(input, deck, i - 1, deck[i].name)
    <2>1. KeywordOK(input, deck, i)
      BY DEF ParserInv, DeckOK
    <2>2. QED
      BY <1>1, <2>1, ExpectedIs DEF KeywordOK
  <1>2. QED
    BY <1>1 DEF Swallowed, SwallowedIn

LEMMA SwallowedStays ==
  ASSUME NEW inp \in Inputs, NEW new \in Inputs, Extends(inp, new),
         NEW dk \in Seq(DeckKeyword), NEW more \in Seq(DeckKeyword), Extends(dk, more),
         \A i \in DOMAIN dk : KeywordOK(inp, dk, i),
         NEW p, SwallowedIn(inp, dk, p)
  PROVE  SwallowedIn(new, more, p)
  <1>1. PICK i \in DOMAIN dk \ {1} :
          /\ dk[i].at = p - 1 /\ dk[i].known
          /\ Shape[dk[i].name].size # "SLASH" /\ TargetAt(inp, dk, i - 1, dk[i].name) = 0
          /\ dk[i - 1].known /\ Shape[dk[i - 1].name].size = "UNKNOWN"
    BY DEF SwallowedIn
  <1>2. /\ Len(dk) \in Nat /\ DOMAIN dk = 1 .. Len(dk) /\ Len(more) \in Nat
        /\ DOMAIN more = 1 .. Len(more) /\ Len(dk) <= Len(more)
        /\ \A j \in 1 .. Len(dk) : more[j] = dk[j]
    BY DEF Extends
  <1>3. /\ i - 1 \in Nat /\ i - 1 <= Len(dk) /\ i \in DOMAIN more \ {1}
        /\ more[i] = dk[i] /\ more[i - 1] = dk[i - 1]
    BY <1>2
  <1>4. SizeThere(dk, i - 1, dk[i].name)
    BY <1>1 DEF KeywordOK
  <1>5. TargetAt(new, more, i - 1, dk[i].name) = TargetAt(inp, dk, i - 1, dk[i].name)
    BY <1>3, <1>4, TargetStays
  <1>6. QED
    BY <1>1, <1>3, <1>5 DEF SwallowedIn

(* What is left to show of a step of the one file: that it goes on as it   *)
(* should, and keeps the names it has read.                                *)
LEMMA OneFileStep ==
  ASSUME ParserInv, ParserInv', NamesInv, outcome = "parsing", Len(files) = 1,
         Extends(input, input'), Extends(deck, deck'),
         NEW f, files' = <<f>>, HandsOver(input', deck', f),
         \A p \in DOMAIN input' : KnownName(input', p) =>
           \/ p \in DOMAIN input /\ ~ InFile(input, Top, p)
           \/ InDeck(deck', p) \/ SwallowedIn(input', deck', p) \/ InFile(input', f, p)
  PROVE  NamesInv'
  <1>1. /\ input \in Inputs /\ input' \in Inputs /\ deck \in Seq(DeckKeyword)
        /\ deck' \in Seq(DeckKeyword) /\ \A i \in DOMAIN deck : KeywordOK(input, deck, i)
        /\ DOMAIN input = 1 .. Len(input)
    BY DEF ParserInv, TypeOK, Inputs, DeckOK
  <1>2. Len(files') = 1 /\ Top' = f /\ files' # <<>>
    BY DEF Top
  <1>3. ASSUME NEW p \in DOMAIN input', KnownName(input', p)
        PROVE  InDeck(deck', p) \/ Swallowed(p)' \/ InFile(input', f, p)
    <2>1. Swallowed(p)' <=> SwallowedIn(input', deck', p)
      <3>1. ASSUME NEW i \in DOMAIN deck', deck'[i].known
            PROVE  Expected(i)' = TargetAt(input', deck', i - 1, deck'[i].name)
        <4>1. KeywordOK(input', deck', i)
          BY DEF ParserInv, DeckOK
        <4>2. \A k : SizeBefore(i, k)' = SizeAsked(input', deck', i - 1, k)
          BY DEF SizeBefore, SizeAsked, FirstItem
        <4>3. QED
          BY <3>1, <4>1, <4>2 DEF Expected, TargetAt, KeywordOK
      <3>2. QED
        BY <3>1 DEF Swallowed, SwallowedIn
    <2>2. CASE p \in DOMAIN input /\ ~ InFile(input, Top, p)
      <3>1. input'[p] = input[p]
        BY <1>1, <2>2 DEF Extends
      <3>2. KnownName(input, p)
        BY <1>3, <3>1 DEF KnownName
      <3>3. InDeck(deck, p) \/ Swallowed(p)
        BY <2>2, <3>2 DEF NamesInv, NamesKept
      <3>4. CASE InDeck(deck, p)
        BY <1>1, <3>4, InDeckStays
      <3>5. CASE Swallowed(p)
        BY <1>1, <2>1, <3>5, SwallowedIs, SwallowedStays
      <3>6. QED
        BY <3>3, <3>4, <3>5
    <2>3. QED
      BY <1>3, <2>1, <2>2
  <1>4. QED
    BY <1>2, <1>3 DEF NamesInv, NamesKept

(* There is one file, and a step that sets it leaves one.                  *)
LEMMA TheFile ==
  ASSUME ParserInv, NamesInv, outcome = "parsing"
  PROVE  /\ Len(files) = 1 /\ HandsOver(input, deck, Top)
         /\ Top \in ParserState /\ FileOK(input, deck, Top)
         /\ \A f : SetTop(f) => files' = <<f>>
         /\ input \in Inputs /\ Len(input) \in Nat /\ DOMAIN input = 1 .. Len(input)
         /\ Top.rawKeyword # None =>
              Top.rawKeyword \in RawKeyword /\ RawOK(input, deck, Top.rawKeyword, Top.file)
  <1>1. /\ files \in Seq(ParserState) /\ Len(files) \in Nat /\ Len(files) >= 1
        /\ Top \in ParserState
        /\ DOMAIN files = 1 .. Len(files)
        /\ FileOK(input, deck, Top)
        /\ input \in Inputs /\ Len(input) \in Nat /\ DOMAIN input = 1 .. Len(input)
    BY WhileParsing
  <1>2. Len(files) = 1 /\ HandsOver(input, deck, Top)
    BY <1>1 DEF NamesInv
  <1>3. ASSUME NEW f, SetTop(f)
        PROVE  files' = <<f>>
    <2>1. files' = [n \in 1 .. 1 |-> IF n = 1 THEN f ELSE files[n]]
      BY <1>1, <1>2, <1>3 DEF SetTop
    <2>2. QED
      BY <2>1
  <1>4. Top.rawKeyword # None =>
          Top.rawKeyword \in RawKeyword /\ RawOK(input, deck, Top.rawKeyword, Top.file)
    BY <1>1 DEF ParserState, FileOK
  <1>5. QED
    BY <1>1, <1>2, <1>3, <1>4

(* The name that was read becomes a keyword.                               *)
LEMMA StartNextKeeps ==
  ASSUME ParserInv, ParserInv', NamesInv, outcome = "parsing", outcome' # "thrown", StartNext
  PROVE  NamesInv'
  <1> DEFINE raw == NewRawKeyword(Top.nextKeyword, Top.lineNR, Len(input))
             f == Started(raw)
  <1>1. /\ Top.pc = "reading" /\ Top.nextKeyword # None /\ CanCreate(Top.nextKeyword)
        /\ SetTop(f) /\ deck' = deck /\ input' = input
    BY DEF StartNext, Throw
  <1>2. /\ Len(files) = 1 /\ HandsOver(input, deck, Top) /\ Top \in ParserState
        /\ FileOK(input, deck, Top) /\ files' = <<f>> /\ input \in Inputs
        /\ Len(input) \in Nat
    BY <1>1, TheFile
  <1>3. Top.rawKeyword = None /\ AfterUnknown(deck) /\ Top.nextKeyword \in Known
    BY <1>1, <1>2 DEF HandsOver, FileOK, NextOK
  <1>4. /\ raw.records = << >> /\ raw.partial = << >> /\ raw.at = Len(input)
        /\ raw.name = Top.nextKeyword /\ (raw.finished => raw.type = "FIXED")
    BY DEF NewRawKeyword
  <1> HIDE DEF raw
  <1>5. /\ f.rawKeyword = raw /\ f.nextKeyword = None /\ f.pc = "reading"
    BY <1>1, <1>2 DEF Started, ParserState
  <1> HIDE DEF f
  <1>6. HandsOver(input, deck, f)
    BY <1>3, <1>4, <1>5 DEF HandsOver, Early
  <1>7. f.rawKeyword # None
    <2>1. /\ Top.nextKeyword \in Name /\ input # <<>> /\ input[Len(input)].file = Top.file
          /\ AllBelow(deck, Len(input)) /\ Extends(input, input) /\ Len(input) <= MaxLines
          /\ Top.lineNR = Count(input, Top.file, Len(input))
      BY <1>1, <1>2, WhileParsing, ConstantFacts DEF FileOK, NextOK, Extends, Inputs
    <2>2. Len(input) \in 1 .. Len(input)
      BY <1>2, <2>1 DEF Inputs
    <2>3. raw \in RawKeyword
      BY <1>1, <1>2, <2>1, <2>2, CreatedOK DEF raw
    <2>4. QED
      BY <1>5, <2>3, ConstantFacts
  <1>8. ASSUME NEW p \in DOMAIN input, InFile(input, Top, p)
        PROVE  InFile(input, f, p)
    BY <1>3, <1>4, <1>5, <1>7, <1>8 DEF InFile, InRaw
  <1>9. Extends(input, input') /\ Extends(deck, deck')
    BY <1>1, <1>2 DEF Extends, Inputs, ParserInv, TypeOK
  <1>10. QED
    BY <1>1, <1>2, <1>6, <1>8, <1>9, OneFileStep

(* What the step of a file needs that reads a line.                        *)
LEMMA ReadKeeps ==
  ASSUME ParserInv, ParserInv', NamesInv, outcome = "parsing", Top.pc = "reading",
         Top.nextKeyword = None, Len(input) < MaxLines, NEW l \in Line,
         input' = Append(input, [line |-> l, file |-> Top.file]),
         NEW raw \in RawKeyword \cup {None}, Read(raw),
         raw # None /\ raw.finished /\ raw.type # "UNKNOWN" =>
           IF raw.type = "FIXED" /\ raw.partial # <<>>
             THEN /\ AfterUnknown(deck) /\ raw.name \in Known /\ raw.records = <<>>
                  /\ raw.partial = <<raw.at + 1>>
             ELSE raw.partial = <<>>,
         Top.rawKeyword # None =>
           raw # None /\ \A p : InRaw(Top.rawKeyword, p) => InRaw(raw, p),
         KnownName(input', Len(input')) => raw # None /\ InRaw(raw, Len(input'))
  PROVE  NamesInv'
  <1> DEFINE f == [Top EXCEPT !.lineNR = @ + 1, !.rawKeyword = raw, !.pc = AfterLine(raw)]
  <1>1. /\ Len(files) = 1 /\ HandsOver(input, deck, Top) /\ Top \in ParserState
        /\ files' = <<f>> /\ deck' = deck /\ deck \in Seq(DeckKeyword)
        /\ DOMAIN input = 1 .. Len(input)
    BY TheFile DEF Read, ParserInv, TypeOK
  <1>2. /\ f.rawKeyword = raw /\ f.nextKeyword = None /\ f.pc = AfterLine(raw)
    BY <1>1 DEF ParserState
  <1> HIDE DEF f
  <1>3. HandsOver(input', deck', f)
    <2>1. f.pc = IF raw # None /\ raw.finished THEN "finished" ELSE "reading"
      BY <1>2 DEF AfterLine
    <2>2. QED
      BY <1>1, <1>2, <2>1 DEF HandsOver, Early
  <1>4. /\ Extends(input, input') /\ Extends(deck, deck')
        /\ Len(input') = Len(input) + 1 /\ DOMAIN input' = 1 .. Len(input) + 1
    <2>1. Extends(input, input') /\ Len(input') = Len(input) + 1 /\ input' \in Inputs
      BY OneLine
    <2>2. QED
      BY <1>1, <2>1 DEF Extends, Inputs
  <1>5. ASSUME NEW p \in DOMAIN input', KnownName(input', p)
        PROVE  (p \in DOMAIN input /\ ~ InFile(input, Top, p)) \/ InFile(input', f, p)
    <2>1. CASE p = Len(input')
      BY <1>2, <1>5, <2>1 DEF InFile
    <2>2. CASE p \in DOMAIN input /\ InFile(input, Top, p)
      BY <1>2, <2>2 DEF InFile
    <2>3. QED
      BY <1>1, <1>4, <2>1, <2>2
  <1>6. QED
    BY <1>1, <1>3, <1>4, <1>5, OneFileStep

(* A line read while there is no keyword is its name, or not a name.       *)
LEMMA LineOutsideKeeps ==
  ASSUME ParserInv, ParserInv', NamesInv, outcome = "parsing", outcome' # "thrown",
         Top.pc = "reading", Top.nextKeyword = None, Len(input) < MaxLines, NEW l \in Line,
         input' = Append(input, [line |-> l, file |-> Top.file]), LineOutside(l)
  PROVE  NamesInv'
  <1>1. Top.rawKeyword = None
    BY DEF LineOutside
  <1>2. /\ input' \in Inputs /\ Extends(input, input') /\ Len(input') = Len(input) + 1
        /\ input'[Len(input')].file = Top.file /\ Len(input') <= MaxLines
        /\ AllBelow(deck, Len(input')) /\ input'[Len(input')].line = l /\ Len(input) \in Nat
        /\ NameLine(Top) = Count(input', Top.file, Len(input'))
    BY OneLine, WhileParsing DEF NameLine
  <1>3. CASE l.kind # "name"
    <2>1. PICK raw : raw = None
      OBVIOUS
    <2>2. Read(raw) /\ ~ KnownName(input', Len(input'))
      BY <1>2, <1>3, <2>1 DEF LineOutside, KnownName
    <2>3. QED
      BY <1>1, <2>1, <2>2, ReadKeeps
  <1>4. CASE l.kind = "name"
    <2> DEFINE at == Len(input) + 1
               raw == NewRawKeyword(l.name, NameLine(Top), at)
    <2>1. CanCreate(l.name) /\ Read(raw)
      BY <1>4 DEF LineOutside, Throw
    <2>2. /\ l.name \in Name /\ at \in 1 .. Len(input') /\ Len(input') = at
          /\ NameLine(Top) = Count(input', input'[at].file, at) /\ at <= MaxLines
          /\ AllBelow(deck, at)
      BY <1>2, <1>4, LineFacts
    <2> HIDE DEF at
    <2>3. raw \in RawKeyword
      BY <1>2, <2>1, <2>2, CreatedOK
    <2>4. raw.partial = <<>> /\ raw.at = Len(input')
      BY <2>2 DEF NewRawKeyword
    <2> HIDE DEF raw
    <2>5. raw # None /\ InRaw(raw, Len(input'))
      BY <2>3, <2>4, ConstantFacts DEF InRaw
    <2>6. QED
      BY <1>1, <2>1, <2>3, <2>4, <2>5, ReadKeeps
  <1>5. QED
    BY <1>3, <1>4

(* The lines of a keyword are among those it has with one more line.       *)
LEMMA LongerHasLines ==
  ASSUME NEW raw \in RawKeyword, NEW line, NEW p \in Position
  PROVE  LET longer == Added(raw, line, p)
         IN  /\ \A q : InRaw(raw, q) => InRaw(longer, q)
             /\ ~ IsLast(raw, line) => InRaw(longer, p)
             /\ IsLast(raw, line) \/ EndsRecord(raw, line) => longer.partial = <<>>
             /\ ~ (IsLast(raw, line) \/ EndsRecord(raw, line)) =>
                  longer = [raw EXCEPT !.partial = Append(@, p)]
  <1> DEFINE longer == Added(raw, line, p)
             Q == Append(raw.partial, p)
  <1>1. /\ raw.partial \in Seq(Position) /\ raw.records \in Seq(Seq(Position))
        /\ Len(raw.partial) \in Nat /\ Len(raw.records) \in Nat
        /\ DOMAIN raw.partial = 1 .. Len(raw.partial)
        /\ DOMAIN raw.records = 1 .. Len(raw.records)
    BY DEF RawKeyword
  <1>2. CASE IsLast(raw, line)
    <2>1. /\ longer.partial = <<>> /\ longer.records = raw.records /\ longer.at = raw.at
          /\ raw.partial = <<>>
      BY <1>2 DEF Added, IsLast, IsTerminator, RawKeyword
    <2> HIDE DEF longer
    <2>2. \A q : InRaw(raw, q) => InRaw(longer, q)
      BY <2>1 DEF InRaw, LinesOf
    <2>3. QED
      BY <1>2, <2>1, <2>2 DEF longer
  <1>3. CASE ~ IsLast(raw, line) /\ EndsRecord(raw, line)
    <2> DEFINE records == Append(raw.records, Q)
    <2>1. /\ longer.partial = <<>> /\ longer.records = records /\ longer.at = raw.at
      BY <1>3 DEF Added, RawKeyword
    <2>2. /\ Q \in Seq(Position) /\ Len(Q) = Len(raw.partial) + 1 /\ Q[Len(raw.partial) + 1] = p
          /\ DOMAIN Q = 1 .. Len(raw.partial) + 1
          /\ \A x \in 1 .. Len(raw.partial) : Q[x] = raw.partial[x]
      BY <1>1
    <2>3. /\ DOMAIN records = 1 .. Len(raw.records) + 1
          /\ records[Len(raw.records) + 1] = Q
          /\ \A r \in 1 .. Len(raw.records) : records[r] = raw.records[r]
      BY <1>1, <2>2
    <2> HIDE DEF longer, Q, records
    <2>4. \A q : q \in LinesOf(longer) <=>
                   \E r \in DOMAIN records : \E x \in DOMAIN records[r] : q = records[r][x]
      BY <2>1 DEF LinesOf
    <2>5. \A x \in DOMAIN Q : Q[x] \in LinesOf(longer)
      BY <1>1, <2>3, <2>4
    <2>6. \A q : InRaw(raw, q) => InRaw(longer, q)
      <3>1. TAKE q
      <3>2. CASE q \in LinesOf(raw)
        <4>1. PICK r \in DOMAIN raw.records :
                q \in {raw.records[r][x] : x \in DOMAIN raw.records[r]}
          BY <3>2 DEF LinesOf
        <4>2. r \in DOMAIN records /\ records[r] = raw.records[r]
          BY <1>1, <2>3
        <4>3. QED
          BY <2>4, <4>1, <4>2 DEF InRaw
      <3>3. CASE \E x \in DOMAIN raw.partial : raw.partial[x] = q
        <4>1. PICK x \in DOMAIN raw.partial : raw.partial[x] = q
          BY <3>3
        <4>2. x \in DOMAIN Q /\ Q[x] = q
          BY <1>1, <2>2, <4>1
        <4>3. QED
          BY <2>5, <4>2 DEF InRaw
      <3>4. CASE q = raw.at
        BY <2>1, <3>4 DEF InRaw
      <3>5. QED
        BY <3>2, <3>3, <3>4 DEF InRaw
    <2>7. InRaw(longer, p)
      <3>1. Len(raw.partial) + 1 \in DOMAIN Q
        BY <1>1, <2>2
      <3>2. QED
        BY <2>2, <2>5, <3>1 DEF InRaw
    <2>8. QED
      BY <1>3, <2>1, <2>6, <2>7 DEF longer
  <1>4. CASE ~ IsLast(raw, line) /\ ~ EndsRecord(raw, line)
    <2>1. longer = [raw EXCEPT !.partial = Q]
      BY <1>4 DEF Added
    <2>2. longer.partial = Q /\ longer.records = raw.records /\ longer.at = raw.at
      BY <2>1 DEF RawKeyword
    <2>3. /\ DOMAIN Q = 1 .. Len(raw.partial) + 1 /\ Q[Len(raw.partial) + 1] = p
          /\ \A x \in 1 .. Len(raw.partial) : Q[x] = raw.partial[x]
      BY <1>1
    <2>4. \A x \in DOMAIN raw.partial : x \in DOMAIN Q
      BY <1>1, <2>3
    <2>5. Len(raw.partial) + 1 \in DOMAIN Q
      BY <1>1, <2>3
    <2> HIDE DEF longer, Q
    <2>6. \A q : InRaw(raw, q) => InRaw(longer, q)
      BY <1>1, <2>2, <2>3, <2>4 DEF InRaw, LinesOf
    <2>7. InRaw(longer, p)
      BY <2>2, <2>3, <2>5 DEF InRaw
    <2>8. QED
      BY <1>4, <2>1, <2>6, <2>7 DEF longer, Q
  <1>5. QED
    BY <1>2, <1>3, <1>4

(* A line read inside a keyword ends it by being a known name, or joins    *)
(* it, or is nothing.                                                      *)
LEMMA LineInsideKeeps ==
  ASSUME ParserInv, ParserInv', NamesInv, outcome = "parsing", outcome' # "thrown",
         Top.pc = "reading", Top.nextKeyword = None, Len(input) < MaxLines, NEW l \in Line,
         input' = Append(input, [line |-> l, file |-> Top.file]), LineInside(l)
  PROVE  NamesInv'
  <1> DEFINE raw == Top.rawKeyword
             line == Handled(l, raw)
             n == Len(input) + 1
  <1>1. /\ Top \in ParserState /\ raw # None /\ raw \in RawKeyword
        /\ RawOK(input, deck, raw, Top.file) /\ FileOK(input, deck, Top)
        /\ HandsOver(input, deck, Top) /\ Len(files) = 1
        /\ Len(input) \in Nat /\ DOMAIN input = 1 .. Len(input) /\ input \in Inputs
    BY TheFile DEF LineInside
  <1>2. /\ input' \in Inputs /\ Extends(input, input') /\ Len(input') = n
        /\ input'[n].line = l /\ n <= MaxLines /\ n \in Position
    BY <1>1, OneLine, ConstantFacts DEF Position
  <1>3. raw.finished => raw.type = "FIXED" /\ Early(input, deck, Top)
    BY <1>1 DEF FileOK, HandsOver
  <1>4. l.kind \in {"name", "text", "end", "quote", "slash", "nothing", "comment"}
    BY LineFacts
  <1>5. CASE EndsUnknown(l)
    <2> DEFINE ended == [raw EXCEPT !.finished = TRUE]
               f == [Top EXCEPT !.lineNR = @ + 1, !.rawKeyword.finished = TRUE,
                                !.nextKeyword = l.name, !.pc = "finished"]
    <2>1. f = [Top EXCEPT !.lineNR = @ + 1, !.rawKeyword = ended,
                          !.nextKeyword = l.name, !.pc = "finished"]
      BY <1>1 DEF ParserState
    <2>2. SetTop(f) /\ deck' = deck /\ raw.type = "UNKNOWN" /\ l.name # None
      BY <1>5, ConstantFacts DEF LineInside, EndsUnknown
    <2>3. /\ ended.records = raw.records /\ ended.partial = raw.partial /\ ended.at = raw.at
          /\ ended.type = raw.type /\ ended \in RawKeyword
      BY <1>1 DEF RawKeyword
    <2> HIDE DEF ended, f
    <2>4. f.rawKeyword = ended /\ f.nextKeyword = l.name /\ f.pc = "finished"
      BY <1>1, <2>1 DEF ParserState
    <2>5. files' = <<f>> /\ ended # None
      BY <2>2, <2>3, TheFile, ConstantFacts
    <2>6. HandsOver(input', deck', f)
      BY <2>2, <2>3, <2>4, <2>5 DEF HandsOver
    <2>7. ASSUME NEW p \in DOMAIN input'
          PROVE  (p \in DOMAIN input /\ ~ InFile(input, Top, p)) \/ InFile(input', f, p)
      <3>1. CASE p = n
        BY <1>2, <2>2, <2>4, <3>1 DEF InFile
      <3>2. CASE InFile(input, Top, p)
        BY <2>3, <2>4, <2>5, <3>2 DEF InFile, InRaw, LinesOf
      <3>3. p \in DOMAIN input \/ p = n
        BY <1>1, <1>2 DEF Inputs
      <3>4. QED
        BY <3>1, <3>2, <3>3
    <2>8. Extends(deck, deck')
      BY <2>2 DEF Extends, ParserInv, TypeOK
    <2>9. QED
      BY <1>1, <1>2, <2>5, <2>6, <2>7, <2>8, OneFileStep
  <1>6. CASE ~ EndsUnknown(l) /\ ~ UseLine(line)
    <2>1. Read(raw)
      BY <1>6 DEF LineInside
    <2>2. l.kind # "name"
      BY <1>6 DEF Handled, UseLine
    <2>3. ~ KnownName(input', Len(input'))
      BY <1>2, <2>2 DEF KnownName
    <2>4. raw.finished => raw.partial = <<>>
      BY <1>3 DEF Early
    <2>5. raw.finished /\ raw.type # "UNKNOWN" =>
            IF raw.type = "FIXED" /\ raw.partial # <<>>
              THEN /\ AfterUnknown(deck) /\ raw.name \in Known /\ raw.records = <<>>
                   /\ raw.partial = <<raw.at + 1>>
              ELSE raw.partial = <<>>
      BY <2>4
    <2> HIDE DEF raw
    <2>6. Top.rawKeyword = raw
      BY DEF raw
    <2>7. QED
      BY <1>1, <2>1, <2>3, <2>5, <2>6, ReadKeeps
  <1>7. CASE ~ EndsUnknown(l) /\ UseLine(line)
    <2> DEFINE longer == Added(raw, line, n)
    <2>1. Read(longer)
      BY <1>7 DEF LineInside, Throw
    <2>2. /\ \A q : InRaw(raw, q) => InRaw(longer, q)
          /\ ~ IsLast(raw, line) => InRaw(longer, n)
          /\ IsLast(raw, line) \/ EndsRecord(raw, line) => longer.partial = <<>>
          /\ ~ (IsLast(raw, line) \/ EndsRecord(raw, line)) =>
               longer = [raw EXCEPT !.partial = Append(@, n)]
      BY <1>1, <1>2, LongerHasLines
    <2>3. IsLast(raw, line) => l.kind # "name"
      BY DEF IsLast, IsTerminator, Handled
    <2>4. longer \in RawKeyword
      <3>1. raw.type = "UNKNOWN" => ~ (l.kind = "name" /\ l.exact /\ l.name \in Known)
        BY <1>7 DEF EndsUnknown
      <3>2. raw.finished => raw.type = "FIXED"
        BY <1>3
      <3>3. /\ deck \in Seq(DeckKeyword) /\ \A i \in DOMAIN deck : KeywordOK(input, deck, i)
            /\ Top.file \in Nat /\ Len(input) < MaxLines
        BY WhileParsing
      <3>4. PICK new : new = Append(input, [line |-> l, file |-> Top.file])
        OBVIOUS
      <3> HIDE DEF raw, line
      <3>5. Added(raw, line, Len(new)) \in RawKeyword
        BY <1>1, <3>1, <3>2, <3>3, <3>4, AddedOK DEF line
      <3>6. Len(new) = n
        BY <1>2, <3>4
      <3>7. QED
        BY <3>5, <3>6
    <2>5. raw.finished => /\ longer.partial = <<raw.at + 1>> /\ longer.records = <<>>
                          /\ longer.at = raw.at /\ longer.name = raw.name
                          /\ longer.type = "FIXED"
      <3>1. SUFFICES ASSUME raw.finished
                     PROVE  /\ longer.partial = <<raw.at + 1>> /\ longer.records = <<>>
                            /\ longer.at = raw.at /\ longer.name = raw.name
                            /\ longer.type = "FIXED"
        OBVIOUS
      <3>2. /\ raw.type = "FIXED" /\ raw.partial = <<>> /\ raw.at = Len(input)
            /\ raw.records = <<>>
        BY <1>3, <3>1 DEF Early
      <3>3. ~ IsLast(raw, line) /\ ~ EndsRecord(raw, line)
        BY <3>1, <3>2 DEF IsLast, IsTerminator, EndsRecord
      <3>4. longer = [raw EXCEPT !.partial = Append(@, n)]
        BY <2>2, <3>3
      <3>5. Append(raw.partial, n) = <<raw.at + 1>>
        BY <3>2
      <3> HIDE DEF longer, n
      <3>6. QED
        BY <1>1, <3>2, <3>4, <3>5 DEF RawKeyword
    <2>6. longer.finished /\ ~ raw.finished => longer.partial = <<>>
      <3>1. CASE IsLast(raw, line) \/ EndsRecord(raw, line)
        BY <2>2, <3>1
      <3>2. CASE ~ (IsLast(raw, line) \/ EndsRecord(raw, line))
        <4>1. longer = [raw EXCEPT !.partial = Append(@, n)]
          BY <2>2, <3>2
        <4> HIDE DEF longer
        <4>2. longer.finished = raw.finished
          BY <1>1, <4>1 DEF RawKeyword
        <4>3. QED
          BY <4>2
      <3>3. QED
        BY <3>1, <3>2
    <2>7. longer.finished /\ longer.type # "UNKNOWN" =>
            IF longer.type = "FIXED" /\ longer.partial # <<>>
              THEN /\ AfterUnknown(deck) /\ longer.name \in Known /\ longer.records = <<>>
                   /\ longer.partial = <<longer.at + 1>>
              ELSE longer.partial = <<>>
      <3> HIDE DEF longer
      <3>1. CASE raw.finished
        BY <1>3, <2>5, <3>1 DEF Early
      <3>2. CASE ~ raw.finished
        BY <2>6, <3>2
      <3>3. QED
        BY <3>1, <3>2
    <2>8. KnownName(input', n) => InRaw(longer, n)
      <3>1. KnownName(input', n) => l.kind = "name"
        BY <1>2 DEF KnownName
      <3>2. QED
        BY <2>2, <2>3, <3>1
    <2>9. longer # None
      BY <2>4, ConstantFacts
    <2> HIDE DEF longer
    <2>10. QED
      BY <1>1, <1>2, <2>1, <2>2, <2>4, <2>7, <2>8, <2>9, ReadKeeps
  <1>8. QED
    BY <1>5, <1>6, <1>7

(* At the end of a file the keyword that was begun is handled as it is, or *)
(* there is none.                                                          *)
LEMMA EndOfFileKeeps ==
  ASSUME ParserInv, ParserInv', NamesInv, outcome = "parsing", EndOfFile
  PROVE  NamesInv'
  <1> DEFINE raw == Top.rawKeyword
             ended == [raw EXCEPT !.finished = @ \/ raw.type = "UNKNOWN"]
             f == [Top EXCEPT !.pc = IF raw = None THEN "returning" ELSE "ended",
                              !.rawKeyword = IF raw = None THEN None ELSE ended]
  <1>1. /\ Len(files) = 1 /\ HandsOver(input, deck, Top) /\ Top \in ParserState
        /\ files' = <<f>> /\ input' = input /\ deck' = deck
        /\ Top.pc = "reading" /\ Top.nextKeyword = None
        /\ Extends(input, input') /\ Extends(deck, deck')
    BY TheFile DEF EndOfFile, Extends, ParserInv, TypeOK
  <1>2. /\ f.rawKeyword = (IF raw = None THEN None ELSE ended) /\ f.nextKeyword = None
        /\ f.pc = IF raw = None THEN "returning" ELSE "ended"
    BY <1>1 DEF ParserState
  <1>3. raw # None =>
          /\ ended # None /\ ended.records = raw.records /\ ended.partial = raw.partial
          /\ ended.at = raw.at /\ ended.type = raw.type
          /\ (ended.finished /\ raw.type # "UNKNOWN" => raw.finished)
    <2>1. SUFFICES ASSUME raw # None
                   PROVE  /\ ended # None /\ ended.records = raw.records
                          /\ ended.partial = raw.partial /\ ended.at = raw.at
                          /\ ended.type = raw.type
                          /\ (ended.finished /\ raw.type # "UNKNOWN" => raw.finished)
      OBVIOUS
    <2>2. raw \in RawKeyword /\ raw.finished \in BOOLEAN
      BY <2>1, TheFile DEF RawKeyword
    <2> HIDE DEF raw
    <2>3. /\ ended \in RawKeyword /\ ended.records = raw.records
          /\ ended.partial = raw.partial /\ ended.at = raw.at /\ ended.type = raw.type
          /\ (ended.finished <=> raw.finished \/ raw.type = "UNKNOWN")
      BY <2>2 DEF RawKeyword
    <2> HIDE DEF ended
    <2>4. ended # None
      BY <2>3, ConstantFacts
    <2>5. QED
      BY <2>3, <2>4
  <1> HIDE DEF f, ended
  <1>4. HandsOver(input', deck', f)
    <2>1. raw # None /\ raw.finished /\ raw.type # "UNKNOWN" => raw.partial = <<>>
      BY <1>1 DEF HandsOver, Early
    <2>2. QED
      BY <1>1, <1>2, <1>3, <2>1 DEF HandsOver
  <1>5. \A p : InFile(input, Top, p) => InFile(input', f, p)
    BY <1>1, <1>2, <1>3 DEF InFile, InRaw, LinesOf
  <1>6. QED
    BY <1>1, <1>4, <1>5, OneFileStep

(* A known keyword of the deck has all its records.                        *)
LEMMA KnownIsWhole ==
  ASSUME NEW inp, NEW dk, NEW i, KeywordOK(inp, dk, i), dk[i].known
  PROVE  Whole(inp, dk[i], TargetAt(inp, dk, i - 1, dk[i].name))
  BY DEF KeywordOK

(* The keyword goes into the deck. Of the lines it had begun a record with *)
(* none is a known name, but for the one that follows a keyword without    *)
(* records.                                                                *)
LEMMA IntoTheDeckKeeps ==
  ASSUME ParserInv, ParserInv', NamesInv, outcome = "parsing", HandlingOther,
         SetTop(Done(Top)), NEW known \in BOOLEAN, known <=> Top.rawKeyword.name \in Known,
         deck' = Append(deck, NewDeckKeyword(Top.rawKeyword, known)),
         known => CanParse(Top.rawKeyword), input' = input
  PROVE  NamesInv'
  <1> DEFINE raw == Top.rawKeyword
             new == NewDeckKeyword(raw, known)
             n == Len(deck)
             f == Done(Top)
  <1>1. /\ Len(files) = 1 /\ HandsOver(input, deck, Top) /\ Top \in ParserState
        /\ Top.pc \in {"finished", "ended"} /\ files' = <<f>>
        /\ raw # None /\ raw \in RawKeyword /\ RawOK(input, deck, raw, Top.file)
        /\ NextOK(input, deck, Top)
    BY TheFile DEF HandlingOther, FileOK
  <1>2. /\ deck \in Seq(DeckKeyword) /\ n \in Nat /\ DOMAIN deck = 1 .. n
        /\ new.name = raw.name /\ new.known = known /\ new.records = raw.records
        /\ new.at = raw.at /\ new \in DeckKeyword
    BY <1>1, NewKeywordType DEF ParserInv, TypeOK
  <1>3. /\ Len(deck') = n + 1 /\ DOMAIN deck' = 1 .. n + 1 /\ deck'[n + 1] = new
        /\ \A i \in 1 .. n : deck'[i] = deck[i]
    BY <1>2
  <1>4. Extends(deck, deck') /\ Extends(input, input')
    BY <1>2, <1>3 DEF Extends, ParserInv, TypeOK
  <1>5. /\ f.rawKeyword = None /\ f.nextKeyword = Top.nextKeyword
        /\ f.pc = IF Top.pc = "ended" THEN "returning" ELSE "reading"
    BY <1>1 DEF Done, ParserState
  <1> HIDE DEF f, new
  <1>6. raw.type = RawType(raw.name)
    BY <1>1 DEF RawOK
  <1>7. Top.nextKeyword # None => AfterUnknown(deck')
    <2>1. SUFFICES ASSUME Top.nextKeyword # None
                   PROVE  AfterUnknown(deck')
      OBVIOUS
    <2>2. RawType(raw.name) = "UNKNOWN"
      BY <1>1, <1>6, <2>1 DEF NextOK
    <2>3. raw.name \in Known /\ Shape[raw.name].size = "UNKNOWN"
      BY <2>2 DEF RawType
    <2>4. deck' # <<>>
      BY <1>2, <1>3
    <2>5. QED
      BY <1>2, <1>3, <2>3, <2>4 DEF AfterUnknown
  <1>8. HandsOver(input', deck', f)
    BY <1>1, <1>5, <1>7 DEF HandsOver
  <1>9. ASSUME NEW p \in DOMAIN input, KnownName(input, p), InFile(input, Top, p)
        PROVE  InDeck(deck', p) \/ SwallowedIn(input', deck', p) \/ InFile(input', f, p)
    <2>1. CASE Top.nextKeyword # None /\ p = Len(input)
      BY <1>5, <2>1 DEF InFile
    <2>2. CASE p \in LinesOf(raw) \cup {raw.at}
      <3>1. p \in LinesOf(new) \cup {new.at}
        BY <1>2, <2>2 DEF LinesOf
      <3>2. n + 1 \in DOMAIN deck'
        BY <1>2, <1>3
      <3>3. QED
        BY <1>3, <3>1, <3>2 DEF InDeck
    <2>3. CASE \E x \in DOMAIN raw.partial : raw.partial[x] = p
      <3>1. PICK x \in DOMAIN raw.partial : raw.partial[x] = p
        BY <2>3
      <3>2. raw.type # "UNKNOWN"
        <4>1. raw.type = "UNKNOWN" => NoNames(input, raw.partial)
          BY <1>1 DEF RawOK, WholeSoFar
        <4>2. QED
          BY <1>9, <3>1, <4>1 DEF NoNames
      <3>3. raw.finished
        <4>1. CASE known
          BY <4>1 DEF CanParse
        <4>2. CASE ~ known
          <5>1. raw.name \notin Known
            BY <4>2
          <5>2. raw.type = "FIXED" /\ raw.target = 0
            BY <1>1, <5>1 DEF RawOK, RawType, TargetAt
          <5>3. Len(raw.records) <= 0 /\ (raw.finished <=> Len(raw.records) = 0)
            BY <1>1, <5>2 DEF RawOK, WholeSoFar
          <5>4. Len(raw.records) \in Nat
            BY <1>1 DEF RawKeyword
          <5>5. QED
            BY <5>3, <5>4
        <4>3. QED
          BY <4>1, <4>2
      <3>4. raw.partial # <<>>
        BY <3>1
      <3>5. raw.type = "FIXED" /\ Early(input, deck, Top)
        BY <1>1, <3>2, <3>3, <3>4 DEF HandsOver
      <3>6. /\ AfterUnknown(deck) /\ raw.name \in Known /\ raw.records = <<>>
            /\ raw.partial = <<raw.at + 1>>
        BY <1>1, <3>5 DEF Early
      <3>7. p = raw.at + 1
        BY <3>1, <3>6
      <3>8. KeywordOK(input', deck', n + 1)
        BY <1>2, <1>3 DEF ParserInv, DeckOK
      <3>9. TargetAt(input', deck', n, raw.name) = 0
        <4>1. /\ known = TRUE /\ RawType(raw.name) = "FIXED" /\ n + 1 - 1 = n
              /\ raw.records = <<>>
          BY <1>2, <1>6, <3>5, <3>6
        <4>2. Whole(input', deck'[n + 1], TargetAt(input', deck', n + 1 - 1, deck'[n + 1].name))
          <5>1. deck'[n + 1].known
            BY <1>2, <1>3, <4>1
          <5>2. QED
            <6> DEFINE m == n + 1
            <6>1. KeywordOK(input', deck', m) /\ deck'[m].known
              BY <3>8, <5>1
            <6> HIDE DEF m
            <6>2. Whole(input', deck'[m], TargetAt(input', deck', m - 1, deck'[m].name))
              BY <6>1, KnownIsWhole
            <6>3. QED
              BY <6>2 DEF m
        <4>3. Whole(input', new, TargetAt(input', deck', n, raw.name))
          BY <1>2, <1>3, <4>1, <4>2
        <4>4. Len(raw.records) = TargetAt(input', deck', n, raw.name)
          BY <1>2, <4>1, <4>3 DEF Whole
        <4>5. Len(raw.records) = 0
          BY <4>1
        <4>6. QED
          BY <4>4, <4>5
      <3>10. Shape[raw.name].size # "SLASH"
        BY <1>6, <3>5, <3>6 DEF RawType
      <3>11. /\ n + 1 \in DOMAIN deck' \ {1} /\ n + 1 - 1 = n /\ n \in 1 .. n
             /\ deck[n].known /\ Shape[deck[n].name].size = "UNKNOWN"
        <4>1. deck # <<>> /\ deck[n].known /\ Shape[deck[n].name].size = "UNKNOWN"
          BY <3>6 DEF AfterUnknown
        <4>2. n >= 1
          BY <1>2, <4>1
        <4>3. QED
          BY <1>2, <1>3, <4>1, <4>2
      <3>12. raw.at = p - 1
        <4>1. raw.at \in Nat
          BY <1>1, ConstantFacts DEF RawKeyword, Position
        <4>2. QED
          BY <3>7, <4>1
      <3>13. SwallowedIn(input', deck', p)
        <4>1. /\ deck'[n + 1].at = p - 1 /\ deck'[n + 1].known /\ deck'[n + 1].name = raw.name
          BY <1>2, <1>3, <3>6, <3>12
        <4>2. deck'[n] = deck[n]
          BY <1>3, <3>11
        <4>3. /\ deck'[n + 1 - 1].known /\ Shape[deck'[n + 1 - 1].name].size = "UNKNOWN"
              /\ TargetAt(input', deck', n + 1 - 1, deck'[n + 1].name) = 0
          BY <3>9, <3>11, <4>1, <4>2
        <4>4. n + 1 \in DOMAIN deck' \ {1} /\ Shape[deck'[n + 1].name].size # "SLASH"
          BY <3>10, <3>11, <4>1
        <4> DEFINE m == n + 1
        <4>5. /\ m \in DOMAIN deck' \ {1} /\ deck'[m].at = p - 1 /\ deck'[m].known
              /\ Shape[deck'[m].name].size # "SLASH"
              /\ TargetAt(input', deck', m - 1, deck'[m].name) = 0
              /\ deck'[m - 1].known /\ Shape[deck'[m - 1].name].size = "UNKNOWN"
          BY <4>1, <4>3, <4>4
        <4> HIDE DEF m
        <4>6. QED
          BY <4>5 DEF SwallowedIn
      <3>14. QED
        BY <3>13
    <2>4. QED
      BY <1>9, <2>1, <2>2, <2>3 DEF InFile, InRaw
  <1>10. ASSUME NEW p \in DOMAIN input', KnownName(input', p)
         PROVE  \/ p \in DOMAIN input /\ ~ InFile(input, Top, p)
                \/ InDeck(deck', p) \/ SwallowedIn(input', deck', p) \/ InFile(input', f, p)
    BY <1>9, <1>10
  <1>11. QED
    BY <1>1, <1>4, <1>8, <1>10, OneFileStep

(* The last file returns, when it has nothing more to hand over.           *)
LEMMA ReturnKeeps ==
  ASSUME ParserInv, NamesInv, outcome = "parsing", Return
  PROVE  NamesInv'
  <1>1. /\ Len(files) = 1 /\ HandsOver(input, deck, Top) /\ Top.pc = "returning"
        /\ deck' = deck /\ input' = input
    BY TheFile DEF Return
  <1>2. files' = <<>>
    <2> DEFINE outer == SubSeq(files, 1, Len(files) - 1)
    <2>1. files \in Seq(ParserState) /\ Len(files) - 1 = 0
      BY <1>1 DEF ParserInv, TypeOK
    <2>2. outer = SubSeq(files, 1, 0)
      BY <2>1
    <2>3. Len(SubSeq(files, 1, 0)) = 0
      BY <2>1
    <2>4. Len(outer) = 0
      BY <2>2, <2>3
    <2>5. files' = IF Len(outer) = 0 THEN <<>>
                   ELSE [outer EXCEPT ![Len(outer)] = Resumed(@)]
      BY DEF Return
    <2> HIDE DEF outer
    <2>6. QED
      BY <2>4, <2>5
  <1>3. \A p : ~ InFile(input, Top, p)
    BY <1>1 DEF HandsOver, InFile
  <1>4. \A p : Swallowed(p)' = Swallowed(p)
    BY <1>1 DEF Swallowed, Expected, SizeBefore, FirstItem
  <1>5. QED
    BY <1>1, <1>2, <1>3, <1>4 DEF NamesInv, NamesKept

(* A deck of records has none of the keywords that stay out of it.         *)
LEMMA NoneStaysOut ==
  ASSUME OnlyRecords, ParserInv, NamesInv, outcome = "parsing", Next
  PROVE  ~ (End \/ EndInclude \/ Paths \/ Include \/ Ignore)
  <1>1. ASSUME Top.pc \in {"finished", "ended"}
        PROVE  Top.rawKeyword.name \in Name
    BY <1>1, TheFile DEF FileOK, RawKeyword
  <1>2. QED
    BY <1>1 DEF OnlyRecords, End, EndInclude, Paths, Include, Ignore, Handling, HandlingOther

(* When a file whose keywords all go into the deck has been parsed, every  *)
(* known name that stands alone on its line is a keyword of the deck or    *)
(* part of one, or it is the line after a keyword without records that has *)
(* ended one of unknown size: none is passed over between two keywords,    *)
(* left in a record that never ends or forgotten in nextKeyword            *)
(* (Parser.cpp:354-400, RawKeyword.cpp:78-173).                            *)
THEOREM NoNameIsLost ==
  ASSUME OnlyRecords
  PROVE  Spec => []NoKeywordIsLost
  <1>1. Init => NamesInv
    <2>1. SUFFICES ASSUME Init
                   PROVE  NamesInv
      OBVIOUS
    <2>2. files = <<NewFile(0)>> /\ deck = <<>> /\ input = <<>>
      BY <2>1 DEF Init
    <2>3. Len(files) = 1 /\ Top = NewFile(0) /\ DOMAIN input = {}
      BY <2>2 DEF Top
    <2>4. HandsOver(input, deck, Top)
      BY <2>3 DEF HandsOver, NewFile
    <2>5. QED
      BY <2>3, <2>4 DEF NamesInv, NamesKept
  <1>2. ASSUME ParserInv, ParserInv', NamesInv, [Next]_vars
        PROVE  NamesInv'
    <2>1. CASE UNCHANGED vars
      <3>1. \A p : Swallowed(p)' = Swallowed(p)
        BY <2>1 DEF vars, Swallowed, Expected, SizeBefore, FirstItem
      <3>2. Top' = Top
        BY <2>1 DEF vars, Top
      <3>3. QED
        BY <1>2, <2>1, <3>1, <3>2 DEF vars, NamesInv, NamesKept
    <2>2. CASE Next /\ outcome' = "thrown"
      BY <2>2 DEF NamesInv
    <2>3. CASE Next /\ outcome' # "thrown"
      <3>1. outcome = "parsing" /\ Step
        BY <2>3 DEF Next
      <3>2. CASE StartNext
        BY <1>2, <2>3, <3>1, <3>2, StartNextKeeps
      <3>3. ASSUME NEW l \in Line, ReadLine(l)
            PROVE  NamesInv'
        BY <1>2, <2>3, <3>1, <3>3, LineOutsideKeeps, LineInsideKeeps DEF ReadLine
      <3>4. CASE EndOfFile
        BY <1>2, <3>1, <3>4, EndOfFileKeeps
      <3>5. CASE Internalize
        BY <1>2, <2>3, <3>1, <3>5, IntoTheDeckKeeps DEF Internalize, Throw, AddToDeck
      <3>6. CASE Unrecognised
        BY <1>2, <3>1, <3>6, IntoTheDeckKeeps DEF Unrecognised, AddToDeck
      <3>7. CASE Return
        BY <1>2, <3>1, <3>7, ReturnKeeps
      <3>8. ~ (End \/ EndInclude \/ Paths \/ Include \/ Ignore)
        BY <1>2, <2>3, <3>1, NoneStaysOut
      <3>9. QED
        BY <3>1, <3>2, <3>3, <3>4, <3>5, <3>6, <3>7, <3>8 DEF Step
    <2>4. QED
      BY <1>2, <2>1, <2>2, <2>3
  <1>3. ParserInv /\ NamesInv => NoKeywordIsLost
    <2>1. SUFFICES ASSUME ParserInv, NamesInv, outcome = "parsed",
                          NEW p \in DOMAIN input, KnownName(input, p)
                   PROVE  \/ \E i \in DOMAIN deck : p \in LinesOf(deck[i]) \cup {deck[i].at}
                          \/ Swallowed(p)
      BY DEF NoKeywordIsLost, KnownName
    <2>2. files = <<>>
      BY <2>1 DEF ParserInv, TypeOK
    <2>3. QED
      BY <2>1, <2>2 DEF NamesInv, NamesKept, InDeck
  <1>4. QED
    BY <1>1, <1>2, <1>3, ParserInvariant, PTL DEF Spec
=============================================================================
