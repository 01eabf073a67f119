---------------------------- MODULE Completions ----------------------------
(***************************************************************************)
(* The completions of the wells, as COMPDAT makes them: the handler in     *)
(* Schedule.cpp, the two functions in Completion.cpp that turn records     *)
(* into lists of completions, one list for each well, and the completion   *)
(* sets of the wells (Well::addCompletions, CompletionSet.cpp), a function *)
(* of the report step.                                                     *)
(*                                                                         *)
(* A keyword is handled in two loops.  The first takes the records in the  *)
(* order of the deck and appends their completions to the list of their    *)
(* well; the second takes the wells that have a list and adds its members, *)
(* one by one, to a copy of the completion set of the well, which is then  *)
(* the set from the current step on.                                       *)
(***************************************************************************)
EXTENDS ScheduleClock, DynamicState, Integers

CONSTANTS
  Well,          \* the wells, which are all there
  NoWell,        \* no well
  WellHead,      \* for each well, the cell column of its head (from 0)
  Data,          \* state, factors and direction of a completion
  CompdatRecord, \* the records a COMPDAT keyword can have
  MaxRecords     \* bound: records of COMPDAT in a deck

(* A record as it is in the deck: columns and layers count from 1, and a   *)
(* column that is defaulted is 0.                                          *)
CompdatRecords ==
  [well : Well, i : Nat, j : Nat, k1 : Nat \ {0}, k2 : Nat \ {0}, data : Data]

(* A column is -1 until the default is filled in; layers count from 0.     *)
Completion == [i : Int, j : Int, k : Int, data : Data]

Cell == [i : Nat, j : Nat, k : Nat]

CompletionsConstants ==
  /\ NoWell \notin Well
  /\ WellHead \in [Well -> [i : Nat, j : Nat]]
  /\ CompdatRecord \subseteq CompdatRecords
  /\ MaxRecords \in Nat

VARIABLES
  completions,  \* Well::m_completions, for each well
  stage,        \* "none", or the loop of the handler: "collect", "apply"
  lists,        \* completionMapList: a list for each well
  listed,       \* its keys that the second loop has still to come to
  well,         \* the well whose list is being added, or NoWell
  newSet,       \* the copy of its completion set
  asked,        \* history: what the records so far say, cell by cell
  records       \* the number of records so far

handlerVars == <<stage, lists, listed, well, newSet>>
historyVars == <<asked, records>>
vars == <<clockVars, completions, handlerVars, historyVars>>

TypeOK ==
  /\ ClockTypeOK
  /\ completions \in [Well -> DynamicStates(Seq(Completion))]
  /\ stage \in {"none", "collect", "apply"}
  /\ lists \in [Well -> Seq(Completion)]
  /\ listed \subseteq Well
  /\ well \in Well \union {NoWell}
  /\ newSet \in Seq(Completion)
  /\ records \in Nat

Init ==
  /\ ClockInit
  /\ completions = [w \in Well |-> NewState(<< >>)]
  /\ stage = "none"
  /\ lists = [w \in Well |-> << >>]
  /\ listed = {}
  /\ well = NoWell
  /\ newSet = << >>
  /\ asked = [w \in Well |-> [c \in {} |-> CHOOSE d \in Data : TRUE]]
  /\ records = 0
-----------------------------------------------------------------------------
CellOf(c) == [i |-> c.i, j |-> c.j, k |-> c.k]

(* A record of layers K1 to K2 makes a completion of each, and none if K2  *)
(* is less than K1.  A mistake: the last layer is left out.                *)
FromRecordButLast(r) ==
  [n \in 1 .. r.k2 - r.k1 |->
     [i |-> r.i - 1, j |-> r.j - 1, k |-> r.k1 - 2 + n, data |-> r.data]]

FromRecord(r) ==
  [n \in 1 .. r.k2 - r.k1 + 1 |->
     [i |-> r.i - 1, j |-> r.j - 1, k |-> r.k1 - 2 + n, data |-> r.data]]

(* fixDefaultIJ(): a defaulted column is that of the head of the well.     *)
FixDefaultIJ(c, w) ==
  [c EXCEPT !.i = IF @ < 0 THEN WellHead[w].i ELSE @,
            !.j = IF @ < 0 THEN WellHead[w].j ELSE @]

(* CompletionSet::add(): in place of one in the same cell, or at the end.  *)
(* A mistake: always at the end, and the old one removed.                  *)
MovedToTheEnd(set, c) ==
  LET Other(d) == CellOf(d) # CellOf(c)
  IN  Append(SelectSeq(set, Other), c)

AddCompletion(set, c) ==
  IF \E n \in DOMAIN set : CellOf(set[n]) = CellOf(c)
  THEN [n \in DOMAIN set |-> IF CellOf(set[n]) = CellOf(c) THEN c ELSE set[n]]
  ELSE Append(set, c)

(* What a record says, of the cells it means.                              *)
RecordCells(r) ==
  { [i |-> IF r.i = 0 THEN WellHead[r.well].i ELSE r.i - 1,
     j |-> IF r.j = 0 THEN WellHead[r.well].j ELSE r.j - 1,
     k |-> layer - 1] : layer \in r.k1 .. r.k2 }
-----------------------------------------------------------------------------
CompdatOpens ==
  /\ stage = "none"
  /\ records < MaxRecords
  /\ stage' = "collect"
  /\ UNCHANGED <<clockVars, completions, lists, listed, well, newSet, historyVars>>

(* The body of the first loop, for the next record. *)
CollectRecord(r) ==
  /\ stage = "collect"
  /\ records < MaxRecords
  /\ records' = records + 1
  /\ lists' = [lists EXCEPT ![r.well] = @ \o FromRecord(r)]
  /\ listed' = listed \union {r.well}
  /\ asked' = [asked EXCEPT ![r.well] =
       [c \in DOMAIN @ \union RecordCells(r) |-> IF c \in RecordCells(r) THEN r.data ELSE @[c]]]
  /\ UNCHANGED <<clockVars, completions, stage, well, newSet>>

RecordsEnd ==
  /\ stage = "collect"
  /\ stage' = "apply"
  /\ UNCHANGED <<clockVars, completions, lists, listed, well, newSet, historyVars>>

(* A record with a state or direction that is none, in the first loop, or  *)
(* the name of a well that is not there, in the second.                    *)
CompdatRefused ==
  /\ stage # "none"
  /\ well = NoWell
  /\ Throw
  /\ UNCHANGED <<completions, handlerVars, historyVars>>

(* The body of the second loop, Well::addCompletions(): the copy, one step *)
(* for each member of the list, and the dynamic state.  The wells come in  *)
(* the order of their names; their order does not matter, and any is       *)
(* allowed here.                                                           *)
NextWell(w) ==
  /\ stage = "apply"
  /\ well = NoWell
  /\ w \in listed
  /\ well' = w
  /\ listed' = listed \ {w}
  /\ newSet' = Get(completions[w], currentStep)
  /\ UNCHANGED <<clockVars, completions, stage, lists, historyVars>>

AddNext ==
  /\ well # NoWell
  /\ lists[well] # << >>
  /\ newSet' = AddCompletion(newSet, FixDefaultIJ(Head(lists[well]), well))
  /\ lists' = [lists EXCEPT ![well] = Tail(@)]
  /\ UNCHANGED <<clockVars, completions, stage, listed, well, historyVars>>

(* A mistake: the set is added to where it is, and with it every earlier   *)
(* step that shares it.                                                    *)
WellDoneInPlace ==
  /\ well # NoWell
  /\ lists[well] = << >>
  /\ LET ds     == completions[well]
         Now(s) == IF s = Get(ds, currentStep) THEN newSet ELSE s
         shared == [data |-> [i \in DOMAIN ds.data |-> Now(ds.data[i])], current |-> newSet]
     IN  completions' = [completions EXCEPT ![well] = Add(shared, currentStep, newSet)]
  /\ well' = NoWell
  /\ newSet' = << >>
  /\ UNCHANGED <<clockVars, stage, lists, listed, historyVars>>

WellDone ==
  /\ well # NoWell
  /\ lists[well] = << >>
  /\ completions' = [completions EXCEPT ![well] = Add(@, currentStep, newSet)]
  /\ well' = NoWell
  /\ newSet' = << >>
  /\ UNCHANGED <<clockVars, stage, lists, listed, historyVars>>

CompdatCloses ==
  /\ stage = "apply"
  /\ well = NoWell
  /\ listed = {}
  /\ stage' = "none"
  /\ UNCHANGED <<clockVars, completions, lists, listed, well, newSet, historyVars>>

OtherKeyword ==
  /\ stage = "none"
  /\ (\E n \in 1 .. MaxPerKeyword : AdvanceTime(n)) \/ Complete \/ Throw
  /\ UNCHANGED <<completions, handlerVars, historyVars>>

Next ==
  /\ phase = "reading"
  /\ \/ OtherKeyword
     \/ CompdatOpens
     \/ \E r \in CompdatRecord : CollectRecord(r)
     \/ RecordsEnd
     \/ CompdatRefused
     \/ \E w \in Well : NextWell(w)
     \/ AddNext
     \/ WellDone
     \/ CompdatCloses

Spec == Init /\ [][Next]_vars
-----------------------------------------------------------------------------
DistinctCells(set) ==
  \A m, n \in DOMAIN set : CellOf(set[m]) = CellOf(set[n]) => m = n

(* Once a keyword is handled, each cell a record has named has the data of *)
(* the last record that named it, as if the records had been applied one   *)
(* by one in the order of the deck; no cell has two completions and no     *)
(* other cell one.  Sorting them by well, filling in the defaults only     *)
(* afterwards and adding to the completions of earlier steps change        *)
(* nothing (Completion.cpp:98-120, CompletionSet.cpp:42-56 and             *)
(* Well.cpp:188-198).                                                      *)
LastRecordWins ==
  stage = "none" =>
    \A w \in Well :
      LET set == Get(completions[w], currentStep)
      IN  /\ DistinctCells(set)
          /\ { CellOf(set[n]) : n \in DOMAIN set } = DOMAIN asked[w]
          /\ \A n \in DOMAIN set : set[n].data = asked[w][CellOf(set[n])]

(* A completion keeps its index in the set of its well from step to step   *)
(* (CompletionSet::get(index), by which the clients find it).              *)
PlacesAreKept ==
  [][\A w \in Well :
       LET old == Get(completions[w], currentStep)
           new == Get(completions'[w], currentStep')
       IN  \A n \in DOMAIN old : n \in DOMAIN new /\ CellOf(new[n]) = CellOf(old[n])]_vars
=============================================================================
