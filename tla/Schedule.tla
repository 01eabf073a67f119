------------------------------ MODULE Schedule ------------------------------
(***************************************************************************)
(* The SCHEDULE section as a whole: the walk over the keywords of the deck *)
(* (Schedule::iterateScheduleSection) that hands each to its handler, and  *)
(* what the handlers share.  Wells and groups are made by WELSPECS and     *)
(* GRUPTREE (WellGroups); the other keywords find them by name and change  *)
(* how they are run (WellControls, GroupControls) and where they are       *)
(* completed (Completions).  All of them work at the same current step,    *)
(* and a keyword is handled before the next one is looked at.              *)
(*                                                                         *)
(* The four modules are instances of one set of variables.  A handler in   *)
(* them takes any well or group; here it must be there, or the handler     *)
(* throws (getWell(), getGroup()).                                         *)
(***************************************************************************)
EXTENDS ScheduleClock, DynamicState, Integers

CONSTANTS
  Well, NotAWell, Group, NoGroup, Root,
  WellHead,   \* what the records of WELSPECS say of each well
  WelspecsNames, GruptreeNames,  \* the pairs of names in these records
  Pattern,    \* the sets of wells a name in a record selects
  ProducerRecord, InjectorRecord, Target, Zero, GroupInjectionRecord, GroupProductionRecord,
  Data, CompdatRecord,
  MaxRecords, \* bound: records of one kind in a deck
  Budget      \* bound: how many of each kind it has at most

VARIABLES
  wellSince, head, groupSince, wellsOf, groupName, tree, open, newTree, needNewTree, cutOff,
  status, available, isProducer, production, injection, handler, record, properties, todo,
  isProductionGroup, groupInjection, groupProduction,
  completions, stage, lists, listed, well, newSet, asked,
  wellRecords, controlRecords, groupRecords, compdatRecords  \* the records so far, by kind

WellData == { WellHead[w] : w \in Well }

W == INSTANCE WellGroups

C == INSTANCE WellControls WITH Pattern <- SUBSET Well, records <- controlRecords

G == INSTANCE GroupControls WITH
       InjectionRecord <- GroupInjectionRecord, ProductionRecord <- GroupProductionRecord,
       injection <- groupInjection, production <- groupProduction, records <- groupRecords

D == INSTANCE Completions WITH NoWell <- NotAWell, records <- compdatRecords

ASSUME ScheduleAssumption ==
  /\ WelspecsNames \subseteq Well \X Group
  /\ GruptreeNames \subseteq Group \X Group
  /\ MaxRecords \in Nat
  /\ Budget \subseteq [wells : Nat, controls : Nat, groups : Nat, compdat : Nat]
  /\ C!WellControlsConstants
  /\ G!GroupControlsConstants
  /\ D!CompletionsConstants

specVars ==
  <<wellSince, head, groupSince, wellsOf, groupName, tree, open, newTree, needNewTree, cutOff,
    wellRecords>>
controlVars ==
  <<status, available, isProducer, production, injection, handler, record, properties, todo,
    controlRecords>>
ofGroups == <<isProductionGroup, groupInjection, groupProduction, groupRecords>>
drilledVars == <<completions, stage, lists, listed, well, newSet, asked, compdatRecords>>
vars == <<clockVars, specVars, controlVars, ofGroups, drilledVars>>

Init ==
  /\ W!Init
  /\ C!Init
  /\ G!Init
  /\ D!Init
  /\ wellRecords = 0

(* hasWell() and hasGroup(). *)
wells == {w \in Well : w \in DOMAIN wellSince}
groups == {g \in Group : g \in DOMAIN groupSince}

(* A deck has no more records of each kind than one of the budgets allows. *)
WithinBudget ==
  \E b \in Budget :
    /\ wellRecords <= b.wells
    /\ controlRecords <= b.controls
    /\ groupRecords <= b.groups
    /\ compdatRecords <= b.compdat
-----------------------------------------------------------------------------
(* No handler is in the middle of its keyword.                             *)
Between == open = "none" /\ handler = "none" /\ stage = "none"

(* DATES, TSTEP and the end of the deck, which all four see; and a keyword *)
(* that concerns none of them, whose handler throws.                       *)
OtherKeyword ==
  /\ Between
  /\ (\E n \in 1 .. MaxPerKeyword : AdvanceTime(n)) \/ Complete \/ Throw
  /\ UNCHANGED <<specVars, controlVars, ofGroups, drilledVars>>

(* WELSPECS and GRUPTREE. *)
WellSpecified ==
  /\ wellRecords' = wellRecords + 1
  /\ \/ \E w \in Well, g \in Group :
          <<w, g>> \in WelspecsNames /\ W!WelspecsRecord(w, g, WellHead[w])
     \/ \E child, parent \in Group :
          <<child, parent>> \in GruptreeNames /\ W!GruptreeRecord(child, parent)

WellGroupsStep ==
  /\ handler = "none" /\ stage = "none"
  /\ \/ WellSpecified
     \/ /\ UNCHANGED wellRecords
        /\ \/ \E name \in {"WELSPECS", "GRUPTREE"} : W!OpenKeyword(name)
           \/ \E w \in Well, g \in Group, h \in WellData :
                <<w, g>> \in WelspecsNames /\ W!WelspecsInconsistent(w, g, h)
           \/ W!GruptreeMovesRoot
           \/ W!CloseKeyword
  /\ UNCHANGED <<controlVars, ofGroups, drilledVars>>

(* The wells a name selects: those that are there when the record comes.   *)
Selected(names) == names \intersect wells

(* WCONPROD, WCONHIST, WCONINJE, WCONINJH, WELOPEN and WGRUPCON. *)
WellControlsStep ==
  /\ open = "none" /\ stage = "none"
  /\ \/ \E r \in ProducerRecord, names \in Pattern : C!WconproducerRecord(r, Selected(names))
     \/ \E r \in InjectorRecord, names \in Pattern : C!WconinjeRecord(r, Selected(names))
     \/ \E r \in InjectorRecord, w \in wells : C!WconinjhRecord(w, r) \/ C!WconinjhRefused(w, r)
     \/ \E w \in wells, s \in C!Status : C!WelopenRecord(w, s)
     \/ \E w \in wells, yes \in BOOLEAN : C!WgrupconRecord(w, yes)
     \/ C!LoopStep
  /\ UNCHANGED <<specVars, ofGroups, drilledVars>>

(* GCONINJE and GCONPROD. *)
GroupControlsStep ==
  /\ Between
  /\ \/ \E g \in groups, data \in GroupInjectionRecord : G!GconinjeRecord(g, data)
     \/ \E g \in groups, ph \in G!Phase : G!GconinjeRefused(g, ph)
     \/ \E g \in groups, data \in GroupProductionRecord : G!GconprodRecord(g, data)
  /\ UNCHANGED <<specVars, controlVars, drilledVars>>

(* COMPDAT, whose second loop looks for the wells. *)
CompletionsStep ==
  /\ open = "none" /\ handler = "none"
  /\ \/ D!CompdatOpens
     \/ \E r \in CompdatRecord : D!CollectRecord(r)
     \/ D!RecordsEnd
     \/ D!CompdatRefused
     \/ \E w \in wells : D!NextWell(w)
     \/ D!AddNext
     \/ D!WellDone
     \/ D!CompdatCloses
  /\ UNCHANGED <<specVars, controlVars, ofGroups>>

Next ==
  /\ phase = "reading"
  /\ \/ OtherKeyword
     \/ WellGroupsStep
     \/ WellControlsStep
     \/ GroupControlsStep
     \/ CompletionsStep
  /\ WithinBudget'

Spec == Init /\ [][Next]_vars
-----------------------------------------------------------------------------
(* What the keywords are checked for one by one holds of the whole. *)
ProductionModeAvailable == C!ProductionModeAvailable
InjectionModeAvailable == C!InjectionModeAvailable
EachWellAsIfAlone == C!EachWellAsIfAlone
PhaseIsSetOnce == G!PhaseIsSetOnce
LastRecordWins == D!LastRecordWins
PlacesAreKept == D!PlacesAreKept

(* No keyword reaches behind the step at which a well or a group was made: *)
(* before it, what a client reads of one is what its constructor has put   *)
(* there, however often WELSPECS and GRUPTREE name it afterwards           *)
(* (Schedule.cpp:116-148 and 436-448, Well.cpp and Group.cpp).             *)
NothingBeforeItIsThere ==
  /\ \A w \in Well, t \in Step :
       (w \in wells => t < wellSince[w]) =>
         /\ Get(status[w], t) = "OPEN"
         /\ Get(available[w], t)
         /\ Get(production[w], t) = C!DefaultProduction
         /\ Get(injection[w], t) = C!DefaultInjection
         /\ Get(completions[w], t) = << >>
  /\ \A g \in Group, t \in Step :
       (g \in groups => t < groupSince[g]) =>
         /\ Get(groupInjection[g], t).mode = "NONE"
         /\ Get(groupProduction[g], t).mode = "NONE"
         /\ Get(isProductionGroup[g], t)

(* What a well or a group was told for an earlier step it keeps, although  *)
(* the handlers build on it: the completion set a well has at the current  *)
(* step may be the very object it had at earlier steps, and COMPDAT must   *)
(* change a copy (Well.cpp:188-198, CompletionSet.cpp:59-66); injection    *)
(* properties are taken over and changed (Schedule.cpp:312); and every     *)
(* value goes into a vector that holds the earlier ones (DynamicState.hpp  *)
(* :70-89).                                                                *)
EarlierStepsAreKept ==
  [][\A t \in Step : t < currentStep =>
       /\ \A w \in Well :
            /\ Get(status'[w], t) = Get(status[w], t)
            /\ Get(available'[w], t) = Get(available[w], t)
            /\ Get(isProducer'[w], t) = Get(isProducer[w], t)
            /\ Get(production'[w], t) = Get(production[w], t)
            /\ Get(injection'[w], t) = Get(injection[w], t)
            /\ Get(completions'[w], t) = Get(completions[w], t)
       /\ \A g \in Group :
            /\ Get(groupInjection'[g], t) = Get(groupInjection[g], t)
            /\ Get(groupProduction'[g], t) = Get(groupProduction[g], t)
            /\ Get(isProductionGroup'[g], t) = Get(isProductionGroup[g], t)]_vars
=============================================================================
