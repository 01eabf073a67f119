----------------------------- MODULE WellGroups -----------------------------
(***************************************************************************)
(* Wells, groups and the group tree as WELSPECS and GRUPTREE build them    *)
(* (Schedule.cpp, Group.cpp, WellSet.cpp): which group a well belongs to   *)
(* is kept twice, in the well (its group name) and in the groups (their    *)
(* well sets), each as a function of the report step.                      *)
(*                                                                         *)
(* A keyword handler is a loop over the records of the keyword.  Opening   *)
(* it copies the current tree, each record is one step, and closing it     *)
(* installs the copy; no other keyword can come in between.                *)
(***************************************************************************)
EXTENDS ScheduleClock, DynamicState, GroupTree

CONSTANTS
  Well,       \* the well names
  NoGroup,    \* the group name "": of a well that was never put in a group,
              \* and, if it is in Group, of the group that a WELSPECS record
              \* without a GROUP names (the item has no default of its own)
  WellData    \* what a WELSPECS record says of HEAD_I, HEAD_J, REF_DEPTH

VARIABLES
  wellSince,  \* m_wells: the m_creationTimeStep of every well there is
  head,       \* for each of them, the data its constructor stored
  groupSince, \* m_groups: the m_creationTimeStep of every group there is
  wellsOf,    \* Group::m_wells, for each group: dynamic state of a well set
  groupName,  \* Well::m_groupName, for each well: dynamic state of a name
  tree,       \* m_rootGroupTree: dynamic state of a group tree
  open,       \* the keyword whose records are being handled, or "none"
  newTree,    \* the handler's local copy of the tree
  needNewTree,\* WELSPECS: the copy differs from the current tree
  cutOff      \* history: the groups a GRUPTREE record has cut off the tree

membershipVars == <<wellSince, head, wellsOf, groupName>>
handlerVars == <<open, newTree, needNewTree>>
groupVars == <<membershipVars, handlerVars, groupSince, tree, cutOff>>
vars == <<clockVars, groupVars>>

(* hasWell() and hasGroup(). *)
wells == DOMAIN wellSince
groups == DOMAIN groupSince

GroupOrNone == Group \union {NoGroup}

TypeOK ==
  /\ ClockTypeOK
  /\ wells \subseteq Well /\ wellSince \in [wells -> Step]
  /\ head \in [wells -> WellData]
  /\ groups \subseteq Group /\ groupSince \in [groups -> Step]
  /\ wellsOf \in [Group -> DynamicStates(SUBSET Well)]
  /\ groupName \in [Well -> DynamicStates(GroupOrNone)]
  /\ tree \in DynamicStates(GroupTrees)
  /\ open \in {"none", "WELSPECS", "GRUPTREE"}
  /\ newTree \in GroupTrees
  /\ needNewTree \in BOOLEAN
  /\ cutOff \subseteq Group

(* initFromDeck() up to the loop over the deck: the group FIELD at step 0. *)
Init ==
  /\ ClockInit
  /\ wellSince = [w \in {} |-> 0]
  /\ head = [w \in {} |-> CHOOSE h \in WellData : TRUE]
  /\ groupSince = [g \in {Root} |-> 0]
  /\ wellsOf = [g \in Group |-> NewState({})]
  /\ groupName = [w \in Well |-> NewState(NoGroup)]
  /\ tree = NewState(EmptyTree)
  /\ open = "none"
  /\ newTree = EmptyTree
  /\ needNewTree = FALSE
  /\ cutOff = {}
-----------------------------------------------------------------------------
(* addWell() and addGroup() for the names that are not there yet.          *)
(* CreatedAnew is a mistake: what is there is created again.               *)
CreatedAnew(since, names) ==
  [n \in DOMAIN since \union names |-> IF n \in names THEN currentStep ELSE since[n]]

Created(since, names) ==
  [n \in DOMAIN since \union names |-> IF n \in DOMAIN since THEN since[n] ELSE currentStep]

(* Group::delWell() and Group::addWell(): a changed copy of the well set   *)
(* is the value from the current step on.                                  *)
DelWell(sets, g, w) ==
  [sets EXCEPT ![g] = Add(@, currentStep, Get(@, currentStep) \ {w})]

AddWellTo(sets, g, w) ==
  [sets EXCEPT ![g] = Add(@, currentStep, Get(@, currentStep) \union {w})]

(* A mistake addWellToGroup() could make: the well stays in the set of its *)
(* old group.                                                              *)
MoveWellStaysInOldGroup(w, g) ==
  /\ wellsOf' = AddWellTo(wellsOf, g, w)
  /\ groupName' = [groupName EXCEPT ![w] = Add(@, currentStep, g)]

(* addWellToGroup(): out of the set of the old group, if its name is not   *)
(* empty, and into that of the new one, with the well's own name for it in *)
(* between.  A well in the group named "" is not taken out of it.          *)
MoveWell(w, g) ==
  LET old  == Get(groupName[w], currentStep)
      left == IF old = NoGroup THEN wellsOf ELSE DelWell(wellsOf, old, w)
  IN  /\ wellsOf' = AddWellTo(left, g, w)
      /\ groupName' = [groupName EXCEPT ![w] = Add(@, currentStep, g)]

(* The checks below a handler that only fail if the schedule contradicts   *)
(* itself: the old group must exist and contain the well, and the dynamic  *)
(* states must take the current step.                                      *)
MembershipBroken(w, g) ==
  LET old == Get(groupName[w], currentStep)
  IN  \/ ~ CanAdd(groupName[w], currentStep, timeSteps)
      \/ ~ CanAdd(wellsOf[g], currentStep, timeSteps)
      \/ /\ old # NoGroup
         /\ \/ old \notin groups
            \/ w \notin Get(wellsOf[old], currentStep)
            \/ ~ CanAdd(wellsOf[old], currentStep, timeSteps)
-----------------------------------------------------------------------------
(* WELSPECS and GRUPTREE start from a deep copy of the current tree. *)
OpenKeyword(name) ==
  /\ open = "none"
  /\ open' = name
  /\ newTree' = Get(tree, currentStep)
  /\ UNCHANGED <<clockVars, membershipVars, groupSince, tree, needNewTree, cutOff>>

(* One record of WELSPECS: the group and the well are created if need be,  *)
(* the well is moved, and the group gets a node under the root if the copy *)
(* of the tree has none (addWell, handleGroupFromWELSPECS).                *)
WelspecsRecord(w, g, h) ==
  /\ open = "WELSPECS"
  /\ w \in wells => head[w] = h
  /\ ~ MembershipBroken(w, g)
  /\ groupSince' = Created(groupSince, {g})
  /\ wellSince' = Created(wellSince, {w})
  /\ head' = [v \in wells \union {w} |-> IF v \in wells THEN head[v] ELSE h]
  /\ MoveWell(w, g)
  /\ newTree' = IF g \in Nodes(newTree) THEN newTree ELSE UpdateTree(newTree, g, Root)
  /\ needNewTree' = (needNewTree \/ g \notin Nodes(newTree))
  /\ UNCHANGED <<clockVars, tree, open, cutOff>>

(* checkWELSPECSConsistency() finds other data than the well was made of,  *)
(* after the group has been created.                                       *)
WelspecsInconsistent(w, g, h) ==
  /\ open = "WELSPECS"
  /\ w \in wells
  /\ head[w] # h
  /\ groupSince' = Created(groupSince, {g})
  /\ Throw
  /\ UNCHANGED <<membershipVars, handlerVars, tree, cutOff>>

(* One record of GRUPTREE; the groups are created after the tree knows     *)
(* them.                                                                   *)
GruptreeRecord(child, parent) ==
  /\ open = "GRUPTREE"
  /\ child # Root
  /\ newTree' = UpdateTree(newTree, child, parent)
  /\ groupSince' = Created(groupSince, {child, parent})
  /\ cutOff' = IF CutsItselfOff(newTree, child, parent)
               THEN cutOff \union SubTree(WithParent(newTree, parent), child)
               ELSE cutOff
  /\ UNCHANGED <<clockVars, membershipVars, tree, open, needNewTree>>

(* updateTree() refuses to move the root (std::domain_error). *)
GruptreeMovesRoot ==
  /\ open = "GRUPTREE"
  /\ Throw
  /\ UNCHANGED groupVars

(* The end of a handler: GRUPTREE always installs its copy of the tree,    *)
(* WELSPECS only if it has added a group to it; its locals are gone.       *)
CloseKeyword ==
  /\ open # "none"
  /\ CanAdd(tree, currentStep, timeSteps)
  /\ tree' = IF open = "GRUPTREE" \/ needNewTree
             THEN Add(tree, currentStep, newTree) ELSE tree
  /\ open' = "none"
  /\ newTree' = EmptyTree
  /\ needNewTree' = FALSE
  /\ UNCHANGED <<clockVars, membershipVars, groupSince, cutOff>>

(* The keywords that do not concern the groups, as far as they do: DATES   *)
(* and TSTEP, the end of the deck, and one that is refused.                *)
OtherKeyword ==
  /\ open = "none"
  /\ (\E n \in 1 .. MaxPerKeyword : AdvanceTime(n)) \/ Complete \/ Throw
  /\ UNCHANGED groupVars

Next ==
  /\ phase = "reading"
  /\ \/ OtherKeyword
     \/ \E name \in {"WELSPECS", "GRUPTREE"} : OpenKeyword(name)
     \/ \E w \in Well, g \in Group, h \in WellData :
          WelspecsRecord(w, g, h) \/ WelspecsInconsistent(w, g, h)
     \/ \E child, parent \in Group : GruptreeRecord(child, parent)
     \/ GruptreeMovesRoot
     \/ CloseKeyword

Spec == Init /\ [][Next]_vars
-----------------------------------------------------------------------------
(* hasBeenDefined(), of a well. *)
HasBeenDefined(w, t) == w \in wells /\ wellSince[w] <= t

(* A well's own group name and the well sets of the groups say the same,   *)
(* at every report step: the two are written by different calls, at        *)
(* different records and steps, and read by different clients              *)
(* (Schedule.cpp:548-556).  A well is in the set of the group it names,    *)
(* and a group that has a name has no other wells; in particular no well   *)
(* is in two groups with names.  Nothing is said of other wells in the     *)
(* group "": a well stays there when it is moved (:550), unlike the test   *)
(* of moving a well (IntegrationTests/ScheduleCreateFromDeck.cpp:439) has  *)
(* it of groups with names.                                                *)
MembershipAgrees ==
  \A w \in Well, t \in Step :
    LET name == Get(groupName[w], t)
    IN  /\ HasBeenDefined(w, t) => name \in Group /\ w \in Get(wellsOf[name], t)
        /\ \A g \in Group \ {NoGroup} : w \in Get(wellsOf[g], t) <=> name = g

(* No record can meet one of the exceptions that say the schedule          *)
(* contradicts itself ("Does not have this well?", WellSet.cpp:35;         *)
(* "Elements must be added in weakly increasing order",                    *)
(* DynamicState.hpp:76), whatever records came before.                     *)
NeverContradicts ==
  phase = "reading" =>
    /\ \A w \in Well, g \in Group : ~ MembershipBroken(w, g)
    /\ CanAdd(tree, currentStep, timeSteps)

(* Every name in a group tree is a group of the schedule, at every report  *)
(* step and in the tree a handler is working on: a client that walks the   *)
(* tree and asks for the groups by name (getGroup) gets them.              *)
TreeNodesAreGroups ==
  /\ \A t \in Step : Nodes(Get(tree, t)) \subseteq groups
  /\ Nodes(newTree) \subseteq groups

(* hasBeenDefined(step) agrees with the rest of the schedule: a group of   *)
(* the tree, or one that has wells, has been defined at the step it is     *)
(* used at, and a well has been defined at exactly the steps at which some *)
(* group has it (getWells(step), Schedule.cpp:493-506).                    *)
DefinedWhenUsed ==
  /\ \A t \in Step, g \in Group :
       g \in Nodes(Get(tree, t)) \/ Get(wellsOf[g], t) # {}
         => g \in groups /\ groupSince[g] <= t
  /\ \A t \in Step, w \in Well :
       (\E g \in Group : w \in Get(wellsOf[g], t)) <=> HasBeenDefined(w, t)

(* Whatever groups are moved in whatever order, the walk down from FIELD   *)
(* meets every group of a tree: none is its own ancestor.                  *)
TreesAreRooted ==
  /\ \A t \in Step : Rooted(Get(tree, t))
  /\ Rooted(newTree)

(* The converse holds but for one thing: a group is missing from the       *)
(* current tree only if a GRUPTREE record has moved it, or a group above   *)
(* it, beneath itself (GroupTree.cpp:47-51).  An exception may leave a     *)
(* group without its node, but no schedule.                                *)
OnlyCutOffGroupsMissing ==
  phase # "thrown" =>
    groups \ Nodes(IF open = "none" THEN Get(tree, currentStep) ELSE newTree)
      \subseteq cutOff

(* What makes the agreement inductive: no dynamic state reaches past the   *)
(* current step, so add() takes it, the value past the end of each is the  *)
(* last that was set, and every group a well names exists or is "".        *)
EndsByNow(ds) == StateSize(ds) <= currentStep + 1 /\ CacheAgrees(ds)

StatesEndByNow ==
  /\ \A g \in Group : EndsByNow(wellsOf[g])
  /\ \A w \in Well : EndsByNow(groupName[w])
  /\ EndsByNow(tree)

NamedGroupsExist ==
  \A w \in Well, t \in Step : Get(groupName[w], t) \in groups \union {NoGroup}

MembershipInv ==
  /\ TypeOK
  /\ CurrentStepIsLast
  /\ StatesEndByNow
  /\ NamedGroupsExist
  /\ MembershipAgrees

(* For the tree the same, and that WELSPECS, when it has added no group,   *)
(* closes with the tree it opened with.                                    *)
CopyIsCurrent ==
  open = "WELSPECS" /\ ~ needNewTree => newTree = Get(tree, currentStep)

TreeInv ==
  /\ MembershipInv
  /\ CopyIsCurrent
  /\ TreeNodesAreGroups
  /\ TreesAreRooted
  /\ OnlyCutOffGroupsMissing

(* And nothing has been created later than now. *)
CreatedByNow ==
  /\ \A g \in groups : groupSince[g] <= currentStep
  /\ \A w \in wells : wellSince[w] <= currentStep

DefinedInv == TreeInv /\ CreatedByNow /\ DefinedWhenUsed

(* No keyword changes what holds before the current step: the group of a   *)
(* well, the wells of a group, the tree (the copies in Group.cpp:289-304   *)
(* and Schedule.cpp:127, :435, and DynamicState::add).                     *)
PastIsFrozen ==
  [][\A t \in Step : t < currentStep =>
       /\ \A g \in Group : Get(wellsOf'[g], t) = Get(wellsOf[g], t)
       /\ \A w \in Well : Get(groupName'[w], t) = Get(groupName[w], t)
       /\ Get(tree', t) = Get(tree, t)]_vars
=============================================================================
