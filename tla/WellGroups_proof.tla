-------------------------- MODULE WellGroups_proof --------------------------
(***************************************************************************)
(* Proofs about WellGroups for every set of wells and groups and every     *)
(* number of report steps.  The main result is that a well's group name    *)
(* and the groups' well sets agree at every report step; it rests on what  *)
(* Get returns after Add (the lemmas of DynamicState).                     *)
(***************************************************************************)
EXTENDS WellGroups, TLAPS
-----------------------------------------------------------------------------
(* What the operators of GroupTree return: updateTree() makes a tree of    *)
(* the right names out of a tree, and the walk from the root still meets   *)
(* every node.                                                             *)

LEMMA EmptyTreeType == EmptyTree \in GroupTrees /\ Nodes(EmptyTree) = {Root}
  BY DEF EmptyTree, GroupTrees, Nodes

LEMMA AttachType ==
  ASSUME NEW t \in GroupTrees, NEW c \in Group \ {Root}, NEW p \in Group
  PROVE  /\ Attach(t, c, p) \in GroupTrees
         /\ Nodes(Attach(t, c, p)) = Nodes(t) \union {c}
  <1>1. PICK S \in SUBSET (Group \ {Root}) : t \in [S -> Group]
    BY DEF GroupTrees
  <1>2. Attach(t, c, p) \in [S \union {c} -> Group]
    BY <1>1 DEF Attach
  <1>3. S \union {c} \in SUBSET (Group \ {Root})
    OBVIOUS
  <1>4. QED
    BY <1>1, <1>2, <1>3 DEF GroupTrees, Nodes

LEMMA PruneType ==
  ASSUME NEW t \in GroupTrees, NEW n
  PROVE  /\ Prune(t, n) \in GroupTrees
         /\ Nodes(Prune(t, n)) \subseteq Nodes(t)
         /\ Nodes(t) \ SubTree(t, n) \subseteq Nodes(Prune(t, n))
  <1>1. PICK S \in SUBSET (Group \ {Root}) : t \in [S -> Group]
    BY DEF GroupTrees
  <1>2. Prune(t, n) \in [S \ SubTree(t, n) -> Group]
    BY <1>1 DEF Prune
  <1>3. S \ SubTree(t, n) \in SUBSET (Group \ {Root})
    OBVIOUS
  <1>4. QED
    BY <1>1, <1>2, <1>3 DEF GroupTrees, Nodes

LEMMA WithParentType ==
  ASSUME NEW t \in GroupTrees, NEW p \in Group
  PROVE  /\ WithParent(t, p) \in GroupTrees
         /\ Nodes(WithParent(t, p)) = Nodes(t) \union {p}
  <1>1. CASE p \in Nodes(t)
    BY <1>1 DEF WithParent
  <1>2. CASE p \notin Nodes(t)
    <2>1. p \in Group \ {Root}
      BY <1>2 DEF Nodes
    <2>2. QED
      BY <1>2, <2>1, AttachType, GroupTreeAssumption DEF WithParent
  <1>3. QED
    BY <1>1, <1>2

(* updateTree() gives a tree again, adds no names but the two it is given, *)
(* and loses none but those of a subtree it cuts off.                      *)
LEMMA UpdateTreeType ==
  ASSUME NEW t \in GroupTrees, NEW c \in Group \ {Root}, NEW p \in Group
  PROVE  /\ UpdateTree(t, c, p) \in GroupTrees
         /\ Nodes(UpdateTree(t, c, p)) \subseteq Nodes(t) \union {c, p}
         /\ (Nodes(t) \union {c, p}) \ Nodes(UpdateTree(t, c, p))
              \subseteq IF CutsItselfOff(t, c, p) THEN SubTree(WithParent(t, p), c) ELSE {}
  <1> DEFINE q == WithParent(t, p)
  <1>1. q \in GroupTrees /\ Nodes(q) = Nodes(t) \union {p}
    BY WithParentType
  <1>2. CASE CutsItselfOff(t, c, p)
    <2>1. UpdateTree(t, c, p) = Prune(q, c)
      BY <1>2 DEF UpdateTree
    <2>2. c \in Nodes(q)
      BY <1>2 DEF CutsItselfOff, Nodes
    <2>3. QED
      BY <1>1, <1>2, <2>1, <2>2, PruneType
  <1>3. CASE ~ CutsItselfOff(t, c, p)
    <2>1. UpdateTree(t, c, p) = Attach(q, c, p)
      BY <1>3 DEF UpdateTree
    <2>2. QED
      BY <1>1, <1>3, <2>1, AttachType
  <1>4. QED
    BY <1>2, <1>3
-----------------------------------------------------------------------------
(* The subtree of a node has the node and every child of its members, and  *)
(* is within every set that does.                                          *)
LEMMA SubTreeClosed ==
  ASSUME NEW t, NEW n
  PROVE  /\ n \in SubTree(t, n)
         /\ HasItsChildren(t, SubTree(t, n))
         /\ SubTree(t, n) \subseteq DOMAIN t \union {n}
  BY DEF SubTree, HasItsChildren

LEMMA SubTreeLeast ==
  ASSUME NEW t, NEW n, NEW S, n \in S, HasItsChildren(t, S)
  PROVE  SubTree(t, n) \subseteq S
  <1> DEFINE all == DOMAIN t \union {n}
  <1>1. S \intersect all \in SUBSET all /\ n \in S \intersect all
    OBVIOUS
  <1>2. HasItsChildren(t, S \intersect all)
    BY DEF HasItsChildren
  <1>3. QED
    BY <1>1, <1>2 DEF SubTree

(* Hanging a node, with what lies below it, under one that lies elsewhere. *)
LEMMA AttachRooted ==
  ASSUME NEW t \in GroupTrees, Rooted(t), NEW c \in Group \ {Root}, NEW p \in Nodes(t),
         p \notin SubTree(t, c)
  PROVE  Rooted(Attach(t, c, p))
  <1> DEFINE new == Attach(t, c, p)
             S   == SubTree(new, Root)
  <1>1. /\ DOMAIN new = DOMAIN t \union {c}
        /\ new[c] = p
        /\ \A g \in DOMAIN t \ {c} : new[g] = t[g]
    BY DEF Attach
  <1>2. /\ Root \in S /\ S \subseteq Nodes(new)
        /\ \A g \in DOMAIN new : new[g] \in S => g \in S
    BY SubTreeClosed DEF HasItsChildren, Nodes
  <1> HIDE DEF new, S
  <1>3. Nodes(t) \subseteq S \union SubTree(t, c)
    <2>1. HasItsChildren(t, S \union SubTree(t, c))
      BY <1>1, <1>2, SubTreeClosed DEF HasItsChildren
    <2>2. QED
      BY <2>1, <1>2, SubTreeLeast DEF Rooted
  <1>4. c \in S
    BY <1>1, <1>2, <1>3
  <1>5. HasItsChildren(t, S)
    BY <1>1, <1>2, <1>4 DEF HasItsChildren
  <1>6. Nodes(t) \subseteq S
    BY <1>2, <1>5, SubTreeLeast DEF Rooted
  <1>7. S = Nodes(new)
    BY <1>1, <1>2, <1>4, <1>6 DEF Nodes
  <1>8. QED
    BY <1>7 DEF Rooted, new, S

LEMMA PruneRooted ==
  ASSUME NEW t \in GroupTrees, Rooted(t), NEW c \in Group \ {Root}
  PROVE  Rooted(Prune(t, c))
  <1> DEFINE new == Prune(t, c)
             S   == SubTree(new, Root)
  <1>1. /\ DOMAIN new = DOMAIN t \ SubTree(t, c)
        /\ \A g \in DOMAIN new : new[g] = t[g]
    BY DEF Prune
  <1>2. /\ Root \in S /\ S \subseteq Nodes(new)
        /\ \A g \in DOMAIN new : new[g] \in S => g \in S
    BY SubTreeClosed DEF HasItsChildren, Nodes
  <1> HIDE DEF new, S
  <1>3. Nodes(t) \subseteq S \union SubTree(t, c)
    <2>1. HasItsChildren(t, S \union SubTree(t, c))
      BY <1>1, <1>2, SubTreeClosed DEF HasItsChildren
    <2>2. QED
      BY <2>1, <1>2, SubTreeLeast DEF Rooted
  <1>4. S = Nodes(new)
    BY <1>1, <1>2, <1>3 DEF Nodes
  <1>5. QED
    BY <1>4 DEF Rooted, new, S

(* Nothing in a tree lies below a name that is not in it. *)
LEMMA NothingBelowAbsent ==
  ASSUME NEW t \in GroupTrees, Rooted(t), NEW c \in Group, c \notin Nodes(t)
  PROVE  SubTree(t, c) \intersect Nodes(t) = {}
  <1> DEFINE B == SubTree(t, c)
             S == Nodes(t) \ B
  <1>1. c \in B /\ HasItsChildren(t, B) /\ B \subseteq DOMAIN t \union {c}
    BY SubTreeClosed
  <1>2. c \notin DOMAIN t /\ c # Root /\ Root \notin DOMAIN t
    BY DEF Nodes, GroupTrees
  <1>3. ASSUME NEW g \in DOMAIN t, g \in B PROVE t[g] \in B
    <2>1. SUFFICES ASSUME t[g] \notin B PROVE FALSE
      OBVIOUS
    <2>2. HasItsChildren(t, B \ {g})
      BY <1>1, <2>1 DEF HasItsChildren
    <2>3. B \subseteq B \ {g}
      BY <1>1, <1>2, <2>2, SubTreeLeast
    <2>4. QED
      BY <1>3, <2>3
  <1>4. HasItsChildren(t, S)
    BY <1>3 DEF HasItsChildren, Nodes
  <1>5. Root \in S
    BY <1>1, <1>2 DEF Nodes
  <1>6. Nodes(t) \subseteq S
    BY <1>4, <1>5, SubTreeLeast DEF Rooted
  <1>7. QED
    BY <1>6

LEMMA WithParentRooted ==
  ASSUME NEW t \in GroupTrees, Rooted(t), NEW p \in Group
  PROVE  Rooted(WithParent(t, p))
  <1>1. CASE p \in Nodes(t)
    BY <1>1 DEF WithParent
  <1>2. CASE p \notin Nodes(t)
    <2>1. p \in Group \ {Root} /\ Root \in Nodes(t)
      BY <1>2 DEF Nodes
    <2>2. Root \notin SubTree(t, p)
      BY <1>2, <2>1, NothingBelowAbsent
    <2>3. QED
      BY <1>2, <2>1, <2>2, AttachRooted DEF WithParent
  <1>3. QED
    BY <1>1, <1>2

(* Whatever group is moved wherever, the result is a tree.  It is because  *)
(* the walk never meets what updateTree() has hung under itself.           *)
LEMMA UpdateTreeRooted ==
  ASSUME NEW t \in GroupTrees, Rooted(t), NEW c \in Group \ {Root}, NEW p \in Group
  PROVE  Rooted(UpdateTree(t, c, p))
  <1> DEFINE q == WithParent(t, p)
  <1>1. q \in GroupTrees /\ Rooted(q) /\ p \in Nodes(q)
    BY WithParentType, WithParentRooted
  <1>2. CASE CutsItselfOff(t, c, p)
    BY <1>1, <1>2, PruneRooted DEF UpdateTree
  <1>3. CASE ~ CutsItselfOff(t, c, p)
    <2>1. p \notin SubTree(q, c)
      <3>1. CASE c \in DOMAIN q
        BY <1>3, <3>1 DEF CutsItselfOff
      <3>2. CASE c \notin DOMAIN q
        <4>1. c \notin Nodes(q)
          BY <3>2 DEF Nodes
        <4>2. QED
          BY <4>1, <1>1, NothingBelowAbsent
      <3>3. QED
        BY <3>1, <3>2
    <2>2. QED
      BY <1>1, <1>3, <2>1, AttachRooted DEF UpdateTree
  <1>4. QED
    BY <1>2, <1>3

LEMMA EmptyTreeRooted == Rooted(EmptyTree)
  BY SubTreeClosed, EmptyTreeType DEF Rooted, EmptyTree, Nodes
-----------------------------------------------------------------------------

(* What one add() at the current step does to a dynamic state that ends by *)
(* then.                                                                   *)
LEMMA AddNow ==
  ASSUME MembershipInv, NEW V, NEW ds \in DynamicStates(V), EndsByNow(ds), NEW v \in V
  PROVE  /\ Add(ds, currentStep, v) \in DynamicStates(V)
         /\ EndsByNow(Add(ds, currentStep, v))
         /\ \A t \in Step : Get(Add(ds, currentStep, v), t)
                              = IF t >= currentStep THEN v ELSE Get(ds, t)
  <1>1. currentStep \in Nat /\ Step \subseteq Nat
    BY ClockAssumption DEF MembershipInv, TypeOK, ClockTypeOK, Step
  <1>2. ~ SetsThePast(ds, currentStep)
    BY <1>1, NotThePast DEF EndsByNow
  <1>3. QED
    BY <1>1, <1>2, AddType, AddCache, GetAdd DEF EndsByNow

(* The facts about the clock and the states that every step uses. *)
LEMMA NowIsAStep ==
  ASSUME MembershipInv
  PROVE  currentStep \in Nat /\ currentStep \in Step /\ Step \subseteq Nat
  BY ClockAssumption DEF MembershipInv, TypeOK, ClockTypeOK, CurrentStepIsLast, Step

LEMMA PersistsFromNow ==
  ASSUME MembershipInv, NEW V, NEW ds \in DynamicStates(V), EndsByNow(ds),
         NEW t \in Step, t >= currentStep
  PROVE  Get(ds, t) = Get(ds, currentStep)
  BY NowIsAStep, GetPersists DEF EndsByNow

LEMMA CreatedType ==
  ASSUME MembershipInv, NEW S, NEW since \in [S -> Step], NEW names
  PROVE  Created(since, names) \in [S \union names -> Step]
  BY NowIsAStep DEF Created

(* One well's move: the types of the two new functions, and what they      *)
(* answer at every step.  The well may move to the group it is in, and it  *)
(* stays in the group "" if it was there.                                  *)
LEMMA MoveWellEffect ==
  ASSUME MembershipInv, NEW w \in Well, NEW g \in Group, MoveWell(w, g)
  PROVE  /\ wellsOf' \in [Group -> DynamicStates(SUBSET Well)]
         /\ groupName' \in [Well -> DynamicStates(GroupOrNone)]
         /\ \A h \in Group : EndsByNow(wellsOf'[h])
         /\ \A v \in Well : EndsByNow(groupName'[v])
         /\ \A v \in Well, t \in Step :
              Get(groupName'[v], t) = IF v = w /\ t >= currentStep THEN g
                                      ELSE Get(groupName[v], t)
         /\ \A h \in Group, v \in Well, t \in Step :
              v \in Get(wellsOf'[h], t)
                <=> IF v = w /\ t >= currentStep
                    THEN h = g \/ (h = NoGroup /\ w \in Get(wellsOf[h], t))
                    ELSE v \in Get(wellsOf[h], t)
  <1> DEFINE now  == currentStep
             old  == Get(groupName[w], now)
             left == IF old = NoGroup THEN wellsOf ELSE DelWell(wellsOf, old, w)
  <1>1. now \in Nat /\ Step \subseteq Nat /\ now \in Step
    BY NowIsAStep
  <1>2. \A h \in Group : wellsOf[h] \in DynamicStates(SUBSET Well) /\ EndsByNow(wellsOf[h])
    BY DEF MembershipInv, TypeOK, StatesEndByNow
  <1>3. \A v \in Well : groupName[v] \in DynamicStates(GroupOrNone) /\ EndsByNow(groupName[v])
    BY DEF MembershipInv, TypeOK, StatesEndByNow
  <1>4. /\ groupName' \in [Well -> DynamicStates(GroupOrNone)]
        /\ \A v \in Well : EndsByNow(groupName'[v])
        /\ \A v \in Well, t \in Step :
             Get(groupName'[v], t) = IF v = w /\ t >= now THEN g ELSE Get(groupName[v], t)
    <2>0. g \in GroupOrNone
      BY DEF GroupOrNone
    <2>1. /\ Add(groupName[w], now, g) \in DynamicStates(GroupOrNone)
          /\ EndsByNow(Add(groupName[w], now, g))
          /\ \A t \in Step : Get(Add(groupName[w], now, g), t)
                               = IF t >= now THEN g ELSE Get(groupName[w], t)
      BY <2>0, <1>3, AddNow
    <2>2. groupName' = [groupName EXCEPT ![w] = Add(groupName[w], now, g)]
      BY DEF MoveWell
    <2>3. QED
      BY <1>3, <2>1, <2>2 DEF MembershipInv, TypeOK
  <1>5. old \in Group \/ old = NoGroup
    BY <1>1, <1>3, GetType DEF GroupOrNone
  <1>6. /\ left \in [Group -> DynamicStates(SUBSET Well)]
        /\ \A h \in Group : EndsByNow(left[h])
        /\ \A h \in Group, t \in Step :
             Get(left[h], t) = IF h = old /\ old # NoGroup /\ t >= now
                               THEN Get(wellsOf[h], now) \ {w} ELSE Get(wellsOf[h], t)
    <2>1. CASE old = NoGroup
      BY <2>1, <1>2 DEF MembershipInv, TypeOK
    <2>2. CASE old \in Group /\ old # NoGroup
      <3> DEFINE set == Get(wellsOf[old], now) \ {w}
      <3>1. set \in SUBSET Well
        BY <1>1, <1>2, <2>2, GetType
      <3>2. left = [wellsOf EXCEPT ![old] = Add(wellsOf[old], now, set)]
        BY <2>2 DEF DelWell
      <3>3. /\ Add(wellsOf[old], now, set) \in DynamicStates(SUBSET Well)
            /\ EndsByNow(Add(wellsOf[old], now, set))
            /\ \A t \in Step : Get(Add(wellsOf[old], now, set), t)
                                 = IF t >= now THEN set ELSE Get(wellsOf[old], t)
        BY <3>1, <1>2, <2>2, AddNow
      <3>4. QED
        BY <3>2, <3>3, <1>2, <2>2 DEF MembershipInv, TypeOK
    <2>3. QED
      BY <2>1, <2>2, <1>5
  <1> DEFINE joined == Get(left[g], now) \union {w}
  <1>7. /\ wellsOf' \in [Group -> DynamicStates(SUBSET Well)]
        /\ \A h \in Group : EndsByNow(wellsOf'[h])
        /\ \A h \in Group, t \in Step :
             Get(wellsOf'[h], t) = IF h = g /\ t >= now THEN joined ELSE Get(left[h], t)
    <2>1. joined \in SUBSET Well
      BY <1>1, <1>6, GetType
    <2>2. wellsOf' = [left EXCEPT ![g] = Add(left[g], now, joined)]
      BY DEF MoveWell, AddWellTo
    <2> HIDE DEF left, joined
    <2>3. /\ Add(left[g], now, joined) \in DynamicStates(SUBSET Well)
          /\ EndsByNow(Add(left[g], now, joined))
          /\ \A t \in Step : Get(Add(left[g], now, joined), t)
                               = IF t >= now THEN joined ELSE Get(left[g], t)
      <3>1. left[g] \in DynamicStates(SUBSET Well) /\ EndsByNow(left[g])
        BY <1>6
      <3>2. QED
        BY <2>1, <3>1, AddNow
    <2>4. QED
      BY <2>2, <2>3, <1>6
  <1>8. ASSUME NEW h \in Group, NEW v \in Well, NEW t \in Step
        PROVE  v \in Get(wellsOf'[h], t)
                 <=> IF v = w /\ t >= now
                     THEN h = g \/ (h = NoGroup /\ w \in Get(wellsOf[h], t))
                     ELSE v \in Get(wellsOf[h], t)
    <2>1. CASE t < now
      <3>1. ~ (t >= now)
        BY <2>1, <1>1
      <3>2. QED
        BY <3>1, <1>6, <1>7
    <2>2. CASE t >= now
      <3>1. Get(wellsOf[h], t) = Get(wellsOf[h], now)
        BY <2>2, <1>2, PersistsFromNow
      <3>2. now >= now
        BY <1>1
      <3>3. v \in Get(left[h], t)
              <=> v \in Get(wellsOf[h], now) /\ (v # w \/ h # old \/ old = NoGroup)
        BY <2>2, <3>1, <1>6
      <3>4. v \in Get(left[h], now)
              <=> v \in Get(wellsOf[h], now) /\ (v # w \/ h # old \/ old = NoGroup)
        BY <3>2, <1>1, <1>6
      <3>5. h # NoGroup => (w \in Get(wellsOf[h], now) <=> h = old)
        BY <1>1 DEF MembershipInv, MembershipAgrees
      <3>6. CASE h = g
        <4>1. v \in Get(wellsOf'[h], t) <=> v \in Get(left[h], now) \/ v = w
          BY <3>6, <2>2, <1>7
        <4>2. QED
          BY <4>1, <3>1, <3>4, <3>6, <2>2
      <3>7. CASE h # g
        <4>1. v \in Get(wellsOf'[h], t) <=> v \in Get(left[h], t)
          BY <3>7, <1>7
        <4>2. QED
          BY <4>1, <3>1, <3>3, <3>5, <3>7, <2>2
      <3>8. QED
        BY <3>6, <3>7
    <2>3. QED
      BY <2>1, <2>2, <1>1
  <1>9. QED
    BY <1>4, <1>7, <1>8
-----------------------------------------------------------------------------
(* The invariant holds at first and every step keeps it, one case per      *)
(* action.  A step that leaves the groups' variables alone is the easy     *)
(* case: the clock may only move forward.                                  *)
LEMMA MembershipInit == Init => MembershipInv
  <1> SUFFICES ASSUME Init PROVE MembershipInv
    OBVIOUS
  <1>1. Step \subseteq Nat /\ 0 \in Step
    BY ClockAssumption DEF Step
  <1>2. /\ NewState({}) \in DynamicStates(SUBSET Well)
        /\ StateSize(NewState({})) = 0
        /\ \A t \in Nat : Get(NewState({}), t) = {}
    BY NewStateType
  <1>3. /\ NewState(NoGroup) \in DynamicStates(GroupOrNone)
        /\ StateSize(NewState(NoGroup)) = 0
        /\ \A t \in Nat : Get(NewState(NoGroup), t) = NoGroup
    BY NewStateType DEF GroupOrNone
  <1>4. /\ NewState(EmptyTree) \in DynamicStates(GroupTrees)
        /\ StateSize(NewState(EmptyTree)) = 0
    BY NewStateType, EmptyTreeType
  <1>5. TypeOK
    <2>1. ClockTypeOK
      BY ClockAssumption DEF Init, ClockInit, ClockTypeOK, Phases
    <2>2. /\ wells \subseteq Well /\ wellSince \in [wells -> Step]
          /\ groups \subseteq Group /\ groupSince \in [groups -> Step]
          /\ cutOff \subseteq Group
      BY <1>1, GroupTreeAssumption DEF Init, wells, groups
    <2>3. head \in [wells -> WellData]
      BY DEF Init, wells
    <2>4. /\ wellsOf \in [Group -> DynamicStates(SUBSET Well)]
          /\ groupName \in [Well -> DynamicStates(GroupOrNone)]
          /\ tree \in DynamicStates(GroupTrees)
      BY <1>2, <1>3, <1>4 DEF Init
    <2>5. open \in {"none", "WELSPECS", "GRUPTREE"} /\ needNewTree \in BOOLEAN
      BY DEF Init
    <2>6. newTree \in GroupTrees
      BY EmptyTreeType DEF Init
    <2>7. QED
      BY <2>1, <2>2, <2>3, <2>4, <2>5, <2>6 DEF TypeOK
  <1>6. CurrentStepIsLast
    BY DEF Init, ClockInit, CurrentStepIsLast
  <1>7. StatesEndByNow
    BY <1>2, <1>3, <1>4 DEF Init, ClockInit, StatesEndByNow, EndsByNow, CacheAgrees
  <1>8. NamedGroupsExist
    BY <1>1, <1>3 DEF Init, NamedGroupsExist
  <1>9. MembershipAgrees
    <2>1. \A w \in Well, t \in Step : ~ HasBeenDefined(w, t)
      BY DEF Init, HasBeenDefined, wells
    <2>2. \A w \in Well, t \in Step, g \in Group :
            Get(groupName[w], t) = NoGroup /\ w \notin Get(wellsOf[g], t)
      BY <1>1, <1>2, <1>3 DEF Init
    <2>3. QED
      BY <2>1, <2>2 DEF MembershipAgrees
  <1>10. QED
    BY <1>5, <1>6, <1>7, <1>8, <1>9 DEF MembershipInv

LEMMA MembershipClock ==
  ASSUME MembershipInv, membershipVars' = membershipVars, groupSince' = groupSince, tree' = tree,
         timeSteps' \in 1 .. MaxSteps, currentStep' \in Nat, phase' \in Phases,
         currentStep' = timeSteps' - 1, currentStep' >= currentStep,
         open' \in {"none", "WELSPECS", "GRUPTREE"}, newTree' \in GroupTrees,
         needNewTree' \in BOOLEAN, cutOff' \subseteq Group
  PROVE  MembershipInv'
  <1>1. TypeOK' /\ CurrentStepIsLast'
    BY DEF MembershipInv, TypeOK, ClockTypeOK, CurrentStepIsLast, membershipVars, wells, groups
  <1>2. StatesEndByNow'
    <2>1. currentStep \in Nat /\ currentStep' \in Nat /\ currentStep <= currentStep'
      BY DEF MembershipInv, TypeOK, ClockTypeOK
    <2>2. ASSUME NEW V, NEW ds \in DynamicStates(V), EndsByNow(ds)
          PROVE  StateSize(ds) <= currentStep' + 1 /\ CacheAgrees(ds)
      <3>1. StateSize(ds) \in Nat
        BY GetType
      <3>2. StateSize(ds) <= currentStep + 1 /\ CacheAgrees(ds)
        BY <2>2 DEF EndsByNow
      <3>3. \A size, now, later \in Nat : size <= now + 1 /\ now <= later => size <= later + 1
        OBVIOUS
      <3>4. StateSize(ds) <= currentStep' + 1
        BY <2>1, <3>1, <3>2, <3>3, Zenon
      <3>5. QED
        BY <3>2, <3>4
    <2>3. \A g \in Group : StateSize(wellsOf[g]) <= currentStep' + 1 /\ CacheAgrees(wellsOf[g])
      BY <2>2 DEF MembershipInv, TypeOK, StatesEndByNow
    <2>4. \A w \in Well : StateSize(groupName[w]) <= currentStep' + 1 /\ CacheAgrees(groupName[w])
      BY <2>2 DEF MembershipInv, TypeOK, StatesEndByNow
    <2>5. StateSize(tree) <= currentStep' + 1 /\ CacheAgrees(tree)
      BY <2>2 DEF MembershipInv, TypeOK, StatesEndByNow
    <2>6. QED
      <3>1. wellsOf' = wellsOf /\ groupName' = groupName /\ tree' = tree
        BY DEF membershipVars
      <3>2. \A g \in Group : StateSize(wellsOf'[g]) <= currentStep' + 1 /\ CacheAgrees(wellsOf'[g])
        BY <3>1, <2>3
      <3>3. QED
        BY <3>1, <3>2, <2>4, <2>5 DEF StatesEndByNow, EndsByNow
  <1>3. NamedGroupsExist' /\ MembershipAgrees'
    BY DEF MembershipInv, NamedGroupsExist, MembershipAgrees, HasBeenDefined, wells,
           membershipVars, groups
  <1>4. QED
    BY <1>1, <1>2, <1>3 DEF MembershipInv

LEMMA MembershipStep == MembershipInv /\ [Next]_vars => MembershipInv'
  <1> SUFFICES ASSUME MembershipInv, [Next]_vars PROVE MembershipInv'
    OBVIOUS
  <1>1. /\ currentStep \in Nat /\ currentStep \in Step /\ Step \subseteq Nat
        /\ timeSteps \in 1 .. MaxSteps /\ MaxSteps \in Nat /\ currentStep = timeSteps - 1
        /\ phase \in Phases /\ open \in {"none", "WELSPECS", "GRUPTREE"}
        /\ newTree \in GroupTrees /\ needNewTree \in BOOLEAN /\ cutOff \subseteq Group
    BY NowIsAStep, ClockAssumption DEF MembershipInv, TypeOK, ClockTypeOK, CurrentStepIsLast
  <1>2. CASE OtherKeyword
    <2>1. /\ timeSteps' \in 1 .. MaxSteps /\ currentStep' \in Nat /\ phase' \in Phases
          /\ currentStep' = timeSteps' - 1 /\ currentStep' >= currentStep
      BY <1>1, <1>2, ClockAssumption DEF OtherKeyword, AdvanceTime, Complete, Throw, Phases
    <2>2. /\ membershipVars' = membershipVars /\ groupSince' = groupSince /\ tree' = tree
          /\ open' = open /\ newTree' = newTree /\ needNewTree' = needNewTree /\ cutOff' = cutOff
      BY <1>2 DEF OtherKeyword, groupVars, handlerVars
    <2>3. QED
      BY <1>1, <2>1, <2>2, MembershipClock
  <1>3. ASSUME NEW name \in {"WELSPECS", "GRUPTREE"}, OpenKeyword(name)
        PROVE  MembershipInv'
    <2>1. Get(tree, currentStep) \in GroupTrees
      BY <1>1, GetType DEF MembershipInv, TypeOK
    <2>2. /\ timeSteps' = timeSteps /\ currentStep' = currentStep /\ phase' = phase
          /\ membershipVars' = membershipVars /\ groupSince' = groupSince /\ tree' = tree
          /\ open' = name /\ newTree' = Get(tree, currentStep)
          /\ needNewTree' = needNewTree /\ cutOff' = cutOff
      BY <1>3 DEF OpenKeyword, clockVars
    <2>3. QED
      BY <1>1, <2>1, <2>2, MembershipClock
  <1>4. ASSUME NEW w \in Well, NEW g \in Group, NEW h \in WellData, WelspecsRecord(w, g, h)
        PROVE  MembershipInv'
    <2>1. /\ UNCHANGED <<timeSteps, currentStep, phase, tree, open, cutOff>>
          /\ groupSince' = Created(groupSince, {g})
          /\ wellSince' = Created(wellSince, {w})
          /\ head' = [v \in wells \union {w} |-> IF v \in wells THEN head[v] ELSE h]
          /\ MoveWell(w, g)
          /\ newTree' = IF g \in Nodes(newTree) THEN newTree ELSE UpdateTree(newTree, g, Root)
          /\ needNewTree' = (needNewTree \/ g \notin Nodes(newTree))
      BY <1>4 DEF WelspecsRecord, clockVars
    <2>2. newTree' \in GroupTrees
      <3>1. CASE g \in Nodes(newTree)
        BY <3>1, <2>1 DEF MembershipInv, TypeOK
      <3>2. CASE g \notin Nodes(newTree)
        <4>1. g \in Group \ {Root}
          BY <3>2 DEF Nodes
        <4>2. QED
          BY <4>1, <3>2, <2>1, UpdateTreeType, GroupTreeAssumption DEF MembershipInv, TypeOK
      <3>3. QED
        BY <3>1, <3>2
    <2>3. TypeOK'
      <3>1. /\ groups' = groups \union {g} /\ groups' \subseteq Group
            /\ groupSince' \in [groups' -> Step]
        <4>1. groups \subseteq Group /\ groupSince \in [groups -> Step]
          BY DEF MembershipInv, TypeOK
        <4>2. groupSince' \in [groups \union {g} -> Step]
          BY <2>1, <4>1, CreatedType
        <4>3. groups' = groups \union {g}
          BY <4>2 DEF groups
        <4>4. QED
          BY <4>1, <4>2, <4>3
      <3>2. /\ wells' = wells \union {w} /\ wells' \subseteq Well
            /\ wellSince' \in [wells' -> Step]
        BY <2>1, CreatedType DEF wells, Created, MembershipInv, TypeOK
      <3>3. head' \in [wells' -> WellData]
        BY <2>1, <3>2 DEF MembershipInv, TypeOK
      <3>4. /\ wellsOf' \in [Group -> DynamicStates(SUBSET Well)]
            /\ groupName' \in [Well -> DynamicStates(GroupOrNone)]
        BY <2>1, MoveWellEffect
      <3>5. QED
        BY <2>1, <2>2, <3>1, <3>2, <3>3, <3>4 DEF MembershipInv, TypeOK, ClockTypeOK
    <2>4. StatesEndByNow' /\ CurrentStepIsLast'
      BY <2>1, MoveWellEffect DEF MembershipInv, StatesEndByNow, EndsByNow, CurrentStepIsLast
    <2>5. NamedGroupsExist'
      <3>1. groups' = groups \union {g}
        BY <2>1 DEF groups, Created
      <3>2. QED
        BY <2>1, <3>1, <1>1, MoveWellEffect DEF MembershipInv, NamedGroupsExist
    <2>6. MembershipAgrees'
      <3> SUFFICES ASSUME NEW v \in Well, NEW t \in Step
                   PROVE  /\ HasBeenDefined(v, t)'
                               => /\ Get(groupName'[v], t) \in Group
                                  /\ v \in Get(wellsOf'[Get(groupName'[v], t)], t)
                          /\ \A f \in Group \ {NoGroup} :
                               v \in Get(wellsOf'[f], t) <=> Get(groupName'[v], t) = f
        BY DEF MembershipAgrees
      <3>1. CASE v = w /\ t >= currentStep
        BY <3>1, <2>1, MoveWellEffect
      <3>2. CASE ~ (v = w /\ t >= currentStep)
        <4>1. /\ Get(groupName'[v], t) = Get(groupName[v], t)
              /\ \A f \in Group : v \in Get(wellsOf'[f], t) <=> v \in Get(wellsOf[f], t)
          BY <3>2, <2>1, MoveWellEffect
        <4>2. HasBeenDefined(v, t)' => HasBeenDefined(v, t)
          BY <3>2, <2>1, <1>1 DEF HasBeenDefined, wells, Created
        <4>3. QED
          BY <4>1, <4>2 DEF MembershipInv, MembershipAgrees
      <3>3. QED
        BY <3>1, <3>2
    <2>7. QED
      BY <2>3, <2>4, <2>5, <2>6 DEF MembershipInv
  <1>5. ASSUME NEW w \in Well, NEW g \in Group, NEW h \in WellData,
               WelspecsInconsistent(w, g, h)
        PROVE  MembershipInv'
    <2>1. /\ UNCHANGED <<timeSteps, currentStep, membershipVars, tree, cutOff, open, newTree,
                         needNewTree>>
          /\ phase' \in Phases
          /\ groupSince' = Created(groupSince, {g})
      BY <1>5 DEF WelspecsInconsistent, Throw, Phases, handlerVars
    <2>2. TypeOK'
      <3>1. groups' \subseteq Group /\ groupSince' \in [groups' -> Step]
        <4>1. groups \subseteq Group /\ groupSince \in [groups -> Step]
          BY DEF MembershipInv, TypeOK
        <4>2. groupSince' \in [groups \union {g} -> Step]
          BY <2>1, <4>1, CreatedType
        <4>3. groups' = groups \union {g}
          BY <4>2 DEF groups
        <4>4. QED
          BY <4>1, <4>2, <4>3
      <3>2. wells' = wells
        BY <2>1 DEF wells, membershipVars
      <3>3. QED
        BY <2>1, <3>1, <3>2 DEF MembershipInv, TypeOK, ClockTypeOK, membershipVars
    <2>3. StatesEndByNow' /\ CurrentStepIsLast'
      BY <2>1 DEF MembershipInv, StatesEndByNow, EndsByNow, CurrentStepIsLast, membershipVars
    <2>4. MembershipAgrees'
      BY <2>1 DEF MembershipInv, MembershipAgrees, HasBeenDefined, wells, membershipVars
    <2>5. NamedGroupsExist'
      BY <2>1 DEF MembershipInv, NamedGroupsExist, membershipVars, groups, Created
    <2>6. QED
      BY <2>2, <2>3, <2>4, <2>5 DEF MembershipInv
  <1>6. ASSUME NEW child \in Group, NEW parent \in Group, GruptreeRecord(child, parent)
        PROVE  MembershipInv'
    <2>1. /\ UNCHANGED <<timeSteps, currentStep, phase, membershipVars, tree, open, needNewTree>>
          /\ child \in Group \ {Root}
          /\ newTree' = UpdateTree(newTree, child, parent)
          /\ groupSince' = Created(groupSince, {child, parent})
      BY <1>6 DEF GruptreeRecord, clockVars
    <2>2. newTree' \in GroupTrees
      BY <2>1, UpdateTreeType DEF MembershipInv, TypeOK
    <2>3. cutOff' \subseteq Group
      <3>1. WithParent(newTree, parent) \in GroupTrees
        BY WithParentType DEF MembershipInv, TypeOK
      <3>2. SubTree(WithParent(newTree, parent), child) \subseteq Group
        BY <3>1 DEF SubTree, GroupTrees
      <3>3. QED
        BY <3>2, <1>6 DEF GruptreeRecord, MembershipInv, TypeOK
    <2>4. TypeOK'
      <3>1. /\ groups' = groups \union {child, parent} /\ groups' \subseteq Group
            /\ groupSince' \in [groups' -> Step]
        <4>1. groups \subseteq Group /\ groupSince \in [groups -> Step]
          BY DEF MembershipInv, TypeOK
        <4>2. groupSince' \in [groups \union {child, parent} -> Step]
          BY <2>1, <4>1, CreatedType
        <4>3. groups' = groups \union {child, parent}
          BY <4>2 DEF groups
        <4>4. QED
          BY <4>1, <4>2, <4>3
      <3>2. wells' = wells
        BY <2>1 DEF wells, membershipVars
      <3>3. QED
        BY <2>1, <2>2, <2>3, <3>1, <3>2 DEF MembershipInv, TypeOK, ClockTypeOK, membershipVars
    <2>5. StatesEndByNow' /\ CurrentStepIsLast' /\ MembershipAgrees'
      BY <2>1 DEF MembershipInv, StatesEndByNow, EndsByNow, CurrentStepIsLast,
                  MembershipAgrees, HasBeenDefined, wells, membershipVars
    <2>6. NamedGroupsExist'
      BY <2>1 DEF MembershipInv, NamedGroupsExist, membershipVars, groups, Created
    <2>7. QED
      BY <2>4, <2>5, <2>6 DEF MembershipInv
  <1>7. CASE GruptreeMovesRoot
    <2>1. /\ timeSteps' = timeSteps /\ currentStep' = currentStep /\ phase' \in Phases
          /\ membershipVars' = membershipVars /\ groupSince' = groupSince /\ tree' = tree
          /\ open' = open /\ newTree' = newTree /\ needNewTree' = needNewTree /\ cutOff' = cutOff
      BY <1>1, <1>7 DEF GruptreeMovesRoot, Throw, Phases, groupVars, handlerVars
    <2>2. QED
      BY <1>1, <2>1, MembershipClock
  <1>8. CASE CloseKeyword
    <2>1. /\ UNCHANGED <<timeSteps, currentStep, phase, membershipVars, groupSince, cutOff>>
          /\ newTree' = EmptyTree /\ open' = "none" /\ needNewTree' = FALSE
          /\ \/ tree' = tree
             \/ tree' = Add(tree, currentStep, newTree)
      BY <1>8 DEF CloseKeyword, clockVars
    <2>2. tree' \in DynamicStates(GroupTrees) /\ EndsByNow(tree')
      <3>1. tree \in DynamicStates(GroupTrees) /\ EndsByNow(tree) /\ newTree \in GroupTrees
        BY DEF MembershipInv, TypeOK, StatesEndByNow
      <3>2. QED
        BY <2>1, <3>1, AddNow
    <2>3. TypeOK'
      BY <2>1, <2>2, EmptyTreeType
      DEF MembershipInv, TypeOK, ClockTypeOK, membershipVars, wells, groups
    <2>4. StatesEndByNow'
      BY <2>1, <2>2 DEF MembershipInv, StatesEndByNow, EndsByNow, membershipVars
    <2>5. CurrentStepIsLast' /\ NamedGroupsExist' /\ MembershipAgrees'
      BY <2>1 DEF MembershipInv, CurrentStepIsLast, NamedGroupsExist, MembershipAgrees,
                  HasBeenDefined, wells, membershipVars, groups
    <2>6. QED
      BY <2>3, <2>4, <2>5 DEF MembershipInv
  <1>9. CASE UNCHANGED vars
    <2>1. /\ timeSteps' = timeSteps /\ currentStep' = currentStep /\ phase' \in Phases
          /\ membershipVars' = membershipVars /\ groupSince' = groupSince /\ tree' = tree
          /\ open' = open /\ newTree' = newTree /\ needNewTree' = needNewTree /\ cutOff' = cutOff
      BY <1>1, <1>9 DEF vars, clockVars, groupVars, handlerVars
    <2>2. QED
      BY <1>1, <2>1, MembershipClock
  <1>10. QED
    BY <1>2, <1>3, <1>4, <1>5, <1>6, <1>7, <1>8, <1>9 DEF Next

THEOREM MembershipInvariant == Spec => []MembershipInv
  BY MembershipInit, MembershipStep, PTL DEF Spec

(* The variables keep their types: in particular GRUPTREE and WELSPECS,    *)
(* in whatever order, build nothing but group trees.                       *)
THEOREM TypeCorrect == Spec => []TypeOK
  <1>1. MembershipInv => TypeOK
    BY DEF MembershipInv
  <1>2. QED
    BY <1>1, MembershipInvariant, PTL

(* At every step a well is in the set of the group it names, and in that   *)
(* of no other group with a name.                                          *)
THEOREM Membership == Spec => []MembershipAgrees
  <1>1. MembershipInv => MembershipAgrees
    BY DEF MembershipInv
  <1>2. QED
    BY <1>1, MembershipInvariant, PTL

(* None of the exceptions that say the schedule contradicts itself can be  *)
(* met by a WELSPECS or GRUPTREE record.                                   *)
THEOREM NoContradiction == Spec => []NeverContradicts
  <1>1. MembershipInv => NeverContradicts
    <2> SUFFICES ASSUME MembershipInv
                 PROVE  /\ \A w \in Well, g \in Group : ~ MembershipBroken(w, g)
                        /\ CanAdd(tree, currentStep, timeSteps)
      BY DEF NeverContradicts
    <2>1. currentStep \in Nat /\ currentStep \in Step /\ timeSteps \in Nat /\ currentStep < timeSteps
      <3>1. currentStep \in Nat /\ currentStep \in Step
        BY NowIsAStep
      <3>2. timeSteps \in 1 .. MaxSteps /\ MaxSteps \in Nat /\ currentStep = timeSteps - 1
        BY ClockAssumption DEF MembershipInv, TypeOK, ClockTypeOK, CurrentStepIsLast
      <3>3. QED
        BY <3>1, <3>2
    <2>2. ASSUME NEW V, NEW ds \in DynamicStates(V), EndsByNow(ds)
          PROVE  CanAdd(ds, currentStep, timeSteps)
      <3>1. ~ SetsThePast(ds, currentStep)
        BY <2>1, <2>2, NotThePast DEF EndsByNow
      <3>2. ~ OutOfRange(currentStep, timeSteps)
        BY <2>1 DEF OutOfRange
      <3>3. QED
        BY <3>1, <3>2 DEF CanAdd
    <2>3. /\ \A w \in Well : CanAdd(groupName[w], currentStep, timeSteps)
          /\ \A g \in Group : CanAdd(wellsOf[g], currentStep, timeSteps)
          /\ CanAdd(tree, currentStep, timeSteps)
      BY <2>2 DEF MembershipInv, TypeOK, StatesEndByNow
    <2>4. ASSUME NEW w \in Well, Get(groupName[w], currentStep) # NoGroup
          PROVE  /\ Get(groupName[w], currentStep) \in Group
                 /\ Get(groupName[w], currentStep) \in groups
                 /\ w \in Get(wellsOf[Get(groupName[w], currentStep)], currentStep)
      <3>1. Get(groupName[w], currentStep) \in groups /\ groups \subseteq Group
        BY <2>1, <2>4 DEF MembershipInv, NamedGroupsExist, TypeOK
      <3>2. \A g \in Group \ {NoGroup} :
              w \in Get(wellsOf[g], currentStep) <=> Get(groupName[w], currentStep) = g
        BY <2>1 DEF MembershipInv, MembershipAgrees
      <3>3. QED
        BY <3>1, <3>2, <2>4
    <2>5. ASSUME NEW w \in Well, NEW g \in Group
          PROVE  ~ MembershipBroken(w, g)
      <3>1. CASE Get(groupName[w], currentStep) = NoGroup
        BY <3>1, <2>3 DEF MembershipBroken
      <3>2. CASE Get(groupName[w], currentStep) # NoGroup
        <4>1. CanAdd(wellsOf[Get(groupName[w], currentStep)], currentStep, timeSteps)
          BY <3>2, <2>3, <2>4
        <4>2. QED
          BY <3>2, <4>1, <2>3, <2>4 DEF MembershipBroken
      <3>3. QED
        BY <3>1, <3>2
    <2>6. QED
      BY <2>3, <2>5
  <1>2. QED
    BY <1>1, MembershipInvariant, PTL

(* Handlers write at the last step of the time map. *)
THEOREM WritesAtTheLastStep == Spec => []CurrentStepIsLast
  <1>1. MembershipInv => CurrentStepIsLast
    BY DEF MembershipInv
  <1>2. QED
    BY <1>1, MembershipInvariant, PTL

(* Nothing a keyword does is seen before the current step. *)
THEOREM PastStaysFrozen == Spec => PastIsFrozen
  <1> DEFINE Frozen == \A t \in Step : t < currentStep =>
               /\ \A g \in Group : Get(wellsOf'[g], t) = Get(wellsOf[g], t)
               /\ \A w \in Well : Get(groupName'[w], t) = Get(groupName[w], t)
               /\ Get(tree', t) = Get(tree, t)
  <1>1. MembershipInv /\ [Next]_vars => Frozen
    <2> SUFFICES ASSUME MembershipInv, [Next]_vars, NEW t \in Step, t < currentStep
                 PROVE  /\ \A g \in Group : Get(wellsOf'[g], t) = Get(wellsOf[g], t)
                        /\ \A w \in Well : Get(groupName'[w], t) = Get(groupName[w], t)
                        /\ Get(tree', t) = Get(tree, t)
      OBVIOUS
    <2>1. t \in Nat /\ currentStep \in Nat /\ ~ (t >= currentStep)
      BY NowIsAStep
    <2>2. CASE wellsOf' = wellsOf /\ groupName' = groupName
      <3>1. CASE tree' = tree
        BY <2>2, <3>1
      <3>2. CASE tree' = Add(tree, currentStep, newTree)
        <4>1. tree \in DynamicStates(GroupTrees) /\ EndsByNow(tree) /\ newTree \in GroupTrees
          BY DEF MembershipInv, TypeOK, StatesEndByNow
        <4>2. Get(tree', t) = Get(tree, t)
          BY <3>2, <4>1, <2>1, AddNow
        <4>3. QED
          BY <2>2, <4>2
      <3>3. tree' = tree \/ tree' = Add(tree, currentStep, newTree) \/ wellsOf' # wellsOf
              \/ groupName' # groupName
        BY DEF Next, vars, groupVars, membershipVars, OtherKeyword, OpenKeyword,
               WelspecsRecord, WelspecsInconsistent, GruptreeRecord, GruptreeMovesRoot, CloseKeyword
      <3>4. QED
        BY <2>2, <3>1, <3>2, <3>3
    <2>3. ASSUME NEW w \in Well, NEW g \in Group, NEW h \in WellData, WelspecsRecord(w, g, h)
          PROVE  /\ \A f \in Group : Get(wellsOf'[f], t) = Get(wellsOf[f], t)
                 /\ \A v \in Well : Get(groupName'[v], t) = Get(groupName[v], t)
                 /\ tree' = tree
      <3>1. MoveWell(w, g) /\ tree' = tree
        BY <2>3 DEF WelspecsRecord
      <3>2. ASSUME NEW f \in Group
            PROVE  Get(wellsOf'[f], t) = Get(wellsOf[f], t)
        <4>1. Get(wellsOf'[f], t) \in SUBSET Well /\ Get(wellsOf[f], t) \in SUBSET Well
          BY <3>1, <2>1, GetType, MoveWellEffect DEF MembershipInv, TypeOK
        <4>2. \A v \in Well : v \in Get(wellsOf'[f], t) <=> v \in Get(wellsOf[f], t)
          BY <3>1, <2>1, MoveWellEffect
        <4>3. QED
          BY <4>1, <4>2
      <3>3. QED
        BY <3>1, <3>2, <2>1, MoveWellEffect
    <2>4. (wellsOf' = wellsOf /\ groupName' = groupName)
            \/ \E w \in Well, g \in Group, h \in WellData : WelspecsRecord(w, g, h)
      BY DEF Next, vars, groupVars, membershipVars, OtherKeyword, OpenKeyword,
             WelspecsInconsistent, GruptreeRecord, GruptreeMovesRoot, CloseKeyword
    <2>5. QED
      BY <2>2, <2>3, <2>4
  <1>2. QED
    BY <1>1, MembershipInvariant, PTL DEF Spec, PastIsFrozen
-----------------------------------------------------------------------------
(* The trees: what the steps keep.  The names in a tree are groups, the    *)
(* walk from the root meets them all, and a group is missing only if it    *)
(* was cut off.                                                            *)
LEMMA TreeInit == Init => TreeInv
  <1> SUFFICES ASSUME Init PROVE TreeInv
    OBVIOUS
  <1>1. MembershipInv /\ Step \subseteq Nat /\ currentStep \in Step
    BY MembershipInit, NowIsAStep
  <1>2. \A t \in Step : Get(tree, t) = EmptyTree
    BY <1>1, NewStateType, EmptyTreeType DEF Init
  <1>3. newTree = EmptyTree /\ groups = {Root} /\ open = "none"
    BY DEF Init, groups
  <1>4. QED
    BY <1>1, <1>2, <1>3, EmptyTreeType, EmptyTreeRooted
    DEF TreeInv, CopyIsCurrent, TreeNodesAreGroups, TreesAreRooted, OnlyCutOffGroupsMissing

LEMMA TreeStep == TreeInv /\ [Next]_vars => TreeInv'
  <1> SUFFICES ASSUME TreeInv, [Next]_vars PROVE TreeInv'
    OBVIOUS
  <1>1. MembershipInv /\ MembershipInv'
    BY MembershipStep DEF TreeInv
  <1>2. /\ currentStep \in Nat /\ currentStep \in Step /\ Step \subseteq Nat
        /\ currentStep' \in Nat /\ currentStep' \in Step
    <2>1. currentStep' \in Nat /\ currentStep' \in Step
      <3>1. ClockTypeOK' /\ CurrentStepIsLast'
        BY <1>1 DEF MembershipInv, TypeOK
      <3>2. timeSteps' \in 1 .. MaxSteps /\ currentStep' \in Nat /\ currentStep' = timeSteps' - 1
        BY <3>1 DEF ClockTypeOK, CurrentStepIsLast
      <3>3. \A n \in 1 .. MaxSteps : n - 1 \in Step
        BY ClockAssumption DEF Step
      <3>4. QED
        BY <3>2, <3>3
    <2>2. QED
      BY <1>1, <2>1, NowIsAStep
  <1>3. /\ newTree \in GroupTrees /\ Rooted(newTree) /\ Nodes(newTree) \subseteq groups
        /\ \A t \in Step : Rooted(Get(tree, t)) /\ Nodes(Get(tree, t)) \subseteq groups
        /\ tree \in DynamicStates(GroupTrees) /\ EndsByNow(tree)
    BY <1>1 DEF TreeInv, TreesAreRooted, TreeNodesAreGroups, MembershipInv, TypeOK, StatesEndByNow
  <1>4. CASE UNCHANGED groupVars /\ (currentStep' = currentStep \/ OtherKeyword)
    <2>1. tree' = tree /\ newTree' = newTree /\ groups' = groups /\ open' = open
            /\ cutOff' = cutOff /\ needNewTree' = needNewTree
            /\ (phase' # "thrown" => phase # "thrown")
      BY <1>4 DEF groupVars, handlerVars, groups, Next, vars, clockVars
    <2>2. CASE currentStep' = currentStep
      <3>1. OnlyCutOffGroupsMissing'
        BY <2>1, <2>2 DEF TreeInv, OnlyCutOffGroupsMissing
      <3>2. QED
        BY <1>1, <2>1, <2>2, <3>1 DEF TreeInv, CopyIsCurrent, TreeNodesAreGroups, TreesAreRooted
    <2>3. CASE OtherKeyword
      <3>1. open = "none" /\ currentStep' >= currentStep
        BY <2>3, <1>2 DEF OtherKeyword, AdvanceTime, Complete, Throw
      <3>2. Get(tree, currentStep') = Get(tree, currentStep)
        BY <1>1, <1>2, <1>3, <3>1, PersistsFromNow
      <3>3. OnlyCutOffGroupsMissing'
        BY <2>1, <3>1, <3>2 DEF TreeInv, OnlyCutOffGroupsMissing
      <3>4. QED
        BY <1>1, <2>1, <3>1, <3>3 DEF TreeInv, CopyIsCurrent, TreeNodesAreGroups, TreesAreRooted
    <2>4. QED
      BY <1>4, <2>2, <2>3
  <1>5. ASSUME NEW name \in {"WELSPECS", "GRUPTREE"}, OpenKeyword(name)
        PROVE  TreeInv'
    <2>1. /\ open = "none" /\ open' # "none" /\ newTree' = Get(tree, currentStep)
          /\ tree' = tree /\ groups' = groups /\ cutOff' = cutOff
          /\ currentStep' = currentStep /\ phase' = phase
      BY <1>5 DEF OpenKeyword, clockVars, groups
    <2>2. QED
      BY <1>1, <1>2, <1>3, <2>1
      DEF TreeInv, CopyIsCurrent, TreeNodesAreGroups, TreesAreRooted, OnlyCutOffGroupsMissing
  <1>6. ASSUME NEW w \in Well, NEW g \in Group, NEW h \in WellData, WelspecsRecord(w, g, h)
        PROVE  TreeInv'
    <2>1. /\ open = "WELSPECS" /\ open' = open /\ tree' = tree /\ currentStep' = currentStep
          /\ groups' = groups \union {g} /\ cutOff' = cutOff /\ phase' = phase
          /\ newTree' = IF g \in Nodes(newTree) THEN newTree ELSE UpdateTree(newTree, g, Root)
          /\ needNewTree' = (needNewTree \/ g \notin Nodes(newTree))
      BY <1>6 DEF WelspecsRecord, clockVars, groups, Created
    <2>2. /\ Rooted(newTree')
          /\ Nodes(newTree') \subseteq Nodes(newTree) \union {g}
          /\ Nodes(newTree) \union {g} \subseteq Nodes(newTree')
      <3>1. CASE g \in Nodes(newTree)
        BY <3>1, <2>1, <1>3
      <3>2. CASE g \notin Nodes(newTree)
        <4>1. g \in Group \ {Root} /\ Root \in Nodes(newTree) /\ Root \in Group
          BY <3>2, GroupTreeAssumption DEF Nodes
        <4>2. ~ CutsItselfOff(newTree, g, Root)
          BY <3>2, <4>1 DEF CutsItselfOff, WithParent, Nodes
        <4>3. QED
          BY <3>2, <4>1, <4>2, <2>1, <1>3, UpdateTreeType, UpdateTreeRooted
      <3>3. QED
        BY <3>1, <3>2
    <2>3. TreesAreRooted'
      BY <2>1, <2>2, <1>3 DEF TreesAreRooted
    <2>4. TreeNodesAreGroups'
      BY <2>1, <2>2, <1>3 DEF TreeNodesAreGroups
    <2>5. CopyIsCurrent'
      BY <2>1 DEF CopyIsCurrent, TreeInv
    <2>6. OnlyCutOffGroupsMissing'
      BY <2>1, <2>2 DEF OnlyCutOffGroupsMissing, TreeInv
    <2>7. QED
      BY <1>1, <2>3, <2>4, <2>5, <2>6 DEF TreeInv
  <1>7. ASSUME NEW child \in Group, NEW parent \in Group, GruptreeRecord(child, parent)
        PROVE  TreeInv'
    <2>1. /\ open = "GRUPTREE" /\ open' = open /\ tree' = tree /\ currentStep' = currentStep
          /\ child \in Group \ {Root} /\ phase' = phase
          /\ newTree' = UpdateTree(newTree, child, parent)
          /\ groups' = groups \union {child, parent}
          /\ cutOff' = IF CutsItselfOff(newTree, child, parent)
                       THEN cutOff \union SubTree(WithParent(newTree, parent), child)
                       ELSE cutOff
      BY <1>7 DEF GruptreeRecord, clockVars, groups, Created
    <2>2. TreesAreRooted'
      BY <2>1, <1>3, UpdateTreeRooted DEF TreesAreRooted
    <2>3. TreeNodesAreGroups'
      BY <2>1, <1>3, UpdateTreeType DEF TreeNodesAreGroups
    <2>4. OnlyCutOffGroupsMissing'
      <3> SUFFICES ASSUME phase # "thrown" PROVE groups' \ Nodes(newTree') \subseteq cutOff'
        BY <2>1 DEF OnlyCutOffGroupsMissing
      <3>1. groups \ Nodes(newTree) \subseteq cutOff
        BY <2>1 DEF TreeInv, OnlyCutOffGroupsMissing
      <3>2. (Nodes(newTree) \union {child, parent}) \ Nodes(newTree')
              \subseteq IF CutsItselfOff(newTree, child, parent)
                        THEN SubTree(WithParent(newTree, parent), child) ELSE {}
        BY <2>1, <1>3, UpdateTreeType
      <3>3. QED
        BY <2>1, <3>1, <3>2
    <2>5. QED
      BY <1>1, <2>1, <2>2, <2>3, <2>4 DEF TreeInv, CopyIsCurrent
  <1>8. CASE CloseKeyword
    <2>1. /\ open \in {"WELSPECS", "GRUPTREE"} /\ open' = "none" /\ newTree' = EmptyTree
          /\ tree' = IF open = "GRUPTREE" \/ needNewTree
                     THEN Add(tree, currentStep, newTree) ELSE tree
          /\ groups' = groups /\ cutOff' = cutOff /\ currentStep' = currentStep
          /\ phase' = phase
      BY <1>1, <1>8 DEF CloseKeyword, clockVars, MembershipInv, TypeOK, groups
    <2>2. \A t \in Step : Get(Add(tree, currentStep, newTree), t)
                            = IF t >= currentStep THEN newTree ELSE Get(tree, t)
      BY <1>1, <1>3, AddNow
    <2>3. \A t \in Step : Get(tree', t) = newTree \/ Get(tree', t) = Get(tree, t)
      BY <2>1, <2>2
    <2>4. Get(tree', currentStep) = newTree
      BY <2>1, <2>2, <1>2 DEF TreeInv, CopyIsCurrent
    <2>5. TreesAreRooted'
      BY <2>1, <2>3, <1>3, EmptyTreeRooted DEF TreesAreRooted
    <2>6. TreeNodesAreGroups'
      <3>1. Root \in groups
        BY <1>3 DEF Nodes
      <3>2. QED
        BY <2>1, <2>3, <3>1, <1>3, EmptyTreeType DEF TreeNodesAreGroups
    <2>7. OnlyCutOffGroupsMissing'
      BY <2>1, <2>4 DEF OnlyCutOffGroupsMissing, TreeInv
    <2>8. QED
      BY <1>1, <2>1, <2>5, <2>6, <2>7 DEF TreeInv, CopyIsCurrent
  <1>9. ASSUME NEW w \in Well, NEW g \in Group, NEW h \in WellData,
               WelspecsInconsistent(w, g, h)
        PROVE  TreeInv'
    <2>1. /\ open' = open /\ tree' = tree /\ currentStep' = currentStep /\ phase' = "thrown"
          /\ newTree' = newTree /\ needNewTree' = needNewTree
          /\ groups' = groups \union {g}
      BY <1>9 DEF WelspecsInconsistent, Throw, handlerVars, groups, Created
    <2>2. TreesAreRooted'
      BY <2>1, <1>3 DEF TreesAreRooted
    <2>3. TreeNodesAreGroups'
      BY <2>1, <1>3 DEF TreeNodesAreGroups
    <2>4. QED
      BY <1>1, <2>1, <2>2, <2>3 DEF TreeInv, CopyIsCurrent, OnlyCutOffGroupsMissing
  <1>10. (UNCHANGED groupVars /\ (currentStep' = currentStep \/ OtherKeyword))
          \/ (\E name \in {"WELSPECS", "GRUPTREE"} : OpenKeyword(name))
          \/ (\E w \in Well, g \in Group, h \in WellData : WelspecsRecord(w, g, h))
          \/ (\E w \in Well, g \in Group, h \in WellData : WelspecsInconsistent(w, g, h))
          \/ (\E child, parent \in Group : GruptreeRecord(child, parent))
          \/ CloseKeyword
    BY DEF Next, vars, clockVars, OtherKeyword, GruptreeMovesRoot, Throw
  <1>11. QED
    BY <1>4, <1>5, <1>6, <1>7, <1>8, <1>9, <1>10

THEOREM TreeInvariant == Spec => []TreeInv
  BY TreeInit, TreeStep, PTL DEF Spec

(* Every name in a tree is a group of the schedule. *)
THEOREM TreeNamesExist == Spec => []TreeNodesAreGroups
  <1>1. TreeInv => TreeNodesAreGroups
    BY DEF TreeInv
  <1>2. QED
    BY <1>1, TreeInvariant, PTL

(* Whatever groups GRUPTREE moves, the trees have no cycle. *)
THEOREM TreesStayRooted == Spec => []TreesAreRooted
  <1>1. TreeInv => TreesAreRooted
    BY DEF TreeInv
  <1>2. QED
    BY <1>1, TreeInvariant, PTL

(* A group is missing from the tree only if it was cut off. *)
THEOREM MissingGroupsAreCutOff == Spec => []OnlyCutOffGroupsMissing
  <1>1. TreeInv => OnlyCutOffGroupsMissing
    BY DEF TreeInv
  <1>2. QED
    BY <1>1, TreeInvariant, PTL
-----------------------------------------------------------------------------
(* Creation steps: a record creates what is not there yet at the current   *)
(* step, and uses it from there on.                                        *)
LEMMA DefinedInit == Init => DefinedInv
  <1> SUFFICES ASSUME Init PROVE DefinedInv
    OBVIOUS
  <1>1. TreeInv /\ MembershipInv /\ Step \subseteq Nat
    BY TreeInit, MembershipInit, NowIsAStep
  <1>2. \A t \in Step : Get(tree, t) = EmptyTree
    BY <1>1, NewStateType, EmptyTreeType DEF Init
  <1>3. \A t \in Step, g \in Group : Get(wellsOf[g], t) = {}
    BY <1>1, NewStateType DEF Init
  <1>4. groupSince = [g \in {Root} |-> 0] /\ wells = {} /\ groups = {Root} /\ currentStep = 0
    BY DEF Init, ClockInit, wells, groups
  <1>5. CreatedByNow
    BY <1>4 DEF CreatedByNow
  <1>6. DefinedWhenUsed
    BY <1>1, <1>2, <1>3, <1>4, EmptyTreeType DEF DefinedWhenUsed, HasBeenDefined
  <1>7. QED
    BY <1>1, <1>5, <1>6 DEF DefinedInv

LEMMA DefinedStep == DefinedInv /\ [Next]_vars => DefinedInv'
  <1> SUFFICES ASSUME DefinedInv, [Next]_vars PROVE DefinedInv'
    OBVIOUS
  <1>1. TreeInv /\ TreeInv' /\ MembershipInv
    BY TreeStep DEF DefinedInv, TreeInv
  <1>2. currentStep \in Nat /\ currentStep \in Step /\ Step \subseteq Nat
    BY <1>1, NowIsAStep
  <1>3. /\ groupSince \in [groups -> Step] /\ wellSince \in [wells -> Step]
        /\ \A g \in groups : groupSince[g] \in Nat /\ groupSince[g] <= currentStep
        /\ \A w \in wells : wellSince[w] \in Nat /\ wellSince[w] <= currentStep
    BY <1>1, <1>2 DEF DefinedInv, CreatedByNow, MembershipInv, TypeOK
  <1>4. /\ \A t \in Step, g \in Group :
              g \in Nodes(Get(tree, t)) => g \in groups /\ groupSince[g] <= t
        /\ \A t \in Step, g \in Group, w \in Well :
              w \in Get(wellsOf[g], t) => g \in groups /\ groupSince[g] <= t
        /\ \A t \in Step, w \in Well :
              (\E g \in Group : w \in Get(wellsOf[g], t)) <=> w \in wells /\ wellSince[w] <= t
    BY DEF DefinedInv, DefinedWhenUsed, HasBeenDefined
  <1>5. ASSUME groupSince' = groupSince, wellSince' = wellSince, wellsOf' = wellsOf,
               tree' = tree, currentStep' = currentStep \/ OtherKeyword
        PROVE  DefinedInv'
    <2>1. currentStep' \in Nat /\ currentStep <= currentStep'
      BY <1>2, <1>5 DEF OtherKeyword, AdvanceTime, Complete, Throw
    <2>2. \A a \in Nat : a <= currentStep => a <= currentStep'
      BY <1>2, <2>1
    <2>3. CreatedByNow'
      BY <1>3, <1>5, <2>2 DEF CreatedByNow, groups, wells
    <2>4. DefinedWhenUsed'
      BY <1>5 DEF DefinedInv, DefinedWhenUsed, HasBeenDefined, groups, wells
    <2>5. QED
      BY <1>1, <2>3, <2>4 DEF DefinedInv
  <1>6. ASSUME NEW w \in Well, NEW g \in Group, NEW h \in WellData, WelspecsRecord(w, g, h)
        PROVE  DefinedInv'
    <2>1. /\ MoveWell(w, g) /\ tree' = tree /\ currentStep' = currentStep
          /\ groupSince' = Created(groupSince, {g}) /\ wellSince' = Created(wellSince, {w})
      BY <1>6 DEF WelspecsRecord, clockVars
    <2>2. /\ groups' = groups \union {g}
          /\ \A f \in groups' : groupSince'[f] = IF f \in groups THEN groupSince[f]
                                                 ELSE currentStep
      BY <2>1 DEF groups, Created
    <2>3. /\ wells' = wells \union {w}
          /\ \A v \in wells' : wellSince'[v] = IF v \in wells THEN wellSince[v]
                                               ELSE currentStep
      BY <2>1 DEF wells, Created
    <2>4. \A f \in Group, v \in Well, t \in Step :
            v \in Get(wellsOf'[f], t)
              <=> IF v = w /\ t >= currentStep
                  THEN f = g \/ (f = NoGroup /\ w \in Get(wellsOf[f], t))
                  ELSE v \in Get(wellsOf[f], t)
      BY <1>1, <2>1, MoveWellEffect
    <2>5. CreatedByNow'
      <3>1. \A f \in groups' : groupSince'[f] <= currentStep
        BY <1>2, <1>3, <2>2
      <3>2. \A v \in wells' : wellSince'[v] <= currentStep
        BY <1>2, <1>3, <2>3
      <3>3. QED
        BY <3>1, <3>2, <2>1 DEF CreatedByNow
    <2>6. ASSUME NEW t \in Step, NEW f \in Group,
                 f \in Nodes(Get(tree', t)) \/ \E v \in Well : v \in Get(wellsOf'[f], t)
          PROVE  f \in groups' /\ groupSince'[f] <= t
      <3>1. CASE f \in groups /\ groupSince[f] <= t
        BY <3>1, <2>2
      <3>2. CASE f = g /\ t >= currentStep
        BY <3>2, <2>2, <1>2, <1>3
      <3>3. QED
        BY <2>6, <3>1, <3>2, <2>1, <2>4, <1>4
    <2>7. ASSUME NEW t \in Step, NEW v \in Well
          PROVE  (\E f \in Group : v \in Get(wellsOf'[f], t))
                   <=> v \in wells' /\ wellSince'[v] <= t
      <3>1. t \in Nat
        BY <1>2
      <3>2. CASE v # w
        BY <3>2, <2>3, <2>4, <1>4
      <3>3. CASE v = w /\ t >= currentStep
        BY <3>1, <3>3, <2>3, <2>4, <1>2, <1>3
      <3>4. CASE v = w /\ ~ (t >= currentStep)
        BY <3>1, <3>4, <2>3, <2>4, <1>2, <1>3, <1>4
      <3>5. QED
        BY <3>2, <3>3, <3>4
    <2>8. DefinedWhenUsed'
      <3>1. \A f \in Group, t \in Step : Get(wellsOf'[f], t) \subseteq Well
        BY <1>1, <1>2, <2>1, GetType, MoveWellEffect
      <3>2. QED
        BY <2>6, <2>7, <3>1 DEF DefinedWhenUsed, HasBeenDefined
    <2>9. QED
      BY <1>1, <2>5, <2>8 DEF DefinedInv
  <1>7. ASSUME NEW child \in Group, NEW parent \in Group, GruptreeRecord(child, parent)
        PROVE  DefinedInv'
    <2>1. /\ wellsOf' = wellsOf /\ wellSince' = wellSince /\ tree' = tree
          /\ currentStep' = currentStep /\ groupSince' = Created(groupSince, {child, parent})
      BY <1>7 DEF GruptreeRecord, clockVars, membershipVars
    <2>2. /\ groups' = groups \union {child, parent}
          /\ \A f \in groups' : groupSince'[f] = IF f \in groups THEN groupSince[f]
                                                 ELSE currentStep
      BY <2>1 DEF groups, Created
    <2>3. CreatedByNow'
      BY <1>2, <1>3, <2>1, <2>2 DEF CreatedByNow, wells
    <2>4. DefinedWhenUsed'
      BY <2>1, <2>2 DEF DefinedInv, DefinedWhenUsed, HasBeenDefined, wells
    <2>5. QED
      BY <1>1, <2>3, <2>4 DEF DefinedInv
  <1>8. CASE CloseKeyword
    <2>1. /\ wellsOf' = wellsOf /\ wellSince' = wellSince /\ groupSince' = groupSince
          /\ currentStep' = currentStep
          /\ tree' = tree \/ tree' = Add(tree, currentStep, newTree)
      BY <1>8 DEF CloseKeyword, clockVars, membershipVars
    <2>2. /\ newTree \in GroupTrees /\ Nodes(newTree) \subseteq groups
          /\ tree \in DynamicStates(GroupTrees) /\ EndsByNow(tree)
      BY <1>1 DEF TreeInv, TreeNodesAreGroups, MembershipInv, TypeOK, StatesEndByNow
    <2>3. \A t \in Step : \/ Get(tree', t) = Get(tree, t)
                          \/ t >= currentStep /\ Get(tree', t) = newTree
      BY <1>1, <2>1, <2>2, AddNow
    <2>4. ASSUME NEW t \in Step, NEW g \in Group, g \in Nodes(Get(tree', t))
          PROVE  g \in groups /\ groupSince[g] <= t
      BY <1>2, <1>3, <1>4, <2>2, <2>3, <2>4
    <2>5. CreatedByNow'
      BY <2>1 DEF DefinedInv, CreatedByNow, groups, wells
    <2>6. DefinedWhenUsed'
      BY <2>1, <2>4 DEF DefinedInv, DefinedWhenUsed, HasBeenDefined, groups, wells
    <2>7. QED
      BY <1>1, <2>5, <2>6 DEF DefinedInv
  <1>9. ASSUME NEW w \in Well, NEW g \in Group, NEW h \in WellData,
               WelspecsInconsistent(w, g, h)
        PROVE  DefinedInv'
    <2>1. /\ wellsOf' = wellsOf /\ wellSince' = wellSince /\ tree' = tree
          /\ currentStep' = currentStep /\ groupSince' = Created(groupSince, {g})
      BY <1>9 DEF WelspecsInconsistent, Throw, membershipVars
    <2>2. /\ groups' = groups \union {g}
          /\ \A f \in groups' : groupSince'[f] = IF f \in groups THEN groupSince[f]
                                                 ELSE currentStep
      BY <2>1 DEF groups, Created
    <2>3. CreatedByNow'
      BY <1>2, <1>3, <2>1, <2>2 DEF CreatedByNow, wells
    <2>4. DefinedWhenUsed'
      BY <2>1, <2>2 DEF DefinedInv, DefinedWhenUsed, HasBeenDefined, wells
    <2>5. QED
      BY <1>1, <2>3, <2>4 DEF DefinedInv
  <1>10. \/ /\ groupSince' = groupSince /\ wellSince' = wellSince /\ wellsOf' = wellsOf
            /\ tree' = tree /\ (currentStep' = currentStep \/ OtherKeyword)
         \/ \E w \in Well, g \in Group, h \in WellData : WelspecsRecord(w, g, h)
         \/ \E w \in Well, g \in Group, h \in WellData : WelspecsInconsistent(w, g, h)
         \/ \E child, parent \in Group : GruptreeRecord(child, parent)
         \/ CloseKeyword
    BY DEF Next, vars, groupVars, clockVars, membershipVars, OtherKeyword, OpenKeyword,
           GruptreeMovesRoot, Throw
  <1>11. QED
    BY <1>5, <1>6, <1>7, <1>8, <1>9, <1>10

(* hasBeenDefined() agrees with the rest of the schedule at every step. *)
THEOREM DefinedInTime == Spec => []DefinedWhenUsed
  <1>1. Spec => []DefinedInv
    BY DefinedInit, DefinedStep, PTL DEF Spec
  <1>2. DefinedInv => DefinedWhenUsed
    BY DEF DefinedInv
  <1>3. QED
    BY <1>1, <1>2, PTL
=============================================================================
