--------------------------- MODULE Schedule_proof ---------------------------
(***************************************************************************)
(* The walk over the SCHEDULE section keeps every one of its parts to its  *)
(* own specification.  Each step of the whole is a step of one part; for   *)
(* the three others it is a stutter or, if the handler throws, the step by *)
(* which they see that.  So what is proved of the parts holds of the       *)
(* whole, for the wells and groups there are at each record; and what the  *)
(* parts cannot say, that no keyword reaches behind the making of a well   *)
(* or a group, is proved from their invariants.                            *)
(***************************************************************************)
EXTENDS Schedule, TLAPS

(* No handler but those of DATES and TSTEP touches the clock, unless it    *)
(* throws.                                                                 *)
LEMMA ClockStandsStill ==
  WellGroupsStep \/ WellControlsStep \/ GroupControlsStep \/ CompletionsStep
    => UNCHANGED clockVars \/ Throw
  <1>1. CASE WellGroupsStep
    BY <1>1 DEF WellGroupsStep, WellSpecified, W!WelspecsRecord, W!GruptreeRecord, W!OpenKeyword,
      W!WelspecsInconsistent, W!GruptreeMovesRoot, W!CloseKeyword, W!Throw, W!clockVars, clockVars,
      Throw
  <1>2. CASE WellControlsStep
    BY <1>2 DEF WellControlsStep, C!WconproducerRecord, C!WconinjeRecord, C!OpenLoop,
      C!WconinjhRecord, C!WconinjhRefused, C!WelopenRecord, C!WgrupconRecord, C!LoopStep, C!NoWell,
      C!ProducerWell, C!ProducerRefused, C!InjectorWell, C!InjectorRefused, C!Throw, C!clockVars,
      clockVars, Throw
  <1>3. CASE GroupControlsStep
    BY <1>3 DEF GroupControlsStep, G!GconinjeRecord, G!GconinjeRefused, G!GconprodRecord,
      G!Throw, G!clockVars, clockVars, Throw
  <1>4. CASE CompletionsStep
    BY <1>4 DEF CompletionsStep, D!CompdatOpens, D!CollectRecord, D!RecordsEnd, D!CompdatRefused,
      D!NextWell, D!AddNext, D!WellDone, D!CompdatCloses, D!Throw, D!clockVars, clockVars, Throw
  <1>5. QED
    BY <1>1, <1>2, <1>3, <1>4

(* What the wells and groups and their tree see of a step. *)
LEMMA StepOfWellGroups == [Next]_vars => [W!Next]_W!vars
  <1> SUFFICES ASSUME [Next]_vars
               PROVE  [W!Next]_W!vars
    OBVIOUS
  <1> USE DEF W!vars, W!groupVars, W!membershipVars, W!handlerVars, W!clockVars, clockVars, specVars
  <1>1. CASE UNCHANGED vars
    BY <1>1 DEF vars
  <1>2. CASE Next /\ OtherKeyword
    BY <1>2 DEF Next, OtherKeyword, Between, W!Next, W!OtherKeyword, W!AdvanceTime, W!Complete,
      W!Throw, AdvanceTime, Complete, Throw
  <1>3. CASE Next /\ WellGroupsStep
    <2>1. CASE WellSpecified
      BY <1>3, <2>1 DEF Next, WellSpecified, W!Next, WellData
    <2>2. CASE ~ WellSpecified
      BY <1>3, <2>2 DEF Next, WellGroupsStep, W!Next
    <2>3. QED
      BY <2>1, <2>2
  <1>4. CASE Next /\ (WellControlsStep \/ GroupControlsStep \/ CompletionsStep)
    <2>1. UNCHANGED specVars /\ open = "none" /\ phase = "reading"
      BY <1>4 DEF Next, Between, WellControlsStep, GroupControlsStep, CompletionsStep
    <2>2. UNCHANGED clockVars \/ Throw
      BY <1>4, ClockStandsStill
    <2>3. QED
      BY <2>1, <2>2 DEF W!Next, W!OtherKeyword, W!Throw, Throw
  <1>5. QED
    BY <1>1, <1>2, <1>3, <1>4 DEF Next

(* What the controls of the wells see of it. *)
LEMMA StepOfWellControls == [Next]_vars => [C!Next]_C!vars
  <1> SUFFICES ASSUME [Next]_vars
               PROVE  [C!Next]_C!vars
    OBVIOUS
  <1> USE DEF C!vars, C!wellVars, C!handlerVars, C!clockVars, clockVars, controlVars
  <1>1. CASE UNCHANGED vars
    BY <1>1 DEF vars
  <1>2. CASE Next /\ OtherKeyword
    BY <1>2 DEF Next, OtherKeyword, Between, C!Next, C!OtherKeyword, C!RecordRefused, C!AdvanceTime,
      C!Complete, C!Throw, AdvanceTime, Complete, Throw
  <1>3. CASE Next /\ WellControlsStep
    <2>1. wells \subseteq Well /\ \A names \in Pattern : Selected(names) \in SUBSET Well
      BY DEF wells, Selected
    <2>2. QED
      BY <1>3, <2>1 DEF Next, WellControlsStep, C!Next
  <1>4. CASE Next /\ (WellGroupsStep \/ GroupControlsStep \/ CompletionsStep)
    <2>1. UNCHANGED controlVars /\ handler = "none" /\ phase = "reading"
      BY <1>4 DEF Next, Between, WellGroupsStep, GroupControlsStep, CompletionsStep
    <2>2. UNCHANGED clockVars \/ Throw
      BY <1>4, ClockStandsStill
    <2>3. QED
      BY <2>1, <2>2 DEF C!Next, C!RecordRefused, C!Throw, Throw
  <1>5. QED
    BY <1>1, <1>2, <1>3, <1>4 DEF Next

(* What the controls of the groups see of it. *)
LEMMA StepOfGroupControls == [Next]_vars => [G!Next]_G!vars
  <1> SUFFICES ASSUME [Next]_vars
               PROVE  [G!Next]_G!vars
    OBVIOUS
  <1> USE DEF G!vars, G!groupVars, G!clockVars, clockVars, ofGroups
  <1>1. CASE UNCHANGED vars
    BY <1>1 DEF vars
  <1>2. CASE Next /\ OtherKeyword
    BY <1>2 DEF Next, OtherKeyword, G!Next, G!OtherKeyword, G!RecordRefused, G!AdvanceTime,
      G!Complete, G!Throw, AdvanceTime, Complete, Throw
  <1>3. CASE Next /\ GroupControlsStep
    BY <1>3 DEF Next, GroupControlsStep, G!Next, groups
  <1>4. CASE Next /\ (WellGroupsStep \/ WellControlsStep \/ CompletionsStep)
    <2>1. UNCHANGED ofGroups /\ phase = "reading"
      BY <1>4 DEF Next, WellGroupsStep, WellControlsStep, CompletionsStep
    <2>2. UNCHANGED clockVars \/ Throw
      BY <1>4, ClockStandsStill
    <2>3. QED
      BY <2>1, <2>2 DEF G!Next, G!RecordRefused, G!Throw, Throw
  <1>5. QED
    BY <1>1, <1>2, <1>3, <1>4 DEF Next

(* What the completions see of it. *)
LEMMA StepOfCompletions == [Next]_vars => [D!Next]_D!vars
  <1> SUFFICES ASSUME [Next]_vars
               PROVE  [D!Next]_D!vars
    OBVIOUS
  <1> USE DEF D!vars, D!handlerVars, D!historyVars, D!clockVars, clockVars, drilledVars
  <1>1. CASE UNCHANGED vars
    BY <1>1 DEF vars
  <1>2. CASE Next /\ OtherKeyword
    BY <1>2 DEF Next, OtherKeyword, Between, D!Next, D!OtherKeyword, D!AdvanceTime, D!Complete,
      D!Throw, AdvanceTime, Complete, Throw
  <1>3. CASE Next /\ CompletionsStep
    BY <1>3 DEF Next, CompletionsStep, D!Next, wells
  <1>4. CASE Next /\ (WellGroupsStep \/ WellControlsStep \/ GroupControlsStep)
    <2>1. UNCHANGED drilledVars /\ stage = "none" /\ phase = "reading"
      BY <1>4 DEF Next, Between, WellGroupsStep, WellControlsStep, GroupControlsStep
    <2>2. UNCHANGED clockVars \/ Throw
      BY <1>4, ClockStandsStill
    <2>3. QED
      BY <2>1, <2>2 DEF D!Next, D!OtherKeyword, D!Throw, Throw
  <1>5. QED
    BY <1>1, <1>2, <1>3, <1>4 DEF Next

(* The four parts keep to their own specifications, each of which knows of *)
(* the others only that time goes on and that they may throw; so what is   *)
(* proved of a part alone holds in the whole.                              *)
ImplementsParts == W!Spec /\ C!Spec /\ G!Spec /\ D!Spec

LEMMA PartsAreImplemented == Spec => ImplementsParts
  <1>1. Init => W!Init /\ C!Init /\ G!Init /\ D!Init
    BY DEF Init
  <1>2. QED
    BY <1>1, StepOfWellGroups, StepOfWellControls, StepOfGroupControls, StepOfCompletions, PTL
    DEF Spec, ImplementsParts, W!Spec, C!Spec, G!Spec, D!Spec
-----------------------------------------------------------------------------
(* The keywords of groups.  Their dynamic states always take the step the  *)
(* counter is at, and the phase check of setInjectionPhase() lets no       *)
(* record change a phase that was set for the step, nor one stop a record  *)
(* of a new step; so for every set of groups, every record and every       *)
(* number of report steps.                                                 *)
GroupInv == G!TypeOK /\ G!CurrentStepIsLast /\ G!StatesEndByNow

LEMMA NowIsAStep ==
  ASSUME G!TypeOK
  PROVE  currentStep \in Nat /\ timeSteps \in Nat /\ G!Step \subseteq Nat
  BY ClockAssumption DEF G!TypeOK, G!ClockTypeOK, G!Step

(* What one add() at the current step does to the dynamic states of one    *)
(* kind.                                                                   *)
LEMMA SetNowEffect ==
  ASSUME G!TypeOK, NEW V, NEW f \in [Group -> G!DynamicStates(V)],
         \A h \in Group : G!EndsByNow(f[h]), NEW g \in Group, NEW v \in V
  PROVE  /\ G!SetNow(f, g, v) \in [Group -> G!DynamicStates(V)]
         /\ \A h \in Group : G!EndsByNow(G!SetNow(f, g, v)[h])
         /\ \A h \in Group, t \in G!Step :
              G!Get(G!SetNow(f, g, v)[h], t)
                = IF h = g /\ t >= currentStep THEN v ELSE G!Get(f[h], t)
  <1>1. currentStep \in Nat /\ G!Step \subseteq Nat
    BY NowIsAStep
  <1>2. f[g] \in G!DynamicStates(V) /\ ~ G!SetsThePast(f[g], currentStep)
    BY <1>1, G!NotThePast, ClockAssumption DEF G!EndsByNow
  <1>3. /\ G!Add(f[g], currentStep, v) \in G!DynamicStates(V)
        /\ G!EndsByNow(G!Add(f[g], currentStep, v))
    BY <1>1, <1>2, G!AddType, G!AddCache, ClockAssumption DEF G!EndsByNow
  <1>4. \A t \in G!Step : G!Get(G!Add(f[g], currentStep, v), t)
                          = IF t >= currentStep THEN v ELSE G!Get(f[g], t)
    BY <1>1, <1>2, G!GetAdd, ClockAssumption
  <1>5. G!SetNow(f, g, v) = [f EXCEPT ![g] = G!Add(f[g], currentStep, v)]
    BY DEF G!SetNow
  <1>6. QED
    BY <1>3, <1>4, <1>5

LEMMA GroupInit ==
  ASSUME G!Init
  PROVE  GroupInv
  <1> DEFINE none == [phase |-> "WATER", mode |-> "NONE", target |-> Zero]
             nothing == [mode |-> "NONE", target |-> Zero]
  <1>1. none \in G!InjectionData /\ nothing \in G!ProductionData
    BY ScheduleAssumption DEF G!GroupControlsConstants, G!InjectionData, G!ProductionData, G!Phase,
      G!InjectionControl, G!ProductionControl
  <1>2. /\ G!NewState(TRUE) \in G!DynamicStates(BOOLEAN) /\ G!StateSize(G!NewState(TRUE)) = 0
        /\ G!NewState(none) \in G!DynamicStates(G!InjectionData)
        /\ G!StateSize(G!NewState(none)) = 0
        /\ G!NewState(nothing) \in G!DynamicStates(G!ProductionData)
        /\ G!StateSize(G!NewState(nothing)) = 0
    BY <1>1, G!NewStateType, ClockAssumption
  <1> HIDE DEF none, nothing
  <1>3. G!ClockTypeOK /\ G!CurrentStepIsLast /\ currentStep = 0
    BY ClockAssumption DEF G!Init, G!ClockInit, G!ClockTypeOK, G!Phases, G!CurrentStepIsLast
  <1>4. /\ isProductionGroup = [g \in Group |-> G!NewState(TRUE)]
        /\ groupInjection = [g \in Group |-> G!NewState(none)]
        /\ groupProduction = [g \in Group |-> G!NewState(nothing)]
        /\ groupRecords = 0
    BY DEF G!Init, none, nothing
  <1>5. G!TypeOK
    BY <1>2, <1>3, <1>4 DEF G!TypeOK
  <1>6. \A g \in Group : /\ G!StateSize(isProductionGroup[g]) = 0
                         /\ G!StateSize(groupInjection[g]) = 0
                         /\ G!StateSize(groupProduction[g]) = 0
    BY <1>2, <1>4
  <1>7. G!StatesEndByNow
    BY <1>3, <1>6 DEF G!StatesEndByNow, G!EndsByNow, G!CacheAgrees
  <1>8. QED
    BY <1>3, <1>5, <1>7 DEF GroupInv

(* The steps of time and those that throw leave the groups as they are.    *)
LEMMA GroupClock ==
  ASSUME GroupInv, UNCHANGED G!groupVars, groupRecords' \in Nat,
         \/ UNCHANGED G!clockVars \/ G!Complete \/ G!Throw
         \/ \E n \in 1 .. MaxPerKeyword : G!AdvanceTime(n)
  PROVE  GroupInv'
  <1>1. currentStep \in Nat /\ timeSteps \in Nat /\ timeSteps \in 1 .. MaxSteps
    BY NowIsAStep DEF GroupInv, G!TypeOK, G!ClockTypeOK
  <1>2. /\ G!ClockTypeOK' /\ G!CurrentStepIsLast'
        /\ currentStep' >= currentStep /\ currentStep' \in Nat
    <2>1. CASE UNCHANGED G!clockVars \/ G!Complete \/ G!Throw
      BY <2>1, <1>1 DEF GroupInv, G!TypeOK, G!ClockTypeOK, G!CurrentStepIsLast, G!clockVars,
        G!Complete, G!Throw, G!Phases
    <2>2. CASE \E n \in 1 .. MaxPerKeyword : G!AdvanceTime(n)
      BY <2>2, <1>1, ClockAssumption
      DEF GroupInv, G!TypeOK, G!ClockTypeOK, G!CurrentStepIsLast, G!AdvanceTime
    <2>3. QED
      BY <2>1, <2>2
  <1>3. G!TypeOK'
    BY <1>2 DEF GroupInv, G!TypeOK, G!groupVars
  <1>4. \A V : \A ds \in G!DynamicStates(V) :
          G!StateSize(ds) <= currentStep + 1 => G!StateSize(ds) <= currentStep' + 1
    BY <1>1, <1>2, G!GetType, ClockAssumption
  <1>5. G!StatesEndByNow'
    <2>1. ASSUME NEW g \in Group
          PROVE  /\ G!EndsByNow(isProductionGroup[g])'
                 /\ G!EndsByNow(groupInjection[g])'
                 /\ G!EndsByNow(groupProduction[g])'
      <3>1. /\ G!EndsByNow(isProductionGroup[g]) /\ G!EndsByNow(groupInjection[g])
            /\ G!EndsByNow(groupProduction[g])
        BY DEF GroupInv, G!StatesEndByNow
      <3>2. /\ isProductionGroup[g] \in G!DynamicStates(BOOLEAN)
            /\ groupInjection[g] \in G!DynamicStates(G!InjectionData)
            /\ groupProduction[g] \in G!DynamicStates(G!ProductionData)
        BY DEF GroupInv, G!TypeOK
      <3>3. /\ isProductionGroup'[g] = isProductionGroup[g]
            /\ groupInjection'[g] = groupInjection[g]
            /\ groupProduction'[g] = groupProduction[g]
        BY DEF G!groupVars
      <3>4. QED
        BY <1>4, <3>1, <3>2, <3>3 DEF G!EndsByNow
    <2>2. QED
      BY <2>1 DEF G!StatesEndByNow
  <1>6. QED
    BY <1>2, <1>3, <1>5 DEF GroupInv

LEMMA GroupStep ==
  ASSUME GroupInv, [G!Next]_G!vars
  PROVE  GroupInv'
  <1>1. /\ G!TypeOK /\ groupRecords \in Nat
        /\ isProductionGroup \in [Group -> G!DynamicStates(BOOLEAN)]
        /\ groupInjection \in [Group -> G!DynamicStates(G!InjectionData)]
        /\ groupProduction \in [Group -> G!DynamicStates(G!ProductionData)]
        /\ \A h \in Group : /\ G!EndsByNow(isProductionGroup[h])
                            /\ G!EndsByNow(groupInjection[h])
                            /\ G!EndsByNow(groupProduction[h])
    BY DEF GroupInv, G!TypeOK, G!StatesEndByNow
  <1>2. CASE UNCHANGED G!vars
    BY <1>1, <1>2, GroupClock DEF G!vars
  <1>3. CASE G!Next /\ (G!OtherKeyword \/ G!RecordRefused)
    BY <1>1, <1>3, GroupClock DEF G!OtherKeyword, G!RecordRefused
  <1>4. ASSUME NEW g \in Group, NEW ph \in G!Phase, G!GconinjeRefused(g, ph)
        PROVE  GroupInv'
    BY <1>1, <1>4, GroupClock DEF G!GconinjeRefused, G!RecordComes
  <1>5. ASSUME NEW g \in Group, NEW data \in GroupInjectionRecord, G!GconinjeRecord(g, data)
        PROVE  GroupInv'
    <2>1. data \in G!InjectionData /\ FALSE \in BOOLEAN
      BY ScheduleAssumption DEF G!GroupControlsConstants
    <2>2. /\ groupInjection' = G!SetNow(groupInjection, g, data)
          /\ isProductionGroup' = G!SetNow(isProductionGroup, g, FALSE)
          /\ groupProduction' = groupProduction /\ groupRecords' \in Nat
          /\ timeSteps' = timeSteps /\ currentStep' = currentStep /\ phase' = phase
      BY <1>1, <1>5 DEF G!GconinjeRecord, G!RecordComes, G!clockVars
    <2>3. /\ groupInjection' \in [Group -> G!DynamicStates(G!InjectionData)]
          /\ \A h \in Group : G!EndsByNow(groupInjection'[h])
      BY <1>1, <2>1, <2>2, SetNowEffect
    <2>4. /\ isProductionGroup' \in [Group -> G!DynamicStates(BOOLEAN)]
          /\ \A h \in Group : G!EndsByNow(isProductionGroup'[h])
      BY <1>1, <2>1, <2>2, SetNowEffect
    <2>5. QED
      BY <1>1, <2>2, <2>3, <2>4
      DEF GroupInv, G!TypeOK, G!ClockTypeOK, G!CurrentStepIsLast, G!StatesEndByNow, G!EndsByNow
  <1>6. ASSUME NEW g \in Group, NEW data \in GroupProductionRecord, G!GconprodRecord(g, data)
        PROVE  GroupInv'
    <2>1. data \in G!ProductionData /\ TRUE \in BOOLEAN
      BY ScheduleAssumption DEF G!GroupControlsConstants
    <2>2. /\ groupProduction' = G!SetNow(groupProduction, g, data)
          /\ isProductionGroup' = G!SetNow(isProductionGroup, g, TRUE)
          /\ groupInjection' = groupInjection /\ groupRecords' \in Nat
          /\ timeSteps' = timeSteps /\ currentStep' = currentStep /\ phase' = phase
      BY <1>1, <1>6 DEF G!GconprodRecord, G!RecordComes, G!clockVars
    <2>3. /\ groupProduction' \in [Group -> G!DynamicStates(G!ProductionData)]
          /\ \A h \in Group : G!EndsByNow(groupProduction'[h])
      BY <1>1, <2>1, <2>2, SetNowEffect
    <2>4. /\ isProductionGroup' \in [Group -> G!DynamicStates(BOOLEAN)]
          /\ \A h \in Group : G!EndsByNow(isProductionGroup'[h])
      BY <1>1, <2>1, <2>2, SetNowEffect
    <2>5. QED
      BY <1>1, <2>2, <2>3, <2>4
      DEF GroupInv, G!TypeOK, G!ClockTypeOK, G!CurrentStepIsLast, G!StatesEndByNow, G!EndsByNow
  <1>7. QED
    BY <1>2, <1>3, <1>4, <1>5, <1>6, ScheduleAssumption DEF G!Next

LEMMA GroupInvariant ==
  G!Spec => []GroupInv
  BY GroupInit, GroupStep, PTL DEF G!Spec

(* No handler of a group's keyword is stopped by a dynamic state that does *)
(* not take the step it is given (DynamicState.hpp:71-77).                 *)
StatesTakeNow ==
  \A g \in Group :
    /\ G!CanAdd(isProductionGroup[g], currentStep, timeSteps)
    /\ G!CanAdd(groupInjection[g], currentStep, timeSteps)
    /\ G!CanAdd(groupProduction[g], currentStep, timeSteps)

THEOREM GroupStatesTakeNow ==
  G!Spec => [](G!TypeOK /\ StatesTakeNow)
  <1>1. ASSUME GroupInv
        PROVE  G!TypeOK /\ StatesTakeNow
    <2>1. G!TypeOK /\ currentStep \in Nat /\ timeSteps \in Nat /\ currentStep = timeSteps - 1
      BY <1>1, NowIsAStep DEF GroupInv, G!CurrentStepIsLast
    <2>2. ASSUME NEW V, NEW ds \in G!DynamicStates(V), G!EndsByNow(ds)
          PROVE  G!CanAdd(ds, currentStep, timeSteps)
      BY <2>1, <2>2, G!NotThePast, ClockAssumption DEF G!EndsByNow, G!CanAdd, G!OutOfRange
    <2>3. QED
      BY <1>1, <2>1, <2>2 DEF GroupInv, G!TypeOK, G!StatesEndByNow, StatesTakeNow
  <1>2. QED
    BY <1>1, GroupInvariant, PTL

(* The phase a group injects at a step never changes once it is set.       *)
THEOREM PhaseStaysSet ==
  G!Spec => G!PhaseIsSetOnce
  <1>1. ASSUME GroupInv, [G!Next]_G!vars
        PROVE  [\A g \in Group, t \in G!Step :
                  t < currentStep \/ t < G!StateSize(groupInjection[g]) =>
                    G!Get(groupInjection'[g], t).phase = G!Get(groupInjection[g], t).phase]_G!vars
    <2>1. SUFFICES ASSUME G!Next, NEW h \in Group, NEW t \in G!Step,
                          t < currentStep \/ t < G!StateSize(groupInjection[h])
                   PROVE  G!Get(groupInjection'[h], t).phase = G!Get(groupInjection[h], t).phase
      BY <1>1
    <2>2. CASE groupInjection' = groupInjection
      BY <2>2
    <2>3. ASSUME NEW g \in Group, NEW data \in GroupInjectionRecord, G!GconinjeRecord(g, data)
          PROVE  G!Get(groupInjection'[h], t).phase = G!Get(groupInjection[h], t).phase
      <3>1. /\ G!TypeOK /\ data \in G!InjectionData /\ G!EndsByNow(groupInjection[h])
            /\ groupInjection \in [Group -> G!DynamicStates(G!InjectionData)]
            /\ \A f \in Group : G!EndsByNow(groupInjection[f])
        BY <1>1, ScheduleAssumption DEF GroupInv, G!TypeOK, G!StatesEndByNow,
          G!GroupControlsConstants
      <3>2. currentStep \in Nat /\ t \in Nat /\ G!StateSize(groupInjection[h]) \in Nat
        BY <3>1, NowIsAStep, G!GetType, ClockAssumption
      <3>3. G!Get(groupInjection'[h], t)
              = IF h = g /\ t >= currentStep THEN data ELSE G!Get(groupInjection[h], t)
        BY <2>3, <3>1, SetNowEffect DEF G!GconinjeRecord
      <3>4. CASE ~ (h = g /\ t >= currentStep)
        BY <3>3, <3>4
      <3>5. CASE h = g /\ t >= currentStep
        <4>1. t = currentStep /\ G!StateSize(groupInjection[g]) = currentStep + 1
          BY <2>1, <3>1, <3>2, <3>5 DEF G!EndsByNow
        <4>2. data.phase = G!Get(groupInjection[g], currentStep).phase
          BY <2>3, <4>1 DEF G!GconinjeRecord, G!OtherPhaseNow
        <4>3. QED
          BY <3>3, <3>5, <4>1, <4>2
      <3>6. QED
        BY <3>4, <3>5
    <2>4. QED
      BY <2>1, <2>2, <2>3 DEF G!Next, G!OtherKeyword, G!RecordRefused, G!GconinjeRefused,
        G!GconprodRecord, G!groupVars
  <1>2. QED
    BY <1>1, GroupInvariant, PTL DEF G!Spec, G!PhaseIsSetOnce

(* A new step accepts every phase.                                         *)
THEOREM NewStepIsOpen ==
  G!Spec => G!NewStepTakesAnyPhase
  <1>1. ASSUME GroupInv, [G!Next]_G!vars
        PROVE  [currentStep' # currentStep =>
                  \A g \in Group, ph \in G!Phase : ~ G!OtherPhaseNow(g, ph)']_G!vars
    <2>1. SUFFICES ASSUME G!Next, currentStep' # currentStep, NEW g \in Group, NEW ph \in G!Phase
                   PROVE  ~ G!OtherPhaseNow(g, ph)'
      BY <1>1
    <2>2. PICK n \in 1 .. MaxPerKeyword : G!AdvanceTime(n) /\ groupInjection' = groupInjection
      BY <2>1 DEF G!Next, G!OtherKeyword, G!Complete, G!Throw, G!RecordRefused, G!GconinjeRecord,
                  G!GconinjeRefused, G!GconprodRecord, G!clockVars, G!groupVars
    <2>3. groupInjection[g] \in G!DynamicStates(G!InjectionData) /\ G!EndsByNow(groupInjection[g])
      BY <1>1 DEF GroupInv, G!TypeOK, G!StatesEndByNow
    <2>4. G!StateSize(groupInjection[g]) \in Nat /\ currentStep \in Nat /\ n \in Nat /\ n > 0
      BY <1>1, <2>3, NowIsAStep, G!GetType, ClockAssumption DEF GroupInv
    <2>5. G!StateSize(groupInjection'[g]) # currentStep' + 1
      BY <2>2, <2>3, <2>4 DEF G!AdvanceTime, G!EndsByNow
    <2>6. QED
      BY <2>5 DEF G!OtherPhaseNow
  <1>2. QED
    BY <1>1, GroupInvariant, PTL DEF G!Spec, G!NewStepTakesAnyPhase
-----------------------------------------------------------------------------
(* COMPDAT.  What the proof turns on is what a keyword half done still     *)
(* owes: the completions that are listed for a well and not yet added to   *)
(* its set say, with the set as it is, what the records said.              *)
CellsOf(set) == { D!CellOf(set[n]) : n \in DOMAIN set }

(* The cell a member of the list of a well is for. *)
Wants(w, list, n) == D!CellOf(D!FixDefaultIJ(list[n], w))

Wanted(w, list) == { Wants(w, list, n) : n \in DOMAIN list }

LastOfItsCell(w, list, n) ==
  \A m \in DOMAIN list : m > n => Wants(w, list, m) # Wants(w, list, n)

(* The set of a well, with what its list has still to add, has the cells   *)
(* that the records named, each with what the last of them said.           *)
Owes(w, set, list, said) ==
  /\ D!DistinctCells(set)
  /\ CellsOf(set) \union Wanted(w, list) = DOMAIN said
  /\ \A n \in DOMAIN list :
       LastOfItsCell(w, list, n) => list[n].data = said[Wants(w, list, n)]
  /\ \A n \in DOMAIN set :
       D!CellOf(set[n]) \notin Wanted(w, list) => set[n].data = said[D!CellOf(set[n])]

(* The set as the second loop has it. *)
Current(w) == IF well = w THEN newSet ELSE D!Get(completions[w], currentStep)

SetEndsByNow(ds) == D!StateSize(ds) <= currentStep + 1 /\ D!CacheAgrees(ds)

(* Where the handler is says which lists there can be. *)
HandlerKeepsOrder ==
  /\ well # NotAWell => stage = "apply"
  /\ stage = "none" => listed = {}
  /\ \A w \in Well : lists[w] # << >> => w \in listed \/ w = well

(* A completion keeps its place in the copy of a set. *)
PlacesInCopy(old, new) ==
  \A n \in DOMAIN old : n \in DOMAIN new /\ D!CellOf(new[n]) = D!CellOf(old[n])

CopyKeepsPlaces ==
  well # NotAWell => PlacesInCopy(D!Get(completions[well], currentStep), newSet)

CompletionsInv ==
  /\ D!TypeOK /\ D!CurrentStepIsLast
  /\ \A w \in Well : SetEndsByNow(completions[w])
  /\ asked = [w \in Well |-> asked[w]]
  /\ HandlerKeepsOrder
  /\ CopyKeepsPlaces
  /\ \A w \in Well : Owes(w, Current(w), lists[w], asked[w])
-----------------------------------------------------------------------------
(* Filling in the defaults gives a completion of a cell, with the layer    *)
(* and the data it had.                                                    *)
LEMMA FixDefaultEffect ==
  ASSUME D!CompletionsConstants, NEW w \in Well, NEW c \in D!Completion
  PROVE  /\ D!FixDefaultIJ(c, w) \in D!Completion
         /\ D!FixDefaultIJ(c, w).data = c.data
         /\ D!FixDefaultIJ(c, w).k = c.k
         /\ D!FixDefaultIJ(c, w).i = IF c.i < 0 THEN WellHead[w].i ELSE c.i
         /\ D!FixDefaultIJ(c, w).j = IF c.j < 0 THEN WellHead[w].j ELSE c.j
  <1>1. WellHead[w].i \in Int /\ WellHead[w].j \in Int
    BY DEF D!CompletionsConstants
  <1>2. QED
    BY <1>1 DEF D!FixDefaultIJ, D!Completion

(* CompletionSet::add() leaves one completion for each cell, in the place  *)
(* where it was, and the new one for its own.                              *)
LEMMA AddCompletionEffect ==
  ASSUME NEW set \in Seq(D!Completion), D!DistinctCells(set), NEW c \in D!Completion
  PROVE  /\ D!AddCompletion(set, c) \in Seq(D!Completion)
         /\ D!DistinctCells(D!AddCompletion(set, c))
         /\ CellsOf(D!AddCompletion(set, c)) = CellsOf(set) \union {D!CellOf(c)}
         /\ PlacesInCopy(set, D!AddCompletion(set, c))
         /\ \A n \in DOMAIN D!AddCompletion(set, c) :
              IF D!CellOf(D!AddCompletion(set, c)[n]) = D!CellOf(c)
              THEN D!AddCompletion(set, c)[n] = c
              ELSE n \in DOMAIN set /\ D!AddCompletion(set, c)[n] = set[n]
  <1>1. CASE \E n \in DOMAIN set : D!CellOf(set[n]) = D!CellOf(c)
    <2> DEFINE new == [n \in DOMAIN set |-> IF D!CellOf(set[n]) = D!CellOf(c) THEN c ELSE set[n]]
    <2>1. D!AddCompletion(set, c) = new
      BY <1>1 DEF D!AddCompletion
    <2>2. new \in Seq(D!Completion) /\ DOMAIN new = DOMAIN set
      OBVIOUS
    <2>3. \A n \in DOMAIN set : D!CellOf(new[n]) = D!CellOf(set[n])
      OBVIOUS
    <2>4. \A n \in DOMAIN new : IF D!CellOf(new[n]) = D!CellOf(c) THEN new[n] = c
                                ELSE n \in DOMAIN set /\ new[n] = set[n]
      OBVIOUS
    <2> HIDE DEF new
    <2>5. CellsOf(new) = CellsOf(set) \union {D!CellOf(c)}
      BY <1>1, <2>2, <2>3 DEF CellsOf
    <2>6. D!DistinctCells(new) /\ PlacesInCopy(set, new)
      BY <2>2, <2>3 DEF D!DistinctCells, PlacesInCopy
    <2>7. QED
      BY <2>1, <2>2, <2>4, <2>5, <2>6
  <1>2. CASE ~ \E n \in DOMAIN set : D!CellOf(set[n]) = D!CellOf(c)
    <2> DEFINE new == Append(set, c)
    <2>1. D!AddCompletion(set, c) = new
      BY <1>2 DEF D!AddCompletion
    <2>2. /\ new \in Seq(D!Completion) /\ DOMAIN new = 1 .. Len(set) + 1
          /\ DOMAIN set = 1 .. Len(set) /\ Len(set) \in Nat
          /\ new[Len(set) + 1] = c /\ \A n \in 1 .. Len(set) : new[n] = set[n]
      OBVIOUS
    <2> HIDE DEF new
    <2>3. CellsOf(new) = CellsOf(set) \union {D!CellOf(c)}
      BY <2>2 DEF CellsOf
    <2>4. D!DistinctCells(new)
      BY <1>2, <2>2 DEF D!DistinctCells
    <2>5. PlacesInCopy(set, new)
      BY <2>2 DEF PlacesInCopy
    <2>6. \A n \in DOMAIN new : IF D!CellOf(new[n]) = D!CellOf(c) THEN new[n] = c
                                ELSE n \in DOMAIN set /\ new[n] = set[n]
      BY <1>2, <2>2
    <2>7. QED
      BY <2>1, <2>2, <2>3, <2>4, <2>5, <2>6
  <1>3. QED
    BY <1>1, <1>2

(* The completions of a record are for the cells it means, a defaulted     *)
(* column being filled in later.                                           *)
LEMMA FromRecordEffect ==
  ASSUME D!CompletionsConstants, NEW r \in D!CompdatRecords
  PROVE  /\ D!FromRecord(r) \in Seq(D!Completion)
         /\ \A n \in DOMAIN D!FromRecord(r) : D!FromRecord(r)[n].data = r.data
         /\ Wanted(r.well, D!FromRecord(r)) = D!RecordCells(r)
  <1>1. /\ r.well \in Well /\ r.i \in Nat /\ r.j \in Nat /\ r.data \in Data
        /\ r.k1 \in Nat \ {0} /\ r.k2 \in Nat \ {0}
    BY DEF D!CompdatRecords
  <1> DEFINE made == D!FromRecord(r)
             size == IF r.k2 < r.k1 THEN 0 ELSE r.k2 - r.k1 + 1
             layer(n) == [i |-> r.i - 1, j |-> r.j - 1, k |-> r.k1 - 2 + n, data |-> r.data]
  <1>2. size \in Nat /\ 1 .. r.k2 - r.k1 + 1 = 1 .. size
    BY <1>1
  <1>3. \A n \in 1 .. size : layer(n) \in D!Completion
    <2>1. r.i - 1 \in Int /\ r.j - 1 \in Int /\ \A n \in 1 .. size : r.k1 - 2 + n \in Int
      BY <1>1, <1>2
    <2>2. QED
      BY <1>1, <2>1 DEF D!Completion
  <1>4. made = [n \in 1 .. size |-> layer(n)]
    BY <1>2 DEF D!FromRecord
  <1> HIDE DEF made, size, layer
  <1>5. made \in Seq(D!Completion) /\ DOMAIN made = 1 .. size
    BY <1>2, <1>3, <1>4
  <1> USE DEF made, size, layer
  <1>6. \A n \in 1 .. size : made[n].data = r.data
    BY <1>4
  <1> DEFINE column(n) == [i |-> IF r.i = 0 THEN WellHead[r.well].i ELSE r.i - 1,
                           j |-> IF r.j = 0 THEN WellHead[r.well].j ELSE r.j - 1,
                           k |-> r.k1 - 2 + n]
  <1>7. ASSUME NEW n \in 1 .. size
        PROVE  Wants(r.well, made, n) = column(n)
    <2>1. made[n] = layer(n) /\ layer(n) \in D!Completion
      BY <1>3, <1>4
    <2>2. /\ D!FixDefaultIJ(layer(n), r.well).k = layer(n).k
          /\ D!FixDefaultIJ(layer(n), r.well).i
               = IF layer(n).i < 0 THEN WellHead[r.well].i ELSE layer(n).i
          /\ D!FixDefaultIJ(layer(n), r.well).j
               = IF layer(n).j < 0 THEN WellHead[r.well].j ELSE layer(n).j
      BY <1>1, <2>1, FixDefaultEffect
    <2>3. (layer(n).i < 0 <=> r.i = 0) /\ (layer(n).j < 0 <=> r.j = 0)
      BY <1>1
    <2>4. /\ layer(n).k = r.k1 - 2 + n
          /\ (IF layer(n).i < 0 THEN WellHead[r.well].i ELSE layer(n).i)
               = IF r.i = 0 THEN WellHead[r.well].i ELSE r.i - 1
          /\ (IF layer(n).j < 0 THEN WellHead[r.well].j ELSE layer(n).j)
               = IF r.j = 0 THEN WellHead[r.well].j ELSE r.j - 1
      BY <2>3
    <2>5. QED
      BY <2>1, <2>2, <2>4 DEF Wants, D!CellOf
  <1>8. { column(n) : n \in 1 .. size } = D!RecordCells(r)
    <2> HIDE DEF made, layer
    <2>1. \A n \in 1 .. size : /\ n + r.k1 - 1 \in r.k1 .. r.k2
                               /\ r.k1 - 2 + n = (n + r.k1 - 1) - 1
      BY <1>1, <1>2
    <2>2. \A l \in r.k1 .. r.k2 : /\ l - r.k1 + 1 \in 1 .. size
                                  /\ r.k1 - 2 + (l - r.k1 + 1) = l - 1
      BY <1>1, <1>2, SMTT(30)
    <2> USE DEF made, layer
    <2>3. QED
      BY <2>1, <2>2 DEF D!RecordCells
  <1>9. Wanted(r.well, made) = { column(n) : n \in 1 .. size }
    BY <1>5, <1>7 DEF Wanted
  <1>10. QED
    BY <1>5, <1>6, <1>8, <1>9

(* Listing the completions of a record behind those of a well says what    *)
(* the record says, of the cells it means.                                 *)
LEMMA CollectKeepsOwed ==
  ASSUME D!CompletionsConstants, NEW r \in D!CompdatRecords, NEW set \in Seq(D!Completion),
         NEW list \in Seq(D!Completion), NEW said, Owes(r.well, set, list, said)
  PROVE  Owes(r.well, set, list \o D!FromRecord(r),
              [c \in DOMAIN said \union D!RecordCells(r) |->
                 IF c \in D!RecordCells(r) THEN r.data ELSE said[c]])
  <1> DEFINE w == r.well
             made == D!FromRecord(r)
             new == list \o made
             cells == D!RecordCells(r)
             saidNew == [c \in DOMAIN said \union cells |-> IF c \in cells THEN r.data ELSE said[c]]
  <1>1. /\ made \in Seq(D!Completion) /\ \A n \in DOMAIN made : made[n].data = r.data
        /\ Wanted(w, made) = cells
    BY FromRecordEffect
  <1> HIDE DEF made, cells, w
  <1>2. /\ DOMAIN list = 1 .. Len(list) /\ DOMAIN made = 1 .. Len(made)
        /\ Len(list) \in Nat /\ Len(made) \in Nat
        /\ DOMAIN new = 1 .. Len(list) + Len(made)
        /\ \A n \in DOMAIN list : n \in DOMAIN new /\ new[n] = list[n]
        /\ \A n \in DOMAIN made : Len(list) + n \in DOMAIN new /\ new[Len(list) + n] = made[n]
    BY <1>1
  <1>3. \A n \in DOMAIN new : n \in DOMAIN list \/ n - Len(list) \in DOMAIN made
    BY <1>2
  <1>4. \A n \in DOMAIN new : n \notin DOMAIN list => new[n] = made[n - Len(list)]
    BY <1>2, <1>3
  <1> HIDE DEF new
  <1>5. /\ \A n \in DOMAIN list : Wants(w, new, n) = Wants(w, list, n)
        /\ \A n \in DOMAIN made : Wants(w, new, Len(list) + n) = Wants(w, made, n)
        /\ \A n \in DOMAIN new : n \notin DOMAIN list =>
             Wants(w, new, n) = Wants(w, made, n - Len(list))
    BY <1>2, <1>4 DEF Wants
  <1>6. Wanted(w, new) = Wanted(w, list) \union cells
    BY <1>1, <1>2, <1>3, <1>5 DEF Wanted
  <1>7. /\ D!DistinctCells(set)
        /\ CellsOf(set) \union Wanted(w, list) = DOMAIN said
        /\ \A n \in DOMAIN list :
             LastOfItsCell(w, list, n) => list[n].data = said[Wants(w, list, n)]
        /\ \A n \in DOMAIN set :
             D!CellOf(set[n]) \notin Wanted(w, list) => set[n].data = said[D!CellOf(set[n])]
    BY DEF Owes, w
  <1>8. CellsOf(set) \union Wanted(w, new) = DOMAIN saidNew
    BY <1>6, <1>7
  <1>9. ASSUME NEW n \in DOMAIN new, LastOfItsCell(w, new, n)
        PROVE  new[n].data = saidNew[Wants(w, new, n)]
    <2>1. CASE n \in DOMAIN list
      <3>1. Wants(w, new, n) \notin cells
        <4>1. SUFFICES ASSUME Wants(w, new, n) \in cells
                       PROVE  FALSE
          OBVIOUS
        <4>2. PICK m \in DOMAIN made : Wants(w, made, m) = Wants(w, new, n)
          BY <1>1, <4>1 DEF Wanted
        <4>3. Len(list) + m \in DOMAIN new /\ Len(list) + m > n
          BY <1>2, <2>1
        <4>4. QED
          BY <1>5, <1>9, <4>2, <4>3 DEF LastOfItsCell
      <3>2. LastOfItsCell(w, list, n)
        BY <1>2, <1>5, <1>9, <2>1 DEF LastOfItsCell
      <3>3. Wants(w, new, n) \in DOMAIN said
        BY <1>5, <1>7, <2>1 DEF Wanted
      <3>4. saidNew[Wants(w, new, n)] = said[Wants(w, new, n)]
        BY <3>1, <3>3
      <3>5. QED
        BY <1>2, <1>5, <1>7, <2>1, <3>2, <3>4
    <2>2. CASE n \notin DOMAIN list
      <3>1. n - Len(list) \in DOMAIN made /\ new[n] = made[n - Len(list)]
        BY <1>3, <1>4, <2>2
      <3>2. Wants(w, new, n) \in cells
        BY <1>1, <1>5, <2>2, <3>1 DEF Wanted
      <3>3. QED
        BY <1>1, <3>1, <3>2
    <2>3. QED
      BY <2>1, <2>2
  <1>10. ASSUME NEW n \in DOMAIN set, D!CellOf(set[n]) \notin Wanted(w, new)
         PROVE  set[n].data = saidNew[D!CellOf(set[n])]
    BY <1>6, <1>7, <1>10 DEF CellsOf
  <1>11. QED
    BY <1>7, <1>8, <1>9, <1>10 DEF Owes, new, made, cells, w

(* Adding the first of the list to the set pays what was owed for it.      *)
LEMMA AddKeepsOwed ==
  ASSUME D!CompletionsConstants, NEW w \in Well, NEW set \in Seq(D!Completion),
         NEW list \in Seq(D!Completion), list # << >>, NEW said, Owes(w, set, list, said)
  PROVE  Owes(w, D!AddCompletion(set, D!FixDefaultIJ(Head(list), w)), Tail(list), said)
  <1> DEFINE c == D!FixDefaultIJ(Head(list), w)
             new == D!AddCompletion(set, c)
             rest == Tail(list)
  <1>1. /\ Head(list) = list[1] /\ list[1] \in D!Completion /\ 1 \in DOMAIN list
        /\ DOMAIN list = 1 .. Len(list) /\ Len(list) \in Nat
        /\ rest \in Seq(D!Completion) /\ DOMAIN rest = 1 .. Len(list) - 1
        /\ \A n \in DOMAIN rest : n + 1 \in DOMAIN list /\ rest[n] = list[n + 1]
        /\ \A n \in DOMAIN list : n # 1 => n - 1 \in DOMAIN rest /\ rest[n - 1] = list[n]
    OBVIOUS
  <1>2. c \in D!Completion /\ c.data = list[1].data /\ D!CellOf(c) = Wants(w, list, 1)
    BY <1>1, FixDefaultEffect DEF Wants
  <1> HIDE DEF rest, c
  <1>3. /\ D!DistinctCells(set)
        /\ CellsOf(set) \union Wanted(w, list) = DOMAIN said
        /\ \A n \in DOMAIN list :
             LastOfItsCell(w, list, n) => list[n].data = said[Wants(w, list, n)]
        /\ \A n \in DOMAIN set :
             D!CellOf(set[n]) \notin Wanted(w, list) => set[n].data = said[D!CellOf(set[n])]
    BY DEF Owes
  <1>4. /\ D!DistinctCells(new)
        /\ CellsOf(new) = CellsOf(set) \union {D!CellOf(c)}
        /\ \A n \in DOMAIN new : IF D!CellOf(new[n]) = D!CellOf(c) THEN new[n] = c
                                 ELSE n \in DOMAIN set /\ new[n] = set[n]
    BY <1>2, <1>3, AddCompletionEffect
  <1> HIDE DEF new
  <1>5. /\ \A n \in DOMAIN rest : Wants(w, rest, n) = Wants(w, list, n + 1)
        /\ \A n \in DOMAIN list : n # 1 => Wants(w, list, n) = Wants(w, rest, n - 1)
    BY <1>1 DEF Wants
  <1>6. Wanted(w, list) = Wanted(w, rest) \union {D!CellOf(c)}
    <2>1. \A n \in DOMAIN list : Wants(w, list, n) \in Wanted(w, rest) \union {D!CellOf(c)}
      BY <1>1, <1>2, <1>5 DEF Wanted
    <2>2. \A n \in DOMAIN rest : Wants(w, rest, n) \in Wanted(w, list)
      BY <1>1, <1>5 DEF Wanted
    <2>3. D!CellOf(c) \in Wanted(w, list)
      BY <1>1, <1>2 DEF Wanted
    <2>4. \A x \in Wanted(w, list) : x \in Wanted(w, rest) \union {D!CellOf(c)}
      BY <2>1 DEF Wanted
    <2>5. \A x \in Wanted(w, rest) : x \in Wanted(w, list)
      BY <2>2 DEF Wanted
    <2>6. QED
      BY <2>3, <2>4, <2>5
  <1>7. CellsOf(new) \union Wanted(w, rest) = DOMAIN said
    BY <1>3, <1>4, <1>6
  <1>8. ASSUME NEW n \in DOMAIN rest, LastOfItsCell(w, rest, n)
        PROVE  rest[n].data = said[Wants(w, rest, n)]
    <2>1. n + 1 \in DOMAIN list
      BY <1>1
    <2>2. ASSUME NEW m \in DOMAIN list, m > n + 1
          PROVE  Wants(w, list, m) # Wants(w, list, n + 1)
      <3>1. m # 1 /\ m - 1 \in DOMAIN rest /\ m - 1 > n
        BY <1>1, <2>2
      <3>2. QED
        BY <1>5, <1>8, <3>1 DEF LastOfItsCell
    <2>3. LastOfItsCell(w, list, n + 1)
      BY <2>2 DEF LastOfItsCell
    <2>4. QED
      BY <1>1, <1>3, <1>5, <2>1, <2>3
  <1>9. ASSUME NEW n \in DOMAIN new, D!CellOf(new[n]) \notin Wanted(w, rest)
        PROVE  new[n].data = said[D!CellOf(new[n])]
    <2>1. CASE D!CellOf(new[n]) = D!CellOf(c)
      <3>1. LastOfItsCell(w, list, 1)
        <4>1. ASSUME NEW m \in DOMAIN list, m > 1
              PROVE  Wants(w, list, m) # Wants(w, list, 1)
          <5>1. m - 1 \in DOMAIN rest /\ Wants(w, list, m) = Wants(w, rest, m - 1)
            BY <1>1, <1>5, <4>1
          <5>2. Wants(w, list, m) \in Wanted(w, rest)
            BY <5>1 DEF Wanted
          <5>3. QED
            BY <1>2, <1>9, <2>1, <5>2
        <4>2. QED
          BY <4>1 DEF LastOfItsCell
      <3>2. QED
        BY <1>1, <1>2, <1>3, <1>4, <2>1, <3>1
    <2>2. CASE D!CellOf(new[n]) # D!CellOf(c)
      BY <1>3, <1>4, <1>6, <1>9, <2>2
    <2>3. QED
      BY <2>1, <2>2
  <1>10. QED
    BY <1>4, <1>7, <1>8, <1>9 DEF Owes, new, rest, c
-----------------------------------------------------------------------------
LEMMA DrillingNowIsAStep ==
  ASSUME D!TypeOK
  PROVE  currentStep \in Nat /\ timeSteps \in Nat /\ D!Step \subseteq Nat
  BY ClockAssumption DEF D!TypeOK, D!ClockTypeOK, D!Step

LEMMA CurrentType ==
  ASSUME CompletionsInv, NEW w \in Well
  PROVE  Current(w) \in Seq(D!Completion)
  <1>1. /\ currentStep \in Nat /\ newSet \in Seq(D!Completion)
        /\ completions[w] \in D!DynamicStates(Seq(D!Completion))
    BY DrillingNowIsAStep DEF CompletionsInv, D!TypeOK
  <1>2. QED
    BY <1>1, D!GetType, ClockAssumption DEF Current

LEMMA CompletionsInvInit == D!CompletionsConstants /\ D!Init => CompletionsInv
  <1> SUFFICES ASSUME D!CompletionsConstants, D!Init
               PROVE  CompletionsInv
    OBVIOUS
  <1>1. D!ClockTypeOK /\ D!CurrentStepIsLast /\ currentStep = 0
    BY ClockAssumption DEF D!Init, D!ClockInit, D!ClockTypeOK, D!Phases, D!CurrentStepIsLast
  <1>2. << >> \in Seq(D!Completion) /\ DOMAIN << >> = {}
    OBVIOUS
  <1>3. /\ D!NewState(<< >>) \in D!DynamicStates(Seq(D!Completion))
        /\ D!StateSize(D!NewState(<< >>)) = 0
        /\ \A t \in Nat : D!Get(D!NewState(<< >>), t) = << >>
    BY <1>2, D!NewStateType, ClockAssumption
  <1>4. D!TypeOK
    BY <1>1, <1>2, <1>3 DEF D!Init, D!TypeOK
  <1>5. \A w \in Well : SetEndsByNow(completions[w])
    BY <1>1, <1>3 DEF D!Init, SetEndsByNow, D!CacheAgrees
  <1>6. asked = [w \in Well |-> asked[w]] /\ \A w \in Well : DOMAIN asked[w] = {}
    BY DEF D!Init
  <1>7. HandlerKeepsOrder /\ CopyKeepsPlaces
    BY DEF D!Init, HandlerKeepsOrder, CopyKeepsPlaces
  <1>8. ASSUME NEW w \in Well
        PROVE  Owes(w, Current(w), lists[w], asked[w])
    <2>1. Current(w) = << >> /\ lists[w] = << >>
      BY <1>1, <1>3 DEF D!Init, Current, D!CompletionsConstants
    <2>2. QED
      BY <1>2, <1>6, <2>1 DEF Owes, D!DistinctCells, CellsOf, Wanted
  <1>9. QED
    BY <1>1, <1>4, <1>5, <1>6, <1>7, <1>8 DEF CompletionsInv

-----------------------------------------------------------------------------
(* Every step leaves what is owed as it is: a record is listed, a well is  *)
(* taken up, a completion goes from the list into the set, the set becomes *)
(* that of the well.                                                       *)
LEMMA CompletionsInvStep ==
  ASSUME D!CompletionsConstants, CompletionsInv, [D!Next]_D!vars
  PROVE  CompletionsInv'
  <1> USE DEF D!clockVars, D!handlerVars, D!historyVars
  <1>1. /\ D!TypeOK /\ D!CurrentStepIsLast /\ \A w \in Well : SetEndsByNow(completions[w])
        /\ asked = [w \in Well |-> asked[w]]
        /\ HandlerKeepsOrder /\ CopyKeepsPlaces
        /\ \A w \in Well : Owes(w, Current(w), lists[w], asked[w])
    BY DEF CompletionsInv
  <1>2. currentStep \in Nat /\ timeSteps \in Nat
    BY <1>1, DrillingNowIsAStep
  <1>3. NotAWell \notin Well /\ << >> \in Seq(D!Completion)
    BY DEF D!CompletionsConstants
  <1>4. well # NotAWell => well \in Well
    BY <1>1 DEF D!TypeOK
  <1>5. stage # "apply" => well = NotAWell
    BY <1>1 DEF HandlerKeepsOrder
  <1>6. (well = NotAWell) => \A w \in Well : Current(w) = D!Get(completions[w], currentStep)
    BY <1>3 DEF Current
  <1>7. \A w \in Well : /\ completions[w] \in D!DynamicStates(Seq(D!Completion))
                        /\ lists[w] \in Seq(D!Completion)
    BY <1>1 DEF D!TypeOK
  <1>8. CASE UNCHANGED D!vars
    BY <1>1, <1>8 DEF D!vars, CompletionsInv, D!TypeOK, D!ClockTypeOK, D!CurrentStepIsLast,
      SetEndsByNow,
      HandlerKeepsOrder, CopyKeepsPlaces, Current
  <1>9. CASE D!OtherKeyword
    <2>1. UNCHANGED <<completions, D!handlerVars, D!historyVars>> /\ well = NotAWell
      BY <1>5, <1>9 DEF D!OtherKeyword
    <2>2. D!ClockTypeOK' /\ D!CurrentStepIsLast' /\ currentStep <= currentStep'
      BY <1>1, <1>2, <1>9, ClockAssumption DEF D!OtherKeyword, D!AdvanceTime, D!Complete, D!Throw,
        D!TypeOK,
        D!ClockTypeOK, D!CurrentStepIsLast, D!Phases
    <2>3. currentStep' \in Nat
      BY <2>2 DEF D!ClockTypeOK
    <2>4. D!TypeOK'
      BY <1>1, <2>1, <2>2 DEF D!TypeOK
    <2>5. \A w \in Well : SetEndsByNow(completions[w])'
      BY <1>1, <1>2, <1>7, <2>1, <2>2, <2>3, D!GetType, ClockAssumption DEF SetEndsByNow
    <2>6. HandlerKeepsOrder' /\ CopyKeepsPlaces'
      BY <1>1, <2>1 DEF HandlerKeepsOrder, CopyKeepsPlaces
    <2>7. ASSUME NEW w \in Well
          PROVE  Current(w)' = Current(w)
      <3>1. D!Get(completions[w], currentStep') = D!Get(completions[w], currentStep)
        BY <1>1, <1>2, <1>7, <2>2, <2>3, D!GetPersists, ClockAssumption DEF SetEndsByNow
      <3>2. QED
        BY <1>3, <2>1, <3>1 DEF Current
    <2>8. QED
      BY <1>1, <2>1, <2>2, <2>4, <2>5, <2>6, <2>7 DEF CompletionsInv
  <1>10. CASE D!CompdatOpens \/ D!RecordsEnd \/ D!CompdatRefused \/ D!CompdatCloses
    <2>1. /\ UNCHANGED <<timeSteps, currentStep, completions, lists, listed, well, newSet,
                         D!historyVars>>
          /\ phase' \in D!Phases /\ stage' \in {"none", "collect", "apply"}
      BY <1>1, <1>10 DEF D!CompdatOpens, D!RecordsEnd, D!CompdatRefused, D!CompdatCloses, D!Throw,
        D!TypeOK,
        D!ClockTypeOK, D!Phases
    <2>2. D!TypeOK' /\ D!CurrentStepIsLast'
      BY <1>1, <2>1 DEF D!TypeOK, D!ClockTypeOK, D!CurrentStepIsLast
    <2>3. HandlerKeepsOrder'
      BY <1>1, <1>5, <1>10, <2>1 DEF D!CompdatOpens, D!RecordsEnd, D!CompdatRefused,
        D!CompdatCloses,
        HandlerKeepsOrder
    <2>4. \A w \in Well : SetEndsByNow(completions[w])' /\ Current(w)' = Current(w)
      BY <1>1, <2>1 DEF SetEndsByNow, Current
    <2>5. QED
      BY <1>1, <2>1, <2>2, <2>3, <2>4 DEF CompletionsInv, CopyKeepsPlaces
  <1>11. ASSUME NEW r \in CompdatRecord, D!CollectRecord(r)
         PROVE  CompletionsInv'
    <2>1. r \in D!CompdatRecords /\ r.well \in Well
      BY DEF D!CompletionsConstants, D!CompdatRecords
    <2>2. /\ UNCHANGED <<D!clockVars, completions, stage, well, newSet>>
          /\ well = NotAWell /\ stage = "collect"
          /\ listed' = listed \union {r.well} /\ compdatRecords' = compdatRecords + 1
      BY <1>5, <1>11 DEF D!CollectRecord
    <2>3. D!FromRecord(r) \in Seq(D!Completion)
      BY <2>1, FromRecordEffect
    <2>4. /\ lists' = [lists EXCEPT ![r.well] = lists[r.well] \o D!FromRecord(r)]
          /\ asked' = [asked EXCEPT ![r.well] =
               [c \in DOMAIN asked[r.well] \union D!RecordCells(r) |->
                  IF c \in D!RecordCells(r) THEN r.data ELSE asked[r.well][c]]]
      BY <1>11 DEF D!CollectRecord
    <2>5. D!TypeOK' /\ D!CurrentStepIsLast'
      BY <1>1, <1>7, <2>1, <2>2, <2>3, <2>4 DEF D!TypeOK, D!ClockTypeOK, D!CurrentStepIsLast
    <2>6. asked' = [w \in Well |-> asked'[w]]
      BY <1>1, <2>1, <2>4
    <2>7. HandlerKeepsOrder' /\ CopyKeepsPlaces'
      BY <1>1, <2>1, <2>2, <2>4 DEF HandlerKeepsOrder, CopyKeepsPlaces, D!TypeOK
    <2>8. \A w \in Well : SetEndsByNow(completions[w])' /\ Current(w)' = Current(w)
      BY <1>1, <2>2 DEF SetEndsByNow, Current
    <2>9. ASSUME NEW w \in Well
          PROVE  Owes(w, Current(w), lists'[w], asked'[w])
      <3>1. CASE w = r.well
        <4>1. /\ lists'[w] = lists[w] \o D!FromRecord(r)
              /\ asked'[w] = [c \in DOMAIN asked[w] \union D!RecordCells(r) |->
                               IF c \in D!RecordCells(r) THEN r.data ELSE asked[w][c]]
          <5>1. lists \in [Well -> Seq(D!Completion)] /\ asked = [v \in Well |-> asked[v]]
            BY <1>1 DEF CompletionsInv, D!TypeOK
          <5>2. /\ lists' = [lists EXCEPT ![w] = @ \o D!FromRecord(r)]
                /\ asked' = [asked EXCEPT ![w] =
                     [c \in DOMAIN @ \union D!RecordCells(r) |->
                        IF c \in D!RecordCells(r) THEN r.data ELSE @[c]]]
            BY <2>4, <3>1
          <5>3. lists'[w] = lists[w] \o D!FromRecord(r)
            BY <5>1, <5>2
          <5>4. asked'[w] = [c \in DOMAIN asked[w] \union D!RecordCells(r) |->
                               IF c \in D!RecordCells(r) THEN r.data ELSE asked[w][c]]
            BY <5>1, <5>2
          <5>5. QED
            BY <5>3, <5>4
        <4>2. Current(w) \in Seq(D!Completion) /\ Owes(w, Current(w), lists[w], asked[w])
          BY <1>1, CurrentType
        <4>3. QED
          BY <1>7, <2>1, <3>1, <4>1, <4>2, CollectKeepsOwed, SMTT(30)
      <3>2. CASE w # r.well
        BY <1>1, <2>4, <3>2 DEF D!TypeOK
      <3>3. QED
        BY <3>1, <3>2
    <2>10. QED
      BY <2>5, <2>6, <2>7, <2>8, <2>9 DEF CompletionsInv
  <1>12. ASSUME NEW w \in Well, D!NextWell(w)
         PROVE  CompletionsInv'
    <2>1. /\ UNCHANGED <<D!clockVars, completions, stage, lists, D!historyVars>>
          /\ well = NotAWell /\ stage = "apply" /\ well' = w /\ listed' = listed \ {w}
          /\ newSet' = Current(w) /\ newSet' = D!Get(completions[w], currentStep)
      BY <1>6, <1>12 DEF D!NextWell
    <2>2. D!TypeOK' /\ D!CurrentStepIsLast'
      BY <1>1, <2>1, CurrentType DEF D!TypeOK, D!ClockTypeOK, D!CurrentStepIsLast
    <2>3. HandlerKeepsOrder' /\ CopyKeepsPlaces'
      BY <1>1, <1>3, <2>1 DEF HandlerKeepsOrder, CopyKeepsPlaces, PlacesInCopy
    <2>4. \A v \in Well : SetEndsByNow(completions[v])' /\ Current(v)' = Current(v)
      BY <1>1, <1>3, <2>1 DEF SetEndsByNow, Current
    <2>5. QED
      BY <1>1, <2>1, <2>2, <2>3, <2>4 DEF CompletionsInv
  <1>13. CASE D!AddNext
    <2> DEFINE list == lists[well]
               c == D!FixDefaultIJ(Head(list), well)
    <2>1. /\ well \in Well /\ newSet \in Seq(D!Completion)
          /\ list \in Seq(D!Completion) /\ list # << >>
      BY <1>1, <1>4, <1>7, <1>13 DEF D!AddNext, D!TypeOK
    <2>2. /\ UNCHANGED <<D!clockVars, completions, stage, listed, well, D!historyVars>>
          /\ newSet' = D!AddCompletion(newSet, c)
          /\ lists' = [lists EXCEPT ![well] = Tail(list)]
      BY <1>13 DEF D!AddNext
    <2>3. c \in D!Completion /\ Tail(list) \in Seq(D!Completion)
      BY <2>1, FixDefaultEffect
    <2>4. Current(well) = newSet
      BY DEF Current
    <2>5. Owes(well, newSet, list, asked[well])
      BY <1>1, <2>1, <2>4
    <2>6. newSet' \in Seq(D!Completion) /\ PlacesInCopy(newSet, newSet')
      BY <2>1, <2>2, <2>3, <2>5, AddCompletionEffect DEF Owes
    <2>7. Owes(well, newSet', Tail(list), asked[well])
      BY <2>1, <2>2, <2>5, AddKeepsOwed
    <2>8. D!TypeOK' /\ D!CurrentStepIsLast'
      BY <1>1, <2>1, <2>2, <2>3, <2>6 DEF D!TypeOK, D!ClockTypeOK, D!CurrentStepIsLast
    <2>9. HandlerKeepsOrder'
      BY <1>1, <2>1, <2>2 DEF HandlerKeepsOrder, D!TypeOK
    <2>10. CopyKeepsPlaces'
      BY <1>1, <2>2, <2>6 DEF CopyKeepsPlaces, PlacesInCopy
    <2>11. \A w \in Well : SetEndsByNow(completions[w])'
      BY <1>1, <2>2 DEF SetEndsByNow
    <2>12. ASSUME NEW w \in Well
           PROVE  Owes(w, Current(w)', lists'[w], asked'[w])
      <3>1. CASE w = well
        <4>1. Current(w)' = newSet' /\ lists'[w] = Tail(list) /\ asked'[w] = asked[well]
          BY <1>1, <2>1, <2>2, <3>1 DEF Current, D!TypeOK
        <4>2. QED
          BY <2>7, <3>1, <4>1
      <3>2. CASE w # well
        <4>1. Current(w)' = Current(w) /\ lists'[w] = lists[w] /\ asked'[w] = asked[w]
          BY <1>1, <2>1, <2>2, <3>2 DEF Current, D!TypeOK
        <4>2. QED
          BY <1>1, <4>1
      <3>3. QED
        BY <3>1, <3>2
    <2>13. QED
      BY <1>1, <2>2, <2>8, <2>9, <2>10, <2>11, <2>12 DEF CompletionsInv
  <1>14. CASE D!WellDone
    <2> DEFINE new == D!Add(completions[well], currentStep, newSet)
    <2>1. well \in Well /\ newSet \in Seq(D!Completion) /\ lists[well] = << >>
      BY <1>1, <1>4, <1>14 DEF D!WellDone, D!TypeOK
    <2>2. /\ UNCHANGED <<D!clockVars, stage, lists, listed, D!historyVars>>
          /\ completions' = [completions EXCEPT ![well] = new]
          /\ well' = NotAWell /\ newSet' = << >>
      BY <1>14 DEF D!WellDone
    <2>3. ~ D!SetsThePast(completions[well], currentStep)
      BY <1>1, <1>2, <1>7, <2>1, D!NotThePast, ClockAssumption DEF SetEndsByNow
    <2>4. /\ new \in D!DynamicStates(Seq(D!Completion)) /\ D!StateSize(new) = currentStep + 1
          /\ D!CacheAgrees(new) /\ D!Get(new, currentStep) = newSet
      BY <1>2, <1>7, <2>1, <2>3, D!AddType, D!AddCache, D!GetAdd, ClockAssumption
    <2> HIDE DEF new
    <2>5. D!TypeOK' /\ D!CurrentStepIsLast'
      BY <1>1, <1>3, <2>1, <2>2, <2>4 DEF D!TypeOK, D!ClockTypeOK, D!CurrentStepIsLast
    <2>6. HandlerKeepsOrder' /\ CopyKeepsPlaces'
      BY <1>1, <2>1, <2>2 DEF HandlerKeepsOrder, CopyKeepsPlaces
    <2>7. ASSUME NEW w \in Well
          PROVE  SetEndsByNow(completions[w])' /\ Current(w)' = Current(w)
      <3>1. CASE w = well
        <4>1. completions'[w] = new /\ Current(w) = newSet
          BY <1>1, <2>1, <2>2, <3>1 DEF D!TypeOK, Current
        <4>2. QED
          BY <1>2, <1>3, <2>2, <2>4, <4>1 DEF SetEndsByNow, Current
      <3>2. CASE w # well
        <4>1. completions'[w] = completions[w]
          BY <1>1, <2>1, <2>2, <3>2 DEF D!TypeOK
        <4>2. QED
          BY <1>1, <1>3, <2>2, <3>2, <4>1 DEF SetEndsByNow, Current
      <3>3. QED
        BY <3>1, <3>2
    <2>8. QED
      BY <1>1, <2>2, <2>5, <2>6, <2>7 DEF CompletionsInv
  <1>15. QED
    BY <1>8, <1>9, <1>10, <1>11, <1>12, <1>13, <1>14 DEF D!Next

(* What a keyword half done still owes is owed by it alone: a keyword that *)
(* is handled owes nothing.                                                *)
THEOREM CompletionsInvariant ==
  D!Spec => []CompletionsInv
  <1>1. D!Init => CompletionsInv
    BY CompletionsInvInit, ScheduleAssumption
  <1>2. CompletionsInv /\ [D!Next]_D!vars => CompletionsInv'
    BY CompletionsInvStep, ScheduleAssumption
  <1>3. QED
    BY <1>1, <1>2, PTL DEF D!Spec

(* Once a keyword is handled, the set of a well has one completion for     *)
(* each cell that a record has named, with what the last record that named *)
(* it said, whatever the order and the number of the records               *)
(* (Completion.cpp:98-120, CompletionSet.cpp:42-56, Well.cpp:188-198).     *)
THEOREM TheLastRecordWins ==
  D!Spec => []D!LastRecordWins
  <1>1. ASSUME CompletionsInv, stage = "none", NEW w \in Well
        PROVE  LET set == D!Get(completions[w], currentStep)
               IN  /\ D!DistinctCells(set)
                   /\ { D!CellOf(set[n]) : n \in DOMAIN set } = DOMAIN asked[w]
                   /\ \A n \in DOMAIN set : set[n].data = asked[w][D!CellOf(set[n])]
    <2>1. well = NotAWell /\ lists[w] = << >>
      BY <1>1, ScheduleAssumption DEF CompletionsInv, HandlerKeepsOrder, D!CompletionsConstants
    <2>2. Current(w) = D!Get(completions[w], currentStep) /\ Wanted(w, lists[w]) = {}
      BY <2>1, ScheduleAssumption DEF Current, D!CompletionsConstants, Wanted
    <2>3. QED
      BY <1>1, <2>2 DEF CompletionsInv, Owes, CellsOf
  <1>2. CompletionsInv => D!LastRecordWins
    BY <1>1 DEF D!LastRecordWins
  <1>3. QED
    BY <1>2, CompletionsInvariant, PTL

(* A completion keeps its index in the set of its well from step to step   *)
(* and from keyword to keyword (CompletionSet::get(index)).                *)
THEOREM PlacesStay ==
  D!Spec => D!PlacesAreKept
  <1> DEFINE Kept(w) == PlacesInCopy(D!Get(completions[w], currentStep),
                                     D!Get(completions[w], currentStep)')
  <1>1. ASSUME CompletionsInv, CompletionsInv', [D!Next]_D!vars, NEW w \in Well
        PROVE  Kept(w)
    <2>1. /\ completions[w] \in D!DynamicStates(Seq(D!Completion)) /\ SetEndsByNow(completions[w])
          /\ currentStep \in Nat /\ currentStep' \in Nat
      BY <1>1, DrillingNowIsAStep DEF CompletionsInv, D!TypeOK, D!ClockTypeOK
    <2>2. CASE completions' = completions
      <3>1. currentStep <= currentStep'
        <4>1. CASE D!OtherKeyword
          BY <2>1, <4>1, ClockAssumption DEF D!OtherKeyword, D!AdvanceTime, D!Complete, D!Throw
        <4>2. CASE ~ D!OtherKeyword
          <5>1. UNCHANGED currentStep
            BY <1>1, <4>2 DEF D!Next, D!CompdatOpens, D!CollectRecord, D!RecordsEnd,
              D!CompdatRefused,
              D!NextWell, D!AddNext, D!WellDone, D!CompdatCloses, D!Throw, D!vars, D!clockVars
          <5>2. QED
            BY <2>1, <5>1
        <4>3. QED
          BY <4>1, <4>2
      <3>2. D!Get(completions[w], currentStep)' = D!Get(completions[w], currentStep)
        BY <2>1, <2>2, <3>1, D!GetPersists, ClockAssumption DEF SetEndsByNow
      <3>3. QED
        BY <3>2 DEF PlacesInCopy
    <2>3. CASE completions' # completions
      <3>1. D!WellDone
        BY <1>1, <2>3 DEF D!Next, D!OtherKeyword, D!CompdatOpens, D!CollectRecord, D!RecordsEnd,
          D!CompdatRefused,
          D!NextWell, D!AddNext, D!CompdatCloses, D!vars
      <3>2. /\ well \in Well /\ newSet \in Seq(D!Completion) /\ UNCHANGED currentStep
            /\ completions' = [completions EXCEPT ![well] = D!Add(@, currentStep, newSet)]
        BY <1>1, <3>1 DEF D!WellDone, CompletionsInv, D!TypeOK, D!clockVars
      <3>3. CASE w # well
        BY <1>1, <3>2, <3>3 DEF PlacesInCopy, CompletionsInv, D!TypeOK
      <3>4. CASE w = well
        <4>1. completions'[w] = D!Add(completions[w], currentStep, newSet)
          BY <1>1, <3>2, <3>4 DEF CompletionsInv, D!TypeOK
        <4>2. D!Get(completions[w], currentStep)' = newSet
          BY <2>1, <3>2, <4>1, D!NotThePast, D!GetAdd, ClockAssumption DEF SetEndsByNow
        <4>3. PlacesInCopy(D!Get(completions[w], currentStep), newSet)
          BY <1>1, <3>1, <3>4 DEF D!WellDone, CompletionsInv, CopyKeepsPlaces
        <4>4. QED
          BY <4>2, <4>3
      <3>5. QED
        BY <3>3, <3>4
    <2>4. QED
      BY <2>2, <2>3
  <1>2. CompletionsInv /\ CompletionsInv' /\ [D!Next]_D!vars
          => [\A w \in Well :
                LET old == D!Get(completions[w], currentStep)
                    new == D!Get(completions'[w], currentStep')
                IN  \A n \in DOMAIN old :
                      n \in DOMAIN new /\ D!CellOf(new[n]) = D!CellOf(old[n])]_D!vars
    BY <1>1 DEF PlacesInCopy
  <1>3. QED
    BY <1>2, CompletionsInvariant, PTL DEF D!Spec, D!PlacesAreKept
-----------------------------------------------------------------------------
(***************************************************************************)
(* The controls of wells, for every set of wells, all records and patterns *)
(* and every number of report steps.  What the loop over a pattern shares  *)
(* (SharedFollowsRecord) is what the proof turns on: whatever wells the    *)
(* loop has been at, it says what the record says, but for GRUP, which is  *)
(* set for every well, and for a mode that is set with it.                 *)
(***************************************************************************)
(* What a record says before it is known for which well. *)
OfRecord(r) == IF r.prediction THEN C!Prediction(r.given) ELSE C!History(r.given)

RecordFits ==
  /\ handler = "WCONProducer" => record \in C!ProducerRecords
  /\ handler = "WCONINJE" => record \in C!InjectorRecords

SharedFollowsRecord ==
  handler = "WCONProducer" =>
    /\ properties.prediction = record.prediction
    /\ properties.controls \ {"GRUP"} = OfRecord(record).controls
    /\ record.status = "SHUT" => properties.mode = "ORAT"

WellInv ==
  /\ C!TypeOK /\ C!CurrentStepIsLast /\ C!StatesEndByNow
  /\ RecordFits /\ SharedFollowsRecord

LEMMA ControlsNowIsAStep ==
  ASSUME WellInv
  PROVE  /\ currentStep \in Nat /\ timeSteps \in Nat /\ C!Step \subseteq Nat
         /\ currentStep \in C!Step
  BY ClockAssumption DEF WellInv, C!TypeOK, C!ClockTypeOK, C!CurrentStepIsLast, C!Step

LEMMA OfRecordType ==
  ASSUME NEW r \in C!ProducerRecords
  PROVE  /\ OfRecord(r) \in C!ProductionProperties
         /\ OfRecord(r).prediction = r.prediction
         /\ OfRecord(r).mode = "ORAT"
         /\ "GRUP" \notin OfRecord(r).controls
         /\ ~ r.prediction => "ORAT" \in OfRecord(r).controls
  <1>1. /\ r.prediction \in BOOLEAN
        /\ r.given \in SUBSET {"ORAT", "WRAT", "GRAT", "LRAT", "RESV", "BHP", "THP"}
    BY DEF C!ProducerRecords
  <1>2. CASE r.prediction
    BY <1>1, <1>2 DEF OfRecord, C!Prediction, C!DefaultProduction, C!ProductionProperties,
      C!ProducerMode
  <1>3. CASE ~ r.prediction
    BY <1>1, <1>3 DEF OfRecord, C!History, C!DefaultProduction, C!ProductionProperties,
      C!ProducerMode
  <1>4. QED
    BY <1>2, <1>3

(* The properties a well of the loop gets are those its record asks for    *)
(* from this well, whatever the wells before it have left in them.         *)
LEMMA ForWellIsAsked ==
  ASSUME WellInv, handler = "WCONProducer", NEW w \in Well
  PROVE  LET p == C!ForWell(properties, w, record)
         IN  /\ ~ C!Refuses(p, record) =>
                  /\ p \in C!ProductionProperties
                  /\ p = C!Asked(record, C!Now(available[w]))
                  /\ p.mode \in p.controls \/ (p.mode = "ORAT" /\ p.prediction)
             /\ p.prediction = record.prediction
             /\ p.controls \ {"GRUP"} = OfRecord(record).controls
             /\ record.status = "SHUT" => p.mode = "ORAT"
  <1> DEFINE grup == C!Now(available[w])
             p == C!ForWell(properties, w, record)
  <1>1. record \in C!ProducerRecords /\ properties \in C!ProductionProperties /\ grup \in BOOLEAN
    BY ControlsNowIsAStep, C!GetType, ClockAssumption DEF WellInv, RecordFits, C!TypeOK, C!Now
  <1>2. /\ properties.prediction = record.prediction
        /\ properties.controls \ {"GRUP"} = OfRecord(record).controls
        /\ record.status = "SHUT" => properties.mode = "ORAT"
    BY DEF WellInv, SharedFollowsRecord
  <1>3. /\ OfRecord(record).prediction = record.prediction
        /\ "GRUP" \notin OfRecord(record).controls
        /\ ~ record.prediction => "ORAT" \in OfRecord(record).controls
        /\ OfRecord(record).controls \subseteq C!ProducerMode
    BY <1>1, OfRecordType DEF C!ProductionProperties
  <1> DEFINE controls == OfRecord(record).controls \union (IF grup THEN {"GRUP"} ELSE {})
             mode == IF record.status = "SHUT" THEN "ORAT" ELSE record.cmode
  <1>4. properties = [prediction |-> properties.prediction, controls |-> properties.controls,
                      mode |-> properties.mode]
    BY <1>1 DEF C!ProductionProperties
  <1> HIDE DEF grup
  <1>5. (IF grup THEN properties.controls \union {"GRUP"} ELSE properties.controls \ {"GRUP"})
          = controls
    BY <1>1, <1>2, <1>3
  <1> USE DEF grup
  <1>6. p = [prediction |-> record.prediction, controls |-> controls, mode |-> mode]
    <2> HIDE DEF controls
    <2>1. C!WithControl(properties, "GRUP", grup)
            = [prediction |-> record.prediction, controls |-> controls,
               mode |-> properties.mode]
      BY <1>2, <1>4, <1>5 DEF C!WithControl
    <2>2. CASE record.status = "SHUT"
      BY <2>1, <2>2, <1>2 DEF C!ForWell
    <2>3. CASE record.status # "SHUT"
      BY <2>1, <2>3 DEF C!ForWell
    <2>4. QED
      BY <2>2, <2>3
  <1>7. p = C!Asked(record, grup)
    BY <1>6 DEF C!Asked, OfRecord
  <1>8. p.prediction = record.prediction /\ p.controls = controls /\ p.mode = mode
    BY <1>6
  <1>9. controls \subseteq C!ProducerMode /\ controls \ {"GRUP"} = OfRecord(record).controls
    BY <1>3 DEF C!ProducerMode
  <1>10. ASSUME ~ C!Refuses(p, record)
         PROVE  /\ mode \in C!ProducerMode
                /\ mode \in controls \/ (mode = "ORAT" /\ record.prediction)
    <2>1. CASE record.status = "SHUT"
      BY <1>1, <1>3, <2>1 DEF C!ProducerMode, C!ProducerRecords
    <2>2. CASE record.status # "SHUT"
      <3>1. mode \in controls
        BY <1>10, <1>8, <2>2 DEF C!Refuses
      <3>2. QED
        BY <3>1, <1>9
    <2>3. QED
      BY <2>1, <2>2
  <1>11. ASSUME ~ C!Refuses(p, record)
         PROVE  p \in C!ProductionProperties
    <2>1. record.prediction \in BOOLEAN
      BY <1>1 DEF C!ProducerRecords
    <2>2. QED
      BY <1>6, <1>9, <1>10, <1>11, <2>1 DEF C!ProductionProperties
  <1> HIDE DEF p, controls, mode
  <1>12. ~ C!Refuses(p, record) =>
           /\ p \in C!ProductionProperties
           /\ p = C!Asked(record, C!Now(available[w]))
           /\ p.mode \in p.controls \/ (p.mode = "ORAT" /\ p.prediction)
    BY <1>7, <1>8, <1>10, <1>11
  <1>13. /\ p.prediction = record.prediction
         /\ p.controls \ {"GRUP"} = OfRecord(record).controls
         /\ record.status = "SHUT" => p.mode = "ORAT"
    BY <1>8, <1>9 DEF mode
  <1>14. QED
    BY <1>12, <1>13 DEF p

(* What one add() at the current step does to the dynamic states of one    *)
(* kind.                                                                   *)
LEMMA SetWellNowEffect ==
  ASSUME WellInv, NEW V, NEW f \in [Well -> C!DynamicStates(V)],
         \A v \in Well : C!EndsByNow(f[v]), NEW w \in Well, NEW x \in V
  PROVE  /\ C!SetNow(f, w, x) \in [Well -> C!DynamicStates(V)]
         /\ \A v \in Well : C!EndsByNow(C!SetNow(f, w, x)[v])
         /\ \A v \in Well, t \in C!Step :
              C!Get(C!SetNow(f, w, x)[v], t)
                = IF v = w /\ t >= currentStep THEN x ELSE C!Get(f[v], t)
  <1>1. currentStep \in Nat /\ C!Step \subseteq Nat
    BY ControlsNowIsAStep
  <1>2. f[w] \in C!DynamicStates(V) /\ ~ C!SetsThePast(f[w], currentStep)
    BY <1>1, C!NotThePast, ClockAssumption DEF C!EndsByNow
  <1>3. /\ C!Add(f[w], currentStep, x) \in C!DynamicStates(V)
        /\ C!EndsByNow(C!Add(f[w], currentStep, x))
    BY <1>1, <1>2, C!AddType, C!AddCache, ClockAssumption DEF C!EndsByNow
  <1>4. \A t \in C!Step : C!Get(C!Add(f[w], currentStep, x), t)
                          = IF t >= currentStep THEN x ELSE C!Get(f[w], t)
    BY <1>1, <1>2, C!GetAdd, ClockAssumption
  <1>5. C!SetNow(f, w, x) = [f EXCEPT ![w] = C!Add(f[w], currentStep, x)]
    BY DEF C!SetNow
  <1>6. QED
    BY <1>3, <1>4, <1>5

(* What a handler may do to one well: each of its five dynamic states      *)
(* stays, or gets a value of its type at the current step.                 *)
Written(f, g, w, x) == g = f \/ g = C!SetNow(f, w, x)

Writes(w, st, av, role, p, q) ==
  /\ timeSteps' = timeSteps /\ currentStep' = currentStep /\ phase' \in C!Phases
  /\ Written(status, status', w, st)
  /\ Written(available, available', w, av)
  /\ Written(isProducer, isProducer', w, role)
  /\ \/ production' = production
     \/ /\ production' = C!SetNow(production, w, p)
        /\ handler = "WCONProducer"
        /\ p = C!Asked(record, C!Now(available[w]))
        /\ p.mode \in p.controls \/ (p.mode = "ORAT" /\ p.prediction)
  /\ \/ injection' = injection
     \/ /\ injection' = C!SetNow(injection, w, q)
        /\ (\A t \in C!Step : LET i == C!Get(injection[w], t)
                            IN  i.mode \in i.controls \/ i.controls = {})
             => q.mode \in q.controls \/ q.controls = {}

(* A step of time, the opening of a record or the end of a loop. *)
Passes ==
  /\ UNCHANGED C!wellVars
  /\ \/ UNCHANGED C!clockVars \/ C!Complete \/ C!Throw
     \/ \E n \in 1 .. MaxPerKeyword : C!AdvanceTime(n)

(* Every step of the handlers is one of the two. *)
LEMMA StepWrites ==
  ASSUME C!WellControlsConstants, WellInv, [C!Next]_C!vars
  PROVE  \/ Passes
         \/ \E w \in Well, st \in C!Status, av \in BOOLEAN, role \in BOOLEAN,
               p \in C!ProductionProperties, q \in C!InjectionProperties :
              Writes(w, st, av, role, p, q)
  <1> DEFINE Some == \E w \in Well, st \in C!Status, av \in BOOLEAN, role \in BOOLEAN,
                        p \in C!ProductionProperties, q \in C!InjectionProperties :
                       Writes(w, st, av, role, p, q)
  <1>1. /\ "OPEN" \in C!Status /\ TRUE \in BOOLEAN /\ FALSE \in BOOLEAN
        /\ C!DefaultProduction \in C!ProductionProperties
        /\ C!DefaultInjection \in C!InjectionProperties
    BY DEF C!Status, C!DefaultProduction, C!DefaultInjection, C!ProductionProperties,
           C!InjectionProperties, C!ProducerMode, C!InjectorMode
  <1>2. phase \in C!Phases /\ "thrown" \in C!Phases /\ todo \subseteq Well
    BY DEF WellInv, C!TypeOK, C!ClockTypeOK, C!Phases
  <1> USE DEF Written
  <1>3. CASE UNCHANGED C!vars
    BY <1>3 DEF C!vars, Passes
  <1>4. CASE C!Next /\ (C!OtherKeyword \/ C!RecordRefused \/ C!NoWell)
    BY <1>4 DEF C!OtherKeyword, C!RecordRefused, C!NoWell, Passes
  <1>5. ASSUME NEW r, NEW ws, C!WconproducerRecord(r, ws) \/ C!WconinjeRecord(r, ws)
        PROVE  Passes
    BY <1>5 DEF C!WconproducerRecord, C!WconinjeRecord, C!OpenLoop, Passes
  <1>6. ASSUME NEW w \in Well, NEW s \in C!Status, C!WelopenRecord(w, s)
        PROVE  Some
    <2>1. Writes(w, s, TRUE, TRUE, C!DefaultProduction, C!DefaultInjection)
      BY <1>2, <1>6 DEF C!WelopenRecord, Writes, C!clockVars
    <2>2. QED
      BY <2>1, <1>1
  <1>7. ASSUME NEW w \in Well, NEW yes \in BOOLEAN, C!WgrupconRecord(w, yes)
        PROVE  Some
    <2>1. Writes(w, "OPEN", yes, TRUE, C!DefaultProduction, C!DefaultInjection)
      BY <1>2, <1>7 DEF C!WgrupconRecord, Writes, C!clockVars
    <2>2. QED
      BY <2>1, <1>1
  <1>8. ASSUME NEW w \in todo, C!ProducerRefused(w)
        PROVE  Passes
    BY <1>8 DEF C!ProducerRefused, Passes
  <1>9. ASSUME NEW w \in todo, C!ProducerWell(w)
        PROVE  Some
    <2> DEFINE p == C!ForWell(properties, w, record)
    <2>1. w \in Well /\ record.status \in C!Status
      BY <1>2, <1>9 DEF WellInv, RecordFits, C!ProducerWell, C!ProducerRecords
    <2>2. /\ handler = "WCONProducer" /\ ~ C!Refuses(p, record)
          /\ status' = C!SetNow(status, w, record.status) /\ available' = available
          /\ isProducer' = C!SetNow(isProducer, w, TRUE)
          /\ production' = C!SetNow(production, w, p) /\ injection' = injection
          /\ timeSteps' = timeSteps /\ currentStep' = currentStep /\ phase' = phase
      BY <1>9 DEF C!ProducerWell, C!SetProductionProperties, C!clockVars
    <2>3. /\ p \in C!ProductionProperties
          /\ p = C!Asked(record, C!Now(available[w]))
          /\ p.mode \in p.controls \/ (p.mode = "ORAT" /\ p.prediction)
      BY <2>1, <2>2, ForWellIsAsked
    <2> HIDE DEF p
    <2>4. Writes(w, record.status, TRUE, TRUE, p, C!DefaultInjection)
      BY <1>2, <2>2, <2>3 DEF Writes
    <2>5. QED
      BY <1>1, <2>1, <2>3, <2>4
  <1>10. ASSUME NEW w \in todo, C!InjectorWell(w)
         PROVE  Some
    <2> DEFINE q == [prediction |-> TRUE, multi |-> record.multi,
                     controls |-> C!InjectorControls(w, record), mode |-> record.cmode]
    <2>1. /\ w \in Well /\ record \in C!InjectorRecords /\ ~ C!InjectorRefuses(w, record)
      BY <1>2, <1>10 DEF WellInv, RecordFits, C!InjectorWell
    <2>2. C!InjectorControls(w, record) \subseteq C!InjectorMode
      BY <2>1 DEF C!InjectorControls, C!InjectorRecords, C!InjectorMode
    <2>3. record.cmode \in C!InjectorControls(w, record)
      BY <2>1 DEF C!InjectorRefuses
    <2>4. q \in C!InjectionProperties /\ record.status \in C!Status
      BY <2>1, <2>2, <2>3 DEF C!InjectionProperties, C!InjectorRecords
    <2>5. /\ status' = C!SetNow(status, w, record.status) /\ available' = available
          /\ isProducer' = C!SetNow(isProducer, w, FALSE)
          /\ injection' = C!SetNow(injection, w, q) /\ production' = production
          /\ timeSteps' = timeSteps /\ currentStep' = currentStep /\ phase' = phase
      BY <1>10 DEF C!InjectorWell, C!SetInjectionProperties, C!clockVars
    <2>6. q.mode \in q.controls
      BY <2>3
    <2> HIDE DEF q
    <2>7. Writes(w, record.status, TRUE, FALSE, C!DefaultProduction, q)
      BY <1>2, <2>5, <2>6 DEF Writes
    <2>8. QED
      BY <1>1, <2>1, <2>4, <2>7
  <1>11. ASSUME NEW w \in todo, C!InjectorRefused(w)
         PROVE  Some
    <2>1. w \in Well /\ record.status \in C!Status
      BY <1>2, <1>11 DEF WellInv, RecordFits, C!InjectorRefused, C!InjectorRecords
    <2>2. Writes(w, record.status, TRUE, TRUE, C!DefaultProduction, C!DefaultInjection)
      BY <1>2, <1>11 DEF C!InjectorRefused, C!Throw, Writes
    <2>3. QED
      BY <1>1, <2>1, <2>2
  <1>12. ASSUME NEW r \in InjectorRecord, NEW w \in Well, C!WconinjhRecord(w, r)
         PROVE  Some
    <2> DEFINE old == C!Now(injection[w])
               q == C!HistoricInjection(old, r)
    <2>1. r \in C!InjectorRecords /\ old \in C!InjectionProperties /\ currentStep \in C!Step
      BY ControlsNowIsAStep, C!GetType, ClockAssumption
      DEF C!WellControlsConstants, WellInv, C!TypeOK, C!Now
    <2>2. r.status \in C!Status /\ r.multi \in BOOLEAN /\ r.cmode \in C!InjectorMode
      BY <2>1, <1>12 DEF C!InjectorRecords, C!WconinjhRecord
    <2>3. /\ status' = C!SetNow(status, w, r.status) /\ available' = available
          /\ isProducer' = C!SetNow(isProducer, w, FALSE)
          /\ injection' = C!SetNow(injection, w, q) /\ production' = production
          /\ timeSteps' = timeSteps /\ currentStep' = currentStep /\ phase' = phase
      BY <1>12 DEF C!WconinjhRecord, C!SetInjectionProperties, C!clockVars
    <2>4. old = C!Get(injection[w], currentStep)
      BY DEF C!Now
    <2> HIDE DEF old
    <2>5. /\ q \in C!InjectionProperties
          /\ old.mode \in old.controls \/ old.controls = {} =>
               q.mode \in q.controls \/ q.controls = {}
      <3>1. CASE "RATE" \in r.given
        BY <2>1, <2>2, <3>1 DEF C!HistoricInjection, C!InjectionProperties
      <3>2. CASE "RATE" \notin r.given
        BY <2>1, <2>2, <3>2 DEF C!HistoricInjection, C!InjectionProperties
      <3>3. QED
        BY <3>1, <3>2
    <2> HIDE DEF q
    <2>6. Writes(w, r.status, TRUE, FALSE, C!DefaultProduction, q)
      BY <1>2, <2>1, <2>3, <2>4, <2>5 DEF Writes
    <2>7. QED
      BY <1>1, <2>2, <2>5, <2>6
  <1>13. ASSUME NEW r \in InjectorRecord, NEW w \in Well, C!WconinjhRefused(w, r)
         PROVE  Some
    <2>1. r.status \in C!Status
      BY DEF C!WellControlsConstants, C!InjectorRecords
    <2>2. Writes(w, r.status, TRUE, TRUE, C!DefaultProduction, C!DefaultInjection)
      BY <1>2, <1>13 DEF C!WconinjhRefused, C!Throw, Writes
    <2>3. QED
      BY <1>1, <2>1, <2>2
  <1> HIDE DEF Some
  <1>14. QED
    BY <1>3, <1>4, <1>5, <1>6, <1>7, <1>8, <1>9, <1>10, <1>11, <1>12, <1>13
    DEF C!Next, C!LoopStep, Some

(* The loop keeps to its record, and the shared properties to what it says. *)
LEMMA LoopFollows ==
  ASSUME C!WellControlsConstants, WellInv, [C!Next]_C!vars
  PROVE  /\ RecordFits' /\ SharedFollowsRecord'
         /\ handler' \in {"none", "WCONProducer", "WCONINJE"}
         /\ record' \in C!ProducerRecords \union C!InjectorRecords
         /\ properties' \in C!ProductionProperties
         /\ todo' \subseteq Well /\ controlRecords' \in Nat
  <1>1. /\ handler \in {"none", "WCONProducer", "WCONINJE"}
        /\ record \in C!ProducerRecords \union C!InjectorRecords
        /\ properties \in C!ProductionProperties
        /\ todo \subseteq Well /\ controlRecords \in Nat
        /\ RecordFits /\ SharedFollowsRecord
    BY DEF WellInv, C!TypeOK
  <1>2. CASE UNCHANGED C!handlerVars
    BY <1>1, <1>2 DEF C!handlerVars, RecordFits, SharedFollowsRecord
  <1>3. CASE /\ UNCHANGED <<handler, record, properties, todo>>
             /\ C!RecordComes
    BY <1>1, <1>3 DEF C!RecordComes, RecordFits, SharedFollowsRecord
  <1>4. CASE C!NoWell
    BY <1>1, <1>4 DEF C!NoWell, RecordFits, SharedFollowsRecord
  <1>5. ASSUME NEW r \in ProducerRecord, NEW ws \in SUBSET Well, C!WconproducerRecord(r, ws)
        PROVE  /\ RecordFits' /\ SharedFollowsRecord'
               /\ handler' = "WCONProducer" /\ record' = r /\ r \in C!ProducerRecords
               /\ properties' \in C!ProductionProperties
               /\ todo' \subseteq Well /\ controlRecords' \in Nat
    <2>1. r \in C!ProducerRecords /\ ws \subseteq Well
      BY DEF C!WellControlsConstants
    <2>2. /\ handler' = "WCONProducer" /\ record' = r /\ todo' = ws
          /\ controlRecords' = controlRecords + 1
          /\ properties' = OfRecord(r)
      BY <1>5 DEF C!WconproducerRecord, C!OpenLoop, C!RecordComes, OfRecord
    <2>3. /\ OfRecord(r) \in C!ProductionProperties
          /\ OfRecord(r).prediction = r.prediction
          /\ OfRecord(r).mode = "ORAT"
          /\ "GRUP" \notin OfRecord(r).controls
      BY <2>1, OfRecordType
    <2>4. SharedFollowsRecord'
      BY <2>2, <2>3 DEF SharedFollowsRecord, OfRecord, C!Prediction, C!History
    <2>5. QED
      BY <1>1, <2>1, <2>2, <2>3, <2>4 DEF RecordFits
  <1>6. ASSUME NEW r \in InjectorRecord, NEW ws \in SUBSET Well, C!WconinjeRecord(r, ws)
        PROVE  /\ RecordFits' /\ SharedFollowsRecord'
               /\ handler' = "WCONINJE" /\ record' = r /\ r \in C!InjectorRecords
               /\ properties' = properties /\ todo' \subseteq Well
               /\ controlRecords' \in Nat
    BY <1>1, <1>6 DEF C!WellControlsConstants, C!WconinjeRecord, C!OpenLoop, C!RecordComes,
      RecordFits,
                      SharedFollowsRecord
  <1>7. ASSUME NEW w \in todo, C!ProducerWell(w)
        PROVE  /\ RecordFits' /\ SharedFollowsRecord'
               /\ handler' \in {"none", "WCONProducer"} /\ record' = record
               /\ properties' \in C!ProductionProperties
               /\ todo' \subseteq Well /\ controlRecords' = controlRecords
    <2> DEFINE p == C!ForWell(properties, w, record)
    <2>1. /\ w \in Well /\ handler = "WCONProducer" /\ ~ C!Refuses(p, record)
          /\ properties' = p /\ record' = record /\ controlRecords' = controlRecords
          /\ todo' = todo \ {w} /\ handler' \in {"none", "WCONProducer"}
      BY <1>1, <1>7 DEF C!ProducerWell, C!LoopOn
    <2>2. /\ p \in C!ProductionProperties
          /\ p.prediction = record.prediction
          /\ p.controls \ {"GRUP"} = OfRecord(record).controls
          /\ record.status = "SHUT" => p.mode = "ORAT"
      BY <2>1, ForWellIsAsked
    <2> HIDE DEF p
    <2>3. SharedFollowsRecord'
      BY <2>1, <2>2 DEF SharedFollowsRecord, OfRecord, C!Prediction, C!History
    <2>4. QED
      BY <1>1, <2>1, <2>2, <2>3 DEF RecordFits
  <1>8. ASSUME NEW w \in todo, C!InjectorWell(w)
        PROVE  /\ RecordFits' /\ SharedFollowsRecord'
               /\ handler' \in {"none", "WCONINJE"} /\ record' = record
               /\ properties' = properties /\ todo' \subseteq Well
               /\ controlRecords' = controlRecords
    BY <1>1, <1>8 DEF C!InjectorWell, C!LoopOn, RecordFits, SharedFollowsRecord
  <1>9. \/ UNCHANGED C!handlerVars
        \/ UNCHANGED <<handler, record, properties, todo>> /\ C!RecordComes
        \/ C!NoWell
        \/ \E r \in ProducerRecord, ws \in SUBSET Well : C!WconproducerRecord(r, ws)
        \/ \E r \in InjectorRecord, ws \in SUBSET Well : C!WconinjeRecord(r, ws)
        \/ \E w \in todo : C!ProducerWell(w) \/ C!InjectorWell(w)
    BY DEF C!Next, C!vars, C!handlerVars, C!OtherKeyword, C!RecordRefused, C!WconinjhRecord,
      C!WconinjhRefused,
           C!WelopenRecord, C!WgrupconRecord, C!LoopStep, C!ProducerRefused, C!InjectorRefused
  <1>10. QED
    BY <1>1, <1>2, <1>3, <1>4, <1>5, <1>6, <1>7, <1>8, <1>9

(* What a step of either kind leaves of the types and the sizes.           *)
LEMMA StatesStay ==
  ASSUME WellInv, Passes
  PROVE  C!ClockTypeOK' /\ C!CurrentStepIsLast' /\ C!StatesEndByNow'
  <1>1. currentStep \in Nat /\ timeSteps \in Nat /\ timeSteps \in 1 .. MaxSteps
    BY ControlsNowIsAStep DEF WellInv, C!TypeOK, C!ClockTypeOK
  <1>2. /\ C!ClockTypeOK' /\ C!CurrentStepIsLast' /\ currentStep' >= currentStep
        /\ currentStep' \in Nat
    <2>1. CASE UNCHANGED C!clockVars \/ C!Complete \/ C!Throw
      BY <2>1, <1>1 DEF WellInv, C!TypeOK, C!ClockTypeOK, C!CurrentStepIsLast, C!clockVars,
        C!Complete,
                        C!Throw, C!Phases
    <2>2. CASE \E n \in 1 .. MaxPerKeyword : C!AdvanceTime(n)
      BY <2>2, <1>1, ClockAssumption
      DEF WellInv, C!TypeOK, C!ClockTypeOK, C!CurrentStepIsLast, C!AdvanceTime
    <2>3. QED
      BY <2>1, <2>2 DEF Passes
  <1>3. \A V : \A ds \in C!DynamicStates(V) :
          C!StateSize(ds) <= currentStep + 1 => C!StateSize(ds) <= currentStep' + 1
    BY <1>1, <1>2, C!GetType, ClockAssumption
  <1>4. ASSUME NEW w \in Well
        PROVE  /\ C!EndsByNow(status[w])' /\ C!EndsByNow(available[w])'
               /\ C!EndsByNow(isProducer[w])' /\ C!EndsByNow(production[w])'
               /\ C!EndsByNow(injection[w])'
    <2>1. /\ C!EndsByNow(status[w]) /\ C!EndsByNow(available[w]) /\ C!EndsByNow(isProducer[w])
          /\ C!EndsByNow(production[w]) /\ C!EndsByNow(injection[w])
      BY DEF WellInv, C!StatesEndByNow
    <2>2. /\ status[w] \in C!DynamicStates(C!Status) /\ available[w] \in C!DynamicStates(BOOLEAN)
          /\ isProducer[w] \in C!DynamicStates(BOOLEAN)
          /\ production[w] \in C!DynamicStates(C!ProductionProperties)
          /\ injection[w] \in C!DynamicStates(C!InjectionProperties)
      BY DEF WellInv, C!TypeOK
    <2>3. /\ status'[w] = status[w] /\ available'[w] = available[w]
          /\ isProducer'[w] = isProducer[w] /\ production'[w] = production[w]
          /\ injection'[w] = injection[w]
      BY DEF Passes, C!wellVars
    <2>4. QED
      BY <1>3, <2>1, <2>2, <2>3 DEF C!EndsByNow
  <1>5. QED
    BY <1>2, <1>4 DEF C!StatesEndByNow

LEMMA WrittenEffect ==
  ASSUME WellInv, NEW V, NEW f \in [Well -> C!DynamicStates(V)],
         \A v \in Well : C!EndsByNow(f[v]), NEW w \in Well, NEW x \in V,
         NEW g, Written(f, g, w, x)
  PROVE  /\ g \in [Well -> C!DynamicStates(V)]
         /\ \A v \in Well : C!EndsByNow(g[v])
         /\ \A v \in Well, t \in C!Step : t < currentStep => C!Get(g[v], t) = C!Get(f[v], t)
         /\ \A v \in Well, t \in C!Step :
              C!Get(g[v], t) = C!Get(f[v], t) \/ (v = w /\ C!Get(g[v], t) = x)
  <1>1. CASE g = f
    BY <1>1
  <1>2. CASE g = C!SetNow(f, w, x)
    <2>1. currentStep \in Nat /\ C!Step \subseteq Nat
      BY ControlsNowIsAStep
    <2>2. \A v \in Well, t \in C!Step :
            C!Get(g[v], t) = IF v = w /\ t >= currentStep THEN x ELSE C!Get(f[v], t)
      BY <1>2, SetWellNowEffect
    <2>3. g \in [Well -> C!DynamicStates(V)] /\ \A v \in Well : C!EndsByNow(g[v])
      BY <1>2, SetWellNowEffect
    <2>4. QED
      BY <2>1, <2>2, <2>3
  <1>3. QED
    BY <1>1, <1>2 DEF Written

(* The facts about the states of the wells that the steps work with.       *)
LEMMA StatesHaveTypes ==
  ASSUME WellInv
  PROVE  /\ status \in [Well -> C!DynamicStates(C!Status)]
         /\ available \in [Well -> C!DynamicStates(BOOLEAN)]
         /\ isProducer \in [Well -> C!DynamicStates(BOOLEAN)]
         /\ production \in [Well -> C!DynamicStates(C!ProductionProperties)]
         /\ injection \in [Well -> C!DynamicStates(C!InjectionProperties)]
         /\ \A v \in Well : /\ C!EndsByNow(status[v]) /\ C!EndsByNow(available[v])
                            /\ C!EndsByNow(isProducer[v]) /\ C!EndsByNow(production[v])
                            /\ C!EndsByNow(injection[v])
  BY DEF WellInv, C!TypeOK, C!StatesEndByNow

(* The same of Writes: types, sizes, the past, and what the new values are. *)
LEMMA WritesEffect ==
  ASSUME WellInv, NEW w \in Well, NEW st \in C!Status, NEW av \in BOOLEAN, NEW role \in BOOLEAN,
         NEW p \in C!ProductionProperties, NEW q \in C!InjectionProperties,
         Writes(w, st, av, role, p, q)
  PROVE  /\ status' \in [Well -> C!DynamicStates(C!Status)]
         /\ available' \in [Well -> C!DynamicStates(BOOLEAN)]
         /\ isProducer' \in [Well -> C!DynamicStates(BOOLEAN)]
         /\ production' \in [Well -> C!DynamicStates(C!ProductionProperties)]
         /\ injection' \in [Well -> C!DynamicStates(C!InjectionProperties)]
         /\ C!ClockTypeOK' /\ C!CurrentStepIsLast' /\ C!StatesEndByNow'
         /\ \A v \in Well, t \in C!Step : t < currentStep =>
              /\ C!Get(status'[v], t) = C!Get(status[v], t)
              /\ C!Get(available'[v], t) = C!Get(available[v], t)
              /\ C!Get(isProducer'[v], t) = C!Get(isProducer[v], t)
              /\ C!Get(production'[v], t) = C!Get(production[v], t)
              /\ C!Get(injection'[v], t) = C!Get(injection[v], t)
         /\ \A v \in Well, t \in C!Step :
              C!Get(production'[v], t) = C!Get(production[v], t)
                \/ (C!Get(production'[v], t) = p /\ production' # production)
         /\ \A v \in Well, t \in C!Step :
              C!Get(injection'[v], t) = C!Get(injection[v], t)
                \/ (v = w /\ C!Get(injection'[v], t) = q /\ injection' # injection)
  <1>1. /\ Written(status, status', w, st) /\ Written(available, available', w, av)
        /\ Written(isProducer, isProducer', w, role)
        /\ Written(production, production', w, p) /\ Written(injection, injection', w, q)
        /\ timeSteps' = timeSteps /\ currentStep' = currentStep /\ phase' \in C!Phases
    BY DEF Writes, Written
  <1>2. /\ status' \in [Well -> C!DynamicStates(C!Status)]
        /\ \A v \in Well : C!EndsByNow(status'[v])
        /\ \A v \in Well, t \in C!Step :
             t < currentStep => C!Get(status'[v], t) = C!Get(status[v], t)
    BY <1>1, StatesHaveTypes, WrittenEffect
  <1>3. /\ available' \in [Well -> C!DynamicStates(BOOLEAN)]
        /\ \A v \in Well : C!EndsByNow(available'[v])
        /\ \A v \in Well, t \in C!Step :
             t < currentStep => C!Get(available'[v], t) = C!Get(available[v], t)
    BY <1>1, StatesHaveTypes, WrittenEffect
  <1>4. /\ isProducer' \in [Well -> C!DynamicStates(BOOLEAN)]
        /\ \A v \in Well : C!EndsByNow(isProducer'[v])
        /\ \A v \in Well, t \in C!Step :
             t < currentStep => C!Get(isProducer'[v], t) = C!Get(isProducer[v], t)
    BY <1>1, StatesHaveTypes, WrittenEffect
  <1>5. /\ production' \in [Well -> C!DynamicStates(C!ProductionProperties)]
        /\ \A v \in Well : C!EndsByNow(production'[v])
        /\ \A v \in Well, t \in C!Step :
             t < currentStep => C!Get(production'[v], t) = C!Get(production[v], t)
        /\ \A v \in Well, t \in C!Step :
             C!Get(production'[v], t) = C!Get(production[v], t)
               \/ (v = w /\ C!Get(production'[v], t) = p)
    BY <1>1, StatesHaveTypes, WrittenEffect
  <1>6. /\ injection' \in [Well -> C!DynamicStates(C!InjectionProperties)]
        /\ \A v \in Well : C!EndsByNow(injection'[v])
        /\ \A v \in Well, t \in C!Step :
             t < currentStep => C!Get(injection'[v], t) = C!Get(injection[v], t)
        /\ \A v \in Well, t \in C!Step :
             C!Get(injection'[v], t) = C!Get(injection[v], t)
               \/ (v = w /\ C!Get(injection'[v], t) = q)
    BY <1>1, StatesHaveTypes, WrittenEffect
  <1>7. C!ClockTypeOK' /\ C!CurrentStepIsLast'
    BY <1>1 DEF WellInv, C!TypeOK, C!ClockTypeOK, C!CurrentStepIsLast
  <1>8. C!StatesEndByNow'
    BY <1>1, <1>2, <1>3, <1>4, <1>5, <1>6 DEF C!StatesEndByNow, C!EndsByNow
  <1>9. QED
    BY <1>2, <1>3, <1>4, <1>5, <1>6, <1>7, <1>8

LEMMA WellInit == C!Init => WellInv
  <1> SUFFICES ASSUME C!Init PROVE WellInv
    OBVIOUS
  <1>1. /\ "OPEN" \in C!Status /\ C!DefaultProduction \in C!ProductionProperties
        /\ C!DefaultInjection \in C!InjectionProperties
        /\ C!NoRecord \in C!ProducerRecords
    BY DEF C!Status, C!DefaultProduction, C!DefaultInjection, C!ProductionProperties,
      C!InjectionProperties,
           C!ProducerMode, C!InjectorMode, C!NoRecord, C!ProducerRecords
  <1>2. /\ C!NewState("OPEN") \in C!DynamicStates(C!Status) /\ C!StateSize(C!NewState("OPEN")) = 0
        /\ C!NewState(TRUE) \in C!DynamicStates(BOOLEAN) /\ C!StateSize(C!NewState(TRUE)) = 0
        /\ C!NewState(C!DefaultProduction) \in C!DynamicStates(C!ProductionProperties)
        /\ C!StateSize(C!NewState(C!DefaultProduction)) = 0
        /\ C!NewState(C!DefaultInjection) \in C!DynamicStates(C!InjectionProperties)
        /\ C!StateSize(C!NewState(C!DefaultInjection)) = 0
    BY <1>1, C!NewStateType, ClockAssumption
  <1>3. C!ClockTypeOK /\ C!CurrentStepIsLast /\ currentStep = 0
    BY ClockAssumption DEF C!Init, C!ClockInit, C!ClockTypeOK, C!Phases, C!CurrentStepIsLast
  <1>4. C!TypeOK
    BY <1>1, <1>2, <1>3 DEF C!Init, C!TypeOK
  <1>5. C!StatesEndByNow
    <2>1. \A w \in Well : /\ C!StateSize(status[w]) = 0 /\ C!StateSize(available[w]) = 0
                         /\ C!StateSize(isProducer[w]) = 0 /\ C!StateSize(production[w]) = 0
                         /\ C!StateSize(injection[w]) = 0
      BY <1>2 DEF C!Init
    <2>2. QED
      BY <2>1, <1>3 DEF C!StatesEndByNow, C!EndsByNow, C!CacheAgrees
  <1>6. RecordFits /\ SharedFollowsRecord
    BY DEF C!Init, RecordFits, SharedFollowsRecord
  <1>7. QED
    BY <1>3, <1>4, <1>5, <1>6 DEF WellInv

LEMMA WellStep ==
  ASSUME C!WellControlsConstants, WellInv, [C!Next]_C!vars
  PROVE  WellInv'
  <1>1. /\ RecordFits' /\ SharedFollowsRecord'
        /\ handler' \in {"none", "WCONProducer", "WCONINJE"}
        /\ record' \in C!ProducerRecords \union C!InjectorRecords
        /\ properties' \in C!ProductionProperties
        /\ todo' \subseteq Well /\ controlRecords' \in Nat
    BY LoopFollows
  <1>2. CASE Passes
    <2>1. C!ClockTypeOK' /\ C!CurrentStepIsLast' /\ C!StatesEndByNow'
      BY <1>2, StatesStay
    <2>2. UNCHANGED C!wellVars
      BY <1>2 DEF Passes
    <2>3. QED
      BY <1>1, <2>1, <2>2, StatesHaveTypes DEF WellInv, C!TypeOK, C!wellVars
  <1>3. CASE ~ Passes
    <2>1. PICK w \in Well, st \in C!Status, av \in BOOLEAN, role \in BOOLEAN,
               p \in C!ProductionProperties, q \in C!InjectionProperties :
            Writes(w, st, av, role, p, q)
      BY <1>3, StepWrites
    <2>2. QED
      BY <1>1, <2>1, WritesEffect DEF WellInv, C!TypeOK
  <1>4. QED
    BY <1>2, <1>3

LEMMA WellInvariant ==
  ASSUME C!WellControlsConstants
  PROVE  C!Spec => []WellInv
  BY WellInit, WellStep, PTL DEF C!Spec

(* No handler can be stopped by a dynamic state that does not take the     *)
(* current step (DynamicState.hpp:71-77).                                  *)
WellStatesTakeIt ==
  \A w \in Well :
    /\ C!CanAdd(status[w], currentStep, timeSteps)
    /\ C!CanAdd(available[w], currentStep, timeSteps)
    /\ C!CanAdd(isProducer[w], currentStep, timeSteps)
    /\ C!CanAdd(production[w], currentStep, timeSteps)
    /\ C!CanAdd(injection[w], currentStep, timeSteps)

THEOREM WellStatesTakeNow ==
  ASSUME C!WellControlsConstants
  PROVE  C!Spec => [](C!TypeOK /\ WellStatesTakeIt)
  <1>1. ASSUME WellInv
        PROVE  C!TypeOK /\ WellStatesTakeIt
    <2>1. currentStep \in Nat /\ timeSteps \in Nat /\ currentStep = timeSteps - 1
      BY <1>1, ControlsNowIsAStep DEF WellInv, C!CurrentStepIsLast
    <2>2. ASSUME NEW V, NEW ds \in C!DynamicStates(V), C!EndsByNow(ds)
          PROVE  C!CanAdd(ds, currentStep, timeSteps)
      BY <2>1, <2>2, C!NotThePast, ClockAssumption DEF C!EndsByNow, C!CanAdd, C!OutOfRange
    <2>3. QED
      BY <1>1, <2>2, StatesHaveTypes DEF WellInv, WellStatesTakeIt
  <1>2. QED
    BY <1>1, WellInvariant, PTL

(* The mode a well is to produce by is one of the controls it has, but for *)
(* the default of a prediction that has none.                              *)
THEOREM ProductionModes ==
  ASSUME C!WellControlsConstants
  PROVE  C!Spec => []C!ProductionModeAvailable
  <1>1. C!Init => C!ProductionModeAvailable
    <2> SUFFICES ASSUME C!Init, NEW w \in Well, NEW t \in C!Step
                 PROVE  C!Get(production[w], t) = C!DefaultProduction
      BY DEF C!ProductionModeAvailable, C!DefaultProduction
    <2>1. t \in Nat /\ C!DefaultProduction \in C!ProductionProperties
      BY ClockAssumption DEF C!Step, C!DefaultProduction, C!ProductionProperties, C!ProducerMode
    <2>2. QED
      BY <2>1, C!NewStateType, ClockAssumption DEF C!Init
  <1>2. ASSUME WellInv, C!ProductionModeAvailable, [C!Next]_C!vars
        PROVE  C!ProductionModeAvailable'
    <2>1. CASE Passes
      BY <1>2, <2>1 DEF Passes, C!wellVars, C!ProductionModeAvailable
    <2>2. CASE ~ Passes
      <3>1. PICK w \in Well, st \in C!Status, av \in BOOLEAN, role \in BOOLEAN,
                 p \in C!ProductionProperties, q \in C!InjectionProperties :
              Writes(w, st, av, role, p, q)
        BY <1>2, <2>2, StepWrites
      <3>2. production' # production =>
              p.mode \in p.controls \/ (p.mode = "ORAT" /\ p.prediction)
        BY <3>1 DEF Writes
      <3>3. \A v \in Well, t \in C!Step :
              C!Get(production'[v], t) = C!Get(production[v], t)
                \/ (C!Get(production'[v], t) = p /\ production' # production)
        BY <1>2, <3>1, WritesEffect
      <3>4. QED
        BY <1>2, <3>2, <3>3 DEF C!ProductionModeAvailable
    <2>3. QED
      BY <2>1, <2>2
  <1>3. QED
    BY <1>1, <1>2, WellInvariant, PTL DEF C!Spec

(* The same of injectors, whose records build on one another.              *)
THEOREM InjectionModes ==
  ASSUME C!WellControlsConstants
  PROVE  C!Spec => []C!InjectionModeAvailable
  <1>1. C!Init => C!InjectionModeAvailable
    <2> SUFFICES ASSUME C!Init, NEW w \in Well, NEW t \in C!Step
                 PROVE  C!Get(injection[w], t) = C!DefaultInjection
      BY DEF C!InjectionModeAvailable, C!DefaultInjection
    <2>1. t \in Nat /\ C!DefaultInjection \in C!InjectionProperties
      BY ClockAssumption DEF C!Step, C!DefaultInjection, C!InjectionProperties, C!InjectorMode
    <2>2. QED
      BY <2>1, C!NewStateType, ClockAssumption DEF C!Init
  <1>2. ASSUME WellInv, C!InjectionModeAvailable, [C!Next]_C!vars
        PROVE  C!InjectionModeAvailable'
    <2>1. CASE Passes
      BY <1>2, <2>1 DEF Passes, C!wellVars, C!InjectionModeAvailable
    <2>2. CASE ~ Passes
      <3>1. PICK w \in Well, st \in C!Status, av \in BOOLEAN, role \in BOOLEAN,
                 p \in C!ProductionProperties, q \in C!InjectionProperties :
              Writes(w, st, av, role, p, q)
        BY <1>2, <2>2, StepWrites
      <3>2. injection' # injection => q.mode \in q.controls \/ q.controls = {}
        BY <1>2, <3>1 DEF Writes, C!InjectionModeAvailable
      <3>3. \A v \in Well, t \in C!Step :
              C!Get(injection'[v], t) = C!Get(injection[v], t)
                \/ (v = w /\ C!Get(injection'[v], t) = q /\ injection' # injection)
        BY <1>2, <3>1, WritesEffect
      <3>4. QED
        BY <1>2, <3>2, <3>3 DEF C!InjectionModeAvailable
    <2>3. QED
      BY <2>1, <2>2
  <1>3. QED
    BY <1>1, <1>2, WellInvariant, PTL DEF C!Spec

(* A record for many wells says of each what it would say of that one      *)
(* alone.                                                                  *)
THEOREM EachWellAlone ==
  ASSUME C!WellControlsConstants
  PROVE  C!Spec => C!EachWellAsIfAlone
  <1>1. ASSUME WellInv, [C!Next]_C!vars
        PROVE  [\A w \in Well : handler = "WCONProducer" /\ production'[w] # production[w] =>
                  C!Get(production'[w], currentStep) = C!Asked(record, C!Now(available[w]))]_C!vars
    <2>1. SUFFICES ASSUME NEW v \in Well, handler = "WCONProducer",
                          production'[v] # production[v]
                   PROVE  C!Get(production'[v], currentStep) = C!Asked(record, C!Now(available[v]))
      OBVIOUS
    <2>2. PICK w \in Well, st \in C!Status, av \in BOOLEAN, role \in BOOLEAN,
               p \in C!ProductionProperties, q \in C!InjectionProperties :
            Writes(w, st, av, role, p, q)
      BY <1>1, <2>1, StepWrites DEF Passes, C!wellVars
    <2>3. production' = C!SetNow(production, w, p) /\ p = C!Asked(record, C!Now(available[w]))
      BY <2>1, <2>2 DEF Writes
    <2>4. v = w
      BY <2>1, <2>3 DEF C!SetNow
    <2>5. currentStep \in C!Step /\ currentStep >= currentStep
      BY <1>1, ControlsNowIsAStep
    <2>6. C!Get(production'[w], currentStep) = p
      BY <1>1, <2>3, <2>5, SetWellNowEffect, StatesHaveTypes
    <2>7. QED
      BY <2>3, <2>4, <2>6
  <1>2. QED
    BY <1>1, WellInvariant, PTL DEF C!Spec, C!EachWellAsIfAlone

(* No record changes how a well is run before the current step.            *)
THEOREM WellsKeepTheirPast ==
  ASSUME C!WellControlsConstants
  PROVE  C!Spec => C!PastIsFrozen
  <1>1. ASSUME WellInv, [C!Next]_C!vars
        PROVE  [\A w \in Well, t \in C!Step : t < currentStep =>
                  /\ C!Get(status'[w], t) = C!Get(status[w], t)
                  /\ C!Get(available'[w], t) = C!Get(available[w], t)
                  /\ C!Get(isProducer'[w], t) = C!Get(isProducer[w], t)
                  /\ C!Get(production'[w], t) = C!Get(production[w], t)
                  /\ C!Get(injection'[w], t) = C!Get(injection[w], t)]_C!vars
    <2>1. CASE Passes
      BY <2>1 DEF Passes, C!wellVars
    <2>2. CASE ~ Passes
      <3>1. PICK w \in Well, st \in C!Status, av \in BOOLEAN, role \in BOOLEAN,
                 p \in C!ProductionProperties, q \in C!InjectionProperties :
              Writes(w, st, av, role, p, q)
        BY <1>1, <2>2, StepWrites
      <3>2. QED
        BY <1>1, <3>1, WritesEffect
    <2>3. QED
      BY <2>1, <2>2
  <1>2. QED
    BY <1>1, WellInvariant, PTL DEF C!Spec, C!PastIsFrozen
-----------------------------------------------------------------------------
(* The instance has records of the types the handlers expect. *)
LEMMA WellControlsFit == C!WellControlsConstants
  BY ScheduleAssumption

(* Whatever keywords come in between, the mode a well is to produce by is  *)
(* one of its controls, for the wells there are when each record comes     *)
(* (Schedule.cpp:197-213 and :341).                                        *)
THEOREM ScheduleProductionModes == Spec => []ProductionModeAvailable
  <1>1. C!Spec => []C!ProductionModeAvailable
    BY ProductionModes, WellControlsFit
  <1>2. QED
    BY <1>1, PartsAreImplemented, PTL DEF ImplementsParts, ProductionModeAvailable

(* The same for the mode of injection (Schedule.cpp:242-292, :311-323).    *)
THEOREM ScheduleInjectionModes == Spec => []InjectionModeAvailable
  <1>1. C!Spec => []C!InjectionModeAvailable
    BY InjectionModes, WellControlsFit
  <1>2. QED
    BY <1>1, PartsAreImplemented, PTL DEF ImplementsParts, InjectionModeAvailable

(* COMPDAT leaves what its last records said, whatever other keywords come *)
(* between two of them (Completion.cpp:98-120, CompletionSet.cpp:42-56).   *)
THEOREM ScheduleLastRecords == Spec => []LastRecordWins
  BY PartsAreImplemented, TheLastRecordWins, PTL DEF ImplementsParts, LastRecordWins

(* A record for the wells that a name selects says of each what it would   *)
(* say of that one alone (Schedule.cpp:181-216).                           *)
THEOREM ScheduleWellsAlone == Spec => EachWellAsIfAlone
  <1>1. C!Spec => C!EachWellAsIfAlone
    BY EachWellAlone, WellControlsFit
  <1>2. QED
    BY <1>1, PartsAreImplemented, PTL DEF ImplementsParts, EachWellAsIfAlone

(* The phase a group injects at a step never changes once a record has set *)
(* it (Group.cpp:124-150), also of a group that GRUPTREE or WELSPECS made. *)
THEOREM SchedulePhases == Spec => PhaseIsSetOnce
  BY PartsAreImplemented, PhaseStaysSet, PTL DEF ImplementsParts, PhaseIsSetOnce

(* A completion keeps its index in the set of its well.                    *)
THEOREM SchedulePlaces == Spec => PlacesAreKept
  BY PartsAreImplemented, PlacesStay, PTL DEF ImplementsParts, PlacesAreKept
-----------------------------------------------------------------------------
(* The dynamic states of one kind take the current step. *)
EndByNow(f, names, V) ==
  /\ f \in [names -> DynamicStates(V)]
  /\ \A n \in names : StateSize(f[n]) <= currentStep + 1

SettledByNow ==
  /\ currentStep \in Nat /\ Step \subseteq Nat
  /\ EndByNow(status, Well, C!Status)
  /\ EndByNow(available, Well, BOOLEAN)
  /\ EndByNow(isProducer, Well, BOOLEAN)
  /\ EndByNow(production, Well, C!ProductionProperties)
  /\ EndByNow(injection, Well, C!InjectionProperties)
  /\ EndByNow(completions, Well, Seq(D!Completion))
  /\ EndByNow(groupInjection, Group, G!InjectionData)
  /\ EndByNow(groupProduction, Group, G!ProductionData)
  /\ EndByNow(isProductionGroup, Group, BOOLEAN)

(* The handlers that are in the middle of a keyword work on wells that are *)
(* there.                                                                  *)
HandlersFindTheirWells == todo \subseteq wells /\ (well # NotAWell => well \in wells)

(* What is there was made by now. *)
MadeByNow ==
  /\ \A w \in wells : wellSince[w] \in Nat /\ wellSince[w] <= currentStep
  /\ \A g \in groups : groupSince[g] \in Nat /\ groupSince[g] <= currentStep

BeforeInv == HandlersFindTheirWells /\ MadeByNow /\ NothingBeforeItIsThere

(* What a step may do to the dynamic states f of a kind, which are g after *)
(* it: those of what is not there stay, the others keep their past.        *)
Keeps(f, g, names, there) ==
  \A n \in names :
    IF n \in there THEN \A t \in Step : t < currentStep => Get(g[n], t) = Get(f[n], t)
                   ELSE g[n] = f[n]

AllKeep ==
  /\ Keeps(status, status', Well, wells)
  /\ Keeps(available, available', Well, wells)
  /\ Keeps(isProducer, isProducer', Well, wells)
  /\ Keeps(production, production', Well, wells)
  /\ Keeps(injection, injection', Well, wells)
  /\ Keeps(completions, completions', Well, wells)
  /\ Keeps(groupInjection, groupInjection', Group, groups)
  /\ Keeps(groupProduction, groupProduction', Group, groups)
  /\ Keeps(isProductionGroup, isProductionGroup', Group, groups)

(* What the invariants of the parts say of the dynamic states. *)
LEMMA SettledStates ==
  ASSUME WellInv, GroupInv, CompletionsInv
  PROVE  SettledByNow
  <1>1. currentStep \in Nat /\ Step \subseteq Nat
    BY ClockAssumption DEF WellInv, C!TypeOK, C!ClockTypeOK, Step
  <1>2. /\ EndByNow(status, Well, C!Status)
        /\ EndByNow(available, Well, BOOLEAN)
        /\ EndByNow(isProducer, Well, BOOLEAN)
        /\ EndByNow(production, Well, C!ProductionProperties)
        /\ EndByNow(injection, Well, C!InjectionProperties)
    BY DEF WellInv, C!TypeOK, C!StatesEndByNow, C!EndsByNow, EndByNow, C!StateSize, StateSize,
      C!DynamicStates, DynamicStates
  <1>3. EndByNow(completions, Well, Seq(D!Completion))
    BY DEF CompletionsInv, D!TypeOK, SetEndsByNow, EndByNow, D!StateSize, StateSize,
      D!DynamicStates, DynamicStates
  <1>4. /\ EndByNow(groupInjection, Group, G!InjectionData)
        /\ EndByNow(groupProduction, Group, G!ProductionData)
        /\ EndByNow(isProductionGroup, Group, BOOLEAN)
    BY DEF GroupInv, G!TypeOK, G!StatesEndByNow, G!EndsByNow, EndByNow, G!StateSize, StateSize,
      G!DynamicStates, DynamicStates
  <1>5. QED
    BY <1>1, <1>2, <1>3, <1>4 DEF SettledByNow

(* Setting a value from now on keeps the past, and the states of others.   *)
LEMMA SettingKeeps ==
  ASSUME currentStep \in Nat, Step \subseteq Nat, NEW names, NEW V, NEW f, EndByNow(f, names, V),
         NEW there, NEW n \in there, NEW v
  PROVE  Keeps(f, [f EXCEPT ![n] = Add(f[n], currentStep, v)], names, there)
  <1> DEFINE g == [f EXCEPT ![n] = Add(f[n], currentStep, v)]
  <1>1. SUFFICES ASSUME NEW m \in names, NEW t \in Step, t < currentStep, m = n
                 PROVE  Get(g[m], t) = Get(f[m], t)
    BY DEF Keeps, EndByNow
  <1>2. f[n] \in DynamicStates(V \union {v}) /\ StateSize(f[n]) <= currentStep + 1
    BY <1>1 DEF EndByNow, DynamicStates
  <1>3. Get(Add(f[n], currentStep, v), t) = Get(f[n], t)
    BY <1>1, <1>2, NotThePast, GetAdd
  <1>4. QED
    BY <1>1, <1>3 DEF EndByNow

LEMMA StayingKeeps == \A f, names, there : Keeps(f, f, names, there)
  BY DEF Keeps

(* add() is the same in every part. *)
LEMMA SameAdd ==
  ASSUME NEW ds, NEW v
  PROVE  /\ C!Add(ds, currentStep, v) = Add(ds, currentStep, v)
         /\ G!Add(ds, currentStep, v) = Add(ds, currentStep, v)
         /\ D!Add(ds, currentStep, v) = Add(ds, currentStep, v)
  BY DEF Add, C!Add, G!Add, D!Add, PaddedSize, C!PaddedSize, G!PaddedSize, D!PaddedSize,
    Get, C!Get, G!Get, D!Get, StateSize, C!StateSize, G!StateSize, D!StateSize

LEMMA SetNowKeeps ==
  ASSUME currentStep \in Nat, Step \subseteq Nat, NEW names, NEW V, NEW f, EndByNow(f, names, V),
         NEW there, NEW n \in there, NEW v
  PROVE  Keeps(f, C!SetNow(f, n, v), names, there) /\ Keeps(f, G!SetNow(f, n, v), names, there)
  <1>1. /\ C!SetNow(f, n, v) = [f EXCEPT ![n] = Add(f[n], currentStep, v)]
        /\ G!SetNow(f, n, v) = [f EXCEPT ![n] = Add(f[n], currentStep, v)]
    BY SameAdd DEF C!SetNow, G!SetNow
  <1>2. Keeps(f, [f EXCEPT ![n] = Add(f[n], currentStep, v)], names, there)
    BY SettingKeeps
  <1>3. QED
    BY <1>1, <1>2

(* The handlers of the controls of wells set no state of a well that is    *)
(* not there, and none before now.                                         *)
LEMMA ControlsKeep ==
  ASSUME SettledByNow, HandlersFindTheirWells, WellControlsStep
  PROVE  /\ Keeps(status, status', Well, wells)
         /\ Keeps(available, available', Well, wells)
         /\ Keeps(isProducer, isProducer', Well, wells)
         /\ Keeps(production, production', Well, wells)
         /\ Keeps(injection, injection', Well, wells)
         /\ todo' \subseteq wells
  <1>1. /\ currentStep \in Nat /\ Step \subseteq Nat
        /\ EndByNow(status, Well, C!Status) /\ EndByNow(available, Well, BOOLEAN)
        /\ EndByNow(isProducer, Well, BOOLEAN)
        /\ EndByNow(production, Well, C!ProductionProperties)
        /\ EndByNow(injection, Well, C!InjectionProperties)
    BY DEF SettledByNow
  <1>2. /\ \A v : \A n \in wells : Keeps(status, C!SetNow(status, n, v), Well, wells)
        /\ \A v : \A n \in wells : Keeps(available, C!SetNow(available, n, v), Well, wells)
        /\ \A v : \A n \in wells : Keeps(isProducer, C!SetNow(isProducer, n, v), Well, wells)
        /\ \A v : \A n \in wells : Keeps(production, C!SetNow(production, n, v), Well, wells)
        /\ \A v : \A n \in wells : Keeps(injection, C!SetNow(injection, n, v), Well, wells)
        /\ \A f : Keeps(f, f, Well, wells)
    BY <1>1, SetNowKeeps, StayingKeeps
  <1>3. todo \subseteq wells
    BY DEF HandlersFindTheirWells
  <1> HIDE DEF HandlersFindTheirWells
  <1>4. ASSUME NEW r, NEW names,
               C!WconproducerRecord(r, Selected(names)) \/ C!WconinjeRecord(r, Selected(names))
        PROVE  /\ UNCHANGED <<status, available, isProducer, production, injection>>
               /\ todo' \subseteq wells
    BY <1>4 DEF C!WconproducerRecord, C!WconinjeRecord, C!OpenLoop, C!wellVars, Selected
  <1>5. ASSUME NEW r, NEW w \in wells, C!WconinjhRecord(w, r) \/ C!WconinjhRefused(w, r)
        PROVE  /\ UNCHANGED <<available, production, todo>>
               /\ status' \in {status, C!SetNow(status, w, r.status)}
               /\ isProducer' \in {isProducer, C!SetNow(isProducer, w, FALSE)}
               /\ injection' \in {injection, C!SetNow(injection, w,
                                C!HistoricInjection(C!Now(injection[w]), r))}
    BY <1>5 DEF C!WconinjhRecord, C!WconinjhRefused, C!SetInjectionProperties
  <1>6. ASSUME NEW w \in wells, NEW s, C!WelopenRecord(w, s)
        PROVE  /\ UNCHANGED <<available, isProducer, production, injection, todo>>
               /\ status' = C!SetNow(status, w, s)
    BY <1>6 DEF C!WelopenRecord
  <1>7. ASSUME NEW w \in wells, NEW yes, C!WgrupconRecord(w, yes)
        PROVE  /\ UNCHANGED <<status, isProducer, production, injection, todo>>
               /\ available' = C!SetNow(available, w, yes)
    BY <1>7 DEF C!WgrupconRecord
  <1>8. ASSUME NEW w \in todo, C!ProducerWell(w) \/ C!ProducerRefused(w)
        PROVE  /\ UNCHANGED <<available, injection>> /\ todo' \subseteq todo
               /\ status' \in {status, C!SetNow(status, w, record.status)}
               /\ isProducer' \in {isProducer, C!SetNow(isProducer, w, TRUE)}
               /\ production' \in {production, C!SetNow(production, w,
                                 C!ForWell(properties, w, record))}
    BY <1>8 DEF C!ProducerWell, C!ProducerRefused, C!SetProductionProperties, C!LoopOn, C!wellVars,
      C!handlerVars
  <1>9. ASSUME NEW w \in todo, C!InjectorWell(w) \/ C!InjectorRefused(w)
        PROVE  /\ UNCHANGED <<available, production>> /\ todo' \subseteq todo
               /\ status' \in {status, C!SetNow(status, w, record.status)}
               /\ isProducer' \in {isProducer, C!SetNow(isProducer, w, FALSE)}
               /\ injection' \in {injection, C!SetNow(injection, w,
                    [prediction |-> TRUE, multi |-> record.multi,
                     controls |-> C!InjectorControls(w, record), mode |-> record.cmode])}
    BY <1>9 DEF C!InjectorWell, C!InjectorRefused, C!SetInjectionProperties, C!LoopOn, C!handlerVars
  <1>10. C!NoWell => UNCHANGED <<status, available, isProducer, production, injection, todo>>
    BY DEF C!NoWell, C!wellVars
  <1>11. CASE \E r \in ProducerRecord \union InjectorRecord, names \in Pattern :
                C!WconproducerRecord(r, Selected(names)) \/ C!WconinjeRecord(r, Selected(names))
    BY <1>2, <1>4, <1>11
  <1>12. CASE \E r \in InjectorRecord, w \in wells :
                C!WconinjhRecord(w, r) \/ C!WconinjhRefused(w, r)
    BY <1>2, <1>3, <1>5, <1>12
  <1>13. CASE \E w \in wells, s \in C!Status : C!WelopenRecord(w, s)
    BY <1>2, <1>3, <1>6, <1>13
  <1>14. CASE \E w \in wells, yes \in BOOLEAN : C!WgrupconRecord(w, yes)
    BY <1>2, <1>3, <1>7, <1>14
  <1>15. CASE \E w \in todo : C!ProducerWell(w) \/ C!ProducerRefused(w)
    BY <1>2, <1>3, <1>8, <1>15
  <1>16. CASE \E w \in todo : C!InjectorWell(w) \/ C!InjectorRefused(w)
    BY <1>2, <1>3, <1>9, <1>16
  <1>17. CASE C!NoWell
    BY <1>2, <1>3, <1>10, <1>17
  <1>18. QED
    BY <1>11, <1>12, <1>13, <1>14, <1>15, <1>16, <1>17 DEF WellControlsStep, C!LoopStep

(* Nor do those of the groups, nor COMPDAT. *)
LEMMA GroupsKeep ==
  ASSUME SettledByNow, GroupControlsStep
  PROVE  /\ Keeps(groupInjection, groupInjection', Group, groups)
         /\ Keeps(groupProduction, groupProduction', Group, groups)
         /\ Keeps(isProductionGroup, isProductionGroup', Group, groups)
  <1>1. /\ \A v : \A n \in groups :
             /\ Keeps(groupInjection, G!SetNow(groupInjection, n, v), Group, groups)
             /\ Keeps(groupProduction, G!SetNow(groupProduction, n, v), Group, groups)
             /\ Keeps(isProductionGroup, G!SetNow(isProductionGroup, n, v), Group, groups)
        /\ \A f : Keeps(f, f, Group, groups)
    BY SetNowKeeps, StayingKeeps DEF SettledByNow
  <1>2. CASE \E g \in groups, data \in GroupInjectionRecord : G!GconinjeRecord(g, data)
    BY <1>1, <1>2 DEF G!GconinjeRecord
  <1>3. CASE \E g \in groups, ph \in G!Phase : G!GconinjeRefused(g, ph)
    BY <1>1, <1>3 DEF G!GconinjeRefused, G!groupVars
  <1>4. CASE \E g \in groups, data \in GroupProductionRecord : G!GconprodRecord(g, data)
    BY <1>1, <1>4 DEF G!GconprodRecord
  <1>5. QED
    BY <1>2, <1>3, <1>4 DEF GroupControlsStep

LEMMA DrilledKeep ==
  ASSUME SettledByNow, HandlersFindTheirWells, CompletionsStep
  PROVE  /\ Keeps(completions, completions', Well, wells)
         /\ well' # NotAWell => well' \in wells
  <1> DEFINE Setting(n, v) == [completions EXCEPT ![n] = Add(completions[n], currentStep, v)]
  <1>1. /\ \A v : \A n \in wells : Keeps(completions, Setting(n, v), Well, wells)
        /\ Keeps(completions, completions, Well, wells)
        /\ (well # NotAWell => well \in wells)
    BY SettingKeeps, StayingKeeps DEF SettledByNow, HandlersFindTheirWells
  <1>2. CASE D!WellDone
    <2>1. /\ well \in wells /\ well' = NotAWell
          /\ completions' = Setting(well, newSet)
      <3>1. D!Add(completions[well], currentStep, newSet)
              = Add(completions[well], currentStep, newSet)
        BY SameAdd
      <3>2. /\ well # NotAWell /\ well' = NotAWell
            /\ completions' = [completions EXCEPT ![well] = D!Add(@, currentStep, newSet)]
        BY <1>2 DEF D!WellDone
      <3>3. well \in wells
        BY <1>1, <3>2
      <3>4. QED
        BY <3>1, <3>2, <3>3
    <2>2. QED
      BY <1>1, <2>1
  <1>3. CASE ~ D!WellDone
    BY <1>1, <1>3 DEF CompletionsStep, D!CompdatOpens, D!CollectRecord, D!RecordsEnd,
      D!CompdatRefused, D!NextWell, D!AddNext, D!CompdatCloses, D!handlerVars
  <1>4. QED
    BY <1>2, <1>3

(* Wells and groups are made at the current step, and stay.                *)
LEMMA MakingIsNow ==
  ASSUME [Next]_vars
  PROVE  /\ \A w \in wells : w \in wells' /\ wellSince'[w] = wellSince[w]
         /\ \A w \in wells' : w \in wells \/ wellSince'[w] = currentStep
         /\ \A g \in groups : g \in groups' /\ groupSince'[g] = groupSince[g]
         /\ \A g \in groups' : g \in groups \/ groupSince'[g] = currentStep
         /\ wellSince' # wellSince \/ groupSince' # groupSince => UNCHANGED currentStep
  <1> USE DEF wells, groups
  <1>1. CASE UNCHANGED <<wellSince, groupSince>>
    BY <1>1
  <1>2. CASE WellGroupsStep /\ WellSpecified
    <2>1. ASSUME NEW w \in Well, NEW g \in Group, W!WelspecsRecord(w, g, WellHead[w])
          PROVE  /\ wellSince' = W!Created(wellSince, {w})
                 /\ groupSince' = W!Created(groupSince, {g})
                 /\ UNCHANGED currentStep
      BY <2>1 DEF W!WelspecsRecord, W!clockVars
    <2>2. ASSUME NEW child \in Group, NEW parent \in Group, W!GruptreeRecord(child, parent)
          PROVE  /\ wellSince' = wellSince /\ groupSince' = W!Created(groupSince, {child, parent})
                 /\ UNCHANGED currentStep
      BY <2>2 DEF W!GruptreeRecord, W!membershipVars, W!clockVars
    <2>3. PICK names : wellSince' = wellSince \/ wellSince' = W!Created(wellSince, names)
      BY <1>2, <2>1, <2>2 DEF WellSpecified
    <2>4. PICK also : groupSince' = W!Created(groupSince, also)
      BY <1>2, <2>1, <2>2 DEF WellSpecified
    <2>5. UNCHANGED currentStep
      BY <1>2, <2>1, <2>2 DEF WellSpecified
    <2>6. \A since, some :
            LET new == W!Created(since, some)
            IN  \A n : /\ n \in DOMAIN since => n \in DOMAIN new /\ new[n] = since[n]
                       /\ n \in DOMAIN new => n \in DOMAIN since \/ new[n] = currentStep
      BY DEF W!Created
    <2>7. QED
      BY <2>3, <2>4, <2>5, <2>6
  <1>3. CASE WellGroupsStep /\ ~ WellSpecified
    <2>1. ASSUME NEW w, NEW g, NEW h, W!WelspecsInconsistent(w, g, h)
          PROVE  /\ wellSince' = wellSince /\ groupSince' = W!Created(groupSince, {g})
                 /\ UNCHANGED currentStep
      BY <2>1 DEF W!WelspecsInconsistent, W!membershipVars, W!Throw
    <2>2. CASE \E w \in Well, g \in Group, h \in WellData :
                 <<w, g>> \in WelspecsNames /\ W!WelspecsInconsistent(w, g, h)
      <3>1. PICK g : /\ wellSince' = wellSince /\ groupSince' = W!Created(groupSince, {g})
                     /\ UNCHANGED currentStep
        BY <2>1, <2>2
      <3>2. QED
        BY <3>1 DEF W!Created
    <2>3. CASE UNCHANGED <<wellSince, groupSince>>
      BY <2>3
    <2>4. QED
      BY <1>3, <2>2, <2>3 DEF WellGroupsStep, W!OpenKeyword, W!GruptreeMovesRoot, W!CloseKeyword,
        W!groupVars, W!membershipVars
  <1>4. CASE ~ WellGroupsStep
    <2>1. UNCHANGED <<wellSince, groupSince>>
      BY <1>4 DEF Next, vars, OtherKeyword, WellControlsStep, GroupControlsStep, CompletionsStep,
        specVars
    <2>2. QED
      BY <2>1
  <1>5. QED
    BY <1>2, <1>3, <1>4

LEMMA TimeGoesOn ==
  ASSUME currentStep \in Nat, [Next]_vars
  PROVE  currentStep' \in Nat /\ currentStep <= currentStep'
  <1>1. CASE UNCHANGED clockVars \/ Throw \/ Complete
    BY <1>1 DEF clockVars, Throw, Complete
  <1>2. CASE \E n \in 1 .. MaxPerKeyword : AdvanceTime(n)
    BY <1>2, ClockAssumption DEF AdvanceTime
  <1>3. QED
    BY <1>1, <1>2, ClockStandsStill DEF Next, OtherKeyword, vars

LEMMA StepKeeps ==
  ASSUME SettledByNow, HandlersFindTheirWells, [Next]_vars
  PROVE  AllKeep /\ HandlersFindTheirWells'
  <1>1. wells \subseteq wells'
    BY MakingIsNow
  <1>2. todo \subseteq wells /\ (well # NotAWell => well \in wells)
    BY DEF HandlersFindTheirWells
  <1>3. UNCHANGED <<status, available, isProducer, production, injection, todo>>
          \/ WellControlsStep
    BY DEF Next, vars, OtherKeyword, WellGroupsStep, GroupControlsStep, CompletionsStep, controlVars
  <1>4. /\ Keeps(status, status', Well, wells)
        /\ Keeps(available, available', Well, wells)
        /\ Keeps(isProducer, isProducer', Well, wells)
        /\ Keeps(production, production', Well, wells)
        /\ Keeps(injection, injection', Well, wells)
        /\ todo' \subseteq wells
    BY <1>2, <1>3, ControlsKeep, StayingKeeps
  <1>5. UNCHANGED <<groupInjection, groupProduction, isProductionGroup>> \/ GroupControlsStep
    BY DEF Next, vars, OtherKeyword, WellGroupsStep, WellControlsStep, CompletionsStep, ofGroups
  <1>6. /\ Keeps(groupInjection, groupInjection', Group, groups)
        /\ Keeps(groupProduction, groupProduction', Group, groups)
        /\ Keeps(isProductionGroup, isProductionGroup', Group, groups)
    BY <1>5, GroupsKeep, StayingKeeps
  <1>7. UNCHANGED <<completions, well>> \/ CompletionsStep
    BY DEF Next, vars, OtherKeyword, WellGroupsStep, WellControlsStep, GroupControlsStep,
      drilledVars
  <1>8. Keeps(completions, completions', Well, wells) /\ (well' # NotAWell => well' \in wells)
    BY <1>2, <1>7, DrilledKeep, StayingKeeps
  <1>9. QED
    BY <1>1, <1>4, <1>6, <1>8 DEF AllKeep, HandlersFindTheirWells

LEMMA BeforeInit == Init => BeforeInv
  <1> SUFFICES ASSUME Init
               PROVE  BeforeInv
    OBVIOUS
  <1>1. wells = {} /\ groups \subseteq {Root} /\ todo = {} /\ well = NotAWell /\ currentStep = 0
    BY DEF Init, W!Init, C!Init, D!Init, W!ClockInit, wells, groups
  <1>2. HandlersFindTheirWells /\ MadeByNow
    BY <1>1 DEF Init, W!Init, HandlersFindTheirWells, MadeByNow
  <1>3. ASSUME NEW t \in Step, NEW v
        PROVE  Get(C!NewState(v), t) = v /\ Get(G!NewState(v), t) = v /\ Get(D!NewState(v), t) = v
    <2>1. t \in Nat
      BY ClockAssumption DEF Step
    <2>2. NewState(v) = C!NewState(v) /\ NewState(v) = G!NewState(v) /\ NewState(v) = D!NewState(v)
      BY DEF NewState, C!NewState, G!NewState, D!NewState
    <2>3. Get(NewState(v), t) = v
      BY <2>1 DEF Get, StateSize, NewState
    <2>4. QED
      BY <2>2, <2>3
  <1>4. ASSUME NEW w \in Well, NEW t \in Step
        PROVE  /\ Get(status[w], t) = "OPEN" /\ Get(available[w], t)
               /\ Get(production[w], t) = C!DefaultProduction
               /\ Get(injection[w], t) = C!DefaultInjection
               /\ Get(completions[w], t) = << >>
    <2>1. /\ status[w] = C!NewState("OPEN") /\ available[w] = C!NewState(TRUE)
          /\ production[w] = C!NewState(C!DefaultProduction)
          /\ injection[w] = C!NewState(C!DefaultInjection) /\ completions[w] = D!NewState(<< >>)
      BY DEF Init, C!Init, D!Init
    <2>2. QED
      BY <1>3, <2>1
  <1>5. ASSUME NEW g \in Group, NEW t \in Step
        PROVE  /\ Get(groupInjection[g], t).mode = "NONE"
               /\ Get(groupProduction[g], t).mode = "NONE"
               /\ Get(isProductionGroup[g], t)
    <2>1. /\ groupInjection[g] = G!NewState([phase |-> "WATER", mode |-> "NONE", target |-> Zero])
          /\ groupProduction[g] = G!NewState([mode |-> "NONE", target |-> Zero])
          /\ isProductionGroup[g] = G!NewState(TRUE)
      BY DEF Init, G!Init
    <2>2. /\ Get(groupInjection[g], t) = [phase |-> "WATER", mode |-> "NONE", target |-> Zero]
          /\ Get(groupProduction[g], t) = [mode |-> "NONE", target |-> Zero]
          /\ Get(isProductionGroup[g], t) = TRUE
      BY <1>3, <2>1
    <2>3. QED
      BY <2>2
  <1>6. QED
    BY <1>2, <1>4, <1>5 DEF BeforeInv, NothingBeforeItIsThere

(* What a well or a group is before it was made, it was while it was not   *)
(* there; it is made now, and now nobody can set what was before.          *)
LEMMA BeforeStep ==
  ASSUME SettledByNow, BeforeInv, [Next]_vars
  PROVE  BeforeInv'
  <1>1. /\ HandlersFindTheirWells /\ MadeByNow /\ NothingBeforeItIsThere
        /\ currentStep \in Nat /\ Step \subseteq Nat
    BY DEF BeforeInv, SettledByNow
  <1>2. AllKeep /\ HandlersFindTheirWells' /\ currentStep' \in Nat /\ currentStep <= currentStep'
    BY <1>1, StepKeeps, TimeGoesOn
  <1>3. /\ \A w \in wells : w \in wells' /\ wellSince'[w] = wellSince[w]
        /\ \A w \in wells' : w \in wells \/ wellSince'[w] = currentStep
        /\ \A g \in groups : g \in groups' /\ groupSince'[g] = groupSince[g]
        /\ \A g \in groups' : g \in groups \/ groupSince'[g] = currentStep
    BY MakingIsNow
  <1>4. MadeByNow'
    <2>1. ASSUME NEW w \in wells'
          PROVE  wellSince'[w] \in Nat /\ wellSince'[w] <= currentStep'
      BY <1>1, <1>2, <1>3 DEF MadeByNow
    <2>2. ASSUME NEW g \in groups'
          PROVE  groupSince'[g] \in Nat /\ groupSince'[g] <= currentStep'
      BY <1>1, <1>2, <1>3 DEF MadeByNow
    <2>3. QED
      BY <2>1, <2>2 DEF MadeByNow
  <1>5. ASSUME NEW w \in Well, NEW t \in Step, (w \in wells)' => t < wellSince'[w]
        PROVE  /\ Get(status'[w], t) = "OPEN"
               /\ Get(available'[w], t)
               /\ Get(production'[w], t) = C!DefaultProduction
               /\ Get(injection'[w], t) = C!DefaultInjection
               /\ Get(completions'[w], t) = << >>
    <2>1. w \in wells => t < wellSince[w] /\ t < currentStep
      BY <1>1, <1>3, <1>5 DEF MadeByNow
    <2>2. /\ Get(status'[w], t) = Get(status[w], t) /\ Get(available'[w], t) = Get(available[w], t)
          /\ Get(production'[w], t) = Get(production[w], t)
          /\ Get(injection'[w], t) = Get(injection[w], t)
          /\ Get(completions'[w], t) = Get(completions[w], t)
      BY <1>2, <2>1 DEF AllKeep, Keeps
    <2>3. QED
      BY <1>1, <2>1, <2>2 DEF NothingBeforeItIsThere
  <1>6. ASSUME NEW g \in Group, NEW t \in Step, (g \in groups)' => t < groupSince'[g]
        PROVE  /\ Get(groupInjection'[g], t).mode = "NONE"
               /\ Get(groupProduction'[g], t).mode = "NONE"
               /\ Get(isProductionGroup'[g], t)
    <2>1. g \in groups => t < groupSince[g] /\ t < currentStep
      BY <1>1, <1>3, <1>6 DEF MadeByNow
    <2>2. /\ Get(groupInjection'[g], t) = Get(groupInjection[g], t)
          /\ Get(groupProduction'[g], t) = Get(groupProduction[g], t)
          /\ Get(isProductionGroup'[g], t) = Get(isProductionGroup[g], t)
      BY <1>2, <2>1 DEF AllKeep, Keeps
    <2>3. QED
      BY <1>1, <2>1, <2>2 DEF NothingBeforeItIsThere
  <1>7. NothingBeforeItIsThere'
    BY <1>5, <1>6 DEF NothingBeforeItIsThere
  <1>8. QED
    BY <1>2, <1>4, <1>7 DEF BeforeInv

(* The invariants of the parts, and of the whole, hold together.           *)
LEMMA InvariantsOfAll == Spec => [](WellInv /\ GroupInv /\ CompletionsInv /\ BeforeInv)
  <1>1. C!Spec => []WellInv
    BY WellInvariant, WellControlsFit
  <1>2. G!Spec => []GroupInv
    BY GroupInvariant
  <1>3. D!Spec => []CompletionsInv
    BY CompletionsInvariant
  <1>4. WellInv /\ GroupInv /\ CompletionsInv /\ BeforeInv /\ [Next]_vars => BeforeInv'
    BY SettledStates, BeforeStep
  <1>5. QED
    BY <1>1, <1>2, <1>3, <1>4, PartsAreImplemented, BeforeInit, PTL DEF Spec, ImplementsParts

(* Before the step at which a well or a group was made, a client reads of  *)
(* it what its constructor has put there, whatever keywords name it        *)
(* afterwards (Schedule.cpp:116-148 and 436-448, Well.cpp, Group.cpp).     *)
THEOREM NothingBefore == Spec => []NothingBeforeItIsThere
  <1>1. BeforeInv => NothingBeforeItIsThere
    BY DEF BeforeInv
  <1>2. QED
    BY <1>1, InvariantsOfAll, PTL

(* What a well or a group was told for an earlier step it keeps, whatever  *)
(* keywords follow (Schedule.cpp:171-410, Well.cpp, Group.cpp).            *)
THEOREM EarlierSteps == Spec => EarlierStepsAreKept
  <1> DEFINE Kept == \A t \in Step : t < currentStep =>
               /\ \A w \in Well :
                    /\ Get(status'[w], t) = Get(status[w], t)
                    /\ Get(available'[w], t) = Get(available[w], t)
                    /\ Get(isProducer'[w], t) = Get(isProducer[w], t)
                    /\ Get(production'[w], t) = Get(production[w], t)
                    /\ Get(injection'[w], t) = Get(injection[w], t)
                    /\ Get(completions'[w], t) = Get(completions[w], t)
               /\ \A g \in Group :
                    /\ Get(groupInjection'[g], t) = Get(groupInjection[g], t)
                    /\ Get(groupProduction'[g], t) = Get(groupProduction[g], t)
                    /\ Get(isProductionGroup'[g], t) = Get(isProductionGroup[g], t)
  <1>1. AllKeep => Kept
    BY DEF AllKeep, Keeps
  <1>2. WellInv /\ GroupInv /\ CompletionsInv /\ BeforeInv /\ [Next]_vars => Kept
    BY <1>1, SettledStates, StepKeeps DEF BeforeInv
  <1>3. QED
    BY <1>2, InvariantsOfAll, PTL DEF Spec, EarlierStepsAreKept
=============================================================================
