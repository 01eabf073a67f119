--------------------------- MODULE GroupControls ---------------------------
(***************************************************************************)
(* What a group is to produce or inject: GCONINJE and GCONPROD             *)
(* (Schedule.cpp) on the production and injection data of the groups       *)
(* (Group.cpp).  Each kind of data is a handful of dynamic states that a   *)
(* record sets all together, at the same step: one dynamic state of        *)
(* records here.  Of the targets a record sets, one stands for all.        *)
(***************************************************************************)
EXTENDS ScheduleClock, DynamicState

CONSTANTS
  Group,       \* the groups of the schedule, which are all there
  Target,      \* the values of a target rate or fraction
  Zero,        \* the target of a group that was never given one
  InjectionRecord,   \* what a record of GCONINJE can say
  ProductionRecord,  \* what a record of GCONPROD can say
  MaxRecords   \* bound: records of these keywords in a deck

VARIABLES
  isProductionGroup,  \* Group::m_isProductionGroup, for each group
  injection,          \* Group::m_injection
  production,         \* Group::m_production
  records             \* the number of records so far

groupVars == <<isProductionGroup, injection, production>>
vars == <<clockVars, groupVars, records>>

Phase == {"OIL", "GAS", "WATER"}

InjectionControl == {"NONE", "RATE", "RESV", "REIN", "VREP", "FLD"}

ProductionControl == {"NONE", "ORAT", "WRAT", "GRAT", "LRAT", "CRAT", "RESV", "PRBL"}

InjectionData == [phase : Phase, mode : InjectionControl, target : Target]

ProductionData == [mode : ProductionControl, target : Target]

GroupControlsConstants ==
  /\ Zero \in Target
  /\ InjectionRecord \subseteq InjectionData
  /\ ProductionRecord \subseteq ProductionData
  /\ MaxRecords \in Nat

TypeOK ==
  /\ ClockTypeOK
  /\ isProductionGroup \in [Group -> DynamicStates(BOOLEAN)]
  /\ injection \in [Group -> DynamicStates(InjectionData)]
  /\ production \in [Group -> DynamicStates(ProductionData)]
  /\ records \in Nat

Init ==
  /\ ClockInit
  /\ isProductionGroup = [g \in Group |-> NewState(TRUE)]
  /\ injection =
       [g \in Group |-> NewState([phase |-> "WATER", mode |-> "NONE", target |-> Zero])]
  /\ production = [g \in Group |-> NewState([mode |-> "NONE", target |-> Zero])]
  /\ records = 0
-----------------------------------------------------------------------------
SetNow(f, g, value) == [f EXCEPT ![g] = Add(@, currentStep, value)]

(* setInjectionPhase(): a step that has a phase already, which it has      *)
(* exactly if the dynamic state ends with it, keeps it.  A mistake: the    *)
(* check looks at the step before.                                         *)
OtherPhaseOneStepOff(g, ph) ==
  /\ StateSize(injection[g]) = currentStep
  /\ ph # Get(injection[g], currentStep).phase

OtherPhaseNow(g, ph) ==
  /\ StateSize(injection[g]) = currentStep + 1
  /\ ph # Get(injection[g], currentStep).phase

RecordComes == records < MaxRecords /\ records' = records + 1

GconinjeRecord(g, data) ==
  /\ RecordComes
  /\ ~ OtherPhaseNow(g, data.phase)
  /\ injection' = SetNow(injection, g, data)
  /\ isProductionGroup' = SetNow(isProductionGroup, g, FALSE)
  /\ UNCHANGED <<clockVars, production>>

GconinjeRefused(g, ph) ==
  /\ RecordComes
  /\ OtherPhaseNow(g, ph)
  /\ Throw
  /\ UNCHANGED groupVars

GconprodRecord(g, data) ==
  /\ RecordComes
  /\ production' = SetNow(production, g, data)
  /\ isProductionGroup' = SetNow(isProductionGroup, g, TRUE)
  /\ UNCHANGED <<clockVars, injection>>

(* A record names a group that is not there, or a phase, mode or action    *)
(* that is none.                                                           *)
RecordRefused == Throw /\ UNCHANGED <<groupVars, records>>

OtherKeyword ==
  /\ (\E n \in 1 .. MaxPerKeyword : AdvanceTime(n)) \/ Complete
  /\ UNCHANGED <<groupVars, records>>

Next ==
  /\ phase = "reading"
  /\ \/ OtherKeyword
     \/ RecordRefused
     \/ \E g \in Group, data \in InjectionRecord : GconinjeRecord(g, data)
     \/ \E g \in Group, ph \in Phase : GconinjeRefused(g, ph)
     \/ \E g \in Group, data \in ProductionRecord : GconprodRecord(g, data)

Spec == Init /\ [][Next]_vars
-----------------------------------------------------------------------------
(* The phase a group injects at a step never changes once a record has set *)
(* it for that step, and a step that was passed without a record keeps the *)
(* one it had: two phases at the same time are refused, whatever other     *)
(* records and steps come between the two (Group.cpp:124-150).             *)
PhaseIsSetOnce ==
  [][\A g \in Group, t \in Step :
       t < currentStep \/ t < StateSize(injection[g]) =>
         Get(injection'[g], t).phase = Get(injection[g], t).phase]_vars

(* A new step accepts every phase, whatever the groups were given before:  *)
(* from one step to the next a group may change its phase                  *)
(* (Group.cpp:138-141).                                                    *)
NewStepTakesAnyPhase ==
  [][currentStep' # currentStep =>
       \A g \in Group, ph \in Phase : ~ OtherPhaseNow(g, ph)']_vars

(* What makes these inductive: no dynamic state of a group reaches past    *)
(* the current step.                                                       *)
EndsByNow(ds) == StateSize(ds) <= currentStep + 1 /\ CacheAgrees(ds)

StatesEndByNow ==
  \A g \in Group :
    /\ EndsByNow(isProductionGroup[g])
    /\ EndsByNow(injection[g])
    /\ EndsByNow(production[g])
=============================================================================
