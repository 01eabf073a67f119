--------------------------- MODULE ScheduleClock ---------------------------
(***************************************************************************)
(* The two counters every keyword handler of the SCHEDULE section works    *)
(* with: the size of the time map, which all dynamic states share, and     *)
(* currentStep, the local counter of Schedule::iterateScheduleSection()    *)
(* that the handlers get as their report step.                             *)
(***************************************************************************)
EXTENDS Naturals

CONSTANTS
  MaxSteps,       \* bound: report steps in the time map
  MaxPerKeyword   \* bound: records of a DATES, items of a TSTEP keyword

ASSUME ClockAssumption ==
  /\ MaxSteps \in Nat \ {0}
  /\ MaxPerKeyword \in Nat \ {0}

VARIABLES
  timeSteps,      \* m_timeMap->size()
  currentStep,    \* currentStep of iterateScheduleSection()
  phase           \* "reading" the deck, "complete", or "thrown": an
                  \* exception has left the constructor

clockVars == <<timeSteps, currentStep, phase>>

(* The report steps there can be. *)
Step == 0 .. MaxSteps - 1

Phases == {"reading", "complete", "thrown"}

ClockTypeOK ==
  /\ timeSteps \in 1 .. MaxSteps
  /\ currentStep \in Nat
  /\ phase \in Phases

ClockInit ==
  /\ timeSteps = 1
  /\ currentStep = 0
  /\ phase = "reading"

(* DATES with n records or TSTEP with n items: the time map grows by n and *)
(* the counter moves as far.                                               *)
AdvanceTime(n) ==
  /\ timeSteps + n <= MaxSteps
  /\ timeSteps' = timeSteps + n
  /\ currentStep' = currentStep + n
  /\ UNCHANGED phase

(* The keywords are exhausted and the schedule is there to be used. *)
Complete == phase' = "complete" /\ UNCHANGED <<timeSteps, currentStep>>

(* An exception leaves the constructor: there is no schedule. *)
Throw == phase' = "thrown" /\ UNCHANGED <<timeSteps, currentStep>>

(* Handlers write at the last step of the time map: what they set holds    *)
(* from there on, and every index they pass to a dynamic state is in range *)
(* (Schedule.cpp:64 and :69 keep the counter beside the map).              *)
CurrentStepIsLast == currentStep = timeSteps - 1

(* The clock alone: what the handlers of all keywords see of the time.     *)
ClockNext ==
  /\ phase = "reading"
  /\ (\E n \in 1 .. MaxPerKeyword : AdvanceTime(n)) \/ Complete \/ Throw

ClockSpec == ClockInit /\ [][ClockNext]_clockVars
=============================================================================
