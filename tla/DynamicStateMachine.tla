------------------------ MODULE DynamicStateMachine ------------------------
(***************************************************************************)
(* One DynamicState<T> with the time map it shares: every legal sequence   *)
(* of calls of addTime()/addTStep() on the map and of add() on the state,  *)
(* the refused ones included, at any index and not only at the last step.  *)
(***************************************************************************)
EXTENDS DynamicState

CONSTANTS
  Value,      \* the values stored
  Default,    \* the constructor's defaultValue
  MaxLength   \* bound: the time map grows to at most this many steps

ASSUME MachineAssumption ==
  /\ Default \in Value
  /\ MaxLength \in Nat \ {0}

VARIABLES
  timeSteps,  \* m_timeMap->size()
  state,      \* the DynamicState
  outcome     \* how the last call ended: "ok" or the exception it threw

stateVars == <<timeSteps, state, outcome>>

Step == 0 .. MaxLength - 1

StateTypeOK ==
  /\ timeSteps \in 1 .. MaxLength
  /\ state \in DynamicStates(Value)
  /\ StateSize(state) <= timeSteps
  /\ outcome \in {"ok", "range_error", "invalid_argument"}

StateInit ==
  /\ timeSteps = 1
  /\ state = NewState(Default)
  /\ outcome = "ok"

AddTime ==
  /\ timeSteps < MaxLength
  /\ timeSteps' = timeSteps + 1
  /\ outcome' = "ok"
  /\ UNCHANGED state

AddValue(index, value) ==
  /\ CanAdd(state, index, timeSteps)
  /\ state' = Add(state, index, value)
  /\ outcome' = "ok"
  /\ UNCHANGED timeSteps

AddRefused(index) ==
  /\ ~ CanAdd(state, index, timeSteps)
  /\ outcome' = IF OutOfRange(index, timeSteps) THEN "range_error"
                                                ELSE "invalid_argument"
  /\ UNCHANGED <<timeSteps, state>>

StateNext ==
  \/ AddTime
  \/ \E index \in 0 .. MaxLength, value \in Value : AddValue(index, value)
  \/ \E index \in 0 .. MaxLength : AddRefused(index)

StateSpec == StateInit /\ [][StateNext]_stateVars
-----------------------------------------------------------------------------
(* The current value cached beside the vector is the value of the last     *)
(* step in it: what get() answers past the end of the vector continues     *)
(* what was set last (DynamicState.hpp:57 and :88).                        *)
CachedValueIsLast ==
  /\ CacheAgrees(state)
  /\ StateSize(state) = 0 => state.current = Default

(* The state is a timed value: get() at every step, known or future, is    *)
(* the value of the abstract function of time, and add() changes it from   *)
(* its index on and nowhere before (DynamicState.hpp:53-89).               *)
Abstract == INSTANCE TimedValue WITH
  length   <- timeSteps,
  value    <- [t \in Step |-> Get(state, t)],
  frontier <- IF StateSize(state) = 0 THEN 0 ELSE StateSize(state) - 1

ImplementsTimedValue == Abstract!Spec
=============================================================================
