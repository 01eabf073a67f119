----------------------------- MODULE TimedValue -----------------------------
(***************************************************************************)
(* What a dynamic state promises to the rest of the schedule: a value that *)
(* is a function of the report step, that may be changed from some step on *)
(* but never before the last step at which it was changed.                 *)
(***************************************************************************)
EXTENDS Naturals

CONSTANTS
  Value,      \* the values the quantity takes
  Default,    \* its value until it is first set
  Step        \* the report steps there can be: 0, 1, 2, ...

VARIABLES
  length,     \* the number of report steps known so far
  value,      \* the value at every report step, past and future
  frontier    \* the last step at which the value was set

vars == <<length, value, frontier>>

TypeOK ==
  /\ length \in Nat \ {0}
  /\ value \in [Step -> Value]
  /\ frontier \in 0 .. length - 1

Init ==
  /\ length = 1
  /\ value = [t \in Step |-> Default]
  /\ frontier = 0

(* The time map gets one more step. *)
Extend ==
  /\ length' = length + 1
  /\ UNCHANGED <<value, frontier>>

(* From step t on the value is v, until it is set again. *)
SetFrom(t, v) ==
  /\ t \in frontier .. length - 1
  /\ value' = [s \in Step |-> IF s >= t THEN v ELSE value[s]]
  /\ frontier' = t
  /\ UNCHANGED length

Next == Extend \/ \E t \in Step, v \in Value : SetFrom(t, v)

Spec == Init /\ [][Next]_vars

(* What was said about the past stays said. *)
PastIsFrozen == [][\A t \in Step : t < frontier' => value'[t] = value[t]]_vars
=============================================================================
