------------------------------- MODULE TimeMap -------------------------------
(***************************************************************************)
(* The time map (Schedule/TimeMap.cpp): the times at which the report      *)
(* steps start, appended by the records of DATES and the items of TSTEP    *)
(* while Schedule::iterateScheduleSection() walks the deck.  One action    *)
(* per record or item; the counter of the walk follows when the keyword is *)
(* finished.                                                               *)
(*                                                                         *)
(* Time is counted in ticks, the unit of the ptime; a DATES record can ask *)
(* for any tick, a TSTEP item only gets whole milliseconds.  The double    *)
(* "days * 24*60*60" of an item is its length in ticks.                    *)
(***************************************************************************)
EXTENDS Integers, Sequences

CONSTANTS
  TicksPerMilli,    \* 1000: a ptime has microseconds
  MillisPerSecond,  \* 1000
  Start,            \* the start time
  Time,             \* the times DATES records ask for
  Length,           \* the lengths TSTEP items ask for, not only positive ones
  MaxSteps,         \* bound: entries in the time map
  MaxPerKeyword     \* bound: records or items of one keyword

ASSUME TimeMapAssumption ==
  /\ TicksPerMilli \in Nat \ {0}
  /\ MillisPerSecond \in Nat \ {0}
  /\ Start \in Int
  /\ Time \subseteq Int
  /\ Length \subseteq Int
  /\ MaxSteps \in Nat \ {0}
  /\ MaxPerKeyword \in Nat \ {0}

VARIABLES
  timeList,     \* m_timeList
  open,         \* the keyword being handled, or "none"
  handled,      \* the records or items of it handled so far
  currentStep,  \* the counter of iterateScheduleSection()
  phase,        \* "reading" the deck, "complete" or "thrown"
  asked,        \* history: the last time, had no item been truncated
  sinceDate     \* history: the items of TSTEP since the last DATES record

historyVars == <<asked, sinceDate>>
vars == <<timeList, open, handled, currentStep, phase, historyVars>>

TicksPerSecond == TicksPerMilli * MillisPerSecond

LastTime == timeList[Len(timeList)]

TypeOK ==
  /\ timeList \in Seq(Int) /\ Len(timeList) \in 1 .. MaxSteps
  /\ open \in {"none", "DATES", "TSTEP"}
  /\ handled \in 0 .. MaxPerKeyword
  /\ handled < Len(timeList)
  /\ currentStep \in Nat
  /\ phase \in {"reading", "complete", "thrown"}
  /\ asked \in Int
  /\ sinceDate \in Nat

Init ==
  /\ timeList = <<Start>>
  /\ open = "none"
  /\ handled = 0
  /\ currentStep = 0
  /\ phase = "reading"
  /\ asked = Start
  /\ sinceDate = 0
-----------------------------------------------------------------------------
(* static_cast<long int>, and total_milliseconds() and total_seconds():    *)
(* towards zero.                                                           *)
Truncated(a, unit) == IF a >= 0 THEN a \div unit ELSE -((-a) \div unit)

WholeSeconds(len) == Truncated(len, TicksPerSecond)

(* A mistake addFromTSTEPKeyword() could make: whole seconds only. *)
StoredInSeconds(len) == WholeSeconds(len) * TicksPerSecond

(* The duration made of an item of TSTEP: whole seconds and whole          *)
(* milliseconds of the rest.                                               *)
Stored(len) ==
  WholeSeconds(len) * TicksPerSecond
    + Truncated(len - WholeSeconds(len) * TicksPerSecond, TicksPerMilli) * TicksPerMilli

(* A mistake the check could make: it lets a time through that is not      *)
(* later.                                                                  *)
StepNotNegative(len) == Truncated(Stored(len), TicksPerSecond) >= 0

(* The checks of addTime() and addTStep(). *)
DateAccepted(t) == t > LastTime

StepAccepted(len) == Truncated(Stored(len), TicksPerSecond) > 0

OpenKeyword(name) ==
  /\ open = "none"
  /\ open' = name
  /\ UNCHANGED <<timeList, handled, currentStep, phase, historyVars>>

(* One more entry, as one record or item of the open keyword. *)
Append1(t) ==
  /\ handled < MaxPerKeyword
  /\ Len(timeList) < MaxSteps
  /\ timeList' = Append(timeList, t)
  /\ handled' = handled + 1
  /\ UNCHANGED <<open, currentStep, phase>>

DatesRecord(t) ==
  /\ open = "DATES"
  /\ DateAccepted(t)
  /\ Append1(t)
  /\ asked' = t
  /\ sinceDate' = 0

TstepItem(len) ==
  /\ open = "TSTEP"
  /\ StepAccepted(len)
  /\ Append1(LastTime + Stored(len))
  /\ asked' = asked + len
  /\ sinceDate' = sinceDate + 1

Throw ==
  /\ phase' = "thrown"
  /\ UNCHANGED <<timeList, open, handled, currentStep, historyVars>>

(* A time that is not later, or that cannot be read (timeFromEclipse). *)
DatesRecordRefused == open = "DATES" /\ Throw

TstepItemRefused(len) ==
  /\ open = "TSTEP"
  /\ ~ StepAccepted(len)
  /\ Throw

(* A mistake: the counter moves one step per keyword. *)
CloseKeywordByOne ==
  /\ open # "none"
  /\ currentStep' = currentStep + 1
  /\ open' = "none"
  /\ handled' = 0
  /\ UNCHANGED <<timeList, phase, historyVars>>

(* The handler returns and the counter moves by the size of the keyword. *)
CloseKeyword ==
  /\ open # "none"
  /\ currentStep' = currentStep + handled
  /\ open' = "none"
  /\ handled' = 0
  /\ UNCHANGED <<timeList, phase, historyVars>>

(* The deck is at its end. *)
Complete ==
  /\ open = "none"
  /\ phase' = "complete"
  /\ UNCHANGED <<timeList, open, handled, currentStep, historyVars>>

Next ==
  /\ phase = "reading"
  /\ \/ \E name \in {"DATES", "TSTEP"} : OpenKeyword(name)
     \/ \E t \in Time : DatesRecord(t)
     \/ \E len \in Length : TstepItem(len)
     \/ DatesRecordRefused
     \/ \E len \in Length : TstepItemRefused(len)
     \/ CloseKeyword
     \/ Complete

Spec == Init /\ [][Next]_vars
-----------------------------------------------------------------------------
(* getTimePassedUntil() and getTimeStepLength(), in milliseconds; step 0   *)
(* starts at entry 1 of the list.  Rounding a length up is a mistake.      *)
TimePassedUntil(step) == Truncated(timeList[step + 1] - timeList[1], TicksPerMilli)

StepLengthRoundedUp(step) ==
  Truncated(timeList[step + 2] - timeList[step + 1] + TicksPerMilli - 1, TicksPerMilli)

TimeStepLength(step) ==
  Truncated(timeList[step + 2] - timeList[step + 1], TicksPerMilli)

LengthsUntil[step \in Nat] ==
  IF step = 0 THEN 0 ELSE LengthsUntil[step - 1] + TimeStepLength(step - 1)
-----------------------------------------------------------------------------
(* Every report step starts after the one before it, whatever mixture of   *)
(* dates and lengths the deck gives and however they were rounded.         *)
StrictlyIncreasing ==
  \A i, j \in 1 .. Len(timeList) : i < j => timeList[i] < timeList[j]

(* Truncation adds up over the items of TSTEP, and DATES ends it: the last *)
(* report step starts no later than asked for and less than a millisecond  *)
(* per item too early (TimeMap.cpp:192-199).                               *)
DriftBounded ==
  /\ LastTime <= asked
  /\ asked - LastTime <= sinceDate * (TicksPerMilli - 1)

(* A simulator that adds up the lengths of the steps comes to the time the *)
(* map says has passed, or less than a millisecond per step short of it:   *)
(* both answers are truncated, and dates may have parts of milliseconds.   *)
LengthsAddUp ==
  \A step \in 1 .. Len(timeList) - 1 :
    /\ LengthsUntil[step] <= TimePassedUntil(step)
    /\ TimePassedUntil(step) - LengthsUntil[step] < step

(* To the handlers of the other keywords this is the schedule's clock: the *)
(* map has grown by the whole of a keyword when they look, and the counter *)
(* has moved as far.                                                       *)
Clock == INSTANCE ScheduleClock WITH timeSteps <- Len(timeList) - handled

ImplementsClock == Clock!ClockSpec

(* What makes the counter right: a keyword is counted when it is closed.   *)
CounterFollows ==
  /\ currentStep = Len(timeList) - handled - 1
  /\ open = "none" => handled = 0
=============================================================================
