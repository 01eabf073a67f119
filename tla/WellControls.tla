---------------------------- MODULE WellControls ----------------------------
(***************************************************************************)
(* How a well is run: WCONPROD, WCONHIST, WCONINJE, WCONINJH, WELOPEN and  *)
(* WGRUPCON (Schedule.cpp), on the status, the role, the availability for  *)
(* group control and the production and injection properties of a well     *)
(* (Well.cpp, WellProductionProperties.cpp), each a function of the report *)
(* step.  The controls of a well are the set of modes whose bits are set   *)
(* in its mask; a property record keeps one of the modes as the one asked  *)
(* for.  Rates, limits and guide rates are left out: what counts of an     *)
(* item is whether the record gives it or defaults it.                     *)
(*                                                                         *)
(* WCONPROD, WCONHIST and WCONINJE name their wells by a pattern and loop  *)
(* over them: opening the record is one step, each well is one.  All wells *)
(* of Well are there from the start (WellGroups has the keywords that make *)
(* them).                                                                  *)
(***************************************************************************)
EXTENDS ScheduleClock, DynamicState

CONSTANTS
  Well,            \* the wells of the schedule
  Pattern,         \* the sets of wells a name with a trailing "*" selects
  ProducerRecord,  \* the records of WCONPROD and WCONHIST
  InjectorRecord,  \* the records of WCONINJE and WCONINJH
  MaxRecords       \* bound: records of these keywords in a deck

Status == {"OPEN", "SHUT", "STOP", "AUTO"}

ProducerMode == {"ORAT", "WRAT", "GRAT", "LRAT", "CRAT", "RESV", "BHP", "THP", "GRUP"}

InjectorMode == {"RATE", "RESV", "BHP", "THP", "GRUP"}

(* CMODE is any string: "NONE" stands for one that is missing or unknown,  *)
(* which is refused (std::invalid_argument) as a mode without data is.     *)
ProducerRecords ==
  [prediction : BOOLEAN, status : Status, cmode : ProducerMode \union {"NONE"},
   given : SUBSET {"ORAT", "WRAT", "GRAT", "LRAT", "RESV", "BHP", "THP"}]

InjectorRecords ==
  [multi : BOOLEAN, status : Status, cmode : InjectorMode \union {"NONE"},
   given : SUBSET {"RATE", "RESV", "BHP", "THP"}]

WellControlsConstants ==
  /\ Pattern \subseteq SUBSET Well
  /\ ProducerRecord \subseteq ProducerRecords
  /\ InjectorRecord \subseteq InjectorRecords
  /\ MaxRecords \in Nat

VARIABLES
  status,      \* Well::m_status, for each well
  available,   \* Well::m_isAvailableForGroupControl
  isProducer,  \* Well::m_isProducer
  production,  \* Well::m_productionProperties
  injection,   \* Well::m_injectionProperties
  handler,     \* the keyword whose record is being handled, or "none"
  record,      \* that record
  properties,  \* handleWCONProducer: the properties all its wells share
  todo,        \* the wells of the pattern the loop has still to come to
  records      \* the number of records so far

wellVars == <<status, available, isProducer, production, injection>>
handlerVars == <<handler, record, properties, todo, records>>
vars == <<clockVars, wellVars, handlerVars>>

ProductionProperties ==
  [prediction : BOOLEAN, controls : SUBSET ProducerMode, mode : ProducerMode]

InjectionProperties ==
  [prediction : BOOLEAN, controls : SUBSET InjectorMode, mode : InjectorMode, multi : BOOLEAN]

NoRecord == [prediction |-> TRUE, status |-> "OPEN", cmode |-> "NONE", given |-> {}]

(* The constructors of the two kinds of properties. *)
DefaultProduction == [prediction |-> TRUE, controls |-> {}, mode |-> "ORAT"]

DefaultInjection == [prediction |-> TRUE, controls |-> {}, mode |-> "RATE", multi |-> FALSE]

TypeOK ==
  /\ ClockTypeOK
  /\ status \in [Well -> DynamicStates(Status)]
  /\ available \in [Well -> DynamicStates(BOOLEAN)]
  /\ isProducer \in [Well -> DynamicStates(BOOLEAN)]
  /\ production \in [Well -> DynamicStates(ProductionProperties)]
  /\ injection \in [Well -> DynamicStates(InjectionProperties)]
  /\ handler \in {"none", "WCONProducer", "WCONINJE"}
  /\ record \in ProducerRecords \union InjectorRecords
  /\ properties \in ProductionProperties
  /\ todo \subseteq Well
  /\ records \in Nat

Init ==
  /\ ClockInit
  /\ status = [w \in Well |-> NewState("OPEN")]
  /\ available = [w \in Well |-> NewState(TRUE)]
  /\ isProducer = [w \in Well |-> NewState(TRUE)]
  /\ production = [w \in Well |-> NewState(DefaultProduction)]
  /\ injection = [w \in Well |-> NewState(DefaultInjection)]
  /\ handler = "none"
  /\ record = NoRecord
  /\ properties = DefaultProduction
  /\ todo = {}
  /\ records = 0
-----------------------------------------------------------------------------
Now(ds) == Get(ds, currentStep)

SetNow(f, w, value) == [f EXCEPT ![w] = Add(@, currentStep, value)]

(* setProductionProperties() and setInjectionProperties(): the well has    *)
(* the role of what was set last.                                          *)
SetProductionProperties(w, p) ==
  /\ isProducer' = SetNow(isProducer, w, TRUE)
  /\ production' = SetNow(production, w, p)
  /\ UNCHANGED injection

SetInjectionProperties(w, p) ==
  /\ isProducer' = SetNow(isProducer, w, FALSE)
  /\ injection' = SetNow(injection, w, p)
  /\ UNCHANGED production

WithControl(p, mode, present) ==
  [p EXCEPT !.controls = IF present THEN @ \union {mode} ELSE @ \ {mode}]

(* history(): rates are observed, so they are all there; prediction(): a   *)
(* control is there if its item is.  A mistake: in history too.            *)
HistoryAsGiven(given) ==
  [DefaultProduction EXCEPT !.prediction = FALSE, !.controls = given]

History(given) ==
  [DefaultProduction EXCEPT
    !.prediction = FALSE,
    !.controls = {"ORAT", "WRAT", "GRAT", "LRAT", "RESV"} \union (given \intersect {"BHP"})]

Prediction(given) == [DefaultProduction EXCEPT !.controls = given]

(* The records of a keyword come one by one, between other keywords.       *)
RecordComes ==
  /\ handler = "none"
  /\ records < MaxRecords
  /\ records' = records + 1

OpenLoop(name, r, wells) ==
  /\ RecordComes
  /\ handler' = name
  /\ record' = r
  /\ todo' = wells
  /\ UNCHANGED <<clockVars, wellVars>>

WconproducerRecord(r, wells) ==
  /\ OpenLoop("WCONProducer", r, wells)
  /\ properties' = IF r.prediction THEN Prediction(r.given) ELSE History(r.given)

WconinjeRecord(r, wells) ==
  /\ OpenLoop("WCONINJE", r, wells)
  /\ UNCHANGED properties

(* The end of the body of the loop: the next well, or the next record.     *)
LoopOn(w) ==
  /\ todo' = todo \ {w}
  /\ handler' = IF todo = {w} THEN "none" ELSE handler
  /\ UNCHANGED <<record, records>>

(* The properties with GRUP as the well has it and the mode of the record, *)
(* which is not looked at if the well is shut.  A mistake: GRUP is added   *)
(* for a well that has it, and never dropped again.                        *)
ForWellNeverDrops(p, w, r) ==
  LET q == IF Now(available[w]) THEN WithControl(p, "GRUP", TRUE) ELSE p
  IN  IF r.status = "SHUT" THEN q ELSE [q EXCEPT !.mode = r.cmode]

ForWell(p, w, r) ==
  LET q == WithControl(p, "GRUP", Now(available[w]))
  IN  IF r.status = "SHUT" THEN q ELSE [q EXCEPT !.mode = r.cmode]

Refuses(p, r) == r.status # "SHUT" /\ r.cmode \notin p.controls

(* The next well of WCONPROD or WCONHIST: what it changes in the shared    *)
(* properties stays for the wells after it.                                *)
ProducerWell(w) ==
  /\ handler = "WCONProducer"
  /\ LET p == ForWell(properties, w, record)
     IN  /\ ~ Refuses(p, record)
         /\ properties' = p
         /\ status' = SetNow(status, w, record.status)
         /\ SetProductionProperties(w, p)
  /\ LoopOn(w)
  /\ UNCHANGED <<clockVars, available>>

ProducerRefused(w) ==
  /\ handler = "WCONProducer"
  /\ Refuses(ForWell(properties, w, record), record)
  /\ Throw
  /\ UNCHANGED <<wellVars, handlerVars>>

(* The controls after a record of WCONINJE: one for each item that is      *)
(* given, whatever there was before, and GRUP.                             *)
InjectorControls(w, r) ==
  r.given \union (IF Now(available[w]) THEN {"GRUP"} ELSE {})

(* There is no rate of a multi-phase injector (std::logic_error), and the  *)
(* mode must be among the controls even if the well is shut.               *)
InjectorRefuses(w, r) ==
  \/ r.multi /\ r.given \intersect {"RATE", "RESV"} # {}
  \/ r.cmode \notin InjectorControls(w, r)

InjectorWell(w) ==
  /\ handler = "WCONINJE"
  /\ ~ InjectorRefuses(w, record)
  /\ status' = SetNow(status, w, record.status)
  /\ SetInjectionProperties(w, [prediction |-> TRUE, multi |-> record.multi,
       controls |-> InjectorControls(w, record), mode |-> record.cmode])
  /\ LoopOn(w)
  /\ UNCHANGED <<clockVars, available, properties>>

InjectorRefused(w) ==
  /\ handler = "WCONINJE"
  /\ InjectorRefuses(w, record)
  /\ status' = SetNow(status, w, record.status)
  /\ Throw
  /\ UNCHANGED <<available, isProducer, production, injection, handlerVars>>

(* WCONINJH: for one well, on top of the properties it has; a rate that is *)
(* given makes its mode available and asked for, one that is defaulted     *)
(* leaves controls and mode as they are.  A mistake: the mode is asked for *)
(* and not made available.                                                 *)
HistoricInjectionNotAdded(p, r) ==
  [p EXCEPT !.multi = r.multi, !.prediction = FALSE,
            !.mode = IF "RATE" \in r.given THEN r.cmode ELSE @]

HistoricInjection(p, r) ==
  LET q == [p EXCEPT !.multi = r.multi, !.prediction = FALSE]
  IN  IF "RATE" \in r.given
      THEN [q EXCEPT !.controls = @ \union {r.cmode}, !.mode = r.cmode]
      ELSE q

WconinjhRecord(w, r) ==
  /\ ~ r.multi
  /\ r.cmode # "NONE"
  /\ RecordComes
  /\ status' = SetNow(status, w, r.status)
  /\ SetInjectionProperties(w, HistoricInjection(Now(injection[w]), r))
  /\ UNCHANGED <<clockVars, available, handler, record, properties, todo>>

(* A multi-phase type is refused before, an unknown CMODE after the status *)
(* of the well is set.                                                     *)
WconinjhRefused(w, r) ==
  /\ r.multi \/ r.cmode = "NONE"
  /\ RecordComes
  /\ status' = IF r.multi THEN status ELSE SetNow(status, w, r.status)
  /\ Throw
  /\ UNCHANGED <<available, isProducer, production, injection, handler, record, properties, todo>>

(* WELOPEN and WGRUPCON, for one well. *)
WelopenRecord(w, s) ==
  /\ RecordComes
  /\ status' = SetNow(status, w, s)
  /\ UNCHANGED <<clockVars, available, isProducer, production, injection>>
  /\ UNCHANGED <<handler, record, properties, todo>>

WgrupconRecord(w, yes) ==
  /\ RecordComes
  /\ available' = SetNow(available, w, yes)
  /\ UNCHANGED <<clockVars, status, isProducer, production, injection>>
  /\ UNCHANGED <<handler, record, properties, todo>>

(* A record of one of these keywords names a well that is not there, or    *)
(* connections (WELOPEN), or a value that is none.                         *)
RecordRefused ==
  /\ handler = "none"
  /\ Throw
  /\ UNCHANGED <<wellVars, handlerVars>>

(* A pattern that selects no well makes a loop without a well. *)
NoWell ==
  /\ handler # "none"
  /\ todo = {}
  /\ handler' = "none"
  /\ UNCHANGED <<clockVars, wellVars, record, properties, todo, records>>

OtherKeyword ==
  /\ handler = "none"
  /\ (\E n \in 1 .. MaxPerKeyword : AdvanceTime(n)) \/ Complete
  /\ UNCHANGED <<wellVars, handlerVars>>

LoopStep ==
  \/ NoWell
  \/ \E w \in todo :
       \/ ProducerWell(w) \/ ProducerRefused(w)
       \/ InjectorWell(w) \/ InjectorRefused(w)

Next ==
  /\ phase = "reading"
  /\ \/ OtherKeyword
     \/ RecordRefused
     \/ \E r \in ProducerRecord, wells \in Pattern : WconproducerRecord(r, wells)
     \/ \E r \in InjectorRecord, wells \in Pattern : WconinjeRecord(r, wells)
     \/ \E r \in InjectorRecord, w \in Well : WconinjhRecord(w, r) \/ WconinjhRefused(w, r)
     \/ \E w \in Well, s \in Status : WelopenRecord(w, s)
     \/ \E w \in Well, yes \in BOOLEAN : WgrupconRecord(w, yes)
     \/ LoopStep

Spec == Init /\ [][Next]_vars
-----------------------------------------------------------------------------
(* What a WCONPROD or WCONHIST record says of one well, for a well that is *)
(* or is not available for group control.                                  *)
Asked(r, grup) ==
  [prediction |-> r.prediction,
   controls   |-> (IF r.prediction THEN Prediction(r.given) ELSE History(r.given)).controls
                    \union (IF grup THEN {"GRUP"} ELSE {}),
   mode       |-> IF r.status = "SHUT" THEN "ORAT" ELSE r.cmode]

(* A record for many wells says of each what it would say of that one      *)
(* alone: nothing of a well the loop came to before is left in the         *)
(* properties they share (Schedule.cpp:181-216).                           *)
EachWellAsIfAlone ==
  [][\A w \in Well : handler = "WCONProducer" /\ production'[w] # production[w] =>
       Get(production'[w], currentStep) = Asked(record, Now(available[w]))]_vars

(* Whatever records a well has had, at whatever steps, the mode it is to   *)
(* produce by is one of the controls it has, with one exception: the       *)
(* default ORAT of a prediction whose record shut the well or never came   *)
(* (a WELOPEN record may open the well again, and nothing checks then;     *)
(* Schedule.cpp:197-213 and :341).                                         *)
ProductionModeAvailable ==
  \A w \in Well, t \in Step :
    LET p == Get(production[w], t)
    IN  p.mode \in p.controls \/ (p.mode = "ORAT" /\ p.prediction)

(* The same for injectors, whose records build on one another: WCONINJE    *)
(* replaces the controls that WCONINJH may have added to, and a WCONINJH   *)
(* without a rate keeps the mode of the records before it.  Only a well    *)
(* without any control can have a mode that is not one                     *)
(* (Schedule.cpp:242-292 and :311-323).                                    *)
InjectionModeAvailable ==
  \A w \in Well, t \in Step :
    LET p == Get(injection[w], t)
    IN  p.mode \in p.controls \/ p.controls = {}

(* No record changes how a well is run before the current step. *)
PastIsFrozen ==
  [][\A w \in Well, t \in Step : t < currentStep =>
       /\ Get(status'[w], t) = Get(status[w], t)
       /\ Get(available'[w], t) = Get(available[w], t)
       /\ Get(isProducer'[w], t) = Get(isProducer[w], t)
       /\ Get(production'[w], t) = Get(production[w], t)
       /\ Get(injection'[w], t) = Get(injection[w], t)]_vars

(* What makes these inductive: no dynamic state of a well reaches past the *)
(* current step.                                                           *)
EndsByNow(ds) == StateSize(ds) <= currentStep + 1 /\ CacheAgrees(ds)

StatesEndByNow ==
  \A w \in Well :
    /\ EndsByNow(status[w])
    /\ EndsByNow(available[w])
    /\ EndsByNow(isProducer[w])
    /\ EndsByNow(production[w])
    /\ EndsByNow(injection[w])
=============================================================================
