# opm-parser in TLA+

TLA+ models of opm-parser, the reader of ECLIPSE input decks: how the raw text of
a deck becomes keywords and records, how its sections become tables, a grid and
properties of its cells, and how the keywords of the SCHEDULE section become
wells, groups and what they do as functions of time. TLC checks the models on
small instances; TLAPS proves the invariants of the raw parser, of the sections of
a deck and the cells of its grid, of the grid properties, of the multipliers, of
the time map and of the schedule, for every value of the constants.

Paths below are relative to the repository; `Schedule/` is
`opm/parser/eclipse/EclipseState/Schedule/`, `Parser/` is
`opm/parser/eclipse/Parser/`, and likewise `Grid/`, `Tables/`, `Deck/`,
`RawDeck/`. `PROJECT.json` maps every definition to the lines it models.

## 1. The system

The program is a library, single-threaded and without persistent state. It is a
pipeline, each stage a pass over what the stage before has made:

    JSON definitions --(JsonObject, ParserKeyword, ParserItem)--> the Parser's maps
    files --(Parser, RawKeyword)--> raw keywords
          --(RawRecord, ParserRecord, ParserItem, StarToken)--> Deck
          --(EclipseState: sections, tables, grid, properties, multipliers)--> state
          --(Schedule: a walk over the deck)--> wells and groups over time

What is hard about it is order and history. A stage is a walk over input that
nobody has checked before; every step changes state that later steps read; many
values are kept twice, cached or shared between objects; exceptions can leave a
half-done step; and almost every test feeds one keyword at a time.

| Component | State | Operations | Correct means |
|---|---|---|---|
| Raw parser (`Parser/Parser.cpp`, `RawDeck/RawKeyword.cpp`) | per file a `ParserState`: stream, line number, the raw keyword being read, the name that ended the last one, the aliases of PATHS; one deck | read a line, start and finish keywords, INCLUDE (recursive), PATHS, END, ENDINC, add to the deck | no line is in two keywords or in the wrong file, no keyword lost, none half read, the parser ends |
| Parser keywords (`Parser/ParserKeyword.cpp`, `Parser.cpp`, `opm/json`) | three maps: by name, by deck name, by wildcard | load, replace, drop, look up | a name is read by the last definition that claimed it and still lives |
| Records and items (`RawDeck/RawRecord.cpp`, `RawDeck/StarToken.hpp`, `Parser/ParserItem.hpp`) | the tokens of a record, used up from the front | split, scan an item, push repeats back, apply units | the items are what the record says if it were written out |
| Deck and sections (`Deck/`) | keywords in order and by name | add, get, cut into sections, check the order of sections | sections divide the deck |
| Time map (`Schedule/TimeMap.cpp`) | the list of times | DATES, TSTEP | strictly increasing; steps are as long as asked for |
| Dynamic state (`Schedule/DynamicState.hpp`) | a vector, a cached current value, the shared time map | `add`, `get`, `at` | a function of the report step whose past never changes |
| Wells and groups (`Schedule/Schedule.cpp`, `Well.cpp`, `Group.cpp`, `WellSet.cpp`) | wells and groups by name, their step of creation, membership in both directions | WELSPECS | both directions agree at each step |
| Group tree (`Schedule/GroupTree.cpp`) | a tree for each report step | GRUPTREE, WELSPECS | a tree, with all groups in it |
| Well controls (`Schedule/Well.cpp`, `WellProductionProperties.cpp`) | status, role, availability, controls and mode | WCONPROD, WCONHIST, WCONINJE, WCONINJH, WELOPEN, WGRUPCON | a well has the mode it is run by; wells of one pattern do not influence each other |
| Group controls (`Schedule/Group.cpp`) | role, phase, modes, targets | GCONINJE, GCONPROD | one phase at a time |
| Completions (`Schedule/Completion.cpp`, `CompletionSet.cpp`) | an ordered set of completions for each well and step | COMPDAT | one completion for each cell, the last one given |
| Grid properties, boxes (`EclipseState.cpp`, `Grid/`) | properties by name, three levels of boxes | two scans of five sections; EQUALS, COPY, ADD, MULTIPLY, BOX, ENDBOX; default values from tables | each keyword changes the cells of its box and no others, and the two scans do what one would |
| Faults, MULTREGT, TransMult (`Grid/`) | faults and faces, records by pair of regions, multipliers | FAULTS, MULTFLT, MULTREGT | each multiplier is applied once, to the right face |
| Tables (`Tables/`, `EclipseState.cpp`) | columns | construction, `evaluate` | tables follow their records, defaults are on the line between what is given |
| EclipseGrid (`Grid/EclipseGrid.cpp`) | dimensions, vectors of sizes and tops | construction | cells lie on top of each other |
| Wrappers, applications | none that changes, or none at all | | |

How they interact: the parser calls itself for an INCLUDE and shares only the deck
with the inner call. `EclipseState`'s constructor goes over the deck once for each
of its parts, in a fixed order; default values of grid properties look into tables
and regions made before. `Schedule::iterateScheduleSection` walks the deck with a
counter of its own (`currentStep`) and passes it to a handler per keyword; handlers
write dynamic states at that step. All dynamic states share one time map by pointer,
which DATES and TSTEP make longer behind their back. Wells and groups refer to each
other by name in one direction and by pointer in the other; the group tree knows
names only. Completions are shared between the sets of different steps.

The hazards that follow from this are listed in `PROJECT.json`, each at its line
with the properties that would catch it; those without a property say why.

## 2. The modules

| Module | Models | Uses |
|---|---|---|
| `TimedValue` | abstract: a value that is a function of the report step, with a frontier before which it is frozen | |
| `DynamicState` | the operators `NewState`, `Add`, `Get`, `CanAdd` on a record of vector and cache, and lemmas about them | |
| `DynamicStateMachine` | all sequences of `add()` on one dynamic state while the map grows; implements `TimedValue` | `DynamicState` |
| `ScheduleClock` | abstract: the size of the time map, the counter of the walk, and how the walk ends; every handler module works with it | |
| `TimeMap` | DATES and TSTEP, one action for each record or item, with truncation to seconds and milliseconds; implements `ScheduleClock` | |
| `GroupTree` | the value of a tree and `updateTree` | |
| `WellGroups` | WELSPECS and GRUPTREE: wells, groups, membership, trees | `ScheduleClock`, `DynamicState`, `GroupTree` |
| `WellControls` | WCONPROD, WCONHIST, WCONINJE, WCONINJH, WELOPEN, WGRUPCON | `ScheduleClock`, `DynamicState` |
| `GroupControls` | GCONINJE, GCONPROD | `ScheduleClock`, `DynamicState` |
| `Completions` | COMPDAT | `ScheduleClock`, `DynamicState` |
| `Schedule` | `iterateScheduleSection`: the walk, with the four modules above as instances over one set of variables | all of these |
| `ParserStream` | `parseStream`, `tryParseKeyword`, `RawKeyword`, record termination, INCLUDE, PATHS, END, ENDINC | |
| `ParserKeywords` | definitions becoming keywords and items, what is refused of them, the three maps of the parser | |
| `RecordScan` | `RawRecord`, `ParserItemScan`, `StarToken`, units; the steps that load and drop definitions | `ParserKeywords` |
| `DeckSections` | `Section`: delimiters, population, topology; `KeywordContainer` | |
| `Tables` | `SingleRecordTable`, `MultiRecordTable`, `FullTable` and every table class | |
| `EclipseGrid` | dimensions, the kinds of grids, vectors of sizes and tops | `DeckSections` |
| `DeckState` | the constructor of `EclipseState` up to the grid | `Tables`, `EclipseGrid` |
| `EndpointDefaults` | default end points from saturation and depth tables (`GridPropertyInitializers.hpp`) | |
| `GridProperties` | the two scans, boxes, all operations on properties | `EndpointDefaults` |
| `TransMult` | FAULTS, MULTFLT, MULTREGT, multipliers of faces | |
| `..._proof` | theorems about the module they are named after; `TimeMap_proof` also those about `DynamicStateMachine`, `Schedule_proof` those about well controls, groups and completions | |
| `MC...` | small instances | |

### Conventions

* A handler that loops over records is modelled record by record: opening it is a
  step, every record is a step, closing it is a step, and no other keyword comes
  in between. An exception (`Throw`) may end it at any record that the code
  refuses, and leaves what the records before it did. Values that the loop shares
  between its iterations are variables of the module.
* A dynamic state is a record of `m_data` and `m_currentValue`; the `m_timeMap`
  it points to is `timeSteps` of `ScheduleClock`. A setter of `Well` or `Group` is
  `Add` at `currentStep`; a getter is `Get`.
* Values that no property tells apart are left out or collapsed: rates and limits
  are "given" or "defaulted"; a target is a member of a small set; a group name
  is a model value, with `NoGroup` for `""`. This name stands for no group in the
  code, but is also that of a group once a WELSPECS record leaves GROUP out, so that
  `NoGroup` may or may not be in `Group`. Real numbers are integers,
  chosen so that what is divided comes out whole.
* `phase` or `stage` says whether a constructor goes on, has returned or has been
  left by an exception. Deadlock is not checked where the model stops with it;
  `DynamicStateMachine` never stops and is checked for it.
* Definitions whose comment says "mistake" are what the code might have said by
  accident (a dropped guard, an index one off). They are used nowhere in a
  specification; `PROJECT.json` names for each property the one that breaks it.

### Schedule

A handler works in one of the four parts, and the three others do not move; while a
keyword is open in one part, no action of the others and no step of time is
enabled. A part on its own takes any well or group and any exception of the others;
in `Schedule` a name must have been made by WELSPECS or GRUPTREE. The composition
refines each of the parts, with the identity as the mapping: handlers are called one
after the other, so this holds by how the module is put together, and the proofs use
it as a lemma. What the parts could do to each other is in properties of the
whole: `NothingBeforeItIsThere` and `EarlierStepsAreKept`. `Budget` bounds
how many records of each kind a deck mixes.

### ParserStream

The parser is the only component that reads raw text. The content of the files is
chosen while they are read: any line of `Line` may come next and a file may end
after any line. A line is what the scanner tells apart: a name (with or without
more behind it), data, data that ends with a slash, data with an odd quote, a lone
slash, a blank or a comment; the last two differ inside TITLE only, whose handling
makes a slash of a blank line and leaves a comment one. The keywords of the deck
carry the file, the line and the position they were read at as history: the code's
`DeckKeyword` has neither. `files` is the stack of `ParserState`s that the C++ call
stack of `parseStream` holds. `pc` tells where in the loop the innermost call is:
reading lines in `tryParseKeyword` ("reading"), handling a keyword with the stream
still good ("finished") or at its end ("ended"), about to return ("returning").
Records are sequences of positions in the input, so that properties can say which
line went where. A path in an INCLUDE is `Readable` or not, and one alias, `$PATH`,
stands for all.

### ParserKeywords and RecordScan

A session loads and drops definitions and then reads one record of one keyword.
A definition is a record with the fields the JSON object has, of the right types;
a regular expression is the set of names it matches. Texts are sequences of
characters, since splitting, quotes and repeat counts are about single characters;
the alphabet has one of each sort the code tells apart. The properties compare with
reference definitions of another shape: the history of definitions instead of maps,
the text with its repetitions written out instead of tokens pushed back.

### GridProperties and TransMult

The deck is chosen while the first scan goes over it and kept for the second.
`BoxesFollowTheDeck` and `AsIfInOneScan` compute box and properties from the text
of the deck, without the three levels of boxes and without the two scans. The
factors in `TransMult`'s instance are primes, so that a product says which factors
are in it and how often. `getMultiplier` and the searches over pairs of regions
are modelled cell by cell; a loop over faces, factors or pairs of cells is a
recursive function of how far it has come, so that it can be proved about.

### DeckState

The constructor's steps follow each other without choice, so that a behaviour is
given by its deck; the instance is the set of decks. Each property compares the
result with a definition that does not share the loops of the code.

## 3. What the runs check

| Run | Instance | Shows |
|---|---|---|
| `dynamic_state` | 4 steps, all values and indices | the cache is the last value; `DynamicStateMachine` implements `TimedValue` |
| `wells` | FIELD, a group and the group `""` of records without a GROUP, 1 well with all of them or 2 wells with two, 2 steps, symmetric names | a well is in the group it names and in no other that has a name, at every step; nothing is used before it was made; trees are trees, and only a group moved beneath itself is missing; the past is frozen |
| `time_map` | 4 times, 2 ticks to the millisecond and 2 ms to the second, dates -1..13, lengths -5..9 | times strictly increase; truncation loses less than 1 ms per item since the last date; lengths add up; the counter follows the map as `ScheduleClock` says |
| `schedule` | 2 wells, FIELD and a group, 2 steps, up to four records of up to three kinds in any mixture (`Budgets`) | modes are among controls; wells of a pattern are as if alone; one phase a step; one completion a cell, the last, in its first place; nothing reaches behind the making of a well; what was said for an earlier step is kept |
| `parser_records` | one file, 8 names of every kind of size, one also with a comment, up to 5 lines | no half keyword, none lost, the parser ends |
| `parser_files` | files that include files, strict parsing, up to 6 lines | END and ENDINC, aliases, keywords in one file, in order, with their line numbers |
| `grid_properties` | 2 x 2 cells, up to 5 items of 23, two saturation tables and one depth table | boxes and operations do what the text of the deck says; two scans are as one; regions are final; boxes are kept to |
| `trans_mult` | 2 x 2 x 2 cells, 2 faults, 2 factors, 3 MULTREGT records of 6, one of them refused | multipliers are products; regions and region sets are inherited from the record before |
| `records` | 4-character texts over 6 characters and longer ones, 5 keywords to read them, scripts of up to 4 loads and drops | the last definition reads; nothing is lost; repeats are as written out; units |
| `deck_state` | decks of every table, edits of legal orders of sections, grids of 2 x 3 x 2 cells | sections, tables, defaults, interpolation, cells |
| `endnum`, `rocktab` | smallest instances | the disagreements of section 5 |

Why the bounds are enough for what they show: a dynamic state can be shorter than,
level with and behind the map from three steps on (`dynamic_state`); with two, a
keyword already comes before, at and after the step a well was made at. A move of a
well needs two groups, or one and `""`; a tree that is cut off two groups beside the
root, of which one may be `""`. Neither needs a second well, and what wells do to each
other in the sets of groups shows in two groups, so that `wells` has not all of them
at once (`FewNames`); that the bound hides nothing is what section 4 proves. The loop
over a pattern shares one object from one well to the next, so two wells in either
order show everything a third could. The shortest input that tells the sizes of
keywords apart is five lines (a size, its name, a keyword of that size, its data,
the next name), and an included file that ends its includer with END takes six. A
box that stays by mistake needs an operation with a box, one without, and a
property loaded before them; five items leave room for a BOX or a section around
them. Two layers and rows of different lengths tell the strides of a grid apart;
a vector continued from the layer above needs two layers and data that ends within
one. A MULTREGT record that inherits and is then replaced needs three. A default
between, before and behind given values needs four rows. The bounds are `MaxSteps`,
`MaxLength`, `MaxPerKeyword`, `MaxRecords`, `Budget`, `MaxLines`, `MaxItems`, `MaxFaces`,
`MaxFactors`, `MaxRegions`, each a guard of the actions that would pass it, and the
constraint `FewNames`.

Deadlock is off for all runs but `dynamic_state`: the constructors and the parser
stop when they are done, and the bounds stop them before.

Fairness is assumed once: `FairSpec` of `ParserStream` has `WF_vars(Next)`, which
says that the parser goes on as long as it can. It is the only thread, its input is
finite, and nothing it calls waits for anybody else. `ParsingEnds` shows that every
path through the two loops uses up input or leaves them. The other walks are loops
over a deck that is there, and end with it by their shape.

## 4. What is proved

All theorems hold for every value of the constants, under the assumptions the
modules name, which TLC evaluates in a run of each: `ClockAssumption` (at least one
step), `GroupTreeAssumption` (the root is a group), `TimeMapAssumption` (units are
positive), `MachineAssumption`;
`ScheduleAssumption` with the `...Constants` of the three other parts (records say
what the handler expects of them, in the right types); `ParserStreamAssumption`
(the parser's keywords have shapes, a size given by another keyword is that of one
with a single record that starts with a whole number, and INCLUDE and TITLE have a
fixed size) and `NoneIsNoKeyword`; `GridAssumption` (the grid has cells, scaling
is positive), `ItemAssumption` (the deck has names of properties and numbers where
they belong), `DepthAssumption` and `EndpointAssumption` (tables have their
columns, SWOF and SGOF rows and equal numbers of tables); `TransMultAssumption`
(the grid has cells, its data are whole numbers, records are of their types);
`NaNAssumption` (a value that is missing is no number) and `DeckAssumption` (a deck
is a sequence, the sizes of a grid are positive, the values of DZ, DZV and TOPS are
whole numbers, and the records of tables are items with values).

* `WellGroups_proof`: all properties of the run `wells`. Three invariants, each
  built on the one before: `MembershipInv` adds to the agreement that no dynamic
  state reaches past the current step (else `add` could refuse or `Get` before and
  after differ), that the counter is the last step, and that named groups exist.
  Nothing is assumed of `""`: the theorems hold whether or not it is the name of a
  group. `Membership` says that a well is in the group it names and in no other but,
  possibly, the group `""`, which a well never leaves (section 5). `DefinedInTime`
  tells whether a well is in some group by the sets of the groups, and not by the
  name the well has for its own, since `""` would leave that open.
  `TreeInv` adds that the copy of a WELSPECS that added no group is still the
  current tree, since the handler then throws the copy away. `DefinedInv` adds that
  nothing was created after the current step. The lemmas the module begins with
  prove that `UpdateTree` keeps a tree rooted, which is where a move beneath oneself
  needs its own case: reachability is defined as the least closed set, so the proof
  needs no induction.
* `TimeMap_proof`: strict order, the bound of the drift, that lengths add up, and
  that the time map implements `ScheduleClock`. `TimeInv` joins them with the fact
  that the counter is behind the map by exactly the items of the open keyword. The
  lemmas on truncated division say that a stored length is less than a millisecond
  short of what was asked for, on either side of zero, and that the guard of
  `addTStep` lets only positive ones pass. The sum of the lengths is a recursive
  function; that it has its recursion equation, and the induction over it, are
  taken from a least counterexample: the order of the natural numbers is
  well-founded.
  The module also holds what is proved of the dynamic state that shares the map:
  its types (`StateTypeCorrect`), that the cached value is the last of the vector
  (`CacheCorrect`), and `StateIsTimedValue`: the refinement of `TimedValue` under the
  mapping `value[t] = Get(ds, t)`. The invariant is that cache and vector agree;
  without it padding could write an old value into a new step. The lemmas at the end
  of `DynamicState` (`GetAdd`: what `Get` answers after `Add`, at every index)
  carry everything that is proved about the schedule.
* `Schedule_proof` holds all that is proved of the whole, and of the three parts
  that are proved as it instantiates them:
  - The lemma `PartsAreImplemented` carries what is proved of a part over to the
    whole: each step of the walk is a step of one of them, and the others see a
    stutter, a step of time, or `Throw`.
  - Wells: modes are among controls, for producers and injectors; wells of a pattern
    are as if alone; the past is frozen. The invariant `WellInv` joins the types,
    that no dynamic state ends after the current step, and that what the loop over a
    pattern shares is what the record asks for, with GRUP as the well handled last
    had it (`SharedFollowsRecord`): without it nothing is known of the object the
    next well gets. `StepWrites` says once what any handler may write to one well,
    and the theorems are about such a write.
  - Groups: a phase, once set at a step, stays, and a new step takes any phase. Both
    rest on dynamic states not ending after the current step, so that their size
    tells whether this step has a phase.
  - Completions: `TheLastRecordWins`, `PlacesStay`. The invariant `CompletionsInv`
    says of a COMPDAT half done what it still *owes* each well (`Owes`): the cells of
    its set and of its list together are those the records have named, and each
    cell has what its last record said, in the list if it is there and else in the
    set. The first loop of the handler makes the list longer, the second moves its
    entries to the set, and neither changes that sum; it is what the properties,
    which are about a keyword that is done, cannot say of one that is not.
  - `NothingBefore` is a property of the whole only: a well is made by one part and
    written to by two others. Its invariant `BeforeInv` adds that the wells of an
    open handler are there and were made by now; that each of the ten dynamic states
    either belongs to nothing yet and is what its constructor left, or keeps its past.
  - `EarlierSteps`: what a well or a group was told for an earlier step stays. A value
    is written at the current step only; that this leaves the earlier ones alone needs
    again that no dynamic state ends after it, for all nine states at once.
  - The other properties the run `schedule` checks of the whole follow from the theorems of
    the parts and the refinement.
* `ParserStream_proof`: keywords keep their lines and their order, none in the deck is
  half read, aliases stay in their file, END stops every file. `ParserInv` describes
  the whole stack of files. A raw keyword is as far as the lines it has taken say,
  and so is what ended it (`RawOK`, `FileOK`); a keyword whose size another one
  gives has the size which that one, the last of its name in the deck before it,
  says (`KeywordOK`), also while the deck grows behind it; every file but the
  innermost waits at its INCLUDE (`Waiting`), with all its lines before those of the
  file it includes, so that a return finds the order as it was. Without the line
  counters (`LinesCounted`) nothing relates a keyword's line number to the line.
  The facts are stated of any input and deck and shown to survive their growth, so
  that each action is left with the one file it changes.
  `NoNameIsLost` proves `NoKeywordIsLost` for inputs of one file all of whose keywords
  go into the deck (`OnlyRecords`, the hypothesis of the theorem, which the constants
  of the run `parser_records` satisfy). Its invariant `NamesInv` says where each known
  name is (`NamesKept`: in the deck, in the raw keyword with the record it has begun,
  in `nextKeyword`, or swallowed) and what a file still has to hand over
  (`HandsOver`): a finished keyword with a line that is in none of its records is one
  without records whose name ended a keyword of unknown size (`Early`), so that only
  that line can get lost.
* `GridProperties_proof`: all properties of the run `grid_properties`, and the types.
  `GridInv` says that the boxes are those of the deck at the place of the scan, and
  that records are followed by records of their keyword or its end: only so does
  the box that a record inherits belong to its own keyword. Every handler is then
  shown to be one write, or none, with the meaning of its item (`HandlerMeans`).
  `TwoScansAreOne` compares the state at the end with a recursive definition, the
  meaning of the deck read at once. Its invariant `OneScanInv` says that there *are*
  two histories: what the first scan made of each beginning of the deck, and what
  each beginning means with the regions the whole deck ends with. They agree on
  whole numbers at every place, since nothing that is written to a region depends
  on regions; and the properties of the second scan are the last of the first
  history and the real ones of the second. That the properties stay in the box is
  arithmetic: the index list of a box has the coordinates of its cells (`ListedCellIs`),
  each once (`ListedOnce`), and a box as large as the grid is the grid
  (`FullBoxHasAll`), which is what the code takes for granted when it compares
  sizes. `TypeCorrect` includes that no lookup of an end point, and no value loaded
  from a keyword, is read from beyond its table or list.

* `TransMult_proof`: all properties of the run `trans_mult`, and the types.
  `MultipliersAreProducts` compares what `getMultiplier` answers with a product over
  the records of the deck: of the last factor of its fault, for each FAULTS record
  the face lies on, and of the factor of each MULTREGT record that names the regions
  on the two sides and has no later record of that pair. `IInv` joins it with what
  the program keeps in between. `RecordsFollow`: the list of MULTREGT records is
  what the deck has asked for, each with the regions that it or the nearest record
  before it names. `FaultsFollow`: faults have different names, all that were asked
  for are there, their faces are those of their records, and each factor is that of
  the last MULTFLT record. `FaultsApplied`: before MULTREGT is applied, the
  multipliers are those of the grid properties and the faults.
  The code multiplies fault by fault and connection by connection, the property
  record by record; `Interchange` says that the two orders make one product, and
  `ConnectionsOfFace` that a face is crossed by at most one connection, from the
  arithmetic of cell indices (`CellIs`, `CellBack`, `NextIsAcross`). That recursive
  functions satisfy their recursion equations is again taken from a least
  counterexample (`LoopIs`), and for loops over a finite set, whose order the code
  does not fix, from its cardinality (`SetLoopExists`).
* `DeckState_proof`: of the run `deck_state`, what is about sections, cells and the
  evaluation of tables.
  `SectionsCoverTheDeck` is an equivalence between two pieces of code. If the test
  of the order passes, sections are numbered (`Rank`), the numbers go up from one
  delimiter to the next (`RanksGoUp`), each section ends where a later one begins,
  and one after the other they make up the deck (`OneMoreSection`). If the sections
  make up the deck, each begins with its name and has no other delimiter in it
  (`IsBlock`), so that putting one behind another keeps the order (`NextBlock`). The
  invariant `SectionsInv` only says that a strict reading remembers the test.
  `CellsAreStacked` rests on the arithmetic of layers (`NextLayer`, `LayerIs`) and on
  induction from a cell to the one above it (`CellInduction`): a vector continued
  downwards has the value of the lowest cell given (`ContinuedTakesTheLowest`), and
  the sum of the thicknesses grows by one layer a step (`ThicknessAboveIs`). Here, too,
  that the recursive definitions have a solution is proved (`DownwardExists`). The
  invariant `GridInv` says that a grid is the one of its deck.
  `EvaluateInterpolates` has two halves. `HalvingInterpolates` is about `evaluate()`
  alone, for a first column of any length that goes up or falls: x stays between the
  two ends of what is left (`HalvingFinds`, by induction over its width), so the search
  ends at two neighbouring rows around x, and the line through them is the only one
  the property allows (`Chords`). That the first column does go up or fall is what
  `init()` is for: a kind of table is sound (`IsSoundKind`) if each of its steps finds
  what it relies on - `applyDefaultsLinear` a first column that is given and strictly
  monotonic - every column but SWMAX is checked or filled in by some step, and a kind
  that is evaluated orders its first column. All kinds are (`KindsAreSound`, which the
  list of columns and steps of each kind decides), one step after the other keeps what
  the ones before it have seen to (`StepIs`), and so a table is refused or a good one
  (`InitTableIs`), whether it is cut out of one record (`SingleRecordIs`) or of several
  (`MultiRecordIs`; there is a first record of each table that is counted,
  `FirstRecordIs`), or repeats the table before it (`SimpleTablesAreGood`). The
  invariant `TablesInv` says that every table that is there is good, and that the kinds
  still to come are kinds the deck has; TLC finds it true in every state of
  `deck_state`. `TablesAreWhole`, the type invariant, follows from it as well.
  ROCKTAB is in neither: its columns come from another keyword, and section 5 says what
  becomes of it.

Model-checked only:

* `ParsingEnds`, which is liveness. (`NoKeywordIsLost` where files include files is
  neither checked nor proved; the lines of an ignored keyword are meant to be lost.)
* Records and parser keywords (`RecordScan`, `ParserKeywords`): their definitions walk
  over texts, with the folds and selections of the community modules, which take
  operators as parameters; what they compute for every input is an induction over data
  for each.
* `TablesFollowRecords` and `DefaultsLieOnLines` of `DeckState`. The first compares the
  walk over the records of full tables with their selection and concatenation in one
  piece, which is such an induction. The second holds in decks where every
  interpolated value is a whole number: the division in `OnLine` is then exact, which
  is a choice of the decks in `MCDeckState` and nothing a theorem can start from. What
  is proved of filling in is that no gap is left.

## 5. Where code and documents disagree

Shown by runs of their own:

* `endnum`: with ENDNUM in the deck, the saturation region of each cell is taken
  from ENDNUM (`Grid/GridPropertyInitializers.hpp:108-110` assigns `satnumData`), so
  that the assertion at :202 can fail and the depth region is 1 everywhere.
* `rocktab`: `Tables/RocktabTable.hpp:54-60` fills the columns of the other variant
  than the one it made (:44-46), and looking them up throws for every ROCKTAB.

Met while modelling, and modelled as the code has it:

* GROUP has no default in `opm/parser/share/keywords/W/WELSPECS:3`, so that a record
  without it names the group `""` (`Parser/ParserItem.hpp:133-147`), which
  `Schedule/Schedule.cpp:132-145` makes and puts the well in. For `addWellToGroup` the
  name `""` says that the well is in no group (:550), and the next record does not
  take it out: the well is in two groups from then on, although the group a well was
  in is left in the test of moving one
  (`opm/parser/eclipse/IntegrationTests/ScheduleCreateFromDeck.cpp:439`).
  `MembershipAgrees` excepts the group `""`, and no other.
* A group moved beneath itself by GRUPTREE is cut off the tree with all below it
  (`Schedule/GroupTree.cpp:42-51`); `Schedule/tests/GroupTreeTests.cpp:104-109`
  expects a moved child under its parent. `OnlyCutOffGroupsMissing` and the theorem
  on it say that nothing else is missing.
* A keyword without records that ends a keyword of unknown size swallows the line
  after it (`Parser/Parser.cpp:364-392`; `docs/keywords.txt:71-72`), and a keyword
  name with a comment behind it is data there (`Parser/Parser.cpp:380`,
  `RawDeck/RawKeyword.cpp:173`; `opm/parser/share/keywords/V/VFPPROD:10-12`).
  `NoKeywordIsLost` excepts these two.
* A TSTEP item of less than a second is refused with "Can only add positive steps"
  (`Schedule/TimeMap.cpp:98-102`). WCONHIST makes GRUP and BHP controls of a well,
  though `Schedule/ScheduleEnums.hpp:120-121` says that they only apply in
  prediction mode.
* A repeated value that is itself a repetition (`2*2*x`) is expanded by an item of
  size one, against the comment at `Parser/ParserItem.hpp:151-153`; `ReadAsWritten`
  excepts it. Text that touches an opening quote is lost (`RawDeck/RawRecord.cpp:143`);
  `NothingIsLost` excepts it. Whether a list of doubles is in default units is
  decided by its last value (`Deck/DeckDoubleItem.cpp:115-120`);
  `ValuesHaveTheirUnits` is about the values that agree with it.
* `dropParserKeyword` does not give a deck name back to the definition that had it
  before, and a definition loaded again keeps its former deck names and wildcard
  (`Parser/Parser.cpp:152-185`). A "FIXED" size in JSON leaves the number unset
  (`Parser/ParserKeyword.cpp:200`).
* ISWU asks for ENPTVD although its family is of IMPTVD
  (`Grid/GridPropertyInitializers.hpp:257`).
* The second getters of PLYADS and PLYVISC return the first column
  (`Tables/PlyadsTable.hpp:64-65`, `PlyviscTable.hpp:63-64`); the defaults of SWMAX in
  ENPTVD and IMPTVD are never filled in; `evaluate` of a table of one row reads
  behind its column (`Tables/SingleRecordTable.cpp:124`), which is undefined and
  left out of `EvaluateInterpolates`; an empty ROCKTAB record writes behind the
  vector (`EclipseState.cpp:348`), which `rocktab` makes unreachable.
* A record of PVTO or PVTG whose first item is defaulted ends the table like an empty
  one (`Tables/MultiRecordTable.cpp:113`).
* Too many values of TOPS are cut off silently while too many of DX are an error
  (`Grid/EclipseGrid.cpp:378-380`), and ACTNUM is ignored for grids that are not
  corner point (:358, :368).
* A keyword's index is its place in the section that holds it last, not in the deck
  (`Deck/KeywordContainer.cpp:40`).

## 6. What is not modelled

* The geometry of the grid (volumes, centres, active cells, output): the external
  ecl library computes it from what `EclipseGrid` models.
* The cJSON reader of text, and the generators of the C++ list of keywords: they run
  before a deck is read. Regular expressions are sets of names.
* Floating point: factors, offsets and rounding of units and tables.
* A second `EclipseState` in one process, which would meet the static table of
  properties of the first (`EclipseState.cpp:427`); a file that includes itself.
* Wrappers and applications: accessors by name, and programs that print.
* One composition of parser, state and schedule: their interface is the deck, a value
  that no longer changes.

What could come next: `NoKeywordIsLost` across INCLUDE, for all keywords that are not
ignored; what tables hold of their records as a theorem; `GridProperties` and `TransMult` composed with
`DeckState`, so that tables, regions and boxes come from one deck.

## 7. Running

    tlc -config MCSchedule.cfg MCSchedule
    tlapm WellGroups_proof.tla

Each run of `PROJECT.json` names its module and configuration.
