---------------------------- MODULE TimeMap_proof ----------------------------
(***************************************************************************)
(* Proofs about TimeMap, for every unit of time, every start and all       *)
(* lengths and dates a deck can ask for; and in the end about a dynamic    *)
(* state, which shares the time map (DynamicStateMachine).                 *)
(***************************************************************************)
EXTENDS TimeMap, DynamicStateMachine, SequenceTheorems, WellFoundedInduction, TLAPS

(* Division of whole numbers, for a divisor that is only known to be       *)
(* positive.                                                               *)
LEMMA Division ==
  ASSUME NEW a \in Nat, NEW u \in Nat \ {0}
  PROVE  /\ a \div u \in Nat
         /\ (a \div u) * u \in Int
         /\ (a \div u) * u <= a
         /\ a - (a \div u) * u <= u - 1
  OBVIOUS

LEMMA TruncatedType ==
  ASSUME NEW a \in Int, NEW u \in Nat \ {0}
  PROVE  /\ Truncated(a, u) \in Int
         /\ Truncated(a, u) > 0 => a > 0
         /\ a >= 0 => Truncated(a, u) = a \div u
  <1>1. CASE a >= 0
    <2>1. a \div u \in Nat
      BY <1>1, Division
    <2>2. a = 0 => a \div u = 0
      OBVIOUS
    <2>3. QED
      BY <1>1, <2>1, <2>2 DEF Truncated
  <1>2. CASE a < 0
    <2>1. (-a) \div u \in Nat
      BY <1>2, Division
    <2>2. QED
      BY <1>2, <2>1 DEF Truncated
  <1>3. QED
    BY <1>1, <1>2

LEMMA UnitType == TicksPerSecond \in Nat \ {0} /\ TicksPerMilli \in Nat \ {0}
  BY TimeMapAssumption DEF TicksPerSecond

(* What is stored of a positive length: less than a millisecond is lost.   *)
LEMMA StoredType ==
  ASSUME NEW len \in Int
  PROVE  Stored(len) \in Int
  <1>1. WholeSeconds(len) \in Int /\ TicksPerSecond \in Int /\ TicksPerMilli \in Int
    BY TruncatedType, UnitType DEF WholeSeconds
  <1>2. WholeSeconds(len) * TicksPerSecond \in Int
    BY <1>1
  <1>3. Truncated(len - WholeSeconds(len) * TicksPerSecond, TicksPerMilli) \in Int
    BY <1>2, TruncatedType, UnitType
  <1>4. Truncated(len - WholeSeconds(len) * TicksPerSecond, TicksPerMilli) * TicksPerMilli \in Int
    BY <1>1, <1>3
  <1>5. QED
    BY <1>2, <1>4 DEF Stored

LEMMA StoredLoses ==
  ASSUME NEW len \in Nat
  PROVE  Stored(len) <= len /\ len - Stored(len) <= TicksPerMilli - 1
  <1> DEFINE whole == WholeSeconds(len) * TicksPerSecond
             rest  == len - whole
             milli == Truncated(rest, TicksPerMilli) * TicksPerMilli
  <1>1. WholeSeconds(len) = len \div TicksPerSecond
    BY TruncatedType, UnitType DEF WholeSeconds
  <1>2. whole \in Int /\ whole <= len
    BY <1>1, Division, UnitType
  <1>3. rest \in Nat
    BY <1>2
  <1>4. Truncated(rest, TicksPerMilli) = rest \div TicksPerMilli
    BY <1>3, TruncatedType, UnitType
  <1>5. milli \in Int /\ milli <= rest /\ rest - milli <= TicksPerMilli - 1
    BY <1>3, <1>4, Division, UnitType
  <1>6. Stored(len) = whole + milli
    BY DEF Stored
  <1> HIDE DEF whole, milli
  <1>7. QED
    BY <1>2, <1>5, <1>6, UnitType

LEMMA AcceptedIsPositive ==
  ASSUME NEW len \in Int, StepAccepted(len)
  PROVE  Stored(len) > 0 /\ len > 0
  <1>1. Stored(len) \in Int
    BY StoredType
  <1>2. Stored(len) > 0
    BY <1>1, TruncatedType, UnitType DEF StepAccepted
  <1>3. len > 0
    <2>1. SUFFICES ASSUME ~ (len > 0) PROVE FALSE
      OBVIOUS
    <2>2. -len \in Nat
      BY <2>1
    <2> DEFINE whole == WholeSeconds(len) * TicksPerSecond
               rest  == len - whole
               milli == Truncated(rest, TicksPerMilli) * TicksPerMilli
    <2>3. whole \in Int /\ whole >= len /\ whole <= 0
      <3>1. WholeSeconds(len) = -((-len) \div TicksPerSecond)
        <4>1. CASE len = 0
          BY <4>1, UnitType DEF WholeSeconds, Truncated
        <4>2. CASE len < 0
          BY <4>2 DEF WholeSeconds, Truncated
        <4>3. QED
          BY <2>1, <4>1, <4>2
      <3>2. /\ ((-len) \div TicksPerSecond) * TicksPerSecond \in Int
            /\ ((-len) \div TicksPerSecond) * TicksPerSecond <= -len
            /\ (-len) \div TicksPerSecond \in Nat
        BY <2>2, Division, UnitType
      <3>3. \A q \in Nat, u \in Nat : q * u \in Nat /\ (-q) * u = -(q * u)
        OBVIOUS
      <3>4. QED
        BY <3>1, <3>2, <3>3, UnitType
    <2>4. rest \in Int /\ rest <= 0
      BY <2>3
    <2>5. Truncated(rest, TicksPerMilli) \in Int /\ ~ (Truncated(rest, TicksPerMilli) > 0)
      BY <2>4, TruncatedType, UnitType
    <2>6. milli \in Int /\ milli <= 0
      <3>1. \A q \in Int, u \in Nat : ~ (q > 0) => q * u \in Int /\ q * u <= 0
        OBVIOUS
      <3>2. QED
        BY <2>5, <3>1, UnitType
    <2>7. Stored(len) = whole + milli
      BY DEF Stored
    <2> HIDE DEF whole, milli
    <2>8. QED
      BY <1>2, <2>3, <2>6, <2>7
  <1>4. QED
    BY <1>2, <1>3
-----------------------------------------------------------------------------
(* The invariant: the list is sorted and its end has drifted no further    *)
(* from what was asked for than the items since the last date explain.     *)
TimeInv == TypeOK /\ CounterFollows /\ StrictlyIncreasing /\ DriftBounded

LEMMA TimeInit == Init => TimeInv
  <1> SUFFICES ASSUME Init PROVE TimeInv
    OBVIOUS
  <1>1. timeList = <<Start>> /\ Start \in Int /\ Len(timeList) = 1 /\ timeList[1] = Start
    BY TimeMapAssumption DEF Init
  <1>2. TypeOK
    BY <1>1, TimeMapAssumption DEF Init, TypeOK
  <1>3. StrictlyIncreasing /\ CounterFollows
    BY <1>1 DEF Init, StrictlyIncreasing, CounterFollows
  <1>4. DriftBounded
    BY <1>1, TimeMapAssumption DEF Init, DriftBounded, LastTime
  <1>5. QED
    BY <1>2, <1>3, <1>4 DEF TimeInv

(* One more entry, later than the last. *)
LEMMA AppendLater ==
  ASSUME TimeInv, NEW t \in Int, t > LastTime, open # "none", Append1(t)
  PROVE  /\ timeList' \in Seq(Int) /\ Len(timeList') \in 1 .. MaxSteps
         /\ LastTime' = t
         /\ handled' \in 0 .. MaxPerKeyword /\ handled' < Len(timeList')
         /\ StrictlyIncreasing' /\ CounterFollows'
  <1>1. /\ timeList \in Seq(Int) /\ Len(timeList) \in Nat /\ Len(timeList) >= 1
        /\ handled \in Nat /\ handled < MaxPerKeyword /\ handled < Len(timeList)
        /\ Len(timeList) < MaxSteps /\ MaxSteps \in Nat /\ MaxPerKeyword \in Nat
    BY TimeMapAssumption DEF TimeInv, TypeOK, Append1
  <1>2. /\ timeList' = Append(timeList, t)
        /\ handled' = handled + 1 /\ open' = open /\ currentStep' = currentStep
    BY DEF Append1
  <1>3. /\ timeList' \in Seq(Int) /\ Len(timeList') = Len(timeList) + 1
        /\ timeList'[Len(timeList) + 1] = t
        /\ \A i \in 1 .. Len(timeList) : timeList'[i] = timeList[i]
    BY <1>1, <1>2
  <1>4. LastTime' = t
    BY <1>3 DEF LastTime
  <1>5. \A i \in 1 .. Len(timeList) :
          timeList[i] \in Int /\ timeList[i] <= LastTime /\ LastTime \in Int
    BY <1>1 DEF TimeInv, StrictlyIncreasing, LastTime
  <1>6. StrictlyIncreasing'
    <2> SUFFICES ASSUME NEW i \in 1 .. Len(timeList'), NEW j \in 1 .. Len(timeList'), i < j
                 PROVE  timeList'[i] < timeList'[j]
      BY DEF StrictlyIncreasing
    <2>1. i \in 1 .. Len(timeList)
      BY <1>1, <1>3
    <2>2. CASE j \in 1 .. Len(timeList)
      BY <2>1, <2>2, <1>3 DEF TimeInv, StrictlyIncreasing
    <2>3. CASE j = Len(timeList) + 1
      BY <2>1, <2>3, <1>3, <1>5
    <2>4. QED
      BY <2>2, <2>3, <1>1, <1>3
  <1>7. CounterFollows'
    <2>1. currentStep = Len(timeList) - handled - 1
      BY DEF TimeInv, CounterFollows
    <2>2. currentStep' = Len(timeList') - handled' - 1
      BY <1>1, <1>2, <1>3, <2>1
    <2>3. QED
      BY <1>2, <2>2 DEF CounterFollows
  <1>8. QED
    BY <1>1, <1>2, <1>3, <1>4, <1>6, <1>7

LEMMA TimeStep == TimeInv /\ [Next]_vars => TimeInv'
  <1> SUFFICES ASSUME TimeInv, [Next]_vars PROVE TimeInv'
    OBVIOUS
  <1>1. /\ timeList \in Seq(Int) /\ Len(timeList) \in 1 .. MaxSteps /\ MaxSteps \in Nat
        /\ LastTime \in Int /\ asked \in Int /\ sinceDate \in Nat
        /\ handled \in 0 .. MaxPerKeyword /\ currentStep \in Nat
    BY TimeMapAssumption DEF TimeInv, TypeOK, LastTime
  <1>2. ASSUME NEW t \in Time, DatesRecord(t)
        PROVE  TimeInv'
    <2>1. /\ t \in Int /\ t > LastTime /\ Append1(t) /\ open = "DATES" /\ open' = open
          /\ asked' = t /\ sinceDate' = 0 /\ currentStep' = currentStep /\ phase' = phase
      BY <1>2, TimeMapAssumption DEF DatesRecord, DateAccepted, Append1
    <2>2. /\ timeList' \in Seq(Int) /\ Len(timeList') \in 1 .. MaxSteps /\ LastTime' = t
          /\ handled' \in 0 .. MaxPerKeyword /\ handled' < Len(timeList')
          /\ StrictlyIncreasing' /\ CounterFollows'
      BY <2>1, AppendLater
    <2>3. TypeOK'
      BY <2>1, <2>2, <1>1 DEF TimeInv, TypeOK
    <2>4. DriftBounded'
      BY <2>1, <2>2, TimeMapAssumption DEF DriftBounded
    <2>5. QED
      BY <2>2, <2>3, <2>4 DEF TimeInv
  <1>3. ASSUME NEW len \in Length, TstepItem(len)
        PROVE  TimeInv'
    <2>1. /\ Append1(LastTime + Stored(len)) /\ open = "TSTEP" /\ open' = open
          /\ asked' = asked + len /\ sinceDate' = sinceDate + 1
          /\ currentStep' = currentStep /\ phase' = phase /\ StepAccepted(len)
      BY <1>3 DEF TstepItem, Append1
    <2>2. len \in Nat /\ Stored(len) \in Int /\ Stored(len) > 0
      BY <2>1, AcceptedIsPositive, StoredType, TimeMapAssumption
    <2>3. /\ timeList' \in Seq(Int) /\ Len(timeList') \in 1 .. MaxSteps
          /\ LastTime' = LastTime + Stored(len)
          /\ handled' \in 0 .. MaxPerKeyword /\ handled' < Len(timeList')
          /\ StrictlyIncreasing' /\ CounterFollows'
      BY <1>1, <2>1, <2>2, AppendLater
    <2>4. TypeOK'
      BY <2>1, <2>2, <2>3, <1>1 DEF TimeInv, TypeOK
    <2>5. DriftBounded'
      <3>1. Stored(len) <= len /\ len - Stored(len) <= TicksPerMilli - 1
        BY <2>2, StoredLoses
      <3>2. LastTime <= asked /\ asked - LastTime <= sinceDate * (TicksPerMilli - 1)
        BY DEF TimeInv, DriftBounded
      <3>3. TicksPerMilli - 1 \in Nat
        BY TimeMapAssumption
      <3>4. \A n, k \in Nat : n * k \in Nat /\ (n + 1) * k = n * k + k
        OBVIOUS
      <3>5. /\ sinceDate * (TicksPerMilli - 1) \in Nat
            /\ sinceDate' * (TicksPerMilli - 1)
                 = sinceDate * (TicksPerMilli - 1) + (TicksPerMilli - 1)
        BY <3>3, <3>4, <1>1, <2>1
      <3>6. \A last, want, lost, more, got, step \in Int :
              /\ last <= want /\ want - last <= lost
              /\ got <= step /\ step - got <= more
              => last + got <= want + step /\ want + step - (last + got) <= lost + more
        OBVIOUS
      <3>7. LastTime' <= asked' /\ asked' - LastTime' <= sinceDate' * (TicksPerMilli - 1)
        <4> DEFINE k    == TicksPerMilli - 1
                   lost == sinceDate * k
        <4>1. k \in Int /\ lost \in Int /\ len \in Int /\ Stored(len) \in Int
          BY <2>2, <3>3, <3>5
        <4>2. sinceDate' * k = lost + k
          BY <3>5
        <4>3. LastTime <= asked /\ asked - LastTime <= lost
          BY <3>2
        <4>4. Stored(len) <= len /\ len - Stored(len) <= k
          BY <3>1
        <4> HIDE DEF k, lost
        <4>5. /\ LastTime + Stored(len) <= asked + len
              /\ asked + len - (LastTime + Stored(len)) <= lost + k
          BY <1>1, <3>6, <4>1, <4>3, <4>4
        <4>6. LastTime' = LastTime + Stored(len) /\ asked' = asked + len
          BY <2>1, <2>3
        <4>7. LastTime' <= asked' /\ asked' - LastTime' <= sinceDate' * k
          <5>1. LastTime' <= asked'
            BY <4>5, <4>6
          <5>2. asked' - LastTime' <= lost + k
            BY <1>1, <4>1, <4>5, <4>6
          <5>3. QED
            BY <4>2, <5>1, <5>2
        <4>8. QED
          BY <4>7 DEF k
      <3>8. QED
        BY <3>7 DEF DriftBounded
    <2>6. QED
      BY <2>3, <2>4, <2>5 DEF TimeInv
  <1>4. CASE CloseKeyword
    <2>1. /\ timeList' = timeList /\ currentStep' = currentStep + handled /\ open' = "none"
          /\ handled' = 0 /\ phase' = phase /\ asked' = asked /\ sinceDate' = sinceDate
      BY <1>4 DEF CloseKeyword, historyVars
    <2>2. TypeOK'
      BY <2>1, <1>1, TimeMapAssumption DEF TimeInv, TypeOK
    <2>3. CounterFollows'
      BY <2>1, <1>1 DEF TimeInv, CounterFollows
    <2>4. StrictlyIncreasing' /\ DriftBounded'
      BY <2>1 DEF TimeInv, StrictlyIncreasing, DriftBounded, LastTime
    <2>5. QED
      BY <2>2, <2>3, <2>4 DEF TimeInv
  <1>5. ASSUME timeList' = timeList, currentStep' = currentStep, handled' = handled,
               open' = open \/ open = "none", open' \in {"none", "DATES", "TSTEP"},
               phase' \in {"reading", "complete", "thrown"}, historyVars' = historyVars
        PROVE  TimeInv'
    <2>1. TypeOK'
      BY <1>5 DEF TimeInv, TypeOK, historyVars
    <2>2. CounterFollows'
      BY <1>5 DEF TimeInv, CounterFollows
    <2>3. StrictlyIncreasing' /\ DriftBounded'
      BY <1>5 DEF TimeInv, StrictlyIncreasing, DriftBounded, LastTime, historyVars
    <2>4. QED
      BY <2>1, <2>2, <2>3 DEF TimeInv
  <1>6. CASE \E name \in {"DATES", "TSTEP"} : OpenKeyword(name)
    BY <1>5, <1>6 DEF OpenKeyword, TimeInv, TypeOK
  <1>7. CASE DatesRecordRefused
    BY <1>5, <1>7 DEF DatesRecordRefused, Throw, TimeInv, TypeOK
  <1>8. CASE \E len \in Length : TstepItemRefused(len)
    BY <1>5, <1>8 DEF TstepItemRefused, Throw, TimeInv, TypeOK
  <1>9. CASE Complete
    BY <1>5, <1>9 DEF Complete, TimeInv, TypeOK
  <1>10. CASE UNCHANGED vars
    BY <1>5, <1>10 DEF vars, TimeInv, TypeOK
  <1>11. QED
    BY <1>2, <1>3, <1>4, <1>6, <1>7, <1>8, <1>9, <1>10 DEF Next

THEOREM TimeInvariant == Spec => []TimeInv
  BY TimeInit, TimeStep, PTL DEF Spec

(* Every report step starts later than the one before it. *)
THEOREM Increasing == Spec => []StrictlyIncreasing
  <1>1. TimeInv => StrictlyIncreasing
    BY DEF TimeInv
  <1>2. QED
    BY <1>1, TimeInvariant, PTL

(* The map is never further from the times asked for than the items since  *)
(* the last date explain, for every unit of time.                          *)
THEOREM DriftStaysBounded == Spec => []DriftBounded
  <1>1. TimeInv => DriftBounded
    BY DEF TimeInv
  <1>2. QED
    BY <1>1, TimeInvariant, PTL

-----------------------------------------------------------------------------
(* Induction over the steps.  The sums of the lengths are a recursive      *)
(* function (a simulator's loop over getTimeStepLength()), so they are     *)
(* proved about by the least step at which a claim would fail.             *)
LEMMA NatMin ==
  ASSUME NEW T \in SUBSET Nat, T # {}
  PROVE  \E x \in T : \A y \in T : x <= y
  <1> DEFINE R == {p \in Nat \X Nat : p[1] < p[2]}
  <1>1. IsWellFoundedOn(R, Nat)
    BY NatLessThanWellFounded DEF OpToRel
  <1>2. \A a, b \in Nat : a < b => <<a, b>> \in R
    OBVIOUS
  <1> HIDE DEF R
  <1>3. PICK x \in T : \A y \in T : ~ (<<y, x>> \in R)
    BY <1>1, WFMin
  <1>4. ASSUME NEW y \in T
        PROVE  x <= y
    <2>1. x \in Nat /\ y \in Nat /\ ~ (y < x)
      BY <1>2, <1>3
    <2>2. QED
      BY <2>1
  <1>5. QED
    BY <1>4

(* Induction, for a set in the place of a predicate. *)
LEMMA NatSet ==
  ASSUME NEW T, 0 \in T, \A n \in Nat : n \in T => n + 1 \in T
  PROVE  Nat \subseteq T
  <1> DEFINE Rest == {n \in Nat : n \notin T}
  <1>1. SUFFICES ASSUME Rest # {}
                 PROVE  FALSE
    OBVIOUS
  <1>2. PICK x \in Rest : \A y \in Rest : x <= y
    <2>1. Rest \in SUBSET Nat
      OBVIOUS
    <2> HIDE DEF Rest
    <2>2. QED
      BY <1>1, <2>1, NatMin
  <1>3. x \in Nat /\ x # 0 /\ x - 1 \in Nat
    OBVIOUS
  <1>4. x - 1 \in T
    BY <1>2, <1>3
  <1>5. QED
    BY <1>2, <1>3, <1>4

(* The sums over the first members of a, up to the first n. *)
SumsUpTo(g, a, n) ==
  /\ g[0] = 0
  /\ \A k \in 0 .. n - 1 : g[k + 1] = g[k] + a[k]

(* There is a function of all of them. *)
LEMMA SumsExist ==
  ASSUME NEW a
  PROVE  \E s : s = [n \in Nat |-> IF n = 0 THEN 0 ELSE s[n - 1] + a[n - 1]]
  <1> DEFINE T == {n \in Nat : \E g : SumsUpTo(g, a, n)}
  <1>1. 0 \in T
    <2>1. SumsUpTo([k \in {0} |-> 0], a, 0)
      BY DEF SumsUpTo
    <2>2. QED
      BY <2>1
  <1>2. ASSUME NEW n \in Nat, n \in T
        PROVE  n + 1 \in T
    <2>1. PICK g : SumsUpTo(g, a, n)
      BY <1>2
    <2> DEFINE h == [k \in 0 .. n + 1 |-> IF k = n + 1 THEN g[n] + a[n] ELSE g[k]]
    <2>2. h[0] = 0 /\ h[n + 1] = g[n] + a[n] /\ \A k \in 0 .. n : h[k] = g[k]
      BY <2>1 DEF SumsUpTo
    <2> HIDE DEF h
    <2>3. ASSUME NEW k \in 0 .. n
          PROVE  h[k + 1] = h[k] + a[k]
      <3>1. CASE k = n
        BY <2>2, <3>1
      <3>2. CASE k \in 0 .. n - 1
        <4>1. k + 1 \in 0 .. n
          BY <3>2
        <4>2. h[k + 1] = g[k + 1] /\ h[k] = g[k]
          BY <2>2, <4>1
        <4>3. QED
          BY <2>1, <3>2, <4>2 DEF SumsUpTo
      <3>3. QED
        BY <3>1, <3>2
    <2>4. SumsUpTo(h, a, n + 1)
      BY <2>2, <2>3 DEF SumsUpTo
    <2>5. QED
      BY <2>4
  <1>3. Nat \subseteq T
    <2> HIDE DEF T
    <2> QED
      BY <1>1, <1>2, NatSet
  <1> DEFINE G == [n \in Nat |-> CHOOSE g : SumsUpTo(g, a, n)]
             s == [n \in Nat |-> G[n][n]]
  <1>4. ASSUME NEW n \in Nat
        PROVE  SumsUpTo(G[n], a, n)
    <2>1. \E g : SumsUpTo(g, a, n)
      BY <1>3
    <2>2. QED
      BY <2>1
  <1>5. \A n \in Nat : s[n] = G[n][n]
    OBVIOUS
  <1> HIDE DEF G
  <1>6. \A n \in Nat : G[n][0] = 0 /\ \A k \in 0 .. n - 1 : G[n][k + 1] = G[n][k] + a[k]
    BY <1>4 DEF SumsUpTo
  (* Two that go different ways agree as far as both go. *)
  <1>7. ASSUME NEW n \in Nat
        PROVE  G[n + 1][n] = G[n][n]
    <2> DEFINE U == {k \in Nat : k <= n => G[n + 1][k] = G[n][k]}
    <2>1. 0 \in U
      <3>1. G[n][0] = 0 /\ G[n + 1][0] = 0
        BY <1>6
      <3>2. QED
        BY <3>1
    <2>2. ASSUME NEW k \in Nat, k \in U
          PROVE  k + 1 \in U
      <3>1. SUFFICES ASSUME k + 1 <= n
                     PROVE  G[n + 1][k + 1] = G[n][k + 1]
        OBVIOUS
      <3>2. n + 1 \in Nat /\ k \in 0 .. n - 1 /\ k \in 0 .. (n + 1) - 1 /\ G[n + 1][k] = G[n][k]
        BY <2>2, <3>1
      <3>3. G[n + 1][k + 1] = G[n + 1][k] + a[k] /\ G[n][k + 1] = G[n][k] + a[k]
        BY <1>6, <3>2
      <3>4. QED
        BY <3>2, <3>3
    <2>3. Nat \subseteq U
      <3> HIDE DEF U
      <3> QED
        BY <2>1, <2>2, NatSet
    <2>4. QED
      BY <2>3
  <1>8. s[0] = 0
    BY <1>5, <1>6
  <1>9. ASSUME NEW n \in Nat \ {0}
        PROVE  s[n] = s[n - 1] + a[n - 1]
    <2>1. n - 1 \in Nat /\ (n - 1) + 1 = n /\ n - 1 \in 0 .. n - 1
      OBVIOUS
    <2>2. G[n][n] = G[n][n - 1] + a[n - 1]
      BY <1>6, <2>1
    <2>3. G[n][n - 1] = G[n - 1][n - 1]
      BY <1>7, <2>1
    <2>4. QED
      BY <1>5, <2>1, <2>2, <2>3
  <1>10. s = [n \in Nat |-> IF n = 0 THEN 0 ELSE s[n - 1] + a[n - 1]]
    <2>1. s = [n \in Nat |-> s[n]]
      OBVIOUS
    <2> HIDE DEF s
    <2>2. QED
      BY <1>8, <1>9, <2>1
  <1>11. QED
    BY <1>10

(* What the sums of getTimeStepLength() are, one step after the other. *)
LEMMA LengthsUntilRec ==
  /\ LengthsUntil[0] = 0
  /\ \A n \in Nat : LengthsUntil[n + 1] = LengthsUntil[n] + TimeStepLength(n)
  <1> DEFINE a == [n \in Nat |-> TimeStepLength(n)]
             Rec(g) == g = [n \in Nat |-> IF n = 0 THEN 0 ELSE g[n - 1] + TimeStepLength(n - 1)]
  <1>1. \E g : g = [n \in Nat |-> IF n = 0 THEN 0 ELSE g[n - 1] + a[n - 1]]
    BY SumsExist
  <1>2. PICK g : g = [n \in Nat |-> IF n = 0 THEN 0 ELSE g[n - 1] + a[n - 1]]
    BY <1>1
  <1>3. Rec(g)
    <2>1. \A n \in Nat : (IF n = 0 THEN 0 ELSE g[n - 1] + a[n - 1])
                         = (IF n = 0 THEN 0 ELSE g[n - 1] + TimeStepLength(n - 1))
      OBVIOUS
    <2> HIDE DEF a
    <2>2. QED
      BY <1>2, <2>1
  <1>4. LengthsUntil = CHOOSE h : Rec(h)
    BY DEF LengthsUntil
  <1>5. Rec(LengthsUntil)
    <2> HIDE DEF Rec
    <2> QED
      BY <1>3, <1>4
  <1>6. QED
    BY <1>5

LEMMA QuotientBounds ==
  ASSUME NEW q \in Nat, NEW p \in Nat, NEW u \in Nat \ {0}, q * u < (p + 1) * u
  PROVE  q <= p
  <1>1. SUFFICES ASSUME q > p PROVE FALSE
    OBVIOUS
  <1>2. PICK k \in Nat : q = (p + 1) + k
    <2>1. q - (p + 1) \in Nat /\ q = (p + 1) + (q - (p + 1))
      BY <1>1
    <2>2. QED
      BY <2>1
  <1>3. q * u = (p + 1) * u + k * u
    BY <1>2
  <1>4. k * u \in Nat /\ (p + 1) * u \in Nat
    OBVIOUS
  <1>5. QED
    BY <1>3, <1>4

(* Two lengths that are cut to whole units, each for itself, lose at most  *)
(* a unit more than their sum does.                                        *)
LEMMA FloorsAdd ==
  ASSUME NEW a \in Nat, NEW b \in Nat, NEW u \in Nat \ {0}
  PROVE  /\ (a \div u) + (b \div u) <= (a + b) \div u
         /\ (a + b) \div u <= (a \div u) + (b \div u) + 1
  <1> DEFINE p == a \div u
             q == b \div u
             r == (a + b) \div u
  <1>1. /\ p \in Nat /\ p * u \in Int /\ p * u <= a /\ a - p * u <= u - 1
        /\ q \in Nat /\ q * u \in Int /\ q * u <= b /\ b - q * u <= u - 1
    BY Division
  <1>2. a + b \in Nat
    OBVIOUS
  <1>3. r \in Nat /\ r * u \in Int /\ r * u <= a + b /\ (a + b) - r * u <= u - 1
    BY <1>2, Division
  <1> HIDE DEF p, q, r
  <1>4. \A x, y \in Nat : x * u \in Nat /\ (x + y) * u = x * u + y * u
    OBVIOUS
  <1>5. 1 * u = u /\ 2 * u = u + u
    OBVIOUS
  <1>6. p + q <= r
    <2>1. (p + q) * u = p * u + q * u /\ (r + 1) * u = r * u + u
      BY <1>1, <1>3, <1>4, <1>5
    <2>2. (p + q) * u < (r + 1) * u
      BY <1>1, <1>3, <2>1
    <2>3. p + q \in Nat
      BY <1>1
    <2>4. QED
      BY <1>3, <2>2, <2>3, QuotientBounds
  <1>7. r <= (p + q) + 1
    <2>1. p + q \in Nat /\ (p + q) + 1 \in Nat
      BY <1>1
    <2>2. (((p + q) + 1) + 1) * u = p * u + q * u + u + u
      BY <1>1, <1>4, <1>5, <2>1
    <2>3. r * u < (((p + q) + 1) + 1) * u
      BY <1>1, <1>3, <2>2
    <2>4. QED
      BY <1>3, <2>1, <2>3, QuotientBounds
  <1>8. QED
    BY <1>1, <1>6, <1>7 DEF p, q, r

(* One step more loses less than a millisecond more. *)
LEMMA LengthsComeClose ==
  ASSUME TimeInv
  PROVE  LengthsAddUp
  <1>1. /\ timeList \in Seq(Int) /\ Len(timeList) \in Nat
        /\ \A i \in 1 .. Len(timeList) : timeList[i] \in Int
        /\ \A i, j \in 1 .. Len(timeList) : i < j => timeList[i] < timeList[j]
    BY TimeMapAssumption DEF TimeInv, TypeOK, StrictlyIncreasing
  <1> DEFINE u    == TicksPerMilli
             away(n) == timeList[n + 1] - timeList[1]
             T    == {n \in Nat : n + 1 <= Len(timeList) =>
                                    /\ LengthsUntil[n] \in Int
                                    /\ LengthsUntil[n] <= away(n) \div u
                                    /\ (away(n) \div u) - LengthsUntil[n] < n \/ n = 0}
  <1>2. u \in Nat \ {0}
    BY UnitType
  <1>3. ASSUME NEW n \in Nat, n + 1 <= Len(timeList)
        PROVE  away(n) \in Nat /\ TimePassedUntil(n) = away(n) \div u
    <2>1. away(n) \in Nat
      <3>1. n + 1 \in 1 .. Len(timeList) /\ 1 \in 1 .. Len(timeList)
        BY <1>1, <1>3
      <3>2. CASE n = 0
        BY <1>1, <3>1, <3>2
      <3>3. CASE n # 0
        <4>1. timeList[1] < timeList[n + 1] /\ timeList[1] \in Int /\ timeList[n + 1] \in Int
          BY <1>1, <3>1, <3>3
        <4>2. QED
          BY <4>1
      <3>4. QED
        BY <3>2, <3>3
    <2>2. QED
      BY <1>2, <2>1, TruncatedType DEF TimePassedUntil
  <1>4. 0 \in T
    <2>1. CASE 1 <= Len(timeList)
      <3>1. away(0) = 0
        BY <1>1, <2>1
      <3>2. away(0) \div u = 0
        BY <1>2, <3>1
      <3>3. QED
        BY <3>2, LengthsUntilRec
    <2>2. CASE ~ (1 <= Len(timeList))
      BY <2>2
    <2>3. QED
      BY <2>1, <2>2
  <1>5. ASSUME NEW n \in Nat, n \in T
        PROVE  n + 1 \in T
    <2>1. SUFFICES ASSUME (n + 1) + 1 <= Len(timeList)
                   PROVE  /\ LengthsUntil[n + 1] \in Int
                          /\ LengthsUntil[n + 1] <= away(n + 1) \div u
                          /\ (away(n + 1) \div u) - LengthsUntil[n + 1] < n + 1
      OBVIOUS
    <2> DEFINE step == timeList[n + 2] - timeList[n + 1]
    <2>2. /\ n + 1 <= Len(timeList) /\ (n + 1) + 1 = n + 2 /\ n + 1 \in Nat
          /\ n + 1 \in 1 .. Len(timeList) /\ n + 2 \in 1 .. Len(timeList) /\ n + 1 < n + 2
          /\ 1 \in 1 .. Len(timeList)
      BY <1>1, <2>1
    <2>3. /\ timeList[1] \in Int /\ timeList[n + 1] \in Int /\ timeList[n + 2] \in Int
          /\ timeList[n + 1] < timeList[n + 2]
      BY <1>1, <2>2
    <2>4. step \in Nat /\ away(n + 1) = away(n) + step
      BY <2>2, <2>3
    <2>5. TimeStepLength(n) = step \div u /\ step \div u \in Nat
      <3>1. step \div u \in Nat
        BY <1>2, <2>4, Division
      <3>2. Truncated(step, u) = step \div u
        BY <1>2, <2>4, TruncatedType
      <3>3. TimeStepLength(n) = Truncated(step, u)
        BY DEF TimeStepLength
      <3>4. QED
        BY <3>1, <3>2, <3>3
    <2>6. LengthsUntil[n + 1] = LengthsUntil[n] + step \div u
      BY <2>5, LengthsUntilRec
    <2>7. away(n) \in Nat /\ away(n) \div u \in Nat
      BY <1>2, <1>3, <2>2, Division
    <2>8. /\ LengthsUntil[n] \in Int
          /\ LengthsUntil[n] <= away(n) \div u
          /\ (away(n) \div u) - LengthsUntil[n] < n \/ n = 0
      BY <1>5, <2>2
    <2>9. /\ (away(n) \div u) + (step \div u) <= away(n + 1) \div u
          /\ away(n + 1) \div u <= (away(n) \div u) + (step \div u) + 1
          /\ away(n + 1) \div u \in Nat
      <3>1. away(n + 1) \in Nat
        BY <2>4, <2>7
      <3> HIDE DEF u, away, step
      <3>2. QED
        BY <1>2, <2>4, <2>7, <3>1, FloorsAdd, Division
    <2>10. n = 0 => LengthsUntil[n] = 0 /\ away(n) = 0 /\ away(n) \div u = 0
                    /\ away(n + 1) = step
      <3>1. ASSUME n = 0
            PROVE  away(n) = 0 /\ away(n + 1) = step
        BY <2>3, <3>1
      <3>2. u \in Nat \ {0} => 0 \div u = 0
        OBVIOUS
      <3>3. QED
        BY <1>2, <3>1, <3>2, LengthsUntilRec
    <2> HIDE DEF u, away, step
    <2>11. CASE n = 0
      BY <2>5, <2>6, <2>10, <2>11
    <2>12. CASE n # 0
      BY <2>5, <2>6, <2>7, <2>8, <2>9, <2>12
    <2>13. QED
      BY <2>11, <2>12
  <1>6. Nat \subseteq T
    <2> HIDE DEF T
    <2> QED
      BY <1>4, <1>5, NatSet
  <1>7. ASSUME NEW step \in 1 .. Len(timeList) - 1
        PROVE  /\ LengthsUntil[step] <= TimePassedUntil(step)
               /\ TimePassedUntil(step) - LengthsUntil[step] < step
    <2>1. step \in Nat /\ step # 0 /\ step + 1 <= Len(timeList)
      BY <1>1
    <2>2. step \in T
      BY <1>6, <2>1
    <2>3. TimePassedUntil(step) = away(step) \div u
      BY <1>3, <2>1
    <2>4. QED
      BY <2>1, <2>2, <2>3
  <1>8. QED
    BY <1>7 DEF LengthsAddUp

(* The lengths getTimeStepLength() gives add up to what                    *)
(* getTimePassedUntil() gives, or fall short of it by less than a          *)
(* millisecond per step, for every unit of time and any number of steps    *)
(* (TimeMap.cpp:203-226).                                                    *)
THEOREM LengthsComeToTheTime == Spec => []LengthsAddUp
  <1>1. TimeInv => LengthsAddUp
    BY LengthsComeClose
  <1>2. QED
    BY <1>1, TimeInvariant, PTL
-----------------------------------------------------------------------------
(* The time map is the clock the modules of the other keywords assume: a   *)
(* step of the map is a step of that clock or leaves it alone.             *)
THEOREM MapImplementsClock == Spec => ImplementsClock
  <1> DEFINE published == Len(timeList) - handled
  <1>1. Init => Clock!ClockInit
    BY DEF Init, Clock!ClockInit
  <1>2. TimeInv /\ [Next]_vars => [Clock!ClockNext]_<<published, currentStep, phase>>
    <2> SUFFICES ASSUME TimeInv, [Next]_vars
                 PROVE  Clock!ClockNext \/ UNCHANGED <<published, currentStep, phase>>
      OBVIOUS
    <2>1. /\ timeList \in Seq(Int) /\ Len(timeList) \in 1 .. MaxSteps /\ MaxSteps \in Nat
          /\ handled \in 0 .. MaxPerKeyword /\ MaxPerKeyword \in Nat /\ currentStep \in Nat
          /\ handled < Len(timeList)
      BY TimeMapAssumption DEF TimeInv, TypeOK
    <2>2. ASSUME NEW t, Append1(t)
          PROVE  UNCHANGED <<published, currentStep, phase>>
      <3>1. Len(timeList') = Len(timeList) + 1
        BY <2>1, <2>2 DEF Append1
      <3>2. QED
        BY <2>1, <2>2, <3>1 DEF Append1
    <2>3. CASE CloseKeyword /\ phase = "reading"
      <3>1. /\ timeList' = timeList /\ currentStep' = currentStep + handled
            /\ handled' = 0 /\ phase' = phase
        BY <2>3 DEF CloseKeyword
      <3>2. CASE handled = 0
        BY <3>1, <3>2, <2>1
      <3>3. CASE handled # 0
        <4>1. handled \in 1 .. MaxPerKeyword
          BY <3>3, <2>1
        <4>2. /\ published + handled <= MaxSteps
              /\ published' = published + handled
          BY <3>1, <2>1
        <4>3. Clock!AdvanceTime(handled)
          BY <3>1, <4>2 DEF Clock!AdvanceTime
        <4>4. QED
          BY <4>1, <4>3, <2>3 DEF Clock!ClockNext
      <3>4. QED
        BY <3>2, <3>3
    <2>4. CASE Throw /\ phase = "reading"
      BY <2>4 DEF Throw, Clock!ClockNext, Clock!Throw
    <2>5. CASE Complete /\ phase = "reading"
      BY <2>5 DEF Complete, Clock!ClockNext, Clock!Complete
    <2>6. CASE \E name \in {"DATES", "TSTEP"} : OpenKeyword(name)
      BY <2>6 DEF OpenKeyword
    <2>7. CASE UNCHANGED vars
      BY <2>7 DEF vars
    <2>8. QED
      BY <2>2, <2>3, <2>4, <2>5, <2>6, <2>7
      DEF Next, DatesRecord, TstepItem, DatesRecordRefused, TstepItemRefused
  <1>3. QED
    BY <1>1, <1>2, TimeInvariant, PTL DEF Spec, ImplementsClock, Clock!ClockSpec, Clock!clockVars
-----------------------------------------------------------------------------
(***************************************************************************)
(* A dynamic state and the time map it shares (DynamicStateMachine), for   *)
(* every set of values and every length of the map: its types, the cached  *)
(* current value, and that it implements TimedValue.                       *)
(***************************************************************************)
(* Type correctness: the vector never outgrows the time map, because add() *)
(* checks its index against the map (DynamicState.hpp:71).                 *)
THEOREM StateTypeCorrect == StateSpec => []StateTypeOK
  <1> USE MachineAssumption DEF MachineAssumption
  <1>1. StateInit => StateTypeOK
    BY NewStateType DEF StateInit, StateTypeOK
  <1>2. StateTypeOK /\ [StateNext]_stateVars => StateTypeOK'
    <2> SUFFICES ASSUME StateTypeOK, [StateNext]_stateVars
                 PROVE  StateTypeOK'
      OBVIOUS
    <2>1. CASE AddTime
      BY <2>1, GetType DEF StateTypeOK, AddTime
    <2>2. ASSUME NEW index \in 0 .. MaxLength, NEW value \in Value, AddValue(index, value)
          PROVE  StateTypeOK'
      <3>1. index \in Nat /\ index < timeSteps /\ ~ SetsThePast(state, index)
        BY <2>2 DEF AddValue, CanAdd, OutOfRange, StateTypeOK
      <3>2. state' \in DynamicStates(Value) /\ StateSize(state') = index + 1
        BY <2>2, <3>1, AddType DEF AddValue, StateTypeOK
      <3>3. QED
        BY <2>2, <3>1, <3>2 DEF AddValue, StateTypeOK
    <2>3. ASSUME NEW index \in 0 .. MaxLength, AddRefused(index)
          PROVE  StateTypeOK'
      BY <2>3 DEF AddRefused, StateTypeOK
    <2>4. CASE UNCHANGED stateVars
      BY <2>4 DEF stateVars, StateTypeOK
    <2>5. QED
      BY <2>1, <2>2, <2>3, <2>4 DEF StateNext
  <1>3. QED
    BY <1>1, <1>2, PTL DEF StateSpec

(* The cached current value is always the one at the end of the vector, so *)
(* get() is continuous there (DynamicState.hpp:57-60, 87-88).              *)
THEOREM CacheCorrect == StateSpec => []CachedValueIsLast
  <1>1. StateInit => CachedValueIsLast
    BY DEF StateInit, CachedValueIsLast, CacheAgrees, NewState, StateSize
  <1>2. StateTypeOK /\ CachedValueIsLast /\ [StateNext]_stateVars => CachedValueIsLast'
    <2> SUFFICES ASSUME StateTypeOK, CachedValueIsLast, [StateNext]_stateVars
                 PROVE  CachedValueIsLast'
      OBVIOUS
    <2>1. CASE AddTime
      BY <2>1 DEF CachedValueIsLast, AddTime
    <2>2. ASSUME NEW index \in 0 .. MaxLength, NEW value \in Value, AddValue(index, value)
          PROVE  CachedValueIsLast'
      <3>1. index \in Nat /\ ~ SetsThePast(state, index)
        BY <2>2 DEF AddValue, CanAdd
      <3>2. StateSize(state') = index + 1 /\ CacheAgrees(state')
        BY <2>2, <3>1, AddType, AddCache DEF AddValue, StateTypeOK
      <3>3. QED
        BY <3>1, <3>2 DEF CachedValueIsLast
    <2>3. ASSUME NEW index \in 0 .. MaxLength, AddRefused(index)
          PROVE  CachedValueIsLast'
      BY <2>3 DEF AddRefused, CachedValueIsLast
    <2>4. CASE UNCHANGED stateVars
      BY <2>4 DEF stateVars, CachedValueIsLast
    <2>5. QED
      BY <2>1, <2>2, <2>3, <2>4 DEF StateNext
  <1>3. QED
    BY <1>1, <1>2, StateTypeCorrect, PTL DEF StateSpec

(* The vector with its cached value implements a value that is a function  *)
(* of time: every call of add() maps to SetFrom or, refused, to a stutter. *)
THEOREM StateIsTimedValue == StateSpec => ImplementsTimedValue
  <1> USE MachineAssumption DEF MachineAssumption
  <1>1. StateInit => Abstract!Init
    <2>1. /\ StateSize(NewState(Default)) = 0
          /\ \A t \in Step : Get(NewState(Default), t) = Default
      BY NewStateType DEF Step
    <2>2. QED
      BY <2>1 DEF StateInit, Abstract!Init
  <1>2. StateTypeOK /\ StateTypeOK' /\ [StateNext]_stateVars => [Abstract!Next]_(Abstract!vars)
    <2> SUFFICES ASSUME StateTypeOK, StateTypeOK', [StateNext]_stateVars
                 PROVE  [Abstract!Next]_(Abstract!vars)
      OBVIOUS
    <2>1. CASE AddTime
      <3>1. Abstract!Extend
        BY <2>1 DEF AddTime, Abstract!Extend
      <3>2. QED
        BY <3>1 DEF Abstract!Next
    <2>2. ASSUME NEW index \in 0 .. MaxLength, NEW value \in Value, AddValue(index, value)
          PROVE  Abstract!Next
      <3>1. index \in Nat /\ index < timeSteps /\ ~ SetsThePast(state, index)
        BY <2>2 DEF AddValue, CanAdd, OutOfRange, StateTypeOK
      <3>2. StateSize(state') = index + 1 /\ StateSize(state) \in Nat
        BY <2>2, <3>1, AddType, GetType DEF AddValue, StateTypeOK
      <3>3. index \in Step
        BY <3>1 DEF Step, StateTypeOK
      <3>4. \A t \in Step : Get(state', t) = IF t >= index THEN value ELSE Get(state, t)
        BY <2>2, <3>1, GetAdd DEF AddValue, StateTypeOK, Step
      <3>5. Abstract!SetFrom(index, value)
        <4>1. index \in (IF StateSize(state) = 0 THEN 0 ELSE StateSize(state) - 1)
                        .. timeSteps - 1
          BY <3>1, <3>2 DEF SetsThePast, StateTypeOK
        <4>2. [t \in Step |-> Get(state, t)]'
                = [s \in Step |-> IF s >= index THEN value
                                  ELSE [t \in Step |-> Get(state, t)][s]]
          BY <3>4
        <4>3. (IF StateSize(state) = 0 THEN 0 ELSE StateSize(state) - 1)' = index
          BY <3>1, <3>2
        <4>4. QED
          BY <2>2, <4>1, <4>2, <4>3 DEF AddValue, Abstract!SetFrom
      <3>6. QED
        BY <3>3, <3>5 DEF Abstract!Next
    <2>3. ASSUME NEW index \in 0 .. MaxLength, AddRefused(index)
          PROVE  UNCHANGED Abstract!vars
      BY <2>3 DEF AddRefused, Abstract!vars
    <2>4. CASE UNCHANGED stateVars
      BY <2>4 DEF stateVars, Abstract!vars
    <2>5. QED
      BY <2>1, <2>2, <2>3, <2>4 DEF StateNext
  <1>3. QED
    BY <1>1, <1>2, StateTypeCorrect, PTL DEF StateSpec, ImplementsTimedValue, Abstract!Spec
=============================================================================
