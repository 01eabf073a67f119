---------------------------- MODULE DynamicState ----------------------------
(***************************************************************************)
(* The class template Opm::DynamicState<T> (Schedule/DynamicState.hpp): a  *)
(* value of type T as a function of the report step.  The object keeps the *)
(* values that were set so far in a vector, "data", and the last value set *)
(* (or the default) in "current"; every report step past the end of the    *)
(* vector has the current value.                                           *)
(*                                                                         *)
(* Only operators: the modules that keep dynamic states hold them in their *)
(* own variables, as records [data, current].  Report steps count from 0,  *)
(* as in the code; the sequence "data" counts from 1.                      *)
(***************************************************************************)
EXTENDS Naturals, Sequences, TLAPS

DynamicStates(V) == [data : Seq(V), current : V]

NewState(default) == [data |-> << >>, current |-> default]

StateSize(ds) == Len(ds.data)

(* get() and at() for an index inside the time map. *)
Get(ds, index) ==
  IF index >= StateSize(ds) THEN ds.current ELSE ds.data[index + 1]

(* The cached current value is the one at the end of the vector. *)
CacheAgrees(ds) == StateSize(ds) > 0 => ds.current = ds.data[StateSize(ds)]

(* The two ways add() refuses an index: beyond the time map of n steps     *)
(* (std::range_error), or before the last index that was set               *)
(* (std::invalid_argument).                                                *)
OutOfRange(index, n) == index >= n

SetsThePast(ds, index) == StateSize(ds) > 0 /\ index < StateSize(ds) - 1

CanAdd(ds, index, n) == ~ OutOfRange(index, n) /\ ~ SetsThePast(ds, index)

(* The vector is padded up to the index, and never shortened. *)
PaddedSize(ds, index) == IF StateSize(ds) > index THEN StateSize(ds) ELSE index + 1

(* Mistakes add() could make: the steps skipped over get the new value,    *)
(* or the cached current value is not updated.                             *)
AddPadsWithNew(ds, index, value) ==
  [data    |-> [i \in 1 .. PaddedSize(ds, index) |->
                  IF i <= StateSize(ds) /\ i # index + 1 THEN ds.data[i] ELSE value],
   current |-> value]

AddForgetsCurrent(ds, index, value) ==
  [data    |-> [i \in 1 .. PaddedSize(ds, index) |->
                  IF i = index + 1 THEN value ELSE Get(ds, i - 1)],
   current |-> ds.current]

(* add() past its checks: pad with the current value up to index, store    *)
(* the new value there and remember it.                                    *)
Add(ds, index, value) ==
  [data    |-> [i \in 1 .. PaddedSize(ds, index) |->
                  IF i = index + 1 THEN value ELSE Get(ds, i - 1)],
   current |-> value]
-----------------------------------------------------------------------------
(***************************************************************************)
(* What these operators return, for every type of value and every report   *)
(* step: the facts the proofs about the schedule rest on.                  *)
(***************************************************************************)
(* A new state has the default value at every step, known or not. *)
LEMMA NewStateType ==
  ASSUME NEW V, NEW default \in V
  PROVE  /\ NewState(default) \in DynamicStates(V)
         /\ StateSize(NewState(default)) = 0
         /\ \A t \in Nat : Get(NewState(default), t) = default
  BY DEF NewState, DynamicStates, StateSize, Get

(* The size of a state is a number and every step has a value in V. *)
LEMMA GetType ==
  ASSUME NEW V, NEW ds \in DynamicStates(V)
  PROVE  /\ StateSize(ds) \in Nat
         /\ \A t \in Nat : Get(ds, t) \in V
  BY DEF DynamicStates, StateSize, Get

(* add() returns a state that ends at the index it was given. *)
LEMMA AddType ==
  ASSUME NEW V, NEW ds \in DynamicStates(V), NEW index \in Nat, NEW v \in V,
         ~ SetsThePast(ds, index)
  PROVE  /\ Add(ds, index, v) \in DynamicStates(V)
         /\ StateSize(Add(ds, index, v)) = index + 1
  <1> DEFINE D == [i \in 1 .. PaddedSize(ds, index) |->
                     IF i = index + 1 THEN v ELSE Get(ds, i - 1)]
  <1>1. PaddedSize(ds, index) = index + 1
    BY GetType DEF PaddedSize, SetsThePast
  <1>2. \A i \in 1 .. index + 1 : D[i] \in V
    BY <1>1, GetType
  <1>3. D \in Seq(V) /\ Len(D) = index + 1
    BY <1>1, <1>2
  <1>4. QED
    BY <1>3 DEF Add, DynamicStates, StateSize

(* What add() does to the function of time (DynamicState.hpp:70-89): from  *)
(* its index on the new value, before it nothing changes.  It holds only   *)
(* for the indices add() accepts: stored below the end of the vector, the  *)
(* value would be seen at its own index alone.                             *)
LEMMA GetAdd ==
  ASSUME NEW V, NEW ds \in DynamicStates(V), NEW index \in Nat, NEW v \in V,
         ~ SetsThePast(ds, index), NEW t \in Nat
  PROVE  Get(Add(ds, index, v), t) = IF t >= index THEN v ELSE Get(ds, t)
  <1>1. StateSize(Add(ds, index, v)) = index + 1
    BY AddType
  <1>2. CASE t >= index + 1
    BY <1>1, <1>2 DEF Get, Add
  <1>3. CASE t \in 0 .. index
    <2>1. Get(Add(ds, index, v), t) = Add(ds, index, v).data[t + 1]
      BY <1>1, <1>3 DEF Get
    <2>2. t + 1 \in 1 .. PaddedSize(ds, index)
      BY <1>3, GetType DEF PaddedSize
    <2>3. QED
      BY <2>1, <2>2, <1>3 DEF Add
  <1>4. QED
    BY <1>2, <1>3

(* add() keeps the cache in step with the vector, and with it the value    *)
(* past the end of the vector is the last one in it.                       *)
LEMMA AddCache ==
  ASSUME NEW V, NEW ds \in DynamicStates(V), NEW index \in Nat, NEW v \in V,
         ~ SetsThePast(ds, index)
  PROVE  CacheAgrees(Add(ds, index, v))
  <1>1. StateSize(Add(ds, index, v)) = index + 1
    BY AddType
  <1>2. index + 1 \in 1 .. PaddedSize(ds, index)
    BY GetType DEF PaddedSize
  <1>3. Add(ds, index, v).data[index + 1] = v /\ Add(ds, index, v).current = v
    BY <1>2 DEF Add
  <1>4. QED
    BY <1>1, <1>3 DEF CacheAgrees

LEMMA GetPersists ==
  ASSUME NEW V, NEW ds \in DynamicStates(V), CacheAgrees(ds),
         NEW s \in Nat, NEW t \in Nat, s <= t, StateSize(ds) <= s + 1
  PROVE  Get(ds, t) = Get(ds, s)
  BY GetType DEF CacheAgrees, Get

(* An index at or past the last one set is never in the past. *)
LEMMA NotThePast ==
  ASSUME NEW V, NEW ds \in DynamicStates(V), NEW index \in Nat,
         StateSize(ds) <= index + 1
  PROVE  ~ SetsThePast(ds, index)
  BY GetType DEF SetsThePast
=============================================================================
