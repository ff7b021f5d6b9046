-------------------------- MODULE InputRangeProofs --------------------------
(***************************************************************************)
(* Theorems about InputRange, for arrays of any length and iterators with  *)
(* any number of results.                                                  *)
(*                                                                         *)
(* What the body has seen follows from where the loop is: the invariant    *)
(* RangeInv relates `seen` to the index of an array iterator (ArrayInv) or *)
(* to the results of an ES iterator (SymbolInv) at every point, and says   *)
(* that what the loop holds handles to is live (HandlesLive).              *)
(***************************************************************************)
EXTENDS InputRange, TLAPS

HandlesLive == Handles \subseteq live

ArrayInv ==
  /\ pc # "next"
  /\ iter.iterator = None /\ iter.curr = None
  /\ results = <<>>
  /\ pc \in {"begin", "test"} => Len(seen) = iter.idx
  /\ pc = "body" => Len(seen) = iter.idx + 1
  /\ pc = "done" => Len(seen) = last
  /\ \A i \in 1 .. Len(seen) : seen[i] = i - 1

SymbolInv ==
  /\ pc = "begin" => results = <<>> /\ seen = <<>>
  /\ pc \in {"next", "test", "body"} => iter.iterator = Iterator
  /\ pc \in {"next", "body"} => Len(seen) = Len(results)
  /\ pc \in {"next", "body"} => ~iter.end
  /\ pc = "test" =>
       /\ iter.curr = Result(Len(results))
       /\ Len(results) \in 1 .. MaxResults + 1
       /\ iter.end = (results[Len(results)].done = "true")
  /\ pc \in {"test", "done"} => Len(seen) = Len(results) - 1
  /\ \A i \in 1 .. Len(seen) : seen[i] = i
  /\ \A i \in 1 .. Len(results) :
       results[i].done = "true" => i = Len(results) /\ pc \notin {"next", "body"}
  /\ pc = "done" => results[Len(results)].done = "true"

RangeInv ==
  /\ TypeOK
  /\ NoDangling
  /\ HandlesLive
  /\ kind = "array" => ArrayInv
  /\ kind = "symbol" => SymbolInv

-----------------------------------------------------------------------------
\* Equal functions on an initial segment of the naturals.
LEMMA SeenExact ==
  ASSUME NEW first \in Nat, seen \in Seq(Nat),
         \A i \in 1 .. Len(seen) : seen[i] = first + i - 1
  PROVE  seen = [i \in 1 .. Len(seen) |-> first + i - 1]
OBVIOUS

LEMMA IterFields ==
  ASSUME TypeOK
  PROVE  /\ iter.idx \in Nat /\ iter.iterator \in {Iterator, None}
         /\ iter.curr \in Results \cup {None} /\ iter.end \in BOOLEAN
BY DEF TypeOK, IterStates

LEMMA IterIncremented ==
  ASSUME TypeOK
  PROVE  [iter EXCEPT !.idx = @ + 1] \in IterStates
BY DEF TypeOK, IterStates

LEMMA IterBegun ==
  ASSUME TypeOK
  PROVE  [iter EXCEPT !.iterator = Iterator, !.end = FALSE] \in IterStates
BY DEF TypeOK, IterStates

LEMMA IterAdvanced ==
  ASSUME TypeOK, NEW c \in Results, NEW e \in BOOLEAN
  PROVE  [iter EXCEPT !.curr = c, !.end = e] \in IterStates
BY DEF TypeOK, IterStates

LEMMA InvImpliesStops == RangeInv => StopsWhenDone
<1> SUFFICES ASSUME RangeInv PROVE StopsWhenDone
  OBVIOUS
<1> USE DEF RangeInv, TypeOK
<1>1. CASE kind = "array"
  BY <1>1 DEF ArrayInv, StopsWhenDone
<1>2. CASE kind = "symbol"
  <2>1. pc = "done" => Len(results) = Len(seen) + 1
    BY <1>2 DEF SymbolInv
  <2> QED
    BY <1>2, <2>1 DEF SymbolInv, StopsWhenDone
<1> QED
  BY <1>1, <1>2

LEMMA InvImpliesVisits == RangeInv => VisitsAll
<1> SUFFICES ASSUME RangeInv PROVE VisitsAll
  OBVIOUS
<1> USE DEF RangeInv, TypeOK
<1>1. CASE kind = "array"
  <2>1. seen = [i \in 1 .. Len(seen) |-> 0 + i - 1]
    <3>1. \A i \in 1 .. Len(seen) : seen[i] = 0 + i - 1
      BY <1>1 DEF ArrayInv
    <3> QED
      BY <3>1, SeenExact
  <2> QED
    BY <1>1, <2>1 DEF ArrayInv, VisitsAll
<1>2. CASE kind = "symbol"
  <2>1. seen = [i \in 1 .. Len(seen) |-> 1 + i - 1]
    <3>1. \A i \in 1 .. Len(seen) : seen[i] = 1 + i - 1
      BY <1>2 DEF SymbolInv
    <3> QED
      BY <3>1, SeenExact
  <2> QED
    BY <1>2, <2>1 DEF SymbolInv, VisitsAll
<1> QED
  BY <1>1, <1>2

-----------------------------------------------------------------------------
LEMMA RangeInitInv == Init => RangeInv
<1> SUFFICES ASSUME Init PROVE RangeInv
  OBVIOUS
<1> USE RangeAssumption
<1>1. TypeOK
  <2>1. array \in [present : SUBSET (0 .. MaxLength - 1), length : 0 .. MaxLength]
    BY DEF Init
  <2>2. iter \in IterStates
    BY DEF Init, IterStates
  <2>3. kept \cup live \cup onStack \subseteq Objects
    BY DEF Init, Objects
  <2>4. results \in Seq(Outcomes) /\ seen \in Seq(Nat)
    BY DEF Init
  <2>5. last \in 0 .. MaxLength
    <3>1. MaxLength \in Nat
      OBVIOUS
    <3>2. last = 0
      BY DEF Init
    <3> QED
      BY <3>1, <3>2
  <2>6. kind \in {"array", "symbol"} /\ pc = "begin" /\ dangling = FALSE
    BY DEF Init
  <2> QED
    BY <2>1, <2>2, <2>3, <2>4, <2>5, <2>6 DEF TypeOK
<1>2. Handles = {Container}
  BY DEF Init, Handles, InLoop, Objects
<1> QED
  BY <1>1, <1>2 DEF Init, RangeInv, NoDangling, HandlesLive, ArrayInv, SymbolInv

\* A step of ES code or of Duktape: the loop stands still, and what it holds
\* handles to stays live.
LEMMA ScriptInv ==
  ASSUME RangeInv,
         UNCHANGED <<kind, onStack, iter, last, results, seen, dangling, pc>>,
         array' \in [present : SUBSET (0 .. MaxLength - 1), length : 0 .. MaxLength],
         kept' \cup live' \subseteq Objects,
         Handles \subseteq live'
  PROVE  RangeInv'
<1>1. TypeOK'
  BY DEF RangeInv, TypeOK
<1>2. Handles' = Handles
  BY DEF Handles, InLoop
<1> QED
  BY <1>1, <1>2 DEF RangeInv, NoDangling, HandlesLive, ArrayInv, SymbolInv

\* An object without references is held by no handle.
LEMMA CollectKeepsHandles ==
  ASSUME RangeInv, NEW o, Collect(o)
  PROVE  Handles \subseteq live'
BY DEF RangeInv, HandlesLive, Collect, Reachable

LEMMA ScriptStepInv ==
  ASSUME RangeInv, Script
  PROVE  RangeInv'
<1> USE RangeAssumption, IterFields DEF RangeInv, TypeOK
<1>1. CASE Push
  BY <1>1, ScriptInv DEF Push, HandlesLive
<1>2. ASSUME NEW i \in 0 .. MaxLength - 1, SetLength(i) PROVE RangeInv'
  BY <1>2, ScriptInv DEF SetLength, HandlesLive
<1>3. ASSUME NEW i \in 0 .. MaxLength - 1, DeleteElement(i) PROVE RangeInv'
  <2>1. array' \in [present : SUBSET (0 .. MaxLength - 1), length : 0 .. MaxLength]
    BY <1>3 DEF DeleteElement
  <2> QED
    BY <1>3, <2>1, ScriptInv DEF DeleteElement, HandlesLive
<1>4. ASSUME NEW o \in Objects, Forget(o) PROVE RangeInv'
  BY <1>4, ScriptInv DEF Forget, HandlesLive
<1>5. ASSUME NEW o \in Objects, Collect(o) PROVE RangeInv'
  BY <1>5, ScriptInv, CollectKeepsHandles DEF Collect
<1> QED
  BY <1>1, <1>2, <1>3, <1>4, <1>5 DEF Script

-----------------------------------------------------------------------------
(* The steps of the loop.                                                  *)

LEMMA ContainerLive ==
  ASSUME RangeInv, InLoop
  PROVE  Container \in live
BY RangeAssumption DEF RangeInv, HandlesLive, Handles, Objects

LEMMA ArrayStepInv ==
  ASSUME RangeInv, BeginArray \/ DerefArray \/ IncrementArray
  PROVE  RangeInv'
<1> USE RangeAssumption, IterFields DEF RangeInv, TypeOK
<1>1. CASE BeginArray
  <2>1. TypeOK'
    BY <1>1, ContainerLive DEF BeginArray, EndIndex, es, Use, NoDangling, InLoop
  <2>2. NoDangling' /\ HandlesLive'
    BY <1>1, ContainerLive DEF BeginArray, es, Use, NoDangling, InLoop, HandlesLive, Handles
  <2>3. ArrayInv'
    BY <1>1 DEF BeginArray, ArrayInv, es
  <2> QED
    BY <1>1, <2>1, <2>2, <2>3 DEF BeginArray
<1>2. CASE DerefArray
  <2>0. \/ seen' = Append(seen, iter.idx) /\ pc' = "body"
        \/ seen' = seen /\ pc' = "error"
    BY <1>2 DEF DerefArray
  <2>1. NoDangling' /\ HandlesLive'
    BY <1>2, ContainerLive DEF DerefArray, es, Use, NoDangling, InLoop, HandlesLive, Handles
  <2>2. TypeOK'
    <3>1. CASE seen' = Append(seen, iter.idx) /\ pc' = "body"
      <4>1. seen' = Append(seen, iter.idx) /\ pc' = "body"
        BY <3>1
      <4>2. seen \in Seq(Nat) /\ iter.idx \in Nat
        OBVIOUS
      <4>3. seen' \in Seq(Nat)
        BY ONLY <4>1, <4>2
      <4> HIDE DEF TypeOK
      <4>4. UNCHANGED <<kind, array, live, kept, onStack, iter, last, results>>
        BY <1>2 DEF DerefArray, es
      <4>5. dangling' \in BOOLEAN
        BY <1>2 DEF DerefArray, Use
      <4> QED
        BY ONLY TypeOK, <4>1, <4>3, <4>4, <4>5 DEF TypeOK
    <3>2. CASE seen' = seen /\ pc' = "error"
      BY <1>2, <2>1, <3>2 DEF DerefArray, es, Use
    <3> QED
      BY <2>0, <3>1, <3>2
  <2>3. ArrayInv'
    <3>1. CASE seen' = Append(seen, iter.idx) /\ pc' = "body"
      <4>1. seen' = Append(seen, iter.idx) /\ pc' = "body" /\ Len(seen) = iter.idx
        BY <1>2, <3>1 DEF DerefArray, ArrayInv
      <4>2. \A i \in 1 .. Len(seen') : seen'[i] = i - 1
        BY <1>2, <4>1 DEF DerefArray, ArrayInv
      <4>3. Len(seen') = iter.idx + 1
        <5>1. seen \in Seq(Nat) /\ iter.idx \in Nat
          OBVIOUS
        <5> QED
          BY ONLY <4>1, <5>1
      <4> QED
        BY <1>2, <4>1, <4>2, <4>3 DEF DerefArray, ArrayInv
    <3>2. CASE seen' = seen /\ pc' = "error"
      BY <1>2, <3>2 DEF DerefArray, ArrayInv
    <3> QED
      BY <2>0, <3>1, <3>2
  <2> QED
    BY <1>2, <2>1, <2>2, <2>3 DEF DerefArray
<1>3. CASE IncrementArray
  <2>1. TypeOK'
    BY <1>3, IterIncremented DEF IncrementArray, es
  <2>2. NoDangling' /\ HandlesLive'
    BY <1>3 DEF IncrementArray, es, NoDangling, InLoop, HandlesLive, Handles
  <2>3. ArrayInv'
    BY <1>3 DEF IncrementArray, ArrayInv, es
  <2> QED
    BY <1>3, <2>1, <2>2, <2>3 DEF IncrementArray
<1> QED
  BY <1>1, <1>2, <1>3

LEMMA BeginSymbolInv ==
  ASSUME RangeInv, NEW keep \in BOOLEAN, BeginSymbol(keep)
  PROVE  RangeInv'
<1> USE RangeAssumption, IterFields DEF RangeInv, TypeOK
<1>1. NoDangling'
  BY ContainerLive DEF BeginSymbol, Use, NoDangling, InLoop
<1>2. TypeOK'
  BY <1>1, IterBegun DEF BeginSymbol, Use, Objects
<1>3. HandlesLive'
  BY ContainerLive DEF BeginSymbol, HandlesLive, Handles, InLoop
<1>4. SymbolInv'
  BY DEF BeginSymbol, SymbolInv
<1> QED
  BY <1>1, <1>2, <1>3, <1>4 DEF BeginSymbol

LEMMA NextReturnsInv ==
  ASSUME RangeInv, NEW o \in Outcomes, NEW keep \in BOOLEAN,
         kind = "symbol", NextReturns(o, keep)
  PROVE  RangeInv'
<1> USE RangeAssumption, IterFields DEF RangeInv, TypeOK
<1> PICK r \in Nat : r = Len(results) + 1
  OBVIOUS
<1>1. /\ r \in 1 .. MaxResults + 1 /\ Len(results') = r /\ results'[r] = o
      /\ \A i \in 1 .. Len(results) : results'[i] = results[i]
  BY DEF NextReturns
<1>2. Result(r) \in Results /\ Result(r) \in Objects
  BY <1>1 DEF Results, Objects
<1>3. iter' = [iter EXCEPT !.curr = Result(r), !.end = ReadsDone(o.done)]
  BY DEF NextReturns
<1>4. TypeOK'
  <2>1. iter' \in IterStates
    BY <1>2, <1>3, IterAdvanced DEF ReadsDone
  <2> QED
    BY <1>2, <2>1 DEF NextReturns
<1>5. NoDangling' /\ HandlesLive'
  BY <1>3 DEF NextReturns, NoDangling, HandlesLive, Handles, InLoop
<1>6. SymbolInv'
  BY <1>1, <1>3 DEF NextReturns, SymbolInv, ReadsDone
<1> QED
  BY <1>4, <1>5, <1>6 DEF NextReturns

LEMMA SymbolStepInv ==
  ASSUME RangeInv, kind = "symbol",
         NextFails \/ IncrementSymbol \/ DerefSymbol
  PROVE  RangeInv'
<1> USE RangeAssumption, IterFields DEF RangeInv, TypeOK
<1>1. CASE NextFails
  BY <1>1 DEF NextFails, es, NoDangling, HandlesLive, Handles, InLoop, SymbolInv
<1>2. CASE IncrementSymbol
  <2>1. iter.iterator \in live /\ ~iter.end
    BY <1>2 DEF IncrementSymbol, SymbolInv, HandlesLive, Handles, InLoop, Objects
  <2>2. NoDangling' /\ HandlesLive'
    BY <1>2, <2>1 DEF IncrementSymbol, es, Use, NoDangling, HandlesLive, Handles, InLoop
  <2>3. TypeOK'
    BY <1>2, <2>1, <2>2 DEF IncrementSymbol, es, Use, Objects, SymbolInv
  <2>4. SymbolInv'
    BY <1>2, <2>1 DEF IncrementSymbol, es, SymbolInv
  <2> QED
    BY <1>2, <2>2, <2>3, <2>4 DEF IncrementSymbol
<1>3. CASE DerefSymbol
  <2>1. iter.curr = Result(Len(results)) /\ iter.curr \in live
    BY <1>3 DEF DerefSymbol, SymbolInv, HandlesLive, Handles, InLoop, Objects, Results
  <2>2. NoDangling' /\ HandlesLive'
    BY <1>3, <2>1 DEF DerefSymbol, es, Use, NoDangling, HandlesLive, Handles, InLoop
  <2>3. iter.curr[2] = Len(results) /\ Len(results) \in Nat
    BY <2>1 DEF Result
  <2>4. CASE ~iter.end /\ results[iter.curr[2]].value
    <3>1. seen' = Append(seen, Len(results)) /\ pc' = "body"
      BY <1>3, <2>3, <2>4 DEF DerefSymbol
    <3>2. TypeOK'
      BY <1>3, <2>2, <2>3, <3>1 DEF DerefSymbol, es, Use
    <3>3. /\ Len(seen) = Len(results) - 1 /\ Len(seen') = Len(results)
          /\ \A i \in 1 .. Len(seen') : seen'[i] = i
      BY <1>3, <2>3, <3>1 DEF DerefSymbol, SymbolInv
    <3>4. SymbolInv'
      BY <1>3, <2>3, <2>4, <3>1, <3>3 DEF DerefSymbol, es, SymbolInv
    <3> QED
      BY <1>3, <2>2, <3>2, <3>4 DEF DerefSymbol
  <2>5. CASE ~(~iter.end /\ results[iter.curr[2]].value)
    <3>1. pc' = "error" /\ seen' = seen
      BY <1>3, <2>5 DEF DerefSymbol
    <3>2. TypeOK'
      BY <1>3, <2>2, <3>1 DEF DerefSymbol, es, Use
    <3>3. SymbolInv'
      BY <1>3, <3>1 DEF DerefSymbol, es, SymbolInv
    <3> QED
      BY <1>3, <2>2, <3>2, <3>3 DEF DerefSymbol
  <2> QED
    BY <2>4, <2>5
<1> QED
  BY <1>1, <1>2, <1>3

LEMMA LeaveInv ==
  ASSUME RangeInv, Leave
  PROVE  RangeInv'
<1> USE RangeAssumption, IterFields DEF RangeInv, TypeOK
<1>1. TypeOK' /\ NoDangling' /\ HandlesLive'
  BY DEF Leave, es, NoDangling, HandlesLive, Handles, InLoop
<1>2. kind = "array" => ArrayInv'
  BY DEF Leave, es, ArrayInv, AtEndOfArray
<1>3. kind = "symbol" => SymbolInv'
  <2> SUFFICES ASSUME kind = "symbol" PROVE SymbolInv'
    OBVIOUS
  <2>1. SymbolInv /\ pc = "test" /\ pc' = "done" /\ AtEndOfSymbol
    BY DEF Leave
  <2>2. results[Len(results)].done = "true" /\ Len(seen) = Len(results) - 1
    BY <2>1 DEF SymbolInv, AtEndOfSymbol, Objects
  <2>3. UNCHANGED <<iter, results, seen>>
    BY DEF Leave
  <2> QED
    BY <2>1, <2>2, <2>3 DEF SymbolInv
<1> QED
  BY <1>1, <1>2, <1>3 DEF Leave, es

\* Only an ES object is in the states of the [Symbol.iterator] protocol.
LEMMA LoopInv ==
  ASSUME RangeInv, Loop
  PROVE  RangeInv'
<1>1. (NextFails \/ IncrementSymbol \/ DerefSymbol) => kind = "symbol"
  BY DEF RangeInv, TypeOK, ArrayInv, NextFails, IncrementSymbol, DerefSymbol
<1>2. ASSUME NEW o \in Outcomes, NEW keep \in BOOLEAN, NextReturns(o, keep)
      PROVE  RangeInv'
  <2>1. kind = "symbol"
    BY <1>2 DEF RangeInv, TypeOK, ArrayInv, NextReturns
  <2> QED
    BY <1>2, <2>1, NextReturnsInv
<1> QED
  BY <1>1, <1>2, ArrayStepInv, BeginSymbolInv, SymbolStepInv, LeaveInv DEF Loop

LEMMA RangeStutterInv ==
  ASSUME RangeInv, UNCHANGED vars
  PROVE  RangeInv'
BY DEF vars, es, RangeInv, TypeOK, NoDangling, HandlesLive, Handles, InLoop, ArrayInv, SymbolInv

LEMMA RangeInvariance == Spec => []RangeInv
<1>1. RangeInv /\ [Next]_vars => RangeInv'
  BY ScriptStepInv, LoopInv, RangeStutterInv DEF Next
<1> QED
  BY RangeInitInv, <1>1, PTL DEF Spec

(***************************************************************************)
(* A loop over ES objects alone holds no handle to a collected object,     *)
(* takes the boolean true and nothing else for the end of its iterator,    *)
(* and visits every element before that once, in order (range.h).          *)
(***************************************************************************)
THEOREM LoopCorrect == Spec => [](NoDangling /\ StopsWhenDone /\ VisitsAll)
<1>1. RangeInv => NoDangling /\ StopsWhenDone /\ VisitsAll
  BY InvImpliesStops, InvImpliesVisits DEF RangeInv
<1> QED
  BY <1>1, RangeInvariance, PTL
=============================================================================
