-------------------------- MODULE IterableLoopProofs --------------------------
(***************************************************************************)
(* Theorems about IterableLoop: the safety properties of its run, for      *)
(* containers of any size, any number of contexts, iterators and changes.  *)
(*                                                                         *)
(* The invariant has three parts.  RangeInv of InputRangeProofs carries    *)
(* over: what runs around the loop is a step of ES code to it.  NativeInv  *)
(* relates the range a closure keeps to what its next() handed out and to  *)
(* the container.  LoopMeetsNative relates the two sides of the protocol:  *)
(* how many elements next() handed out and how many the body has seen.     *)
(***************************************************************************)
EXTENDS IterableLoop, InputRangeProofs

Iters == {Iterator} \cup ESIterators
Lives == {"alive", "finalized", "collected"}
Values == [life : Lives, size : 0 .. MaxSize, changes : 0 .. MaxChanges]
Closures == [begin : 0 .. MaxSize, end : 0 .. MaxSize, changes : 0 .. MaxChanges]
Got == [element : Nat, in : Contexts]

\* The range of a closure, while its container is not changed.
ClosureInv(i) ==
  closure[i] # None =>
    /\ closure[i] \in Closures
    /\ closure[i].begin = Len(got[i])
    /\ closure[i].begin <= closure[i].end
    /\ closure[i].changes <= value.changes
    /\ closure[i].changes = value.changes => closure[i].end = value.size
    /\ value.life # "collected"

NativeInv ==
  /\ Native!NativeTypeOK
  /\ \A i \in Iters : ClosureInv(i) /\ Native!EachOnce(i)
  /\ IterationSound

LoopMeetsNative ==
  native =>
    /\ kind = "symbol"
    /\ pc = "begin" => closure[Iterator] = None
    /\ pc = "next" => closure[Iterator] = None \/ Len(got[Iterator]) = Len(seen)
    /\ pc = "test" /\ ~iter.end => Len(got[Iterator]) = Len(seen) + 1
    /\ (pc = "test" /\ iter.end) \/ pc = "done" =>
         /\ Len(got[Iterator]) = Len(seen)
         /\ value.changes = 0 => Len(seen) = value.size
    /\ pc = "body" => Len(got[Iterator]) = Len(seen)
    /\ \A k \in 1 .. Len(got[Iterator]) : got[Iterator][k].in = context

IterableInv ==
  /\ RangeInv
  /\ NativeInv
  /\ LoopMeetsNative
  /\ native \in BOOLEAN /\ context \in Contexts

-----------------------------------------------------------------------------
(* The range of the loop.                                                  *)

LEMMA ObjectsAssorted ==
  /\ Iterator \in Iters /\ Iterator # None /\ Iterator \notin ESIterators
  /\ Container \notin Iters
  /\ Iters \subseteq Objects
  /\ \A i \in Iters : i # None
BY RangeAssumption DEF Iters, Iterator, ESIterators, Container, Objects

LEMMA NativeLoopRangeInv ==
  ASSUME RangeInv, NativeLoop
  PROVE  RangeInv'
<1>1. CASE Begin
  BY <1>1, BeginSymbolInv DEF Begin
<1>2. ASSUME NEW o \in Outcomes, NextReturns(o, FALSE) PROVE RangeInv'
  <2>1. kind = "symbol"
    BY <1>2 DEF RangeInv, TypeOK, ArrayInv, NextReturns
  <2> QED
    BY <1>2, <2>1, NextReturnsInv
<1>3. CASE NextFails
  BY <1>3, LoopInv DEF Loop
<1>4. CASE IncrementSymbol \/ DerefSymbol \/ Leave
  BY <1>4, LoopInv DEF Loop
<1> QED
  BY <1>1, <1>2, <1>3, <1>4, RangeStutterInv DEF NativeLoop, NativeNext

LEMMA ESIterateRangeInv ==
  ASSUME RangeInv, NEW i \in ESIterators, NEW c \in Contexts, ESIterate(i, c)
  PROVE  RangeInv'
<1>1. Handles \subseteq live' /\ kept' \cup live' \subseteq Objects
  BY ObjectsAssorted DEF ESIterate, Iters, RangeInv, TypeOK, HandlesLive
<1>2. array' \in [present : SUBSET (0 .. MaxLength - 1), length : 0 .. MaxLength]
  BY DEF ESIterate, RangeInv, TypeOK
<1> QED
  BY <1>1, <1>2, ScriptInv DEF ESIterate

LEMMA SurroundingsRangeInv ==
  ASSUME RangeInv, Surroundings
  PROVE  RangeInv'
<1>1. ASSUME NEW i \in ESIterators, NEW c \in Contexts, ESNext(i, c) PROVE RangeInv'
  BY <1>1, RangeStutterInv DEF ESNext
<1>2. ASSUME NEW c \in Contexts, EndContext(c) PROVE RangeInv'
  BY <1>2, RangeStutterInv DEF EndContext
<1>3. ASSUME NEW o \in Objects, ForgetObject(o) \/ CollectObject(o) PROVE RangeInv'
  BY <1>3, ScriptStepInv DEF ForgetObject, CollectObject, Script
<1>4. CASE Finalize \/ ChangeContainer
  BY <1>4, RangeStutterInv DEF Finalize, ChangeContainer
<1> QED
  BY <1>1, <1>2, <1>3, <1>4, ESIterateRangeInv DEF Surroundings

LEMMA StepRangeInv ==
  ASSUME RangeInv, LoopStep \/ OtherStep
  PROVE  RangeInv'
BY NativeLoopRangeInv, LoopInv, SurroundingsRangeInv, ScriptStepInv DEF LoopStep, OtherStep

-----------------------------------------------------------------------------
(* The closures of next().                                                 *)

LEMMA NativeTypes ==
  ASSUME NativeInv
  PROVE  /\ home \in Contexts /\ contexts \subseteq Contexts
         /\ value \in Values /\ got \in [Iters -> Seq(Got)]
         /\ closure \in [Iters -> {None} \cup Closures]
BY DEF NativeInv, Native!NativeTypeOK, Iters, Values, Lives, Got, Closures

LEMMA ValueFields ==
  ASSUME value \in Values
  PROVE  value.life \in Lives /\ value.size \in 0 .. MaxSize /\ value.changes \in 0 .. MaxChanges
BY DEF Values

\* A step of the closure of i alone.
LEMMA OneIterator ==
  ASSUME NativeInv, NEW i \in Iters,
         UNCHANGED <<home, contexts, value>>,
         undefined' = undefined \/ (undefined' = "home" /\ home \notin contexts),
         NEW c \in {None} \cup Closures, NEW g \in Seq(Got),
         closure' = [closure EXCEPT ![i] = c], got' = [got EXCEPT ![i] = g],
         ClosureInv(i)', Native!EachOnce(i)'
  PROVE  NativeInv'
<1>1. Native!NativeTypeOK'
  <2>1. closure' \in [Iters -> {None} \cup Closures] /\ got' \in [Iters -> Seq(Got)]
    BY NativeTypes
  <2> QED
    BY <2>1 DEF NativeInv, Native!NativeTypeOK, Iters, Got, Closures, Lives
<1>2. ASSUME NEW j \in Iters PROVE ClosureInv(j)' /\ Native!EachOnce(j)'
  <2>1. CASE j = i
    BY <2>1
  <2>2. CASE j # i
    <3>1. closure'[j] = closure[j] /\ got'[j] = got[j]
      BY <2>2, NativeTypes
    <3> QED
      BY <3>1 DEF NativeInv, ClosureInv, Native!EachOnce
  <2> QED
    BY <2>1, <2>2
<1>3. IterationSound'
  BY DEF NativeInv, IterationSound, Native!IterationSound
<1> QED
  BY <1>1, <1>2, <1>3 DEF NativeInv

\* The behaviour is undefined, for a reason the program gave.
LEMMA UndefinedInv ==
  ASSUME NativeInv, UNCHANGED <<home, contexts, value, closure, got>>,
         undefined' \in {"no", "home", "finalized", "collected", "changed"},
         IterationSound'
  PROVE  NativeInv'
BY DEF NativeInv, Native!NativeTypeOK, ClosureInv, Native!EachOnce

LEMMA HomeGone ==
  ASSUME NativeInv, UNCHANGED <<home, contexts, value, closure, got>>,
         home \notin contexts, undefined' = "home"
  PROVE  NativeInv'
BY UndefinedInv DEF IterationSound, Native!IterationSound

LEMMA IterateInv ==
  ASSUME NativeInv, NEW i \in Iters, NEW c, Native!Iterate(i, c)
  PROVE  NativeInv'
<1> DEFINE r == [begin |-> 0, end |-> value.size, changes |-> value.changes]
<1>1. value.life \in Lives /\ value.size \in 0 .. MaxSize /\ value.changes \in 0 .. MaxChanges
  BY NativeTypes, ValueFields
<1>2. /\ UNCHANGED <<home, contexts, value>>
      /\ undefined' = undefined \/ (undefined' = "home" /\ home \notin contexts)
      /\ got' = [got EXCEPT ![i] = <<>>]
  <2>1. UNCHANGED <<home, contexts, value>> /\ got' = [got EXCEPT ![i] = <<>>]
    BY DEF Native!Iterate, Native!containers
  <2>2. undefined' = undefined \/ (undefined' = "home" /\ home \notin contexts)
    <3>1. CASE home \in contexts
      BY <3>1 DEF Native!Iterate
    <3>2. CASE home \notin contexts
      BY <3>2 DEF Native!Iterate
    <3> QED
      BY <3>1, <3>2
  <2> QED
    BY <2>1, <2>2
<1>3. closure[i] = None
  BY DEF Native!Iterate
<1>4. got'[i] = <<>> /\ <<>> \in Seq(Got)
  BY <1>2, NativeTypes
<1>5. Native!EachOnce(i)'
  BY <1>4 DEF Native!EachOnce
<1>6. CASE closure' = closure
  <2>1. closure' = [closure EXCEPT ![i] = None]
    BY <1>3, <1>6, NativeTypes
  <2>2. ClosureInv(i)'
    BY <1>3, <1>6 DEF ClosureInv
  <2> QED
    BY <1>2, <1>4, <1>5, <2>1, <2>2, OneIterator
<1>7. CASE closure' # closure
  <2>1. closure' = [closure EXCEPT ![i] = r] /\ value.life = "alive"
    BY <1>7 DEF Native!Iterate, Native!Iterable
  <2>2. r \in Closures
    BY <1>1, LoopAssumption DEF Closures
  <2>3. closure'[i] = r
    BY <2>1, NativeTypes
  <2>4. ClosureInv(i)'
    BY <1>1, <1>2, <1>4, <2>1, <2>2, <2>3 DEF ClosureInv
  <2> HIDE DEF r
  <2> QED
    BY <1>2, <1>4, <1>5, <2>1, <2>2, <2>4, OneIterator
<1> QED
  BY <1>6, <1>7

\* next() hands out the element its range begins with and moves the range on.
LEMMA AdvanceInv ==
  ASSUME NativeInv, NEW i \in Iters, NEW c \in Contexts, closure[i] # None,
         Native!Advance(i, c), UNCHANGED <<home, contexts, value, undefined>>
  PROVE  NativeInv'
<1>1. CASE closure[i].begin = closure[i].end
  <2>1. UNCHANGED <<closure, got>>
    BY <1>1 DEF Native!Advance, Native!AtEnd
  <2> QED
    BY <2>1 DEF NativeInv, Native!NativeTypeOK, IterationSound, Native!IterationSound,
                ClosureInv, Native!EachOnce
<1>2. CASE closure[i].begin # closure[i].end
  <2> DEFINE e == [element |-> closure[i].begin, in |-> c]
             g == Append(got[i], e)
             r == [closure[i] EXCEPT !.begin = @ + 1]
  <2>1. got' = [got EXCEPT ![i] = g] /\ closure' = [closure EXCEPT ![i] = r]
    BY <1>2, NativeTypes DEF Native!Advance, Native!AtEnd
  <2>2. ClosureInv(i) /\ Native!EachOnce(i)
    BY DEF NativeInv
  <2>3. /\ closure[i].begin \in 0 .. MaxSize /\ closure[i].end \in 0 .. MaxSize
        /\ closure[i].changes \in 0 .. MaxChanges
    BY <2>2 DEF ClosureInv, Closures
  <2>4. e \in Got /\ got[i] \in Seq(Got)
    <3>1. e \in Got
      BY <2>3 DEF Got
    <3>2. got[i] \in Seq(Got)
      BY NativeTypes
    <3> QED
      BY <3>1, <3>2
  <2>5. g \in Seq(Got) /\ Len(g) = Len(got[i]) + 1
    BY <2>4
  <2>6. r.begin = closure[i].begin + 1 /\ r.end = closure[i].end /\ r.changes = closure[i].changes
    BY <2>2 DEF ClosureInv, Closures
  <2>7. r \in Closures /\ r.begin <= r.end
    <3>1. closure[i].begin <= closure[i].end
      BY <2>2 DEF ClosureInv
    <3>2. closure[i].begin + 1 \in 0 .. MaxSize
      BY <1>2, <2>3, <3>1, LoopAssumption
    <3> QED
      BY <1>2, <2>2, <2>3, <2>6, <3>1, <3>2 DEF ClosureInv, Closures
  <2>8. closure'[i] = r /\ got'[i] = g
    BY <2>1, NativeTypes
  <2>9. ClosureInv(i)'
    BY <2>2, <2>5, <2>6, <2>7, <2>8 DEF ClosureInv
  <2>10. Native!EachOnce(i)'
    <3>1. \A k \in 1 .. Len(g) : g[k].element = k - 1
      <4>1. Len(got[i]) = closure[i].begin
        BY <2>2 DEF ClosureInv
      <4>2. \A k \in 1 .. Len(got[i]) : g[k] = got[i][k]
        BY <2>4
      <4>3. g[Len(got[i]) + 1] = e
        BY <2>4
      <4>4. \A k \in 1 .. Len(got[i]) : got[i][k].element = k - 1
        BY <2>2 DEF Native!EachOnce
      <4>5. Len(got[i]) \in Nat
        BY <2>4
      <4>6. e.element = closure[i].begin
        OBVIOUS
      <4> HIDE DEF g, e
      <4> SUFFICES ASSUME NEW k \in 1 .. Len(g) PROVE g[k].element = k - 1
        OBVIOUS
      <4>7. k \in 1 .. Len(got[i]) \/ k = Len(got[i]) + 1
        BY <2>5, <4>5
      <4> QED
        <5>1. CASE k \in 1 .. Len(got[i])
          BY <4>2, <4>4, <5>1
        <5>2. CASE k = Len(got[i]) + 1
          <6>1. g[k].element = Len(got[i])
            BY <4>1, <4>3, <4>6, <5>2
          <6> QED
            BY <4>5, <5>2, <6>1
        <5> QED
          BY <4>7, <5>1, <5>2
    <3> QED
      BY <2>8, <3>1 DEF Native!EachOnce
  <2> HIDE DEF e, g, r
  <2>11. r \in {None} \cup Closures
    BY <2>7
  <2> QED
    BY <2>1, <2>5, <2>9, <2>10, <2>11, OneIterator
<1> QED
  BY <1>1, <1>2

LEMMA NativeStutterInv ==
  ASSUME NativeInv, UNCHANGED nativevars
  PROVE  NativeInv'
BY DEF nativevars, NativeInv, Native!NativeTypeOK, IterationSound, Native!IterationSound,
       ClosureInv, Native!EachOnce

\* A call of next() in context c, whatever becomes of it.
NextCalled(i, c) ==
  \/ \E o \in Outcomes : Native!NextReturns(i, c, o)
  \/ Native!NextThrows(i, c)
  \/ Native!NextUndefined(i)

LEMMA NextCalledInv ==
  ASSUME NativeInv, undefined = "no", NEW i \in Iters, NEW c \in Contexts, NextCalled(i, c)
  PROVE  NativeInv'
<1>1. ASSUME NEW o, Native!NextReturns(i, c, o) PROVE NativeInv'
  BY <1>1, AdvanceInv DEF Native!NextReturns, Native!Defined, Native!containers
<1>2. CASE Native!NextThrows(i, c)
  <2>1. UNCHANGED <<home, contexts, value, undefined>>
    BY <1>2 DEF Native!NextThrows, Native!containers
  <2>2. UNCHANGED <<closure, got>> \/ (closure[i] # None /\ Native!Advance(i, c))
    BY <1>2 DEF Native!NextThrows, Native!Defined, Native!PushThrows
  <2> QED
    BY <2>1, <2>2, AdvanceInv, NativeStutterInv DEF nativevars
<1>3. CASE Native!NextUndefined(i)
  <2>1. UNCHANGED <<home, contexts, value, closure, got>>
    BY <1>3 DEF Native!NextUndefined, Native!containers
  <2>2. closure[i] # None /\ undefined' = Native!Cause(i) /\ undefined' # "no"
    BY <1>3 DEF Native!NextUndefined
  <2>3. value.life # "collected" /\ closure[i] \in Closures /\ closure[i].changes <= value.changes
    BY <2>2 DEF NativeInv, ClosureInv
  <2>4. value.life \in Lives /\ value.changes \in 0 .. MaxChanges /\ closure[i].changes \in 0 .. MaxChanges
    BY <2>3, NativeTypes, ValueFields DEF Closures
  <2>5. CASE home \notin contexts
    BY <2>1, <2>2, <2>5, HomeGone DEF Native!Cause
  <2>6. CASE home \in contexts /\ value.life # "alive"
    <3>1. value.life = "finalized" /\ undefined' = "finalized"
      BY <2>2, <2>3, <2>4, <2>6 DEF Native!Cause, Lives
    <3> QED
      BY <2>1, <3>1, UndefinedInv DEF IterationSound, Native!IterationSound
  <2>7. CASE home \in contexts /\ value.life = "alive"
    <3>1. undefined' = "changed" /\ value.changes # closure[i].changes
      BY <2>2, <2>7 DEF Native!Cause
    <3>2. value.changes > 0
      BY <2>3, <2>4, <3>1
    <3> QED
      BY <2>1, <3>1, <3>2, UndefinedInv DEF IterationSound, Native!IterationSound
  <2> QED
    BY <2>5, <2>6, <2>7
<1> QED
  BY <1>1, <1>2, <1>3 DEF NextCalled

LEMMA ReleaseInv ==
  ASSUME NativeInv, NEW i \in Iters, Native!Release(i)
  PROVE  NativeInv'
<1>1. UNCHANGED <<home, contexts, value, got>>
  BY DEF Native!Release, Native!containers
<1>2. CASE home \notin contexts
  BY <1>1, <1>2, HomeGone DEF Native!Release
<1>3. CASE home \in contexts
  <2>1. closure' = [closure EXCEPT ![i] = None] /\ undefined' = undefined
    BY <1>3 DEF Native!Release
  <2>2. closure'[i] = None
    BY <2>1, NativeTypes
  <2>3. got' = [got EXCEPT ![i] = got[i]] /\ got[i] \in Seq(Got)
    BY <1>1, NativeTypes
  <2>4. ClosureInv(i)' /\ Native!EachOnce(i)'
    BY <1>1, <2>2 DEF ClosureInv, NativeInv, Native!EachOnce
  <2> QED
    BY <1>1, <2>1, <2>3, <2>4, OneIterator
<1> QED
  BY <1>2, <1>3

LEMMA DestroyInv ==
  ASSUME NativeInv, undefined = "no", NEW life \in Lives, Native!Destroy(life),
         life = "collected" => ~Native!HeldByClosure
  PROVE  NativeInv'
<1>1. value' = [value EXCEPT !.life = life] /\ UNCHANGED <<home, contexts, closure, got, undefined>>
  BY DEF Native!Destroy, Native!iterations
<1>2. value' \in Values /\ value'.life = life /\ value'.size = value.size /\ value'.changes = value.changes
  BY <1>1, NativeTypes DEF Values
<1>3. Native!NativeTypeOK'
  BY <1>1, <1>2 DEF NativeInv, Native!NativeTypeOK, Values, Lives
<1>4. ASSUME NEW i \in Iters PROVE ClosureInv(i)' /\ Native!EachOnce(i)'
  <2>1. closure[i] # None => life # "collected"
    BY DEF Native!HeldByClosure, Iters
  <2> QED
    BY <1>1, <1>2, <2>1 DEF NativeInv, ClosureInv, Native!EachOnce
<1> QED
  BY <1>1, <1>3, <1>4 DEF NativeInv, IterationSound, Native!IterationSound

LEMMA ChangeInv ==
  ASSUME NativeInv, undefined = "no", Native!Change
  PROVE  NativeInv'
<1>1. PICK n \in 0 .. MaxSize : value' = [value EXCEPT !.size = n, !.changes = @ + 1]
  BY DEF Native!Change
<1>2. UNCHANGED <<home, contexts, closure, got, undefined>> /\ value.changes < MaxChanges
  BY DEF Native!Change, Native!iterations
<1>3. /\ value'.life = value.life /\ value'.changes = value.changes + 1
      /\ value' \in Values
  <2>1. value \in Values /\ value.changes \in 0 .. MaxChanges /\ MaxChanges \in Nat
    BY NativeTypes, ValueFields, LoopAssumption
  <2>2. value.changes + 1 \in 0 .. MaxChanges
    BY <1>2, <2>1
  <2> QED
    BY <1>1, <2>1, <2>2 DEF Values
<1>4. Native!NativeTypeOK'
  BY <1>2, <1>3 DEF NativeInv, Native!NativeTypeOK, Values, Lives
<1>5. ASSUME NEW i \in Iters PROVE ClosureInv(i)' /\ Native!EachOnce(i)'
  <2>1. value.changes \in 0 .. MaxChanges /\ ClosureInv(i) /\ Native!EachOnce(i)
    BY NativeTypes, ValueFields DEF NativeInv
  <2> QED
    BY <1>2, <1>3, <2>1 DEF ClosureInv, Closures, Native!EachOnce
<1> QED
  BY <1>2, <1>4, <1>5 DEF NativeInv, IterationSound, Native!IterationSound

LEMMA EndContextInv ==
  ASSUME NativeInv, undefined = "no", NEW c, Native!EndContext(c)
  PROVE  NativeInv'
BY DEF Native!EndContext, Native!iterations, NativeInv, Native!NativeTypeOK,
       IterationSound, Native!IterationSound, ClosureInv, Native!EachOnce

LEMMA CollectNativeInv ==
  ASSUME NativeInv, undefined = "no", NEW o \in Objects, CollectObject(o)
  PROVE  NativeInv'
<1>1. CASE o = Container /\ value.life = "alive"
  BY <1>1, DestroyInv DEF CollectObject, Lives
<1>2. CASE o \in Iters /\ closure[o] # None /\ ~(o = Container /\ value.life = "alive")
  BY <1>2, ReleaseInv DEF CollectObject, Iters
<1>3. CASE UNCHANGED nativevars
  BY <1>3, NativeStutterInv
<1> QED
  BY <1>1, <1>2, <1>3 DEF CollectObject, Iters

LEMMA FinalizeNativeInv ==
  ASSUME NativeInv, undefined = "no", Finalize
  PROVE  NativeInv'
<1>1. CASE Native!Destroy("finalized")
  BY <1>1, DestroyInv DEF Lives
<1>2. ASSUME NEW i \in ESIterators, Native!Release(i) PROVE NativeInv'
  BY <1>2, ReleaseInv DEF Iters
<1> QED
  BY <1>1, <1>2 DEF Finalize

LEMMA SurroundingsNativeInv ==
  ASSUME NativeInv, undefined = "no", Surroundings
  PROVE  NativeInv'
<1>1. ASSUME NEW i \in ESIterators, NEW c \in Contexts, ESIterate(i, c) PROVE NativeInv'
  BY <1>1, IterateInv DEF ESIterate, Iters
<1>2. ASSUME NEW i \in ESIterators, NEW c \in Contexts, ESNext(i, c) PROVE NativeInv'
  BY <1>2, NextCalledInv DEF ESNext, NextCalled, Iters
<1>3. ASSUME NEW c \in Contexts, EndContext(c) PROVE NativeInv'
  BY <1>3, EndContextInv DEF EndContext
<1>4. ASSUME NEW o \in Objects, ForgetObject(o) PROVE NativeInv'
  BY <1>4, NativeStutterInv DEF ForgetObject
<1>5. CASE ChangeContainer
  BY <1>5, ChangeInv DEF ChangeContainer
<1> QED
  BY <1>1, <1>2, <1>3, <1>4, <1>5, CollectNativeInv, FinalizeNativeInv DEF Surroundings

LEMMA NativeLoopNativeInv ==
  ASSUME NativeInv, undefined = "no", context \in Contexts, NativeLoop
  PROVE  NativeInv'
<1>1. CASE Begin
  BY <1>1, IterateInv, ObjectsAssorted DEF Begin
<1>2. CASE NativeNext
  BY <1>2, NextCalledInv, ObjectsAssorted DEF NativeNext, NextCalled
<1> QED
  BY <1>1, <1>2, NativeStutterInv DEF NativeLoop

LEMMA StepNativeInv ==
  ASSUME NativeInv, context \in Contexts, LoopStep \/ OtherStep
  PROVE  NativeInv'
BY NativeLoopNativeInv, SurroundingsNativeInv, NativeStutterInv DEF LoopStep, OtherStep

-----------------------------------------------------------------------------
(* The loop and the closure it calls.                                      *)

\* What runs around the loop does not move the range of its iterator, though
\* the closure may go with an iterator the loop does not hold.
RangeStands ==
  /\ UNCHANGED <<kind, iter, seen, pc>>
  /\ got'[Iterator] = got[Iterator]
  /\ closure'[Iterator] \in {None, closure[Iterator]}
  /\ (value'.size = value.size /\ value'.changes = value.changes) \/ value'.changes # 0

LEMMA OthersMoveOthers ==
  ASSUME NativeInv, NEW i \in ESIterators,
         \/ UNCHANGED <<closure, got>>
         \/ \E g : got' = [got EXCEPT ![i] = g] /\ UNCHANGED closure
         \/ \E r : closure' = [closure EXCEPT ![i] = r] /\ UNCHANGED got
         \/ \E g, r : got' = [got EXCEPT ![i] = g] /\ closure' = [closure EXCEPT ![i] = r]
  PROVE  got'[Iterator] = got[Iterator] /\ closure'[Iterator] = closure[Iterator]
<1>1. i # Iterator /\ i \in Iters /\ Iterator \in Iters
  BY ObjectsAssorted DEF Iters
<1> QED
  BY <1>1, NativeTypes

LEMMA IterateStands ==
  ASSUME NativeInv, NEW i \in ESIterators, NEW c, ESIterate(i, c)
  PROVE  RangeStands
<1>1. UNCHANGED <<kind, iter, seen, pc, value>>
  BY DEF ESIterate, Native!Iterate, Native!containers
<1>2. got'[Iterator] = got[Iterator] /\ closure'[Iterator] = closure[Iterator]
  BY OthersMoveOthers DEF ESIterate, Native!Iterate
<1> QED
  BY <1>1, <1>2 DEF RangeStands

LEMMA AdvanceMovesOne ==
  ASSUME NativeInv, NEW i \in ESIterators, NEW c, Native!Advance(i, c)
  PROVE  got'[Iterator] = got[Iterator] /\ closure'[Iterator] = closure[Iterator]
<1>1. CASE UNCHANGED <<closure, got>>
  BY <1>1
<1>2. CASE ~UNCHANGED <<closure, got>>
  <2>1. /\ got' = [got EXCEPT ![i] = Append(@, [element |-> closure[i].begin, in |-> c])]
        /\ closure' = [closure EXCEPT ![i].begin = @ + 1]
    BY <1>2 DEF Native!Advance
  <2>2. i # Iterator /\ i \in Iters /\ Iterator \in Iters
    BY ObjectsAssorted DEF Iters
  <2> QED
    BY <2>1, <2>2, NativeTypes
<1> QED
  BY <1>1, <1>2

LEMMA NextStands ==
  ASSUME NativeInv, NEW i \in ESIterators, NEW c, ESNext(i, c)
  PROVE  RangeStands
<1>1. UNCHANGED <<kind, iter, seen, pc>>
  BY DEF ESNext, vars
<1>2. UNCHANGED value
  BY DEF ESNext, Native!NextReturns, Native!NextThrows, Native!NextUndefined, Native!containers
<1>3. UNCHANGED <<closure, got>> \/ Native!Advance(i, c)
  BY DEF ESNext, Native!NextReturns, Native!NextThrows, Native!NextUndefined, Native!PushThrows
<1>4. got'[Iterator] = got[Iterator] /\ closure'[Iterator] = closure[Iterator]
  BY <1>3, AdvanceMovesOne
<1> QED
  BY <1>1, <1>2, <1>4 DEF RangeStands

LEMMA ReleaseStands ==
  ASSUME NativeInv, NEW i \in Iters, Native!Release(i), UNCHANGED <<kind, iter, seen, pc>>
  PROVE  RangeStands
<1>1. UNCHANGED <<value, got>>
  BY DEF Native!Release, Native!containers
<1>2. closure' = closure \/ closure' = [closure EXCEPT ![i] = None]
  BY DEF Native!Release
<1>3. closure'[Iterator] \in {None, closure[Iterator]}
  BY <1>2, ObjectsAssorted, NativeTypes
<1> QED
  BY <1>1, <1>3 DEF RangeStands

LEMMA DestroyStands ==
  ASSUME NativeInv, NEW life, Native!Destroy(life), UNCHANGED <<kind, iter, seen, pc>>
  PROVE  RangeStands
<1>1. value' = [value EXCEPT !.life = life] /\ UNCHANGED <<closure, got>>
  BY DEF Native!Destroy, Native!iterations
<1>2. value'.size = value.size /\ value'.changes = value.changes
  BY <1>1, NativeTypes DEF Values
<1> QED
  BY <1>1, <1>2 DEF RangeStands

LEMMA ChangeStands ==
  ASSUME NativeInv, ChangeContainer
  PROVE  RangeStands
<1>1. UNCHANGED <<kind, iter, seen, pc, closure, got>>
  BY DEF ChangeContainer, Native!Change, Native!iterations, vars
<1>2. PICK n \in 0 .. MaxSize : value' = [value EXCEPT !.size = n, !.changes = @ + 1]
  BY DEF ChangeContainer, Native!Change
<1>3. value'.changes = value.changes + 1
  BY <1>2, NativeTypes DEF Values
<1>4. value.changes \in 0 .. MaxChanges
  BY NativeTypes, ValueFields
<1>5. value'.changes # 0
  BY <1>3, <1>4
<1> QED
  BY <1>1, <1>5 DEF RangeStands

LEMMA SurroundingsStand ==
  ASSUME NativeInv, Surroundings
  PROVE  RangeStands
<1>1. ASSUME NEW c \in Contexts, EndContext(c) PROVE RangeStands
  BY <1>1 DEF EndContext, Native!EndContext, Native!iterations, vars, RangeStands
<1>2. ASSUME NEW o \in Objects, ForgetObject(o) PROVE RangeStands
  BY <1>2 DEF ForgetObject, Forget, nativevars, RangeStands
<1>3. ASSUME NEW o \in Objects, CollectObject(o) PROVE RangeStands
  <2>1. UNCHANGED <<kind, iter, seen, pc>>
    BY <1>3 DEF CollectObject, Collect
  <2>2. CASE Native!Destroy("collected")
    BY <2>1, <2>2, DestroyStands
  <2>3. CASE o \in Iters /\ Native!Release(o)
    BY <2>1, <2>3, ReleaseStands
  <2>4. CASE UNCHANGED nativevars
    BY <2>1, <2>4 DEF nativevars, RangeStands
  <2> QED
    BY <1>3, <2>2, <2>3, <2>4 DEF CollectObject, Iters
<1>4. CASE Finalize
  <2>1. UNCHANGED <<kind, iter, seen, pc>>
    BY <1>4 DEF Finalize, vars
  <2>2. Native!Destroy("finalized") \/ \E i \in Iters : Native!Release(i)
    BY <1>4 DEF Finalize, Iters
  <2> QED
    BY <2>1, <2>2, DestroyStands, ReleaseStands
<1> QED
  BY <1>1, <1>2, <1>3, <1>4, IterateStands, NextStands, ChangeStands DEF Surroundings

LEMMA SurroundingsMeet ==
  ASSUME IterableInv, Surroundings, UNCHANGED <<native, context>>
  PROVE  LoopMeetsNative'
BY SurroundingsStand DEF IterableInv, LoopMeetsNative, RangeStands

LEMMA BeginMeets ==
  ASSUME IterableInv, native, Begin, UNCHANGED <<native, context>>
  PROVE  LoopMeetsNative'
<1>1. kind' = "symbol" /\ pc' = "next" /\ seen' = <<>>
  BY DEF Begin, BeginSymbol, IterableInv, RangeInv, SymbolInv
<1>2. got'[Iterator] = <<>>
  BY ObjectsAssorted, NativeTypes DEF Begin, Native!Iterate, IterableInv
<1> QED
  BY <1>1, <1>2 DEF LoopMeetsNative

LEMMA HandedOutHere ==
  ASSUME NEW s \in Seq(Got), \A k \in 1 .. Len(s) : s[k].in = context, NEW x
  PROVE  LET g == Append(s, [element |-> x, in |-> context])
         IN  Len(g) = Len(s) + 1 /\ \A k \in 1 .. Len(g) : g[k].in = context
<1> DEFINE e == [element |-> x, in |-> context]
           g == Append(s, e)
<1>1. Len(g) = Len(s) + 1 /\ Len(s) \in Nat
  OBVIOUS
<1>2. \A k \in 1 .. Len(s) : g[k] = s[k]
  OBVIOUS
<1>3. g[Len(s) + 1] = e /\ e.in = context
  OBVIOUS
<1> HIDE DEF g, e
<1>4. ASSUME NEW k \in 1 .. Len(g) PROVE g[k].in = context
  <2>1. k \in 1 .. Len(s) \/ k = Len(s) + 1
    BY <1>1
  <2> QED
    BY <1>2, <1>3, <2>1
<1> QED
  BY <1>1, <1>4 DEF g, e

\* The element next() hands out is the one it sets the iterator to; at its end
\* the range of an unchanged container holds as many as there are.
LEMMA NextReturnsMeets ==
  ASSUME IterableInv, native, NEW o \in Outcomes, NextReturns(o, FALSE),
         Native!NextReturns(Iterator, context, o), UNCHANGED <<native, context>>
  PROVE  LoopMeetsNative'
<1> DEFINE r == closure[Iterator]
<1>1. Iterator \in Iters /\ r # None /\ pc = "next" /\ NativeInv /\ RangeInv /\ context \in Contexts
  BY ObjectsAssorted DEF Native!NextReturns, Native!Defined, NextReturns, IterableInv
<1>2. /\ Len(got[Iterator]) = Len(seen) /\ kind = "symbol"
      /\ \A k \in 1 .. Len(got[Iterator]) : got[Iterator][k].in = context
  BY <1>1 DEF IterableInv, LoopMeetsNative
<1>3. /\ r \in Closures /\ r.begin = Len(got[Iterator]) /\ r.changes <= value.changes
      /\ r.changes = value.changes => r.end = value.size
  BY <1>1 DEF NativeInv, ClosureInv
<1>4. kind' = "symbol" /\ pc' = "test" /\ seen' = seen /\ value' = value
  BY <1>2 DEF NextReturns, Native!NextReturns, Native!containers
<1>5. iter'.end = (o.done = "true")
  BY <1>1 DEF NextReturns, ReadsDone, RangeInv, TypeOK, IterStates
<1>6. o = Native!Outcome(Iterator) /\ Native!Advance(Iterator, context)
  BY DEF Native!NextReturns
<1>7. value.changes = 0 => r.changes = value.changes
  <2>1. value.changes \in 0 .. MaxChanges /\ r.changes \in 0 .. MaxChanges
    BY <1>1, <1>3, NativeTypes, ValueFields DEF Closures
  <2> QED
    BY <1>3, <2>1
<1>8. CASE r.begin = r.end
  <2>1. iter'.end /\ got' = got
    BY <1>5, <1>6, <1>8 DEF Native!Outcome, Native!Advance, Native!AtEnd
  <2> QED
    BY <1>2, <1>3, <1>4, <1>7, <1>8, <2>1 DEF LoopMeetsNative
<1>9. CASE r.begin # r.end
  <2>1. ~iter'.end
    BY <1>5, <1>6, <1>9 DEF Native!Outcome, Native!AtEnd
  <2> DEFINE e == [element |-> r.begin, in |-> context]
             g == Append(got[Iterator], e)
  <2>2. got' = [got EXCEPT ![Iterator] = g]
    BY <1>1, <1>6, <1>9, NativeTypes DEF Native!Advance, Native!AtEnd
  <2>3. got[Iterator] \in Seq(Got) /\ got'[Iterator] = g
    BY <1>1, <2>2, NativeTypes
  <2>4. Len(g) = Len(seen) + 1 /\ \A k \in 1 .. Len(g) : g[k].in = context
    BY <1>2, <2>3, HandedOutHere
  <2> HIDE DEF g, e
  <2> QED
    BY <1>4, <2>1, <2>3, <2>4 DEF LoopMeetsNative
<1> QED
  BY <1>8, <1>9

LEMMA NextFailsMeets ==
  ASSUME IterableInv, native, NextFails, Native!NextThrows(Iterator, context),
         UNCHANGED <<native, context>>
  PROVE  LoopMeetsNative'
<1>1. kind' = "symbol" /\ pc' = "error"
  BY DEF NextFails, es, IterableInv, LoopMeetsNative
<1>2. got' = got \/ Native!Advance(Iterator, context)
  BY DEF Native!NextThrows
<1>3. got' = got \/ got' = [got EXCEPT ![Iterator] =
                              Append(@, [element |-> closure[Iterator].begin, in |-> context])]
  BY <1>2 DEF Native!Advance
<1>4. got[Iterator] \in Seq(Got) /\ \A k \in 1 .. Len(got[Iterator]) : got[Iterator][k].in = context
  BY ObjectsAssorted, NativeTypes DEF IterableInv, LoopMeetsNative
<1>5. got'[Iterator] = got[Iterator] \/
      got'[Iterator] = Append(got[Iterator], [element |-> closure[Iterator].begin, in |-> context])
  BY <1>3, ObjectsAssorted, NativeTypes DEF IterableInv
<1>6. \A k \in 1 .. Len(got'[Iterator]) : got'[Iterator][k].in = context
  BY <1>4, <1>5, HandedOutHere
<1> QED
  BY <1>1, <1>6 DEF LoopMeetsNative

LEMMA LoopMovesMeet ==
  ASSUME IterableInv, native, IncrementSymbol \/ DerefSymbol \/ Leave,
         UNCHANGED nativevars, UNCHANGED <<native, context>>
  PROVE  LoopMeetsNative'
<1> USE DEF IterableInv, RangeInv, SymbolInv, LoopMeetsNative, nativevars
<1>1. CASE IncrementSymbol
  BY <1>1 DEF IncrementSymbol, es
<1>2. CASE Leave
  <2>1. iter.iterator # None
    BY <1>2, ObjectsAssorted DEF Leave
  <2> QED
    BY <1>2, <2>1 DEF Leave, es, AtEndOfSymbol
<1>3. CASE DerefSymbol
  <2>1. pc' = "error" \/ (pc' = "body" /\ Len(seen') = Len(seen) + 1)
    BY <1>3 DEF DerefSymbol, TypeOK
  <2>2. UNCHANGED <<kind, iter>> /\ pc = "test" /\ ~iter.end
    BY <1>3 DEF DerefSymbol, AtEndOfSymbol
  <2> QED
    BY <2>1, <2>2
<1> QED
  BY <1>1, <1>2, <1>3

LEMMA StepMeets ==
  ASSUME IterableInv, LoopStep \/ OtherStep
  PROVE  LoopMeetsNative'
<1>1. ASSUME native, NativeLoop, UNCHANGED <<native, context>> PROVE LoopMeetsNative'
  <2>1. CASE Begin
    BY <1>1, <2>1, BeginMeets
  <2>2. ASSUME pc = "next", Native!NextUndefined(Iterator), UNCHANGED vars PROVE LoopMeetsNative'
    BY <1>1, <2>2 DEF Native!NextUndefined, Native!containers, vars, IterableInv, LoopMeetsNative
  <2> QED
    BY <1>1, <2>1, <2>2, NextReturnsMeets, NextFailsMeets, LoopMovesMeet DEF NativeLoop, NativeNext
<1>2. CASE ~native
  BY <1>2 DEF LoopStep, OtherStep, LoopMeetsNative
<1>3. CASE native
  BY <1>1, <1>3, SurroundingsMeet DEF LoopStep, OtherStep
<1> QED
  BY <1>2, <1>3

-----------------------------------------------------------------------------
LEMMA LoopInitInv == LoopInit => IterableInv
<1> SUFFICES ASSUME LoopInit PROVE IterableInv
  OBVIOUS
<1>1. RangeInv
  BY RangeInitInv DEF LoopInit
<1>2. PICK n \in 0 .. MaxSize : value = [life |-> "alive", size |-> n, changes |-> 0]
  BY DEF LoopInit, Native!Init
<1>3. /\ home \in Contexts /\ contexts = Contexts /\ undefined = "no"
      /\ closure = [i \in Iters |-> None] /\ got = [i \in Iters |-> <<>>]
  BY DEF LoopInit, Native!Init, Iters
<1>4. Native!NativeTypeOK
  <2>1. value \in Values
    BY <1>2, LoopAssumption DEF Values, Lives
  <2>2. got \in [Iters -> Seq(Got)] /\ closure \in [Iters -> {None} \cup Closures]
    BY <1>3
  <2> QED
    BY <1>3, <2>1, <2>2, LoopAssumption
    DEF Native!NativeTypeOK, Values, Lives, Iters, Got, Closures
<1>5. \A i \in Iters : ClosureInv(i) /\ Native!EachOnce(i)
  BY <1>3 DEF ClosureInv, Native!EachOnce
<1>6. NativeInv
  BY <1>3, <1>4, <1>5 DEF NativeInv, IterationSound, Native!IterationSound
<1>7. LoopMeetsNative
  <2>1. pc = "begin" /\ (native => kind = "symbol")
    BY DEF LoopInit, Init
  <2>2. closure[Iterator] = None /\ got[Iterator] = <<>>
    BY <1>3, ObjectsAssorted
  <2> QED
    BY <2>1, <2>2 DEF LoopMeetsNative
<1> QED
  BY <1>1, <1>6, <1>7 DEF IterableInv, LoopInit

LEMMA LoopStutterInv ==
  ASSUME IterableInv, UNCHANGED loopvars
  PROVE  IterableInv'
<1>1. RangeInv' /\ NativeInv'
  BY RangeStutterInv, NativeStutterInv DEF IterableInv, loopvars
<1> QED
  BY <1>1 DEF IterableInv, LoopMeetsNative, loopvars, nativevars, vars

LEMMA IterableInvariance == LoopSpec => []IterableInv
<1>1. ASSUME IterableInv, LoopStep \/ OtherStep PROVE IterableInv'
  BY <1>1, StepRangeInv, StepNativeInv, StepMeets DEF IterableInv, LoopStep, OtherStep
<1>2. IterableInv /\ [LoopStep \/ OtherStep]_loopvars => IterableInv'
  BY <1>1, LoopStutterInv
<1> QED
  BY LoopInitInv, <1>2, PTL DEF LoopSpec

(***************************************************************************)
(* The variables of the loop and of the container have their types.        *)
(***************************************************************************)
THEOREM LoopTypeCorrect == LoopSpec => []LoopTypeOK
<1>1. IterableInv => LoopTypeOK
  BY DEF IterableInv, RangeInv, NativeInv, LoopTypeOK
<1> QED
  BY <1>1, IterableInvariance, PTL

(***************************************************************************)
(* A safe range never uses a handle to a collected object.                 *)
(***************************************************************************)
THEOREM LoopNeverDangles == LoopSpec => []NoDangling
<1>1. IterableInv => NoDangling
  BY DEF IterableInv, RangeInv
<1> QED
  BY <1>1, IterableInvariance, PTL

(***************************************************************************)
(* The loop ends without an error only at the boolean true, and calls      *)
(* next() no more after it; another truthy `done` does not stop it.        *)
(***************************************************************************)
THEOREM LoopStopsWhenDone == LoopSpec => []StopsWhenDone
<1>1. IterableInv => StopsWhenDone
  BY InvImpliesStops DEF IterableInv
<1> QED
  BY <1>1, IterableInvariance, PTL

(***************************************************************************)
(* The body sees every element once and in order, and all of them when the *)
(* loop runs to its end.                                                   *)
(***************************************************************************)
THEOREM LoopVisitsAll == LoopSpec => []VisitsAll
<1>1. IterableInv => VisitsAll
  BY InvImpliesVisits DEF IterableInv
<1> QED
  BY <1>1, IterableInvariance, PTL

(***************************************************************************)
(* Every native iterator hands out each element once and in order, and the *)
(* loop sees all of an unchanged container.                                *)
(***************************************************************************)
THEOREM LoopInOrder == LoopSpec => []InOrder
<1>1. IterableInv => InOrder
  <2> SUFFICES ASSUME IterableInv PROVE InOrder
    OBVIOUS
  <2>1. DOMAIN got = Iters
    BY NativeTypes DEF IterableInv
  <2>2. \A i \in DOMAIN got : Native!EachOnce(i)
    BY <2>1 DEF IterableInv, NativeInv
  <2>3. native /\ pc = "done" /\ value.changes = 0 =>
          /\ Len(seen) = Len(got[Iterator]) /\ Len(seen) = value.size
          /\ \A k \in 1 .. Len(seen) : got[Iterator][k].in = context
    BY DEF IterableInv, LoopMeetsNative
  <2> QED
    BY <2>2, <2>3 DEF InOrder
<1> QED
  BY <1>1, IterableInvariance, PTL

(***************************************************************************)
(* Iterating goes wrong only through what the program did to the container *)
(* or to the home coroutine.                                               *)
(***************************************************************************)
THEOREM LoopIterationSound == LoopSpec => []IterationSound
<1>1. IterableInv => IterationSound
  BY DEF IterableInv, NativeInv
<1> QED
  BY <1>1, IterableInvariance, PTL
==============================================================================
