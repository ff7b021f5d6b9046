------------------------ MODULE OverloadedCallProofs ------------------------
(***************************************************************************)
(* Theorems about OverloadedCall, for any signatures and arguments.        *)
(*                                                                         *)
(* FirstMatch is not inductive: whether a signature fits is computed from  *)
(* the value stack, so the invariant IInv has to say what is on the stack  *)
(* whenever a signature is tried, and that all signatures tried before do  *)
(* not fit.                                                                *)
(***************************************************************************)
EXTENDS OverloadedCall, SequenceTheorems, TLAPS

Elements == Values \cup {Name} \cup Pushed

\* What the stack holds before a signature is tried.
Given == IF accessor THEN Append(args, Name) ELSE args

Untried == \A j \in 1 .. k - 1 : ~Fits(overloads[j])

IInv ==
  /\ TypeOK
  /\ accessor => Len(overloads) = 1
  /\ pc = "attempt" => stack = Given
  /\ pc = "check" => stack = Received(overloads[k])
  /\ pc = "check" \/ Chosen => func # "finalized"
  /\ Chosen => Bottom(Received(overloads[k]), stack) /\ Fits(overloads[k])
  /\ pc # "error" => Untried
  /\ pc = "error" => \A j \in 1 .. Len(overloads) : ~Fits(overloads[j])

-----------------------------------------------------------------------------
(* Sequences.                                                              *)

\* A bounded sequence is a sequence.
LEMMA BoundedIsSeq ==
  ASSUME NEW S, NEW n \in Nat
  PROVE  SeqsUpTo(S, n) \subseteq Seq(S)
BY SeqDef DEF SeqsUpTo

\* Taking `this` from the bottom of the stack undoes putting it there.
LEMMA TailOfCons ==
  ASSUME NEW S, NEW e \in S, NEW s \in Seq(S)
  PROVE  /\ <<e>> \o s \in Seq(S)
         /\ Tail(<<e>> \o s) = s
<1> DEFINE c == <<e>> \o s
<1>1. <<e>> \in Seq(S) /\ Len(<<e>>) = 1 /\ <<e>>[1] = e
  OBVIOUS
<1>2. c \in Seq(S) /\ Len(c) = 1 + Len(s)
  BY <1>1, ConcatProperties
<1>3. \A i \in 1 .. Len(s) : c[i + 1] = s[i]
  BY <1>1, ConcatProperties, LenProperties
<1>4. c # <<>>
  BY <1>2, EmptySeq, LenProperties
<1> HIDE DEF c
<1>5. Tail(c) \in Seq(S) /\ Len(Tail(c)) = Len(s)
  BY <1>2, <1>4, HeadTailProperties, LenProperties
<1>6. \A i \in 1 .. Len(s) : Tail(c)[i] = s[i]
  BY <1>2, <1>3, <1>4, <1>5, HeadTailProperties
<1>7. Tail(c) = s
  BY <1>5, <1>6, SeqEqual
<1> QED
  BY <1>2, <1>7 DEF c

\* Popping the name undoes pushing it.
LEMMA FrontOfAppend ==
  ASSUME NEW S, NEW e \in S, NEW s \in Seq(S)
  PROVE  SubSeq(Append(s, e), 1, Len(Append(s, e)) - 1) = s
<1> DEFINE a == Append(s, e)
           f == SubSeq(a, 1, Len(a) - 1)
<1>1. a \in Seq(S) /\ Len(a) = Len(s) + 1 /\ Len(s) \in Nat
  OBVIOUS
<1>2. \A i \in 1 .. Len(s) : a[i] = s[i]
  OBVIOUS
<1>3. \A i \in 1 .. Len(s) : a[i] \in S
  BY <1>2, ElementOfSeq
<1> HIDE DEF a
<1>4. f \in Seq(S) /\ Len(f) = Len(s) /\ \A i \in 1 .. Len(s) : f[i] = a[i]
  BY <1>1, <1>3, SubSeqProperties
<1> QED
  BY <1>2, <1>4, SeqEqual DEF a

\* A sequence is at the bottom of itself and of its extensions.
LEMMA BottomOfConcat ==
  ASSUME NEW S, NEW s \in Seq(S), NEW t \in Seq(S), NEW u \in Seq(S), Bottom(s, t)
  PROVE  Bottom(s, t \o u)
BY ConcatProperties, LenProperties DEF Bottom

LEMMA BottomOfSelf ==
  ASSUME NEW s
  PROVE  Bottom(s, s) <=> Len(s) <= Len(s)
BY DEF Bottom

-----------------------------------------------------------------------------
(* The call.                                                               *)

\* Everything that is put on the stack together is a sequence of Elements.
LEMMA StackTypes ==
  ASSUME TypeOK, NEW sig
  PROVE  /\ this \in Elements /\ args \in Seq(Elements) /\ Given \in Seq(Elements)
         /\ Received(sig) \in Seq(Elements)
         /\ Len(Received(sig)) \in Nat
<1>1. this \in Elements /\ args \in Seq(Elements) /\ Name \in Elements
  BY SeqMonotonic DEF TypeOK, Elements
<1>2. Given \in Seq(Elements)
  BY <1>1 DEF Given
<1>3. Received(sig) \in Seq(Elements)
  BY <1>1, TailOfCons DEF Received
<1> QED
  BY <1>1, <1>2, <1>3, LenProperties

\* The wrapper hands the signature what it receives.
LEMMA ArrangedReceived ==
  ASSUME TypeOK, stack = Given
  PROVE  Arranged = Received(overloads[k])
<1>1. Popped = args
  <2>1. CASE accessor
    <3>1. Name \in Elements /\ args \in Seq(Elements)
      BY StackTypes DEF Elements
    <3> QED
      BY <2>1, <3>1, FrontOfAppend DEF Popped, Given
  <2>2. CASE ~accessor
    BY <2>2 DEF Popped, Given
  <2> QED
    BY <2>1, <2>2
<1> QED
  BY <1>1 DEF Arranged, Received

\* A function or method that does not match leaves the arguments of the call.
LEMMA RestoredGiven ==
  ASSUME TypeOK, stack = Received(overloads[k]), ~accessor
  PROVE  Restored = Given
BY StackTypes, TailOfCons DEF Restored, Received, Given, PushThis

\* What the wrapper checks on the stack is whether the call fits.
LEMMA MatchIsFit ==
  ASSUME stack = Received(overloads[k])
  PROVE  ArgsMatch(overloads[k].params) <=> Fits(overloads[k])
BY DEF ArgsMatch, Fits

\* Whether a signature fits does not change.
LEMMA FitsStable ==
  ASSUME UNCHANGED input
  PROVE  \A j : Fits(overloads[j])' <=> Fits(overloads[j])
BY DEF input, Fits, Received, PushThis

LEMMA InitInv == Init => IInv
<1> SUFFICES ASSUME Init PROVE IInv
  OBVIOUS
<1> USE CallAssumption
<1>1. overloads \in Seq([method : BOOLEAN, params : Seq(Params)]) /\ overloads # <<>>
  <2>1. Signatures \subseteq [method : BOOLEAN, params : Seq(Params)]
    BY BoundedIsSeq DEF Signatures
  <2>2. overloads \in Seq(Signatures)
    BY BoundedIsSeq DEF Init
  <2> QED
    BY <2>1, <2>2, SeqMonotonic DEF Init
<1>2. args \in Seq(Values)
  BY BoundedIsSeq DEF Init
<1>3. args \in Seq(Elements) /\ Name \in Elements
  BY <1>2, SeqMonotonic DEF Elements
<1>4. stack \in Seq(Elements)
  BY <1>3 DEF Init
<1>5. k \in 1 .. Len(overloads)
  BY <1>1, EmptySeq DEF Init
<1>6. TypeOK
  BY <1>1, <1>2, <1>4, <1>5 DEF Init, Accessors, TypeOK, Elements
<1> QED
  BY <1>6 DEF Init, Accessors, IInv, Given, Chosen, Untried

LEMMA NextInv == IInv /\ [Next]_vars => IInv'
<1> SUFFICES ASSUME IInv, [Next]_vars PROVE IInv'
  OBVIOUS
<1> USE DEF IInv
<1>8. CASE CalledFinalized
  <2>1. TypeOK'
    BY <1>8 DEF CalledFinalized, TypeOK, input
  <2> QED
    BY <1>8, <2>1 DEF CalledFinalized, input, Chosen, Untried, Fits, Received, PushThis
<1>1. CASE Attempt
  <2>1. stack' = Received(overloads[k])
    BY <1>1, ArrangedReceived DEF Attempt
  <2>2. stack' \in Seq(Elements)
    BY <2>1, StackTypes
  <2>3. TypeOK'
    BY <1>1, <2>2 DEF Attempt, TypeOK, input, Elements
  <2> QED
    BY <1>1, <2>1, <2>3 DEF Attempt, input, Chosen, Untried, Fits, Received, PushThis
<1>2. CASE Invoke
  <2>1. Fits(overloads[k])
    BY <1>2, MatchIsFit DEF Invoke
  <2>2. Bottom(Received(overloads[k]), stack)
    BY <1>2, StackTypes DEF Invoke, Bottom
  <2>3. TypeOK'
    BY <1>2 DEF Invoke, TypeOK, input
  <2> QED
    BY <1>2, <2>1, <2>2, <2>3
    DEF Invoke, input, Chosen, Untried, Fits, Received, PushThis, Bottom
<1>3. CASE Mismatch
  <2>1. ~Fits(overloads[k])
    BY <1>3, MatchIsFit DEF Mismatch
  <2>2. Restored \in Seq(Elements)
    <3>1. this \in Elements /\ args \in Seq(Elements)
      BY StackTypes
    <3>2. CASE PushThis(overloads[k])
      BY <1>3, <3>1, <3>2, TailOfCons DEF Restored, Mismatch, Received
    <3>3. CASE ~PushThis(overloads[k])
      BY <1>3, <3>1, <3>3 DEF Restored, Mismatch, Received
    <3> QED
      BY <3>2, <3>3
  <2>3. CASE AnotherSignature
    <3>1. k' = k + 1 /\ pc' = "attempt" /\ stack' = Restored
      BY <1>3, <2>3 DEF Mismatch
    <3>2. ~accessor
      <4>1. k < Len(overloads) /\ k \in 1 .. Len(overloads)
        BY <2>3 DEF AnotherSignature, TypeOK
      <4>2. SUFFICES ASSUME accessor PROVE FALSE
        OBVIOUS
      <4>3. k \in 1 .. 1 /\ k < 1
        BY <4>1, <4>2
      <4> QED
        BY <4>3
    <3>3. Restored = Given
      BY <1>3, <3>2, RestoredGiven DEF Mismatch
    <3>4. TypeOK'
      BY <1>3, <2>2, <2>3, <3>1 DEF Mismatch, TypeOK, input, AnotherSignature, Elements
    <3>5. Untried'
      <4>1. \A j \in 1 .. k : ~Fits(overloads[j])
        BY <1>3, <2>1 DEF Mismatch, Untried, TypeOK
      <4>2. \A j \in 1 .. k : ~Fits(overloads[j])'
        BY <1>3, <4>1, FitsStable DEF Mismatch
      <4>3. k' - 1 = k
        BY <3>1 DEF TypeOK
      <4> QED
        BY <4>2, <4>3 DEF Untried
    <3> QED
      BY <1>3, <3>1, <3>3, <3>4, <3>5 DEF Mismatch, input, Chosen, Given
  <2>4. CASE ~AnotherSignature
    <3>1. k' = k /\ pc' = "error" /\ stack' = Restored
      BY <1>3, <2>4 DEF Mismatch
    <3>2. k = Len(overloads)
      BY <2>4 DEF AnotherSignature, TypeOK
    <3>3. TypeOK'
      BY <1>3, <2>2, <3>1 DEF Mismatch, TypeOK, input, Elements
    <3>4. \A j \in 1 .. Len(overloads) : ~Fits(overloads[j])
      BY <1>3, <2>1, <3>2 DEF Mismatch, Untried, TypeOK
    <3>5. (\A j \in 1 .. Len(overloads) : ~Fits(overloads[j]))'
      BY <1>3, <3>4, FitsStable DEF Mismatch, input
    <3> QED
      BY <1>3, <3>1, <3>3, <3>5 DEF Mismatch, input, Chosen
  <2> QED
    BY <2>3, <2>4
<1>4. CASE Run
  <2>1. TypeOK'
    BY <1>4 DEF Run, TypeOK, input
  <2> QED
    BY <1>4, <2>1 DEF Run, input, Chosen, Untried, Fits, Received, PushThis, Bottom
<1>5. CASE \E result \in Results : Return(result)
  <2>1. PICK result \in Results : Return(result)
    BY <1>5
  <2>2. result \in Seq(Elements) /\ stack \in Seq(Elements)
    <3>1. result = <<>> \/ \E v \in Elements : result = <<v>>
      BY DEF Results, Elements
    <3>2. \A v \in Elements : <<v>> \in Seq(Elements)
      OBVIOUS
    <3>3. <<>> \in Seq(Elements)
      BY EmptySeq
    <3>4. stack \in Seq(Elements)
      BY DEF Elements, TypeOK
    <3> QED
      BY <3>1, <3>2, <3>3, <3>4
  <2>3. stack' \in Seq(Elements)
    BY <2>1, <2>2, ConcatProperties DEF Return
  <2>4. Bottom(Received(overloads[k]), stack')
    BY <2>1, <2>2, StackTypes, BottomOfConcat DEF Return, Chosen
  <2>5. TypeOK'
    BY <2>1, <2>3 DEF Return, TypeOK, input, Elements
  <2> QED
    BY <2>1, <2>4, <2>5 DEF Return, input, Chosen, Untried, Fits, Received, PushThis, Bottom
<1>6. CASE Throw
  <2>1. TypeOK'
    BY <1>6 DEF Throw, TypeOK, input
  <2> QED
    BY <1>6, <2>1 DEF Throw, input, Chosen, Untried, Fits, Received, PushThis, Bottom
<1>7. CASE UNCHANGED vars
  BY <1>7 DEF vars, input, TypeOK, Chosen, Untried, Fits, Received, PushThis, Bottom, Given
<1> QED
  BY <1>1, <1>2, <1>3, <1>4, <1>5, <1>6, <1>7, <1>8 DEF Next, Ended

LEMMA Invariance == Spec => []IInv
BY InitInv, NextInv, PTL DEF Spec

-----------------------------------------------------------------------------

\* The variables keep their types (TypeOK).
THEOREM TypeCorrect == Spec => []TypeOK
<1>1. IInv => TypeOK
  BY DEF IInv
<1> QED
  BY Invariance, <1>1, PTL

(***************************************************************************)
(* Every signature is tried on the arguments of the call, and the function *)
(* that is invoked finds them at the bottom of the stack as long as it     *)
(* runs (detail/function_wrapper.h 94-129).                                *)
(***************************************************************************)
THEOREM ArgumentsStayIntact == Spec => []ArgumentsIntact
<1>1. IInv => ArgumentsIntact
  BY DEF IInv, ArgumentsIntact, Given
<1> QED
  BY Invariance, <1>1, PTL

(***************************************************************************)
(* The first signature that fits the call is invoked, and an error is      *)
(* thrown only when none fits (detail/function_wrapper.h 140-168).         *)
(***************************************************************************)
THEOREM FirstMatchInvoked == Spec => []FirstMatch
<1>1. IInv => FirstMatch
  BY DEF IInv, FirstMatch, Untried, Chosen
<1> QED
  BY Invariance, <1>1, PTL
=============================================================================
