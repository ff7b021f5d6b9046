-------------------------- MODULE BoundCallProofs --------------------------
(***************************************************************************)
(* A C++ function that calls back through a function handle does not       *)
(* disturb the call it is running in: BoundCall implements OverloadedCall, *)
(* and every call of a handle leaves the value stack as it found it.  The  *)
(* function is invoked only on arguments of its C++ types, for any class   *)
(* hierarchy, and the error of a call that fits none names its caller, on  *)
(* call stacks of any depth.                                               *)
(*                                                                         *)
(* The invariant HandleInv follows the part of the stack that the callback *)
(* uses: it is above `below`, and `below` is above the arguments.          *)
(***************************************************************************)
EXTENDS BoundCall, OverloadedCallProofs, WellFoundedInduction

\* The stack as the call of a handle found it is below what it has now.
HandleStack ==
  /\ below \in Seq(Elements)
  /\ Bottom(Received(overloads[k]), below)
  /\ Bottom(below, stack)
  /\ hpc = "push" => Len(stack) > Len(below)
  /\ hpc \in {"called", "failed"} => Len(stack) = Len(below) + 1
  /\ hpc \in {"returned", "threw"} => stack = below

\* Only frames of C functions have been inspected before the last one, and what
\* has been read is that frame's.
SearchInv ==
  /\ lpc # "idle" => Locates
  /\ calls \in Seq(Frames) /\ level \in Nat \ {0} /\ level <= Len(calls) + 1
  /\ fileName \in Files \cup {NoFile} /\ lineNumber \in Lines \cup {0}
  /\ lpc = "idle" => level = 1 /\ fileName = NoFile /\ calls = <<>>
  /\ \A l \in 1 .. level - 1 : l < level - 1 => calls[l].file = NoFile
  /\ level = 1 => fileName = NoFile
  /\ level > 1 => fileName = calls[level - 1].file /\ lineNumber = calls[level - 1].line
  /\ lpc = "thrown" => fileName # NoFile \/ level > Len(calls)

HandleInv ==
  /\ IInv
  /\ BoundTypeOK
  /\ pc \in {"attempt", "check", "error", "invalid"} => hpc = "idle"
  /\ pc = "invoked" /\ hpc # "idle" => HandleStack
  /\ hpc \in {"push", "called"} => got \in Expected
  /\ SearchInv

-----------------------------------------------------------------------------
(* Sequences.                                                              *)

LEMMA BottomTransitive ==
  ASSUME NEW r \in Seq(Elements), NEW s \in Seq(Elements), NEW t \in Seq(Elements),
         Bottom(r, s), Bottom(s, t)
  PROVE  Bottom(r, t)
BY LenProperties DEF Bottom

\* What is below stays below when more is pushed.
LEMMA BottomOfPush ==
  ASSUME NEW s \in Seq(Elements), NEW t \in Seq(Elements), NEW e \in Elements, Bottom(s, t)
  PROVE  /\ Append(t, e) \in Seq(Elements)
         /\ Len(Append(t, e)) = Len(t) + 1
         /\ Bottom(s, Append(t, e))
BY DEF Bottom

\* What is below stays below when what is above it is popped.
LEMMA BottomOfPopped ==
  ASSUME NEW s \in Seq(Elements), stack \in Seq(Elements), Bottom(s, stack),
         NEW n \in Nat, n <= Len(stack) - Len(s)
  PROVE  /\ Handle!Popped(n) \in Seq(Elements)
         /\ Len(Handle!Popped(n)) = Len(stack) - n
         /\ Bottom(s, Handle!Popped(n))
         /\ n = Len(stack) - Len(s) => Handle!Popped(n) = s
<1> DEFINE m == Len(stack) - n
           p == SubSeq(stack, 1, m)
<1>1. Len(s) \in Nat /\ Len(stack) \in Nat /\ m \in Nat /\ Len(s) <= m /\ m <= Len(stack)
  BY LenProperties DEF Bottom
<1>2. \A i \in 1 .. m : stack[i] \in Elements
  BY <1>1, ElementOfSeq
<1> HIDE DEF m
<1>3. p \in Seq(Elements) /\ Len(p) = m /\ \A i \in 1 .. m : p[i] = stack[i]
  BY <1>1, <1>2, SubSeqProperties
<1> HIDE DEF p
<1>4. Handle!Popped(n) = p
  BY DEF Handle!Popped, p, m
<1>5. Bottom(s, p)
  BY <1>1, <1>3 DEF Bottom
<1>6. ASSUME n = Len(stack) - Len(s) PROVE p = s
  <2>1. Len(p) = Len(s)
    BY <1>1, <1>3, <1>6 DEF m
  <2> QED
    BY <1>3, <1>5, <2>1, SeqEqual DEF Bottom
<1> QED
  BY <1>3, <1>4, <1>5, <1>6 DEF m

-----------------------------------------------------------------------------
(* Types.  What getImpl computes is defined by recursion.                  *)
(* The proofs give a closed form, show that it satisfies the recursion,    *)
(* and that nothing else does: two solutions that differ would differ at a *)
(* least place, but the recursion goes on to a lesser one.                 *)

LEMMA LeastNumber ==
  ASSUME NEW T \in SUBSET Nat, T # {}
  PROVE  \E x \in T : \A y \in T : x <= y
<1> DEFINE R == {ss \in Nat \X Nat : ss[1] < ss[2]}
<1>1. OpToRel(<, Nat) = R
  BY DEF OpToRel
<1>2. IsWellFoundedOn(R, Nat)
  BY <1>1, NatLessThanWellFounded
<1>3. PICK x \in T : \A y \in T : ~(<<y, x>> \in R)
  BY <1>2, WFMin
<1>4. ASSUME NEW y \in T
      PROVE  x <= y
  <2>1. x \in Nat /\ y \in Nat /\ <<y, x>> \notin R
    BY <1>3
  <2> QED
    BY <2>1
<1> QED
  BY <1>4

\* The ancestors of a type are the type and the ancestors of its base.
LEMMA AncestorsStep ==
  ASSUME NEW t \in Types
  PROVE  /\ t \in Ancestors(t)
         /\ \A a : a \in Ancestors(t) => a \in Types
         /\ Base[t] # None =>
              Base[t] \in Types /\ \A a : a \in Ancestors(Base[t]) => a \in Ancestors(t)
         /\ \A a \in Ancestors(t) : a # t => Base[t] # None /\ a \in Ancestors(Base[t])
<1> DEFINE Closed(b) == {S \in SUBSET Types :
                           b \in S /\ \A s \in S : Base[s] # None => Base[s] \in S}
<1>1. \A a, b : a \in Ancestors(b) <=> a \in Types /\ \A S \in Closed(b) : a \in S
  BY DEF Ancestors
<1>2. \A b \in Types : Base[b] # None => Base[b] \in Types
  BY TypeAssumption
<1>3. ASSUME Base[t] # None
      PROVE  \A S \in Closed(t) : S \in Closed(Base[t])
  BY <1>2, <1>3
<1>4. ASSUME NEW a \in Ancestors(t), a # t
      PROVE  Base[t] # None /\ a \in Ancestors(Base[t])
  <2>1. a \in Types /\ \A S \in Closed(t) : a \in S
    BY <1>1, <1>4
  <2>2. CASE Base[t] = None
    <3>1. {t} \in Closed(t)
      BY <2>2
    <3> QED
      BY <1>4, <2>1, <3>1
  <2>3. CASE Base[t] # None
    <3>1. ASSUME NEW S \in Closed(Base[t])
          PROVE  a \in S
      <4>1. S \cup {t} \in Closed(t)
        BY <2>3, <3>1
      <4> QED
        BY <1>4, <2>1, <4>1
    <3> QED
      BY <1>1, <2>1, <2>3, <3>1
  <2> QED
    BY <2>2, <2>3
<1> HIDE DEF Closed
<1>5. t \in Ancestors(t)
  BY <1>1 DEF Closed
<1> QED
  BY <1>1, <1>2, <1>3, <1>4, <1>5

\* A value can be used as its type, as what its adapter yields, and as its base.
LEMMA UsableStep ==
  ASSUME NEW t \in Types, NEW id
  PROVE  UsableAs(t, id) <=>
           \/ id = t
           \/ t \in Pointers /\ id = Pointee[t]
           \/ Base[t] # None /\ UsableAs(Base[t], id)
BY AncestorsStep DEF UsableAs

\* What getImpl leaves in the buffer, said directly.
Offers(id, t) == IF t # None /\ UsableAs(t, id) THEN Reads(id) ELSE Fail

\* The step of getImplType.
Step(id, t, next) ==
  IF t = None THEN Fail
  ELSE IF t = id THEN OfOwnType(t)
  ELSE IF t \in Pointers /\ id = Pointee[t] THEN Pointer(id)
  ELSE next

LEMMA OffersStep ==
  ASSUME NEW id \in Types, NEW t \in Types \cup {None}
  PROVE  Offers(id, t) = Step(id, t, Offers(id, NextBase(t)))
<1>1. CASE t = None
  BY <1>1 DEF Offers, Step
<1>2. CASE t \in Types
  <2>1. t # None
    BY <1>2, TypeAssumption
  <2>2. CASE t = id
    BY <1>2, <2>1, <2>2, UsableStep DEF Offers, Step, Reads, OfOwnType
  <2>3. CASE t # id /\ t \in Pointers /\ id = Pointee[t]
    <3>1. id \notin Pointers
      BY <2>3, TypeAssumption
    <3> QED
      BY <1>2, <2>1, <2>3, <3>1, UsableStep DEF Offers, Step, Reads
  <2>4. CASE t # id /\ ~(t \in Pointers /\ id = Pointee[t])
    <3>1. UsableAs(t, id) <=> Base[t] # None /\ UsableAs(Base[t], id)
      BY <1>2, <2>4, UsableStep
    <3> QED
      BY <2>1, <2>4, <3>1 DEF Offers, Step, NextBase
  <2> QED
    BY <2>2, <2>3, <2>4
<1> QED
  BY <1>1, <1>2

\* getImpl computes what a value offers, along chains of bases of any length.
LEMMA GetImplOffers ==
  ASSUME NEW id \in Types, NEW stored \in Types \cup {None}
  PROVE  GetImpl(id, stored) = Offers(id, stored)
<1> DEFINE Dom == Types \cup {None}
           Rec(f) == f = [t \in Types \cup {None} |->
                            IF t = None THEN Fail
                            ELSE IF t = id THEN OfOwnType(t)
                            ELSE IF t \in Pointers /\ id = Pointee[t] THEN Pointer(id)
                            ELSE f[NextBase(t)]]
           g == [t \in Types \cup {None} |-> Offers(id, t)]
<1>1. GetImpl(id, stored) = (CHOOSE f : Rec(f))[stored]
  BY DEF GetImpl
<1>2. \A t \in Types : NextBase(t) \in Types \cup {None}
  BY TypeAssumption DEF NextBase
<1>3. None \notin Types
  BY TypeAssumption
<1>4. Rec(g)
  <2>1. ASSUME NEW t \in Types \cup {None}
        PROVE  g[t] = IF t = None THEN Fail
                      ELSE IF t = id THEN OfOwnType(t)
                      ELSE IF t \in Pointers /\ id = Pointee[t] THEN Pointer(id)
                      ELSE g[NextBase(t)]
    <3>1. CASE t = None
      BY <3>1 DEF Offers
    <3>2. CASE t \in Types
      <4>1. g[t] = Step(id, t, Offers(id, NextBase(t)))
        BY OffersStep
      <4>2. g[NextBase(t)] = Offers(id, NextBase(t))
        BY <1>2, <3>2
      <4> HIDE DEF g
      <4> QED
        BY <4>1, <4>2 DEF Step
    <3> QED
      BY <3>1, <3>2
  <2>2. g = [t \in Types \cup {None} |-> g[t]]
    OBVIOUS
  <2> HIDE DEF g
  <2> QED
    BY <2>1, <2>2
<1>5. ASSUME NEW f, Rec(f)
      PROVE  f = g
  <2>1. /\ f = [t \in Types \cup {None} |-> f[t]]
        /\ \A t \in Types \cup {None} : f[t] = Step(id, t, f[NextBase(t)])
    BY <1>5 DEF Step
  <2>2. \A t \in Types \cup {None} : g[t] = Step(id, t, Offers(id, NextBase(t)))
    BY OffersStep
  <2>3. \A t \in Types \cup {None} : g[t] = Offers(id, t)
    OBVIOUS
  <2>4. PICK rank \in [Types -> 0 .. Cardinality(Types)] :
          \A t \in Types : Base[t] # None => rank[Base[t]] < rank[t]
    BY TypeAssumption
  <2> HIDE DEF Rec, g
  <2>5. SUFFICES ASSUME NEW t0 \in Types \cup {None}, f[t0] # g[t0] PROVE FALSE
    <3>1. g = [t \in Types \cup {None} |-> g[t]]
      BY DEF g
    <3> QED
      BY <2>1, <2>5, <3>1
  \* Where they differ, they differ at the base.
  <2>6. ASSUME NEW t \in Types \cup {None}, f[t] # g[t]
        PROVE  t \in Types /\ Base[t] \in Types /\ Base[t] # None /\ f[Base[t]] # g[Base[t]]
    <3>1. f[None] = g[None]
      BY <2>1, <2>2 DEF Step
    <3>2. t \in Types
      BY <2>6, <3>1
    <3>3. f[NextBase(t)] # g[NextBase(t)]
      BY <1>2, <2>1, <2>2, <2>3, <2>6, <3>2 DEF Step
    <3> QED
      BY <1>2, <1>3, <3>1, <3>2, <3>3 DEF NextBase
  <2> DEFINE Bad == {t \in Types : f[t] # g[t]}
             Ranks == {rank[t] : t \in Bad}
  <2>7. Ranks \in SUBSET Nat /\ Ranks # {}
    <3>1. t0 \in Bad
      BY <2>5, <2>6
    <3>2. \A t \in Types : rank[t] \in Nat
      BY <2>4
    <3> QED
      BY <3>1, <3>2
  <2>8. PICK least \in Ranks : \A r \in Ranks : least <= r
    <3> HIDE DEF Ranks
    <3> QED
      BY <2>7, LeastNumber
  <2>9. PICK t \in Bad : rank[t] = least
    BY <2>8
  <2>10. Base[t] \in Bad /\ rank[Base[t]] < rank[t]
    BY <2>4, <2>6, <2>9
  <2>11. rank[t] <= rank[Base[t]] /\ rank[t] \in Nat /\ rank[Base[t]] \in Nat
    BY <2>7, <2>8, <2>9, <2>10
  <2> QED
    BY <2>10, <2>11
<1> HIDE DEF Rec
<1>6. (CHOOSE f : Rec(f)) = g
  BY <1>4, <1>5
<1> QED
  BY <1>1, <1>6

\* check_type takes what is of the type, through bases and adapters.
LEMMA CheckTypeTakes ==
  ASSUME NEW v \in Values, NEW p \in Params
  PROVE  /\ CheckType(v, p) <=> Takes(v, p)
         /\ Takes(v, p) /\ p \in Types => GetImpl(p, Wraps[v]) = Reads(p)
<1>1. CASE p = Number
  <2>1. p \notin Types
    BY <1>1, TypeAssumption
  <2> QED
    BY <1>1, <2>1 DEF CheckType, Takes, IsNumber
<1>2. CASE p # Number
  <2>1. p \in Types /\ None \notin Types
    BY <1>2, BoundAssumption, TypeAssumption
  <2>2. Reads(p) # Fail
    BY DEF Reads, Fail, Value, Pointer
  <2>3. CASE Wraps[v] \in Types
    <3>1. GetImpl(p, Wraps[v]) = Offers(p, Wraps[v])
      BY <2>1, <2>3, GetImplOffers
    <3> QED
      BY <1>2, <2>1, <2>2, <2>3, <3>1 DEF CheckType, Takes, Offers
  <2>4. CASE Wraps[v] \notin Types
    BY <1>2, <2>4 DEF CheckType, Takes
  <2> QED
    BY <2>3, <2>4
<1> QED
  BY <1>1, <1>2

-----------------------------------------------------------------------------
(* The place of an error.                                                  *)

LEMMA SearchInit == LInit => SearchInv
BY EmptySeq DEF LInit, SearchInv

\* The rest of the call leaves it alone.
LEMMA SearchRest ==
  ASSUME SearchInv, UNCHANGED lvars, lpc = "idle" \/ UNCHANGED vars
  PROVE  SearchInv'
<1>1. Locates => lpc = "idle" \/ Locates'
  BY DEF Locates, vars, input
<1> QED
  BY <1>1 DEF SearchInv, lvars

LEMMA SearchStep ==
  ASSUME SearchInv, Locates, LNext, UNCHANGED <<vars, handleVars>>
  PROVE  SearchInv'
<1>1. Locates'
  BY DEF Locates, vars, input
<1>2. Len(calls) \in Nat /\ level \in Nat \ {0}
  BY LenProperties DEF SearchInv
<1>3. CASE StartSearch
  <2>1. calls' \in Seq(Frames) /\ Len(calls') \in Nat
    <3>1. calls' \in UNION {[1 .. n -> Frames] : n \in 0 .. MaxDepth}
      BY <1>3 DEF StartSearch, CallStacks
    <3>2. calls' \in Seq(Frames)
      BY <3>1, LocationAssumption, SeqDef
    <3> QED
      BY <3>2, LenProperties
  <2>2. level' = 1 /\ fileName' = NoFile /\ lpc' = "search" /\ lineNumber' = lineNumber
    BY <1>3 DEF StartSearch, SearchInv
  <2> QED
    BY <1>1, <2>1, <2>2 DEF SearchInv
<1>4. CASE InspectFrame
  <2>1. /\ fileName = NoFile /\ level <= Len(calls) /\ lpc = "search" /\ lpc' = "search"
        /\ level' = level + 1 /\ calls' = calls
        /\ fileName' = calls[level].file /\ lineNumber' = calls[level].line
    BY <1>4 DEF InspectFrame, LineRead
  <2>2. calls[level] \in Frames
    BY <1>2, <2>1, ElementOfSeq DEF SearchInv
  <2>3. fileName' \in Files \cup {NoFile} /\ lineNumber' \in Lines \cup {0}
    BY <2>1, <2>2 DEF Frames
  <2>4. \A l \in 1 .. level - 1 : calls[l].file = NoFile
    BY <1>2, <2>1 DEF SearchInv
  <2>5. level' - 1 = level /\ level' > 1 /\ level' \in Nat \ {0} /\ level' <= Len(calls') + 1
    BY <1>2, <2>1
  <2>6. \A l \in 1 .. level' - 1 : l < level' - 1 => calls'[l].file = NoFile
    BY <1>2, <2>1, <2>4, <2>5
  <2> QED
    BY <1>1, <2>1, <2>3, <2>5, <2>6 DEF SearchInv
<1>5. CASE ThrowError
  BY <1>1, <1>5 DEF ThrowError, SearchInv
<1> QED
  BY <1>3, <1>4, <1>5 DEF LNext

\* What has been read when the search ends is the innermost frame with a file.
LEMMA SearchFinds ==
  ASSUME SearchInv, lpc = "thrown"
  PROVE  ErrorPlace = Innermost
<1> DEFINE ES == {l \in 1 .. Len(calls) : calls[l].file # NoFile}
<1>1. Len(calls) \in Nat /\ level \in Nat \ {0} /\ level <= Len(calls) + 1
  BY LenProperties DEF SearchInv
<1>2. CASE fileName = NoFile
  <2>1. \A l \in 1 .. Len(calls) : calls[l].file = NoFile
    <3>1. level = Len(calls) + 1
      BY <1>1, <1>2 DEF SearchInv
    <3>2. TAKE l \in 1 .. Len(calls)
    <3>3. l < level - 1 \/ (l = level - 1 /\ level > 1)
      BY <1>1, <3>1
    <3> QED
      BY <1>1, <1>2, <3>1, <3>3 DEF SearchInv
  <2> QED
    BY <1>2, <2>1 DEF ErrorPlace, Innermost
<1>3. CASE fileName # NoFile
  <2> DEFINE f == level - 1
  <2>1. f \in 1 .. Len(calls) /\ level > 1
    BY <1>1, <1>3 DEF SearchInv
  <2>2. /\ calls[f].file = fileName /\ calls[f].line = lineNumber
        /\ \A l \in 1 .. Len(calls) : l < f => calls[l].file = NoFile
    BY <1>1, <2>1 DEF SearchInv
  <2>3. calls[f] = [file |-> fileName, line |-> lineNumber]
    <3>1. calls[f] \in Frames
      BY <2>1, ElementOfSeq DEF SearchInv
    <3> QED
      BY <2>2, <3>1 DEF Frames
  <2> HIDE DEF f
  <2>4. f \in ES /\ \A l \in ES : f <= l
    BY <1>1, <1>3, <2>1, <2>2
  <2>5. ASSUME NEW l \in ES, \A m \in ES : l <= m PROVE l = f
    BY <2>4, <2>5, <1>1
  <2>6. (CHOOSE l \in ES : \A m \in ES : l <= m) = f
    BY <2>4, <2>5
  <2> QED
    BY <1>3, <2>3, <2>4, <2>6 DEF ErrorPlace, Innermost
<1> QED
  BY <1>2, <1>3

-----------------------------------------------------------------------------
(* The callback.                                                           *)

\* What the handle does to the stack, and that it is above the arguments.
LEMMA CallBackStep ==
  ASSUME HandleInv, CallBack
  PROVE  Run /\ HandleStack'
<1>1. PICK r : r = Received(overloads[k])
  OBVIOUS
<1>2. pc = "invoked" /\ UNCHANGED <<input, k, pc>> /\ TypeOK
  BY DEF CallBack, HandleInv, IInv
<1>3. r \in Seq(Elements) /\ stack \in Seq(Elements) /\ Bottom(r, stack)
  BY <1>1, <1>2, StackTypes DEF HandleInv, IInv, Chosen, TypeOK, Elements
<1>4. r = Received(overloads[k])'
  BY <1>1, <1>2 DEF input, Received, PushThis
<1>5. Sent \subseteq Elements /\ Function \in Elements /\ Error \in Elements
  BY BoundAssumption DEF Elements
<1>6. hpc # "idle" => HandleStack
  BY <1>2 DEF HandleInv
<1> SUFFICES /\ stack' \in Seq(Elements) /\ below' \in Seq(Elements)
             /\ Bottom(r, below') /\ Bottom(below', stack')
             /\ hpc' = "push" => Len(stack') > Len(below')
             /\ hpc' \in {"called", "failed"} => Len(stack') = Len(below') + 1
             /\ hpc' \in {"returned", "threw"} => stack' = below'
  <2>1. Bottom(r, stack')
    BY <1>3, BottomTransitive
  <2> QED
    BY <1>1, <1>2, <1>4, <2>1 DEF Run, HandleStack, Elements
<1>7. CASE \E type \in Expected : Handle!PushFunction(type)
  <2>1. below' = stack /\ stack' = Append(stack, Function) /\ hpc' = "push"
    BY <1>7 DEF Handle!PushFunction, Handle!Push
  <2>2. Len(stack) \in Nat
    BY <1>3, LenProperties
  <2>3. Bottom(stack, stack)
    BY <2>2, BottomOfSelf
  <2> QED
    BY <1>3, <1>5, <2>1, <2>2, <2>3, BottomOfPush
\* In the other actions a call is in progress.
<1>8. ASSUME hpc # "idle"
      PROVE  /\ below \in Seq(Elements) /\ Bottom(r, below) /\ Bottom(below, stack)
             /\ Len(below) \in Nat /\ Len(stack) \in Nat /\ Len(below) <= Len(stack)
  BY <1>1, <1>3, <1>6, <1>8, LenProperties DEF HandleStack, Bottom
\* What duk_pcall replaces is all that is above `below`.
<1>9. ASSUME hpc = "push" PROVE Handle!CallFrame = below
  <2>1. Handle!Arguments + 1 = Len(stack) - Len(below)
    BY <1>8, <1>9 DEF Handle!Arguments
  <2>2. Len(stack) - Len(below) \in Nat
    BY <1>8, <1>9
  <2> QED
    BY <1>3, <1>8, <1>9, <2>1, <2>2, BottomOfPopped DEF Handle!CallFrame
<1>10. ASSUME hpc \in {"called", "failed"} PROVE Handle!Popped(1) = below
  <2>1. Len(stack) = Len(below) + 1
    BY <1>6, <1>10 DEF HandleStack
  <2> QED
    BY <1>3, <1>8, <1>10, <2>1, BottomOfPopped
<1>11. CASE \E v \in Sent : Handle!PushArgument(v)
  <2>1. PICK v \in Sent : Handle!PushArgument(v)
    BY <1>11
  <2>2. hpc = "push" /\ stack' = Append(stack, v) /\ UNCHANGED <<below, hpc>>
    BY <2>1 DEF Handle!PushArgument, Handle!Push, Handle!hvars
  <2>3. v \in Elements
    BY <1>5
  <2>4. /\ stack' \in Seq(Elements) /\ Len(stack') = Len(stack) + 1
        /\ Bottom(below, stack')
    BY <1>3, <1>8, <2>2, <2>3, BottomOfPush
  <2> QED
    BY <1>8, <2>2, <2>4
<1>12. CASE Handle!PushThrows
  BY <1>3, <1>8, <1>12 DEF Handle!PushThrows
\* The call is replaced by its result, or by the error.
<1>13. ASSUME NEW v \in Elements, hpc = "push", stack' = Append(Handle!CallFrame, v),
              below' = below
       PROVE  /\ stack' \in Seq(Elements) /\ Len(stack') = Len(below') + 1
              /\ Bottom(r, below') /\ Bottom(below', stack')
  <2>1. Bottom(below, below)
    BY <1>8, <1>13, BottomOfSelf
  <2> QED
    BY <1>8, <1>9, <1>13, <2>1, BottomOfPush
<1>14. CASE \E v \in Sent : Handle!Pcall(v)
  BY <1>5, <1>8, <1>13, <1>14 DEF Handle!Pcall
<1>15. CASE Handle!PcallFails
  BY <1>5, <1>8, <1>13, <1>15 DEF Handle!PcallFails
<1>16. ASSUME hpc \in {"called", "failed"}, stack' = Handle!Popped(1), below' = below,
              hpc' \in {"returned", "threw"}
       PROVE  /\ stack' = below' /\ stack' \in Seq(Elements)
              /\ Bottom(r, below') /\ Bottom(below', stack')
  BY <1>8, <1>10, <1>16, BottomOfSelf
<1>17. CASE \E kept \in BOOLEAN : Handle!GetResult(kept)
  BY <1>8, <1>16, <1>17 DEF Handle!GetResult
<1>18. CASE Handle!Throws
  BY <1>8, <1>16, <1>18 DEF Handle!Throws, Handle!AfterThrow
<1> QED
  BY <1>7, <1>11, <1>12, <1>14, <1>15, <1>17, <1>18 DEF CallBack, Handle!HNext

\* Every step is a step of the call protocol, or leaves the call alone.
LEMMA StepImplements == HandleInv /\ [BoundNext]_boundVars => [Next]_vars
<1> SUFFICES ASSUME HandleInv, [BoundNext]_boundVars PROVE [Next]_vars
  OBVIOUS
<1>1. CASE Wrapper
  BY <1>1 DEF Wrapper, Next
<1>2. CASE CallBack
  BY <1>2, CallBackStep DEF Next
<1>3. CASE Leave
  BY <1>3 DEF Leave, Next
<1>4. CASE BoundEnded
  BY <1>4 DEF BoundEnded, Next
<1>5. CASE UNCHANGED boundVars
  BY <1>5 DEF boundVars
<1>6. CASE Locate
  BY <1>6 DEF Locate
<1> QED
  BY <1>1, <1>2, <1>3, <1>4, <1>5, <1>6 DEF BoundNext

\* The handle knows the return type until it has read the result.
LEMMA HandleTypes ==
  ASSUME HandleInv, CallBack
  PROVE  /\ hpc' \in {"idle", "push", "called", "failed", "returned", "threw", "pushThrew"}
         /\ got' \in Expected \cup {None} \cup [value : Values, alive : BOOLEAN]
         /\ hpc' \in {"push", "called"} => got' \in Expected
<1>1. /\ got \in Expected \cup {None} \cup [value : Values, alive : BOOLEAN]
      /\ hpc \in {"push", "called"} => got \in Expected
  BY DEF HandleInv, BoundTypeOK
<1>2. CASE \E type \in Expected : Handle!PushFunction(type)
  BY <1>2 DEF Handle!PushFunction
<1>3. CASE \E kept \in BOOLEAN : Handle!GetResult(kept)
  <2>1. PICK kept \in BOOLEAN : Handle!GetResult(kept)
    BY <1>3
  <2>2. got \in Expected /\ Handle!Top \in Accepts[got]
    BY <1>1, <2>1 DEF Handle!GetResult
  <2>3. Handle!Top \in Values
    BY <2>2, BoundAssumption, CallAssumption
  <2>4. got' = [value |-> Handle!Top, alive |-> kept \/ got \notin Classes]
    BY <2>1 DEF Handle!GetResult
  <2>5. (kept \/ got \notin Classes) \in BOOLEAN
    OBVIOUS
  <2>6. got' \in [value : Values, alive : BOOLEAN]
    BY <2>3, <2>4, <2>5
  <2> QED
    BY <2>1, <2>6 DEF Handle!GetResult
<1>4. CASE \E v \in Sent : Handle!PushArgument(v) \/ Handle!Pcall(v)
  BY <1>1, <1>4 DEF Handle!PushArgument, Handle!Pcall, Handle!hvars
<1>5. CASE Handle!PushThrows \/ Handle!PcallFails \/ Handle!Throws
  BY <1>1, <1>5 DEF Handle!PushThrows, Handle!PcallFails, Handle!Throws
<1> QED
  BY <1>2, <1>3, <1>4, <1>5 DEF CallBack, Handle!HNext

LEMMA HandleInitInv == BoundInit => HandleInv
<1> SUFFICES ASSUME BoundInit PROVE HandleInv
  OBVIOUS
<1>1. IInv /\ hpc = "idle" /\ pc = "attempt" /\ below = <<>> /\ got = None
  BY InitInv DEF BoundInit, Handle!HInit, Init
<1>2. TypeOK
  BY <1>1 DEF IInv
<1>3. SearchInv
  BY SearchInit DEF BoundInit
<1>4. BoundTypeOK
  BY <1>1, <1>2, <1>3, EmptySeq DEF BoundTypeOK, SearchInv, BoundInit, LInit
<1> QED
  BY <1>1, <1>3, <1>4 DEF HandleInv

LEMMA HandleNextInv == HandleInv /\ [BoundNext]_boundVars => HandleInv'
<1> SUFFICES ASSUME HandleInv, [BoundNext]_boundVars PROVE HandleInv'
  OBVIOUS
<1>1. IInv'
  BY StepImplements, NextInv DEF HandleInv
<1>2. TypeOK' /\ BoundTypeOK /\ SearchInv
  BY <1>1 DEF IInv, HandleInv
<1>3. ASSUME UNCHANGED handleVars, SearchInv', lpc' \in {"idle", "search", "thrown"}
      PROVE  BoundTypeOK'
  BY <1>2, <1>3 DEF handleVars, BoundTypeOK, SearchInv
<1>9. lpc \in {"idle", "search", "thrown"}
  BY <1>2 DEF BoundTypeOK
<1>10. pc # "error" => lpc = "idle"
  BY <1>2 DEF SearchInv, Locates
<1>4. CASE Wrapper
  <2>1. UNCHANGED lvars /\ UNCHANGED handleVars /\ pc # "error"
    BY <1>4 DEF Wrapper, CalledFinalized, Attempt, Invoke, Mismatch
  <2>2. SearchInv'
    BY <1>2, <1>10, <2>1, SearchRest
  <2>3. BoundTypeOK'
    BY <1>3, <1>9, <2>1, <2>2 DEF lvars
  <2> QED
    BY <1>1, <1>4, <2>2, <2>3
    DEF Wrapper, CalledFinalized, Attempt, Invoke, Mismatch, HandleInv, handleVars
<1>5. CASE CallBack
  <2>1. HandleStack' /\ pc' = "invoked"
    BY <1>5, CallBackStep DEF CallBack
  <2>2. below' \in Seq(Values \cup {Name} \cup Pushed)
    BY <2>1 DEF HandleStack, Elements
  <2>3. /\ hpc' \in {"idle", "push", "called", "failed", "returned", "threw", "pushThrew"}
        /\ got' \in Expected \cup {None} \cup [value : Values, alive : BOOLEAN]
        /\ hpc' \in {"push", "called"} => got' \in Expected
    BY <1>5, HandleTypes
  <2>4. UNCHANGED lvars /\ pc # "error"
    BY <1>5 DEF CallBack
  <2>5. SearchInv'
    BY <1>2, <1>10, <2>4, SearchRest
  <2>6. BoundTypeOK'
    BY <1>2, <1>9, <2>2, <2>3, <2>4, <2>5 DEF BoundTypeOK, SearchInv, lvars
  <2> QED
    BY <1>1, <2>1, <2>3, <2>5, <2>6 DEF HandleInv
<1>6. CASE Leave
  <2>1. UNCHANGED lvars /\ UNCHANGED handleVars /\ pc # "error"
    BY <1>6 DEF Leave, Throw, Return
  <2>2. SearchInv'
    BY <1>2, <1>10, <2>1, SearchRest
  <2>3. BoundTypeOK'
    BY <1>3, <1>9, <2>1, <2>2 DEF lvars
  <2> QED
    BY <1>1, <1>6, <2>2, <2>3 DEF Leave, Throw, Return, HandleInv, handleVars
<1>7. CASE UNCHANGED boundVars
  <2>1. HandleStack => HandleStack'
    BY <1>7 DEF boundVars, vars, input, handleVars, HandleStack, Bottom, Received, PushThis
  <2>2. SearchInv'
    BY <1>2, <1>7, SearchRest DEF boundVars
  <2>3. BoundTypeOK'
    BY <1>3, <1>7, <1>9, <2>2 DEF boundVars, lvars
  <2> QED
    BY <1>1, <1>7, <2>1, <2>2, <2>3 DEF boundVars, vars, handleVars, HandleInv
<1>8. CASE BoundEnded
  BY <1>7, <1>8 DEF BoundEnded, Ended, boundVars
<1>11. CASE Locate
  <2>1. SearchInv'
    BY <1>2, <1>11, SearchStep DEF Locate
  <2>2. lpc' \in {"idle", "search", "thrown"}
    BY <1>9, <1>11 DEF Locate, LNext, StartSearch, InspectFrame, ThrowError
  <2>3. BoundTypeOK'
    BY <1>3, <1>11, <2>1, <2>2 DEF Locate
  <2>4. pc' = "error" /\ hpc' = hpc
    BY <1>11 DEF Locate, Locates, vars, handleVars
  <2> QED
    BY <1>1, <1>11, <2>1, <2>3, <2>4 DEF Locate, Locates, HandleInv, handleVars
<1> QED
  BY <1>4, <1>5, <1>6, <1>7, <1>8, <1>11 DEF BoundNext

LEMMA HandleInvariance == BoundSpec => []HandleInv
BY HandleInitInv, HandleNextInv, PTL DEF BoundSpec

-----------------------------------------------------------------------------

(***************************************************************************)
(* A bound function that calls back still takes part in the call protocol  *)
(* of OverloadedCall (detail/function_wrapper.h, function_handle.h): its   *)
(* arguments are not disturbed.                                            *)
(***************************************************************************)
THEOREM BoundCallImplementsCall == BoundSpec => ImplementsCall
<1>1. BoundInit => Init
  BY DEF BoundInit
<1>2. HandleInv /\ [BoundNext]_boundVars => [Next]_vars
  BY StepImplements
<1> QED
  BY <1>1, <1>2, HandleInvariance, PTL DEF BoundSpec, ImplementsCall, Spec

(***************************************************************************)
(* A call of a function handle leaves the value stack as it found it,      *)
(* whether it returns or throws (function_handle.h 17-42).                 *)
(***************************************************************************)
THEOREM CallbackRestoresStack == BoundSpec => []StackRestored
<1>1. HandleInv => StackRestored
  <2> SUFFICES ASSUME HandleInv, pc = "invoked" PROVE Handle!StackRestored
    BY DEF StackRestored
  <2>1. hpc \in {"returned", "threw"} => stack = below
    BY DEF HandleInv, HandleStack
  <2>2. ASSUME hpc \in {"called", "failed"} PROVE Handle!Popped(1) = below
    <3>1. /\ below \in Seq(Elements) /\ stack \in Seq(Elements) /\ Bottom(below, stack)
          /\ Len(stack) = Len(below) + 1
      BY <2>2 DEF HandleInv, HandleStack, IInv, TypeOK, Elements
    <3>2. Len(below) \in Nat /\ Len(stack) \in Nat
      BY <3>1, LenProperties
    <3> QED
      BY <3>1, <3>2, BottomOfPopped
  <2> QED
    BY <2>1, <2>2 DEF Handle!StackRestored
<1> QED
  BY <1>1, HandleInvariance, PTL

\* The variables of the call and of the handle keep their types (BoundTypeOK).
THEOREM BoundTypeCorrect == BoundSpec => []BoundTypeOK
<1>1. HandleInv => BoundTypeOK
  BY DEF HandleInv
<1> QED
  BY <1>1, HandleInvariance, PTL

(***************************************************************************)
(* The function that is invoked takes its arguments by their C++ types,    *)
(* directly, as a base, or through a smart pointer, and get finds in the   *)
(* buffer what getImpl has left there; an error means that no signature of *)
(* the right length takes them (detail/type_traits.h 45-158, 247-351): for *)
(* any classes, adapters and chains of bases.                              *)
(***************************************************************************)
THEOREM ArgumentsMatchedByType == BoundSpec => []MatchedByType
<1>1. ASSUME HandleInv PROVE MatchedByType
  <2>1. TypeOK /\ FirstMatch
    BY <1>1 DEF HandleInv, IInv, FirstMatch, Untried, Chosen
  \* Fits compares what the signature receives with its parameters.
  <2>2. ASSUME NEW j \in 1 .. Len(overloads),
               Len(overloads[j].params) = Len(Received(overloads[j])),
               NEW i \in 1 .. Len(overloads[j].params)
        PROVE  /\ overloads[j].params[i] \in Params
               /\ Received(overloads[j])[i] \in Values
    <3>1. overloads[j].params \in Seq(Params)
      <4>1. overloads[j] \in [method : BOOLEAN, params : Seq(Params)]
        BY <2>1, <2>2, ElementOfSeq DEF TypeOK
      <4> QED
        BY <4>1
    <3>2. Received(overloads[j]) \in Seq(Values)
      BY <2>1, TailOfCons DEF TypeOK, Received
    <3> QED
      BY <2>2, <3>1, <3>2, ElementOfSeq
  <2>3. ASSUME NEW v \in Values, NEW p \in Params
        PROVE  v \in Accepts[p] <=> Takes(v, p)
    BY BoundAssumption, CheckTypeTakes
  <2>4. ASSUME Chosen, NEW i \in 1 .. Len(overloads[k].params)
        PROVE  LET p == overloads[k].params[i]
                   v == Received(overloads[k])[i]
               IN  Takes(v, p) /\ (p \in Types => GetImpl(p, Wraps[v]) = Reads(p))
    <3>1. k \in 1 .. Len(overloads) /\ Fits(overloads[k])
      BY <2>1, <2>4 DEF FirstMatch, TypeOK
    <3> QED
      BY <2>2, <2>3, <2>4, <3>1, CheckTypeTakes DEF Fits
  <2>5. ASSUME pc = "error", NEW j \in 1 .. Len(overloads),
               Len(overloads[j].params) = Len(Received(overloads[j]))
        PROVE  \E i \in 1 .. Len(overloads[j].params) :
                 ~Takes(Received(overloads[j])[i], overloads[j].params[i])
    <3>1. PICK i \in 1 .. Len(overloads[j].params) :
            Received(overloads[j])[i] \notin Accepts[overloads[j].params[i]]
      BY <2>1, <2>5 DEF FirstMatch, Fits
    <3> QED
      BY <2>2, <2>3, <2>5, <3>1
  <2> QED
    BY <2>4, <2>5 DEF MatchedByType
<1> QED
  BY <1>1, HandleInvariance, PTL

(***************************************************************************)
(* The error of a call to a bound function that fits no overload names     *)
(* file and line of the innermost ES function, on call stacks of any depth *)
(* (detail/function_wrapper.h 21-59).                                      *)
(***************************************************************************)
THEOREM ErrorLocatesCaller == BoundSpec => []LocatesCaller
<1>1. HandleInv => LocatesCaller
  BY SearchFinds DEF HandleInv, SearchInv, LocatesCaller
<1> QED
  BY <1>1, HandleInvariance, PTL
=============================================================================
