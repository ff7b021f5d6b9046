------------------------- MODULE WrappedObjectProofs -------------------------
(***************************************************************************)
(* Theorems about WrappedObject, for any sets of objects and blocks and    *)
(* any bounds.  They are about the use the repository documents, as in the *)
(* run wrapped_object: indices from the top of the stack, prototypes that  *)
(* are no wrapped objects and one value for each constructor call          *)
(* (AbsoluteIndex, Inherit and PushAgain are FALSE).  Each of the runs     *)
(* wrapped_absolute, wrapped_inherit and wrapped_push_again makes one of   *)
(* these TRUE, and refutes a property.                                     *)
(***************************************************************************)
EXTENDS WrappedObject, FiniteSetTheorems, SequenceTheorems, TLAPS

\* What user code can name.
Named == kept \cup OnStack

Pushed(o) == \E b \in Blocks : pushes[b].pc # "none" /\ pushes[b].obj = o

-----------------------------------------------------------------------------
(* The inductive invariant.                                                *)

\* What the program can name is alive, and nothing is left of what is not.
NamesInv ==
  /\ \A o \in Objects : ~obj[o].live => obj[o] = Absent
  /\ Named \subseteq Live
  /\ InUse \subseteq Live

\* `this` of a constructor call has no prototype that wraps a value, its
\* finalizer has not run, and before it gets one nothing can name the object.
ThisInv ==
  this # None =>
    /\ this \in Live
    /\ obj[this].parent = None
    /\ obj[this].ran = "no"
    /\ finalizing[this].pc # "none" => finalizing[this].by = "finalize"
    /\ ~obj[this].fin => this \notin Named

\* The property of an object holds the address of the object's own value, until
\* duk::finalize or the object's finalizer has destroyed it.
OwnInv ==
  \A o \in Objects :
    obj[o].info # None /\ obj[o].ran = "no" /\ finalizing[o].pc # "freed" =>
      value[obj[o].info] = o

\* An object with a prototype wraps nothing, and neither does the prototype,
\* which has no prototype itself; neither is about to get a value.
PlainInv(o) == obj[o].info = None /\ o # this /\ ~Pushed(o)
ParentInv ==
  \A o \in Objects : obj[o].parent # None =>
    /\ PlainInv(o)
    /\ obj[o].parent \in Live
    /\ obj[obj[o].parent].parent = None
    /\ PlainInv(obj[o].parent)

\* duk::push between its steps: the block holds the value of an object that
\* nothing can name and no other push works on; the object has no property
\* before DefProp and this block's afterwards.
PushInv ==
  \A b \in Blocks : pushes[b].pc # "none" =>
    /\ pushes[b].obj \in Objects
    /\ value[b] = pushes[b].obj
    /\ obj[pushes[b].obj].ran = "no"
    /\ finalizing[pushes[b].obj].pc = "none"
    /\ pushes[b].obj \notin Named
    /\ obj[pushes[b].obj].live \/ pushes[b].pc = "made"
    /\ obj[pushes[b].obj].info = IF pushes[b].pc = "defined" THEN b ELSE None
    /\ \A c \in Blocks : pushes[c].pc # "none" /\ pushes[c].obj = pushes[b].obj => c = b

\* A finalization between its steps: the property still has the address of the
\* block.  The collector finalizes nothing that a call uses; duk::finalize will
\* delete the object's own property.
FinalInv ==
  \A o \in Objects : finalizing[o].pc # "none" =>
    /\ obj[o].live /\ obj[o].ran = "no" /\ obj[o].info # None
    /\ finalizing[o].kind = obj[o].kind
    /\ finalizing[o].pc = "destroying" => finalizing[o].block = obj[o].info
    /\ finalizing[o].pc = "freed" =>
         finalizing[o].by = "finalize" /\ value[obj[o].info] # o
    /\ finalizing[o].by = "finalize" => finalizing[o].target = o
    /\ finalizing[o].by = "collector" => o \notin InUse

PhaseInv == phase = "destroyed" => Quiet /\ Live = {}

StateInv ==
  TypeOK /\ NamesInv /\ ThisInv /\ OwnInv /\ ParentInv /\ PushInv /\ FinalInv /\ PhaseInv

IInv == StateInv /\ NoDoubleFree /\ LeakBounded

-----------------------------------------------------------------------------
(* Types, and what the operators of the model return.                      *)

ObjectRecords == [live : BOOLEAN, kind : Kinds, info : Blocks \cup {None}, fin : BOOLEAN,
                  parent : Objects \cup {None}, ran : {"no", "yes", "rescued"}]
PushRecords == [pc : {"none", "made", "created", "defined"}, kind : Kinds,
                obj : Objects \cup {None}]
FinalizationRecords == [pc : {"none", "destroying", "freed"}, by : {"finalize", "collector"},
                        kind : Kinds, block : Blocks \cup {None}, target : Objects \cup {None}]
CallRecords == [obj : Objects, block : Blocks]

LEMMA BoundsType ==
  /\ MaxStack \in Nat /\ MaxCalls \in Nat /\ MaxNested \in Nat /\ MaxFailures \in Nat
  /\ None \notin Objects /\ None \notin Blocks /\ None \notin Causes
  /\ Raw \notin Objects /\ Raw # None
BY WrappedAssumption

LEMMA Types ==
  ASSUME TypeOK
  PROVE  /\ obj \in [Objects -> ObjectRecords]
         /\ value \in [Blocks -> Objects \cup {None, Raw}]
         /\ stack \in Seq(Objects) /\ Len(stack) <= MaxStack /\ Len(stack) \in Nat
         /\ kept \subseteq Objects
         /\ this \in Objects \cup {None}
         /\ borrowed \in Seq(CallRecords) /\ Len(borrowed) \in Nat
         /\ pushes \in [Blocks -> PushRecords]
         /\ finalizing \in [Objects -> FinalizationRecords]
         /\ failures \in 0 .. MaxFailures
BY DEF TypeOK, ObjectRecords, PushRecords, FinalizationRecords, CallRecords

LEMMA TypesNext ==
  ASSUME obj' \in [Objects -> ObjectRecords],
         value' \in [Blocks -> Objects \cup {None, Raw}],
         stack' \in Seq(Objects), Len(stack') <= MaxStack,
         kept' \subseteq Objects,
         this' \in Objects \cup {None},
         borrowed' \in Seq(CallRecords),
         pushes' \in [Blocks -> PushRecords],
         finalizing' \in [Objects -> FinalizationRecords],
         failures' \in 0 .. MaxFailures,
         undefined' \in Causes \cup {None},
         phase' \in {"running", "destroying", "destroyed"}
  PROVE  TypeOK'
BY DEF TypeOK, ObjectRecords, PushRecords, FinalizationRecords, CallRecords

LEMMA ObjectType ==
  ASSUME TypeOK, NEW o \in Objects
  PROVE  /\ obj[o] \in ObjectRecords
         /\ obj[o].live \in BOOLEAN /\ obj[o].kind \in Kinds
         /\ obj[o].info \in Blocks \cup {None} /\ obj[o].fin \in BOOLEAN
         /\ obj[o].parent \in Objects \cup {None}
         /\ obj[o].ran \in {"no", "yes", "rescued"}
BY Types DEF ObjectRecords

LEMMA AbsentFields ==
  /\ Absent \in ObjectRecords
  /\ Absent.live = FALSE /\ Absent.kind = "object" /\ Absent.info = None
  /\ Absent.fin = FALSE /\ Absent.parent = None /\ Absent.ran = "no"
BY DEF Absent, ObjectRecords, Kinds

LEMMA PlainFields ==
  ASSUME NEW k \in Kinds
  PROVE  /\ Plain(k) \in ObjectRecords
         /\ Plain(k).live = TRUE /\ Plain(k).kind = k /\ Plain(k).info = None
         /\ Plain(k).fin = FALSE /\ Plain(k).parent = None /\ Plain(k).ran = "no"
<1>1. /\ Plain(k) \in ObjectRecords
      /\ Plain(k).live = TRUE /\ Plain(k).kind = k /\ Plain(k).info = Absent.info
      /\ Plain(k).fin = Absent.fin /\ Plain(k).parent = Absent.parent /\ Plain(k).ran = Absent.ran
  BY AbsentFields DEF Plain, ObjectRecords
<1> QED
  BY <1>1, AbsentFields

LEMMA NoneFields ==
  /\ NoPush \in PushRecords /\ NoPush.pc = "none" /\ NoPush.obj = None
  /\ NoFinalization \in FinalizationRecords /\ NoFinalization.pc = "none"
BY DEF NoPush, NoFinalization, PushRecords, FinalizationRecords, Kinds

\* One object changes.
LEMMA ChangeOne ==
  ASSUME TypeOK, NEW o \in Objects, NEW r \in ObjectRecords, obj' = [obj EXCEPT ![o] = r]
  PROVE  /\ obj' \in [Objects -> ObjectRecords]
         /\ obj'[o] = r
         /\ \A d \in Objects : d # o => obj'[d] = obj[d]
         /\ r.live => Live' = Live \cup {o}
<1>1. /\ obj' \in [Objects -> ObjectRecords]
      /\ obj'[o] = r
      /\ \A d \in Objects : d # o => obj'[d] = obj[d]
  BY Types
<1>2. r.live => Live' = Live \cup {o}
  BY <1>1 DEF Live
<1> QED
  BY <1>1, <1>2

\* One field of an object changes.
LEMMA ChangeRan ==
  ASSUME NEW r \in ObjectRecords, NEW v \in {"no", "yes", "rescued"}
  PROVE  LET s == [r EXCEPT !.ran = v]
         IN  /\ s \in ObjectRecords /\ s.live = r.live /\ s.kind = r.kind /\ s.info = r.info
             /\ s.fin = r.fin /\ s.parent = r.parent /\ s.ran = v
BY DEF ObjectRecords

LEMMA ChangeInfo ==
  ASSUME NEW r \in ObjectRecords, NEW v \in Blocks \cup {None}
  PROVE  LET s == [r EXCEPT !.info = v]
         IN  /\ s \in ObjectRecords /\ s.live = r.live /\ s.kind = r.kind /\ s.info = v
             /\ s.fin = r.fin /\ s.parent = r.parent /\ s.ran = r.ran
BY DEF ObjectRecords

LEMMA ChangeFin ==
  ASSUME NEW r \in ObjectRecords
  PROVE  LET s == [r EXCEPT !.fin = TRUE]
         IN  /\ s \in ObjectRecords /\ s.live = r.live /\ s.kind = r.kind /\ s.info = r.info
             /\ s.fin = TRUE /\ s.parent = r.parent /\ s.ran = r.ran
BY DEF ObjectRecords

\* A push advances, or is over.
LEMMA ChangePush ==
  ASSUME TypeOK, NEW b \in Blocks, NEW r \in PushRecords, pushes' = [pushes EXCEPT ![b] = r]
  PROVE  /\ pushes' \in [Blocks -> PushRecords]
         /\ pushes'[b] = r
         /\ \A c \in Blocks : c # b => pushes'[c] = pushes[c]
BY Types

LEMMA AdvancePush ==
  ASSUME TypeOK, NEW b \in Blocks, NEW v \in {"none", "made", "created", "defined"},
         pushes' = [pushes EXCEPT ![b].pc = v]
  PROVE  /\ pushes' \in [Blocks -> PushRecords]
         /\ pushes'[b].pc = v /\ pushes'[b].obj = pushes[b].obj
         /\ \A c \in Blocks : c # b => pushes'[c] = pushes[c]
<1>1. pushes[b] \in PushRecords
  BY Types
<1> DEFINE r == [pushes[b] EXCEPT !.pc = v]
<1>2. r \in PushRecords /\ r.pc = v /\ r.obj = pushes[b].obj
  BY <1>1 DEF PushRecords
<1>3. pushes' = [pushes EXCEPT ![b] = r]
  OBVIOUS
<1> HIDE DEF r
<1> QED
  BY <1>2, <1>3, ChangePush

LEMMA ChangeFinalization ==
  ASSUME TypeOK, NEW o \in Objects, NEW r \in FinalizationRecords,
         finalizing' = [finalizing EXCEPT ![o] = r]
  PROVE  /\ finalizing' \in [Objects -> FinalizationRecords]
         /\ finalizing'[o] = r
         /\ \A d \in Objects : d # o => finalizing'[d] = finalizing[d]
BY Types

\* What an index from the top of the stack denotes can be named.
LEMMA TargetNamed ==
  ASSUME TypeOK, NEW i \in Int, i < 0, Valid(stack, i)
  PROVE  Target(i) \in OnStack /\ Target(i) \in Objects
<1>1. stack \in Seq(Objects) /\ Len(stack) \in Nat
  BY Types
<1>2. Len(stack) + 1 + i \in 1 .. Len(stack)
  BY <1>1 DEF Valid
<1>3. Target(i) = stack[Len(stack) + 1 + i]
  BY DEF Target, At
<1> QED
  BY <1>1, <1>2, <1>3 DEF OnStack

\* No property and no finalizer that matters is inherited.
LEMMA OwnOnly ==
  ASSUME TypeOK, ParentInv, NEW o \in Objects, NEW k
  PROVE  /\ GetProp(o, k) = OwnProp(o, k) /\ GetProp(o, k) \in {None, obj[o].info}
         /\ GetProp(o, k) # None => Holder(o, k) = o /\ obj[o].parent = None /\ obj[o].kind = k
<1>1. obj[o].parent = None \/ (obj[o].info = None /\ obj[obj[o].parent].info = None)
  BY DEF ParentInv, PlainInv
<1>2. OwnProp(o, k) \in {None, obj[o].info} /\ (OwnProp(o, k) # None => obj[o].kind = k)
  BY DEF OwnProp
<1>3. CASE obj[o].parent = None
  BY <1>2, <1>3 DEF GetProp, Holder
<1>4. CASE obj[o].parent # None
  <2>1. OwnProp(o, k) = None /\ OwnProp(obj[o].parent, k) = None
    BY <1>1, <1>4 DEF OwnProp
  <2> QED
    BY <2>1 DEF GetProp, Holder
<1> QED
  BY <1>3, <1>4

\* The finalizer of an object that wraps a value is its own.
LEMMA OwnFinalizer ==
  ASSUME TypeOK, ParentInv, NEW o \in Objects, obj[o].info # None
  PROVE  Finalizer(o) = o /\ HasFinalizer(o) = obj[o].fin /\ GetProp(o, obj[o].kind) = obj[o].info
<1>1. obj[o].parent = None
  BY DEF ParentInv, PlainInv
<1>2. Finalizer(o) = o
  BY <1>1 DEF Finalizer
<1>3. GetProp(o, obj[o].kind) = obj[o].info
  BY OwnOnly DEF OwnProp
<1> QED
  BY <1>2, <1>3 DEF HasFinalizer

\* What is found through an object that can be used is the object's own value.
LEMMA UsableOwn ==
  ASSUME TypeOK, ParentInv, OwnInv, NEW o \in Objects, NEW k, GetProp(o, k) # None
  PROVE  /\ Misuse(o, k) \in {None, "reentered", "stale"}
         /\ Misuse(o, k) = None =>
              /\ finalizing[o].pc = "none" /\ obj[o].ran = "no"
              /\ GetProp(o, k) = obj[o].info /\ value[obj[o].info] = o
<1>1. Holder(o, k) = o /\ GetProp(o, k) = obj[o].info /\ obj[o].info # None
  BY OwnOnly
<1>2. finalizing[o].pc = "none" /\ obj[o].ran = "no" => value[obj[o].info] = o
  BY <1>1 DEF OwnInv
<1>3. o \notin {None, Raw}
  BY BoundsType
<1>4. Misuse(o, k) = IF finalizing[o].pc # "none" THEN "reentered"
                     ELSE IF obj[o].ran # "no" THEN "stale"
                     ELSE IF value[obj[o].info] \in {None, Raw} THEN "freed" ELSE None
  BY <1>1 DEF Misuse
<1> QED
  BY <1>1, <1>2, <1>3, <1>4, BoundsType DEF Causes

\* What the collector may finalize or collect is neither named nor in use.
LEMMA UnreachableFree ==
  ASSUME NEW o, ~Reachable(o)
  PROVE  /\ o \notin Named /\ o \notin InUse /\ o # this
         /\ \A b \in Blocks : pushes[b].pc = "none" \/ pushes[b].obj # o
         /\ finalizing[o].pc = "none"
BY DEF Reachable, Root, InProgress, PushedInto, Named

LEMMA NotPushed ==
  ASSUME NEW o, PushedInto(o) = {}
  PROVE  \A b \in Blocks : pushes[b].pc = "none" \/ pushes[b].obj # o
BY DEF PushedInto

LEMMA ButLast ==
  ASSUME NEW S, NEW s \in Seq(S), s # <<>>
  PROVE  LET r == SubSeq(s, 1, Len(s) - 1)
         IN  /\ r \in Seq(S) /\ Len(r) = Len(s) - 1 /\ Len(s) \in Nat
             /\ \A j \in 1 .. Len(r) : j \in 1 .. Len(s) /\ r[j] = s[j]
<1>1. Len(s) \in Nat /\ Len(s) > 0
  OBVIOUS
<1>2. \A j \in 1 .. Len(s) - 1 : s[j] \in S
  BY <1>1
<1>3. /\ SubSeq(s, 1, Len(s) - 1) \in Seq(S)
      /\ Len(SubSeq(s, 1, Len(s) - 1)) = Len(s) - 1
      /\ \A j \in 1 .. Len(s) - 1 : j \in 1 .. Len(s) /\ SubSeq(s, 1, Len(s) - 1)[j] = s[j]
  <2> DEFINE m == Len(s) - 1
             r == SubSeq(s, 1, m)
  <2>1. /\ m \in Nat /\ 1 \in Int
        /\ m + 1 = Len(s)
        /\ \A j \in 1 .. m : s[j] \in S
    BY <1>1, <1>2
  <2> HIDE DEF m
  <2>2. /\ r \in Seq(S) /\ Len(r) = (IF 1 <= m THEN m - 1 + 1 ELSE 0)
        /\ \A j \in 1 .. m - 1 + 1 : r[j] = s[1 + j - 1]
    BY ONLY <2>1, SubSeqProperties
  <2> HIDE DEF r
  <2>3. Len(r) = m
    BY ONLY <2>1, <2>2
  <2>4. ASSUME NEW j \in 1 .. m
        PROVE  r[j] = s[j] /\ j \in 1 .. Len(s)
    <3>1. j \in 1 .. m - 1 + 1 /\ 1 + j - 1 = j /\ j \in 1 .. Len(s)
      BY ONLY <2>1, <2>4
    <3> QED
      BY ONLY <2>2, <3>1
  <2> QED
    BY <2>2, <2>3, <2>4 DEF r, m
<1> QED
  BY <1>1, <1>3

\* What the program names after it pushed an object.
LEMMA StackGrows ==
  ASSUME TypeOK, NEW o \in Objects, Len(stack) < MaxStack, stack' = Append(stack, o)
  PROVE  stack' \in Seq(Objects) /\ Len(stack') <= MaxStack /\ OnStack' = OnStack \cup {o}
<1>1. stack \in Seq(Objects) /\ Len(stack) \in Nat /\ MaxStack \in Nat
  BY Types, BoundsType
<1>2. /\ stack' \in Seq(Objects) /\ Len(stack') = Len(stack) + 1
      /\ stack'[Len(stack) + 1] = o
      /\ \A j \in 1 .. Len(stack) : stack'[j] = stack[j]
  BY <1>1
<1>3. Len(stack') <= MaxStack
  BY <1>1, <1>2
<1>4. OnStack \cup {o} \subseteq OnStack'
  <2>1. o \in OnStack'
    BY <1>1, <1>2 DEF OnStack
  <2>2. OnStack \subseteq OnStack'
    BY <1>1, <1>2 DEF OnStack
  <2> QED
    BY <2>1, <2>2
<1>5. OnStack' \subseteq OnStack \cup {o}
  BY <1>1, <1>2 DEF OnStack
<1> QED
  BY <1>2, <1>3, <1>4, <1>5

\* What a step may do to the values that no finalizer will destroy.
LostNoMore == Lost' \subseteq Lost /\ failures' = failures
LostOneMore == failures' = failures + 1 /\ \E b \in Blocks : Lost' \subseteq Lost \cup {b}

LEMMA CountLost ==
  ASSUME TypeOK, LeakBounded, LostNoMore \/ LostOneMore
  PROVE  LeakBounded'
<1>1. IsFiniteSet(Lost)
  BY FS_Subset, WrappedAssumption DEF Lost
<1>2. Cardinality(Lost) \in Nat /\ failures \in Nat
  BY <1>1, FS_CardinalityType DEF TypeOK
<1>3. CASE LostNoMore
  <2>1. Cardinality(Lost') <= Cardinality(Lost) /\ Cardinality(Lost') \in Nat
    BY <1>1, <1>3, FS_Subset, FS_CardinalityType DEF LostNoMore
  <2> QED
    BY <2>1, <1>2, <1>3 DEF LeakBounded, LostNoMore
<1>4. CASE LostOneMore
  <2>1. PICK b \in Blocks : Lost' \subseteq Lost \cup {b}
    BY <1>4 DEF LostOneMore
  <2>2. /\ IsFiniteSet(Lost \cup {b})
        /\ Cardinality(Lost \cup {b}) <= Cardinality(Lost) + 1
        /\ Cardinality(Lost \cup {b}) \in Nat
    <3>1. /\ IsFiniteSet(Lost \cup {b})
          /\ Cardinality(Lost \cup {b}) = IF b \in Lost THEN Cardinality(Lost) ELSE Cardinality(Lost) + 1
      BY ONLY <1>1, FS_AddElement
    <3> QED
      BY ONLY <3>1, <1>2
  <2>3. Cardinality(Lost') <= Cardinality(Lost \cup {b}) /\ Cardinality(Lost') \in Nat
    BY <2>1, <2>2, FS_Subset, FS_CardinalityType
  <2> QED
    BY <2>2, <2>3, <1>2, <1>4 DEF LeakBounded, LostOneMore
<1> QED
  BY <1>3, <1>4

LEMMA InitInv == Init => IInv
<1> SUFFICES ASSUME Init PROVE IInv
  OBVIOUS
<1>1. TypeOK
  <2>1. /\ obj \in [Objects -> ObjectRecords] /\ pushes \in [Blocks -> PushRecords]
        /\ finalizing \in [Objects -> FinalizationRecords]
    BY AbsentFields, NoneFields DEF Init
  <2>2. /\ value \in [Blocks -> Objects \cup {None, Raw}]
        /\ stack \in Seq(Objects) /\ Len(stack) <= MaxStack
        /\ borrowed \in Seq(CallRecords)
        /\ failures \in 0 .. MaxFailures
    BY BoundsType DEF Init
  <2> QED
    BY <2>1, <2>2
       DEF Init, TypeOK, ObjectRecords, PushRecords, FinalizationRecords, CallRecords
<1>2. OnStack = {} /\ InUse = {}
  BY DEF Init, OnStack, InUse
<1>3. NamesInv /\ ThisInv /\ OwnInv /\ ParentInv
  BY <1>2, AbsentFields DEF Init, NamesInv, Named, ThisInv, OwnInv, ParentInv
<1>4. PushInv /\ FinalInv /\ PhaseInv
  BY NoneFields DEF Init, PushInv, FinalInv, PhaseInv
<1>5. Lost = {}
  BY DEF Init, Lost
<1>6. NoDoubleFree
  BY BoundsType DEF Init, NoDoubleFree, Causes
<1> QED
  BY <1>1, <1>3, <1>4, <1>5, <1>6, FS_EmptySet DEF IInv, StateInv, LeakBounded, Init

-----------------------------------------------------------------------------
(* One lemma for each action.                                              *)

Preserves == StateInv' /\ NoDoubleFree' /\ (LostNoMore \/ LostOneMore)

LEMMA UndefinedStep ==
  ASSUME IInv, NEW cause \in {"reentered", "stale"}, Undefined(cause), phase # "destroyed"
  PROVE  Preserves
<1>1. TypeOK'
  BY DEF IInv, StateInv, TypeOK, Undefined, Causes
<1>2. NamesInv' /\ ThisInv'
  BY DEF IInv, StateInv, Undefined, NamesInv, ThisInv, Named, Live, OnStack, InUse
<1>3. OwnInv' /\ ParentInv'
  BY DEF IInv, StateInv, Undefined, OwnInv, ParentInv, PlainInv, Pushed, Live
<1>4. PushInv' /\ FinalInv' /\ PhaseInv'
  BY DEF IInv, StateInv, Undefined, PushInv, FinalInv, PhaseInv, Named, OnStack, InUse
<1>5. LostNoMore
  BY DEF Undefined, LostNoMore, Lost, Secured, Live
<1>6. NoDoubleFree'
  BY DEF NoDoubleFree, Undefined
<1> QED
  BY <1>1, <1>2, <1>3, <1>4, <1>5, <1>6 DEF Preserves, StateInv

(* Steps of ES code and of calls that only move references.  What they     *)
(* make nameable or use is alive, and no push or collection works on it.   *)

LEMMA RefStep ==
  ASSUME IInv, UNCHANGED <<obj, value, pushes, finalizing, failures, undefined>>,
         TypeOK', phase' # "destroyed", this' \in {this, None},
         \A o \in Named' \ Named : o \in Live /\ ~Pushed(o) /\ o # this',
         \A o \in InUse' \ InUse : o \in Live /\ finalizing[o].pc = "none"
  PROVE  Preserves
<1>1. NamesInv'
  BY DEF IInv, StateInv, NamesInv, Live
<1>2. ThisInv'
  BY DEF IInv, StateInv, ThisInv, Live
<1>3. OwnInv'
  BY DEF IInv, StateInv, OwnInv
<1>4. ParentInv'
  <2>1. \A o \in Objects : PlainInv(o) => PlainInv(o)'
    BY BoundsType DEF PlainInv, Pushed
  <2>2. Live' = Live /\ Live \subseteq Objects
    BY DEF Live
  <2> QED
    BY <2>1, <2>2 DEF IInv, StateInv, ParentInv
<1>5. PushInv'
  <2>1. \A b \in Blocks : pushes[b].pc # "none" => Pushed(pushes[b].obj)
    BY DEF Pushed
  <2> QED
    BY <2>1 DEF IInv, StateInv, PushInv
<1>6. FinalInv'
  BY DEF IInv, StateInv, FinalInv
<1>7. PhaseInv' /\ NoDoubleFree'
  BY DEF PhaseInv, IInv, NoDoubleFree
<1>8. LostNoMore
  BY DEF LostNoMore, Lost, Secured, Live
<1> QED
  BY <1>1, <1>2, <1>3, <1>4, <1>5, <1>6, <1>7, <1>8 DEF Preserves, StateInv

\* What is named already is alive, and no push works on it.
LEMMA NamedFacts ==
  ASSUME IInv
  PROVE  \A o \in Named : o \in Live /\ o \in Objects /\ ~Pushed(o)
BY DEF IInv, StateInv, NamesInv, PushInv, Pushed, Live

LEMMA LoadStep ==
  ASSUME IInv, phase # "destroyed", NEW o \in Objects, Load(o)
  PROVE  Preserves
<1>1. TypeOK
  BY DEF IInv, StateInv
<1>2. stack' \in Seq(Objects) /\ Len(stack') <= MaxStack /\ OnStack' = OnStack \cup {o}
  BY <1>1, StackGrows DEF Load
<1>3. TypeOK'
  BY <1>1, <1>2, Types, TypesNext DEF Load, TypeOK
<1>4. Named' = Named /\ InUse' = InUse
  BY <1>2 DEF Load, Named, InUse
<1> QED
  BY <1>3, <1>4, RefStep DEF Load

LEMMA KeepStep ==
  ASSUME IInv, phase # "destroyed", NEW o \in Objects, Keep(o)
  PROVE  Preserves
<1>1. TypeOK'
  BY DEF IInv, StateInv, TypeOK, Keep
<1>2. Named' = Named /\ InUse' = InUse
  BY DEF Keep, Named, OnStack, InUse
<1> QED
  BY <1>1, <1>2, RefStep DEF Keep

LEMMA DropStep ==
  ASSUME IInv, phase # "destroyed", NEW o \in Objects, Drop(o)
  PROVE  Preserves
<1>1. TypeOK'
  BY DEF IInv, StateInv, TypeOK, Drop
<1>2. Named' \subseteq Named /\ InUse' = InUse
  BY DEF Drop, Named, OnStack, InUse
<1> QED
  BY <1>1, <1>2, RefStep DEF Drop

LEMMA PopStep ==
  ASSUME IInv, phase # "destroyed", Pop
  PROVE  Preserves
<1>1. TypeOK
  BY DEF IInv, StateInv
<1>2. stack \in Seq(Objects) /\ Len(stack) <= MaxStack /\ Len(stack) \in Nat
  BY <1>1, Types
<1>3. /\ stack' \in Seq(Objects) /\ Len(stack') = Len(stack) - 1
      /\ \A j \in 1 .. Len(stack') : j \in 1 .. Len(stack) /\ stack'[j] = stack[j]
  BY <1>2, ButLast DEF Pop
<1>4. Len(stack') <= MaxStack
  BY <1>2, <1>3, BoundsType
<1>5. TypeOK'
  BY <1>1, <1>3, <1>4, Types, TypesNext DEF Pop, TypeOK
<1>6. Named' \subseteq Named /\ InUse' = InUse
  BY <1>3 DEF Pop, Named, OnStack, InUse
<1> QED
  BY <1>5, <1>6, RefStep DEF Pop

LEMMA EndNewStep ==
  ASSUME IInv, phase # "destroyed", EndNew
  PROVE  Preserves
<1>1. this \in Live /\ this \in Objects /\ this' = None
  BY DEF IInv, StateInv, ThisInv, EndNew, Live
<1>2. ~Pushed(this)
  BY NotPushed DEF EndNew, Pushed
<1>3. TypeOK'
  BY <1>1 DEF IInv, StateInv, TypeOK, EndNew
<1>4. Named' \subseteq Named \cup {this} /\ InUse' = InUse
  BY DEF EndNew, Named, OnStack, InUse
<1> QED
  BY <1>1, <1>2, <1>3, <1>4, RefStep, BoundsType DEF EndNew

LEMMA BeginCallStep ==
  ASSUME IInv, phase # "destroyed", NEW i \in -MaxStack .. -1, BeginCall(i)
  PROVE  Preserves
<1>1. TypeOK /\ ParentInv /\ OwnInv
  BY DEF IInv, StateInv
<1>2. Target(i) \in Objects /\ Target(i) \in Live
  BY <1>1, BoundsType, TargetNamed, NamedFacts DEF BeginCall, Named
<1> DEFINE t == Target(i)
<1>3. PICK k \in Kinds :
        /\ GetProp(t, k) # None
        /\ IF Misuse(t, k) # None THEN Undefined(Misuse(t, k))
           ELSE /\ borrowed' = Append(borrowed, [obj |-> t, block |-> GetProp(t, k)])
                /\ UNCHANGED <<obj, value, stack, kept, this, pushes, finalizing, failures,
                               undefined, phase>>
  BY DEF BeginCall
<1> HIDE DEF t
<1>4. /\ Misuse(t, k) \in {None, "reentered", "stale"}
      /\ Misuse(t, k) = None => finalizing[t].pc = "none" /\ GetProp(t, k) = obj[t].info
  BY <1>1, <1>2, <1>3, UsableOwn DEF t
<1>5. CASE Misuse(t, k) # None
  BY <1>3, <1>4, <1>5, UndefinedStep
<1>6. CASE Misuse(t, k) = None
  <2> DEFINE r == [obj |-> t, block |-> GetProp(t, k)]
  <2>1. r \in CallRecords /\ r.obj = t
    BY <1>1, <1>2, <1>3, <1>4, <1>6, ObjectType DEF t, CallRecords
  <2>2. borrowed' = Append(borrowed, r)
    BY <1>3, <1>6
  <2>3. borrowed \in Seq(CallRecords) /\ Len(borrowed) \in Nat
    BY <1>1, Types
  <2> HIDE DEF r
  <2>4. /\ borrowed' \in Seq(CallRecords) /\ Len(borrowed') = Len(borrowed) + 1
        /\ \A j \in 1 .. Len(borrowed') : borrowed'[j] = r \/ (j \in 1 .. Len(borrowed) /\ borrowed'[j] = borrowed[j])
    BY <2>1, <2>2, <2>3
  <2>5. InUse' \subseteq InUse \cup {t}
    BY <2>1, <2>4 DEF InUse, Arguments
  <2>6. TypeOK'
    BY <1>1, <1>3, <1>6, <2>4, Types, TypesNext DEF TypeOK
  <2>7. Named' = Named
    BY <1>3, <1>6 DEF Named, OnStack
  <2> QED
    BY <1>2, <1>3, <1>4, <1>6, <2>5, <2>6, <2>7, RefStep DEF t
<1> QED
  BY <1>5, <1>6

LEMMA EndCallStep ==
  ASSUME IInv, phase # "destroyed", EndCall
  PROVE  Preserves
<1>1. /\ borrowed' \in Seq(CallRecords)
      /\ \A j \in 1 .. Len(borrowed') : j \in 1 .. Len(borrowed) /\ borrowed'[j] = borrowed[j]
  <2>1. borrowed \in Seq(CallRecords)
    BY Types DEF IInv, StateInv
  <2> QED
    BY <2>1, ButLast DEF EndCall
<1>2. TypeOK'
  BY <1>1, Types, TypesNext DEF EndCall, TypeOK, IInv, StateInv
<1>3. Named' = Named /\ InUse' \subseteq InUse
  BY <1>1 DEF EndCall, Named, OnStack, InUse
<1> QED
  BY <1>2, <1>3, RefStep DEF EndCall

LEMMA DestroyHeapStep ==
  ASSUME IInv, DestroyHeap
  PROVE  Preserves
<1>1. stack' \in Seq(Objects) /\ Len(stack') = 0 /\ kept' = {}
  BY DEF DestroyHeap
<1>2. TypeOK'
  BY <1>1, BoundsType DEF IInv, StateInv, TypeOK, DestroyHeap
<1>3. Named' = {} /\ InUse' = InUse
  BY <1>1 DEF DestroyHeap, Named, OnStack, InUse
<1> QED
  BY <1>2, <1>3, RefStep DEF DestroyHeap

(* New objects. *)

LEMMA BirthStep ==
  ASSUME IInv, phase # "destroyed", NEW o \in Objects, Fresh(o),
         NEW r \in ObjectRecords, r.live, r.info = None, ~r.fin, r.ran = "no",
         obj' = [obj EXCEPT ![o] = r],
         UNCHANGED <<value, stack, borrowed, pushes, finalizing, failures, undefined, phase>>,
         TypeOK',
         \/ this' = this /\ kept' = kept \cup {o}
         \/ this' = o /\ kept' = kept /\ r.parent = None,
         r.parent # None =>
           /\ r.parent \in kept \ {this} /\ r.parent \in Objects
           /\ obj[r.parent].parent = None /\ obj[r.parent].info = None
  PROVE  Preserves
<1>1. /\ obj'[o] = r
      /\ \A d \in Objects : d # o => obj'[d] = obj[d]
      /\ Live' = Live \cup {o}
  BY ChangeOne DEF IInv, StateInv
<1>2. ~obj[o].live /\ obj[o] = Absent /\ obj[o].info = None /\ o \notin Live /\ ~Pushed(o)
  BY NotPushed, AbsentFields DEF IInv, StateInv, NamesInv, Fresh, Live, Pushed
<1>3. Live \subseteq Objects /\ None \notin Objects
  BY BoundsType DEF Live
<1>4. /\ Named' \subseteq Named \cup {o} /\ (this' = o => Named' = Named)
      /\ InUse' = InUse /\ o \notin Named /\ o # this /\ o \notin InUse
  BY <1>2, BoundsType DEF Named, OnStack, InUse, IInv, StateInv, NamesInv, ThisInv
<1>5. NamesInv'
  BY <1>1, <1>2, <1>4 DEF IInv, StateInv, NamesInv
<1>6. ThisInv'
  <2>1. CASE this' = o
    <3>1. finalizing[o].pc = "none"
      BY <1>2 DEF IInv, StateInv, FinalInv
    <3> QED
      BY <2>1, <3>1, <1>1, <1>4 DEF ThisInv
  <2>2. CASE this' = this /\ this' # o
    BY <2>2, <1>1, <1>3, <1>4 DEF ThisInv, IInv, StateInv
  <2> QED
    BY <2>1, <2>2, <1>4
<1>7. OwnInv'
  BY <1>1 DEF IInv, StateInv, OwnInv
<1>8. ParentInv'
  <2>1. \A d \in Objects : d # o => Pushed(d)' = Pushed(d)
    BY DEF Pushed
  <2>2. ASSUME NEW d \in Objects, d # o, obj[d].parent # None
        PROVE  /\ PlainInv(d)' /\ obj'[d].parent \in Live'
               /\ obj'[obj'[d].parent].parent = None /\ PlainInv(obj[d].parent)'
    <3>1. /\ PlainInv(d) /\ obj[d].parent \in Live /\ obj[obj[d].parent].parent = None
          /\ PlainInv(obj[d].parent)
      BY <2>2 DEF IInv, StateInv, ParentInv
    <3>2. obj[d].parent # o /\ obj[d].parent \in Objects
      BY <3>1, <1>2, <1>3
    <3> QED
      BY <3>1, <3>2, <2>1, <2>2, <1>1 DEF PlainInv
  <2>3. ASSUME r.parent # None
        PROVE  /\ PlainInv(o)' /\ r.parent \in Live'
               /\ obj'[r.parent].parent = None /\ PlainInv(r.parent)'
    <3>1. r.parent \in Live /\ ~Pushed(r.parent) /\ r.parent # o
      BY <2>3, <1>2, NamedFacts DEF Named
    <3>2. this' = this
      BY <2>3
    <3>3. ~Pushed(o)'
      BY <1>2 DEF Pushed
    <3>4. ~Pushed(r.parent)'
      BY <3>1 DEF Pushed
    <3> QED
      BY <2>3, <3>1, <3>2, <3>3, <3>4, <1>1, <1>4 DEF PlainInv
  <2> QED
    BY <2>2, <2>3, <1>1 DEF ParentInv
<1>9. PushInv'
  <2>1. \A b \in Blocks : pushes[b].pc # "none" => pushes[b].obj # o
    BY <1>2 DEF Pushed
  <2> QED
    BY <2>1, <1>1, <1>4 DEF IInv, StateInv, PushInv
<1>10. FinalInv'
  BY <1>1, <1>2, <1>4 DEF IInv, StateInv, FinalInv
<1>11. PhaseInv' /\ NoDoubleFree'
  BY DEF PhaseInv, IInv, NoDoubleFree
<1>12. LostNoMore
  <2>1. \A b \in Blocks : Secured(b) => Secured(b)'
    BY <1>1, <1>2, <1>3 DEF Secured
  <2> QED
    BY <2>1 DEF LostNoMore, Lost
<1> QED
  BY <1>5, <1>6, <1>7, <1>8, <1>9, <1>10, <1>11, <1>12 DEF Preserves, StateInv

LEMMA BeginNewStep ==
  ASSUME IInv, phase # "destroyed", NEW o \in Objects, BeginNew(o)
  PROVE  Preserves
<1> DEFINE r == Plain("object")
<1>1. r \in ObjectRecords /\ r.live /\ r.info = None /\ ~r.fin /\ r.ran = "no" /\ r.parent = None
  BY PlainFields DEF Kinds
<1>2. obj' = [obj EXCEPT ![o] = r]
  BY DEF BeginNew
<1> HIDE DEF r
<1>3. TypeOK'
  <2>1. TypeOK /\ obj' \in [Objects -> ObjectRecords]
    BY <1>1, <1>2, ChangeOne DEF IInv, StateInv
  <2> QED
    BY <2>1, Types, TypesNext DEF BeginNew, TypeOK
<1> QED
  BY <1>1, <1>2, <1>3, BirthStep DEF BeginNew

LEMMA DeriveStep ==
  ASSUME IInv, Inherit = FALSE, phase # "destroyed", NEW o \in Objects, NEW p \in Objects,
         Derive(o, p)
  PROVE  Preserves
<1> DEFINE q == Plain("object")
           r == [q EXCEPT !.parent = p]
<1>1. q \in ObjectRecords /\ q.live = TRUE /\ q.info = None /\ q.fin = FALSE /\ q.ran = "no"
  BY PlainFields DEF Kinds
<1>2. obj' = [obj EXCEPT ![o] = r]
  BY DEF Derive
<1> HIDE DEF q
<1>3. r \in ObjectRecords /\ r.live /\ r.info = None /\ ~r.fin /\ r.ran = "no" /\ r.parent = p
  BY <1>1 DEF ObjectRecords
<1> HIDE DEF r
<1>4. TypeOK'
  <2>1. TypeOK /\ obj' \in [Objects -> ObjectRecords]
    BY <1>2, <1>3, ChangeOne DEF IInv, StateInv
  <2> QED
    BY <2>1, Types, TypesNext DEF Derive, TypeOK
<1> QED
  BY <1>2, <1>3, <1>4, BirthStep DEF Derive

(* duk::push. *)

LEMMA MakeStep ==
  ASSUME IInv, PushAgain = FALSE, phase # "destroyed",
         NEW k \in Kinds, NEW o \in Objects, NEW b \in Blocks, Make(k, o, b)
  PROVE  Preserves
<1>1. TypeOK /\ value[b] = None /\ None \notin Objects
  BY BoundsType DEF IInv, StateInv, Make
<1>2. /\ obj[o].info = None /\ obj[o].ran = "no" /\ obj[o].parent = None /\ ~Pushed(o)
      /\ finalizing[o].pc = "none" /\ o \notin Named
      /\ \A d \in Objects : obj[d].parent # o
  <2>1. CASE Fresh(o)
    <3>1. ~obj[o].live /\ obj[o] = Absent /\ o \notin Live /\ ~Pushed(o)
      BY <2>1, NotPushed DEF IInv, StateInv, NamesInv, Fresh, Live, Pushed
    <3> QED
      BY <3>1, <1>1, AbsentFields DEF IInv, StateInv, NamesInv, FinalInv, ParentInv
  <2>2. CASE o = this /\ PushedInto(o) = {} /\ obj[o].info = None /\ ~obj[o].fin
    <3>1. ~Pushed(o)
      BY <2>2, NotPushed DEF Pushed
    <3>2. finalizing[o].pc = "none"
      BY <2>2 DEF IInv, StateInv, FinalInv
    <3> QED
      BY <2>2, <3>1, <3>2, <1>1 DEF IInv, StateInv, ThisInv, ParentInv, PlainInv
  <2> QED
    BY <2>1, <2>2 DEF Make
<1>3. /\ value' \in [Blocks -> Objects \cup {None, Raw}]
      /\ value'[b] = o /\ \A c \in Blocks : c # b => value'[c] = value[c]
  BY <1>1, Types DEF Make
<1> DEFINE r == [pc |-> "made", kind |-> k, obj |-> o]
<1>4. r \in PushRecords /\ r.pc = "made" /\ r.obj = o
  BY DEF PushRecords
<1>5. pushes' = [pushes EXCEPT ![b] = r]
  BY DEF Make
<1> HIDE DEF r
<1>6. /\ pushes' \in [Blocks -> PushRecords]
      /\ pushes'[b].pc = "made" /\ pushes'[b].obj = o
      /\ \A c \in Blocks : c # b => pushes'[c] = pushes[c]
  BY <1>1, <1>4, <1>5, ChangePush
<1>7. /\ UNCHANGED <<obj, stack, kept, this, borrowed, finalizing, failures, undefined, phase>>
      /\ Named' = Named /\ InUse' = InUse /\ Live' = Live
  BY DEF Make, Named, OnStack, InUse, Live
<1>8. TypeOK'
  BY <1>1, <1>3, <1>6, <1>7, Types, TypesNext DEF TypeOK
<1>9. NamesInv' /\ ThisInv'
  BY <1>7 DEF IInv, StateInv, NamesInv, ThisInv
<1>10. OwnInv'
  <2>1. \A d \in Objects : obj[d].info # None => d # o /\ obj[d].info \in Blocks
    BY <1>1, <1>2, ObjectType
  <2> QED
    BY <2>1, <1>1, <1>3, <1>7 DEF IInv, StateInv, OwnInv
<1>11. ParentInv'
  <2>1. \A d \in Objects : PlainInv(d) /\ d # o => PlainInv(d)'
    BY <1>6, <1>7 DEF PlainInv, Pushed
  <2>2. Live \subseteq Objects
    BY DEF Live
  <2> QED
    BY <2>1, <2>2, <1>2, <1>7 DEF IInv, StateInv, ParentInv
<1>12. PushInv'
  <2>1. \A c \in Blocks : pushes[c].pc # "none" => c # b /\ pushes[c].obj # o
    BY <1>1, <1>2 DEF IInv, StateInv, PushInv, Pushed
  <2>2. ASSUME NEW c \in Blocks, pushes'[c].pc # "none", c # b
        PROVE  /\ pushes'[c].obj \in Objects
               /\ value'[c] = pushes'[c].obj
               /\ obj'[pushes'[c].obj].ran = "no"
               /\ finalizing'[pushes'[c].obj].pc = "none"
               /\ pushes'[c].obj \notin Named'
               /\ obj'[pushes'[c].obj].live \/ pushes'[c].pc = "made"
               /\ obj'[pushes'[c].obj].info = IF pushes'[c].pc = "defined" THEN c ELSE None
               /\ \A e \in Blocks : pushes'[e].pc # "none" /\ pushes'[e].obj = pushes'[c].obj => e = c
    BY <2>1, <2>2, <1>3, <1>6, <1>7 DEF IInv, StateInv, PushInv
  <2>3. \A e \in Blocks : pushes'[e].pc # "none" /\ pushes'[e].obj = o => e = b
    BY <2>1, <1>6
  <2> QED
    BY <2>2, <2>3, <1>2, <1>3, <1>6, <1>7 DEF PushInv
<1>13. FinalInv'
  <2>1. \A d \in Objects : finalizing[d].pc # "none" => d # o /\ obj[d].info \in Blocks
    BY <1>1, <1>2, ObjectType DEF IInv, StateInv, FinalInv
  <2> QED
    BY <2>1, <1>3, <1>7 DEF IInv, StateInv, FinalInv
<1>14. PhaseInv' /\ NoDoubleFree'
  BY <1>7 DEF PhaseInv, IInv, NoDoubleFree
<1>15. LostNoMore
  <2>1. \A c \in Blocks : c # b /\ Secured(c) => Secured(c)'
    BY <1>3, <1>6, <1>7 DEF Secured
  <2>2. Secured(b)'
    BY <1>6 DEF Secured
  <2> QED
    BY <2>1, <2>2, <1>3, <1>7 DEF LostNoMore, Lost
<1> QED
  BY <1>8, <1>9, <1>10, <1>11, <1>12, <1>13, <1>14, <1>15 DEF Preserves, StateInv

LEMMA FailMakeStep ==
  ASSUME IInv, phase # "destroyed", NEW b \in Blocks, FailMake(b)
  PROVE  Preserves
<1>1. TypeOK /\ value[b] = None /\ None \notin Objects /\ Raw \notin Objects
  BY BoundsType DEF IInv, StateInv, FailMake
<1>2. /\ value' \in [Blocks -> Objects \cup {None, Raw}]
      /\ value'[b] = Raw /\ \A c \in Blocks : c # b => value'[c] = value[c]
  BY <1>1, Types DEF FailMake
<1>3. /\ UNCHANGED <<obj, stack, kept, borrowed, pushes, finalizing, undefined, phase>>
      /\ Named' = Named /\ InUse' = InUse /\ Live' = Live
      /\ this' \in {this, None} /\ failures' = failures + 1
  BY DEF FailMake, Named, OnStack, InUse, Live
<1>4. TypeOK'
  <2>1. failures' \in 0 .. MaxFailures /\ this' \in Objects \cup {None}
    BY <1>1, <1>3, Types, BoundsType DEF FailMake
  <2> QED
    BY <2>1, <1>1, <1>2, <1>3, Types, TypesNext DEF TypeOK
<1>5. NamesInv' /\ ThisInv'
  BY <1>3 DEF IInv, StateInv, NamesInv, ThisInv
<1>6. OwnInv'
  <2>1. \A d \in Objects : obj[d].info # None => obj[d].info \in Blocks
    BY <1>1, ObjectType
  <2> QED
    BY <2>1, <1>1, <1>2, <1>3 DEF IInv, StateInv, OwnInv
<1>7. ParentInv'
  <2>1. \A d \in Objects : PlainInv(d) => PlainInv(d)'
    BY <1>1, <1>3 DEF PlainInv, Pushed
  <2>2. Live \subseteq Objects
    BY DEF Live
  <2> QED
    BY <2>1, <2>2, <1>3 DEF IInv, StateInv, ParentInv
<1>8. PushInv'
  <2>1. \A c \in Blocks : pushes[c].pc # "none" => c # b
    BY <1>1 DEF IInv, StateInv, PushInv
  <2> QED
    BY <2>1, <1>2, <1>3 DEF IInv, StateInv, PushInv
<1>9. FinalInv'
  <2>1. \A d \in Objects : obj[d].info # None => obj[d].info \in Blocks
    BY <1>1, ObjectType
  <2> QED
    BY <2>1, <1>1, <1>2, <1>3 DEF IInv, StateInv, FinalInv
<1>10. PhaseInv' /\ NoDoubleFree'
  BY <1>3 DEF PhaseInv, IInv, NoDoubleFree
<1>11. LostOneMore
  <2>1. \A c \in Blocks : c # b /\ Secured(c) => Secured(c)'
    BY <1>2, <1>3 DEF Secured
  <2>2. Lost' \subseteq Lost \cup {b}
    BY <2>1, <1>2 DEF Lost
  <2> QED
    BY <2>2, <1>3 DEF LostOneMore
<1> QED
  BY <1>4, <1>5, <1>6, <1>7, <1>8, <1>9, <1>10, <1>11 DEF Preserves, StateInv

LEMMA CloneStep ==
  ASSUME IInv, PushAgain = FALSE, phase # "destroyed",
         NEW i \in -MaxStack .. -1, NEW o \in Objects, NEW b \in Blocks, Clone(i, o, b)
  PROVE  Preserves
<1>1. TypeOK /\ ParentInv /\ OwnInv /\ Target(i) \in Objects
  BY BoundsType, TargetNamed DEF IInv, StateInv, Clone
<1>2. Misuse(Target(i), "object") \in {None, "reentered", "stale"}
  BY <1>1, UsableOwn DEF Clone
<1> QED
  BY <1>2, UndefinedStep, MakeStep DEF Clone, Kinds

\* The push of b, and the object it works on.
LEMMA PushFacts ==
  ASSUME IInv, NEW b \in Blocks, pushes[b].pc # "none"
  PROVE  /\ pushes[b].obj \in Objects
         /\ value[b] = pushes[b].obj
         /\ obj[pushes[b].obj].ran = "no" /\ obj[pushes[b].obj].parent = None
         /\ finalizing[pushes[b].obj].pc = "none"
         /\ pushes[b].obj \notin Named
         /\ obj[pushes[b].obj].live \/ pushes[b].pc = "made"
         /\ obj[pushes[b].obj].info = IF pushes[b].pc = "defined" THEN b ELSE None
         /\ \A d \in Objects : obj[d].parent # pushes[b].obj
         /\ \A c \in Blocks : pushes[c].pc # "none" /\ pushes[c].obj = pushes[b].obj => c = b
<1>1. Pushed(pushes[b].obj)
  BY DEF Pushed
<1>2. pushes[b].obj \in Objects
  BY DEF IInv, StateInv, PushInv
<1>3. \A d \in Objects : obj[d].parent # None => d # pushes[b].obj /\ obj[d].parent # pushes[b].obj
  BY <1>1 DEF IInv, StateInv, ParentInv, PlainInv
<1>4. pushes[b].obj # None
  BY <1>2, BoundsType
<1> QED
  BY <1>2, <1>3, <1>4 DEF IInv, StateInv, PushInv

LEMMA CreateObjectStep ==
  ASSUME IInv, phase # "destroyed", NEW b \in Blocks, CreateObject(b)
  PROVE  Preserves
<1> DEFINE o == pushes[b].obj
           r == IF obj[o].live THEN obj[o] ELSE Plain(pushes[b].kind)
<1>1. TypeOK /\ pushes[b].pc = "made" /\ pushes[b].kind \in Kinds
  BY Types DEF IInv, StateInv, CreateObject, PushRecords
<1>2. /\ o \in Objects /\ value[b] = o /\ obj[o].ran = "no" /\ obj[o].parent = None
      /\ finalizing[o].pc = "none" /\ o \notin Named /\ obj[o].info = None
      /\ \A d \in Objects : obj[d].parent # o
      /\ \A c \in Blocks : pushes[c].pc # "none" /\ pushes[c].obj = o => c = b
  BY <1>1, PushFacts
<1>3. obj' = [obj EXCEPT ![o] = r]
  BY DEF CreateObject
<1> HIDE DEF o
<1>4. /\ r \in ObjectRecords /\ r.live /\ r.info = None /\ r.parent = None /\ r.ran = "no"
      /\ obj[o].live => r = obj[o]
  BY <1>1, <1>2, ObjectType, PlainFields
<1> HIDE DEF r
<1>5. /\ obj' \in [Objects -> ObjectRecords]
      /\ obj'[o] = r
      /\ \A d \in Objects : d # o => obj'[d] = obj[d]
      /\ Live' = Live \cup {o}
  BY <1>1, <1>2, <1>3, <1>4, ChangeOne
<1>6. /\ pushes' \in [Blocks -> PushRecords]
      /\ pushes'[b].pc = "created" /\ pushes'[b].obj = o
      /\ \A c \in Blocks : c # b => pushes'[c] = pushes[c]
  BY <1>1, AdvancePush DEF CreateObject, o
<1>7. /\ UNCHANGED <<value, stack, kept, this, borrowed, finalizing, failures, undefined, phase>>
      /\ Named' = Named /\ InUse' = InUse
  BY DEF CreateObject, Named, OnStack, InUse
<1>8. TypeOK'
  BY <1>1, <1>5, <1>6, <1>7, Types, TypesNext DEF TypeOK
<1>9. NamesInv'
  <2>1. obj'[o].live
    BY <1>4, <1>5
  <2>2. \A d \in Objects : ~obj'[d].live => obj'[d] = Absent
    BY <2>1, <1>5 DEF IInv, StateInv, NamesInv
  <2> QED
    BY <2>2, <1>5, <1>7 DEF IInv, StateInv, NamesInv
<1>10. ThisInv'
  <2>1. this # None => this \in Live /\ this \in Objects
    BY DEF IInv, StateInv, ThisInv, Live
  <2>2. this # None => obj'[this] = obj[this]
    BY <2>1, <1>4, <1>5 DEF Live
  <2> QED
    BY <2>1, <2>2, <1>5, <1>7 DEF IInv, StateInv, ThisInv
<1>11. OwnInv'
  BY <1>4, <1>5, <1>7 DEF IInv, StateInv, OwnInv
<1>12. ParentInv'
  <2>1. \A d \in Objects : PlainInv(d) => PlainInv(d)'
    BY <1>1, <1>5, <1>6, <1>7 DEF PlainInv, Pushed, o
  <2>2. Live \subseteq Objects
    BY DEF Live
  <2>3. \A d \in Objects : obj'[d].parent = obj[d].parent
    BY <1>2, <1>4, <1>5
  <2> QED
    BY <2>1, <2>2, <2>3, <1>5 DEF IInv, StateInv, ParentInv
<1>13. PushInv'
  <2>1. ASSUME NEW c \in Blocks, pushes'[c].pc # "none", c # b
        PROVE  /\ pushes'[c].obj \in Objects
               /\ value'[c] = pushes'[c].obj
               /\ obj'[pushes'[c].obj].ran = "no"
               /\ finalizing'[pushes'[c].obj].pc = "none"
               /\ pushes'[c].obj \notin Named'
               /\ obj'[pushes'[c].obj].live \/ pushes'[c].pc = "made"
               /\ obj'[pushes'[c].obj].info = IF pushes'[c].pc = "defined" THEN c ELSE None
               /\ \A e \in Blocks : pushes'[e].pc # "none" /\ pushes'[e].obj = pushes'[c].obj => e = c
    <3>1. pushes'[c] = pushes[c] /\ pushes[c].pc # "none" /\ pushes[c].obj # o
      BY <2>1, <1>2, <1>6
    <3> QED
      BY <2>1, <3>1, <1>5, <1>6, <1>7 DEF IInv, StateInv, PushInv
  <2>2. \A e \in Blocks : pushes'[e].pc # "none" /\ pushes'[e].obj = o => e = b
    BY <1>2, <1>6
  <2> QED
    BY <2>1, <2>2, <1>2, <1>4, <1>5, <1>6, <1>7 DEF PushInv
<1>14. FinalInv'
  BY <1>2, <1>5, <1>7 DEF IInv, StateInv, FinalInv
<1>15. PhaseInv' /\ NoDoubleFree'
  BY <1>7 DEF PhaseInv, IInv, NoDoubleFree
<1>16. LostNoMore
  <2>1. ASSUME NEW c \in Blocks, Secured(c)
        PROVE  Secured(c)'
    <3>1. CASE pushes[c].pc # "none"
      BY <3>1, <1>6 DEF Secured
    <3>2. CASE pushes[c].pc = "none"
      <4>1. PICK d \in Live :
              /\ value[c] = d
              /\ \/ obj[d].info = c /\ obj[d].fin /\ obj[d].ran = "no"
                 \/ finalizing[d].pc = "destroying" /\ finalizing[d].block = c
        BY <2>1, <3>2 DEF Secured
      <4>2. d \in Objects /\ d \in Live' /\ obj'[d] = obj[d]
        BY <4>1, <1>4, <1>5 DEF Live
      <4> QED
        BY <4>1, <4>2, <1>7 DEF Secured
    <3> QED
      BY <3>1, <3>2
  <2> QED
    BY <2>1, <1>7 DEF LostNoMore, Lost
<1> QED
  BY <1>8, <1>9, <1>10, <1>11, <1>12, <1>13, <1>14, <1>15, <1>16 DEF Preserves, StateInv

LEMMA DefPropStep ==
  ASSUME IInv, phase # "destroyed", NEW b \in Blocks, DefProp(b)
  PROVE  Preserves
<1> DEFINE o == pushes[b].obj
           r == [obj[o] EXCEPT !.info = b]
<1>1. TypeOK /\ pushes[b].pc = "created"
  BY DEF IInv, StateInv, DefProp
<1>2. /\ o \in Objects /\ value[b] = o /\ obj[o].ran = "no" /\ obj[o].parent = None
      /\ obj[o].live /\ finalizing[o].pc = "none" /\ o \notin Named /\ obj[o].info = None
      /\ \A d \in Objects : obj[d].parent # o
      /\ \A c \in Blocks : pushes[c].pc # "none" /\ pushes[c].obj = o => c = b
  BY <1>1, PushFacts
<1>3. obj' = [obj EXCEPT ![o] = r]
  BY DEF DefProp
<1> HIDE DEF o
<1>4. /\ r \in ObjectRecords /\ r.live = obj[o].live /\ r.info = b /\ r.parent = obj[o].parent
      /\ r.ran = obj[o].ran /\ r.fin = obj[o].fin
  <2>1. obj[o] \in ObjectRecords /\ b \in Blocks \cup {None}
    BY <1>1, <1>2, ObjectType
  <2> QED
    BY <2>1, ChangeInfo
<1> HIDE DEF r
<1>5. /\ obj' \in [Objects -> ObjectRecords]
      /\ obj'[o] = r
      /\ \A d \in Objects : d # o => obj'[d] = obj[d]
      /\ Live' = Live \cup {o} /\ Live' = Live
  BY <1>1, <1>2, <1>3, <1>4, ChangeOne DEF Live
<1>6. /\ pushes' \in [Blocks -> PushRecords]
      /\ pushes'[b].pc = "defined" /\ pushes'[b].obj = o
      /\ \A c \in Blocks : c # b => pushes'[c] = pushes[c]
  BY <1>1, AdvancePush DEF DefProp, o
<1>7. /\ UNCHANGED <<value, stack, kept, this, borrowed, finalizing, failures, undefined, phase>>
      /\ Named' = Named /\ InUse' = InUse
  BY DEF DefProp, Named, OnStack, InUse
<1>8. TypeOK'
  BY <1>1, <1>5, <1>6, <1>7, Types, TypesNext DEF TypeOK
<1>9. NamesInv'
  <2>1. obj'[o].live
    BY <1>2, <1>4, <1>5
  <2>2. \A d \in Objects : ~obj'[d].live => obj'[d] = Absent
    BY <2>1, <1>5 DEF IInv, StateInv, NamesInv
  <2> QED
    BY <2>2, <1>5, <1>7 DEF IInv, StateInv, NamesInv
<1>10. ThisInv'
  <2>1. this # None => this \in Objects
    BY DEF IInv, StateInv, ThisInv, Live
  <2>2. \A d \in Objects : /\ obj'[d].parent = obj[d].parent /\ obj'[d].ran = obj[d].ran
                           /\ obj'[d].fin = obj[d].fin
    BY <1>4, <1>5
  <2> QED
    BY <2>1, <2>2, <1>5, <1>7 DEF IInv, StateInv, ThisInv
<1>11. OwnInv'
  BY <1>2, <1>4, <1>5, <1>7 DEF IInv, StateInv, OwnInv
<1>12. ParentInv'
  <2>1. \A d \in Objects : PlainInv(d) => PlainInv(d)' /\ d # o
    BY <1>1, <1>5, <1>6, <1>7 DEF PlainInv, Pushed, o
  <2>2. Live \subseteq Objects
    BY DEF Live
  <2>3. \A d \in Objects : obj'[d].parent = obj[d].parent
    BY <1>4, <1>5
  <2> QED
    BY <2>1, <2>2, <2>3, <1>5 DEF IInv, StateInv, ParentInv
<1>13. PushInv'
  <2>1. ASSUME NEW c \in Blocks, pushes'[c].pc # "none", c # b
        PROVE  /\ pushes'[c].obj \in Objects
               /\ value'[c] = pushes'[c].obj
               /\ obj'[pushes'[c].obj].ran = "no"
               /\ finalizing'[pushes'[c].obj].pc = "none"
               /\ pushes'[c].obj \notin Named'
               /\ obj'[pushes'[c].obj].live \/ pushes'[c].pc = "made"
               /\ obj'[pushes'[c].obj].info = IF pushes'[c].pc = "defined" THEN c ELSE None
               /\ \A e \in Blocks : pushes'[e].pc # "none" /\ pushes'[e].obj = pushes'[c].obj => e = c
    <3>1. pushes'[c] = pushes[c] /\ pushes[c].pc # "none" /\ pushes[c].obj # o
      BY <2>1, <1>2, <1>6
    <3> QED
      BY <2>1, <3>1, <1>5, <1>6, <1>7 DEF IInv, StateInv, PushInv
  <2>2. \A e \in Blocks : pushes'[e].pc # "none" /\ pushes'[e].obj = o => e = b
    BY <1>2, <1>6
  <2>3. /\ o \in Objects /\ value'[b] = o /\ obj'[o].ran = "no" /\ finalizing'[o].pc = "none"
        /\ o \notin Named' /\ obj'[o].live /\ obj'[o].info = b
    BY <1>2, <1>4, <1>5, <1>7
  <2> QED
    BY <2>1, <2>2, <2>3, <1>6 DEF PushInv
<1>14. FinalInv'
  BY <1>2, <1>5, <1>7 DEF IInv, StateInv, FinalInv
<1>15. PhaseInv' /\ NoDoubleFree'
  BY <1>7 DEF PhaseInv, IInv, NoDoubleFree
<1>16. LostNoMore
  <2>1. ASSUME NEW c \in Blocks, Secured(c)
        PROVE  Secured(c)'
    <3>1. CASE pushes[c].pc # "none"
      BY <3>1, <1>6 DEF Secured
    <3>2. CASE pushes[c].pc = "none"
      <4>1. PICK d \in Live :
              /\ value[c] = d
              /\ \/ obj[d].info = c /\ obj[d].fin /\ obj[d].ran = "no"
                 \/ finalizing[d].pc = "destroying" /\ finalizing[d].block = c
        BY <2>1, <3>2 DEF Secured
      <4>2. d # o
        BY <4>1, <1>2, BoundsType
      <4>3. d \in Objects /\ d \in Live' /\ obj'[d] = obj[d]
        BY <4>1, <4>2, <1>5 DEF Live
      <4> QED
        BY <4>1, <4>3, <1>7 DEF Secured
    <3> QED
      BY <3>1, <3>2
  <2> QED
    BY <2>1, <1>7 DEF LostNoMore, Lost
<1> QED
  BY <1>8, <1>9, <1>10, <1>11, <1>12, <1>13, <1>14, <1>15, <1>16 DEF Preserves, StateInv

LEMMA SetFinalizerStep ==
  ASSUME IInv, phase # "destroyed", NEW b \in Blocks, SetFinalizer(b)
  PROVE  Preserves
<1> DEFINE o == pushes[b].obj
           r == [obj[o] EXCEPT !.fin = TRUE]
<1>1. TypeOK /\ pushes[b].pc = "defined"
  BY DEF IInv, StateInv, SetFinalizer
<1>2. /\ o \in Objects /\ value[b] = o /\ obj[o].ran = "no" /\ obj[o].parent = None
      /\ obj[o].live /\ finalizing[o].pc = "none" /\ o \notin Named /\ obj[o].info = b
      /\ \A d \in Objects : obj[d].parent # o
      /\ \A c \in Blocks : pushes[c].pc # "none" /\ pushes[c].obj = o => c = b
  BY <1>1, PushFacts
<1>3. obj' = [obj EXCEPT ![o] = r] /\ stack' = Append(stack, o) /\ Len(stack) < MaxStack
  BY DEF SetFinalizer, WithFinalizer, ObjectOnTop
<1> HIDE DEF o
<1>4. /\ r \in ObjectRecords /\ r.live = obj[o].live /\ r.info = b /\ r.parent = obj[o].parent
      /\ r.ran = obj[o].ran /\ r.fin = TRUE
  BY <1>1, <1>2, ObjectType, ChangeFin
<1> HIDE DEF r
<1>5. /\ obj' \in [Objects -> ObjectRecords]
      /\ obj'[o] = r
      /\ \A d \in Objects : d # o => obj'[d] = obj[d]
      /\ Live' = Live \cup {o} /\ Live' = Live
  BY <1>1, <1>2, <1>3, <1>4, ChangeOne DEF Live
<1>6. /\ pushes' \in [Blocks -> PushRecords]
      /\ pushes'[b].pc = "none"
      /\ \A c \in Blocks : c # b => pushes'[c] = pushes[c]
  BY <1>1, ChangePush, NoneFields DEF SetFinalizer
<1>7. /\ UNCHANGED <<value, kept, this, borrowed, finalizing, failures, undefined, phase>>
      /\ stack' \in Seq(Objects) /\ Len(stack') <= MaxStack
      /\ Named' = Named \cup {o} /\ InUse' = InUse
  BY <1>1, <1>2, <1>3, StackGrows DEF SetFinalizer, Named, InUse
<1>8. TypeOK'
  BY <1>1, <1>5, <1>6, <1>7, Types, TypesNext DEF TypeOK
<1>9. NamesInv'
  <2>1. obj[o].live = TRUE
    BY <1>1, <1>2, ObjectType
  <2>2. obj'[o].live = TRUE
    BY <2>1, <1>4, <1>5
  <2>3. \A d \in Objects : ~obj'[d].live => obj'[d] = Absent
    BY <2>2, <1>5 DEF IInv, StateInv, NamesInv
  <2> QED
    BY <2>3, <1>5, <1>7 DEF IInv, StateInv, NamesInv
<1>10. ThisInv'
  <2>1. this # None => this \in Objects
    BY DEF IInv, StateInv, ThisInv, Live
  <2>2. \A d \in Objects : /\ obj'[d].parent = obj[d].parent /\ obj'[d].ran = obj[d].ran
                           /\ d # o => obj'[d].fin = obj[d].fin
    BY <1>4, <1>5
  <2>3. obj'[o].fin = TRUE
    BY <1>4, <1>5
  <2> QED
    BY <2>1, <2>2, <2>3, <1>5, <1>7 DEF IInv, StateInv, ThisInv
<1>11. OwnInv'
  BY <1>2, <1>4, <1>5, <1>7 DEF IInv, StateInv, OwnInv
<1>12. ParentInv'
  <2>1. \A d \in Objects : PlainInv(d) => PlainInv(d)' /\ d # o
    BY <1>1, <1>5, <1>6, <1>7 DEF PlainInv, Pushed, o
  <2>2. Live \subseteq Objects
    BY DEF Live
  <2>3. \A d \in Objects : obj'[d].parent = obj[d].parent
    BY <1>4, <1>5
  <2> QED
    BY <2>1, <2>2, <2>3, <1>5 DEF IInv, StateInv, ParentInv
<1>13. PushInv'
  <2>1. \A c \in Blocks : pushes'[c].pc # "none" =>
          pushes'[c] = pushes[c] /\ c # b /\ pushes[c].obj # o
    BY <1>2, <1>6
  <2>2. \A c \in Blocks : pushes'[c].pc # "none" => obj'[pushes[c].obj] = obj[pushes[c].obj]
    BY <2>1, <1>5 DEF IInv, StateInv, PushInv
  <2> QED
    BY <2>1, <2>2, <1>7 DEF IInv, StateInv, PushInv
<1>14. FinalInv'
  BY <1>2, <1>5, <1>7 DEF IInv, StateInv, FinalInv
<1>15. PhaseInv' /\ NoDoubleFree'
  BY <1>7 DEF PhaseInv, IInv, NoDoubleFree
<1>16. LostNoMore
  <2>1. ASSUME NEW c \in Blocks, Secured(c)
        PROVE  Secured(c)'
    <3>1. CASE c = b
      <4>1. o \in Live' /\ value'[b] = o /\ obj'[o].info = b /\ obj'[o].fin /\ obj'[o].ran = "no"
        BY <1>2, <1>4, <1>5, <1>7 DEF Live
      <4> QED
        BY <3>1, <4>1 DEF Secured
    <3>2. CASE c # b /\ pushes[c].pc # "none"
      BY <3>2, <1>6 DEF Secured
    <3>3. CASE c # b /\ pushes[c].pc = "none"
      <4>1. PICK d \in Live :
              /\ value[c] = d
              /\ \/ obj[d].info = c /\ obj[d].fin /\ obj[d].ran = "no"
                 \/ finalizing[d].pc = "destroying" /\ finalizing[d].block = c
        BY <2>1, <3>3 DEF Secured
      <4>2. d # o
        BY <4>1, <3>3, <1>2
      <4>3. d \in Objects /\ d \in Live' /\ obj'[d] = obj[d]
        BY <4>1, <4>2, <1>5 DEF Live
      <4> QED
        BY <4>1, <4>3, <1>7 DEF Secured
    <3> QED
      BY <3>1, <3>2, <3>3
  <2> QED
    BY <2>1, <1>7 DEF LostNoMore, Lost
<1> QED
  BY <1>8, <1>9, <1>10, <1>11, <1>12, <1>13, <1>14, <1>15, <1>16 DEF Preserves, StateInv

LEMMA FailPushStep ==
  ASSUME IInv, phase # "destroyed", NEW b \in Blocks, FailPush(b)
  PROVE  Preserves
<1>1. TypeOK
  BY DEF IInv, StateInv
<1>2. /\ pushes' \in [Blocks -> PushRecords]
      /\ pushes'[b].pc = "none"
      /\ \A c \in Blocks : c # b => pushes'[c] = pushes[c]
  BY <1>1, ChangePush, NoneFields DEF FailPush
<1>3. /\ UNCHANGED <<obj, value, stack, kept, borrowed, finalizing, undefined, phase>>
      /\ Named' = Named /\ InUse' = InUse /\ Live' = Live
      /\ this' \in {this, None} /\ failures' = failures + 1
  BY DEF FailPush, Named, OnStack, InUse, Live
<1>4. TypeOK'
  <2>1. failures' \in 0 .. MaxFailures /\ this' \in Objects \cup {None}
    BY <1>1, <1>3, Types, BoundsType DEF FailPush
  <2> QED
    BY <2>1, <1>1, <1>2, <1>3, Types, TypesNext DEF TypeOK
<1>5. NamesInv' /\ ThisInv' /\ OwnInv'
  BY <1>3 DEF IInv, StateInv, NamesInv, ThisInv, OwnInv
<1>6. ParentInv'
  <2>1. \A d \in Objects : PlainInv(d) => PlainInv(d)'
    BY <1>2, <1>3, BoundsType DEF PlainInv, Pushed
  <2>2. Live \subseteq Objects
    BY DEF Live
  <2> QED
    BY <2>1, <2>2, <1>3 DEF IInv, StateInv, ParentInv
<1>7. PushInv'
  <2>1. \A c \in Blocks : pushes'[c].pc # "none" => pushes'[c] = pushes[c] /\ c # b
    BY <1>2
  <2> QED
    BY <2>1, <1>3 DEF IInv, StateInv, PushInv
<1>8. FinalInv' /\ PhaseInv' /\ NoDoubleFree'
  BY <1>3 DEF IInv, StateInv, FinalInv, PhaseInv, NoDoubleFree
<1>9. LostOneMore
  <2>1. \A c \in Blocks : c # b /\ Secured(c) => Secured(c)'
    BY <1>2, <1>3 DEF Secured
  <2>2. Lost' \subseteq Lost \cup {b}
    BY <2>1, <1>3 DEF Lost
  <2> QED
    BY <2>2, <1>3 DEF LostOneMore
<1> QED
  BY <1>4, <1>5, <1>6, <1>7, <1>8, <1>9 DEF Preserves, StateInv

(* duk::finalize, and the finalizers that the collector runs. *)

LEMMA AtTop ==
  ASSUME NEW st, NEW i \in Int, i < 0
  PROVE  At(st, i) = st[Len(st) + 1 + i]
BY DEF At

\* What finalize has on the stack above the objects does not change what an
\* index from the top denotes, once the index is moved by as many.
LEMMA TopIndex ==
  ASSUME TypeOK, NEW i \in Int, i < 0, Valid(stack, i)
  PROVE  \A n \in {1, 2} : At(Above(n), i - n) = Target(i)
<1>1. stack \in Seq(Objects) /\ Len(stack) \in Nat /\ Len(stack) + 1 + i \in 1 .. Len(stack)
  BY Types DEF Valid
<1>2. Target(i) = stack[Len(stack) + 1 + i]
  BY DEF Target, At
<1>3. ASSUME NEW n \in {1, 2}
      PROVE  At(Above(n), i - n) = Target(i)
  <2> DEFINE t == [j \in 1 .. n |-> None]
  <2>1. n \in Nat
    OBVIOUS
  <2>2. t \in Seq({None}) /\ Len(t) = n
    BY <2>1
  <2> HIDE DEF t
  <2>3. /\ stack \o t \in Seq(Objects \cup {None})
        /\ Len(stack \o t) = Len(stack) + n
        /\ \A j \in 1 .. Len(stack) : (stack \o t)[j] = stack[j]
    BY <1>1, <2>2
  <2>4. At(stack \o t, i - n) = (stack \o t)[Len(stack \o t) + 1 + (i - n)]
    <3>1. i - n \in Int /\ i - n < 0
      BY <2>1
    <3> QED
      BY <3>1, AtTop
  <2>5. Len(stack \o t) + 1 + (i - n) = Len(stack) + 1 + i
    BY <2>1, <2>3, <1>1
  <2> QED
    BY <1>1, <1>2, <2>3, <2>4, <2>5 DEF Above, t
<1> QED
  BY <1>3

\* The finalization of an object by its own finalizer, or by duk::finalize of
\* that object, begins.
LEMMA BeginFinalizationStep ==
  ASSUME IInv, phase # "destroyed", NEW o \in Objects, NEW by \in {"finalize", "collector"},
         NEW t \in Objects \cup {None},
         BeginFinalization(o, by, obj[o].kind, obj[o].info, t),
         obj[o].info # None, obj[o].live, obj[o].ran = "no", finalizing[o].pc = "none", ~Pushed(o),
         by = "finalize" => t = o,
         by = "collector" => o \notin InUse /\ o # this
  PROVE  Preserves
<1> DEFINE r == [pc |-> "destroying", by |-> by, kind |-> obj[o].kind,
                 block |-> obj[o].info, target |-> t]
<1>1. TypeOK
  BY DEF IInv, StateInv
<1>2. r \in FinalizationRecords
  BY <1>1, ObjectType DEF FinalizationRecords
<1>3. r.pc = "destroying" /\ r.by = by /\ r.kind = obj[o].kind /\ r.block = obj[o].info /\ r.target = t
  OBVIOUS
<1>4. finalizing' = [finalizing EXCEPT ![o] = r]
  BY DEF BeginFinalization
<1> HIDE DEF r
<1>5. /\ finalizing' \in [Objects -> FinalizationRecords]
      /\ finalizing'[o] = r
      /\ \A d \in Objects : d # o => finalizing'[d] = finalizing[d]
  BY <1>1, <1>2, <1>4, ChangeFinalization
<1>6. /\ UNCHANGED <<obj, value, stack, kept, this, borrowed, pushes, failures, undefined, phase>>
      /\ Named' = Named /\ InUse' = InUse /\ Live' = Live
  BY DEF BeginFinalization, Named, OnStack, InUse, Live
<1>7. TypeOK'
  BY <1>1, <1>5, <1>6, Types, TypesNext DEF TypeOK
<1>8. NamesInv'
  BY <1>6 DEF IInv, StateInv, NamesInv
<1>9. ThisInv'
  <2>1. this # None => this \in Objects
    BY DEF IInv, StateInv, ThisInv, Live
  <2> QED
    BY <2>1, <1>3, <1>5, <1>6 DEF IInv, StateInv, ThisInv
<1>10. OwnInv'
  BY <1>3, <1>5, <1>6 DEF IInv, StateInv, OwnInv
<1>11. ParentInv'
  <2>1. \A d : PlainInv(d) => PlainInv(d)'
    BY <1>6 DEF PlainInv, Pushed
  <2> QED
    BY <2>1, <1>6 DEF IInv, StateInv, ParentInv
<1>12. PushInv'
  <2>1. \A c \in Blocks : pushes[c].pc # "none" => pushes[c].obj # o
    BY DEF Pushed
  <2> QED
    BY <2>1, <1>5, <1>6 DEF IInv, StateInv, PushInv
<1>13. FinalInv'
  BY <1>3, <1>5, <1>6 DEF IInv, StateInv, FinalInv
<1>14. PhaseInv' /\ NoDoubleFree'
  BY <1>6 DEF PhaseInv, IInv, NoDoubleFree
<1>15. LostNoMore
  <2>1. \A c \in Blocks : Secured(c) => Secured(c)'
    BY <1>5, <1>6 DEF Secured, Live
  <2> QED
    BY <2>1, <1>6 DEF LostNoMore, Lost
<1> QED
  BY <1>7, <1>8, <1>9, <1>10, <1>11, <1>12, <1>13, <1>14, <1>15 DEF Preserves, StateInv

LEMMA FinalizeObjectStep ==
  ASSUME IInv, AbsoluteIndex = FALSE, phase # "destroyed", NEW i \in Int, FinalizeObject(i)
  PROVE  Preserves
<1> DEFINE t == Target(i)
<1>1. TypeOK /\ ParentInv /\ OwnInv /\ i < 0 /\ Valid(stack, i)
  BY DEF IInv, StateInv, FinalizeObject
<1>2. t \in Objects /\ t \in Live /\ ~Pushed(t)
  BY <1>1, TargetNamed, NamedFacts DEF Named
<1>3. At(Above(1), i - 1) = t
  BY <1>1, TopIndex
<1>4. /\ GetProp(t, "object") # None
      /\ IF Misuse(t, "object") # None THEN Undefined(Misuse(t, "object"))
         ELSE BeginFinalization(t, "finalize", "object", GetProp(t, "object"), t)
  BY <1>3 DEF FinalizeObject
<1> HIDE DEF t
<1>5. /\ Misuse(t, "object") \in {None, "reentered", "stale"}
      /\ Misuse(t, "object") = None =>
           finalizing[t].pc = "none" /\ obj[t].ran = "no" /\ GetProp(t, "object") = obj[t].info
  BY <1>1, <1>2, <1>4, UsableOwn
<1>6. obj[t].kind = "object"
  BY <1>1, <1>2, <1>4, OwnOnly
<1>7. CASE Misuse(t, "object") # None
  BY <1>4, <1>5, <1>7, UndefinedStep
<1>8. CASE Misuse(t, "object") = None
  <2>1. BeginFinalization(t, "finalize", obj[t].kind, obj[t].info, t)
    BY <1>4, <1>5, <1>6, <1>8
  <2> QED
    BY <2>1, <1>2, <1>4, <1>5, <1>8, BeginFinalizationStep DEF Live
<1> QED
  BY <1>7, <1>8

LEMMA FinalizeCallableStep ==
  ASSUME IInv, AbsoluteIndex = FALSE, phase # "destroyed", NEW i \in Int, FinalizeCallable(i)
  PROVE  Preserves
<1> DEFINE t == Target(i)
<1>1. TypeOK /\ ParentInv /\ OwnInv /\ i < 0 /\ Valid(stack, i)
  BY DEF IInv, StateInv, FinalizeCallable
<1>2. t \in Objects /\ t \in Live /\ ~Pushed(t)
  BY <1>1, TargetNamed, NamedFacts DEF Named
<1>3. At(Above(1), i - 1) = t /\ At(Above(2), i - 2) = t
  BY <1>1, TopIndex
<1>4. GetProp(t, "function") # None
  BY DEF FinalizeCallable
<1> HIDE DEF t
<1>5. obj[t].kind = "function" /\ obj[t].info # None
  BY <1>1, <1>2, <1>4, OwnOnly
<1>6. Finalizer(t) = t /\ GetProp(t, "function") = obj[t].info
  BY <1>1, <1>2, <1>5, OwnFinalizer
<1>7. IF obj[t].info # None /\ Misuse(t, "function") # None
      THEN Undefined(Misuse(t, "function"))
      ELSE BeginFinalization(t, "finalize", "function", obj[t].info, t)
  BY <1>3, <1>5, <1>6 DEF FinalizeCallable, t
<1>8. /\ Misuse(t, "function") \in {None, "reentered", "stale"}
      /\ Misuse(t, "function") = None => finalizing[t].pc = "none" /\ obj[t].ran = "no"
  BY <1>1, <1>2, <1>4, UsableOwn
<1>9. CASE Misuse(t, "function") # None
  BY <1>5, <1>7, <1>8, <1>9, UndefinedStep
<1>10. CASE Misuse(t, "function") = None
  <2>1. BeginFinalization(t, "finalize", obj[t].kind, obj[t].info, t)
    BY <1>5, <1>7, <1>10
  <2> QED
    BY <2>1, <1>2, <1>5, <1>8, <1>10, BeginFinalizationStep DEF Live
<1> QED
  BY <1>9, <1>10

\* A finalization in progress, and its object.
LEMMA FinalFacts ==
  ASSUME IInv, NEW o \in Objects, finalizing[o].pc # "none"
  PROVE  /\ obj[o].live /\ obj[o].ran = "no" /\ obj[o].info # None /\ obj[o].info \in Blocks
         /\ finalizing[o].kind = obj[o].kind
         /\ finalizing[o].pc = "destroying" =>
              finalizing[o].block = obj[o].info /\ value[obj[o].info] = o
         /\ finalizing[o].pc = "freed" =>
              finalizing[o].by = "finalize" /\ value[obj[o].info] # o
         /\ finalizing[o].by = "finalize" => finalizing[o].target = o
         /\ finalizing[o].by = "collector" => o \notin InUse /\ o # this
         /\ ~Pushed(o)
         /\ \A d \in Objects : obj[d].parent # o
<1>1. /\ obj[o].live /\ obj[o].ran = "no" /\ obj[o].info # None
      /\ finalizing[o].kind = obj[o].kind
      /\ finalizing[o].pc = "destroying" => finalizing[o].block = obj[o].info
      /\ finalizing[o].pc = "freed" =>
           finalizing[o].by = "finalize" /\ value[obj[o].info] # o
      /\ finalizing[o].by = "finalize" => finalizing[o].target = o
      /\ finalizing[o].by = "collector" => o \notin InUse
  BY DEF IInv, StateInv, FinalInv
<1>2. obj[o].info \in Blocks
  BY <1>1, ObjectType DEF IInv, StateInv
<1>3. finalizing[o].pc = "destroying" => value[obj[o].info] = o
  BY <1>1 DEF IInv, StateInv, OwnInv
<1>4. finalizing[o].by = "collector" => o # this
  BY BoundsType DEF IInv, StateInv, ThisInv
<1>5. ~Pushed(o)
  BY DEF Pushed, IInv, StateInv, PushInv
<1>6. \A d \in Objects : obj[d].parent # o
  BY <1>1, BoundsType DEF IInv, StateInv, ParentInv, PlainInv
<1> QED
  BY <1>1, <1>2, <1>3, <1>4, <1>5, <1>6

\* The step that destroys a value: the value is the object's own.
LEMMA FreeValueEffect ==
  ASSUME IInv, NEW o \in Objects, FreeValue(o)
  PROVE  /\ value' \in [Blocks -> Objects \cup {None, Raw}]
         /\ value'[obj[o].info] = None
         /\ \A c \in Blocks : c # obj[o].info => value'[c] = value[c]
         /\ UNCHANGED <<stack, kept, this, borrowed, pushes, failures, undefined, phase>>
         /\ IF finalizing[o].by = "finalize"
            THEN /\ finalizing' = [finalizing EXCEPT ![o].pc = "freed"]
                 /\ obj' = obj
            ELSE /\ finalizing' = [finalizing EXCEPT ![o] = NoFinalization]
                 /\ obj' = [obj EXCEPT ![o].ran = IF o \in Named THEN "rescued" ELSE "yes"]
<1>1. finalizing[o].pc = "destroying" /\ finalizing[o].pc # "none"
  BY DEF FreeValue
<1>2. finalizing[o].block = obj[o].info /\ obj[o].info \in Blocks /\ value[obj[o].info] = o
  BY <1>1, FinalFacts
<1>3. value[finalizing[o].block] \notin {None, Raw}
  BY <1>2, BoundsType
<1>4. /\ value' = [value EXCEPT ![obj[o].info] = None]
      /\ UNCHANGED <<stack, kept, this, borrowed, pushes, failures, undefined, phase>>
      /\ IF finalizing[o].by = "finalize"
         THEN /\ finalizing' = [finalizing EXCEPT ![o].pc = "freed"]
              /\ obj' = obj
         ELSE /\ finalizing' = [finalizing EXCEPT ![o] = NoFinalization]
              /\ obj' = [obj EXCEPT ![o].ran = IF o \in Named THEN "rescued" ELSE "yes"]
  BY <1>2, <1>3 DEF FreeValue, Named
<1>5. value \in [Blocks -> Objects \cup {None, Raw}]
  BY Types DEF IInv, StateInv
<1> QED
  BY <1>2, <1>4, <1>5

LEMMA FreeValueStep ==
  ASSUME IInv, phase # "destroyed", NEW o \in Objects, FreeValue(o)
  PROVE  Preserves
<1>1. TypeOK /\ finalizing[o].pc = "destroying" /\ finalizing[o].pc # "none"
  BY DEF IInv, StateInv, FreeValue
<1> DEFINE b == obj[o].info
<1>2. /\ obj[o].live /\ obj[o].ran = "no" /\ b \in Blocks /\ b # None /\ value[b] = o
      /\ finalizing[o].kind = obj[o].kind /\ finalizing[o].block = b
      /\ finalizing[o].by = "finalize" => finalizing[o].target = o
      /\ finalizing[o].by = "collector" => o \notin InUse /\ o # this
      /\ finalizing[o].by \in {"finalize", "collector"}
      /\ ~Pushed(o)
      /\ \A d \in Objects : obj[d].parent # o
  BY <1>1, FinalFacts, Types DEF FinalizationRecords
<1>3. /\ value' \in [Blocks -> Objects \cup {None, Raw}]
      /\ value'[b] = None
      /\ \A c \in Blocks : c # b => value'[c] = value[c]
      /\ UNCHANGED <<stack, kept, this, borrowed, pushes, failures, undefined, phase>>
  BY FreeValueEffect
<1>4. Named' = Named /\ InUse' = InUse
  BY <1>3 DEF Named, OnStack, InUse
<1> DEFINE By == finalizing[o].by
<1>5. /\ obj' \in [Objects -> ObjectRecords]
      /\ \A d \in Objects : d # o => obj'[d] = obj[d]
      /\ obj'[o].live = obj[o].live /\ obj'[o].info = b /\ obj'[o].parent = obj[o].parent
      /\ obj'[o].fin = obj[o].fin /\ obj'[o].kind = obj[o].kind
      /\ By = "finalize" => obj'[o].ran = "no"
      /\ By # "finalize" => obj'[o].ran # "no"
  <2>1. CASE By = "finalize"
    BY <2>1, <1>1, <1>2, FreeValueEffect, Types
  <2>2. CASE By # "finalize"
    <3> DEFINE v == IF o \in Named THEN "rescued" ELSE "yes"
               r == [obj[o] EXCEPT !.ran = v]
    <3>1. obj' = [obj EXCEPT ![o] = r]
      BY <2>2, FreeValueEffect
    <3>2. v \in {"no", "yes", "rescued"} /\ v # "no"
      OBVIOUS
    <3>3. obj[o] \in ObjectRecords
      BY <1>1, ObjectType
    <3> HIDE DEF v
    <3>4. /\ r \in ObjectRecords /\ r.live = obj[o].live /\ r.info = b /\ r.parent = obj[o].parent
          /\ r.fin = obj[o].fin /\ r.kind = obj[o].kind /\ r.ran = v
      BY <3>2, <3>3, ChangeRan
    <3> HIDE DEF r
    <3> QED
      BY <2>2, <3>1, <3>2, <3>4, <1>1, ChangeOne
  <2> QED
    BY <2>1, <2>2
<1>6. /\ finalizing' \in [Objects -> FinalizationRecords]
      /\ \A d \in Objects : d # o => finalizing'[d] = finalizing[d]
      /\ By # "finalize" => finalizing'[o].pc = "none"
      /\ By = "finalize" =>
           /\ finalizing'[o].pc = "freed" /\ finalizing'[o].by = By
           /\ finalizing'[o].kind = finalizing[o].kind /\ finalizing'[o].target = finalizing[o].target
  <2>1. CASE By = "finalize"
    <3> DEFINE r == [finalizing[o] EXCEPT !.pc = "freed"]
    <3>1. finalizing[o] \in FinalizationRecords
      BY <1>1, Types
    <3>2. /\ r \in FinalizationRecords /\ r.pc = "freed" /\ r.by = By
          /\ r.kind = finalizing[o].kind /\ r.target = finalizing[o].target
      BY <3>1 DEF FinalizationRecords
    <3>3. finalizing' = [finalizing EXCEPT ![o] = r]
      BY <2>1, FreeValueEffect
    <3> HIDE DEF r
    <3> QED
      BY <2>1, <3>2, <3>3, <1>1, ChangeFinalization
  <2>2. CASE By # "finalize"
    <3>1. finalizing' = [finalizing EXCEPT ![o] = NoFinalization]
      BY <2>2, FreeValueEffect
    <3> QED
      BY <2>2, <3>1, <1>1, ChangeFinalization, NoneFields
  <2> QED
    BY <2>1, <2>2
<1> HIDE DEF b, By
<1>7. Live' = Live
  BY <1>5 DEF Live
<1>8. TypeOK'
  BY <1>1, <1>3, <1>5, <1>6, Types, TypesNext DEF TypeOK
<1>9. obj'[o].live
  BY <1>2, <1>5
<1>10. NamesInv'
  BY <1>3, <1>4, <1>5, <1>7, <1>9 DEF IInv, StateInv, NamesInv
<1>11. ThisInv'
  <2>1. this # None => this \in Objects
    BY DEF IInv, StateInv, ThisInv, Live
  <2>2. this = o => By = "finalize"
    BY <1>2 DEF By
  <2> QED
    BY <2>1, <2>2, <1>3, <1>4, <1>5, <1>6, <1>7 DEF IInv, StateInv, ThisInv
<1>12. OwnInv'
  <2>1. \A d \in Objects : d # o /\ obj[d].info # None /\ obj[d].ran = "no"
                           /\ finalizing[d].pc # "freed" => obj[d].info # b /\ obj[d].info \in Blocks
    BY <1>1, <1>2, ObjectType DEF IInv, StateInv, OwnInv
  <2>2. By # "finalize" \/ finalizing'[o].pc = "freed"
    BY <1>6
  <2> QED
    BY <2>1, <2>2, <1>3, <1>5, <1>6 DEF IInv, StateInv, OwnInv
<1>13. ParentInv'
  <2>1. \A d \in Objects : PlainInv(d) => PlainInv(d)' /\ d # o
    BY <1>2, <1>3, <1>5 DEF PlainInv, Pushed, b
  <2>2. Live \subseteq Objects
    BY DEF Live
  <2>3. \A d \in Objects : obj'[d].parent = obj[d].parent
    BY <1>5
  <2> QED
    BY <2>1, <2>2, <2>3, <1>7 DEF IInv, StateInv, ParentInv
<1>14. PushInv'
  <2>1. \A c \in Blocks : pushes[c].pc # "none" => pushes[c].obj # o /\ c # b
    BY <1>2 DEF Pushed, IInv, StateInv, PushInv
  <2> QED
    BY <2>1, <1>3, <1>4, <1>5, <1>6 DEF IInv, StateInv, PushInv
<1>15. FinalInv'
  <2>1. ASSUME NEW d \in Objects, d # o, finalizing'[d].pc # "none"
        PROVE  /\ obj'[d].live /\ obj'[d].ran = "no" /\ obj'[d].info # None
               /\ finalizing'[d].kind = obj'[d].kind
               /\ finalizing'[d].pc = "destroying" => finalizing'[d].block = obj'[d].info
               /\ finalizing'[d].pc = "freed" =>
                    finalizing'[d].by = "finalize" /\ value'[obj'[d].info] # d
               /\ finalizing'[d].by = "finalize" => finalizing'[d].target = d
               /\ finalizing'[d].by = "collector" => d \notin InUse'
    <3>1. finalizing[d].pc # "none" /\ obj'[d] = obj[d] /\ finalizing'[d] = finalizing[d]
      BY <2>1, <1>5, <1>6
    <3>2. obj[d].info \in Blocks /\ (value[obj[d].info] # d => value'[obj[d].info] # d)
      <4>1. obj[d].info \in Blocks
        BY <3>1, FinalFacts
      <4> QED
        BY <4>1, <1>3, BoundsType
    <3> QED
      BY <3>1, <3>2, <1>4, FinalFacts
  <2>2. ASSUME finalizing'[o].pc # "none"
        PROVE  /\ obj'[o].live /\ obj'[o].ran = "no" /\ obj'[o].info # None
               /\ finalizing'[o].kind = obj'[o].kind
               /\ finalizing'[o].pc = "freed" /\ finalizing'[o].by = "finalize"
               /\ value'[obj'[o].info] # o /\ finalizing'[o].target = o
    <3>1. By = "finalize"
      BY <2>2, <1>6
    <3> QED
      BY <3>1, <1>2, <1>3, <1>5, <1>6, <1>9, BoundsType DEF By
  <2> QED
    BY <2>1, <2>2 DEF FinalInv
<1>16. PhaseInv' /\ NoDoubleFree'
  BY <1>3 DEF PhaseInv, IInv, NoDoubleFree
<1>17. LostNoMore
  <2>1. ASSUME NEW c \in Blocks, c # b, Secured(c)
        PROVE  Secured(c)'
    <3>1. CASE pushes[c].pc # "none"
      BY <3>1, <1>3 DEF Secured
    <3>2. CASE pushes[c].pc = "none"
      <4>1. PICK d \in Live :
              /\ value[c] = d
              /\ \/ obj[d].info = c /\ obj[d].fin /\ obj[d].ran = "no"
                 \/ finalizing[d].pc = "destroying" /\ finalizing[d].block = c
        BY <2>1, <3>2 DEF Secured
      <4>2. d # o
        BY <4>1, <2>1, <1>2 DEF b
      <4>3. d \in Objects /\ d \in Live' /\ obj'[d] = obj[d] /\ finalizing'[d] = finalizing[d]
        BY <4>1, <4>2, <1>5, <1>6, <1>7 DEF Live
      <4> QED
        BY <4>1, <4>3, <2>1, <1>3 DEF Secured
    <3> QED
      BY <3>1, <3>2
  <2> QED
    BY <2>1, <1>3 DEF LostNoMore, Lost
<1> QED
  BY <1>8, <1>10, <1>11, <1>12, <1>13, <1>14, <1>15, <1>16, <1>17 DEF Preserves, StateInv

LEMMA DelPropStep ==
  ASSUME IInv, phase # "destroyed", NEW o \in Objects, DelProp(o)
  PROVE  Preserves
<1>1. TypeOK /\ finalizing[o].pc = "freed" /\ finalizing[o].pc # "none"
  BY DEF IInv, StateInv, DelProp
<1> DEFINE b == obj[o].info
           r == [obj[o] EXCEPT !.info = None]
<1>2. /\ obj[o].live = TRUE /\ obj[o].ran = "no" /\ b \in Blocks /\ b # None /\ value[b] # o
      /\ finalizing[o].kind = obj[o].kind /\ finalizing[o].target = o /\ o # None
      /\ ~Pushed(o)
      /\ \A d \in Objects : obj[d].parent # o
  BY <1>1, FinalFacts, ObjectType, BoundsType
<1>3. obj' = [obj EXCEPT ![o] = r]
  BY <1>2 DEF DelProp, PropDeleted
<1>4. /\ r \in ObjectRecords /\ r.live = TRUE /\ r.info = None /\ r.parent = obj[o].parent
      /\ r.fin = obj[o].fin /\ r.kind = obj[o].kind /\ r.ran = "no"
  <2>1. obj[o] \in ObjectRecords /\ None \in Blocks \cup {None}
    BY <1>1, ObjectType
  <2> QED
    BY <2>1, <1>2, ChangeInfo
<1> HIDE DEF r, b
<1>5. /\ obj' \in [Objects -> ObjectRecords]
      /\ obj'[o] = r
      /\ \A d \in Objects : d # o => obj'[d] = obj[d]
      /\ Live' = Live
  BY <1>1, <1>2, <1>3, <1>4, ChangeOne DEF Live
<1>6. /\ finalizing' \in [Objects -> FinalizationRecords]
      /\ finalizing'[o].pc = "none"
      /\ \A d \in Objects : d # o => finalizing'[d] = finalizing[d]
  BY <1>1, ChangeFinalization, NoneFields DEF DelProp
<1>7. /\ UNCHANGED <<value, stack, kept, this, borrowed, pushes, failures, undefined, phase>>
      /\ Named' = Named /\ InUse' = InUse
  BY DEF DelProp, Named, OnStack, InUse
<1>8. TypeOK'
  BY <1>1, <1>5, <1>6, <1>7, Types, TypesNext DEF TypeOK
<1>9. NamesInv'
  BY <1>4, <1>5, <1>7 DEF IInv, StateInv, NamesInv
<1>10. ThisInv'
  <2>1. this # None => this \in Objects
    BY DEF IInv, StateInv, ThisInv, Live
  <2> QED
    BY <2>1, <1>2, <1>4, <1>5, <1>6, <1>7 DEF IInv, StateInv, ThisInv
<1>11. OwnInv'
  BY <1>4, <1>5, <1>6, <1>7 DEF IInv, StateInv, OwnInv
<1>12. ParentInv'
  <2>1. \A d \in Objects : PlainInv(d) => PlainInv(d)'
    BY <1>4, <1>5, <1>7 DEF PlainInv, Pushed
  <2>2. Live \subseteq Objects
    BY DEF Live
  <2>3. \A d \in Objects : obj'[d].parent = obj[d].parent
    BY <1>4, <1>5
  <2> QED
    BY <2>1, <2>2, <2>3, <1>5 DEF IInv, StateInv, ParentInv
<1>13. PushInv'
  <2>1. \A c \in Blocks : pushes[c].pc # "none" => pushes[c].obj # o
    BY <1>2 DEF Pushed
  <2> QED
    BY <2>1, <1>5, <1>6, <1>7 DEF IInv, StateInv, PushInv
<1>14. FinalInv'
  BY <1>5, <1>6, <1>7 DEF IInv, StateInv, FinalInv
<1>15. PhaseInv' /\ NoDoubleFree'
  BY <1>7 DEF PhaseInv, IInv, NoDoubleFree
<1>16. LostNoMore
  <2>1. ASSUME NEW c \in Blocks, Secured(c)
        PROVE  Secured(c)'
    <3>1. CASE pushes[c].pc # "none"
      BY <3>1, <1>7 DEF Secured
    <3>2. CASE pushes[c].pc = "none"
      <4>1. PICK d \in Live :
              /\ value[c] = d
              /\ \/ obj[d].info = c /\ obj[d].fin /\ obj[d].ran = "no"
                 \/ finalizing[d].pc = "destroying" /\ finalizing[d].block = c
        BY <2>1, <3>2 DEF Secured
      <4>2. d # o
        BY <4>1, <1>1, <1>2 DEF b
      <4>3. d \in Objects /\ d \in Live' /\ obj'[d] = obj[d] /\ finalizing'[d] = finalizing[d]
        BY <4>1, <4>2, <1>5, <1>6 DEF Live
      <4> QED
        BY <4>1, <4>3, <1>7 DEF Secured
    <3> QED
      BY <3>1, <3>2
  <2> QED
    BY <2>1, <1>7 DEF LostNoMore, Lost
<1> QED
  BY <1>8, <1>9, <1>10, <1>11, <1>12, <1>13, <1>14, <1>15, <1>16 DEF Preserves, StateInv

(* Rescue and the collector. *)

\* The finalizer of an object that wraps nothing has run, or an object is kept
\* that its finalizer made reachable.
LEMMA RanStep ==
  ASSUME IInv, phase # "destroyed", NEW o \in Objects, obj[o].live,
         NEW v \in {"no", "yes", "rescued"}, obj' = [obj EXCEPT ![o].ran = v],
         \/ v = obj[o].ran
         \/ v # "no" /\ (obj[o].info = None \/ obj[o].ran # "no") /\ o # this /\ ~Pushed(o),
         kept' = kept \/ (kept' = kept \cup {o} /\ o # this /\ ~Pushed(o)),
         UNCHANGED <<value, stack, this, borrowed, pushes, finalizing, failures, undefined, phase>>
  PROVE  Preserves
<1> DEFINE r == [obj[o] EXCEPT !.ran = v]
<1>1. TypeOK
  BY DEF IInv, StateInv
<1>2. /\ r \in ObjectRecords /\ r.live = obj[o].live /\ r.info = obj[o].info
      /\ r.parent = obj[o].parent /\ r.fin = obj[o].fin /\ r.kind = obj[o].kind /\ r.ran = v
  <2>1. obj[o] \in ObjectRecords
    BY <1>1, ObjectType
  <2> QED
    BY <2>1, ChangeRan
<1>3. obj' = [obj EXCEPT ![o] = r]
  OBVIOUS
<1> HIDE DEF r
<1>4. /\ obj' \in [Objects -> ObjectRecords]
      /\ obj'[o] = r
      /\ \A d \in Objects : d # o => obj'[d] = obj[d]
  BY <1>1, <1>2, <1>3, ChangeOne
<1>5. /\ \A d \in Objects : /\ obj'[d].live = obj[d].live /\ obj'[d].info = obj[d].info
                            /\ obj'[d].parent = obj[d].parent /\ obj'[d].fin = obj[d].fin
                            /\ obj'[d].kind = obj[d].kind
      /\ Live' = Live /\ Live \subseteq Objects /\ o \in Live
  <2>1. \A d \in Objects : /\ obj'[d].live = obj[d].live /\ obj'[d].info = obj[d].info
                           /\ obj'[d].parent = obj[d].parent /\ obj'[d].fin = obj[d].fin
                           /\ obj'[d].kind = obj[d].kind
    BY <1>2, <1>4
  <2> QED
    BY <2>1 DEF Live
<1>6. /\ Named \subseteq Named' /\ Named' \subseteq Named \cup {o} /\ InUse' = InUse
      /\ Named' = Named \/ (o # this /\ ~Pushed(o))
  BY DEF Named, OnStack, InUse
<1>7. finalizing[o].pc # "none" => obj'[o].ran = "no"
  BY <1>2, <1>4, FinalFacts
<1>8. TypeOK'
  <2>1. kept' \subseteq Objects
    BY <1>1, Types
  <2> QED
    BY <2>1, <1>1, <1>4, Types, TypesNext DEF TypeOK
<1>9. NamesInv'
  <2>1. \A d \in Objects : ~obj'[d].live => obj'[d] = Absent
    <3>1. obj[o].live = TRUE
      BY <1>1, ObjectType
    <3> QED
      BY <3>1, <1>4, <1>5 DEF IInv, StateInv, NamesInv
  <2> QED
    BY <2>1, <1>5, <1>6 DEF IInv, StateInv, NamesInv
<1>10. ThisInv'
  <2>1. this # None => this \in Objects
    BY DEF IInv, StateInv, ThisInv, Live
  <2>2. this # None => obj'[this].ran = obj[this].ran
    BY <2>1, <1>2, <1>4
  <2> QED
    BY <2>1, <2>2, <1>5, <1>6 DEF IInv, StateInv, ThisInv
<1>11. OwnInv'
  <2>1. obj'[o].info # None /\ obj'[o].ran = "no" => obj[o].ran = "no"
    BY <1>2, <1>4
  <2> QED
    BY <2>1, <1>4, <1>5 DEF IInv, StateInv, OwnInv
<1>12. ParentInv'
  <2>1. \A d \in Objects : PlainInv(d) => PlainInv(d)'
    BY <1>5 DEF PlainInv, Pushed
  <2> QED
    BY <2>1, <1>5 DEF IInv, StateInv, ParentInv
<1>13. PushInv'
  <2>1. ASSUME NEW c \in Blocks, pushes[c].pc # "none"
        PROVE  /\ pushes[c].obj \in Objects
               /\ obj'[pushes[c].obj].ran = obj[pushes[c].obj].ran /\ pushes[c].obj \notin Named'
    <3>1. Pushed(pushes[c].obj) /\ pushes[c].obj \in Objects /\ pushes[c].obj \notin Named
      BY <2>1 DEF Pushed, IInv, StateInv, PushInv
    <3>2. pushes[c].obj \notin Named'
      BY <3>1, <1>6
    <3>3. obj'[pushes[c].obj].ran = obj[pushes[c].obj].ran
      BY <3>1, <1>2, <1>4
    <3> QED
      BY <3>1, <3>2, <3>3
  <2> QED
    BY <2>1, <1>5 DEF IInv, StateInv, PushInv
<1>14. FinalInv'
  BY <1>4, <1>5, <1>6, <1>7 DEF IInv, StateInv, FinalInv
<1>15. PhaseInv' /\ NoDoubleFree'
  BY DEF PhaseInv, IInv, NoDoubleFree
<1>16. LostNoMore
  <2>1. \A d \in Objects, c \in Blocks :
          obj[d].info = c /\ obj[d].ran = "no" => obj'[d].ran = "no"
    BY <1>2, <1>4, BoundsType
  <2>2. \A c \in Blocks : Secured(c) => Secured(c)'
    BY <2>1, <1>5 DEF Secured
  <2> QED
    BY <2>2 DEF LostNoMore, Lost
<1> QED
  BY <1>8, <1>9, <1>10, <1>11, <1>12, <1>13, <1>14, <1>15, <1>16 DEF Preserves, StateInv

LEMMA RescueStep ==
  ASSUME IInv, phase # "destroyed", NEW o \in Objects, Rescue(o)
  PROVE  Preserves
<1> DEFINE v == IF obj[o].ran = "yes" THEN "rescued" ELSE obj[o].ran
<1>1. TypeOK /\ obj[o].live
  BY DEF IInv, StateInv, Rescue
<1>2. o # this /\ ~Pushed(o)
  <2>1. CASE ~Reachable(o)
    BY <2>1, UnreachableFree DEF Pushed
  <2>2. CASE finalizing[o].pc # "none" /\ finalizing[o].by = "collector"
    BY <2>2, FinalFacts
  <2> QED
    BY <2>1, <2>2 DEF Rescue
<1>3. obj' = [obj EXCEPT ![o].ran = v] /\ kept' = kept \cup {o}
  BY DEF Rescue
<1>4. /\ v \in {"no", "yes", "rescued"}
      /\ v = obj[o].ran \/ (v # "no" /\ obj[o].ran # "no")
  BY <1>1, ObjectType
<1> HIDE DEF v
<1> QED
  BY <1>1, <1>2, <1>3, <1>4, RanStep DEF Rescue

\* What the collector finalizes is not in use, named or worked on.
LEMMA CollectorFree ==
  ASSUME IInv, NEW o \in Objects, ~Reachable(o) \/ Quiet
  PROVE  o \notin InUse /\ o # this /\ ~Pushed(o) /\ finalizing[o].pc = "none"
<1>1. CASE ~Reachable(o)
  BY <1>1, UnreachableFree DEF Pushed
<1>2. CASE Quiet
  <2>1. InUse = {}
    BY <1>2 DEF Quiet, InUse
  <2> QED
    BY <2>1, <1>2, BoundsType DEF Quiet, Pushed
<1> QED
  BY <1>1, <1>2

LEMMA RunFinalizerStep ==
  ASSUME IInv, phase # "destroyed", NEW o \in Objects, RunFinalizer(o)
  PROVE  Preserves
<1> DEFINE k == obj[Finalizer(o)].kind
<1>1. /\ TypeOK /\ ParentInv /\ OwnInv /\ obj[o].live
      /\ o \notin InUse /\ o # this /\ ~Pushed(o) /\ finalizing[o].pc = "none"
  BY CollectorFree DEF IInv, StateInv, RunFinalizer
<1>2. \/ /\ GetProp(o, k) = None
         /\ obj' = [obj EXCEPT ![o].ran = "yes"]
         /\ UNCHANGED <<value, kept, stack, this, borrowed, pushes, finalizing, failures,
                        undefined, phase>>
      \/ GetProp(o, k) # None /\ Misuse(o, k) # None /\ Undefined(Misuse(o, k))
      \/ /\ GetProp(o, k) # None /\ Misuse(o, k) = None
         /\ BeginFinalization(o, "collector", k, GetProp(o, k), None)
  BY DEF RunFinalizer
<1> HIDE DEF k
<1>3. GetProp(o, k) # None =>
        /\ GetProp(o, k) = obj[o].info /\ k = obj[o].kind
        /\ Misuse(o, k) \in {None, "reentered", "stale"}
        /\ Misuse(o, k) = None => obj[o].ran = "no"
  BY <1>1, OwnOnly, UsableOwn
<1>4. CASE GetProp(o, k) = None
  <2>1. obj[o].info = None
    BY <1>1, <1>4, OwnFinalizer DEF k
  <2> QED
    BY <2>1, <1>1, <1>2, <1>4, RanStep
<1>5. CASE GetProp(o, k) # None /\ Misuse(o, k) # None
  BY <1>2, <1>3, <1>5, UndefinedStep
<1>6. CASE GetProp(o, k) # None /\ Misuse(o, k) = None
  <2>1. /\ BeginFinalization(o, "collector", obj[o].kind, obj[o].info, None)
        /\ obj[o].info # None /\ obj[o].ran = "no"
    BY <1>2, <1>3, <1>6
  <2> QED
    BY <2>1, <1>1, BeginFinalizationStep
<1> QED
  BY <1>4, <1>5, <1>6

LEMMA CollectStep ==
  ASSUME IInv, phase # "destroyed", NEW o \in Objects, Collect(o)
  PROVE  Preserves
<1>1. TypeOK /\ obj' = [obj EXCEPT ![o] = Absent] /\ obj[o].live
  BY DEF IInv, StateInv, Collect
<1>2. /\ o \notin Named /\ o \notin InUse /\ o # this /\ ~Pushed(o) /\ finalizing[o].pc = "none"
      /\ \A d \in Objects : obj[d].parent # o
  <2>1. \A d \in Objects \ Live : obj[d].parent = None
    BY AbsentFields DEF IInv, StateInv, NamesInv, Live
  <2>2. o # None
    BY BoundsType
  <2> QED
    BY <2>1, <2>2, UnreachableFree DEF Collect, Pushed
<1>3. /\ obj' \in [Objects -> ObjectRecords]
      /\ obj'[o] = Absent
      /\ \A d \in Objects : d # o => obj'[d] = obj[d]
  BY <1>1, AbsentFields, ChangeOne
<1>4. Live' = Live \ {o}
  BY <1>3, AbsentFields DEF Live
<1>5. /\ UNCHANGED <<value, stack, kept, this, borrowed, pushes, finalizing, failures, undefined, phase>>
      /\ Named' = Named /\ InUse' = InUse
  BY DEF Collect, Named, OnStack, InUse
<1>6. TypeOK'
  BY <1>1, <1>3, <1>5, Types, TypesNext DEF TypeOK
<1>7. NamesInv'
  BY <1>2, <1>3, <1>4, <1>5 DEF IInv, StateInv, NamesInv
<1>8. ThisInv'
  <2>1. this # None => this \in Objects
    BY DEF IInv, StateInv, ThisInv, Live
  <2> QED
    BY <2>1, <1>2, <1>3, <1>4, <1>5 DEF IInv, StateInv, ThisInv
<1>9. OwnInv'
  BY <1>3, <1>5, AbsentFields DEF IInv, StateInv, OwnInv
<1>10. ParentInv'
  <2>1. ASSUME NEW d \in Objects, obj'[d].parent # None
        PROVE  /\ PlainInv(d)' /\ obj'[d].parent = obj[d].parent /\ obj[d].parent \in Live'
               /\ obj'[obj[d].parent].parent = None /\ PlainInv(obj[d].parent)'
    <3>1. d # o /\ obj'[d] = obj[d] /\ obj[d].parent # None
      BY <2>1, <1>3, AbsentFields
    <3>2. obj[d].parent # o
      BY <1>2
    <3>3. /\ PlainInv(d) /\ obj[d].parent \in Live /\ obj[obj[d].parent].parent = None
          /\ PlainInv(obj[d].parent)
      BY <3>1 DEF IInv, StateInv, ParentInv
    <3>4. obj[d].parent \in Objects /\ obj'[obj[d].parent] = obj[obj[d].parent]
      BY <3>2, <3>3, <1>3 DEF Live
    <3>5. PlainInv(d)' /\ PlainInv(obj[d].parent)'
      BY <3>1, <3>3, <3>4, <1>5 DEF PlainInv, Pushed
    <3> QED
      BY <3>1, <3>2, <3>3, <3>4, <3>5, <1>4
  <2> QED
    BY <2>1 DEF ParentInv
<1>11. PushInv'
  <2>1. \A c \in Blocks : pushes[c].pc # "none" => pushes[c].obj # o
    BY <1>2 DEF Pushed
  <2> QED
    BY <2>1, <1>3, <1>5 DEF IInv, StateInv, PushInv
<1>12. FinalInv'
  BY <1>2, <1>3, <1>5 DEF IInv, StateInv, FinalInv
<1>13. PhaseInv' /\ NoDoubleFree'
  BY <1>5 DEF PhaseInv, IInv, NoDoubleFree
<1>14. LostNoMore
  <2>1. ASSUME NEW c \in Blocks, Secured(c)
        PROVE  Secured(c)'
    <3>1. CASE pushes[c].pc # "none"
      BY <3>1, <1>5 DEF Secured
    <3>2. CASE pushes[c].pc = "none"
      <4>1. PICK d \in Live :
              /\ value[c] = d
              /\ \/ obj[d].info = c /\ obj[d].fin /\ obj[d].ran = "no"
                 \/ finalizing[d].pc = "destroying" /\ finalizing[d].block = c
        BY <2>1, <3>2 DEF Secured
      <4>2. d # o
        <5>1. SUFFICES ASSUME d = o PROVE FALSE
          OBVIOUS
        <5>2. obj[o].info # None /\ obj[o].fin /\ obj[o].ran = "no"
          BY <5>1, <4>1, <1>2, BoundsType
        <5>3. HasFinalizer(o)
          BY <5>2, <1>1, OwnFinalizer DEF IInv, StateInv
        <5> QED
          BY <5>2, <5>3 DEF Collect
      <4>3. d \in Objects /\ d \in Live' /\ obj'[d] = obj[d]
        BY <4>1, <4>2, <1>3, <1>4 DEF Live
      <4> QED
        BY <4>1, <4>3, <1>5 DEF Secured
    <3> QED
      BY <3>1, <3>2
  <2> QED
    BY <2>1, <1>5 DEF LostNoMore, Lost
<1> QED
  BY <1>6, <1>7, <1>8, <1>9, <1>10, <1>11, <1>12, <1>13, <1>14 DEF Preserves, StateInv

LEMMA DestroyedStep ==
  ASSUME IInv, Destroyed
  PROVE  Preserves
<1>1. /\ TypeOK /\ Quiet /\ this = None /\ borrowed = <<>>
      /\ \A b \in Blocks : pushes[b].pc = "none"
      /\ \A o \in Objects : finalizing[o].pc = "none"
  BY DEF IInv, StateInv, Destroyed, Quiet
<1>2. /\ obj' \in [Objects -> ObjectRecords]
      /\ \A o \in Objects : obj'[o] = Absent
  BY AbsentFields DEF Destroyed
<1>3. /\ UNCHANGED <<value, this, borrowed, pushes, finalizing, failures, undefined>>
      /\ stack' \in Seq(Objects) /\ Len(stack') = 0 /\ kept' = {} /\ phase' = "destroyed"
      /\ Named' = {} /\ InUse' = {}
  BY <1>1 DEF Destroyed, Named, OnStack, InUse
<1>4. Live' = {}
  BY <1>2, AbsentFields DEF Live
<1>5. TypeOK'
  <2>1. Len(stack') <= MaxStack
    BY <1>3, BoundsType
  <2> QED
    BY <2>1, <1>1, <1>2, <1>3, Types, TypesNext DEF TypeOK
<1>6. NamesInv' /\ ThisInv' /\ OwnInv' /\ ParentInv'
  BY <1>1, <1>2, <1>3, AbsentFields DEF NamesInv, ThisInv, OwnInv, ParentInv
<1>7. PushInv' /\ FinalInv'
  BY <1>1, <1>3 DEF PushInv, FinalInv
<1>8. PhaseInv'
  BY <1>1, <1>3, <1>4 DEF PhaseInv, Quiet
<1>9. NoDoubleFree'
  BY <1>3 DEF IInv, NoDoubleFree
<1>10. LostNoMore
  <2>1. ASSUME NEW c \in Blocks, Secured(c)
        PROVE  FALSE
    <3>1. PICK d \in Live : value[c] = d /\ obj[d].info = c /\ obj[d].fin /\ obj[d].ran = "no"
      BY <2>1, <1>1 DEF Secured, Live
    <3>2. d \in Objects /\ obj[d].info # None
      BY <3>1, BoundsType DEF Live
    <3>3. HasFinalizer(d)
      BY <3>1, <3>2, OwnFinalizer DEF IInv, StateInv
    <3> QED
      BY <3>1, <3>3 DEF Destroyed
  <2> QED
    BY <2>1, <1>3 DEF LostNoMore, Lost
<1> QED
  BY <1>5, <1>6, <1>7, <1>8, <1>9, <1>10 DEF Preserves, StateInv

-----------------------------------------------------------------------------
(* The invariant.                                                          *)

LEMMA StutterStep ==
  ASSUME IInv, UNCHANGED vars
  PROVE  Preserves
<1>1. UNCHANGED <<obj, value, stack, kept, this, borrowed, pushes, finalizing, failures,
                  undefined, phase>>
  BY DEF vars
<1>2. /\ Named' = Named /\ InUse' = InUse /\ Live' = Live /\ Lost' = Lost
      /\ (\A o : Pushed(o)' = Pushed(o)) /\ Quiet' = Quiet
  BY <1>1 DEF Named, OnStack, InUse, Live, Lost, Secured, Pushed, Quiet
<1>3. TypeOK'
  BY <1>1 DEF IInv, StateInv, TypeOK
<1>4. NamesInv' /\ ThisInv' /\ OwnInv' /\ PushInv' /\ FinalInv' /\ PhaseInv'
  BY <1>1, <1>2 DEF IInv, StateInv, NamesInv, ThisInv, OwnInv, PushInv, FinalInv, PhaseInv
<1>5. ParentInv'
  BY <1>1, <1>2 DEF IInv, StateInv, ParentInv, PlainInv
<1> QED
  BY <1>1, <1>2, <1>3, <1>4, <1>5 DEF Preserves, StateInv, IInv, NoDoubleFree, LostNoMore

LEMMA StepInv ==
  ASSUME AbsoluteIndex = FALSE, Inherit = FALSE, PushAgain = FALSE, IInv, [Next]_vars
  PROVE  IInv'
<1> SUFFICES Preserves
  BY CountLost DEF Preserves, IInv, StateInv
<1>1. CASE Terminated \/ UNCHANGED vars
  BY <1>1, StutterStep DEF Terminated
<1>2. ASSUME ~Stopped
      PROVE  phase # "destroyed"
  BY <1>2 DEF Stopped
<1>3. CASE ~Stopped /\ ScriptStep
  BY <1>2, <1>3, LoadStep, KeepStep, DropStep, RescueStep, BeginNewStep, DeriveStep, PopStep,
     EndNewStep DEF ScriptStep
<1>4. CASE ~Stopped /\ Push
  BY <1>2, <1>4, MakeStep, CloneStep, FailMakeStep, CreateObjectStep, DefPropStep,
     SetFinalizerStep, FailPushStep DEF Push
<1>5. CASE ~Stopped /\ FinalizeStep
  <2>1. \A i \in -MaxStack .. MaxStack - 1 : i \in Int
    BY BoundsType
  <2> QED
    BY <2>1, <1>2, <1>5, FinalizeObjectStep, FinalizeCallableStep, FreeValueStep, DelPropStep
       DEF FinalizeStep
<1>6. CASE ~Stopped /\ CallStep
  BY <1>2, <1>6, BeginCallStep, EndCallStep DEF CallStep
<1>7. CASE ~Stopped /\ Collector
  BY <1>2, <1>7, RunFinalizerStep, CollectStep, DestroyHeapStep, DestroyedStep DEF Collector
<1> QED
  BY <1>1, <1>3, <1>4, <1>5, <1>6, <1>7 DEF Next

\* The inductive invariant holds in every reachable state.
THEOREM WrappedInvariant ==
  ASSUME AbsoluteIndex = FALSE, Inherit = FALSE, PushAgain = FALSE
  PROVE  Spec => []IInv
<1>1. IInv /\ [Next]_vars => IInv'
  BY StepInv
<1> QED
  BY InitInv, <1>1, PTL DEF Spec

-----------------------------------------------------------------------------
(* What a step may do to the values.                                       *)

\* Only FreeValue destroys a value: that of the object whose property was read
\* when the finalization began.
LEMMA DestroyedBy ==
  ASSUME IInv, Next, NEW b \in Blocks, value[b] # None, value'[b] # value[b]
  PROVE  \E o \in Objects : FreeValue(o) /\ value[b] = o /\ obj[o].info = b /\ value'[b] = None
<1>1. value \in [Blocks -> Objects \cup {None, Raw}]
  BY Types DEF IInv, StateInv
<1>2. ASSUME NEW k, NEW o, NEW c \in Blocks, Make(k, o, c)
      PROVE  FALSE
  BY <1>1, <1>2 DEF Make
<1>3. ASSUME NEW c \in Blocks, FailMake(c)
      PROVE  FALSE
  BY <1>1, <1>3 DEF FailMake
<1>4. ASSUME NEW c, Undefined(c)
      PROVE  FALSE
  BY <1>4 DEF Undefined
<1>5. CASE ScriptStep
  BY <1>5 DEF ScriptStep, Load, Keep, Drop, Rescue, BeginNew, Derive, Pop, EndNew
<1>6. CASE Push
  <2>1. ASSUME NEW i, NEW o, NEW c \in Blocks, Clone(i, o, c)
        PROVE  FALSE
    BY <2>1, <1>2, <1>4 DEF Clone
  <2>2. ASSUME NEW c \in Blocks, CreateObject(c) \/ DefProp(c) \/ SetFinalizer(c) \/ FailPush(c)
        PROVE  FALSE
    BY <2>2 DEF CreateObject, DefProp, SetFinalizer, FailPush
  <2> QED
    BY <1>6, <1>2, <1>3, <2>1, <2>2 DEF Push
<1>7. CASE FinalizeStep
  <2>1. ASSUME NEW i, FinalizeObject(i) \/ FinalizeCallable(i)
        PROVE  FALSE
    BY <2>1 DEF FinalizeObject, FinalizeCallable, BeginFinalization, Undefined
  <2>2. ASSUME NEW o \in Objects, DelProp(o)
        PROVE  FALSE
    BY <2>2 DEF DelProp
  <2>3. ASSUME NEW o \in Objects, FreeValue(o)
        PROVE  value[b] = o /\ obj[o].info = b /\ value'[b] = None
    <3>1. finalizing[o].pc = "destroying" /\ finalizing[o].pc # "none"
      BY <2>3 DEF FreeValue
    <3>2. value[obj[o].info] = o
      BY <3>1, FinalFacts
    <3>3. /\ value'[obj[o].info] = None
          /\ \A c \in Blocks : c # obj[o].info => value'[c] = value[c]
      BY <2>3, FreeValueEffect
    <3> QED
      BY <3>2, <3>3
  <2> QED
    BY <1>7, <2>1, <2>2, <2>3 DEF FinalizeStep
<1>8. CASE CallStep
  BY <1>8, <1>4 DEF CallStep, BeginCall, EndCall
<1>9. CASE Collector
  BY <1>9 DEF Collector, RunFinalizer, BeginFinalization, Undefined, Collect, DestroyHeap, Destroyed
<1>10. CASE Terminated
  BY <1>10 DEF Terminated, vars
<1> QED
  BY <1>5, <1>6, <1>7, <1>8, <1>9, <1>10 DEF Next

\* An object goes in Collect and in Destroyed only.
LEMMA CollectedBy ==
  ASSUME IInv, [Next]_vars, NEW o \in Objects, obj[o].live, ~obj'[o].live
  PROVE  Collect(o) \/ Destroyed
<1>1. TypeOK /\ obj \in [Objects -> ObjectRecords] /\ obj' # obj /\ obj[o].live = TRUE
  BY Types, ObjectType DEF IInv, StateInv
<1>2. ASSUME NEW d \in Objects, Collect(d)
      PROVE  d = o
  BY <1>2, <1>1 DEF Collect
<1>3. CASE ScriptStep
  <2>1. ASSUME NEW d \in Objects, Rescue(d)
        PROVE  FALSE
    <3> DEFINE v == IF obj[d].ran = "yes" THEN "rescued" ELSE obj[d].ran
               r == [obj[d] EXCEPT !.ran = v]
    <3>1. obj[d] \in ObjectRecords /\ v \in {"no", "yes", "rescued"}
      BY <1>1, ObjectType
    <3>2. obj' = [obj EXCEPT ![d] = r]
      BY <2>1 DEF Rescue
    <3> HIDE DEF v
    <3>3. r.live = obj[d].live
      BY <3>1, ChangeRan
    <3> HIDE DEF r
    <3> QED
      BY <3>2, <3>3, <1>1
  <2>2. ASSUME NEW d \in Objects, BeginNew(d) \/ \E p \in Objects : Derive(d, p)
        PROVE  FALSE
    BY <2>2, <1>1 DEF BeginNew, Derive, Fresh
  <2>3. ASSUME NEW d \in Objects, Load(d) \/ Keep(d) \/ Drop(d) \/ Pop \/ EndNew
        PROVE  FALSE
    BY <2>3, <1>1 DEF Load, Keep, Drop, Pop, EndNew
  <2> QED
    BY <1>3, <2>1, <2>2, <2>3 DEF ScriptStep
<1>4. CASE Push
  <2>1. ASSUME NEW b \in Blocks, CreateObject(b)
        PROVE  FALSE
    <3>1. pushes[b].pc # "none" /\ pushes[b].obj \in Objects /\ pushes[b].kind \in Kinds
      BY <2>1, <1>1, PushFacts, Types DEF CreateObject, PushRecords
    <3>2. Plain(pushes[b].kind).live = TRUE
      BY <3>1, PlainFields
    <3> QED
      BY <2>1, <3>1, <3>2, <1>1 DEF CreateObject
  <2>2. ASSUME NEW b \in Blocks, DefProp(b)
        PROVE  FALSE
    <3> DEFINE d == pushes[b].obj
               r == [obj[d] EXCEPT !.info = b]
    <3>1. obj' = [obj EXCEPT ![d] = r] /\ pushes[b].pc # "none"
      BY <2>2 DEF DefProp
    <3>2. d \in Objects /\ obj[d] \in ObjectRecords /\ b \in Blocks \cup {None}
      BY <3>1, <1>1, PushFacts, ObjectType
    <3>3. r.live = obj[d].live
      BY <3>2, ChangeInfo
    <3> HIDE DEF r, d
    <3> QED
      BY <3>1, <3>2, <3>3, <1>1
  <2>3. ASSUME NEW b \in Blocks, SetFinalizer(b)
        PROVE  FALSE
    <3> DEFINE d == pushes[b].obj
               r == [obj[d] EXCEPT !.fin = TRUE]
    <3>1. obj' = [obj EXCEPT ![d] = r] /\ pushes[b].pc # "none"
      BY <2>3 DEF SetFinalizer, WithFinalizer
    <3>2. d \in Objects /\ obj[d] \in ObjectRecords
      BY <3>1, <1>1, PushFacts, ObjectType
    <3>3. r.live = obj[d].live
      BY <3>2, ChangeFin
    <3> HIDE DEF r, d
    <3> QED
      BY <3>1, <3>2, <3>3, <1>1
  <2>4. ASSUME \/ \E b \in Blocks, d \in Objects :
                    \/ \E k \in Kinds : Make(k, d, b)
                    \/ \E i \in -MaxStack .. -1 : Clone(i, d, b)
               \/ \E b \in Blocks : FailMake(b) \/ FailPush(b)
        PROVE  FALSE
    BY <2>4, <1>1 DEF Make, Clone, Undefined, FailMake, FailPush
  <2> QED
    BY <1>4, <2>1, <2>2, <2>3, <2>4 DEF Push
<1>5. CASE FinalizeStep
  <2>1. ASSUME NEW i, FinalizeObject(i) \/ FinalizeCallable(i)
        PROVE  FALSE
    BY <2>1, <1>1 DEF FinalizeObject, FinalizeCallable, BeginFinalization, Undefined
  <2>2. ASSUME NEW d \in Objects, FreeValue(d)
        PROVE  FALSE
    <3> DEFINE v == IF d \in Named THEN "rescued" ELSE "yes"
               r == [obj[d] EXCEPT !.ran = v]
    <3>1. obj' = [obj EXCEPT ![d] = r]
      BY <2>2, <1>1, FreeValueEffect
    <3>2. obj[d] \in ObjectRecords /\ v \in {"no", "yes", "rescued"}
      BY <1>1, ObjectType
    <3> HIDE DEF v
    <3>3. r.live = obj[d].live
      BY <3>2, ChangeRan
    <3> HIDE DEF r
    <3> QED
      BY <3>1, <3>3, <1>1
  <2>3. ASSUME NEW d \in Objects, DelProp(d)
        PROVE  FALSE
    <3> DEFINE r == [obj[d] EXCEPT !.info = None]
    <3>1. finalizing[d].pc # "none" /\ finalizing[d].pc = "freed"
      BY <2>3 DEF DelProp
    <3>2. finalizing[d].target = d /\ finalizing[d].kind = obj[d].kind /\ d # None
      BY <3>1, FinalFacts, BoundsType
    <3>3. obj' = [obj EXCEPT ![d] = r]
      BY <2>3, <3>2 DEF DelProp, PropDeleted
    <3>4. obj[d] \in ObjectRecords /\ None \in Blocks \cup {None}
      BY <1>1, ObjectType
    <3>5. r.live = obj[d].live
      BY <3>4, ChangeInfo
    <3> HIDE DEF r
    <3> QED
      BY <3>3, <3>5, <1>1
  <2> QED
    BY <1>5, <2>1, <2>2, <2>3 DEF FinalizeStep
<1>6. CASE CallStep
  BY <1>6, <1>1 DEF CallStep, BeginCall, Undefined, EndCall
<1>7. CASE Collector
  <2>1. ASSUME NEW d \in Objects, RunFinalizer(d)
        PROVE  FALSE
    <3> DEFINE r == [obj[d] EXCEPT !.ran = "yes"]
    <3>1. obj' = [obj EXCEPT ![d] = r] \/ obj' = obj
      BY <2>1 DEF RunFinalizer, BeginFinalization, Undefined
    <3>2. obj[d] \in ObjectRecords /\ "yes" \in {"no", "yes", "rescued"}
      BY <1>1, ObjectType
    <3>3. r.live = obj[d].live
      BY <3>2, ChangeRan
    <3> HIDE DEF r
    <3> QED
      BY <3>1, <3>3, <1>1
  <2> QED
    BY <1>7, <2>1, <1>1, <1>2 DEF Collector, DestroyHeap
<1>8. CASE Terminated \/ UNCHANGED vars
  BY <1>8, <1>1 DEF Terminated, vars
<1> QED
  BY <1>3, <1>4, <1>5, <1>6, <1>7, <1>8 DEF Next

LEMMA TeardownInv == IInv => TeardownDestroysValues
<1> SUFFICES ASSUME IInv, phase = "destroyed"
             PROVE  Cardinality({b \in Blocks : value[b] # None}) <= failures
  BY DEF TeardownDestroysValues
<1>1. Live = {} /\ \A b \in Blocks : pushes[b].pc = "none"
  BY DEF IInv, StateInv, PhaseInv, Quiet
<1>2. Lost = {b \in Blocks : value[b] # None}
  BY <1>1 DEF Lost, Secured
<1> QED
  BY <1>2 DEF IInv, LeakBounded

-----------------------------------------------------------------------------
(* The theorems.                                                           *)

\* The objects, the blocks and the steps of dukcpp's functions never leave
\* their types, and the bounds on the stack and on the failures are kept.
THEOREM WrappedTypeCorrect ==
  ASSUME AbsoluteIndex = FALSE, Inherit = FALSE, PushAgain = FALSE
  PROVE  Spec => []TypeOK
<1>1. IInv => TypeOK
  BY DEF IInv, StateInv
<1> QED
  BY <1>1, WrappedInvariant, PTL

\* Freed memory is used or freed again only through the object whose value is
\* just being destroyed or whose finalizer has run, at any nesting of pushes,
\* finalizations, collections, errors and calls.
THEOREM WrappedFreedOnce ==
  ASSUME AbsoluteIndex = FALSE, Inherit = FALSE, PushAgain = FALSE
  PROVE  Spec => []NoDoubleFree
<1>1. IInv => NoDoubleFree
  BY DEF IInv
<1> QED
  BY <1>1, WrappedInvariant, PTL

\* Through an object whose finalizer has not run and that duk::finalize is not
\* just finalizing, duk::get, check_type and clone reach the object's own value.
THEOREM WrappedAccessSound ==
  ASSUME AbsoluteIndex = FALSE, Inherit = FALSE, PushAgain = FALSE
  PROVE  Spec => []AccessSound
<1>1. ASSUME IInv, NEW o \in Live, NEW k \in Kinds
      PROVE  LET h == Holder(o, k)
             IN  OwnProp(h, k) # None /\ obj[h].ran = "no" /\ finalizing[h].pc # "freed"
                   => value[OwnProp(h, k)] = h
  <2> DEFINE h == Holder(o, k)
  <2>1. o \in Objects /\ TypeOK /\ ParentInv
    BY <1>1 DEF Live, IInv, StateInv
  <2>2. OwnProp(h, k) = GetProp(o, k)
    BY DEF GetProp
  <2>3. GetProp(o, k) # None => h = o /\ GetProp(o, k) = obj[o].info
    BY <2>1, OwnOnly
  <2> HIDE DEF h
  <2>4. OwnProp(h, k) # None /\ obj[h].ran = "no" /\ finalizing[h].pc # "freed" =>
          value[OwnProp(h, k)] = h
    BY <2>1, <2>2, <2>3, <1>1 DEF IInv, StateInv, OwnInv
  <2> QED
    BY <2>4 DEF h
<1>2. IInv => AccessSound
  BY <1>1 DEF AccessSound
<1> QED
  BY <1>2, WrappedInvariant, PTL

\* While a C++ function has a reference to a value, the object of the value
\* stays, and nothing but duk::finalize of that object destroys the value,
\* whatever the code does that the function calls back.
THEOREM WrappedBorrowedAlive ==
  ASSUME AbsoluteIndex = FALSE, Inherit = FALSE, PushAgain = FALSE
  PROVE  Spec => BorrowedAlive
<1>1. ASSUME IInv, [Next]_vars, vars' # vars, NEW j \in 1 .. Len(borrowed)
      PROVE  /\ borrowed[j].obj \in InUse /\ borrowed[j].obj \in Objects /\ borrowed[j].obj \in Live
             /\ borrowed[j].block \in Blocks
  <2>1. borrowed \in Seq(CallRecords) /\ Len(borrowed) \in Nat
    BY <1>1, Types DEF IInv, StateInv
  <2>2. borrowed[j] \in CallRecords
    BY <2>1
  <2>3. borrowed[j].obj \in InUse
    BY DEF InUse, Arguments
  <2> QED
    BY <2>2, <2>3, <1>1 DEF CallRecords, IInv, StateInv, NamesInv
<1>2. ASSUME IInv, [Next]_vars, vars' # vars, NEW j \in 1 .. Len(borrowed)
      PROVE  LET o == borrowed[j].obj
                 b == borrowed[j].block
             IN  /\ obj[o].live /\ (phase' # "destroyed" => obj'[o].live)
                 /\ value[b] = o /\ value'[b] # o =>
                      finalizing[o].pc = "destroying" /\ finalizing[o].by = "finalize"
  <2> DEFINE o == borrowed[j].obj
             b == borrowed[j].block
  <2>1. o \in InUse /\ o \in Objects /\ o \in Live /\ b \in Blocks
    BY <1>1, <1>2
  <2> HIDE DEF o, b
  <2>2. obj[o].live
    BY <2>1 DEF Live
  <2>3. phase' # "destroyed" => obj'[o].live
    <3>1. Destroyed => phase' = "destroyed"
      BY DEF Destroyed
    <3>2. ~Collect(o)
      BY <2>1, UnreachableFree DEF Collect
    <3> QED
      BY <1>2, <2>1, <2>2, <3>1, <3>2, CollectedBy
  <2>4. ASSUME value[b] = o, value'[b] # o
        PROVE  finalizing[o].pc = "destroying" /\ finalizing[o].by = "finalize"
    <3>1. value[b] # None
      BY <2>1, <2>4, BoundsType
    <3>2. Next
      BY <1>2
    <3>3. FreeValue(o)
      BY <1>2, <2>1, <2>4, <3>1, <3>2, DestroyedBy
    <3>4. finalizing[o].pc = "destroying" /\ finalizing[o].pc # "none"
      BY <3>3 DEF FreeValue
    <3>5. finalizing[o].by # "collector" /\ finalizing[o] \in FinalizationRecords
      BY <1>2, <2>1, <3>4, FinalFacts, Types DEF IInv, StateInv
    <3> QED
      BY <3>4, <3>5 DEF FinalizationRecords
  <2> QED
    BY <2>2, <2>3, <2>4 DEF o, b
<1>3. IInv /\ [Next]_vars =>
        [\A j \in 1 .. Len(borrowed) :
           LET o == borrowed[j].obj
               b == borrowed[j].block
           IN  /\ obj[o].live /\ (phase' # "destroyed" => obj'[o].live)
               /\ value[b] = o /\ value'[b] # o =>
                    finalizing[o].pc = "destroying" /\ finalizing[o].by = "finalize"]_vars
  BY <1>2
<1> QED
  BY <1>3, WrappedInvariant, PTL DEF Spec, BorrowedAlive

\* Each interrupted push loses at most one block.
THEOREM WrappedLeakBounded ==
  ASSUME AbsoluteIndex = FALSE, Inherit = FALSE, PushAgain = FALSE
  PROVE  Spec => []LeakBounded
<1>1. IInv => LeakBounded
  BY DEF IInv
<1> QED
  BY <1>1, WrappedInvariant, PTL

\* When the heap is destroyed every value has been destroyed, except those of
\* interrupted pushes.
THEOREM WrappedTeardown ==
  ASSUME AbsoluteIndex = FALSE, Inherit = FALSE, PushAgain = FALSE
  PROVE  Spec => []TeardownDestroysValues
BY TeardownInv, WrappedInvariant, PTL

\* A value is destroyed while its own object is alive and being finalized, and
\* in no other step.
THEOREM WrappedDestroyedWithObject ==
  ASSUME AbsoluteIndex = FALSE, Inherit = FALSE, PushAgain = FALSE
  PROVE  Spec => DestroyedWithObject
<1>1. ASSUME IInv, [Next]_vars, vars' # vars,
             NEW b \in Blocks, value[b] # None, value'[b] = None
      PROVE  \E o \in Live : /\ value[b] = o /\ obj'[o].live
                             /\ finalizing[o].pc = "destroying" /\ finalizing[o].block = b
  <2>1. Next
    BY <1>1
  <2>2. PICK o \in Objects : FreeValue(o) /\ value[b] = o /\ obj[o].info = b
    BY <1>1, <2>1, DestroyedBy
  <2>3. finalizing[o].pc = "destroying" /\ finalizing[o].pc # "none"
    BY <2>2 DEF FreeValue
  <2>4. o \in Live /\ finalizing[o].block = b
    BY <1>1, <2>2, <2>3, FinalFacts DEF Live
  <2>5. obj'[o].live
    <3>1. ~Destroyed /\ ~Collect(o)
      BY <2>3, UnreachableFree DEF Destroyed, Quiet, Collect
    <3> QED
      BY <1>1, <2>4, <3>1, CollectedBy DEF Live
  <2> QED
    BY <2>2, <2>3, <2>4, <2>5
<1>2. IInv /\ [Next]_vars =>
        [\A b \in Blocks :
           value[b] # None /\ value'[b] = None =>
             \E o \in Live : /\ value[b] = o /\ obj'[o].live
                             /\ finalizing[o].pc = "destroying" /\ finalizing[o].block = b]_vars
  BY <1>1
<1> QED
  BY <1>2, WrappedInvariant, PTL DEF Spec, DestroyedWithObject

\* The collector destroys the value of the object it collects, and no other.
THEOREM WrappedCollectsOwnValue ==
  ASSUME AbsoluteIndex = FALSE, Inherit = FALSE, PushAgain = FALSE
  PROVE  Spec => CollectionDestroysOwnValue
<1>1. ASSUME IInv, NEW o \in Live, finalizing[o].pc = "destroying"
      PROVE  value[finalizing[o].block] = o
  <2>1. o \in Objects /\ finalizing[o].pc # "none"
    BY <1>1 DEF Live
  <2> QED
    BY <1>1, <2>1, FinalFacts
<1>2. IInv /\ [Next]_vars =>
        [\A o \in Live :
           /\ finalizing[o].pc = "destroying" /\ finalizing[o].by = "collector"
           /\ finalizing'[o].pc = "none"
           => value[finalizing[o].block] = o]_vars
  BY <1>1
<1> QED
  BY <1>2, WrappedInvariant, PTL DEF Spec, CollectionDestroysOwnValue
=============================================================================
