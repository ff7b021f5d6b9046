-------------------------- MODULE SafeHandleProofs --------------------------
(***************************************************************************)
(* Proofs about SafeHandle for every set of slots, addresses and owners.   *)
(***************************************************************************)
EXTENDS SafeHandle, FiniteSetTheorems, TLAPS

\* The sets of owners are finite, so counting them is meaningful.
LEMMA OwnersFinite ==
  ASSUME NEW a \in Addr
  PROVE  IsFiniteSet(Owners(a)) /\ Cardinality(Owners(a)) \in Nat
<1>1. Owners(a) \subseteq Slots /\ IsFiniteSet(Slots)
  BY HandleAssumption DEF Owners
<1> QED
  BY <1>1, FS_Subset, FS_CardinalityType

\* One owner more, one owner less.
LEMMA CountAdd ==
  ASSUME NEW S, IsFiniteSet(S), NEW x, x \notin S
  PROVE  Cardinality(S \cup {x}) = Cardinality(S) + 1
BY FS_AddElement

LEMMA CountRemove ==
  ASSUME NEW S, IsFiniteSet(S), NEW x \in S
  PROVE  Cardinality(S \ {x}) = Cardinality(S) - 1 /\ Cardinality(S) > 0
<1>1. Cardinality(S \ {x}) = Cardinality(S) - 1
  BY FS_RemoveElement
<1>2. Cardinality(S) \in Nat /\ Cardinality(S \ {x}) \in Nat
  BY FS_RemoveElement, FS_CardinalityType
<1> QED
  BY <1>1, <1>2

\* The owners of each object, where a step changes slots and the operation.
LEMMA SameOwners ==
  ASSUME RefCountExact, refCount' = refCount,
         \A a \in Addr : Owners(a)' = Owners(a)
  PROVE  RefCountExact'
BY DEF RefCountExact

LEMMA OneOwnerMore ==
  ASSUME TypeOK, RefCountExact, NEW h \in Addr, NEW s \in Slots,
         s \notin Owners(h), Owners(h)' = Owners(h) \cup {s},
         \A a \in Addr \ {h} : Owners(a)' = Owners(a),
         refCount' = [refCount EXCEPT ![h] = @ + 1]
  PROVE  RefCountExact'
<1>1. Cardinality(Owners(h)') = Cardinality(Owners(h)) + 1
  BY OwnersFinite, CountAdd
<1> QED
  BY <1>1 DEF RefCountExact, TypeOK

LEMMA OneOwnerLess ==
  ASSUME TypeOK, RefCountExact, NEW h \in Addr, NEW s \in Owners(h),
         Owners(h)' = Owners(h) \ {s},
         \A a \in Addr \ {h} : Owners(a)' = Owners(a),
         refCount' = [refCount EXCEPT ![h] = @ - 1]
  PROVE  RefCountExact'
<1>1. Cardinality(Owners(h)') = Cardinality(Owners(h)) - 1
  BY OwnersFinite, CountRemove
<1> QED
  BY <1>1 DEF RefCountExact, TypeOK

\* A reference moves from one slot to another: as many owners as before.
LEMMA OwnerMoved ==
  ASSUME RefCountExact, refCount' = refCount,
         NEW o \in Slots, NEW s \in Slots,
         \A a \in Addr :
           \/ Owners(a)' = Owners(a)
           \/ o \in Owners(a) /\ s \notin Owners(a) /\ Owners(a)' = (Owners(a) \ {o}) \cup {s}
  PROVE  RefCountExact'
<1> SUFFICES ASSUME NEW a \in Addr,
                    o \in Owners(a), s \notin Owners(a), Owners(a)' = (Owners(a) \ {o}) \cup {s}
             PROVE  Cardinality(Owners(a)') = Cardinality(Owners(a))
  BY DEF RefCountExact
<1>1. IsFiniteSet(Owners(a) \ {o}) /\ Cardinality(Owners(a) \ {o}) = Cardinality(Owners(a)) - 1
  BY OwnersFinite, CountRemove, FS_RemoveElement
<1>2. Cardinality((Owners(a) \ {o}) \cup {s}) = Cardinality(Owners(a) \ {o}) + 1
  BY <1>1, CountAdd
<1> QED
  BY <1>1, <1>2, OwnersFinite

\* A counted slot finds its entry.
LEMMA CountedEntry ==
  ASSUME TypeOK, RefCountExact, NEW s \in Slots, Counted(s)
  PROVE  slot[s] \in Addr /\ refCount[slot[s]] > 0 /\ s \in Owners(slot[s])
<1>1. slot[s] \in Addr /\ s \in Owners(slot[s])
  BY DEF Counted, Owners
<1>2. Cardinality(Owners(slot[s])) > 0
  BY <1>1, OwnersFinite, CountRemove
<1> QED
  BY <1>1, <1>2 DEF RefCountExact

\* Stuttering.
LEMMA Stutter ==
  ASSUME IInv, UNCHANGED vars
  PROVE  IInv'
<1> USE DEF vars, IInv
<1>1. TypeOK' /\ OwnedLive' /\ MemberInv' /\ HeapInv'
  BY DEF TypeOK, OwnedLive, MemberInv, HeapInv, Counted, Alive, Locals
<1>2. RefCountExact'
  BY SameOwners DEF Owners, Counted
<1>3. OpInv'
  BY DEF OpInv, NoFatal, DecInv, AssignInv, IncInv, StoreInv, Secured, Alive, HeldWithout, Locals
<1> QED
  BY <1>1, <1>2, <1>3

LEMMA InitIInv == Init => IInv
<1> SUFFICES ASSUME Init PROVE IInv
  OBVIOUS
<1> USE HandleAssumption
<1>1. TypeOK
  BY DEF Init, TypeOK, Idle, Calls, PCs
<1>2. RefCountExact
  <2>1. \A a \in Addr : Owners(a) = {}
    BY DEF Init, Owners, Counted
  <2> QED
    BY <2>1, FS_EmptySet DEF Init, RefCountExact
<1>3. OwnedLive
  BY DEF Init, OwnedLive, Counted
<1>4. OpInv
  BY DEF Init, OpInv, NoFatal, DecInv, AssignInv, IncInv, StoreInv, Idle
<1>5. MemberInv
  BY DEF Init, MemberInv, Alive
<1>6. HeapInv
  BY DEF Init, HeapInv, Locals
<1> QED
  BY <1>1, <1>2, <1>3, <1>4, <1>5, <1>6 DEF IInv

\* ES code: new objects, and what it keeps reachable.
LEMMA EnvironmentPreserves ==
  ASSUME IInv, Environment
  PROVE  IInv'
<1> USE HandleAssumption DEF IInv
<1>1. ASSUME NEW a \in Addr, NewObject(a) PROVE IInv'
  <2> USE <1>1 DEF NewObject
  <2>0. \A s \in Members(a) : slot[s] = Dead /\ slot'[s] = Empty
    BY DEF MemberInv, Members
  <2>a. \A s \in Slots \ Members(a) : slot'[s] = slot[s]
    OBVIOUS
  <2>1. TypeOK'
    BY DEF TypeOK
  <2>2. \A s \in Slots : Counted(s)' = Counted(s) /\ (Counted(s) => slot'[s] = slot[s])
    BY <2>0 DEF Counted, TypeOK
  <2>3. RefCountExact'
    BY <2>2, SameOwners DEF Owners
  <2>4. OwnedLive'
    BY <2>2 DEF OwnedLive, Counted, TypeOK
  <2>5. OpInv'
    <3>1. \A t, u \in Slots : HeldWithout(t, u) => HeldWithout(t, u)'
      <4> SUFFICES ASSUME NEW t \in Slots, NEW u \in Slots, HeldWithout(t, u)
                   PROVE  HeldWithout(t, u)'
        OBVIOUS
      <4>1. \A l \in Locals : slot'[l] = slot[l]
        BY <2>a DEF Locals, Members
      <4> QED
        BY <4>1 DEF HeldWithout, Locals
    <3>2. \A t \in Slots : Alive(t) => Alive(t)' /\ slot'[t] = slot[t]
      BY <2>0, <2>a DEF Alive
    <3>3. \A t \in Slots : \A u \in Slots : Secured(t, u) => Secured(t, u)' /\ slot'[t] = slot[t]
      BY <3>1, <3>2 DEF Secured
    <3>4. DecInv' /\ AssignInv'
      BY <3>2, <3>3 DEF OpInv, DecInv, AssignInv
    <3>5. ASSUME op.pc \in {"inc", "store"} PROVE IncInv' /\ slot'[op.this] = slot[op.this]
      <4>1. op.this \in Slots /\ Secured(op.this, op.this)
        BY <3>5 DEF OpInv, IncInv
      <4>2. slot'[op.this] = slot[op.this] /\ Secured(op.this, op.this)'
        BY <4>1, <3>3
      <4>3. ASSUME slot'[op.this] \in Addr \ roots'
            PROVE  /\ op.other \in Slots \ {op.this}
                   /\ slot'[op.other] = slot'[op.this]
                   /\ HeldWithout(op.other, op.this)'
        <5>1. /\ op.other \in Slots \ {op.this}
              /\ slot[op.other] = slot[op.this]
              /\ HeldWithout(op.other, op.this)
          BY <4>2, <4>3, <3>5 DEF OpInv, IncInv
        <5>2. slot'[op.other] = slot[op.other]
          BY <5>1, <4>2, <4>3, <3>2, HandleAssumption DEF Alive
        <5> QED
          BY <5>1, <5>2, <4>1, <4>2, <3>1
      <4> QED
        BY <4>2, <4>3 DEF IncInv
    <3>6. IncInv' /\ StoreInv'
      BY <3>5 DEF OpInv, IncInv, StoreInv
    <3> QED
      BY <3>4, <3>6 DEF OpInv, NoFatal, MayPush, UserCode
  <2>6. MemberInv'
    BY DEF MemberInv, Members, Alive, TypeOK
  <2>7. HeapInv'
    <3>1. phase # "destroyed"
      BY DEF MayPush, UserCode, HeapInv, TypeOK
    <3>2. \A l \in Locals : slot'[l] = slot[l]
      BY <2>a DEF Locals, Members
    <3>3. \A s \in Slots : Counted(s)' /\ phase = "destroying" => heap'[slot'[s]] # "free"
      BY <2>2 DEF HeapInv, Counted, TypeOK
    <3>4. /\ \A x \in Addr : heap'[x] = "finalizing" <=> fin = x
          /\ phase = "running" => \A x \in Addr : heap'[x] # "finalized"
          /\ phase = "running" => \A x \in roots' : heap'[x] = "live"
      BY DEF HeapInv, TypeOK
    <3> QED
      BY <3>1, <3>2, <3>3, <3>4 DEF HeapInv, Locals
  <2> QED
    BY <2>1, <2>3, <2>4, <2>5, <2>6, <2>7
<1>2. ASSUME NEW a \in Addr, DropRoot(a) PROVE IInv'
  <2> USE <1>2 DEF DropRoot, UserCode
  <2>0. op = Idle /\ op' = Idle /\ op.pc = "idle"
    BY DEF Idle
  <2>1. TypeOK'
    BY DEF TypeOK
  <2>3. RefCountExact'
    BY SameOwners DEF Owners, Counted
  <2>4. OwnedLive'
    BY DEF OwnedLive, Counted
  <2>5. OpInv'
    BY <2>0 DEF OpInv, NoFatal, DecInv, AssignInv, IncInv, StoreInv, Idle
  <2>6. MemberInv'
    BY DEF MemberInv, Alive
  <2>7. HeapInv'
    BY DEF HeapInv
  <2> QED
    BY <2>1, <2>3, <2>4, <2>5, <2>6, <2>7
<1>3. ASSUME NEW s \in Slots, PushHandle(s) PROVE IInv'
  <2> USE <1>3 DEF PushHandle, UserCode
  <2>0. op = Idle /\ op' = Idle /\ op.pc = "idle"
    BY DEF Idle
  <2>1. TypeOK'
    BY DEF TypeOK
  <2>2. heap[slot[s]] = "live"
    BY <2>0 DEF OwnedLive, Counted
  <2>3. RefCountExact'
    BY SameOwners DEF Owners, Counted
  <2>4. OwnedLive'
    BY DEF OwnedLive, Counted
  <2>5. OpInv'
    BY <2>0 DEF OpInv, NoFatal, DecInv, AssignInv, IncInv, StoreInv, Idle
  <2>6. MemberInv'
    BY DEF MemberInv, Alive
  <2>7. HeapInv'
    BY <2>2 DEF HeapInv
  <2> QED
    BY <2>1, <2>3, <2>4, <2>5, <2>6, <2>7
<1> QED
  BY <1>1, <1>2, <1>3 DEF Environment

\* The calls of member functions.
LEMMA CallPreserves ==
  ASSUME SelfOwnedSource = FALSE, IInv, Call
  PROVE  IInv'
<1> USE HandleAssumption DEF IInv
<1>a. UserCode /\ op = Idle /\ op.pc = "idle" /\ op.this = None /\ phase = "running"
  BY DEF Call, DefaultConstruct, ConstructFromHandle, CopyConstruct, MoveConstruct,
         CopyAssign, MoveAssign, BeginAssign, Destroy, UserCode, Idle
<1>1. ASSUME NEW s \in Slots, DefaultConstruct(s) PROVE IInv'
  <2> USE <1>1, <1>a DEF DefaultConstruct
  <2>1. TypeOK'
    BY DEF TypeOK
  <2>2. \A t \in Slots : Counted(t)' = Counted(t) /\ (Counted(t) => slot'[t] = slot[t])
    BY DEF Counted, TypeOK
  <2>3. RefCountExact'
    BY <2>2, SameOwners DEF Owners
  <2>4. OwnedLive'
    BY <2>2 DEF OwnedLive
  <2>5. OpInv'
    BY DEF OpInv, NoFatal, DecInv, AssignInv, IncInv, StoreInv
  <2>6. MemberInv'
    BY DEF MemberInv, Alive, Locals, TypeOK
  <2>7. HeapInv'
    BY DEF HeapInv
  <2> QED
    BY <2>1, <2>3, <2>4, <2>5, <2>6, <2>7
<1>2. ASSUME NEW s \in Slots, NEW a \in Addr, ConstructFromHandle(s, a) PROVE IInv'
  <2> USE <1>2, <1>a DEF ConstructFromHandle, Begin
  <2>0. op'.this = s /\ op'.pc = "inc" /\ op'.call = "construct"
    OBVIOUS
  <2>1. TypeOK'
    BY DEF TypeOK, Calls, PCs
  <2>2. \A t \in Slots : Counted(t)' = Counted(t) /\ (Counted(t) => slot'[t] = slot[t])
    BY <2>0 DEF Counted, TypeOK
  <2>3. RefCountExact'
    BY <2>2, SameOwners DEF Owners
  <2>4. OwnedLive'
    BY <2>2 DEF OwnedLive
  <2>5. OpInv'
    <3>1. Secured(s, s)'
      BY DEF Secured, Alive, HeldWithout, Locals, TypeOK
    <3>2. slot'[s] \in roots'
      BY DEF TypeOK
    <3> QED
      BY <2>0, <3>1, <3>2 DEF OpInv, NoFatal, DecInv, AssignInv, IncInv, StoreInv
  <2>6. MemberInv'
    BY DEF MemberInv, Alive, Locals, TypeOK
  <2>7. HeapInv'
    BY DEF HeapInv
  <2> QED
    BY <2>1, <2>3, <2>4, <2>5, <2>6, <2>7
<1>3. ASSUME NEW s \in Slots, NEW o \in Slots, CopyConstruct(s, o) PROVE IInv'
  <2> USE <1>3, <1>a DEF CopyConstruct, Begin
  <2>0. op'.this = s /\ op'.other = o /\ op'.pc = "inc" /\ op'.call = "construct" /\ s # o
    BY DEF Alive
  <2>1. TypeOK'
    BY DEF TypeOK, Calls, PCs
  <2>2. \A t \in Slots : Counted(t)' = Counted(t) /\ (Counted(t) => slot'[t] = slot[t])
    BY <2>0 DEF Counted, TypeOK
  <2>3. RefCountExact'
    BY <2>2, SameOwners DEF Owners
  <2>4. OwnedLive'
    BY <2>2 DEF OwnedLive
  <2>5. OpInv'
    <3>1. Secured(s, s)'
      BY DEF Secured, Alive, HeldWithout, Locals, TypeOK
    <3>2. slot'[o] = slot'[s]
      BY <2>0 DEF TypeOK
    <3>3. HeldWithout(o, s)'
      BY <2>0 DEF HeldWithout, Locals, TypeOK
    <3> QED
      BY <2>0, <3>1, <3>2, <3>3 DEF OpInv, NoFatal, DecInv, AssignInv, IncInv, StoreInv
  <2>6. MemberInv'
    BY DEF MemberInv, Alive, Locals, TypeOK
  <2>7. HeapInv'
    BY DEF HeapInv
  <2> QED
    BY <2>1, <2>3, <2>4, <2>5, <2>6, <2>7
<1>4. ASSUME NEW s \in Slots, NEW o \in Slots, MoveConstruct(s, o) PROVE IInv'
  <2> USE <1>4, <1>a DEF MoveConstruct, Moved
  <2>0. s # o /\ slot' = [slot EXCEPT ![s] = slot[o], ![o] = Empty]
    BY DEF Alive
  <2>1. TypeOK'
    BY <2>0 DEF TypeOK
  <2>2. \A a \in Addr :
          \/ Owners(a)' = Owners(a)
          \/ o \in Owners(a) /\ s \notin Owners(a) /\ Owners(a)' = (Owners(a) \ {o}) \cup {s}
    BY <2>0 DEF Owners, Counted, TypeOK
  <2>3. RefCountExact'
    BY <2>2, OwnerMoved
  <2>4. OwnedLive'
    BY <2>0 DEF OwnedLive, Counted, TypeOK
  <2>5. OpInv'
    BY DEF OpInv, NoFatal, DecInv, AssignInv, IncInv, StoreInv
  <2>6. MemberInv'
    BY <2>0 DEF MemberInv, Alive, Locals, TypeOK
  <2>7. HeapInv'
    BY DEF HeapInv
  <2> QED
    BY <2>1, <2>3, <2>4, <2>5, <2>6, <2>7
<1>5. ASSUME NEW s \in Slots, NEW o \in Slots,
             CopyAssign(s, o) \/ MoveAssign(s, o)
      PROVE  IInv'
  <2> USE <1>5, <1>a DEF CopyAssign, MoveAssign, BeginAssign, Begin
  <2>0. op'.this = s /\ op'.other = o /\ op'.pc = "dec" /\ op'.call \in {"copyAssign", "moveAssign"}
    OBVIOUS
  <2>1. TypeOK'
    BY <2>0 DEF TypeOK, Calls, PCs
  <2>3. RefCountExact'
    BY <2>0, SameOwners DEF Owners, Counted
  <2>4. OwnedLive'
    BY <2>0 DEF OwnedLive, Counted
  <2>5. OpInv'
    <3>1. Secured(s, s)' /\ Secured(o, s)'
      BY DEF Secured, Alive, HeldWithout, Readable, Locals
    <3> QED
      BY <2>0, <3>1 DEF OpInv, NoFatal, DecInv, AssignInv, IncInv, StoreInv
  <2>6. MemberInv'
    BY DEF MemberInv, Alive
  <2>7. HeapInv'
    BY DEF HeapInv
  <2> QED
    BY <2>1, <2>3, <2>4, <2>5, <2>6, <2>7
<1>6. ASSUME NEW s \in Slots, Destroy(s) PROVE IInv'
  <2> USE <1>6, <1>a DEF Destroy, Begin
  <2>0. op'.this = s /\ op'.pc = "dec" /\ op'.call = "destroy"
    OBVIOUS
  <2>1. TypeOK'
    BY DEF TypeOK, Calls, PCs
  <2>3. RefCountExact'
    BY <2>0, SameOwners DEF Owners, Counted
  <2>4. OwnedLive'
    BY <2>0 DEF OwnedLive, Counted
  <2>5. OpInv'
    BY <2>0 DEF OpInv, NoFatal, DecInv, AssignInv, IncInv, StoreInv, Alive, Locals
  <2>6. MemberInv'
    BY DEF MemberInv, Alive
  <2>7. HeapInv'
    BY DEF HeapInv
  <2> QED
    BY <2>1, <2>3, <2>4, <2>5, <2>6, <2>7
<1> QED
  BY <1>1, <1>2, <1>3, <1>4, <1>5, <1>6 DEF Call

\* The steps of the member function in progress.
LEMMA RunPreserves ==
  ASSUME IInv, Run
  PROVE  IInv'
<1> USE HandleAssumption DEF IInv
<1>a. /\ op.this \in Slots /\ phase = "running" /\ phase' = "running" /\ fin = None
      /\ heap' = heap /\ roots' = roots /\ fin' = fin
  BY DEF Run, DecRef, AssignHandle, IncRef, StoreEntry, Step, OpInv
<1>1. CASE DecRef
  <2> DEFINE s == op.this
  <2> USE <1>1, <1>a DEF DecRef, Step, Return, Goto, Begin
  <2>0. Alive(s) /\ (slot[s] \in Addr => Counted(s)) /\ EntryFound(s)
    <3>1. Alive(s)
      BY DEF OpInv, DecInv, AssignInv, Secured
    <3>2. slot[s] \in Addr => Counted(s)
      BY DEF Counted
    <3> QED
      BY <3>1, <3>2, CountedEntry DEF EntryFound
  <2>a. /\ refCount' = DecRefed(s)
        /\ \/ op.call = "destroy" /\ slot' = [slot EXCEPT ![s] = Dead] /\ op' = Idle
           \/ op.call # "destroy" /\ slot' = slot /\ Begin(op.call, s, op.other, "assign")
    BY <2>0
  <2>1. TypeOK'
    BY <2>0, <2>a, CountedEntry DEF TypeOK, DecRefed, Decremented, Idle, Calls, PCs
  <2>2. \A a \in Addr : Owners(a)' = IF slot[s] = a THEN Owners(a) \ {s} ELSE Owners(a)
    BY <2>0, <2>a DEF Owners, Counted, TypeOK, Idle, PCs
  <2>3. RefCountExact'
    <3>1. CASE slot[s] \in Addr
      BY <3>1, <2>0, <2>a, <2>2, CountedEntry, OneOwnerLess DEF DecRefed, Decremented
    <3>2. CASE slot[s] \notin Addr
      BY <3>2, <2>a, <2>2, SameOwners DEF DecRefed
    <3> QED
      BY <3>1, <3>2
  <2>4. OwnedLive'
    BY <2>a DEF OwnedLive, Counted, TypeOK, Idle
  <2>5. OpInv'
    <3>1. CASE op.call = "destroy"
      BY <3>1, <2>a DEF OpInv, NoFatal, DecInv, AssignInv, IncInv, StoreInv, Idle
    <3>2. CASE op.call # "destroy"
      <4>1. /\ op'.pc = "assign" /\ op'.call = op.call
            /\ op'.this = op.this /\ op'.other = op.other
        BY <3>2, <2>a DEF TypeOK
      <4> QED
        BY <3>2, <4>1, <2>a DEF OpInv, NoFatal, DecInv, AssignInv, IncInv, StoreInv,
                                Secured, Alive, HeldWithout, Locals
    <3> QED
      BY <3>1, <3>2
  <2>6. MemberInv'
    BY <2>a DEF MemberInv, Alive, OpInv, DecInv, Locals, TypeOK
  <2>7. HeapInv'
    BY <2>a DEF HeapInv
  <2> QED
    BY <2>1, <2>3, <2>4, <2>5, <2>6, <2>7
<1>2. CASE AssignHandle
  <2> DEFINE s == op.this
             o == op.other
  <2> USE <1>2, <1>a DEF AssignHandle, Step, Return, Goto, Begin
  <2>0. o \in Slots /\ s # o /\ Secured(s, s) /\ Secured(o, s) /\ Reads(o) = {slot[o]}
    BY DEF OpInv, AssignInv, Secured, Reads
  <2>a. /\ refCount' = refCount
        /\ \/ /\ slot' = [slot EXCEPT ![s] = slot[o]]
              /\ Begin(op.call, s, op.other, "inc")
           \/ /\ slot' = [slot EXCEPT ![s] = slot[o], ![o] = Empty]
              /\ op' = Idle
    BY <2>0 DEF Moved, Secured
  <2>b. slot[s] # Dead /\ slot[o] # Dead
    BY <2>0 DEF Secured, Alive
  <2>1. TypeOK'
    BY <2>0, <2>a DEF TypeOK, Idle, Calls, PCs
  <2>3. RefCountExact'
    <3>1. CASE op' = Idle
      <4>1. slot' = [slot EXCEPT ![s] = slot[o], ![o] = Empty]
        BY <3>1, <2>a DEF Idle, TypeOK
      <4>2. \A a \in Addr :
              \/ Owners(a)' = Owners(a)
              \/ o \in Owners(a) /\ s \notin Owners(a) /\ Owners(a)' = (Owners(a) \ {o}) \cup {s}
        BY <3>1, <4>1, <2>0 DEF Owners, Counted, TypeOK, Idle
      <4> QED
        BY <4>2, <2>0, <2>a, OwnerMoved
    <3>2. CASE Begin(op.call, s, o, "inc")
      <4>1. slot' = [slot EXCEPT ![s] = slot[o]] /\ op'.pc = "inc" /\ op'.this = s
        BY <3>2, <2>a DEF Idle, TypeOK
      <4>2. \A a \in Addr : Owners(a)' = Owners(a)
        BY <4>1, <2>0 DEF Owners, Counted, TypeOK
      <4> QED
        BY <4>2, <2>a, SameOwners
    <3> QED
      BY <3>1, <3>2, <2>a
  <2>4. OwnedLive'
    BY <2>0, <2>a DEF OwnedLive, Counted, TypeOK, Idle
  <2>5. OpInv'
    <3>1. CASE op' = Idle
      BY <3>1 DEF OpInv, NoFatal, DecInv, AssignInv, IncInv, StoreInv, Idle
    <3>2. CASE op' # Idle
      <4>1. /\ slot' = [slot EXCEPT ![s] = slot[o]]
            /\ op'.pc = "inc" /\ op'.this = s /\ op'.other = o
        BY <3>2, <2>a DEF TypeOK
      <4>2. Secured(s, s)'
        BY <4>1, <2>0, <2>b DEF Secured, Alive, HeldWithout, Locals, TypeOK
      <4>3. HeldWithout(o, s)'
        BY <4>1, <2>0 DEF Secured, HeldWithout, Locals, TypeOK
      <4>4. slot'[o] = slot'[s]
        BY <4>1, <2>0 DEF TypeOK
      <4> QED
        BY <4>1, <4>2, <4>3, <4>4, <2>0 DEF OpInv, NoFatal, DecInv, AssignInv, IncInv, StoreInv
    <3> QED
      BY <3>1, <3>2
  <2>6. MemberInv'
    <3>1. \A t \in Slots : Alive(t)' <=> Alive(t)
      BY <2>0, <2>a, <2>b DEF Alive, TypeOK
    <3>2. \A t \in Slots : slot[t] = Dead => slot'[t] = Dead
      BY <3>1 DEF Alive
    <3> QED
      BY <3>1, <3>2 DEF MemberInv
  <2>7. HeapInv'
    BY DEF HeapInv
  <2> QED
    BY <2>1, <2>3, <2>4, <2>5, <2>6, <2>7
<1>3. CASE IncRef
  <2> DEFINE s == op.this
  <2> USE <1>3, <1>a DEF IncRef, Step, Return, Goto, Begin
  <2>0. Secured(s, s) /\ slot[s] # Dead /\ s \notin Owners(slot[s])
    BY DEF OpInv, IncInv, Secured, Alive, Owners, Counted
  <2>a. slot' = slot
    OBVIOUS
  <2>1. TypeOK'
    BY DEF TypeOK, Incremented, Idle, Calls, PCs
  <2>b. slot[s] \in Addr => heap[slot[s]] = "live"
    <3>1. CASE slot[s] \in roots
      BY <3>1 DEF HeapInv
    <3>2. CASE slot[s] \in Addr \ roots
      <4>1. op.other \in Slots \ {s} /\ slot[op.other] = slot[s]
        BY <3>2 DEF OpInv, IncInv
      <4> QED
        BY <3>2, <4>1 DEF OwnedLive, Counted
    <3> QED
      BY <3>1, <3>2
  <2>3. RefCountExact'
    <3>1. CASE op' = Idle /\ slot[s] \in Addr
      <4>1. \A a \in Addr : Owners(a)' = IF a = slot[s] THEN Owners(a) \cup {s} ELSE Owners(a)
        BY <3>1 DEF Owners, Counted, TypeOK, Idle
      <4>2. refCount' = [refCount EXCEPT ![slot[s]] = @ + 1]
        BY <3>1, HandleAssumption DEF Idle, Incremented, TypeOK
      <4> QED
        BY <3>1, <4>1, <4>2, <2>0, OneOwnerMore
    <3>2. CASE ~(op' = Idle /\ slot[s] \in Addr)
      <4>a. op' = Idle \/ (op'.pc = "store" /\ op'.this = s)
        OBVIOUS
      <4>0. (op'.pc = "store" /\ op'.this = s) \/ (op'.pc = "idle" /\ slot[s] \notin Addr)
        BY <4>a, <3>2 DEF Idle
      <4>1. refCount' = refCount
        BY <3>2
      <4>2. \A a \in Addr : Owners(a)' = Owners(a)
        BY <4>0 DEF Owners, Counted, TypeOK
      <4> QED
        BY <4>1, <4>2, SameOwners
    <3> QED
      BY <3>1, <3>2
  <2>4. OwnedLive'
    BY <2>b DEF OwnedLive, Counted, TypeOK, Idle
  <2>5. OpInv'
    <3>1. CASE op' = Idle
      BY <3>1 DEF OpInv, NoFatal, DecInv, AssignInv, IncInv, StoreInv, Idle
    <3>2. CASE op' # Idle
      <4>1. /\ op'.pc = "store" /\ op'.this = s /\ op'.other = op.other
            /\ slot[s] \in Addr /\ refCount[slot[s]] = 0 /\ refCount' = refCount
        BY <3>2 DEF TypeOK
      <4>2. slot[s] \in roots
        <5> SUFFICES ASSUME slot[s] \notin roots PROVE FALSE
          OBVIOUS
        <5>1. op.other \in Slots \ {s} /\ slot[op.other] = slot[s]
          BY <4>1 DEF OpInv, IncInv
        <5>2. Counted(op.other)
          BY <5>1, <4>1 DEF Counted
        <5> QED
          BY <5>1, <5>2, <4>1, CountedEntry
      <4>3. Secured(s, s)'
        BY <2>0, <4>1 DEF Secured, Alive, HeldWithout, Locals
      <4> QED
        BY <4>1, <4>2, <4>3 DEF OpInv, NoFatal, DecInv, AssignInv, IncInv, StoreInv
    <3> QED
      BY <3>1, <3>2
  <2>6. MemberInv'
    BY DEF MemberInv, Alive
  <2>7. HeapInv'
    BY DEF HeapInv
  <2> QED
    BY <2>1, <2>3, <2>4, <2>5, <2>6, <2>7
<1>4. CASE StoreEntry
  <2> DEFINE s == op.this
  <2> USE <1>4, <1>a DEF StoreEntry, Step, Return
  <2>0. slot[s] \in roots /\ slot[s] \in Addr /\ refCount[slot[s]] = 0 /\ s \notin Owners(slot[s])
    BY DEF OpInv, StoreInv, TypeOK, Owners, Counted
  <2>1. TypeOK'
    BY <2>0 DEF TypeOK, Idle, Calls, PCs
  <2>3. RefCountExact'
    <3>1. \A a \in Addr : Owners(a)' = IF a = slot[s] THEN Owners(a) \cup {s} ELSE Owners(a)
      BY <2>0 DEF Owners, Counted, TypeOK, Idle
    <3>2. refCount' = [refCount EXCEPT ![slot[s]] = @ + 1]
      BY <2>0 DEF TypeOK
    <3> QED
      BY <2>0, <3>1, <3>2, OneOwnerMore
  <2>4. OwnedLive'
    BY <2>0 DEF OwnedLive, Counted, HeapInv, Idle
  <2>5. OpInv'
    BY DEF OpInv, NoFatal, DecInv, AssignInv, IncInv, StoreInv, Idle
  <2>6. MemberInv'
    BY DEF MemberInv, Alive
  <2>7. HeapInv'
    BY DEF HeapInv
  <2> QED
    BY <2>1, <2>3, <2>4, <2>5, <2>6, <2>7
<1> QED
  BY <1>1, <1>2, <1>3, <1>4 DEF Run

\* Collections and finalizers, at any point of a member function.
LEMMA CollectPreserves ==
  ASSUME IInv, NEW a \in Addr, Collect(a)
  PROVE  IInv'
<1> USE HandleAssumption DEF IInv, Collect
<1>1. TypeOK'
  BY DEF TypeOK
<1>2. RefCountExact'
  BY SameOwners DEF Owners, Counted
\* The object has no owner and no root, so it embeds nothing that is being worked on.
<1>3. phase = "running" => a \notin roots /\ \A s \in Slots : Counted(s) => slot[s] # a
  BY CountedEntry DEF Unreachable
<1>4. OwnedLive'
  BY <1>3 DEF OwnedLive, Counted, TypeOK
<1>5. OpInv'
  BY DEF OpInv, NoFatal, DecInv, AssignInv, IncInv, StoreInv, Secured, Alive, HeldWithout, Locals
<1>6. MemberInv'
  BY DEF MemberInv, Alive, TypeOK
<1>7. HeapInv'
  BY <1>3 DEF HeapInv, TypeOK, Counted
<1> QED
  BY <1>1, <1>2, <1>4, <1>5, <1>6, <1>7

\* What an operation in progress works on is embedded in a live object.
LEMMA SecuredOwnerLive ==
  ASSUME IInv, op.this \in Slots, phase = "running", NEW s \in Slots, HeldWithout(s, op.this),
         Owner[s] # None
  PROVE  heap[Owner[s]] = "live"
BY HandleAssumption DEF IInv, HeldWithout, HeapInv, OwnedLive, Counted, Locals

LEMMA FinalizerPreserves ==
  ASSUME IInv, Finalizer
  PROVE  IInv'
<1> USE HandleAssumption DEF IInv
<1>1. ASSUME NEW s \in Slots, DestroyMember(s) PROVE IInv'
  <2> USE <1>1 DEF DestroyMember, Members
  <2>0. fin \in Addr /\ Owner[s] = fin /\ heap[fin] = "finalizing"
    BY DEF TypeOK, HeapInv
  <2>a. \A t \in Slots : op.this \in Slots /\ phase = "running" /\ HeldWithout(t, op.this) => t # s
    BY <2>0, SecuredOwnerLive
  <2>b. op.pc # "idle" => op.this # s
    BY <2>a, <2>0 DEF OpInv, DecInv, AssignInv, IncInv, Secured, Locals, TypeOK, PCs
  <2>c. slot[s] \in Addr => Counted(s)
    BY <2>b DEF Counted
  <2>d. /\ refCount' = DecRefed(s)
        /\ slot' = [slot EXCEPT ![s] = Dead]
        /\ op' = op
    BY <2>c, CountedEntry DEF EntryFound
  <2>1. TypeOK'
    BY <2>c, <2>d, CountedEntry DEF TypeOK, DecRefed, Decremented
  <2>2. \A a \in Addr : Owners(a)' = IF slot[s] = a THEN Owners(a) \ {s} ELSE Owners(a)
    BY <2>d DEF Owners, Counted, TypeOK
  <2>3. RefCountExact'
    <3>1. CASE slot[s] \in Addr
      BY <3>1, <2>c, <2>d, <2>2, CountedEntry, OneOwnerLess DEF DecRefed, Decremented
    <3>2. CASE slot[s] \notin Addr
      BY <3>2, <2>d, <2>2, SameOwners DEF DecRefed
    <3> QED
      BY <3>1, <3>2
  <2>4. OwnedLive'
    BY <2>d DEF OwnedLive, Counted, TypeOK
  <2>5. OpInv'
    <3>1. \A t, u \in Slots : HeldWithout(t, u) => HeldWithout(t, u)'
      BY <2>0, <2>d DEF HeldWithout, Locals, TypeOK
    <3>2. \A t \in Slots : t # s => slot'[t] = slot[t]
      BY <2>d DEF TypeOK
    <3>3. \A t \in Slots : op.this \in Slots /\ phase = "running" /\ Secured(t, op.this)
                             => slot'[t] = slot[t] /\ Secured(t, op.this)'
      BY <3>1, <3>2, <2>a, <2>d DEF Secured, Alive
    <3>4. DecInv'
      BY <3>2, <2>b, <2>d DEF OpInv, DecInv, Alive
    <3>5. AssignInv'
      BY <3>3, <2>d DEF OpInv, AssignInv
    <3>6. IncInv'
      <4> SUFFICES ASSUME op.pc \in {"inc", "store"} PROVE IncInv'
        BY <2>d DEF IncInv
      <4>1. op.this \in Slots /\ phase = "running" /\ Secured(op.this, op.this)
        BY DEF OpInv, IncInv
      <4>2. slot'[op.this] = slot[op.this] /\ Secured(op.this, op.this)'
        BY <4>1, <3>3, <2>d
      <4>3. ASSUME slot'[op.this] \in Addr \ roots
            PROVE  /\ op.other \in Slots \ {op.this}
                   /\ slot'[op.other] = slot'[op.this]
                   /\ HeldWithout(op.other, op.this)'
        <5>1. /\ op.other \in Slots \ {op.this}
              /\ slot[op.other] = slot[op.this]
              /\ HeldWithout(op.other, op.this)
          BY <4>2, <4>3 DEF OpInv, IncInv
        <5> QED
          BY <5>1, <4>1, <4>2, <3>1, <3>2, <2>a, <2>d
      <4> QED
        BY <4>2, <4>3, <2>d DEF IncInv
    <3>7. StoreInv'
      <4> SUFFICES ASSUME op.pc = "store"
                   PROVE  slot'[op.this] \in roots /\ refCount'[slot'[op.this]] = 0
        BY <2>d DEF StoreInv
      <4>1. slot'[op.this] = slot[op.this]
        BY <3>2, <2>b DEF OpInv
      <4>2. slot[op.this] \in roots /\ refCount[slot[op.this]] = 0 /\ slot[op.this] \in Addr
        BY DEF OpInv, StoreInv, TypeOK
      <4>3. slot[s] # slot[op.this]
        BY <4>2, <2>c, CountedEntry
      <4> QED
        BY <4>1, <4>2, <4>3, <2>d DEF DecRefed, TypeOK
    <3> QED
      BY <3>4, <3>5, <3>6, <3>7, <2>d DEF OpInv, NoFatal
  <2>6. MemberInv'
    BY <2>0, <2>d DEF MemberInv, Alive, TypeOK
  <2>7. HeapInv'
    BY <2>0, <2>d DEF HeapInv, Locals, TypeOK, Counted
  <2> QED
    BY <2>1, <2>3, <2>4, <2>5, <2>6, <2>7
<1>2. ASSUME Reclaim PROVE IInv'
  <2> USE <1>2 DEF Reclaim, Members
  <2>0. fin \in Addr /\ heap[fin] = "finalizing"
    BY DEF TypeOK, HeapInv
  <2>1. TypeOK'
    BY <2>0 DEF TypeOK
  <2>3. RefCountExact'
    BY SameOwners DEF Owners, Counted
  <2>4. OwnedLive'
    BY <2>0 DEF OwnedLive, Counted, TypeOK
  <2>5. OpInv'
    BY DEF OpInv, NoFatal, DecInv, AssignInv, IncInv, StoreInv, Secured, Alive, HeldWithout, Locals
  <2>6. MemberInv'
    BY <2>0 DEF MemberInv, Alive, TypeOK
  <2>7. HeapInv'
    BY <2>0 DEF HeapInv, TypeOK, Counted
  <2> QED
    BY <2>1, <2>3, <2>4, <2>5, <2>6, <2>7
<1> QED
  BY <1>1, <1>2 DEF Finalizer

\* Heap destruction.
LEMMA DestroyPreserves ==
  ASSUME IInv, DestroyHeap \/ HeapGone \/ Destroyed
  PROVE  IInv'
<1> USE HandleAssumption DEF IInv
<1>1. CASE DestroyHeap
  <2> USE <1>1 DEF DestroyHeap, UserCode
  <2>1. TypeOK' /\ RefCountExact' /\ OwnedLive' /\ MemberInv'
    BY SameOwners DEF TypeOK, OwnedLive, MemberInv, Owners, Counted, Alive
  <2>2. OpInv'
    BY DEF OpInv, NoFatal, DecInv, AssignInv, IncInv, StoreInv, Idle
  <2>3. HeapInv'
    BY DEF HeapInv, Locals, OwnedLive, Counted
  <2> QED
    BY <2>1, <2>2, <2>3
<1>2. CASE HeapGone
  <2> USE <1>2 DEF HeapGone
  <2>1. TypeOK' /\ OwnedLive'
    BY DEF TypeOK, OwnedLive
  <2>2. RefCountExact'
    BY SameOwners DEF Owners, Counted
  <2>3. OpInv'
    BY DEF OpInv, NoFatal, DecInv, AssignInv, IncInv, StoreInv, Idle, TypeOK, PCs
  <2>4. MemberInv'
    BY DEF MemberInv, Alive, TypeOK
  <2>5. HeapInv'
    BY DEF HeapInv, Locals, TypeOK
  <2> QED
    BY <2>1, <2>2, <2>3, <2>4, <2>5
<1>3. CASE Destroyed
  BY <1>3, Stutter DEF Destroyed
<1> QED
  BY <1>1, <1>2, <1>3

LEMMA NextPreserves ==
  ASSUME SelfOwnedSource = FALSE, IInv, [Next]_vars
  PROVE  IInv'
<1>1. CASE Next
  BY <1>1, EnvironmentPreserves, CallPreserves, RunPreserves, CollectPreserves,
     FinalizerPreserves, DestroyPreserves DEF Next
<1>2. CASE UNCHANGED vars
  BY <1>2, Stutter
<1> QED
  BY <1>1, <1>2

-----------------------------------------------------------------------------
(***************************************************************************)
(* The program never assigns from a handle that only the assignment's      *)
(* target keeps alive: then the invariant holds in every reachable state.  *)
(***************************************************************************)
THEOREM Invariance ==
  ASSUME SelfOwnedSource = FALSE
  PROVE  Spec => []IInv
<1>1. Init => IInv
  BY InitIInv
<1>2. IInv /\ [Next]_vars => IInv'
  BY NextPreserves
<1> QED
  BY <1>1, <1>2, PTL DEF Spec

\* Every variable keeps its type (the state of safe_handle.h and of the stash).
THEOREM TypeCorrect ==
  ASSUME SelfOwnedSource = FALSE
  PROVE  Spec => []TypeOK
<1>1. IInv => TypeOK
  BY DEF IInv
<1> QED
  BY <1>1, Invariance, PTL

\* Info::refCount is the number of handles, whatever the number of handles,
\* objects and embeddings (incRef and decRef, safe_handle.h 116-184).
THEOREM CountsAreExact ==
  ASSUME SelfOwnedSource = FALSE
  PROVE  Spec => []RefCountExact
<1>1. IInv => RefCountExact
  BY DEF IInv
<1> QED
  BY <1>1, Invariance, PTL

\* A safe_handle keeps its object from being collected.
THEOREM OwnedObjectsLive ==
  ASSUME SelfOwnedSource = FALSE
  PROVE  Spec => []OwnedLive
<1>1. IInv => OwnedLive
  BY DEF IInv
<1> QED
  BY <1>1, Invariance, PTL

\* No call of duk_fatal in incRef or decRef is reachable.
THEOREM NeverFatal ==
  ASSUME SelfOwnedSource = FALSE
  PROVE  Spec => []NoFatal
<1>1. IInv => NoFatal
  BY DEF IInv, OpInv
<1> QED
  BY <1>1, Invariance, PTL

\* Heap destruction leaves no counted handle and no stash entry.
THEOREM TeardownIsClean ==
  ASSUME SelfOwnedSource = FALSE
  PROVE  Spec => []TeardownClean
<1>1. IInv => TeardownClean
  <2> SUFFICES ASSUME IInv, phase = "destroyed" PROVE TeardownClean
    BY DEF TeardownClean
  <2>1. \A s \in Slots : slot[s] \notin Addr
    <3> SUFFICES ASSUME NEW s \in Slots PROVE slot[s] \notin Addr
      OBVIOUS
    <3>1. CASE Owner[s] = None
      BY <3>1 DEF IInv, HeapInv, Locals
    <3>2. CASE Owner[s] # None
      BY <3>2, HandleAssumption DEF IInv, HeapInv, MemberInv
    <3> QED
      BY <3>1, <3>2
  <2>2. \A a \in Addr : refCount[a] = 0
    <3>1. \A a \in Addr : Owners(a) = {}
      BY <2>1 DEF Owners
    <3> QED
      BY <3>1, FS_EmptySet DEF IInv, RefCountExact
  <2> QED
    BY <2>1, <2>2 DEF TeardownClean
<1> QED
  BY <1>1, Invariance, PTL

(***************************************************************************)
(* An address that objects come to, in user code or in a finalizer that    *)
(* runs inside decRef, is the key of no entry, and no handle has it but    *)
(* the one whose assignment is about to overwrite it.                      *)
(***************************************************************************)
THEOREM AddressesAreFresh ==
  ASSUME SelfOwnedSource = FALSE
  PROVE  Spec => FreshAddress
<1> DEFINE Fresh(a) == heap[a] = "free" /\ heap'[a] = "live" =>
                         refCount[a] = 0 /\ \A s \in Slots : slot[s] = a => Overwritten(s)
<1>1. ASSUME IInv, [Next]_vars, NEW a \in Addr PROVE Fresh(a)
  <2> SUFFICES ASSUME heap[a] = "free", heap'[a] = "live"
               PROVE  refCount[a] = 0 /\ \A s \in Slots : slot[s] = a => Overwritten(s)
    OBVIOUS
  <2>1. NewObject(a)
    BY <1>1 DEF IInv, TypeOK, vars, Next, Environment, Call, Run, Finalizer, NewObject, PushHandle, DropRoot,
       DefaultConstruct, ConstructFromHandle, CopyConstruct, MoveConstruct, CopyAssign, MoveAssign,
       BeginAssign, Destroy, DecRef, AssignHandle, IncRef, StoreEntry, Collect, DestroyMember,
       Reclaim, DestroyHeap, HeapGone, Destroyed
  <2>2. phase \in {"running", "destroying"}
    BY <1>1, <2>1, HandleAssumption DEF NewObject, MayPush, UserCode, IInv, HeapInv, TypeOK
  \* A counted handle would refer to a freed object.
  <2>3. ASSUME NEW s \in Slots, Counted(s) PROVE slot[s] # a
    BY <1>1, <2>2, <2>3 DEF IInv, OwnedLive, HeapInv
  \* What is being counted is kept by ES code or by the handle it was copied from.
  <2>4. ASSUME op.pc \in {"inc", "store"}, slot[op.this] = a PROVE FALSE
    <3>1. phase = "running" /\ op.this \in Slots
      BY <1>1, <2>4 DEF IInv, OpInv
    <3>2. a \notin roots
      BY <1>1, <3>1 DEF IInv, HeapInv
    <3>3. op.other \in Slots \ {op.this} /\ slot[op.other] = a
      BY <1>1, <2>4, <3>2 DEF IInv, OpInv, IncInv
    <3> QED
      BY <2>3, <3>3 DEF Counted
  <2>5. \A s \in Slots : slot[s] = a => Overwritten(s)
    BY <2>3, <2>4 DEF Counted, Overwritten
  <2>6. Owners(a) = {}
    BY <2>3 DEF Owners
  <2> QED
    BY <1>1, <2>5, <2>6, FS_EmptySet DEF IInv, RefCountExact
<1>2. IInv /\ [Next]_vars => [\A a \in Addr : Fresh(a)]_vars
  BY <1>1
<1> QED
  BY <1>2, Invariance, PTL DEF Spec, FreshAddress

-----------------------------------------------------------------------------
(* Refinement: SafeHandle implements OwnedHeap; each step is one step of   *)
(* the abstract heap, or leaves it as it is.                               *)

live == {a \in Addr : heap[a] = "live"}

LEMMA InitMaps == Init => Abstract!Init
<1> SUFFICES ASSUME Init PROVE Abstract!Init
  OBVIOUS
<1>1. \A s \in Slots : ~Counted(s)
  BY HandleAssumption DEF Init, Counted
<1>2. owned = [s \in Slots |-> None]
  BY <1>1 DEF owned
<1> QED
  BY <1>2 DEF Init, Abstract!Init

\* Ownership in the primed state, pointwise.
LEMMA OwnedSame ==
  ASSUME \A s \in Slots : (Counted(s)' <=> Counted(s)) /\ (Counted(s) => slot'[s] = slot[s])
  PROVE  owned' = owned
BY DEF owned

LEMMA OwnedUpdate ==
  ASSUME NEW t \in Slots, NEW v,
         v = IF Counted(t)' THEN slot'[t] ELSE None,
         \A s \in Slots \ {t} : (Counted(s)' <=> Counted(s)) /\ (Counted(s) => slot'[s] = slot[s])
  PROVE  owned' = [owned EXCEPT ![t] = v]
BY DEF owned

LEMMA TransferMaps ==
  ASSUME IInv, NEW s \in Slots, NEW o \in Slots, s # o, ~Counted(s), Alive(o),
         slot' = [slot EXCEPT ![s] = slot[o], ![o] = Empty],
         op' = Idle, op = Idle \/ op.this = s,
         UNCHANGED <<heap, roots, phase>>
  PROVE  Abstract!Transfer(s, o)
<1> USE HandleAssumption
<1>1. \A t \in Slots \ {s, o} : (Counted(t)' <=> Counted(t)) /\ slot'[t] = slot[t]
  BY DEF IInv, TypeOK, Counted, Idle
<1>2. slot'[s] = slot[o] /\ slot'[o] = Empty /\ slot[o] \in Addr \cup {Empty}
  BY DEF IInv, TypeOK, Alive
<1>3. ~Counted(o)' /\ (Counted(s)' <=> slot[o] \in Addr) /\ (Counted(o) <=> slot[o] \in Addr)
  BY <1>2 DEF Counted, Idle
<1>4. owned[s] = None /\ owned[o] = IF slot[o] \in Addr THEN slot[o] ELSE None
  BY <1>3 DEF owned
<1>5. owned' = [owned EXCEPT ![s] = owned[o], ![o] = None]
  <2>1. owned'[o] = None /\ owned'[s] = owned[o]
    BY <1>2, <1>3, <1>4 DEF owned
  <2>2. \A t \in Slots \ {s, o} : owned'[t] = owned[t]
    BY <1>1 DEF owned
  <2>3. owned' = [t \in Slots |-> owned'[t]] /\ owned = [t \in Slots |-> owned[t]]
    BY DEF owned
  <2> QED
    BY <2>1, <2>2, <2>3
<1> QED
  BY <1>4, <1>5 DEF Abstract!Transfer

LEMMA EnvironmentMaps ==
  ASSUME IInv, Environment
  PROVE  Abstract!Next
<1> USE HandleAssumption
<1>1. ASSUME NEW a \in Addr, NewObject(a) PROVE Abstract!Create(a)
  <2> USE <1>1 DEF NewObject
  <2>1. \A s \in Members(a) : slot[s] = Dead
    BY DEF IInv, MemberInv, Members
  <2>2. owned' = owned
    BY <2>1, OwnedSame DEF IInv, TypeOK, Counted
  <2>3. live' = live \cup {a} /\ a \notin live
    BY DEF IInv, TypeOK, live
  <2> QED
    BY <2>2, <2>3 DEF Abstract!Create, live
<1>2. ASSUME NEW a \in Addr, DropRoot(a) PROVE Abstract!Drop(a)
  <2>1. owned' = owned
    BY <1>2, OwnedSame DEF DropRoot, Counted
  <2> QED
    BY <1>2, <2>1 DEF DropRoot, UserCode, Abstract!Drop
<1>3. ASSUME NEW s \in Slots, PushHandle(s) PROVE \E a \in Addr : Abstract!Keep(a)
  <2>1. owned' = owned
    BY <1>3, OwnedSame DEF PushHandle, Counted
  <2>2. owned[s] = slot[s]
    BY <1>3 DEF PushHandle, UserCode, owned, Counted, Idle
  <2>3. Abstract!Keep(slot[s])
    BY <1>3, <2>1, <2>2 DEF PushHandle, UserCode, Abstract!Keep
  <2> QED
    BY <1>3, <2>3 DEF PushHandle
<1> QED
  BY <1>1, <1>2, <1>3 DEF Environment, Abstract!Next

LEMMA CallMaps ==
  ASSUME IInv, Call
  PROVE  Abstract!Next \/ UNCHANGED Abstract!vars
<1> USE HandleAssumption
<1>0. op = Idle /\ op.pc = "idle" /\ op.this = None
  BY DEF Call, DefaultConstruct, ConstructFromHandle, CopyConstruct, MoveConstruct,
         CopyAssign, MoveAssign, BeginAssign, Destroy, UserCode, Idle
<1>1. ASSUME NEW s \in Slots, NEW o \in Slots, MoveConstruct(s, o) PROVE Abstract!Transfer(s, o)
  BY <1>0, <1>1, TransferMaps DEF MoveConstruct, Moved, Alive, Counted
<1>2. ASSUME NEW s \in Slots,
             \/ DefaultConstruct(s)
             \/ \E a \in Addr : ConstructFromHandle(s, a)
             \/ \E o \in Slots : CopyConstruct(s, o)
      PROVE  UNCHANGED Abstract!vars
  <2>1. ~Counted(s) /\ ~Counted(s)'
    BY <1>0, <1>2 DEF DefaultConstruct, ConstructFromHandle, CopyConstruct, Counted, Begin, IInv, TypeOK
  <2>2. \A t \in Slots \ {s} : (Counted(t)' <=> Counted(t)) /\ slot'[t] = slot[t]
    BY <1>0, <1>2 DEF DefaultConstruct, ConstructFromHandle, CopyConstruct, Counted, Begin, IInv, TypeOK
  <2>3. owned' = owned
    BY <2>1, <2>2, OwnedSame
  <2> QED
    BY <1>2, <2>3 DEF DefaultConstruct, ConstructFromHandle, CopyConstruct, Abstract!vars
<1>3. ASSUME NEW s \in Slots,
             Destroy(s) \/ \E o \in Slots : CopyAssign(s, o) \/ MoveAssign(s, o)
      PROVE  UNCHANGED Abstract!vars
  <2>1. owned' = owned
    BY <1>0, <1>3, OwnedSame DEF Destroy, CopyAssign, MoveAssign, BeginAssign, Begin, Counted
  <2> QED
    BY <1>3, <2>1 DEF Destroy, CopyAssign, MoveAssign, BeginAssign, Abstract!vars
<1> QED
  BY <1>1, <1>2, <1>3 DEF Call, Abstract!Next

LEMMA RunMaps ==
  ASSUME IInv, IInv', Run
  PROVE  Abstract!Next \/ UNCHANGED Abstract!vars
<1> USE HandleAssumption
<1>a. op.this \in Slots
  BY DEF Run, DecRef, AssignHandle, IncRef, StoreEntry, Step, IInv, OpInv
<1> PICK s \in Slots : s = op.this
  BY <1>a
<1>0. /\ s = op.this /\ phase = "running" /\ heap' = heap /\ roots' = roots /\ phase' = phase
  BY DEF Run, DecRef, AssignHandle, IncRef, StoreEntry, Step, IInv, OpInv
<1>1. CASE DecRef
  <2>1. /\ op.pc = "dec" /\ op'.pc # "fatal"
        /\ \/ slot' = [slot EXCEPT ![s] = Dead] /\ op' = Idle
           \/ slot' = slot /\ op'.pc = "assign" /\ op'.this = s
    BY <1>0, <1>1 DEF DecRef, Step, Return, Goto, Begin, IInv, OpInv, NoFatal
  <2>2. ~Counted(s)'
    BY <1>0, <2>1 DEF Counted, IInv, TypeOK
  <2>3. \A t \in Slots \ {s} : (Counted(t)' <=> Counted(t)) /\ slot'[t] = slot[t]
    BY <1>0, <2>1 DEF Counted, IInv, TypeOK, Idle
  <2>4. owned' = [owned EXCEPT ![s] = None]
    BY <1>0, <2>2, <2>3, OwnedUpdate
  <2>5. Abstract!Release(s)
    BY <1>0, <2>4 DEF Abstract!Release
  <2> QED
    BY <1>0, <2>5 DEF Abstract!Next
<1>2. CASE AssignHandle
  <2>a. op.other \in Slots
    BY <1>2 DEF AssignHandle, Step, IInv, OpInv, AssignInv
  <2> PICK o \in Slots : o = op.other
    BY <2>a
  <2>0. /\ op.pc = "assign" /\ o = op.other /\ s # o /\ Alive(o) /\ Reads(o) = {slot[o]} /\ ~Counted(s)
    BY <1>0, <1>2 DEF AssignHandle, Step, IInv, OpInv, AssignInv, Secured, Reads, Counted
  <2>1. CASE slot' = [slot EXCEPT ![s] = slot[o], ![o] = Empty] /\ op' = Idle
    <3>1. Abstract!Transfer(s, o)
      BY <1>0, <2>0, <2>1, TransferMaps
    <3> QED
      BY <1>0, <2>0, <3>1 DEF Abstract!Next
  <2>2. CASE slot' = [slot EXCEPT ![s] = slot[o]] /\ op'.pc = "inc" /\ op'.this = s
    <3>1. owned' = owned
      <4>1. ~Counted(s)' /\ \A t \in Slots \ {s} : (Counted(t)' <=> Counted(t)) /\ slot'[t] = slot[t]
        BY <1>0, <2>0, <2>2 DEF Counted, IInv, TypeOK
      <4> QED
        BY <2>0, <4>1, OwnedSame
    <3> QED
      BY <1>0, <3>1 DEF Abstract!vars
  <2> QED
    BY <1>0, <1>2, <2>0, <2>1, <2>2 DEF AssignHandle, Moved, Return, Goto, Begin
<1>3. CASE (op.pc \in {"inc", "store"} /\ slot[s] \in Addr /\ op' = Idle /\ slot' = slot)
  <2>1. Counted(s)' /\ ~Counted(s)
    BY <1>0, <1>3 DEF Counted, Idle
  <2>2. \A t \in Slots \ {s} : (Counted(t)' <=> Counted(t))
    BY <1>0, <1>3 DEF Counted, Idle
  <2>3. owned' = [owned EXCEPT ![s] = slot[s]] /\ owned[s] = None
    BY <1>0, <1>3, <2>1, <2>2, OwnedUpdate DEF owned
  <2>4. slot[s] \in live
    BY <1>0, <1>3, <2>1 DEF IInv, OwnedLive, live
  <2>5. Abstract!Acquire(s, slot[s])
    BY <1>0, <2>3, <2>4 DEF Abstract!Acquire, live
  <2> QED
    BY <1>0, <1>3, <2>5 DEF Abstract!Next
<1>4. CASE /\ op.pc = "inc" /\ slot' = slot
           /\ \/ op' = Idle /\ slot[s] = Empty
              \/ op'.pc = "store" /\ op'.this = s
  <2>1. owned' = owned
    BY <1>0, <1>4, OwnedSame DEF Counted, Idle
  <2> QED
    BY <1>0, <2>1 DEF Abstract!vars
<1>5. CASE IncRef
  BY <1>0, <1>3, <1>4, <1>5 DEF IncRef, Step, Return, Goto, Begin
<1>6. CASE StoreEntry
  <2>1. slot[s] \in Addr
    BY <1>0, <1>6 DEF StoreEntry, Step, IInv, OpInv, StoreInv, TypeOK
  <2> QED
    BY <1>0, <1>3, <1>6, <2>1 DEF StoreEntry, Step, Return
<1> QED
  BY <1>1, <1>2, <1>5, <1>6 DEF Run

LEMMA DuktapeMaps ==
  ASSUME IInv, IInv',
         (\E a \in Addr : Collect(a)) \/ Finalizer \/ DestroyHeap \/ HeapGone \/ Destroyed
  PROVE  Abstract!Next \/ UNCHANGED Abstract!vars
<1> USE HandleAssumption
<1>1. ASSUME NEW a \in Addr, Collect(a) PROVE Abstract!Reclaim(a)
  <2>1. owned' = owned
    BY <1>1, OwnedSame DEF Collect, Counted
  <2>2. live' = live \ {a}
    BY <1>1 DEF Collect, live, IInv, TypeOK
  <2>3. phase = "running" => a \notin roots /\ \A s \in Slots : owned[s] # a
    BY <1>1, CountedEntry DEF Collect, Unreachable, owned, IInv
  <2> QED
    BY <1>1, <2>1, <2>2, <2>3 DEF Collect, Abstract!Reclaim, live
<1>2. ASSUME NEW s \in Slots, DestroyMember(s) PROVE Abstract!Release(s)
  <2>1. slot' = [slot EXCEPT ![s] = Dead] /\ op' = op
    BY <1>2 DEF DestroyMember, IInv, OpInv, NoFatal, Goto, Begin
  <2>2. ~Counted(s)' /\ \A t \in Slots \ {s} : (Counted(t)' <=> Counted(t)) /\ slot'[t] = slot[t]
    BY <2>1 DEF Counted, IInv, TypeOK
  <2>3. owned' = [owned EXCEPT ![s] = None]
    BY <2>2, OwnedUpdate
  <2> QED
    BY <1>2, <2>3 DEF DestroyMember, Abstract!Release
<1>3. ASSUME Reclaim PROVE UNCHANGED Abstract!vars
  <2>1. owned' = owned
    BY <1>3, OwnedSame DEF Reclaim, Counted
  <2>2. live' = live
    BY <1>3 DEF Reclaim, live, IInv, TypeOK, HeapInv
  <2> QED
    BY <1>3, <2>1, <2>2 DEF Reclaim, Abstract!vars, live
<1>4. ASSUME DestroyHeap PROVE Abstract!Close
  <2>1. owned' = owned
    BY <1>4, OwnedSame DEF DestroyHeap, Counted
  <2> QED
    BY <1>4, <2>1 DEF DestroyHeap, Abstract!Close
<1>5. ASSUME HeapGone PROVE Abstract!Forget
  <2>1. owned' = owned
    BY <1>5, OwnedSame DEF HeapGone, Counted
  <2>2. live' = live
    BY <1>5 DEF HeapGone, live, IInv, TypeOK
  <2> QED
    BY <1>5, <2>1, <2>2 DEF HeapGone, Abstract!Forget, live
<1>6. ASSUME Destroyed PROVE UNCHANGED Abstract!vars
  BY <1>6, OwnedSame DEF Destroyed, vars, Abstract!vars, Counted
<1> QED
  BY <1>1, <1>2, <1>3, <1>4, <1>5, <1>6 DEF Finalizer, Abstract!Next

(***************************************************************************)
(* Reference counting through the global stash implements ownership, for   *)
(* every set of handles, objects and embeddings.                           *)
(***************************************************************************)
THEOREM SafeHandleImplementsOwnedHeap ==
  ASSUME SelfOwnedSource = FALSE
  PROVE  Spec => ImplementsOwnedHeap
<1>1. Init => Abstract!Init
  BY InitMaps
<1>2. IInv /\ [Next]_vars => IInv'
  BY NextPreserves
<1>3. IInv /\ IInv' /\ [Next]_vars => [Abstract!Next]_(Abstract!vars)
  <2>1. ASSUME UNCHANGED vars PROVE UNCHANGED Abstract!vars
    BY <2>1, OwnedSame DEF vars, Abstract!vars, Counted
  <2> QED
    BY <2>1, EnvironmentMaps, CallMaps, RunMaps, DuktapeMaps DEF Next
<1> QED
  BY <1>1, <1>2, <1>3, Invariance, PTL DEF Spec, Abstract!Spec, ImplementsOwnedHeap
=============================================================================
