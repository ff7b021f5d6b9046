----------------------------- MODULE SafeHandle -----------------------------
(***************************************************************************)
(* duk::safe_handle (include/duk/safe_handle.h): the owning handle.  Every *)
(* safe_handle variable of the program is a slot.  A slot holds the raw    *)
(* address of a Duktape object; the object is kept alive by an entry of    *)
(* the global stash whose key is that address and whose Info counts the    *)
(* slots that refer to it.                                                 *)
(*                                                                         *)
(* A slot is a local variable of the C++ program (Owner[s] = None), or a   *)
(* member of the C++ value wrapped by the object at address Owner[s]:      *)
(* constructed with that object, destroyed by its finalizer.  Duktape may  *)
(* collect an unreachable object whenever one of its functions runs, so    *)
(* each safe_handle operation is split where a finalizer can run inside it.*)
(***************************************************************************)
EXTENDS Naturals, FiniteSets

CONSTANTS
  Slots,            \* the safe_handle variables of the program
  Addr,             \* heap addresses; an address is reused after a free
  Owner,            \* slot -> address of the object that embeds it, or None
  SelfOwnedSource,  \* may an assignment read a slot that only its target keeps alive?
  Empty,            \* a constructed slot that refers to nothing
  Dead,             \* storage of a slot that is not constructed
  None              \* no slot / no object / no owner

ASSUME HandleAssumption ==
  /\ IsFiniteSet(Slots)
  /\ Owner \in [Slots -> Addr \cup {None}]
  /\ SelfOwnedSource \in BOOLEAN
  /\ Empty \notin Addr /\ Dead \notin Addr /\ Empty # Dead
  /\ None \notin Addr /\ None \notin Slots

VARIABLES
  slot,      \* slot -> handle_ of that safe_handle
  refCount,  \* address -> Info::refCount of its stash entry, 0 when there is no entry
  heap,      \* address -> state of the object there
  roots,     \* objects that ES code or the value stack keeps reachable
  op,        \* the safe_handle member function being executed
  fin,       \* the object whose finalizer is running (Duktape runs one at a time)
  phase      \* of the Duktape heap: running, destroying, destroyed

vars == <<slot, refCount, heap, roots, op, fin, phase>>

Calls == {"none", "construct", "copyAssign", "moveAssign", "destroy"}
PCs == {"idle", "dec", "assign", "inc", "store", "fatal"}
Idle == [call |-> "none", this |-> None, other |-> None, pc |-> "idle"]
Begin(call, s, o, pc) == op' = [call |-> call, this |-> s, other |-> o, pc |-> pc]
Goto(pc) == Begin(op.call, op.this, op.other, pc)
Return == op' = Idle

Locals == {s \in Slots : Owner[s] = None}
Members(a) == {s \in Slots : Owner[s] = a}

\* User code runs: no member function and no finalizer is in progress.
UserCode == phase = "running" /\ op = Idle /\ fin = None

(***************************************************************************)
(* Slot s may be used while slot t is being changed: s is a local, or the  *)
(* object it is a member of is kept by ES code or by a local other than t. *)
(***************************************************************************)
HeldWithout(s, t) ==
  \/ Owner[s] = None
  \/ Owner[s] \in roots
  \/ \E l \in Locals \ {t} : slot[l] = Owner[s]

Readable(o, s) == HeldWithout(o, IF SelfOwnedSource THEN None ELSE s)

Alive(s) == slot[s] # Dead

(***************************************************************************)
(* What handle_ of slot o reads as.  Reading a destroyed slot is undefined *)
(* behaviour: any value may come out of its storage.                       *)
(***************************************************************************)
Reads(o) == IF Alive(o) THEN {slot[o]} ELSE Addr \cup {Empty}

Init ==
  /\ slot = [s \in Slots |-> Dead]
  /\ refCount = [a \in Addr |-> 0]
  /\ heap = [a \in Addr |-> "free"]
  /\ roots = {}
  /\ op = Idle
  /\ fin = None
  /\ phase = "running"

-----------------------------------------------------------------------------
(* The environment: ES code and the objects it keeps.                      *)

(***************************************************************************)
(* duk::push of a C++ value: a new object on the value stack, its member   *)
(* slots default-constructed.  The destructor of a value may push objects  *)
(* too; it then runs between two steps of the operation whose decRef       *)
(* released that value, or during heap destruction.                        *)
(***************************************************************************)
MayPush == UserCode \/ (fin # None /\ op.pc # "fatal")

NewObject(a) ==
  /\ MayPush
  /\ heap[a] = "free"
  /\ heap' = [heap EXCEPT ![a] = "live"]
  /\ roots' = roots \cup {a}
  /\ slot' = [s \in Slots |-> IF s \in Members(a) THEN Empty ELSE slot[s]]
  /\ UNCHANGED <<refCount, op, fin, phase>>

\* push_handle(s): the object is on the value stack again.
PushHandle(s) ==
  /\ UserCode
  /\ HeldWithout(s, None)
  /\ slot[s] \in Addr \ roots
  /\ roots' = roots \cup {slot[s]}
  /\ UNCHANGED <<slot, refCount, heap, op, fin, phase>>

\* ES code drops its last reference to the object.
DropRoot(a) ==
  /\ UserCode
  /\ a \in roots
  /\ roots' = roots \ {a}
  /\ UNCHANGED <<slot, refCount, heap, op, fin, phase>>

-----------------------------------------------------------------------------
(* The member functions of safe_handle, called on a local or a live member.*)

DefaultConstruct(s) ==
  /\ UserCode
  /\ s \in Locals /\ slot[s] = Dead
  /\ slot' = [slot EXCEPT ![s] = Empty]
  /\ UNCHANGED <<refCount, heap, roots, op, fin, phase>>

\* safe_handle(const handle&), on a handle to an object the caller keeps reachable.
ConstructFromHandle(s, a) ==
  /\ UserCode
  /\ s \in Locals /\ slot[s] = Dead
  /\ a \in roots
  /\ slot' = [slot EXCEPT ![s] = a]
  /\ Begin("construct", s, None, "inc")
  /\ UNCHANGED <<refCount, heap, roots, fin, phase>>

CopyConstruct(s, o) ==
  /\ UserCode
  /\ s \in Locals /\ slot[s] = Dead
  /\ Alive(o) /\ HeldWithout(o, None)
  /\ slot' = [slot EXCEPT ![s] = slot[o]]
  /\ Begin("construct", s, o, "inc")
  /\ UNCHANGED <<refCount, heap, roots, fin, phase>>

\* The moved-from handle is nulled by handle's move constructor.
KeepMoved(s, o, v) == [slot EXCEPT ![s] = v]
Moved(s, o, v) == [slot EXCEPT ![s] = v, ![o] = IF Alive(o) THEN Empty ELSE Dead]

MoveConstruct(s, o) ==
  /\ UserCode
  /\ s \in Locals /\ slot[s] = Dead
  /\ Alive(o) /\ HeldWithout(o, None)
  /\ slot' = Moved(s, o, slot[o])
  /\ UNCHANGED <<refCount, heap, roots, op, fin, phase>>

\* operator=: returns at once when &other = this; otherwise starts with decRef.
BeginAssign(call, s, o) ==
  /\ UserCode
  /\ s # o
  /\ Alive(s) /\ HeldWithout(s, s)
  /\ Alive(o) /\ Readable(o, s)
  /\ Begin(call, s, o, "dec")
  /\ UNCHANGED <<slot, refCount, heap, roots, fin, phase>>

CopyAssign(s, o) == BeginAssign("copyAssign", s, o)
MoveAssign(s, o) == BeginAssign("moveAssign", s, o)

\* ~safe_handle of a local.
Destroy(s) ==
  /\ UserCode
  /\ s \in Locals /\ Alive(s)
  /\ Begin("destroy", s, None, "dec")
  /\ UNCHANGED <<slot, refCount, heap, roots, fin, phase>>

-----------------------------------------------------------------------------
(* The steps of the member function in progress.  Finalizers run between   *)
(* them, never beside them: the guard is fin = None.                       *)

Step(pc) == op.pc = pc /\ fin = None

\* decRef: refCount after the decrement; at 0 the stash entry and Info are deleted.
DropEntry(n) == 0
DecrementedTwice(n) == n - 2
KeepsLast(n) == IF n > 1 THEN n - 1 ELSE 1
Decremented(n) == n - 1

EntryFound(s) == slot[s] \in Addr => refCount[slot[s]] > 0
NoDecRef(s) == refCount
DecRefed(s) ==
  IF slot[s] \in Addr
  THEN [refCount EXCEPT ![slot[s]] = Decremented(@)]
  ELSE refCount

\* decRef of *this, called by both assignments and by the destructor.
DecRef ==
  /\ Step("dec")
  /\ IF EntryFound(op.this)
     THEN /\ refCount' = DecRefed(op.this)
          /\ IF op.call = "destroy"
             THEN /\ slot' = [slot EXCEPT ![op.this] = Dead]
                  /\ Return
             ELSE /\ Goto("assign")
                  /\ UNCHANGED slot
     ELSE /\ Goto("fatal")
          /\ UNCHANGED <<slot, refCount>>
  /\ UNCHANGED <<heap, roots, fin, phase>>

\* handle_ = other.handle_, only now that decRef is done.
AssignHandle ==
  /\ Step("assign")
  /\ \E v \in Reads(op.other) :
       \/ /\ op.call = "copyAssign"
          /\ slot' = [slot EXCEPT ![op.this] = v]
          /\ Goto("inc")
       \/ /\ op.call = "moveAssign"
          /\ slot' = Moved(op.this, op.other, v)
          /\ Return
  /\ UNCHANGED <<refCount, heap, roots, fin, phase>>

\* incRef: the entry is found and its Info counted up, or has to be created.
NoIncrement(n) == n
Incremented(n) == n + 1

IncRef ==
  /\ Step("inc")
  /\ LET h == slot[op.this]
     IN  \/ /\ h = Empty
            /\ Return
            /\ UNCHANGED refCount
         \/ /\ h \in Addr
            /\ refCount[h] > 0
            /\ refCount' = [refCount EXCEPT ![h] = Incremented(@)]
            /\ Return
         \/ /\ h \in Addr
            /\ refCount[h] = 0
            /\ Goto("store")
            /\ UNCHANGED refCount
  /\ UNCHANGED <<slot, heap, roots, fin, phase>>

\* incRef, no entry: an array with the object and a new Info goes into the stash.
StoreEntry ==
  /\ Step("store")
  /\ refCount' = [refCount EXCEPT ![slot[op.this]] = 1]
  /\ Return
  /\ UNCHANGED <<slot, heap, roots, fin, phase>>

-----------------------------------------------------------------------------
(* Duktape: collection and heap destruction.                               *)

(***************************************************************************)
(* The finalizer of an unreachable object starts.  heap destruction        *)
(* finalizes the reachable objects too.                                    *)
(***************************************************************************)
Unreachable(a) == a \notin roots /\ refCount[a] = 0

Collect(a) ==
  /\ fin = None
  /\ op.pc # "fatal"
  /\ heap[a] = "live"
  /\ phase = "destroying" \/ (phase = "running" /\ Unreachable(a))
  /\ fin' = a
  /\ heap' = [heap EXCEPT ![a] = "finalizing"]
  /\ UNCHANGED <<slot, refCount, roots, op, phase>>

\* The destructor of the wrapped value destroys one of its members: ~safe_handle.
DestroyMember(s) ==
  /\ fin # None /\ op.pc # "fatal"
  /\ s \in Members(fin) /\ Alive(s)
  /\ IF EntryFound(s)
     THEN /\ refCount' = DecRefed(s)
          /\ slot' = [slot EXCEPT ![s] = Dead]
          /\ UNCHANGED op
     ELSE /\ Goto("fatal")
          /\ UNCHANGED <<slot, refCount>>
  /\ UNCHANGED <<heap, roots, fin, phase>>

\* The value is gone; Duktape frees the object unless the heap is going away.
Reclaim ==
  /\ fin # None
  /\ \A s \in Members(fin) : slot[s] = Dead
  /\ heap' = [heap EXCEPT ![fin] = IF phase = "running" THEN "free" ELSE "finalized"]
  /\ fin' = None
  /\ UNCHANGED <<slot, refCount, roots, op, phase>>

\* duk_destroy_heap, called when no local refers to the heap any more.
DestroyHeap ==
  /\ UserCode
  /\ \A l \in Locals : slot[l] \notin Addr
  /\ phase' = "destroying"
  /\ UNCHANGED <<slot, refCount, heap, roots, op, fin>>

HeapGone ==
  /\ phase = "destroying" /\ fin = None /\ op.pc # "fatal"
  /\ \A a \in Addr : heap[a] \in {"free", "finalized"}
  /\ heap' = [a \in Addr |-> "free"]
  /\ roots' = {}
  /\ phase' = "destroyed"
  /\ UNCHANGED <<slot, refCount, op, fin>>

\* Nothing happens after heap destruction (keeps deadlock checking meaningful).
Destroyed == phase = "destroyed" /\ UNCHANGED vars

-----------------------------------------------------------------------------
Environment ==
  \/ \E a \in Addr : NewObject(a) \/ DropRoot(a)
  \/ \E s \in Slots : PushHandle(s)

Call ==
  \E s \in Slots :
    \/ DefaultConstruct(s)
    \/ \E a \in Addr : ConstructFromHandle(s, a)
    \/ \E o \in Slots : \/ CopyConstruct(s, o)
                        \/ MoveConstruct(s, o)
                        \/ CopyAssign(s, o)
                        \/ MoveAssign(s, o)
    \/ Destroy(s)

Run == DecRef \/ AssignHandle \/ IncRef \/ StoreEntry

Finalizer == Reclaim \/ \E s \in Slots : DestroyMember(s)

Next ==
  \/ Environment
  \/ Call
  \/ Run
  \/ \E a \in Addr : Collect(a)
  \/ Finalizer
  \/ DestroyHeap
  \/ HeapGone
  \/ Destroyed

Spec == Init /\ [][Next]_vars

(***************************************************************************)
(* A C++ function that was called and a finalizer that was started run on; *)
(* Duktape's reference counting collects what became unreachable, and      *)
(* duk_destroy_heap, once called, finishes.  ES code and the callers of    *)
(* safe_handle are under no obligation.                                    *)
(***************************************************************************)
Fairness ==
  /\ WF_vars(Run)
  /\ WF_vars(Finalizer)
  /\ \A a \in Addr : WF_vars(Collect(a))
  /\ WF_vars(HeapGone)

FairSpec == Spec /\ Fairness

-----------------------------------------------------------------------------
(* Properties.                                                             *)

TypeOK ==
  /\ slot \in [Slots -> Addr \cup {Empty, Dead}]
  /\ refCount \in [Addr -> Nat]
  /\ heap \in [Addr -> {"free", "live", "finalizing", "finalized"}]
  /\ roots \in SUBSET Addr
  /\ op \in [call : Calls, this : Slots \cup {None}, other : Slots \cup {None}, pc : PCs]
  /\ fin \in Addr \cup {None}
  /\ phase \in {"running", "destroying", "destroyed"}

\* Slot s is accounted for in refCount: not the slot an operation is working on
\* after its decRef or before its incRef is done.
Counted(s) ==
  /\ slot[s] \in Addr
  /\ ~(s = op.this /\ op.pc \in {"assign", "inc", "store"})

Owners(a) == {s \in Slots : Counted(s) /\ slot[s] = a}

(***************************************************************************)
(* The count in the stash is the number of safe_handles that refer to the  *)
(* object, in every intermediate state of incRef and decRef and whatever   *)
(* finalizers run inside them: no copy, move, assignment or destructor     *)
(* loses or doubles a reference (safe_handle.h 21-64).                     *)
(***************************************************************************)
RefCountExact == \A a \in Addr : refCount[a] = Cardinality(Owners(a))

(***************************************************************************)
(* A safe_handle "prevents pointed value from being garbage collected"     *)
(* (README): until heap destruction, what a counted slot points to is a    *)
(* live object, so the address was neither freed nor reused.               *)
(***************************************************************************)
OwnedLive ==
  \A s \in Slots : phase = "running" /\ Counted(s) => heap[slot[s]] = "live"

(***************************************************************************)
(* decRef always finds the entry of a non-empty handle, in user code, in   *)
(* a finalizer and during heap destruction: no "handle corrupted".         *)
(***************************************************************************)
NoFatal == op.pc # "fatal"

(***************************************************************************)
(* A raw address is a sound key of the stash.  decRef leaves the released  *)
(* address in handle_ while finalizers run, which may push objects: the    *)
(* address is reused under it.  But when an object comes to an address, no *)
(* entry is keyed by it, and the only handle that may have it is one whose *)
(* assignment is past decRef and about to overwrite it (safe_handle.h      *)
(* 42-43, 54-55).                                                          *)
(***************************************************************************)
Overwritten(s) == s = op.this /\ op.pc = "assign"
FreshAddress ==
  [][\A a \in Addr : heap[a] = "free" /\ heap'[a] = "live" =>
        refCount[a] = 0 /\ \A s \in Slots : slot[s] = a => Overwritten(s)]_vars

(***************************************************************************)
(* Heap destruction releases everything: every wrapped value is destroyed, *)
(* and with the last member handle the last stash entry and Info, even for *)
(* handles that form a cycle through the stash.                            *)
(***************************************************************************)
TeardownClean ==
  phase = "destroyed" =>
    /\ \A s \in Slots : slot[s] \notin Addr
    /\ \A a \in Addr : refCount[a] = 0

\* Every operation and the finalizers that run inside it finish.
OperationReturns == (op # Idle) ~> (op = Idle)

\* Ownership among objects is free of cycles, as far as live objects go.
Acyclic == \A S \in SUBSET {a \in Addr : heap[a] = "live"} \ {{}} :
             \E a \in S : \A s \in Members(a) : slot[s] \notin S

(***************************************************************************)
(* Releasing the last handle releases what the wrapped value owns, and so  *)
(* on down the chain: when the program keeps no local handle and ES code   *)
(* no object, everything is reclaimed, unless handles form a cycle.        *)
(***************************************************************************)
Abandoned == roots = {} /\ (\A l \in Locals : slot[l] \notin Addr) /\ Acyclic
ChainReclaimed ==
  <>[]Abandoned => <>[](\A a \in Addr : heap[a] \in {"free", "finalized"} /\ refCount[a] = 0)

-----------------------------------------------------------------------------
(***************************************************************************)
(* The inductive invariant.  Besides the properties above it says why a    *)
(* member function in progress cannot lose what it works on.               *)
(***************************************************************************)

\* The slots an assignment works on are alive, and something other than its
\* target keeps the objects that embed them.
Secured(s, t) == Alive(s) /\ HeldWithout(s, t)

DecInv ==
  op.pc = "dec" =>
    \/ op.call = "destroy" /\ op.this \in Locals /\ Alive(op.this)
    \/ op.call \in {"copyAssign", "moveAssign"}

AssignInv ==
  op.pc \in {"dec", "assign"} /\ op.call # "destroy" =>
    /\ op.call \in {"copyAssign", "moveAssign"}
    /\ op.other \in Slots \ {op.this}
    /\ Secured(op.this, op.this)
    /\ Secured(op.other, op.this)

\* What is about to be counted is kept by ES code or by the slot it was copied from.
IncInv ==
  op.pc \in {"inc", "store"} =>
    /\ Secured(op.this, op.this)
    /\ slot[op.this] \in Addr \ roots =>
         /\ op.other \in Slots \ {op.this}
         /\ slot[op.other] = slot[op.this]
         /\ HeldWithout(op.other, op.this)

StoreInv == op.pc = "store" => slot[op.this] \in roots /\ refCount[slot[op.this]] = 0

OpInv ==
  /\ NoFatal
  /\ op.pc = "idle" => op = Idle
  /\ op.pc # "idle" => op.this \in Slots /\ phase = "running"
  /\ op.pc = "assign" => op.call # "destroy"
  /\ DecInv /\ AssignInv /\ IncInv /\ StoreInv

\* A member slot lives exactly as long as the value that embeds it.
MemberInv ==
  \A s \in Slots : Owner[s] # None =>
    /\ heap[Owner[s]] = "live" => Alive(s)
    /\ heap[Owner[s]] \in {"free", "finalized"} => slot[s] = Dead

HeapInv ==
  /\ \A a \in Addr : heap[a] = "finalizing" <=> fin = a
  /\ phase = "running" =>
       /\ \A a \in roots : heap[a] = "live"
       /\ \A a \in Addr : heap[a] # "finalized"
  /\ phase # "running" => \A l \in Locals : slot[l] \notin Addr
  /\ phase = "destroying" => \A s \in Slots : Counted(s) => heap[slot[s]] # "free"
  /\ phase = "destroyed" => \A a \in Addr : heap[a] = "free"

IInv == TypeOK /\ RefCountExact /\ OwnedLive /\ OpInv /\ MemberInv /\ HeapInv

(***************************************************************************)
(* The abstract heap: a slot owns what it is counted for.                  *)
(***************************************************************************)
owned == [s \in Slots |-> IF Counted(s) THEN slot[s] ELSE None]

Abstract == INSTANCE OwnedHeap WITH
  owns <- owned,
  alive <- {a \in Addr : heap[a] = "live"},
  kept <- roots,
  open <- phase = "running"

(***************************************************************************)
(* Counting through the stash implements ownership: every step of an       *)
(* operation, a finalizer or a collection is one step of OwnedHeap or none.*)
(***************************************************************************)
ImplementsOwnedHeap == Abstract!Spec
=============================================================================
