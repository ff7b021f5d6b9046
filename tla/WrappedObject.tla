---------------------------- MODULE WrappedObject ----------------------------
(***************************************************************************)
(* C++ values and callables that live inside ES objects                    *)
(* (include/duk/detail/type_traits.h, function_wrapper.h).                 *)
(*                                                                         *)
(* duk::push allocates a block for the value (ObjectInfoImpl, or the       *)
(* callable itself), puts its address into an internal property of an ES   *)
(* object and gives that object a finalizer that frees the block.          *)
(* duk::finalize frees the block early and deletes the property; a call    *)
(* borrows the value for as long as the C++ function runs.                 *)
(*                                                                         *)
(* Every allocation may collect objects, and the finalizers and            *)
(* destructors that then run may call dukcpp again.  Such calls nest in    *)
(* the program; here pushes, finalizations and calls may overlap in any    *)
(* order, which includes every nesting.                                    *)
(***************************************************************************)
EXTENDS Integers, Sequences, FiniteSets

CONSTANTS
  Objects,       \* ES objects; one that was collected can be created again
  Blocks,        \* memory blocks for C++ values; reused after they are freed
  MaxStack,      \* bound: length of the value stack
  MaxCalls,      \* bound: nested calls that borrow a value
  MaxNested,     \* bound: pushes and finalizations in progress
  MaxFailures,   \* bound: errors thrown inside duk::push
  AbsoluteIndex, \* is duk::finalize also called with a non-negative index?
  Inherit,       \* may the prototype of an object be a wrapped object?
  PushAgain,     \* is a second value pushed during one constructor call?
  None

Raw == "raw"  \* what an allocated block holds before its value is constructed
Causes == {"reentered", "stale", "freed"}  \* how freed memory comes to be used

ASSUME WrappedAssumption ==
  /\ IsFiniteSet(Objects) /\ IsFiniteSet(Blocks)
  /\ None \notin Objects \cup Blocks \cup Causes
  /\ Raw \notin Objects \cup {None}
  /\ {MaxStack, MaxCalls, MaxNested, MaxFailures} \subseteq Nat
  /\ {AbsoluteIndex, Inherit, PushAgain} \subseteq BOOLEAN

VARIABLES
  obj,        \* the ES objects
  value,      \* block -> object whose C++ value it holds, None when it is free,
              \* Raw when it was allocated and holds no value
  stack,      \* the value stack: objects
  kept,       \* objects ES code keeps reachable otherwise
  this,       \* `this` of the constructor call in progress
  borrowed,   \* object and block each C++ call in progress has a reference to
  pushes,     \* block -> the duk::push in progress that puts it into an object
  finalizing, \* object -> its finalization in progress
  failures,   \* duk::push calls that an error left half done
  undefined,  \* how the program came to use freed memory
  phase       \* of the Duktape heap

vars == <<obj, value, stack, kept, this, borrowed, pushes, finalizing, failures,
          undefined, phase>>

Kinds == {"object", "function"}

\* ran: has the finalizer run?  "rescued": it has, and the object lives on.
Absent == [live |-> FALSE, kind |-> "object", info |-> None, fin |-> FALSE,
           parent |-> None, ran |-> "no"]
Plain(k) == [Absent EXCEPT !.live = TRUE, !.kind = k]

NoPush == [pc |-> "none", kind |-> "object", obj |-> None]
NoFinalization ==
  [pc |-> "none", by |-> "finalize", kind |-> "object", block |-> None, target |-> None]

Live == {o \in Objects : obj[o].live}
PushedInto(o) == {b \in Blocks : pushes[b].pc # "none" /\ pushes[b].obj = o}
Fresh(o) == ~obj[o].live /\ PushedInto(o) = {}

Nested ==
  Cardinality({b \in Blocks : pushes[b].pc # "none"})
    + Cardinality({o \in Objects : finalizing[o].pc # "none"})

(***************************************************************************)
(* duk_get_prop_lstring finds own and inherited properties.  The internal  *)
(* names of objects and of callables differ.                               *)
(***************************************************************************)
OwnProp(o, k) == IF obj[o].kind = k THEN obj[o].info ELSE None
Holder(o, k) ==
  IF OwnProp(o, k) # None \/ obj[o].parent = None THEN o ELSE obj[o].parent
GetProp(o, k) == OwnProp(Holder(o, k), k)

\* Duktape finds the finalizer of an object along its prototype chain too.
Finalizer(o) ==
  IF obj[o].fin \/ obj[o].parent = None THEN o ELSE obj[o].parent
HasFinalizer(o) == obj[Finalizer(o)].fin

(***************************************************************************)
(* What is wrong with the pointer that the property of o yields, if it is  *)
(* used: the value behind it is just being destroyed, the finalizer of its *)
(* object has freed it, or something else has.                             *)
(***************************************************************************)
Misuse(o, k) ==
  LET h == Holder(o, k)
  IN  IF finalizing[h].pc # "none" THEN "reentered"
      ELSE IF obj[h].ran # "no" THEN "stale"
      ELSE IF value[obj[h].info] \in {None, Raw} THEN "freed"
      ELSE None

\* The program cannot be followed any further.
Undefined(cause) ==
  /\ undefined' = cause
  /\ UNCHANGED <<obj, value, stack, kept, this, borrowed, pushes, finalizing, failures, phase>>

\* A value stack index, from the bottom (0, 1, ...) or from the top (-1, -2, ...).
At(st, i) == IF i >= 0 THEN st[i + 1] ELSE st[Len(st) + 1 + i]
Valid(st, i) == IF i >= 0 THEN i < Len(st) ELSE -i <= Len(st)
Target(i) == At(stack, i)

\* The arguments of a call stay on the value stack while the function runs.
NoArguments(call) == {}
Arguments(call) == {call.obj}

OnStack == {stack[j] : j \in 1 .. Len(stack)}
InUse == UNION {Arguments(borrowed[j]) : j \in 1 .. Len(borrowed)}
InProgress(o) == PushedInto(o) # {} \/ finalizing[o].pc # "none"
Root(o) == o \in kept \cup OnStack \cup InUse \cup {this} \/ InProgress(o)
Reachable(o) == Root(o) \/ \E d \in Live : Root(d) /\ obj[d].parent = o

Init ==
  /\ obj = [o \in Objects |-> Absent]
  /\ value = [b \in Blocks |-> None]
  /\ stack = <<>>
  /\ kept = {}
  /\ this = None
  /\ borrowed = <<>>
  /\ pushes = [b \in Blocks |-> NoPush]
  /\ finalizing = [o \in Objects |-> NoFinalization]
  /\ failures = 0
  /\ undefined = None
  /\ phase = "running"

-----------------------------------------------------------------------------
(* ES code: references and prototypes.                                     *)

Load(o) ==
  /\ o \in kept /\ Len(stack) < MaxStack
  /\ stack' = Append(stack, o)
  /\ UNCHANGED <<obj, value, kept, this, borrowed, pushes, finalizing, failures, undefined, phase>>

Keep(o) ==
  /\ o \in OnStack \ kept
  /\ kept' = kept \cup {o}
  /\ UNCHANGED <<obj, value, stack, this, borrowed, pushes, finalizing, failures, undefined, phase>>

Drop(o) ==
  /\ o \in kept
  /\ kept' = kept \ {o}
  /\ UNCHANGED <<obj, value, stack, this, borrowed, pushes, finalizing, failures, undefined, phase>>

Pop ==
  /\ stack # <<>>
  /\ stack' = SubSeq(stack, 1, Len(stack) - 1)
  /\ UNCHANGED <<obj, value, kept, this, borrowed, pushes, finalizing, failures, undefined, phase>>

(***************************************************************************)
(* The code of some finalizer finds an object that was unreachable, or one *)
(* whose finalizer is just running, and keeps it.                          *)
(***************************************************************************)
Rescue(o) ==
  /\ obj[o].live /\ o \notin kept
  /\ ~Reachable(o) \/ (finalizing[o].pc # "none" /\ finalizing[o].by = "collector")
  /\ kept' = kept \cup {o}
  /\ obj' = [obj EXCEPT ![o].ran = IF @ = "yes" THEN "rescued" ELSE @]
  /\ UNCHANGED <<value, stack, this, borrowed, pushes, finalizing, failures, undefined, phase>>

\* Object.create(p), of a plain object or, with Inherit, of any.
Derive(o, p) ==
  /\ Inherit \/ obj[p].info = None
  /\ Fresh(o) /\ p \in kept \ {this} /\ obj[p].parent = None
  /\ obj' = [obj EXCEPT ![o] = [Plain("object") EXCEPT !.parent = p]]
  /\ kept' = kept \cup {o}
  /\ UNCHANGED <<value, stack, this, borrowed, pushes, finalizing, failures, undefined, phase>>

\* new F(): Duktape creates `this` before it calls the bound constructor F.
BeginNew(o) ==
  /\ this = None /\ Fresh(o)
  /\ obj' = [obj EXCEPT ![o] = Plain("object")]
  /\ this' = o
  /\ UNCHANGED <<value, stack, kept, borrowed, pushes, finalizing, failures, undefined, phase>>

EndNew ==
  /\ this # None /\ PushedInto(this) = {}
  /\ kept' = kept \cup {this}
  /\ this' = None
  /\ UNCHANGED <<obj, value, stack, borrowed, pushes, finalizing, failures, undefined, phase>>

-----------------------------------------------------------------------------
(* duk::push of a value or a callable.                                     *)

(***************************************************************************)
(* make: the block is filled first.  The value goes to a new object, or to *)
(* `this` when the running function was called as a constructor.           *)
(***************************************************************************)
Make(k, o, b) ==
  /\ Nested < MaxNested
  /\ value[b] = None
  /\ \/ Fresh(o)
     \/ /\ k = "object" /\ o = this /\ PushedInto(o) = {}
        /\ PushAgain \/ (obj[o].info = None /\ ~obj[o].fin)
  /\ value' = [value EXCEPT ![b] = o]
  /\ pushes' = [pushes EXCEPT ![b] = [pc |-> "made", kind |-> k, obj |-> o]]
  /\ UNCHANGED <<obj, stack, kept, this, borrowed, finalizing, failures, undefined, phase>>

\* The constructor of the value throws: make has allocated the block and does
\* not give it back.  A constructor call may end with the exception.
FailMake(b) ==
  /\ value[b] = None
  /\ failures < MaxFailures
  /\ failures' = failures + 1
  /\ value' = [value EXCEPT ![b] = Raw]
  /\ this' \in {this, None}
  /\ UNCHANGED <<obj, stack, kept, borrowed, pushes, finalizing, undefined, phase>>

\* duk_push_object, duk_push_c_function or duk_push_this.
CreateObject(b) ==
  /\ pushes[b].pc = "made"
  /\ obj' = [obj EXCEPT ![pushes[b].obj] = IF @.live THEN @ ELSE Plain(pushes[b].kind)]
  /\ pushes' = [pushes EXCEPT ![b].pc = "created"]
  /\ UNCHANGED <<value, stack, kept, this, borrowed, finalizing, failures, undefined, phase>>

DefProp(b) ==
  /\ pushes[b].pc = "created"
  /\ obj' = [obj EXCEPT ![pushes[b].obj].info = b]
  /\ pushes' = [pushes EXCEPT ![b].pc = "defined"]
  /\ UNCHANGED <<value, stack, kept, this, borrowed, finalizing, failures, undefined, phase>>

NoFinalizer(o) == obj
WithFinalizer(o) == [obj EXCEPT ![o].fin = TRUE]

PointerOnTop(b) == Append(stack, b)
ObjectOnTop(b) == Append(stack, pushes[b].obj)

SetFinalizer(b) ==
  /\ pushes[b].pc = "defined" /\ Len(stack) < MaxStack
  /\ obj' = WithFinalizer(pushes[b].obj)
  /\ stack' = ObjectOnTop(b)
  /\ pushes' = [pushes EXCEPT ![b] = NoPush]
  /\ UNCHANGED <<value, kept, this, borrowed, finalizing, failures, undefined, phase>>

\* An ES error (no memory) unwinds duk::push; a constructor call ends with it.
FailPush(b) ==
  /\ pushes[b].pc # "none"
  /\ failures < MaxFailures
  /\ failures' = failures + 1
  /\ this' = IF pushes[b].obj = this THEN None ELSE this
  /\ pushes' = [pushes EXCEPT ![b] = NoPush]
  /\ UNCHANGED <<obj, value, stack, kept, borrowed, finalizing, undefined, phase>>

\* duk::clone of a cloneable value: a push of the copy.
Clone(i, o, b) ==
  /\ Valid(stack, i)
  /\ GetProp(Target(i), "object") # None
  /\ IF Misuse(Target(i), "object") # None
     THEN Undefined(Misuse(Target(i), "object"))
     ELSE Make("object", o, b)

-----------------------------------------------------------------------------
(* duk::finalize(ctx, idx).                                                *)

\* The pointer, the finalizer and the result of the call lie on the value
\* stack above the objects while finalize runs.
Above(n) == stack \o [j \in 1 .. n |-> None]

BeginFinalization(o, by, k, b, target) ==
  /\ Nested < MaxNested
  /\ finalizing' = [finalizing EXCEPT ![o] =
       [pc |-> IF b = None THEN "freed" ELSE "destroying",
        by |-> by, kind |-> k, block |-> b, target |-> target]]
  /\ UNCHANGED <<obj, value, stack, kept, this, borrowed, pushes, failures, undefined, phase>>

(***************************************************************************)
(* finalize_object destroys the value found at idx.  The property to be    *)
(* deleted afterwards is that of idx - 1, with one value on the stack      *)
(* above the objects; user code leaves the stack as it was.                *)
(***************************************************************************)
FinalizeObject(i) ==
  /\ Valid(stack, i) /\ (i < 0 \/ AbsoluteIndex)
  /\ GetProp(Target(i), "object") # None
  /\ IF Misuse(Target(i), "object") # None
     THEN Undefined(Misuse(Target(i), "object"))
     ELSE BeginFinalization(Target(i), "finalize", "object",
                            GetProp(Target(i), "object"), At(Above(1), i - 1))

(***************************************************************************)
(* finalize_callable, tried when there is no object property: the          *)
(* finalizer found at idx - 1 is called with the value at idx - 2 and      *)
(* destroys the callable.  No object or no finalizer there is an ES error. *)
(* The property to be deleted is that of idx - 2.                          *)
(***************************************************************************)
FinalizeCallable(i) ==
  /\ Valid(stack, i) /\ (i < 0 \/ AbsoluteIndex)
  /\ GetProp(Target(i), "object") = None
  /\ GetProp(Target(i), "function") # None
  /\ LET f == At(Above(1), i - 1)
         arg == At(Above(2), i - 2)
     IN  /\ f # None /\ arg # None
         /\ HasFinalizer(f)
         /\ LET k == obj[Finalizer(f)].kind
                b == GetProp(arg, k)
            IN  IF b # None /\ Misuse(arg, k) # None
                THEN Undefined(Misuse(arg, k))
                ELSE BeginFinalization(Target(i), "finalize", "function", b, arg)

(***************************************************************************)
(* free: the destructor of the value has run, and its block is returned.   *)
(* With this the finalizer of a collected object is done; its property     *)
(* stays.  duk::finalize has a property to delete.                         *)
(***************************************************************************)
FreeValue(o) ==
  /\ finalizing[o].pc = "destroying"
  /\ IF value[finalizing[o].block] \in {None, Raw}
     THEN Undefined("freed")
     ELSE /\ value' = [value EXCEPT ![finalizing[o].block] = None]
          /\ IF finalizing[o].by = "finalize"
             THEN /\ finalizing' = [finalizing EXCEPT ![o].pc = "freed"]
                  /\ UNCHANGED obj
             ELSE /\ finalizing' = [finalizing EXCEPT ![o] = NoFinalization]
                  /\ obj' = [obj EXCEPT ![o].ran =
                               IF o \in kept \cup OnStack THEN "rescued" ELSE "yes"]
          /\ UNCHANGED <<stack, kept, this, borrowed, pushes, failures, undefined, phase>>

PropKept(t, k) == obj
PropDeleted(t, k) ==
  IF t = None \/ (t # None /\ obj[t].kind # k) THEN obj ELSE [obj EXCEPT ![t].info = None]

DelProp(o) ==
  /\ finalizing[o].pc = "freed"
  /\ obj' = PropDeleted(finalizing[o].target, finalizing[o].kind)
  /\ finalizing' = [finalizing EXCEPT ![o] = NoFinalization]
  /\ UNCHANGED <<value, stack, kept, this, borrowed, pushes, failures, undefined, phase>>

-----------------------------------------------------------------------------
(* Calls: FunctionWrapper::run checks the types, gets references to the    *)
(* values and invokes the C++ function, which may call ES code back.       *)

BeginCall(i) ==
  /\ Len(borrowed) < MaxCalls
  /\ Valid(stack, i)
  /\ \E k \in Kinds :
       /\ GetProp(Target(i), k) # None
       /\ IF Misuse(Target(i), k) # None
          THEN Undefined(Misuse(Target(i), k))
          ELSE /\ borrowed' = Append(borrowed, [obj |-> Target(i), block |-> GetProp(Target(i), k)])
               /\ UNCHANGED <<obj, value, stack, kept, this, pushes, finalizing, failures,
                              undefined, phase>>

EndCall ==
  /\ borrowed # <<>>
  /\ borrowed' = SubSeq(borrowed, 1, Len(borrowed) - 1)
  /\ UNCHANGED <<obj, value, stack, kept, this, pushes, finalizing, failures, undefined, phase>>

-----------------------------------------------------------------------------
(* Duktape.                                                                *)

\* Only Duktape itself is running.
Quiet ==
  /\ \A b \in Blocks : pushes[b].pc = "none"
  /\ \A o \in Objects : finalizing[o].pc = "none"
  /\ this = None /\ borrowed = <<>>

(***************************************************************************)
(* The finalizer of an unreachable object, and of every object when the    *)
(* heap is destroyed, destroys the value behind the property of its own    *)
(* kind.  It runs again only for an object that was rescued.               *)
(***************************************************************************)
RunFinalizer(o) ==
  /\ obj[o].live /\ HasFinalizer(o) /\ obj[o].ran # "yes"
  /\ ~Reachable(o) \/ (phase = "destroying" /\ Quiet)
  /\ LET k == obj[Finalizer(o)].kind
     IN  IF GetProp(o, k) = None
         THEN /\ obj' = [obj EXCEPT ![o].ran = "yes"]
              /\ UNCHANGED <<value, stack, kept, this, borrowed, pushes, finalizing, failures,
                             undefined, phase>>
         ELSE IF Misuse(o, k) # None THEN Undefined(Misuse(o, k))
         ELSE BeginFinalization(o, "collector", k, GetProp(o, k), None)

\* The object itself goes, after its finalizer.
Collect(o) ==
  /\ obj[o].live /\ ~Reachable(o)
  /\ \A d \in Live : obj[d].parent # o
  /\ HasFinalizer(o) => obj[o].ran = "yes"
  /\ obj' = [obj EXCEPT ![o] = Absent]
  /\ UNCHANGED <<value, stack, kept, this, borrowed, pushes, finalizing, failures, undefined, phase>>

\* duk_destroy_heap: finalizers run for all objects, then all of them go.
DestroyHeap ==
  /\ phase = "running" /\ Quiet
  /\ stack' = <<>> /\ kept' = {}
  /\ phase' = "destroying"
  /\ UNCHANGED <<obj, value, this, borrowed, pushes, finalizing, failures, undefined>>

Destroyed ==
  /\ phase = "destroying" /\ Quiet
  /\ \A o \in Live : HasFinalizer(o) => obj[o].ran # "no"
  /\ obj' = [o \in Objects |-> Absent]
  /\ stack' = <<>> /\ kept' = {}
  /\ phase' = "destroyed"
  /\ UNCHANGED <<value, this, borrowed, pushes, finalizing, failures, undefined>>

Stopped == undefined # None \/ phase = "destroyed"

Terminated == Stopped /\ UNCHANGED vars

-----------------------------------------------------------------------------
ScriptStep ==
  \/ \E o \in Objects : Load(o) \/ Keep(o) \/ Drop(o) \/ Rescue(o) \/ BeginNew(o)
  \/ \E o, p \in Objects : Derive(o, p)
  \/ Pop
  \/ EndNew

Push ==
  \E b \in Blocks :
    \/ \E o \in Objects :
         \/ \E k \in Kinds : Make(k, o, b)
         \/ \E i \in -MaxStack .. -1 : Clone(i, o, b)
    \/ FailMake(b)
    \/ CreateObject(b) \/ DefProp(b) \/ SetFinalizer(b) \/ FailPush(b)

FinalizeStep ==
  \/ \E i \in -MaxStack .. MaxStack - 1 : FinalizeObject(i) \/ FinalizeCallable(i)
  \/ \E o \in Objects : FreeValue(o) \/ DelProp(o)

CallStep == EndCall \/ \E i \in -MaxStack .. -1 : BeginCall(i)

Collector ==
  \/ \E o \in Objects : RunFinalizer(o) \/ Collect(o)
  \/ DestroyHeap
  \/ Destroyed

Next ==
  \/ ~Stopped /\ (ScriptStep \/ Push \/ FinalizeStep \/ CallStep \/ Collector)
  \/ Terminated

Spec == Init /\ [][Next]_vars

-----------------------------------------------------------------------------
(* Properties.                                                             *)

TypeOK ==
  /\ obj \in [Objects -> [live : BOOLEAN, kind : Kinds, info : Blocks \cup {None},
                          fin : BOOLEAN, parent : Objects \cup {None},
                          ran : {"no", "yes", "rescued"}]]
  /\ value \in [Blocks -> Objects \cup {None, Raw}]
  /\ stack \in Seq(Objects) /\ Len(stack) <= MaxStack
  /\ kept \subseteq Objects
  /\ this \in Objects \cup {None}
  /\ borrowed \in Seq([obj : Objects, block : Blocks])
  /\ pushes \in [Blocks -> [pc : {"none", "made", "created", "defined"}, kind : Kinds,
                            obj : Objects \cup {None}]]
  /\ finalizing \in [Objects -> [pc : {"none", "destroying", "freed"},
                                 by : {"finalize", "collector"}, kind : Kinds,
                                 block : Blocks \cup {None}, target : Objects \cup {None}]]
  /\ failures \in 0 .. MaxFailures
  /\ undefined \in Causes \cup {None}
  /\ phase \in {"running", "destroying", "destroyed"}

(***************************************************************************)
(* Freed memory is used, or freed again, in two ways only: code that the   *)
(* destructor of a value or a collection runs comes back to the object     *)
(* whose value is being destroyed, before finalize_object has deleted the  *)
(* property (type_traits.h 298-300), or it uses an object whose finalizer  *)
(* has run, which leaves the property (type_traits.h 211-222).  Nothing    *)
(* detects these.  No order of finalize, collection, rescue, reuse of a    *)
(* block and interrupted pushes does otherwise (test.cpp 859-877 checks    *)
(* one such sequence).                                                     *)
(***************************************************************************)
NoDoubleFree == undefined # "freed"

(***************************************************************************)
(* What duk::get, check_type and clone find through an object is the value *)
(* that was pushed into it or into its prototype: no block that was freed, *)
(* nor one that was reused for another object.  "Accessing finalized       *)
(* object will result in an error" (README.md:600) as soon as finalize has *)
(* returned; before, and once the object's finalizer has run, the property *)
(* leads to freed memory.                                                  *)
(***************************************************************************)
AccessSound ==
  \A o \in Live, k \in Kinds :
    LET h == Holder(o, k)
    IN  OwnProp(h, k) # None /\ obj[h].ran = "no" /\ finalizing[h].pc # "freed"
          => value[OwnProp(h, k)] = h

(***************************************************************************)
(* A value is destroyed with the ES object that holds it, or by            *)
(* duk::finalize of that object, and in no other way (README.md:188).      *)
(***************************************************************************)
DestroyedWithObject ==
  [][\A b \in Blocks :
        value[b] # None /\ value'[b] = None =>
          \E o \in Live : /\ value[b] = o /\ obj'[o].live
                          /\ finalizing[o].pc = "destroying" /\ finalizing[o].block = b]_vars

(***************************************************************************)
(* The collection of an object destroys no other object's value.  "When    *)
(* said ES object gets garbage collected, its finalizer will call          *)
(* destructor" (README.md:188), its own.                                   *)
(***************************************************************************)
CollectionDestroysOwnValue ==
  [][\A o \in Live :
        /\ finalizing[o].pc = "destroying" /\ finalizing[o].by = "collector"
        /\ finalizing'[o].pc = "none"
        => value[finalizing[o].block] = o]_vars

(***************************************************************************)
(* Every value has an object whose finalizer will destroy it, except the   *)
(* ones being pushed or destroyed and at most one for each push that an ES *)
(* error or the constructor of the value interrupted; the block is lost    *)
(* with it.                                                                *)
(***************************************************************************)
Secured(b) ==
  \/ pushes[b].pc # "none"
  \/ \E o \in Live :
       /\ value[b] = o
       /\ \/ obj[o].info = b /\ obj[o].fin /\ obj[o].ran = "no"
          \/ finalizing[o].pc = "destroying" /\ finalizing[o].block = b
Lost == {b \in Blocks : value[b] # None /\ ~Secured(b)}
LeakBounded == Cardinality(Lost) <= failures

(***************************************************************************)
(* While a C++ function runs that was called with a reference to a value,  *)
(* the object is not collected and its finalizer does not run: only        *)
(* duk::finalize of that very object, which nothing forbids during the     *)
(* call, destroys the value (function_wrapper.h 94-119).                   *)
(***************************************************************************)
BorrowedAlive ==
  [][\A j \in 1 .. Len(borrowed) :
       LET o == borrowed[j].obj
           b == borrowed[j].block
       IN  /\ obj[o].live /\ (phase' # "destroyed" => obj'[o].live)
           /\ value[b] = o /\ value'[b] # o =>
                finalizing[o].pc = "destroying" /\ finalizing[o].by = "finalize"]_vars

\* Heap destruction destroys every value but those interrupted pushes lost.
TeardownDestroysValues ==
  phase = "destroyed" => Cardinality({b \in Blocks : value[b] # None}) <= failures
=============================================================================
