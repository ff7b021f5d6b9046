# A formal model of dukcpp

dukcpp binds C++ to the Duktape ECMAScript engine: it puts C++ values and
functions into ES objects, gives C++ code handles to ES objects, and iterates
over containers in both directions. The code is a header-only template library
in one thread. What makes it hard is not parallelism but *re-entrancy*: almost
every Duktape call may run a finalizer, a getter or a callback, which runs more
dukcpp code in the middle of a dukcpp function, and raw pointers (of heap
objects, of C++ values) are kept in places Duktape knows nothing of.

## 1. Inventory

Paths are below `include/duk/` unless they say otherwise.

| Component | Code | State it keeps | Operations |
|---|---|---|---|
| Owning handles | `safe_handle.h`, `handle.h` | a raw heap pointer in each handle; in the global stash, per object, an array with the object and a counter | construct, copy, move, assign, destroy; `incRef`, `decRef` |
| Wrapped objects | `detail/type_traits.h` 26-301, 432-447 | a C++ value in a block of memory, its address in an internal property of an ES object, a finalizer | `push`, `get`, `check_type`, `finalize`, `clone` |
| Wrapped callables | `detail/type_traits.h` 305-429 | the same for a callable in a function object | `push`, call, `finalize` |
| Function calls | `detail/function_wrapper.h`, `function_helpers.h`, `property_helpers.h` | the value stack of the call | try signatures in order, convert the arguments, invoke, push the result |
| Allocator adapter | `allocator_adapter.h` | a size header below each block | `alloc`, `realloc`, `free` |
| Ranges over ES objects | `range.h` | container, iterator and result handles, an index or an end flag | `begin`, `end`, `*`, `++`, arithmetic, comparison |
| Function handles | `function_handle.h`, `callable*.h` | a handle | call of an ES function |
| Native iterables | `iterable.h` | the context captured by `[Symbol.iterator]`; a safe handle and native iterators in the closure of `next` | `make_iterable`, `[Symbol.iterator]`, `next` |
| Type adapters, inheritance | `type_adapter.h`, `class.h`, `type_id_*.h` | none | the conversions `getImplType` accepts |
| Numbers, strings, enums | `detail/type_traits.h` 542-703, `string_traits.h`, `enum_helpers.h` | none | `push`, `get`, `check_type` |
| Context, allocation | `context.h`, `allocator.h`, `common.h`, `detail/memory_resource.h` | the Duktape heap | `make`, `free`, heap destruction |
| Errors, stack guard | `error.h`, `scoped_pop.h` | none | messages; pop at scope exit |
| Command line program | `src/duk/` | the debugger's socket | run a script, debug it |

How they interact. A `safe_handle` may be a member of a wrapped C++ value: the
finalizer of the wrapped object then runs `~safe_handle`, which may release the
last reference to another object and run its finalizer, and so on. Calls borrow
references into wrapped values and may call ES code back through function
handles. Ranges hold handles across calls of ES code (`next()`, the body of a
loop). A range over a wrapped container calls the `next()` of `iterable.h`, so
that both sides of the iterator protocol are this library, while ES code makes
iterators of the same container. Everything allocates through Duktape, which may
allocate through the allocator adapter. `duk_destroy_heap` finalizes everything
in any order.

What makes each component correct:

* handles: the counter equals the number of handles in every intermediate
  state; an owned object is not collected; an address is never reused while a
  handle has it; teardown leaves nothing;
* wrapped values: destroyed once, with their object or by `finalize`; not found
  through the object after `finalize` has returned; not collected while a call
  uses them; none lost except when an error interrupts `push`;
* calls: the first signature that fits is invoked, on the arguments of the
  call, and when none fits an error is thrown;
* adapter: Duktape sees `malloc`/`realloc`/`free`, the C++ allocator gets back
  exactly what it handed out;
* ranges: every element once and in order, up to an end that is recognised, no
  dangling handle, an end to every loop;
* native iterables: each iterator hands out every element once and in order,
  and the container is not collected under it;
* numbers: a number survives the way to ES and back when the type it is written
  as, the type it is read as and Duktape's integers for both all have it;
* errors: file and line are those of the ES function that made the call.

## 2. Modules

| Module | Models | Used by |
|---|---|---|
| `OwnedHeap` | abstract: slots own objects, an owned object is not reclaimed | refined by `SafeHandle` |
| `SafeHandle` | `safe_handle` with the finalizers inside its operations | |
| `SafeHandleProofs` | its theorems and the refinement | |
| `WrappedObject` | values and callables in ES objects | |
| `WrappedObjectProofs` | its theorems | |
| `OverloadedCall` | the call protocol on the value stack | implemented by `BoundCall` |
| `TypeMatch` | which types a wrapped value can be had as | `BoundCall` |
| `FunctionHandle` | a call of an ES function on the value stack | `BoundCall` |
| `BoundCall` | the three and `ErrorLocation` composed: a bound function that calls back | |
| `OverloadedCallProofs`, `BoundCallProofs` | their theorems | |
| `CHeap` | abstract: the contract of `malloc`, `realloc`, `free` | refined by `AllocatorAdapter` |
| `AllocatorAdapter` | `allocator_adapter` over a C++ allocator | |
| `AllocatorAdapterProofs` | its theorems and the refinement | |
| `ErrorLocation` | where an ES error is said to come from | `BoundCall` |
| `ArrayIterator` | unsigned index arithmetic of array iterators | `ArrayElements` |
| `NumberTraits` | integers and enums on the way to ES and back | `ArrayElements` |
| `ArrayElements` | the two composed: what a dereference yields | `MCArrayIterator` |
| `ArrayIteratorProofs` | theorems about the three | |
| `InputRange` | a C++ loop over an ES array or iterable | `IterableLoop` |
| `NativeIterable` | a C++ container that ES code may iterate | `IterableLoop` |
| `IterableLoop` | the two composed, with what runs around the loop | |
| `InputRangeProofs`, `IterableLoopProofs` | their theorems | |
| `MC*` | instances for TLC | |

### SafeHandle

Every `safe_handle` variable is a *slot*; `slot[s]` is its `handle_`.
`refCount[a]` is the counter behind the stash entry keyed by address `a`, 0
without an entry. A slot is a local of the program or a member of the C++ value
wrapped by the object at `Owner[s]`, and then lives as long as that value.
Member functions are split where Duktape can run finalizers: `DecRef`, then
`AssignHandle` (`handle_ = other.handle_`), then `IncRef`, then `StoreEntry`
when the entry has to be created. `Collect`, `DestroyMember` and `Reclaim` are a
finalizer that runs between these steps, or the destructor of a value. Such code
may push objects as well (`NewObject`, guarded by `MayPush`), so an address may
be reused while the `decRef` in progress still has it in `handle_`. Reading a
destroyed slot is undefined behaviour and yields any address. `duk_fatal` is the
state `pc = "fatal"`. `HeldWithout` and `Readable` are the callers' duty: a
function is called on slots that something keeps alive. `SelfOwnedSource` drops
part of that duty, namely that the source of an assignment must not depend on
the target alone.

Simplified: an object has at most the member slots that `Owner` gives its
address; the two elements of a stash entry are one counter, and the array that
holds them, which `incRef` allocates, is reachable from the stash and from
nowhere else, so it is no object of the model; finalizers are not nested (Duktape
queues them); a destructor pushes objects and destroys the handles that are its
members, and uses no other handles.

### WrappedObject

`value[b]` is the object whose C++ value block `b` holds. `push` is the steps
`Make` (allocate and construct), `CreateObject`, `DefProp` and `SetFinalizer`,
and an ES error may interrupt it between any two of them (`FailPush`). When the
constructor inside `make` throws (`FailMake`), the block it had allocated stays
allocated without a value (`Raw`); both failures count against `LeakBounded`.
`finalize` is three steps: the property is read (`FinalizeObject`,
`FinalizeCallable`), the destructor has run and the block is free (`FreeValue`),
the property is deleted (`DelProp`), at value stack indices computed as the code
does, with the temporaries it has pushed. The finalizer of a collected object is
`RunFinalizer` and the same `FreeValue`, and leaves the property where it is; the
object itself goes later (`Collect`), so that other finalizers and heap
destruction may still read it or keep it (`Rescue`; its finalizer then runs again,
`obj[o].ran`). A call borrows a value (`BeginCall`) until it returns.

*Re-entrancy.* Every allocation and every destructor may run more dukcpp code.
`pushes[b]` and `finalizing[o]` hold a push and a finalization for each block and
object, up to `MaxNested` of them at once, and every action is enabled in the
middle of every other. In the program they nest; the model lets them overlap in
any order, which includes every nesting, so what it never does the program never
does. At most one constructor call (`this`) is in progress.

*Undefined behaviour.* The code checks that the property exists, and nothing else.
When it uses a pointer to memory that is gone, `Undefined` records how that came
about and the model stops: `"reentered"`, the object's value is just being
destroyed, that is code which the destructor runs came back to the object before
`finalize_object` deleted the property (298-300); `"stale"`, the object's
finalizer has run, which does not delete the property (211-222); `"freed"`, any
other way. The first two are reachable and the code is exposed to them;
`NoDoubleFree` and `AccessSound` show that they are all there is.

`GetProp` follows one prototype step, as `duk_get_prop_lstring` and Duktape's
search for finalizers do. Constants switch on the situations the code does not
handle: `AbsoluteIndex`, `Inherit`, `PushAgain`.

### OverloadedCall, TypeMatch, FunctionHandle, BoundCall

`OverloadedCall` has the arguments of one call, the value stack (`stack`), and
the signature being tried (`k`). `Attempt` is the rearrangement at the head of
`FunctionWrapper::run`, `Invoke` and `Mismatch` are the two outcomes of
`argsMatch`, and `Return` and `Throw` end the C++ function. While it runs
(`Run`) it may do anything to the stack above its arguments. Overload lists of
`function_descriptor`s and of signatures are one list, since both folds stop at
the first non-negative result. `Accepts` abstracts `check_type`. `func` tells a
bound function from a pushed callable and from one that has been finalized, whose
wrapper throws before it tries a signature (`CalledFinalized`).

`TypeMatch` is `getImplType`: a recursive function over the bases of the stored
type, with `class_traits_base`, `type_adapter::base` and `type_adapter::type` as
constants. It also has the relation that the README describes, said directly
(`UsableAs`), and the interpretation of the buffer by `get` (`Reads`). That an
adapter adapts to a class without an adapter is assumed (`TypeAssumption`).

`FunctionHandle` is `function_handle::operator()`: `below` is the stack it
found, `got` the return type and later what was read. An argument that cannot be
pushed (`PushThrows`) leaves what was pushed before it on the stack, as the code
does: the stack of the C++ function is discarded when it returns.

`BoundCall` puts them together: `Accepts` is `CheckType`, and the function that
is invoked may make a call on the same stack before it returns or throws. An ES
function that calls another bound function gives it a stack of its own, so one
call deep is enough.

`ErrorLocation` is the loop of `throwESError` over Duktape's call stack, one
step per level (`InspectFrame`): it overwrites the line with that of every level
it looks at, and stops at the first that has a file name. In `BoundCall` the
search follows a call that fits no overload, and only that of a bound function
(`Locates`): the wrapper of a pushed callable calls `duk_error` and an accessor
returns an error code, so their errors are given no place. `LocatesCaller`
compares what the search found with the innermost ES frame, said directly.

### AllocatorAdapter

Memory is an array of cells; the header of a block is a cell in it that holds
the requested size, so an overlap would destroy it. The C++ allocator places
chunks anywhere they fit. A null pointer makes `realloc` an `alloc` and `free`
do nothing, so neither is an action of its own. An allocator that throws is not
modelled, nor is the overflow of `sizeof(BlockInfo) + size`.

### ArrayIterator, NumberTraits, ArrayElements and InputRange

`ArrayIterator` follows the index of two iterators, in arithmetic modulo
`Modulus` (2^32), beside the position each stands for. `NumberTraits` is what
`Push` and `Get` of a signed or unsigned type of any size do to an integer, with
Duktape's saturation to its own integer type (`DukGet`) and C++'s conversion to
the element type. A type is given by the number of its values (2^w for one of w
bits). ES numbers are counted in halves, so that truncation shows; NaN is left
out. `Floating` stands for the floating point types, which are pushed as they
are: this is how fractions and numbers too large for Duktape's integers get into
an array, from C++ or from ES code.

`ArrayElements` has an array of numbers, each pushed as some type, and reads it
through the iterators as every type. `DereferencesFaithful` says exactly when a
number survives; types with more values than Duktape's integers are among
`Sizes`, and the property says that they lose the numbers that Duktape's type
does not have.

`InputRange` is a range-based `for` loop with the safe handle types. Between
its steps the body, or the `next()` of an ES iterator, changes the array,
forgets objects, and Duktape collects. `input_range` is the choice of `kind`. An
element that cannot be read as the element type ends the loop with an error
(`DerefArray`), like a hole. `done` may be missing, a boolean, or another value
that ES takes for true (`"truthy"`); `duk_get_boolean` reads only the boolean
true as true (`ReadsDone`).

### NativeIterable and IterableLoop

`NativeIterable` has one C++ container (`value`: its lifetime, its size, the
number of changes to it) and any number of iterators. `closure[i]` is the range
in the closure of the `next()` of iterator `i`, with the number of changes there
had been when it was made; `home` is the context that `make_iterable` captured,
and `contexts` are those that still exist. `got[i]` records what was handed out
and in which context.

* `Iterate` is `[Symbol.iterator]`. It takes `this` from the home: called in
  another context it throws, in `get<T&>` or in the push of a handle of the
  wrong context.
* `NextReturns`, `NextThrows` and `NextUndefined` are the three outcomes of
  `next()`. `Advance` happens after the element is pushed, so a push that throws
  repeats the element, and a call outside the home, which throws when the range
  has already advanced, loses it.
* `Release` ends a closure, and gives its handle back through the home;
  `Destroy` ends the container; `Change` is any modification that invalidates
  iterators; `EndContext` is the collection of a coroutine.

Reading an element of a container that was finalized, collected or changed is
undefined behaviour, and so is any use of a home that is gone: `undefined` names
the cause, and the model stops there. A `next()` at the end of its range touches
no element and is defined.

`IterableLoop` runs the loop of `InputRange` either as before or over such a
container (`native`). Then `Begin` is `BeginSymbol` and `Iterate` in one step,
`NativeNext` joins the two sides of `next()`, and the outcome that `InputRange`
leaves to ES code is the one `NativeIterable` computes. `Surroundings` is what
runs in the body of the loop and around it: ES code in any context makes and
uses iterators of the same container, the program finalizes, changes and
forgets, and a coroutine disappears. Duktape collects at any time, also inside
`next()`: `CollectObject` is `Collect` with what a collected wrapper or iterator
takes along. The wrapper is not collected while a closure exists
(`HeldByClosure`), which is what the `safe_handle` in the closure is for.

Simplified: the iterator of the loop is known to the loop alone; one container
per program; `value` is never replaced by a getter (iterators of `iterable.h`
have plain properties, those of ES code are `Outcomes`).

## 3. Runs

| Run | Instance | Shows |
|---|---|---|
| `safe_handle` | 2 locals, 2 members, 3 addresses | counts, ownership, teardown, addresses reused by finalizers, refinement of `OwnedHeap`, return of operations, reclaiming of chains, the inductive invariant |
| `safe_handle_self_owned` | the same, `SelfOwnedSource` | assignment reads a destroyed source |
| `wrapped_object` | 2 objects, 2 blocks, stack of 2, 1 call, 2 pushes or finalizations in progress, 1 failure | freed memory used in two ways only, sound access, bounded leaks (a throwing constructor included), borrowing |
| `wrapped_absolute` | `AbsoluteIndex`, 3 objects, stack of 3 | `finalize(ctx, 0)` leaves a dangling pointer |
| `wrapped_inherit` | `Inherit`, 3 objects | an inherited finalizer destroys the prototype's value |
| `wrapped_push_again` | `PushAgain`, 3 objects | two pushes in a constructor lose a value |
| `bound_call` | 2 signatures of 2 parameters, a class, its base, smart pointers to both, numbers, 1 callback, call stacks of up to 2 frames; bound, pushed and finalized functions | first match by type, intact arguments, an answer, a restored stack, the call protocol, the place of a bound function's error |
| `bound_call_fresh` | the ES function may return a fresh object | `function_handle` returns a reference to a popped object |
| `allocator_adapter` | 6 cells, sizes up to 2 | refinement of `CHeap`, exact deallocation |
| `array_iterator` | `Modulus` 8, length 7; Duktape integers of 16 values, types of 4, 16 and 64, and fractions | positions exact in spite of wrapping; which numbers a dereference keeps, and which it loses |
| `array_signed` | distances to earlier iterators | unsigned wrap-around |
| `input_range` | arrays of 3, 2 results before the boolean true, a container of 2, 1 change, 1 further iterator, 2 contexts | complete, ordered visits on both sides of the protocol, no dangling handle, defined iteration, an end of the loop |

Why the bounds are enough. Handles: the defects looked for need one slot to be
changed, one to be read, an object that embeds a slot, and an object that is
reused; two members make chains and cycles. Wrapped objects: one object whose
value is being destroyed and another that a destructor pushes or finalizes, or
that takes over the block; two blocks distinguish reuse from a fresh block; two
activities in progress, a call and an error are all that a hazard here involves.
The violations need a third object, one that inherits or that lies beside the
two on the stack. Adapter: two blocks and a move of one of them. Array
iterators: the array fills the index type, so every sum and difference that can
wrap does. Calls: the base class and the pointer to it both accept the smart
pointer to the derived class, so one signature shadows another, which is where
order matters; two signatures suffice since each attempt only sees what the one
before it left. Call stacks: a C function above the ES function, or two ES
functions, of which the inner one counts. Numbers: types narrower than, as wide
as and wider than Duktape's, in both signs; elements that only the unsigned,
only a wider and no integer type of Duktape has, and fractions on both sides of
zero. Loops: a container of two elements has a first, a next and an end; one
change and one coroutine are what it takes to invalidate an iterator, and one
further iterator is enough to interfere with the loop's. `input_range` has
`CHECK_DEADLOCK FALSE` because a loop ends and the model stops where behaviour
is undefined. Where there are theorems (section 5) they hold for any number of
everything.

Each finding (PROJECT.json, `findings`) is a disagreement between the code and
the README or a test: the runs `safe_handle_self_owned`, `wrapped_absolute`,
`wrapped_inherit`, `wrapped_push_again`, `array_signed` and `bound_call_fresh`,
which expect a violation. Further observations have no run of their own:

* code that runs in a destructor and comes back to the object whose value is being
  destroyed, before `finalize_object` deletes the property (`type_traits.h`
  298-300), uses or frees that value again: README.md:600 ("Accessing finalized
  object will result in an error") holds once `finalize` has returned. Deleting
  the property first would close the window. `undefined = "reentered"` in
  `WrappedObject`;
* the finalizer of a collected object leaves the property (`type_traits.h`
  211-222, 376-386). An object that another finalizer keeps, or reads during heap
  destruction, leads to freed memory, which its own second finalizer frees again.
  `undefined = "stale"`;
* a callback that finalizes an object its caller uses destroys the value under it;
  nothing forbids it, and `BorrowedAlive` shows that nothing else does;
* terminating the program when `make` throws inside the `noexcept` `incRef`;
* `done` is read with `duk_get_boolean` (`range.h` 310), which is false for
  every value that is no boolean. For an ES iterator that ends with `done: 1`, the
  loop takes that result for an element and calls `next()` again, which is not the
  iteration protocol that README.md:605 refers to. `ReadsDone` models it, and
  `StopsWhenDone` and `VisitsAll` are therefore about the boolean `true`;
* `next()` of a native container that was finalized or changed reads memory that
  is gone. README.md:600 lets `finalize` be called on any wrapped object and
  promises an error from later uses; the closure never looks again;
* a native container can be iterated only in the context it was pushed in. In a
  coroutine `[Symbol.iterator]` throws; the `next()` of an iterator carried there
  throws too, after it has advanced, so that the element is lost;
* nothing keeps that context: when it was a coroutine and is collected, every
  later use of the container's iterators, and the release of their handles, goes
  through a dangling pointer. The same is true of every `safe_handle`;
* the loop never calls `return()` of an ES iterator when it is left early;
* a constructor that throws inside `make` leaves the block allocated
  (`common.h` 63), until the heap is destroyed;
* integers of 64 bits wrap on the way to ES and saturate on the way back;
* `get` of a `std::string_view` or `const char*` as the result of a function
  handle points into a string that has been popped, as for `bound_call_fresh`;
* the indices of `put_prop` and `def_prop` are right only when they are relative,
  as those of `finalize` (`wrapped_absolute`);
* the command line program destroys its debugger context before the heap, which
  still has its address (`src/duk/main.cpp` 65);
* an adapter whose adapted type has an adapter itself: `getImplType` would store
  a pointer where `get` reads a value (excluded by `TypeAssumption`).

## 4. Fairness

Only code that has been called is assumed to proceed: the steps of a member
function (`Run`), a started finalizer (`Finalizer`), heap destruction once
called (`HeapGone`), and `Collect`, because Duktape counts references and frees
an unreachable object at once (cycles through the stash are excluded from
`ChainReclaimed` by `Acyclic`: mark-and-sweep does not see through the stash).
ES code and the callers of `safe_handle` are under no obligation.
`FairBoundSpec` assumes weak fairness of the call: the wrapper is C++ code that
runs on. `CallAnswered` ends where the bound function starts, so it assumes
nothing of that function. `LoopSpec` assumes weak fairness of `Proceed`: the
loop is C++ code that runs on, its body and each `next()` return in time. That
`next()` throws is relied on only where nothing else can happen, that is when no
iterator was made (`NothingToCall`). `LoopEnds` then rests on the snapshot of an
array's length and on the closure that advances with each element. That an ES
iterator is done after `MaxResults` results is an assumption: one that never is
makes a loop that never ends, in C++ as in ES.

## 5. Proofs

All theorems are checked by TLAPS for every value of the constants.

**SafeHandle** (`SafeHandleProofs`, assuming `SelfOwnedSource = FALSE`).
`RefCountExact` is not inductive: a step is only safe because of what the
member function in progress has established. The invariant `IInv` adds, per
program counter, that the slots being worked on are alive and kept by something
other than the target of the assignment (`AssignInv`, `IncInv`), that what is
about to be counted is still reachable (`IncInv`, `StoreInv`), that member
slots live exactly as long as the value around them (`MemberInv`), and what
finalization and heap destruction do to objects (`HeapInv`). One lemma per group
of actions shows that it is preserved; the arithmetic is in five lemmas about
the cardinality of `Owners`. From it follow exact counts, live owned objects,
no `duk_fatal`, a clean teardown and fresh addresses, and that every step is a
step of `OwnedHeap` or a stutter (`SafeHandleImplementsOwnedHeap`).

**WrappedObject** (`WrappedObjectProofs`, assuming `AbsoluteIndex`, `Inherit` and
`PushAgain` FALSE: the three situations that the violation runs show the code not
to handle). None of the properties is inductive: that a finalizer frees a live
value depends on what every object's hidden property points to. `IInv` says that
the property of an object holds the address of a block with the object's own
value, until its finalizer has run or a finalization has freed it (`OwnInv`); what
each push and each finalization in progress has established (`PushInv`,
`FinalInv`), among it that the object of a push cannot be named by any other code
until the push is over, that no two pushes work on one object, and that the stack
index of `finalize` denotes its object; that an object with a prototype, and the
prototype, wrap nothing (`ParentInv`), so that a property that is found is the
object's own (`OwnOnly`); that nothing which can be named, or which a call uses,
is collected (`NamesInv`); and what a constructor call may rely on (`ThisInv`).
There is one lemma per action. Every activity's parts of the invariant survive the
steps of all the others, which is where re-entrancy is dealt with: `NoDoubleFree`
follows because a finalization other than those that `Misuse` names finds
a value of its own, and keeps it until `FreeValue`. `LeakBounded` counts: each
step that adds a block to `Lost` adds to `failures` (`CountLost`). The action
properties follow because destroying values is left to one action, `FreeValue`
(`DestroyedBy`, `CollectedBy`).

**OverloadedCall** (`OverloadedCallProofs`). `FirstMatch` is not inductive:
whether a signature matches is computed from the value stack. `IInv` adds what
the stack holds at each step: the arguments as the call was given them before
an attempt, what the signature receives while it is checked; that the
signatures before `k` do not fit; and that an accessor has only one signature,
since the popped name is never pushed again. Two lemmas about sequences
(`TailOfCons`, `FrontOfAppend`) say that removing `this` undoes inserting it and
that popping the name undoes pushing it.

**BoundCall** (`BoundCallProofs`). `HandleInv` adds that the stack a callback
found is above the arguments and below everything the callback has pushed. Then
`BottomOfPopped` shows that `duk_pcall` and `scoped_pop` remove exactly what the
callback pushed: `StackRestored`. Every step of the callback is a `Run` step of
`OverloadedCall` (`CallBackStep`), hence `BoundCallImplementsCall`, which
carries the theorems above over to a function that calls back. `BoundAssumption`
is what links the constants of the modules.

`MatchedByType` rests on what a recursive function computes, `getImplType` over a
chain of bases. There is no induction over data here, so the proof has three
parts: a closed form (`Offers`); that it satisfies the recursion (`OffersStep`);
and that nothing else does, since two solutions that differ would differ at a type
of least rank, and the recursion goes on from there to a lesser one
(`GetImplOffers`). The rank is that of `TypeAssumption`: bases form chains.
`AncestorsStep` unfolds the relation that the README describes along the same
chain. The result is for any class hierarchy; `FirstMatch` then carries
`check_type` over to the arguments of the call.

`LocatesCaller` has an invariant of the search (`SearchInv`): before `level` no
frame had a file, except the last one when a name has been found, and the line is
that of the last frame looked at. `SearchStep` preserves it, and `SearchFinds`
reads off the innermost ES frame at the end, on call stacks of any depth. A search
is only ever started by a bound function's error.

**AllocatorAdapter** (`AllocatorAdapterProofs`).
The invariant relates every block Duktape holds to the chunk behind it: the
header cell lies inside the chunk, holds a size of at least the requested one,
is the size the chunk was allocated with, and chunks do not overlap, so writing
to a block changes no header. The size in the header is not the requested one
after `realloc` shrank a block in place, which is why the invariant has an
inequality there. The refinement follows: an abstract block is a concrete one
without its header.

**InputRange** (`InputRangeProofs`). `VisitsAll` says nothing of a loop that is
about to go on, so `RangeInv` adds how far `seen` is at each point: it is the
index of an array iterator (`ArrayInv`), or as many as the results, or one less
while the last result is being looked at (`SymbolInv`); and that everything the
loop has a handle to is live (`HandlesLive`).

**IterableLoop** (`IterableLoopProofs`). `RangeInv` carries over, since to the
loop everything around it is ES code. `NativeInv` relates each closure to its
container: it begins where the elements handed out end, it ends with the
container as long as that has not changed, and there is no closure over a
collected container, which is what makes `IterationSound` inductive.
`LoopMeetsNative` relates the two sides: in the body the loop has seen what its
iterator handed out, before it one less, and at the end all of an unchanged
container. That nothing around the loop moves its range is `RangeStands`, with
one lemma per action. All safety properties of the run `input_range` follow, for
arrays and containers of any size and any number of contexts, iterators and
changes. `LoopAssumption` is used for the types of its constants only.

**ArrayIterator** and **ArrayElements** (`ArrayIteratorProofs`). `ArrayInv` says
that the index is the position, for any `Modulus` and an array shorter than it.
`Remainders` gives `%` for arguments less than one modulus out of range, which
is all that the sums and differences of positions can be (`DiffValue`);
`ArrayDistanceExact` assumes `Signed = FALSE`, the distances that `array_signed`
adds being those the code gets wrong. `ElementsFaithful` combines the position
with the conversions: a number that a type has is its own conversion, one that it
has not is turned into another, and Duktape's saturation never gives back a number
it cut off, so that the property is an equivalence. Types are given by their
number of values, so that no power of two has to be reasoned about;
`NumberAssumption` allows any.

Only model-checked: everything under fairness (`OperationReturns`,
`ChainReclaimed`, `CallAnswered`, `LoopEnds`), since liveness is out of the
prover's reach. Every other property of a passing run is a theorem. The runs that
expect a violation show where the assumptions of the theorems are needed:
`SelfOwnedSource`, `AbsoluteIndex`, `Inherit`, `PushAgain` and `Signed`.
`bound_call_fresh` shows a property that has no theorem: `ResultAlive` is false.

## 6. Plan

1. Done: handles with their proofs and refinement; wrapped objects with their
   proofs; calls with type matching, callbacks and error locations, and their
   proofs; the allocator adapter with its refinement proof; ranges, array indices
   and native iterables, apart and composed, with their proofs; the conversion of
   integers, with its proof.
2. Possible compositions: `WrappedObject` with `SafeHandle` members instead of
   the assumption `Owner`, and a home context in `SafeHandle`.
3. Next: nested constructor calls in `WrappedObject`, and strings as results of
   function handles in `BoundCall`.

### Not modelled

* Error message formatting and `detail/debug.h`: text only, no state that
  anything else reads.
* Strings, booleans and floating point numbers: each `push`, `get` and
  `check_type` is a single Duktape call on its argument; there is no case of this
  library's own to distinguish.
* Defining an enum object (`enum_helpers.h`) and the property helpers outside of
  what a call does: straight sequences of Duktape calls.
* The allocator and memory resource over Duktape: they forward their arguments.
* The command line program: option parsing, and the sockets of its debugger,
  whose other end is Duktape's debug protocol. The one hazard of its own, the
  lifetime of the debugger context, is a fixed order of two destructions.
* Deduction of signatures: done by the C++ compiler.
* The tests, read for the intended behaviour.
