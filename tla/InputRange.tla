----------------------------- MODULE InputRange -----------------------------
(***************************************************************************)
(* A C++ loop `for (auto&& v : range) body(v)` over an ES object through   *)
(* duk::safe_input_range, safe_array_input_range or                        *)
(* safe_symbol_input_range (include/duk/range.h).                          *)
(*                                                                         *)
(* An array is walked by index up to the length it had at the start; any   *)
(* other object by the [Symbol.iterator] protocol.  The iterator keeps     *)
(* handles; ES code runs, and Duktape collects objects, inside next() and  *)
(* inside the body of the loop.                                            *)
(***************************************************************************)
EXTENDS Naturals, Sequences

CONSTANTS
  MaxLength,   \* bound: length of an array
  MaxResults,  \* bound: results an ES iterator returns before it is done
  MaxIterators,\* bound: iterators ES code makes of its own
  None

\* The ES objects: what is iterated, the loop's iterator, those ES code has of
\* the same container, and what next() returned to the loop.
Container == <<"container", 0>>
Iterator == <<"iterator", 0>>
ESIterators == {<<"iterator", k>> : k \in 1 .. MaxIterators}
Result(k) == <<"result", k>>
Results == {Result(k) : k \in 1 .. MaxResults + 1}
Objects == {Container, Iterator} \cup ESIterators \cup Results

ASSUME RangeAssumption ==
  /\ {MaxLength, MaxResults, MaxIterators} \subseteq Nat
  /\ None \notin Objects

\* What next() may return beside an error: `done` is missing, a boolean, or
\* another value that ES takes for true ("truthy", 1 for instance; those that it
\* takes for false count as "false"); `value` is one that the element type takes.
Dones == {"absent", "false", "true", "truthy"}
Outcomes == [done : Dones, value : BOOLEAN]

VARIABLES
  kind,     \* "array" or "symbol": the variant input_range chose
  array,    \* the elements of the array that are present, and its length
  live,     \* ES objects that are not collected
  kept,     \* objects ES code keeps reachable
  onStack,  \* objects on the value stack
  iter,     \* the C++ iterator
  last,     \* index of the end iterator of an array
  results,  \* what next() returned so far
  seen,     \* indices or results the body was called with
  dangling, \* a handle to a collected object was used
  pc

es == <<array, live, kept>>
vars == <<kind, array, live, kept, onStack, iter, last, results, seen, dangling, pc>>

\* duk_is_array decides; the object is on the value stack or kept elsewhere.
Init ==
  /\ kind \in {"array", "symbol"}
  /\ \E n \in 0 .. IF kind = "array" THEN MaxLength ELSE 0 :
       array = [present |-> 0 .. n - 1, length |-> n]
  /\ live = {Container} /\ kept = {Container} /\ onStack = {}
  /\ iter = [idx |-> 0, iterator |-> None, curr |-> None, end |-> TRUE]
  /\ last = 0
  /\ results = <<>> /\ seen = <<>>
  /\ dangling = FALSE
  /\ pc = "begin"

\* The range and its iterator exist, and with them their handles: safe_handles,
\* each of which keeps its object (SafeHandle).
InLoop == pc \notin {"done", "error"}
ResultNotHeld == IF InLoop THEN {Container, iter.iterator} \ {None} ELSE {}
Handles == IF InLoop THEN {Container, iter.iterator, iter.curr} \ {None} ELSE {}
Reachable(o) == o \in kept \cup onStack \cup Handles

\* push_handle of a dangling handle.
Use(o) == dangling' = (dangling \/ o \notin live)

-----------------------------------------------------------------------------
(* ES code and Duktape, before and after the loop and while next() or the  *)
(* body runs.                                                              *)

ESRuns == pc # "test"

Push ==
  /\ ESRuns
  /\ kind = "array" /\ array.length < MaxLength
  /\ array' = [present |-> array.present \cup {array.length}, length |-> array.length + 1]
  /\ UNCHANGED <<kind, live, kept, onStack, iter, last, results, seen, dangling, pc>>

SetLength(n) ==
  /\ ESRuns
  /\ n < array.length
  /\ array' = [present |-> array.present \cap 0 .. n - 1, length |-> n]
  /\ UNCHANGED <<kind, live, kept, onStack, iter, last, results, seen, dangling, pc>>

\* delete a[i] leaves a hole.
DeleteElement(i) ==
  /\ ESRuns
  /\ i \in array.present
  /\ array' = [array EXCEPT !.present = @ \ {i}]
  /\ UNCHANGED <<kind, live, kept, onStack, iter, last, results, seen, dangling, pc>>

Forget(o) ==
  /\ ESRuns
  /\ o \in kept
  /\ kept' = kept \ {o}
  /\ UNCHANGED <<kind, array, live, onStack, iter, last, results, seen, dangling, pc>>

Collect(o) ==
  /\ o \in live /\ ~Reachable(o)
  /\ live' = live \ {o}
  /\ UNCHANGED <<kind, array, kept, onStack, iter, last, results, seen, dangling, pc>>

-----------------------------------------------------------------------------
(* Arrays.                                                                 *)

\* duk_get_length.
EndInclusive == array.length + 1
EndIndex == array.length

\* begin(), then end(): the length is read once.
BeginArray ==
  /\ pc = "begin" /\ kind = "array"
  /\ Use(Container)
  /\ last' = EndIndex
  /\ pc' = "test"
  /\ UNCHANGED <<kind, es, onStack, iter, results, seen>>

LengthReadAgain == iter.idx >= array.length
AtEndOfArray == iter.idx = last

\* A hole is an error, and so is an element that is not of the element type.
DerefArray ==
  /\ pc = "test" /\ kind = "array" /\ ~AtEndOfArray
  /\ Use(Container)
  /\ \/ /\ iter.idx \in array.present
        /\ seen' = Append(seen, iter.idx)
        /\ pc' = "body"
     \/ /\ pc' = "error"
        /\ UNCHANGED seen
  /\ UNCHANGED <<kind, es, onStack, iter, last, results>>

IncrementArray ==
  /\ pc = "body" /\ kind = "array"
  /\ iter' = [iter EXCEPT !.idx = @ + 1]
  /\ pc' = "test"
  /\ UNCHANGED <<kind, es, onStack, last, results, seen, dangling>>

-----------------------------------------------------------------------------
(* Objects with [Symbol.iterator].                                         *)

(***************************************************************************)
(* begin() calls [Symbol.iterator] and does not look at the outcome of the *)
(* call: the iterator handle refers to whatever is on the value stack, an  *)
(* Error object perhaps, and the first next() fails.  ES code may keep the *)
(* iterator.  The constructor goes on with next().                         *)
(***************************************************************************)
BeginSymbol(keep) ==
  /\ pc = "begin" /\ kind = "symbol"
  /\ Use(Container)
  /\ live' = live \cup {Iterator}
  /\ kept' = IF keep THEN kept \cup {Iterator} ELSE kept
  /\ onStack' = {Container, Iterator}
  /\ iter' = [iter EXCEPT !.iterator = Iterator, !.end = FALSE]
  /\ pc' = "next"
  /\ UNCHANGED <<kind, array, last, results, seen>>

\* getNextValue of operator++: nothing to do at the end, otherwise next() is called.
IncrementSymbol ==
  /\ pc = "body" /\ kind = "symbol"
  /\ IF iter.end
     THEN /\ pc' = "test"
          /\ UNCHANGED <<onStack, dangling>>
     ELSE /\ Use(iter.iterator)
          /\ onStack' = {iter.iterator}
          /\ pc' = "next"
  /\ UNCHANGED <<kind, es, iter, last, results, seen>>

\* done as duk_get_boolean reads it: FALSE for anything that is not a boolean,
\* also for what the protocol takes for the end.
DoneIgnored(done) == FALSE
ReadsDone(done) == done = "true"

\* currHandle_ and end_ are set from the object next() returned.
NextReturns(o, keep) ==
  LET r == Len(results) + 1
  IN  /\ pc = "next"
      /\ r <= MaxResults + 1
      /\ r = MaxResults + 1 => o.done = "true"
      /\ results' = Append(results, o)
      /\ live' = live \cup {Result(r)}
      /\ kept' = IF keep THEN kept \cup {Result(r)} ELSE kept
      /\ iter' = [iter EXCEPT !.curr = Result(r), !.end = ReadsDone(o.done)]
      /\ onStack' = {}
      /\ pc' = "test"
      /\ UNCHANGED <<kind, array, last, seen, dangling>>

\* next() throws, or returns no object.
NextFails ==
  /\ pc = "next"
  /\ onStack' = {}
  /\ pc' = "error"
  /\ UNCHANGED <<kind, es, iter, last, results, seen, dangling>>

\* operator== with end(): both are at the end of the same container; the
\* iterator handle of end() is empty.
AtEndOfSymbol == iter.end \/ iter.iterator = None

\* operator*: at the end, or without a value that the element type takes, it throws.
DerefSymbol ==
  /\ pc = "test" /\ kind = "symbol" /\ ~AtEndOfSymbol
  /\ Use(iter.curr)
  /\ IF ~iter.end /\ results[iter.curr[2]].value
     THEN seen' = Append(seen, iter.curr[2]) /\ pc' = "body"
     ELSE pc' = "error" /\ UNCHANGED seen
  /\ UNCHANGED <<kind, es, onStack, iter, last, results>>

Leave ==
  /\ pc = "test"
  /\ IF kind = "array" THEN AtEndOfArray ELSE AtEndOfSymbol
  /\ pc' = "done"
  /\ UNCHANGED <<kind, es, onStack, iter, last, results, seen, dangling>>

-----------------------------------------------------------------------------
Script ==
  \/ Push
  \/ \E i \in 0 .. MaxLength - 1 : SetLength(i) \/ DeleteElement(i)
  \/ \E o \in Objects : Forget(o) \/ Collect(o)

Loop ==
  \/ BeginArray \/ DerefArray \/ IncrementArray
  \/ \E keep \in BOOLEAN :
       \/ BeginSymbol(keep)
       \/ \E o \in Outcomes : NextReturns(o, keep)
  \/ NextFails \/ IncrementSymbol \/ DerefSymbol
  \/ Leave

Next == Script \/ Loop

Spec == Init /\ [][Next]_vars

-----------------------------------------------------------------------------
(* Properties.                                                             *)

IterStates ==
  [idx : Nat, iterator : {Iterator, None}, curr : Results \cup {None}, end : BOOLEAN]

TypeOK ==
  /\ kind \in {"array", "symbol"}
  /\ array \in [present : SUBSET (0 .. MaxLength - 1), length : 0 .. MaxLength]
  /\ kept \cup live \cup onStack \subseteq Objects
  /\ iter \in IterStates
  /\ last \in 0 .. MaxLength
  /\ results \in Seq(Outcomes) /\ seen \in Seq(Nat)
  /\ dangling \in BOOLEAN
  /\ pc \in {"begin", "next", "test", "body", "done", "error"}

(***************************************************************************)
(* A safe range never uses a handle to an object that was collected,       *)
(* whatever ES code forgets and whenever Duktape collects (README.md 658). *)
(***************************************************************************)
NoDangling == ~dangling

(***************************************************************************)
(* The loop takes the boolean true, and nothing else, for the end of an ES *)
(* iterator: next() is not called again after it, and a loop that ends     *)
(* without an error has got it.  Any other truthy `done` is the end for ES *)
(* loops and the protocol (README.md 605); here its result is an element,  *)
(* and next() is called again (range.h 310-311).                           *)
(***************************************************************************)
StopsWhenDone ==
  /\ \A i \in 1 .. Len(results) - 1 : results[i].done # "true"
  /\ kind = "symbol" /\ pc = "done" =>
       results # <<>> /\ results[Len(results)].done = "true"

(***************************************************************************)
(* The body sees every element once and in order: those of an array up to  *)
(* the length it had at the start, whatever the body does to the array, or *)
(* every result before the one whose `done` is the boolean true.  A loop   *)
(* that cannot do so ends with an error.                                   *)
(***************************************************************************)
VisitsAll ==
  LET first == IF kind = "array" THEN 0 ELSE 1
      count == IF kind = "array" THEN last ELSE Len(results) - 1
  IN  /\ seen = [i \in 1 .. Len(seen) |-> first + i - 1]
      /\ pc = "done" => Len(seen) = count
=============================================================================
