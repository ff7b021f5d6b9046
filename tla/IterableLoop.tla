---------------------------- MODULE IterableLoop ----------------------------
(***************************************************************************)
(* The loop of InputRange over a container that is itself native: both     *)
(* sides of the [Symbol.iterator] protocol are dukcpp's.  next() is then   *)
(* the closure of NativeIterable and runs no ES code; around the loop and  *)
(* in its body ES code, in any context, iterates the same container with   *)
(* iterators of its own, and the program finalizes, changes and forgets.   *)
(* The iterator of the loop is known to the loop alone.                    *)
(***************************************************************************)
EXTENDS InputRange

CONSTANTS Contexts, Main, MaxSize, MaxChanges

VARIABLES
  native,   \* the loop is over a native container
  context,  \* the context the loop runs in
  home, contexts, value, closure, got, undefined

Native == INSTANCE NativeIterable WITH Iterators <- {Iterator} \cup ESIterators

ASSUME LoopAssumption ==
  /\ {MaxSize, MaxChanges} \subseteq Nat
  /\ MaxSize <= MaxResults
  /\ Main \in Contexts

nativevars == <<home, contexts, value, closure, got, undefined>>
loopvars == <<vars, native, context, nativevars>>

LoopInit ==
  /\ Init
  /\ native \in IF kind = "symbol" THEN BOOLEAN ELSE {FALSE}
  /\ context \in Contexts
  /\ Native!Init
  /\ ~native => context = Main /\ home = Main /\ value.size = 0

-----------------------------------------------------------------------------
(* The loop over a native container.                                       *)

Begin == BeginSymbol(FALSE) /\ Native!Iterate(Iterator, context)

\* When [Symbol.iterator] threw, the iterator handle refers to the Error, whose
\* next() is missing: NextFails with no closure.
NativeNext ==
  \/ \E o \in Outcomes : NextReturns(o, FALSE) /\ Native!NextReturns(Iterator, context, o)
  \/ NextFails /\ Native!NextThrows(Iterator, context)
  \/ pc = "next" /\ Native!NextUndefined(Iterator) /\ UNCHANGED vars

NativeLoop ==
  \/ Begin \/ NativeNext
  \/ (IncrementSymbol \/ DerefSymbol \/ Leave) /\ UNCHANGED nativevars

-----------------------------------------------------------------------------
(* What else runs in the body, before and after the loop.                  *)

Around == ESRuns /\ pc # "next"

\* ES code in context c makes an iterator, or fails to, and keeps it.
ESIterate(i, c) ==
  /\ Around
  /\ c \in contexts
  /\ Container \in kept /\ i \notin live
  /\ Native!Iterate(i, c)
  /\ live' = IF closure'[i] = None THEN live ELSE live \cup {i}
  /\ kept' = IF closure'[i] = None THEN kept ELSE kept \cup {i}
  /\ UNCHANGED <<kind, array, onStack, iter, last, results, seen, dangling, pc>>

ESNext(i, c) ==
  /\ Around
  /\ c \in contexts /\ i \in kept
  /\ \/ \E o \in Outcomes : Native!NextReturns(i, c, o)
     \/ Native!NextThrows(i, c)
     \/ Native!NextUndefined(i)
  /\ UNCHANGED vars

Finalize ==
  /\ Around /\ UNCHANGED vars
  /\ \/ Container \in kept /\ Native!Destroy("finalized")
     \/ \E i \in ESIterators \cap kept : Native!Release(i)

ChangeContainer == Around /\ Native!Change /\ UNCHANGED vars

EndContext(c) ==
  /\ Around
  /\ InLoop => c # context
  /\ Native!EndContext(c)
  /\ UNCHANGED vars

ForgetObject(o) == Around /\ Forget(o) /\ UNCHANGED nativevars

\* With a wrapper its container goes, with an iterator the closure of its next().
CollectObject(o) ==
  /\ o = Container => ~Native!HeldByClosure
  /\ Collect(o)
  /\ IF o = Container /\ value.life = "alive" THEN Native!Destroy("collected")
     ELSE IF o \in {Iterator} \cup ESIterators /\ closure[o] # None THEN Native!Release(o)
     ELSE UNCHANGED nativevars

Surroundings ==
  \/ \E i \in ESIterators, c \in Contexts : ESIterate(i, c) \/ ESNext(i, c)
  \/ \E c \in Contexts : EndContext(c)
  \/ \E o \in Objects : ForgetObject(o) \/ CollectObject(o)
  \/ Finalize \/ ChangeContainer

-----------------------------------------------------------------------------
LoopStep ==
  /\ undefined = "no"
  /\ IF native THEN NativeLoop ELSE Loop /\ UNCHANGED nativevars
  /\ UNCHANGED <<native, context>>

OtherStep ==
  /\ undefined = "no"
  /\ IF native THEN Surroundings ELSE Script /\ UNCHANGED nativevars
  /\ UNCHANGED <<native, context>>

\* Each call of the loop returns: next() and the body end in time.  That next()
\* throws is only relied on where it cannot do anything else.
NothingToCall == native /\ closure[Iterator] = None
Proceed == LoopStep /\ (pc = "next" /\ pc' = "error" => NothingToCall)

LoopSpec == LoopInit /\ [][LoopStep \/ OtherStep]_loopvars /\ WF_loopvars(Proceed)

-----------------------------------------------------------------------------
(* Properties.                                                             *)

\* The types of both components.
LoopTypeOK ==
  /\ TypeOK /\ Native!NativeTypeOK
  /\ native \in BOOLEAN /\ context \in Contexts

(***************************************************************************)
(* iterable.h's next() hands out every element once and in order, and a    *)
(* loop that ran to its end over an unchanged container has seen all of    *)
(* them, in whatever way ES code iterates the container meanwhile          *)
(* (README.md 605: "objects compliant with `[Symbol.iterator]` protocol"). *)
(***************************************************************************)
InOrder ==
  /\ \A i \in DOMAIN got : Native!EachOnce(i)
  /\ native /\ pc = "done" /\ value.changes = 0 =>
       /\ Len(seen) = Len(got[Iterator]) /\ Len(seen) = value.size
       /\ \A k \in 1 .. Len(seen) : got[Iterator][k].in = context

(***************************************************************************)
(* An iterator of a native container never reads it after Duktape          *)
(* collected it: hnd of iterable.h:56 keeps it.                            *)
(***************************************************************************)
IterationSound == Native!IterationSound

(***************************************************************************)
(* Every loop ends, over an array that grows in the body, over a native    *)
(* container whatever other iterators do, and over an ES iterator that     *)
(* says so with the boolean true after finitely many results: at its end,  *)
(* with an error or where the program made its behaviour undefined.        *)
(***************************************************************************)
LoopEnds == <>(pc \in {"done", "error"} \/ undefined # "no")
=============================================================================
