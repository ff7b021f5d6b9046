--------------------------- MODULE NativeIterable ---------------------------
(***************************************************************************)
(* A C++ container that ES code may iterate (include/duk/iterable.h).      *)
(*                                                                         *)
(* make_iterable gives the wrapper of the container a [Symbol.iterator]    *)
(* method that captures the context it was made in, its home.  The method  *)
(* returns an ES object whose next() is a closure of a safe_handle to the  *)
(* wrapper and of two C++ iterators.  Whoever calls the methods, the ES    *)
(* objects and their collection are for the module that composes this one. *)
(***************************************************************************)
EXTENDS Naturals, Sequences

CONSTANTS
  Iterators,   \* ES objects returned by [Symbol.iterator]
  Contexts,    \* ES threads: the main one and coroutines
  Main,
  MaxSize,     \* bound: size of the container
  MaxChanges,  \* bound: changes to the container
  None

VARIABLES
  home,      \* the context both closures use
  contexts,  \* contexts that are not collected
  value,     \* the container: its lifetime, size and number of changes
  closure,   \* the closure of the iterator's next(), None when there is none
  got,       \* what next() handed out: the element, and the context it was called in
  undefined  \* why the behaviour is undefined, "no" while it is not

containers == <<home, contexts, value>>
iterations == <<closure, got, undefined>>

Init ==
  /\ home \in Contexts
  /\ contexts = Contexts
  /\ \E n \in 0 .. MaxSize : value = [life |-> "alive", size |-> n, changes |-> 0]
  /\ closure = [i \in Iterators |-> None]
  /\ got = [i \in Iterators |-> <<>>]
  /\ undefined = "no"

-----------------------------------------------------------------------------
(***************************************************************************)
(* [Symbol.iterator] called in context c.  `this` is taken from the home:  *)
(* called elsewhere, or on a container that was finalized, get<T&> or the  *)
(* push of the returned handle throws and no iterator reaches the caller.  *)
(***************************************************************************)
Iterable(c) == c = home /\ value.life = "alive"

Iterate(i, c) ==
  /\ closure[i] = None
  /\ got' = [got EXCEPT ![i] = <<>>]
  /\ IF home \notin contexts
     THEN undefined' = "home" /\ UNCHANGED closure
     ELSE /\ closure' = IF Iterable(c)
                        THEN [closure EXCEPT ![i] =
                               [begin |-> 0, end |-> value.size, changes |-> value.changes]]
                        ELSE closure
          /\ UNCHANGED undefined
  /\ UNCHANGED containers

AtEnd(i) == closure[i].begin = closure[i].end

\* Why next() of i has no defined outcome; only reading an element touches the container.
Cause(i) ==
  IF home \notin contexts THEN "home"
  ELSE IF AtEnd(i) THEN "no"
  ELSE IF value.life # "alive" THEN value.life
  ELSE IF value.changes # closure[i].changes THEN "changed"
  ELSE "no"

Defined(i) == closure[i] # None /\ Cause(i) = "no"

\* The element is pushed, then the range is advanced by one.
NotAdvanced(i, c) == UNCHANGED <<closure, got>>
Advance(i, c) ==
  IF AtEnd(i)
  THEN UNCHANGED <<closure, got>>
  ELSE /\ got' = [got EXCEPT ![i] = Append(@, [element |-> closure[i].begin, in |-> c])]
       /\ closure' = [closure EXCEPT ![i].begin = @ + 1]

\* The property `value` is left out at the end.
Outcome(i) == [done |-> IF AtEnd(i) THEN "true" ELSE "false", value |-> ~AtEnd(i)]

NextReturns(i, c, o) ==
  /\ Defined(i)
  /\ c = home
  /\ o = Outcome(i)
  /\ Advance(i, c)
  /\ UNCHANGED <<containers, undefined>>

\* The push of the element throws: nothing has moved.
SkippedOnThrow(i) == closure' = [closure EXCEPT ![i].begin = @ + 1]
PushThrows(i) == UNCHANGED closure

(***************************************************************************)
(* next() throws: its closure was finalized, or the push of the element    *)
(* threw, or it is called outside its home: the handle it returns is of    *)
(* another context, which is found out when the range has advanced.        *)
(***************************************************************************)
NextThrows(i, c) ==
  /\ \/ closure[i] = None /\ UNCHANGED <<closure, got>>
     \/ Defined(i) /\ c # home /\ Advance(i, c)
     \/ Defined(i) /\ ~AtEnd(i) /\ PushThrows(i) /\ UNCHANGED got
  /\ UNCHANGED <<containers, undefined>>

NextUndefined(i) ==
  /\ closure[i] # None
  /\ undefined' = Cause(i)
  /\ undefined' # "no"
  /\ UNCHANGED <<containers, closure, got>>

-----------------------------------------------------------------------------
(* What ends a closure, the container or a context.                        *)

\* The closure's handle keeps the wrapper of the container from collection.
NotHeld == FALSE
HeldByClosure == \E i \in Iterators : closure[i] # None

\* next() is finalized, by duk::finalize or by Duktape's collection; the handle
\* it held is given back through the home.
Release(i) ==
  /\ closure[i] # None
  /\ IF home \in contexts
     THEN closure' = [closure EXCEPT ![i] = None] /\ UNCHANGED undefined
     ELSE undefined' = "home" /\ UNCHANGED closure
  /\ UNCHANGED <<containers, got>>

\* The container is destroyed: by duk::finalize, or with its wrapper.
Destroy(life) ==
  /\ value.life = "alive"
  /\ value' = [value EXCEPT !.life = life]
  /\ UNCHANGED <<home, contexts, iterations>>

\* Any change to the container that invalidates its iterators.
Change ==
  /\ value.life = "alive" /\ value.changes < MaxChanges
  /\ \E n \in 0 .. MaxSize : value' = [value EXCEPT !.size = n, !.changes = @ + 1]
  /\ UNCHANGED <<home, contexts, iterations>>

\* A coroutine nobody refers to is collected; dukcpp keeps no reference to it.
EndContext(c) ==
  /\ c \in contexts \ {Main}
  /\ contexts' = contexts \ {c}
  /\ UNCHANGED <<home, value, iterations>>

-----------------------------------------------------------------------------
(* Properties.                                                             *)

NativeTypeOK ==
  /\ home \in Contexts
  /\ contexts \subseteq Contexts /\ Main \in contexts
  /\ value \in [life : {"alive", "finalized", "collected"},
                size : 0 .. MaxSize, changes : 0 .. MaxChanges]
  /\ closure \in [Iterators ->
       {None} \cup [begin : 0 .. MaxSize, end : 0 .. MaxSize, changes : 0 .. MaxChanges]]
  /\ got \in [Iterators -> Seq([element : Nat, in : Contexts])]
  /\ undefined \in {"no", "home", "finalized", "collected", "changed"}

(***************************************************************************)
(* Every iterator hands out the elements in order, none twice and none     *)
(* left out, whatever else iterates the container meanwhile and whichever  *)
(* next() threw; only an element that next() was asked for outside its     *)
(* home is lost.                                                           *)
(***************************************************************************)
EachOnce(i) == \A k \in 1 .. Len(got[i]) : got[i][k].element = k - 1

(***************************************************************************)
(* Iterating goes wrong only through what the program did to the container *)
(* or to the home coroutine, never because Duktape collected the container *)
(* under an iterator.                                                      *)
(***************************************************************************)
IterationSound ==
  undefined # "no" =>
    \/ value.life = "finalized" \/ value.changes > 0
    \/ home \notin contexts
=============================================================================
