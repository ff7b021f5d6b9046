--------------------------- MODULE OverloadedCall ---------------------------
(***************************************************************************)
(* A call from ES to a bound C++ function (detail/function_wrapper.h, and  *)
(* the wrapper of a pushed callable in detail/type_traits.h): the listed   *)
(* signatures are tried in order on one value stack.  Each attempt         *)
(* rearranges the stack for its signature; a failed attempt has to leave   *)
(* the next one the arguments of the call.                                 *)
(***************************************************************************)
EXTENDS Naturals, Sequences

CONSTANTS
  Values,        \* ES values that an argument or `this` may be
  Params,        \* C++ parameter types
  Accepts,       \* parameter type -> values its check_type accepts
  Pushed,        \* what else C++ code may push on the value stack
  MaxArgs,       \* bound: arguments of a call
  MaxParams,     \* bound: parameters of a signature, with `this`
  MaxOverloads,  \* bound: signatures of a function
  Name           \* the property name Duktape passes to an accessor

ASSUME CallAssumption ==
  /\ Accepts \in [Params -> SUBSET Values]
  /\ Name \notin Values
  /\ {MaxArgs, MaxParams, MaxOverloads} \subseteq Nat

SeqsUpTo(S, n) == UNION {[1 .. m -> S] : m \in 0 .. n}

\* Only a signature with a class_of_t gets `this`.
Signatures == [method : BOOLEAN, params : SeqsUpTo(Params, MaxParams)]

VARIABLES
  overloads,  \* the signatures of the function, in the order they are listed
  accessor,   \* is it a property getter or setter (IsPropertyCall)?
  func,       \* a bound function, a pushed callable, or one whose C++ object is gone
  this,       \* `this` of the call
  args,       \* the arguments of the call
  stack,      \* the value stack of the call
  k,          \* the signature being tried
  pc          \* attempt, check, invoked, returned, threw, error, invalid

input == <<overloads, accessor, func, this, args>>
vars == <<input, stack, k, pc>>

\* A property getter or setter has one signature.
Accessors(l) == {a \in BOOLEAN : a => Len(l) = 1}

\* An accessor finds the name of the property on top of its arguments.
Init ==
  /\ overloads \in {l \in SeqsUpTo(Signatures, MaxOverloads) : l # <<>>}
  /\ accessor \in Accessors(overloads)
  /\ func \in IF accessor THEN {"bound"} ELSE {"bound", "callable", "finalized"}
  /\ this \in Values
  /\ args \in SeqsUpTo(Values, MaxArgs)
  /\ stack = IF accessor THEN Append(args, Name) ELSE args
  /\ k = 1
  /\ pc = "attempt"

\* The wrapper of a pushed callable finds no C++ object: "called invalid or
\* finalized function".  The stack of the call goes with the call.
CalledFinalized ==
  /\ pc = "attempt" /\ func = "finalized"
  /\ pc' = "invalid"
  /\ UNCHANGED <<input, stack, k>>

PushThis(sig) == sig.method \/ accessor

KeepName == stack
Popped == IF accessor THEN SubSeq(stack, 1, Len(stack) - 1) ELSE stack

\* duk_pop of the name, duk_push_this and duk_insert to the bottom.
Arranged == IF PushThis(overloads[k]) THEN <<this>> \o Popped ELSE Popped

Attempt ==
  /\ pc = "attempt" /\ func # "finalized"
  /\ stack' = Arranged
  /\ pc' = "check"
  /\ UNCHANGED <<input, k>>

\* The number of values, then check_type of each.
AtLeastArgsMatch(params) ==
  /\ Len(stack) >= Len(params)
  /\ \A i \in 1 .. Len(params) : stack[i] \in Accepts[params[i]]
ArgsMatch(params) ==
  /\ Len(stack) = Len(params)
  /\ \A i \in 1 .. Len(params) : stack[i] \in Accepts[params[i]]

Invoke ==
  /\ pc = "check"
  /\ ArgsMatch(overloads[k].params)
  /\ pc' = "invoked"
  /\ UNCHANGED <<input, stack, k>>

\* duk_remove of `this`.
NotRestored == stack
Restored == IF PushThis(overloads[k]) THEN Tail(stack) ELSE stack

\* The fold over the signatures stops at the last one.
OnePastLast == k <= Len(overloads)
AnotherSignature == k < Len(overloads)

Mismatch ==
  /\ pc = "check"
  /\ ~ArgsMatch(overloads[k].params)
  /\ stack' = Restored
  /\ IF AnotherSignature
     THEN k' = k + 1 /\ pc' = "attempt"
     ELSE pc' = "error" /\ UNCHANGED k
  /\ UNCHANGED input

\* What a signature receives, said directly.
Received(sig) == IF PushThis(sig) THEN <<this>> \o args ELSE args

Bottom(s, t) == Len(s) <= Len(t) /\ \A i \in 1 .. Len(s) : t[i] = s[i]

\* The C++ function runs: what it pushes and pops is above its arguments.
Run ==
  /\ pc = "invoked"
  /\ stack' \in Seq(Values \cup {Name} \cup Pushed)
  /\ Bottom(Received(overloads[k]), stack')
  /\ UNCHANGED <<input, k, pc>>

\* The result is pushed (a void function has none), or the function throws.
Return(result) ==
  /\ pc = "invoked"
  /\ stack' = stack \o result
  /\ pc' = "returned"
  /\ UNCHANGED <<input, k>>

Throw ==
  /\ pc = "invoked"
  /\ pc' = "threw"
  /\ UNCHANGED <<input, stack, k>>

Results == {<<>>} \cup {<<v>> : v \in Values}

Ended == pc \in {"returned", "threw", "error", "invalid"} /\ UNCHANGED vars

Next ==
  \/ CalledFinalized \/ Attempt \/ Invoke \/ Mismatch
  \/ Run \/ Throw \/ \E result \in Results : Return(result)
  \/ Ended

Spec == Init /\ [][Next]_vars

-----------------------------------------------------------------------------
(* Properties.                                                             *)

TypeOK ==
  /\ overloads \in Seq([method : BOOLEAN, params : Seq(Params)]) /\ accessor \in BOOLEAN
  /\ func \in {"bound", "callable", "finalized"}
  /\ this \in Values /\ args \in Seq(Values)
  /\ stack \in Seq(Values \cup {Name} \cup Pushed)
  /\ k \in 1 .. Len(overloads)
  /\ pc \in {"attempt", "check", "invoked", "returned", "threw", "error", "invalid"}

Chosen == pc \in {"invoked", "returned", "threw"}

\* Whether the call fits a signature.
Fits(sig) ==
  /\ Len(Received(sig)) = Len(sig.params)
  /\ \A i \in 1 .. Len(sig.params) : Received(sig)[i] \in Accepts[sig.params[i]]

(***************************************************************************)
(* Whatever was tried before, a signature is tried on the arguments of the *)
(* call, and the function that is invoked receives `this` when it takes it *)
(* and all arguments in order, without the name of the property; they stay *)
(* where they are while it runs.                                           *)
(***************************************************************************)
ArgumentsIntact ==
  /\ pc = "attempt" /\ ~accessor => stack = args
  /\ pc = "check" => stack = Received(overloads[k])
  /\ Chosen => Bottom(Received(overloads[k]), stack)

(***************************************************************************)
(* dukcpp "goes through all listed overloads in order, and calls the first *)
(* one which matches all the parameters" (README.md:277); the error is     *)
(* thrown only when none does.  A callable whose C++ object is gone is not *)
(* called at all (type_traits.h 351).                                      *)
(***************************************************************************)
FirstMatch ==
  /\ Chosen => /\ func # "finalized"
               /\ Fits(overloads[k]) /\ \A j \in 1 .. k - 1 : ~Fits(overloads[j])
  /\ pc = "error" => \A j \in 1 .. Len(overloads) : ~Fits(overloads[j])

\* A call is answered: invoked when some signature fits it, an error otherwise.
CallAnswered ==
  <>(pc = IF func = "finalized" THEN "invalid"
          ELSE IF \E j \in 1 .. Len(overloads) : Fits(overloads[j]) THEN "invoked" ELSE "error")
=============================================================================
