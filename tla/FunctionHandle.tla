--------------------------- MODULE FunctionHandle ---------------------------
(***************************************************************************)
(* A call of an ES function from C++ (duk::function_handle::operator(),    *)
(* include/duk/function_handle.h) on the value stack of the C++ function   *)
(* that makes it.                                                          *)
(***************************************************************************)
EXTENDS Naturals, Sequences

CONSTANTS
  Sent,       \* values that are passed and returned
  Expected,   \* return types of handles
  Accepts,    \* type -> values its check_type accepts
  ByReference,\* types whose get yields a reference into the ES object
  MaxSent,    \* bound: arguments
  Fresh,      \* may the function return an object that nothing else refers to?
  Function, Error, None

VARIABLES
  stack,      \* the value stack
  below,      \* what was on it when the call began
  got,        \* the return type of the handle; then what was read, and how
  hpc         \* idle, push, called, failed, returned, threw, pushThrew

hvars == <<below, got, hpc>>

Push(v) == stack' = Append(stack, v)
Popped(n) == SubSeq(stack, 1, Len(stack) - n)

HInit == below = <<>> /\ got = None /\ hpc = "idle"

\* push_handle of the function.
PushFunction(type) ==
  /\ hpc = "idle"
  /\ Push(Function)
  /\ below' = stack
  /\ got' = type
  /\ hpc' = "push"

\* The number of arguments that are pushed.
Arguments == Len(stack) - Len(below) - 1

PushArgument(v) ==
  /\ hpc = "push" /\ Arguments < MaxSent
  /\ Push(v)
  /\ UNCHANGED hvars

\* An argument cannot be pushed: no memory, or a handle of another context.
PushThrows ==
  /\ hpc = "push"
  /\ hpc' = "pushThrew"
  /\ UNCHANGED <<stack, below, got>>

\* duk_pcall replaces the function and its arguments by the result.
FrameAndBelow == Popped(Arguments + 2)
CallFrame == Popped(Arguments + 1)

Pcall(v) ==
  /\ hpc = "push"
  /\ stack' = Append(CallFrame, v)
  /\ hpc' = "called"
  /\ UNCHANGED <<below, got>>

PcallFails ==
  /\ hpc = "push"
  /\ stack' = Append(CallFrame, Error)
  /\ hpc' = "failed"
  /\ UNCHANGED <<below, got>>

Top == stack[Len(stack)]

(***************************************************************************)
(* safe_get, then the destructor of scoped_pop.  What get returns for a    *)
(* class is a reference, and decltype(auto) passes it on: the object is    *)
(* popped before the caller uses it.  kept: something else refers to it.   *)
(***************************************************************************)
GetResult(kept) ==
  /\ hpc = "called" /\ Top \in Accepts[got]
  /\ ~kept => Fresh
  /\ stack' = Popped(1)
  /\ got' = [value |-> Top, alive |-> kept \/ got \notin ByReference]
  /\ hpc' = "returned"
  /\ UNCHANGED below

\* es_error, or safe_get's error: scoped_pop pops here too.
NotPopped == stack
AfterThrow == Popped(1)

Throws ==
  /\ hpc = "failed" \/ (hpc = "called" /\ Top \notin Accepts[got])
  /\ stack' = AfterThrow
  /\ hpc' = "threw"
  /\ UNCHANGED <<below, got>>

HNext ==
  \/ \E type \in Expected : PushFunction(type)
  \/ \E v \in Sent : PushArgument(v) \/ Pcall(v)
  \/ PushThrows \/ PcallFails
  \/ \E kept \in BOOLEAN : GetResult(kept)
  \/ Throws

Ended == hpc \in {"returned", "threw", "pushThrew"}

-----------------------------------------------------------------------------
(* Properties.                                                             *)

(***************************************************************************)
(* A call leaves the value stack as it was, whether it returns or throws:  *)
(* the calls of one C++ function may be any number, and Duktape's stack is *)
(* limited.  An argument that cannot be pushed is the exception: what was  *)
(* pushed before it stays.                                                 *)
(***************************************************************************)
StackRestored ==
  /\ hpc \in {"returned", "threw"} => stack = below
  /\ hpc \in {"called", "failed"} => Popped(1) = below

(***************************************************************************)
(* The caller gets the value of the handle's return type ("specifies       *)
(* function's expected return type", README.md 764), not a reference to    *)
(* one that is gone.                                                       *)
(***************************************************************************)
ResultAlive == hpc = "returned" => got.alive
=============================================================================
