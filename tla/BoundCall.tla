----------------------------- MODULE BoundCall -----------------------------
(***************************************************************************)
(* A call of a bound C++ function from its arguments to its result: the    *)
(* wrapper tries the signatures (OverloadedCall) by the C++ types of the   *)
(* wrapped values (TypeMatch), and the function that is invoked may call   *)
(* back an ES function on the same value stack (FunctionHandle).  A call   *)
(* that fits no signature is an error; that of a bound function is given a *)
(* place in ES code (ErrorLocation).                                       *)
(***************************************************************************)
EXTENDS OverloadedCall, TypeMatch, ErrorLocation

CONSTANTS
  Sent,       \* values exchanged with the ES function
  Expected,   \* return types of function handles
  MaxSent,    \* bound: arguments of the ES function
  Fresh,      \* may the ES function return an object nothing else refers to?
  Function, Error

VARIABLES below, got, hpc

Handle == INSTANCE FunctionHandle WITH ByReference <- Classes

\* check_type is that of TypeMatch.
ASSUME BoundAssumption ==
  /\ Accepts = [p \in Params |-> {v \in Values : CheckType(v, p)}]
  /\ Params \subseteq Types \cup {Number}
  /\ Wraps \in [Values -> Types \cup {Number, None}]
  /\ Sent \subseteq Values /\ Expected \subseteq Params
  /\ Pushed = {Function, Error}

handleVars == <<below, got, hpc>>
boundVars == <<vars, handleVars, lvars>>

BoundInit == Init /\ Handle!HInit /\ LInit

Wrapper ==
  /\ CalledFinalized \/ Attempt \/ Invoke \/ Mismatch
  /\ UNCHANGED <<handleVars, lvars>>

\* The C++ function makes at most one call.
CallBack == pc = "invoked" /\ Handle!HNext /\ UNCHANGED <<input, k, pc, lvars>>

\* It may catch what the call threw, or let it through; it may also fail itself.
Leave ==
  /\ hpc = "idle" \/ Handle!Ended
  /\ Throw \/ \E r \in Results : Return(r)
  /\ UNCHANGED <<handleVars, lvars>>

\* throwESError is called by the wrapper of bound functions.  That of pushed
\* callables calls duk_error, a property accessor returns DUK_RET_TYPE_ERROR.
Locates == pc = "error" /\ func = "bound" /\ ~accessor
Locate == Locates /\ LNext /\ UNCHANGED <<vars, handleVars>>

BoundEnded ==
  /\ Locates => lpc = "thrown"
  /\ Ended /\ UNCHANGED <<handleVars, lvars>>

BoundNext == Wrapper \/ CallBack \/ Leave \/ Locate \/ BoundEnded

BoundSpec == BoundInit /\ [][BoundNext]_boundVars

\* C++ code runs on.
FairBoundSpec == BoundSpec /\ WF_boundVars(BoundNext)

-----------------------------------------------------------------------------
(* Properties.                                                             *)

BoundTypeOK ==
  /\ TypeOK
  /\ below \in Seq(Values \cup {Name} \cup Pushed)
  /\ got \in Expected \cup {None} \cup [value : Values, alive : BOOLEAN]
  /\ hpc \in {"idle", "push", "called", "failed", "returned", "threw", "pushThrew"}
  /\ calls \in Seq(Frames) /\ level \in Nat \ {0}
  /\ fileName \in Files \cup {NoFile} /\ lineNumber \in Lines \cup {0}
  /\ lpc \in {"idle", "search", "thrown"}

(***************************************************************************)
(* Calling back does not disturb the call in progress: the composition     *)
(* implements the call protocol, so its theorems hold here too.            *)
(***************************************************************************)
ImplementsCall == Spec

\* FunctionHandle's properties, while the function that called back runs.
StackRestored == pc = "invoked" => Handle!StackRestored
ResultAlive == pc = "invoked" => Handle!ResultAlive

Takes(v, p) ==
  IF p = Number THEN Wraps[v] = Number
  ELSE Wraps[v] \in Types /\ UsableAs(Wraps[v], p)

(***************************************************************************)
(* "whenever an ES function expects `MyBaseClass` parameter, it will also  *)
(* accept `MyClass` objects" (README.md 586), the same through smart       *)
(* pointers, and nothing else; and getImpl leaves in the buffer of get     *)
(* what get reads there (type_traits.h 45).                                *)
(***************************************************************************)
MatchedByType ==
  /\ Chosen =>
       LET params == overloads[k].params
           received == Received(overloads[k])
       IN  \A i \in 1 .. Len(params) :
             /\ Takes(received[i], params[i])
             /\ params[i] \in Types => GetImpl(params[i], Wraps[received[i]]) = Reads(params[i])
  /\ pc = "error" =>
       \A j \in 1 .. Len(overloads) :
         LET params == overloads[j].params
             received == Received(overloads[j])
         IN  Len(params) = Len(received) =>
               \E i \in 1 .. Len(params) : ~Takes(received[i], params[i])

(***************************************************************************)
(* The error of a bound function's call that fits no overload names file   *)
(* and line of one frame, that of the ES function the call comes from,     *)
(* however many C functions lie between; none when only C++ code called    *)
(* (function_wrapper.h:31: "find the first ES function on the call         *)
(* stack").  Errors of pushed callables and of accessors are not placed.   *)
(***************************************************************************)
LocatesCaller == lpc = "thrown" => Locates /\ ErrorPlace = Innermost
=============================================================================
