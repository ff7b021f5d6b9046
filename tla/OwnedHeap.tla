----------------------------- MODULE OwnedHeap ------------------------------
(***************************************************************************)
(* What owning handles promise, with no counter, no stash and no steps     *)
(* inside an operation: each slot owns at most one object, and while the   *)
(* heap is open an object is reclaimed only when no slot owns it and ES    *)
(* code does not keep it.                                                  *)
(***************************************************************************)
CONSTANTS Slots, Addr, None

VARIABLES
  owns,   \* slot -> the object it owns, or None
  alive,  \* objects that are not reclaimed
  kept,   \* objects ES code keeps reachable
  open    \* FALSE from the start of heap destruction

vars == <<owns, alive, kept, open>>

Init ==
  /\ owns = [s \in Slots |-> None]
  /\ alive = {}
  /\ kept = {}
  /\ open = TRUE

\* Finalizers may create objects even while the heap is being destroyed.
Create(a) ==
  /\ a \notin alive
  /\ alive' = alive \cup {a}
  /\ kept' = kept \cup {a}
  /\ UNCHANGED <<owns, open>>

\* Only an object that is still owned can come back to ES code.
Keep(a) ==
  /\ open
  /\ \E s \in Slots : owns[s] = a
  /\ kept' = kept \cup {a}
  /\ UNCHANGED <<owns, alive, open>>

Drop(a) ==
  /\ open
  /\ kept' = kept \ {a}
  /\ UNCHANGED <<owns, alive, open>>

Acquire(s, a) ==
  /\ open
  /\ owns[s] = None
  /\ a \in alive
  /\ owns' = [owns EXCEPT ![s] = a]
  /\ UNCHANGED <<alive, kept, open>>

Release(s) ==
  /\ owns' = [owns EXCEPT ![s] = None]
  /\ UNCHANGED <<alive, kept, open>>

Transfer(s, o) ==
  /\ s # o
  /\ owns[s] = None
  /\ owns' = [owns EXCEPT ![s] = owns[o], ![o] = None]
  /\ UNCHANGED <<alive, kept, open>>

Reclaim(a) ==
  /\ open => a \notin kept /\ \A s \in Slots : owns[s] # a
  /\ alive' = alive \ {a}
  /\ UNCHANGED <<owns, kept, open>>

Close ==
  /\ open' = FALSE
  /\ UNCHANGED <<owns, alive, kept>>

Forget ==
  /\ ~open
  /\ kept' = {}
  /\ UNCHANGED <<owns, alive, open>>

Next ==
  \/ \E a \in Addr : Create(a) \/ Keep(a) \/ Drop(a) \/ Reclaim(a)
  \/ \E s \in Slots : \/ Release(s)
                      \/ \E a \in Addr : Acquire(s, a)
                      \/ \E o \in Slots : Transfer(s, o)
  \/ Close
  \/ Forget

Spec == Init /\ [][Next]_vars
=============================================================================
