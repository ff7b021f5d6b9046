----------------------------- MODULE TypeMatch -----------------------------
(***************************************************************************)
(* Which C++ types an ES value can be had as (check_type and get of        *)
(* include/duk/detail/type_traits.h).  A wrapped C++ value is asked for a  *)
(* type at run time; it offers its own type, the type its adapter yields,  *)
(* and what its base offers.                                               *)
(***************************************************************************)
EXTENDS Naturals, FiniteSets

CONSTANTS
  Classes,    \* C++ classes without a type adapter
  Pointers,   \* types with a type adapter: smart pointers
  Base,       \* class_traits_base and type_adapter::base, None without one
  Pointee,    \* type_adapter::type
  Number,     \* the parameter type of numbers
  Wraps,      \* ES value -> type of the C++ value in it, Number, or None
  None

Types == Classes \cup Pointers

\* Bases form chains; adapters adapt to classes; a base of an adapter adapts
\* to the base of the class (the first is the type system's, is_base_of; the
\* others are how the README has adapters defined).
ASSUME TypeAssumption ==
  /\ IsFiniteSet(Types) /\ Classes \cap Pointers = {}
  /\ {Number, None} \cap Types = {}
  /\ Base \in [Types -> Types \cup {None}]
  /\ \A c \in Classes : Base[c] \notin Pointers
  /\ \A p \in Pointers : Base[p] \notin Classes
  /\ Pointee \in [Pointers -> Classes]
  /\ \E rank \in [Types -> 0 .. Cardinality(Types)] :
       \A t \in Types : Base[t] # None => rank[Base[t]] < rank[t]

\* What the buffer of get() is filled with: a value of the type, or a pointer.
Fail == [holds |-> "nothing", type |-> None]
Value(t) == [holds |-> "value", type |-> t]
Pointer(t) == [holds |-> "pointer", type |-> t]

OfOwnType(t) == IF t \in Pointers THEN Value(t) ELSE Pointer(t)

\* The base that getImplType goes on with.
NoBase(t) == None
NextBase(t) == Base[t]

\* getImplType of a value of type `stored`, asked for `id`.
GetImpl(id, stored) ==
  LET getImplType[t \in Types \cup {None}] ==
        IF t = None THEN Fail
        ELSE IF t = id THEN OfOwnType(t)
        ELSE IF t \in Pointers /\ id = Pointee[t] THEN Pointer(id)
        ELSE getImplType[NextBase(t)]
  IN  getImplType[stored]

\* Numbers of all C++ types are one type.
IsNumber(v) == Wraps[v] = Number

\* check_type of the parameter type p.
CheckType(v, p) ==
  IF p = Number THEN IsNumber(v)
  ELSE Wraps[v] \in Types /\ GetImpl(p, Wraps[v]) # Fail

\* get reads a value of an adapted type out of the buffer, and a pointer
\* to anything else.
Reads(id) == IF id \in Pointers THEN Value(id) ELSE Pointer(id)

-----------------------------------------------------------------------------
(* The same relation, said directly.                                       *)

\* t and its bases: the least set that holds t and the base of its members.
Ancestors(t) ==
  LET closed == {S \in SUBSET Types :
                   t \in S /\ \A s \in S : Base[s] # None => Base[s] \in S}
  IN  {a \in Types : \A S \in closed : a \in S}

\* A value may be used as any of its bases, a pointer also as what it points
\* to, or what a pointer that it converts to points to.
UsableAs(stored, id) ==
  \E a \in Ancestors(stored) : id = a \/ (a \in Pointers /\ id = Pointee[a])
=============================================================================
