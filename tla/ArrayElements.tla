--------------------------- MODULE ArrayElements ----------------------------
(***************************************************************************)
(* What C++ code reads through array iterators (operator* and operator[]   *)
(* of duk::array_input_iterator, include/duk/range.h): an element that C++ *)
(* or ES code put into the array as a number of one type is got as an      *)
(* integer of another (NumberTraits).                                      *)
(***************************************************************************)
EXTENDS ArrayIterator, NumberTraits

CONSTANTS
  Elements,  \* what each position of the array holds: a value, and the type it was pushed as
  None

ASSUME ElementsAssumption ==
  /\ Floating \notin IntTypes
  /\ Elements \in [0 .. Length - 1 -> [type : IntTypes \cup {Floating}, value : Int]]
  /\ \A p \in 0 .. Length - 1 :
       Elements[p].type # Floating => Elements[p].value \in ValuesOf(Elements[p].type)

VARIABLE got  \* the last value that was read, as which type, and the position it was read at

elementVars == <<vars, got>>

\* duk_get_prop_index finds the element, and type_traits<T>::get converts it.
Dereference(i, n, T) ==
  /\ at[i] + n \in 0 .. Length - 1
  /\ Subscript(i, n) \in DOMAIN Elements
  /\ got' = LET e == Elements[Subscript(i, n)]
            IN  [type |-> T, at |-> at[i] + n, value |-> Get(T, Push(e.type, e.value))]
  /\ UNCHANGED vars

ElementsInit == Init /\ got = None

ElementsNext ==
  \/ Next /\ UNCHANGED got
  \/ \E i \in Iters, n \in Offsets, T \in IntTypes : Dereference(i, n, T)

ElementsSpec == ElementsInit /\ [][ElementsNext]_elementVars

-----------------------------------------------------------------------------
\* The whole number an element stands for: fractions are cut off.
Meant(e) ==
  IF e.type # Floating THEN e.value
  ELSE IF e.value >= 0 \/ e.value % 2 = 0 THEN e.value \div 2
  ELSE e.value \div 2 + 1

\* The values of duk_int_t and of duk_uint_t.
DuktapeHas(signed, n) ==
  IF signed THEN -(IntSize \div 2) <= n /\ n < IntSize - IntSize \div 2
  ELSE 0 <= n /\ n < IntSize

(***************************************************************************)
(* However the iterators came to where they are, a dereference yields the  *)
(* number that was put at that position exactly when the type it is read   *)
(* as has the number and Duktape has it too, in the integer type of the    *)
(* same sign, on the way in and on the way out (type_traits.h 542-650).    *)
(* Enums are "just as if they were regular integer types" (README.md 350), *)
(* and 64-bit types lose every value beyond Duktape's.                     *)
(***************************************************************************)
DereferencesFaithful ==
  got # None =>
    LET e == Elements[got.at]
        n == Meant(e)
    IN  got.value = n <=>
          /\ n \in ValuesOf(got.type)
          /\ \A T \in {e.type, got.type} \ {Floating} : DuktapeHas(T.signed, n)
=============================================================================
