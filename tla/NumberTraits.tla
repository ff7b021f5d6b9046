---------------------------- MODULE NumberTraits ----------------------------
(***************************************************************************)
(* How an integer gets from C++ to ES and back (the integer and enum       *)
(* type_traits of include/duk/detail/type_traits.h).  check_type accepts   *)
(* any number for any of these types; get saturates to Duktape's int and   *)
(* converts what is left to the parameter's type.                          *)
(***************************************************************************)
EXTENDS Integers

CONSTANTS
  IntSize,  \* number of values of duk_int_t and of duk_uint_t
  Sizes,    \* numbers of values of the C++ integer types: 64-bit types have more
  Floating  \* the floating point types, with numbers in halves

ASSUME NumberAssumption ==
  /\ IntSize \in Nat \ {0}
  /\ Sizes \subseteq Nat \ {0}

\* An enum is its underlying type.  A type of w bits has 2^w values.
IntTypes == [signed : BOOLEAN, size : Sizes]

Lowest(T) == IF T.signed THEN -(T.size \div 2) ELSE 0
Highest(T) == Lowest(T) + T.size - 1
ValuesOf(T) == Lowest(T) .. Highest(T)

\* C++'s conversion to T: the value of T that is congruent modulo the size of T.
Convert(T, n) == Lowest(T) + ((n - Lowest(T)) % T.size)

\* The Duktape function for signed types, and that for unsigned ones.
AlwaysInt(T) == [signed |-> TRUE, size |-> IntSize]
DukType(T) == [signed |-> T.signed, size |-> IntSize]

\* ES numbers are counted in halves, so that fractions occur; NaN is left out.
Whole(n) == 2 * n

Truncated(halves) ==
  IF halves < 0 THEN -((-halves) \div 2) ELSE halves \div 2

\* duk_get_int, duk_get_uint.
DukGet(T, number) ==
  LET n == Truncated(number)
      D == DukType(T)
  IN  IF n < Lowest(D) THEN Lowest(D)
      ELSE IF n > Highest(D) THEN Highest(D)
      ELSE n

\* A floating point number is pushed as it is.
Push(T, x) == IF T = Floating THEN x ELSE Whole(Convert(DukType(T), x))
Get(T, number) == Convert(T, DukGet(T, number))
=============================================================================
