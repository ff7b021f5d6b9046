--------------------------- MODULE ArrayIterator ---------------------------
(***************************************************************************)
(* The arithmetic of duk::array_input_iterator (include/duk/range.h): the  *)
(* index is a duk_uarridx_t, an unsigned integer of fixed width, while the *)
(* distances that C++ algorithms compute and pass are wider and signed.    *)
(* Two iterators of one array are moved in every way the class offers; the *)
(* position each one stands for is followed beside its index.              *)
(***************************************************************************)
EXTENDS Integers

CONSTANTS
  Modulus,  \* number of values of duk_uarridx_t
  Length,   \* length of the array
  Signed    \* may an algorithm ask for the distance to an earlier iterator?

\* Every length is a duk_uarridx_t: ES array indices end before 2^32 - 1.
ASSUME ArrayAssumption ==
  /\ Modulus \in Nat /\ Length \in Nat
  /\ Length < Modulus
  /\ Signed \in BOOLEAN

Iters == {"a", "b"}

VARIABLES
  idx,   \* iterator -> arrayIdx_
  at,    \* iterator -> its position from begin to end
  dist   \* the last difference_type an algorithm obtained, and the true one

vars == <<idx, at, dist>>

Positions == 0 .. Length

\* What an expression yields when it is converted to duk_uarridx_t.
UIdx(n) == n % Modulus

\* range.begin() and range.end().
Init ==
  /\ idx = [i \in Iters |-> IF i = "a" THEN 0 ELSE UIdx(Length)]
  /\ at = [i \in Iters |-> IF i = "a" THEN 0 ELSE Length]
  /\ dist = [computed |-> 0, meant |-> 0]

\* A C++ algorithm keeps its iterators between begin and end.
Move(i, n, newIdx) ==
  /\ at[i] + n \in Positions
  /\ at' = [at EXCEPT ![i] = @ + n]
  /\ idx' = [idx EXCEPT ![i] = newIdx]
  /\ UNCHANGED dist

Increment(i) == Move(i, 1, UIdx(idx[i] + 1))
Decrement(i) == Move(i, -1, UIdx(idx[i] - 1))

PlusAssign(i, n) == Move(i, n, UIdx(idx[i] + n))
MinusAssign(i, n) == Move(i, -n, UIdx(idx[i] - n))

\* i = j + n and i = j - n.
AssignSum(i, j, n) ==
  /\ at[j] + n \in Positions
  /\ at' = [at EXCEPT ![i] = at[j] + n]
  /\ idx' = [idx EXCEPT ![i] = UIdx(idx[j] + n)]
  /\ UNCHANGED dist

AssignDifference(i, j, n) ==
  /\ at[j] - n \in Positions
  /\ at' = [at EXCEPT ![i] = at[j] - n]
  /\ idx' = [idx EXCEPT ![i] = UIdx(idx[j] - n)]
  /\ UNCHANGED dist

\* j - i: both operands are unsigned, so the difference is, before it is
\* converted to the signed difference_type.
DiffClamped(j, i) == IF idx[j] < idx[i] THEN 0 ELSE idx[j] - idx[i]
DiffWidened(j, i) == Modulus + idx[j] - idx[i]
DiffSwapped(j, i) == UIdx(idx[i] - idx[j])
Diff(j, i) == UIdx(idx[j] - idx[i])

Distance(i, j) ==
  /\ Signed \/ at[i] <= at[j]
  /\ dist' = [computed |-> Diff(j, i), meant |-> at[j] - at[i]]
  /\ UNCHANGED <<idx, at>>

\* i += j - i, whatever the order of the two.
Advance(i, j) ==
  /\ at' = [at EXCEPT ![i] = at[j]]
  /\ idx' = [idx EXCEPT ![i] = UIdx(@ + Diff(j, i))]
  /\ UNCHANGED dist

Offsets == -Length .. Length

Next ==
  \E i \in Iters :
    \/ Increment(i)
    \/ Decrement(i)
    \/ \E n \in Offsets :
         \/ PlusAssign(i, n)
         \/ MinusAssign(i, n)
         \/ \E j \in Iters : AssignSum(i, j, n) \/ AssignDifference(i, j, n)
    \/ \E j \in Iters : Distance(i, j) \/ Advance(i, j)

Spec == Init /\ [][Next]_vars

-----------------------------------------------------------------------------
(* The relations of the iterators, as the code computes them.              *)

Equal(i, j) == idx[i] = idx[j]
Less(i, j) == idx[i] < idx[j]

\* The element that i[n] reads: duk_get_prop_index takes a duk_uarridx_t.
Subscript(i, n) == UIdx(idx[i] + n)

-----------------------------------------------------------------------------
(* Properties.                                                             *)

TypeOK ==
  /\ idx \in [Iters -> 0 .. Modulus - 1]
  /\ at \in [Iters -> Positions]
  /\ dist \in [computed : 0 .. Modulus - 1, meant : Offsets]

(***************************************************************************)
(* Whatever way an iterator came to a position, wrapped distances and      *)
(* negative offsets included, it is the iterator at that position: the     *)
(* operators ==, < and [] tell positions apart as positions (range.h       *)
(* 39-150; test.cpp 1068-1110 tries some).                                 *)
(***************************************************************************)
PositionsExact ==
  \A i, j \in Iters :
    /\ Equal(i, j) <=> at[i] = at[j]
    /\ Less(i, j) <=> at[i] < at[j]
    /\ \A n \in Offsets : at[i] + n \in Positions => Subscript(i, n) = at[i] + n

\* The distance from an iterator to one that does not precede it is exact.
DistanceExact == dist.computed = dist.meant
=============================================================================
