------------------------ MODULE ArrayIteratorProofs -------------------------
(***************************************************************************)
(* Theorems about ArrayIterator for every width of duk_uarridx_t and every *)
(* length of the array, and about ArrayElements for every array and        *)
(* integer types of every size.                                            *)
(***************************************************************************)
EXTENDS ArrayElements, TLAPS

-----------------------------------------------------------------------------
(* Conversion to an unsigned type.                                         *)

\* A value of the type is not changed; one that is out of range by less than
\* the number of values is moved by that number.
LEMMA Remainders ==
  ASSUME NEW M \in Nat \ {0}, NEW n \in Int
  PROVE  /\ n % M \in 0 .. M - 1
         /\ n \in 0 .. M - 1 => n % M = n
         /\ n \in -M .. -1 => n % M = n + M
         /\ n \in M .. 2 * M - 1 => n % M = n - M
<1>1. n % M \in 0 .. M - 1
  OBVIOUS
<1>2. n \in 0 .. M - 1 => n % M = n
  OBVIOUS
<1>3. n \in -M .. -1 => n % M = n + M
  OBVIOUS
<1>4. n \in M .. 2 * M - 1 => n % M = n - M
  OBVIOUS
<1> QED
  BY <1>1, <1>2, <1>3, <1>4

LEMMA Bounds ==
  /\ Modulus \in Nat \ {0} /\ Length \in Nat /\ Length < Modulus /\ Signed \in BOOLEAN
  /\ Positions \subseteq 0 .. Modulus - 1 /\ Positions \subseteq Int
  /\ \A n \in Offsets : n \in Int /\ -n \in Offsets
BY ArrayAssumption DEF Positions, Offsets

\* The index of a position is the position.
LEMMA ExactIndex ==
  ASSUME NEW n \in Positions
  PROVE  UIdx(n) = n
BY Bounds, Remainders DEF UIdx

-----------------------------------------------------------------------------
(* The inductive invariant.                                                *)

IndexInv ==
  /\ at \in [Iters -> Positions]
  /\ idx \in [Iters -> Int]
  /\ \A i \in Iters : idx[i] = at[i]

DistInv ==
  /\ dist \in [computed : 0 .. Modulus - 1, meant : Offsets]
  /\ Signed = FALSE => dist.computed = dist.meant

ArrayInv == IndexInv /\ DistInv

\* Subtracting the index of an earlier iterator is exact.  Subtracting that of
\* a later one yields the distance that, added to the later index, leads to the
\* earlier one.
LEMMA DiffValue ==
  ASSUME IndexInv, NEW i \in Iters, NEW j \in Iters
  PROVE  /\ Diff(j, i) \in 0 .. Modulus - 1
         /\ at[i] <= at[j] => Diff(j, i) = at[j] - at[i]
         /\ UIdx(idx[i] + Diff(j, i)) = at[j]
<1>1. /\ at[i] \in Positions /\ at[j] \in Positions
      /\ at[i] \in 0 .. Modulus - 1 /\ at[j] \in 0 .. Modulus - 1
      /\ idx[i] = at[i] /\ idx[j] = at[j] /\ Modulus \in Nat \ {0}
  BY Bounds DEF IndexInv
<1>2. Diff(j, i) = (at[j] - at[i]) % Modulus
  BY <1>1 DEF Diff, UIdx
<1>3. CASE at[i] <= at[j]
  <2>1. at[j] - at[i] \in 0 .. Modulus - 1
    BY <1>1, <1>3
  <2>2. Diff(j, i) = at[j] - at[i]
    <3>1. at[j] - at[i] \in Int
      BY <1>1
    <3> QED
      BY ONLY <3>1, <1>1, <1>2, <2>1, Remainders
  <2>3. idx[i] + Diff(j, i) = at[j]
    BY <1>1, <2>2
  <2> QED
    BY <1>1, <2>1, <2>2, <2>3, ExactIndex
<1>4. CASE at[j] < at[i]
  <2>1. at[j] - at[i] \in -Modulus .. -1
    BY <1>1, <1>4
  <2>2. Diff(j, i) = at[j] - at[i] + Modulus
    BY <1>1, <1>2, <2>1, Remainders
  <2>3. idx[i] + Diff(j, i) = at[j] + Modulus /\ at[j] + Modulus \in Modulus .. 2 * Modulus - 1
    BY <1>1, <2>2
  <2>4. UIdx(idx[i] + Diff(j, i)) = at[j]
    <3> DEFINE m == at[j] + Modulus
    <3>1. /\ m \in Int /\ m \in Modulus .. 2 * Modulus - 1 /\ m - Modulus = at[j]
          /\ Modulus \in Nat \ {0} /\ idx[i] + Diff(j, i) = m
      BY <1>1, <2>3
    <3> HIDE DEF m
    <3>2. m % Modulus = at[j]
      BY ONLY <3>1, Remainders
    <3> QED
      BY <3>1, <3>2 DEF UIdx
  <2> QED
    BY <1>1, <1>4, <2>1, <2>2, <2>4
<1> QED
  BY <1>1, <1>3, <1>4

LEMMA ArrayInit == Init => ArrayInv
<1> SUFFICES ASSUME Init PROVE ArrayInv
  OBVIOUS
<1>1. 0 \in Positions /\ Length \in Positions /\ 0 \in Offsets /\ 0 \in 0 .. Modulus - 1
  BY Bounds DEF Positions, Offsets
<1>2. UIdx(Length) = Length
  BY <1>1, ExactIndex
<1>3. IndexInv
  BY <1>1, <1>2, Bounds DEF Init, IndexInv, Iters
<1>4. DistInv
  BY <1>1 DEF Init, DistInv
<1> QED
  BY <1>3, <1>4 DEF ArrayInv

\* Giving an iterator a position and that position's index keeps the invariant.
LEMMA PlaceIterator ==
  ASSUME ArrayInv, NEW i \in Iters, NEW p \in Positions,
         at' = [at EXCEPT ![i] = p], idx' = [idx EXCEPT ![i] = p], dist' = dist
  PROVE  ArrayInv'
<1>1. p \in Int
  BY Bounds
<1>2. IndexInv'
  BY <1>1 DEF ArrayInv, IndexInv
<1>3. DistInv'
  BY DEF ArrayInv, DistInv
<1> QED
  BY <1>2, <1>3 DEF ArrayInv

\* All four ways to move an iterator by an offset.
LEMMA MoveStep ==
  ASSUME ArrayInv, NEW i \in Iters, NEW j \in Iters, NEW n \in Int, at[j] + n \in Positions,
         at' = [at EXCEPT ![i] = at[j] + n], idx' = [idx EXCEPT ![i] = UIdx(idx[j] + n)],
         dist' = dist
  PROVE  ArrayInv'
<1>1. idx[j] + n = at[j] + n
  BY DEF ArrayInv, IndexInv
<1>2. idx' = [idx EXCEPT ![i] = at[j] + n]
  BY <1>1, ExactIndex
<1> QED
  BY <1>2, PlaceIterator

LEMMA ArrayStep ==
  ASSUME ArrayInv, [Next]_vars
  PROVE  ArrayInv'
<1>1. CASE UNCHANGED vars
  BY <1>1 DEF vars, ArrayInv, IndexInv, DistInv
<1>2. ASSUME NEW i \in Iters, Increment(i)
      PROVE  ArrayInv'
  <2>1. /\ at[i] + 1 \in Positions
        /\ at' = [at EXCEPT ![i] = at[i] + 1] /\ idx' = [idx EXCEPT ![i] = UIdx(idx[i] + 1)]
        /\ dist' = dist /\ 1 \in Int
    BY <1>2 DEF Increment, Move
  <2> QED
    BY ONLY <2>1, <1>2, ArrayInv, MoveStep
<1>3. ASSUME NEW i \in Iters, Decrement(i)
      PROVE  ArrayInv'
  <2>1. idx[i] - 1 = idx[i] + -1
    BY <1>3 DEF ArrayInv, IndexInv
  <2>2. /\ at[i] + -1 \in Positions
        /\ at' = [at EXCEPT ![i] = at[i] + -1] /\ idx' = [idx EXCEPT ![i] = UIdx(idx[i] - 1)]
        /\ dist' = dist
    BY <1>3 DEF Decrement, Move
  <2>3. -1 \in Int
    OBVIOUS
  <2>4. UIdx(idx[i] - 1) = UIdx(idx[i] + -1)
    BY ONLY <2>1
  <2>5. idx' = [idx EXCEPT ![i] = UIdx(idx[i] + -1)]
    BY ONLY <2>2, <2>4
  <2> QED
    BY ONLY <2>2, <2>3, <2>5, <1>3, ArrayInv, MoveStep
<1>4. ASSUME NEW i \in Iters, NEW n \in Offsets, PlusAssign(i, n)
      PROVE  ArrayInv'
  BY <1>4, MoveStep, Bounds DEF PlusAssign, Move
<1>5. ASSUME NEW i \in Iters, NEW n \in Offsets, MinusAssign(i, n)
      PROVE  ArrayInv'
  <2>1. idx[i] - n = idx[i] + -n /\ -n \in Int
    BY Bounds DEF ArrayInv, IndexInv
  <2> QED
    BY <2>1, <1>5, MoveStep DEF MinusAssign, Move
<1>6. ASSUME NEW i \in Iters, NEW j \in Iters, NEW n \in Offsets, AssignSum(i, j, n)
      PROVE  ArrayInv'
  BY <1>6, MoveStep, Bounds DEF AssignSum
<1>7. ASSUME NEW i \in Iters, NEW j \in Iters, NEW n \in Offsets, AssignDifference(i, j, n)
      PROVE  ArrayInv'
  <2>1. /\ idx[j] - n = idx[j] + -n /\ -n \in Int
        /\ at[j] - n = at[j] + -n
    BY Bounds DEF ArrayInv, IndexInv
  <2> QED
    BY <2>1, <1>7, MoveStep DEF AssignDifference
<1>8. ASSUME NEW i \in Iters, NEW j \in Iters, Distance(i, j)
      PROVE  ArrayInv'
  <2>1. /\ Diff(j, i) \in 0 .. Modulus - 1
        /\ at[i] <= at[j] => Diff(j, i) = at[j] - at[i]
    BY DiffValue DEF ArrayInv
  <2>2. at[j] - at[i] \in Offsets
    BY Bounds DEF ArrayInv, IndexInv, Positions, Offsets
  <2>3. DistInv'
    BY <1>8, <2>1, <2>2 DEF Distance, DistInv
  <2> QED
    BY <1>8, <2>3 DEF Distance, ArrayInv, IndexInv
<1>9. ASSUME NEW i \in Iters, NEW j \in Iters, Advance(i, j)
      PROVE  ArrayInv'
  <2>1. UIdx(idx[i] + Diff(j, i)) = at[j] /\ at[j] \in Positions
    BY DiffValue DEF ArrayInv, IndexInv
  <2>2. idx' = [idx EXCEPT ![i] = at[j]]
    BY <1>9, <2>1 DEF Advance
  <2> QED
    BY <1>9, <2>1, <2>2, PlaceIterator DEF Advance
<1> QED
  BY <1>1, <1>2, <1>3, <1>4, <1>5, <1>6, <1>7, <1>8, <1>9 DEF Next

\* The inductive invariant holds in every reachable state.
THEOREM ArrayInvariant == Spec => []ArrayInv
BY ArrayInit, ArrayStep, PTL DEF Spec

\* Indices are values of duk_uarridx_t and iterators stay in the array, whatever
\* the width of the index and the length of the array.
THEOREM ArrayTypeCorrect == Spec => []TypeOK
<1>1. ASSUME ArrayInv
      PROVE  TypeOK
  <2>1. idx \in [Iters -> 0 .. Modulus - 1]
    BY <1>1, Bounds DEF ArrayInv, IndexInv
  <2> QED
    BY <1>1, <2>1 DEF ArrayInv, IndexInv, DistInv, TypeOK
<1> QED
  BY <1>1, ArrayInvariant, PTL

LEMMA PositionsOfInv == ArrayInv => PositionsExact
<1>1. ASSUME ArrayInv, NEW i \in Iters, NEW j \in Iters
      PROVE  /\ Equal(i, j) <=> at[i] = at[j]
             /\ Less(i, j) <=> at[i] < at[j]
             /\ \A n \in Offsets : at[i] + n \in Positions => Subscript(i, n) = at[i] + n
  BY <1>1, ExactIndex DEF ArrayInv, IndexInv, Equal, Less, Subscript
<1> QED
  BY <1>1 DEF PositionsExact

\* ==, < and [] tell positions apart as positions, whatever wrapped distances
\* and negative offsets led there.
THEOREM ArrayPositionsExact == Spec => []PositionsExact
BY PositionsOfInv, ArrayInvariant, PTL

\* The distance to an iterator that does not precede is exact; the run
\* array_signed shows that the distance to an earlier one is not.
THEOREM ArrayDistanceExact ==
  ASSUME Signed = FALSE
  PROVE  Spec => []DistanceExact
<1>1. ArrayInv => DistanceExact
  BY DEF ArrayInv, DistInv, DistanceExact
<1> QED
  BY <1>1, ArrayInvariant, PTL

-----------------------------------------------------------------------------
(* The conversion of integers (NumberTraits).                              *)

LEMMA TypeSizes ==
  ASSUME NEW T \in [signed : BOOLEAN, size : Nat \ {0}]
  PROVE  /\ Lowest(T) \in Int /\ Highest(T) \in Int /\ T.size \in Nat \ {0}
         /\ Lowest(T) <= 0 /\ 0 <= Highest(T)
         /\ Highest(T) - Lowest(T) = T.size - 1
<1>1. T.size \in Nat \ {0} /\ T.signed \in BOOLEAN
  OBVIOUS
<1>2. T.size \div 2 \in Nat /\ T.size \div 2 <= T.size - 1
  BY <1>1
<1> QED
  BY <1>1, <1>2 DEF Lowest, Highest

\* A value of the type is not changed by the conversion to it.
LEMMA ConvertExact ==
  ASSUME NEW T \in [signed : BOOLEAN, size : Nat \ {0}], NEW n \in ValuesOf(T)
  PROVE  Convert(T, n) = n /\ n \in Int
<1>1. /\ Lowest(T) \in Int /\ Highest(T) \in Int /\ T.size \in Nat \ {0}
      /\ Highest(T) - Lowest(T) = T.size - 1
  BY TypeSizes
<1>2. n \in Int /\ n - Lowest(T) \in 0 .. T.size - 1 /\ n - Lowest(T) \in Int
  BY <1>1 DEF ValuesOf
<1>3. (n - Lowest(T)) % T.size = n - Lowest(T)
  BY ONLY <1>1, <1>2, Remainders
<1> QED
  BY <1>1, <1>2, <1>3 DEF Convert

\* Duktape's integer types, and the types of C++.
LEMMA DuktapeTypes ==
  ASSUME NEW T \in IntTypes
  PROVE  /\ T \in [signed : BOOLEAN, size : Nat \ {0}]
         /\ DukType(T) \in [signed : BOOLEAN, size : Nat \ {0}]
         /\ \A n \in Int : n \in ValuesOf(DukType(T)) <=> DuktapeHas(T.signed, n)
<1>1. /\ T \in [signed : BOOLEAN, size : Nat \ {0}]
      /\ DukType(T) \in [signed : BOOLEAN, size : Nat \ {0}]
      /\ DukType(T).signed = T.signed /\ DukType(T).size = IntSize /\ IntSize \in Nat \ {0}
  BY NumberAssumption DEF IntTypes, DukType
<1>2. IntSize \div 2 \in Nat
  BY <1>1
<1>3. ASSUME NEW n \in Int
      PROVE  n \in ValuesOf(DukType(T)) <=> DuktapeHas(T.signed, n)
  BY <1>1, <1>2 DEF ValuesOf, Lowest, Highest, DuktapeHas
<1> QED
  BY <1>1, <1>3

\* One of T and Duktape's type of the same sign has all values of the other.
LEMMA OneCovers ==
  ASSUME NEW T \in IntTypes
  PROVE  \/ ValuesOf(T) \subseteq ValuesOf(DukType(T))
         \/ ValuesOf(DukType(T)) \subseteq ValuesOf(T)
<1> DEFINE D == DukType(T)
<1>1. /\ T \in [signed : BOOLEAN, size : Nat \ {0}]
      /\ D \in [signed : BOOLEAN, size : Nat \ {0}] /\ D.signed = T.signed
  BY DuktapeTypes DEF DukType
<1> HIDE DEF D
<1>2. /\ T.size \in Nat \ {0} /\ D.size \in Nat \ {0}
      /\ T.size \div 2 \in Nat /\ D.size \div 2 \in Nat
  BY <1>1
<1>3. CASE T.size <= D.size
  <2>1. /\ T.size \div 2 <= D.size \div 2
        /\ T.size - T.size \div 2 <= D.size - D.size \div 2
    BY <1>2, <1>3
  <2>2. ValuesOf(T) \subseteq ValuesOf(D)
    BY <1>1, <1>2, <1>3, <2>1 DEF ValuesOf, Lowest, Highest
  <2> QED
    BY <2>2 DEF D
<1>4. CASE D.size <= T.size
  <2>1. /\ D.size \div 2 <= T.size \div 2
        /\ D.size - D.size \div 2 <= T.size - T.size \div 2
    BY <1>2, <1>4
  <2>2. ValuesOf(D) \subseteq ValuesOf(T)
    BY <1>1, <1>2, <1>4, <2>1 DEF ValuesOf, Lowest, Highest
  <2> QED
    BY <2>2 DEF D
<1> QED
  BY <1>2, <1>3, <1>4

\* A conversion yields a value of the type.
LEMMA ConvertType ==
  ASSUME NEW T \in [signed : BOOLEAN, size : Nat \ {0}], NEW n \in Int
  PROVE  Convert(T, n) \in ValuesOf(T)
<1>1. /\ Lowest(T) \in Int /\ Highest(T) \in Int /\ T.size \in Nat \ {0}
      /\ Highest(T) = Lowest(T) + T.size - 1
  BY TypeSizes
<1>2. (n - Lowest(T)) % T.size \in 0 .. T.size - 1
  BY <1>1
<1> QED
  BY ONLY <1>1, <1>2 DEF Convert, ValuesOf

\* What is got is the truncated number, saturated, and then converted: it is
\* that number where both types have it, and a value that both have anyway.
LEMMA GetValue ==
  ASSUME NEW T \in IntTypes, NEW number \in Int
  PROVE  LET n == Truncated(number)
         IN  /\ n \in Int
             /\ n \in ValuesOf(T) /\ n \in ValuesOf(DukType(T)) => Get(T, number) = n
             /\ Get(T, number) \in ValuesOf(T) /\ Get(T, number) \in ValuesOf(DukType(T))
<1> DEFINE D == DukType(T)
           n == Truncated(number)
<1>1. /\ T \in [signed : BOOLEAN, size : Nat \ {0}] /\ D \in [signed : BOOLEAN, size : Nat \ {0}]
  BY DuktapeTypes
<1>2. /\ Lowest(D) \in Int /\ Highest(D) \in Int /\ Lowest(D) <= 0 /\ 0 <= Highest(D)
  BY <1>1, TypeSizes
<1>3. n \in Int
  BY DEF Truncated
<1>4. /\ DukGet(T, number) \in Lowest(D) .. Highest(D) /\ DukGet(T, number) \in Int
      /\ n \in Lowest(D) .. Highest(D) => DukGet(T, number) = n
  BY <1>2, <1>3 DEF DukGet
<1>5. DukGet(T, number) \in ValuesOf(D)
  BY <1>4 DEF ValuesOf
<1>6. Get(T, number) \in ValuesOf(T)
  BY <1>1, <1>4, ConvertType DEF Get
<1>7. Get(T, number) \in ValuesOf(D)
  <2>1. CASE ValuesOf(T) \subseteq ValuesOf(D)
    BY <1>6, <2>1
  <2>2. CASE ValuesOf(D) \subseteq ValuesOf(T)
    BY <1>1, <1>5, <2>2, ConvertExact DEF Get
  <2> QED
    BY <2>1, <2>2, OneCovers
<1>8. n \in ValuesOf(T) /\ n \in ValuesOf(D) => Get(T, number) = n
  BY <1>1, <1>4, ConvertExact DEF Get, ValuesOf
<1> QED
  BY <1>3, <1>6, <1>7, <1>8

\* Truncation towards zero.
LEMMA TruncatedMeant ==
  ASSUME NEW number \in Int
  PROVE  /\ Truncated(number) = Meant([type |-> Floating, value |-> number])
         /\ Truncated(2 * number) = number
  BY DEF Truncated, Meant

\* Reading back an integer that was pushed as another type.
LEMMA PushedAndGot ==
  ASSUME NEW S \in IntTypes, NEW x \in ValuesOf(S), NEW T \in IntTypes
  PROVE  Get(T, Push(S, x)) = x <=> /\ x \in ValuesOf(T)
                                    /\ x \in ValuesOf(DukType(T)) /\ x \in ValuesOf(DukType(S))
<1> DEFINE D == DukType(S)
           E == DukType(T)
           v == Convert(D, x)
<1>1. /\ S \in [signed : BOOLEAN, size : Nat \ {0}] /\ D \in [signed : BOOLEAN, size : Nat \ {0}]
      /\ E \in [signed : BOOLEAN, size : Nat \ {0}] /\ T \in [signed : BOOLEAN, size : Nat \ {0}]
      /\ D.signed = S.signed /\ E.signed = T.signed /\ D.size = IntSize /\ E.size = IntSize
      /\ IntSize \in Nat \ {0} /\ IntSize \div 2 \in Nat
      /\ S.signed = T.signed => E = D
  BY DuktapeTypes, NumberAssumption DEF DukType
<1> HIDE DEF D, E
<1>2. x \in Int
  BY <1>1, ConvertExact
<1>3. v \in ValuesOf(D) /\ v \in Int
  BY <1>1, <1>2, ConvertType, ConvertExact
<1>4. Push(S, x) = 2 * v /\ 2 * v \in Int /\ Truncated(2 * v) = v
  <2>1. S # Floating
    BY ElementsAssumption
  <2>2. Push(S, x) = 2 * v
    BY <2>1 DEF Push, Whole, D
  <2>3. Truncated(2 * v) = v
    BY <1>3, TruncatedMeant
  <2> QED
    BY <1>3, <2>2, <2>3
<1> DEFINE g == Get(T, 2 * v)
<1>5. /\ v \in ValuesOf(T) /\ v \in ValuesOf(E) => g = v
      /\ g \in ValuesOf(T) /\ g \in ValuesOf(E)
  BY <1>4, GetValue DEF E
<1>6. CASE x \in ValuesOf(D)
  <2>1. v = x
    BY <1>1, <1>6, ConvertExact
  <2> QED
    BY <1>4, <1>5, <1>6, <2>1 DEF D, E
<1>7. CASE x \notin ValuesOf(D)
  <2> SUFFICES ASSUME g = x PROVE FALSE
    BY <1>4, <1>7 DEF D
  <2>1. x \in ValuesOf(E)
    BY <1>5
  <2>2. S.signed # T.signed
    BY <1>1, <1>7, <2>1
  <2>3. S.signed /\ ~T.signed
    BY <1>1, <1>2, <1>7, <2>1, <2>2 DEF ValuesOf, Lowest, Highest
  <2>4. /\ Lowest(D) = -(IntSize \div 2) /\ Highest(D) = IntSize - IntSize \div 2 - 1
        /\ Lowest(E) = 0 /\ Highest(E) = IntSize - 1
    BY <1>1, <2>3 DEF Lowest, Highest
  <2>5. x \in IntSize - IntSize \div 2 .. IntSize - 1 /\ IntSize - IntSize \div 2 > 0
    BY <1>1, <1>2, <1>7, <2>1, <2>4 DEF ValuesOf
  <2>6. v < 0
    <3>1. /\ v = x + IntSize * 0 - IntSize
      <4>1. x - Lowest(D) \in IntSize .. 2 * IntSize - 1
        BY <1>1, <2>4, <2>5
      <4>2. (x - Lowest(D)) % IntSize = x - Lowest(D) - IntSize
        BY ONLY <1>1, <4>1, Remainders
      <4> QED
        BY <1>1, <1>2, <2>4, <4>2 DEF Convert
    <3> QED
      BY <1>1, <2>5, <3>1
  <2>7. DukGet(T, 2 * v) = 0
    <3>1. Lowest(DukType(T)) = 0
      BY <2>4 DEF E
    <3> QED
      BY <1>4, <2>6, <3>1 DEF DukGet
  <2>8. g = 0
    <3>1. 0 \in ValuesOf(T)
      BY <1>1, TypeSizes DEF ValuesOf
    <3> QED
      BY <1>1, <2>7, <3>1, ConvertExact DEF Get
  <2>9. x # 0
    BY <1>1, <1>2, <2>5
  <2> QED
    BY <2>8, <2>9
<1> QED
  BY <1>6, <1>7

-----------------------------------------------------------------------------
(* What is read through iterators (ArrayElements).                         *)

GotInv ==
  got # None =>
    /\ got.type \in IntTypes /\ got.at \in 0 .. Length - 1
    /\ got.value = LET e == Elements[got.at] IN Get(got.type, Push(e.type, e.value))

LEMMA ElementsRun == ElementsSpec => Spec
<1>1. ElementsInit => Init
  BY DEF ElementsInit
<1>2. [ElementsNext]_elementVars => [Next]_vars
  BY DEF ElementsNext, elementVars, Dereference
<1> QED
  BY <1>1, <1>2, PTL DEF ElementsSpec, Spec

\* A dereference reads the element at the iterator's position.
LEMMA ElementsStep ==
  ASSUME GotInv, ArrayInv, [ElementsNext]_elementVars
  PROVE  GotInv'
<1>1. CASE UNCHANGED got
  BY <1>1 DEF GotInv
<1>2. ASSUME NEW i \in Iters, NEW n \in Offsets, NEW T \in IntTypes, Dereference(i, n, T)
      PROVE  GotInv'
  <2>1. Subscript(i, n) = at[i] + n
    <3>1. PositionsExact
      BY PositionsOfInv
    <3>2. at[i] + n \in 0 .. Length
      BY <1>2, ArrayAssumption DEF Dereference, ArrayInv, TypeOK, Positions, Offsets
    <3> QED
      BY <3>1, <3>2 DEF PositionsExact, Positions
  <2>2. at[i] + n \in 0 .. Length - 1
    BY <1>2 DEF Dereference
  <2>3. got' = LET e == Elements[at[i] + n]
               IN  [type |-> T, at |-> at[i] + n, value |-> Get(T, Push(e.type, e.value))]
    BY <1>2, <2>1 DEF Dereference
  <2> QED
    BY <2>2, <2>3 DEF GotInv
<1> QED
  BY <1>1, <1>2 DEF ElementsNext, elementVars

\* What is read is what was put there, or a value that was lost on the way in
\* or on the way out.
LEMMA GotFaithful == GotInv => DereferencesFaithful
<1> SUFFICES ASSUME GotInv, got # None
             PROVE  LET e == Elements[got.at]
                        n == Meant(e)
                    IN  got.value = n <=>
                          /\ n \in ValuesOf(got.type)
                          /\ \A T \in {e.type, got.type} \ {Floating} : DuktapeHas(T.signed, n)
  BY DEF DereferencesFaithful
<1> DEFINE e == Elements[got.at]
           n == Meant(e)
           T == got.type
<1>1. /\ T \in IntTypes /\ T # Floating /\ got.value = Get(T, Push(e.type, e.value))
      /\ e.type \in IntTypes \cup {Floating} /\ e.value \in Int
      /\ e.type # Floating => e.value \in ValuesOf(e.type)
      /\ e = [type |-> e.type, value |-> e.value]
  BY ElementsAssumption DEF GotInv
<1> HIDE DEF e
<1>2. CASE e.type = Floating
  <2>1. n = Truncated(e.value) /\ Push(e.type, e.value) = e.value
    BY <1>1, <1>2, TruncatedMeant DEF Push
  <2>2. /\ n \in Int
        /\ n \in ValuesOf(T) /\ n \in ValuesOf(DukType(T)) => Get(T, e.value) = n
        /\ Get(T, e.value) \in ValuesOf(T) /\ Get(T, e.value) \in ValuesOf(DukType(T))
    BY <1>1, <2>1, GetValue
  <2>3. got.value = n <=> n \in ValuesOf(T) /\ DuktapeHas(T.signed, n)
    BY <1>1, <2>1, <2>2, DuktapeTypes
  <2> HIDE DEF n, T
  <2> QED
    BY <1>1, <1>2, <2>3 DEF n, T, e
<1>3. CASE e.type # Floating
  <2>1. n = e.value /\ n \in Int
    BY <1>1, <1>3 DEF Meant
  <2>2. got.value = n <=> /\ n \in ValuesOf(T)
                          /\ n \in ValuesOf(DukType(T)) /\ n \in ValuesOf(DukType(e.type))
    BY <1>1, <1>3, <2>1, PushedAndGot
  <2>3. got.value = n <=> /\ n \in ValuesOf(T)
                          /\ DuktapeHas(T.signed, n) /\ DuktapeHas(e.type.signed, n)
    BY <1>1, <1>3, <2>1, <2>2, DuktapeTypes
  <2> HIDE DEF n, T
  <2> QED
    BY <1>1, <1>3, <2>3 DEF n, T, e
<1> QED
  BY <1>2, <1>3

\* For integers and enums of every width and either sign, whatever the array
\* holds: a number arrives exactly when no type on its way lacks it.
THEOREM ElementsFaithful == ElementsSpec => []DereferencesFaithful
<1>1. ElementsInit => GotInv
  BY DEF ElementsInit, GotInv
<1>2. GotInv /\ ArrayInv /\ [ElementsNext]_elementVars => GotInv'
  BY ElementsStep
<1>3. ElementsSpec => []ArrayInv
  BY ElementsRun, ArrayInvariant, PTL
<1> QED
  BY <1>1, <1>2, <1>3, GotFaithful, PTL DEF ElementsSpec
=============================================================================
