------------------------------- MODULE CHeap -------------------------------
(***************************************************************************)
(* What Duktape asks of its allocation functions: the contract of the C    *)
(* functions malloc, realloc and free.  A block is a pointer and the       *)
(* cells its owner may use; no block shares cells with another.            *)
(***************************************************************************)
EXTENDS Naturals, Sequences

CONSTANTS
  Pointers,
  Byte,     \* what the owner of a block stores in a cell
  MaxSize,  \* bound: size of a block
  Null

VARIABLE contents  \* pointer -> the cells of its block, or Null

Allocated(p) == contents[p] # Null

Others(S) == \A r \in Pointers \ S : contents'[r] = contents[r]

Holds(p, n) == contents'[p] \in Seq(Nat) /\ Len(contents'[p]) = n

Init == contents = [p \in Pointers |-> Null]

\* The contents of a new block are arbitrary.
Malloc(p, n) ==
  /\ ~Allocated(p)
  /\ Holds(p, n)
  /\ Others({p})

\* The cells of the old block survive up to the smaller of the two sizes.
Realloc(p, q, n) ==
  /\ Allocated(p)
  /\ q # p => ~Allocated(q) /\ contents'[p] = Null
  /\ Holds(q, n)
  /\ \A i \in 1 .. n : i <= Len(contents[p]) => contents'[q][i] = contents[p][i]
  /\ Others({p, q})

Free(p) ==
  /\ Allocated(p)
  /\ contents'[p] = Null
  /\ Others({p})

Store(p, i, v) ==
  /\ Allocated(p) /\ i \in 1 .. Len(contents[p])
  /\ contents' = [contents EXCEPT ![p] = [@ EXCEPT ![i] = v]]

Next ==
  \E p \in Pointers :
    \/ \E n \in 0 .. MaxSize : Malloc(p, n)
    \/ \E q \in Pointers, n \in 0 .. MaxSize : Realloc(p, q, n)
    \/ Free(p)
    \/ \E i \in 1 .. MaxSize, v \in Byte : Store(p, i, v)

Spec == Init /\ [][Next]_contents
=============================================================================
