----------------------- MODULE AllocatorAdapterProofs -----------------------
(***************************************************************************)
(* Theorems about AllocatorAdapter, for any header size, memory and        *)
(* requests.                                                               *)
(*                                                                         *)
(* That deallocate is told what allocate returned depends on the header of *)
(* every block, and headers lie in the memory that Duktape writes to.  The *)
(* invariant IInv says why they survive: Duktape never asked for more than *)
(* its header says (Room), and the chunks of two blocks, headers included, *)
(* lie apart (Apart).                                                      *)
(***************************************************************************)
EXTENDS AllocatorAdapter, SequenceTheorems, TLAPS

BlockOf(p) == Chunk(p, StoredSize(p))

Room == \A p \in Held : req[p] <= StoredSize(p) /\ p + StoredSize(p) <= Memory

Apart == \A p, q \in Held : p # q => Disjoint(BlockOf(p), BlockOf(q))

IInv ==
  /\ TypeOK
  /\ DeallocatedAsAllocated
  /\ HeadersExact
  /\ Room
  /\ Apart

-----------------------------------------------------------------------------

\* A pointer's header is a cell of the memory and gives a natural number.
LEMMA HeaderCell ==
  ASSUME TypeOK, NEW p \in Pointers
  PROVE  /\ p \in Nat /\ p - Header \in 0 .. Memory - 1
         /\ StoredSize(p) \in Nat
BY AdapterAssumption DEF Pointers, TypeOK, StoredSize

\* What the C++ allocator hands out is no block that Duktape holds.
LEMMA FreshPointer ==
  ASSUME IInv, NEW p \in Pointers, NEW size \in Nat, Allocate(Chunk(p, size))
  PROVE  /\ p \notin Held
         /\ p + size <= Memory
         /\ \A r \in Held : Disjoint(Chunk(p, size), BlockOf(r))
<1>1. \A r \in Held : BlockOf(r) \in chunks
  BY DEF IInv, HeadersExact, BlockOf
<1>2. \A r \in Held : Disjoint(Chunk(p, size), BlockOf(r))
  BY <1>1 DEF Allocate
<1>3. p + size <= Memory
  BY HeaderCell, AdapterAssumption DEF Allocate, Chunk, IInv
<1>4. p \notin Held
  <2> SUFFICES ASSUME p \in Held PROVE FALSE
    OBVIOUS
  <2>1. Disjoint(Chunk(p, size), BlockOf(p))
    BY <1>2
  <2> QED
    BY <2>1, HeaderCell, AdapterAssumption DEF IInv, Disjoint, Chunk, BlockOf
<1> QED
  BY <1>2, <1>3, <1>4

\* The cells of a block that Duktape may use are no header.
LEMMA PayloadIsNoHeader ==
  ASSUME IInv, NEW p \in Held, NEW i \in 1 .. req[p], NEW r \in Held
  PROVE  p + i - 1 # r - Header
<1>1. p \in Pointers /\ r \in Pointers
  BY DEF Held
<1>2. i \in Nat /\ 1 <= i /\ i <= StoredSize(p)
  <2>1. req[p] \in 0 .. MaxSize
    BY <1>1 DEF IInv, TypeOK, Held
  <2> QED
    BY <1>1, <2>1, HeaderCell, AdapterAssumption DEF IInv, Room
<1>3. CASE r = p
  BY <1>1, <1>2, <1>3, HeaderCell, AdapterAssumption DEF IInv
<1>4. CASE r # p
  <2>1. Disjoint(BlockOf(p), BlockOf(r))
    BY <1>4 DEF IInv, Apart
  <2>2. /\ p \in Nat /\ r \in Nat /\ Header \in Nat
        /\ StoredSize(p) \in Nat /\ StoredSize(r) \in Nat
    BY <1>1, HeaderCell, AdapterAssumption DEF IInv
  <2>3. /\ BlockOf(p).addr = p - Header /\ BlockOf(p).size = Header + StoredSize(p)
        /\ BlockOf(r).addr = r - Header /\ BlockOf(r).size = Header + StoredSize(r)
    BY DEF BlockOf, Chunk
  <2>4. \/ p + StoredSize(p) <= r - Header
        \/ r + StoredSize(r) <= p - Header
    BY ONLY <2>1, <2>2, <2>3 DEF Disjoint
  <2>5. CASE p + StoredSize(p) <= r - Header
    BY ONLY <1>2, <2>2, <2>5
  <2>6. CASE r + StoredSize(r) <= p - Header
    BY ONLY <1>2, <1>4, <2>2, <2>6
  <2> QED
    BY ONLY <2>4, <2>5, <2>6
<1> QED
  BY <1>3, <1>4

LEMMA ChunkType ==
  ASSUME NEW p \in Pointers, NEW n \in Nat
  PROVE  Chunk(p, n) \in [addr : Nat, size : Nat]
BY AdapterAssumption DEF Chunk, Pointers

\* Blocks that lie apart have different chunks.
LEMMA ChunksDiffer ==
  ASSUME TypeOK, NEW p \in Pointers, NEW q \in Pointers, p # q, NEW m, NEW n
  PROVE  Chunk(p, m) # Chunk(q, n)
BY HeaderCell, AdapterAssumption DEF Chunk

LEMMA InitInv == Init => IInv
<1> SUFFICES ASSUME Init PROVE IInv
  OBVIOUS
<1>1. Held = {}
  BY DEF Init, Held
<1>2. TypeOK
  BY AdapterAssumption DEF Init, TypeOK
<1> QED
  BY <1>1, <1>2 DEF Init, IInv, DeallocatedAsAllocated, HeadersExact, Room, Apart

-----------------------------------------------------------------------------
(* Each operation preserves the invariant.                                 *)

LEMMA AllocInv ==
  ASSUME IInv, NEW p \in Pointers, NEW size \in 0 .. MaxSize, Alloc(p, size)
  PROVE  IInv'
<1> USE DEF IInv
<1>1. size \in Nat /\ Null \notin Nat
  BY AdapterAssumption
<1>2. /\ p \notin Held
      /\ p + size <= Memory
      /\ \A r \in Held : Disjoint(Chunk(p, size), BlockOf(r))
  BY <1>1, FreshPointer DEF Alloc
<1>3. TypeOK'
  <2>1. mem' \in [0 .. Memory - 1 -> Nat]
    BY <1>1 DEF Alloc, TypeOK, WithSize
  <2>2. chunks' \subseteq [addr : Nat, size : Nat]
    BY <1>1, HeaderCell, ChunkType DEF Alloc, TypeOK
  <2>3. req' \in [Pointers -> 0 .. MaxSize \cup {Null}]
    BY DEF Alloc, TypeOK
  <2> QED
    BY <2>1, <2>2, <2>3 DEF Alloc, TypeOK
<1>4. Held' = Held \cup {p}
  BY <1>1 DEF Alloc, Held, TypeOK
<1>5. StoredSize(p)' = size /\ req'[p] = size
  BY HeaderCell DEF Alloc, WithSize, StoredSize, TypeOK
<1>6. \A r \in Held : StoredSize(r)' = StoredSize(r) /\ req'[r] = req[r]
  <2> TAKE r \in Held
  <2>1. r \in Pointers /\ r # p
    BY <1>2 DEF Held
  <2>2. r - Header # p - Header
    BY <2>1, HeaderCell, AdapterAssumption
  <2> QED
    BY <2>1, <2>2, HeaderCell DEF Alloc, WithSize, StoredSize, TypeOK
<1>7. HeadersExact'
  BY <1>4, <1>5, <1>6 DEF HeadersExact, Alloc, Chunk
<1>8. Room'
  BY <1>1, <1>2, <1>4, <1>5, <1>6 DEF Room
<1>9. Apart'
  <2>1. \A r \in Held : Disjoint(BlockOf(r), Chunk(p, size))
    BY <1>2 DEF Disjoint
  <2> QED
    BY <1>2, <1>4, <1>5, <1>6, <2>1 DEF Apart, BlockOf, Chunk, Disjoint
<1> QED
  BY <1>3, <1>7, <1>8, <1>9 DEF Alloc, DeallocatedAsAllocated

LEMMA ReallocInPlaceInv ==
  ASSUME IInv, NEW p \in Pointers, NEW n \in 0 .. MaxSize, ReallocInPlace(p, n)
  PROVE  IInv'
<1> USE DEF IInv
<1>1. n \in Nat /\ Null \notin Nat /\ p \in Held
  BY AdapterAssumption DEF ReallocInPlace
<1>2. TypeOK'
  BY DEF ReallocInPlace, Shrunk, TypeOK
<1>3. Held' = Held
  BY <1>1 DEF ReallocInPlace, Held, TypeOK
<1>4. \A r \in Held : StoredSize(r)' = StoredSize(r)
  BY DEF ReallocInPlace, Shrunk, StoredSize
<1>5. req'[p] = n /\ \A r \in Held : r # p => req'[r] = req[r]
  BY DEF ReallocInPlace, Held, TypeOK
<1>6. HeadersExact'
  BY <1>3, <1>4 DEF HeadersExact, ReallocInPlace, Chunk
<1>7. Room'
  BY <1>3, <1>4, <1>5 DEF Room, ReallocInPlace, Fits
<1>8. Apart'
  BY <1>3, <1>4 DEF Apart, BlockOf, Chunk, Disjoint
<1> QED
  BY <1>2, <1>6, <1>7, <1>8 DEF ReallocInPlace, DeallocatedAsAllocated

LEMMA FreeInv ==
  ASSUME IInv, NEW p \in Pointers, Free(p)
  PROVE  IInv'
<1> USE DEF IInv
<1>1. p \in Held /\ BlockOf(p) \in chunks
  BY DEF Free, HeadersExact, BlockOf
<1>2. TypeOK'
  BY DEF Free, TypeOK
<1>3. Held' = Held \ {p}
  BY DEF Free, Held, TypeOK
<1>4. \A r \in Pointers : StoredSize(r)' = StoredSize(r)
  BY DEF Free, StoredSize
<1>5. \A r \in Held' : req'[r] = req[r]
  BY <1>3 DEF Free, Held, TypeOK
<1>6. HeadersExact'
  <2>1. \A r \in Held : r # p => BlockOf(r) # BlockOf(p)
    BY ChunksDiffer DEF Held, BlockOf
  <2>2. chunks' = {BlockOf(r) : r \in Held} \ {BlockOf(p)}
    BY DEF HeadersExact, Free, BlockOf
  <2>3. chunks' = {BlockOf(r) : r \in Held'}
    BY <1>3, <2>1, <2>2
  <2>4. \A r \in Held' : Chunk(r, StoredSize(r))' = BlockOf(r)
    BY <1>4 DEF BlockOf, Chunk, Held
  <2> QED
    BY <2>3, <2>4 DEF HeadersExact
<1>7. Room'
  BY <1>3, <1>4, <1>5 DEF Room, Held
<1>8. Apart'
  BY <1>3, <1>4 DEF Apart, BlockOf, Chunk, Disjoint, Held
<1>9. DeallocatedAsAllocated'
  BY <1>1 DEF Free, DeallocatedAsAllocated, BlockOf
<1> QED
  BY <1>2, <1>6, <1>7, <1>8, <1>9

LEMMA StoreInv ==
  ASSUME IInv, NEW p \in Pointers, NEW i \in 1 .. MaxSize, NEW v \in Byte, Store(p, i, v)
  PROVE  IInv'
<1> USE DEF IInv
<1>1. p \in Held /\ i \in 1 .. req[p]
  BY DEF Store
<1>2. TypeOK'
  BY AdapterAssumption DEF Store, TypeOK
<1>3. Held' = Held /\ req' = req
  BY DEF Store, Held
<1>4. \A r \in Held : StoredSize(r)' = StoredSize(r)
  <2> TAKE r \in Held
  <2>1. p + i - 1 # r - Header
    BY <1>1, PayloadIsNoHeader
  <2> QED
    BY <2>1, HeaderCell DEF Store, StoredSize, TypeOK, Held
<1>5. HeadersExact'
  BY <1>3, <1>4 DEF HeadersExact, Store, Chunk
<1>6. Room'
  BY <1>3, <1>4 DEF Room
<1>7. Apart'
  BY <1>3, <1>4 DEF Apart, BlockOf, Chunk, Disjoint
<1> QED
  BY <1>2, <1>5, <1>6, <1>7 DEF Store, DeallocatedAsAllocated

\* The block moves to q, and its header's old size goes with the old chunk.
LEMMA ReallocMoveInv ==
  ASSUME IInv, NEW p \in Pointers, NEW q \in Pointers, NEW n \in 0 .. MaxSize,
         ReallocMove(p, q, n)
  PROVE  IInv'
<1> USE DEF IInv
<1> DEFINE old == BlockOf(p)
           new == Chunk(q, n)
<1>1. n \in Nat /\ Null \notin Nat /\ p \in Held
  BY AdapterAssumption DEF ReallocMove
<1>2. /\ q \notin Held
      /\ q + n <= Memory
      /\ \A r \in Held : Disjoint(new, BlockOf(r))
  BY <1>1, FreshPointer DEF ReallocMove
<1>3. p # q /\ StoredSize(p) < n
  BY <1>1, <1>2, HeaderCell DEF ReallocMove, Fits
<1>4. /\ mem' = [a \in DOMAIN mem |->
                   IF a \in q .. q + StoredSize(p) - 1 THEN mem[p + (a - q)]
                   ELSE WithSize(q, n)[a]]
      /\ chunks' = (chunks \cup {new}) \ {old}
      /\ mismatch' = (mismatch \/ old \notin chunks)
      /\ req' = [req EXCEPT ![p] = Null, ![q] = n]
  BY DEF ReallocMove, Copied, BlockOf
<1>5. old \in chunks
  BY <1>1 DEF HeadersExact, BlockOf
<1> HIDE DEF old, new
<1>6. Held' = (Held \ {p}) \cup {q}
  BY <1>1, <1>2, <1>3, <1>4 DEF Held, TypeOK
<1>7. TypeOK'
  <2>1. mem' \in [0 .. Memory - 1 -> Nat]
    <3>1. DOMAIN mem = 0 .. Memory - 1 /\ WithSize(q, n) \in [0 .. Memory - 1 -> Nat]
      BY <1>1 DEF TypeOK, WithSize
    <3>2. p + StoredSize(p) <= Memory /\ StoredSize(p) \in Nat /\ p \in Nat /\ q \in Nat
      BY <1>1, HeaderCell DEF Room
    <3>3. \A a \in q .. q + StoredSize(p) - 1 : p + (a - q) \in 0 .. Memory - 1
      BY <3>2, AdapterAssumption
    <3>4. \A a \in q .. q + StoredSize(p) - 1 : mem[p + (a - q)] \in Nat
      BY <3>3 DEF TypeOK
    <3> QED
      BY <1>4, <3>1, <3>4
  <2>2. chunks' \subseteq [addr : Nat, size : Nat]
    BY <1>1, <1>4, ChunkType DEF TypeOK, new
  <2>3. req' \in [Pointers -> 0 .. MaxSize \cup {Null}]
    BY <1>4 DEF TypeOK
  <2>4. mismatch' \in BOOLEAN
    BY <1>4 DEF TypeOK
  <2> QED
    BY <2>1, <2>2, <2>3, <2>4 DEF TypeOK
<1>8. StoredSize(q)' = n /\ req'[q] = n
  <2>1. q - Header \in DOMAIN mem /\ q - Header \notin q .. q + StoredSize(p) - 1
    BY HeaderCell, AdapterAssumption DEF TypeOK
  <2> QED
    BY <1>4, <2>1 DEF StoredSize, WithSize, TypeOK
<1>9. \A r \in Held \ {p} : StoredSize(r)' = StoredSize(r) /\ req'[r] = req[r]
  <2> TAKE r \in Held \ {p}
  <2>1. r \in Pointers /\ r # q /\ r # p
    BY <1>2 DEF Held
  <2>2. r - Header \in DOMAIN mem /\ r - Header # q - Header
    BY <2>1, HeaderCell, AdapterAssumption DEF TypeOK
  <2>3. r - Header \notin q .. q + StoredSize(p) - 1
    <3>1. Disjoint(new, BlockOf(r))
      BY <1>2
    <3>2. r \in Nat /\ q \in Nat /\ StoredSize(r) \in Nat /\ StoredSize(p) \in Nat
      BY <2>1, HeaderCell
    <3>3. Header \in Nat /\ Header > 0
      BY AdapterAssumption
    <3> QED
      BY <1>1, <1>3, <2>1, <3>1, <3>2, <3>3 DEF Disjoint, BlockOf, Chunk, new
  <2> QED
    BY <1>4, <2>1, <2>2, <2>3 DEF StoredSize, WithSize, TypeOK
<1>10. HeadersExact'
  <2>1. \A r \in Held : r # p => BlockOf(r) # old
    BY ChunksDiffer DEF Held, BlockOf, old
  <2>2. new # old
    BY <1>3, ChunksDiffer DEF BlockOf, old, new
  <2>3. chunks = {BlockOf(r) : r \in Held}
    BY DEF HeadersExact, BlockOf
  <2>4. chunks' = {BlockOf(r) : r \in Held \ {p}} \cup {new}
    BY <1>4, <2>1, <2>2, <2>3 DEF old
  <2>5. /\ \A r \in Held \ {p} : Chunk(r, StoredSize(r))' = BlockOf(r)
        /\ Chunk(q, StoredSize(q))' = new
    BY <1>8, <1>9 DEF BlockOf, Chunk, new
  <2> QED
    BY <1>6, <2>4, <2>5 DEF HeadersExact
<1>11. Room'
  BY <1>1, <1>2, <1>6, <1>8, <1>9 DEF Room
<1>12. Apart'
  <2>1. \A r \in Held : Disjoint(BlockOf(r), new)
    BY <1>2 DEF Disjoint
  <2>2. \A r \in Held \ {p} : BlockOf(r)' = BlockOf(r)
    BY <1>9 DEF BlockOf, Chunk
  <2>3. BlockOf(q)' = new
    BY <1>8 DEF BlockOf, Chunk, new
  <2>4. \A r, t \in Held \ {p} : r # t => Disjoint(BlockOf(r), BlockOf(t))'
    BY <2>2 DEF Apart, Disjoint
  <2>5. \A r \in Held \ {p} : Disjoint(BlockOf(r), BlockOf(q))' /\ Disjoint(BlockOf(q), BlockOf(r))'
    BY <1>2, <2>1, <2>2, <2>3 DEF Disjoint
  <2> QED
    BY <1>6, <2>4, <2>5 DEF Apart
<1>13. DeallocatedAsAllocated'
  BY <1>4, <1>5 DEF DeallocatedAsAllocated
<1> QED
  BY <1>7, <1>10, <1>11, <1>12, <1>13

LEMMA NextInv == IInv /\ [Next]_vars => IInv'
<1> SUFFICES ASSUME IInv, [Next]_vars PROVE IInv'
  OBVIOUS
<1>1. CASE UNCHANGED vars
  BY <1>1 DEF vars, IInv, TypeOK, DeallocatedAsAllocated, HeadersExact, Room, Apart,
              Held, StoredSize, BlockOf, Chunk, Disjoint
<1>2. ASSUME NEW p \in Pointers, NEW n \in 0 .. MaxSize,
             Alloc(p, n) \/ ReallocInPlace(p, n) \/ \E q \in Pointers : ReallocMove(p, q, n)
      PROVE  IInv'
  BY <1>2, AllocInv, ReallocInPlaceInv, ReallocMoveInv
<1>3. ASSUME NEW p \in Pointers, Free(p)
      PROVE  IInv'
  BY <1>3, FreeInv
<1>4. ASSUME NEW p \in Pointers, NEW i \in 1 .. MaxSize, NEW v \in Byte, Store(p, i, v)
      PROVE  IInv'
  BY <1>4, StoreInv
<1> QED
  BY <1>1, <1>2, <1>3, <1>4 DEF Next

LEMMA Invariance == Spec => []IInv
BY InitInv, NextInv, PTL DEF Spec

-----------------------------------------------------------------------------

\* The variables keep their types (TypeOK).
THEOREM TypeCorrect == Spec => []TypeOK
<1>1. IInv => TypeOK
  BY DEF IInv
<1> QED
  BY Invariance, <1>1, PTL

(***************************************************************************)
(* free and realloc give the C++ allocator back exactly what it handed out *)
(* (allocator_adapter.h 49-75).                                            *)
(***************************************************************************)
THEOREM DeallocationExact == Spec => []DeallocatedAsAllocated
<1>1. IInv => DeallocatedAsAllocated
  BY DEF IInv
<1> QED
  BY Invariance, <1>1, PTL

(***************************************************************************)
(* Every chunk belongs to a pointer that Duktape holds, and its header     *)
(* gives its size (allocator_adapter.h 33-47, 78-84).                      *)
(***************************************************************************)
THEOREM HeadersSurvive == Spec => []HeadersExact
<1>1. IInv => HeadersExact
  BY DEF IInv
<1> QED
  BY Invariance, <1>1, PTL

-----------------------------------------------------------------------------
(* Refinement: allocator_adapter implements malloc, realloc and free;      *)
(* every step is a step of CHeap under the mapping `contents`.             *)

Cells(m, p, n) == [i \in 1 .. n |-> m[p + i - 1]]

\* The cells of a block are a sequence of numbers.
LEMMA CellsAreSeq ==
  ASSUME NEW m \in [0 .. Memory - 1 -> Nat], NEW p \in Pointers, NEW n \in Nat,
         p + n <= Memory
  PROVE  /\ Cells(m, p, n) \in Seq(Nat)
         /\ Len(Cells(m, p, n)) = n
         /\ \A i \in 1 .. n : Cells(m, p, n)[i] = m[p + i - 1]
<1>1. \A i \in 1 .. n : p + i - 1 \in 0 .. Memory - 1
  BY AdapterAssumption DEF Pointers
<1>2. Cells(m, p, n) \in [1 .. n -> Nat]
  BY <1>1 DEF Cells
<1>3. Cells(m, p, n) \in Seq(Nat)
  BY <1>2, SeqDef
<1> QED
  BY <1>2, <1>3, LenProperties DEF Cells

\* The size that Duktape asked for, and the room for it.
LEMMA HeldSize ==
  ASSUME IInv, NEW p \in Held
  PROVE  p \in Pointers /\ req[p] \in Nat /\ p + req[p] <= Memory
<1>1. p \in Pointers /\ req[p] \in 0 .. MaxSize
  BY DEF IInv, TypeOK, Held
<1>2. req[p] <= StoredSize(p) /\ p + StoredSize(p) <= Memory
  BY DEF IInv, Room
<1> QED
  BY <1>1, <1>2, HeaderCell, AdapterAssumption DEF IInv

LEMMA HeldContents ==
  ASSUME IInv, NEW p \in Held
  PROVE  /\ contents[p] = Cells(mem, p, req[p])
         /\ contents[p] \in Seq(Nat) /\ Len(contents[p]) = req[p]
         /\ \A i \in 1 .. req[p] : contents[p][i] = mem[p + i - 1]
         /\ Abstract!Allocated(p)
<1>1. contents[p] = Cells(mem, p, req[p])
  BY HeldSize DEF contents, Cells, Held
<1>2. /\ contents[p] \in Seq(Nat) /\ Len(contents[p]) = req[p]
      /\ \A i \in 1 .. req[p] : contents[p][i] = mem[p + i - 1]
  <2>1. mem \in [0 .. Memory - 1 -> Nat]
    BY DEF IInv, TypeOK
  <2>2. p \in Pointers /\ req[p] \in Nat /\ p + req[p] <= Memory
    BY HeldSize
  <2>3. /\ Cells(mem, p, req[p]) \in Seq(Nat) /\ Len(Cells(mem, p, req[p])) = req[p]
        /\ \A i \in 1 .. req[p] : Cells(mem, p, req[p])[i] = mem[p + i - 1]
    BY <2>1, <2>2, CellsAreSeq
  <2> QED
    BY <1>1, <2>3, Zenon
<1>3. contents[p] # Null
  BY <1>2, AdapterAssumption
<1> QED
  BY <1>1, <1>2, <1>3 DEF Abstract!Allocated

LEMMA FreeContents ==
  ASSUME NEW p \in Pointers, p \notin Held
  PROVE  contents[p] = Null /\ ~Abstract!Allocated(p)
BY DEF contents, Held, Abstract!Allocated

\* What a block holds after a step that gives it the size n.
LEMMA NewContents ==
  ASSUME IInv', NEW p \in Pointers, NEW n \in Nat, req'[p] = n
  PROVE  /\ Abstract!Holds(p, n)
         /\ \A i \in 1 .. n : contents'[p][i] = mem'[p + i - 1]
<1>1. n # Null /\ p \in Held'
  BY AdapterAssumption DEF Held
<1>2. p + n <= Memory
  <2>1. n <= StoredSize(p)' /\ p + StoredSize(p)' <= Memory
    BY <1>1 DEF IInv, Room
  <2>2. StoredSize(p)' \in Nat /\ p \in Nat
    BY AdapterAssumption DEF IInv, TypeOK, StoredSize, Pointers
  <2>3. n \in Nat /\ Memory \in Nat
    BY AdapterAssumption
  <2> QED
    BY <2>1, <2>2, <2>3
<1>3. contents'[p] = Cells(mem', p, n)
  BY <1>1 DEF contents, Cells
<1> QED
  <2>1. mem' \in [0 .. Memory - 1 -> Nat]
    BY DEF IInv, TypeOK
  <2> QED
    <3>1. /\ Cells(mem', p, n) \in Seq(Nat) /\ Len(Cells(mem', p, n)) = n
          /\ \A i \in 1 .. n : Cells(mem', p, n)[i] = mem'[p + i - 1]
      BY <1>2, <2>1, CellsAreSeq
    <3> QED
      BY <1>3, <3>1, Zenon DEF Abstract!Holds

\* A block that a step leaves alone keeps its contents.
LEMMA SameContents ==
  ASSUME IInv, NEW p \in Pointers, req'[p] = req[p],
         p \in Held => \A i \in 1 .. req[p] : mem'[p + i - 1] = mem[p + i - 1]
  PROVE  contents'[p] = contents[p]
<1>1. CASE p \in Held
  <2>1. contents'[p] = Cells(mem', p, req[p])
    BY <1>1 DEF contents, Cells, Held
  <2>2. Cells(mem', p, req[p]) = Cells(mem, p, req[p])
    BY <1>1 DEF Cells
  <2> QED
    BY <1>1, <2>1, <2>2, HeldContents
<1>2. CASE p \notin Held
  BY <1>2 DEF contents, Held
<1> QED
  BY <1>1, <1>2

\* A cell that Duktape uses lies in no chunk but that of its block.
LEMMA CellsApart ==
  ASSUME IInv, NEW r \in Held, NEW i \in 1 .. req[r],
         NEW q \in Pointers, NEW n \in Nat, Disjoint(Chunk(q, n), BlockOf(r))
  PROVE  /\ r + i - 1 \in 0 .. Memory - 1
         /\ r + i - 1 \notin q - Header .. q + n - 1
<1>1. r \in Pointers /\ req[r] \in Nat /\ r + req[r] <= Memory
  BY HeldSize
<1>2. req[r] <= StoredSize(r) /\ StoredSize(r) \in Nat
  BY <1>1, HeaderCell DEF IInv, Room
<1> QED
  BY <1>1, <1>2, AdapterAssumption DEF Disjoint, Chunk, BlockOf, Pointers

-----------------------------------------------------------------------------
(* The operations.                                                         *)

LEMMA AllocMaps ==
  ASSUME IInv, IInv', NEW p \in Pointers, NEW n \in 0 .. MaxSize, Alloc(p, n)
  PROVE  Abstract!Malloc(p, n)
<1>1. n \in Nat
  BY AdapterAssumption
<1>2. p \notin Held /\ \A r \in Held : Disjoint(Chunk(p, n), BlockOf(r))
  BY <1>1, FreshPointer DEF Alloc
<1>3. ASSUME NEW r \in Pointers \ {p} PROVE contents'[r] = contents[r]
  <2>1. req'[r] = req[r]
    BY <1>3 DEF Alloc, IInv, TypeOK
  <2>2. ASSUME r \in Held, NEW i \in 1 .. req[r] PROVE mem'[r + i - 1] = mem[r + i - 1]
    <3>1. r + i - 1 \in 0 .. Memory - 1 /\ r + i - 1 \notin p - Header .. p + n - 1
      BY <1>1, <1>2, <2>2, CellsApart
    <3>2. r + i - 1 # p - Header
      BY <1>1, <3>1, HeaderCell, AdapterAssumption DEF IInv, Pointers
    <3> QED
      BY <3>1, <3>2 DEF Alloc, WithSize, IInv, TypeOK
  <2> QED
    BY <2>1, <2>2, SameContents
<1>4. req'[p] = n
  BY DEF Alloc, IInv, TypeOK
<1> QED
  BY <1>1, <1>2, <1>3, <1>4, FreeContents, NewContents DEF Abstract!Malloc, Abstract!Others

LEMMA ReallocInPlaceMaps ==
  ASSUME IInv, IInv', NEW p \in Pointers, NEW n \in 0 .. MaxSize, ReallocInPlace(p, n)
  PROVE  Abstract!Realloc(p, p, n)
<1>1. n \in Nat /\ p \in Held /\ mem' = mem /\ req' = [req EXCEPT ![p] = n]
  BY AdapterAssumption DEF ReallocInPlace, Shrunk
<1>2. req'[p] = n /\ \A r \in Pointers \ {p} : req'[r] = req[r]
  BY <1>1 DEF IInv, TypeOK
<1>3. \A r \in Pointers \ {p} : contents'[r] = contents[r]
  BY <1>1, <1>2, SameContents
<1>4. \A i \in 1 .. n : i <= Len(contents[p]) => contents'[p][i] = contents[p][i]
  BY <1>1, <1>2, HeldContents, HeldSize, NewContents
<1> QED
  BY <1>1, <1>2, <1>3, <1>4, HeldContents, NewContents DEF Abstract!Realloc, Abstract!Others

LEMMA ReallocMoveMaps ==
  ASSUME IInv, IInv', NEW p \in Pointers, NEW q \in Pointers, NEW n \in 0 .. MaxSize,
         ReallocMove(p, q, n)
  PROVE  Abstract!Realloc(p, q, n)
<1>1. n \in Nat /\ p \in Held /\ Null \notin Nat
  BY AdapterAssumption DEF ReallocMove
<1>2. q \notin Held /\ \A r \in Held : Disjoint(Chunk(q, n), BlockOf(r))
  BY <1>1, FreshPointer DEF ReallocMove
<1>3. /\ mem' = [a \in DOMAIN mem |->
                   IF a \in q .. q + StoredSize(p) - 1 THEN mem[p + (a - q)]
                   ELSE WithSize(q, n)[a]]
      /\ req' = [req EXCEPT ![p] = Null, ![q] = n]
      /\ StoredSize(p) < n
  BY <1>1, HeaderCell DEF ReallocMove, Copied, Fits, IInv
<1>4. /\ p # q /\ req'[p] = Null /\ req'[q] = n
      /\ \A r \in Pointers \ {p, q} : req'[r] = req[r]
  BY <1>1, <1>2, <1>3 DEF IInv, TypeOK
<1>5. ASSUME NEW r \in Pointers \ {p, q} PROVE contents'[r] = contents[r]
  <2>1. ASSUME r \in Held, NEW i \in 1 .. req[r] PROVE mem'[r + i - 1] = mem[r + i - 1]
    <3>1. r + i - 1 \in 0 .. Memory - 1 /\ r + i - 1 \notin q - Header .. q + n - 1
      BY <1>1, <1>2, <2>1, CellsApart
    <3>2. r + i - 1 # q - Header /\ r + i - 1 \notin q .. q + StoredSize(p) - 1
      <4>1. q \in Nat /\ StoredSize(p) \in Nat
        BY HeaderCell DEF IInv
      <4>2. Header \in Nat /\ Header > 0
        BY AdapterAssumption
      <4>3. r + i - 1 \in Int
        BY <3>1
      <4> QED
        BY <1>1, <1>3, <3>1, <4>1, <4>2, <4>3
    <3> QED
      BY <1>3, <3>1, <3>2 DEF WithSize, IInv, TypeOK
  <2> QED
    BY <1>4, <1>5, <2>1, SameContents
<1>6. contents'[p] = Null
  BY <1>4 DEF contents
<1>7. ASSUME NEW i \in 1 .. n, i <= Len(contents[p]) PROVE contents'[q][i] = contents[p][i]
  <2>1. /\ req[p] \in Nat /\ p + req[p] <= Memory /\ req[p] <= StoredSize(p)
        /\ i \in 1 .. req[p]
    BY <1>1, <1>7, HeldSize, HeldContents DEF IInv, Room
  <2>2. StoredSize(p) \in Nat /\ p \in Nat /\ q \in Nat
    BY HeaderCell DEF IInv
  <2>3. q + n <= Memory
    BY <1>1, FreshPointer DEF ReallocMove
  <2>4. /\ q + i - 1 \in q .. q + StoredSize(p) - 1
        /\ q + i - 1 \in 0 .. Memory - 1
        /\ p + ((q + i - 1) - q) = p + i - 1
    BY <1>1, <1>3, <2>1, <2>2, <2>3, AdapterAssumption
  <2>5. mem'[q + i - 1] = mem[p + i - 1]
    BY <1>3, <2>4 DEF IInv, TypeOK
  <2> QED
    BY <1>1, <1>4, <2>1, <2>5, HeldContents, NewContents
<1> QED
  BY <1>1, <1>2, <1>4, <1>5, <1>6, <1>7, HeldContents, FreeContents, NewContents
  DEF Abstract!Realloc, Abstract!Others

LEMMA FreeMaps ==
  ASSUME IInv, NEW p \in Pointers, Free(p)
  PROVE  Abstract!Free(p)
<1>1. p \in Held /\ mem' = mem /\ req' = [req EXCEPT ![p] = Null]
  BY DEF Free
<1>2. req'[p] = Null /\ \A r \in Pointers \ {p} : req'[r] = req[r]
  BY <1>1 DEF IInv, TypeOK
<1>3. \A r \in Pointers \ {p} : contents'[r] = contents[r]
  BY <1>1, <1>2, SameContents
<1>4. contents'[p] = Null
  BY <1>2 DEF contents
<1> QED
  BY <1>1, <1>3, <1>4, HeldContents DEF Abstract!Free, Abstract!Others

LEMMA StoreMaps ==
  ASSUME IInv, IInv', NEW p \in Pointers, NEW i \in 1 .. MaxSize, NEW v \in Byte, Store(p, i, v)
  PROVE  Abstract!Store(p, i, v)
<1>1. /\ p \in Held /\ i \in 1 .. req[p] /\ mem' = [mem EXCEPT ![p + i - 1] = v]
      /\ req' = req
  BY DEF Store
<1>2. req[p] \in Nat /\ p \in Nat
  BY <1>1, HeldSize, HeaderCell DEF IInv
<1>3. \A j \in 1 .. req[p] : p + j - 1 \in 0 .. Memory - 1
  <2>1. p + req[p] <= Memory /\ Memory \in Nat
    BY <1>1, HeldSize, AdapterAssumption
  <2> QED
    BY <1>2, <2>1
<1>4. ASSUME NEW r \in Pointers \ {p} PROVE contents'[r] = contents[r]
  <2>1. ASSUME r \in Held, NEW j \in 1 .. req[r] PROVE mem'[r + j - 1] = mem[r + j - 1]
    <3>1. StoredSize(p) \in Nat /\ req[p] <= StoredSize(p)
      BY <1>1, HeaderCell DEF IInv, Room
    <3>2. Disjoint(BlockOf(p), BlockOf(r))
      BY <1>1, <1>4, <2>1 DEF IInv, Apart
    <3>3. r + j - 1 \in 0 .. Memory - 1 /\ r + j - 1 \notin p - Header .. p + StoredSize(p) - 1
      BY <2>1, <3>1, <3>2, CellsApart DEF BlockOf
    <3>4. r + j - 1 # p + i - 1
      BY <1>1, <1>2, <3>1, <3>3, AdapterAssumption
    <3> QED
      BY <1>1, <3>3, <3>4 DEF IInv, TypeOK
  <2> QED
    BY <1>1, <1>4, <2>1, SameContents
<1>5. contents'[p] = [contents[p] EXCEPT ![i] = v]
  <2>1. contents'[p] \in Seq(Nat) /\ Len(contents'[p]) = req[p]
    BY <1>1, <1>2, NewContents DEF Abstract!Holds
  <2>2. \A j \in 1 .. req[p] : contents'[p][j] = IF j = i THEN v ELSE contents[p][j]
    <3> TAKE j \in 1 .. req[p]
    <3>1. contents'[p][j] = mem'[p + j - 1]
      BY <1>1, <1>2, NewContents
    <3>2. p + j - 1 \in 0 .. Memory - 1 /\ (p + j - 1 = p + i - 1 <=> j = i)
      BY <1>1, <1>2, <1>3
    <3>3. contents[p][j] = mem[p + j - 1]
      BY <1>1, HeldContents
    <3> QED
      BY <1>1, <1>3, <3>1, <3>2, <3>3 DEF IInv, TypeOK
  <2>3. v \in Nat
    BY AdapterAssumption
  <2>4. contents[p] \in Seq(Nat) /\ Len(contents[p]) = req[p]
    BY <1>1, HeldContents
  <2>5. /\ [contents[p] EXCEPT ![i] = v] \in Seq(Nat)
        /\ Len([contents[p] EXCEPT ![i] = v]) = req[p]
        /\ \A j \in 1 .. req[p] : [contents[p] EXCEPT ![i] = v][j] = IF j = i THEN v ELSE contents[p][j]
    BY <1>1, <2>3, <2>4, ExceptSeq
  <2> QED
    <3> DEFINE stored == [contents[p] EXCEPT ![i] = v]
    <3> HIDE DEF stored
    <3>1. stored \in Seq(Nat) /\ Len(stored) = req[p]
      BY <2>5 DEF stored
    <3>2. \A j \in 1 .. Len(contents'[p]) : contents'[p][j] = stored[j]
      BY <2>1, <2>2, <2>5 DEF stored
    <3>3. contents'[p] = stored
      BY <2>1, <3>1, <3>2, SeqEqual
    <3> QED
      BY <3>3 DEF stored
<1>6. contents' = [contents EXCEPT ![p] = [@ EXCEPT ![i] = v]]
  <2>1. DOMAIN contents' = Pointers /\ DOMAIN contents = Pointers
    BY DEF contents
  <2>2. contents' = [r \in Pointers |-> contents'[r]]
    BY DEF contents
  <2>3. [contents EXCEPT ![p] = [@ EXCEPT ![i] = v]]
          = [r \in Pointers |-> IF r = p THEN [contents[p] EXCEPT ![i] = v] ELSE contents[r]]
    BY DEF contents
  <2> QED
    BY <1>4, <1>5, <2>2, <2>3
<1>7. i \in 1 .. Len(contents[p])
  BY <1>1, HeldContents
<1> QED
  BY <1>1, <1>6, <1>7, HeldContents DEF Abstract!Store

-----------------------------------------------------------------------------

(***************************************************************************)
(* The adapter's functions implement the contract of malloc, realloc and   *)
(* free, whatever the header size, the C++ allocator's placement and what  *)
(* Duktape stores.                                                         *)
(***************************************************************************)
THEOREM AdapterImplementsCHeap == Spec => ImplementsCHeap
<1>1. Init => Abstract!Init
  BY DEF Init, Abstract!Init, contents
<1>2. IInv /\ IInv' /\ [Next]_vars => [Abstract!Next]_contents
  <2> SUFFICES ASSUME IInv, IInv', [Next]_vars PROVE [Abstract!Next]_contents
    OBVIOUS
  <2>1. CASE UNCHANGED vars
    BY <2>1 DEF vars, contents
  <2>2. ASSUME NEW p \in Pointers, NEW n \in 0 .. MaxSize,
               Alloc(p, n) \/ ReallocInPlace(p, n) \/ \E q \in Pointers : ReallocMove(p, q, n)
        PROVE  Abstract!Next
    BY <2>2, AllocMaps, ReallocInPlaceMaps, ReallocMoveMaps DEF Abstract!Next
  <2>3. ASSUME NEW p \in Pointers, Free(p)
        PROVE  Abstract!Next
    BY <2>3, FreeMaps DEF Abstract!Next
  <2>4. ASSUME NEW p \in Pointers, NEW i \in 1 .. MaxSize, NEW v \in Byte, Store(p, i, v)
        PROVE  Abstract!Next
    BY <2>4, StoreMaps DEF Abstract!Next
  <2> QED
    BY <2>1, <2>2, <2>3, <2>4 DEF Next
<1> QED
  BY <1>1, <1>2, Invariance, PTL DEF Spec, ImplementsCHeap, Abstract!Spec
=============================================================================
