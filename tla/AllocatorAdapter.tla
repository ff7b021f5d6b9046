-------------------------- MODULE AllocatorAdapter --------------------------
(***************************************************************************)
(* duk::allocator_adapter (include/duk/allocator_adapter.h): malloc-style  *)
(* functions for Duktape over a C++ allocator, which has to be told the    *)
(* size of what it takes back.  The adapter keeps the size in a header     *)
(* below each block, in the same memory that Duktape writes to.            *)
(***************************************************************************)
EXTENDS Naturals, Sequences

CONSTANTS
  Header,   \* sizeof(BlockInfo), in cells; the first one holds the size
  Memory,   \* bound: cells the C++ allocator has
  MaxSize,  \* bound: size of a request
  Byte,     \* what Duktape stores in a cell
  Null

ASSUME AdapterAssumption ==
  /\ Header \in Nat \ {0} /\ Memory \in Nat /\ MaxSize \in Nat
  /\ Byte \subseteq Nat
  /\ Null \notin Nat /\ Null \notin Seq(Nat)

Pointers == Header .. Memory

VARIABLES
  mem,      \* the cells
  chunks,   \* what the C++ allocator handed out: address and size
  req,      \* pointer Duktape holds -> the size it asked for last, or Null
  mismatch  \* deallocate was called with what allocate never returned

vars == <<mem, chunks, req, mismatch>>

Init ==
  /\ mem = [a \in 0 .. Memory - 1 |-> 0]
  /\ chunks = {}
  /\ req = [p \in Pointers |-> Null]
  /\ mismatch = FALSE

Held == {p \in Pointers : req[p] # Null}

-----------------------------------------------------------------------------
(* The C++ allocator.                                                      *)

Disjoint(c, d) == c.addr + c.size <= d.addr \/ d.addr + d.size <= c.addr

Allocate(c) ==
  /\ c.addr + c.size <= Memory
  /\ \A d \in chunks : Disjoint(c, d)

-----------------------------------------------------------------------------
(* The adapter.                                                            *)

\* blockInfoFromPtr(ptr)->size.
StoredSize(p) == mem[p - Header]

\* The chunk that alloc(size) gets when it returns p, and that free returns.
Chunk(p, size) == [addr |-> p - Header, size |-> Header + size]

WithPayload(p, size) == [mem EXCEPT ![p - Header] = size - Header]
WithSize(p, size) == [mem EXCEPT ![p - Header] = size]

Alloc(p, size) ==
  /\ Allocate(Chunk(p, size))
  /\ chunks' = chunks \cup {Chunk(p, size)}
  /\ mem' = WithSize(p, size)
  /\ req' = [req EXCEPT ![p] = size]
  /\ UNCHANGED mismatch

\* realloc of a size the block has room for: the header keeps the old size.
Fits(p, newSize) == newSize <= StoredSize(p)
ShrinkHeader(p, newSize) == WithSize(p, newSize)
Shrunk(p, newSize) == mem

ReallocInPlace(p, newSize) ==
  /\ p \in Held /\ Fits(p, newSize)
  /\ mem' = Shrunk(p, newSize)
  /\ req' = [req EXCEPT ![p] = newSize]
  /\ UNCHANGED <<chunks, mismatch>>

\* memcpy of the whole old block: newSize is the larger size.
CopiedShort(p) == StoredSize(p) - 1
Copied(p) == StoredSize(p)

\* alloc, memcpy, free.
ReallocMove(p, q, newSize) ==
  LET old == Chunk(p, StoredSize(p))
      new == Chunk(q, newSize)
  IN  /\ p \in Held /\ ~Fits(p, newSize)
      /\ Allocate(new)
      /\ mem' = [a \in DOMAIN mem |->
                   IF a \in q .. q + Copied(p) - 1 THEN mem[p + (a - q)]
                   ELSE WithSize(q, newSize)[a]]
      /\ chunks' = (chunks \cup {new}) \ {old}
      /\ mismatch' = (mismatch \/ old \notin chunks)
      /\ req' = [req EXCEPT ![p] = Null, ![q] = newSize]

Free(p) ==
  LET old == Chunk(p, StoredSize(p))
  IN  /\ p \in Held
      /\ chunks' = chunks \ {old}
      /\ mismatch' = (mismatch \/ old \notin chunks)
      /\ req' = [req EXCEPT ![p] = Null]
      /\ UNCHANGED mem

-----------------------------------------------------------------------------
(* Duktape uses the cells it asked for.                                    *)

Store(p, i, v) ==
  /\ p \in Held /\ i \in 1 .. req[p]
  /\ mem' = [mem EXCEPT ![p + i - 1] = v]
  /\ UNCHANGED <<chunks, req, mismatch>>

Next ==
  \E p \in Pointers :
    \/ \E n \in 0 .. MaxSize :
         \/ Alloc(p, n)
         \/ ReallocInPlace(p, n)
         \/ \E q \in Pointers : ReallocMove(p, q, n)
    \/ Free(p)
    \/ \E i \in 1 .. MaxSize, v \in Byte : Store(p, i, v)

Spec == Init /\ [][Next]_vars

-----------------------------------------------------------------------------
(* Properties.                                                             *)

TypeOK ==
  /\ mem \in [0 .. Memory - 1 -> Nat]
  /\ chunks \subseteq [addr : Nat, size : Nat]
  /\ req \in [Pointers -> 0 .. MaxSize \cup {Null}]
  /\ mismatch \in BOOLEAN

(***************************************************************************)
(* free and realloc give the C++ allocator back exactly what it handed     *)
(* out, address and size, whatever Duktape stored and however often a      *)
(* block was shrunk or grown.                                              *)
(***************************************************************************)
DeallocatedAsAllocated == ~mismatch

(***************************************************************************)
(* Nothing leaks: every chunk is the one of a pointer Duktape holds, and   *)
(* every header still gives the size of its chunk.                         *)
(***************************************************************************)
HeadersExact == chunks = {Chunk(p, StoredSize(p)) : p \in Held}

(***************************************************************************)
(* Duktape sees malloc, realloc and free: no block loses its contents to   *)
(* another one or to a header, and realloc preserves them.                 *)
(***************************************************************************)
contents ==
  [p \in Pointers |-> IF req[p] = Null THEN Null
                      ELSE [i \in 1 .. req[p] |-> mem[p + i - 1]]]

Abstract == INSTANCE CHeap WITH contents <- contents
ImplementsCHeap == Abstract!Spec
=============================================================================
